------------------------- MODULE ResnetAccelTopProps -------------------------
(***************************************************************************)
(* What makes the accelerator correct, as far as the variables of its       *)
(* components can tell: results, commands, registers, and the contract with *)
(* the driver.                                                              *)
(***************************************************************************)
EXTENDS ResnetAccelTop

(* When BUSY falls the driver already sees why: DONE if the output was      *)
(* delivered, a fatal error code otherwise.  There is no cycle with BUSY=0, *)
(* DONE=0 and ERROR=0 after an operation.                                   *)
BusyFallsWithResult ==
  [][Busy /\ ~Busy' =>
       IF state' = "COMPLETE" THEN done'
                              ELSE error' /\ error_code' \in FatalCodes]_vars

(* A START that was decoded while the accelerator was not locked is taken   *)
(* by the controller in the next cycle, with the configuration the          *)
(* registers had when it was decoded: no abort, framing error or reset      *)
(* release still under way can swallow it.                                  *)
StartIsTaken ==
  [][start_pulse => admission' /\ pending' = cfg /\ cfg' = cfg]_vars

(* From START to the end of the operation the configuration registers show  *)
(* the configuration that is validated and executed.                        *)
RegistersShowOperation ==
  /\ Busy => pending = cfg
  /\ state \in BusyStates => snap = cfg /\ Accepted(cfg)

(* The engines, the output streamer and their start pulses act only in the  *)
(* controller state they belong to, so the ports of the tensor buffers have *)
(* one user at a time and nothing is left running for the next operation.   *)
DatapathFollowsController ==
  /\ running \cup engine_start \cup engine_done # {} =>
       /\ state = "COMPUTE"
       /\ running \cup engine_start \cup engine_done = {EngineOf(snap.op)}
  /\ output_start \/ out_state # "OUT_IDLE" => state = "SEND_OUTPUT"
  /\ packet_start => state \in LoadStates

(* ABORT ends the operation without DONE (HW_SW_Interface 11.5): an operation *)
(* does not complete at the edge that records its ABORT, nor at the next.    *)
AbortedIsNotDone ==
  [][Busy /\ (abort_pulse \/ "ERR_ABORTED" \in axi_events') => state' # "COMPLETE"]_vars

(* START is accepted, and BUSY raised, only for a valid configuration       *)
(* (HW_SW_Interface 11.2).                                                  *)
BusyOnlyWhenAccepted == Busy => Accepted(pending)

-----------------------------------------------------------------------------
(* The accelerator implements the contract its driver relies on.            *)

PhaseOf ==
  CASE admission \/ ctl_events # {} -> "checking"
    [] state \in LoadStates         -> "loading"
    [] state = "COMPUTE"            -> "computing"
    [] state = "SEND_OUTPUT"        -> "sending"
    [] OTHER                        -> "idle"

PlanOf ==
  CASE state = "LOAD_WEIGHT" -> << "WEIGHT", "BIAS", "INPUT" >>
    [] state = "LOAD_BIAS"   -> << "BIAS", "INPUT" >>
    [] state = "LOAD_INPUT"  -> IF snap.op = OP_RESIDUAL_ADD
                                THEN << "INPUT", "SKIP" >> ELSE << "INPUT" >>
    [] state = "LOAD_SKIP"   -> << "SKIP" >>
    [] OTHER                 -> << >>

Contract == INSTANCE AccelContract
              WITH phase <- PhaseOf, plan <- PlanOf, code <- error_code

ImplementsContract == Contract!CSpec

-----------------------------------------------------------------------------
(* The inductive invariant of the accelerator, in named parts: what each     *)
(* component may be doing in each state of the controller.                   *)

(* A decoded command is a pulse of the cycle in which the response rises,   *)
(* and it was decoded with the lock of the cycle before: a START finds the  *)
(* controller at rest and no framing error on its way, and an ABORT that    *)
(* finds an operation to abort records it.                                  *)
CommandsInv ==
  /\ start_pulse \/ abort_pulse \/ done_clear \/ error_clear \/ axi_events # {}
       => bvalid
  /\ start_pulse => ~Busy /\ ~PacketError /\ state = "IDLE"
  /\ start_pulse => ~abort_pulse
  /\ "ERR_ABORTED" \in axi_events => abort_pulse
  /\ abort_pulse /\ Busy => "ERR_ABORTED" \in axi_events
  /\ state = "RESET" => ~bvalid /\ ~(aw_hold /\ w_hold)

(* The order of the stages; the three comparisons exclude each other.       *)
StageIndex ==
  [v \in CheckStages |->
     CASE v = "VAL_FIELDS"          -> 1
       [] v = "VAL_DIMS"            -> 2
       [] v = "VAL_INPUT_AREA"      -> 3
       [] v = "VAL_INPUT_CHANNELS"  -> 4
       [] v = "VAL_WEIGHT_CHANNELS" -> 5
       [] v = "VAL_OUTPUT_AREA"     -> 6
       [] v = "VAL_OUTPUT_CHANNELS" -> 7
       [] OTHER                     -> 8]

(* The validator is at a stage of the pending operation and has not passed  *)
(* the stage that turns it down; it is idle outside a validation, so the    *)
(* default branch that raises internal_error_event_o is never taken.        *)
ValidatorInv ==
  /\ admission <=> validator # "VAL_IDLE"
  /\ admission => state = "IDLE" /\ ctl_events = {} /\ ~cancel_pulse
  /\ validator \in CheckStages =>
       /\ validator \in Stages(pending.op)
       /\ \/ Accepted(pending)
          \/ StageIndex[validator] <= StageIndex[pending.rejectAt]
  /\ validator = "VAL_ACCEPT" => Accepted(pending)
  /\ validator = "VAL_REJECT" => ~Accepted(pending)
  /\ mul_running => validator \in MultiplyStages
  /\ ctl_events # {} => state = "IDLE"

(* A packet is announced, counted and reported in its load state; only a    *)
(* framing error is still seen in the idle state that follows an abort or    *)
(* another framing error.                                                   *)
LoaderInv ==
  /\ packet_start => state \in LoadStates /\ ~packet_done
  /\ packet_done => state \in LoadStates \cup {"IDLE"} /\ ~PacketError
  /\ packet_done /\ state = "IDLE" => cancel_pulse
  /\ PacketError => state \in LoadStates \/ (state = "IDLE" /\ cancel_pulse)
  /\ packet_start => ~PacketError
  /\ cancel_pulse => state = "IDLE" /\ ~admission /\ ctl_events = {}

(* The engine of the operation is started once, runs, and reports once.     *)
EngineInv ==
  /\ state = "COMPUTE" =>
       \/ engine_start = {EngineOf(snap.op)} /\ running = {} /\ engine_done = {}
       \/ engine_start = {} /\ running = {EngineOf(snap.op)} /\ engine_done = {}
       \/ engine_start = {} /\ running = {} /\ engine_done = {EngineOf(snap.op)}
  /\ state # "COMPUTE" => engine_start = {} /\ running = {} /\ engine_done = {}

(* The output streamer is started once, and offers a word of the output     *)
(* until the controller leaves SEND_OUTPUT or cancels.                      *)
StreamerInv ==
  /\ output_start => state = "SEND_OUTPUT" /\ out_state = "OUT_IDLE"
  /\ state = "SEND_OUTPUT" => output_start \/ out_state # "OUT_IDLE"
  /\ out_state # "OUT_IDLE" => state = "SEND_OUTPUT" /\ word_index < word_count

(* What is validated and executed is what the registers show.               *)
RegistersInv ==
  /\ Busy => pending = cfg
  /\ state \in BusyStates => snap = cfg /\ Accepted(snap)
  /\ state \in {"LOAD_WEIGHT", "LOAD_BIAS"} => snap.op = OP_CONV
  /\ state = "LOAD_SKIP" => snap.op = OP_RESIDUAL_ADD

(* A recorded code comes with the ERROR flag.                               *)
ErrorInv == error_code # "ERR_NONE" <=> error

IInv ==
  /\ TypeOK
  /\ CommandsInv
  /\ ValidatorInv
  /\ LoaderInv
  /\ EngineInv
  /\ StreamerInv
  /\ RegistersInv
  /\ ErrorInv
=============================================================================

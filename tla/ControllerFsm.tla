--------------------------- MODULE ControllerFsm ---------------------------
(***************************************************************************)
(* rtl/rtl/control/controller_fsm.sv: takes a START, validates a snapshot   *)
(* of the configuration over several cycles, then sequences the packets,    *)
(* the computation and the output of one operation.                         *)
(*                                                                          *)
(* The arithmetic of the validator is abstracted to the stage at which the  *)
(* configuration fails (rejectAt); a multiplication takes any number of     *)
(* cycles.  The default branches of the two case statements raise           *)
(* internal_error_event_o and have no action: an invariant shows that the   *)
(* validator always has a step (ValidatorInv, ResnetAccelTopProps).           *)
(***************************************************************************)
EXTENDS AccelPkg

VARIABLES
  state, admission,
  validator, mul_running, reject_operation,
  pending, snap,
  cancel_pulse, packet_start, engine_start, output_start, ctl_events,
  debug_latched, debug_state

validatorVars == << validator, mul_running, reject_operation >>
controllerVars == << state, admission, validator, mul_running,
                     reject_operation, pending, snap, cancel_pulse,
                     packet_start, engine_start, output_start, ctl_events,
                     debug_latched, debug_state >>

ControllerTypeOK ==
  /\ state \in ControllerStates
  /\ admission \in BOOLEAN
  /\ validator \in ValidatorStates
  /\ mul_running \in BOOLEAN
  /\ reject_operation \in BOOLEAN
  /\ pending \in Configs
  /\ snap \in Configs
  /\ cancel_pulse \in BOOLEAN
  /\ packet_start \in BOOLEAN
  /\ engine_start \subseteq Engines
  /\ output_start \in BOOLEAN
  /\ ctl_events \subseteq {"ERR_INVALID_OPERATION", "ERR_INVALID_CONFIG"}
  /\ debug_latched \in BOOLEAN
  /\ debug_state \in ControllerStates

ControllerInit ==
  /\ state = "RESET"
  /\ admission = FALSE
  /\ validator = "VAL_IDLE"
  /\ mul_running = FALSE
  /\ reject_operation = FALSE
  /\ pending = ResetConfig
  /\ snap = ResetConfig
  /\ cancel_pulse = FALSE
  /\ packet_start = FALSE
  /\ engine_start = {}
  /\ output_start = FALSE
  /\ ctl_events = {}
  /\ debug_latched = FALSE
  /\ debug_state = "IDLE"

-----------------------------------------------------------------------------
(* Combinational outputs.                                                   *)

(* Mutation: BUSY falls one cycle before the rejection is recorded.         *)
Busy_NoEvents == admission \/ state \in BusyStates

(* busy_o covers the cycle in which a rejection is reported, so that BUSY   *)
(* falls together with the rise of ERROR.                                   *)
Busy == admission \/ ctl_events # {} \/ state \in BusyStates

OperationDone(outputDone, abortPulse, packetError) ==
  state = "SEND_OUTPUT" /\ outputDone /\ ~abortPulse /\ ~packetError

PacketActive == state \in LoadStates

PacketSelect ==
  CASE state = "LOAD_WEIGHT" -> "WEIGHT"
    [] state = "LOAD_BIAS"   -> "BIAS"
    [] state = "LOAD_SKIP"   -> "SKIP"
    [] OTHER                 -> "INPUT"

ExpectedPacketBytes == snap.bytes[PacketSelect]

-----------------------------------------------------------------------------
(* Clock edges.  Outputs are pulses: off unless the step raises them.       *)

Outputs(cancel, packet, engines, output, events) ==
  /\ cancel_pulse' = cancel
  /\ packet_start' = packet
  /\ engine_start' = engines
  /\ output_start' = output
  /\ ctl_events' = events

NoOutputs == Outputs(FALSE, FALSE, {}, FALSE, {})

ClearDebug(debugClear) ==
  /\ debug_latched' = (debug_latched /\ ~debugClear)
  /\ UNCHANGED debug_state

DropValidation ==
  /\ admission' = FALSE
  /\ validator' = "VAL_IDLE"
  /\ mul_running' = FALSE
  /\ UNCHANGED reject_operation

LeaveReset(debugClear) ==
  /\ state = "RESET"
  /\ state' = "IDLE"
  /\ NoOutputs
  /\ ClearDebug(debugClear)
  /\ UNCHANGED << admission, validatorVars, pending, snap >>

Aborting(abortPulse) == abortPulse /\ Busy

(* Mutation: an abort during the validation leaves the admission standing.  *)
AbortOperation_KeepAdmission(debugClear) ==
  /\ state' = "IDLE"
  /\ validator' = "VAL_IDLE"
  /\ mul_running' = FALSE
  /\ UNCHANGED << admission, reject_operation >>
  /\ Outputs(TRUE, FALSE, {}, FALSE, {})
  /\ ClearDebug(debugClear)
  /\ UNCHANGED << pending, snap >>

AbortOperation(debugClear) ==
  /\ state' = "IDLE"
  /\ DropValidation
  /\ Outputs(TRUE, FALSE, {}, FALSE, {})
  /\ ClearDebug(debugClear)
  /\ UNCHANGED << pending, snap >>

(* A framing error ends the operation; for the two input packets the state  *)
(* it occurred in is latched for DEBUG_STATE.                               *)
FailPacket(debugClear) ==
  /\ state' = "IDLE"
  /\ DropValidation
  /\ Outputs(TRUE, FALSE, {}, FALSE, {})
  /\ IF state \in {"LOAD_INPUT", "LOAD_SKIP"}
     THEN debug_latched' = TRUE /\ debug_state' = state
     ELSE ClearDebug(debugClear)
  /\ UNCHANGED << pending, snap >>

-----------------------------------------------------------------------------
(* Validation of the pending configuration.                                 *)

NextStage(c, v) ==
  CASE v = "VAL_FIELDS" -> IF c.op = OP_CONV THEN "VAL_DIMS" ELSE "VAL_INPUT_AREA"
    [] v = "VAL_DIMS" -> "VAL_INPUT_AREA"
    [] v = "VAL_INPUT_AREA" -> "VAL_INPUT_CHANNELS"
    [] v = "VAL_INPUT_CHANNELS" ->
         (CASE c.op = OP_RESIDUAL_ADD    -> "VAL_RESIDUAL_COMPARE"
            [] c.op = OP_GLOBAL_AVG_POOL -> "VAL_GAP_COMPARE"
            [] OTHER                     -> "VAL_WEIGHT_CHANNELS")
    [] v = "VAL_WEIGHT_CHANNELS" -> "VAL_OUTPUT_AREA"
    [] v = "VAL_OUTPUT_AREA" -> "VAL_OUTPUT_CHANNELS"
    [] v = "VAL_OUTPUT_CHANNELS" -> "VAL_COMPARE"
    [] OTHER -> "VAL_ACCEPT"

Verdict(v) == IF pending.rejectAt = v THEN "VAL_REJECT" ELSE NextStage(pending, v)

ValidateStage ==
  /\ validator \in CheckStages \ MultiplyStages
  /\ validator' = Verdict(validator)
  /\ reject_operation' = IF validator = "VAL_FIELDS"
                         THEN pending.op = OP_OTHER ELSE reject_operation
  /\ mul_running' = IF validator \in CompareStages THEN mul_running ELSE FALSE
  /\ NoOutputs
  /\ UNCHANGED << state, admission, pending, snap, debug_state >>

MultiplyLoad ==
  /\ validator \in MultiplyStages /\ ~mul_running
  /\ mul_running' = TRUE
  /\ NoOutputs
  /\ UNCHANGED << state, admission, validator, reject_operation, pending,
                  snap, debug_state >>

MultiplyStep ==
  /\ validator \in MultiplyStages /\ mul_running
  /\ NoOutputs
  /\ UNCHANGED << state, admission, validatorVars, pending, snap, debug_state >>

MultiplyFinish ==
  /\ validator \in MultiplyStages /\ mul_running
  /\ mul_running' = FALSE
  /\ validator' = Verdict(validator)
  /\ NoOutputs
  /\ UNCHANGED << state, admission, reject_operation, pending, snap, debug_state >>

AcceptOperation ==
  /\ validator = "VAL_ACCEPT"
  /\ snap' = pending
  /\ state' = IF pending.op = OP_CONV THEN "LOAD_WEIGHT" ELSE "LOAD_INPUT"
  /\ validator' = "VAL_IDLE"
  /\ admission' = FALSE
  /\ Outputs(FALSE, TRUE, {}, FALSE, {})
  /\ UNCHANGED << mul_running, reject_operation, pending, debug_state >>

RejectOperation ==
  /\ validator = "VAL_REJECT"
  /\ state' = "IDLE"
  /\ DropValidation
  /\ Outputs(FALSE, FALSE, {}, FALSE,
             {IF reject_operation THEN "ERR_INVALID_OPERATION"
                                  ELSE "ERR_INVALID_CONFIG"})
  /\ UNCHANGED << pending, snap, debug_state >>

(* The acceptance of an operation also clears the debug latch.              *)
Validation(debugClear) ==
  /\ admission
  /\ debug_latched' = (debug_latched /\ ~debugClear /\ validator # "VAL_ACCEPT")
  /\ \/ ValidateStage
     \/ MultiplyLoad
     \/ MultiplyStep
     \/ MultiplyFinish
     \/ AcceptOperation
     \/ RejectOperation

-----------------------------------------------------------------------------
(* The operation itself.                                                    *)

TakeStart(cfgIn) ==
  /\ state \in {"IDLE", "COMPLETE"}
  /\ pending' = cfgIn
  /\ reject_operation' = FALSE
  /\ validator' = "VAL_FIELDS"
  /\ admission' = TRUE
  /\ mul_running' = FALSE
  /\ state' = "IDLE"
  /\ NoOutputs
  /\ UNCHANGED snap

Rest ==
  /\ state \in {"IDLE", "COMPLETE"}
  /\ state' = "IDLE"
  /\ NoOutputs
  /\ UNCHANGED << admission, validatorVars, pending, snap >>

AfterPacket ==
  CASE state = "LOAD_WEIGHT" -> "LOAD_BIAS"
    [] state = "LOAD_BIAS"   -> "LOAD_INPUT"
    [] state = "LOAD_INPUT" /\ snap.op = OP_RESIDUAL_ADD -> "LOAD_SKIP"
    [] OTHER                 -> "COMPUTE"

(* The end of a packet starts the next one, or the engine after the last.   *)
FinishPacket ==
  /\ state \in LoadStates
  /\ state' = AfterPacket
  /\ IF AfterPacket = "COMPUTE"
     THEN Outputs(FALSE, FALSE, {EngineOf(snap.op)}, FALSE, {})
     ELSE Outputs(FALSE, TRUE, {}, FALSE, {})
  /\ UNCHANGED << admission, validatorVars, pending, snap >>

FinishCompute ==
  /\ state = "COMPUTE"
  /\ state' = "SEND_OUTPUT"
  /\ Outputs(FALSE, FALSE, {}, TRUE, {})
  /\ UNCHANGED << admission, validatorVars, pending, snap >>

FinishOutput ==
  /\ state = "SEND_OUTPUT"
  /\ state' = "COMPLETE"
  /\ NoOutputs
  /\ UNCHANGED << admission, validatorVars, pending, snap >>

Await ==
  /\ state \in BusyStates
  /\ NoOutputs
  /\ UNCHANGED << state, admission, validatorVars, pending, snap >>

Operation(startPulse, cfgIn, packetDone, engineDone, outputDone, debugClear) ==
  /\ ~admission
  /\ ClearDebug(debugClear)
  /\ \/ startPulse /\ TakeStart(cfgIn)
     \/ ~startPulse /\ Rest
     \/ packetDone /\ FinishPacket
     \/ EngineOf(snap.op) \in engineDone /\ FinishCompute
     \/ outputDone /\ FinishOutput
     \/ /\ CASE state \in LoadStates  -> ~packetDone
             [] state = "COMPUTE"     -> EngineOf(snap.op) \notin engineDone
             [] state = "SEND_OUTPUT" -> ~outputDone
             [] OTHER                 -> FALSE
        /\ Await

(* One clock edge: an abort has priority over a framing error, and both     *)
(* over validation and the operation.                                       *)
ControllerClock(startPulse, abortPulse, debugClear, cfgIn, packetDone, packetError, engineDone, outputDone) ==
  \/ LeaveReset(debugClear)
  \/ state # "RESET" /\ Aborting(abortPulse) /\ AbortOperation(debugClear)
  \/ /\ state # "RESET" /\ ~Aborting(abortPulse) /\ packetError
     /\ FailPacket(debugClear)
  \/ /\ state # "RESET" /\ ~Aborting(abortPulse) /\ ~packetError
     /\ \/ Validation(debugClear)
        \/ Operation(startPulse, cfgIn, packetDone, engineDone, outputDone,
                     debugClear)
=============================================================================

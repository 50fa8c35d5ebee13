------------------------- MODULE ResnetAccelTopProofs -------------------------
(***************************************************************************)
(* Proofs about the accelerator, for every set of configurations and of     *)
(* writes that satisfies the assumptions of AxiLiteRegs: its control, its    *)
(* cycle counter and, for contents that satisfy DataAssumption, its data.    *)
(***************************************************************************)
EXTENDS ResnetAccelTopProps, ResnetAccelTopCycles, ResnetAccelTopData, WellFoundedInduction, TLAPS

USE DEF OP_CONV, OP_RESIDUAL_ADD, OP_GLOBAL_AVG_POOL, OP_OTHER, NoBeat

-----------------------------------------------------------------------------
(* Type correctness, component by component.                                *)

(* Whatever the lock, the write channel keeps its type: the held write is    *)
(* one the host can issue, so the registers hold a configuration.           *)
LEMMA AxiType ==
  ASSUME NEW lock \in BOOLEAN, AxiTypeOK, AxiClock(lock)
  PROVE  AxiTypeOK'
<1> USE ConfigsAssumption, WritesAssumption DEF AxiTypeOK
<1>1. CASE AxiIdle
  BY <1>1 DEF AxiIdle, NoPulse
<1>2. CASE AxiAcceptFirst
  BY <1>2 DEF AxiAcceptFirst, NoPulse
<1>3. CASE AxiAcceptSecond
  BY <1>3 DEF AxiAcceptSecond, NoPulse
<1>4. CASE AxiRespond
  BY <1>4 DEF AxiRespond, NoPulse
<1>5. CASE AxiDecode(lock)
  <2>1. wr.addr = "CONFIG" => wr.cfg \in Configs
    BY DEF NoWrite, WriteRecords
  <2>2. CASE DecodeControl(lock)
    <3>1. start_pulse' \in BOOLEAN /\ abort_pulse' \in BOOLEAN
      BY <2>2 DEF DecodeControl
    <3> QED BY <1>5, <2>2, <3>1 DEF AxiDecode, DecodeControl
  <2>3. CASE DecodeStatus
    <3>1. done_clear' \in BOOLEAN /\ error_clear' \in BOOLEAN
      BY <2>3 DEF DecodeStatus
    <3> QED BY <1>5, <2>3, <3>1 DEF AxiDecode, DecodeStatus
  <2>4. CASE DecodeConfig(lock)
    BY <1>5, <2>1, <2>4 DEF AxiDecode, DecodeConfig
  <2>5. CASE DecodeOther
    BY <1>5, <2>5 DEF AxiDecode, DecodeOther
  <2> QED BY <1>5, <2>2, <2>3, <2>4, <2>5 DEF AxiDecode
<1> QED BY <1>1, <1>2, <1>3, <1>4, <1>5 DEF AxiClock

(* The configurations the registers, the validator and the datapath hold    *)
(* are well-formed.                                                         *)
LEMMA WellFormedConfigs ==
  ASSUME TypeOK
  PROVE  WellFormed(cfg) /\ WellFormed(pending) /\ WellFormed(snap)
BY ConfigsAssumption DEF TypeOK, AxiTypeOK, ControllerTypeOK

LEMMA LoaderType ==
  ASSUME NEW start \in BOOLEAN, NEW expected \in Nat, NEW beat \in Beats \cup {NoBeat},
         LoaderTypeOK, LoaderClock(start, expected, beat)
  PROVE  LoaderTypeOK'
<1>1. CASE beat = NoBeat /\ LoaderWait(start)
  BY <1>1 DEF LoaderWait, LoaderTypeOK
<1>2. CASE LoaderCount(beat, expected)
  <2>1. tlast_error' \in BOOLEAN /\ packet_done' \in BOOLEAN
    BY <1>2, Zenon DEF LoaderCount
  <2>2. byte_count' = byte_count + 4 /\ packet_length_error' = FALSE
    BY <1>2, Zenon DEF LoaderCount
  <2>3. byte_count' \in Nat
    BY <2>2 DEF LoaderTypeOK
  <2> QED BY <2>1, <2>2, <2>3 DEF LoaderTypeOK
<1>3. CASE LoaderOverrun(beat, expected)
  BY <1>3 DEF LoaderOverrun, LoaderTypeOK
<1> QED BY <1>1, <1>2, <1>3 DEF LoaderClock

LEMMA EnginesType ==
  ASSUME NEW started \in SUBSET Engines, NEW abort \in BOOLEAN,
         EnginesTypeOK, EnginesClock(started, abort)
  PROVE  EnginesTypeOK'
<1>1. CASE EnginesAbort
  BY <1>1 DEF EnginesAbort, EnginesTypeOK
<1>2. CASE EnginesWork(started)
  BY <1>2 DEF EnginesWork, EnginesTypeOK, Engines
<1> QED BY <1>1, <1>2 DEF EnginesClock

LEMMA StreamerType ==
  ASSUME NEW start \in BOOLEAN, NEW abort \in BOOLEAN, NEW bytes \in Nat,
         NEW tready \in BOOLEAN, StreamerTypeOK,
         StreamerClock(start, abort, bytes, tready)
  PROVE  StreamerTypeOK'
BY DEF StreamerTypeOK, StreamerClock, StreamerAbort, StreamerStart, StreamerRead,
       StreamerSend, StreamerHold, OutStates, OutputValid, streamerVars

(* The code that is recorded is one of the events of the cycle, and a fatal *)
(* one if there is any.                                                     *)
LEMMA SelectedIsEvent ==
  ASSUME NEW events \in SUBSET ErrorEvents, events # {}
  PROVE  /\ SelectedCode(events) \in events
         /\ events \cap FatalCodes # {} => SelectedCode(events) \in FatalCodes
<1> DEFINE Hits == {k \in DOMAIN Priority : Priority[k] \in events}
<1>1. DOMAIN Priority = 1..10
  BY DEF Priority
<1>2. Hits \in SUBSET Nat /\ Hits # {}
  <2>1. PICK e \in ErrorEvents : e \in events
    OBVIOUS
  <2>2. \E k \in 1..10 : Priority[k] = e
    BY <2>1 DEF Priority, ErrorEvents, FatalCodes, WarningCodes
  <2> QED BY <1>1, <2>1, <2>2
<1>3. PICK k \in Hits : \A j \in Hits : k <= j
  <2> DEFINE Less == {p \in Nat \X Nat : p[1] < p[2]}
  <2>1. IsWellFoundedOn(Less, Nat)
    BY NatLessThanWellFounded DEF OpToRel
  <2>2. \E k \in Hits : \A j \in Hits : << j, k >> \notin Less
    BY <1>2, <2>1, WFMin
  <2>3. PICK k \in Hits : \A j \in Hits : << j, k >> \notin Less
    BY <2>2
  <2>4. ASSUME NEW j \in Hits PROVE k <= j
    <3>1. j \in Nat /\ k \in Nat /\ << j, k >> \notin Less
      BY <1>2, <2>3
    <3>2. ~(j < k)
      BY <3>1
    <3> QED BY <3>1, <3>2
  <2> QED BY <2>4
<1>4. Priority[k] \in events /\ \A j \in 1..(k - 1) : Priority[j] \notin events
  BY <1>1, <1>3
<1>5. PICK i \in DOMAIN Priority :
        /\ Priority[i] \in events /\ \A j \in 1..(i - 1) : Priority[j] \notin events
        /\ SelectedCode(events) = Priority[i]
  BY <1>3, <1>4 DEF SelectedCode
<1>6. events \cap FatalCodes # {} => Priority[i] \in FatalCodes
  <2>1. SUFFICES ASSUME NEW f \in events, f \in FatalCodes
                 PROVE  Priority[i] \in FatalCodes
    OBVIOUS
  <2>2. PICK j \in 1..6 : Priority[j] = f
    BY <2>1 DEF Priority, FatalCodes
  <2>3. i <= j
    BY <1>1, <1>5, <2>1, <2>2
  <2> QED BY <1>1, <2>2, <2>3 DEF Priority, FatalCodes
<1> QED BY <1>5, <1>6

LEMMA ErrType ==
  ASSUME NEW doneClear \in BOOLEAN, NEW errorClear \in BOOLEAN,
         NEW operationDone \in BOOLEAN, NEW events \in SUBSET ErrorEvents,
         ErrTypeOK, ErrClock(doneClear, errorClear, operationDone, events)
  PROVE  ErrTypeOK'
<1>1. done' \in BOOLEAN /\ error' \in BOOLEAN
  BY DEF ErrClock, ErrTypeOK
<1>2. error_code' \in ErrorCodes
  <2>1. error_code' \in {"ERR_NONE", error_code} \/ (events # {} /\ error_code' = SelectedCode(events))
    BY Zenon DEF ErrClock
  <2> QED BY <2>1, SelectedIsEvent DEF ErrTypeOK, ErrorCodes
<1> QED BY <1>1, <1>2 DEF ErrTypeOK

(* The controller, action by action.                                        *)
LEMMA ControllerType ==
  ASSUME NEW out \in BOOLEAN, TypeOK,
         ControllerClock(start_pulse, abort_pulse, error_clear, cfg, packet_done,
                         PacketError, engine_done, out)
  PROVE  ControllerTypeOK'
<1> USE DEF ControllerTypeOK, ControllerStates, BusyStates, LoadStates, QuietStates,
            ValidatorStates, CheckStages, MultiplyStages, CompareStages,
            Outputs, NoOutputs, DropValidation, validatorVars
<1>0. ControllerTypeOK /\ error_clear \in BOOLEAN /\ cfg \in Configs
  BY DEF TypeOK, AxiTypeOK
<1>1. CASE LeaveReset(error_clear)
  BY <1>0, <1>1 DEF LeaveReset, ClearDebug
<1>2. CASE AbortOperation(error_clear)
  BY <1>0, <1>2 DEF AbortOperation, ClearDebug
<1>3. CASE FailPacket(error_clear)
  BY <1>0, <1>3 DEF FailPacket, ClearDebug
<1>4. CASE Validation(error_clear)
  <2>1. debug_latched' \in BOOLEAN
    BY <1>0, <1>4 DEF Validation
  <2>2. Verdict(validator) \in ValidatorStates
    BY <1>0 DEF Verdict, NextStage
  <2>3. CASE ValidateStage
    <3>1. reject_operation' \in BOOLEAN /\ mul_running' \in BOOLEAN
      BY <1>0, <2>3 DEF ValidateStage
    <3>2. validator' \in ValidatorStates
      BY <1>0, <2>2, <2>3 DEF ValidateStage
    <3>3. ValidateStage => NoOutputs /\ UNCHANGED << state, admission, pending, snap, debug_state >>
      BY Zenon DEF ValidateStage
    <3> QED BY <1>0, <2>1, <2>3, <3>1, <3>2, <3>3
  <2>4. CASE MultiplyLoad
    BY <1>0, <2>1, <2>4 DEF MultiplyLoad
  <2>5. CASE MultiplyStep
    BY <1>0, <2>1, <2>5 DEF MultiplyStep
  <2>6. CASE MultiplyFinish
    BY <1>0, <2>1, <2>2, <2>6 DEF MultiplyFinish
  <2>7. CASE AcceptOperation
    BY <1>0, <2>1, <2>7 DEF AcceptOperation
  <2>8. CASE RejectOperation
    BY <1>0, <2>1, <2>8 DEF RejectOperation
  <2> QED BY <1>0, <1>4, <2>3, <2>4, <2>5, <2>6, <2>7, <2>8 DEF Validation
<1>5. CASE Operation(start_pulse, cfg, packet_done, engine_done, out, error_clear)
  <2>1. debug_latched' \in BOOLEAN /\ debug_state' = debug_state
    BY <1>0, <1>5 DEF Operation, ClearDebug
  <2>2. AfterPacket \in ControllerStates /\ EngineOf(snap.op) \in Engines
    BY <1>0 DEF AfterPacket, EngineOf, Engines
  <2>3. CASE TakeStart(cfg)
    BY <1>0, <2>1, <2>3 DEF TakeStart
  <2>4. CASE Rest
    BY <1>0, <2>1, <2>4 DEF Rest
  <2>5. CASE FinishPacket
    <3>1. /\ engine_start' \in SUBSET Engines /\ packet_start' \in BOOLEAN
          /\ cancel_pulse' = FALSE /\ output_start' = FALSE /\ ctl_events' = {}
      BY <1>0, <2>2, <2>5 DEF FinishPacket
    <3>2. state' \in ControllerStates
      BY <1>0, <2>2, <2>5 DEF FinishPacket
    <3>3. FinishPacket => UNCHANGED << admission, validatorVars, pending, snap >>
      BY Zenon DEF FinishPacket
    <3> QED BY <1>0, <2>1, <2>5, <3>1, <3>2, <3>3
  <2>6. CASE FinishCompute
    BY <1>0, <2>1, <2>6 DEF FinishCompute
  <2>7. CASE FinishOutput
    BY <1>0, <2>1, <2>7 DEF FinishOutput
  <2>8. CASE Await
    BY <1>0, <2>1, <2>8 DEF Await
  <2> QED BY <1>0, <1>5, <2>3, <2>4, <2>5, <2>6, <2>7, <2>8 DEF Operation
<1> QED BY <1>0, <1>1, <1>2, <1>3, <1>4, <1>5 DEF ControllerClock

(* The wires between the components have the types their readers expect.    *)
LEMMA WireTypes ==
  ASSUME TypeOK, NEW beat \in BeatsNow, NEW tready \in TreadyNow
  PROVE  /\ beat \in Beats \cup {NoBeat} /\ tready \in BOOLEAN
         /\ Busy \in BOOLEAN /\ PacketError \in BOOLEAN /\ EngineAbort \in BOOLEAN
         /\ ExpectedPacketBytes \in Nat /\ snap.output \in Nat
         /\ OutputDone(tready) \in BOOLEAN
         /\ OperationDone(OutputDone(tready), abort_pulse, PacketError) \in BOOLEAN
         /\ Events \in SUBSET ErrorEvents
<1>1. beat \in Beats \cup {NoBeat} /\ tready \in BOOLEAN
  BY DEF BeatsNow, TreadyNow, Beats
<1>2. Busy \in BOOLEAN /\ PacketError \in BOOLEAN /\ EngineAbort \in BOOLEAN
  BY Zenon DEF Busy, PacketError, EngineAbort
<1>3. ExpectedPacketBytes \in Nat /\ snap.output \in Nat
  <2>1. snap \in ConfigRecords
    BY WellFormedConfigs DEF WellFormed
  <2>2. PacketSelect \in Packets
    BY DEF PacketSelect, Packets
  <2> QED BY <2>1, <2>2 DEF ConfigRecords, ExpectedPacketBytes
<1>4. /\ OutputDone(tready) \in BOOLEAN
      /\ OperationDone(OutputDone(tready), abort_pulse, PacketError) \in BOOLEAN
  BY Zenon DEF OutputDone, OperationDone
<1>5. Events \in SUBSET ErrorEvents
  BY DEF Events, TypeOK, AxiTypeOK, ControllerTypeOK, ErrorEvents, FatalCodes, WarningCodes
<1> QED BY <1>1, <1>2, <1>3, <1>4, <1>5

LEMMA TypeStep ==
  ASSUME TypeOK, [Next]_vars
  PROVE  TypeOK'
<1>1. CASE UNCHANGED vars
  BY <1>1 DEF vars, TypeOK, axiVars, AxiTypeOK, controllerVars, ControllerTypeOK,
     loaderVars, LoaderTypeOK, engineVars, EnginesTypeOK, streamerVars, StreamerTypeOK,
     errVars, ErrTypeOK
<1>2. CASE Next
  <2>1. PICK beat \in BeatsNow, tready \in TreadyNow : ClockEdge(beat, tready)
    BY <1>2 DEF Next
  <2> DEFINE out == OutputDone(tready)
             fin == OperationDone(out, abort_pulse, PacketError)
  <2>2. /\ beat \in Beats \cup {NoBeat} /\ tready \in BOOLEAN
        /\ Busy \in BOOLEAN /\ PacketError \in BOOLEAN /\ EngineAbort \in BOOLEAN
        /\ ExpectedPacketBytes \in Nat /\ snap.output \in Nat
        /\ out \in BOOLEAN /\ fin \in BOOLEAN /\ Events \in SUBSET ErrorEvents
    BY WireTypes
  <2>3. /\ start_pulse \in BOOLEAN /\ abort_pulse \in BOOLEAN
        /\ done_clear \in BOOLEAN /\ error_clear \in BOOLEAN /\ cfg \in Configs
        /\ packet_start \in BOOLEAN /\ output_start \in BOOLEAN /\ packet_done \in BOOLEAN
        /\ engine_start \in SUBSET Engines /\ engine_done \in SUBSET Engines
    BY DEF TypeOK, AxiTypeOK, ControllerTypeOK, LoaderTypeOK, EnginesTypeOK
  <2> HIDE DEF out, fin
  <2>4. AxiTypeOK'
    BY <2>1, <2>2, AxiType DEF TypeOK, ClockEdge, CommandLock
  <2>5. ControllerTypeOK'
    <3>1. ControllerClock(start_pulse, abort_pulse, error_clear, cfg, packet_done,
                          PacketError, engine_done, out)
      BY <2>1 DEF ClockEdge, out
    <3>2. ControllerTypeOK
      BY DEF TypeOK
    <3> QED BY <2>2, <2>3, <3>1, <3>2, ControllerType
  <2>6. LoaderTypeOK'
    BY <2>1, <2>2, <2>3, LoaderType DEF TypeOK, ClockEdge
  <2>7. EnginesTypeOK'
    BY <2>1, <2>2, <2>3, EnginesType DEF TypeOK, ClockEdge
  <2>8. StreamerTypeOK'
    BY <2>1, <2>2, <2>3, StreamerType DEF TypeOK, ClockEdge
  <2>9. ErrTypeOK'
    BY <2>1, <2>2, <2>3, ErrType DEF TypeOK, ClockEdge, out, fin
  <2> QED BY <2>4, <2>5, <2>6, <2>7, <2>8, <2>9 DEF TypeOK
<1> QED BY <1>1, <1>2

LEMMA TypeInit == Init => TypeOK
<1> SUFFICES ASSUME Init PROVE TypeOK
  OBVIOUS
<1>1. AxiTypeOK
  BY ConfigsAssumption DEF Init, AxiInit, AxiTypeOK
<1>2. ControllerTypeOK
  BY ConfigsAssumption DEF Init, ControllerInit, ControllerTypeOK, ControllerStates,
     QuietStates, ValidatorStates
<1>3. LoaderTypeOK /\ EnginesTypeOK /\ StreamerTypeOK /\ ErrTypeOK
  BY DEF Init, LoaderInit, LoaderTypeOK, EnginesInit, EnginesTypeOK, StreamerInit,
     StreamerTypeOK, OutStates, ErrInit, ErrTypeOK, ErrorCodes
<1> QED BY <1>1, <1>2, <1>3 DEF TypeOK

(* Every register keeps its type; in particular every configuration the     *)
(* validator and the datapath work on is one the host could write, and only  *)
(* one of the defined error codes is ever reported.                         *)
THEOREM TypeCorrect == Spec => []TypeOK
BY TypeInit, TypeStep, PTL DEF Spec

-----------------------------------------------------------------------------
(* The inductive invariant.                                                 *)

(* A step of the controller as the other components see it.                 *)
Undisturbed == state # "RESET" /\ ~(abort_pulse /\ Busy) /\ ~PacketError

Cancels ==
  /\ state # "RESET" /\ ((abort_pulse /\ Busy) \/ PacketError)
  /\ state' = "IDLE" /\ DropValidation
  /\ Outputs(TRUE, FALSE, {}, FALSE, {})
  /\ UNCHANGED << pending, snap >>

Checks == ValidateStage \/ MultiplyLoad \/ MultiplyStep \/ MultiplyFinish

Waits(out) ==
  /\ state \in LoadStates => ~packet_done
  /\ state = "COMPUTE" => EngineOf(snap.op) \notin engine_done
  /\ state = "SEND_OUTPUT" => ~out
  /\ Await

Moves(out) ==
  \/ LeaveReset(error_clear)
  \/ Cancels
  \/ Undisturbed /\ admission /\ (Checks \/ AcceptOperation \/ RejectOperation)
  \/ /\ Undisturbed /\ ~admission
     /\ \/ start_pulse /\ TakeStart(cfg)
        \/ ~start_pulse /\ Rest
        \/ packet_done /\ FinishPacket
        \/ EngineOf(snap.op) \in engine_done /\ FinishCompute
        \/ out /\ FinishOutput
        \/ Waits(out)

(* Every clock edge of the controller is one of these moves.                *)
LEMMA ControllerMoves ==
  ASSUME NEW out \in BOOLEAN, TypeOK,
         ControllerClock(start_pulse, abort_pulse, error_clear, cfg, packet_done,
                         PacketError, engine_done, out)
  PROVE  Moves(out)
<1>1. CASE LeaveReset(error_clear)
  BY <1>1 DEF Moves
<1>2. CASE state # "RESET" /\ Aborting(abort_pulse) /\ AbortOperation(error_clear)
  BY <1>2 DEF Moves, Cancels, Aborting, AbortOperation
<1>3. CASE /\ state # "RESET" /\ ~Aborting(abort_pulse) /\ PacketError
           /\ FailPacket(error_clear)
  BY <1>3 DEF Moves, Cancels, FailPacket
<1>4. CASE /\ state # "RESET" /\ ~Aborting(abort_pulse) /\ ~PacketError
           /\ Validation(error_clear)
  BY <1>4, Zenon DEF Moves, Undisturbed, Aborting, Validation, Checks
<1>5. CASE /\ state # "RESET" /\ ~Aborting(abort_pulse) /\ ~PacketError
           /\ Operation(start_pulse, cfg, packet_done, engine_done, out, error_clear)
  <2>1. Undisturbed /\ ~admission
    BY <1>5, Zenon DEF Undisturbed, Aborting, Operation
  <2>2. ASSUME /\ CASE state \in LoadStates  -> ~packet_done
                     [] state = "COMPUTE"     -> EngineOf(snap.op) \notin engine_done
                     [] state = "SEND_OUTPUT" -> ~out
                     [] OTHER                 -> FALSE
               /\ Await
        PROVE  Waits(out)
    BY <2>2 DEF Waits, LoadStates
  <2> QED BY <1>5, <2>1, <2>2, Zenon DEF Operation, Moves
<1> QED BY <1>1, <1>2, <1>3, <1>4, <1>5, Zenon DEF ControllerClock

LEMMA ChecksFrame ==
  ASSUME Checks
  PROVE  NoOutputs /\ UNCHANGED << state, admission, pending, snap >>
BY Zenon DEF Checks, ValidateStage, MultiplyLoad, MultiplyStep, MultiplyFinish

(* The moves and the other clocks of one step.                              *)
LEMMA EdgeMoves ==
  ASSUME TypeOK, NEW beat \in BeatsNow, NEW tready \in TreadyNow, ClockEdge(beat, tready)
  PROVE  /\ Moves(OutputDone(tready))
         /\ AxiClock(Busy)
         /\ LoaderClock(packet_start, ExpectedPacketBytes, beat)
         /\ EnginesClock(engine_start, EngineAbort)
         /\ StreamerClock(output_start, EngineAbort, snap.output, tready)
<1> DEFINE out == OutputDone(tready)
<1>1. out \in BOOLEAN
  BY WireTypes
<1>2. ControllerClock(start_pulse, abort_pulse, error_clear, cfg, packet_done,
                      PacketError, engine_done, out)
  BY DEF ClockEdge
<1> HIDE DEF out
<1>3. Moves(out)
  BY <1>1, <1>2, ControllerMoves
<1> QED BY <1>3 DEF ClockEdge, CommandLock, out

(* The stages of an operation are visited in their order: the next one is a *)
(* stage of the operation too, and no stage of it lies in between.          *)
LEMMA StageOrder ==
  ASSUME NEW c, WellFormed(c), NEW v \in Stages(c.op), c.rejectAt # v,
         Accepted(c) \/ StageIndex[v] <= StageIndex[c.rejectAt]
  PROVE  /\ NextStage(c, v) \in Stages(c.op) \cup {"VAL_ACCEPT"}
         /\ NextStage(c, v) \in CheckStages =>
              Accepted(c) \/ StageIndex[NextStage(c, v)] <= StageIndex[c.rejectAt]
         /\ NextStage(c, v) = "VAL_ACCEPT" => Accepted(c)
<1> USE DEF Stages, MultiplyStages, CheckStages, CompareStages
<1>1. CASE c.op = OP_CONV
  BY <1>1 DEF NextStage, StageIndex, Accepted, WellFormed
<1>2. CASE c.op = OP_RESIDUAL_ADD
  BY <1>2 DEF NextStage, StageIndex, Accepted, WellFormed
<1>3. CASE c.op = OP_GLOBAL_AVG_POOL
  BY <1>3 DEF NextStage, StageIndex, Accepted, WellFormed
<1>4. CASE c.op = OP_OTHER
  BY <1>4 DEF NextStage, StageIndex, Accepted, WellFormed, Operations
<1> QED BY <1>1, <1>2, <1>3, <1>4 DEF WellFormed, ConfigRecords, Operations

LEMMA ValidatorInvStep ==
  ASSUME IInv, NEW out \in BOOLEAN, Moves(out)
  PROVE  ValidatorInv'
<1> USE DEF ValidatorInv, Outputs, NoOutputs, DropValidation, validatorVars
<1>0. /\ ValidatorInv /\ WellFormed(pending) /\ validator \in ValidatorStates
      /\ admission \in BOOLEAN
  BY WellFormedConfigs DEF IInv, TypeOK, ControllerTypeOK
<1>1. CASE LeaveReset(error_clear)
  BY <1>0, <1>1 DEF LeaveReset
<1>2. CASE Cancels
  BY <1>2 DEF Cancels, CheckStages, MultiplyStages, CompareStages
<1>3. CASE admission /\ Checks
  <2>1. NoOutputs /\ UNCHANGED << state, admission, pending, snap >>
    BY <1>3, ChecksFrame
  <2>2. CASE validator' = validator
    <3>1. mul_running' => validator \in MultiplyStages
      BY <1>0, <1>3, <2>2 DEF Checks, ValidateStage, MultiplyLoad, MultiplyStep, MultiplyFinish
    <3> QED BY <1>0, <1>3, <2>1, <2>2, <3>1
  <2>3. CASE validator' # validator
    <3>1. validator \in CheckStages /\ validator' = Verdict(validator) /\ ~mul_running'
      BY <1>0, <1>3, <2>3 DEF Checks, ValidateStage, MultiplyLoad, MultiplyStep,
         MultiplyFinish, CheckStages, MultiplyStages, CompareStages
    <3>2. CASE pending.rejectAt = validator
      BY <1>0, <1>3, <2>1, <3>1, <3>2 DEF Verdict, Accepted, CheckStages, MultiplyStages, CompareStages
    <3>3. CASE pending.rejectAt # validator
      BY <1>0, <1>3, <2>1, <3>1, <3>3, StageOrder
         DEF Verdict, CheckStages, MultiplyStages, CompareStages, Stages
    <3> QED BY <3>2, <3>3
  <2> QED BY <2>2, <2>3
<1>4. CASE admission /\ AcceptOperation
  BY <1>0, <1>4 DEF AcceptOperation, CheckStages, MultiplyStages, CompareStages
<1>5. CASE admission /\ RejectOperation
  BY <1>0, <1>5 DEF RejectOperation, CheckStages, MultiplyStages, CompareStages
<1>6. CASE ~admission /\ start_pulse /\ TakeStart(cfg)
  BY <1>6, WellFormedConfigs DEF IInv, TakeStart, CheckStages, MultiplyStages, CompareStages,
     Stages, StageIndex, WellFormed, Accepted
<1>7. CASE ~admission /\ (Rest \/ FinishPacket \/ FinishCompute \/ FinishOutput \/ Waits(out))
  <2>1. /\ UNCHANGED << admission, validatorVars, pending, snap >> /\ ctl_events' = {}
    BY <1>7 DEF Rest, FinishPacket, FinishCompute, FinishOutput, Waits, Await
  <2> QED BY <1>0, <1>7, <2>1
<1> QED BY <1>1, <1>2, <1>3, <1>4, <1>5, <1>6, <1>7, Zenon DEF Moves

LEMMA LoaderInvStep ==
  ASSUME IInv, NEW beat \in BeatsNow, NEW out \in BOOLEAN, Moves(out),
         LoaderClock(packet_start, ExpectedPacketBytes, beat)
  PROVE  LoaderInv'
<1> USE DEF LoaderInv, Outputs, NoOutputs, DropValidation, PacketError
<1>0. LoaderInv /\ ValidatorInv /\ LoaderTypeOK /\ ControllerTypeOK
  BY DEF IInv, TypeOK
(* What the loader does, and when it can report at all.                     *)
<1>1. /\ packet_done' => ~packet_length_error' /\ ~tlast_error'
      /\ packet_done' \/ packet_length_error' \/ tlast_error' =>
           state \in LoadStates /\ ~packet_start /\ ~packet_done
  BY <1>0 DEF LoaderClock, LoaderWait, LoaderCount, LoaderOverrun, LoaderTypeOK,
     BeatsNow, InputReady, PacketActive, Beats
<1>2. CASE LeaveReset(error_clear)
  BY <1>0, <1>1, <1>2 DEF LeaveReset, LoadStates
<1>3. CASE Cancels
  BY <1>0, <1>1, <1>3 DEF Cancels
<1>4. CASE admission /\ Checks
  BY <1>0, <1>1, <1>4, ChecksFrame DEF LoadStates, ValidatorInv
<1>5. CASE admission /\ AcceptOperation
  BY <1>0, <1>1, <1>5 DEF AcceptOperation, LoadStates, ValidatorInv
<1>6. CASE admission /\ RejectOperation
  BY <1>0, <1>1, <1>6 DEF RejectOperation, LoadStates, ValidatorInv
<1>7. CASE TakeStart(cfg) \/ Rest
  BY <1>0, <1>1, <1>7 DEF TakeStart, Rest, LoadStates
<1>8. CASE packet_done /\ FinishPacket
  <2>1. /\ cancel_pulse' = FALSE
        /\ packet_start' => state' \in LoadStates
    BY <1>8 DEF FinishPacket, AfterPacket, LoadStates
  <2> QED BY <1>1, <1>8, <2>1
<1>9. CASE FinishCompute \/ FinishOutput \/ Waits(out)
  BY <1>0, <1>1, <1>9 DEF FinishCompute, FinishOutput, Waits, Await, LoadStates
<1> QED BY <1>2, <1>3, <1>4, <1>5, <1>6, <1>7, <1>8, <1>9, Zenon DEF Moves

LEMMA EngineInvStep ==
  ASSUME IInv, NEW out \in BOOLEAN, Moves(out),
         EnginesClock(engine_start, EngineAbort)
  PROVE  EngineInv'
<1> USE DEF EngineInv, Outputs, NoOutputs, DropValidation
<1>0. EngineInv /\ ValidatorInv /\ LoaderInv /\ EnginesTypeOK /\ ControllerTypeOK
  BY DEF IInv, TypeOK
(* Outside COMPUTE nothing runs, so only a start pulse could set off an     *)
(* engine, and that comes with COMPUTE.                                     *)
<1>1. state # "COMPUTE" => running' = {} /\ engine_done' = {}
  BY <1>0 DEF EnginesClock, EnginesAbort, EnginesWork
<1>2. CASE LeaveReset(error_clear)
  BY <1>0, <1>1, <1>2 DEF LeaveReset
<1>3. CASE Cancels
  <2>1. state = "COMPUTE" => EngineAbort
    BY <1>0, <1>3 DEF Cancels, EngineAbort, LoaderInv, LoadStates
  <2>2. EngineAbort => running' = {} /\ engine_done' = {}
    BY DEF EnginesClock, EnginesAbort
  <2> QED BY <1>1, <1>3, <2>1, <2>2 DEF Cancels
<1>4. CASE admission /\ (Checks \/ AcceptOperation \/ RejectOperation)
  <2>1. state = "IDLE"
    BY <1>0, <1>4 DEF ValidatorInv
  <2>2. state' # "COMPUTE" /\ engine_start' = {}
    BY <1>4, <2>1, ChecksFrame DEF AcceptOperation, RejectOperation
  <2> QED BY <1>1, <2>1, <2>2
<1>5. CASE TakeStart(cfg) \/ Rest \/ FinishOutput
  BY <1>1, <1>5 DEF TakeStart, Rest, FinishOutput
<1>6. CASE FinishPacket
  BY <1>1, <1>6 DEF FinishPacket, AfterPacket, LoadStates
<1>7. CASE EngineOf(snap.op) \in engine_done /\ FinishCompute
  <2>1. engine_start = {} /\ running = {}
    BY <1>0, <1>7 DEF FinishCompute
  <2>2. running' = {} /\ engine_done' = {}
    BY <2>1 DEF EnginesClock, EnginesAbort, EnginesWork
  <2> QED BY <1>7, <2>2 DEF FinishCompute
<1>8. CASE Undisturbed /\ Waits(out)
  <2>1. state' = state /\ snap' = snap /\ engine_start' = {}
    BY <1>8 DEF Waits, Await
  <2>2. CASE state # "COMPUTE"
    BY <1>1, <2>1, <2>2
  <2>3. CASE state = "COMPUTE"
    <3>1. ~EngineAbort /\ engine_done = {}
      BY <1>0, <1>8, <2>3 DEF Waits, Undisturbed, EngineAbort, LoaderInv
    <3>2. PICK finished \in SUBSET running :
            /\ running' = (running \ finished) \cup (engine_start \ running)
            /\ engine_done' = finished
      BY <3>1 DEF EnginesClock, EnginesWork
    <3>3. CASE engine_start = {EngineOf(snap.op)} /\ running = {}
      BY <2>1, <2>3, <3>2, <3>3
    <3>4. CASE engine_start = {} /\ running = {EngineOf(snap.op)}
      <4>1. finished = {} \/ finished = {EngineOf(snap.op)}
        BY <3>2, <3>4
      <4> QED BY <2>1, <2>3, <3>2, <3>4, <4>1
    <3> QED BY <1>0, <2>3, <3>1, <3>3, <3>4
  <2> QED BY <2>2, <2>3
<1> QED BY <1>2, <1>3, <1>4, <1>5, <1>6, <1>7, <1>8, Zenon DEF Moves

LEMMA StreamerInvStep ==
  ASSUME IInv, NEW tready \in TreadyNow, Moves(OutputDone(tready)),
         StreamerClock(output_start, EngineAbort, snap.output, tready)
  PROVE  StreamerInv'
<1> DEFINE out == OutputDone(tready)
<1> USE DEF StreamerInv, Outputs, NoOutputs, DropValidation
<1>0. /\ StreamerInv /\ ValidatorInv /\ LoaderInv /\ RegistersInv
      /\ StreamerTypeOK /\ ControllerTypeOK /\ WellFormed(snap) /\ Moves(out)
  BY WellFormedConfigs DEF IInv, TypeOK
<1> HIDE DEF out
<1>1. state # "SEND_OUTPUT" => out_state' = "OUT_IDLE"
  BY <1>0 DEF StreamerClock, StreamerAbort, StreamerStart, StreamerRead, StreamerSend,
     StreamerHold, OutputValid, streamerVars
<1>2. CASE LeaveReset(error_clear)
  BY <1>0, <1>1, <1>2 DEF LeaveReset
<1>3. CASE Cancels
  <2>1. state = "SEND_OUTPUT" => EngineAbort
    BY <1>0, <1>3 DEF Cancels, EngineAbort, LoaderInv, LoadStates
  <2>2. EngineAbort => out_state' = "OUT_IDLE"
    BY <1>0 DEF StreamerClock, StreamerAbort
  <2> QED BY <1>1, <1>3, <2>1, <2>2 DEF Cancels
<1>4. CASE admission /\ (Checks \/ AcceptOperation \/ RejectOperation)
  <2>1. state = "IDLE"
    BY <1>0, <1>4 DEF ValidatorInv
  <2>2. state' # "SEND_OUTPUT" /\ ~output_start'
    BY <1>4, <2>1, ChecksFrame DEF AcceptOperation, RejectOperation
  <2> QED BY <1>1, <2>1, <2>2
<1>5. CASE TakeStart(cfg) \/ Rest
  BY <1>1, <1>5 DEF TakeStart, Rest
<1>6. CASE FinishPacket
  BY <1>1, <1>6 DEF FinishPacket, AfterPacket, LoadStates
<1>7. CASE FinishCompute
  BY <1>1, <1>7 DEF FinishCompute
(* The last handshake returns both state machines to rest in the same cycle: *)
(* tlast and the comparison of index + 1 with the count agree.              *)
<1>8. CASE out /\ FinishOutput
  <2>1. word_index \in Nat /\ word_count \in Nat
    BY <1>0 DEF StreamerTypeOK
  <2>2. out_state = "OUT_SEND" /\ tready /\ word_index + 1 = word_count
    BY <1>8, <2>1 DEF out, OutputDone, OutputValid, OutputLast
  <2>3. out_state' = "OUT_IDLE"
    BY <1>0, <2>2 DEF StreamerClock, StreamerAbort, StreamerStart, StreamerRead,
       StreamerSend, StreamerHold, OutputValid
  <2> QED BY <1>8, <2>3 DEF FinishOutput
<1>9. CASE Undisturbed /\ Waits(out)
  <2>1. state' = state /\ ~output_start'
    BY <1>9 DEF Waits, Await
  <2>2. CASE state # "SEND_OUTPUT"
    BY <1>1, <2>1, <2>2
  <2>3. CASE state = "SEND_OUTPUT"
    <3>1. ~EngineAbort
      BY <1>0, <1>9, <2>3 DEF Undisturbed, EngineAbort, LoaderInv
    <3>2. word_index \in Nat /\ word_count \in Nat /\ snap.output \in Nat /\ snap.output >= 4
      BY <1>0, <2>3 DEF StreamerTypeOK, WellFormed, WordCount, ConfigRecords,
         RegistersInv, BusyStates
    <3>3. CASE output_start /\ StreamerStart(snap.output)
      BY <2>1, <2>3, <3>2, <3>3 DEF StreamerStart
    <3>4. CASE StreamerRead
      BY <1>0, <2>1, <2>3, <3>4 DEF StreamerRead
    <3>5. CASE tready /\ StreamerSend
      <4>1. word_index + 1 # word_count
        BY <1>9, <2>3, <3>2, <3>5 DEF Waits, out, OutputDone, OutputLast, StreamerSend
      <4>2. word_index < word_count
        BY <1>0, <3>5 DEF StreamerSend, OutputValid
      <4>3. out_state' = "OUT_READ" /\ word_index' = word_index + 1 /\ word_count' = word_count
        BY <3>5, <4>1 DEF StreamerSend
      <4> QED BY <2>1, <2>3, <3>2, <4>1, <4>2, <4>3
    <3>6. CASE StreamerHold(output_start, tready)
      BY <1>0, <2>1, <2>3, <3>6 DEF StreamerHold, streamerVars, OutputValid
    <3> QED BY <3>1, <3>3, <3>4, <3>5, <3>6 DEF StreamerClock
  <2> QED BY <2>2, <2>3
<1> QED BY <1>0, <1>2, <1>3, <1>4, <1>5, <1>6, <1>7, <1>8, <1>9, Zenon DEF Moves

(* What a clock edge of the write channel can raise.                        *)
LEMMA AxiPulses ==
  ASSUME TypeOK, AxiClock(Busy)
  PROVE  /\ start_pulse' \/ abort_pulse' \/ done_clear' \/ error_clear' \/ axi_events' # {}
              => bvalid' /\ ~bvalid /\ aw_hold /\ w_hold
         /\ start_pulse' => ~Busy /\ ~abort_pulse' /\ cfg' = cfg
         /\ "ERR_ABORTED" \in axi_events' => abort_pulse'
         /\ abort_pulse' /\ Busy => "ERR_ABORTED" \in axi_events'
         /\ bvalid \/ Busy => cfg' = cfg
         /\ bvalid' => bvalid \/ (aw_hold /\ w_hold)
<1>1. CASE AxiIdle \/ AxiAcceptFirst \/ AxiAcceptSecond \/ AxiRespond
  BY <1>1 DEF AxiIdle, AxiAcceptFirst, AxiAcceptSecond, AxiRespond, NoPulse
<1>2. CASE AxiDecode(Busy)
  <2>1. ~bvalid /\ aw_hold /\ w_hold /\ bvalid'
    BY <1>2 DEF AxiDecode
  <2>2. start_pulse' => ~Busy /\ ~abort_pulse' /\ cfg' = cfg
    BY <1>2 DEF AxiDecode, DecodeControl, DecodeStatus, DecodeConfig, DecodeOther
  <2>3. Busy => cfg' = cfg
    BY <1>2 DEF AxiDecode, DecodeControl, DecodeStatus, DecodeConfig, DecodeOther
  <2>4. /\ "ERR_ABORTED" \in axi_events' => abort_pulse'
        /\ abort_pulse' /\ Busy => "ERR_ABORTED" \in axi_events'
    BY <1>2 DEF AxiDecode, DecodeControl, DecodeStatus, DecodeConfig, DecodeOther
  <2> QED BY <2>1, <2>2, <2>3, <2>4
<1> QED BY <1>1, <1>2 DEF AxiClock

(* No move enters RESET; out of rest, without a START, the controller stays *)
(* at rest.                                                                 *)
LEMMA RestStays ==
  ASSUME TypeOK, NEW out \in BOOLEAN, Moves(out)
  PROVE  /\ state' # "RESET"
         /\ ~Busy /\ ~start_pulse => ~Busy' /\ state' = "IDLE"
<1> USE DEF Outputs, NoOutputs, DropValidation, validatorVars, Busy, BusyStates, LoadStates
<1>0. ControllerTypeOK /\ admission \in BOOLEAN
  BY DEF TypeOK, ControllerTypeOK
<1>1. CASE LeaveReset(error_clear)
  BY <1>0, <1>1 DEF LeaveReset
<1>2. CASE Cancels
  BY <1>2 DEF Cancels
<1>3. CASE admission /\ Undisturbed /\ Checks
  BY <1>3, ChecksFrame DEF Undisturbed
<1>4. CASE admission /\ (AcceptOperation \/ RejectOperation)
  BY <1>4 DEF AcceptOperation, RejectOperation
<1>5. CASE start_pulse /\ TakeStart(cfg)
  BY <1>5 DEF TakeStart
<1>6. CASE ~admission /\ Rest
  BY <1>6 DEF Rest
<1>7. CASE FinishPacket
  BY <1>7 DEF FinishPacket, AfterPacket
<1>8. CASE FinishCompute \/ FinishOutput \/ Waits(out)
  BY <1>8 DEF FinishCompute, FinishOutput, Waits, Await
<1> QED BY <1>1, <1>2, <1>3, <1>4, <1>5, <1>6, <1>7, <1>8, Zenon DEF Moves

LEMMA CommandsInvStep ==
  ASSUME IInv, NEW beat \in BeatsNow, NEW out \in BOOLEAN, Moves(out), AxiClock(Busy),
         LoaderClock(packet_start, ExpectedPacketBytes, beat)
  PROVE  CommandsInv'
<1>0. CommandsInv /\ TypeOK /\ AxiTypeOK /\ ControllerTypeOK
  BY DEF IInv, TypeOK
<1>1. state' # "RESET"
  BY <1>0, RestStays
<1>2. ASSUME start_pulse' PROVE ~Busy' /\ ~PacketError' /\ state' = "IDLE"
  <2>1. ~bvalid /\ aw_hold /\ w_hold /\ ~Busy
    BY <1>0, <1>2, AxiPulses
  <2>2. ~start_pulse
    BY <1>0, <2>1 DEF CommandsInv
  <2>3. ~Busy' /\ state' = "IDLE"
    BY <1>0, <2>1, <2>2, RestStays
  <2>4. beat = NoBeat
    BY <2>1 DEF BeatsNow, InputReady, PacketActive, Busy, BusyStates
  <2>5. ~PacketError'
    BY <2>4 DEF LoaderClock, LoaderWait, PacketError
  <2> QED BY <2>3, <2>5
<1>3. /\ start_pulse' \/ abort_pulse' \/ done_clear' \/ error_clear' \/ axi_events' # {} => bvalid'
      /\ start_pulse' => ~abort_pulse'
      /\ "ERR_ABORTED" \in axi_events' => abort_pulse'
  BY <1>0, AxiPulses
(* An ABORT decoded at rest finds no operation to abort a cycle later.      *)
<1>4. ASSUME abort_pulse', Busy' PROVE "ERR_ABORTED" \in axi_events'
  <2>1. ~bvalid
    BY <1>0, <1>4, AxiPulses
  <2>2. ~start_pulse
    BY <1>0, <2>1 DEF CommandsInv
  <2>3. Busy
    BY <1>0, <1>4, <2>2, RestStays
  <2> QED BY <1>0, <1>4, <2>3, AxiPulses
<1> QED BY <1>1, <1>2, <1>3, <1>4 DEF CommandsInv

(* The error flag and the error code are set and cleared together.          *)
LEMMA ErrorInvStep ==
  ASSUME TypeOK, ErrorInv, NEW doneClear \in BOOLEAN, NEW errorClear \in BOOLEAN,
         NEW operationDone \in BOOLEAN, NEW events \in SUBSET ErrorEvents,
         ErrClock(doneClear, errorClear, operationDone, events)
  PROVE  ErrorInv'
<1>1. error \in BOOLEAN /\ error_code \in ErrorCodes
  BY DEF TypeOK, ErrTypeOK
<1>2. CASE events = {}
  BY <1>1, <1>2 DEF ErrClock, ErrorInv
<1>3. CASE events # {}
  <2>1. SelectedCode(events) # "ERR_NONE"
    BY <1>3, SelectedIsEvent DEF ErrorEvents, FatalCodes, WarningCodes
  <2> QED BY <1>1, <1>3, <2>1 DEF ErrClock, ErrorInv
<1> QED BY <1>2, <1>3

(* The registers, the pending configuration and the snapshot.               *)
LEMMA RegistersInvStep ==
  ASSUME IInv, NEW out \in BOOLEAN, Moves(out), AxiClock(Busy)
  PROVE  RegistersInv'
<1> USE DEF RegistersInv, Outputs, NoOutputs, DropValidation, validatorVars, BusyStates, LoadStates
<1>0. /\ RegistersInv /\ ValidatorInv /\ TypeOK /\ CommandsInv
      /\ WellFormed(pending) /\ admission \in BOOLEAN
  BY WellFormedConfigs DEF IInv, TypeOK, ControllerTypeOK
<1>1. Busy \/ start_pulse => cfg' = cfg
  BY <1>0, AxiPulses DEF CommandsInv
<1>2. CASE LeaveReset(error_clear)
  BY <1>0, <1>2 DEF LeaveReset, Busy, ValidatorInv
<1>3. CASE Cancels
  BY <1>3 DEF Cancels, Busy
<1>4. CASE admission /\ Checks
  BY <1>0, <1>1, <1>4, ChecksFrame DEF Busy, ValidatorInv
<1>5. CASE admission /\ AcceptOperation
  <2>1. pending = cfg /\ cfg' = cfg /\ Accepted(pending)
    BY <1>0, <1>1, <1>5 DEF AcceptOperation, Busy, ValidatorInv
  <2> QED BY <1>0, <1>5, <2>1 DEF AcceptOperation, Accepted, WellFormed, Operations
<1>6. CASE admission /\ RejectOperation
  BY <1>0, <1>1, <1>6 DEF RejectOperation, Busy
<1>7. CASE start_pulse /\ TakeStart(cfg)
  BY <1>1, <1>7 DEF TakeStart
<1>8. CASE ~admission /\ (Rest \/ FinishOutput)
  BY <1>8 DEF Rest, FinishOutput, Busy
<1>9. CASE FinishPacket
  <2>1. /\ state' = AfterPacket /\ UNCHANGED << admission, pending, snap >>
        /\ state \in LoadStates /\ Busy /\ ctl_events' = {}
    BY <1>9 DEF FinishPacket, Busy
  <2> QED BY <1>0, <1>1, <2>1 DEF AfterPacket, Accepted
<1>10. CASE FinishCompute \/ Waits(out)
  <2>1. /\ UNCHANGED << admission, pending, snap >> /\ state \in BusyStates /\ Busy
        /\ state' = state \/ state' = "SEND_OUTPUT"
    BY <1>10 DEF FinishCompute, Waits, Await, Busy
  <2> QED BY <1>0, <1>1, <2>1 DEF Accepted
<1> QED BY <1>2, <1>3, <1>4, <1>5, <1>6, <1>7, <1>8, <1>9, <1>10, Zenon DEF Moves

-----------------------------------------------------------------------------
LEMMA InitIInv == Init => IInv
BY TypeInit DEF Init, AxiInit, ControllerInit, LoaderInit, EnginesInit, StreamerInit,
   ErrInit, IInv, CommandsInv, ValidatorInv, LoaderInv, EngineInv, StreamerInv,
   RegistersInv, Busy, PacketError, BusyStates, LoadStates, CheckStages,
   MultiplyStages, CompareStages, ErrorInv

LEMMA NextIInv ==
  ASSUME IInv, [Next]_vars
  PROVE  IInv'
<1>1. TypeOK'
  BY TypeStep DEF IInv
<1>2. CASE UNCHANGED vars
  BY <1>1, <1>2 DEF vars, axiVars, controllerVars, loaderVars, engineVars, streamerVars,
     errVars, IInv, CommandsInv, ValidatorInv, LoaderInv, EngineInv, StreamerInv,
     RegistersInv, ErrorInv, Busy, PacketError
<1>3. CASE Next
  <2>1. PICK beat \in BeatsNow, tready \in TreadyNow : ClockEdge(beat, tready)
    BY <1>3 DEF Next
  <2>2. TypeOK /\ OutputDone(tready) \in BOOLEAN
    BY WireTypes DEF IInv
  <2>3. /\ Moves(OutputDone(tready)) /\ AxiClock(Busy)
        /\ LoaderClock(packet_start, ExpectedPacketBytes, beat)
        /\ EnginesClock(engine_start, EngineAbort)
        /\ StreamerClock(output_start, EngineAbort, snap.output, tready)
    BY <2>1, <2>2, EdgeMoves
  <2>4. CommandsInv' /\ RegistersInv'
    BY <2>2, <2>3, CommandsInvStep, RegistersInvStep
  <2>5. ValidatorInv' /\ LoaderInv'
    BY <2>2, <2>3, ValidatorInvStep, LoaderInvStep
  <2>6. EngineInv' /\ StreamerInv'
    BY <2>2, <2>3, EngineInvStep, StreamerInvStep
  <2>7. ErrorInv'
    <3> DEFINE fin == OperationDone(OutputDone(tready), abort_pulse, PacketError)
    <3>1. ErrClock(done_clear, error_clear, fin, Events)
      BY <2>1 DEF ClockEdge
    <3>2. /\ done_clear \in BOOLEAN /\ error_clear \in BOOLEAN
          /\ fin \in BOOLEAN /\ Events \in SUBSET ErrorEvents
      BY <2>2, WireTypes DEF TypeOK, AxiTypeOK
    <3>3. ErrorInv /\ TypeOK
      BY DEF IInv
    <3> HIDE DEF fin
    <3> QED BY <3>1, <3>2, <3>3, ErrorInvStep
  <2> QED BY <1>1, <2>4, <2>5, <2>6, <2>7 DEF IInv
<1> QED BY <1>2, <1>3

(* The inductive invariant holds in every reachable state.                  *)
THEOREM Invariance == Spec => []IInv
BY InitIInv, NextIInv, PTL DEF Spec

(* The registers show the operation under way: no write, abort or rejection *)
(* lets the validator or the datapath work on another configuration.        *)
THEOREM RegistersShowOperationHolds == Spec => []RegistersShowOperation
<1>1. IInv => RegistersShowOperation
  BY DEF IInv, RegistersInv, RegistersShowOperation, Accepted
<1> QED BY <1>1, Invariance, PTL

(* Engines and output streamer act only in their controller state, whatever *)
(* the order of starts, aborts and framing errors.                          *)
THEOREM DatapathFollowsControllerHolds == Spec => []DatapathFollowsController
<1>1. IInv => DatapathFollowsController
  BY DEF IInv, EngineInv, StreamerInv, LoaderInv, DatapathFollowsController
<1> QED BY <1>1, Invariance, PTL

-----------------------------------------------------------------------------
(* What one clock edge may do: a START is taken, BUSY falls with a result,   *)
(* the accelerator implements its contract, and CYCLE_COUNT is the length   *)
(* of the last period of BUSY.                                              *)

(* The error controller: a fatal event leaves a fatal code, a fatal code    *)
(* comes from nowhere else, and it stays until it is cleared.               *)
LEMMA FatalRecorded ==
  ASSUME TypeOK, ErrorInv, NEW doneClear \in BOOLEAN, NEW errorClear \in BOOLEAN,
         NEW operationDone \in BOOLEAN, NEW events \in SUBSET ErrorEvents,
         ErrClock(doneClear, errorClear, operationDone, events)
  PROVE  /\ events \cap FatalCodes # {} => error' /\ error_code' \in FatalCodes
         /\ error_code' \in FatalCodes => error_code' = error_code \/ error_code' \in events
         /\ error_code \in FatalCodes /\ ~errorClear => error_code' = error_code
         /\ error_code' \in ErrorCodes
<1>1. error \in BOOLEAN /\ error_code \in ErrorCodes /\ "ERR_NONE" \notin FatalCodes
  BY DEF TypeOK, ErrTypeOK, FatalCodes
<1>2. error_code' \in ErrorCodes
  BY ErrType DEF TypeOK, ErrTypeOK
<1>3. CASE events = {}
  BY <1>1, <1>2, <1>3 DEF ErrClock
<1>4. CASE events # {}
  <2>1. /\ SelectedCode(events) \in events
        /\ events \cap FatalCodes # {} => SelectedCode(events) \in FatalCodes
    BY <1>4, SelectedIsEvent
  <2>2. error'
    BY <1>4 DEF ErrClock
  <2>3. error_code \in FatalCodes => error
    BY <1>1 DEF ErrorInv
  <2> QED BY <1>1, <1>2, <1>4, <2>1, <2>2, <2>3 DEF ErrClock
<1> QED BY <1>3, <1>4

(* Which fatal events a step can carry.                                     *)
LEMMA FatalEvents ==
  ASSUME IInv
  PROVE  /\ ctl_events # {} => Events \cap FatalCodes # {}
         /\ PacketError => Events \cap FatalCodes # {}
         /\ abort_pulse /\ Busy => Events \cap FatalCodes # {}
         /\ ctl_events = {} => Events \cap FatalCodes \subseteq
              {"ERR_ABORTED", "ERR_PACKET_LENGTH", "ERR_TLAST_POSITION"}
         /\ Undisturbed /\ (Busy \/ start_pulse) /\ ctl_events = {}
              => Events \cap FatalCodes = {}
         /\ state = "RESET" => Events \cap FatalCodes = {}
<1>1. /\ ctl_events \subseteq {"ERR_INVALID_OPERATION", "ERR_INVALID_CONFIG"}
      /\ axi_events \cap FatalCodes \subseteq {"ERR_ABORTED"}
      /\ "ERR_ABORTED" \in axi_events => abort_pulse
      /\ abort_pulse /\ Busy => "ERR_ABORTED" \in axi_events
      /\ start_pulse => ~abort_pulse
      /\ state = "RESET" => axi_events = {} /\ ~PacketError /\ ctl_events = {}
  BY DEF IInv, TypeOK, AxiTypeOK, ControllerTypeOK, FatalCodes, CommandsInv, LoaderInv,
     ValidatorInv, LoadStates
<1> QED BY <1>1 DEF Events, FatalCodes, PacketError, Undisturbed

(* What a step does to the results, move by move.                           *)
LEMMA EdgeResults ==
  ASSUME IInv, NEW beat \in BeatsNow, NEW tready \in TreadyNow, ClockEdge(beat, tready)
  PROVE  /\ done' = (OperationDone(OutputDone(tready), abort_pulse, PacketError)
                       \/ (done /\ ~done_clear))
         /\ Events \cap FatalCodes # {} => error' /\ error_code' \in FatalCodes
         /\ error_code' \in FatalCodes =>
              error_code' = error_code \/ error_code' \in Events
         /\ error_code \in FatalCodes /\ ~error_clear => error_code' = error_code
         /\ error_code' \in ErrorCodes
<1> DEFINE fin == OperationDone(OutputDone(tready), abort_pulse, PacketError)
<1>1. TypeOK /\ ErrorInv
  BY DEF IInv
<1>2. /\ done_clear \in BOOLEAN /\ error_clear \in BOOLEAN
      /\ fin \in BOOLEAN /\ Events \in SUBSET ErrorEvents
  BY <1>1, WireTypes DEF TypeOK, AxiTypeOK
<1>3. ErrClock(done_clear, error_clear, fin, Events)
  BY DEF ClockEdge
<1> HIDE DEF fin
<1>4. done' = (fin \/ (done /\ ~done_clear))
  BY <1>3 DEF ErrClock
<1> QED BY <1>1, <1>2, <1>3, <1>4, FatalRecorded DEF fin

-----------------------------------------------------------------------------
(* A START that was decoded is taken in the next cycle, with the            *)
(* configuration it was decoded with: nothing under way swallows it.        *)
THEOREM StartIsTakenHolds == Spec => StartIsTaken
<1>1. ASSUME IInv, [Next]_vars, ~UNCHANGED vars, start_pulse
      PROVE  admission' /\ pending' = cfg /\ cfg' = cfg
  <2>1. PICK beat \in BeatsNow, tready \in TreadyNow : ClockEdge(beat, tready)
    BY <1>1 DEF Next
  <2>2. TypeOK /\ Moves(OutputDone(tready)) /\ AxiClock(Busy)
    BY <1>1, <2>1, EdgeMoves DEF IInv
  <2>3. /\ ~Busy /\ ~PacketError /\ state = "IDLE" /\ ~abort_pulse /\ bvalid
    BY <1>1 DEF IInv, CommandsInv
  <2>4. cfg' = cfg
    BY <2>2, <2>3, AxiPulses
  <2>5. TakeStart(cfg)
    BY <1>1, <2>2, <2>3 DEF Moves, LeaveReset, Cancels, Busy, Rest, FinishPacket,
       FinishCompute, FinishOutput, Waits, Await, BusyStates, LoadStates
  <2> QED BY <2>4, <2>5 DEF TakeStart
<1>2. IInv /\ [Next]_vars => [start_pulse => admission' /\ pending' = cfg /\ cfg' = cfg]_vars
  BY <1>1
<1> QED BY <1>2, Invariance, PTL DEF Spec, StartIsTaken

(* BUSY falls at the last output handshake, with DONE, or at an abort, a     *)
(* framing error or a rejection, with a fatal code: never without a result.  *)
THEOREM BusyFallsWithResultHolds == Spec => BusyFallsWithResult
<1>1. ASSUME IInv, [Next]_vars, ~UNCHANGED vars, Busy, ~Busy'
      PROVE  IF state' = "COMPLETE" THEN done'
                                    ELSE error' /\ error_code' \in FatalCodes
  <2>1. PICK beat \in BeatsNow, tready \in TreadyNow : ClockEdge(beat, tready)
    BY <1>1 DEF Next
  <2> DEFINE out == OutputDone(tready)
  <2>2. Moves(out) /\ ValidatorInv /\ LoaderInv /\ TypeOK
    BY <1>1, <2>1, EdgeMoves DEF IInv
  <2>3. /\ done' = (OperationDone(out, abort_pulse, PacketError) \/ (done /\ ~done_clear))
        /\ Events \cap FatalCodes # {} => error' /\ error_code' \in FatalCodes
    BY <1>1, <2>1, EdgeResults
  <2> HIDE DEF out
  <2> USE DEF Outputs, NoOutputs, DropValidation, Busy, BusyStates, LoadStates
  <2>4. CASE LeaveReset(error_clear)
    BY <1>1, <2>2, <2>4 DEF LeaveReset, ValidatorInv
  <2>5. CASE Cancels
    <3>1. Events \cap FatalCodes # {} /\ state' = "IDLE"
      BY <1>1, <2>5, FatalEvents DEF Cancels
    <3> QED BY <2>3, <3>1
  <2>6. CASE admission /\ (Checks \/ AcceptOperation \/ RejectOperation)
    BY <1>1, <2>6, ChecksFrame DEF AcceptOperation, RejectOperation
  <2>7. CASE start_pulse /\ TakeStart(cfg)
    BY <1>1, <2>7 DEF TakeStart
  <2>8. CASE ~admission /\ Rest
    <3>1. ctl_events # {} /\ state' = "IDLE"
      BY <1>1, <2>8 DEF Rest
    <3> QED BY <1>1, <2>3, <3>1, FatalEvents
  <2>9. CASE FinishPacket
    BY <1>1, <2>9 DEF FinishPacket, AfterPacket
  <2>10. CASE FinishCompute \/ Waits(out)
    BY <1>1, <2>10 DEF FinishCompute, Waits, Await
  <2>11. CASE Undisturbed /\ out /\ FinishOutput
    <3>1. OperationDone(out, abort_pulse, PacketError) /\ state' = "COMPLETE"
      BY <2>11 DEF FinishOutput, OperationDone, Undisturbed
    <3> QED BY <2>3, <3>1
  <2> QED BY <2>2, <2>4, <2>5, <2>6, <2>7, <2>8, <2>9, <2>10, <2>11, Zenon DEF Moves
<1>2. IInv /\ [Next]_vars =>
        [Busy /\ ~Busy' => IF state' = "COMPLETE" THEN done'
                            ELSE error' /\ error_code' \in FatalCodes]_vars
  BY <1>1
<1> QED BY <1>2, Invariance, PTL DEF Spec, BusyFallsWithResult

-----------------------------------------------------------------------------
(* The contract.                                                            *)

(* The phases of the contract and the state of the controller.              *)
LEMMA Phases ==
  ASSUME IInv
  PROVE  /\ PhaseOf = "idle" <=> ~Busy
         /\ admission => PhaseOf = "checking" /\ PlanOf = << >>
         /\ ctl_events # {} => PhaseOf = "checking" /\ PlanOf = << >>
         /\ state \in LoadStates => PhaseOf = "loading"
         /\ state = "COMPUTE" => PhaseOf = "computing" /\ PlanOf = << >>
         /\ state = "SEND_OUTPUT" => PhaseOf = "sending" /\ PlanOf = << >>
         /\ ~Busy => PlanOf = << >>
<1>1. admission \/ ctl_events # {} => state = "IDLE"
  BY DEF IInv, ValidatorInv
<1> QED BY <1>1 DEF PhaseOf, PlanOf, Busy, BusyStates, LoadStates

(* The results of a step in the terms of the contract.                      *)
LEMMA ContractResults ==
  ASSUME IInv, NEW beat \in BeatsNow, NEW tready \in TreadyNow, ClockEdge(beat, tready)
  PROVE  /\ Contract!FaultStays
         /\ ~OperationDone(OutputDone(tready), abort_pulse, PacketError) => Contract!NotDone
         /\ OperationDone(OutputDone(tready), abort_pulse, PacketError) => done' = TRUE
         /\ Events \cap FatalCodes = {} => Contract!NoNewFault
         /\ Events \cap FatalCodes # {} => Contract!NewFault
         /\ Contract!NoNewFault \/ (Contract!NewFault /\ error_code' \in Events \cap FatalCodes)
<1> DEFINE fin == OperationDone(OutputDone(tready), abort_pulse, PacketError)
<1>1. /\ done' = (fin \/ (done /\ ~done_clear))
      /\ Events \cap FatalCodes # {} => error_code' \in FatalCodes
      /\ error_code' \in FatalCodes => error_code' = error_code \/ error_code' \in Events
      /\ error_code \in FatalCodes /\ ~error_clear => error_code' = error_code
      /\ error_code' \in ErrorCodes
  BY EdgeResults
<1>2. Contract!FatalCodes = FatalCodes /\ Contract!ErrorCodes = ErrorCodes
  BY DEF Contract!FatalCodes, FatalCodes, Contract!ErrorCodes, ErrorCodes,
     Contract!ErrorEvents, ErrorEvents, Contract!WarningCodes, WarningCodes
<1>3. fin \in BOOLEAN /\ done \in BOOLEAN /\ done_clear \in BOOLEAN
  BY WireTypes DEF IInv, TypeOK, AxiTypeOK, ErrTypeOK
<1> HIDE DEF fin
<1>4. (~fin => Contract!NotDone) /\ (fin => done' = TRUE)
  BY <1>1, <1>3 DEF Contract!NotDone
<1>5. /\ Contract!FaultStays
      /\ Events \cap FatalCodes = {} => Contract!NoNewFault
      /\ Events \cap FatalCodes # {} => Contract!NewFault
      /\ Contract!NoNewFault \/ (Contract!NewFault /\ error_code' \in Events \cap FatalCodes)
  BY <1>1, <1>2 DEF Contract!FaultStays, Contract!NoNewFault, Contract!NewFault
<1> QED BY <1>4, <1>5 DEF fin

(* The end of a packet takes it off the plan, and starts the computation     *)
(* when it was the last.                                                     *)
LEMMA PlanAdvances ==
  ASSUME IInv, FinishPacket
  PROVE  Len(PlanOf) \in Nat /\ IF AfterPacket = "COMPUTE"
         THEN Len(PlanOf) = 1 /\ PlanOf' = << >> /\ PhaseOf' = "computing"
         ELSE Len(PlanOf) > 1 /\ PlanOf' = Tail(PlanOf) /\ PhaseOf' = "loading"
<1> USE DEF FinishPacket, Outputs, PhaseOf, PlanOf, AfterPacket, LoadStates
<1>1. /\ state \in LoadStates /\ state' = AfterPacket /\ snap' = snap
      /\ admission' = admission /\ ctl_events' = {}
  OBVIOUS
<1>2. ~admission
  BY DEF IInv, ValidatorInv
<1>3. CASE state = "LOAD_WEIGHT"
  BY <1>1, <1>2, <1>3
<1>4. CASE state = "LOAD_BIAS"
  <2>1. snap.op = OP_CONV
    BY <1>4 DEF IInv, RegistersInv
  <2> QED BY <1>1, <1>2, <1>4, <2>1
<1>5. CASE state = "LOAD_INPUT"
  BY <1>1, <1>2, <1>5
<1>6. CASE state = "LOAD_SKIP"
  BY <1>1, <1>2, <1>6
<1> QED BY <1>1, <1>3, <1>4, <1>5, <1>6

(* Every clock edge is a step of the contract.                              *)
LEMMA ContractStep ==
  ASSUME IInv, NEW beat \in BeatsNow, NEW tready \in TreadyNow, ClockEdge(beat, tready)
  PROVE  Contract!CNext
<1> DEFINE out == OutputDone(tready)
           fin == OperationDone(out, abort_pulse, PacketError)
<1>1. Moves(out) /\ ValidatorInv /\ LoaderInv /\ RegistersInv
  BY EdgeMoves DEF IInv
<1>2. /\ ~fin => Contract!NotDone
      /\ fin => done' = TRUE
      /\ Events \cap FatalCodes = {} => Contract!NoNewFault
      /\ Events \cap FatalCodes # {} => Contract!NewFault
      /\ Contract!NoNewFault \/ (Contract!NewFault /\ error_code' \in Events \cap FatalCodes)
  BY ContractResults
<1>3. fin <=> out /\ state = "SEND_OUTPUT" /\ ~abort_pulse /\ ~PacketError
  BY DEF OperationDone
<1>4. Contract!Operations = Operations
  BY DEF Contract!Operations, Operations, Contract!OP_CONV, Contract!OP_RESIDUAL_ADD,
     Contract!OP_GLOBAL_AVG_POOL
<1> HIDE DEF out, fin
<1> USE DEF Outputs, NoOutputs, DropValidation
<1>5. CASE LeaveReset(error_clear)
  <2>1. state = "RESET" /\ ~admission /\ ctl_events = {} /\ Events \cap FatalCodes = {}
    BY <1>1, <1>5, FatalEvents DEF LeaveReset, ValidatorInv
  <2>2. PhaseOf' = PhaseOf /\ PlanOf' = PlanOf
    BY <1>5, <2>1 DEF LeaveReset, PhaseOf, PlanOf, LoadStates
  <2>3. Contract!Flags
    BY <1>2, <1>3, <2>1, <2>2 DEF Contract!Flags
  <2> QED BY <2>3 DEF Contract!CNext
<1>6. CASE Cancels
  <2>1. ~fin /\ Events \cap FatalCodes # {}
    BY <1>3, <1>6, FatalEvents DEF Cancels, Busy, BusyStates
  <2>2. PhaseOf' = "idle" /\ PlanOf' = << >>
    BY <1>6 DEF Cancels, PhaseOf, PlanOf, LoadStates
  <2>3. CASE Busy
    <3>1. Contract!Fail
      BY <1>2, <2>1, <2>2, <2>3, Phases DEF Contract!Fail
    <3> QED BY <3>1 DEF Contract!CNext
  <2>4. CASE ~Busy
    <3>1. PhaseOf' = PhaseOf /\ PlanOf' = PlanOf /\ PhaseOf = "idle"
      BY <2>2, <2>4, Phases
    <3>2. Events \cap FatalCodes \subseteq
            {"ERR_ABORTED", "ERR_PACKET_LENGTH", "ERR_TLAST_POSITION"}
      BY <2>4, FatalEvents DEF Busy
    <3>3. Contract!LateFault \/ Contract!Flags
      BY <1>2, <2>1, <3>1, <3>2 DEF Contract!LateFault, Contract!Flags
    <3> QED BY <3>3 DEF Contract!CNext
  <2> QED BY <2>3, <2>4
<1>7. CASE Undisturbed /\ admission /\ (Checks \/ AcceptOperation \/ RejectOperation)
  <2>1. /\ state = "IDLE" /\ ctl_events = {} /\ Busy /\ ~fin
        /\ PhaseOf = "checking" /\ PlanOf = << >>
    BY <1>1, <1>3, <1>7, Phases DEF ValidatorInv, Busy
  <2>2. Contract!NotDone /\ Contract!NoNewFault
    BY <1>2, <1>7, <2>1, FatalEvents
  <2>3. CASE Checks \/ RejectOperation
    <3>1. state' = "IDLE" /\ (admission' \/ ctl_events' # {})
      BY <1>7, <2>1, <2>3, ChecksFrame DEF RejectOperation
    <3>2. PhaseOf' = PhaseOf /\ PlanOf' = PlanOf
      BY <2>1, <3>1 DEF PhaseOf, PlanOf
    <3>3. Contract!Flags
      BY <2>2, <3>2 DEF Contract!Flags
    <3> QED BY <3>3 DEF Contract!CNext
  <2>4. CASE AcceptOperation
    <3>1. pending.op \in Operations
      BY <1>1, <1>7, <2>4, WellFormedConfigs DEF IInv, ValidatorInv, AcceptOperation, WellFormed
    <3>2. PhaseOf' = "loading" /\ PlanOf' = Contract!PacketPlan(pending.op)
      BY <2>4, <3>1 DEF AcceptOperation, PhaseOf, PlanOf, LoadStates, Operations,
         Contract!PacketPlan, Contract!OP_CONV, Contract!OP_RESIDUAL_ADD,
         Contract!OP_GLOBAL_AVG_POOL
    <3>3. Contract!Accept
      BY <1>4, <2>1, <2>2, <3>1, <3>2 DEF Contract!Accept
    <3> QED BY <3>3 DEF Contract!CNext
  <2> QED BY <1>7, <2>3, <2>4
<1>8. CASE Undisturbed /\ start_pulse /\ TakeStart(cfg)
  <2>1. ~Busy /\ state = "IDLE" /\ ctl_events = {}
    BY <1>8 DEF IInv, CommandsInv, Busy
  <2>2. Events \cap FatalCodes = {} /\ ~fin
    BY <1>3, <1>8, <2>1, FatalEvents
  <2>3. PhaseOf' = "checking" /\ PlanOf' = << >> /\ PhaseOf = "idle" /\ PlanOf = << >>
    BY <1>8, <2>1, Phases DEF TakeStart, PhaseOf, PlanOf
  <2>4. Contract!Start
    BY <1>2, <2>2, <2>3 DEF Contract!Start
  <2> QED BY <2>4 DEF Contract!CNext
<1>9. CASE ~admission /\ Rest
  <2>1. ~fin /\ PhaseOf' = "idle" /\ PlanOf' = << >>
    BY <1>3, <1>9 DEF Rest, PhaseOf, PlanOf, LoadStates
  <2>2. CASE ctl_events # {}
    <3>1. Contract!Fail
      BY <1>2, <2>1, <2>2, Phases, FatalEvents DEF Contract!Fail
    <3> QED BY <3>1 DEF Contract!CNext
  <2>3. CASE ctl_events = {}
    <3>1. ~Busy
      BY <1>9, <2>3 DEF Rest, Busy, BusyStates, LoadStates
    <3>2. PhaseOf' = PhaseOf /\ PlanOf' = PlanOf /\ PhaseOf = "idle"
      BY <2>1, <3>1, Phases
    <3>3. Contract!LateFault \/ Contract!Flags
      BY <1>2, <2>1, <2>3, <3>2, FatalEvents DEF Contract!LateFault, Contract!Flags
    <3> QED BY <3>3 DEF Contract!CNext
  <2> QED BY <2>2, <2>3
<1>10. CASE Undisturbed /\ FinishPacket
  <2>1. state \in LoadStates /\ Busy /\ ctl_events = {} /\ ~fin /\ PhaseOf = "loading"
    BY <1>1, <1>3, <1>10, Phases DEF FinishPacket, ValidatorInv, Busy, BusyStates, LoadStates
  <2>2. Contract!NotDone /\ Contract!NoNewFault
    BY <1>2, <1>10, <2>1, FatalEvents
  <2>3. Contract!Receive \/ Contract!Compute
    BY <1>10, <2>1, <2>2, PlanAdvances DEF Contract!Receive, Contract!Compute
  <2> QED BY <2>3 DEF Contract!CNext
<1>11. CASE Undisturbed /\ ~admission /\ FinishCompute
  <2>1. /\ state = "COMPUTE" /\ Busy /\ ctl_events = {} /\ ~fin
        /\ PhaseOf = "computing" /\ PlanOf = << >>
    BY <1>1, <1>3, <1>11, Phases DEF FinishCompute, ValidatorInv, Busy, BusyStates
  <2>2. PhaseOf' = "sending" /\ PlanOf' = << >>
    BY <1>11 DEF FinishCompute, PhaseOf, PlanOf, LoadStates
  <2>3. Contract!Send
    BY <1>2, <1>11, <2>1, <2>2, FatalEvents DEF Contract!Send
  <2> QED BY <2>3 DEF Contract!CNext
<1>12. CASE Undisturbed /\ ~admission /\ out /\ FinishOutput
  <2>1. /\ state = "SEND_OUTPUT" /\ Busy /\ ctl_events = {}
        /\ PhaseOf = "sending" /\ PlanOf = << >>
    BY <1>1, <1>12, Phases DEF FinishOutput, ValidatorInv, Busy, BusyStates
  <2>2. fin
    BY <1>3, <1>12, <2>1 DEF Undisturbed
  <2>3. PhaseOf' = "idle" /\ PlanOf' = << >>
    BY <1>12 DEF FinishOutput, PhaseOf, PlanOf, LoadStates
  <2>4. Contract!Complete
    BY <1>2, <1>12, <2>1, <2>2, <2>3, FatalEvents DEF Contract!Complete
  <2> QED BY <2>4 DEF Contract!CNext
<1>13. CASE Undisturbed /\ ~admission /\ Waits(out)
  <2>1. state \in BusyStates /\ Busy /\ ctl_events = {} /\ ~fin
    BY <1>1, <1>3, <1>13 DEF Waits, Await, ValidatorInv, Busy, BusyStates, LoadStates
  <2>2. PhaseOf' = PhaseOf /\ PlanOf' = PlanOf
    BY <1>13, <2>1 DEF Waits, Await, PhaseOf, PlanOf
  <2>3. Contract!Flags
    BY <1>2, <1>13, <2>1, <2>2, FatalEvents DEF Contract!Flags
  <2> QED BY <2>3 DEF Contract!CNext
<1> QED BY <1>1, <1>5, <1>6, <1>7, <1>8, <1>9, <1>10, <1>11, <1>12, <1>13, Zenon DEF Moves

(* The accelerator implements the contract: through every abort, rejection,  *)
(* framing error and write-one-to-clear, DONE marks a delivered output, a    *)
(* failed operation leaves a fatal code, and packets come in plan order.     *)
THEOREM ImplementsContractHolds == Spec => ImplementsContract
<1>1. Init => Contract!CInit
  BY DEF Init, AxiInit, ControllerInit, ErrInit, Contract!CInit, PhaseOf, PlanOf, LoadStates
<1>2. ASSUME IInv, [Next]_vars PROVE [Contract!CNext]_(Contract!cvars)
  <2>1. CASE Next
    BY <1>2, <2>1, ContractStep DEF Next
  <2>2. CASE UNCHANGED vars
    BY <2>2 DEF vars, axiVars, controllerVars, errVars, Contract!cvars, PhaseOf, PlanOf
  <2> QED BY <1>2, <2>1, <2>2
<1> QED BY <1>1, <1>2, Invariance, PTL DEF Spec, ImplementsContract, Contract!CSpec

-----------------------------------------------------------------------------
(* The cycle counter: a period of BUSY begins exactly with a START pulse, the *)
(* only thing that restarts it.                                               *)

(* BUSY rises at the edge that takes a START pulse, and at no other.         *)
LEMMA BusyRises ==
  ASSUME IInv, NEW beat \in BeatsNow, NEW tready \in TreadyNow, ClockEdge(beat, tready)
  PROVE  start_pulse <=> ~Busy /\ Busy'
<1> DEFINE out == OutputDone(tready)
<1>1. Moves(out) /\ TypeOK /\ ValidatorInv
  BY EdgeMoves DEF IInv
<1>2. start_pulse => ~Busy /\ ~PacketError /\ state = "IDLE" /\ ~abort_pulse
  BY DEF IInv, CommandsInv
<1>3. ~Busy => state \in {"RESET", "IDLE", "COMPLETE"} /\ ~admission /\ ctl_events = {}
  BY <1>1 DEF TypeOK, ControllerTypeOK, Busy, ControllerStates, QuietStates
<1> HIDE DEF out
<1> USE DEF Outputs, NoOutputs, DropValidation, Busy, BusyStates, LoadStates
<1>4. ASSUME start_pulse PROVE ~Busy /\ Busy'
  <2>1. TakeStart(cfg)
    BY <1>1, <1>2, <1>3, <1>4 DEF Moves, LeaveReset, Cancels, Rest, FinishPacket,
       FinishCompute, FinishOutput, Waits, Await
  <2> QED BY <1>2, <1>4, <2>1 DEF TakeStart
<1>5. ASSUME ~start_pulse, ~Busy PROVE ~Busy'
  <2>1. LeaveReset(error_clear) \/ Cancels \/ Rest
    BY <1>1, <1>3, <1>5 DEF Moves, FinishPacket, FinishCompute, FinishOutput, Waits, Await
  <2>2. CASE LeaveReset(error_clear)
    BY <1>3, <1>5, <2>2 DEF LeaveReset
  <2>3. CASE Cancels
    BY <1>3, <1>5, <2>3 DEF Cancels
  <2>4. CASE Rest
    BY <1>3, <1>5, <2>4 DEF Rest
  <2> QED BY <2>1, <2>2, <2>3, <2>4
<1> QED BY <1>4, <1>5

(* The counter is a part added to the design: without it, its steps are      *)
(* steps of the design.                                                      *)
LEMMA CyclesRefineTop == CyclesSpec => Spec
<1>1. CyclesInit => Init
  BY DEF CyclesInit
<1>2. [CyclesNext]_cvars => [Next]_vars
  BY DEF CyclesNext, CyclesEdge, Next, cvars
<1> QED BY <1>1, <1>2, PTL DEF CyclesSpec, Spec

(* Whatever the host writes and the streams do, CYCLE_COUNT is the number of *)
(* edges of the last period of BUSY (cycle_counter.sv).                      *)
THEOREM CountsLastPeriodHolds == CyclesSpec => []CountsLastPeriod
<1>1. CyclesInit => CountsLastPeriod
  BY DEF CyclesInit, CycleInit, CountsLastPeriod
<1>2. IInv /\ CountsLastPeriod /\ [CyclesNext]_cvars => CountsLastPeriod'
  <2>1. CASE CyclesNext
    <3>1. ASSUME IInv, CountsLastPeriod, NEW beat \in BeatsNow, NEW tready \in TreadyNow,
                 CyclesEdge(beat, tready)
          PROVE  CountsLastPeriod'
      <4>1. start_pulse <=> ~Busy /\ Busy'
        BY <3>1, BusyRises DEF CyclesEdge
      <4> QED BY <3>1, <4>1 DEF CyclesEdge, CycleClock, CountsLastPeriod
    <3> QED BY <2>1, <3>1 DEF CyclesNext
  <2>2. CASE UNCHANGED cvars
    BY <2>2 DEF cvars, CountsLastPeriod
  <2> QED BY <2>1, <2>2
<1> QED BY <1>1, <1>2, CyclesRefineTop, Invariance, PTL DEF CyclesSpec

-----------------------------------------------------------------------------
(* The data path beside the control.                                        *)

(* A clock edge of the accelerator with its data is one of the accelerator. *)
LEMMA DataRefinesTop ==
  /\ DataInit => Init
  /\ [DataNext]_dvars => [Next]_vars
<1>1. DataInit => Init
  BY DEF DataInit
<1>2. ASSUME NEW beat \in BeatsNow, NEW tready \in TreadyNow, NEW writers, DataEdge(beat, tready, writers)
      PROVE  Next
  BY <1>2 DEF DataEdge, Next
<1>3. DataNext => Next
  BY <1>2, Zenon DEF DataNext
<1>4. UNCHANGED dvars => UNCHANGED vars
  BY DEF dvars
<1> QED BY <1>1, <1>3, <1>4

LEMMA DataControl == DataSpec => []IInv
<1>1. DataInit => IInv
  BY DataRefinesTop, InitIInv
<1>2. IInv /\ [DataNext]_dvars => IInv'
  BY DataRefinesTop, NextIInv
<1> QED BY <1>1, <1>2, PTL DEF DataSpec

(* The operation that is executed fits the buffers.                         *)
LEMMA OperationFits ==
  ASSUME IInv, state \in BusyStates
  PROVE  /\ snap.op \in Operations
         /\ snap.output \in Nat /\ snap.output >= 4 /\ snap.output % 4 = 0
         /\ snap.output <= 4 * MAX_WORDS["OUTPUT"]
         /\ \A p \in Packets : Uses(snap.op, p) =>
              /\ snap.bytes[p] \in Nat /\ snap.bytes[p] >= 4 /\ snap.bytes[p] % 4 = 0
              /\ snap.bytes[p] <= 4 * MAX_WORDS[p]
         /\ snap.op = OP_RESIDUAL_ADD => snap.bytes["INPUT"] = snap.output /\ snap.bytes["SKIP"] = snap.output
<1>1. Accepted(snap) /\ snap \in Configs
  BY DEF IInv, RegistersInv, TypeOK, ControllerTypeOK
<1>2. WellFormed(snap)
  BY WellFormedConfigs DEF IInv
<1>3. snap.output \in Nat /\ snap.bytes \in [Packets -> Nat]
  BY <1>2 DEF WellFormed, ConfigRecords
<1> QED BY <1>1, <1>2, <1>3, DataAssumption DEF WellFormed, WordCount

(* Which packets an operation uses.                                         *)
LEMMA UsedPackets ==
  /\ \A p : Uses(OP_CONV, p) <=> p \in {"WEIGHT", "BIAS", "INPUT"}
  /\ \A p : Uses(OP_RESIDUAL_ADD, p) <=> p \in {"INPUT", "SKIP"}
  /\ \A p : Uses(OP_GLOBAL_AVG_POOL, p) <=> p = "INPUT"
<1>1. \A p : Uses(OP_CONV, p) <=> p \in {"WEIGHT", "BIAS", "INPUT"}
  <2>1. PacketPlan(OP_CONV) = << "WEIGHT", "BIAS", "INPUT" >>
    BY DEF PacketPlan
  <2>2. DOMAIN << "WEIGHT", "BIAS", "INPUT" >> = 1..3
    OBVIOUS
  <2> QED BY <2>1, <2>2 DEF Uses
<1>2. \A p : Uses(OP_RESIDUAL_ADD, p) <=> p \in {"INPUT", "SKIP"}
  <2>1. PacketPlan(OP_RESIDUAL_ADD) = << "INPUT", "SKIP" >>
    BY DEF PacketPlan
  <2>2. DOMAIN << "INPUT", "SKIP" >> = 1..2
    OBVIOUS
  <2> QED BY <2>1, <2>2 DEF Uses
<1>3. \A p : Uses(OP_GLOBAL_AVG_POOL, p) <=> p = "INPUT"
  <2>1. PacketPlan(OP_GLOBAL_AVG_POOL) = << "INPUT" >>
    BY DEF PacketPlan
  <2>2. DOMAIN << "INPUT" >> = 1..1
    OBVIOUS
  <2> QED BY <2>1, <2>2 DEF Uses
<1> QED BY <1>1, <1>2, <1>3

(* A beat is taken in a load state, between its packet's start and end.      *)
LEMMA BeatIsLoad ==
  ASSUME NEW beat \in BeatsNow, beat # NoBeat
  PROVE  state \in LoadStates /\ ~packet_start /\ ~packet_done
BY DEF BeatsNow, InputReady, PacketActive

(* How the controller comes to, or stays in, a busy state.                   *)
LEMMA BusyMoves ==
  ASSUME IInv, NEW out \in BOOLEAN, Moves(out), state' \in BusyStates
  PROVE  /\ ~start_pulse /\ ~PacketError /\ ~EngineAbort
         /\ \/ Waits(out)
            \/ admission /\ AcceptOperation
            \/ packet_done /\ FinishPacket
            \/ EngineOf(snap.op) \in engine_done /\ FinishCompute
<1> USE DEF BusyStates, LoadStates
<1>1. start_pulse => ~Busy /\ state = "IDLE"
  BY DEF IInv, CommandsInv
<1>2. cancel_pulse => state = "IDLE" /\ ~admission
  BY DEF IInv, LoaderInv
<1>3. ~LeaveReset(error_clear) /\ ~Cancels /\ ~RejectOperation /\ ~TakeStart(cfg) /\ ~Rest /\ ~FinishOutput
  BY DEF LeaveReset, Cancels, RejectOperation, TakeStart, Rest, FinishOutput
<1>4. admission => state = "IDLE"
  BY DEF IInv, ValidatorInv
<1>5. ~(admission /\ Checks)
  BY <1>4, ChecksFrame
<1>6. Undisturbed
  BY <1>3, Zenon DEF Moves
<1>7. \/ Waits(out)
      \/ admission /\ AcceptOperation
      \/ packet_done /\ FinishPacket
      \/ EngineOf(snap.op) \in engine_done /\ FinishCompute
  BY <1>3, <1>5, Zenon DEF Moves
<1>8. admission \/ state \in BusyStates
  BY <1>7 DEF Waits, Await, FinishPacket, FinishCompute
<1> QED BY <1>1, <1>2, <1>4, <1>6, <1>7, <1>8 DEF Undisturbed, EngineAbort, Busy

LEMMA AdmissionMoves ==
  ASSUME IInv, NEW out \in BOOLEAN, Moves(out), admission'
  PROVE  start_pulse \/ admission
<1>1. ~Cancels
  BY DEF Cancels, DropValidation
<1>2. LeaveReset(error_clear) => admission
  BY DEF LeaveReset
<1>3. ~admission => \/ start_pulse
                    \/ ~start_pulse /\ Rest
                    \/ packet_done /\ FinishPacket
                    \/ EngineOf(snap.op) \in engine_done /\ FinishCompute
                    \/ out /\ FinishOutput
                    \/ Waits(out)
  BY <1>1, <1>2, Zenon DEF Moves
<1> QED BY <1>3 DEF Rest, FinishPacket, FinishCompute, FinishOutput, Waits, Await

(* The loader's clock, by whether it takes a beat.                          *)
LEMMA Loads ==
  ASSUME IInv, DataTypeOK, NEW beat \in BeatsNow, NEW tready, ~start_pulse,
         LoaderClock(packet_start, ExpectedPacketBytes, beat), Remember(beat, tready)
  PROVE  \/ /\ beat = NoBeat /\ LoaderWrites(beat) = {} /\ given' = given
            /\ byte_count' = (IF packet_start THEN 0 ELSE byte_count) /\ ~packet_done'
         \/ /\ beat # NoBeat /\ LoaderWrites(beat) = {} /\ given' = given
            /\ byte_count' = byte_count /\ ~packet_done'
         \/ /\ beat # NoBeat
            /\ LoaderWrites(beat) = {WordWrite(PacketSelect, LoadAddress,
                                       Datum(starts, PacketSelect, given[PacketSelect]))}
            /\ given' = [given EXCEPT ![PacketSelect] = @ + 1]
            /\ byte_count' = byte_count + 4
            /\ byte_count + 4 <= ExpectedPacketBytes
            /\ packet_done' => byte_count' = ExpectedPacketBytes
<1> DEFINE w == WordWrite(PacketSelect, LoadAddress, Datum(starts, PacketSelect, given[PacketSelect]))
<1>1. {w} # {}
  OBVIOUS
<1>2. beat \in Beats \cup {NoBeat}
  BY DEF BeatsNow
<1>3. LoaderWrites(beat) = IF beat # NoBeat /\ CountValid(beat, ExpectedPacketBytes) THEN {w} ELSE {}
  BY DEF LoaderWrites
<1>4. given' = IF LoaderWrites(beat) = {} THEN given ELSE [given EXCEPT ![PacketSelect] = @ + 1]
  BY DEF Remember
<1> HIDE DEF w
<1>5. CASE beat = NoBeat
  BY <1>3, <1>4, <1>5, <1>2 DEF LoaderClock, LoaderWait, Beats
<1>6. CASE beat # NoBeat /\ LoaderCount(beat, ExpectedPacketBytes)
  BY <1>1, <1>3, <1>4, <1>6 DEF LoaderCount, CountValid, ExpectedLast, w
<1>7. CASE beat # NoBeat /\ LoaderOverrun(beat, ExpectedPacketBytes)
  BY <1>3, <1>4, <1>7 DEF LoaderOverrun
<1> QED BY <1>5, <1>6, <1>7 DEF LoaderClock

LEMMA GivenInvStep ==
  ASSUME IInv, DataInv, NEW beat \in BeatsNow, NEW tready \in TreadyNow, NEW out \in BOOLEAN,
         Moves(out), LoaderClock(packet_start, ExpectedPacketBytes, beat), Remember(beat, tready)
  PROVE  GivenInv'
<1> USE DEF BusyStates, LoadStates
<1>1. admission' => given' = NothingGiven /\ sent' = 0
  <2>1. SUFFICES ASSUME admission', ~start_pulse
                 PROVE  given' = NothingGiven /\ sent' = 0
    BY DEF Remember
  <2>2. admission
    BY <2>1, AdmissionMoves
  <2>3. state = "IDLE" /\ ~OutputValid
    BY <2>2 DEF IInv, ValidatorInv, StreamerInv, OutputValid
  <2>4. beat = NoBeat
    BY <2>3, BeatIsLoad
  <2> QED BY <2>1, <2>2, <2>3, <2>4 DEF Remember, LoaderWrites, DataInv, GivenInv
<1>2. SUFFICES ASSUME state' \in BusyStates
               PROVE  GivenInv'
  BY <1>1 DEF GivenInv
<1>3. /\ ~start_pulse
      /\ \/ Waits(out)
         \/ admission /\ AcceptOperation
         \/ packet_done /\ FinishPacket
         \/ EngineOf(snap.op) \in engine_done /\ FinishCompute
  BY <1>2, BusyMoves
<1>4. given \in [Packets -> Nat] /\ byte_count \in Nat /\ snap.bytes \in [Packets -> Nat]
  <2>1. WellFormed(snap)
    BY WellFormedConfigs DEF IInv
  <2> QED BY <2>1 DEF IInv, TypeOK, LoaderTypeOK, DataInv, DataTypeOK, WellFormed, ConfigRecords
<1>5. CASE Waits(out)
  <2>1. /\ state' = state /\ snap' = snap /\ ~packet_start' /\ ~admission'
        /\ state \in LoadStates => ~packet_done
    BY <1>5, <1>2 DEF Waits, Await, NoOutputs, Outputs, IInv, ValidatorInv
  <2>2. Received' = Received /\ PacketSelect' = PacketSelect /\ ExpectedPacketBytes' = ExpectedPacketBytes
    BY <2>1 DEF Received, PacketSelect, ExpectedPacketBytes
  <2>3. PacketSelect \in Packets /\ (state \in LoadStates => PacketSelect \notin Received)
    BY DEF PacketSelect, Received, Packets, IInv, RegistersInv
  <2>4. CASE /\ given' = given /\ ~packet_done'
             /\ byte_count' = IF packet_start THEN 0 ELSE byte_count
    BY <2>1, <2>2, <2>3, <2>4, <1>4 DEF DataInv, GivenInv, ExpectedPacketBytes
  <2>5. CASE /\ beat # NoBeat
             /\ given' = [given EXCEPT ![PacketSelect] = @ + 1]
             /\ byte_count' = byte_count + 4
             /\ byte_count + 4 <= ExpectedPacketBytes
             /\ packet_done' => byte_count' = ExpectedPacketBytes
    <3>1. state \in LoadStates /\ ~packet_start
      BY <2>5, BeatIsLoad
    <3>2. \A q \in Packets : given'[q] = IF q = PacketSelect THEN given[q] + 1 ELSE given[q]
      BY <2>5, <1>4
    <3> QED BY <2>1, <2>2, <2>3, <2>5, <3>1, <3>2, <1>4 DEF DataInv, GivenInv
  <2>6. beat # NoBeat => ~packet_start
    BY BeatIsLoad
  <2> QED BY <1>3, <2>4, <2>5, <2>6, Loads DEF DataInv
<1>6. CASE admission /\ AcceptOperation
  <2>1. /\ state' = IF pending.op = OP_CONV THEN "LOAD_WEIGHT" ELSE "LOAD_INPUT"
        /\ snap' = pending /\ packet_start' /\ ~admission'
    BY <1>6 DEF AcceptOperation, Outputs
  <2>2. state = "IDLE"
    BY <1>6 DEF IInv, ValidatorInv
  <2>3. beat = NoBeat
    BY <2>2, BeatIsLoad
  <2>4. given' = NothingGiven /\ ~packet_done'
    BY <1>6, <1>3, <2>3, Loads DEF DataInv, GivenInv
  <2>5. Received' = {} /\ PacketSelect' \in Packets
    BY <2>1 DEF Received, PacketSelect, Packets
  <2> QED BY <2>1, <2>4, <2>5 DEF GivenInv, NothingGiven
<1>7. CASE packet_done /\ FinishPacket
  <2>1. /\ state \in LoadStates /\ state' = AfterPacket /\ snap' = snap
        /\ state' \in LoadStates => packet_start'
        /\ ~admission'
    BY <1>7 DEF FinishPacket, AfterPacket, Outputs, IInv, ValidatorInv
  <2>2. beat = NoBeat
    BY <1>7, BeatIsLoad
  <2>3. given' = given /\ ~packet_done'
    BY <1>3, <2>2, Loads DEF DataInv
  <2>4. 4 * given[PacketSelect] = snap.bytes[PacketSelect]
    BY <2>1, <1>7 DEF DataInv, GivenInv, IInv, LoaderInv, ExpectedPacketBytes
  <2>5. /\ Received' = Received \cup {PacketSelect}
        /\ state' \in LoadStates => PacketSelect' \in Packets \ (Received \cup {PacketSelect})
    <3>1. snap.op \in Operations
      BY OperationFits, <2>1
    <3> QED BY <2>1, <3>1, UsedPackets DEF Received, PacketSelect, AfterPacket, Packets, Operations,
            IInv, RegistersInv
  <2> QED BY <2>1, <2>3, <2>4, <2>5, <1>4 DEF DataInv, GivenInv
<1>8. CASE EngineOf(snap.op) \in engine_done /\ FinishCompute
  <2>1. state = "COMPUTE" /\ state' = "SEND_OUTPUT" /\ snap' = snap /\ ~admission'
    BY <1>8 DEF FinishCompute, IInv, ValidatorInv
  <2>2. given' = given
    BY <1>3, <2>1, Loads, BeatIsLoad DEF DataInv
  <2> QED BY <2>1, <2>2 DEF DataInv, GivenInv, Received
<1> QED BY <1>3, <1>5, <1>6, <1>7, <1>8

-----------------------------------------------------------------------------
(* The memories.                                                            *)

(* A word that no write is to keeps its value, and one that a single write of *)
(* the memory is to takes the lanes that are enabled.                        *)
LEMMA MemoryClock ==
  ASSUME DataTypeOK, NEW W, NEW main, NEW skip, NEW output, BuffersClock(W, main, skip, output),
         NEW m \in Memories, NEW a \in 0..MAX_WORDS[m] - 1
  PROVE  /\ DOMAIN mem'[m] = 0..MAX_WORDS[m] - 1
         /\ mem'[m][a] = [i \in Lanes |-> mem'[m][a][i]]
         /\ \A i \in Lanes : (\A w \in W : ~(w.mem = m /\ w.addr = a /\ i \in w.lanes)) =>
              mem'[m][a][i] = mem[m][a][i]
         /\ \A w \in W : w.mem = m /\ w.addr = a /\ (\A v \in W : v.mem = m => v = w) =>
              \A i \in Lanes \cap w.lanes : mem'[m][a][i] = w.data[i]
<1> DEFINE at(i) == {w \in W : w.mem = m /\ w.addr = a /\ i \in w.lanes}
           word(i) == IF \E w \in W : w.mem = m /\ w.addr = a /\ i \in w.lanes
                      THEN (CHOOSE w \in W : w.mem = m /\ w.addr = a /\ i \in w.lanes).data[i]
                      ELSE mem[m][a][i]
<1>1. DOMAIN mem[m] = 0..MAX_WORDS[m] - 1
  BY DEF DataTypeOK
<1>2. mem'[m] = [b \in DOMAIN mem[m] |-> [i \in 0..3 |->
       IF \E w \in W : w.mem = m /\ w.addr = b /\ i \in w.lanes
       THEN (CHOOSE w \in W : w.mem = m /\ w.addr = b /\ i \in w.lanes).data[i]
       ELSE mem[m][b][i]]]
  BY Zenon DEF BuffersClock
<1>3. mem'[m][a] = [i \in 0..3 |-> word(i)]
  BY <1>1, <1>2
<1>4. DOMAIN mem'[m] = 0..MAX_WORDS[m] - 1 /\ mem'[m][a] = [i \in Lanes |-> mem'[m][a][i]]
  BY <1>1, <1>2, <1>3 DEF Lanes
<1>5. ASSUME NEW i \in Lanes
      PROVE  mem'[m][a][i] = word(i)
  BY <1>3 DEF Lanes
<1>6. ASSUME NEW i \in Lanes, \A w \in W : ~(w.mem = m /\ w.addr = a /\ i \in w.lanes)
      PROVE  mem'[m][a][i] = mem[m][a][i]
  BY <1>5, <1>6
<1>7. ASSUME NEW w \in W, w.mem = m, w.addr = a, \A v \in W : v.mem = m => v = w,
             NEW i \in Lanes \cap w.lanes
      PROVE  mem'[m][a][i] = w.data[i]
  <2>1. (CHOOSE v \in W : v.mem = m /\ v.addr = a /\ i \in v.lanes) = w
    BY <1>7
  <2> QED BY <1>5, <1>7, <2>1
<1> QED BY <1>4, <1>6, <1>7

(* A memory that nothing is written to keeps its words.                      *)
LEMMA MemoryKeeps ==
  ASSUME DataTypeOK, NEW W, NEW main, NEW skip, NEW output, BuffersClock(W, main, skip, output),
         NEW m \in Memories, \A w \in W : w.mem # m
  PROVE  \A a \in 0..MAX_WORDS[m] - 1 : mem'[m][a] = mem[m][a]
<1> SUFFICES ASSUME NEW a \in 0..MAX_WORDS[m] - 1
             PROVE  mem'[m][a] = mem[m][a]
  OBVIOUS
<1>1. /\ mem'[m][a] = [i \in Lanes |-> mem'[m][a][i]]
      /\ \A i \in Lanes : mem'[m][a][i] = mem[m][a][i]
  BY MemoryClock
<1>2. mem[m][a] \in [Lanes -> Lane]
  BY DEF DataTypeOK
<1> QED BY <1>1, <1>2

(* A write of a whole word, and of nothing else of its memory.               *)
LEMMA MemoryTakesWord ==
  ASSUME DataTypeOK, NEW W, NEW main, NEW skip, NEW output, BuffersClock(W, main, skip, output),
         NEW m \in Memories, NEW n \in 0..MAX_WORDS[m] - 1, NEW data \in [Lanes -> Lane],
         WordWrite(m, n, data) \in W, \A w \in W : w.mem = m => w = WordWrite(m, n, data)
  PROVE  \A a \in 0..MAX_WORDS[m] - 1 : mem'[m][a] = IF a = n THEN data ELSE mem[m][a]
<1> DEFINE w == WordWrite(m, n, data)
<1>1. w.mem = m /\ w.addr = n /\ w.lanes = Lanes /\ w.data = data
  <2>1. MAX_WORDS[m] \in Nat \ {0}
    BY MemoriesAssumption
  <2>2. n % MAX_WORDS[m] = n
    BY <2>1
  <2> QED BY <2>2 DEF WordWrite, WriteOf, Address, Lanes
<1>2. w \in W /\ \A v \in W : v.mem = m => v = w
  OBVIOUS
<1> HIDE DEF w
<1> SUFFICES ASSUME NEW a \in 0..MAX_WORDS[m] - 1
             PROVE  mem'[m][a] = IF a = n THEN data ELSE mem[m][a]
  OBVIOUS
<1>3. /\ mem'[m][a] = [i \in Lanes |-> mem'[m][a][i]]
      /\ \A i \in Lanes : (\A v \in W : ~(v.mem = m /\ v.addr = a /\ i \in v.lanes)) =>
           mem'[m][a][i] = mem[m][a][i]
      /\ \A v \in W : v.mem = m /\ v.addr = a /\ (\A u \in W : u.mem = m => u = v) =>
           \A i \in Lanes \cap v.lanes : mem'[m][a][i] = v.data[i]
  BY MemoryClock
<1>4. mem[m][a] \in [Lanes -> Lane]
  BY DEF DataTypeOK
<1>5. CASE a = n
  <2>1. \A i \in Lanes : mem'[m][a][i] = data[i]
    BY <1>1, <1>2, <1>3, <1>5
  <2> QED BY <1>3, <1>5, <2>1
<1>6. CASE a # n
  <2>1. \A i \in Lanes : mem'[m][a][i] = mem[m][a][i]
    BY <1>1, <1>2, <1>3, <1>6
  <2> QED BY <1>3, <1>4, <1>6, <2>1
<1> QED BY <1>5, <1>6

(* A write of one byte.                                                     *)
LEMMA MemoryTakesByte ==
  ASSUME DataTypeOK, NEW W, NEW main, NEW skip, NEW output, BuffersClock(W, main, skip, output),
         NEW e \in Nat, e \div 4 < MAX_WORDS["OUTPUT"], NEW byte \in Lane,
         ByteWrite(e, byte) \in W, \A w \in W : w.mem = "OUTPUT" => w = ByteWrite(e, byte)
  PROVE  \A a \in 0..MAX_WORDS["OUTPUT"] - 1 :
           mem'["OUTPUT"][a] = [i \in Lanes |-> IF a = e \div 4 /\ i = e % 4 THEN byte ELSE mem["OUTPUT"][a][i]]
<1> DEFINE w == ByteWrite(e, byte)
           n == e \div 4
<1>1. n \in 0..MAX_WORDS["OUTPUT"] - 1 /\ e % 4 \in Lanes
  BY MemoriesAssumption DEF Lanes, Memories
<1>2. w.mem = "OUTPUT" /\ w.addr = n /\ w.lanes = {e % 4} /\ w.data = [i \in 0..3 |-> byte]
  <2>1. n % MAX_WORDS["OUTPUT"] = n
    BY <1>1, MemoriesAssumption DEF Memories
  <2> QED BY <2>1 DEF ByteWrite, WriteOf, Address
<1>3. w \in W /\ \A v \in W : v.mem = "OUTPUT" => v = w
  OBVIOUS
<1>4. "OUTPUT" \in Memories
  BY DEF Memories
<1> HIDE DEF w, n
<1> SUFFICES ASSUME NEW a \in 0..MAX_WORDS["OUTPUT"] - 1
             PROVE  mem'["OUTPUT"][a] =
                      [i \in Lanes |-> IF a = n /\ i = e % 4 THEN byte ELSE mem["OUTPUT"][a][i]]
  BY DEF n
<1>5. /\ mem'["OUTPUT"][a] = [i \in Lanes |-> mem'["OUTPUT"][a][i]]
      /\ \A i \in Lanes : (\A v \in W : ~(v.mem = "OUTPUT" /\ v.addr = a /\ i \in v.lanes)) =>
           mem'["OUTPUT"][a][i] = mem["OUTPUT"][a][i]
      /\ \A v \in W : v.mem = "OUTPUT" /\ v.addr = a /\ (\A u \in W : u.mem = "OUTPUT" => u = v) =>
           \A i \in Lanes \cap v.lanes : mem'["OUTPUT"][a][i] = v.data[i]
  BY <1>4, MemoryClock
<1>6. ASSUME NEW i \in Lanes
      PROVE  mem'["OUTPUT"][a][i] = IF a = n /\ i = e % 4 THEN byte ELSE mem["OUTPUT"][a][i]
  <2>1. CASE a = n /\ i = e % 4
    <3>1. mem'["OUTPUT"][a][i] = w.data[i]
      BY <1>2, <1>3, <1>5, <2>1
    <3> QED BY <1>2, <2>1, <3>1 DEF Lanes
  <2>2. CASE ~(a = n /\ i = e % 4)
    <3>1. \A v \in W : ~(v.mem = "OUTPUT" /\ v.addr = a /\ i \in v.lanes)
      BY <1>2, <1>3, <2>2
    <3> QED BY <1>5, <2>2, <3>1
  <2> QED BY <2>1, <2>2
<1> QED BY <1>5, <1>6

(* A sum of two words is a word.                                            *)
LEMMA AddsLanes ==
  ASSUME NEW main \in [Lanes -> Lane], NEW skip \in [Lanes -> Lane], NEW relu \in BOOLEAN
  PROVE  AddWords(main, skip, relu) \in [Lanes -> Lane]
<1>1. \A i \in Lanes : main[i] \in Int /\ skip[i] \in Int
  BY TensorAssumption DEF Lane
<1>2. \A m, s \in Int : AddLane(m, s, relu) \in Lane
  BY TensorAssumption DEF AddLane, Lane
<1> QED BY <1>1, <1>2 DEF AddWords

(* The packet that is loaded is one of the operation's, and does not fill     *)
(* its memory before its last word.                                         *)
LEMMA LoadFits ==
  ASSUME IInv, DataInv, state \in LoadStates
  PROVE  /\ PacketSelect \in Packets /\ Uses(snap.op, PacketSelect)
         /\ ~packet_start /\ byte_count + 4 <= ExpectedPacketBytes =>
              given[PacketSelect] \in 0..MAX_WORDS[PacketSelect] - 1 /\ LoadAddress = given[PacketSelect]
<1>1. state \in BusyStates
  BY DEF BusyStates
<1>2. snap.op \in Operations
  BY <1>1, OperationFits
<1>3. PacketSelect \in Packets /\ Uses(snap.op, PacketSelect)
  BY <1>2, UsedPackets DEF IInv, RegistersInv, PacketSelect, LoadStates, Operations, Packets
<1>4. MAX_WORDS[PacketSelect] \in Nat /\ snap.bytes[PacketSelect] <= 4 * MAX_WORDS[PacketSelect]
      /\ snap.bytes[PacketSelect] \in Nat
  BY <1>1, <1>3, OperationFits, MemoriesAssumption DEF Memories
<1>5. given[PacketSelect] \in Nat /\ (~packet_start => byte_count = 4 * given[PacketSelect])
  BY <1>3 DEF DataInv, DataTypeOK, GivenInv
<1> QED BY <1>3, <1>4, <1>5 DEF LoadAddress, ExpectedPacketBytes

(* At most one of the loader and the engines writes at an edge.               *)
LEMMA WritesApart ==
  ASSUME IInv, DataInv, NEW beat \in BeatsNow, NEW writers \in SUBSET (running \cap ByteEngines)
  PROVE  /\ \A w \in LoaderWrites(beat) : w.mem = PacketSelect
         /\ \A w \in OutputWrites(writers) : w.mem = "OUTPUT"
         /\ LoaderWrites(beat) # {} => state \in LoadStates /\ ~packet_start /\ OutputWrites(writers) = {}
         /\ OutputWrites(writers) # {} => state = "COMPUTE"
<1>1. \A w \in LoaderWrites(beat) : w.mem = PacketSelect
  BY DEF LoaderWrites, WordWrite, WriteOf
<1>2. \A w \in OutputWrites(writers) : w.mem = "OUTPUT"
  BY DEF OutputWrites, WordWrite, ByteWrite, WriteOf
<1>3. LoaderWrites(beat) # {} => state \in LoadStates /\ ~packet_start
  BY BeatIsLoad DEF LoaderWrites
<1>4. OutputWrites(writers) # {} => running # {}
  <2>1. ResidualWrites => "residual" \in running
    BY DEF DataInv, ComputedInv, ResidualWrites
  <2> QED BY <2>1 DEF OutputWrites
<1>5. running # {} => state = "COMPUTE"
  BY DEF IInv, EngineInv
<1> QED BY <1>1, <1>2, <1>3, <1>4, <1>5 DEF LoadStates

(* What a clock edge does to the memories of the packets.                    *)
LEMMA PacketsWritten ==
  ASSUME IInv, DataInv, NEW beat \in BeatsNow, NEW writers \in SUBSET (running \cap ByteEngines),
         NEW main, NEW skip, NEW output,
         BuffersClock(LoaderWrites(beat) \cup OutputWrites(writers), main, skip, output),
         NEW p \in Packets, NEW a \in 0..MAX_WORDS[p] - 1
  PROVE  mem'[p][a] = IF LoaderWrites(beat) # {} /\ p = PacketSelect /\ a = given[p]
                      THEN Datum(starts, p, a) ELSE mem[p][a]
<1> DEFINE W == LoaderWrites(beat) \cup OutputWrites(writers)
<1>1. p \in Memories /\ p # "OUTPUT" /\ DataTypeOK
  BY DEF Memories, Packets, DataInv
<1>2. BuffersClock(W, main, skip, output)
  OBVIOUS
<1>3. CASE LoaderWrites(beat) = {} \/ p # PacketSelect
  <2>1. \A w \in W : w.mem # p
    BY <1>1, <1>3, WritesApart
  <2> HIDE DEF W
  <2> QED BY <1>1, <1>2, <1>3, <2>1, MemoryKeeps
<1>4. CASE LoaderWrites(beat) # {} /\ p = PacketSelect
  <2> DEFINE n == given[p]
             data == Datum(starts, p, n)
             w == WordWrite(p, n, data)
  <2>1. state \in LoadStates /\ ~packet_start /\ byte_count + 4 <= ExpectedPacketBytes
    BY <1>4, WritesApart DEF LoaderWrites, CountValid
  <2>2. n \in 0..MAX_WORDS[p] - 1 /\ LoadAddress = n
    BY <1>4, <2>1, LoadFits
  <2>3. data \in [Lanes -> Lane]
    BY <2>2, <1>1, DataAssumption DEF DataTypeOK
  <2>4. LoaderWrites(beat) = {w}
    BY <1>4, <2>2 DEF LoaderWrites
  <2>5. w \in W /\ \A v \in W : v.mem = p => v = w
    BY <1>1, <2>4, WritesApart
  <2> HIDE DEF W, n, data
  <2>6. mem'[p][a] = IF a = n THEN data ELSE mem[p][a]
    BY <1>1, <1>2, <2>2, <2>3, <2>5, MemoryTakesWord
  <2> QED BY <1>4, <2>6 DEF n, data
<1> QED BY <1>3, <1>4

(* The byte an engine writes is one of its output.                          *)
LEMMA WrittenByte ==
  ASSUME IInv, DataInv, NEW e \in running \cap ByteEngines
  PROVE  /\ state = "COMPUTE" /\ running = {e} /\ EngineOf(snap.op) = e
         /\ element[e] \in 0..snap.output - 1 /\ element[e] \div 4 < MAX_WORDS["OUTPUT"]
         /\ Byte(starts, element[e]) \in Lane
<1>1. state = "COMPUTE" /\ running = {e} /\ EngineOf(snap.op) = e
  BY DEF IInv, EngineInv
<1>2. element[e] \in Nat /\ element[e] < snap.output
  BY DEF DataInv, DataTypeOK, ComputedInv
<1>3. /\ snap.output \in Nat /\ snap.output <= 4 * MAX_WORDS["OUTPUT"]
      /\ MAX_WORDS["OUTPUT"] \in Nat
  BY <1>1, OperationFits, MemoriesAssumption DEF BusyStates, Memories
<1>4. element[e] \in 0..4 * MAX_WORDS["OUTPUT"] - 1 /\ element[e] \div 4 < MAX_WORDS["OUTPUT"]
  BY <1>2, <1>3
<1>5. Byte(starts, element[e]) \in Lane
  BY <1>4, DataAssumption DEF DataInv, DataTypeOK
<1> QED BY <1>1, <1>2, <1>3, <1>4, <1>5

(* What it does to the memory of the output.                                *)
LEMMA OutputWritten ==
  ASSUME IInv, DataInv, NEW beat \in BeatsNow, NEW writers \in SUBSET (running \cap ByteEngines),
         NEW main, NEW skip, NEW output,
         BuffersClock(LoaderWrites(beat) \cup OutputWrites(writers), main, skip, output),
         NEW a \in 0..MAX_WORDS["OUTPUT"] - 1
  PROVE  /\ ~ResidualWrites /\ writers = {} => mem'["OUTPUT"][a] = mem["OUTPUT"][a]
         /\ ResidualWrites =>
              mem'["OUTPUT"][a] = IF a = res_index
                                  THEN AddWords(main_word_rd_data, skip_rd_data, snap \in ReluConfigs)
                                  ELSE mem["OUTPUT"][a]
         /\ \A e \in writers :
              mem'["OUTPUT"][a] = [i \in Lanes |-> IF a = element[e] \div 4 /\ i = element[e] % 4
                                                   THEN Byte(starts, element[e])
                                                   ELSE mem["OUTPUT"][a][i]]
<1> DEFINE W == LoaderWrites(beat) \cup OutputWrites(writers)
<1>1. "OUTPUT" \in Memories /\ DataTypeOK
  BY DEF Memories, DataInv
<1>2. BuffersClock(W, main, skip, output)
  OBVIOUS
<1>3. PacketSelect # "OUTPUT"
  BY DEF PacketSelect
<1>4. running # {} => state = "COMPUTE" /\ running = {EngineOf(snap.op)}
  BY DEF IInv, EngineInv
<1>5. ~ResidualWrites /\ writers = {} => mem'["OUTPUT"][a] = mem["OUTPUT"][a]
  <2>1. SUFFICES ASSUME ~ResidualWrites /\ writers = {}
                 PROVE  mem'["OUTPUT"][a] = mem["OUTPUT"][a]
    OBVIOUS
  <2>2. OutputWrites(writers) = {}
    BY <2>1 DEF OutputWrites
  <2>3. \A w \in W : w.mem # "OUTPUT"
    BY <1>3, <2>2, WritesApart
  <2> HIDE DEF W
  <2> QED BY <1>1, <1>2, <2>3, MemoryKeeps
<1>6. ASSUME ResidualWrites
      PROVE  mem'["OUTPUT"][a] = IF a = res_index
                                 THEN AddWords(main_word_rd_data, skip_rd_data, snap \in ReluConfigs)
                                 ELSE mem["OUTPUT"][a]
  <2> DEFINE data == AddWords(main_word_rd_data, skip_rd_data, snap \in ReluConfigs)
             w == WordWrite("OUTPUT", res_index, data)
  <2>1. state = "COMPUTE" /\ res_index < snap.output \div 4 /\ res_index \in Nat
    BY <1>4, <1>6 DEF DataInv, DataTypeOK, ComputedInv, ResidualWrites
  <2>2. res_index \in 0..MAX_WORDS["OUTPUT"] - 1
    BY <2>1, <1>1, OperationFits, MemoriesAssumption DEF BusyStates
  <2>3. data \in [Lanes -> Lane]
    <3> DEFINE relu == snap \in ReluConfigs
    <3>1. main_word_rd_data \in [Lanes -> Lane] /\ skip_rd_data \in [Lanes -> Lane] /\ relu \in BOOLEAN
      BY <1>1 DEF DataTypeOK
    <3> HIDE DEF relu
    <3>2. AddWords(main_word_rd_data, skip_rd_data, relu) \in [Lanes -> Lane]
      BY <3>1, AddsLanes
    <3> QED BY <3>2 DEF relu
  <2>4. OutputWrites(writers) = {w}
    BY <1>6 DEF OutputWrites
  <2>5. w \in W /\ \A v \in W : v.mem = "OUTPUT" => v = w
    BY <1>3, <2>4, WritesApart
  <2> HIDE DEF W, data
  <2> QED BY <1>1, <1>2, <2>2, <2>3, <2>5, MemoryTakesWord DEF data
<1>7. ASSUME NEW e \in writers
      PROVE  mem'["OUTPUT"][a] = [i \in Lanes |-> IF a = element[e] \div 4 /\ i = element[e] % 4
                                                  THEN Byte(starts, element[e])
                                                  ELSE mem["OUTPUT"][a][i]]
  <2> DEFINE k == element[e]
             w == ByteWrite(k, Byte(starts, k))
  <2>1. running = {e} /\ e \in ByteEngines /\ e # "residual"
    BY WrittenByte DEF ByteEngines
  <2>2. ~ResidualWrites
    BY <2>1 DEF DataInv, ComputedInv, ResidualWrites
  <2>3. PortOwner = e
    BY <2>1 DEF PortOwner, ByteEngines
  <2>4. k \in Nat /\ k \div 4 < MAX_WORDS["OUTPUT"] /\ Byte(starts, k) \in Lane
    BY WrittenByte
  <2>7. OutputWrites(writers) = {w}
    BY <2>2, <2>3 DEF OutputWrites
  <2>8. w \in W /\ \A v \in W : v.mem = "OUTPUT" => v = w
    BY <1>3, <2>7, WritesApart
  <2> HIDE DEF W, k
  <2>9. mem'["OUTPUT"][a] = [i \in Lanes |-> IF a = k \div 4 /\ i = k % 4 THEN Byte(starts, k)
                                             ELSE mem["OUTPUT"][a][i]]
    BY <1>1, <1>2, <2>4, <2>8, MemoryTakesByte
  <2> QED BY <2>9 DEF k
<1> QED BY <1>5, <1>6, <1>7

-----------------------------------------------------------------------------
(* The parts of the invariant, one clock edge at a time.                    *)

(* The parts of an edge that the steps below need.                          *)
LEMMA DataEdgeParts ==
  ASSUME IInv, NEW beat \in BeatsNow, NEW tready \in TreadyNow,
         NEW writers \in SUBSET (running \cap ByteEngines), DataEdge(beat, tready, writers)
  PROVE  /\ OutputDone(tready) \in BOOLEAN /\ tready \in BOOLEAN
         /\ Moves(OutputDone(tready))
         /\ AxiClock(Busy)
         /\ LoaderClock(packet_start, ExpectedPacketBytes, beat)
         /\ EnginesClock(engine_start, EngineAbort)
         /\ StreamerClock(output_start, EngineAbort, snap.output, tready)
         /\ ResidualClock("residual" \in engine_start, EngineAbort, snap.bytes["INPUT"])
         /\ ResidualIsEngine
         /\ ByteEnginesClock(writers)
         /\ Remember(beat, tready)
         /\ \E main, skip, output :
              BuffersClock(LoaderWrites(beat) \cup OutputWrites(writers), main, skip, output)
         /\ ResidualReads =>
              /\ main_word_rd_data' = mem["INPUT"][Address("INPUT", res_index)]
              /\ skip_rd_data' = mem["SKIP"][Address("SKIP", res_index)]
         /\ ~ResidualReads => UNCHANGED << main_word_rd_data, skip_rd_data >>
         /\ output_rd_data' = IF out_state = "OUT_READ" THEN mem["OUTPUT"][Address("OUTPUT", word_index)]
                              ELSE output_rd_data
<1>1. TypeOK /\ ClockEdge(beat, tready)
  BY DEF IInv, DataEdge
<1>2. OutputDone(tready) \in BOOLEAN /\ tready \in BOOLEAN
  BY <1>1, WireTypes
<1>3. /\ Moves(OutputDone(tready))
      /\ AxiClock(Busy)
      /\ LoaderClock(packet_start, ExpectedPacketBytes, beat)
      /\ EnginesClock(engine_start, EngineAbort)
      /\ StreamerClock(output_start, EngineAbort, snap.output, tready)
  BY <1>1, EdgeMoves
<1> DEFINE W == LoaderWrites(beat) \cup OutputWrites(writers)
           address(enabled, n) == IF enabled THEN {n} ELSE {}
<1>4. BuffersClock(W, address(ResidualReads, res_index), address(ResidualReads, res_index),
                   address(out_state = "OUT_READ", word_index))
  BY Zenon DEF DataEdge
<1>5. \E main, skip, output : BuffersClock(W, main, skip, output)
  BY <1>4, Zenon
<1>6. \A n : {n} # {} /\ (CHOOSE k \in {n} : TRUE) = n
  OBVIOUS
<1>7. /\ ResidualReads =>
           /\ main_word_rd_data' = mem["INPUT"][Address("INPUT", res_index)]
           /\ skip_rd_data' = mem["SKIP"][Address("SKIP", res_index)]
      /\ ~ResidualReads => UNCHANGED << main_word_rd_data, skip_rd_data >>
      /\ output_rd_data' = IF out_state = "OUT_READ" THEN mem["OUTPUT"][Address("OUTPUT", word_index)]
                           ELSE output_rd_data
  BY <1>4, <1>6 DEF BuffersClock
<1> QED BY <1>2, <1>3, <1>5, <1>7, Zenon DEF DataEdge

(* No packet is larger than its memory.                                     *)
LEMMA GivenFits ==
  ASSUME IInv, DataInv, state \in BusyStates, NEW p \in Packets, Uses(snap.op, p)
  PROVE  given[p] \in 0..MAX_WORDS[p]
<1>1. /\ snap.bytes[p] \in Nat /\ snap.bytes[p] <= 4 * MAX_WORDS[p]
      /\ MAX_WORDS[p] \in Nat /\ given[p] \in Nat
  BY OperationFits, MemoriesAssumption DEF Memories, DataInv, DataTypeOK
<1>2. state \notin LoadStates => p \in Received
  BY DEF Received, LoadStates
<1> QED BY <1>1, <1>2 DEF DataInv, GivenInv, ExpectedPacketBytes

LEMMA HeldInvStep ==
  ASSUME IInv, DataInv, NEW beat \in BeatsNow, NEW tready \in TreadyNow,
         NEW writers \in SUBSET (running \cap ByteEngines), DataEdge(beat, tready, writers)
  PROVE  HeldInv'
<1> SUFFICES ASSUME state' \in BusyStates, NEW p \in Packets, Uses(snap'.op, p),
                    NEW i \in 0..given'[p] - 1
             PROVE  mem'[p][i] = Datum(starts', p, i)
  BY DEF HeldInv
<1> DEFINE out == OutputDone(tready)
<1>1. out \in BOOLEAN /\ Moves(out) /\ Remember(beat, tready)
      /\ LoaderClock(packet_start, ExpectedPacketBytes, beat)
  BY DataEdgeParts
<1> HIDE DEF out
<1>2. /\ ~start_pulse
      /\ \/ Waits(out)
         \/ admission /\ AcceptOperation
         \/ packet_done /\ FinishPacket
         \/ EngineOf(snap.op) \in engine_done /\ FinishCompute
  BY <1>1, BusyMoves
<1>3. starts' = starts
  BY <1>1, <1>2 DEF Remember
<1>4. \/ LoaderWrites(beat) = {} /\ given' = given
      \/ LoaderWrites(beat) # {} /\ given' = [given EXCEPT ![PacketSelect] = @ + 1]
  BY <1>1 , <1>2 DEF Remember
<1>5. CASE admission /\ AcceptOperation
  <2>1. state = "IDLE" /\ given = NothingGiven
    BY <1>5 DEF IInv, ValidatorInv, DataInv, GivenInv
  <2>2. LoaderWrites(beat) = {}
    BY <2>1, BeatIsLoad DEF LoaderWrites, LoadStates
  <2>3. given' = NothingGiven
    BY <1>4, <2>1, <2>2
  <2> QED BY <2>3 DEF NothingGiven
<1>6. CASE ~(admission /\ AcceptOperation)
  <2>1. state \in BusyStates /\ snap' = snap
    BY <1>2, <1>6 DEF Waits, Await, FinishPacket, FinishCompute, BusyStates
  <2>2. given[p] \in 0..MAX_WORDS[p] /\ MAX_WORDS[p] \in Nat /\ given \in [Packets -> Nat]
    BY <2>1, GivenFits, MemoriesAssumption DEF Memories, DataInv, DataTypeOK
  <2>3. \A k \in 0..given[p] - 1 : mem[p][k] = Datum(starts, p, k)
    BY <2>1 DEF DataInv, HeldInv
  <2>4. \A a \in 0..MAX_WORDS[p] - 1 :
          mem'[p][a] = IF LoaderWrites(beat) # {} /\ p = PacketSelect /\ a = given[p]
                       THEN Datum(starts, p, a) ELSE mem[p][a]
    BY DataEdgeParts, PacketsWritten
  <2>5. LoaderWrites(beat) # {} /\ p = PacketSelect => given[p] \in 0..MAX_WORDS[p] - 1
    BY WritesApart, LoadFits DEF LoaderWrites, CountValid
  <2> QED BY <1>3, <1>4, <2>2, <2>3, <2>4, <2>5
<1> QED BY <1>5, <1>6

(* The bound on the host: a START that was written is still one of MaxStarts  *)
(* when its pulse comes, as no other is written before.                      *)
LEMMA HostInvStep ==
  ASSUME IInv, DataInv, NEW beat \in BeatsNow, NEW tready \in TreadyNow,
         NEW writers \in SUBSET (running \cap ByteEngines), DataEdge(beat, tready, writers)
  PROVE  HostInv' /\ starts' \in 0..MaxStarts
<1>1. /\ start_pulse \/ "START" \in wr.bits => starts < MaxStarts
      /\ aw_hold \/ w_hold \/ wr = NoWrite
      /\ bvalid => ~aw_hold /\ ~w_hold
      /\ starts \in 0..MaxStarts /\ MaxStarts \in Nat
  BY DataAssumption DEF DataInv, HostInv, DataTypeOK
<1>2. /\ AxiClock(Busy)
      /\ starts' = IF start_pulse THEN starts + 1 ELSE starts
      /\ wr = NoWrite /\ "START" \in wr'.bits => starts < MaxStarts
  BY DataEdgeParts DEF Remember, DataEdge
<1>3. start_pulse => bvalid
  BY DEF IInv, CommandsInv
<1>4. /\ aw_hold \in BOOLEAN /\ w_hold \in BOOLEAN
      /\ "START" \notin NoWrite.bits
  BY DEF IInv, TypeOK, AxiTypeOK, NoWrite
<1>5. CASE AxiIdle
  BY <1>1, <1>2, <1>3, <1>4, <1>5 DEF AxiIdle, NoPulse, HostInv
<1>6. CASE AxiAcceptFirst
  BY <1>1, <1>2, <1>3, <1>4, <1>6 DEF AxiAcceptFirst, NoPulse, HostInv
<1>7. CASE AxiAcceptSecond
  BY <1>1, <1>2, <1>3, <1>4, <1>7 DEF AxiAcceptSecond, NoPulse, HostInv
<1>8. CASE AxiRespond
  BY <1>1, <1>2, <1>3, <1>4, <1>8 DEF AxiRespond, NoPulse, HostInv
<1>9. CASE AxiDecode(Busy)
  <2>1. start_pulse' => "START" \in wr.bits
    BY <1>9 DEF AxiDecode, DecodeControl, DecodeStatus, DecodeConfig, DecodeOther
  <2> QED BY <1>1, <1>2, <1>3, <1>4, <1>9, <2>1 DEF AxiDecode, HostInv
<1> QED BY <1>2, <1>5, <1>6, <1>7, <1>8, <1>9 DEF AxiClock

(* The types: what is written into a memory, or read from one, is a word.    *)
LEMMA DataTypeStep ==
  ASSUME IInv, DataInv, NEW beat \in BeatsNow, NEW tready \in TreadyNow,
         NEW writers \in SUBSET (running \cap ByteEngines), DataEdge(beat, tready, writers)
  PROVE  DataTypeOK'
<1>1. DataTypeOK /\ HostInv
  BY DEF DataInv
<1>2. ASSUME NEW m \in Memories
      PROVE  mem'[m] \in [0..MAX_WORDS[m] - 1 -> [Lanes -> Lane]]
  <2>1. PICK main, skip, output :
          BuffersClock(LoaderWrites(beat) \cup OutputWrites(writers), main, skip, output)
    BY DataEdgeParts
  <2>2. mem'[m] = [a \in 0..MAX_WORDS[m] - 1 |-> mem'[m][a]]
    <3>1. DOMAIN mem[m] = 0..MAX_WORDS[m] - 1
      BY <1>1 DEF DataTypeOK
    <3> QED BY <2>1, <3>1 DEF BuffersClock
  <2>3. \A a \in 0..MAX_WORDS[m] - 1 : mem[m][a] \in [Lanes -> Lane]
    BY <1>1 DEF DataTypeOK
  <2>4. ASSUME NEW a \in 0..MAX_WORDS[m] - 1
        PROVE  mem'[m][a] \in [Lanes -> Lane]
    <3>1. CASE m \in Packets
      <4>1. mem'[m][a] = IF LoaderWrites(beat) # {} /\ m = PacketSelect /\ a = given[m]
                         THEN Datum(starts, m, a) ELSE mem[m][a]
        BY <2>1, <3>1, PacketsWritten
      <4>2. Datum(starts, m, a) \in [Lanes -> Lane]
        BY <1>1, <3>1, DataAssumption DEF DataTypeOK
      <4> QED BY <2>3, <4>1, <4>2
    <3>2. CASE m = "OUTPUT"
      <4>1. /\ ~ResidualWrites /\ writers = {} => mem'[m][a] = mem[m][a]
            /\ ResidualWrites =>
                 mem'[m][a] = IF a = res_index
                              THEN AddWords(main_word_rd_data, skip_rd_data, snap \in ReluConfigs)
                              ELSE mem[m][a]
            /\ \A e \in writers :
                 mem'[m][a] = [i \in Lanes |-> IF a = element[e] \div 4 /\ i = element[e] % 4
                                               THEN Byte(starts, element[e]) ELSE mem[m][a][i]]
        BY <2>1, <3>2, OutputWritten
      <4>2. AddWords(main_word_rd_data, skip_rd_data, snap \in ReluConfigs) \in [Lanes -> Lane]
        <5> DEFINE relu == snap \in ReluConfigs
        <5>1. main_word_rd_data \in [Lanes -> Lane] /\ skip_rd_data \in [Lanes -> Lane] /\ relu \in BOOLEAN
          BY <1>1 DEF DataTypeOK
        <5> HIDE DEF relu
        <5>2. AddWords(main_word_rd_data, skip_rd_data, relu) \in [Lanes -> Lane]
          BY <5>1, AddsLanes
        <5> QED BY <5>2 DEF relu
      <4>3. ASSUME NEW e \in writers
            PROVE  Byte(starts, element[e]) \in Lane
        BY WrittenByte
      <4>4. \A i \in Lanes : mem[m][a][i] \in Lane
        BY <2>3
      <4>5. ASSUME NEW e \in writers
            PROVE  mem'[m][a] \in [Lanes -> Lane]
        BY <4>1, <4>3, <4>4
      <4> QED BY <2>3, <4>1, <4>2, <4>5
    <3> QED BY <3>1, <3>2 DEF Memories
  <2> QED BY <2>2, <2>4
<1>3. main_word_rd_data' \in [Lanes -> Lane] /\ skip_rd_data' \in [Lanes -> Lane]
  <2>1. \A m \in Memories, n \in Nat : mem[m][Address(m, n)] \in [Lanes -> Lane]
    <3>1. \A m \in Memories, n \in Nat : Address(m, n) \in 0..MAX_WORDS[m] - 1
      BY MemoriesAssumption DEF Address
    <3> QED BY <3>1, <1>1 DEF DataTypeOK
  <2>2. "INPUT" \in Memories /\ "SKIP" \in Memories /\ res_index \in Nat
    BY <1>1 DEF Memories, Packets, DataTypeOK
  <2>3. /\ main_word_rd_data \in [Lanes -> Lane] /\ skip_rd_data \in [Lanes -> Lane]
    BY <1>1 DEF DataTypeOK
  <2>4. /\ ResidualReads =>
             /\ main_word_rd_data' = mem["INPUT"][Address("INPUT", res_index)]
             /\ skip_rd_data' = mem["SKIP"][Address("SKIP", res_index)]
        /\ ~ResidualReads => UNCHANGED << main_word_rd_data, skip_rd_data >>
    BY DataEdgeParts
  <2> QED BY <2>1, <2>2, <2>3, <2>4
<1>4. /\ res_state' \in {"RES_IDLE", "RES_READ", "RES_WRITE"}
      /\ res_index' \in Nat /\ res_count' \in Nat /\ residual_done' \in BOOLEAN
  <2>1. snap.bytes["INPUT"] \in Nat
    <3>1. WellFormed(snap)
      BY WellFormedConfigs DEF IInv
    <3> QED BY <3>1 DEF WellFormed, ConfigRecords, Packets
  <2>2. ResidualClock("residual" \in engine_start, EngineAbort, snap.bytes["INPUT"])
    BY DataEdgeParts
  <2>3. \A n \in Nat : n \div 4 \in Nat /\ n % MAX_TENSOR_WORDS \in Nat
    BY TensorAssumption
  <2>4. /\ res_state \in {"RES_IDLE", "RES_READ", "RES_WRITE"}
        /\ res_index \in Nat /\ res_count \in Nat /\ residual_done \in BOOLEAN
    BY <1>1 DEF DataTypeOK
  <2>5. LastWord \in BOOLEAN
    BY DEF LastWord
  <2>6. CASE ResidualAbort
    BY <2>6 DEF ResidualAbort
  <2>7. CASE ResidualStart(snap.bytes["INPUT"])
    BY <2>1, <2>3, <2>7 DEF ResidualStart
  <2>8. CASE ResidualRead \/ ResidualRest
    BY <2>4, <2>8 DEF ResidualRead, ResidualRest
  <2>9. CASE ResidualWrite
    BY <2>3, <2>4, <2>5, <2>9 DEF ResidualWrite
  <2> QED BY <2>2, <2>6, <2>7, <2>8, <2>9 DEF ResidualClock
<1>5. element' \in [ByteEngines -> Nat]
  <2>1. element \in [ByteEngines -> Nat]
    BY <1>1 DEF DataTypeOK
  <2>2. ByteEnginesClock(writers)
    BY DataEdgeParts
  <2> QED BY <2>1, <2>2 DEF ByteEnginesClock
<1>6. given' \in [Packets -> Nat] /\ sent' \in Nat
  <2>1. given \in [Packets -> Nat] /\ sent \in Nat
    BY <1>1 DEF DataTypeOK
  <2>2. Remember(beat, tready)
    BY DataEdgeParts
  <2>3. [given EXCEPT ![PacketSelect] = @ + 1] \in [Packets -> Nat]
    <3>1. PacketSelect \in Packets
      BY DEF PacketSelect, Packets
    <3> QED BY <2>1, <3>1
  <2>4. NothingGiven \in [Packets -> Nat]
    BY DEF NothingGiven
  <2> QED BY <2>1, <2>2, <2>3, <2>4 DEF Remember
<1> QED BY <1>2, <1>3, <1>4, <1>5, <1>6, HostInvStep DEF DataTypeOK

(* A byte has one place, and the four bytes of a word lie beside each other.  *)
LEMMA Places4 ==
  /\ \A k \in Nat : k \div 4 \in Nat /\ k % 4 \in Lanes /\ k = 4 * (k \div 4) + (k % 4)
  /\ \A n \in Nat, i \in Lanes : 4 * n + i \in Nat /\ (4 * n + i) \div 4 = n /\ (4 * n + i) % 4 = i
  /\ \A k, n \in Nat : k < 4 * n => k \div 4 \in 0..n - 1
<1>1. \A k \in Nat : k \div 4 \in Nat /\ k % 4 \in Lanes /\ k = 4 * (k \div 4) + (k % 4)
  BY DEF Lanes
<1>2. \A n \in Nat, i \in Lanes : 4 * n + i \in Nat /\ (4 * n + i) \div 4 = n /\ (4 * n + i) % 4 = i
  BY DEF Lanes
<1>3. \A k, n \in Nat : k < 4 * n => k \div 4 \in 0..n - 1
  OBVIOUS
<1> QED BY <1>1, <1>2, <1>3

(* When all bytes are written, so are all words.                            *)
LEMMA BytesAreWords ==
  ASSUME NEW out \in [0..MAX_WORDS["OUTPUT"] - 1 -> [Lanes -> Lane]], NEW d,
         NEW n \in Nat, n <= 4 * MAX_WORDS["OUTPUT"], n % 4 = 0,
         \A k \in 0..n - 1 : out[k \div 4][k % 4] = Byte(d, k)
  PROVE  \A w \in 0..(n \div 4) - 1 : out[w] = [i \in 0..3 |-> Byte(d, 4 * w + i)]
<1> SUFFICES ASSUME NEW w \in 0..(n \div 4) - 1
             PROVE  out[w] = [i \in 0..3 |-> Byte(d, 4 * w + i)]
  OBVIOUS
<1>1. n = 4 * (n \div 4) /\ MAX_WORDS["OUTPUT"] \in Nat
  BY MemoriesAssumption DEF Memories
<1>2. w \in 0..MAX_WORDS["OUTPUT"] - 1 /\ w \in Nat
  BY <1>1
<1>3. ASSUME NEW i \in Lanes
      PROVE  out[w][i] = Byte(d, 4 * w + i)
  <2>1. 4 * w + i \in 0..n - 1
    BY <1>1 DEF Lanes
  <2>2. (4 * w + i) \div 4 = w /\ (4 * w + i) % 4 = i
    BY <1>2, Places4
  <2> QED BY <2>1, <2>2
<1> QED BY <1>2, <1>3 DEF Lanes

(* Nothing writes the output while no engine runs.                          *)
LEMMA OutputRests ==
  ASSUME IInv, DataInv, NEW beat \in BeatsNow, NEW tready \in TreadyNow,
         NEW writers \in SUBSET (running \cap ByteEngines), DataEdge(beat, tready, writers),
         ~ResidualWrites, writers = {}
  PROVE  \A a \in 0..MAX_WORDS["OUTPUT"] - 1 : mem'["OUTPUT"][a] = mem["OUTPUT"][a]
<1>1. PICK main, skip, output :
        BuffersClock(LoaderWrites(beat) \cup OutputWrites(writers), main, skip, output)
  BY DataEdgeParts
<1> QED BY <1>1, OutputWritten

(* Words that are computed stay.                                            *)
LEMMA WordsStay ==
  ASSUME snap' = snap, starts' = starts, NEW n \in Nat, n <= MAX_WORDS["OUTPUT"],
         WordsComputed(n), \A a \in 0..MAX_WORDS["OUTPUT"] - 1 : mem'["OUTPUT"][a] = mem["OUTPUT"][a]
  PROVE  WordsComputed(n)'
<1>1. MAX_WORDS["OUTPUT"] \in Nat
  BY MemoriesAssumption DEF Memories
<1> QED BY <1>1 DEF WordsComputed, OutputWord

(* In COMPUTE the words of the packets are where the engines read them.      *)
LEMMA OperandsHeld ==
  ASSUME IInv, DataInv, state = "COMPUTE", snap.op = OP_RESIDUAL_ADD,
         NEW n \in Nat, n < snap.output \div 4
  PROVE  /\ mem["INPUT"][Address("INPUT", n)] = Datum(starts, "INPUT", n)
         /\ mem["SKIP"][Address("SKIP", n)] = Datum(starts, "SKIP", n)
<1>1. ASSUME NEW p \in {"INPUT", "SKIP"}
      PROVE  mem[p][Address(p, n)] = Datum(starts, p, n)
  <2>1. p \in Packets /\ Uses(snap.op, p)
    BY UsedPackets DEF Packets
  <2>2. /\ snap.output \in Nat /\ snap.bytes[p] = snap.output
        /\ snap.bytes[p] <= 4 * MAX_WORDS[p] /\ MAX_WORDS[p] \in Nat
    BY <2>1, OperationFits, MemoriesAssumption DEF BusyStates, Memories
  <2>3. 4 * given[p] = snap.bytes[p] /\ given[p] \in Nat
    BY <2>1 DEF DataInv, GivenInv, Received, BusyStates, DataTypeOK
  <2>4. n \in 0..given[p] - 1 /\ n < MAX_WORDS[p]
    BY <2>2, <2>3
  <2>5. Address(p, n) = n
    BY <2>2, <2>4 DEF Address
  <2> QED BY <2>1, <2>4, <2>5 DEF DataInv, HeldInv, BusyStates
<1> QED BY <1>1

(* The residual adder, one clock edge of COMPUTE.                            *)
LEMMA AdderStep ==
  ASSUME IInv, IInv', DataInv, DataTypeOK', NEW beat \in BeatsNow, NEW tready \in TreadyNow,
         NEW writers \in SUBSET (running \cap ByteEngines), DataEdge(beat, tready, writers),
         state = "COMPUTE", state' = "COMPUTE", snap' = snap, starts' = starts, ~EngineAbort,
         snap.op = OP_RESIDUAL_ADD, engine_done = {}
  PROVE  ComputedInv'
<1> DEFINE count == snap.output \div 4
           last == MAX_WORDS["OUTPUT"]
           same(a) == mem'["OUTPUT"][a] = mem["OUTPUT"][a]
<1>1. /\ snap.bytes["INPUT"] = snap.output /\ count \in Nat /\ count >= 1
      /\ count <= last /\ last \in Nat
  <2>1. last \in Nat
    BY MemoriesAssumption DEF Memories
  <2> QED BY <2>1, OperationFits DEF BusyStates
<1>2. /\ EngineOf(snap.op) = "residual" /\ ~("residual" \in ByteEngines)
      /\ running \cup engine_start = {"residual"} /\ (running = {} <=> engine_start # {})
  BY DEF IInv, EngineInv, EngineOf, ByteEngines
<1>3. /\ ResidualClock("residual" \in engine_start, EngineAbort, snap.bytes["INPUT"])
      /\ EnginesClock(engine_start, EngineAbort)
      /\ "residual" \in running' <=> res_state' # "RES_IDLE"
      /\ "residual" \in engine_done' <=> residual_done'
  BY DataEdgeParts DEF ResidualIsEngine
<1>4. running' \subseteq {"residual"} /\ engine_done' \subseteq {"residual"}
  BY <1>2, <1>3 DEF EnginesClock, EnginesWork
<1>5. /\ "residual" \in running <=> res_state # "RES_IDLE"
      /\ res_state # "RES_IDLE" =>
           /\ res_count = count /\ res_index < count /\ WordsComputed(res_index)
      /\ ResidualWrites =>
           /\ main_word_rd_data = Datum(starts, "INPUT", res_index)
           /\ skip_rd_data = Datum(starts, "SKIP", res_index)
      /\ res_index \in Nat
  BY DEF DataInv, ComputedInv, DataTypeOK
<1>6. writers = {}
  BY <1>2, <1>4
<1>7. ~ResidualWrites => \A a \in 0..last - 1 : same(a)
  BY <1>6, OutputRests
<1>8. SUFFICES /\ res_state' # "RES_IDLE" =>
                    res_count' = count /\ res_index' < count /\ WordsComputed(res_index)'
               /\ ResidualWrites' =>
                    /\ main_word_rd_data' = Datum(starts, "INPUT", res_index')
                    /\ skip_rd_data' = Datum(starts, "SKIP", res_index')
               /\ residual_done' => WordsComputed(count)'
  BY <1>2, <1>3, <1>4 DEF ComputedInv
<1>9. CASE "residual" \in engine_start
  <2>1. res_state = "RES_IDLE"
    BY <1>2, <1>5, <1>9
  <2>2. ResidualStart(snap.bytes["INPUT"])
    BY <1>3, <1>9, <2>1 DEF ResidualClock, ResidualRead, ResidualWrite, ResidualReads, ResidualWrites,
       ResidualRest
  <2> QED BY <1>1, <2>2 DEF ResidualStart, ResidualWrites, WordsComputed
<1>10. CASE "residual" \in running
  <2>1. res_state # "RES_IDLE" /\ ~("residual" \in engine_start)
    BY <1>2, <1>5, <1>10
  <2>2. ResidualRead \/ ResidualWrite
    BY <1>3, <2>1 DEF ResidualClock, ResidualRest
  <2>3. CASE ResidualRead
    <3>1. res_state = "RES_READ" /\ res_state' = "RES_WRITE" /\ res_index' = res_index
          /\ res_count' = res_count /\ ~residual_done' /\ ~ResidualWrites
      BY <2>3 DEF ResidualRead, ResidualReads, ResidualWrites
    <3>2. WordsComputed(res_index)'
      <4>1. WordsComputed(res_index) /\ res_index <= last
        BY <1>1, <1>5, <2>1
      <4>2. \A n \in Nat : n <= last /\ WordsComputed(n) => WordsComputed(n)'
        BY <1>7, <3>1, WordsStay
      <4> QED BY <1>5, <3>1, <4>1, <4>2 DEF WordsComputed
    <3>3. /\ main_word_rd_data' = Datum(starts, "INPUT", res_index)
          /\ skip_rd_data' = Datum(starts, "SKIP", res_index)
      BY <1>5, <2>1, <3>1, OperandsHeld, DataEdgeParts DEF ResidualReads
    <3> QED BY <1>5, <2>1, <3>1, <3>2, <3>3
  <2>4. CASE ResidualWrite
    <3>1. /\ ResidualWrites /\ res_count' = res_count /\ residual_done' = LastWord
          /\ res_state' = IF LastWord THEN "RES_IDLE" ELSE "RES_READ"
          /\ res_index' = IF LastWord THEN res_index ELSE (res_index + 1) % MAX_TENSOR_WORDS
      BY <2>4 DEF ResidualWrite
    <3>2. LastWord <=> res_index + 1 = count
      BY <1>1, <1>5, <2>1 DEF LastWord
    <3>3. \A a \in 0..last - 1 : mem'["OUTPUT"][a] = IF a = res_index THEN OutputWord(a)
                                                     ELSE mem["OUTPUT"][a]
      <4>1. PICK main, skip, output :
              BuffersClock(LoaderWrites(beat) \cup OutputWrites(writers), main, skip, output)
        BY DataEdgeParts
      <4>2. \A a \in 0..last - 1 :
              mem'["OUTPUT"][a] = IF a = res_index
                                  THEN AddWords(main_word_rd_data, skip_rd_data, snap \in ReluConfigs)
                                  ELSE mem["OUTPUT"][a]
        BY <3>1, <4>1, OutputWritten
      <4> QED BY <1>5, <3>1, <4>2 DEF OutputWord
    <3>4. ASSUME NEW i \in 0..res_index
          PROVE  mem'["OUTPUT"][i] = OutputWord(i)'
      <4>1. OutputWord(i)' = OutputWord(i)
        BY DEF OutputWord
      <4>2. i \in 0..last - 1
        BY <1>1, <1>5, <2>1
      <4> QED BY <1>5, <2>1, <3>3, <4>1, <4>2 DEF WordsComputed
    <3>5. CASE LastWord
      <4>1. count' = res_index + 1
        BY <3>2, <3>5
      <4>2. WordsComputed(count)'
        BY <1>5, <3>4, <4>1 DEF WordsComputed
      <4> QED BY <3>1, <3>5, <4>2 DEF ResidualWrites
    <3>6. CASE ~LastWord
      <4>1. res_index + 1 < MAX_TENSOR_WORDS /\ MAX_TENSOR_WORDS \in Nat
        <5>1. snap.bytes["INPUT"] <= 4 * MAX_WORDS["INPUT"] /\ snap.bytes["INPUT"] \in Nat
          BY OperationFits, UsedPackets DEF BusyStates, Packets
        <5>2. MAX_TENSOR_WORDS = MAX_WORDS["INPUT"] /\ MAX_TENSOR_WORDS \in Nat
          BY DataAssumption, TensorAssumption
        <5>3. res_index + 1 < count
          BY <1>1, <1>5, <2>1, <3>2, <3>6
        <5> QED BY <1>1, <1>5, <5>1, <5>2, <5>3
      <4>2. res_index' = res_index + 1
        BY <1>5, <3>1, <3>6, <4>1
      <4>3. WordsComputed(res_index)'
        BY <1>5, <3>4, <4>2 DEF WordsComputed
      <4>4. res_index' < count
        BY <1>1, <1>5, <2>1, <3>2, <3>6, <4>2
      <4> QED BY <1>5, <2>1, <3>1, <3>6, <4>3, <4>4 DEF ResidualWrites
    <3> QED BY <3>5, <3>6
  <2> QED BY <2>2, <2>3, <2>4
<1> QED BY <1>2, <1>9, <1>10

(* A byte engine, one clock edge of COMPUTE.                                 *)
LEMMA ByteStep ==
  ASSUME IInv, IInv', DataInv, DataTypeOK', NEW beat \in BeatsNow, NEW tready \in TreadyNow,
         NEW writers \in SUBSET (running \cap ByteEngines), DataEdge(beat, tready, writers),
         state = "COMPUTE", state' = "COMPUTE", snap' = snap, starts' = starts, ~EngineAbort,
         snap.op # OP_RESIDUAL_ADD, engine_done = {}
  PROVE  ComputedInv'
<1> DEFINE e == EngineOf(snap.op)
           k == element[e]
           last == MAX_WORDS["OUTPUT"]
<1>1. /\ snap.output \in Nat /\ snap.output >= 4 /\ snap.output % 4 = 0
      /\ snap.output <= 4 * last /\ last \in Nat /\ "OUTPUT" \in Memories
  BY OperationFits, MemoriesAssumption DEF BusyStates, Memories
<1>2. /\ e \in ByteEngines /\ e # "residual"
      /\ running \cup engine_start = {e} /\ (running = {} <=> engine_start # {})
      /\ running' \cup engine_start' \cup engine_done' = {e}
  BY DEF IInv, EngineInv, EngineOf, ByteEngines
<1>3. /\ EnginesClock(engine_start, EngineAbort) /\ ByteEnginesClock(writers)
      /\ "residual" \in running' <=> res_state' # "RES_IDLE"
      /\ "residual" \in engine_done' <=> residual_done'
  BY DataEdgeParts DEF ResidualIsEngine
<1>4. res_state = "RES_IDLE" /\ res_state' = "RES_IDLE" /\ ~ResidualWrites /\ ~ResidualWrites'
  <2>1. res_state = "RES_IDLE"
    BY <1>2 DEF DataInv, ComputedInv
  <2> QED BY <1>2, <1>3, <2>1 DEF ResidualWrites
<1>5. engine_done' = {f \in writers : element[f] + 1 = snap.output}
  <2>1. engine_done' \cap ByteEngines = {f \in writers : element[f] + 1 = snap.output}
    BY <1>3 DEF ByteEnginesClock
  <2> QED BY <1>2, <2>1
<1>6. element'[e] = IF e \in engine_start /\ e \notin running THEN 0
                    ELSE IF e \in writers /\ e \notin engine_done' THEN k + 1 ELSE k
  BY <1>2, <1>3 DEF ByteEnginesClock
<1>7. SUFFICES /\ e \in running' => element'[e] < snap.output /\ BytesComputed(element[e])'
               /\ engine_done' # {} => WordsComputed(snap.output \div 4)'
  BY <1>2, <1>4 DEF ComputedInv
<1>8. CASE running = {}
  BY <1>1, <1>2, <1>5, <1>6, <1>8 DEF BytesComputed
<1>9. CASE running = {e} /\ writers = {}
  <2>1. k \in Nat /\ k < snap.output /\ BytesComputed(k)
    BY <1>2, <1>9 DEF DataInv, DataTypeOK, ComputedInv
  <2>2. element'[e] = k /\ engine_done' = {}
    BY <1>2, <1>5, <1>6, <1>9
  <2>3. \A a \in 0..last - 1 : mem'["OUTPUT"][a] = mem["OUTPUT"][a]
    BY <1>4, <1>9, OutputRests
  <2>4. \A j \in 0..k - 1 : j \div 4 \in 0..last - 1
    BY <1>1, <2>1
  <2>5. \A j \in 0..k - 1 : mem'["OUTPUT"][j \div 4][j % 4] = Byte(starts', j)
    BY <2>1, <2>3, <2>4 DEF BytesComputed
  <2>6. BytesComputed(element[e])'
    BY <2>2, <2>5 DEF BytesComputed
  <2> QED BY <2>1, <2>2, <2>6
<1>10. CASE running = {e} /\ writers = {e}
  <2>1. k \in Nat /\ k < snap.output /\ BytesComputed(k)
    BY <1>2, <1>10 DEF DataInv, DataTypeOK, ComputedInv
  <2>2. \A a \in 0..last - 1 :
          mem'["OUTPUT"][a] = [i \in Lanes |-> IF a = k \div 4 /\ i = k % 4 THEN Byte(starts, k)
                                               ELSE mem["OUTPUT"][a][i]]
    <3>1. PICK main, skip, output :
            BuffersClock(LoaderWrites(beat) \cup OutputWrites(writers), main, skip, output)
      BY DataEdgeParts
    <3> QED BY <1>10, <3>1, OutputWritten
  <2>3. ASSUME NEW j \in 0..k
        PROVE  mem'["OUTPUT"][j \div 4][j % 4] = Byte(starts', j)
    <3>1. j \in Nat /\ j \div 4 \in 0..last - 1 /\ j % 4 \in Lanes
      <4>1. j \in Nat /\ j < 4 * last
        BY <1>1, <2>1
      <4> QED BY <1>1, <4>1, Places4
    <3>2. j = 4 * (j \div 4) + (j % 4) /\ k = 4 * (k \div 4) + (k % 4)
      BY <2>1, <3>1, Places4
    <3>3. mem'["OUTPUT"][j \div 4][j % 4] = IF j \div 4 = k \div 4 /\ j % 4 = k % 4 THEN Byte(starts, k)
                                            ELSE mem["OUTPUT"][j \div 4][j % 4]
      BY <2>2, <3>1
    <3>4. CASE j = k
      BY <3>3, <3>4
    <3>5. CASE j # k
      <4>1. j \in 0..k - 1 /\ ~(j \div 4 = k \div 4 /\ j % 4 = k % 4)
        BY <2>1, <3>2, <3>5
      <4> QED BY <2>1, <3>3, <4>1 DEF BytesComputed
    <3> QED BY <3>4, <3>5
  <2>4. CASE k + 1 = snap.output
    <3>1. engine_done' = {e}
      BY <1>2, <1>5, <1>10, <2>4
    <3>2. e \notin running'
      BY <1>2, <3>1 DEF IInv, EngineInv
    <3>3. BytesComputed(snap.output)'
      BY <2>1, <2>3, <2>4 DEF BytesComputed
    <3>4. WordsComputed(snap.output \div 4)'
      <4>1. mem'["OUTPUT"] \in [0..last - 1 -> [Lanes -> Lane]]
        BY <1>1 DEF DataTypeOK
      <4>2. \A j \in 0..snap.output - 1 : mem'["OUTPUT"][j \div 4][j % 4] = Byte(starts', j)
        BY <3>3 DEF BytesComputed
      <4>3. \A w \in 0..(snap.output \div 4) - 1 :
              mem'["OUTPUT"][w] = [i \in 0..3 |-> Byte(starts', 4 * w + i)]
        <5> DEFINE out == mem'["OUTPUT"]
                   n == snap.output
                   d == starts'
        <5>1. out \in [0..MAX_WORDS["OUTPUT"] - 1 -> [Lanes -> Lane]] /\ n \in Nat
              /\ n <= 4 * MAX_WORDS["OUTPUT"] /\ n % 4 = 0
              /\ \A j \in 0..n - 1 : out[j \div 4][j % 4] = Byte(d, j)
          BY <1>1, <4>1, <4>2
        <5> HIDE DEF out, n, d
        <5>2. \A w \in 0..(n \div 4) - 1 : out[w] = [i \in 0..3 |-> Byte(d, 4 * w + i)]
          BY <5>1, BytesAreWords
        <5> QED BY <5>2 DEF out, n, d
      <4> QED BY <4>3 DEF WordsComputed, OutputWord
    <3> QED BY <3>2, <3>4
  <2>5. CASE k + 1 # snap.output
    <3>1. engine_done' = {} /\ element'[e] = k + 1
      BY <1>2, <1>5, <1>6, <1>10, <2>5
    <3>2. BytesComputed(element[e])'
      BY <2>1, <2>3, <3>1 DEF BytesComputed
    <3> QED BY <1>1, <2>1, <2>5, <3>1, <3>2
  <2> QED BY <2>4, <2>5
<1> QED BY <1>2, <1>8, <1>9, <1>10

LEMMA ComputedInvStep ==
  ASSUME IInv, IInv', DataInv, DataTypeOK', NEW beat \in BeatsNow, NEW tready \in TreadyNow,
         NEW writers \in SUBSET (running \cap ByteEngines), DataEdge(beat, tready, writers)
  PROVE  ComputedInv'
<1> DEFINE out == OutputDone(tready)
<1>1. out \in BOOLEAN /\ Moves(out) /\ Remember(beat, tready) /\ ResidualIsEngine
  BY DataEdgeParts
<1> HIDE DEF out
<1>2. "residual" \in running' <=> res_state' # "RES_IDLE"
  BY <1>1 DEF ResidualIsEngine
<1>3. CASE state' \notin {"COMPUTE", "SEND_OUTPUT"}
  <2>1. running' = {} /\ engine_done' = {}
    BY <1>3 DEF IInv, EngineInv
  <2> QED BY <1>2, <1>3, <2>1 DEF ComputedInv, ResidualWrites
<1>4. CASE state' \in {"COMPUTE", "SEND_OUTPUT"}
  <2>1. state' \in BusyStates
    BY <1>4 DEF BusyStates
  <2>2. /\ ~start_pulse /\ ~EngineAbort
        /\ \/ Waits(out)
           \/ admission /\ AcceptOperation
           \/ packet_done /\ FinishPacket
           \/ EngineOf(snap.op) \in engine_done /\ FinishCompute
    BY <1>1, <2>1, BusyMoves
  <2>3. starts' = starts
    BY <1>1, <2>2 DEF Remember
  <2>4. CASE packet_done /\ FinishPacket
    <3>1. state' = "COMPUTE" => engine_start' # {}
      BY <2>4 DEF FinishPacket, Outputs
    <3>2. state' = "COMPUTE"
      BY <1>4, <2>4 DEF FinishPacket, AfterPacket
    <3>3. running' = {} /\ engine_done' = {}
      BY <3>1, <3>2 DEF IInv, EngineInv
    <3> QED BY <1>2, <3>2, <3>3 DEF ComputedInv, ResidualWrites
  <2>5. CASE state = "COMPUTE" /\ state' = "COMPUTE" /\ Waits(out)
    <3>1. snap' = snap
      BY <2>5 DEF Waits, Await
    <3>2. engine_done = {}
      BY <2>5 DEF Waits, IInv, EngineInv
    <3> QED BY <2>2, <2>3, <2>5, <3>1, <3>2, AdderStep, ByteStep
  <2>6. CASE state' = "SEND_OUTPUT" /\ (engine_done # {} \/ state = "SEND_OUTPUT") /\ snap' = snap
    <3>1. WordsComputed(snap.output \div 4) /\ running = {}
      BY <2>6 DEF DataInv, ComputedInv, IInv, EngineInv
    <3>2. ~ResidualWrites /\ writers = {}
      BY <3>1 DEF DataInv, ComputedInv, ResidualWrites
    <3>3. \A a \in 0..MAX_WORDS["OUTPUT"] - 1 : mem'["OUTPUT"][a] = mem["OUTPUT"][a]
      BY <3>2, OutputRests
    <3>4. snap.output \div 4 \in Nat /\ snap.output \div 4 <= MAX_WORDS["OUTPUT"]
      <4>1. state \in BusyStates
        BY <2>6 DEF IInv, EngineInv, BusyStates
      <4>2. MAX_WORDS["OUTPUT"] \in Nat
        BY MemoriesAssumption DEF Memories
      <4> QED BY <4>1, <4>2, OperationFits
    <3>5. \A i \in 0..(snap'.output \div 4) - 1 : mem'["OUTPUT"][i] = OutputWord(i)'
      <4> SUFFICES ASSUME NEW i \in 0..(snap'.output \div 4) - 1
                   PROVE  mem'["OUTPUT"][i] = OutputWord(i)'
        OBVIOUS
      <4>1. OutputWord(i)' = OutputWord(i)
        BY <2>3, <2>6 DEF OutputWord
      <4>2. MAX_WORDS["OUTPUT"] \in Nat
        BY MemoriesAssumption DEF Memories
      <4>3. i \in 0..(snap.output \div 4) - 1 /\ i \in 0..MAX_WORDS["OUTPUT"] - 1
        BY <2>6, <3>4, <4>2
      <4>4. mem["OUTPUT"][i] = OutputWord(i)
        BY <3>1, <4>3 DEF WordsComputed
      <4> QED BY <3>3, <4>1, <4>3, <4>4
    <3>6. running' = {} /\ engine_done' = {}
      BY <2>6 DEF IInv, EngineInv
    <3> QED BY <1>2, <3>5, <3>6 DEF ComputedInv, WordsComputed, ResidualWrites
  <2>7. ~(admission /\ AcceptOperation)
    BY <1>4 DEF AcceptOperation
  <2>8. CASE EngineOf(snap.op) \in engine_done /\ FinishCompute
    BY <2>6, <2>8 DEF FinishCompute
  <2>9. CASE Waits(out)
    <3>1. state' = state /\ snap' = snap
      BY <2>9 DEF Waits, Await
    <3> QED BY <1>4, <2>5, <2>6, <2>9, <3>1
  <2> QED BY <2>2, <2>4, <2>7, <2>8, <2>9
<1> QED BY <1>3, <1>4

(* The streamer's index is the number of the words handed over.              *)
LEMMA SentInvStep ==
  ASSUME IInv, IInv', DataInv, NEW beat \in BeatsNow, NEW tready \in TreadyNow,
         NEW writers \in SUBSET (running \cap ByteEngines), DataEdge(beat, tready, writers)
  PROVE  SentInv'
<1> DEFINE out == OutputDone(tready)
<1>1. /\ out \in BOOLEAN /\ Moves(out) /\ Remember(beat, tready)
      /\ StreamerClock(output_start, EngineAbort, snap.output, tready)
      /\ output_rd_data' = IF out_state = "OUT_READ" THEN mem["OUTPUT"][Address("OUTPUT", word_index)]
                           ELSE output_rd_data
  BY DataEdgeParts
<1> HIDE DEF out
<1>2. /\ state \in BusyStates /\ out_state = "OUT_IDLE" => sent = 0
      /\ out_state # "OUT_IDLE" => word_count = snap.output \div 4 /\ word_index = sent
      /\ OutputValid => output_rd_data = mem["OUTPUT"][word_index]
      /\ admission => sent = 0
  BY DEF DataInv, SentInv, GivenInv
<1>3. CASE state' \notin BusyStates
  <2>1. out_state' = "OUT_IDLE"
    BY <1>3 DEF IInv, StreamerInv, BusyStates
  <2> QED BY <1>3, <2>1 DEF SentInv, OutputValid
<1>4. CASE state' \in BusyStates
  <2>1. /\ ~start_pulse /\ ~EngineAbort
        /\ \/ Waits(out)
           \/ admission /\ AcceptOperation
           \/ packet_done /\ FinishPacket
           \/ EngineOf(snap.op) \in engine_done /\ FinishCompute
    BY <1>1, <1>4, BusyMoves
  <2>2. sent' = IF OutputValid /\ tready THEN sent + 1 ELSE sent
    BY <1>1, <2>1 DEF Remember
  <2>3. CASE out_state = "OUT_IDLE"
    <3>1. sent = 0 /\ sent' = 0
      <4>1. sent = 0
        BY <1>2, <2>1, <2>3 DEF Waits, Await, FinishPacket, FinishCompute, BusyStates
      <4> QED BY <2>2, <2>3, <4>1 DEF OutputValid
    <3>2. CASE output_start
      <4>1. StreamerStart(snap.output)
        BY <1>1, <2>1, <2>3, <3>2 DEF StreamerClock, StreamerRead, StreamerSend, StreamerHold, OutputValid
      <4>2. state = "SEND_OUTPUT"
        BY <3>2 DEF IInv, StreamerInv
      <4>3. snap' = snap
        BY <2>1, <4>2 DEF Waits, Await, FinishPacket, FinishCompute, LoadStates, IInv, ValidatorInv
      <4> QED BY <3>1, <4>1, <4>3 DEF StreamerStart, SentInv, OutputValid
    <3>3. CASE ~output_start
      <4>1. out_state' = "OUT_IDLE"
        BY <1>1, <2>1, <2>3, <3>3 DEF StreamerClock, StreamerRead, StreamerSend, StreamerHold, OutputValid,
           streamerVars
      <4> QED BY <3>1, <4>1 DEF SentInv, OutputValid
    <3> QED BY <3>2, <3>3
  <2>4. CASE out_state # "OUT_IDLE"
    <3>1. state = "SEND_OUTPUT" /\ ~output_start /\ word_index < word_count
      BY <2>4 DEF IInv, StreamerInv
    <3>2. state' = "SEND_OUTPUT" /\ snap' = snap /\ ~out
      BY <2>1, <3>1 DEF Waits, Await, FinishPacket, FinishCompute, LoadStates, IInv, ValidatorInv
    <3>3. word_index \in Nat /\ word_count \in Nat /\ out_state \in OutStates /\ tready \in BOOLEAN
      BY WireTypes DEF IInv, TypeOK, StreamerTypeOK
    <3>4. \A a \in 0..MAX_WORDS["OUTPUT"] - 1 : mem'["OUTPUT"][a] = mem["OUTPUT"][a]
      <4>1. running = {}
        BY <3>1 DEF IInv, EngineInv
      <4>2. ~ResidualWrites /\ writers = {}
        BY <4>1 DEF DataInv, ComputedInv, ResidualWrites
      <4> QED BY <4>2, OutputRests
    <3>5. word_index \in 0..MAX_WORDS["OUTPUT"] - 1 /\ Address("OUTPUT", word_index) = word_index
      <4>1. snap.output \in Nat /\ snap.output <= 4 * MAX_WORDS["OUTPUT"]
        BY <3>1, OperationFits DEF BusyStates
      <4>2. MAX_WORDS["OUTPUT"] \in Nat \ {0}
        BY MemoriesAssumption DEF Memories
      <4>3. word_index < snap.output \div 4
        BY <1>2, <2>4, <3>1
      <4>4. word_index \in 0..MAX_WORDS["OUTPUT"] - 1
        BY <3>3, <4>1, <4>2, <4>3
      <4> QED BY <4>2, <4>4 DEF Address
    <3>6. CASE StreamerRead
      BY <1>1, <1>2, <2>2, <2>4, <3>2, <3>4, <3>5, <3>6 DEF StreamerRead, SentInv, OutputValid
    <3>7. CASE tready /\ StreamerSend
      <4>1. word_index + 1 # word_count
        BY <3>2, <3>3, <3>7 DEF out, OutputDone, OutputLast, StreamerSend
      <4> QED BY <1>2, <2>2, <2>4, <3>2, <3>7, <4>1 DEF StreamerSend, SentInv, OutputValid
    <3>8. CASE StreamerHold(output_start, tready)
      BY <1>1, <1>2, <2>2, <2>4, <3>2, <3>4, <3>5, <3>8 DEF StreamerHold, streamerVars, SentInv, OutputValid
    <3> QED BY <1>1, <2>1, <3>1, <3>6, <3>7, <3>8 DEF StreamerClock
  <2> QED BY <2>3, <2>4
<1> QED BY <1>3, <1>4

-----------------------------------------------------------------------------
(* The invariant.                                                           *)

LEMMA InitDataInv == DataInit => DataInv
<1> SUFFICES ASSUME DataInit
             PROVE  DataInv
  OBVIOUS
<1>1. /\ state = "RESET" /\ admission = FALSE /\ start_pulse = FALSE /\ wr = NoWrite /\ bvalid = FALSE
      /\ aw_hold = FALSE /\ w_hold = FALSE /\ running = {} /\ engine_done = {} /\ out_state = "OUT_IDLE"
  BY DEF DataInit, Init, AxiInit, ControllerInit, EnginesInit, StreamerInit
<1>2. DataTypeOK
  <2>1. ZeroWord \in [Lanes -> Lane]
    BY TensorAssumption DEF ZeroWord, Lanes, Lane
  <2>2. ASSUME NEW m \in Memories
        PROVE  mem[m] \in [0..MAX_WORDS[m] - 1 -> [Lanes -> Lane]]
    <3>1. mem[m] = [a \in 0..MAX_WORDS[m] - 1 |-> ZeroWord]
      BY DEF DataInit, BuffersInit
    <3> QED BY <2>1, <3>1
  <2>3. {main_word_rd_data, skip_rd_data} \subseteq [Lanes -> Lane]
    BY <2>1 DEF DataInit, BuffersInit
  <2>4. element \in [ByteEngines -> Nat] /\ starts \in 0..MaxStarts
        /\ given \in [Packets -> Nat] /\ sent \in Nat
    BY DataAssumption DEF DataInit, NothingGiven
  <2>5. /\ res_state \in {"RES_IDLE", "RES_READ", "RES_WRITE"}
        /\ res_index \in Nat /\ res_count \in Nat /\ residual_done \in BOOLEAN
    BY DEF DataInit, ResidualInit
  <2> QED BY <2>2, <2>3, <2>4, <2>5 DEF DataTypeOK
<1>3. HostInv
  BY <1>1 DEF HostInv, NoWrite
<1>4. GivenInv /\ HeldInv /\ SentInv
  BY <1>1 DEF GivenInv, HeldInv, SentInv, BusyStates, LoadStates, OutputValid
<1>5. ComputedInv
  BY <1>1 DEF ComputedInv, DataInit, ResidualInit, ResidualWrites
<1> QED BY <1>2, <1>3, <1>4, <1>5 DEF DataInv

LEMMA StutterDataInv ==
  ASSUME DataInv, UNCHANGED dvars
  PROVE  DataInv'
<1> USE DEF dvars, vars, dataVars, axiVars, controllerVars, loaderVars, engineVars, streamerVars,
            residualVars, bufferVars
<1>1. DataTypeOK' /\ HostInv'
  BY DEF DataInv, DataTypeOK, HostInv
<1>2. GivenInv' /\ HeldInv'
  BY DEF DataInv, GivenInv, HeldInv, Received, ExpectedPacketBytes, PacketSelect
<1>3. ComputedInv'
  <2>1. \A n : OutputWord(n)' = OutputWord(n)
    BY DEF OutputWord
  <2> QED BY <2>1 DEF DataInv, ComputedInv, ResidualWrites, WordsComputed, BytesComputed, OutputWord
<1>4. SentInv'
  BY DEF DataInv, SentInv, OutputValid
<1> QED BY <1>1, <1>2, <1>3, <1>4 DEF DataInv

LEMMA NextDataInv ==
  ASSUME IInv, IInv', DataInv, [DataNext]_dvars
  PROVE  DataInv'
<1>1. CASE DataNext
  <2>1. PICK beat \in BeatsNow, tready \in TreadyNow, writers \in SUBSET (running \cap ByteEngines) :
          DataEdge(beat, tready, writers)
    BY <1>1 DEF DataNext
  <2> DEFINE out == OutputDone(tready)
  <2>2. /\ out \in BOOLEAN /\ Moves(out) /\ Remember(beat, tready)
        /\ LoaderClock(packet_start, ExpectedPacketBytes, beat)
    BY <2>1, DataEdgeParts
  <2> HIDE DEF out
  <2>3. GivenInv'
    BY <2>2, GivenInvStep
  <2>4. DataTypeOK' /\ HostInv'
    BY <2>1, DataTypeStep, HostInvStep
  <2>5. HeldInv' /\ SentInv'
    BY <2>1, HeldInvStep, SentInvStep
  <2>6. ComputedInv'
    BY <2>1, <2>4, ComputedInvStep
  <2> QED BY <2>3, <2>4, <2>5, <2>6 DEF DataInv
<1>2. CASE UNCHANGED dvars
  BY <1>2, StutterDataInv
<1> QED BY <1>1, <1>2

(* The invariant of the data path holds in every reachable state, for every  *)
(* size of the buffers and every data, whatever the host, the streams and    *)
(* the engines do in every cycle.                                           *)
THEOREM DataInvariance == DataSpec => []DataInv
<1>1. DataInit => DataInv
  BY InitDataInv
<1>2. IInv /\ IInv' /\ DataInv /\ [DataNext]_dvars => DataInv'
  BY NextDataInv
<1> QED BY <1>1, <1>2, DataControl, PTL DEF DataSpec

(* The engine of an operation finds in its buffers the words the host sent   *)
(* for it, and none that an earlier operation left there.                    *)
THEOREM BuffersHoldPacketsHolds == DataSpec => []BuffersHoldPackets
<1>1. ASSUME IInv, DataInv
      PROVE  BuffersHoldPackets
  <2> SUFFICES ASSUME state = "COMPUTE", NEW p \in Packets, Uses(snap.op, p),
                      NEW i \in 0..(snap.bytes[p] \div 4) - 1
               PROVE  mem[p][i] = Datum(starts, p, i)
    BY DEF BuffersHoldPackets
  <2>1. state \in BusyStates
    BY DEF BusyStates
  <2>2. 4 * given[p] = snap.bytes[p] /\ given[p] \in Nat
    BY <1>1, <2>1 DEF DataInv, DataTypeOK, GivenInv, Received
  <2>3. snap.bytes[p] \div 4 = given[p]
    BY <2>2
  <2>4. i \in 0..given[p] - 1
    BY <2>3
  <2> QED BY <1>1, <2>1, <2>4 DEF DataInv, HeldInv
<1> QED BY <1>1, DataControl, DataInvariance, PTL

(* Every word on the output stream is the next one of the operation's        *)
(* result: read after its last byte was written, offered once and in order.  *)
THEOREM OutputIsComputedHolds == DataSpec => []OutputIsComputed
<1>1. ASSUME IInv, DataInv
      PROVE  OutputIsComputed
  <2> SUFFICES ASSUME OutputValid
               PROVE  output_rd_data = OutputWord(sent)
    BY DEF OutputIsComputed
  <2>1. out_state # "OUT_IDLE"
    BY DEF OutputValid
  <2>2. /\ state = "SEND_OUTPUT" /\ word_index \in Nat /\ word_index < word_count
    BY <1>1, <2>1 DEF IInv, StreamerInv, TypeOK, StreamerTypeOK
  <2>3. /\ word_count = snap.output \div 4 /\ word_index = sent
        /\ output_rd_data = mem["OUTPUT"][word_index]
    BY <1>1, <2>1 DEF DataInv, SentInv
  <2>4. snap.output \in Nat
    BY <1>1, <2>2, OperationFits DEF BusyStates
  <2>5. word_index \in 0..(snap.output \div 4) - 1
    BY <2>2, <2>3, <2>4
  <2>6. WordsComputed(snap.output \div 4)
    BY <1>1, <2>2 DEF DataInv, ComputedInv
  <2> QED BY <2>3, <2>5, <2>6 DEF WordsComputed
<1> QED BY <1>1, DataControl, DataInvariance, PTL

(* The controller reports an operation complete, and sets DONE, only in the  *)
(* cycle that hands over the last word, after every packet was received.     *)
THEOREM DoneMeansDeliveredHolds == DataSpec => DoneMeansDelivered
<1>1. ASSUME IInv, DataInv, DataNext, state # "COMPLETE", state' = "COMPLETE"
      PROVE  /\ done' /\ 4 * sent' = snap.output
             /\ \A p \in Packets : Uses(snap.op, p) => 4 * given[p] = snap.bytes[p]
  <2>1. PICK beat \in BeatsNow, tready \in TreadyNow, writers \in SUBSET (running \cap ByteEngines) :
          DataEdge(beat, tready, writers)
    BY <1>1 DEF DataNext
  <2> DEFINE out == OutputDone(tready)
  <2>2. /\ out \in BOOLEAN /\ Moves(out) /\ Remember(beat, tready)
        /\ out => OutputValid /\ tready /\ OutputLast
    BY <1>1, <2>1, DataEdgeParts DEF OutputDone
  <2>3. done' = (OperationDone(out, abort_pulse, PacketError) \/ (done /\ ~done_clear))
    BY <1>1, <2>1, EdgeResults DEF DataEdge
  <2> HIDE DEF out
  <2> USE DEF BusyStates, LoadStates
  <2>4. Undisturbed /\ out /\ FinishOutput
    <3>1. ~LeaveReset(error_clear) /\ ~Cancels /\ ~TakeStart(cfg) /\ ~Rest /\ ~FinishPacket /\ ~FinishCompute
      BY <1>1 DEF LeaveReset, Cancels, TakeStart, Rest, FinishPacket, AfterPacket, FinishCompute
    <3>2. ~Checks /\ ~AcceptOperation /\ ~RejectOperation /\ ~Waits(out)
      BY <1>1, ChecksFrame DEF AcceptOperation, RejectOperation, Waits, Await
    <3> QED BY <2>2, <3>1, <3>2, Zenon DEF Moves
  <2>5. state = "SEND_OUTPUT"
    BY <2>4 DEF FinishOutput
  <2>6. done'
    <3>1. OperationDone(out, abort_pulse, PacketError)
      BY <2>4, <2>5 DEF OperationDone, Undisturbed, Busy
    <3> QED BY <2>3, <3>1
  <2>7. ~start_pulse
    BY <1>1, <2>5 DEF IInv, CommandsInv
  <2>8. 4 * sent' = snap.output
    <3>1. sent' = sent + 1 /\ word_index = word_count - 1
      BY <2>2, <2>4, <2>7 DEF Remember, OutputLast
    <3>2. word_count = snap.output \div 4 /\ word_index = sent
      BY <1>1, <2>2, <2>4 DEF DataInv, SentInv, OutputValid
    <3>3. snap.output \in Nat /\ snap.output % 4 = 0 /\ word_index \in Nat
      BY <1>1, <2>5, OperationFits DEF IInv, TypeOK, StreamerTypeOK
    <3>4. snap.output \div 4 \in Nat /\ 4 * (snap.output \div 4) = snap.output
      BY <3>3
    <3>5. sent' = snap.output \div 4
      BY <3>1, <3>2, <3>3, <3>4
    <3> QED BY <3>4, <3>5
  <2>9. \A p \in Packets : Uses(snap.op, p) => 4 * given[p] = snap.bytes[p]
    BY <1>1, <2>5 DEF DataInv, GivenInv, Received
  <2> QED BY <2>6, <2>8, <2>9
<1>2. IInv /\ DataInv /\ [DataNext]_dvars =>
        [state # "COMPLETE" /\ state' = "COMPLETE" =>
           /\ done' /\ 4 * sent' = snap.output
           /\ \A p \in Packets : Uses(snap.op, p) => 4 * given[p] = snap.bytes[p]]_dvars
  BY <1>1
<1> QED BY <1>2, DataControl, DataInvariance, PTL DEF DataSpec, DoneMeansDelivered

=============================================================================

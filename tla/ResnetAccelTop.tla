--------------------------- MODULE ResnetAccelTop ---------------------------
(***************************************************************************)
(* rtl/rtl/top/resnet_accel_top.sv: the accelerator as the synchronous      *)
(* composition of its components.  One step is one rising clock edge, at    *)
(* which every component moves on the values its inputs had before the      *)
(* edge; the environment (host, input stream, output stream, duration of    *)
(* the computation) chooses afresh in every step.                           *)
(***************************************************************************)
EXTENDS AxiLiteRegs, ControllerFsm, AxisPacketLoader, ComputeEngines,
        AxisOutputStreamer, ErrorCtrl

vars == << axiVars, controllerVars, loaderVars, engineVars, streamerVars,
           errVars >>

TypeOK ==
  /\ AxiTypeOK
  /\ ControllerTypeOK
  /\ LoaderTypeOK
  /\ EnginesTypeOK
  /\ StreamerTypeOK
  /\ ErrTypeOK

Init ==
  /\ AxiInit
  /\ ControllerInit
  /\ LoaderInit
  /\ EnginesInit
  /\ StreamerInit
  /\ ErrInit

(* Mutation: commands are locked out only once the operation is accepted.   *)
CommandLock_NoAdmission == state \in BusyStates

CommandLock == Busy

EngineAbort == cancel_pulse \/ (abort_pulse /\ Busy)

PacketError == packet_length_error \/ tlast_error

(* The event wires into error_ctrl.                                         *)
Events ==
  axi_events \cup ctl_events
    \cup (IF overflow # {} THEN {"ERR_ACC_OVERFLOW"} ELSE {})
    \cup (IF packet_length_error THEN {"ERR_PACKET_LENGTH"} ELSE {})
    \cup (IF tlast_error THEN {"ERR_TLAST_POSITION"} ELSE {})

(* One clock edge, given the beat the input stream transfers and whether    *)
(* the output stream is ready.                                              *)
ClockEdge(beat, tready) ==
  /\ AxiClock(CommandLock)
  /\ ControllerClock(start_pulse, abort_pulse, error_clear, cfg,
                     packet_done, PacketError, engine_done, OutputDone(tready))
  /\ LoaderClock(packet_start, ExpectedPacketBytes, beat)
  /\ EnginesClock(engine_start, EngineAbort)
  /\ StreamerClock(output_start, EngineAbort, snap.output, tready)
  /\ ErrClock(done_clear, error_clear,
              OperationDone(OutputDone(tready), abort_pulse, PacketError),
              Events)

BeatsNow == IF InputReady(PacketActive, packet_start)
            THEN Beats \cup {NoBeat} ELSE {NoBeat}

TreadyNow == IF OutputValid THEN BOOLEAN ELSE {FALSE}

(* A reset (aresetn low) returns every register to Init, so what holds of   *)
(* the behaviours from Init holds after every reset; it has no action.      *)
Next == \E beat \in BeatsNow, tready \in TreadyNow : ClockEdge(beat, tready)

Spec == Init /\ [][Next]_vars
=============================================================================

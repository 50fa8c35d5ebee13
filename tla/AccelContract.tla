---------------------------- MODULE AccelContract ----------------------------
(***************************************************************************)
(* What the accelerator promises its driver (HW_SW_Interface, chapters 10   *)
(* and 11): an operation is checked, receives its packets in order,         *)
(* computes, delivers its output; DONE marks a delivered output and nothing *)
(* else; an operation that ends in any other way leaves a fatal code; and a *)
(* result stays until the driver clears it.                                 *)
(***************************************************************************)
EXTENDS AccelPkg

VARIABLES
  phase,                      \* where the operation is
  plan,                       \* the packets still to be received, in order
  done, code,                 \* the sticky results the driver reads
  done_clear, error_clear     \* the driver clears a result in this cycle

cvars == << phase, plan, done, code >>

Phases == {"idle", "checking", "loading", "computing", "sending"}

CInit == phase = "idle" /\ plan = << >> /\ done = FALSE /\ code = "ERR_NONE"

NotDone == done' = (done /\ ~done_clear)

FaultStays == code \in FatalCodes /\ ~error_clear => code' = code

(* A warning may be recorded in any cycle, a fatal code may not.            *)
NoNewFault ==
  /\ code' \in ErrorCodes
  /\ code' \in FatalCodes => code' = code
  /\ FaultStays

NewFault == code' \in FatalCodes /\ FaultStays

Start ==
  /\ phase = "idle" /\ phase' = "checking"
  /\ UNCHANGED plan /\ NotDone /\ NoNewFault

Accept ==
  /\ phase = "checking" /\ phase' = "loading"
  /\ \E op \in Operations : plan' = PacketPlan(op)
  /\ NotDone /\ NoNewFault

Receive ==
  /\ phase = "loading" /\ Len(plan) > 1
  /\ plan' = Tail(plan)
  /\ UNCHANGED phase /\ NotDone /\ NoNewFault

Compute ==
  /\ phase = "loading" /\ Len(plan) = 1
  /\ phase' = "computing" /\ plan' = << >>
  /\ NotDone /\ NoNewFault

Send ==
  /\ phase = "computing" /\ phase' = "sending"
  /\ UNCHANGED plan /\ NotDone /\ NoNewFault

(* The result is set even when the driver clears the previous one.          *)
Complete ==
  /\ phase = "sending" /\ phase' = "idle"
  /\ UNCHANGED plan
  /\ done' = TRUE /\ NoNewFault

(* Rejected, aborted, or a badly framed packet.                             *)
Fail ==
  /\ phase # "idle" /\ phase' = "idle" /\ plan' = << >>
  /\ NotDone /\ NewFault

(* An ABORT that finds nothing left to abort, or the second of two framing  *)
(* errors, reported when the operation has already ended.                   *)
LateFault ==
  /\ phase = "idle" /\ UNCHANGED << phase, plan >>
  /\ NotDone /\ NewFault
  /\ code' \in {"ERR_ABORTED", "ERR_PACKET_LENGTH", "ERR_TLAST_POSITION"}

Flags ==
  /\ UNCHANGED << phase, plan >> /\ NotDone /\ NoNewFault

CNext ==
  \/ Start \/ Accept \/ Receive \/ Compute \/ Send \/ Complete
  \/ Fail \/ LateFault \/ Flags

CSpec == CInit /\ [][CNext]_cvars
=============================================================================

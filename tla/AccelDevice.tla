---------------------------- MODULE AccelDevice ----------------------------
(***************************************************************************)
(* The accelerator as its driver sees it: ResnetAccelTop with the clock     *)
(* cycles, pulses and handshakes between the registers taken out.  A write  *)
(* to a command register is posted (command) and takes effect some time     *)
(* before the bus answers it.  AccelContract holds of this device (DriverSystem), as   *)
(* it does of the clocked design.                                           *)
(*                                                                          *)
(* The driver provides for a controller that stops, in any state ("FSM       *)
(* lockup or similar, hardware state can no longer be trusted",             *)
(* accel_driver.c:234): locked.  Its registers still answer.                *)
(***************************************************************************)
EXTENDS AccelPkg

VARIABLES
  command,                 \* the posted register write
  regs,                    \* the configuration registers
  phase, plan, snap,       \* the operation, as in AccelContract
  got, sent,               \* bytes of the current packet, bytes of the output
  done, code,              \* STATUS.DONE and ERROR_CODE
  locked                   \* the controller has stopped

operationVars == << phase, plan, snap, got, sent, done, code >>
deviceVars == << command, regs, operationVars, locked >>

DeviceInit ==
  /\ command = "none"
  /\ regs = ResetConfig /\ snap = ResetConfig
  /\ phase = "idle" /\ plan = << >>
  /\ got = 0 /\ sent = 0
  /\ done = FALSE /\ code = "ERR_NONE"
  /\ locked = FALSE

DeviceBusy == phase # "idle"
ErrorFlag == code # "ERR_NONE"

(* The first code is kept, except that a fatal one replaces a warning.      *)
Record(c) ==
  IF code = "ERR_NONE" \/ (c \in FatalCodes /\ code \notin FatalCodes) THEN c ELSE code

EndWith(c) == phase' = "idle" /\ plan' = << >> /\ code' = Record(c)

-----------------------------------------------------------------------------
(* The register file.                                                       *)

WriteConfig(c) ==
  /\ command = "none"
  /\ IF DeviceBusy
     THEN code' = Record("ERR_CONFIG_WRITE_BUSY") /\ UNCHANGED regs
     ELSE regs' = c /\ UNCHANGED code
  /\ UNCHANGED << command, phase, plan, snap, got, sent, done, locked >>

TakeStart ==
  /\ command = "START" /\ command' = "none"
  /\ IF DeviceBusy
     THEN code' = Record("ERR_START_WHILE_BUSY") /\ UNCHANGED phase
     ELSE phase' = (IF locked THEN phase ELSE "checking") /\ UNCHANGED code
  /\ UNCHANGED << locked, regs, plan, snap, got, sent, done >>

(* An ABORT that finds nothing to abort is silent.                          *)
TakeAbort ==
  /\ command = "ABORT" /\ command' = "none"
  /\ IF DeviceBusy /\ ~locked THEN EndWith("ERR_ABORTED") ELSE UNCHANGED << phase, plan, code >>
  /\ UNCHANGED << locked, regs, snap, got, sent, done >>

TakeClear ==
  /\ command = "CLEAR" /\ command' = "none"
  /\ done' = FALSE /\ code' = "ERR_NONE"
  /\ UNCHANGED << regs, phase, plan, snap, got, sent, locked >>

TakeCommand == TakeStart \/ TakeAbort \/ TakeClear

-----------------------------------------------------------------------------
(* The operation.                                                           *)

Accept ==
  /\ phase = "checking" /\ ~locked /\ Accepted(regs)
  /\ phase' = "loading" /\ plan' = PacketPlan(regs.op) /\ snap' = regs
  /\ got' = 0 /\ sent' = 0
  /\ UNCHANGED << command, locked, regs, done, code >>

Reject ==
  /\ phase = "checking" /\ ~locked /\ ~Accepted(regs)
  /\ EndWith(IF regs.op = OP_OTHER THEN "ERR_INVALID_OPERATION" ELSE "ERR_INVALID_CONFIG")
  /\ UNCHANGED << command, locked, regs, snap, got, sent, done >>

InputNeeded == phase = "loading" /\ ~locked

(* One word of the input stream.  TLAST has to come with the last word of   *)
(* the packet, and with no other.                                           *)
TakeWord(last) ==
  /\ InputNeeded
  /\ LET complete == got + 4 = snap.bytes[Head(plan)]
     IN  IF complete # last THEN EndWith("ERR_TLAST_POSITION") /\ UNCHANGED got
         ELSE /\ UNCHANGED code
              /\ got' = IF complete THEN 0 ELSE got + 4
              /\ plan' = IF complete THEN Tail(plan) ELSE plan
              /\ phase' = IF complete /\ Len(plan) = 1 THEN "computing" ELSE phase
  /\ UNCHANGED << command, locked, regs, snap, sent, done >>

(* A computation may saturate an addition.                                  *)
Compute ==
  /\ phase = "computing" /\ ~locked
  /\ phase' = "sending"
  /\ code' \in {code, Record("ERR_ACC_OVERFLOW")}
  /\ UNCHANGED << command, locked, regs, plan, snap, got, sent, done >>

OutputOffered == phase = "sending" /\ ~locked
LastWord == sent + 4 = snap.output

(* Mutant: DONE with the first word.                                        *)
GiveWord_DoneFirst ==
  /\ OutputOffered
  /\ sent' = sent + 4
  /\ phase' = IF LastWord THEN "idle" ELSE phase
  /\ done' = TRUE
  /\ UNCHANGED << command, locked, regs, plan, snap, got, code >>

(* DONE comes with the handshake of the last word.                          *)
GiveWord ==
  /\ OutputOffered
  /\ sent' = sent + 4
  /\ phase' = IF LastWord THEN "idle" ELSE phase
  /\ done' = (LastWord \/ done)
  /\ UNCHANGED << command, locked, regs, plan, snap, got, code >>

Lockup ==
  /\ ~locked /\ locked' = TRUE
  /\ UNCHANGED << command, regs, operationVars >>
=============================================================================

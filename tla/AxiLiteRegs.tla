---------------------------- MODULE AxiLiteRegs ----------------------------
(***************************************************************************)
(* The write channel of rtl/rtl/control/axi_lite_regs.sv: the address and   *)
(* data halves of a write are captured separately, decoded together, and    *)
(* answered; the decoded command is a pulse of one clock cycle.  The        *)
(* fourteen writable registers fall into CONTROL, STATUS and the twelve     *)
(* configuration registers, whose joint value is one element of Configs.    *)
(***************************************************************************)
EXTENDS AccelPkg

CONSTANT Writes      \* the writes the host can issue

CommandBits == {"START", "ABORT", "W1C_DONE", "W1C_ERROR"}
WriteRecords ==
  [addr : {"CONTROL", "STATUS", "CONFIG", "READ_ONLY", "UNMAPPED"},
   bits : SUBSET CommandBits, cfg : Configs]

ASSUME WritesAssumption == Writes \subseteq WriteRecords

VARIABLES
  aw_hold, w_hold, wr,    \* the two halves held, and the write they are of
  bvalid,
  start_pulse, abort_pulse, done_clear, error_clear,
  axi_events,             \* the event wires of this cycle, as error codes
  cfg                     \* the configuration registers

axiVars == << aw_hold, w_hold, wr, bvalid, start_pulse, abort_pulse,
              done_clear, error_clear, axi_events, cfg >>
pulses == << start_pulse, abort_pulse, done_clear, error_clear, axi_events >>

NoWrite == [addr |-> "READ_ONLY", bits |-> {}, cfg |-> ResetConfig]

AxiTypeOK ==
  /\ aw_hold \in BOOLEAN
  /\ w_hold \in BOOLEAN
  /\ wr \in Writes \cup {NoWrite}
  /\ bvalid \in BOOLEAN
  /\ start_pulse \in BOOLEAN
  /\ abort_pulse \in BOOLEAN
  /\ done_clear \in BOOLEAN
  /\ error_clear \in BOOLEAN
  /\ axi_events \subseteq {"ERR_START_WHILE_BUSY", "ERR_CONFIG_WRITE_BUSY",
                           "ERR_INVALID_ADDRESS", "ERR_ABORTED"}
  /\ cfg \in Configs

AxiInit ==
  /\ aw_hold = FALSE
  /\ w_hold = FALSE
  /\ wr = NoWrite
  /\ bvalid = FALSE
  /\ start_pulse = FALSE
  /\ abort_pulse = FALSE
  /\ done_clear = FALSE
  /\ error_clear = FALSE
  /\ axi_events = {}
  /\ cfg = ResetConfig

NoPulse ==
  /\ start_pulse' = FALSE
  /\ abort_pulse' = FALSE
  /\ done_clear' = FALSE
  /\ error_clear' = FALSE
  /\ axi_events' = {}

AxiIdle ==
  /\ ~bvalid /\ ~(aw_hold /\ w_hold)
  /\ NoPulse
  /\ UNCHANGED << aw_hold, w_hold, wr, bvalid, cfg >>

(* AWREADY and WREADY are independent: either half may come first.          *)
AxiAcceptFirst ==
  /\ ~bvalid /\ ~aw_hold /\ ~w_hold
  /\ wr' \in Writes
  /\ aw_hold' \in BOOLEAN /\ w_hold' \in BOOLEAN
  /\ aw_hold' \/ w_hold'
  /\ NoPulse
  /\ UNCHANGED << bvalid, cfg >>

AxiAcceptSecond ==
  /\ ~bvalid /\ aw_hold # w_hold
  /\ aw_hold' = TRUE /\ w_hold' = TRUE
  /\ NoPulse
  /\ UNCHANGED << wr, bvalid, cfg >>

AxiRespond ==
  /\ bvalid
  /\ bvalid' \in BOOLEAN          \* cleared when the host raises BREADY
  /\ NoPulse
  /\ UNCHANGED << aw_hold, w_hold, wr, cfg >>

(* ABORT has precedence over START; an ABORT with nothing to abort is       *)
(* silent unless START was requested with it.                               *)
DecodeControl(lock) ==
  LET abort == "ABORT" \in wr.bits
      start == "START" \in wr.bits /\ ~abort
  IN  /\ wr.addr = "CONTROL"
      /\ abort_pulse' = abort
      /\ start_pulse' = (start /\ ~lock)
      /\ axi_events' =
           (IF abort /\ (lock \/ "START" \in wr.bits) THEN {"ERR_ABORTED"} ELSE {})
             \cup (IF start /\ lock THEN {"ERR_START_WHILE_BUSY"} ELSE {})
      /\ done_clear' = FALSE
      /\ error_clear' = FALSE
      /\ UNCHANGED cfg

DecodeStatus ==
  /\ wr.addr = "STATUS"
  /\ done_clear' = ("W1C_DONE" \in wr.bits)
  /\ error_clear' = ("W1C_ERROR" \in wr.bits)
  /\ start_pulse' = FALSE
  /\ abort_pulse' = FALSE
  /\ axi_events' = {}
  /\ UNCHANGED cfg

DecodeConfig(lock) ==
  /\ wr.addr = "CONFIG"
  /\ cfg' = IF lock THEN cfg ELSE wr.cfg
  /\ axi_events' = IF lock THEN {"ERR_CONFIG_WRITE_BUSY"} ELSE {}
  /\ start_pulse' = FALSE
  /\ abort_pulse' = FALSE
  /\ done_clear' = FALSE
  /\ error_clear' = FALSE

DecodeOther ==
  /\ wr.addr \in {"READ_ONLY", "UNMAPPED"}
  /\ axi_events' = IF wr.addr = "UNMAPPED" THEN {"ERR_INVALID_ADDRESS"} ELSE {}
  /\ start_pulse' = FALSE
  /\ abort_pulse' = FALSE
  /\ done_clear' = FALSE
  /\ error_clear' = FALSE
  /\ UNCHANGED cfg

AxiDecode(lock) ==
  /\ aw_hold /\ w_hold /\ ~bvalid
  /\ aw_hold' = FALSE /\ w_hold' = FALSE /\ wr' = NoWrite
  /\ bvalid' = TRUE
  /\ \/ DecodeControl(lock)
     \/ DecodeStatus
     \/ DecodeConfig(lock)
     \/ DecodeOther

(* One clock edge; lock is command_lock of the top level.                   *)
AxiClock(lock) ==
  \/ AxiIdle
  \/ AxiAcceptFirst
  \/ AxiAcceptSecond
  \/ AxiRespond
  \/ AxiDecode(lock)
=============================================================================

------------------------- MODULE AxiLiteReadChannel -------------------------
(***************************************************************************)
(* The read channel of rtl/rtl/control/axi_lite_regs.sv: an address is       *)
(* taken when no answer is outstanding, and the answer is the value the      *)
(* read multiplexer had at that edge.                                        *)
(***************************************************************************)
EXTENDS AccelPkg

VARIABLES rvalid, rdata

readVars == << rvalid, rdata >>

NoData == [addr |-> "none", value |-> {}]

ReadInit == rvalid = FALSE /\ rdata = NoData

ARReady == ~rvalid

(* REG_STATUS, and the registers whose value is one of several.              *)
StatusBits(busy, idle, done_flag, error_flag) ==
  (IF busy THEN {"BUSY"} ELSE {}) \cup (IF idle THEN {"IDLE"} ELSE {})
    \cup (IF done_flag THEN {"DONE"} ELSE {}) \cup (IF error_flag THEN {"ERROR"} ELSE {})

ReadDataMux(addr, status, code, debug, operation) ==
  CASE addr = "STATUS"      -> status
    [] addr = "ERROR_CODE"  -> {code}
    [] addr = "DEBUG_STATE" -> {debug}
    [] addr = "OPERATION"   -> {operation}
    [] OTHER                -> {}

(* One clock edge.  The answer names the address it was latched for.         *)
ReadClock(arvalid, araddr, mux, rready) ==
  IF arvalid /\ ARReady
  THEN rvalid' = TRUE /\ rdata' = [addr |-> araddr, value |-> mux]
  ELSE rvalid' = (rvalid /\ ~rready) /\ UNCHANGED rdata
=============================================================================

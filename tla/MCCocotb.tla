------------------------------ MODULE MCCocotb ------------------------------
(***************************************************************************)
(* The tests in verification/cocotb, and what becomes of each.  Some end     *)
(* with an operation more than the file has, to see what they left behind,   *)
(* and axis_recv may stall, as its parameter stall_prob allows.              *)
(*                                                                          *)
(* A read called right after a write latches its register at the edge at      *)
(* which the pulse of the write only begins to act, so a test that reads      *)
(* STATUS once, straight after the command it judges, sees the STATUS from    *)
(* before.  Each such place is here twice: as written (AtOnce), and with      *)
(* something in between (Later).                                             *)
(***************************************************************************)
EXTENDS CocotbBfm, MCConfigs

A(call) == [call |-> call, units |-> 1, write |-> NoWrite, addr |-> "STATUS", has |-> {}, lacks |-> {},
            stalls |-> FALSE, final_tlast |-> TRUE]
reset_dut == A("RisingEdge")
write(w) == [A("write") EXCEPT !.write = w]
start == write(Command("CONTROL", {"START"}))
abort == write(Command("CONTROL", {"ABORT"}))
clear_done_and_error == write(Command("STATUS", {"W1C_DONE", "W1C_ERROR"}))
read(addr, has) == [A("read") EXCEPT !.addr = addr, !.has = has]
status_is(has, lacks) == [A("read") EXCEPT !.has = has, !.lacks = lacks]
code_is(code) == read("ERROR_CODE", {code})
read_debug == read("DEBUG_STATE", {})
wait_admitted == [A("wait_admitted") EXCEPT !.has = {"BUSY"}]
axis_send(n) == [A("axis_send") EXCEPT !.units = n]
axis_recv(n) == [A("axis_recv") EXCEPT !.units = n, !.stalls = TRUE]

-----------------------------------------------------------------------------
(* _run_stage1_conv and what follows it, and the same of a pooling.          *)

Started(cfg_) == << write(Configure(cfg_)), start >>
SendConv == << axis_send(2), axis_send(1), axis_send(1), axis_recv(2), A("wait_idle") >>
Done(code) == << status_is({"DONE"}, {}), code_is(code) >>
RunConv == Started(Conv) \o << wait_admitted >> \o SendConv \o Done("ERR_NONE")
RunPool == Started(Pool) \o << wait_admitted, axis_send(2), axis_recv(1), A("wait_idle") >> \o Done("ERR_NONE")

(* The body of quick_done_busy_alignment, and run_one_conv.                  *)
QuickConv ==
  Started(Conv)
    \o << wait_admitted, axis_send(2), read_debug, axis_send(1), read_debug, axis_send(1),
          [axis_recv(2) EXCEPT !.stalls = FALSE], A("RisingEdge") >>
    \o Done("ERR_NONE") \o << read_debug >>

test_reset_and_version ==
  << status_is({"IDLE"}, {"BUSY", "DONE", "ERROR"}), A("read"), read("DEBUG_STATE", {"IDLE"}) >>
test_register_write_read ==
  << write(Configure(Pool)), read("OPERATION", {OP_GLOBAL_AVG_POOL}) >> \o RunConv
repeat_conv_no_reset_between == QuickConv \o << clear_done_and_error >> \o QuickConv
test_abort_while_idle_is_noop ==
  << abort, status_is({"IDLE"}, {"BUSY", "DONE", "ERROR"}) >>
    \o Started(Residual) \o << wait_admitted, axis_send(1), axis_send(1), axis_recv(1) >>
    \o << A("wait_idle") >> \o Done("ERR_NONE") \o << clear_done_and_error >> \o RunPool

-----------------------------------------------------------------------------
(* The places that read STATUS straight after a command: what is called      *)
(* before, what the patient version waits for, what is asserted, and the     *)
(* rest of the test.                                                         *)
Place(before, wait, has, lacks, rest) ==
  [before |-> << reset_dut >> \o before, wait |-> wait, check |-> status_is(has, lacks), rest |-> rest]

OneRead == << A("read") >>
ThenBusy == OneRead \o << status_is({"BUSY"}, {}) >>

undefined_address ==
  Place(<< read("UNMAPPED", {}), write(Command("UNMAPPED", {})) >>, OneRead, {"ERROR"}, {},
        << code_is("ERR_INVALID_ADDRESS") >>)

invalid_operation ==
  Place(Started(BadOperation), OneRead \o << A("wait_idle") >>, {"ERROR"}, {"BUSY"},
        << code_is("ERR_INVALID_OPERATION"), clear_done_and_error >> \o RunPool)

(* test_start_while_busy_ignored, lines 177 and 180.                         *)
AfterStart == << code_is("ERR_START_WHILE_BUSY") >> \o SendConv \o << status_is({"DONE"}, {}) >>
start_busy_first ==
  Place(Started(Conv), OneRead, {"BUSY"}, {}, << start, A("read"), status_is({"ERROR"}, {}) >> \o AfterStart)
start_busy_second == Place(Started(Conv) \o ThenBusy \o << start >>, OneRead, {"ERROR"}, {}, AfterStart)

(* test_config_write_while_busy_ignored, line 214; then the operation of the *)
(* registers as they were kept.                                              *)
config_write_busy ==
  Place(Started(Conv), OneRead, {"BUSY"}, {},
        << write(Configure(Pool)), read("OPERATION", {OP_CONV}), status_is({"ERROR"}, {}),
           code_is("ERR_CONFIG_WRITE_BUSY"), abort, A("read"), code_is("ERR_ABORTED"),
           clear_done_and_error, start, wait_admitted >> \o SendConv \o Done("ERR_NONE"))

(* test_abort_mid_operation, lines 243 and 249.                              *)
SendSome == << [axis_send(1) EXCEPT !.final_tlast = FALSE], abort >>
AfterAbort ==
  << code_is("ERR_ABORTED"), read("DEBUG_STATE", {"IDLE"}), clear_done_and_error >> \o RunPool
abort_mid_first ==
  Place(Started(Conv), OneRead, {"BUSY"}, {},
        SendSome \o << A("read"), status_is({"ERROR"}, {"BUSY", "DONE"}) >> \o AfterAbort)
abort_mid_second ==
  Place(Started(Conv) \o ThenBusy \o SendSome, OneRead, {"ERROR"}, {"BUSY", "DONE"}, AfterAbort)

Places ==
  {undefined_address, invalid_operation, start_busy_first, start_busy_second, config_write_busy,
   abort_mid_first, abort_mid_second}

AtOnce(p) == p.before \o << p.check >> \o p.rest
Later(p) == p.before \o p.wait \o << p.check >> \o p.rest

ModelTests ==
  {<< reset_dut >> \o t :
     t \in {test_reset_and_version, test_register_write_read, repeat_conv_no_reset_between,
            test_abort_while_idle_is_noop}}
  \cup {AtOnce(p) : p \in Places} \cup {Later(p) : p \in Places}

FirstPacketBegins ==
  PacketActive /\ PacketSelect = PacketPlan(snap.op)[1] /\ (packet_start \/ byte_count = 0)

(* A test fails exactly if it reads STATUS straight after a command: there,   *)
(* and whatever the validator and the engines take.  The others pass: START  *)
(* is admitted, TLAST marks the last word, after BUSY fell DONE, ERROR and    *)
(* ERROR_CODE are those of the operation, and nothing is waited for in vain  *)
(* but the first packet's TREADY, if a validation outlasts the limit.        *)
TestVerdicts ==
  [][co.pc # "stopped" /\ co'.pc = "stopped" =>
       LET asWritten == {p \in Places : script = AtOnce(p)}
       IN  CASE co'.raised = "AssertionError" ->
                  \E p \in asWritten : co.index = Len(p.before) + 1
             [] co'.raised = "SimTimeoutError" ->
                  Call.call = "axis_send" /\ co.beat = 0 /\ (admission \/ FirstPacketBegins)
             [] OTHER -> asWritten = {}]_bfmVars
=============================================================================

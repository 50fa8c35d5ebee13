------------------------------ MODULE CocotbBfm ------------------------------
(***************************************************************************)
(* The bus functional models of verification/cocotb/bfm.py driving the       *)
(* accelerator, as the tests beside it do: one coroutine calls write, read,  *)
(* wait_admitted, axis_send and axis_recv one after the other, and asserts   *)
(* something of what it reads.  A clock                                      *)
(* cycle of the simulation has four points: the rising edge ("rise"), the    *)
(* settled values after it ("riseRO", where ReadOnly() resumes), the falling *)
(* edge ("fall") and the settled values after that ("fallRO").  The design   *)
(* moves between "fallRO" and "rise", on the values its inputs had before;   *)
(* a value the coroutine assigns is seen from the next settled point on.     *)
(***************************************************************************)
EXTENDS ResnetAccelTop, AxiLiteReadChannel

CONSTANTS
  Scripts,         \* tests: the calls of each, in order
  BUS_TIMEOUT      \* BUS_TIMEOUT_NS, in clock cycles

CallNames == {"RisingEdge", "write", "read", "wait_admitted", "wait_idle", "axis_send", "axis_recv"}

(* has and lacks: what the test asserts of the value that a read returns.    *)
CallRecords ==
  [call : CallNames, units : Nat \ {0}, write : Writes \cup {NoWrite}, addr : STRING,
   has : SUBSET STRING, lacks : SUBSET STRING, stalls : BOOLEAN, final_tlast : BOOLEAN]

(* A test calls something; a write is one.                                   *)
ASSUME ScriptsAssumption ==
  \A s \in Scripts :
    /\ s \in Seq(CallRecords) /\ s # << >>
    /\ \A i \in 1 .. Len(s) : s[i].call = "write" => s[i].units = 1

VARIABLES
  script,          \* the test that runs
  point, fired,    \* where in the cycle, and whether its trigger is still to be served
  wires,           \* the inputs of the design
  co,              \* the coroutine
  log              \* history: what the design and the coroutine saw

bfmVars == << vars, readVars, script, point, fired, wires, co, log >>

(* The point whose trigger each step of a bus function awaits.               *)
Awaited ==
  [w_edge |-> {"rise"}, w_sample |-> {"riseRO", "fallRO"}, w_end |-> {"fall"},
   r_edge |-> {"rise"}, r_sample |-> {"riseRO", "fallRO"}, r_end |-> {"fall"},
   s_sample |-> {"riseRO", "fallRO"}, s_edge |-> {"rise"},
   v_sample |-> {"riseRO", "fallRO"}, v_edge |-> {"rise"}, edge |-> {"rise"},
   begin |-> {}, stopped |-> {}]

(* reset_dut has raised aresetn after a rising edge; the one it awaits then,  *)
(* at which the controller leaves its reset state, is the first call of a    *)
(* test.                                                                     *)
BfmInit ==
  /\ Init /\ ReadInit
  /\ script \in Scripts
  /\ point = "rise" /\ fired = FALSE
  /\ wires = [awvalid |-> FALSE, write |-> NoWrite, arvalid |-> FALSE, araddr |-> "none",
              tvalid |-> FALSE, tlast |-> FALSE, tready |-> FALSE]
  /\ co = [index |-> 1, pc |-> "begin", beat |-> 0, sampled |-> {}, waited |-> 0, raised |-> "none"]
  /\ log = [decoded |-> 0, latched |-> NoData, accepted |-> 0, given |-> 0]

Call == script[co.index]

-----------------------------------------------------------------------------
(* The simulator: time moves on when the coroutine waits for a later point.  *)

Runs == co.pc = "begin" \/ (fired /\ point \in Awaited[co.pc])

NextPoint == [rise |-> "riseRO", riseRO |-> "fall", fall |-> "fallRO"]

Settle ==
  /\ ~Runs /\ point \in DOMAIN NextPoint
  /\ point' = NextPoint[point] /\ fired' = TRUE
  /\ UNCHANGED << vars, readVars, script, wires, co, log >>

(* The write channel takes what is driven; BREADY and RREADY are always up.  *)
WritesDriven ==
  /\ bvalid => ~bvalid'
  /\ ~bvalid /\ ~aw_hold =>
       aw_hold' = wires.awvalid /\ w_hold' = wires.awvalid /\ (wires.awvalid => wr' = wires.write)

OfferedBeat ==
  IF ~(wires.tvalid /\ InputReady(PacketActive, packet_start)) THEN NoBeat
  ELSE IF wires.tlast THEN "last" ELSE "data"

WordGiven == OutputValid /\ wires.tready

(* The rising edge.  The data of these tests does not overflow.              *)
Edge ==
  /\ ~Runs /\ point = "fallRO"
  /\ ClockEdge(OfferedBeat, wires.tready)
  /\ WritesDriven /\ overflow' = {}
  /\ LET mux == ReadDataMux(wires.araddr,
                            StatusBits(Busy, ~Busy /\ state \in {"IDLE", "COMPLETE"}, done, error),
                            error_code, IF debug_latched THEN debug_state ELSE state, cfg.op)
     IN  /\ ReadClock(wires.arvalid, wires.araddr, mux, TRUE)
         /\ log' = [decoded |-> IF aw_hold /\ w_hold /\ ~bvalid THEN log.decoded + 1 ELSE log.decoded,
                    latched |-> IF wires.arvalid /\ ARReady
                                THEN [addr |-> wires.araddr, value |-> mux] ELSE log.latched,
                    accepted |-> IF OfferedBeat = NoBeat THEN log.accepted ELSE log.accepted + 1,
                    given |-> IF WordGiven THEN log.given + 1 ELSE log.given]
  /\ point' = "rise" /\ fired' = TRUE
  /\ UNCHANGED << script, wires, co >>

-----------------------------------------------------------------------------
(* Steps of the coroutine, each from one trigger to the next.                *)

Step(at) ==
  /\ co.pc = at /\ Runs
  /\ fired' = FALSE
  /\ UNCHANGED << vars, readVars, script, point >>

Returned == [co EXCEPT !.index = @ + 1, !.beat = 0, !.waited = 0,
                       !.pc = IF co.index = Len(script) THEN "stopped" ELSE "begin"]

Raise(what) == co' = [co EXCEPT !.pc = "stopped", !.raised = what]

Wait(next) == co' = [co EXCEPT !.pc = next]

(* Mutant: the poll has no limit.                                            *)
PollAgain_Forever(next) == co' = [co EXCEPT !.pc = next]

(* A poll under with_timeout that has to be repeated.                        *)
PollAgain(next) ==
  IF co.waited = BUS_TIMEOUT THEN Raise("SimTimeoutError")
  ELSE co' = [co EXCEPT !.pc = next, !.waited = @ + 1]

-----------------------------------------------------------------------------
(* AxiLite.write                                                             *)

BeginWrite ==
  /\ Step("begin") /\ Call.call = "write" /\ Wait("w_edge")
  /\ wires' = [wires EXCEPT !.awvalid = TRUE, !.write = Call.write]
  /\ UNCHANGED log

WriteEdge == Step("w_edge") /\ Wait("w_sample") /\ UNCHANGED << wires, log >>

WriteSample ==
  /\ Step("w_sample")
  /\ IF bvalid THEN Wait("w_end") ELSE PollAgain("w_edge")
  /\ UNCHANGED << wires, log >>

(* Mutant: the address and the data stay on the bus.                         *)
EndWrite_KeepValid == Step("w_end") /\ co' = Returned /\ UNCHANGED << wires, log >>

EndWrite ==
  /\ Step("w_end") /\ co' = Returned
  /\ wires' = [wires EXCEPT !.awvalid = FALSE]
  /\ UNCHANGED log

-----------------------------------------------------------------------------
(* A rising edge that the test awaits itself.                                *)

BeginEdge ==
  /\ Step("begin") /\ Call.call = "RisingEdge" /\ Wait("edge")
  /\ UNCHANGED << wires, log >>

EdgeSeen ==
  /\ Step("edge")
  /\ IF Call.call = "RisingEdge" THEN co' = Returned ELSE Wait("begin")
  /\ UNCHANGED << wires, log >>

-----------------------------------------------------------------------------
(* AxiLite.read, and what is made of it: wait_admitted and the status loop   *)
(* of the tests read STATUS again; then the assertion on the value, if any.  *)

IsRead(call) == call \in {"read", "wait_admitted", "wait_idle"}

Asserted(value) == Call.has \subseteq value /\ Call.lacks \cap value = {}

(* Mutant: the first sample does not wait for an edge.                       *)
BeginRead_NoEdge ==
  /\ Step("begin") /\ IsRead(Call.call) /\ Wait("r_sample")
  /\ wires' = [wires EXCEPT !.arvalid = TRUE, !.araddr = Call.addr]
  /\ log' = [log EXCEPT !.latched = NoData]

BeginRead ==
  /\ Step("begin") /\ IsRead(Call.call) /\ Wait("r_edge")
  /\ wires' = [wires EXCEPT !.arvalid = TRUE, !.araddr = Call.addr]
  /\ log' = [log EXCEPT !.latched = NoData]

ReadEdge == Step("r_edge") /\ Wait("r_sample") /\ UNCHANGED << wires, log >>

ReadSample ==
  /\ Step("r_sample")
  /\ IF rvalid THEN co' = [co EXCEPT !.pc = "r_end", !.sampled = rdata.value]
               ELSE PollAgain("r_edge")
  /\ UNCHANGED << wires, log >>

EndRead ==
  /\ Step("r_end")
  /\ wires' = [wires EXCEPT !.arvalid = FALSE]
  /\ IF Call.call = "wait_admitted" /\ co.sampled \cap {"BUSY", "ERROR"} = {} THEN PollAgain("begin")
     ELSE IF Call.call = "wait_idle" /\ "BUSY" \in co.sampled THEN PollAgain("edge")
     ELSE IF Asserted(co.sampled) THEN co' = Returned
     ELSE Raise("AssertionError")
  /\ UNCHANGED log

-----------------------------------------------------------------------------
(* axis_send: a beat is accepted if valid and ready are up before the edge.  *)

DriveBeat(n) ==
  wires' = [wires EXCEPT !.tvalid = TRUE, !.tlast = Call.final_tlast /\ n = Call.units - 1]

BeginSend ==
  /\ Step("begin") /\ Call.call = "axis_send" /\ Wait("s_sample")
  /\ DriveBeat(0)
  /\ UNCHANGED log

SampleReady ==
  /\ Step("s_sample")
  /\ co' = [co EXCEPT !.pc = "s_edge",
                      !.sampled = IF OfferedBeat # NoBeat THEN {"accepted"} ELSE {}]
  /\ UNCHANGED << wires, log >>

BeatDone ==
  IF co.beat + 1 < Call.units
  THEN DriveBeat(co.beat + 1)
       /\ co' = [co EXCEPT !.pc = "s_sample", !.beat = @ + 1, !.waited = 0]
  ELSE co' = Returned /\ wires' = [wires EXCEPT !.tvalid = FALSE, !.tlast = FALSE]

(* Mutant: ready is looked at after the edge.                                *)
SendEdge_SampleLate ==
  /\ Step("s_edge") /\ UNCHANGED log
  /\ IF InputReady(PacketActive, packet_start) THEN BeatDone
     ELSE PollAgain("s_sample") /\ UNCHANGED wires

SendEdge ==
  /\ Step("s_edge") /\ UNCHANGED log
  /\ IF "accepted" \in co.sampled THEN BeatDone ELSE PollAgain("s_sample") /\ UNCHANGED wires

-----------------------------------------------------------------------------
(* axis_recv: TREADY is chosen for every cycle.                              *)

DriveReady == \E ready \in {TRUE, ~Call.stalls} : wires' = [wires EXCEPT !.tready = ready]

BeginRecv ==
  /\ Step("begin") /\ Call.call = "axis_recv" /\ Wait("v_sample")
  /\ DriveReady
  /\ UNCHANGED log

(* What a settled point shows of a word that the next edge transfers.        *)
Transfer == IF WordGiven THEN {word_index, IF OutputLast THEN -1 ELSE -2} ELSE {}

SampleValid ==
  /\ Step("v_sample")
  /\ co' = [co EXCEPT !.pc = "v_edge", !.sampled = Transfer]
  /\ UNCHANGED << wires, log >>

Receive(transfer) ==
  LET beats == IF transfer = {} THEN co.beat ELSE co.beat + 1
  IN  IF transfer # {} /\ (-1 \in transfer) # (beats = Call.units)
      THEN Raise("AssertionError") /\ UNCHANGED wires
      ELSE IF beats = Call.units
      THEN co' = Returned /\ wires' = [wires EXCEPT !.tready = FALSE]
      ELSE co' = [co EXCEPT !.pc = "v_sample", !.beat = beats] /\ DriveReady

RecvEdge == Step("v_edge") /\ Receive(co.sampled) /\ UNCHANGED log

-----------------------------------------------------------------------------
Coroutine ==
  \/ BeginEdge \/ EdgeSeen
  \/ BeginWrite \/ WriteEdge \/ WriteSample \/ EndWrite
  \/ BeginRead \/ ReadEdge \/ ReadSample \/ EndRead
  \/ BeginSend \/ SampleReady \/ SendEdge
  \/ BeginRecv \/ SampleValid \/ RecvEdge

BfmNext == Settle \/ Edge \/ Coroutine

BfmSpec == BfmInit /\ [][BfmNext]_bfmVars

(* The simulation goes on.                                                   *)
BfmFairSpec == BfmSpec /\ WF_bfmVars(BfmNext)

(* The loops of the validator and of the engines are finite, and a random    *)
(* stall does not last for ever.                                             *)
DesignFair ==
  /\ SF_bfmVars(Edge /\ mul_running /\ ~mul_running')
  /\ SF_bfmVars(Edge /\ running # {} /\ running' = {})
  /\ SF_bfmVars((BeginRecv \/ RecvEdge) /\ wires'.tready)

-----------------------------------------------------------------------------
(* What a test may take for granted of its bus functions: a call that        *)
(* returned moved on the buses exactly what it says.                         *)

Returns == co'.index # co.index

(* The writes, beats or words of the calls up to and with the i-th.          *)
Total(s, call, i) ==
  Cardinality(UNION {{k} \X (1 .. s[k].units) : k \in {j \in 1 .. i : s[j].call = call}})

(* AW and W are held until BVALID is seen, which is later than they are      *)
(* taken: whenever a call returns, the design has decoded as many writes as  *)
(* write() was called for, so no command is given twice or lost.             *)
WriteDecodedOnce == [][Returns => log.decoded = Total(script, "write", co.index)]_bfmVars

(* What read() returns was latched during this very call, for its address:   *)
(* never the answer of the call before.                                      *)
ReadIsCurrent ==
  [][co.pc = "r_end" /\ co'.pc # "r_end" =>
       log.latched = [addr |-> Call.addr, value |-> co.sampled]]_bfmVars

(* A beat is offered until the edge at which the loader takes it and no      *)
(* longer, also where that very edge takes TREADY away; and every word the   *)
(* design hands over is stored, in order and once, with any stalls.          *)
TransfersOnce ==
  [][/\ Returns => /\ log.accepted = Total(script, "axis_send", co.index)
                   /\ log.given = Total(script, "axis_recv", co.index)
     /\ co.pc = "v_edge" /\ Runs /\ co.sampled # {} => co.beat \in co.sampled]_bfmVars

(* Every wait but axis_recv's has a limit: even if a loop of the design      *)
(* never ends, a test ends, by what it asserts or by SimTimeoutError, or     *)
(* waits for output for ever.  If they end, every test does.                 *)
TestEnds ==
  /\ <>(co.pc = "stopped") \/ <>[](co.pc # "stopped" /\ Call.call = "axis_recv")
  /\ DesignFair => <>(co.pc = "stopped")
=============================================================================

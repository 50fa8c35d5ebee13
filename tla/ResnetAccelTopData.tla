------------------------- MODULE ResnetAccelTopData -------------------------
(***************************************************************************)
(* The accelerator with its data: the beats of the input stream go into the  *)
(* buffers, the residual adder is the one of residual_add_engine.sv, and the *)
(* convolution and pooling engines write their output byte by byte, as       *)
(* ConvEngine and GapEngine do, at any pace.  What those compute is checked  *)
(* in their own modules; here a byte is a function of the operation and the  *)
(* element, so that a stale one is told from a new one.                      *)
(***************************************************************************)
EXTENDS ResnetAccelTop, ResidualAddEngine, TensorBuffers

CONSTANTS
  Datum(_, _, _),  \* of an operation and a packet, the word of an index
  Byte(_, _),      \* of an operation, the byte computed for an element
  MaxStarts,       \* bound: how often the host writes START
  ReluConfigs      \* the configurations with the ReLU bit

(* Words and bytes are lanes.  A configuration that the validator accepts     *)
(* fits the buffers, and a residual addition has three tensors of one size.   *)
ASSUME DataAssumption ==
  /\ MaxStarts \in Nat /\ ReluConfigs \subseteq Configs
  /\ \A d \in 0..MaxStarts, p \in Packets :
       \A i \in 0..MAX_WORDS[p] - 1 : Datum(d, p, i) \in [Lanes -> Lane]
  /\ \A d \in 0..MaxStarts : \A e \in 0..4 * MAX_WORDS["OUTPUT"] - 1 : Byte(d, e) \in Lane
  /\ MAX_TENSOR_WORDS = MAX_WORDS["INPUT"]
  /\ \A c \in Configs : Accepted(c) =>
       /\ c.output <= 4 * MAX_WORDS["OUTPUT"]
       /\ \A p \in Packets : Uses(c.op, p) => c.bytes[p] <= 4 * MAX_WORDS[p]
       /\ c.op = OP_RESIDUAL_ADD => c.bytes["INPUT"] = c.output /\ c.bytes["SKIP"] = c.output

ByteEngines == {"conv", "gap"}

VARIABLES
  element,                \* of each byte engine: the output element it is at
  starts,                 \* how many times the host wrote START
  given, sent             \* history of this operation: how many words were
                          \* received by packet, and how many were handed over

dataVars == << residualVars, bufferVars, element, starts, given, sent >>
dvars == << vars, dataVars >>

NothingGiven == [p \in Packets |-> 0]

DataInit ==
  /\ Init /\ ResidualInit /\ BuffersInit
  /\ element = [e \in ByteEngines |-> 0]
  /\ starts = 0 /\ given = NothingGiven /\ sent = 0

LoadAddress == byte_count \div 4

(* The host sends the words of a packet in order.                            *)
LoaderWrites(beat) ==
  IF beat # NoBeat /\ CountValid(beat, ExpectedPacketBytes)
  THEN {WordWrite(PacketSelect, LoadAddress, Datum(starts, PacketSelect, given[PacketSelect]))} ELSE {}

(* The byte port is the pooling engine's while that one runs.                *)
PortOwner == IF "gap" \in running THEN "gap" ELSE "conv"

(* A word of the residual adder goes before a byte.                          *)
OutputWrites(writers) ==
  IF ResidualWrites
  THEN {WordWrite("OUTPUT", res_index,
                  AddWords(main_word_rd_data, skip_rd_data, snap \in ReluConfigs))}
  ELSE IF PortOwner \in writers
  THEN {ByteWrite(element[PortOwner], Byte(starts, element[PortOwner]))} ELSE {}

(* An engine writes its last element in the step in which it is done.        *)
ByteEnginesClock(writers) ==
  /\ element' = [e \in ByteEngines |->
       IF EngineAbort \/ (e \in engine_start /\ e \notin running) THEN 0
       ELSE IF e \in writers /\ e \notin engine_done' THEN element[e] + 1 ELSE element[e]]
  /\ ~EngineAbort =>
       engine_done' \cap ByteEngines = {e \in writers : element[e] + 1 = snap.output}

(* residual_done_o and the busy signal are those of the engine.              *)
ResidualIsEngine ==
  /\ "residual" \in running' <=> res_state' # "RES_IDLE"
  /\ "residual" \in engine_done' <=> residual_done'

Remember(beat, tready) ==
  /\ given' = IF start_pulse THEN NothingGiven
              ELSE IF LoaderWrites(beat) = {} THEN given ELSE [given EXCEPT ![PacketSelect] = @ + 1]
  /\ sent' = IF start_pulse THEN 0 ELSE IF OutputValid /\ tready THEN sent + 1 ELSE sent
  /\ starts' = IF start_pulse THEN starts + 1 ELSE starts

(* One clock edge of the design.  Bounds: the engines report no overflow, and *)
(* the host writes START at most MaxStarts times.                            *)
DataEdge(beat, tready, writers) ==
  /\ ClockEdge(beat, tready)
  /\ overflow' = {}
  /\ wr = NoWrite /\ "START" \in wr'.bits => starts < MaxStarts
  /\ ResidualClock("residual" \in engine_start, EngineAbort, snap.bytes["INPUT"])
  /\ ResidualIsEngine
  /\ ByteEnginesClock(writers)
  /\ LET address(enabled, n) == IF enabled THEN {n} ELSE {}
     IN  BuffersClock(LoaderWrites(beat) \cup OutputWrites(writers),
                      address(ResidualReads, res_index), address(ResidualReads, res_index),
                      address(out_state = "OUT_READ", word_index))
  /\ Remember(beat, tready)

DataNext ==
  \E beat \in BeatsNow, tready \in TreadyNow, writers \in SUBSET (running \cap ByteEngines) :
    DataEdge(beat, tready, writers)

DataSpec == DataInit /\ [][DataNext]_dvars

(* A clock edge at which whoever is awaited acts: a multiplication ends, the  *)
(* host sends the beat it was asked for, the byte engine writes, the word     *)
(* offered is taken.  The controller awaits one of them at a time.            *)
Forward ==
  \E beat \in BeatsNow :
    /\ BeatsNow # {NoBeat} => beat # NoBeat
    /\ DataEdge(beat, OutputValid, running \cap ByteEngines)
    /\ mul_running => ~mul_running'

FairDataSpec == DataSpec /\ WF_dvars(Forward)

-----------------------------------------------------------------------------
(* An engine finds in its buffers the words the host sent for this operation, *)
(* all of them and each in its place, whatever earlier operations, cut off   *)
(* by an abort or a framing error, left there.                               *)
BuffersHoldPackets ==
  state = "COMPUTE" =>
    \A p \in Packets : Uses(snap.op, p) =>
      \A i \in 0..(snap.bytes[p] \div 4) - 1 : mem[p][i] = Datum(starts, p, i)

(* A word of the output: the sum of the two tensors the host sent, or the    *)
(* four bytes the engine computed.                                           *)
OutputWord(n) ==
  IF snap.op = OP_RESIDUAL_ADD
  THEN AddWords(Datum(starts, "INPUT", n), Datum(starts, "SKIP", n), snap \in ReluConfigs)
  ELSE [i \in 0..3 |-> Byte(starts, 4 * n + i)]

(* Every word offered on the output stream is the next one of what this      *)
(* operation computes: none of an earlier operation, none read before its    *)
(* last byte was written, none twice.                                        *)
OutputIsComputed == OutputValid => output_rd_data = OutputWord(sent)

(* The operation is complete only when every packet of it was received and   *)
(* every word of its output was handed over, and DONE says so.               *)
DoneMeansDelivered ==
  [][state # "COMPLETE" /\ state' = "COMPLETE" =>
       /\ done' /\ 4 * sent' = snap.output
       /\ \A p \in Packets : Uses(snap.op, p) => 4 * given[p] = snap.bytes[p]]_dvars

(* Every operation ends, whatever the host writes to the registers, however  *)
(* it frames its packets, and also on a tensor that fills its buffer, where  *)
(* the index of the word after the last does not fit the index.              *)
OperationEnds == Busy ~> ~Busy
-----------------------------------------------------------------------------
(* The inductive invariant of the data path, beside that of the control       *)
(* (IInv): how far each packet, the computation and the output are, and that  *)
(* all words up to there are right.                                          *)

DataTypeOK ==
  /\ \A m \in Memories : mem[m] \in [0..MAX_WORDS[m] - 1 -> [Lanes -> Lane]]
  /\ {main_word_rd_data, skip_rd_data} \subseteq [Lanes -> Lane]
  /\ res_state \in {"RES_IDLE", "RES_READ", "RES_WRITE"}
  /\ res_index \in Nat /\ res_count \in Nat /\ residual_done \in BOOLEAN
  /\ element \in [ByteEngines -> Nat]
  /\ starts \in 0..MaxStarts
  /\ given \in [Packets -> Nat] /\ sent \in Nat

(* The bound on the host holds up to the pulse of the START it wrote.         *)
HostInv ==
  /\ start_pulse \/ "START" \in wr.bits => starts < MaxStarts
  /\ aw_hold \/ w_hold \/ wr = NoWrite
  /\ bvalid => ~aw_hold /\ ~w_hold

(* The packets that were received before the controller came to its state.   *)
Received ==
  CASE state = "LOAD_WEIGHT" -> {}
    [] state = "LOAD_BIAS"   -> {"WEIGHT"}
    [] state = "LOAD_INPUT"  -> IF snap.op = OP_CONV THEN {"WEIGHT", "BIAS"} ELSE {}
    [] state = "LOAD_SKIP"   -> {"INPUT"}
    [] OTHER                 -> {p \in Packets : Uses(snap.op, p)}

(* The loader's count is that of the words of this packet of this operation.  *)
GivenInv ==
  /\ admission => given = NothingGiven /\ sent = 0
  /\ state \in BusyStates => \A p \in Received : 4 * given[p] = snap.bytes[p]
  /\ state \in LoadStates =>
       /\ \A p \in Packets \ (Received \cup {PacketSelect}) : given[p] = 0
       /\ packet_start => given[PacketSelect] = 0
       /\ ~packet_start => byte_count = 4 * given[PacketSelect]
                           /\ byte_count <= ExpectedPacketBytes
       /\ packet_done => byte_count = ExpectedPacketBytes

(* The words received are in their places.                                  *)
HeldInv ==
  state \in BusyStates =>
    \A p \in Packets : Uses(snap.op, p) =>
      \A i \in 0..given[p] - 1 : mem[p][i] = Datum(starts, p, i)

WordsComputed(n) == \A i \in 0..n - 1 : mem["OUTPUT"][i] = OutputWord(i)
BytesComputed(n) == \A k \in 0..n - 1 : mem["OUTPUT"][k \div 4][k % 4] = Byte(starts, k)

(* The residual adder and the byte engines are between two elements; all     *)
(* before are written, and the adder holds the words it adds next.           *)
ComputedInv ==
  /\ "residual" \in running <=> res_state # "RES_IDLE"
  /\ res_state # "RES_IDLE" =>
       /\ res_count = snap.output \div 4 /\ res_index < res_count
       /\ WordsComputed(res_index)
  /\ ResidualWrites =>
       /\ main_word_rd_data = Datum(starts, "INPUT", res_index)
       /\ skip_rd_data = Datum(starts, "SKIP", res_index)
  /\ \A e \in running \cap ByteEngines :
       element[e] < snap.output /\ BytesComputed(element[e])
  /\ engine_done # {} \/ state = "SEND_OUTPUT" => WordsComputed(snap.output \div 4)

(* The streamer and the receiver of the output agree on how far it is.       *)
SentInv ==
  /\ state \in BusyStates /\ out_state = "OUT_IDLE" => sent = 0
  /\ out_state # "OUT_IDLE" => word_count = snap.output \div 4 /\ word_index = sent
  /\ OutputValid => output_rd_data = mem["OUTPUT"][word_index]

DataInv == DataTypeOK /\ HostInv /\ GivenInv /\ HeldInv /\ ComputedInv /\ SentInv
=============================================================================

--------------------------- MODULE CocotbBfmProofs ---------------------------
(***************************************************************************)
(* What the bus functions of the tests move on the buses, for every test,    *)
(* every configuration and every choice of the design and of the stalls.     *)
(***************************************************************************)
EXTENDS CocotbBfm, ResnetAccelTopProofs, FiniteSetTheorems

-----------------------------------------------------------------------------
(* The inductive invariant of the bus functions: where in the cycle each      *)
(* waits, and what its call has moved so far.                                *)

(* The trigger of the last clock edge is not served yet.                     *)
Fresh == point = "rise" /\ fired

WriteSteps == {"w_edge", "w_sample", "w_end"}
ReadSteps == {"r_edge", "r_sample", "r_end"}
SendSteps == {"s_sample", "s_edge"}
RecvSteps == {"v_sample", "v_edge"}

CoroutineInv ==
  /\ co = [f \in {"index", "pc", "beat", "sampled", "waited", "raised"} |-> co[f]]
  /\ wires = [f \in {"awvalid", "write", "arvalid", "araddr", "tvalid", "tlast", "tready"} |-> wires[f]]
  /\ log = [f \in {"decoded", "latched", "accepted", "given"} |-> log[f]]
  /\ {log.decoded, log.accepted, log.given} \subseteq Nat
  /\ script \in Scripts /\ co.pc \in DOMAIN Awaited /\ co.beat \in Nat
  /\ fired \in BOOLEAN /\ wires.tready \in BOOLEAN
  /\ co.pc # "stopped" => co.index \in 1 .. Len(script)

(* Only at a clock edge may the edge come before the coroutine goes on.      *)
PointInv ==
  /\ point \in {"rise", "riseRO", "fall", "fallRO"}
  /\ co.pc = "begin" => point \in {"rise", "fall"}
  /\ co.pc \in {"s_sample", "v_sample"} => point \in {"rise", "fall"} \/ fired
  /\ co.pc \in {"w_sample", "r_sample"} => point = "rise" \/ (point = "riseRO" /\ fired)
  /\ co.pc \in {"w_end", "r_end"} => point = "riseRO" \/ (point = "fall" /\ fired)

(* The step is one of the call, and the signals of no other call are driven. *)
Driven(awvalid, arvalid, tvalid) ==
  wires.awvalid = awvalid /\ wires.arvalid = arvalid /\ wires.tvalid = tvalid

NoStream == wires.tready = FALSE /\ co.beat = 0

DrivenInv ==
  /\ co.pc \in {"begin", "edge"} => Driven(FALSE, FALSE, FALSE) /\ NoStream
  /\ co.pc = "edge" => IsRead(Call.call) \/ Call.call = "RisingEdge"
  /\ co.pc \in WriteSteps => Call.call = "write" /\ Driven(TRUE, FALSE, FALSE) /\ NoStream
  /\ co.pc \in ReadSteps =>
       IsRead(Call.call) /\ Driven(FALSE, TRUE, FALSE) /\ wires.araddr = Call.addr /\ NoStream
  /\ co.pc \in SendSteps =>
       /\ Call.call = "axis_send" /\ co.beat < Call.units
       /\ Driven(FALSE, FALSE, TRUE) /\ wires.tready = FALSE
  /\ co.pc \in RecvSteps =>
       Call.call = "axis_recv" /\ co.beat < Call.units /\ Driven(FALSE, FALSE, FALSE)

Earlier(call) == Total(script, call, co.index - 1)

(* BVALID is the response to this write, but for one of the write before,     *)
(* which goes away at the first edge.                                        *)
WriteInv ==
  /\ aw_hold = w_hold /\ (bvalid => aw_hold = FALSE)
  /\ co.pc # "stopped" =>
       /\ co.pc \notin WriteSteps => aw_hold = FALSE
       /\ LET answered == \/ co.pc = "w_edge" /\ Fresh /\ bvalid
                          \/ co.pc = "w_sample" /\ bvalid
                          \/ co.pc = "w_end"
          IN  log.decoded = Earlier("write") + (IF answered THEN 1 ELSE 0)
  /\ co.pc = "w_end" => bvalid

(* RVALID likewise, and the data is what was latched for this read.          *)
ReadInv ==
  /\ ((co.pc = "r_edge" /\ Fresh) \/ co.pc = "r_sample") /\ rvalid =>
       log.latched = [addr |-> Call.addr, value |-> rdata.value]
  /\ co.pc = "r_end" => log.latched = [addr |-> Call.addr, value |-> co.sampled]

(* A beat is counted at the edge for which it was sampled.                   *)
SendInv ==
  co.pc # "stopped" =>
    /\ log.accepted = Earlier("axis_send") + (IF co.pc \in SendSteps THEN co.beat ELSE 0)
         + (IF co.pc = "s_edge" /\ Fresh /\ "accepted" \in co.sampled THEN 1 ELSE 0)
    /\ co.pc = "s_edge" /\ ~Fresh => ("accepted" \in co.sampled <=> OfferedBeat # NoBeat)

(* The next word is the n-th of its operation; if the operation ended early   *)
(* there is no other before the call returns.                                *)
Receiving(n) ==
  IF out_state # "OUT_IDLE" THEN word_index = n
  ELSE n > 0 => state \in {"IDLE", "COMPLETE"} /\ ~admission /\ ~start_pulse

RecvInv ==
  co.pc # "stopped" =>
    /\ LET transferred == co.pc = "v_edge" /\ Fresh /\ co.sampled # {}
       IN  /\ log.given = Earlier("axis_recv") + (IF co.pc \in RecvSteps THEN co.beat ELSE 0)
                            + (IF transferred THEN 1 ELSE 0)
           /\ transferred => co.sampled \in {{co.beat, -1}, {co.beat, -2}}
           /\ IF co.pc \notin RecvSteps THEN out_state # "OUT_IDLE" => word_index = 0
              ELSE IF transferred /\ -1 \in co.sampled THEN out_state = "OUT_IDLE"
              ELSE Receiving(IF transferred THEN co.beat + 1 ELSE co.beat)
    /\ co.pc = "v_edge" /\ ~Fresh => co.sampled = Transfer

BfmInv ==
  CoroutineInv /\ PointInv /\ DrivenInv /\ WriteInv /\ ReadInv /\ SendInv /\ RecvInv

-----------------------------------------------------------------------------
(* What the calls of a test amount to.                                       *)

LEMMA ScriptCalls ==
  ASSUME NEW s \in Scripts
  PROVE  /\ Len(s) \in Nat \ {0} /\ DOMAIN s = 1 .. Len(s)
         /\ \A i \in 1 .. Len(s) :
              /\ s[i].call \in CallNames /\ s[i].units \in Nat \ {0}
              /\ s[i].call = "write" => s[i].units = 1
<1>1. s \in Seq(CallRecords) /\ s # << >>
  BY ScriptsAssumption
<1>2. Len(s) \in Nat /\ DOMAIN s = 1 .. Len(s) /\ Len(s) # 0
  BY <1>1
<1>3. ASSUME NEW i \in 1 .. Len(s)
      PROVE  s[i].call \in CallNames /\ s[i].units \in Nat \ {0}
  <2>1. s[i] \in CallRecords
    BY <1>1, <1>2
  <2>. QED BY <2>1 DEF CallRecords
<1>. QED BY <1>2, <1>3, ScriptsAssumption

(* One call more adds what it is called for.                                 *)
LEMMA TotalStarts ==
  ASSUME NEW s, NEW call
  PROVE  Total(s, call, 0) = 0
<1>1. {j \in 1 .. 0 : s[j].call = call} = {}
  OBVIOUS
<1>2. UNION {{k} \X (1 .. s[k].units) : k \in {j \in 1 .. 0 : s[j].call = call}} = {}
  BY <1>1
<1>. QED BY <1>2, FS_EmptySet DEF Total

LEMMA TotalNext ==
  ASSUME NEW s \in Scripts, NEW call, NEW i \in 1 .. Len(s)
  PROVE  /\ Total(s, call, i - 1) \in Nat
         /\ Total(s, call, i) =
              Total(s, call, i - 1) + (IF s[i].call = call THEN s[i].units ELSE 0)
<1>. DEFINE Calls(n) == {j \in 1 .. n : s[j].call = call}
            Units(k) == {k} \X (1 .. s[k].units)
            All(n) == UNION {Units(k) : k \in Calls(n)}
<1>1. /\ Len(s) \in Nat /\ i \in Nat /\ i - 1 \in Nat
      /\ \A k \in 1 .. Len(s) : s[k].units \in Nat
  BY ScriptCalls
<1>2. ASSUME NEW k \in 1 .. Len(s)
      PROVE  IsFiniteSet(Units(k)) /\ Cardinality(Units(k)) = s[k].units
  <2>. DEFINE u == s[k].units
  <2>1. u \in Nat
    BY <1>1
  <2>. HIDE DEF u
  <2>2. IsFiniteSet(1 .. u) /\ Cardinality(1 .. u) = u
    BY <2>1, FS_Interval
  <2>3. IsFiniteSet({k}) /\ Cardinality({k}) = 1
    BY FS_Singleton
  <2>4. IsFiniteSet({k} \X (1 .. u)) /\ Cardinality({k} \X (1 .. u)) = 1 * u
    BY <2>2, <2>3, FS_Product
  <2>. QED BY <2>1, <2>4 DEF u
<1>3. IsFiniteSet(All(i - 1))
  <2>. DEFINE A == Calls(i - 1)
              T == {Units(k) : k \in A}
              f == [k \in A |-> Units(k)]
  <2>1. A \in SUBSET (1 .. (i - 1)) /\ A \subseteq 1 .. Len(s)
    BY <1>1
  <2>2. IsFiniteSet(A)
    <3>1. IsFiniteSet(1 .. (i - 1))
      BY <1>1, FS_Interval
    <3>. HIDE DEF A
    <3>. QED BY <2>1, <3>1, FS_Subset
  <2>3. \A t \in T : IsFiniteSet(t)
    BY <1>2, <2>1
  <2>. HIDE DEF A, Units
  <2>4. f \in Surjection(A, T)
    BY DEF Surjection
  <2>5. IsFiniteSet(T)
    <3>. HIDE DEF f, T
    <3>. QED BY <2>2, <2>4, FS_Surjection
  <2>. HIDE DEF T
  <2>6. IsFiniteSet(UNION T)
    BY <2>3, <2>5, FS_UNION
  <2>. QED BY <2>6 DEF T, A
<1>4. Total(s, call, i - 1) = Cardinality(All(i - 1)) /\ Total(s, call, i) = Cardinality(All(i))
  BY DEF Total
<1>5. Cardinality(All(i - 1)) \in Nat
  BY <1>3, FS_CardinalityType
<1>6. CASE s[i].call # call
  <2>1. Calls(i) = Calls(i - 1)
    BY <1>1, <1>6
  <2>2. All(i) = All(i - 1)
    BY <2>1, Zenon
  <2>. HIDE DEF All, Calls
  <2>. QED BY <1>4, <1>5, <1>6, <2>2
<1>7. CASE s[i].call = call
  <2>1. Calls(i) = Calls(i - 1) \cup {i}
    BY <1>1, <1>7
  <2>2. All(i) = All(i - 1) \cup Units(i)
    <3>. HIDE DEF Units, Calls
    <3>. QED BY <2>1
  <2>3. All(i - 1) \cap Units(i) = {}
    BY <1>1
  <2>4. IsFiniteSet(Units(i)) /\ Cardinality(Units(i)) = s[i].units
    BY <1>2
  <2>. HIDE DEF All, Calls, Units
  <2>5. Cardinality(All(i)) = Cardinality(All(i - 1)) + Cardinality(Units(i)) - 0
    BY <1>3, <2>2, <2>3, <2>4, FS_Union, FS_EmptySet
  <2>. QED BY <1>1, <1>4, <1>5, <1>7, <2>4, <2>5
<1>. QED BY <1>4, <1>5, <1>6, <1>7

-----------------------------------------------------------------------------
(* The design in the simulation is the clocked design: where the coroutine    *)
(* does not move, a clock edge does.                                         *)

LEMMA EdgeIsNext ==
  ASSUME CoroutineInv, Edge
  PROVE  Next
<1>. DEFINE beat == OfferedBeat
            t == OutputValid /\ wires.tready
<1>1. ClockEdge(beat, wires.tready) /\ wires.tready \in BOOLEAN
  BY DEF Edge, CoroutineInv
<1>2. beat \in BeatsNow
  BY DEF OfferedBeat, BeatsNow, Beats
<1>3. t \in TreadyNow
  BY <1>1 DEF TreadyNow
<1>4. OutputDone(t) = OutputDone(wires.tready)
  BY DEF OutputDone
<1>5. StreamerClock(output_start, EngineAbort, snap.output, wires.tready)
        => StreamerClock(output_start, EngineAbort, snap.output, t)
  BY DEF StreamerClock, StreamerSend, StreamerHold, OutputValid
<1>. HIDE DEF beat, t
<1>6. ClockEdge(beat, t)
  BY <1>1, <1>4, <1>5 DEF ClockEdge
<1>. QED BY <1>2, <1>3, <1>6 DEF Next

-----------------------------------------------------------------------------
(* The steps of the coroutine.                                               *)

(* The point at which each step is taken.                                    *)
LEMMA Places ==
  DOMAIN Awaited = {"w_edge", "w_sample", "w_end", "r_edge", "r_sample", "r_end", "s_sample", "s_edge",
                    "v_sample", "v_edge", "edge", "begin", "stopped"}
  BY DEF Awaited

LEMMA WhenServed ==
  ASSUME CoroutineInv
  PROVE  /\ Runs <=> \/ co.pc = "begin"
                     \/ /\ fired
                        /\ \/ co.pc \in {"w_edge", "r_edge", "s_edge", "v_edge", "edge"} /\ point = "rise"
                           \/ co.pc \in {"w_end", "r_end"} /\ point = "fall"
                           \/ /\ co.pc \in {"w_sample", "r_sample", "s_sample", "v_sample"}
                              /\ point \in {"riseRO", "fallRO"}
         /\ co.pc \in {"begin", "stopped", "edge"} \cup WriteSteps \cup ReadSteps \cup SendSteps \cup RecvSteps
<1>1. co.pc \in {"w_edge", "w_sample", "w_end", "r_edge", "r_sample", "r_end", "s_sample", "s_edge",
                 "v_sample", "v_edge", "edge", "begin", "stopped"}
  BY DEF CoroutineInv, Awaited
<1>2. co.pc \in {"begin", "stopped", "edge"} \cup WriteSteps \cup ReadSteps \cup SendSteps \cup RecvSteps
  BY <1>1 DEF WriteSteps, ReadSteps, SendSteps, RecvSteps
<1>. QED BY <1>1, <1>2 DEF Runs, Awaited

(* A step of the coroutine moves neither the design nor the time.            *)
LEMMA StepFrame ==
  ASSUME NEW at, Step(at)
  PROVE  /\ co.pc = at /\ Runs /\ fired' = FALSE /\ ~Fresh' /\ script' = script /\ point' = point
         /\ aw_hold' = aw_hold /\ w_hold' = w_hold /\ bvalid' = bvalid
         /\ rvalid' = rvalid /\ rdata' = rdata
         /\ state' = state /\ packet_start' = packet_start /\ packet_done' = packet_done
         /\ out_state' = out_state /\ word_index' = word_index /\ word_count' = word_count
         /\ admission' = admission /\ start_pulse' = start_pulse
         /\ (wires' = wires => OfferedBeat' = OfferedBeat /\ Transfer' = Transfer)
<1>1. UNCHANGED << vars, readVars, script, point >> /\ fired' = FALSE /\ co.pc = at /\ Runs
  BY DEF Step
<1>2. /\ aw_hold' = aw_hold /\ w_hold' = w_hold /\ bvalid' = bvalid /\ start_pulse' = start_pulse
      /\ rvalid' = rvalid /\ rdata' = rdata
      /\ state' = state /\ packet_start' = packet_start /\ packet_done' = packet_done
      /\ out_state' = out_state /\ word_index' = word_index /\ word_count' = word_count
      /\ admission' = admission
  BY <1>1 DEF vars, readVars, axiVars, controllerVars, loaderVars, streamerVars
<1>3. wires' = wires => OfferedBeat' = OfferedBeat
  BY <1>2 DEF OfferedBeat, InputReady, PacketActive
<1>4. wires' = wires => Transfer' = Transfer
  BY <1>2 DEF Transfer, WordGiven, OutputValid, OutputLast
<1>5. ~Fresh'
  BY <1>1 DEF Fresh
<1>. QED BY <1>1, <1>2, <1>3, <1>4, <1>5

(* Within a call nothing changes of what the calls before it moved.          *)
LEMMA SameCall ==
  ASSUME script' = script, co'.index = co.index
  PROVE  Call' = Call /\ \A call : Earlier(call)' = Earlier(call)
  BY DEF Call, Earlier

(* What the calls before have moved, and this one with them.                 *)
LEMMA CallTotal ==
  ASSUME CoroutineInv, co.pc # "stopped", NEW call
  PROVE  /\ Earlier(call) \in Nat
         /\ Total(script, call, co.index) = Earlier(call) + (IF Call.call = call THEN Call.units ELSE 0)
         /\ Call.units \in Nat \ {0} /\ (Call.call = "write" => Call.units = 1)
         /\ Call.call \in CallNames
<1>1. script \in Scripts /\ co.index \in 1 .. Len(script)
  BY DEF CoroutineInv
<1>2. Call.units \in Nat \ {0} /\ (Call.call = "write" => Call.units = 1) /\ Call.call \in CallNames
  BY <1>1, ScriptCalls DEF Call
<1>. QED BY <1>1, <1>2, TotalNext DEF Earlier, Call

(* A step that has nothing to do with a channel keeps what is known of it.   *)
LEMMA WriteIdle ==
  ASSUME WriteInv, NEW at, Step(at), co.pc \notin WriteSteps \cup {"stopped"},
         co'.pc \notin WriteSteps, co'.index = co.index, log'.decoded = log.decoded
  PROVE  WriteInv'
<1>1. Earlier("write")' = Earlier("write")
  BY StepFrame, SameCall
<1>2. aw_hold' = aw_hold /\ w_hold' = w_hold /\ bvalid' = bvalid
  BY StepFrame
<1>. QED BY <1>1, <1>2 DEF WriteInv, WriteSteps

LEMMA ReadIdle ==
  ASSUME co'.pc \notin ReadSteps
  PROVE  ReadInv'
  BY DEF ReadInv, ReadSteps

LEMMA SendIdle ==
  ASSUME SendInv, NEW at, Step(at), co.pc \notin SendSteps \cup {"stopped"},
         co'.pc \notin SendSteps, co'.index = co.index, log'.accepted = log.accepted
  PROVE  SendInv'
<1>1. Earlier("axis_send")' = Earlier("axis_send")
  BY StepFrame, SameCall
<1>. QED BY <1>1 DEF SendInv, SendSteps

LEMMA RecvIdle ==
  ASSUME RecvInv, NEW at, Step(at), co.pc \notin RecvSteps \cup {"stopped"},
         co'.pc \notin RecvSteps, co'.index = co.index, log'.given = log.given
  PROVE  RecvInv'
<1>1. Earlier("axis_recv")' = Earlier("axis_recv")
  BY StepFrame, SameCall
<1>2. out_state' = out_state /\ word_index' = word_index
  BY StepFrame
<1>. QED BY <1>1, <1>2 DEF RecvInv, RecvSteps

(* A call that is given up: of a test that stopped nothing more is said.     *)
LEMMA RaiseStep ==
  ASSUME BfmInv, NEW at, Step(at), NEW what, Raise(what), log' = log, wires'.tready = wires.tready,
         wires' = [f \in {"awvalid", "write", "arvalid", "araddr", "tvalid", "tlast", "tready"} |-> wires'[f]]
  PROVE  BfmInv' /\ ~Returns
<1>1. /\ fired' = FALSE /\ script' = script /\ point' = point
      /\ aw_hold' = aw_hold /\ w_hold' = w_hold /\ bvalid' = bvalid
  BY StepFrame
<1>2. co' = [co EXCEPT !.pc = "stopped", !.raised = what] /\ co'.pc = "stopped"
  BY DEF Raise, BfmInv, CoroutineInv
<1>3. CoroutineInv'
  <2>1. co' = [f \in {"index", "pc", "beat", "sampled", "waited", "raised"} |-> co'[f]] /\ co'.beat = co.beat
    BY <1>2 DEF BfmInv, CoroutineInv
  <2>. QED BY <1>1, <1>2, <2>1, Places DEF BfmInv, CoroutineInv
<1>4. PointInv' /\ DrivenInv' /\ ReadInv' /\ SendInv' /\ RecvInv'
  BY <1>1, <1>2 DEF BfmInv, PointInv, DrivenInv, ReadInv, SendInv, RecvInv, WriteSteps, ReadSteps,
     SendSteps, RecvSteps
<1>5. WriteInv'
  BY <1>1, <1>2 DEF BfmInv, WriteInv
<1>6. ~Returns
  BY <1>2 DEF Returns, BfmInv, CoroutineInv
<1>. QED BY <1>3, <1>4, <1>5, <1>6 DEF BfmInv

(* The writes, beats and words of all the calls up to this one were moved.     *)
Moved ==
  /\ log.decoded = Total(script, "write", co.index)
  /\ log.accepted = Total(script, "axis_send", co.index)
  /\ log.given = Total(script, "axis_recv", co.index)

(* A call that returns has moved what it was called for, and leaves the       *)
(* channels at rest to the next.                                             *)
LEMMA ReturnStep ==
  ASSUME BfmInv, NEW at, Step(at), co.pc # "stopped", co' = Returned, log' = log, point \in {"rise", "fall"},
         wires' = [f \in {"awvalid", "write", "arvalid", "araddr", "tvalid", "tlast", "tready"} |-> wires'[f]],
         wires'.awvalid = FALSE, wires'.arvalid = FALSE, wires'.tvalid = FALSE, wires'.tready = FALSE,
         aw_hold = FALSE, out_state # "OUT_IDLE" => word_index = 0, Moved
  PROVE  BfmInv'
<1>1. /\ fired' = FALSE /\ ~Fresh' /\ script' = script /\ point' = point
      /\ aw_hold' = aw_hold /\ w_hold' = w_hold /\ bvalid' = bvalid
      /\ out_state' = out_state /\ word_index' = word_index
  BY StepFrame
<1>2. /\ script \in Scripts /\ co.index \in 1 .. Len(script) /\ Len(script) \in Nat
      /\ co = [f \in {"index", "pc", "beat", "sampled", "waited", "raised"} |-> co[f]]
  BY ScriptCalls DEF BfmInv, CoroutineInv
<1>3. /\ co'.index = co.index + 1 /\ co'.beat = 0
      /\ co'.pc = IF co.index = Len(script) THEN "stopped" ELSE "begin"
      /\ co' = [f \in {"index", "pc", "beat", "sampled", "waited", "raised"} |-> co'[f]]
  BY <1>2 DEF Returned
<1>4. CoroutineInv'
  <2>1. co'.pc # "stopped" => co'.index \in 1 .. Len(script)
    BY <1>2, <1>3
  <2>2. {log'.decoded, log'.accepted, log'.given} \subseteq Nat
        /\ log' = [f \in {"decoded", "latched", "accepted", "given"} |-> log'[f]]
    BY DEF BfmInv, CoroutineInv
  <2>3. script' \in Scripts /\ co'.beat \in Nat
    BY <1>1, <1>2, <1>3
  <2>6. fired' \in BOOLEAN
    BY <1>1, Zenon
  <2>5. wires'.tready \in BOOLEAN
    BY Zenon
  <2>4. co'.pc \in DOMAIN Awaited
    BY <1>3, Places
  <2>. QED BY <1>1, <1>3, <2>1, <2>2, <2>3, <2>4, <2>5, <2>6 DEF CoroutineInv
<1>5. \A call : Earlier(call)' = Total(script, call, co.index)
  <2>1. co'.index - 1 = co.index
    BY <1>2, <1>3
  <2>. QED BY <1>1, <2>1 DEF Earlier
<1>6. co'.pc \in {"begin", "stopped"} /\ co'.pc \notin WriteSteps /\ co'.pc \notin ReadSteps
      /\ co'.pc \notin SendSteps /\ co'.pc \notin RecvSteps
  BY <1>3 DEF WriteSteps, ReadSteps, SendSteps, RecvSteps
<1>7. PointInv' /\ ReadInv'
  BY <1>1, <1>6 DEF BfmInv, PointInv, ReadInv, ReadSteps
<1>8. DrivenInv'
  BY <1>3, <1>6 DEF DrivenInv, Driven, NoStream
<1>9. WriteInv'
  BY <1>1, <1>5, <1>6 DEF BfmInv, CoroutineInv, WriteInv, WriteSteps, Moved
<1>10. SendInv'
  BY <1>1, <1>5, <1>6 DEF BfmInv, CoroutineInv, SendInv, SendSteps, Moved
<1>11. RecvInv'
  BY <1>1, <1>5, <1>6 DEF BfmInv, CoroutineInv, RecvInv, RecvSteps, Moved
<1>. QED BY <1>4, <1>7, <1>8, <1>9, <1>10, <1>11 DEF BfmInv

(* A step within a call: only where it waits, what it sampled and what it     *)
(* drives can change.                                                        *)
LEMMA CoroutineStep ==
  ASSUME CoroutineInv, NEW at, Step(at), co.pc # "stopped",
         co' = [f \in {"index", "pc", "beat", "sampled", "waited", "raised"} |-> co'[f]],
         co'.index = co.index, co'.pc \in DOMAIN Awaited, co'.beat \in Nat,
         wires' = [f \in {"awvalid", "write", "arvalid", "araddr", "tvalid", "tlast", "tready"} |-> wires'[f]],
         wires'.tready = wires.tready \/ wires'.tready \in BOOLEAN,
         log' = [f \in {"decoded", "latched", "accepted", "given"} |-> log'[f]],
         log'.decoded = log.decoded, log'.accepted = log.accepted, log'.given = log.given
  PROVE  CoroutineInv'
<1>1. fired' = FALSE /\ script' = script
  BY StepFrame
<1>2. wires'.tready \in BOOLEAN
  BY Zenon DEF CoroutineInv
<1>3. fired' \in BOOLEAN
  BY <1>1, Zenon
<1>4. {log'.decoded, log'.accepted, log'.given} \subseteq Nat
  BY DEF CoroutineInv
<1>5. script' \in Scripts /\ (co'.pc # "stopped" => co'.index \in 1 .. Len(script'))
  BY <1>1 DEF CoroutineInv
<1>. QED BY <1>2, <1>3, <1>4, <1>5 DEF CoroutineInv

(* A step that only waits for the next trigger.                              *)
LEMMA WaitStep ==
  ASSUME CoroutineInv, NEW at, Step(at), co.pc # "stopped", NEW next, next \in DOMAIN Awaited,
         Wait(next) \/ (PollAgain(next) /\ co.waited # BUS_TIMEOUT)
  PROVE  /\ co'.pc = next /\ co'.beat = co.beat /\ co'.index = co.index
         /\ co'.sampled = co.sampled
         /\ co' = [f \in {"index", "pc", "beat", "sampled", "waited", "raised"} |-> co'[f]]
         /\ (wires' = wires /\ log' = log => CoroutineInv')
<1>1. /\ co' = [f \in {"index", "pc", "beat", "sampled", "waited", "raised"} |-> co'[f]]
      /\ co'.pc = next /\ co'.beat = co.beat /\ co'.index = co.index /\ co'.sampled = co.sampled
  BY DEF Wait, PollAgain, CoroutineInv
<1>2. ASSUME wires' = wires, log' = log
      PROVE  CoroutineInv'
  <2>1. /\ wires' = [f \in {"awvalid", "write", "arvalid", "araddr", "tvalid", "tlast", "tready"} |-> wires'[f]]
        /\ log' = [f \in {"decoded", "latched", "accepted", "given"} |-> log'[f]]
        /\ wires'.tready = wires.tready
        /\ log'.decoded = log.decoded /\ log'.accepted = log.accepted /\ log'.given = log.given
    BY <1>2 DEF CoroutineInv
  <2>2. co'.beat \in Nat
    BY <1>1 DEF CoroutineInv
  <2>. QED BY <1>1, <2>1, <2>2, CoroutineStep
<1>. QED BY <1>1, <1>2

LEMMA BeginWriteStep ==
  ASSUME BfmInv, BeginWrite
  PROVE  BfmInv'
<1>1. Step("begin") /\ Call.call = "write" /\ Wait("w_edge") /\ log' = log /\ co.pc = "begin"
  BY DEF BeginWrite, Step
<1>2. /\ wires' = [f \in {"awvalid", "write", "arvalid", "araddr", "tvalid", "tlast", "tready"} |-> wires'[f]]
      /\ wires'.awvalid = TRUE /\ wires'.arvalid = wires.arvalid /\ wires'.tvalid = wires.tvalid
      /\ wires'.tready = wires.tready
  BY DEF BeginWrite, BfmInv, CoroutineInv
<1>3. /\ co'.pc = "w_edge" /\ co'.beat = co.beat /\ co'.index = co.index
      /\ co' = [f \in {"index", "pc", "beat", "sampled", "waited", "raised"} |-> co'[f]]
  BY <1>1, WaitStep, Places DEF BfmInv
<1>4. /\ fired' = FALSE /\ ~Fresh' /\ script' = script /\ point' = point
      /\ aw_hold' = aw_hold /\ w_hold' = w_hold /\ bvalid' = bvalid
  BY <1>1, StepFrame
<1>5. CoroutineInv'
  <2>1. /\ log' = [f \in {"decoded", "latched", "accepted", "given"} |-> log'[f]]
        /\ log'.decoded = log.decoded /\ log'.accepted = log.accepted /\ log'.given = log.given
        /\ co'.beat \in Nat /\ co'.pc \in DOMAIN Awaited
    BY <1>1, <1>3, Places DEF BfmInv, CoroutineInv
  <2>. QED BY <1>1, <1>2, <1>3, <2>1, CoroutineStep DEF BfmInv
<1>6. PointInv'
  BY <1>1, <1>3, <1>4 DEF BfmInv, PointInv
<1>7. Call' = Call /\ \A call : Earlier(call)' = Earlier(call)
  BY <1>3, <1>4, SameCall
<1>8. DrivenInv'
  BY <1>1, <1>2, <1>3, <1>7 DEF BfmInv, DrivenInv, Driven, NoStream, WriteSteps, ReadSteps, SendSteps, RecvSteps
<1>9. WriteInv'
  BY <1>1, <1>3, <1>4, <1>7 DEF BfmInv, WriteInv, WriteSteps
<1>10. ReadInv' /\ SendInv' /\ RecvInv'
  <2>1. /\ co'.pc \notin ReadSteps \cup SendSteps \cup RecvSteps /\ co.pc \notin SendSteps \cup RecvSteps \cup {"stopped"}
        /\ co'.pc \notin ReadSteps /\ co'.pc \notin SendSteps /\ co'.pc \notin RecvSteps
        /\ co.pc \notin SendSteps \cup {"stopped"} /\ co.pc \notin RecvSteps \cup {"stopped"}
        /\ log'.accepted = log.accepted /\ log'.given = log.given
    BY <1>1, <1>3 DEF ReadSteps, SendSteps, RecvSteps
  <2>. QED BY <1>1, <1>3, <2>1, ReadIdle, SendIdle, RecvIdle DEF BfmInv
<1>. QED BY <1>5, <1>6, <1>8, <1>9, <1>10 DEF BfmInv

LEMMA WriteEdgeStep ==
  ASSUME BfmInv, WriteEdge
  PROVE  BfmInv'
<1>1. Step("w_edge") /\ Wait("w_sample") /\ wires' = wires /\ log' = log /\ co.pc = "w_edge" /\ Runs
  BY DEF WriteEdge, Step
<1>2. point = "rise" /\ fired /\ Fresh
  BY <1>1, WhenServed DEF BfmInv, Fresh
<1>3. /\ co'.pc = "w_sample" /\ co'.beat = co.beat /\ co'.index = co.index /\ CoroutineInv'
  BY <1>1, WaitStep, Places DEF BfmInv
<1>4. /\ fired' = FALSE /\ ~Fresh' /\ script' = script /\ point' = point
      /\ aw_hold' = aw_hold /\ w_hold' = w_hold /\ bvalid' = bvalid
  BY <1>1, StepFrame
<1>6. PointInv'
  BY <1>2, <1>3, <1>4 DEF PointInv
<1>7. Call' = Call /\ \A call : Earlier(call)' = Earlier(call)
  BY <1>3, <1>4, SameCall
<1>8. DrivenInv'
  BY <1>1, <1>3, <1>7 DEF BfmInv, DrivenInv, Driven, NoStream, WriteSteps, ReadSteps, SendSteps, RecvSteps
<1>9. WriteInv'
  BY <1>1, <1>2, <1>3, <1>4, <1>7 DEF BfmInv, WriteInv, WriteSteps
<1>10. ReadInv' /\ SendInv' /\ RecvInv'
  <2>1. /\ co'.pc \notin ReadSteps /\ co'.pc \notin SendSteps /\ co'.pc \notin RecvSteps
        /\ co.pc \notin SendSteps \cup {"stopped"} /\ co.pc \notin RecvSteps \cup {"stopped"}
        /\ log'.accepted = log.accepted /\ log'.given = log.given
    BY <1>1, <1>3 DEF ReadSteps, SendSteps, RecvSteps
  <2>. QED BY <1>1, <1>3, <2>1, ReadIdle, SendIdle, RecvIdle DEF BfmInv
<1>. QED BY <1>3, <1>6, <1>8, <1>9, <1>10 DEF BfmInv

LEMMA WriteSampleStep ==
  ASSUME BfmInv, WriteSample
  PROVE  BfmInv'
<1>1. Step("w_sample") /\ wires' = wires /\ log' = log /\ co.pc = "w_sample" /\ Runs
  BY DEF WriteSample, Step
<1>2. point = "riseRO"
  BY <1>1, WhenServed DEF BfmInv, PointInv
<1>4. /\ fired' = FALSE /\ ~Fresh' /\ script' = script /\ point' = point
      /\ aw_hold' = aw_hold /\ w_hold' = w_hold /\ bvalid' = bvalid
  BY <1>1, StepFrame
<1>5. CASE PollAgain("w_edge") /\ co.waited = BUS_TIMEOUT
  <2>1. Raise("SimTimeoutError")
    BY <1>5 DEF PollAgain
  <2>2. wires'.tready = wires.tready /\ wires' = [f \in {"awvalid", "write", "arvalid", "araddr", "tvalid", "tlast", "tready"} |-> wires'[f]]
    BY <1>1 DEF BfmInv, CoroutineInv
  <2>. QED BY <1>1, <2>1, <2>2, RaiseStep
<1>6. ASSUME NEW next \in {"w_end", "w_edge"}, next = "w_end" <=> bvalid,
             Wait(next) \/ (PollAgain(next) /\ co.waited # BUS_TIMEOUT)
      PROVE  BfmInv'
  <2>1. co'.pc = next /\ co'.beat = co.beat /\ co'.index = co.index /\ CoroutineInv'
    BY <1>1, <1>6, WaitStep, Places DEF BfmInv
  <2>2. PointInv'
    BY <1>2, <1>4, <2>1 DEF PointInv
  <2>3. Call' = Call /\ \A call : Earlier(call)' = Earlier(call)
    BY <1>4, <2>1, SameCall
  <2>4. DrivenInv'
    BY <1>1, <2>1, <2>3 DEF BfmInv, DrivenInv, Driven, NoStream, WriteSteps, ReadSteps, SendSteps, RecvSteps
  <2>5. WriteInv'
    BY <1>1, <1>4, <1>6, <2>1, <2>3 DEF BfmInv, WriteInv, WriteSteps
  <2>6. /\ co'.pc \notin ReadSteps /\ co'.pc \notin SendSteps /\ co'.pc \notin RecvSteps
        /\ co.pc \notin SendSteps \cup {"stopped"} /\ co.pc \notin RecvSteps \cup {"stopped"}
        /\ log'.accepted = log.accepted /\ log'.given = log.given
    BY <1>1, <2>1 DEF ReadSteps, SendSteps, RecvSteps
  <2>7. ReadInv' /\ SendInv' /\ RecvInv'
    BY <1>1, <2>1, <2>6, ReadIdle, SendIdle, RecvIdle DEF BfmInv
  <2>. QED BY <2>1, <2>2, <2>4, <2>5, <2>7 DEF BfmInv
<1>. QED BY <1>5, <1>6, Zenon DEF WriteSample

LEMMA EndWriteStep ==
  ASSUME BfmInv, EndWrite
  PROVE  BfmInv' /\ Moved
<1>1. Step("w_end") /\ co' = Returned /\ log' = log /\ co.pc = "w_end" /\ Runs
  BY DEF EndWrite, Step
<1>2. point = "fall"
  BY <1>1, WhenServed DEF BfmInv
<1>3. Call.call = "write" /\ Driven(TRUE, FALSE, FALSE) /\ NoStream
  BY <1>1 DEF BfmInv, DrivenInv, WriteSteps
<1>4. /\ wires' = [f \in {"awvalid", "write", "arvalid", "araddr", "tvalid", "tlast", "tready"} |-> wires'[f]]
      /\ wires'.awvalid = FALSE /\ wires'.arvalid = FALSE /\ wires'.tvalid = FALSE /\ wires'.tready = FALSE
  BY <1>3 DEF EndWrite, BfmInv, CoroutineInv, Driven, NoStream
<1>5. aw_hold = FALSE /\ (out_state # "OUT_IDLE" => word_index = 0)
  BY <1>1 DEF BfmInv, WriteInv, RecvInv, RecvSteps
<1>6. /\ log.decoded = Earlier("write") + 1
      /\ log.accepted = Earlier("axis_send") + 0 + 0 /\ log.given = Earlier("axis_recv") + 0 + 0
  BY <1>1 DEF BfmInv, WriteInv, SendInv, RecvInv, SendSteps, RecvSteps
<1>7. Moved
  BY <1>1, <1>3, <1>6, CallTotal DEF BfmInv, Moved
<1>. QED BY <1>1, <1>2, <1>4, <1>5, <1>7, ReturnStep

LEMMA BeginReadStep ==
  ASSUME BfmInv, BeginRead
  PROVE  BfmInv'
<1>1. Step("begin") /\ IsRead(Call.call) /\ Wait("r_edge") /\ co.pc = "begin"
  BY DEF BeginRead, Step
<1>2. /\ wires' = [f \in {"awvalid", "write", "arvalid", "araddr", "tvalid", "tlast", "tready"} |-> wires'[f]]
      /\ wires'.awvalid = wires.awvalid /\ wires'.arvalid = TRUE /\ wires'.tvalid = wires.tvalid
      /\ wires'.tready = wires.tready /\ wires'.araddr = Call.addr
  BY DEF BeginRead, BfmInv, CoroutineInv
<1>3. /\ co'.pc = "r_edge" /\ co'.beat = co.beat /\ co'.index = co.index
      /\ co' = [f \in {"index", "pc", "beat", "sampled", "waited", "raised"} |-> co'[f]]
  BY <1>1, WaitStep, Places DEF BfmInv
<1>4. fired' = FALSE /\ ~Fresh' /\ script' = script /\ point' = point
  BY <1>1, StepFrame
<1>5. /\ log' = [f \in {"decoded", "latched", "accepted", "given"} |-> log'[f]]
      /\ log'.decoded = log.decoded /\ log'.accepted = log.accepted /\ log'.given = log.given
  BY DEF BeginRead, BfmInv, CoroutineInv
<1>6. CoroutineInv'
  <2>1. co'.beat \in Nat /\ co'.pc \in DOMAIN Awaited
    BY <1>1, <1>3, Places DEF BfmInv, CoroutineInv
  <2>. QED BY <1>1, <1>2, <1>3, <1>5, <2>1, CoroutineStep DEF BfmInv
<1>7. PointInv'
  BY <1>1, <1>3, <1>4 DEF BfmInv, PointInv
<1>8. Call' = Call /\ \A call : Earlier(call)' = Earlier(call)
  BY <1>3, <1>4, SameCall
<1>9. DrivenInv'
  BY <1>1, <1>2, <1>3, <1>8 DEF BfmInv, DrivenInv, Driven, NoStream, WriteSteps, ReadSteps, SendSteps, RecvSteps
<1>10. ReadInv'
  BY <1>3, <1>4 DEF ReadInv
<1>11. WriteInv' /\ SendInv' /\ RecvInv'
  <2>1. /\ co'.pc \notin WriteSteps /\ co'.pc \notin SendSteps /\ co'.pc \notin RecvSteps
        /\ co.pc \notin WriteSteps \cup {"stopped"} /\ co.pc \notin SendSteps \cup {"stopped"}
        /\ co.pc \notin RecvSteps \cup {"stopped"}
    BY <1>1, <1>3 DEF WriteSteps, SendSteps, RecvSteps
  <2>. QED BY <1>1, <1>3, <1>5, <2>1, WriteIdle, SendIdle, RecvIdle DEF BfmInv
<1>. QED BY <1>6, <1>7, <1>9, <1>10, <1>11 DEF BfmInv

LEMMA ReadEdgeStep ==
  ASSUME BfmInv, ReadEdge
  PROVE  BfmInv'
<1>1. Step("r_edge") /\ Wait("r_sample") /\ wires' = wires /\ log' = log /\ co.pc = "r_edge" /\ Runs
  BY DEF ReadEdge, Step
<1>2. point = "rise" /\ fired /\ Fresh
  BY <1>1, WhenServed DEF BfmInv, Fresh
<1>3. /\ co'.pc = "r_sample" /\ co'.beat = co.beat /\ co'.index = co.index /\ CoroutineInv'
  BY <1>1, WaitStep, Places DEF BfmInv
<1>4. /\ fired' = FALSE /\ ~Fresh' /\ script' = script /\ point' = point
      /\ rvalid' = rvalid /\ rdata' = rdata
  BY <1>1, StepFrame
<1>5. PointInv'
  BY <1>2, <1>3, <1>4 DEF PointInv
<1>6. Call' = Call
  BY <1>3, <1>4, SameCall
<1>7. DrivenInv'
  BY <1>1, <1>3, <1>6 DEF BfmInv, DrivenInv, Driven, NoStream, WriteSteps, ReadSteps, SendSteps, RecvSteps
<1>8. ReadInv'
  BY <1>1, <1>2, <1>3, <1>4, <1>6 DEF BfmInv, ReadInv
<1>9. WriteInv' /\ SendInv' /\ RecvInv'
  <2>1. /\ co'.pc \notin WriteSteps /\ co'.pc \notin SendSteps /\ co'.pc \notin RecvSteps
        /\ co.pc \notin WriteSteps \cup {"stopped"} /\ co.pc \notin SendSteps \cup {"stopped"}
        /\ co.pc \notin RecvSteps \cup {"stopped"}
        /\ log'.decoded = log.decoded /\ log'.accepted = log.accepted /\ log'.given = log.given
    BY <1>1, <1>3 DEF WriteSteps, SendSteps, RecvSteps
  <2>. QED BY <1>1, <1>3, <2>1, WriteIdle, SendIdle, RecvIdle DEF BfmInv
<1>. QED BY <1>3, <1>5, <1>7, <1>8, <1>9 DEF BfmInv

LEMMA ReadSampleStep ==
  ASSUME BfmInv, ReadSample
  PROVE  BfmInv'
<1>1. Step("r_sample") /\ wires' = wires /\ log' = log /\ co.pc = "r_sample" /\ Runs
  BY DEF ReadSample, Step
<1>2. point = "riseRO"
  BY <1>1, WhenServed DEF BfmInv, PointInv
<1>3. /\ fired' = FALSE /\ ~Fresh' /\ script' = script /\ point' = point
      /\ rvalid' = rvalid /\ rdata' = rdata
  BY <1>1, StepFrame
<1>4. wires'.tready = wires.tready /\ wires' = [f \in {"awvalid", "write", "arvalid", "araddr", "tvalid", "tlast", "tready"} |-> wires'[f]]
  BY <1>1 DEF BfmInv, CoroutineInv
<1>5. CASE PollAgain("r_edge") /\ co.waited = BUS_TIMEOUT
  <2>1. Raise("SimTimeoutError")
    BY <1>5 DEF PollAgain
  <2>. QED BY <1>1, <1>4, <2>1, RaiseStep
<1>6. ASSUME \/ rvalid /\ co' = [co EXCEPT !.pc = "r_end", !.sampled = rdata.value]
             \/ PollAgain("r_edge") /\ co.waited # BUS_TIMEOUT
      PROVE  BfmInv'
  <2>1. /\ co'.beat = co.beat /\ co'.index = co.index
        /\ co' = [f \in {"index", "pc", "beat", "sampled", "waited", "raised"} |-> co'[f]]
        /\ \/ rvalid /\ co'.pc = "r_end" /\ co'.sampled = rdata.value
           \/ co'.pc = "r_edge"
    BY <1>6 DEF PollAgain, BfmInv, CoroutineInv
  <2>2. CoroutineInv'
    <3>1. co'.beat \in Nat /\ co'.pc \in DOMAIN Awaited
      BY <2>1, Places DEF BfmInv, CoroutineInv
    <3>2. /\ log' = [f \in {"decoded", "latched", "accepted", "given"} |-> log'[f]]
          /\ log'.decoded = log.decoded /\ log'.accepted = log.accepted /\ log'.given = log.given
      BY <1>1 DEF BfmInv, CoroutineInv
    <3>. QED BY <1>1, <1>4, <2>1, <3>1, <3>2, CoroutineStep DEF BfmInv
  <2>3. PointInv'
    BY <1>2, <1>3, <2>1 DEF PointInv
  <2>4. Call' = Call
    BY <1>3, <2>1, SameCall
  <2>5. DrivenInv'
    BY <1>1, <2>1, <2>4 DEF BfmInv, DrivenInv, Driven, NoStream, WriteSteps, ReadSteps, SendSteps, RecvSteps
  <2>6. ReadInv'
    BY <1>1, <1>3, <2>1, <2>4 DEF BfmInv, ReadInv
  <2>7. WriteInv' /\ SendInv' /\ RecvInv'
    <3>1. /\ co'.pc \notin WriteSteps /\ co'.pc \notin SendSteps /\ co'.pc \notin RecvSteps
          /\ co.pc \notin WriteSteps \cup {"stopped"} /\ co.pc \notin SendSteps \cup {"stopped"}
          /\ co.pc \notin RecvSteps \cup {"stopped"}
          /\ log'.decoded = log.decoded /\ log'.accepted = log.accepted /\ log'.given = log.given
      BY <1>1, <2>1 DEF WriteSteps, SendSteps, RecvSteps
    <3>. QED BY <1>1, <2>1, <3>1, WriteIdle, SendIdle, RecvIdle DEF BfmInv
  <2>. QED BY <2>2, <2>3, <2>5, <2>6, <2>7 DEF BfmInv
<1>. QED BY <1>5, <1>6, Zenon DEF ReadSample

LEMMA EndReadStep ==
  ASSUME BfmInv, EndRead
  PROVE  BfmInv' /\ (Returns => Moved)
<1>1. Step("r_end") /\ log' = log /\ co.pc = "r_end" /\ Runs
  BY DEF EndRead, Step
<1>2. point = "fall"
  BY <1>1, WhenServed DEF BfmInv
<1>3. IsRead(Call.call) /\ Driven(FALSE, TRUE, FALSE) /\ NoStream
  BY <1>1 DEF BfmInv, DrivenInv, ReadSteps
<1>4. /\ wires' = [f \in {"awvalid", "write", "arvalid", "araddr", "tvalid", "tlast", "tready"} |-> wires'[f]]
      /\ wires'.awvalid = FALSE /\ wires'.arvalid = FALSE /\ wires'.tvalid = FALSE /\ wires'.tready = FALSE
      /\ wires'.tready = wires.tready
  BY <1>3 DEF EndRead, BfmInv, CoroutineInv, Driven, NoStream
<1>5. /\ fired' = FALSE /\ ~Fresh' /\ script' = script /\ point' = point
  BY <1>1, StepFrame
<1>6. CASE co' = Returned
  <2>1. aw_hold = FALSE /\ (out_state # "OUT_IDLE" => word_index = 0)
    BY <1>1 DEF BfmInv, WriteInv, RecvInv, RecvSteps, WriteSteps
  <2>2. /\ log.decoded = Earlier("write") + 0
        /\ log.accepted = Earlier("axis_send") + 0 + 0 /\ log.given = Earlier("axis_recv") + 0 + 0
    BY <1>1 DEF BfmInv, WriteInv, SendInv, RecvInv, WriteSteps, SendSteps, RecvSteps
  <2>3. Call.call \notin {"write", "axis_send", "axis_recv"}
    BY <1>3 DEF IsRead
  <2>4. Moved
    BY <1>1, <2>2, <2>3, CallTotal DEF BfmInv, Moved
  <2>. QED BY <1>1, <1>2, <1>4, <1>6, <2>1, <2>4, ReturnStep
<1>7. ASSUME NEW what, Raise(what)
      PROVE  BfmInv' /\ ~Returns
  BY <1>1, <1>4, <1>7, RaiseStep
<1>8. ASSUME NEW next \in {"begin", "edge"}, PollAgain(next), co.waited # BUS_TIMEOUT
      PROVE  BfmInv' /\ ~Returns
  <2>1. /\ co'.pc = next /\ co'.beat = co.beat /\ co'.index = co.index
        /\ co' = [f \in {"index", "pc", "beat", "sampled", "waited", "raised"} |-> co'[f]]
    BY <1>1, <1>8, WaitStep, Places DEF BfmInv
  <2>2. CoroutineInv'
    <3>1. co'.beat \in Nat /\ co'.pc \in DOMAIN Awaited
      BY <2>1, Places DEF BfmInv, CoroutineInv
    <3>2. /\ log' = [f \in {"decoded", "latched", "accepted", "given"} |-> log'[f]]
          /\ log'.decoded = log.decoded /\ log'.accepted = log.accepted /\ log'.given = log.given
      BY <1>1 DEF BfmInv, CoroutineInv
    <3>. QED BY <1>1, <1>4, <2>1, <3>1, <3>2, CoroutineStep DEF BfmInv
  <2>3. PointInv'
    BY <1>2, <1>5, <2>1 DEF PointInv
  <2>4. Call' = Call
    BY <1>5, <2>1, SameCall
  <2>5. DrivenInv'
    BY <1>3, <1>4, <2>1, <2>4 DEF DrivenInv, Driven, NoStream, WriteSteps, ReadSteps, SendSteps, RecvSteps
  <2>6. WriteInv' /\ ReadInv' /\ SendInv' /\ RecvInv'
    <3>1. /\ co'.pc \notin WriteSteps /\ co'.pc \notin ReadSteps /\ co'.pc \notin SendSteps /\ co'.pc \notin RecvSteps
          /\ co.pc \notin WriteSteps \cup {"stopped"} /\ co.pc \notin SendSteps \cup {"stopped"}
          /\ co.pc \notin RecvSteps \cup {"stopped"}
          /\ log'.decoded = log.decoded /\ log'.accepted = log.accepted /\ log'.given = log.given
      BY <1>1, <2>1 DEF WriteSteps, ReadSteps, SendSteps, RecvSteps
    <3>. QED BY <1>1, <2>1, <3>1, WriteIdle, ReadIdle, SendIdle, RecvIdle DEF BfmInv
  <2>. QED BY <2>1, <2>2, <2>3, <2>5, <2>6 DEF BfmInv, Returns
<1>9. \/ co' = Returned
      \/ \E what : Raise(what)
      \/ \E next \in {"begin", "edge"} : PollAgain(next) /\ co.waited # BUS_TIMEOUT
  BY DEF EndRead, PollAgain
<1>. QED BY <1>6, <1>7, <1>8, <1>9, Zenon

LEMMA BeginEdgeStep ==
  ASSUME BfmInv, BeginEdge
  PROVE  BfmInv'
<1>1. /\ Step("begin") /\ Wait("edge") /\ wires' = wires /\ log' = log /\ co.pc = "begin"
      /\ Call.call = "RisingEdge"
  BY DEF BeginEdge, Step
<1>2. point \in {"rise", "fall"}
  BY <1>1 DEF BfmInv, PointInv
<1>3. /\ co'.pc = "edge" /\ co'.beat = co.beat /\ co'.index = co.index /\ CoroutineInv'
  BY <1>1, WaitStep, Places DEF BfmInv
<1>4. fired' = FALSE /\ ~Fresh' /\ script' = script /\ point' = point
  BY <1>1, StepFrame
<1>5. PointInv'
  BY <1>2, <1>3, <1>4 DEF PointInv
<1>6. DrivenInv'
  <2>1. Call' = Call
    BY <1>3, <1>4, SameCall
  <2>. QED BY <1>1, <1>3, <2>1 DEF BfmInv, DrivenInv, Driven, NoStream, WriteSteps, ReadSteps, SendSteps, RecvSteps
<1>7. WriteInv' /\ ReadInv' /\ SendInv' /\ RecvInv'
  <2>1. /\ co'.pc \notin WriteSteps /\ co'.pc \notin ReadSteps /\ co'.pc \notin SendSteps /\ co'.pc \notin RecvSteps
        /\ co.pc \notin WriteSteps \cup {"stopped"} /\ co.pc \notin SendSteps \cup {"stopped"}
        /\ co.pc \notin RecvSteps \cup {"stopped"}
        /\ log'.decoded = log.decoded /\ log'.accepted = log.accepted /\ log'.given = log.given
    BY <1>1, <1>3 DEF WriteSteps, ReadSteps, SendSteps, RecvSteps
  <2>. QED BY <1>1, <1>3, <2>1, WriteIdle, ReadIdle, SendIdle, RecvIdle DEF BfmInv
<1>. QED BY <1>3, <1>5, <1>6, <1>7 DEF BfmInv

LEMMA EdgeSeenStep ==
  ASSUME BfmInv, EdgeSeen
  PROVE  BfmInv' /\ (Returns => Moved)
<1>1. Step("edge") /\ wires' = wires /\ log' = log /\ co.pc = "edge" /\ Runs
  BY DEF EdgeSeen, Step
<1>2. point = "rise"
  BY <1>1, WhenServed DEF BfmInv
<1>3. CASE Call.call = "RisingEdge" /\ co' = Returned
  <2>1. aw_hold = FALSE /\ (out_state # "OUT_IDLE" => word_index = 0)
    BY <1>1 DEF BfmInv, WriteInv, RecvInv, RecvSteps, WriteSteps
  <2>2. /\ log.decoded = Earlier("write") + 0
        /\ log.accepted = Earlier("axis_send") + 0 + 0 /\ log.given = Earlier("axis_recv") + 0 + 0
    BY <1>1 DEF BfmInv, WriteInv, SendInv, RecvInv, WriteSteps, SendSteps, RecvSteps
  <2>3. Moved
    BY <1>1, <1>3, <2>2, CallTotal DEF BfmInv, Moved
  <2>4. Driven(FALSE, FALSE, FALSE) /\ NoStream
    BY <1>1 DEF BfmInv, DrivenInv
  <2>5. /\ wires' = [f \in {"awvalid", "write", "arvalid", "araddr", "tvalid", "tlast", "tready"} |-> wires'[f]]
        /\ wires'.awvalid = FALSE /\ wires'.arvalid = FALSE /\ wires'.tvalid = FALSE /\ wires'.tready = FALSE
    BY <1>1, <2>4 DEF BfmInv, CoroutineInv, Driven, NoStream
  <2>. QED BY <1>1, <1>2, <1>3, <2>1, <2>3, <2>5, ReturnStep
<1>4. CASE Wait("begin")
  <2>1. co'.pc = "begin" /\ co'.beat = co.beat /\ co'.index = co.index /\ CoroutineInv'
    BY <1>1, <1>4, WaitStep, Places DEF BfmInv
  <2>2. fired' = FALSE /\ ~Fresh' /\ script' = script /\ point' = point
    BY <1>1, StepFrame
  <2>3. PointInv'
    BY <1>2, <2>1, <2>2 DEF PointInv
  <2>4. DrivenInv'
    BY <1>1, <2>1 DEF BfmInv, DrivenInv, Driven, NoStream, WriteSteps, ReadSteps, SendSteps, RecvSteps
  <2>5. WriteInv' /\ ReadInv' /\ SendInv' /\ RecvInv'
    <3>1. /\ co'.pc \notin WriteSteps /\ co'.pc \notin ReadSteps /\ co'.pc \notin SendSteps /\ co'.pc \notin RecvSteps
          /\ co.pc \notin WriteSteps \cup {"stopped"} /\ co.pc \notin SendSteps \cup {"stopped"}
          /\ co.pc \notin RecvSteps \cup {"stopped"}
          /\ log'.decoded = log.decoded /\ log'.accepted = log.accepted /\ log'.given = log.given
      BY <1>1, <2>1 DEF WriteSteps, ReadSteps, SendSteps, RecvSteps
    <3>. QED BY <1>1, <2>1, <3>1, WriteIdle, ReadIdle, SendIdle, RecvIdle DEF BfmInv
  <2>. QED BY <2>1, <2>3, <2>4, <2>5 DEF BfmInv, Returns
<1>. QED BY <1>3, <1>4, Zenon DEF EdgeSeen

LEMMA BeginSendStep ==
  ASSUME BfmInv, BeginSend
  PROVE  BfmInv'
<1>1. Step("begin") /\ Call.call = "axis_send" /\ Wait("s_sample") /\ log' = log /\ co.pc = "begin"
  BY DEF BeginSend, Step
<1>2. /\ wires' = [f \in {"awvalid", "write", "arvalid", "araddr", "tvalid", "tlast", "tready"} |-> wires'[f]]
      /\ wires'.awvalid = wires.awvalid /\ wires'.arvalid = wires.arvalid /\ wires'.tvalid = TRUE
      /\ wires'.tready = wires.tready
  BY DEF BeginSend, DriveBeat, BfmInv, CoroutineInv
<1>3. /\ co'.pc = "s_sample" /\ co'.beat = co.beat /\ co'.index = co.index
      /\ co' = [f \in {"index", "pc", "beat", "sampled", "waited", "raised"} |-> co'[f]]
  BY <1>1, WaitStep, Places DEF BfmInv
<1>4. fired' = FALSE /\ ~Fresh' /\ script' = script /\ point' = point
  BY <1>1, StepFrame
<1>5. CoroutineInv'
  <2>1. /\ log' = [f \in {"decoded", "latched", "accepted", "given"} |-> log'[f]]
        /\ log'.decoded = log.decoded /\ log'.accepted = log.accepted /\ log'.given = log.given
        /\ co'.beat \in Nat /\ co'.pc \in DOMAIN Awaited
    BY <1>1, <1>3, Places DEF BfmInv, CoroutineInv
  <2>. QED BY <1>1, <1>2, <1>3, <2>1, CoroutineStep DEF BfmInv
<1>6. PointInv'
  BY <1>1, <1>3, <1>4 DEF BfmInv, PointInv
<1>7. Call' = Call /\ \A call : Earlier(call)' = Earlier(call)
  BY <1>3, <1>4, SameCall
<1>8. co.beat = 0 /\ Call.units \in Nat \ {0}
  BY <1>1, CallTotal DEF BfmInv, DrivenInv, NoStream
<1>9. DrivenInv'
  <2>1. co'.beat < Call'.units
    BY <1>3, <1>7, <1>8
  <2>. QED BY <1>1, <1>2, <1>3, <1>7, <2>1 DEF BfmInv, DrivenInv, Driven, NoStream, WriteSteps, ReadSteps,
       SendSteps, RecvSteps
<1>10. SendInv'
  BY <1>1, <1>3, <1>4, <1>7, <1>8 DEF BfmInv, SendInv, SendSteps
<1>11. WriteInv' /\ ReadInv' /\ RecvInv'
  <2>1. /\ co'.pc \notin WriteSteps /\ co'.pc \notin ReadSteps /\ co'.pc \notin RecvSteps
        /\ co.pc \notin WriteSteps \cup {"stopped"} /\ co.pc \notin RecvSteps \cup {"stopped"}
        /\ log'.decoded = log.decoded /\ log'.given = log.given
    BY <1>1, <1>3 DEF WriteSteps, ReadSteps, RecvSteps
  <2>. QED BY <1>1, <1>3, <2>1, WriteIdle, ReadIdle, RecvIdle DEF BfmInv
<1>. QED BY <1>5, <1>6, <1>9, <1>10, <1>11 DEF BfmInv

LEMMA SampleReadyStep ==
  ASSUME BfmInv, SampleReady
  PROVE  BfmInv'
<1>1. Step("s_sample") /\ wires' = wires /\ log' = log /\ co.pc = "s_sample"
  BY DEF SampleReady, Step
<1>2. /\ co'.pc = "s_edge" /\ co'.beat = co.beat /\ co'.index = co.index
      /\ co'.sampled = IF OfferedBeat # NoBeat THEN {"accepted"} ELSE {}
      /\ co' = [f \in {"index", "pc", "beat", "sampled", "waited", "raised"} |-> co'[f]]
  BY DEF SampleReady, BfmInv, CoroutineInv
<1>3. fired' = FALSE /\ ~Fresh' /\ script' = script /\ point' = point /\ OfferedBeat' = OfferedBeat
  BY <1>1, StepFrame
<1>4. CoroutineInv'
  <2>1. /\ log' = [f \in {"decoded", "latched", "accepted", "given"} |-> log'[f]]
        /\ log'.decoded = log.decoded /\ log'.accepted = log.accepted /\ log'.given = log.given
        /\ co'.beat \in Nat /\ co'.pc \in DOMAIN Awaited /\ wires'.tready = wires.tready
        /\ wires' = [f \in {"awvalid", "write", "arvalid", "araddr", "tvalid", "tlast", "tready"} |-> wires'[f]]
    BY <1>1, <1>2, Places DEF BfmInv, CoroutineInv
  <2>. QED BY <1>1, <1>2, <2>1, CoroutineStep DEF BfmInv
<1>5. PointInv'
  BY <1>2, <1>3 DEF BfmInv, PointInv
<1>6. Call' = Call /\ \A call : Earlier(call)' = Earlier(call)
  BY <1>2, <1>3, SameCall
<1>7. DrivenInv'
  BY <1>1, <1>2, <1>6 DEF BfmInv, DrivenInv, Driven, NoStream, WriteSteps, ReadSteps, SendSteps, RecvSteps
<1>8. SendInv'
  <2>1. log.accepted = Earlier("axis_send") + co.beat + 0
    BY <1>1 DEF BfmInv, SendInv, SendSteps
  <2>2. "accepted" \in co'.sampled <=> OfferedBeat # NoBeat
    BY <1>2
  <2>. QED BY <1>1, <1>2, <1>3, <1>6, <2>1, <2>2 DEF SendInv, SendSteps
<1>9. WriteInv' /\ ReadInv' /\ RecvInv'
  <2>1. /\ co'.pc \notin WriteSteps /\ co'.pc \notin ReadSteps /\ co'.pc \notin RecvSteps
        /\ co.pc \notin WriteSteps \cup {"stopped"} /\ co.pc \notin RecvSteps \cup {"stopped"}
        /\ log'.decoded = log.decoded /\ log'.given = log.given
    BY <1>1, <1>2 DEF WriteSteps, ReadSteps, RecvSteps
  <2>. QED BY <1>1, <1>2, <2>1, WriteIdle, ReadIdle, RecvIdle DEF BfmInv
<1>. QED BY <1>4, <1>5, <1>7, <1>8, <1>9 DEF BfmInv

LEMMA SendEdgeStep ==
  ASSUME BfmInv, SendEdge
  PROVE  BfmInv' /\ (Returns => Moved)
<1>1. Step("s_edge") /\ log' = log /\ co.pc = "s_edge" /\ Runs
  BY DEF SendEdge, Step
<1>2. point = "rise" /\ fired /\ Fresh
  BY <1>1, WhenServed DEF BfmInv, Fresh
<1>3. /\ Call.call = "axis_send" /\ co.beat < Call.units /\ Driven(FALSE, FALSE, TRUE) /\ wires.tready = FALSE
      /\ wires = [f \in {"awvalid", "write", "arvalid", "araddr", "tvalid", "tlast", "tready"} |-> wires[f]] /\ co.beat \in Nat /\ Call.units \in Nat
  BY <1>1, CallTotal DEF BfmInv, DrivenInv, SendSteps, CoroutineInv
<1>4. fired' = FALSE /\ ~Fresh' /\ script' = script /\ point' = point
  BY <1>1, StepFrame
<1>5. log.accepted = Earlier("axis_send") + co.beat + (IF "accepted" \in co.sampled THEN 1 ELSE 0)
  BY <1>1, <1>2 DEF BfmInv, SendInv, SendSteps
<1>6. CASE co' = Returned /\ "accepted" \in co.sampled /\ co.beat + 1 >= Call.units
           /\ wires' = [wires EXCEPT !.tvalid = FALSE, !.tlast = FALSE]
  <2>1. /\ wires' = [f \in {"awvalid", "write", "arvalid", "araddr", "tvalid", "tlast", "tready"} |-> wires'[f]]
        /\ wires'.awvalid = FALSE /\ wires'.arvalid = FALSE /\ wires'.tvalid = FALSE /\ wires'.tready = FALSE
    BY <1>3, <1>6 DEF Driven
  <2>2. aw_hold = FALSE /\ (out_state # "OUT_IDLE" => word_index = 0)
    BY <1>1 DEF BfmInv, WriteInv, RecvInv, RecvSteps, WriteSteps
  <2>3. log.decoded = Earlier("write") + 0 /\ log.given = Earlier("axis_recv") + 0 + 0
    BY <1>1 DEF BfmInv, WriteInv, RecvInv, WriteSteps, RecvSteps
  <2>4. log.accepted = Earlier("axis_send") + Call.units
    BY <1>1, <1>3, <1>5, <1>6, CallTotal DEF BfmInv
  <2>5. Moved
    BY <1>1, <1>3, <2>3, <2>4, CallTotal DEF BfmInv, Moved
  <2>. QED BY <1>1, <1>2, <1>6, <2>1, <2>2, <2>5, ReturnStep
<1>7. CASE PollAgain("s_sample") /\ co.waited = BUS_TIMEOUT /\ wires' = wires
  <2>1. Raise("SimTimeoutError") /\ wires'.tready = wires.tready
    BY <1>7 DEF PollAgain
  <2>. QED BY <1>1, <1>3, <1>7, <2>1, RaiseStep
<1>8. ASSUME \/ /\ "accepted" \in co.sampled /\ co.beat + 1 < Call.units /\ DriveBeat(co.beat + 1)
                /\ co' = [co EXCEPT !.pc = "s_sample", !.beat = @ + 1, !.waited = 0]
             \/ ~("accepted" \in co.sampled) /\ PollAgain("s_sample") /\ co.waited # BUS_TIMEOUT /\ wires' = wires
      PROVE  BfmInv' /\ ~Returns
  <2>1. /\ co'.pc = "s_sample" /\ co'.index = co.index
        /\ co'.beat = co.beat + (IF "accepted" \in co.sampled THEN 1 ELSE 0)
        /\ co' = [f \in {"index", "pc", "beat", "sampled", "waited", "raised"} |-> co'[f]]
    <3>1. co = [f \in {"index", "pc", "beat", "sampled", "waited", "raised"} |-> co[f]]
      BY DEF BfmInv, CoroutineInv
    <3>2. CASE "accepted" \in co.sampled /\ co' = [co EXCEPT !.pc = "s_sample", !.beat = @ + 1, !.waited = 0]
      BY <3>1, <3>2
    <3>3. CASE ~("accepted" \in co.sampled) /\ co' = [co EXCEPT !.pc = "s_sample", !.waited = @ + 1]
      <4>1. co'.pc = "s_sample" /\ co'.index = co.index /\ co'.beat = co.beat
            /\ co' = [f \in {"index", "pc", "beat", "sampled", "waited", "raised"} |-> co'[f]]
        BY <3>1, <3>3
      <4>2. co.beat + 0 = co.beat
        BY <1>3
      <4>. QED BY <3>3, <4>1, <4>2, Zenon
    <3>. QED BY <1>8, <3>2, <3>3 DEF PollAgain
  <2>2. co'.beat \in Nat /\ co'.beat < Call.units
    BY <1>3, <1>8, <2>1
  <2>3. /\ wires' = [f \in {"awvalid", "write", "arvalid", "araddr", "tvalid", "tlast", "tready"} |-> wires'[f]]
        /\ wires'.awvalid = FALSE /\ wires'.arvalid = FALSE /\ wires'.tvalid = TRUE /\ wires'.tready = FALSE
    BY <1>3, <1>8 DEF Driven, DriveBeat
  <2>4. CoroutineInv'
    <3>1. /\ log' = [f \in {"decoded", "latched", "accepted", "given"} |-> log'[f]]
          /\ log'.decoded = log.decoded /\ log'.accepted = log.accepted /\ log'.given = log.given
          /\ co'.pc \in DOMAIN Awaited /\ wires'.tready = wires.tready
      BY <1>1, <1>3, <2>1, <2>3, Places DEF BfmInv, CoroutineInv
    <3>. QED BY <1>1, <2>1, <2>2, <2>3, <3>1, CoroutineStep DEF BfmInv
  <2>5. PointInv'
    BY <1>2, <1>4, <2>1 DEF PointInv
  <2>6. Call' = Call /\ \A call : Earlier(call)' = Earlier(call)
    BY <1>4, <2>1, SameCall
  <2>7. DrivenInv'
    BY <1>3, <2>1, <2>2, <2>3, <2>6 DEF DrivenInv, Driven, WriteSteps, ReadSteps, SendSteps, RecvSteps
  <2>8. SendInv'
    <3>1. Earlier("axis_send") \in Nat
      BY <1>1, CallTotal DEF BfmInv
    <3>2. log'.accepted = Earlier("axis_send") + co'.beat + 0
      BY <1>1, <1>3, <1>5, <2>1, <3>1
    <3>. QED BY <1>4, <2>1, <2>6, <3>2 DEF SendInv, SendSteps
  <2>9. WriteInv' /\ ReadInv' /\ RecvInv'
    <3>1. /\ co'.pc \notin WriteSteps /\ co'.pc \notin ReadSteps /\ co'.pc \notin RecvSteps
          /\ co.pc \notin WriteSteps \cup {"stopped"} /\ co.pc \notin RecvSteps \cup {"stopped"}
          /\ log'.decoded = log.decoded /\ log'.given = log.given
      BY <1>1, <2>1 DEF WriteSteps, ReadSteps, RecvSteps
    <3>. QED BY <1>1, <2>1, <3>1, WriteIdle, ReadIdle, RecvIdle DEF BfmInv
  <2>. QED BY <2>1, <2>4, <2>5, <2>7, <2>8, <2>9 DEF BfmInv, Returns
<1>9. CASE "accepted" \in co.sampled
  <2>1. CASE co.beat + 1 < Call.units
    BY <1>8, <1>9, <2>1, Zenon DEF SendEdge, BeatDone
  <2>2. CASE ~(co.beat + 1 < Call.units)
    <3>1. co.beat + 1 >= Call.units
      BY <1>3, <2>2
    <3>. QED BY <1>6, <1>9, <2>2, <3>1, Zenon DEF SendEdge, BeatDone
  <2>. QED BY <2>1, <2>2
<1>10. CASE ~("accepted" \in co.sampled)
  BY <1>7, <1>8, <1>10, Zenon DEF SendEdge
<1>. QED BY <1>9, <1>10

LEMMA DriveReadyWires ==
  ASSUME CoroutineInv, DriveReady
  PROVE  /\ wires' = [f \in {"awvalid", "write", "arvalid", "araddr", "tvalid", "tlast", "tready"} |-> wires'[f]]
         /\ wires'.awvalid = wires.awvalid /\ wires'.arvalid = wires.arvalid /\ wires'.tvalid = wires.tvalid
         /\ wires'.tready \in BOOLEAN
<1>1. PICK ready \in {TRUE, ~Call.stalls} : wires' = [wires EXCEPT !.tready = ready]
  BY DEF DriveReady
<1>2. ready \in BOOLEAN
  BY Zenon
<1>. QED BY <1>1, <1>2 DEF CoroutineInv

LEMMA BeginRecvStep ==
  ASSUME BfmInv, BeginRecv
  PROVE  BfmInv'
<1>1. Step("begin") /\ Call.call = "axis_recv" /\ Wait("v_sample") /\ log' = log /\ co.pc = "begin"
  BY DEF BeginRecv, Step
<1>2. /\ wires' = [f \in {"awvalid", "write", "arvalid", "araddr", "tvalid", "tlast", "tready"} |-> wires'[f]]
      /\ wires'.awvalid = wires.awvalid /\ wires'.arvalid = wires.arvalid /\ wires'.tvalid = wires.tvalid
      /\ wires'.tready \in BOOLEAN
  BY DriveReadyWires DEF BeginRecv, BfmInv
<1>3. /\ co'.pc = "v_sample" /\ co'.beat = co.beat /\ co'.index = co.index
      /\ co' = [f \in {"index", "pc", "beat", "sampled", "waited", "raised"} |-> co'[f]]
  BY <1>1, WaitStep, Places DEF BfmInv
<1>4. /\ fired' = FALSE /\ ~Fresh' /\ script' = script /\ point' = point
      /\ out_state' = out_state /\ word_index' = word_index
  BY <1>1, StepFrame
<1>5. CoroutineInv'
  <2>1. /\ log' = [f \in {"decoded", "latched", "accepted", "given"} |-> log'[f]]
        /\ log'.decoded = log.decoded /\ log'.accepted = log.accepted /\ log'.given = log.given
        /\ co'.beat \in Nat /\ co'.pc \in DOMAIN Awaited
    BY <1>1, <1>3, Places DEF BfmInv, CoroutineInv
  <2>. QED BY <1>1, <1>2, <1>3, <2>1, CoroutineStep DEF BfmInv
<1>6. PointInv'
  BY <1>1, <1>3, <1>4 DEF BfmInv, PointInv
<1>7. Call' = Call /\ \A call : Earlier(call)' = Earlier(call)
  BY <1>3, <1>4, SameCall
<1>8. co.beat = 0 /\ Call.units \in Nat \ {0}
  BY <1>1, CallTotal DEF BfmInv, DrivenInv, NoStream
<1>9. DrivenInv'
  <2>1. co'.beat < Call'.units
    BY <1>3, <1>7, <1>8
  <2>. QED BY <1>1, <1>2, <1>3, <1>7, <2>1 DEF BfmInv, DrivenInv, Driven, NoStream, WriteSteps, ReadSteps,
       SendSteps, RecvSteps
<1>10. RecvInv'
  <2>1. log.given = Earlier("axis_recv") + 0 + 0 /\ (out_state # "OUT_IDLE" => word_index = 0)
    BY <1>1 DEF BfmInv, RecvInv, RecvSteps
  <2>2. co'.beat = 0
    BY <1>3, <1>8
  <2>3. Receiving(co.beat)'
    BY <1>4, <2>1, <2>2 DEF Receiving
  <2>. QED BY <1>1, <1>3, <1>4, <1>7, <2>1, <2>2, <2>3 DEF RecvInv, RecvSteps
<1>11. WriteInv' /\ ReadInv' /\ SendInv'
  <2>1. /\ co'.pc \notin WriteSteps /\ co'.pc \notin ReadSteps /\ co'.pc \notin SendSteps
        /\ co.pc \notin WriteSteps \cup {"stopped"} /\ co.pc \notin SendSteps \cup {"stopped"}
        /\ log'.decoded = log.decoded /\ log'.accepted = log.accepted
    BY <1>1, <1>3 DEF WriteSteps, ReadSteps, SendSteps
  <2>. QED BY <1>1, <1>3, <2>1, WriteIdle, ReadIdle, SendIdle DEF BfmInv
<1>. QED BY <1>5, <1>6, <1>9, <1>10, <1>11 DEF BfmInv

LEMMA SampleValidStep ==
  ASSUME BfmInv, SampleValid
  PROVE  BfmInv'
<1>1. Step("v_sample") /\ wires' = wires /\ log' = log /\ co.pc = "v_sample"
  BY DEF SampleValid, Step
<1>2. /\ co'.pc = "v_edge" /\ co'.beat = co.beat /\ co'.index = co.index /\ co'.sampled = Transfer
      /\ co' = [f \in {"index", "pc", "beat", "sampled", "waited", "raised"} |-> co'[f]]
  BY DEF SampleValid, BfmInv, CoroutineInv
<1>3. /\ fired' = FALSE /\ ~Fresh' /\ script' = script /\ point' = point /\ Transfer' = Transfer
      /\ out_state' = out_state /\ word_index' = word_index /\ state' = state
      /\ admission' = admission /\ start_pulse' = start_pulse
  BY <1>1, StepFrame
<1>4. CoroutineInv'
  <2>1. /\ log' = [f \in {"decoded", "latched", "accepted", "given"} |-> log'[f]]
        /\ log'.decoded = log.decoded /\ log'.accepted = log.accepted /\ log'.given = log.given
        /\ co'.beat \in Nat /\ co'.pc \in DOMAIN Awaited /\ wires'.tready = wires.tready
        /\ wires' = [f \in {"awvalid", "write", "arvalid", "araddr", "tvalid", "tlast", "tready"} |-> wires'[f]]
    BY <1>1, <1>2, Places DEF BfmInv, CoroutineInv
  <2>. QED BY <1>1, <1>2, <2>1, CoroutineStep DEF BfmInv
<1>5. PointInv'
  BY <1>2, <1>3 DEF BfmInv, PointInv
<1>6. Call' = Call /\ \A call : Earlier(call)' = Earlier(call)
  BY <1>2, <1>3, SameCall
<1>7. DrivenInv'
  BY <1>1, <1>2, <1>6 DEF BfmInv, DrivenInv, Driven, NoStream, WriteSteps, ReadSteps, SendSteps, RecvSteps
<1>8. RecvInv'
  <2>1. log.given = Earlier("axis_recv") + co.beat + 0 /\ Receiving(co.beat)
    BY <1>1 DEF BfmInv, RecvInv, RecvSteps
  <2>2. Receiving(co.beat)'
    BY <1>2, <1>3, <2>1 DEF Receiving
  <2>. QED BY <1>1, <1>2, <1>3, <1>6, <2>1, <2>2 DEF RecvInv, RecvSteps
<1>9. WriteInv' /\ ReadInv' /\ SendInv'
  <2>1. /\ co'.pc \notin WriteSteps /\ co'.pc \notin ReadSteps /\ co'.pc \notin SendSteps
        /\ co.pc \notin WriteSteps \cup {"stopped"} /\ co.pc \notin SendSteps \cup {"stopped"}
        /\ log'.decoded = log.decoded /\ log'.accepted = log.accepted
    BY <1>1, <1>2 DEF WriteSteps, ReadSteps, SendSteps
  <2>. QED BY <1>1, <1>2, <2>1, WriteIdle, ReadIdle, SendIdle DEF BfmInv
<1>. QED BY <1>4, <1>5, <1>7, <1>8, <1>9 DEF BfmInv

(* What the sampled word of the last edge says: which it was, and whether it *)
(* was the last.                                                             *)
LEMMA SampledWord ==
  ASSUME BfmInv, co.pc = "v_edge", Fresh
  PROVE  /\ log.given = Earlier("axis_recv") + co.beat + (IF co.sampled # {} THEN 1 ELSE 0)
         /\ co.sampled # {} => co.sampled \in {{co.beat, -1}, {co.beat, -2}}
         /\ -1 \in co.sampled => out_state = "OUT_IDLE" /\ co.sampled # {}
         /\ co.sampled # {} /\ -1 \notin co.sampled => Receiving(co.beat + 1)
         /\ co.sampled = {} => Receiving(co.beat)
  BY DEF BfmInv, RecvInv, RecvSteps

LEMMA RecvEdgeStep ==
  ASSUME BfmInv, RecvEdge
  PROVE  BfmInv' /\ (Returns => Moved)
<1>1. Step("v_edge") /\ log' = log /\ co.pc = "v_edge" /\ Runs /\ Receive(co.sampled)
  BY DEF RecvEdge, Step
<1>2. point = "rise" /\ fired /\ Fresh
  BY <1>1, WhenServed DEF BfmInv, Fresh
<1>3. /\ Call.call = "axis_recv" /\ co.beat < Call.units /\ Driven(FALSE, FALSE, FALSE)
      /\ wires = [f \in {"awvalid", "write", "arvalid", "araddr", "tvalid", "tlast", "tready"} |-> wires[f]] /\ co.beat \in Nat /\ Call.units \in Nat
  BY <1>1, CallTotal DEF BfmInv, DrivenInv, RecvSteps, CoroutineInv
<1>4. /\ fired' = FALSE /\ ~Fresh' /\ script' = script /\ point' = point
      /\ out_state' = out_state /\ word_index' = word_index /\ state' = state
      /\ admission' = admission /\ start_pulse' = start_pulse
  BY <1>1, StepFrame
<1>. DEFINE beats == IF co.sampled = {} THEN co.beat ELSE co.beat + 1
            ends == co.sampled # {} /\ (-1 \in co.sampled) # (beats = Call.units)
<1>5. beats \in Nat /\ log.given = Earlier("axis_recv") + beats
  <2>1. Earlier("axis_recv") \in Nat
    BY <1>1, CallTotal DEF BfmInv
  <2>. QED BY <1>1, <1>2, <1>3, <2>1, SampledWord
<1>6. CASE Raise("AssertionError") /\ wires' = wires
  <2>1. wires'.tready = wires.tready
    BY <1>6
  <2>. QED BY <1>1, <1>3, <1>6, <2>1, RaiseStep
<1>7. CASE ~ends /\ beats = Call.units /\ co' = Returned /\ wires' = [wires EXCEPT !.tready = FALSE]
  <2>1. /\ wires' = [f \in {"awvalid", "write", "arvalid", "araddr", "tvalid", "tlast", "tready"} |-> wires'[f]]
        /\ wires'.awvalid = FALSE /\ wires'.arvalid = FALSE /\ wires'.tvalid = FALSE /\ wires'.tready = FALSE
    BY <1>3, <1>7 DEF Driven
  <2>2. co.sampled # {}
    BY <1>3, <1>7
  <2>3. -1 \in co.sampled
    BY <1>7, <2>2, Zenon
  <2>4. aw_hold = FALSE /\ out_state = "OUT_IDLE"
    BY <1>1, <1>2, <2>3, SampledWord DEF BfmInv, WriteInv, WriteSteps
  <2>5. log.decoded = Earlier("write") + 0 /\ log.accepted = Earlier("axis_send") + 0 + 0
    BY <1>1 DEF BfmInv, WriteInv, SendInv, WriteSteps, SendSteps
  <2>6. Moved
    BY <1>1, <1>3, <1>5, <1>7, <2>5, CallTotal DEF BfmInv, Moved
  <2>. QED BY <1>1, <1>2, <1>7, <2>1, <2>4, <2>6, ReturnStep
<1>8. CASE /\ ~ends /\ beats # Call.units /\ DriveReady
           /\ co' = [co EXCEPT !.pc = "v_sample", !.beat = beats]
  <2>1. /\ co'.pc = "v_sample" /\ co'.index = co.index /\ co'.beat = beats
        /\ co' = [f \in {"index", "pc", "beat", "sampled", "waited", "raised"} |-> co'[f]]
    BY <1>8 DEF BfmInv, CoroutineInv
  <2>2. beats < Call.units
    BY <1>3, <1>8
  <2>3. /\ wires' = [f \in {"awvalid", "write", "arvalid", "araddr", "tvalid", "tlast", "tready"} |-> wires'[f]]
        /\ wires'.awvalid = FALSE /\ wires'.arvalid = FALSE /\ wires'.tvalid = FALSE
        /\ wires'.tready \in BOOLEAN
    BY <1>3, <1>8, DriveReadyWires DEF Driven, BfmInv
  <2>4. CoroutineInv'
    <3>1. /\ log' = [f \in {"decoded", "latched", "accepted", "given"} |-> log'[f]]
          /\ log'.decoded = log.decoded /\ log'.accepted = log.accepted /\ log'.given = log.given
          /\ co'.pc \in DOMAIN Awaited /\ co'.beat \in Nat
      BY <1>1, <1>5, <2>1, Places DEF BfmInv, CoroutineInv
    <3>. QED BY <1>1, <2>1, <2>3, <3>1, CoroutineStep DEF BfmInv
  <2>5. PointInv'
    BY <1>2, <1>4, <2>1 DEF PointInv
  <2>6. Call' = Call /\ \A call : Earlier(call)' = Earlier(call)
    BY <1>4, <2>1, SameCall
  <2>7. DrivenInv'
    BY <1>3, <2>1, <2>2, <2>3, <2>6 DEF DrivenInv, Driven, WriteSteps, ReadSteps, SendSteps, RecvSteps
  <2>8. RecvInv'
    <3>1. Receiving(beats)
      <4>1. CASE co.sampled = {}
        BY <1>1, <1>2, <4>1, SampledWord
      <4>2. CASE co.sampled # {}
        <5>1. -1 \notin co.sampled
          BY <1>8, <4>2, Zenon
        <5>. QED BY <1>1, <1>2, <4>2, <5>1, SampledWord
      <4>. QED BY <4>1, <4>2
    <3>2. Receiving(co.beat)'
      BY <1>4, <2>1, <3>1 DEF Receiving
    <3>3. log'.given = Earlier("axis_recv") + co'.beat + 0
      <4>1. Earlier("axis_recv") \in Nat
        BY <1>1, CallTotal DEF BfmInv
      <4>. QED BY <1>1, <1>5, <2>1, <4>1
    <3>. QED BY <1>4, <2>1, <2>6, <3>2, <3>3 DEF RecvInv, RecvSteps
  <2>9. WriteInv' /\ ReadInv' /\ SendInv'
    <3>1. /\ co'.pc \notin WriteSteps /\ co'.pc \notin ReadSteps /\ co'.pc \notin SendSteps
          /\ co.pc \notin WriteSteps \cup {"stopped"} /\ co.pc \notin SendSteps \cup {"stopped"}
          /\ log'.decoded = log.decoded /\ log'.accepted = log.accepted
      BY <1>1, <2>1 DEF WriteSteps, ReadSteps, SendSteps
    <3>. QED BY <1>1, <2>1, <3>1, WriteIdle, ReadIdle, SendIdle DEF BfmInv
  <2>. QED BY <2>1, <2>4, <2>5, <2>7, <2>8, <2>9 DEF BfmInv, Returns
<1>. QED BY <1>1, <1>6, <1>7, <1>8, Zenon DEF Receive

-----------------------------------------------------------------------------
(* The steps of the simulator.                                               *)

LEMMA SettleStep ==
  ASSUME BfmInv, Settle
  PROVE  BfmInv'
<1>1. /\ ~Runs /\ fired' = TRUE
      /\ \/ point = "rise" /\ point' = "riseRO"
         \/ point = "riseRO" /\ point' = "fall"
         \/ point = "fall" /\ point' = "fallRO"
  BY DEF Settle, NextPoint
<1>2. script' = script /\ wires' = wires /\ co' = co /\ log' = log
  BY DEF Settle
<1>3. /\ aw_hold' = aw_hold /\ w_hold' = w_hold /\ bvalid' = bvalid
      /\ rvalid' = rvalid /\ rdata' = rdata
      /\ out_state' = out_state /\ word_index' = word_index /\ word_count' = word_count
      /\ state' = state /\ admission' = admission /\ start_pulse' = start_pulse
      /\ packet_start' = packet_start /\ packet_done' = packet_done
  BY DEF Settle, vars, readVars, axiVars, controllerVars, loaderVars, streamerVars
<1>4. ~Fresh' /\ (co.pc \in {"w_edge", "r_edge", "s_edge", "v_edge"} => ~Fresh)
  BY <1>1, WhenServed DEF BfmInv, Fresh
<1>5. OfferedBeat' = OfferedBeat /\ Transfer' = Transfer
  <2>1. OfferedBeat' = OfferedBeat
    BY <1>2, <1>3 DEF OfferedBeat, InputReady, PacketActive
  <2>2. Transfer' = Transfer
    BY <1>2, <1>3 DEF Transfer, WordGiven, OutputValid, OutputLast
  <2>. QED BY <2>1, <2>2
<1>6. Call' = Call /\ \A call : Earlier(call)' = Earlier(call)
  BY <1>2, SameCall
<1>7. CoroutineInv'
  BY <1>1, <1>2 DEF BfmInv, CoroutineInv
<1>8. PointInv'
  BY <1>1, <1>2, WhenServed DEF BfmInv, PointInv
<1>9. DrivenInv'
  BY <1>2, <1>6 DEF BfmInv, DrivenInv, Driven, NoStream
<1>10. WriteInv'
  BY <1>2, <1>3, <1>4, <1>6 DEF BfmInv, WriteInv
<1>11. ReadInv'
  BY <1>2, <1>3, <1>4, <1>6 DEF BfmInv, ReadInv
<1>12. SendInv'
  BY <1>2, <1>4, <1>5, <1>6 DEF BfmInv, SendInv
<1>13. RecvInv'
  <2>1. \A n : Receiving(n)' = Receiving(n)
    BY <1>3 DEF Receiving
  <2>. QED BY <1>2, <1>3, <1>4, <1>5, <1>6, <2>1 DEF BfmInv, RecvInv
<1>. QED BY <1>7, <1>8, <1>9, <1>10, <1>11, <1>12, <1>13 DEF BfmInv

(* At a clock edge the coroutine waits for it, or does not wait any more.     *)
LEMMA EdgeParts ==
  ASSUME BfmInv, IInv, Edge
  PROVE  /\ co.pc \in {"w_edge", "r_edge", "s_edge", "v_edge", "edge", "stopped"}
         /\ ~Fresh /\ Fresh' /\ script' = script /\ co' = co /\ wires' = wires /\ point' = "rise" /\ fired' = TRUE
         /\ AxiClock(Busy) /\ Moves(OutputDone(wires.tready))
         /\ StreamerClock(output_start, EngineAbort, snap.output, wires.tready)
<1>1. /\ ~Runs /\ point = "fallRO" /\ point' = "rise" /\ fired' = TRUE
      /\ script' = script /\ co' = co /\ wires' = wires /\ ClockEdge(OfferedBeat, wires.tready)
  BY DEF Edge
<1>2. co.pc \in {"w_edge", "r_edge", "s_edge", "v_edge", "edge", "stopped"}
  <2>1. co.pc \in {"w_edge", "w_sample", "w_end", "r_edge", "r_sample", "r_end", "s_sample", "s_edge",
                   "v_sample", "v_edge", "edge", "begin", "stopped"}
    BY Places DEF BfmInv, CoroutineInv
  <2>. QED BY <1>1, <2>1, WhenServed DEF BfmInv, PointInv
<1>3. ~Fresh /\ Fresh'
  BY <1>1 DEF Fresh
<1>4. /\ AxiClock(Busy)
      /\ StreamerClock(output_start, EngineAbort, snap.output, wires.tready)
  BY <1>1 DEF ClockEdge, CommandLock
<1>5. Moves(OutputDone(wires.tready))
  <2>. DEFINE out == OutputDone(wires.tready)
  <2>1. out \in BOOLEAN
    BY DEF OutputDone
  <2>2. ControllerClock(start_pulse, abort_pulse, error_clear, cfg, packet_done, PacketError, engine_done, out)
    BY <1>1 DEF ClockEdge
  <2>. HIDE DEF out
  <2>3. Moves(out)
    BY <2>1, <2>2, ControllerMoves DEF IInv
  <2>. QED BY <2>3 DEF out
<1>. QED BY <1>1, <1>2, <1>3, <1>4, <1>5

(* The write channel: what is driven is held, what is held is decoded once,   *)
(* and the response goes away.                                               *)
LEMMA EdgeWrite ==
  ASSUME BfmInv, IInv, Edge
  PROVE  WriteInv'
<1>1. /\ co.pc \in {"w_edge", "r_edge", "s_edge", "v_edge", "edge", "stopped"}
      /\ ~Fresh /\ Fresh' /\ script' = script /\ co' = co /\ wires' = wires /\ AxiClock(Busy)
  BY EdgeParts
<1>2. /\ bvalid => ~bvalid'
      /\ ~bvalid /\ ~aw_hold => aw_hold' = wires.awvalid /\ w_hold' = wires.awvalid
      /\ log'.decoded = IF aw_hold /\ w_hold /\ ~bvalid THEN log.decoded + 1 ELSE log.decoded
  BY DEF Edge, WritesDriven
<1>3. /\ aw_hold = w_hold /\ (bvalid => aw_hold = FALSE)
      /\ aw_hold \in BOOLEAN /\ w_hold \in BOOLEAN /\ bvalid \in BOOLEAN
  BY DEF BfmInv, WriteInv, IInv, TypeOK, AxiTypeOK
<1>4. /\ Call' = Call /\ \A call : Earlier(call)' = Earlier(call)
      /\ co.pc # "stopped" => log.decoded = Earlier("write") /\ Earlier("write") \in Nat
  <2>1. Call' = Call /\ \A call : Earlier(call)' = Earlier(call)
    BY <1>1, SameCall
  <2>2. co.pc # "stopped" => Earlier("write") \in Nat /\ log.decoded = Earlier("write") + 0
    BY <1>1, CallTotal DEF BfmInv, WriteInv
  <2>. QED BY <2>1, <2>2
<1>5. CASE bvalid
  <2>1. AxiRespond
    BY <1>1, <1>5 DEF AxiClock, AxiIdle, AxiAcceptFirst, AxiAcceptSecond, AxiDecode
  <2>2. ~bvalid' /\ aw_hold' = w_hold' /\ aw_hold' = FALSE /\ log'.decoded = log.decoded
    BY <1>2, <1>3, <1>5, <2>1 DEF AxiRespond
  <2>. QED BY <1>1, <1>4, <2>2 DEF WriteInv, WriteSteps
<1>6. CASE ~bvalid /\ aw_hold
  <2>1. AxiDecode(Busy)
    BY <1>1, <1>3, <1>6 DEF AxiClock, AxiIdle, AxiAcceptFirst, AxiAcceptSecond, AxiRespond
  <2>2. bvalid' /\ aw_hold' = w_hold' /\ aw_hold' = FALSE /\ log'.decoded = log.decoded + 1
    BY <1>2, <1>3, <1>6, <2>1 DEF AxiDecode
  <2>3. co.pc \in {"w_edge", "stopped"}
    BY <1>1, <1>6 DEF BfmInv, WriteInv, WriteSteps
  <2>. QED BY <1>1, <1>4, <2>2, <2>3 DEF WriteInv, WriteSteps
<1>7. CASE ~bvalid /\ ~aw_hold
  <2>1. AxiIdle \/ AxiAcceptFirst
    BY <1>1, <1>3, <1>7 DEF AxiClock, AxiAcceptSecond, AxiRespond, AxiDecode
  <2>2. ~bvalid' /\ aw_hold' = wires.awvalid /\ w_hold' = wires.awvalid /\ log'.decoded = log.decoded
    BY <1>2, <1>3, <1>7, <2>1 DEF AxiIdle, AxiAcceptFirst
  <2>3. co.pc \notin WriteSteps \cup {"stopped"} => wires.awvalid = FALSE
    BY <1>1 DEF BfmInv, DrivenInv, Driven, WriteSteps, ReadSteps, SendSteps, RecvSteps
  <2>. QED BY <1>1, <1>4, <2>2, <2>3 DEF WriteInv, WriteSteps
<1>. QED BY <1>3, <1>5, <1>6, <1>7

(* The read channel: RVALID rises with what is latched for the address.       *)
LEMMA EdgeRead ==
  ASSUME BfmInv, IInv, Edge
  PROVE  ReadInv'
<1>1. /\ co.pc \in {"w_edge", "r_edge", "s_edge", "v_edge", "edge", "stopped"}
      /\ script' = script /\ co' = co
  BY EdgeParts
<1>2. PICK mux : /\ ReadClock(wires.arvalid, wires.araddr, mux, TRUE)
                 /\ log'.latched = IF wires.arvalid /\ ARReady
                                   THEN [addr |-> wires.araddr, value |-> mux] ELSE log.latched
  BY DEF Edge
<1>3. ASSUME co.pc = "r_edge", rvalid'
      PROVE  log'.latched = [addr |-> Call.addr, value |-> rdata'.value]
  <2>1. wires.arvalid /\ wires.araddr = Call.addr
    BY <1>3 DEF BfmInv, DrivenInv, Driven, ReadSteps
  <2>2. ~rvalid
    <3>1. SUFFICES ASSUME rvalid PROVE FALSE
      OBVIOUS
    <3>2. rvalid' = (rvalid /\ ~TRUE)
      BY <1>2, <3>1 DEF ReadClock, ARReady
    <3>. QED BY <1>3, <3>2, Zenon
  <2>. QED BY <1>2, <2>1, <2>2 DEF ReadClock, ARReady
<1>4. Call' = Call
  BY <1>1, SameCall
<1>. QED BY <1>1, <1>3, <1>4 DEF ReadInv

(* The input stream: a beat is taken at the edge for which it was sampled.    *)
LEMMA EdgeSend ==
  ASSUME BfmInv, IInv, Edge
  PROVE  SendInv'
<1>1. /\ co.pc \in {"w_edge", "r_edge", "s_edge", "v_edge", "edge", "stopped"}
      /\ ~Fresh /\ Fresh' /\ script' = script /\ co' = co
  BY EdgeParts
<1>2. log'.accepted = IF OfferedBeat = NoBeat THEN log.accepted ELSE log.accepted + 1
  BY DEF Edge
<1>3. \A call : Earlier(call)' = Earlier(call)
  BY <1>1, SameCall
<1>4. CASE co.pc = "s_edge"
  <2>1. log.accepted = Earlier("axis_send") + co.beat + 0 /\ ("accepted" \in co.sampled <=> OfferedBeat # NoBeat)
    BY <1>1, <1>4 DEF BfmInv, SendInv, SendSteps
  <2>2. Earlier("axis_send") \in Nat /\ co.beat \in Nat
    BY <1>4, CallTotal DEF BfmInv, CoroutineInv
  <2>3. log'.accepted = Earlier("axis_send") + co.beat + (IF "accepted" \in co.sampled THEN 1 ELSE 0)
    BY <1>2, <2>1, <2>2
  <2>. QED BY <1>1, <1>3, <1>4, <2>3 DEF SendInv, SendSteps
<1>5. CASE co.pc \notin {"s_edge", "stopped"}
  <2>1. wires.tvalid = FALSE
    BY <1>1, <1>5 DEF BfmInv, DrivenInv, Driven, WriteSteps, ReadSteps, SendSteps, RecvSteps
  <2>2. log'.accepted = log.accepted
    BY <1>2, <2>1 DEF OfferedBeat
  <2>. QED BY <1>1, <1>3, <1>5, <2>2 DEF BfmInv, SendInv, SendSteps
<1>6. CASE co.pc = "stopped"
  BY <1>1, <1>6 DEF SendInv
<1>. QED BY <1>4, <1>5, <1>6

(* The output stream.  When the streamer is stopped in the middle, no other   *)
(* operation starts as long as the coroutine receives.                       *)
LEMMA StreamerMoves ==
  ASSUME IInv, NEW tready, StreamerClock(output_start, EngineAbort, snap.output, tready), aw_hold = FALSE,
         AxiClock(Busy), Moves(OutputDone(tready))
  PROVE  /\ start_pulse' = FALSE
         /\ out_state = "OUT_IDLE" => \/ out_state' = "OUT_IDLE"
                                      \/ out_state' = "OUT_READ" /\ word_index' = 0 /\ state = "SEND_OUTPUT"
         /\ out_state = "OUT_READ" => \/ out_state' = "OUT_IDLE" /\ state' = "IDLE" /\ ~admission'
                                      \/ out_state' = "OUT_SEND" /\ word_index' = word_index
         /\ out_state = "OUT_SEND" =>
              \/ out_state' = "OUT_IDLE" /\ state' = "IDLE" /\ ~admission'
              \/ tready /\ word_index + 1 = word_count /\ out_state' = "OUT_IDLE"
              \/ tready /\ word_index + 1 # word_count /\ out_state' = "OUT_READ" /\ word_index' = word_index + 1
              \/ ~tready /\ out_state' = "OUT_SEND" /\ word_index' = word_index
         /\ state \in {"IDLE", "COMPLETE"} /\ ~admission /\ ~start_pulse =>
              state' \in {"IDLE", "COMPLETE"} /\ ~admission'
<1>1. start_pulse' = FALSE
  BY DEF AxiClock, AxiIdle, AxiAcceptFirst, AxiAcceptSecond, AxiRespond, AxiDecode, NoPulse
<1>2. StreamerInv /\ LoaderInv /\ CommandsInv /\ out_state \in OutStates /\ ValidatorInv
  BY DEF IInv, TypeOK, StreamerTypeOK
<1>3. out_state # "OUT_IDLE" /\ EngineAbort => out_state' = "OUT_IDLE" /\ state' = "IDLE" /\ ~admission'
  <2>1. SUFFICES ASSUME out_state # "OUT_IDLE", EngineAbort
                 PROVE  out_state' = "OUT_IDLE" /\ state' = "IDLE" /\ ~admission'
    OBVIOUS
  <2>2. state = "SEND_OUTPUT" /\ ~cancel_pulse /\ abort_pulse /\ Busy /\ ~admission
    BY <1>2, <2>1 DEF StreamerInv, LoaderInv, EngineAbort, ValidatorInv
  <2>3. Cancels
    BY <2>2, Zenon DEF Moves, Undisturbed, LeaveReset
  <2>4. out_state' = "OUT_IDLE"
    BY <2>1 DEF StreamerClock, StreamerAbort
  <2>. QED BY <2>3, <2>4 DEF Cancels, DropValidation
<1>4. out_state = "OUT_IDLE" => \/ out_state' = "OUT_IDLE"
                                \/ out_state' = "OUT_READ" /\ word_index' = 0 /\ state = "SEND_OUTPUT"
  BY <1>2 DEF StreamerClock, StreamerAbort, StreamerStart, StreamerRead, StreamerSend, StreamerHold,
     OutputValid, streamerVars, StreamerInv
<1>5. out_state = "OUT_READ" /\ ~EngineAbort => out_state' = "OUT_SEND" /\ word_index' = word_index
  BY <1>2 DEF StreamerClock, StreamerStart, StreamerRead, StreamerSend, StreamerHold,
     OutputValid, streamerVars, StreamerInv
<1>6. out_state = "OUT_SEND" /\ ~EngineAbort =>
        \/ tready /\ word_index + 1 = word_count /\ out_state' = "OUT_IDLE"
        \/ tready /\ word_index + 1 # word_count /\ out_state' = "OUT_READ" /\ word_index' = word_index + 1
        \/ ~tready /\ out_state' = "OUT_SEND" /\ word_index' = word_index
  BY <1>2 DEF StreamerClock, StreamerStart, StreamerRead, StreamerSend, StreamerHold,
     OutputValid, streamerVars, StreamerInv
<1>7. state \in {"IDLE", "COMPLETE"} /\ ~admission /\ ~start_pulse =>
        state' \in {"IDLE", "COMPLETE"} /\ ~admission'
  <2>1. SUFFICES ASSUME state \in {"IDLE", "COMPLETE"}, ~admission, ~start_pulse
                 PROVE  state' \in {"IDLE", "COMPLETE"} /\ ~admission'
    OBVIOUS
  <2>2. Cancels \/ Rest
    BY <2>1 DEF Moves, LeaveReset, FinishPacket, FinishCompute, FinishOutput, Waits, Await, LoadStates, BusyStates
  <2>3. CASE Cancels
    BY <2>3 DEF Cancels, DropValidation
  <2>4. CASE Rest
    BY <2>1, <2>4 DEF Rest
  <2>. QED BY <2>2, <2>3, <2>4
<1>. QED BY <1>1, <1>3, <1>4, <1>5, <1>6, <1>7

LEMMA EdgeRecv ==
  ASSUME BfmInv, IInv, Edge
  PROVE  RecvInv'
<1>1. /\ co.pc \in {"w_edge", "r_edge", "s_edge", "v_edge", "edge", "stopped"}
      /\ ~Fresh /\ Fresh' /\ script' = script /\ co' = co
  BY EdgeParts
<1>2. /\ log'.given = IF WordGiven THEN log.given + 1 ELSE log.given
      /\ wires.tready \in BOOLEAN /\ co.beat \in Nat
      /\ word_index \in Nat /\ word_count \in Nat /\ out_state \in OutStates
  BY DEF Edge, BfmInv, CoroutineInv, IInv, TypeOK, StreamerTypeOK
<1>3. \A call : Earlier(call)' = Earlier(call)
  BY <1>1, SameCall
<1>4. CASE co.pc \notin {"v_edge", "stopped"}
  <2>1. wires.tready = FALSE /\ aw_hold \in BOOLEAN
    BY <1>1, <1>4 DEF BfmInv, DrivenInv, NoStream, WriteSteps, ReadSteps, SendSteps, RecvSteps, IInv, TypeOK, AxiTypeOK
  <2>2. log'.given = log.given
    BY <1>2, <2>1 DEF WordGiven
  <2>3. out_state # "OUT_IDLE" => word_index = 0
    BY <1>1, <1>4 DEF BfmInv, RecvInv, RecvSteps
  <2>4. out_state' # "OUT_IDLE" => word_index' = 0
    <3>1. StreamerClock(output_start, EngineAbort, snap.output, wires.tready)
      BY EdgeParts
    <3>. QED BY <2>1, <2>3, <3>1 DEF StreamerClock, StreamerAbort, StreamerStart, StreamerRead, StreamerSend,
         StreamerHold, OutputValid, streamerVars
  <2>. QED BY <1>1, <1>3, <1>4, <2>2, <2>4 DEF BfmInv, RecvInv, RecvSteps
<1>5. CASE co.pc = "v_edge"
  <2>1. /\ log.given = Earlier("axis_recv") + co.beat + 0 /\ Receiving(co.beat)
        /\ co.sampled = Transfer /\ aw_hold = FALSE
    BY <1>1, <1>5 DEF BfmInv, RecvInv, RecvSteps, WriteInv, WriteSteps
  <2>2. Earlier("axis_recv") \in Nat
    BY <1>5, CallTotal DEF BfmInv
  <2>3. /\ StreamerClock(output_start, EngineAbort, snap.output, wires.tready)
        /\ AxiClock(Busy) /\ Moves(OutputDone(wires.tready))
    BY EdgeParts
  <2>4. /\ start_pulse' = FALSE
        /\ out_state = "OUT_IDLE" => \/ out_state' = "OUT_IDLE"
                                     \/ out_state' = "OUT_READ" /\ word_index' = 0 /\ state = "SEND_OUTPUT"
        /\ out_state = "OUT_READ" => \/ out_state' = "OUT_IDLE" /\ state' = "IDLE" /\ ~admission'
                                     \/ out_state' = "OUT_SEND" /\ word_index' = word_index
        /\ out_state = "OUT_SEND" =>
             \/ out_state' = "OUT_IDLE" /\ state' = "IDLE" /\ ~admission'
             \/ wires.tready /\ word_index + 1 = word_count /\ out_state' = "OUT_IDLE"
             \/ wires.tready /\ word_index + 1 # word_count /\ out_state' = "OUT_READ" /\ word_index' = word_index + 1
             \/ ~wires.tready /\ out_state' = "OUT_SEND" /\ word_index' = word_index
        /\ state \in {"IDLE", "COMPLETE"} /\ ~admission /\ ~start_pulse =>
             state' \in {"IDLE", "COMPLETE"} /\ ~admission'
    BY <2>1, <2>3, StreamerMoves
  <2>5. CASE WordGiven
    <3>1. out_state = "OUT_SEND" /\ wires.tready /\ word_index = co.beat
      BY <2>1, <2>5 DEF WordGiven, OutputValid, Receiving
    <3>2. co.sampled = {co.beat, IF word_index + 1 = word_count THEN -1 ELSE -2}
      BY <1>2, <2>1, <2>5, <3>1 DEF Transfer, OutputLast
    <3>3. /\ co.sampled # {} /\ co.sampled \in {{co.beat, -1}, {co.beat, -2}}
          /\ -1 \in co.sampled <=> word_index + 1 = word_count
      BY <1>2, <3>2
    <3>4. -1 \in co.sampled => out_state' = "OUT_IDLE"
      BY <2>4, <3>1, <3>3
    <3>5. -1 \notin co.sampled => Receiving(co.beat + 1)'
      <4>1. SUFFICES ASSUME -1 \notin co.sampled PROVE Receiving(co.beat + 1)'
        OBVIOUS
      <4>2. CASE out_state' = "OUT_IDLE" /\ state' = "IDLE" /\ ~admission'
        BY <2>4, <4>2 DEF Receiving
      <4>3. CASE out_state' = "OUT_READ" /\ word_index' = word_index + 1
        BY <1>1, <3>1, <4>3 DEF Receiving
      <4>. QED BY <2>4, <3>1, <3>3, <4>1, <4>2, <4>3
    <3>6. log'.given = Earlier("axis_recv") + co.beat + 1
      BY <1>2, <2>1, <2>2, <2>5
    <3>. QED BY <1>1, <1>3, <1>5, <3>3, <3>4, <3>5, <3>6 DEF RecvInv, RecvSteps
  <2>6. CASE ~WordGiven
    <3>1. co.sampled = {} /\ log'.given = Earlier("axis_recv") + co.beat + 0
      BY <1>2, <2>1, <2>6 DEF Transfer
    <3>2. Receiving(co.beat)'
      <4>1. CASE out_state = "OUT_IDLE"
        <5>1. CASE out_state' = "OUT_IDLE"
          BY <1>1, <2>1, <2>4, <4>1, <5>1 DEF Receiving
        <5>2. CASE out_state' = "OUT_READ" /\ word_index' = 0 /\ state = "SEND_OUTPUT"
          <6>1. co.beat = 0
            BY <1>2, <2>1, <4>1, <5>2 DEF Receiving
          <6>. QED BY <1>1, <5>2, <6>1 DEF Receiving
        <5>. QED BY <2>4, <4>1, <5>1, <5>2
      <4>2. CASE out_state # "OUT_IDLE"
        <5>1. word_index = co.beat /\ out_state \in {"OUT_READ", "OUT_SEND"}
          BY <1>2, <2>1, <4>2 DEF Receiving, OutStates
        <5>2. out_state = "OUT_SEND" => ~wires.tready
          BY <2>6 DEF WordGiven, OutputValid
        <5>3. CASE out_state' = "OUT_IDLE" /\ state' = "IDLE" /\ ~admission'
          BY <2>4, <5>3 DEF Receiving
        <5>4. CASE out_state' = "OUT_SEND" /\ word_index' = word_index
          BY <1>1, <5>1, <5>4 DEF Receiving
        <5>. QED BY <2>4, <5>1, <5>2, <5>3, <5>4
      <4>. QED BY <4>1, <4>2
    <3>. QED BY <1>1, <1>3, <1>5, <3>1, <3>2 DEF RecvInv, RecvSteps
  <2>. QED BY <2>5, <2>6
<1>6. CASE co.pc = "stopped"
  BY <1>1, <1>6 DEF RecvInv
<1>. QED BY <1>4, <1>5, <1>6

LEMMA EdgeStep ==
  ASSUME BfmInv, IInv, Edge
  PROVE  BfmInv'
<1>1. /\ co.pc \in {"w_edge", "r_edge", "s_edge", "v_edge", "edge", "stopped"}
      /\ script' = script /\ co' = co /\ wires' = wires /\ point' = "rise" /\ fired' = TRUE
  BY EdgeParts
<1>2. CoroutineInv'
  <2>1. log' = [f \in {"decoded", "latched", "accepted", "given"} |-> log'[f]]
    BY DEF Edge
  <2>2. log.decoded \in Nat /\ log.accepted \in Nat /\ log.given \in Nat
    BY DEF BfmInv, CoroutineInv
  <2>3. log'.decoded \in Nat /\ log'.accepted \in Nat /\ log'.given \in Nat
    BY <2>2 DEF Edge
  <2>. QED BY <1>1, <2>1, <2>3 DEF BfmInv, CoroutineInv
<1>3. PointInv'
  BY <1>1 DEF PointInv
<1>4. DrivenInv'
  <2>1. Call' = Call
    BY <1>1, SameCall
  <2>. QED BY <1>1, <2>1 DEF BfmInv, DrivenInv, Driven, NoStream
<1>. QED BY <1>2, <1>3, <1>4, EdgeWrite, EdgeRead, EdgeSend, EdgeRecv DEF BfmInv

-----------------------------------------------------------------------------
(* The invariant of the tests, of the design and the bus functions together.  *)

LEMMA BfmInitInv == BfmInit => BfmInv /\ IInv
<1>. SUFFICES ASSUME BfmInit PROVE BfmInv /\ IInv
  OBVIOUS
<1>1. IInv
  BY InitIInv DEF BfmInit
<1>2. /\ script \in Scripts /\ point = "rise" /\ fired = FALSE
      /\ wires = [awvalid |-> FALSE, write |-> NoWrite, arvalid |-> FALSE, araddr |-> "none",
                  tvalid |-> FALSE, tlast |-> FALSE, tready |-> FALSE]
      /\ co = [index |-> 1, pc |-> "begin", beat |-> 0, sampled |-> {}, waited |-> 0, raised |-> "none"]
      /\ log = [decoded |-> 0, latched |-> NoData, accepted |-> 0, given |-> 0]
      /\ aw_hold = FALSE /\ w_hold = FALSE /\ bvalid = FALSE /\ out_state = "OUT_IDLE"
  BY DEF BfmInit, Init, AxiInit, StreamerInit
<1>3. /\ co.index = 1 /\ co.pc = "begin" /\ co.beat = 0
      /\ log.decoded = 0 /\ log.accepted = 0 /\ log.given = 0
      /\ wires.awvalid = FALSE /\ wires.arvalid = FALSE /\ wires.tvalid = FALSE /\ wires.tready = FALSE
  BY <1>2
<1>4. CoroutineInv
  <2>1. /\ co = [f \in {"index", "pc", "beat", "sampled", "waited", "raised"} |-> co[f]]
        /\ wires = [f \in {"awvalid", "write", "arvalid", "araddr", "tvalid", "tlast", "tready"} |-> wires[f]]
        /\ log = [f \in {"decoded", "latched", "accepted", "given"} |-> log[f]]
    BY <1>2
  <2>2. 1 \in 1 .. Len(script)
    BY <1>2, ScriptCalls
  <2>3. fired \in BOOLEAN /\ wires.tready \in BOOLEAN
    BY <1>2, <1>3
  <2>. QED BY <1>2, <1>3, <2>1, <2>2, <2>3, Places DEF CoroutineInv
<1>5. \A call : Earlier(call) = 0
  BY <1>3, TotalStarts DEF Earlier
<1>6. PointInv /\ DrivenInv /\ ReadInv
  BY <1>2, <1>3 DEF PointInv, DrivenInv, Driven, NoStream, ReadInv, WriteSteps, ReadSteps, SendSteps, RecvSteps
<1>7. WriteInv
  <2>1. aw_hold = w_hold
    BY <1>2, Zenon
  <2>2. log.decoded = Earlier("write") + 0
    BY <1>3, <1>5
  <2>. QED BY <1>2, <1>3, <2>1, <2>2 DEF WriteInv, WriteSteps
<1>8. SendInv
  BY <1>2, <1>3, <1>5 DEF SendInv, SendSteps
<1>9. RecvInv
  BY <1>2, <1>3, <1>5 DEF RecvInv, RecvSteps
<1>. QED BY <1>1, <1>4, <1>6, <1>7, <1>8, <1>9 DEF BfmInv

(* A step of the coroutine keeps the invariant, and returns when all is moved. *)
LEMMA CoroutineMoves ==
  ASSUME BfmInv, Coroutine
  PROVE  BfmInv' /\ (Returns => Moved)
<1>1. co = [f \in {"index", "pc", "beat", "sampled", "waited", "raised"} |-> co[f]]
  BY DEF BfmInv, CoroutineInv
<1>2. CASE BeginWrite
  BY <1>1, <1>2, BeginWriteStep DEF BeginWrite, Wait, Returns
<1>3. CASE WriteEdge
  BY <1>1, <1>3, WriteEdgeStep DEF WriteEdge, Wait, Returns
<1>4. CASE WriteSample
  BY <1>1, <1>4, WriteSampleStep DEF WriteSample, Wait, PollAgain, Raise, Returns
<1>5. CASE EndWrite
  BY <1>5, EndWriteStep
<1>6. CASE BeginRead
  BY <1>1, <1>6, BeginReadStep DEF BeginRead, Wait, Returns
<1>7. CASE ReadEdge
  BY <1>1, <1>7, ReadEdgeStep DEF ReadEdge, Wait, Returns
<1>8. CASE ReadSample
  BY <1>1, <1>8, ReadSampleStep DEF ReadSample, PollAgain, Raise, Returns
<1>9. CASE EndRead
  BY <1>9, EndReadStep
<1>10. CASE EdgeSeen
  BY <1>10, EdgeSeenStep
<1>17. CASE BeginEdge
  BY <1>1, <1>17, BeginEdgeStep DEF BeginEdge, Wait, Returns
<1>11. CASE BeginSend
  BY <1>1, <1>11, BeginSendStep DEF BeginSend, Wait, Returns
<1>12. CASE SampleReady
  BY <1>1, <1>12, SampleReadyStep DEF SampleReady, Returns
<1>13. CASE SendEdge
  BY <1>13, SendEdgeStep
<1>14. CASE BeginRecv
  BY <1>1, <1>14, BeginRecvStep DEF BeginRecv, Wait, Returns
<1>15. CASE SampleValid
  BY <1>1, <1>15, SampleValidStep DEF SampleValid, Returns
<1>16. CASE RecvEdge
  BY <1>16, RecvEdgeStep
<1>. QED BY <1>2, <1>3, <1>4, <1>5, <1>6, <1>7, <1>8, <1>9, <1>10, <1>11, <1>12, <1>13, <1>14, <1>15, <1>16,
         <1>17 DEF Coroutine

(* To the design a step is a clock edge or nothing.                          *)
LEMMA BfmDesign ==
  ASSUME CoroutineInv, [BfmNext]_bfmVars
  PROVE  [Next]_vars
<1>1. CASE Edge
  BY <1>1, EdgeIsNext
<1>2. CASE Settle
  BY <1>2 DEF Settle
<1>3. CASE Coroutine
  BY <1>3 DEF Coroutine, BeginWrite, WriteEdge, WriteSample, EndWrite, BeginRead, ReadEdge, ReadSample, EndRead,
     BeginEdge, EdgeSeen, BeginSend, SampleReady, SendEdge, BeginRecv, SampleValid, RecvEdge, Step
<1>4. CASE UNCHANGED bfmVars
  BY <1>4 DEF bfmVars
<1>. QED BY <1>1, <1>2, <1>3, <1>4 DEF BfmNext

LEMMA BfmNextInv ==
  ASSUME BfmInv, IInv, [BfmNext]_bfmVars
  PROVE  BfmInv' /\ IInv'
<1>1. IInv'
  BY BfmDesign, NextIInv DEF BfmInv
<1>2. CASE UNCHANGED bfmVars
  <2>1. /\ script' = script /\ wires' = wires /\ co' = co /\ log' = log /\ point' = point /\ fired' = fired
        /\ aw_hold' = aw_hold /\ w_hold' = w_hold /\ bvalid' = bvalid
        /\ rvalid' = rvalid /\ rdata' = rdata
        /\ out_state' = out_state /\ word_index' = word_index /\ word_count' = word_count
        /\ state' = state /\ admission' = admission /\ start_pulse' = start_pulse
        /\ packet_start' = packet_start /\ packet_done' = packet_done
    BY <1>2 DEF bfmVars, vars, readVars, axiVars, controllerVars, loaderVars, streamerVars
  <2>2. OfferedBeat' = OfferedBeat
    BY <2>1 DEF OfferedBeat, InputReady, PacketActive
  <2>3. Transfer' = Transfer
    BY <2>1 DEF Transfer, WordGiven, OutputValid, OutputLast
  <2>4. Call' = Call /\ \A call : Earlier(call)' = Earlier(call)
    BY <2>1, SameCall
  <2>5. \A n : Receiving(n)' = Receiving(n)
    BY <2>1 DEF Receiving
  <2>6. CoroutineInv' /\ PointInv' /\ DrivenInv'
    BY <2>1, <2>4 DEF BfmInv, CoroutineInv, PointInv, DrivenInv, Driven, NoStream
  <2>7. WriteInv' /\ ReadInv'
    BY <2>1, <2>4 DEF BfmInv, WriteInv, ReadInv, Fresh
  <2>8. SendInv'
    BY <2>1, <2>2, <2>4 DEF BfmInv, SendInv, Fresh
  <2>9. RecvInv'
    BY <2>1, <2>3, <2>4, <2>5 DEF BfmInv, RecvInv, Fresh
  <2>. QED BY <1>1, <2>6, <2>7, <2>8, <2>9 DEF BfmInv
<1>3. CASE BfmNext
  <2>1. CASE Settle
    BY <1>1, <2>1, SettleStep
  <2>2. CASE Edge
    BY <1>1, <2>2, EdgeStep
  <2>3. CASE Coroutine
    BY <1>1, <2>3, CoroutineMoves
  <2>. QED BY <1>1, <1>3, <2>1, <2>2, <2>3 DEF BfmNext
<1>. QED BY <1>1, <1>2, <1>3

(* Where each bus function waits and what it has moved, in every test.        *)
THEOREM BfmInvariance == BfmSpec => [](BfmInv /\ IInv)
<1>1. BfmInv /\ IInv /\ [BfmNext]_bfmVars => (BfmInv /\ IInv)'
  BY BfmNextInv
<1>. QED BY <1>1, BfmInitInv, PTL DEF BfmSpec

(* The simulated design is the clocked design: what is proved of the          *)
(* accelerator holds in every test.                                          *)
THEOREM SimulatesDesign == BfmSpec => Spec
<1>1. BfmInit => Init
  BY DEF BfmInit
<1>2. BfmInv /\ IInv /\ [BfmNext]_bfmVars => [Next]_vars
  BY BfmDesign DEF BfmInv
<1>. QED BY <1>1, <1>2, BfmInvariance, PTL DEF BfmSpec, Spec

-----------------------------------------------------------------------------
(* What a test may take for granted.                                         *)

LEMMA ReturnsMoved ==
  ASSUME BfmInv, [BfmNext]_bfmVars, Returns
  PROVE  Moved
<1>1. CASE Settle \/ Edge \/ UNCHANGED bfmVars
  BY <1>1 DEF Settle, Edge, bfmVars, Returns
<1>2. CASE Coroutine
  BY <1>2, CoroutineMoves
<1>. QED BY <1>1, <1>2 DEF BfmNext

(* Every write() is decoded once: none is lost, and none is given twice while *)
(* AWVALID and WVALID wait for the response.                                  *)
THEOREM WriteDecodedOnceHolds == BfmSpec => WriteDecodedOnce
<1>1. BfmInv /\ IInv /\ [BfmNext]_bfmVars =>
        [Returns => log.decoded = Total(script, "write", co.index)]_bfmVars
  BY ReturnsMoved DEF Moved
<1>. QED BY <1>1, BfmInvariance, PTL DEF BfmSpec, WriteDecodedOnce

(* A read returns what was latched for it, never the answer of the read        *)
(* before.                                                                   *)
THEOREM ReadIsCurrentHolds == BfmSpec => ReadIsCurrent
<1>1. BfmInv /\ IInv /\ [BfmNext]_bfmVars =>
        [co.pc = "r_end" /\ co'.pc # "r_end" =>
           log.latched = [addr |-> Call.addr, value |-> co.sampled]]_bfmVars
  BY DEF BfmInv, ReadInv
<1>. QED BY <1>1, BfmInvariance, PTL DEF BfmSpec, ReadIsCurrent

(* Every beat is taken once and every word stored once, in its order, with    *)
(* any stalls of either side.                                                *)
THEOREM TransfersOnceHolds == BfmSpec => TransfersOnce
<1>1. ASSUME BfmInv, co.pc = "v_edge", Runs, co.sampled # {}
      PROVE  co.beat \in co.sampled
  <2>1. Fresh
    BY <1>1, WhenServed DEF BfmInv, Fresh
  <2>. QED BY <1>1, <2>1, SampledWord
<1>2. BfmInv /\ IInv /\ [BfmNext]_bfmVars =>
        [/\ Returns => /\ log.accepted = Total(script, "axis_send", co.index)
                       /\ log.given = Total(script, "axis_recv", co.index)
         /\ co.pc = "v_edge" /\ Runs /\ co.sampled # {} => co.beat \in co.sampled]_bfmVars
  BY <1>1, ReturnsMoved DEF Moved
<1>. QED BY <1>2, BfmInvariance, PTL DEF BfmSpec, TransfersOnce
=============================================================================

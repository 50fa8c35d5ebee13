------------------------- MODULE FirmwareDriverProofs -------------------------
(***************************************************************************)
(* The driver's invariant is inductive, and what follows from it.           *)
(***************************************************************************)
EXTENDS FirmwareDriver, SequenceTheorems, TLAPS

USE DEF OP_CONV, OP_RESIDUAL_ADD, OP_GLOBAL_AVG_POOL, OP_OTHER, OP_FC, OP_POOL

(* Where the program is determines pc, but for the clock.                   *)
LEMMA Places ==
  /\ \A s : At(s) => Place = s
  /\ \A s, t : At(s) /\ At(t) => s = t
  /\ \A w, s : pc = << w, "clock" >> => Place = w /\ ~At(s)
  /\ \A s, t : Go(s) => Place' = s /\ (At(t)' <=> s = t)
  /\ \A s, t : LookAtClock(s) => Place' = s /\ ~At(t)'
  /\ \A s : pc' = pc => Place' = Place /\ (At(s)' <=> At(s))
<1>1. \A s : At(s) => Place = s
  BY DEF At, Place
<1>2. \A w, s : pc = << w, "clock" >> => Place = w /\ ~At(s)
  BY DEF At, Place
<1>3. \A s, t : Go(s) => Place' = s /\ (At(t)' <=> s = t)
  BY DEF At, Place, Go
<1>4. \A s, t : LookAtClock(s) => Place' = s /\ ~At(t)'
  BY DEF At, Place, LookAtClock
<1>5. \A s : pc' = pc => Place' = Place /\ (At(s)' <=> At(s))
  BY DEF At, Place
<1> QED BY <1>1, <1>2, <1>3, <1>4, <1>5

(* The type of pc.                                                          *)
PcTypeOK == pc \in {<< s >> : s \in Steps} \cup {<< w, "clock" >> : w \in Waits}
LEMMA PcTypes ==
  /\ \A s \in Steps : Go(s) => PcTypeOK'
  /\ \A w \in Waits : LookAtClock(w) => PcTypeOK'
  /\ PcTypeOK => Place \in Steps
<1>1. \A s \in Steps : Go(s) => PcTypeOK'
  BY DEF Go, PcTypeOK
<1>2. \A s \in Waits : LookAtClock(s) => PcTypeOK'
  BY DEF LookAtClock, PcTypeOK
<1>3. PcTypeOK => Place \in Steps
  BY DEF PcTypeOK, Place, Steps, Waits, BeforeArm, AfterArm
<1> QED BY <1>1, <1>2, <1>3


USE DEF deviceVars, operationVars, dmaVars, memoryVars, loopVars, localVars, diagVars, historyVars,
        BeforeArm, AfterArm, Good, DeviceBusy, ErrorFlag, BusFree, DmaQuiet, Accepted, CurrentLayer

-----------------------------------------------------------------------------
(* The steps of the firmware up to the START.                               *)

LEMMA CheckBusyStep ==
  ASSUME DriverInv, CheckBusy, UNCHANGED << loopVars, recovered >>
  PROVE  DriverInv'
<1>1. /\ Place = "check" /\ BusFree
      /\ \/ DeviceBusy /\ Place' = "returned" /\ rc' = "ACCEL_INVALID_ARG"
         \/ ~DeviceBusy /\ Place' = "clear" /\ rc' = rc
      /\ UNCHANGED << deviceVars, dmaVars, memoryVars, localVars, s2mm_active, historyVars >>
  BY Places DEF CheckBusy, Return
<1> USE <1>1 DEF DriverInv
<1>2. DriverTypeOK'
  <2>1. PcTypeOK' /\ {start_written', busy_ever'} \subseteq BOOLEAN
    BY PcTypes DEF Steps, CheckBusy, Return
  <2> QED BY <2>1 DEF DriverTypeOK, PcTypeOK, Outcomes
<1>3. CommandInv' /\ DeviceInv' /\ IdleInv'
  BY DEF CommandInv, DeviceInv, IdleInv
<1>4. DmaInv' /\ OutputInv' /\ MemoryInv'
  BY DEF DmaInv, OutputInv, MemoryInv
<1>5. LinkInv' /\ PlanInv' /\ CauseInv'
  BY DEF LinkInv, PlanInv, Due, Taken, CauseInv, IdleInv
<1> QED BY <1>2, <1>3, <1>4, <1>5

LEMMA ClearResultsStep ==
  ASSUME DriverInv, ClearResults, UNCHANGED << loopVars, recovered >>
  PROVE  DriverInv'
<1>1. /\ Place = "clear" /\ BusFree
      /\ Place' = "configure" /\ At("configure")' /\ command' = "CLEAR"
      /\ UNCHANGED << regs, operationVars, locked, dmaVars, memoryVars, localVars, rc,
                      diagVars, s2mm_active, historyVars >>
  BY Places DEF ClearResults, Post
<1> USE <1>1 DEF DriverInv
<1>2. DriverTypeOK'
  <2>1. PcTypeOK'
    BY PcTypes DEF Steps, ClearResults
  <2> QED BY <2>1 DEF DriverTypeOK, PcTypeOK
<1>3. CommandInv' /\ DeviceInv' /\ IdleInv'
  BY DEF CommandInv, DeviceInv, IdleInv
<1>4. DmaInv' /\ OutputInv' /\ MemoryInv'
  BY DEF DmaInv, OutputInv, MemoryInv
<1>5. LinkInv' /\ PlanInv' /\ CauseInv'
  BY DEF LinkInv, PlanInv, Due, Taken, CauseInv
<1> QED BY <1>2, <1>3, <1>4, <1>5

(* A layer is in the network, and a buffer; it reads buffers before its own. *)
LEMMA LayerFacts ==
  ASSUME DriverTypeOK
  PROVE  /\ CurrentLayer \in LayerRecords
         /\ layer \in Nat /\ layer >= 1 /\ layer \in Buffers
         /\ \A b \in 1..(layer - 1) : b \in Buffers /\ b # layer
         /\ 0 \in Buffers
         /\ CurrentLayer.input \in Buffers /\ CurrentLayer.input \in 0..(layer - 1)
         /\ CurrentLayer.skip \in Buffers /\ CurrentLayer.skip \in 0..(layer - 1)
         /\ CurrentLayer.op # OP_POOL => RegistersFor(CurrentLayer) \in Configs
<1>1. /\ network \in Networks /\ layer \in 1..Len(network)
      /\ network \in Seq(LayerRecords)
  BY NetworksAssumption DEF DriverTypeOK
<1>2. CurrentLayer \in LayerRecords /\ layer \in DOMAIN network
  BY <1>1
<1>3. CurrentLayer.input \in Buffers /\ CurrentLayer.skip \in Buffers
  BY <1>2 DEF LayerRecords
<1>4. /\ CurrentLayer.input < layer /\ CurrentLayer.skip < layer
      /\ CurrentLayer.op # OP_POOL => RegistersFor(CurrentLayer) \in Configs
  BY <1>1, <1>2, NetworksAssumption
<1>5. \A b \in 1..layer : b \in Buffers
  BY <1>1, NetworksAssumption
<1>6. CurrentLayer.input \in Nat /\ CurrentLayer.skip \in Nat /\ 0 \in Buffers
  BY <1>3, BuffersAssumption
<1> HIDE DEF CurrentLayer
<1> QED BY <1>1, <1>2, <1>3, <1>4, <1>5, <1>6

LEMMA ConfigureStep ==
  ASSUME DriverInv, Configure, UNCHANGED << loopVars, recovered >>
  PROVE  DriverInv'
<1>1. /\ Place = "configure" /\ BusFree /\ ~DeviceBusy
      /\ UNCHANGED << command, operationVars, locked, dmaVars, memoryVars, localVars, diagVars,
                      s2mm_active, owner, words_right >>
      /\ \/ /\ Place' = "returned" /\ rc' = "ACCEL_INVALID_ARG"
            /\ causes' = causes \cup {"invalid"} /\ UNCHANGED regs
         \/ /\ Place' = "prepare" /\ CurrentLayer.op # OP_POOL
            /\ regs' = RegistersFor(CurrentLayer)
            /\ UNCHANGED << rc, causes >>
  BY Places DEF Configure, Return, WriteConfig, DriverInv, IdleInv
<1> USE <1>1 DEF DriverInv
<1>2. DriverTypeOK'
  <2>1. PcTypeOK'
    BY PcTypes DEF Steps, Configure, Return
  <2>2. regs' \in Configs
    BY LayerFacts DEF DriverTypeOK
  <2> QED BY <2>1, <2>2 DEF DriverTypeOK, PcTypeOK, Outcomes
<1>3. CommandInv' /\ DeviceInv' /\ IdleInv'
  BY DEF CommandInv, DeviceInv, IdleInv
<1>4. DmaInv' /\ OutputInv' /\ MemoryInv'
  BY DEF DmaInv, OutputInv, MemoryInv
<1>5. LinkInv' /\ PlanInv' /\ CauseInv'
  BY DEF LinkInv, PlanInv, Due, Taken, CauseInv
<1> QED BY <1>2, <1>3, <1>4, <1>5

LEMMA PrepareS2mmStep ==
  ASSUME DriverInv, PrepareS2mm, UNCHANGED << loopVars, recovered >>
  PROVE  DriverInv'
<1>1. /\ Place = "prepare" /\ BusFree
      /\ UNCHANGED << deviceVars, localVars, diagVars, owner, words_right, mm2s, dma_error,
                      resetting, ddr >>
      /\ \/ /\ Place' = "returned" /\ rc' = "ACCEL_FATAL_ERROR"
            /\ causes' = causes \cup {"invalid"}
            /\ UNCHANGED << s2mm, cache, s2mm_active >>
         \/ /\ cache' = [cache EXCEPT ![layer] = "none"]
            /\ causes' = causes
            /\ \/ /\ ChannelBusy("S2MM") /\ Place' = "returned" /\ rc' = "ACCEL_FATAL_ERROR"
                  /\ UNCHANGED << s2mm, s2mm_active >>
               \/ /\ ~ChannelBusy("S2MM") /\ Place' = "start" /\ rc' = rc
                  /\ s2mm_active' = TRUE
                  /\ s2mm' = [state |-> "armed", buffer |-> layer, right |-> FALSE]
  BY Places DEF PrepareS2mm, Return, InvalidateRange, SubmitS2MM
<1> USE <1>1 DEF DriverInv, ChannelBusy
<1>2. DriverTypeOK'
  <2>1. PcTypeOK'
    BY PcTypes DEF Steps, PrepareS2mm, Return
  <2>2. s2mm' \in [state : {"idle", "armed", "draining"}, buffer : Buffers, right : BOOLEAN]
    <3>1. layer \in Buffers
      BY LayerFacts
    <3>2. CASE s2mm' = s2mm
      BY <3>2 DEF DriverTypeOK
    <3>3. CASE s2mm' = [state |-> "armed", buffer |-> layer, right |-> FALSE]
      BY <3>1, <3>3
    <3> QED BY <3>2, <3>3
  <2>3. cache' \in [Buffers -> {"none", "clean", "stale", "dirty"}]
    BY DEF DriverTypeOK
  <2> QED BY <2>1, <2>2, <2>3 DEF DriverTypeOK, PcTypeOK, Outcomes
<1>3. CommandInv' /\ DeviceInv' /\ IdleInv'
  BY DEF CommandInv, DeviceInv, IdleInv
<1>4. DmaInv' /\ OutputInv'
  BY DEF DmaInv, OutputInv, CauseInv
<1>5. MemoryInv'
  <2>1. cache' = cache \/ cache' = [cache EXCEPT ![layer] = "none"]
    OBVIOUS
  <2> QED BY <2>1, LayerFacts DEF DriverTypeOK, MemoryInv
<1>6. LinkInv' /\ PlanInv'
  BY DEF LinkInv, PlanInv, Due, Taken
<1>7. CauseInv'
  BY DEF CauseInv, DmaInv
<1> QED BY <1>2, <1>3, <1>4, <1>5, <1>6, <1>7

LEMMA StartOperationStep ==
  ASSUME DriverInv, StartOperation, UNCHANGED << loopVars, recovered >>
  PROVE  DriverInv'
<1>1. /\ Place = "start" /\ BusFree
      /\ Place' = "admit" /\ At("admit")' /\ command' = "START"
      /\ start_written' = TRUE /\ owner' = << run, layer >> /\ words_right' = TRUE
      /\ UNCHANGED << regs, operationVars, locked, dmaVars, memoryVars, localVars, rc,
                      busy_ever, s2mm_active, causes >>
  BY Places DEF StartOperation, Post
<1> USE <1>1 DEF DriverInv
<1>2. DriverTypeOK'
  <2>1. PcTypeOK'
    BY PcTypes DEF Steps, StartOperation
  <2> QED BY <2>1 DEF DriverTypeOK, PcTypeOK
<1>3. CommandInv' /\ DeviceInv' /\ IdleInv'
  BY DEF CommandInv, DeviceInv, IdleInv
<1>4. DmaInv' /\ OutputInv' /\ MemoryInv'
  BY DEF DmaInv, OutputInv, MemoryInv
<1>5. LinkInv' /\ PlanInv' /\ CauseInv'
  BY DEF LinkInv, PlanInv, Due, Taken, CauseInv, IdleInv
<1> QED BY <1>2, <1>3, <1>4, <1>5

LEMMA PollAdmitStep ==
  ASSUME DriverInv, PollAdmit, UNCHANGED << loopVars, recovered >>
  PROVE  DriverInv'
<1>1. /\ Place = "admit" /\ BusFree
      /\ UNCHANGED << deviceVars, dmaVars, memoryVars, result_done, start_written, s2mm_active,
                      historyVars >>
      /\ \/ DeviceBusy /\ Place' = "send" /\ packet' = "WEIGHT" /\ rc' = rc
         \/ ErrorFlag /\ Place' = "returned" /\ rc' = "ACCEL_START_REJECTED" /\ packet' = packet
         \/ ~DeviceBusy /\ Place' = "admit" /\ packet' = packet /\ rc' = rc
  BY Places DEF PollAdmit, Return, NotAnswered
<1> USE <1>1 DEF DriverInv
<1>2. DriverTypeOK'
  <2>1. PcTypeOK' /\ busy_ever' \in BOOLEAN
    BY PcTypes DEF Steps, Waits, PollAdmit, Return, NotAnswered, DriverTypeOK
  <2> QED BY <2>1 DEF DriverTypeOK, PcTypeOK, Outcomes, Packets
<1>3. CommandInv' /\ DeviceInv' /\ IdleInv'
  BY DEF CommandInv, DeviceInv, IdleInv
<1>4. DmaInv' /\ OutputInv' /\ MemoryInv'
  BY DEF DmaInv, OutputInv, MemoryInv
<1>5. LinkInv' /\ PlanInv' /\ CauseInv'
  BY DEF LinkInv, PlanInv, Due, DueFrom, Taken, CauseInv
<1> QED BY <1>2, <1>3, <1>4, <1>5

-----------------------------------------------------------------------------
(* The packets.                                                             *)

(* Head and tail of the sequences the plans are.                            *)
LEMMA Tuples ==
  /\ \A s, x : s = << x >> => s # << >> /\ Head(s) = x /\ Tail(s) = << >>
  /\ \A s, x, y : s = << x, y >> => s # << >> /\ Head(s) = x /\ Tail(s) = << y >>
  /\ \A s, x, y, z : s = << x, y, z >> => s # << >> /\ Head(s) = x /\ Tail(s) = << y, z >>
<1>1. \A x : << x >> # << >> /\ Head(<< x >>) = x /\ Tail(<< x >>) = << >>
  OBVIOUS
<1>2. \A x, y : << x, y >> # << >> /\ Head(<< x, y >>) = x /\ Tail(<< x, y >>) = << y >>
  OBVIOUS
<1>3. \A x, y, z : /\ << x, y, z >> # << >> /\ Head(<< x, y, z >>) = x
                   /\ Tail(<< x, y, z >>) = << y, z >>
  OBVIOUS
<1>4. \A s, x : s = << x >> => s # << >> /\ Head(s) = x /\ Tail(s) = << >>
  BY <1>1
<1>5. \A s, x, y : s = << x, y >> => s # << >> /\ Head(s) = x /\ Tail(s) = << y >>
  BY <1>2
<1>6. \A s, x, y, z : s = << x, y, z >> => s # << >> /\ Head(s) = x /\ Tail(s) = << y, z >>
  BY <1>3
<1> QED BY <1>4, <1>5, <1>6

(* The plan from packet p on begins with p, if the operation has it.        *)
LEMMA DueFacts ==
  ASSUME NEW op \in Operations, NEW p \in Packets
  PROVE  /\ Uses(op, p) => /\ DueFrom(op, p) # << >> /\ Head(DueFrom(op, p)) = p
                           /\ Tail(DueFrom(op, p)) = DueAfter(op, p)
         /\ ~Uses(op, p) => DueFrom(op, p) = DueAfter(op, p)
         /\ p # "SKIP" => Following[p] \in Packets /\ DueFrom(op, Following[p]) = DueAfter(op, p)
         /\ Uses(op, "INPUT")
<1>0. Following["WEIGHT"] = "BIAS" /\ Following["BIAS"] = "INPUT" /\ Following["INPUT"] = "SKIP"
  BY DEF Following, Packets
<1>1. CASE op = OP_CONV
  <2>1. PacketPlan(op) = << "WEIGHT", "BIAS", "INPUT" >>
    BY <1>1 DEF PacketPlan
  <2>2. \A q \in Packets : Uses(op, q) <=> q \in {"WEIGHT", "BIAS", "INPUT"}
    BY <2>1 DEF Uses
  <2>3. /\ DueFrom(op, "WEIGHT") = << "WEIGHT", "BIAS", "INPUT" >>
        /\ DueFrom(op, "BIAS") = << "BIAS", "INPUT" >>
        /\ DueFrom(op, "INPUT") = << "INPUT" >>
        /\ DueFrom(op, "SKIP") = << >>
    BY <1>1, <2>1 DEF DueFrom
  <2>4. DueAfter(op, "WEIGHT") = DueFrom(op, "BIAS") /\ DueAfter(op, "BIAS") = DueFrom(op, "INPUT")
        /\ DueAfter(op, "INPUT") = DueFrom(op, "SKIP") /\ DueAfter(op, "SKIP") = << >>
    BY <1>0 DEF DueAfter
  <2>5. ASSUME Uses(op, p)
        PROVE  DueFrom(op, p) # << >> /\ Head(DueFrom(op, p)) = p
               /\ Tail(DueFrom(op, p)) = DueAfter(op, p)
    <3>1. CASE p = "WEIGHT"
      <4>1. DueFrom(op, p) = << "WEIGHT", "BIAS", "INPUT" >> /\ DueAfter(op, p) = << "BIAS", "INPUT" >>
        BY <2>3, <2>4, <3>1
      <4> QED BY Tuples, <3>1, <4>1
    <3>2. CASE p = "BIAS"
      BY Tuples, <2>2, <2>3, <2>4, <2>5, <3>2
    <3>3. CASE p = "INPUT"
      BY Tuples, <2>2, <2>3, <2>4, <2>5, <3>3
    <3>4. CASE p = "SKIP"
      BY Tuples, <2>2, <2>3, <2>4, <2>5, <3>4
    <3> QED BY <3>1, <3>2, <3>3, <3>4 DEF Packets
  <2>6. ~Uses(op, p) => DueFrom(op, p) = DueAfter(op, p)
    BY <1>0, <2>2, <2>3 DEF DueAfter, Packets
  <2>7. p # "SKIP" => Following[p] \in Packets /\ DueFrom(op, Following[p]) = DueAfter(op, p)
    BY <1>0 DEF DueAfter, Packets
  <2> QED BY <2>2, <2>5, <2>6, <2>7 DEF Packets
<1>2. CASE op = OP_RESIDUAL_ADD
  <2>1. PacketPlan(op) = << "INPUT", "SKIP" >>
    BY <1>2 DEF PacketPlan
  <2>2. \A q \in Packets : Uses(op, q) <=> q \in {"INPUT", "SKIP"}
    BY <2>1 DEF Uses
  <2>3. /\ DueFrom(op, "WEIGHT") = << "INPUT", "SKIP" >>
        /\ DueFrom(op, "BIAS") = << "INPUT", "SKIP" >>
        /\ DueFrom(op, "INPUT") = << "INPUT", "SKIP" >>
        /\ DueFrom(op, "SKIP") = << "SKIP" >>
    BY <1>2, <2>1 DEF DueFrom
  <2>4. DueAfter(op, "WEIGHT") = DueFrom(op, "BIAS") /\ DueAfter(op, "BIAS") = DueFrom(op, "INPUT")
        /\ DueAfter(op, "INPUT") = DueFrom(op, "SKIP") /\ DueAfter(op, "SKIP") = << >>
    BY <1>0 DEF DueAfter
  <2>5. ASSUME Uses(op, p)
        PROVE  DueFrom(op, p) # << >> /\ Head(DueFrom(op, p)) = p
               /\ Tail(DueFrom(op, p)) = DueAfter(op, p)
    <3>1. CASE p = "WEIGHT"
      BY Tuples, <2>2, <2>3, <2>4, <2>5, <3>1
    <3>2. CASE p = "BIAS"
      BY Tuples, <2>2, <2>3, <2>4, <2>5, <3>2
    <3>3. CASE p = "INPUT"
      BY Tuples, <2>2, <2>3, <2>4, <2>5, <3>3
    <3>4. CASE p = "SKIP"
      BY Tuples, <2>2, <2>3, <2>4, <2>5, <3>4
    <3> QED BY <3>1, <3>2, <3>3, <3>4 DEF Packets
  <2>6. ~Uses(op, p) => DueFrom(op, p) = DueAfter(op, p)
    BY <1>0, <2>2, <2>3 DEF DueAfter, Packets
  <2>7. p # "SKIP" => Following[p] \in Packets /\ DueFrom(op, Following[p]) = DueAfter(op, p)
    BY <1>0 DEF DueAfter, Packets
  <2> QED BY <2>2, <2>5, <2>6, <2>7 DEF Packets
<1>3. CASE op = OP_GLOBAL_AVG_POOL
  <2>1. PacketPlan(op) = << "INPUT" >>
    BY <1>3 DEF PacketPlan
  <2>2. \A q \in Packets : Uses(op, q) <=> q \in {"INPUT"}
    BY <2>1 DEF Uses
  <2>3. /\ DueFrom(op, "WEIGHT") = << "INPUT" >>
        /\ DueFrom(op, "BIAS") = << "INPUT" >>
        /\ DueFrom(op, "INPUT") = << "INPUT" >>
        /\ DueFrom(op, "SKIP") = << >>
    BY <1>3, <2>1 DEF DueFrom
  <2>4. DueAfter(op, "WEIGHT") = DueFrom(op, "BIAS") /\ DueAfter(op, "BIAS") = DueFrom(op, "INPUT")
        /\ DueAfter(op, "INPUT") = DueFrom(op, "SKIP") /\ DueAfter(op, "SKIP") = << >>
    BY <1>0 DEF DueAfter
  <2>5. ASSUME Uses(op, p)
        PROVE  DueFrom(op, p) # << >> /\ Head(DueFrom(op, p)) = p
               /\ Tail(DueFrom(op, p)) = DueAfter(op, p)
    <3>1. CASE p = "WEIGHT"
      BY Tuples, <2>2, <2>3, <2>4, <2>5, <3>1
    <3>2. CASE p = "BIAS"
      BY Tuples, <2>2, <2>3, <2>4, <2>5, <3>2
    <3>3. CASE p = "INPUT"
      BY Tuples, <2>2, <2>3, <2>4, <2>5, <3>3
    <3>4. CASE p = "SKIP"
      BY Tuples, <2>2, <2>3, <2>4, <2>5, <3>4
    <3> QED BY <3>1, <3>2, <3>3, <3>4 DEF Packets
  <2>6. ~Uses(op, p) => DueFrom(op, p) = DueAfter(op, p)
    BY <1>0, <2>2, <2>3 DEF DueAfter, Packets
  <2>7. p # "SKIP" => Following[p] \in Packets /\ DueFrom(op, Following[p]) = DueAfter(op, p)
    BY <1>0 DEF DueAfter, Packets
  <2> QED BY <2>2, <2>5, <2>6, <2>7 DEF Packets
<1> QED BY <1>1, <1>2, <1>3 DEF Operations

(* What an accepted configuration has bytes for.                            *)
LEMMA AcceptedFacts ==
  ASSUME DriverTypeOK, Accepted(regs)
  PROVE  /\ regs.op \in Operations /\ regs.output \in Nat
         /\ \A p \in Packets : regs.bytes[p] \in Nat
         /\ \A p \in Packets : Uses(regs.op, p) => regs.bytes[p] >= 4 /\ regs.bytes[p] % 4 = 0
<1>1. WellFormed(regs)
  BY ConfigsAssumption DEF DriverTypeOK
<1> QED BY <1>1 DEF WellFormed, ConfigRecords, WordCount

(* The source of a packet is right, and in memory once it is written back.   *)
LEMMA FlushFacts ==
  ASSUME DriverTypeOK, MemoryInv, Place = "send", NEW src \in 0..(layer - 1), FlushRange(src),
         Place' \in {"returned", "sent"}, Place' = "returned" => rc' \notin Good,
         UNCHANGED layer
  PROVE  ddr'[src] /\ ddr'[layer] = ddr[layer] /\ MemoryInv'
<1>1. /\ src \in Buffers /\ layer \in Nat /\ layer >= 1 /\ layer \in Buffers /\ 0 \in Buffers
      /\ \A b \in 1..(layer - 1) : b \in Buffers
  BY LayerFacts
<1>2. /\ ddr' = [ddr EXCEPT ![src] = WriteBack(src)] /\ cache' = [cache EXCEPT ![src] = "none"]
      /\ ddr \in [Buffers -> BOOLEAN] /\ DOMAIN cache = Buffers
  BY DEF FlushRange, DriverTypeOK
<1>3. WriteBack(src)
  BY <1>1 DEF MemoryInv, WriteBack
<1>4. /\ ddr'[src] /\ cache'[src] = "none"
      /\ \A b \in Buffers : b # src => ddr'[b] = ddr[b] /\ cache'[b] = cache[b]
  BY <1>1, <1>2, <1>3
<1>5. src # layer
  BY <1>1
<1> QED BY <1>1, <1>4, <1>5 DEF MemoryInv

LEMMA SendPacketStep ==
  ASSUME DriverInv, SendPacket, UNCHANGED << loopVars, recovered >>
  PROVE  DriverInv'
<1> DEFINE bytes == regs.bytes[packet]
<1> DEFINE Skipped ==
  /\ bytes = 0 /\ packet # "INPUT"
  /\ \/ packet = "SKIP" /\ Place' = "done" /\ packet' = packet
     \/ packet # "SKIP" /\ Place' = "send" /\ packet' = Following[packet]
  /\ UNCHANGED << dmaVars, memoryVars, rc, causes >>
<1> DEFINE Refused ==
  /\ Place' = "returned" /\ rc' = "ACCEL_FATAL_ERROR" /\ causes' = causes \cup {"invalid"}
  /\ UNCHANGED << dmaVars, memoryVars, packet >>
<1> DEFINE Submitted ==
  /\ bytes # 0 /\ bytes % 4 = 0 /\ Place' = "sent" /\ UNCHANGED << packet, causes, rc >>
  /\ mm2s' = [left |-> bytes \div 4, tag |-> << run, layer, packet, TRUE >>]
  /\ UNCHANGED << s2mm, dma_error, resetting >>
<1>1. /\ Place = "send" /\ BusFree
      /\ UNCHANGED << deviceVars, result_done, diagVars, s2mm_active, owner, words_right >>
      /\ PcTypeOK'
  BY Places, PcTypes DEF SendPacket, AfterPacket, Return, Steps
<1>2. MemoryInv' /\ ddr'[layer] = ddr[layer] /\ (Skipped \/ Refused \/ Submitted)
  <2>1. CASE bytes = 0 /\ packet # "INPUT" /\ AfterPacket /\ UNCHANGED << dmaVars, memoryVars, rc, causes >>
    BY <1>1, <2>1, Places DEF AfterPacket, DriverInv, MemoryInv
  <2>2. CASE Return("ACCEL_FATAL_ERROR") /\ causes' = causes \cup {"invalid"}
              /\ UNCHANGED << dmaVars, memoryVars, packet >>
    BY <1>1, <2>2, Places DEF Return, DriverInv, MemoryInv
  <2>3. CASE /\ BufferIsValid(bytes) /\ CleanSource(packet) /\ UNCHANGED << packet, causes >>
             /\ IF ChannelBusy("MM2S")
                THEN Return("ACCEL_FATAL_ERROR") /\ UNCHANGED dmaVars
                ELSE /\ SubmitMM2S(bytes \div 4, << run, layer, packet,
                           packet \in {"INPUT", "SKIP"} => ddr'[SourceOf(packet)] >>)
                     /\ Go("sent") /\ UNCHANGED rc
    <3>1. ~ChannelBusy("MM2S")
      BY <1>1 DEF DriverInv, DmaInv, ChannelBusy
    <3>2. Place' = "sent"
      BY <2>3, <3>1, Places
    <3>3. CASE packet \in {"INPUT", "SKIP"}
      <4>1. SourceOf(packet) \in 0..(layer - 1)
        BY LayerFacts DEF SourceOf, DriverInv
      <4>2. ddr'[SourceOf(packet)] /\ ddr'[layer] = ddr[layer] /\ MemoryInv'
        BY <1>1, <2>3, <3>2, <3>3, <4>1, FlushFacts DEF CleanSource, DriverInv
      <4>3. (packet \in {"INPUT", "SKIP"} => ddr'[SourceOf(packet)]) = TRUE
        BY <4>2
      <4> QED BY <2>3, <3>1, <3>2, <4>2, <4>3 DEF SubmitMM2S, BufferIsValid
    <3>4. CASE packet \notin {"INPUT", "SKIP"}
      <4>1. MemoryInv' /\ ddr'[layer] = ddr[layer]
        BY <1>1, <2>3, <3>2, <3>4 DEF CleanSource, DriverInv, MemoryInv
      <4>2. (packet \in {"INPUT", "SKIP"} => ddr'[SourceOf(packet)]) = TRUE
        BY <3>4
      <4> QED BY <2>3, <3>1, <3>2, <4>1, <4>2 DEF SubmitMM2S, BufferIsValid
    <3> QED BY <3>3, <3>4
  <2> QED BY <2>1, <2>2, <2>3 DEF SendPacket
<1>3. ddr' \in [Buffers -> BOOLEAN] /\ cache' \in [Buffers -> {"none", "clean", "stale", "dirty"}]
  <2>1. CASE UNCHANGED memoryVars
    BY <2>1 DEF DriverInv, DriverTypeOK
  <2>2. CASE FlushRange(SourceOf(packet))
    BY <2>2 DEF FlushRange, WriteBack, DriverInv, DriverTypeOK
  <2> QED BY <2>1, <2>2 DEF SendPacket, CleanSource
<1>4. bytes \in Nat
  BY ConfigsAssumption DEF DriverInv, DriverTypeOK, WellFormed, ConfigRecords
<1>5. Accepted(regs) => /\ regs.op \in Operations
                        /\ Uses(regs.op, packet) => bytes >= 4 /\ bytes % 4 = 0
  BY AcceptedFacts DEF DriverInv, DriverTypeOK
<1>6. bytes # 0 => Uses(regs.op, packet)
  BY <1>1 DEF DriverInv, PlanInv, RegistersFor, DriverTypeOK
<1> HIDE DEF bytes
<1> USE <1>1 DEF DriverInv
<1>7. DriverTypeOK'
  <2>1. CASE Submitted
    <3>1. bytes \div 4 \in Nat
      BY <1>4
    <3>2. << run, layer, packet, TRUE >> \in Nat \X Nat \X Packets \X BOOLEAN
      BY LayerFacts DEF DriverTypeOK
    <3>3. mm2s' \in [left : Nat, tag : {<< >>} \cup Nat \X Nat \X Packets \X BOOLEAN]
      BY <2>1, <3>1, <3>2
    <3> QED BY <1>3, <2>1, <3>3 DEF DriverTypeOK, PcTypeOK
  <2>2. CASE Skipped \/ Refused
    <3>1. packet' \in Packets
      BY <2>2 DEF Following, Packets, DriverTypeOK
    <3> QED BY <1>3, <2>2, <3>1 DEF DriverTypeOK, PcTypeOK, Outcomes
  <2> QED BY <1>2, <2>1, <2>2
<1>8. CommandInv' /\ DeviceInv' /\ IdleInv'
  BY <1>2 DEF CommandInv, DeviceInv, IdleInv
<1>9. DmaInv' /\ OutputInv'
  <2>1. CASE Skipped
    BY <1>2, <2>1 DEF DmaInv, OutputInv
  <2>2. CASE Refused
    BY <1>2, <2>2 DEF DmaInv, OutputInv
  <2>3. CASE Submitted
    BY <1>2, <2>3 DEF DmaInv, OutputInv
  <2> QED BY <1>2, <2>1, <2>2, <2>3
<1>10. LinkInv' /\ PlanInv'
  <2>0. Accepted(regs) =>
          /\ Uses(regs.op, packet) => Head(DueFrom(regs.op, packet)) = packet
                                      /\ DueFrom(regs.op, packet) # << >>
          /\ ~Uses(regs.op, packet) /\ packet # "SKIP" =>
               DueFrom(regs.op, Following[packet]) = DueFrom(regs.op, packet)
    BY <1>5, DueFacts DEF DriverTypeOK
  <2>1. CASE Skipped
    <3>1. mm2s.left = 0 /\ mm2s'.left = 0 /\ Due' = Due /\ Taken' = Taken
      BY <2>1 DEF DmaInv, Due, Taken
    <3>2. LinkInv'
      BY <2>1, <3>1 DEF LinkInv
    <3>3. PlanInv'
      BY <1>5, <2>0, <2>1, <3>1 DEF PlanInv
    <3> QED BY <3>2, <3>3
  <2>2. CASE Refused
    BY <2>2 DEF LinkInv, PlanInv, Due, Taken
  <2>3. CASE Submitted
    <3>1. bytes \div 4 \in Nat /\ 4 * (bytes \div 4) = bytes /\ bytes \div 4 > 0
      BY <1>4, <2>3
    <3>2. mm2s'.left = bytes \div 4 /\ mm2s'.tag = << run, layer, packet, TRUE >>
      BY <2>3
    <3>3. phase # "idle" /\ Accepted(regs) =>
            /\ Due = DueFrom(regs.op, packet) /\ Due' = Due /\ Taken = 0 /\ Taken' = 0
            /\ Head(Due) = packet /\ Due # << >>
      BY <1>6, <2>0, <2>3 DEF PlanInv, Due, Taken
    <3>4. LinkInv'
      <4>1. Place' = "sent" /\ UNCHANGED << owner, regs, phase, words_right, command >>
        BY <2>3
      <4>2. owner = << run, layer >>
        BY DEF LinkInv
      <4>3. phase # "idle" /\ Accepted(regs) =>
              /\ << run, layer, packet, TRUE >> = << owner[1], owner[2], Head(Due), TRUE >>
              /\ 4 * (bytes \div 4) + Taken = regs.bytes[Head(Due)]
        BY <1>4, <3>1, <3>3, <4>2 DEF bytes
      <4> QED BY <3>2, <3>3, <4>1, <4>2, <4>3 DEF LinkInv
    <3>5. PlanInv'
      BY <1>6, <2>3, <3>1, <3>2, <3>3 DEF PlanInv
    <3> QED BY <3>4, <3>5
  <2> QED BY <1>2, <2>1, <2>2, <2>3
<1>11. CauseInv'
  BY <1>2 DEF CauseInv
<1> QED BY <1>2, <1>7, <1>8, <1>9, <1>10, <1>11

LEMMA PollPacketStep ==
  ASSUME DriverInv, PollPacket, UNCHANGED << loopVars, recovered >>
  PROVE  DriverInv'
<1>1. /\ Place = "sent" /\ PcTypeOK'
      /\ command = "none"
      /\ UNCHANGED << deviceVars, dmaVars, memoryVars, result_done, diagVars, s2mm_active,
                      historyVars >>
      /\ \/ /\ "MM2S" \in dma_error /\ Place' = "returned" /\ rc' = "ACCEL_FATAL_ERROR"
            /\ packet' = packet
         \/ /\ "MM2S" \notin dma_error /\ mm2s.left = 0 /\ rc' = rc
            /\ \/ packet = "SKIP" /\ Place' = "done" /\ packet' = packet
               \/ packet # "SKIP" /\ Place' = "send" /\ packet' = Following[packet]
         \/ Place' = "sent" /\ packet' = packet /\ rc' = rc
  <2>1. mm2s.left \in Nat /\ ~resetting /\ command = "none" /\ At("sent")
    BY Places DEF PollPacket, DriverInv, DriverTypeOK, DmaInv, CommandInv
  <2> QED BY <2>1, Places, PcTypes DEF PollPacket, Return, AfterPacket, ChannelBusy, Steps, Waits
<1> USE <1>1 DEF DriverInv
<1>2. DriverTypeOK'
  BY DueFacts DEF DriverTypeOK, PcTypeOK, Outcomes, Following, Packets
<1>3. CommandInv' /\ DeviceInv' /\ IdleInv'
  BY DEF CommandInv, DeviceInv, IdleInv, DriverTypeOK
<1>4. DmaInv' /\ OutputInv' /\ MemoryInv'
  BY DEF DmaInv, OutputInv, MemoryInv
<1>5. LinkInv' /\ PlanInv'
  <2>1. Accepted(regs) /\ packet # "SKIP" =>
          DueFrom(regs.op, Following[packet]) = DueAfter(regs.op, packet)
    BY DueFacts, AcceptedFacts DEF DriverTypeOK
  <2>2. Due' = Due /\ Taken' = Taken
    BY DEF Due, Taken
  <2> QED BY <2>1, <2>2 DEF LinkInv, PlanInv
<1>6. CauseInv'
  BY DEF CauseInv
<1> QED BY <1>2, <1>3, <1>4, <1>5, <1>6

-----------------------------------------------------------------------------
(* The end of the operation.                                                *)

LEMMA PollDoneStep ==
  ASSUME DriverInv, PollDone, UNCHANGED << loopVars, recovered >>
  PROVE  DriverInv'
<1>1. /\ Place = "done" /\ BusFree /\ PcTypeOK' /\ busy_ever' \in BOOLEAN
      /\ UNCHANGED << deviceVars, dmaVars, memoryVars, packet, rc, start_written, s2mm_active,
                      historyVars >>
      /\ \/ Place' = "done" /\ result_done' = result_done
         \/ ~DeviceBusy /\ Place' = "code" /\ result_done' = done
  BY Places, PcTypes DEF PollDone, Steps, Waits, DriverInv, DriverTypeOK
<1> USE <1>1 DEF DriverInv
<1>2. DriverTypeOK'
  BY DEF DriverTypeOK, PcTypeOK
<1>3. CommandInv' /\ DeviceInv' /\ IdleInv'
  BY DEF CommandInv, DeviceInv, IdleInv
<1>4. DmaInv' /\ OutputInv' /\ MemoryInv'
  BY DEF DmaInv, OutputInv, MemoryInv
<1>5. LinkInv' /\ PlanInv'
  BY DEF LinkInv, PlanInv, Due, Taken
<1>6. CauseInv'
  BY DEF CauseInv, DriverTypeOK
<1> QED BY <1>2, <1>3, <1>4, <1>5, <1>6

LEMMA ReadCodeStep ==
  ASSUME DriverInv, ReadCode, UNCHANGED << loopVars, recovered >>
  PROVE  DriverInv'
<1>1. /\ Place = "code" /\ BusFree /\ PcTypeOK'
      /\ UNCHANGED << deviceVars, dmaVars, memoryVars, localVars, diagVars, s2mm_active,
                      historyVars >>
      /\ \/ result_done /\ Place' = "output" /\ rc' \in Good
         \/ ~result_done /\ Place' = "returned" /\ rc' = "ACCEL_FATAL_ERROR"
  BY Places, PcTypes DEF ReadCode, Return, Steps, Waits
<1> USE <1>1 DEF DriverInv
<1>2. DriverTypeOK'
  BY DEF DriverTypeOK, PcTypeOK, Outcomes
<1>3. CommandInv' /\ DeviceInv' /\ IdleInv'
  BY DEF CommandInv, DeviceInv, IdleInv
<1>4. DmaInv' /\ OutputInv' /\ MemoryInv'
  BY DEF DmaInv, OutputInv, MemoryInv
<1>5. LinkInv' /\ PlanInv' /\ CauseInv'
  BY DEF LinkInv, PlanInv, Due, Taken, CauseInv
<1> QED BY <1>2, <1>3, <1>4, <1>5

LEMMA AbortOperationStep ==
  ASSUME DriverInv, AbortOperation, UNCHANGED << loopVars, recovered >>
  PROVE  DriverInv'
<1>1. /\ Place = "abort" /\ BusFree /\ PcTypeOK'
      /\ Place' = "abort_confirm" /\ At("abort_confirm")' /\ command' = "ABORT"
      /\ UNCHANGED << regs, operationVars, locked, dmaVars, memoryVars, localVars, rc, diagVars,
                      s2mm_active, historyVars >>
  BY Places, PcTypes DEF AbortOperation, Post, Steps
<1> USE <1>1 DEF DriverInv
<1>2. DriverTypeOK'
  BY DEF DriverTypeOK, PcTypeOK
<1>3. CommandInv' /\ DeviceInv' /\ IdleInv'
  BY DEF CommandInv, DeviceInv, IdleInv
<1>4. DmaInv' /\ OutputInv' /\ MemoryInv'
  BY DEF DmaInv, OutputInv, MemoryInv
<1>5. LinkInv' /\ PlanInv' /\ CauseInv'
  BY DEF LinkInv, PlanInv, Due, Taken, CauseInv
<1> QED BY <1>2, <1>3, <1>4, <1>5

LEMMA PollAbortedStep ==
  ASSUME DriverInv, PollAborted, UNCHANGED << loopVars, recovered >>
  PROVE  DriverInv'
<1>1. /\ Place = "abort_confirm" /\ BusFree /\ PcTypeOK'
      /\ UNCHANGED << deviceVars, dmaVars, memoryVars, localVars, diagVars, s2mm_active,
                      historyVars >>
      /\ \/ Place' = "abort_confirm" /\ rc' = rc
         \/ Place' = "returned" /\ rc' = "ACCEL_TIMEOUT"
  BY Places, PcTypes DEF PollAborted, Return, Steps, Waits
<1> USE <1>1 DEF DriverInv
<1>2. DriverTypeOK'
  BY DEF DriverTypeOK, PcTypeOK, Outcomes
<1>3. CommandInv' /\ DeviceInv' /\ IdleInv'
  BY DEF CommandInv, DeviceInv, IdleInv
<1>4. DmaInv' /\ OutputInv' /\ MemoryInv'
  BY DEF DmaInv, OutputInv, MemoryInv
<1>5. LinkInv' /\ PlanInv' /\ CauseInv'
  BY DEF LinkInv, PlanInv, Due, Taken, CauseInv
<1> QED BY <1>2, <1>3, <1>4, <1>5

LEMMA PollOutputStep ==
  ASSUME DriverInv, PollOutput, UNCHANGED << loopVars, recovered >>
  PROVE  DriverInv'
<1>1. /\ Place = "output" /\ PcTypeOK' /\ s2mm_active /\ ~resetting
      /\ UNCHANGED << deviceVars, dmaVars, ddr, localVars, diagVars, historyVars >>
      /\ \/ /\ "S2MM" \in dma_error /\ Place' = "returned" /\ rc' = "ACCEL_FATAL_ERROR"
            /\ UNCHANGED << cache, s2mm_active >>
         \/ /\ "S2MM" \notin dma_error /\ s2mm.state = "idle"
            /\ Place' = "returned" /\ rc' = rc
            /\ s2mm_active' = FALSE /\ cache' = [cache EXCEPT ![layer] = "none"]
         \/ Place' = "output" /\ UNCHANGED << cache, s2mm_active, rc >>
      /\ command = "none"
  <2>1. s2mm_active /\ ~resetting /\ command = "none" /\ Place = "output"
    BY Places DEF PollOutput, DriverInv, DmaInv, CommandInv, DriverTypeOK
  <2> QED BY <2>1, Places, PcTypes DEF PollOutput, RefreshOutput, InvalidateRange, Return,
             ChannelBusy, Steps, Waits
<1>2. cache' = cache \/ cache' = [cache EXCEPT ![layer] = "none"]
  BY <1>1
<1> USE <1>1 DEF DriverInv
<1>3. DriverTypeOK'
  <2>1. cache' \in [Buffers -> {"none", "clean", "stale", "dirty"}]
    BY <1>2 DEF DriverTypeOK
  <2> QED BY <2>1 DEF DriverTypeOK, PcTypeOK, Outcomes
<1>4. CommandInv' /\ DeviceInv' /\ IdleInv'
  BY DEF CommandInv, DeviceInv, IdleInv, DriverTypeOK
<1>5. DmaInv' /\ OutputInv'
  <2>1. mm2s.left = 0 /\ ("S2MM" \notin dma_error => dma_error = {})
    BY DEF DmaInv, DriverTypeOK, Channels
  <2>2. DmaInv'
    BY <2>1 DEF DmaInv, CauseInv
  <2>3. OutputInv'
    BY DEF OutputInv
  <2> QED BY <2>2, <2>3
<1>6. MemoryInv'
  <2>1. /\ \A b \in Buffers : b # layer => cache'[b] = cache[b]
        /\ cache'[layer] = cache[layer] \/ cache'[layer] = "none"
    BY <1>2, LayerFacts DEF DriverTypeOK
  <2>2. Place' = "returned" /\ rc' \in Good => ddr[layer] /\ cache'[layer] = "none"
    BY LayerFacts DEF OutputInv, CauseInv, DriverTypeOK
  <2> QED BY <2>1, <2>2, LayerFacts DEF MemoryInv
<1>7. LinkInv' /\ PlanInv' /\ CauseInv'
  BY DEF LinkInv, PlanInv, Due, Taken, CauseInv
<1> QED BY <1>3, <1>4, <1>5, <1>6, <1>7

-----------------------------------------------------------------------------
(* The clock.                                                               *)

LEMMA PollAgainStep ==
  ASSUME DriverInv, PollAgain, UNCHANGED clockFrame
  PROVE  DriverInv'
<1>1. /\ PcTypeOK' /\ Place' = Place /\ command = "none"
      /\ UNCHANGED << deviceVars, dmaVars, memoryVars, localVars, diagVars, s2mm_active,
                      historyVars, loopVars, recovered, rc >>
  <2>1. PICK w \in Waits : pc = << w, "clock" >> /\ Go(w)
    BY DEF PollAgain
  <2>2. w \in Steps /\ Place = w /\ Place' = w /\ \A s : ~At(s)
    BY <2>1, Places DEF Waits, Steps
  <2>3. command = "none"
    BY <2>2 DEF DriverInv, CommandInv, DriverTypeOK
  <2> QED BY <2>1, <2>2, <2>3, PcTypes DEF PollAgain, clockFrame
<1> USE <1>1 DEF DriverInv
<1>2. DriverTypeOK'
  BY DEF DriverTypeOK, PcTypeOK
<1>3. CommandInv' /\ DeviceInv' /\ IdleInv'
  BY DEF CommandInv, DeviceInv, IdleInv
<1>4. DmaInv' /\ OutputInv' /\ MemoryInv'
  BY DEF DmaInv, OutputInv, MemoryInv
<1>5. LinkInv' /\ PlanInv'
  BY DEF LinkInv, PlanInv, Due, Taken
<1>6. CauseInv'
  BY DEF CauseInv
<1> QED BY <1>2, <1>3, <1>4, <1>5, <1>6

LEMMA GiveUpStep ==
  ASSUME DriverInv, GiveUp, UNCHANGED clockFrame
  PROVE  DriverInv'
<1>1. /\ PcTypeOK' /\ command = "none"
      /\ UNCHANGED << deviceVars, memoryVars, localVars, diagVars, owner, words_right, loopVars,
                      mm2s, s2mm, dma_error >>
      /\ causes' = causes \cup {"expired"} /\ rc' \in Outcomes
      /\ \/ /\ Place' = "returned" /\ rc' \notin Good
            /\ UNCHANGED << recovered, s2mm_active, resetting >>
         \/ /\ Place = "done" /\ Place' = "abort"
            /\ UNCHANGED << rc, recovered, s2mm_active, resetting >>
         \/ /\ Place = "idle_confirm" /\ Place' = "reset" /\ resetting' = TRUE
            /\ s2mm_active' = FALSE /\ recovered' = FALSE /\ rc' = rc
         \/ /\ Place = "reset" /\ Place' = "called" /\ recovered' = FALSE
            /\ UNCHANGED << rc, s2mm_active, resetting >>
  <2>0. rc \in Outcomes /\ command \in {"none", "START", "ABORT", "CLEAR"}
    BY DEF DriverInv, DriverTypeOK
  <2>1. CASE \E w \in DOMAIN TimeoutCode : pc = << w, "clock" >> /\ Return(TimeoutCode[w])
             /\ UNCHANGED << recovered, s2mm_active, dmaVars >>
    <3>1. PICK w \in {"admit", "sent", "output", "abort_confirm"} :
                 pc = << w, "clock" >> /\ Return(TimeoutCode[w])
      BY <2>1 DEF TimeoutCode
    <3>2. TimeoutCode[w] \in Outcomes /\ TimeoutCode[w] \notin Good
      BY DEF TimeoutCode, Outcomes
    <3>3. \A s : ~At(s)
      BY <3>1, Places
    <3>4. command = "none"
      BY <2>0, <3>3 DEF DriverInv, CommandInv
    <3> QED BY <2>1, <3>1, <3>2, <3>4, Places, PcTypes DEF GiveUp, Return, Steps, clockFrame
  <2>2. CASE pc = << "done", "clock" >> /\ DoneExpired
             /\ UNCHANGED << rc, recovered, s2mm_active, dmaVars >>
    <3>1. Place = "done" /\ \A s : ~At(s)
      BY <2>2, Places
    <3>2. command = "none"
      BY <2>0, <3>1 DEF DriverInv, CommandInv
    <3> QED BY <2>0, <2>2, <3>1, <3>2, Places, PcTypes DEF GiveUp, DoneExpired, Steps, clockFrame
  <2>3. CASE pc = << "idle_confirm", "clock" >> /\ StartReset /\ recovered' = FALSE /\ UNCHANGED rc
    <3>1. Place = "idle_confirm" /\ \A s : ~At(s)
      BY <2>3, Places
    <3>2. command = "none"
      BY <2>0, <3>1 DEF DriverInv, CommandInv
    <3> QED BY <2>0, <2>3, <3>1, <3>2, Places, PcTypes DEF GiveUp, StartReset, ResetDma, Steps, clockFrame
  <2>4. CASE pc = << "reset", "clock" >> /\ Go("called") /\ recovered' = FALSE
             /\ UNCHANGED << rc, s2mm_active, dmaVars >>
    <3>1. Place = "reset" /\ \A s : ~At(s)
      BY <2>4, Places
    <3>2. command = "none"
      BY <2>0, <3>1 DEF DriverInv, CommandInv
    <3> QED BY <2>0, <2>4, <3>1, <3>2, Places, PcTypes DEF GiveUp, Steps, clockFrame
  <2> QED BY <2>1, <2>2, <2>3, <2>4 DEF GiveUp
<1> USE <1>1 DEF DriverInv
<1>2. DriverTypeOK'
  BY DEF DriverTypeOK, PcTypeOK
<1>3. CommandInv' /\ DeviceInv' /\ IdleInv'
  BY DEF CommandInv, DeviceInv, IdleInv
<1>4. DmaInv' /\ OutputInv' /\ MemoryInv'
  BY DEF DmaInv, OutputInv, MemoryInv
<1>5. LinkInv' /\ PlanInv'
  BY DEF LinkInv, PlanInv, Due, Taken
<1>6. CauseInv'
  BY DEF CauseInv
<1> QED BY <1>2, <1>3, <1>4, <1>5, <1>6

-----------------------------------------------------------------------------
(* resnet_run.                                                              *)

schedulerFrame == << memoryVars, network, localVars, diagVars, owner, words_right >>

LEMMA CallRunStep ==
  ASSUME DriverInv, CallRun, UNCHANGED schedulerFrame
  PROVE  DriverInv'
<1>1. /\ Place = "called" /\ Place' = "check" /\ PcTypeOK' /\ command = "none"
      /\ run' = run + 1 /\ layer' = 1 /\ causes' = (IF recovered THEN {} ELSE causes)
      /\ UNCHANGED << deviceVars, dmaVars, memoryVars, rc, s2mm_active, recovered, network,
                      localVars, diagVars, owner, words_right >>
  BY Places, PcTypes DEF CallRun, Steps, schedulerFrame, DriverInv, CommandInv, DriverTypeOK
<1> USE <1>1 DEF DriverInv
<1>2. DriverTypeOK'
  <2>1. 1 \in 1..Len(network) /\ run' \in Nat
    BY NetworksAssumption DEF DriverTypeOK
  <2> QED BY <2>1 DEF DriverTypeOK, PcTypeOK
<1>3. CommandInv' /\ DeviceInv' /\ IdleInv'
  BY DEF CommandInv, DeviceInv, IdleInv
<1>4. DmaInv' /\ OutputInv' /\ MemoryInv'
  BY DEF DmaInv, OutputInv, MemoryInv
<1>5. LinkInv' /\ PlanInv' /\ CauseInv'
  BY DEF LinkInv, PlanInv, Due, Taken, CauseInv, DmaInv
<1> QED BY <1>2, <1>3, <1>4, <1>5

LEMMA NextLayerStep ==
  ASSUME DriverInv, NextLayer, UNCHANGED schedulerFrame
  PROVE  DriverInv'
<1>1. /\ Place = "returned" /\ rc \in Good /\ PcTypeOK' /\ command = "none" /\ rc' \in Good
      /\ \/ layer < Len(network) /\ layer' = layer + 1 /\ Place' = "check"
         \/ layer' = layer /\ Place' = "called"
      /\ UNCHANGED << deviceVars, dmaVars, memoryVars, run, s2mm_active, recovered, network,
                      localVars, diagVars, historyVars >>
  BY Places, PcTypes DEF NextLayer, Steps, schedulerFrame, DriverInv, CommandInv, DriverTypeOK
<1> USE <1>1 DEF DriverInv
<1>2. DriverTypeOK'
  <2>1. layer' \in 1..Len(network)
    BY NetworksAssumption DEF DriverTypeOK
  <2> QED BY <2>1 DEF DriverTypeOK, PcTypeOK, Outcomes
<1>3. CommandInv' /\ DeviceInv' /\ IdleInv'
  BY DEF CommandInv, DeviceInv, IdleInv
<1>4. DmaInv' /\ OutputInv'
  BY DEF DmaInv, OutputInv
<1>5. MemoryInv'
  BY LayerFacts DEF MemoryInv
<1>6. LinkInv' /\ PlanInv' /\ CauseInv'
  BY DEF LinkInv, PlanInv, Due, Taken, CauseInv, DmaInv
<1> QED BY <1>2, <1>3, <1>4, <1>5, <1>6

LEMMA RecoverAcceleratorStep ==
  ASSUME DriverInv, RecoverAccelerator, UNCHANGED schedulerFrame
  PROVE  DriverInv'
<1>1. /\ Place = "returned" /\ rc \notin Good /\ BusFree /\ PcTypeOK'
      /\ Place' = "idle_confirm" /\ At("idle_confirm")' /\ recovered' = TRUE
      /\ command' \in {"none", "ABORT"}
      /\ UNCHANGED << regs, operationVars, locked, dmaVars, memoryVars, rc, run, layer,
                      s2mm_active, causes, network, localVars, diagVars, owner, words_right >>
  BY Places, PcTypes DEF RecoverAccelerator, Post, Steps, schedulerFrame
<1> USE <1>1 DEF DriverInv
<1>2. DriverTypeOK'
  BY DEF DriverTypeOK, PcTypeOK
<1>3. CommandInv' /\ DeviceInv' /\ IdleInv'
  BY DEF CommandInv, DeviceInv, IdleInv
<1>4. DmaInv' /\ OutputInv' /\ MemoryInv'
  BY DEF DmaInv, OutputInv, MemoryInv
<1>5. LinkInv' /\ PlanInv' /\ CauseInv'
  BY DEF LinkInv, PlanInv, Due, Taken, CauseInv
<1> QED BY <1>2, <1>3, <1>4, <1>5

LEMMA PollIdleStep ==
  ASSUME DriverInv, PollIdle, UNCHANGED schedulerFrame
  PROVE  DriverInv'
<1>1. /\ Place = "idle_confirm" /\ BusFree /\ PcTypeOK'
      /\ \/ /\ Place' = "idle_confirm" /\ UNCHANGED << s2mm_active, resetting >>
         \/ /\ ~DeviceBusy /\ Place' = "reset" /\ resetting' = TRUE /\ s2mm_active' = FALSE
      /\ UNCHANGED << deviceVars, mm2s, s2mm, dma_error, memoryVars, run, layer, rc, recovered,
                      causes, network, localVars, diagVars, owner, words_right >>
  BY Places, PcTypes DEF PollIdle, StartReset, ResetDma, Steps, Waits, schedulerFrame
<1> USE <1>1 DEF DriverInv
<1>2. DriverTypeOK'
  BY DEF DriverTypeOK, PcTypeOK
<1>3. CommandInv' /\ DeviceInv' /\ IdleInv'
  BY DEF CommandInv, DeviceInv, IdleInv
<1>4. DmaInv' /\ OutputInv' /\ MemoryInv'
  BY DEF DmaInv, OutputInv, MemoryInv
<1>5. LinkInv' /\ PlanInv' /\ CauseInv'
  BY DEF LinkInv, PlanInv, Due, Taken, CauseInv
<1> QED BY <1>2, <1>3, <1>4, <1>5

LEMMA PollResetStep ==
  ASSUME DriverInv, PollReset, UNCHANGED schedulerFrame
  PROVE  DriverInv'
<1>1. /\ Place = "reset" /\ PcTypeOK' /\ command = "none"
      /\ \/ Place' = "reset"
         \/ Place' = "called" /\ ~resetting
      /\ UNCHANGED << deviceVars, dmaVars, memoryVars, run, layer, rc, s2mm_active, recovered,
                      causes, network, localVars, diagVars, owner, words_right >>
  BY Places, PcTypes DEF PollReset, Steps, Waits, schedulerFrame, DriverInv, CommandInv,
     DriverTypeOK
<1> USE <1>1 DEF DriverInv
<1>2. DriverTypeOK'
  BY DEF DriverTypeOK, PcTypeOK
<1>3. CommandInv' /\ DeviceInv' /\ IdleInv'
  BY DEF CommandInv, DeviceInv, IdleInv
<1>4. DmaInv' /\ OutputInv' /\ MemoryInv'
  BY DEF DmaInv, OutputInv, MemoryInv
<1>5. LinkInv' /\ PlanInv' /\ CauseInv'
  BY DEF LinkInv, PlanInv, Due, Taken, CauseInv
<1> QED BY <1>2, <1>3, <1>4, <1>5

-----------------------------------------------------------------------------
(* The accelerator.                                                         *)

deviceFrame == << dmaVars, memoryVars, driverVars, owner, words_right >>

(* The program stays where it is.                                           *)
LEMMA DriverStays ==
  ASSUME UNCHANGED driverVars
  PROVE  /\ Place' = Place /\ \A s : At(s)' <=> At(s)
         /\ UNCHANGED << network, run, layer, pc, packet, result_done, rc, start_written,
                         busy_ever, s2mm_active, recovered >>
  BY Places DEF driverVars

LEMMA TakeStartStep ==
  ASSUME DriverInv, TakeStart, UNCHANGED << deviceFrame, causes >>
  PROVE  DriverInv'
<1>1. /\ Place = "admit" /\ Place' = "admit" /\ command = "START" /\ command' = "none"
      /\ ~DeviceBusy /\ phase' \in {"idle", "checking"} /\ mm2s.left = 0
      /\ UNCHANGED << locked, regs, plan, snap, got, sent, done, code, dmaVars, memoryVars, owner,
                      words_right, causes >>
      /\ UNCHANGED << network, run, layer, pc, packet, result_done, rc, start_written,
                      busy_ever, s2mm_active, recovered >>
  BY DriverStays, Places DEF TakeStart, deviceFrame, DriverInv, CommandInv, IdleInv, DmaInv
<1> USE <1>1 DEF DriverInv
<1>2. DriverTypeOK'
  BY DEF DriverTypeOK
<1>3. CommandInv' /\ DeviceInv' /\ IdleInv'
  BY DEF CommandInv, DeviceInv, IdleInv
<1>4. DmaInv' /\ OutputInv' /\ MemoryInv'
  BY DEF DmaInv, OutputInv, MemoryInv, CauseInv
<1>5. LinkInv'
  <2>1. words_right /\ owner = << run, layer >> /\ ~(mm2s.left > 0)
    BY DEF LinkInv
  <2> QED BY <2>1 DEF LinkInv
<1>6. PlanInv'
  BY DEF PlanInv, Due, Taken
<1>7. CauseInv'
  BY DEF CauseInv
<1> QED BY <1>2, <1>3, <1>4, <1>5, <1>6, <1>7

(* The first code, or the new one.                                          *)
LEMMA Records ==
  ASSUME NEW c \in ErrorCodes
  PROVE  Record(c) \in {code, c}
  BY DEF Record

LEMMA TakeAbortStep ==
  ASSUME DriverInv, TakeAbort, UNCHANGED << deviceFrame, causes >>
  PROVE  DriverInv'
<1>1. /\ Place \in {"abort_confirm", "idle_confirm"} /\ Place' = Place /\ command' = "none"
      /\ \/ phase' = "idle" /\ plan' = << >> /\ code' \in {code, "ERR_ABORTED"}
         \/ UNCHANGED << phase, plan, code >>
      /\ UNCHANGED << locked, regs, snap, got, sent, done, dmaVars, memoryVars, owner,
                      words_right, causes >>
      /\ UNCHANGED << network, run, layer, pc, packet, result_done, rc, start_written,
                      busy_ever, s2mm_active, recovered >>
  BY DriverStays, Places, Records DEF TakeAbort, EndWith, deviceFrame, DriverInv, CommandInv,
     ErrorCodes, ErrorEvents, FatalCodes
<1> USE <1>1 DEF DriverInv
<1>2. DriverTypeOK'
  <2>1. plan' \in Seq(Packets) /\ phase' \in {"idle", "checking", "loading", "computing", "sending"}
    <3>1. plan \in Seq(Packets) /\ phase \in {"idle", "checking", "loading", "computing", "sending"}
      BY DEF DriverTypeOK
    <3>2. CASE phase' = "idle" /\ plan' = << >>
      BY <3>2
    <3>3. CASE UNCHANGED << phase, plan >>
      BY <3>1, <3>3
    <3> QED BY <3>2, <3>3
  <2> QED BY <2>1 DEF DriverTypeOK, ErrorCodes, ErrorEvents, FatalCodes
<1>3. CommandInv' /\ DeviceInv' /\ IdleInv'
  BY DEF CommandInv, DeviceInv, IdleInv
<1>4. DmaInv' /\ OutputInv' /\ MemoryInv'
  BY DEF DmaInv, OutputInv, MemoryInv
<1>5. LinkInv' /\ PlanInv' /\ CauseInv'
  BY DEF LinkInv, PlanInv, Due, Taken, CauseInv
<1> QED BY <1>2, <1>3, <1>4, <1>5

LEMMA TakeClearStep ==
  ASSUME DriverInv, TakeClear, UNCHANGED << deviceFrame, causes >>
  PROVE  DriverInv'
<1>1. /\ Place = "configure" /\ Place' = Place /\ command' = "none"
      /\ done' = FALSE /\ code' = "ERR_NONE"
      /\ UNCHANGED << locked, regs, phase, plan, snap, got, sent, dmaVars, memoryVars, owner,
                      words_right, causes >>
      /\ UNCHANGED << network, run, layer, pc, packet, result_done, rc, start_written,
                      busy_ever, s2mm_active, recovered >>
  BY DriverStays, Places DEF TakeClear, deviceFrame, DriverInv, CommandInv
<1> USE <1>1 DEF DriverInv
<1>2. DriverTypeOK'
  BY DEF DriverTypeOK, ErrorCodes
<1>3. CommandInv' /\ DeviceInv' /\ IdleInv'
  BY DEF CommandInv, DeviceInv, IdleInv
<1>4. DmaInv' /\ OutputInv' /\ MemoryInv'
  BY DEF DmaInv, OutputInv, MemoryInv
<1>5. LinkInv' /\ PlanInv' /\ CauseInv'
  BY DEF LinkInv, PlanInv, Due, Taken, CauseInv
<1> QED BY <1>2, <1>3, <1>4, <1>5

LEMMA PlanFacts ==
  ASSUME NEW op \in Operations
  PROVE  PacketPlan(op) \in Seq(Packets) /\ PacketPlan(op) # << >>
<1>1. CASE op = OP_CONV
  BY <1>1 DEF PacketPlan, Packets
<1>2. CASE op = OP_RESIDUAL_ADD
  BY <1>2 DEF PacketPlan, Packets
<1>3. CASE op = OP_GLOBAL_AVG_POOL
  BY <1>3 DEF PacketPlan, Packets
<1> QED BY <1>1, <1>2, <1>3 DEF Operations

LEMMA AcceptStep ==
  ASSUME DriverInv, Accept, UNCHANGED << deviceFrame, causes >>
  PROVE  DriverInv'
<1>1. /\ Place' = Place /\ (\A s : At(s)' <=> At(s))
      /\ phase = "checking" /\ Accepted(regs)
      /\ phase' = "loading" /\ plan' = PacketPlan(regs.op) /\ snap' = regs
      /\ got' = 0 /\ sent' = 0
      /\ UNCHANGED << command, locked, regs, done, code, dmaVars, memoryVars, owner,
                      words_right, causes >>
      /\ UNCHANGED << network, run, layer, pc, packet, result_done, rc, start_written,
                      busy_ever, s2mm_active, recovered >>
  BY DriverStays DEF Accept, deviceFrame
<1>2. plan' \in Seq(Packets) /\ plan' # << >>
  BY <1>1, AcceptedFacts, PlanFacts DEF DriverInv
<1> USE <1>1 DEF DriverInv
<1>3. DriverTypeOK'
  BY <1>2 DEF DriverTypeOK
<1>4. CommandInv' /\ DeviceInv' /\ IdleInv'
  BY <1>2 DEF CommandInv, DeviceInv, IdleInv
<1>5. DmaInv' /\ OutputInv' /\ MemoryInv'
  BY DEF DmaInv, OutputInv, MemoryInv
<1>6. LinkInv' /\ PlanInv' /\ CauseInv'
  <2>1. Due' = Due /\ Taken' = Taken
    BY DEF Due, Taken
  <2> QED BY <2>1 DEF LinkInv, PlanInv, CauseInv
<1> QED BY <1>3, <1>4, <1>5, <1>6

LEMMA RejectStep ==
  ASSUME DriverInv, Reject, causes' = causes \cup {"rejected"}, UNCHANGED deviceFrame
  PROVE  DriverInv'
<1>1. /\ Place' = Place /\ (\A s : At(s)' <=> At(s))
      /\ phase = "checking" /\ phase' = "idle" /\ plan' = << >>
      /\ code' \in {code, "ERR_INVALID_OPERATION", "ERR_INVALID_CONFIG"}
      /\ UNCHANGED << command, locked, regs, snap, got, sent, done, dmaVars, memoryVars, owner,
                      words_right >>
      /\ UNCHANGED << network, run, layer, pc, packet, result_done, rc, start_written,
                      busy_ever, s2mm_active, recovered >>
  BY DriverStays, Records DEF Reject, EndWith, deviceFrame, ErrorCodes, ErrorEvents, FatalCodes
<1> USE <1>1 DEF DriverInv
<1>2. DriverTypeOK'
  BY DEF DriverTypeOK, ErrorCodes, ErrorEvents, FatalCodes
<1>3. CommandInv' /\ DeviceInv' /\ IdleInv'
  BY DEF CommandInv, DeviceInv, IdleInv
<1>4. DmaInv' /\ OutputInv' /\ MemoryInv'
  BY DEF DmaInv, OutputInv, MemoryInv
<1>5. LinkInv' /\ PlanInv'
  BY DEF LinkInv, PlanInv
<1>6. CauseInv'
  <2>1. causes' # {}
    BY DEF DriverTypeOK
  <2> QED BY <2>1 DEF CauseInv, IdleInv
<1> QED BY <1>2, <1>3, <1>4, <1>5, <1>6

(* A plan that is used up is not the plan of an operation that has just      *)
(* started.                                                                 *)
LEMMA NotComputingYet ==
  ASSUME DriverInv, phase \in {"computing", "sending"}
  PROVE  Place # "admit"
<1>1. plan = << >> /\ Accepted(regs)
  BY DEF DriverInv, DeviceInv
<1>2. Place = "admit" => plan = PacketPlan(regs.op)
  BY <1>1 DEF DriverInv, PlanInv, Due
<1> QED BY <1>1, <1>2, AcceptedFacts, PlanFacts DEF DriverInv

LEMMA ComputeStep ==
  ASSUME DriverInv, Compute, UNCHANGED << deviceFrame, causes >>
  PROVE  DriverInv'
<1>1. /\ Place' = Place /\ (\A s : At(s)' <=> At(s))
      /\ phase = "computing" /\ phase' = "sending"
      /\ code' \in {code, "ERR_ACC_OVERFLOW"}
      /\ UNCHANGED << command, locked, regs, plan, snap, got, sent, done, dmaVars, memoryVars,
                      owner, words_right, causes >>
      /\ UNCHANGED << network, run, layer, pc, packet, result_done, rc, start_written,
                      busy_ever, s2mm_active, recovered >>
  BY DriverStays, Records DEF Compute, deviceFrame, ErrorCodes, ErrorEvents, WarningCodes
<1>2. Place # "admit"
  BY <1>1, NotComputingYet
<1> USE <1>1 DEF DriverInv
<1>3. DriverTypeOK'
  BY DEF DriverTypeOK, ErrorCodes, ErrorEvents, WarningCodes
<1>4. CommandInv' /\ DeviceInv' /\ IdleInv'
  BY DEF CommandInv, DeviceInv, IdleInv
<1>5. DmaInv' /\ OutputInv' /\ MemoryInv'
  BY DEF DmaInv, OutputInv, MemoryInv
<1>6. LinkInv' /\ PlanInv'
  <2>1. Due' = Due /\ Taken' = Taken
    BY DEF Due, Taken
  <2> QED BY <2>1 DEF LinkInv, PlanInv
<1>7. CauseInv'
  BY <1>2 DEF CauseInv, IdleInv
<1> QED BY <1>3, <1>4, <1>5, <1>6, <1>7

LEMMA LockupStep ==
  ASSUME DriverInv, Lockup, UNCHANGED << deviceFrame, causes >>
  PROVE  DriverInv'
<1>1. /\ Place' = Place /\ (\A s : At(s)' <=> At(s)) /\ locked' = TRUE
      /\ UNCHANGED << command, regs, phase, plan, snap, got, sent, done, code, dmaVars, memoryVars,
                      owner, words_right, causes >>
      /\ UNCHANGED << network, run, layer, pc, packet, result_done, rc, start_written,
                      busy_ever, s2mm_active, recovered >>
  BY DriverStays DEF Lockup, deviceFrame
<1> USE <1>1 DEF DriverInv
<1>2. DriverTypeOK'
  BY DEF DriverTypeOK
<1>3. CommandInv' /\ DeviceInv' /\ IdleInv'
  BY DEF CommandInv, DeviceInv, IdleInv
<1>4. DmaInv' /\ OutputInv' /\ MemoryInv'
  BY DEF DmaInv, OutputInv, MemoryInv
<1>5. LinkInv' /\ PlanInv' /\ CauseInv'
  BY DEF LinkInv, PlanInv, Due, Taken, CauseInv
<1> QED BY <1>2, <1>3, <1>4, <1>5

-----------------------------------------------------------------------------
(* The words.                                                               *)

(* A word the accelerator takes is of the packet it is loading, right, and   *)
(* the last one of the packet exactly when it is the last one in the         *)
(* channel.                                                                 *)
LEMMA WordFits ==
  ASSUME DriverInv, mm2s.left > 0, InputNeeded
  PROVE  /\ mm2s.tag = << owner[1], owner[2], Head(plan), TRUE >>
         /\ got + 4 = snap.bytes[Head(plan)] <=> mm2s.left = 1
         /\ plan \in Seq(Packets) /\ plan # << >> /\ got \in Nat /\ mm2s.left \in Nat
         /\ 4 * mm2s.left + got = regs.bytes[Head(plan)] /\ snap = regs
         /\ phase = "loading" /\ Accepted(regs) /\ words_right
<1>1. phase = "loading" /\ snap = regs /\ Accepted(regs) /\ plan # << >> /\ words_right
  BY DEF InputNeeded, DriverInv, DeviceInv, LinkInv
<1>2. plan \in Seq(Packets) /\ got \in Nat /\ mm2s.left \in Nat
  BY DEF DriverInv, DriverTypeOK
<1>3. /\ mm2s.tag = << owner[1], owner[2], Head(plan), TRUE >>
      /\ 4 * mm2s.left + got = regs.bytes[Head(plan)]
  BY <1>1 DEF DriverInv, LinkInv, Due, Taken
<1> QED BY <1>1, <1>2, <1>3

(* A sequence without its head is empty when it had one element.            *)
LEMMA Tails ==
  ASSUME NEW S, NEW s \in Seq(S), s # << >>
  PROVE  Tail(s) \in Seq(S) /\ (Tail(s) = << >> <=> Len(s) = 1)
<1>1. Tail(s) \in Seq(S) /\ Len(Tail(s)) = Len(s) - 1 /\ Len(s) \in Nat
  BY HeadTailProperties
<1>2. Tail(s) = << >> => Len(Tail(s)) = 0
  BY EmptySeq
<1>3. Tail(s) # << >> => Len(Tail(s)) # 0
  BY <1>1, EmptySeq
<1> QED BY <1>1, <1>2, <1>3

LEMMA TransferInStep ==
  ASSUME DriverInv, TransferIn
  PROVE  DriverInv'
<1>1. /\ Place' = Place /\ (\A s : At(s)' <=> At(s)) /\ mm2s.left > 0 /\ InputNeeded
      /\ UNCHANGED << command, locked, regs, snap, sent, done, s2mm, dma_error, resetting,
                      memoryVars, owner, causes >>
      /\ UNCHANGED << network, run, layer, pc, packet, result_done, rc, start_written,
                      busy_ever, s2mm_active, recovered >>
  BY DriverStays DEF TransferIn, TakeWord
<1>2. /\ plan \in Seq(Packets) /\ plan # << >> /\ got \in Nat /\ mm2s.left \in Nat
      /\ 4 * mm2s.left + got = regs.bytes[Head(plan)] /\ phase = "loading"
      /\ Accepted(regs) /\ words_right' = TRUE
      /\ mm2s.tag = << owner[1], owner[2], Head(plan), TRUE >>
  BY <1>1, WordFits DEF TransferIn
<1>3. /\ UNCHANGED code
      /\ \/ /\ mm2s.left = 1 /\ mm2s' = NoTransfer /\ got' = 0 /\ plan' = Tail(plan)
            /\ IF Len(plan) = 1 THEN phase' = "computing" ELSE phase' = phase
         \/ /\ mm2s.left > 1 /\ mm2s' = [mm2s EXCEPT !.left = @ - 1]
            /\ got' = got + 4 /\ UNCHANGED << plan, phase >>
  BY <1>1, <1>2, WordFits DEF TransferIn, TakeWord, WordLeaves
<1>4. /\ plan' \in Seq(Packets) /\ (plan' = << >> <=> phase' # "loading")
      /\ phase' \in {"loading", "computing"}
  <2>1. CASE mm2s.left = 1
    <3>1. /\ plan' = Tail(plan) /\ Tail(plan) \in Seq(Packets)
          /\ Tail(plan) = << >> <=> Len(plan) = 1
      BY <1>2, <1>3, <2>1, Tails
    <3> QED BY <1>2, <1>3, <2>1, <3>1
  <2>2. CASE mm2s.left # 1
    BY <1>2, <1>3, <2>2
  <2> QED BY <2>1, <2>2
<1>5. Place \notin BeforeArm \cup AfterArm \/ Place = "sent" \/ Place \in {"called", "check"}
  BY <1>1, <1>2 DEF DriverInv, IdleInv, DmaInv
<1>6. ~resetting
  BY DEF TransferIn, ChannelRuns
<1> USE <1>1, <1>2 DEF DriverInv
<1>7. DriverTypeOK'
  <2>1. mm2s' \in [left : Nat, tag : {<< >>} \cup Nat \X Nat \X Packets \X BOOLEAN]
    <3>1. CASE mm2s' = NoTransfer
      BY <3>1 DEF NoTransfer
    <3>2. CASE mm2s.left > 1 /\ mm2s' = [mm2s EXCEPT !.left = @ - 1]
      <4>1. mm2s \in [left : Nat, tag : {<< >>} \cup Nat \X Nat \X Packets \X BOOLEAN]
        BY DEF DriverTypeOK
      <4>2. mm2s.left - 1 \in Nat
        BY <3>2
      <4> HIDE DEF DriverInv
      <4> QED BY <3>2, <4>1, <4>2
    <3> QED BY <1>3, <3>1, <3>2
  <2>2. got' \in Nat
    BY <1>3
  <2> QED BY <1>3, <1>4, <2>1, <2>2 DEF DriverTypeOK
<1>8. CommandInv' /\ DeviceInv' /\ IdleInv'
  BY <1>3, <1>4 DEF CommandInv, DeviceInv, IdleInv
<1>9. DmaInv' /\ OutputInv' /\ MemoryInv'
  BY <1>3, <1>4, <1>5, <1>6 DEF DmaInv, OutputInv, MemoryInv, NoTransfer
<1>10. LinkInv'
  <2>1. CASE mm2s.left = 1
    <3>1. mm2s'.left = 0
      BY <1>3, <2>1 DEF NoTransfer
    <3> QED BY <3>1 DEF LinkInv
  <2>2. CASE mm2s.left # 1
    <3>1. mm2s'.left = mm2s.left - 1 /\ mm2s'.tag = mm2s.tag /\ got' = got + 4 /\ plan' = plan
      BY <1>3, <2>2 DEF DriverTypeOK
    <3>2. phase' = "loading" /\ Due' = plan /\ Taken' = got + 4
      BY <1>3, <2>2, <3>1 DEF Due, Taken
    <3>3. 4 * mm2s'.left + Taken' = regs.bytes[Head(plan)]
      <4> HIDE DEF DriverInv
      <4>1. \A l, g \in Nat : 4 * (l - 1) + (g + 4) = 4 * l + g
        OBVIOUS
      <4> QED BY <3>1, <3>2, <4>1
    <3>4. Place \in {"admit", "send", "sent"} => owner = << run, layer >>
      BY DEF LinkInv
    <3> QED BY <3>1, <3>2, <3>3, <3>4 DEF LinkInv
  <2> QED BY <2>1, <2>2
<1>11. PlanInv'
  <2>1. Place = "sent" => plan = DueFrom(regs.op, packet) /\ Uses(regs.op, packet)
    BY DEF PlanInv, Due
  <2>2. Place = "sent" => Tail(plan) = DueAfter(regs.op, packet)
    BY <2>1, AcceptedFacts, DueFacts DEF DriverTypeOK
  <2>3. CASE mm2s.left = 1
    <3>1. mm2s'.left = 0 /\ got' = 0 /\ plan' = Tail(plan)
      BY <1>3, <2>3 DEF NoTransfer
    <3>2. Due' = Tail(plan) /\ Taken' = 0
      BY <1>4, <3>1 DEF Due, Taken
    <3> QED BY <1>5, <2>2, <3>1, <3>2 DEF PlanInv
  <2>4. CASE mm2s.left # 1
    <3>1. mm2s'.left > 0 /\ plan' = plan
      BY <1>3, <2>4 DEF DriverTypeOK
    <3> QED BY <1>3, <1>4, <1>5, <2>1, <3>1 DEF PlanInv, Due, Taken
  <2> QED BY <2>3, <2>4
<1>12. CauseInv'
  BY <1>3, <1>4, <1>5 DEF CauseInv
<1> QED BY <1>7, <1>8, <1>9, <1>10, <1>11, <1>12

LEMMA TransferOutStep ==
  ASSUME DriverInv, TransferOut
  PROVE  DriverInv'
<1>1. /\ Place' = Place /\ (\A s : At(s)' <=> At(s))
      /\ phase = "sending" /\ s2mm.state = "armed" /\ ~resetting
      /\ \/ /\ phase' = "idle" /\ done' = TRUE
            /\ s2mm' = [s2mm EXCEPT !.state = "draining", !.right = words_right]
         \/ UNCHANGED << phase, s2mm, done >>
      /\ ddr' = [ddr EXCEPT ![s2mm.buffer] = FALSE] /\ sent' = sent + 4
      /\ UNCHANGED << command, locked, regs, snap, plan, got, code, mm2s, dma_error, resetting,
                      cache, owner, words_right, causes >>
      /\ UNCHANGED << network, run, layer, pc, packet, result_done, rc, start_written,
                      busy_ever, s2mm_active, recovered >>
  <2>1. done \in BOOLEAN
    BY DEF DriverInv, DriverTypeOK
  <2> QED BY <2>1, DriverStays DEF TransferOut, GiveWord, OutputOffered, WordArrives, ChannelRuns
<1>2. /\ s2mm.buffer = layer /\ words_right = TRUE /\ layer \in Buffers
      /\ \A b \in 0..(layer - 1) : ddr'[b] = ddr[b]
  <2>1. s2mm.buffer = layer /\ words_right = TRUE
    BY <1>1 DEF DriverInv, OutputInv, LinkInv, DriverTypeOK
  <2>2. ddr' = [ddr EXCEPT ![layer] = FALSE] /\ DOMAIN ddr = Buffers
    BY <1>1, <2>1 DEF DriverInv, DriverTypeOK
  <2>3. DriverTypeOK
    BY DEF DriverInv
  <2>4. layer \in Buffers /\ layer \in Nat /\ 0 \in Buffers /\ layer >= 1
        /\ \A b \in 1..(layer - 1) : b \in Buffers /\ b # layer
    BY <2>3, LayerFacts
  <2>5. \A b \in 0..(layer - 1) : b \in Buffers /\ b # layer
    BY <2>4
  <2> QED BY <2>1, <2>2, <2>4, <2>5
<1> USE <1>1 DEF DriverInv
<1>3. DriverTypeOK'
  <2>1. s2mm' \in [state : {"idle", "armed", "draining"}, buffer : Buffers, right : BOOLEAN]
    BY <1>2 DEF DriverTypeOK
  <2>2. ddr' \in [Buffers -> BOOLEAN] /\ sent' \in Nat
    BY DEF DriverTypeOK
  <2> QED BY <2>1, <2>2 DEF DriverTypeOK
<1>4. CommandInv' /\ DeviceInv' /\ IdleInv'
  BY DEF CommandInv, DeviceInv, IdleInv
<1>5. Place \notin BeforeArm \cup {"start", "code", "output"} /\ ~(Place = "returned" /\ rc \in Good)
  BY DEF IdleInv, DmaInv
<1>6. DmaInv'
  BY <1>5 DEF DmaInv
<1>7. OutputInv'
  <2>1. CASE s2mm' = [s2mm EXCEPT !.state = "draining", !.right = words_right] /\ phase' = "idle"
    <3>1. s2mm'.buffer = layer /\ s2mm'.state = "draining" /\ s2mm'.right
      BY <1>2, <2>1 DEF DriverTypeOK
    <3> QED BY <2>1, <3>1 DEF OutputInv
  <2>2. CASE UNCHANGED << phase, s2mm, done >>
    BY <2>2 DEF OutputInv
  <2> QED BY <2>1, <2>2
<1>8. MemoryInv'
  BY <1>2, <1>5, LayerFacts DEF MemoryInv
<1>9. LinkInv' /\ PlanInv'
  BY DEF LinkInv, PlanInv, Due, Taken
<1>10. CauseInv'
  BY <1>5, NotComputingYet DEF CauseInv
<1> QED BY <1>3, <1>4, <1>6, <1>7, <1>8, <1>9, <1>10

-----------------------------------------------------------------------------
(* The DMA engine and the memory.                                           *)

LEMMA DmaFailsStep ==
  ASSUME DriverInv, DmaFails
  PROVE  DriverInv'
<1>1. /\ Place' = Place /\ (\A s : At(s)' <=> At(s))
      /\ UNCHANGED << deviceVars, mm2s, s2mm, resetting, memoryVars, owner, words_right >>
      /\ UNCHANGED << network, run, layer, pc, packet, result_done, rc, start_written,
                      busy_ever, s2mm_active, recovered >>
      /\ causes' = causes \cup {"dma"} /\ ~resetting
  BY DriverStays DEF DmaFails, TransferFails, ChannelRuns
<1>2. PICK ch \in Channels : dma_error' = dma_error \cup {ch} /\ ChannelBusy(ch)
  BY DEF DmaFails, TransferFails
<1> USE <1>1, <1>2 DEF DriverInv
<1>3. DriverTypeOK'
  BY DEF DriverTypeOK
<1>4. CommandInv' /\ DeviceInv' /\ IdleInv'
  BY DEF CommandInv, DeviceInv, IdleInv
<1>5. DmaInv'
  BY DEF DmaInv, ChannelBusy, Channels, DriverTypeOK
<1>6. OutputInv' /\ MemoryInv'
  BY DEF OutputInv, MemoryInv
<1>7. LinkInv' /\ PlanInv'
  BY DEF LinkInv, PlanInv, Due, Taken
<1>8. CauseInv'
  <2>1. causes' # {}
    BY DEF DriverTypeOK
  <2> QED BY <2>1 DEF CauseInv
<1> QED BY <1>3, <1>4, <1>5, <1>6, <1>7, <1>8

memoryFrame == << deviceVars, driverVars, historyVars >>

LEMMA DrainStep ==
  ASSUME DriverInv, Drain, UNCHANGED memoryFrame
  PROVE  DriverInv'
<1>1. /\ Place' = Place /\ (\A s : At(s)' <=> At(s))
      /\ UNCHANGED << deviceVars, mm2s, resetting, dma_error, cache, historyVars >>
      /\ UNCHANGED << network, run, layer, pc, packet, result_done, rc, start_written,
                      busy_ever, s2mm_active, recovered >>
      /\ s2mm.state = "draining" /\ ~resetting
      /\ s2mm' = IdleS2mm /\ ddr' = [ddr EXCEPT ![s2mm.buffer] = s2mm.right]
  BY DriverStays DEF Drain, ChannelRuns, memoryFrame
<1>2. /\ s2mm.buffer = layer /\ s2mm'.state = "idle" /\ s2mm.right \in BOOLEAN
      /\ ddr' = [ddr EXCEPT ![layer] = s2mm.right] /\ DOMAIN ddr = Buffers
  BY <1>1 DEF DriverInv, OutputInv, IdleS2mm, DriverTypeOK
<1>3. ddr'[layer] = s2mm.right /\ \A b \in 0..(layer - 1) : ddr'[b] = ddr[b]
  <2>1. DriverTypeOK
    BY DEF DriverInv
  <2>2. /\ layer \in Buffers /\ layer \in Nat /\ 0 \in Buffers /\ layer >= 1
        /\ \A b \in 1..(layer - 1) : b \in Buffers /\ b # layer
    BY <2>1, LayerFacts
  <2>3. \A b \in 0..(layer - 1) : b \in Buffers /\ b # layer
    BY <2>2
  <2> QED BY <1>2, <2>2, <2>3
<1> USE <1>1 DEF DriverInv
<1>4. DriverTypeOK'
  <2>1. s2mm' \in [state : {"idle", "armed", "draining"}, buffer : Buffers, right : BOOLEAN]
    BY BuffersAssumption DEF IdleS2mm
  <2>2. ddr' \in [Buffers -> BOOLEAN]
    BY <1>2 DEF DriverTypeOK
  <2> QED BY <2>1, <2>2 DEF DriverTypeOK
<1>5. CommandInv' /\ DeviceInv' /\ IdleInv'
  BY DEF CommandInv, DeviceInv, IdleInv
<1>6. DmaInv'
  BY <1>2 DEF DmaInv
<1>7. OutputInv' /\ MemoryInv'
  BY <1>2, <1>3, LayerFacts DEF OutputInv, MemoryInv, DmaInv
<1>8. LinkInv' /\ PlanInv' /\ CauseInv'
  BY DEF LinkInv, PlanInv, Due, Taken, CauseInv
<1> QED BY <1>4, <1>5, <1>6, <1>7, <1>8

LEMMA ResetCompletesStep ==
  ASSUME DriverInv, ResetCompletes, UNCHANGED memoryFrame
  PROVE  DriverInv'
<1>1. /\ Place' = Place /\ (\A s : At(s)' <=> At(s))
      /\ UNCHANGED << deviceVars, memoryVars, historyVars >>
      /\ UNCHANGED << network, run, layer, pc, packet, result_done, rc, start_written,
                      busy_ever, s2mm_active, recovered >>
      /\ resetting /\ resetting' = FALSE /\ dma_error' = {}
      /\ mm2s' = NoTransfer /\ s2mm' = IdleS2mm
  BY DriverStays DEF ResetCompletes, memoryFrame
<1>2. mm2s'.left = 0 /\ s2mm'.state = "idle"
  BY <1>1 DEF NoTransfer, IdleS2mm
<1>3. Place \notin AfterArm
  BY <1>1 DEF DriverInv, DmaInv
<1> USE <1>1 DEF DriverInv
<1>4. DriverTypeOK'
  <2>1. s2mm' \in [state : {"idle", "armed", "draining"}, buffer : Buffers, right : BOOLEAN]
    BY BuffersAssumption DEF IdleS2mm
  <2>2. mm2s' \in [left : Nat, tag : {<< >>} \cup Nat \X Nat \X Packets \X BOOLEAN]
    BY DEF NoTransfer
  <2> QED BY <2>1, <2>2 DEF DriverTypeOK
<1>5. CommandInv' /\ DeviceInv' /\ IdleInv'
  BY DEF CommandInv, DeviceInv, IdleInv
<1>6. DmaInv'
  BY <1>2, <1>3 DEF DmaInv
<1>7. OutputInv' /\ MemoryInv'
  BY <1>2, <1>3 DEF OutputInv, MemoryInv
<1>8. LinkInv' /\ PlanInv' /\ CauseInv'
  BY <1>2, <1>3 DEF LinkInv, PlanInv, Due, Taken, CauseInv
<1> QED BY <1>4, <1>5, <1>6, <1>7, <1>8

(* A line that is fetched or evicted changes no buffer that is right.       *)
LEMMA CacheStep ==
  ASSUME DriverInv, NEW b \in Buffers, Prefetch(b) \/ Evict(b), UNCHANGED memoryFrame
  PROVE  DriverInv'
<1>1. /\ Place' = Place /\ (\A s : At(s)' <=> At(s))
      /\ UNCHANGED << deviceVars, dmaVars, historyVars >>
      /\ UNCHANGED << network, run, layer, pc, packet, result_done, rc, start_written,
                      busy_ever, s2mm_active, recovered >>
  BY DriverStays DEF Prefetch, Evict, memoryFrame
<1>2. ddr \in [Buffers -> BOOLEAN] /\ cache \in [Buffers -> {"none", "clean", "stale", "dirty"}]
  BY DEF DriverInv, DriverTypeOK
<1>3. /\ \A c \in Buffers : c # b => ddr'[c] = ddr[c] /\ cache'[c] = cache[c]
      /\ cache'[b] \in {"none", "clean", "stale"}
      /\ cache'[b] = "stale" => ~ddr[b]
      /\ cache[b] # "dirty" => ddr'[b] = ddr[b]
      /\ cache[b] = "dirty" => cache'[b] = "none" /\ ddr'[b] = (b = 0)
      /\ ddr' \in [Buffers -> BOOLEAN] /\ cache' \in [Buffers -> {"none", "clean", "stale", "dirty"}]
  <2>1. CASE Prefetch(b)
    BY <1>2, <2>1 DEF Prefetch
  <2>2. CASE Evict(b)
    BY <1>2, <2>2 DEF Evict, WriteBack
  <2> QED BY <2>1, <2>2
<1> USE <1>1 DEF DriverInv
<1>4. DriverTypeOK'
  BY <1>3 DEF DriverTypeOK
<1>5. CommandInv' /\ DeviceInv' /\ IdleInv' /\ DmaInv'
  BY DEF CommandInv, DeviceInv, IdleInv, DmaInv
<1>6. OutputInv' /\ MemoryInv'
  <2>1. layer \in Buffers /\ 0 \in Buffers /\ layer # 0
        /\ \A c \in 1..(layer - 1) : c \in Buffers /\ c # 0
    BY LayerFacts
  <2>2. MemoryInv'
    BY <1>3, <2>1 DEF MemoryInv
  <2>3. OutputInv'
    BY <1>3, <2>1 DEF OutputInv, MemoryInv
  <2> QED BY <2>2, <2>3
<1>7. LinkInv' /\ PlanInv' /\ CauseInv'
  BY DEF LinkInv, PlanInv, Due, Taken, CauseInv
<1> QED BY <1>4, <1>5, <1>6, <1>7

LEMMA StutterStep ==
  ASSUME DriverInv, UNCHANGED vars
  PROVE  DriverInv'
<1>1. /\ Place' = Place /\ (\A s : At(s)' <=> At(s))
      /\ UNCHANGED << deviceVars, dmaVars, memoryVars, historyVars >>
      /\ UNCHANGED << network, run, layer, pc, packet, result_done, rc, start_written,
                      busy_ever, s2mm_active, recovered >>
  BY DriverStays DEF vars
<1> USE <1>1 DEF DriverInv
<1>2. DriverTypeOK'
  BY DEF DriverTypeOK
<1>3. CommandInv' /\ DeviceInv' /\ IdleInv'
  BY DEF CommandInv, DeviceInv, IdleInv
<1>4. DmaInv' /\ OutputInv' /\ MemoryInv'
  BY DEF DmaInv, OutputInv, MemoryInv
<1>5. LinkInv' /\ PlanInv' /\ CauseInv'
  BY DEF LinkInv, PlanInv, Due, Taken, CauseInv
<1> QED BY <1>2, <1>3, <1>4, <1>5

-----------------------------------------------------------------------------
(* The invariant holds.                                                     *)

LEMMA InitEstablishes ==
  ASSUME Init
  PROVE  DriverInv
<1>1. /\ Place = "called" /\ (\A s : At(s) => s = "called")
      /\ mm2s.left = 0 /\ s2mm.state = "idle" /\ dma_error = {} /\ resetting = FALSE
      /\ command = "none" /\ phase = "idle" /\ plan = << >> /\ got = 0 /\ sent = 0
      /\ done = FALSE /\ code = "ERR_NONE" /\ locked = FALSE
      /\ regs = ResetConfig /\ snap = ResetConfig
      /\ network \in Networks /\ run = 0 /\ layer = 1 /\ packet = "WEIGHT" /\ rc = "ACCEL_OK"
      /\ result_done = FALSE /\ start_written = FALSE /\ busy_ever = FALSE
      /\ s2mm_active = FALSE /\ recovered = TRUE /\ owner = << 0, 0 >> /\ words_right = TRUE
      /\ causes = {} /\ pc = << "called" >>
  BY DEF Init, DeviceInit, DmaInit, Place, At, NoTransfer, IdleS2mm
<1> USE <1>1
<1>2. DriverTypeOK
  <2>1. PcTypeOK
    BY DEF PcTypeOK, Steps
  <2>2. mm2s \in [left : Nat, tag : {<< >>} \cup Nat \X Nat \X Packets \X BOOLEAN]
    BY DEF Init, DmaInit, NoTransfer
  <2>3. s2mm \in [state : {"idle", "armed", "draining"}, buffer : Buffers, right : BOOLEAN]
    BY BuffersAssumption DEF Init, DmaInit, IdleS2mm
  <2>4. ddr \in [Buffers -> BOOLEAN] /\ cache \in [Buffers -> {"none", "clean", "stale", "dirty"}]
    BY DEF Init, DmaInit
  <2>5. layer \in 1..Len(network)
    BY NetworksAssumption
  <2>6. ResetConfig \in Configs
    BY ConfigsAssumption
  <2>7. /\ plan \in Seq(Packets) /\ packet \in Packets /\ code \in ErrorCodes /\ rc \in Outcomes
    BY DEF Packets, ErrorCodes, Outcomes
  <2>8. /\ {result_done, start_written, busy_ever, s2mm_active, recovered, words_right} \subseteq BOOLEAN
        /\ {done, locked} \subseteq BOOLEAN /\ run \in Nat /\ got \in Nat /\ sent \in Nat
    OBVIOUS
  <2> QED BY <2>1, <2>2, <2>3, <2>4, <2>5, <2>6, <2>7, <2>8 DEF DriverTypeOK, PcTypeOK
<1>3. CommandInv /\ DeviceInv /\ IdleInv /\ DmaInv
  BY DEF CommandInv, DeviceInv, IdleInv, DmaInv
<1>4. MemoryInv
  BY BuffersAssumption DEF MemoryInv, Init, DmaInit
<1>5. OutputInv /\ LinkInv /\ PlanInv /\ CauseInv
  BY DEF OutputInv, LinkInv, PlanInv, CauseInv
<1> QED BY <1>2, <1>3, <1>4, <1>5 DEF DriverInv

LEMMA FirmwarePreserves ==
  ASSUME DriverInv, Firmware
  PROVE  DriverInv'
<1>1. CASE RunLayer /\ UNCHANGED << loopVars, recovered >>
  BY <1>1, CheckBusyStep, ClearResultsStep, ConfigureStep, PrepareS2mmStep, StartOperationStep,
     PollAdmitStep, SendPacketStep, PollPacketStep, PollDoneStep, ReadCodeStep,
     AbortOperationStep, PollAbortedStep, PollOutputStep DEF RunLayer
<1>2. CASE Clock
  BY <1>2, PollAgainStep, GiveUpStep DEF Clock
<1>3. CASE Scheduler
  BY <1>3, CallRunStep, NextLayerStep, RecoverAcceleratorStep, PollIdleStep, PollResetStep
  DEF Scheduler, schedulerFrame
<1> QED BY <1>1, <1>2, <1>3 DEF Firmware

LEMMA HardwarePreserves ==
  ASSUME DriverInv, Hardware
  PROVE  DriverInv'
<1>1. CASE TransferIn \/ TransferOut
  BY <1>1, TransferInStep, TransferOutStep
<1>2. CASE DeviceSteps
  BY <1>2, TakeStartStep, TakeAbortStep, TakeClearStep, AcceptStep, RejectStep, ComputeStep,
     LockupStep DEF DeviceSteps, TakeCommand, deviceFrame
<1>3. CASE DmaFails
  BY <1>3, DmaFailsStep
<1>4. CASE MemorySteps
  BY <1>4, DrainStep, ResetCompletesStep, CacheStep DEF MemorySteps, memoryFrame
<1> QED BY <1>1, <1>2, <1>3, <1>4 DEF Hardware

(* The driver and the hardware together keep the invariant, in every run of  *)
(* every network.                                                           *)
THEOREM DriverInvariance == Spec => []DriverInv
<1>1. Init => DriverInv
  BY InitEstablishes
<1>2. DriverInv /\ [Next]_vars => DriverInv'
  BY FirmwarePreserves, HardwarePreserves, StutterStep DEF Next, Stopped
<1> QED BY <1>1, <1>2, PTL DEF Spec

-----------------------------------------------------------------------------
(* What follows from it.                                                    *)

(* A layer reported as successful has its output right in memory, and the   *)
(* processor reads it from there (accel_run_layer, dma_s2mm_wait_complete).  *)
THEOREM OkMeansOutputHolds == Spec => []OkMeansOutput
<1>1. DriverInv => OkMeansOutput
  BY Places, LayerFacts DEF DriverInv, MemoryInv, OkMeansOutput, CpuSees, DriverTypeOK
<1> QED BY <1>1, DriverInvariance, PTL

(* Nothing is left over for the next run after a recovery that succeeded.   *)
THEOREM QuietAfterRecoveryHolds == Spec => []QuietAfterRecovery
<1>1. DriverInv => QuietAfterRecovery
  BY Places DEF DriverInv, DmaInv, IdleInv, CommandInv, DriverTypeOK, QuietAfterRecovery,
     ChannelBusy
<1> QED BY <1>1, DriverInvariance, PTL

(* The driver never sends a START or a configuration to a busy accelerator.  *)
THEOREM NeverProvokesHolds == Spec => []NeverProvokes
<1>1. DriverInv => NeverProvokes
  BY DEF DriverInv, DeviceInv, NeverProvokes
<1> QED BY <1>1, DriverInvariance, PTL

(* Every word that is taken belongs to the operation under way.             *)
THEOREM NoForeignWordsHolds == Spec => []NoForeignWords
<1>1. DriverInv => NoForeignWords
  BY DEF DriverInv, LinkInv, NoForeignWords
<1> QED BY <1>1, DriverInvariance, PTL

(* No layer fails without a reason outside the firmware.                    *)
THEOREM FailureHasCauseHolds == Spec => []FailureHasCause
<1>1. DriverInv => FailureHasCause
  BY Places DEF DriverInv, CauseInv, FailureHasCause
<1> QED BY <1>1, DriverInvariance, PTL

-----------------------------------------------------------------------------
(* The accelerator as the driver sees it implements its contract.           *)

(* A fatal code stays, and a fatal event leaves one.                        *)
LEMMA RecordFacts ==
  ASSUME code \in ErrorCodes, NEW c \in ErrorEvents
  PROVE  /\ Record(c) \in ErrorCodes
         /\ code \in FatalCodes => Record(c) = code
         /\ c \in FatalCodes => Record(c) \in FatalCodes
         /\ c \notin FatalCodes /\ Record(c) \in FatalCodes => Record(c) = code
<1>1. "ERR_NONE" \notin FatalCodes
  BY DEF FatalCodes
<1> QED BY <1>1 DEF Record, ErrorCodes

(* The firmware changes none of what the contract is about.                 *)
LEMMA FirmwareFrame ==
  ASSUME DriverInv, Firmware
  PROVE  UNCHANGED << phase, plan, done, code >>
<1>1. CASE RunLayer /\ UNCHANGED << loopVars, recovered >>
  <2>1. CASE Configure
    <3>1. ~DeviceBusy
      BY <2>1, Places DEF Configure, DriverInv, IdleInv
    <3> QED BY <2>1, <3>1 DEF Configure, WriteConfig
  <2>2. CASE ~Configure
    BY <1>1, <2>2 DEF RunLayer, CheckBusy, ClearResults, PrepareS2mm, StartOperation, PollAdmit,
       SendPacket, PollPacket, PollDone, ReadCode, AbortOperation, PollAborted, PollOutput, Post
  <2> QED BY <2>1, <2>2
<1>2. CASE Clock
  BY <1>2 DEF Clock, clockFrame
<1>3. CASE Scheduler
  BY <1>3 DEF Scheduler, CallRun, NextLayer, RecoverAccelerator, PollIdle, PollReset, Post
<1> QED BY <1>1, <1>2, <1>3 DEF Firmware

LEMMA DeviceContractStep ==
  ASSUME DriverInv, [Next]_vars
  PROVE  [Contract!CNext]_(Contract!cvars)
<1> USE DEF Contract!cvars
<1>1. /\ Contract!FatalCodes = FatalCodes /\ Contract!ErrorCodes = ErrorCodes
      /\ Contract!Operations = Operations
  BY DEF Contract!FatalCodes, FatalCodes, Contract!ErrorCodes, ErrorCodes, Contract!ErrorEvents,
     ErrorEvents, Contract!WarningCodes, WarningCodes, Contract!Operations, Operations,
     Contract!OP_CONV, Contract!OP_RESIDUAL_ADD, Contract!OP_GLOBAL_AVG_POOL
<1>2. /\ code \in ErrorCodes /\ done \in BOOLEAN /\ plan \in Seq(Packets)
      /\ phase = "loading" <=> plan # << >>
      /\ command = "CLEAR" => phase = "idle"
      /\ command = "START" => phase = "idle"
  BY Places DEF DriverInv, DriverTypeOK, DeviceInv, CommandInv, IdleInv
<1>3. /\ code' = code => Contract!NoNewFault
      /\ done' = done /\ command # "CLEAR" => Contract!NotDone
  BY <1>1, <1>2 DEF Contract!NoNewFault, Contract!FaultStays, Contract!NotDone
<1>4. CASE Firmware \/ Stopped \/ DmaFails \/ MemorySteps \/ UNCHANGED vars
  BY <1>4, FirmwareFrame DEF Stopped, DmaFails, MemorySteps, vars
<1>5. CASE TransferIn
  <2>1. /\ mm2s.left > 0 /\ InputNeeded /\ TakeWord(mm2s.left = 1)
    BY <1>5 DEF TransferIn, TakeWord
  <2>2. /\ phase = "loading" /\ plan # << >> /\ mm2s.left \in Nat
        /\ got + 4 = snap.bytes[Head(plan)] <=> mm2s.left = 1
    BY <2>1, WordFits
  <2>3. Contract!NoNewFault /\ Contract!NotDone
    BY <1>2, <1>3, <2>1, <2>2 DEF TakeWord
  <2>4. CASE mm2s.left = 1
    <3>1. /\ plan' = Tail(plan) /\ Len(plan) \in Nat /\ Len(plan) >= 1
          /\ IF Len(plan) = 1 THEN phase' = "computing" ELSE phase' = phase
          /\ Tail(plan) = << >> <=> Len(plan) = 1
      BY <1>2, <2>1, <2>2, <2>4, Tails, EmptySeq DEF TakeWord
    <3>2. Contract!Receive \/ Contract!Compute
      BY <2>2, <2>3, <3>1 DEF Contract!Receive, Contract!Compute
    <3> QED BY <3>2 DEF Contract!CNext
  <2>5. CASE mm2s.left # 1
    BY <2>1, <2>2, <2>5 DEF TakeWord
  <2> QED BY <2>4, <2>5
<1>6. CASE TransferOut
  <2>1. /\ phase = "sending" /\ UNCHANGED << plan, code >>
        /\ \/ phase' = "idle" /\ done' = TRUE
           \/ phase' = phase /\ done' = done
    BY <1>2, <1>6 DEF TransferOut, GiveWord, OutputOffered
  <2>2. CASE phase' = "idle" /\ done' = TRUE
    <3>1. Contract!Complete
      BY <1>3, <2>1, <2>2 DEF Contract!Complete
    <3> QED BY <3>1 DEF Contract!CNext
  <2> QED BY <2>1, <2>2
<1>7. CASE DeviceSteps
  <2>1. CASE TakeStart
    <3>1. phase = "idle" /\ phase' \in {"idle", "checking"} /\ UNCHANGED << plan, done, code >>
      BY <1>2, <2>1 DEF TakeStart
    <3>2. CASE phase' = "checking"
      <4>1. Contract!Start
        BY <1>3, <2>1, <3>1, <3>2 DEF Contract!Start, TakeStart
      <4> QED BY <4>1 DEF Contract!CNext
    <3> QED BY <3>1, <3>2
  <2>2. CASE TakeAbort
    <3>1. CASE DeviceBusy /\ ~locked
      <4>1. /\ phase # "idle" /\ phase' = "idle" /\ plan' = << >> /\ done' = done
            /\ code' = Record("ERR_ABORTED") /\ command # "CLEAR"
        BY <2>2, <3>1 DEF TakeAbort, EndWith
      <4>2. Contract!NewFault
        BY <1>1, <1>2, <4>1, RecordFacts
        DEF Contract!NewFault, Contract!FaultStays, FatalCodes, ErrorEvents
      <4>3. Contract!Fail
        BY <1>3, <4>1, <4>2 DEF Contract!Fail
      <4> QED BY <4>3 DEF Contract!CNext
    <3>2. CASE ~(DeviceBusy /\ ~locked)
      BY <2>2, <3>2 DEF TakeAbort
    <3> QED BY <3>1, <3>2
  <2>3. CASE TakeClear
    <3>1. /\ command = "CLEAR" /\ done' = FALSE /\ code' = "ERR_NONE" /\ UNCHANGED << phase, plan >>
      BY <2>3 DEF TakeClear
    <3>2. Contract!Flags
      BY <1>1, <3>1 DEF Contract!Flags, Contract!NotDone, Contract!NoNewFault,
         Contract!FaultStays, ErrorCodes, FatalCodes
    <3> QED BY <3>2 DEF Contract!CNext
  <2>4. CASE Accept
    <3>1. /\ phase = "checking" /\ phase' = "loading" /\ UNCHANGED << done, code >>
          /\ regs.op \in Operations /\ plan' = PacketPlan(regs.op)
      BY <2>4, AcceptedFacts DEF Accept, DriverInv
    <3>2. Contract!PacketPlan(regs.op) = PacketPlan(regs.op)
      BY DEF Contract!PacketPlan, PacketPlan, Contract!OP_CONV, Contract!OP_RESIDUAL_ADD,
         Contract!OP_GLOBAL_AVG_POOL
    <3>3. Contract!Accept
      BY <1>1, <1>2, <1>3, <3>1, <3>2 DEF Contract!Accept
    <3> QED BY <3>3 DEF Contract!CNext
  <2>5. CASE Reject
    <3>1. /\ phase = "checking" /\ phase' = "idle" /\ plan' = << >> /\ done' = done
          /\ \E c \in FatalCodes : code' = Record(c)
      BY <2>5 DEF Reject, EndWith, FatalCodes
    <3>2. Contract!NewFault
      BY <1>1, <1>2, <3>1, RecordFacts DEF Contract!NewFault, Contract!FaultStays, ErrorEvents
    <3>3. Contract!Fail
      BY <1>2, <1>3, <3>1, <3>2 DEF Contract!Fail
    <3> QED BY <3>3 DEF Contract!CNext
  <2>6. CASE Compute
    <3>1. /\ phase = "computing" /\ phase' = "sending" /\ UNCHANGED << plan, done >>
          /\ code' \in {code, Record("ERR_ACC_OVERFLOW")}
      BY <2>6 DEF Compute
    <3>2. Contract!NoNewFault
      BY <1>1, <1>2, <3>1, RecordFacts
      DEF Contract!NoNewFault, Contract!FaultStays, ErrorEvents, WarningCodes, FatalCodes
    <3>3. Contract!Send
      BY <1>2, <1>3, <3>1, <3>2 DEF Contract!Send
    <3> QED BY <3>3 DEF Contract!CNext
  <2>7. CASE Lockup
    BY <2>7 DEF Lockup
  <2> QED BY <1>7, <2>1, <2>2, <2>3, <2>4, <2>5, <2>6, <2>7 DEF DeviceSteps, TakeCommand
<1> QED BY <1>4, <1>5, <1>6, <1>7 DEF Next, Hardware

(* The device the driver is written against is an implementation of the     *)
(* contract that the clocked design implements: what the driver relies on    *)
(* is what the accelerator provides.                                        *)
THEOREM DeviceImplementsContractHolds == Spec => DeviceImplementsContract
<1>1. Init => Contract!CInit
  BY DEF Init, DeviceInit, Contract!CInit
<1>2. DriverInv /\ [Next]_vars => [Contract!CNext]_(Contract!cvars)
  BY DeviceContractStep
<1> QED BY <1>1, <1>2, DriverInvariance, PTL DEF Spec, DeviceImplementsContract, Contract!CSpec
==============================================================================

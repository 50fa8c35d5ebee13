--------------------------- MODULE FirmwareDriver ---------------------------
(***************************************************************************)
(* The firmware: resnet_run (resnet_scheduler.c) and what it calls in       *)
(* accel_driver.c and dma_transfer.c, against the accelerator, the DMA      *)
(* engine and the data cache.  One step of the firmware reads or writes one *)
(* register, or makes one call into the DMA driver; between two steps the   *)
(* hardware and the clock move as they like.                                *)
(*                                                                          *)
(* A wait polls, and looks at the clock only after a poll that found        *)
(* nothing: pc <<w, "clock">> is between the poll and fw_time_expired.      *)
(***************************************************************************)
EXTENDS AccelDevice, AxiDma

CONSTANTS
  Networks,      \* sequences of layer descriptors the program may run
  MaxRuns        \* bound: how often the program calls resnet_run

OP_FC == "OP_FC"
OP_POOL == "OP_POOL"       \* a descriptor value that no hardware supports

(* shape is what accel_configure checks of the dimensions; rejectAt, bytes   *)
(* and output follow from them.                                             *)
LayerRecords ==
  [op : Operations \cup {OP_FC, OP_POOL}, shape : BOOLEAN,
   rejectAt : CheckStages \cup {"never"}, bytes : [Packets -> Nat], output : Nat,
   input : Buffers, skip : Buffers]

HardwareOp(l) == IF l.op = OP_FC THEN OP_CONV ELSE l.op

(* The twelve values accel_configure writes: no bytes for a packet the      *)
(* operation has not.                                                       *)
RegistersFor(l) ==
  [op |-> HardwareOp(l), rejectAt |-> l.rejectAt,
   bytes |-> [p \in Packets |-> IF Uses(HardwareOp(l), p) THEN l.bytes[p] ELSE 0],
   output |-> l.output]

(* Layer n writes buffer n; it reads the input of the network or what an     *)
(* earlier layer wrote.                                                     *)
ASSUME NetworksAssumption ==
  /\ MaxRuns \in Nat
  /\ \A net \in Networks :
       /\ net \in Seq(LayerRecords) /\ net # << >>
       /\ \A n \in DOMAIN net :
            /\ n \in Buffers
            /\ net[n].input < n /\ net[n].skip < n
            /\ net[n].op # OP_POOL => RegistersFor(net[n]) \in Configs

VARIABLES
  network, run, layer,      \* what is run, how often, and where it is
  pc,
  packet, rc, result_done,  \* locals of accel_run_layer and accel_wait_done
  start_written, busy_ever, \* accel_run_diag_t
  s2mm_active,              \* dma_transfer.c
  recovered,                \* accel_recovery and dma_recovery are both OK
  owner,                    \* history: the run and layer of the last START
  words_right,              \* history: every word taken belongs to the owner
  causes                    \* history: what went wrong in this run

loopVars == << network, run, layer >>
localVars == << packet, result_done >>
diagVars == << start_written, busy_ever >>
driverVars == << loopVars, pc, localVars, rc, diagVars, s2mm_active, recovered >>
historyVars == << owner, words_right, causes >>
vars == << deviceVars, dmaVars, memoryVars, driverVars, historyVars >>

Waits == {"admit", "sent", "done", "abort_confirm", "output", "idle_confirm", "reset"}
Good == {"ACCEL_OK", "ACCEL_DONE_WITH_WARNING"}

Init ==
  /\ DeviceInit /\ DmaInit
  /\ network \in Networks /\ run = 0 /\ layer = 1
  /\ pc = << "called" >>
  /\ packet = "WEIGHT" /\ rc = "ACCEL_OK" /\ result_done = FALSE
  /\ start_written = FALSE /\ busy_ever = FALSE
  /\ s2mm_active = FALSE /\ recovered = TRUE
  /\ owner = << 0, 0 >> /\ words_right = TRUE /\ causes = {}

-----------------------------------------------------------------------------
(* Control flow of the firmware.  "called" is the program between two calls *)
(* of resnet_run.                                                           *)

At(s) == pc = << s >>
Go(s) == pc' = << s >>
LookAtClock(w) == pc' = << w, "clock" >>

Return(code_) == Go("returned") /\ rc' = code_

(* The registers answer one access after the other.                         *)
BusFree == command = "none"
Post(c) ==
  /\ command' = c
  /\ UNCHANGED << regs, operationVars, locked >>

CurrentLayer == network[layer]

(* dma_buffer_is_valid; the program's buffers are aligned.                  *)
BufferIsValid(bytes) == bytes # 0 /\ bytes % 4 = 0

-----------------------------------------------------------------------------
(* accel_run_layer, up to the START.                                        *)

CheckBusy ==
  /\ At("check") /\ BusFree
  /\ start_written' = FALSE /\ busy_ever' = FALSE
  /\ IF DeviceBusy THEN Return("ACCEL_INVALID_ARG") ELSE Go("clear") /\ UNCHANGED rc
  /\ UNCHANGED << deviceVars, dmaVars, memoryVars, localVars, s2mm_active, historyVars >>

(* Mutant: keeps the results of the layer before. *)
ClearResults_Not ==
  /\ At("clear") /\ BusFree
  /\ Go("configure")
  /\ UNCHANGED << deviceVars, dmaVars, memoryVars, localVars, rc, diagVars, s2mm_active,
                  historyVars >>

ClearResults ==
  /\ At("clear") /\ BusFree
  /\ Post("CLEAR") /\ Go("configure")
  /\ UNCHANGED << dmaVars, memoryVars, localVars, rc, diagVars, s2mm_active, historyVars >>

Configure ==
  /\ At("configure") /\ BusFree
  /\ IF CurrentLayer.op = OP_POOL \/ DeviceBusy \/ ~CurrentLayer.shape
     THEN /\ Return("ACCEL_INVALID_ARG")
          /\ causes' = causes \cup {"invalid"}
          /\ UNCHANGED deviceVars
     ELSE /\ WriteConfig(RegistersFor(CurrentLayer))
          /\ Go("prepare") /\ UNCHANGED << rc, causes >>
  /\ UNCHANGED << dmaVars, memoryVars, localVars, diagVars, s2mm_active, owner, words_right >>

(* dma_s2mm_prepare.  The channel is armed before the START, and the lines   *)
(* of the buffer are dropped before the channel writes it.                  *)
PrepareS2mm ==
  /\ At("prepare") /\ BusFree
  /\ IF ~BufferIsValid(regs.output)
     THEN /\ Return("ACCEL_FATAL_ERROR")
          /\ causes' = causes \cup {"invalid"}
          /\ UNCHANGED << dmaVars, memoryVars, s2mm_active >>
     ELSE /\ InvalidateRange(layer)
          /\ UNCHANGED causes
          /\ IF ChannelBusy("S2MM")
             THEN Return("ACCEL_FATAL_ERROR") /\ UNCHANGED << dmaVars, s2mm_active >>
             ELSE SubmitS2MM(layer) /\ s2mm_active' = TRUE /\ Go("start") /\ UNCHANGED rc
  /\ UNCHANGED << deviceVars, localVars, diagVars, owner, words_right >>

StartOperation ==
  /\ At("start") /\ BusFree
  /\ Post("START") /\ start_written' = TRUE /\ Go("admit")
  /\ owner' = << run, layer >> /\ words_right' = TRUE
  /\ UNCHANGED << dmaVars, memoryVars, localVars, rc, busy_ever, s2mm_active, causes >>

(* Mutant: polls until the accelerator answers.                             *)
NotAnswered_PollOn == Go("admit")

NotAnswered == LookAtClock("admit")

(* accel_wait_start_admitted.                                               *)
PollAdmit ==
  /\ At("admit") /\ BusFree
  /\ \/ /\ DeviceBusy
        /\ busy_ever' = TRUE
        /\ packet' = "WEIGHT" /\ Go("send")
        /\ UNCHANGED rc
     \/ /\ ~DeviceBusy /\ ErrorFlag
        /\ Return("ACCEL_START_REJECTED")
        /\ UNCHANGED << busy_ever, packet >>
     \/ /\ ~DeviceBusy /\ ~ErrorFlag
        /\ NotAnswered
        /\ UNCHANGED << busy_ever, packet, rc >>
  /\ UNCHANGED << deviceVars, dmaVars, memoryVars, result_done, start_written, s2mm_active,
                  historyVars >>

-----------------------------------------------------------------------------
(* The packets.                                                             *)

Following ==
  [p \in Packets |-> CASE p = "WEIGHT" -> "BIAS" [] p = "BIAS" -> "INPUT" [] OTHER -> "SKIP"]

AfterPacket ==
  IF packet = "SKIP" THEN Go("done") /\ UNCHANGED packet
                     ELSE Go("send") /\ packet' = Following[packet]

SourceOf(p) == IF p = "SKIP" THEN CurrentLayer.skip ELSE CurrentLayer.input

(* Mutant: does not write the cached source back.                           *)
CleanSource_Not(p) == UNCHANGED memoryVars

(* Weights and biases are constants, and in memory.                         *)
CleanSource(p) ==
  IF p \in {"INPUT", "SKIP"} THEN FlushRange(SourceOf(p)) ELSE UNCHANGED memoryVars

(* dma_mm2s_transfer, for a packet the registers have bytes for; the input   *)
(* is always sent.                                                          *)
SendPacket ==
  /\ At("send") /\ BusFree
  /\ LET bytes == regs.bytes[packet]
         right == packet \in {"INPUT", "SKIP"} => ddr'[SourceOf(packet)]
     IN  \/ /\ bytes = 0 /\ packet # "INPUT"
            /\ AfterPacket
            /\ UNCHANGED << dmaVars, memoryVars, rc, causes >>
         \/ /\ bytes # 0 \/ packet = "INPUT"
            /\ ~BufferIsValid(bytes)
            /\ Return("ACCEL_FATAL_ERROR")
            /\ causes' = causes \cup {"invalid"}
            /\ UNCHANGED << dmaVars, memoryVars, packet >>
         \/ /\ BufferIsValid(bytes)
            /\ CleanSource(packet)
            /\ UNCHANGED << packet, causes >>
            /\ IF ChannelBusy("MM2S")
               THEN Return("ACCEL_FATAL_ERROR") /\ UNCHANGED dmaVars
               ELSE /\ SubmitMM2S(bytes \div 4, << run, layer, packet, right >>)
                    /\ Go("sent") /\ UNCHANGED rc
  /\ UNCHANGED << deviceVars, result_done, diagVars, s2mm_active, owner, words_right >>

(* dma_mm2s_wait_complete.                                                  *)
PollPacket ==
  /\ At("sent")
  /\ \/ /\ "MM2S" \in dma_error
        /\ Return("ACCEL_FATAL_ERROR") /\ UNCHANGED packet
     \/ /\ "MM2S" \notin dma_error /\ ~ChannelBusy("MM2S")
        /\ AfterPacket /\ UNCHANGED rc
     \/ /\ "MM2S" \notin dma_error /\ ChannelBusy("MM2S")
        /\ LookAtClock("sent") /\ UNCHANGED << packet, rc >>
  /\ UNCHANGED << deviceVars, dmaVars, memoryVars, result_done, diagVars, s2mm_active,
                  historyVars >>

-----------------------------------------------------------------------------
(* The end of the operation: accel_wait_done, then the output.              *)

PollDone ==
  /\ At("done") /\ BusFree
  /\ IF DeviceBusy
     THEN busy_ever' = TRUE /\ LookAtClock("done") /\ UNCHANGED result_done
     ELSE result_done' = done /\ Go("code") /\ UNCHANGED busy_ever
  /\ UNCHANGED << deviceVars, dmaVars, memoryVars, packet, rc, start_written, s2mm_active,
                  historyVars >>

(* Mutant: takes a warning for a failure.                                   *)
ReadCode_ErrorFirst ==
  /\ At("code") /\ BusFree
  /\ IF result_done /\ ~ErrorFlag
     THEN Go("output") /\ rc' = IF ErrorFlag THEN "ACCEL_DONE_WITH_WARNING" ELSE "ACCEL_OK"
     ELSE Return("ACCEL_FATAL_ERROR")
  /\ UNCHANGED << deviceVars, dmaVars, memoryVars, localVars, diagVars, s2mm_active, historyVars >>

ReadCode ==
  /\ At("code") /\ BusFree
  /\ IF result_done
     THEN Go("output") /\ rc' = IF ErrorFlag THEN "ACCEL_DONE_WITH_WARNING" ELSE "ACCEL_OK"
     ELSE Return("ACCEL_FATAL_ERROR")
  /\ UNCHANGED << deviceVars, dmaVars, memoryVars, localVars, diagVars, s2mm_active, historyVars >>

AbortOperation ==
  /\ At("abort") /\ BusFree
  /\ Post("ABORT") /\ Go("abort_confirm")
  /\ UNCHANGED << dmaVars, memoryVars, localVars, rc, diagVars, s2mm_active, historyVars >>

PollAborted ==
  /\ At("abort_confirm") /\ BusFree
  /\ IF DeviceBusy THEN LookAtClock("abort_confirm") /\ UNCHANGED rc
                   ELSE Return("ACCEL_TIMEOUT")
  /\ UNCHANGED << deviceVars, dmaVars, memoryVars, localVars, diagVars, s2mm_active, historyVars >>

(* Mutant: trusts the invalidation made before the transfer.                *)
RefreshOutput_Not == UNCHANGED memoryVars

RefreshOutput == IF s2mm_active THEN InvalidateRange(layer) ELSE UNCHANGED memoryVars

(* dma_s2mm_wait_complete: the lines fetched while the channel wrote the     *)
(* buffer are dropped.                                                      *)
PollOutput ==
  /\ At("output")
  /\ \/ /\ "S2MM" \in dma_error
        /\ Return("ACCEL_FATAL_ERROR") /\ UNCHANGED << memoryVars, s2mm_active >>
     \/ /\ "S2MM" \notin dma_error /\ ~ChannelBusy("S2MM")
        /\ RefreshOutput
        /\ s2mm_active' = FALSE
        /\ Return(rc)
     \/ /\ "S2MM" \notin dma_error /\ ChannelBusy("S2MM")
        /\ LookAtClock("output") /\ UNCHANGED << memoryVars, s2mm_active, rc >>
  /\ UNCHANGED << deviceVars, dmaVars, localVars, diagVars, historyVars >>

RunLayer ==
  \/ CheckBusy \/ ClearResults \/ Configure \/ PrepareS2mm
  \/ StartOperation \/ PollAdmit \/ SendPacket \/ PollPacket
  \/ PollDone \/ ReadCode \/ AbortOperation \/ PollAborted \/ PollOutput

-----------------------------------------------------------------------------
(* fw_time_expired: poll again, or give up.                                 *)

(* dma_halt_reset follows the wait for the idle accelerator, whatever came   *)
(* of it.                                                                   *)
StartReset ==
  /\ ResetDma /\ s2mm_active' = FALSE
  /\ Go("reset")

PollAgain ==
  /\ \E w \in Waits : pc = << w, "clock" >> /\ Go(w)
  /\ UNCHANGED << rc, recovered, s2mm_active, dmaVars, causes >>

TimeoutCode ==
  [admit |-> "ACCEL_TIMEOUT", sent |-> "ACCEL_FATAL_ERROR", output |-> "ACCEL_FATAL_ERROR",
   abort_confirm |-> "ACCEL_ABORT_TIMEOUT"]

(* Mutant: sends START again instead of ABORT.                              *)
DoneExpired_RetryStart == Go("start")

DoneExpired == Go("abort")

GiveUp ==
  /\ causes' = causes \cup {"expired"}
  /\ \/ /\ \E w \in DOMAIN TimeoutCode : pc = << w, "clock" >> /\ Return(TimeoutCode[w])
        /\ UNCHANGED << recovered, s2mm_active, dmaVars >>
     \/ /\ pc = << "done", "clock" >> /\ DoneExpired
        /\ UNCHANGED << rc, recovered, s2mm_active, dmaVars >>
     \/ /\ pc = << "idle_confirm", "clock" >> /\ StartReset
        /\ recovered' = FALSE /\ UNCHANGED rc
     \/ /\ pc = << "reset", "clock" >> /\ Go("called")
        /\ recovered' = FALSE /\ UNCHANGED << rc, s2mm_active, dmaVars >>

clockFrame ==
  << deviceVars, memoryVars, loopVars, localVars, diagVars, owner, words_right >>

Clock == (PollAgain \/ GiveUp) /\ UNCHANGED clockFrame

-----------------------------------------------------------------------------
(* resnet_run.                                                              *)

CallRun ==
  /\ At("called") /\ run < MaxRuns
  /\ run' = run + 1 /\ layer' = 1
  /\ Go("check")
  /\ causes' = IF recovered THEN {} ELSE causes
  /\ UNCHANGED << deviceVars, dmaVars, rc, s2mm_active, recovered >>

(* A warning does not stop the run.                                         *)
NextLayer ==
  /\ At("returned") /\ rc \in Good
  /\ IF layer < Len(network)
     THEN layer' = layer + 1 /\ Go("check") /\ UNCHANGED rc
     ELSE Go("called") /\ rc' = "ACCEL_OK" /\ UNCHANGED layer
  /\ UNCHANGED << deviceVars, dmaVars, run, s2mm_active, recovered, causes >>

(* Mutant: a rejected START leaves nothing to recover.                      *)
RecoverAccelerator_NotRejected ==
  /\ At("returned") /\ rc \notin Good /\ BusFree
  /\ IF DeviceBusy THEN Post("ABORT") ELSE UNCHANGED deviceVars
  /\ Go(IF rc = "ACCEL_START_REJECTED" THEN "called" ELSE "idle_confirm") /\ recovered' = TRUE
  /\ UNCHANGED << dmaVars, run, layer, rc, s2mm_active, causes >>

(* accel_abort_and_wait_idle.                                               *)
RecoverAccelerator ==
  /\ At("returned") /\ rc \notin Good /\ BusFree
  /\ IF DeviceBusy THEN Post("ABORT") ELSE UNCHANGED deviceVars
  /\ Go("idle_confirm") /\ recovered' = TRUE
  /\ UNCHANGED << dmaVars, run, layer, rc, s2mm_active, causes >>

PollIdle ==
  /\ At("idle_confirm") /\ BusFree
  /\ IF DeviceBusy THEN LookAtClock("idle_confirm") /\ UNCHANGED << dmaVars, s2mm_active >>
                   ELSE StartReset
  /\ UNCHANGED << deviceVars, run, layer, rc, recovered, causes >>

PollReset ==
  /\ At("reset")
  /\ IF resetting THEN LookAtClock("reset") ELSE Go("called")
  /\ UNCHANGED << deviceVars, dmaVars, run, layer, rc, s2mm_active, recovered, causes >>

Scheduler ==
  /\ CallRun \/ NextLayer \/ RecoverAccelerator \/ PollIdle \/ PollReset
  /\ UNCHANGED << memoryVars, network, localVars, diagVars, owner, words_right >>

Firmware == Scheduler \/ Clock \/ (RunLayer /\ UNCHANGED << loopVars, recovered >>)

-----------------------------------------------------------------------------
(* The hardware.                                                            *)

(* A word of the channel is taken by the accelerator; it is right when it   *)
(* is of the packet the accelerator is loading, and of right data.          *)
TransferIn ==
  /\ mm2s.left > 0 /\ ChannelRuns("MM2S")
  /\ TakeWord(mm2s.left = 1)
  /\ WordLeaves
  /\ words_right' = (words_right /\ mm2s.tag = << owner[1], owner[2], Head(plan), TRUE >>)
  /\ UNCHANGED << s2mm, dma_error, resetting, memoryVars, driverVars, owner, causes >>

TransferOut ==
  /\ s2mm.state = "armed" /\ ChannelRuns("S2MM")
  /\ GiveWord
  /\ WordArrives(LastWord, words_right)
  /\ UNCHANGED << mm2s, dma_error, resetting, cache, driverVars, historyVars >>

DeviceSteps ==
  /\ \/ (TakeCommand \/ Accept \/ Compute \/ Lockup) /\ UNCHANGED causes
     \/ Reject /\ causes' = causes \cup {"rejected"}
  /\ UNCHANGED << dmaVars, memoryVars, driverVars, owner, words_right >>

DmaFails ==
  /\ \E ch \in Channels : TransferFails(ch)
  /\ causes' = causes \cup {"dma"}
  /\ UNCHANGED << deviceVars, driverVars, owner, words_right >>

MemorySteps ==
  /\ \/ Drain \/ ResetCompletes
     \/ \E b \in Buffers : Prefetch(b) \/ Evict(b)
  /\ UNCHANGED << deviceVars, driverVars, historyVars >>

Hardware == TransferIn \/ TransferOut \/ DeviceSteps \/ DmaFails \/ MemorySteps

(* The program has called resnet_run as often as it does.                   *)
Stopped == At("called") /\ run = MaxRuns /\ UNCHANGED vars

Next == Firmware \/ Hardware \/ Stopped

Spec == Init /\ [][Next]_vars

-----------------------------------------------------------------------------
(* What the firmware relies on, and what the program that calls it may rely  *)
(* on.                                                                       *)

(* When accel_run_layer reports success, the output of the layer is         *)
(* complete and right in memory, and the processor reads it, not a line its *)
(* cache kept or fetched on its own: the invalidations around the transfer  *)
(* and the wait for S2MM after DONE.                                        *)
OkMeansOutput ==
  At("returned") /\ rc \in Good => ddr[layer] /\ CpuSees(layer)

(* After a run whose recovery succeeded, and after a successful run,        *)
(* nothing is left over for the next: the accelerator is idle, with no      *)
(* command on its way, and no channel waits for or holds a word             *)
(* (resnet_run: "so the next layer never inherits stale state").            *)
QuietAfterRecovery ==
  At("called") /\ run > 0 /\ recovered =>
    /\ ~DeviceBusy /\ BusFree
    /\ \A ch \in Channels : ~ChannelBusy(ch)
    /\ dma_error = {}

(* The driver never sends a START or a configuration to a busy accelerator, *)
(* not even after a recovery that failed.                                   *)
NeverProvokes == code \notin {"ERR_START_WHILE_BUSY", "ERR_CONFIG_WRITE_BUSY"}

(* Every word the accelerator takes belongs to the operation it executes    *)
(* and to the packet it is loading, and comes from a buffer the DMA read    *)
(* after the cache was flushed; none is left over from a layer that failed. *)
NoForeignWords == phase \in {"loading", "computing", "sending"} => words_right

(* A layer fails only for a reason outside the firmware: a wait that        *)
(* expired, a channel that failed, a configuration the accelerator turned   *)
(* down, or a descriptor the driver turns down.                             *)
FailureHasCause == At("returned") /\ rc \notin Good => causes # {}

(* Every call of resnet_run returns, whatever the accelerator and the DMA   *)
(* engine do, as long as the registers answer.                              *)
RunReturns == ~At("called") ~> At("called")

(* The accelerator as the driver sees it implements the contract that the   *)
(* clocked design implements.                                               *)
Contract == INSTANCE AccelContract WITH
  done_clear <- command = "CLEAR", error_clear <- command = "CLEAR"
DeviceImplementsContract == Contract!CSpec

(* accel_driver.h, of accel_run_diag_t: busy_ever tells an operation that   *)
(* "was never admitted at all" from one that was "admitted and ran, then    *)
(* failed elsewhere".                                                       *)
BusyEverMeansAdmitted ==
  At("returned") /\ rc \notin Good /\ busy_ever => "rejected" \notin causes

-----------------------------------------------------------------------------
(* Why the driver is right: an invariant that every step preserves.         *)

(* Where the program is, on the clock or not.                               *)
Place == pc[1]

BeforeArm == {"called", "check", "clear", "configure", "prepare"}
AfterArm == {"start", "admit", "send", "sent", "done", "code", "abort", "abort_confirm", "output"}

Steps == BeforeArm \cup AfterArm \cup {"returned", "idle_confirm", "reset"}
Outcomes ==
  Good \cup {"ACCEL_INVALID_ARG", "ACCEL_FATAL_ERROR", "ACCEL_START_REJECTED", "ACCEL_TIMEOUT",
            "ACCEL_ABORT_TIMEOUT"}

DriverTypeOK ==
  /\ network \in Networks /\ run \in Nat /\ layer \in 1..Len(network)
  /\ pc \in {<< s >> : s \in Steps} \cup {<< w, "clock" >> : w \in Waits}
  /\ packet \in Packets /\ rc \in Outcomes
  /\ {result_done, start_written, busy_ever, s2mm_active, recovered, words_right} \subseteq BOOLEAN
  /\ causes \subseteq {"invalid", "expired", "rejected", "dma"}
  /\ mm2s \in [left : Nat, tag : {<< >>} \cup Nat \X Nat \X Packets \X BOOLEAN]
  /\ s2mm \in [state : {"idle", "armed", "draining"}, buffer : Buffers, right : BOOLEAN]
  /\ dma_error \subseteq Channels /\ resetting \in BOOLEAN
  /\ ddr \in [Buffers -> BOOLEAN]
  /\ cache \in [Buffers -> {"none", "clean", "stale", "dirty"}]
  /\ command \in {"none", "START", "ABORT", "CLEAR"}
  /\ regs \in Configs /\ snap \in Configs
  /\ phase \in {"idle", "checking", "loading", "computing", "sending"}
  /\ plan \in Seq(Packets) /\ got \in Nat /\ sent \in Nat
  /\ code \in ErrorCodes /\ {done, locked} \subseteq BOOLEAN

(* A command that the bus has not answered.                                 *)
CommandInv ==
  /\ command = "CLEAR" => At("configure")
  /\ command = "START" => At("admit")
  /\ command = "ABORT" => At("abort_confirm") \/ At("idle_confirm")

DeviceInv ==
  /\ phase \in {"loading", "computing", "sending"} => snap = regs /\ Accepted(regs)
  /\ phase = "loading" <=> plan # << >>
  /\ phase \in {"computing", "sending"} => got = 0
  /\ code \notin {"ERR_START_WHILE_BUSY", "ERR_CONFIG_WRITE_BUSY"}

(* Where the driver may take the accelerator to be idle.                    *)
IdleInv ==
  \/ Place \in {"clear", "configure", "prepare", "start", "code", "output"}
  \/ Place \in {"called", "check", "reset"} /\ recovered
  \/ Place = "returned" /\ rc \in Good
  \/ command = "START"
  => phase = "idle"

DmaQuiet == mm2s.left = 0 /\ s2mm.state = "idle" /\ dma_error = {}

(* Nothing is left in a channel that a layer submits to.                    *)
DmaInv ==
  /\ Place \in BeforeArm \cup {"reset"} => resetting \/ DmaQuiet
  /\ Place \in BeforeArm /\ recovered => ~resetting
  /\ Place \in AfterArm => ~resetting /\ s2mm_active
  /\ Place \in AfterArm \ {"sent"} => mm2s.left = 0 /\ "MM2S" \notin dma_error
  /\ Place = "returned" /\ rc \in Good => ~resetting /\ DmaQuiet

(* DONE tells that the last word of the output is in the channel, or in      *)
(* memory.                                                                  *)
OutputInv ==
  /\ s2mm.state # "idle" /\ ~resetting => s2mm.buffer = layer
  /\ Place \in AfterArm /\ done =>
       /\ phase = "idle"
       /\ \/ s2mm.state = "idle" /\ ddr[layer]
          \/ s2mm.state = "draining" /\ s2mm.right

(* The buffers that the layers of this run have written are right.          *)
MemoryInv ==
  /\ ddr[0] \/ cache[0] = "dirty"
  /\ \A b \in 1..(layer - 1) : ddr[b] /\ cache[b] \in {"none", "clean"}
  /\ Place \in AfterArm => cache[layer] # "dirty"
  /\ Place = "returned" /\ rc \in Good => ddr[layer] /\ cache[layer] \in {"none", "clean"}

(* What the accelerator has still to take, and how much of the first packet  *)
(* it has.                                                                  *)
Due == IF phase = "checking" THEN PacketPlan(regs.op) ELSE plan
Taken == IF phase = "checking" THEN 0 ELSE got

(* The part of the plan that begins with packet p, or behind it.            *)
DueFrom(op, p) ==
  CASE p = "WEIGHT" -> PacketPlan(op)
    [] p = "BIAS"   -> IF op = OP_CONV THEN << "BIAS", "INPUT" >> ELSE PacketPlan(op)
    [] p = "INPUT"  -> IF op = OP_RESIDUAL_ADD THEN << "INPUT", "SKIP" >> ELSE << "INPUT" >>
    [] p = "SKIP"   -> IF op = OP_RESIDUAL_ADD THEN << "SKIP" >> ELSE << >>
DueAfter(op, p) == IF p = "SKIP" THEN << >> ELSE DueFrom(op, Following[p])

(* The words in the channel are the rest of the packet the accelerator      *)
(* takes next, and are the words of its operation.                          *)
LinkInv ==
  /\ phase # "idle" /\ Accepted(regs) /\ mm2s.left > 0 =>
       /\ Due # << >>
       /\ mm2s.tag = << owner[1], owner[2], Head(Due), TRUE >>
       /\ 4 * mm2s.left + Taken = regs.bytes[Head(Due)]
  /\ phase # "idle" \/ command = "START" => words_right
  /\ Place \in {"admit", "send", "sent"} => owner = << run, layer >>

(* The driver and the accelerator agree on the packet that is next.         *)
PlanInv ==
  /\ Place \in {"prepare", "start", "admit", "send", "sent"} =>
       CurrentLayer.op # OP_POOL /\ regs = RegistersFor(CurrentLayer)
  /\ phase # "idle" /\ Accepted(regs) =>
       /\ Place = "admit" => Due = PacketPlan(regs.op) /\ Taken = 0
       /\ Place = "send" => Due = DueFrom(regs.op, packet) /\ Taken = 0
       /\ Place = "sent" /\ mm2s.left > 0 => Due = DueFrom(regs.op, packet) /\ Uses(regs.op, packet)
       /\ Place = "sent" /\ mm2s.left = 0 => Due = DueAfter(regs.op, packet) /\ Taken = 0

(* An operation that ended without DONE ended for a reason.                 *)
CauseInv ==
  /\ ~recovered \/ dma_error # {} => causes # {}
  /\ Place \in {"abort", "abort_confirm"} => causes # {}
  /\ Place = "returned" /\ rc \notin Good => causes # {}
  /\ (Place = "configure" /\ BusFree) \/ Place \in {"prepare", "start"} => ~done /\ code = "ERR_NONE"
  /\ Place = "admit" => ~done /\ (ErrorFlag => causes # {})
  /\ Place \in {"send", "sent", "done"} /\ phase = "idle" => done \/ causes # {}
  /\ Place = "code" => (IF result_done THEN done ELSE causes # {})
  /\ Place = "output" => done /\ rc \in Good

(* The driver and the hardware together, at every step of every run of      *)
(* every network: where the program is determines what may be under way in   *)
(* the accelerator, in the two channels and in the cache (accel_run_layer,   *)
(* resnet_run and their recovery).                                          *)
DriverInv ==
  /\ DriverTypeOK /\ CommandInv /\ DeviceInv /\ IdleInv /\ DmaInv
  /\ OutputInv /\ MemoryInv /\ LinkInv /\ PlanInv /\ CauseInv

-----------------------------------------------------------------------------
(* The firmware takes its next step; a register access is answered; and a   *)
(* clock that is looked at again and again has passed the limit in the end. *)
Answers == TakeCommand /\ UNCHANGED << dmaVars, memoryVars, driverVars, historyVars >>

FairSpec ==
  /\ Spec
  /\ WF_vars(Firmware)
  /\ WF_vars(Answers)
  /\ SF_vars(GiveUp /\ UNCHANGED clockFrame)
=============================================================================

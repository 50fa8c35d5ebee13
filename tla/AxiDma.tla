------------------------------- MODULE AxiDma -------------------------------
(***************************************************************************)
(* What the firmware uses of the Xilinx AXI DMA (simple mode), of the data   *)
(* cache of the processor and of the memory behind both; their code is not   *)
(* in the repository.  Buffer 0 is the input of the network, buffer n the    *)
(* output of layer n; the contents of a buffer are right or wrong.           *)
(***************************************************************************)
EXTENDS Integers, Sequences

CONSTANT Buffers

ASSUME BuffersAssumption == Buffers \subseteq Nat /\ 0 \in Buffers

VARIABLES
  mm2s,           \* MM2S: words left, and what they are words of
  s2mm,           \* S2MM: state, and the buffer it fills
  dma_error,      \* channels with a latched error
  resetting,      \* XAxiDma_Reset was written and is not done
  ddr,            \* is the buffer right in memory?
  cache           \* the cache lines of the buffer

dmaVars == << mm2s, s2mm, dma_error, resetting >>
memoryVars == << ddr, cache >>

Channels == {"MM2S", "S2MM"}
NoTransfer == [left |-> 0, tag |-> << >>]

IdleS2mm == [state |-> "idle", buffer |-> 0, right |-> FALSE]

(* The program has written the input into its cache, and something into     *)
(* some of the output buffers.                                              *)
DmaInit ==
  /\ mm2s = NoTransfer
  /\ s2mm = IdleS2mm
  /\ dma_error = {} /\ resetting = FALSE
  /\ ddr = [b \in Buffers |-> FALSE]
  /\ \E written \in SUBSET (Buffers \ {0}) :
       cache = [b \in Buffers |-> IF b \in written \cup {0} THEN "dirty" ELSE "none"]

-----------------------------------------------------------------------------
(* The cache.  "clean" is a copy of a right buffer, "stale" of one that was  *)
(* wrong when it was fetched; the dirty lines of the input are right.        *)

WriteBack(b) == IF cache[b] = "dirty" THEN b = 0 ELSE ddr[b]

FlushRange(b) ==
  /\ ddr' = [ddr EXCEPT ![b] = WriteBack(b)]
  /\ cache' = [cache EXCEPT ![b] = "none"]

InvalidateRange(b) ==
  /\ cache' = [cache EXCEPT ![b] = "none"]
  /\ UNCHANGED ddr

(* What the program reads.                                                  *)
CpuSees(b) ==
  \/ cache[b] = "clean"
  \/ cache[b] = "dirty" /\ b = 0
  \/ cache[b] = "none" /\ ddr[b]

(* The processor fetches lines ahead and evicts lines as it likes.          *)
Prefetch(b) ==
  /\ cache[b] = "none"
  /\ cache' = [cache EXCEPT ![b] = IF ddr[b] THEN "clean" ELSE "stale"]
  /\ UNCHANGED << dmaVars, ddr >>

Evict(b) ==
  /\ cache[b] # "none"
  /\ ddr' = [ddr EXCEPT ![b] = WriteBack(b)]
  /\ cache' = [cache EXCEPT ![b] = "none"]
  /\ UNCHANGED dmaVars

-----------------------------------------------------------------------------
(* The channels.                                                            *)

ChannelBusy(ch) ==
  \/ resetting
  \/ ch = "MM2S" /\ mm2s.left > 0
  \/ ch = "S2MM" /\ s2mm.state # "idle"

ChannelRuns(ch) == ~resetting /\ ch \notin dma_error

(* A transfer is refused while the channel is busy.                         *)
SubmitMM2S(words, tag) ==
  /\ mm2s' = [left |-> words, tag |-> tag]
  /\ UNCHANGED << s2mm, dma_error, resetting >>

SubmitS2MM(b) ==
  /\ s2mm' = [state |-> "armed", buffer |-> b, right |-> FALSE]
  /\ UNCHANGED << mm2s, dma_error, resetting >>

WordLeaves == mm2s' = IF mm2s.left = 1 THEN NoTransfer ELSE [mm2s EXCEPT !.left = @ - 1]

(* The words of the output arrive; after the last one the channel still has  *)
(* to write it to memory.                                                   *)
WordArrives(last, right) ==
  /\ s2mm' = IF last THEN [s2mm EXCEPT !.state = "draining", !.right = right] ELSE s2mm
  /\ ddr' = [ddr EXCEPT ![s2mm.buffer] = FALSE]

Drain ==
  /\ s2mm.state = "draining" /\ ChannelRuns("S2MM")
  /\ ddr' = [ddr EXCEPT ![s2mm.buffer] = s2mm.right]
  /\ s2mm' = IdleS2mm
  /\ UNCHANGED << mm2s, dma_error, resetting, cache >>

TransferFails(ch) ==
  /\ ChannelBusy(ch) /\ ChannelRuns(ch)
  /\ dma_error' = dma_error \cup {ch}
  /\ UNCHANGED << mm2s, s2mm, resetting, memoryVars >>

ResetDma == resetting' = TRUE /\ UNCHANGED << mm2s, s2mm, dma_error >>

ResetCompletes ==
  /\ resetting
  /\ mm2s' = NoTransfer /\ s2mm' = IdleS2mm
  /\ dma_error' = {} /\ resetting' = FALSE
  /\ UNCHANGED memoryVars
=============================================================================

----------------------------- MODULE GapEngine -----------------------------
(***************************************************************************)
(* gap_engine.sv: for each channel the sum over all positions of the input,  *)
(* which lie a whole pixel apart in its buffer, then the requantizer and     *)
(* the clamp.                                                                *)
(***************************************************************************)
EXTENDS GoldenModel, Requantizer

CONSTANTS
  GapConfigs,              \* records of the fields h, w, ic, multiplier, shift
  Datas, InputMem(_, _)    \* contents of the input buffer

InputArray(cfg, d) == Reshape([i \in Below(cfg.h * cfg.w * cfg.ic) |-> InputMem(d, i)], cfg.h, cfg.w, cfg.ic)

(* What the controller admits, and elements of eight bits.                   *)
ASSUME GapAssumption ==
  \A cfg \in GapConfigs :
    /\ {cfg.h, cfg.w, cfg.ic} \subseteq Nat \ {0}
    /\ cfg.multiplier \in Multipliers /\ cfg.shift \in Shifts
    /\ \A d \in Datas : \A i \in Below(cfg.h * cfg.w * cfg.ic) : InputMem(d, i) \in INT8

VARIABLES
  state_q, c, data,
  r,                       \* the loop counters, the address and the sum
  input_data,
  done_o, overflow_event_o,
  golden, written, overflowed       \* history, as in ConvEngine

gapVars == << state_q, c, data, r, input_data, pipeVars, done_o, overflow_event_o,
              golden, written, overflowed >>

GapStates == {"IDLE", "READ", "ACCUMULATE", "REQUANT_MUL", "REQUANT_ROUND_ADD", "REQUANT_SHIFT",
              "WRITE_OUTPUT"}

Origin == [h |-> 0, w |-> 0, c |-> 0, element |-> 0, accumulator |-> 0]

GapInit ==
  /\ state_q = "IDLE" /\ c \in GapConfigs /\ data \in Datas
  /\ PipeInit /\ r = Origin /\ input_data = 0
  /\ done_o = FALSE /\ overflow_event_o = FALSE
  /\ golden = global_avg_pool_fixed_point(c, InputArray(c, data))
  /\ written = 0 /\ overflowed = FALSE

Pulses(done, overflow) ==
  /\ done_o' = done /\ overflow_event_o' = overflow
  /\ overflowed' = (overflowed \/ overflow)

GapStart ==
  /\ state_q = "IDLE" /\ state_q' = "READ"
  /\ r' = Origin
  /\ done_o' = FALSE /\ overflow_event_o' = FALSE
  /\ written' = 0 /\ overflowed' = FALSE
  /\ UNCHANGED << c, data, input_data, pipeVars, golden >>

GapIdle ==
  /\ state_q = "IDLE" /\ Pulses(FALSE, FALSE)
  /\ UNCHANGED << state_q, c, data, r, input_data, pipeVars, golden, written >>

GapRead ==
  /\ state_q = "READ" /\ state_q' = "ACCUMULATE"
  /\ input_data' = InputMem(data, r.element)
  /\ Pulses(FALSE, FALSE)
  /\ UNCHANGED << c, data, r, pipeVars, golden, written >>

LastPosition == r.h = c.h - 1 /\ r.w = c.w - 1

GapAccumulate ==
  /\ state_q = "ACCUMULATE"
  /\ state_q' = IF LastPosition THEN "REQUANT_MUL" ELSE "READ"
  /\ LET sum == sat_add_int32(r.accumulator, input_data)
         endOfRow == r.w + 1 >= c.w
         next == [r EXCEPT !.w = IF endOfRow THEN 0 ELSE @ + 1, !.h = IF endOfRow THEN @ + 1 ELSE @,
                           !.element = @ + c.ic]
     IN  /\ r' = [(IF LastPosition THEN r ELSE next) EXCEPT !.accumulator = sum.value]
         /\ Pulses(FALSE, sum.overflow)
  /\ UNCHANGED << c, data, input_data, pipeVars, golden, written >>

GapRequantize ==
  /\ \/ /\ state_q = "REQUANT_MUL" /\ state_q' = "REQUANT_ROUND_ADD"
        /\ Multiply(r.accumulator, c.multiplier, c.shift)
     \/ state_q = "REQUANT_ROUND_ADD" /\ state_q' = "REQUANT_SHIFT" /\ RoundAdd
     \/ state_q = "REQUANT_SHIFT" /\ state_q' = "WRITE_OUTPUT" /\ Shift
  /\ Pulses(FALSE, FALSE)
  /\ UNCHANGED << c, data, r, input_data, golden, written >>

GapWrites == state_q = "WRITE_OUTPUT" /\ rq.valid = "requantized"
GapOutput == relu_clamp(rq.requantized, FALSE)

(* Mutant: the sum of a channel starts from that of the one before.          *)
NextChannel_KeepSum == [Origin EXCEPT !.c = r.c + 1, !.element = r.c + 1, !.accumulator = r.accumulator]

NextChannel == [Origin EXCEPT !.c = r.c + 1, !.element = r.c + 1]

GapWrite ==
  /\ GapWrites
  /\ written' = written + 1
  /\ Clear
  /\ LET last == r.c = c.ic - 1
     IN  /\ Pulses(last, FALSE)
         /\ state_q' = IF last THEN "IDLE" ELSE "READ"
         /\ r' = IF last THEN r ELSE NextChannel
  /\ UNCHANGED << c, data, input_data, golden >>

GapAbort ==
  /\ state_q' = "IDLE" /\ r' = Origin /\ Clear
  /\ done_o' = FALSE /\ overflow_event_o' = FALSE
  /\ UNCHANGED << c, data, input_data, golden, written, overflowed >>

GapClock == GapStart \/ GapIdle \/ GapRead \/ GapAccumulate \/ GapRequantize \/ GapWrite

GapSpec == GapInit /\ [][GapClock \/ GapAbort]_gapVars

-----------------------------------------------------------------------------
(* Every write stores the average the golden model computes for the channel,  *)
(* with the channels in order, from reads that stay inside the packet; and   *)
(* done_o comes after the last channel, with the overflow reported if and     *)
(* only if the golden model reports it.                                       *)
GapWritesAreGolden ==
  /\ state_q = "READ" => r.element \in Below(c.h * c.w * c.ic)
  /\ GapWrites => r.c = written /\ GapOutput = golden.output[written]
  /\ done_o => written = c.ic /\ overflowed = golden.overflow

(* The engine drives the requantizer as PipeSpec says, about which the        *)
(* theorems are: no stage out of its turn, and no product on a result that   *)
(* was not cleared, also after an abort.                                     *)
ImplementsPipeline == PipeSpec
=============================================================================

--------------------------- MODULE GapEngineProofs ---------------------------
(***************************************************************************)
(* The pooling engine writes what the golden model computes, for every size  *)
(* of input and every content.                                              *)
(***************************************************************************)
EXTENDS GapEngine, RequantProofs

-----------------------------------------------------------------------------
(* The inductive invariant: where the loops are, and that the accumulator is  *)
(* the golden model's sum up to there.                                       *)

GapTypeOK ==
  /\ state_q \in GapStates /\ c \in GapConfigs /\ data \in Datas
  /\ r \in [h : Nat, w : Nat, c : Nat, element : Nat, accumulator : INT32]
  /\ done_o \in BOOLEAN /\ overflowed \in BOOLEAN

Position == r.h * c.w + r.w
Sums(cfg, d, ch) == SaturatingSums(GapTerms(cfg, InputArray(cfg, d), ch), cfg.h * cfg.w)
Saturates(cfg, d, ch) == Sums(cfg, d, ch)[cfg.h * cfg.w].overflow

(* The accumulator has the first n positions of the channel.                 *)
Accumulated(n) ==
  /\ r.accumulator = Sums(c, data, r.c)[n].value
  /\ overflowed <=> (\E ch \in Below(r.c) : Saturates(c, data, ch)) \/ Sums(c, data, r.c)[n].overflow

LoopsInv ==
  /\ state_q # "IDLE" =>
       /\ r.h \in Below(c.h) /\ r.w \in Below(c.w) /\ r.c \in Below(c.ic) /\ written = r.c
       /\ r.element = Position * c.ic + r.c
  /\ state_q \in {"READ", "ACCUMULATE"} => Accumulated(Position)
  /\ state_q = "ACCUMULATE" => input_data = InputMem(data, r.element)
  /\ state_q \notin {"IDLE", "READ", "ACCUMULATE"} => Accumulated(c.h * c.w)

(* The requantizer is at the stage of the state, with the accumulator.        *)
StagesInv ==
  /\ rq.valid = CASE state_q = "REQUANT_ROUND_ADD" -> "product"
                  [] state_q = "REQUANT_SHIFT" -> "round_add"
                  [] state_q = "WRITE_OUTPUT" -> "requantized"
                  [] OTHER -> "none"
  /\ rq.valid # "none" => operands = << r.accumulator, c.multiplier, c.shift >>

GapInv ==
  /\ GapTypeOK /\ LoopsInv /\ StagesInv
  /\ golden = global_avg_pool_fixed_point(c, InputArray(c, data))
  /\ done_o => state_q = "IDLE" /\ written = c.ic /\ overflowed = golden.overflow

-----------------------------------------------------------------------------
(* The constants and what the golden model makes of them.                    *)

LEMMA GapTypes ==
  ASSUME c \in GapConfigs, data \in Datas
  PROVE  /\ c.h \in Nat \ {0} /\ c.w \in Nat \ {0} /\ c.ic \in Nat \ {0}
         /\ c.h * c.w \in Nat
         /\ c.multiplier \in Multipliers /\ c.shift \in Shifts
         /\ \A i \in Below(c.h * c.w * c.ic) : InputMem(data, i) \in INT8
<1>1. c.h \in Nat \ {0} /\ c.w \in Nat \ {0} /\ c.ic \in Nat \ {0}
  BY GapAssumption
<1>2. c.h * c.w \in Nat
  BY <1>1
<1>3. c.multiplier \in Multipliers /\ c.shift \in Shifts
  BY GapAssumption
<1>4. \A i \in Below(c.h * c.w * c.ic) : InputMem(data, i) \in INT8
  BY GapAssumption
<1>. QED BY <1>1, <1>2, <1>3, <1>4

(* The element read for a position and a channel is the golden model's term.  *)
LEMMA TermIsRead ==
  ASSUME c \in GapConfigs, data \in Datas,
         NEW y \in Below(c.h), NEW x \in Below(c.w), NEW ch \in Below(c.ic)
  PROVE  /\ y * c.w + x \in Below(c.h * c.w)
         /\ (y * c.w + x) * c.ic + ch \in Below(c.h * c.w * c.ic)
         /\ GapTerms(c, InputArray(c, data), ch)[y * c.w + x]
              = InputMem(data, (y * c.w + x) * c.ic + ch)
<1>. DEFINE t == y * c.w + x
            a == t * c.ic + ch
<1>1. /\ c.h \in Nat \ {0} /\ c.w \in Nat \ {0} /\ c.ic \in Nat \ {0} /\ c.h * c.w \in Nat
      /\ y \in 0 .. (c.h - 1) /\ x \in 0 .. (c.w - 1) /\ ch \in 0 .. (c.ic - 1)
  BY GapTypes DEF Below
<1>2. t \in 0 .. (c.h * c.w - 1)
  BY <1>1, PlaceBound
<1>3. t \div c.w = y /\ t % c.w = x
  <2>1. y \in Nat
    BY <1>1
  <2>. QED BY <1>1, <2>1, DivMod, Zenon
<1>4. a \in 0 .. (c.h * c.w * c.ic - 1)
  <2>. HIDE DEF t
  <2>. QED BY <1>1, <1>2, PlaceBound
<1>5. InputArray(c, data)[y][x][ch] = InputMem(data, a)
  <2>. DEFINE flat == [i \in Below(c.h * c.w * c.ic) |-> InputMem(data, i)]
  <2>1. InputArray(c, data) = Reshape(flat, c.h, c.w, c.ic)
    BY DEF InputArray
  <2>2. flat[a] = InputMem(data, a)
    BY <1>4 DEF Below
  <2>3. Reshape(flat, c.h, c.w, c.ic)[y][x][ch] = flat[a]
    <3>. HIDE DEF flat
    <3>. QED BY ReshapeAt
  <2>. QED BY <2>1, <2>2, <2>3
<1>6. GapTerms(c, InputArray(c, data), ch)[t] = InputArray(c, data)[t \div c.w][t % c.w][ch]
  <2>1. t \in Below(c.h * c.w)
    BY <1>2 DEF Below
  <2>. HIDE DEF t
  <2>. QED BY <2>1, Zenon DEF GapTerms
<1>. QED BY <1>2, <1>3, <1>4, <1>5, <1>6 DEF Below

(* A channel of the golden model is the last of its sums, rescaled.          *)
LEMMA GoldenChannels ==
  ASSUME NEW g, g = global_avg_pool_fixed_point(c, InputArray(c, data))
  PROVE  /\ \A ch \in Below(c.ic) :
              g.output[ch] = relu_and_saturate_int8(
                               requantize(Sums(c, data, ch)[c.h * c.w].value, c.multiplier, c.shift), FALSE)
         /\ g.overflow = (\E ch \in Below(c.ic) : Saturates(c, data, ch))
<1>. DEFINE input == InputArray(c, data)
            point == [ch \in Below(c.ic) |-> GapPoint(c, input, ch)]
<1>1. /\ g.output = [ch \in Below(c.ic) |-> point[ch].output]
      /\ g.overflow = (\E ch \in Below(c.ic) : point[ch].overflow)
  BY Zenon DEF global_avg_pool_fixed_point
<1>2. ASSUME NEW ch \in Below(c.ic)
      PROVE  /\ point[ch].output = relu_and_saturate_int8(
                                     requantize(Sums(c, data, ch)[c.h * c.w].value, c.multiplier, c.shift), FALSE)
             /\ point[ch].overflow = Saturates(c, data, ch)
  <2>1. point[ch] = GapPoint(c, input, ch)
    BY Zenon
  <2>2. SaturatingSum(GapTerms(c, input, ch), c.h * c.w) = Sums(c, data, ch)[c.h * c.w]
    BY Zenon DEF SaturatingSum, Sums
  <2>. QED BY <2>1, <2>2, Zenon DEF GapPoint, Saturates
<1>. HIDE DEF point
<1>3. (\E ch \in Below(c.ic) : point[ch].overflow) = (\E ch \in Below(c.ic) : Saturates(c, data, ch))
  BY <1>2, Zenon
<1>. QED BY <1>1, <1>2, <1>3, Zenon

-----------------------------------------------------------------------------
(* One action at a time.                                                     *)

(* What holds before and after an action of the loops.                       *)
LEMMA GapFacts ==
  ASSUME GapInv
  PROVE  /\ c \in GapConfigs /\ data \in Datas
         /\ c.h \in Nat \ {0} /\ c.w \in Nat \ {0} /\ c.ic \in Nat \ {0} /\ c.h * c.w \in Nat
         /\ r = [h |-> r.h, w |-> r.w, c |-> r.c, element |-> r.element, accumulator |-> r.accumulator]
         /\ r.h \in Nat /\ r.w \in Nat /\ r.c \in Nat /\ r.element \in Nat /\ r.accumulator \in INT32
  BY GapTypes DEF GapInv, GapTypeOK

(* At the start of a channel nothing is summed.                              *)
LEMMA ChannelStarts ==
  ASSUME c \in GapConfigs, data \in Datas, NEW ch
  PROVE  Sums(c, data, ch)[0] = NoSum
  BY GapTypes, SumsTermByTerm DEF Sums

(* The element read is the next term of the sum.                             *)
LEMMA SumGoesOn ==
  ASSUME c \in GapConfigs, data \in Datas,
         NEW y \in Below(c.h), NEW x \in Below(c.w), NEW ch \in Below(c.ic)
  PROVE  Sums(c, data, ch)[y * c.w + x + 1] =
           AddTerm(Sums(c, data, ch)[y * c.w + x], InputMem(data, (y * c.w + x) * c.ic + ch))
<1>. DEFINE t == y * c.w + x
            term == GapTerms(c, InputArray(c, data), ch)
<1>1. t \in 0 .. (c.h * c.w - 1) /\ term[t] = InputMem(data, t * c.ic + ch)
  BY TermIsRead DEF Below
<1>2. c.h * c.w \in Nat
  BY GapTypes
<1>. HIDE DEF t, term
<1>3. SaturatingSums(term, c.h * c.w)[t + 1] = AddTerm(SaturatingSums(term, c.h * c.w)[t], term[t])
  BY <1>1, <1>2, SumsTermByTerm
<1>. QED BY <1>1, <1>3 DEF Sums, t, term

LEMMA InitGapInv == GapInit => GapInv
<1>. SUFFICES ASSUME GapInit PROVE GapInv
  OBVIOUS
<1>1. 0 \in INT32
  BY Constants DEF INT32, INT32_MIN
<1>2. /\ state_q = "IDLE" /\ c \in GapConfigs /\ data \in Datas /\ r = Origin /\ done_o = FALSE
      /\ overflowed = FALSE /\ golden = global_avg_pool_fixed_point(c, InputArray(c, data))
      /\ rq.valid = "none"
  BY DEF GapInit, PipeInit, NoProduct
<1>3. GapTypeOK
  BY <1>1, <1>2 DEF GapTypeOK, GapStates, Origin
<1>. QED BY <1>2, <1>3 DEF GapInv, LoopsInv, StagesInv

LEMMA GapStartStep == GapInv /\ GapStart => GapInv'
<1>. SUFFICES ASSUME GapInv, GapStart PROVE GapInv'
  OBVIOUS
<1>1. /\ state_q = "IDLE" /\ state_q' = "READ" /\ r' = Origin /\ done_o' = FALSE /\ written' = 0
      /\ overflowed' = FALSE /\ c' = c /\ data' = data /\ golden' = golden /\ rq' = rq
      /\ operands' = operands
  BY DEF GapStart, pipeVars
<1>2. 0 \in INT32
  BY Constants DEF INT32, INT32_MIN
<1>3. GapTypeOK'
  BY <1>1, <1>2 DEF GapInv, GapTypeOK, GapStates, Origin
<1>4. /\ r'.h = 0 /\ r'.w = 0 /\ r'.c = 0 /\ r'.element = 0 /\ r'.accumulator = 0
  BY <1>1 DEF Origin
<1>5. Position' = 0 /\ 0 \in Below(c.h) /\ 0 \in Below(c.w) /\ 0 \in Below(c.ic) /\ 0 * c.ic + 0 = 0
  BY <1>1, <1>4, GapFacts DEF Position, Below
<1>6. Accumulated(Position)'
  <2>1. Sums(c, data, 0)[0] = NoSum
    BY GapFacts, ChannelStarts
  <2>2. Below(0) = {}
    BY DEF Below
  <2>. QED BY <1>1, <1>4, <1>5, <2>1, <2>2 DEF Accumulated, NoSum
<1>7. LoopsInv'
  BY <1>1, <1>4, <1>5, <1>6 DEF LoopsInv
<1>8. StagesInv'
  BY <1>1 DEF GapInv, StagesInv
<1>. QED BY <1>1, <1>3, <1>7, <1>8 DEF GapInv

LEMMA GapIdleStep == GapInv /\ GapIdle => GapInv'
<1>. SUFFICES ASSUME GapInv, GapIdle PROVE GapInv'
  OBVIOUS
<1>1. /\ state_q = "IDLE" /\ state_q' = "IDLE" /\ r' = r /\ done_o' = FALSE /\ written' = written
      /\ overflowed' = (overflowed \/ FALSE) /\ c' = c /\ data' = data /\ golden' = golden /\ rq' = rq
      /\ operands' = operands
  BY DEF GapIdle, pipeVars, Pulses
<1>2. GapTypeOK'
  BY <1>1 DEF GapInv, GapTypeOK
<1>. QED BY <1>1, <1>2 DEF GapInv, LoopsInv, StagesInv

LEMMA GapAbortStep == GapInv /\ GapAbort => GapInv'
<1>. SUFFICES ASSUME GapInv, GapAbort PROVE GapInv'
  OBVIOUS
<1>1. /\ state_q' = "IDLE" /\ r' = Origin /\ done_o' = FALSE
      /\ overflowed' = overflowed /\ c' = c /\ data' = data /\ golden' = golden
      /\ rq'.valid = "none"
  BY DEF GapAbort, Clear, RequantClear
<1>2. 0 \in INT32
  BY Constants DEF INT32, INT32_MIN
<1>3. GapTypeOK'
  BY <1>1, <1>2 DEF GapInv, GapTypeOK, GapStates, Origin
<1>. QED BY <1>1, <1>3 DEF GapInv, LoopsInv, StagesInv

LEMMA GapReadStep == GapInv /\ GapRead => GapInv'
<1>. SUFFICES ASSUME GapInv, GapRead PROVE GapInv'
  OBVIOUS
<1>1. /\ state_q = "READ" /\ state_q' = "ACCUMULATE" /\ r' = r /\ done_o' = FALSE
      /\ input_data' = InputMem(data, r.element)
      /\ overflowed' = (overflowed \/ FALSE) /\ c' = c /\ data' = data /\ golden' = golden /\ rq' = rq
      /\ operands' = operands /\ written' = written
  BY DEF GapRead, pipeVars, Pulses
<1>2. overflowed' = overflowed
  BY <1>1 DEF GapInv, GapTypeOK
<1>3. GapTypeOK'
  BY <1>1, <1>2 DEF GapInv, GapTypeOK, GapStates
<1>4. Position' = Position
  BY <1>1 DEF Position
<1>5. LoopsInv'
  BY <1>1, <1>2, <1>4 DEF GapInv, LoopsInv, Accumulated
<1>. QED BY <1>1, <1>3, <1>5 DEF GapInv, StagesInv

(* The next position: the next column, or the first of the next row.         *)
LEMMA NextPosition ==
  ASSUME NEW h \in Nat \ {0}, NEW w \in Nat \ {0}, NEW ic \in Nat \ {0},
         NEW y \in Below(h), NEW x \in Below(w), NEW ch \in Below(ic)
  PROVE  /\ y = h - 1 /\ x = w - 1 => y * w + x + 1 = h * w
         /\ ~(y = h - 1 /\ x = w - 1) /\ x + 1 >= w =>
              y + 1 \in Below(h) /\ 0 \in Below(w) /\ (y + 1) * w + 0 = y * w + x + 1
         /\ x + 1 < w => x + 1 \in Below(w) /\ y * w + (x + 1) = y * w + x + 1
         /\ (y * w + x) * ic + ch + ic = (y * w + x + 1) * ic + ch
<1>1. y \in Nat /\ y < h /\ x \in Nat /\ x < w /\ ch \in Nat
  BY DEF Below
<1>2. y = h - 1 /\ x = w - 1 => y * w + x + 1 = h * w
  <2>1. (h - 1) * w = h * w - w
    OBVIOUS
  <2>. QED BY <1>1, <2>1
<1>3. ~(y = h - 1 /\ x = w - 1) /\ x + 1 >= w =>
              y + 1 \in Below(h) /\ 0 \in Below(w) /\ (y + 1) * w + 0 = y * w + x + 1
  <2>1. (y + 1) * w = y * w + w
    BY <1>1
  <2>. QED BY <1>1, <2>1 DEF Below
<1>4. x + 1 < w => x + 1 \in Below(w) /\ y * w + (x + 1) = y * w + x + 1
  BY <1>1 DEF Below
<1>5. (y * w + x) * ic + ch + ic = (y * w + x + 1) * ic + ch
  <2>. DEFINE t == y * w + x
  <2>1. t \in Nat
    BY <1>1
  <2>. HIDE DEF t
  <2>2. (t + 1) * ic = t * ic + ic
    BY <2>1
  <2>3. t * ic + ch + ic = (t + 1) * ic + ch
    BY <1>1, <2>1, <2>2
  <2>. QED BY <2>3 DEF t
<1>. QED BY <1>2, <1>3, <1>4, <1>5

LEMMA GapAccumulateStep == GapInv /\ GapAccumulate => GapInv'
<1>. SUFFICES ASSUME GapInv, GapAccumulate PROVE GapInv'
  OBVIOUS
<1>. DEFINE sum == sat_add_int32(r.accumulator, input_data)
            next == [r EXCEPT !.w = IF r.w + 1 >= c.w THEN 0 ELSE @ + 1,
                              !.h = IF r.w + 1 >= c.w THEN @ + 1 ELSE @,
                              !.element = @ + c.ic]
<1>1. /\ state_q = "ACCUMULATE" /\ state_q' = IF LastPosition THEN "REQUANT_MUL" ELSE "READ"
      /\ r' = [(IF LastPosition THEN r ELSE next) EXCEPT !.accumulator = sum.value]
      /\ done_o' = FALSE /\ overflowed' = (overflowed \/ sum.overflow)
      /\ c' = c /\ data' = data /\ golden' = golden /\ rq' = rq
      /\ operands' = operands /\ written' = written /\ input_data' = input_data
  BY Zenon DEF GapAccumulate, Pulses, pipeVars
<1>2. /\ r.h \in Below(c.h) /\ r.w \in Below(c.w) /\ r.c \in Below(c.ic) /\ written = r.c
      /\ r.element = Position * c.ic + r.c /\ Accumulated(Position)
      /\ input_data = InputMem(data, r.element)
  BY <1>1 DEF GapInv, LoopsInv
<1>. DEFINE t == r.h * c.w + r.w
<1>3. Position = t /\ t \in Nat
  BY <1>2, GapFacts DEF Position, Below
<1>4. Sums(c, data, r.c)[t + 1] = AddTerm(Sums(c, data, r.c)[t], input_data)
  BY <1>2, <1>3, GapFacts, SumGoesOn
<1>5. input_data \in Int
  <2>1. InputMem(data, t * c.ic + r.c) \in INT8
    BY <1>2, GapFacts, TermIsRead, GapTypes
  <2>. QED BY <1>2, <1>3, <2>1, Constants DEF INT8, INT8_MIN
<1>6. sum.value \in INT32
  BY <1>5, GapFacts, SumIsAccumulator
<1>7. /\ r'.c = r.c /\ r'.accumulator = sum.value
      /\ LastPosition => r'.h = r.h /\ r'.w = r.w /\ r'.element = r.element
      /\ ~LastPosition => /\ r'.w = IF r.w + 1 >= c.w THEN 0 ELSE r.w + 1
                          /\ r'.h = IF r.w + 1 >= c.w THEN r.h + 1 ELSE r.h
                          /\ r'.element = r.element + c.ic
  BY <1>1, GapFacts
<1>8. r' \in [h : Nat, w : Nat, c : Nat, element : Nat, accumulator : INT32]
  <2>. DEFINE w_next == IF r.w + 1 >= c.w THEN 0 ELSE r.w + 1
              h_next == IF r.w + 1 >= c.w THEN r.h + 1 ELSE r.h
  <2>1. w_next \in Nat /\ h_next \in Nat /\ r.element + c.ic \in Nat
    BY GapFacts
  <2>2. next = [r EXCEPT !.w = w_next, !.h = h_next, !.element = r.element + c.ic]
    OBVIOUS
  <2>. HIDE DEF sum, next, w_next, h_next
  <2>3. CASE LastPosition
    BY <1>1, <1>6, <2>3, GapFacts
  <2>4. CASE ~LastPosition
    <3>1. r' = [next EXCEPT !.accumulator = sum.value]
      BY <1>1, <2>4
    <3>2. next \in [h : Nat, w : Nat, c : Nat, element : Nat, accumulator : INT32]
      BY <2>1, <2>2, GapFacts
    <3>. QED BY <1>6, <3>1, <3>2
  <2>. QED BY <2>3, <2>4
<1>9. sum = sat_add_int32(Sums(c, data, r.c)[t].value, input_data)
  BY <1>2, <1>3 DEF Accumulated
<1>10. Sums(c, data, r.c)[t + 1].value = sum.value
  <2>. HIDE DEF sum, t
  <2>. QED BY <1>4, <1>9 DEF AddTerm
<1>11. Sums(c, data, r.c)[t + 1].overflow = (sum.overflow \/ Sums(c, data, r.c)[t].overflow)
  <2>. HIDE DEF sum, t
  <2>. DEFINE after == Sums(c, data, r.c)[t + 1]
              before == Sums(c, data, r.c)[t]
  <2>1. after = [value |-> sum.value, overflow |-> sum.overflow \/ before.overflow]
    BY <1>4, <1>9, Zenon DEF AddTerm
  <2>. HIDE DEF after, before
  <2>2. after.overflow = (sum.overflow \/ before.overflow)
    BY <2>1, Zenon
  <2>. QED BY <2>2 DEF after, before
<1>12. overflowed' <=> (\E ch \in Below(r.c) : Saturates(c, data, ch)) \/ Sums(c, data, r.c)[t + 1].overflow
  <2>1. overflowed <=> (\E ch \in Below(r.c) : Saturates(c, data, ch)) \/ Sums(c, data, r.c)[t].overflow
    BY <1>2, <1>3 DEF Accumulated
  <2>2. overflowed' = (overflowed \/ sum.overflow)
    BY <1>1
  <2>. DEFINE before == \E ch \in Below(r.c) : Saturates(c, data, ch)
  <2>. HIDE DEF sum, t, before
  <2>3. overflowed' <=> before \/ Sums(c, data, r.c)[t + 1].overflow
    <3>1. overflowed <=> before \/ Sums(c, data, r.c)[t].overflow
      BY <2>1 DEF before
    <3>. QED BY <1>11, <2>2, <3>1
  <2>. QED BY <2>3 DEF before
<1>13. GapTypeOK'
  <2>1. overflowed' \in BOOLEAN /\ done_o' \in BOOLEAN /\ state_q' \in GapStates
    BY <1>1 DEF GapStates
  <2>. QED BY <1>1, <1>8, <2>1, GapFacts DEF GapTypeOK
<1>14. StagesInv'
  BY <1>1 DEF GapInv, StagesInv
<1>. HIDE DEF sum
<1>15. CASE LastPosition
  <2>1. t + 1 = c.h * c.w
    BY <1>2, <1>15, GapFacts, NextPosition DEF LastPosition
  <2>2. state_q' = "REQUANT_MUL" /\ r'.h = r.h /\ r'.w = r.w /\ r'.element = r.element
    BY <1>1, <1>7, <1>15
  <2>3. Position' = Position
    BY <1>1, <2>2 DEF Position
  <2>4. Accumulated(c.h * c.w)'
    BY <1>1, <1>7, <1>10, <1>12, <2>1 DEF Accumulated
  <2>5. LoopsInv'
    BY <1>1, <1>2, <1>7, <2>2, <2>3, <2>4 DEF LoopsInv
  <2>. QED BY <1>1, <1>13, <1>14, <2>5 DEF GapInv
<1>16. CASE ~LastPosition
  <2>1. state_q' = "READ"
    BY <1>1, <1>16
  <2>2. r'.h \in Below(c.h) /\ r'.w \in Below(c.w) /\ r'.h * c.w + r'.w = t + 1
    <3>1. r.w + 1 < c.w \/ r.w + 1 >= c.w
      BY GapFacts
    <3>2. CASE r.w + 1 >= c.w
      BY <1>2, <1>7, <1>16, <3>2, GapFacts, NextPosition DEF LastPosition
    <3>3. CASE r.w + 1 < c.w
      BY <1>2, <1>7, <1>16, <3>3, GapFacts, NextPosition
    <3>. QED BY <3>1, <3>2, <3>3
  <2>3. Position' = t + 1
    BY <1>1, <2>2 DEF Position
  <2>4. r'.element = (t + 1) * c.ic + r.c
    <3>1. t * c.ic + r.c + c.ic = (t + 1) * c.ic + r.c
      BY <1>2, GapFacts, NextPosition
    <3>. QED BY <1>2, <1>3, <1>7, <1>16, <3>1
  <2>. HIDE DEF t
  <2>5. Accumulated(Position)'
    BY <1>1, <1>7, <1>10, <1>12, <2>3 DEF Accumulated
  <2>6. LoopsInv'
    BY <1>1, <1>2, <1>7, <2>1, <2>2, <2>3, <2>4, <2>5 DEF LoopsInv
  <2>. QED BY <1>1, <1>13, <1>14, <2>6 DEF GapInv
<1>. QED BY <1>15, <1>16

LEMMA GapRequantizeStep == GapInv /\ GapRequantize => GapInv'
<1>. SUFFICES ASSUME GapInv, GapRequantize PROVE GapInv'
  OBVIOUS
<1>1. /\ r' = r /\ done_o' = FALSE /\ overflowed' = (overflowed \/ FALSE) /\ c' = c /\ data' = data
      /\ golden' = golden /\ written' = written
  BY DEF GapRequantize, Pulses
<1>2. overflowed' = overflowed
  BY <1>1 DEF GapInv, GapTypeOK
<1>3. /\ state_q \in {"REQUANT_MUL", "REQUANT_ROUND_ADD", "REQUANT_SHIFT"}
      /\ state_q' \in {"REQUANT_ROUND_ADD", "REQUANT_SHIFT", "WRITE_OUTPUT"}
  BY DEF GapRequantize
<1>4. GapTypeOK'
  BY <1>1, <1>2, <1>3 DEF GapInv, GapTypeOK, GapStates
<1>5. Position' = Position
  BY <1>1 DEF Position
<1>6. LoopsInv'
  BY <1>1, <1>2, <1>3, <1>5 DEF GapInv, LoopsInv, Accumulated
<1>7. StagesInv'
  BY <1>1 DEF GapInv, StagesInv, GapRequantize, Multiply, RoundAdd, Shift, RequantMul, RequantRoundAdd,
              RequantShift
<1>. QED BY <1>1, <1>4, <1>6, <1>7 DEF GapInv

LEMMA GapWriteStep == GapInv /\ GapWrite => GapInv'
<1>. SUFFICES ASSUME GapInv, GapWrite PROVE GapInv'
  OBVIOUS
<1>. DEFINE last == r.c = c.ic - 1
<1>1. /\ state_q = "WRITE_OUTPUT" /\ state_q' = IF last THEN "IDLE" ELSE "READ"
      /\ r' = IF last THEN r ELSE NextChannel
      /\ done_o' = last /\ overflowed' = (overflowed \/ FALSE) /\ c' = c /\ data' = data
      /\ golden' = golden /\ written' = written + 1 /\ rq'.valid = "none"
  BY DEF GapWrite, GapWrites, Pulses, Clear, RequantClear
<1>2. overflowed' = overflowed
  BY <1>1 DEF GapInv, GapTypeOK
<1>3. /\ r.h \in Below(c.h) /\ r.w \in Below(c.w) /\ r.c \in Below(c.ic) /\ written = r.c
      /\ Accumulated(c.h * c.w)
  BY <1>1 DEF GapInv, LoopsInv
<1>4. overflowed <=> \E ch \in Below(r.c + 1) : Saturates(c, data, ch)
  <2>1. overflowed <=> (\E ch \in Below(r.c) : Saturates(c, data, ch)) \/ Saturates(c, data, r.c)
    BY <1>3 DEF Accumulated, Saturates
  <2>2. Below(r.c + 1) = Below(r.c) \cup {r.c}
    BY <1>3, GapFacts DEF Below
  <2>. QED BY <2>1, <2>2
<1>5. StagesInv'
  BY <1>1 DEF StagesInv
<1>6. CASE last
  <2>1. state_q' = "IDLE" /\ r' = r /\ written' = c.ic
    BY <1>1, <1>3, <1>6, GapFacts
  <2>2. GapTypeOK'
    BY <1>1, <1>2, <2>1 DEF GapInv, GapTypeOK, GapStates
  <2>3. golden.overflow = (\E ch \in Below(c.ic) : Saturates(c, data, ch))
    BY GoldenChannels DEF GapInv
  <2>4. overflowed' = golden.overflow
    <3>1. r.c + 1 = c.ic
      BY <1>6, GapFacts
    <3>2. overflowed \in BOOLEAN
      BY DEF GapInv, GapTypeOK
    <3>. QED BY <1>2, <1>4, <2>3, <3>1, <3>2
  <2>. QED BY <1>1, <1>5, <2>1, <2>2, <2>4 DEF GapInv, LoopsInv
<1>7. CASE ~last
  <2>1. /\ state_q' = "READ" /\ done_o' = FALSE
        /\ r' = [h |-> 0, w |-> 0, c |-> r.c + 1, element |-> r.c + 1, accumulator |-> 0]
    BY <1>1, <1>7 DEF NextChannel, Origin
  <2>2. 0 \in INT32 /\ r.c + 1 \in Below(c.ic)
    BY <1>3, <1>7, GapFacts, Constants DEF INT32, INT32_MIN, Below
  <2>3. GapTypeOK'
    BY <1>1, <1>2, <2>1, <2>2, GapFacts DEF GapInv, GapTypeOK, GapStates
  <2>4. Position' = 0 /\ 0 \in Below(c.h) /\ 0 \in Below(c.w) /\ r'.element = 0 * c.ic + (r.c + 1)
    BY <1>1, <2>1, GapFacts DEF Position, Below
  <2>5. Accumulated(Position)'
    <3>1. Sums(c, data, r.c + 1)[0] = NoSum
      BY GapFacts, ChannelStarts
    <3>. QED BY <1>1, <1>2, <1>4, <2>1, <2>4, <3>1 DEF Accumulated, NoSum
  <2>6. LoopsInv'
    BY <1>1, <1>3, <2>1, <2>2, <2>4, <2>5 DEF LoopsInv
  <2>. QED BY <1>1, <1>5, <2>1, <2>3, <2>6 DEF GapInv
<1>. QED BY <1>6, <1>7

-----------------------------------------------------------------------------
(* The loops sum what the golden model sums, the requantizer is at the stage  *)
(* of the state, and done comes after the last channel.                      *)
THEOREM GapInvariance == GapSpec => []GapInv
<1>1. GapInv /\ [GapClock \/ GapAbort]_gapVars => GapInv'
  <2>. SUFFICES ASSUME GapInv, [GapClock \/ GapAbort]_gapVars PROVE GapInv'
    OBVIOUS
  <2>1. CASE UNCHANGED gapVars
    BY <2>1 DEF gapVars, pipeVars, GapInv, GapTypeOK, LoopsInv, StagesInv, Accumulated, Position
  <2>. QED BY <2>1, GapStartStep, GapIdleStep, GapReadStep, GapAccumulateStep, GapRequantizeStep,
              GapWriteStep, GapAbortStep DEF GapClock
<1>. QED BY <1>1, InitGapInv, PTL DEF GapSpec

(* The engine drives the requantizer as PipeSpec says.                       *)
THEOREM GapImplementsPipeline == GapSpec => ImplementsPipeline
<1>1. GapInit => PipeInit
  BY DEF GapInit
<1>2. GapInv /\ [GapClock \/ GapAbort]_gapVars => [PipeNext]_pipeVars
  <2>. SUFFICES ASSUME GapInv, [GapClock \/ GapAbort]_gapVars PROVE [PipeNext]_pipeVars
    OBVIOUS
  <2>1. CASE GapRequantize
    <3>1. state_q = "REQUANT_MUL" => rq.valid = "none"
      BY DEF GapInv, StagesInv
    <3>2. r.accumulator \in INT32 /\ c.multiplier \in Multipliers /\ c.shift \in Shifts
      BY GapFacts, GapTypes
    <3>. QED BY <2>1, <3>1, <3>2 DEF GapRequantize, PipeNext
  <2>2. CASE GapWrite \/ GapAbort
    BY <2>2 DEF GapWrite, GapAbort, PipeNext
  <2>3. CASE GapStart \/ GapIdle \/ GapRead \/ GapAccumulate
    BY <2>3 DEF GapStart, GapIdle, GapRead, GapAccumulate
  <2>4. CASE UNCHANGED gapVars
    BY <2>4 DEF gapVars
  <2>. QED BY <2>1, <2>2, <2>3, <2>4 DEF GapClock
<1>. QED BY <1>1, <1>2, GapInvariance, PTL DEF GapSpec, PipeSpec, ImplementsPipeline

(* Every byte that the pooling engine writes is the golden model's average of  *)
(* its channel, in order, for every size and content of the input.           *)
THEOREM GapWritesAreGoldenHolds == GapSpec => []GapWritesAreGolden
<1>1. GapInv /\ ResultIsGolden => GapWritesAreGolden
  <2>. SUFFICES ASSUME GapInv, ResultIsGolden PROVE GapWritesAreGolden
    OBVIOUS
  <2>1. state_q = "READ" => r.element \in Below(c.h * c.w * c.ic)
    BY GapFacts, TermIsRead DEF GapInv, LoopsInv, Position
  <2>2. ASSUME GapWrites PROVE r.c = written /\ GapOutput = golden.output[written]
    <3>1. /\ state_q = "WRITE_OUTPUT" /\ rq.valid = "requantized" /\ written = r.c
          /\ r.c \in Below(c.ic) /\ r.accumulator = Sums(c, data, r.c)[c.h * c.w].value
          /\ operands = << r.accumulator, c.multiplier, c.shift >>
      BY <2>2 DEF GapWrites, GapInv, LoopsInv, StagesInv, Accumulated
    <3>2. GapOutput = relu_and_saturate_int8(requantize(r.accumulator, c.multiplier, c.shift), FALSE)
      BY <3>1 DEF GapOutput, ResultIsGolden, Golden
    <3>3. golden.output[r.c] = relu_and_saturate_int8(
            requantize(Sums(c, data, r.c)[c.h * c.w].value, c.multiplier, c.shift), FALSE)
      BY <3>1, GoldenChannels DEF GapInv
    <3>. QED BY <3>1, <3>2, <3>3
  <2>. QED BY <2>1, <2>2 DEF GapWritesAreGolden, GapInv
<1>. QED BY <1>1, GapInvariance, GapImplementsPipeline, RtlRequantIsGolden, PTL DEF ImplementsPipeline
=============================================================================

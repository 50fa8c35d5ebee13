---------------------------- MODULE Requantizer ----------------------------
(***************************************************************************)
(* requantizer.sv, relu_clamp.sv and sat_add_int32.sv: the arithmetic of    *)
(* the engines.  The requantizer has three registered stages (product,      *)
(* magnitude with the rounding offset, shift and sign); its registers are   *)
(* one record, and one operator gives the record after a clock edge.        *)
(***************************************************************************)
EXTENDS FixedPoint

CONSTANTS
  PRODUCT_HALF,        \* 2^48: product_q has 49 bits
  RESULT_HALF          \* 2^49: the magnitude and the result have 50 bits

(* Both registers are wide enough.                                          *)
ASSUME RegistersAssumption ==
  /\ PRODUCT_HALF \in Nat /\ RESULT_HALF \in Nat
  /\ (INT32_MAX + 1) * MULTIPLIER_M_MAX < PRODUCT_HALF
  /\ \A n \in Shifts : PRODUCT_HALF + Pow2[n] < RESULT_HALF

(* A two's complement number of the width whose sign bit weighs half.        *)
Signed(x, half) == ((x + half) % (2 * half)) - half
Unsigned(x, half) == x % (2 * half)

(* The stage whose valid bit is set; each stage takes it from the one before. *)
ValidBits == {"none", "product", "round_add", "requantized"}

NoProduct ==
  [valid |-> "none", product |-> 0, shift |-> 0, magnitude |-> 0, negative |-> FALSE,
   round_shift |-> 0, requantized |-> 0]

(* Mutant: clear_i is not looked at.                                         *)
RequantClear_Ignored(rq) == rq

(* clear_i keeps the result and withdraws its valid bit.                    *)
RequantClear(rq) ==
  [valid |-> "none", product |-> 0, shift |-> 0, magnitude |-> 0, negative |-> FALSE,
   round_shift |-> 0, requantized |-> rq.requantized]

(* Mutant: the product is registered without its valid bit.                  *)
RequantMul_NotValid(rq, acc, m, n) ==
  [valid |-> "none", product |-> Signed(acc * m, PRODUCT_HALF), shift |-> n,
   magnitude |-> rq.magnitude, negative |-> rq.negative,
   round_shift |-> rq.round_shift, requantized |-> rq.requantized]

RequantMul(rq, acc, m, n) ==
  [valid |-> "product", product |-> Signed(acc * m, PRODUCT_HALF),
   shift |-> n % (SHIFT_N_MAX + 1), magnitude |-> rq.magnitude, negative |-> rq.negative,
   round_shift |-> rq.round_shift, requantized |-> rq.requantized]

MagnitudeOf(product) == IF product < 0 THEN -product ELSE product
RoundingOffset(shift) == IF shift = 0 THEN 0 ELSE Pow2[shift - 1]

(* Mutant: the sign is taken after the magnitude replaced the product.       *)
RequantRoundAdd_NoSign(rq) ==
  [valid |-> "round_add", product |-> rq.product, shift |-> rq.shift,
   magnitude |-> Unsigned(MagnitudeOf(rq.product) + RoundingOffset(rq.shift), RESULT_HALF),
   negative |-> FALSE, round_shift |-> rq.shift, requantized |-> rq.requantized]

RequantRoundAdd(rq) ==
  [valid |-> "round_add", product |-> rq.product, shift |-> rq.shift,
   magnitude |-> Unsigned(MagnitudeOf(rq.product) + RoundingOffset(rq.shift), RESULT_HALF),
   negative |-> rq.product < 0, round_shift |-> rq.shift, requantized |-> rq.requantized]

RequantShift(rq) ==
  LET shifted == rq.magnitude \div Pow2[rq.round_shift]
  IN  [valid |-> "requantized", product |-> rq.product, shift |-> rq.shift,
       magnitude |-> rq.magnitude, negative |-> rq.negative, round_shift |-> rq.round_shift,
       requantized |-> Signed(IF rq.negative THEN -shifted ELSE shifted, RESULT_HALF)]

relu_clamp(value, relu_enable) ==
  IF relu_enable /\ value < 0 THEN 0
  ELSE IF value > INT8_MAX THEN INT8_MAX
  ELSE IF value < INT8_MIN THEN INT8_MIN ELSE value

-----------------------------------------------------------------------------
(* The requantizer driven as the engines drive it: a stage is enabled only  *)
(* in its turn, and clear_i may come in any cycle (abort_i, or the cycle in *)
(* which the result is used).                                               *)

VARIABLES
  rq,              \* the registers
  operands         \* history: accumulator, multiplier and shift of the product under way

pipeVars == << rq, operands >>

NoOperands == << 0, 0, 0 >>

PipeInit == rq = NoProduct /\ operands = NoOperands

Clear == rq' = RequantClear(rq) /\ operands' = NoOperands

Multiply(acc, m, n) == rq' = RequantMul(rq, acc, m, n) /\ operands' = << acc, m, n >>

RoundAdd == rq.valid = "product" /\ rq' = RequantRoundAdd(rq) /\ UNCHANGED operands

Shift == rq.valid = "round_add" /\ rq' = RequantShift(rq) /\ UNCHANGED operands

PipeNext ==
  \/ Clear \/ RoundAdd \/ Shift
  \/ rq.valid = "none" /\ \E acc \in INT32, m \in Multipliers, n \in Shifts : Multiply(acc, m, n)

PipeSpec == PipeInit /\ [][PipeNext]_pipeVars

-----------------------------------------------------------------------------
Golden == requantize(operands[1], operands[2], operands[3])

(* The three registered stages of the RTL, on a magnitude and with finite   *)
(* registers, give what the golden model computes on signed integers, and   *)
(* so does the clamp behind them, with and without ReLU.                    *)
ResultIsGolden ==
  rq.valid = "requantized" =>
    /\ rq.requantized = Golden
    /\ \A relu \in BOOLEAN :
         relu_clamp(rq.requantized, relu) = relu_and_saturate_int8(Golden, relu)

(* What the stages carry between them.                                      *)
Product == operands[1] * operands[2]
Magnitude == MagnitudeOf(Product)
Offset == RoundingOffset(operands[3])

PipeInv ==
  /\ operands \in INT32 \X Multipliers \X Shifts
  /\ rq.valid = "product" => rq.product = Product /\ rq.shift = operands[3]
  /\ rq.valid = "round_add" =>
       /\ rq.magnitude = Magnitude + Offset
       /\ rq.negative = (Product < 0)
       /\ rq.round_shift = operands[3]
  /\ rq.valid = "requantized" => rq.requantized = Golden
=============================================================================

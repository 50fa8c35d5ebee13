----------------------------- MODULE FixedPoint -----------------------------
(***************************************************************************)
(* The fixed-point primitives of python/utils/fixed_point.py, under their   *)
(* names, for integers of any width: the limits are constants, so that TLC  *)
(* can go through every value of a narrow instance.  Where Python raises    *)
(* ValueError, the predicate before the operator is false.                  *)
(***************************************************************************)
EXTENDS Integers

CONSTANTS
  INT8_MAX, INT32_MAX,              \* the largest element and accumulator
  MULTIPLIER_M_MAX, SHIFT_N_MAX,
  Pow2                              \* the powers of two up to 2^SHIFT_N_MAX

INT8_MIN == -INT8_MAX - 1
INT32_MIN == -INT32_MAX - 1
INT8 == INT8_MIN .. INT8_MAX
INT32 == INT32_MIN .. INT32_MAX
Multipliers == 0 .. MULTIPLIER_M_MAX
Shifts == 0 .. SHIFT_N_MAX

ASSUME WidthsAssumption ==
  /\ INT8_MAX \in Nat /\ INT32_MAX \in Nat /\ INT8_MAX <= INT32_MAX
  /\ MULTIPLIER_M_MAX \in Nat /\ SHIFT_N_MAX \in Nat

ASSUME PowersAssumption ==
  /\ Pow2 \in [Shifts -> Nat \ {0}]
  /\ Pow2[0] = 1
  /\ \A n \in 1 .. SHIFT_N_MAX : Pow2[n] = 2 * Pow2[n - 1]

-----------------------------------------------------------------------------
sat_int32(value) ==
  [value |-> IF value > INT32_MAX THEN INT32_MAX ELSE IF value < INT32_MIN THEN INT32_MIN ELSE value,
   overflow |-> value \notin INT32]

sat_add_int32(acc, term) == sat_int32(acc + term)

mac_product_defined(input_val, weight_val) == input_val \in INT8 /\ weight_val \in INT8

mac_product(input_val, weight_val) == input_val * weight_val

requantize_defined(acc, m, n) == acc \in INT32 /\ m \in Multipliers /\ n \in Shifts

(* A shift to the right of a number that is not negative, with a half added *)
(* first: round to nearest, ties away from zero.                            *)
RoundShift(p, n) == IF n = 0 THEN p ELSE (p + Pow2[n - 1]) \div Pow2[n]

requantize(acc, m, n) ==
  LET p == acc * m IN IF p >= 0 THEN RoundShift(p, n) ELSE -RoundShift(-p, n)

clamp(value, lo, hi) == IF value < lo THEN lo ELSE IF value > hi THEN hi ELSE value

relu_and_saturate_int8(value, relu_enable) ==
  clamp(IF relu_enable /\ value < 0 THEN 0 ELSE value, INT8_MIN, INT8_MAX)

(* OUTPUT_SCALE: the shift in the upper, the multiplier in the lower half.   *)
HALF_WORD == 65536

pack_output_scale(m, n) == (n % HALF_WORD) * HALF_WORD + (m % HALF_WORD)

unpack_output_scale(reg_value) ==
  << reg_value % HALF_WORD, (reg_value \div HALF_WORD) % HALF_WORD >>

conv_output_dim(in_dim, padding, kernel, stride) ==
  (in_dim + 2 * padding - kernel) \div stride + 1

(* The configuration of a convolution that the golden model does not refuse. *)
validate_conv_config(c) ==
  /\ c.h > 0 /\ c.w > 0 /\ c.ic > 0 /\ c.oc > 0 /\ c.kernel > 0
  /\ c.stride \in {1, 2}
  /\ c.h + 2 * c.padding >= c.kernel
  /\ c.w + 2 * c.padding >= c.kernel
=============================================================================

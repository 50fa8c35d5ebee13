---------------------------- MODULE RequantProofs ----------------------------
(***************************************************************************)
(* The requantizer of the RTL computes the golden model's requantize, for    *)
(* every width of its registers that satisfies RegistersAssumption.          *)
(***************************************************************************)
EXTENDS GoldenModel, Requantizer, WellFoundedInduction, TLAPS

(* The values that the three stages hold are of the stated types.            *)
PipeTypeOK ==
  rq \in [valid : ValidBits, product : Int, shift : Shifts, magnitude : Nat,
          negative : BOOLEAN, round_shift : Shifts, requantized : Int]

PipeIInv == PipeTypeOK /\ PipeInv

-----------------------------------------------------------------------------
(* A remainder below its modulus, a quotient below its dividend.             *)
LEMMA ModSmall ==
  ASSUME NEW b \in Nat \ {0}, NEW a \in 0 .. (b - 1)
  PROVE  a % b = a
  OBVIOUS

LEMMA DivBound ==
  ASSUME NEW a \in Nat, NEW d \in Nat \ {0}
  PROVE  a \div d \in 0 .. a
<1>1. a \div d \in Int /\ a % d \in 0 .. (d - 1) /\ a = d * (a \div d) + (a % d)
  OBVIOUS
<1>2. a \div d >= 0
  BY <1>1
<1>3. d * (a \div d) >= a \div d
  BY <1>1, <1>2
<1>. QED BY <1>1, <1>2, <1>3

(* The constants of the two modules, unpacked.                               *)
LEMMA Constants ==
  /\ INT32_MAX \in Nat /\ INT8_MAX \in Nat /\ INT8_MAX <= INT32_MAX
  /\ MULTIPLIER_M_MAX \in Nat /\ SHIFT_N_MAX \in Nat
  /\ \A n \in Shifts : Pow2[n] \in Nat \ {0}
  /\ Pow2[0] = 1
  /\ PRODUCT_HALF \in Nat /\ RESULT_HALF \in Nat
  /\ (INT32_MAX + 1) * MULTIPLIER_M_MAX < PRODUCT_HALF
  /\ \A n \in Shifts : PRODUCT_HALF + Pow2[n] < RESULT_HALF
  BY WidthsAssumption, PowersAssumption, RegistersAssumption

(* A number of two's complement that fits is not changed.                    *)
LEMMA SignedFits ==
  ASSUME NEW half \in Nat, NEW x \in Int, -half <= x, x < half
  PROVE  Signed(x, half) = x
<1>1. 2 * half \in Nat \ {0} /\ x + half \in 0 .. (2 * half - 1)
  OBVIOUS
<1>2. (x + half) % (2 * half) = x + half
  BY <1>1, ModSmall
<1>. QED BY <1>2 DEF Signed

LEMMA UnsignedFits ==
  ASSUME NEW half \in Nat, NEW x \in Nat, x < half
  PROVE  Unsigned(x, half) = x
<1>1. 2 * half \in Nat \ {0} /\ x \in 0 .. (2 * half - 1)
  OBVIOUS
<1>. QED BY <1>1, ModSmall DEF Unsigned

(* A product of an accumulator and a multiplier fits in product_q.           *)
LEMMA ProductFits ==
  ASSUME NEW acc \in INT32, NEW m \in Multipliers
  PROVE  /\ acc * m \in Int
         /\ -PRODUCT_HALF < acc * m
         /\ acc * m < PRODUCT_HALF
<1>. DEFINE top == INT32_MAX + 1
<1>1. acc \in Int /\ -top <= acc /\ acc <= top /\ m \in Nat /\ m <= MULTIPLIER_M_MAX
  BY Constants DEF INT32, INT32_MIN, Multipliers
<1>2. top \in Nat /\ top * MULTIPLIER_M_MAX < PRODUCT_HALF
  BY Constants
<1>. HIDE DEF top
<1>3. top * m <= top * MULTIPLIER_M_MAX
  BY <1>1, <1>2, Constants
<1>4. acc * m <= top * m /\ -(top * m) <= acc * m
  BY <1>1, <1>2
<1>5. acc * m \in Int /\ top * m \in Int /\ top * MULTIPLIER_M_MAX \in Int
  BY <1>1, <1>2, Constants
<1>. QED BY <1>2, <1>3, <1>4, <1>5, Constants

(* A rounded magnitude fits in the result's register.                        *)
LEMMA RoundShiftFits ==
  ASSUME NEW n \in Shifts, NEW p \in Nat, p < PRODUCT_HALF
  PROVE  /\ p + RoundingOffset(n) \in Nat /\ p + RoundingOffset(n) < RESULT_HALF
         /\ (p + RoundingOffset(n)) \div Pow2[n] = RoundShift(p, n)
         /\ RoundShift(p, n) \in Nat
         /\ RoundShift(p, n) < RESULT_HALF
<1>1. CASE n = 0
  <2>1. p \div Pow2[n] = p
    BY <1>1, Constants
  <2>2. Pow2[n] \in Nat /\ PRODUCT_HALF + Pow2[n] < RESULT_HALF
    BY Constants
  <2>. QED BY <1>1, <2>1, <2>2, Constants DEF RoundShift, RoundingOffset
<1>2. CASE n # 0
  <2>1. n - 1 \in Shifts
    BY <1>2, Constants DEF Shifts
  <2>2. Pow2[n - 1] \in Nat /\ PRODUCT_HALF + Pow2[n - 1] < RESULT_HALF /\ Pow2[n] \in Nat \ {0}
    BY <2>1, Constants
  <2>3. p + Pow2[n - 1] \in Nat /\ p + Pow2[n - 1] < RESULT_HALF
    BY <2>2, Constants
  <2>4. (p + Pow2[n - 1]) \div Pow2[n] \in 0 .. (p + Pow2[n - 1])
    BY <2>2, <2>3, DivBound
  <2>. QED BY <1>2, <2>2, <2>3, <2>4, Constants DEF RoundShift, RoundingOffset
<1>. QED BY <1>1, <1>2

-----------------------------------------------------------------------------
(* What the two magnitudes of a product have in common.                      *)
LEMMA MagnitudeFits ==
  ASSUME operands \in INT32 \X Multipliers \X Shifts
  PROVE  /\ Product \in Int /\ -PRODUCT_HALF < Product /\ Product < PRODUCT_HALF
         /\ Magnitude \in Nat /\ Magnitude < PRODUCT_HALF
         /\ Golden = IF Product < 0 THEN -RoundShift(Magnitude, operands[3])
                                    ELSE RoundShift(Magnitude, operands[3])
<1>1. operands[1] \in INT32 /\ operands[2] \in Multipliers /\ operands[3] \in Shifts
  OBVIOUS
<1>2. Product \in Int /\ -PRODUCT_HALF < Product /\ Product < PRODUCT_HALF
  BY <1>1, ProductFits DEF Product
<1>3. Magnitude \in Nat /\ Magnitude < PRODUCT_HALF
  BY <1>2, Constants DEF Magnitude, MagnitudeOf
<1>4. CASE Product >= 0
  <2>1. Magnitude = Product /\ Golden = RoundShift(Product, operands[3])
    BY <1>2, <1>4 DEF Golden, requantize, Product, Magnitude, MagnitudeOf
  <2>. QED BY <1>2, <1>3, <1>4, <2>1
<1>5. CASE Product < 0
  <2>1. Magnitude = -Product /\ Golden = -RoundShift(-Product, operands[3])
    BY <1>2, <1>5 DEF Golden, requantize, Product, Magnitude, MagnitudeOf
  <2>. QED BY <1>2, <1>3, <1>5, <2>1
<1>. QED BY <1>2, <1>4, <1>5

LEMMA InitInv == PipeInit => PipeIInv
<1>. SUFFICES ASSUME PipeInit PROVE PipeIInv
  OBVIOUS
<1>1. operands = << 0, 0, 0 >> /\ rq = NoProduct
  BY DEF PipeInit, NoOperands
<1>2. 0 \in INT32 /\ 0 \in Multipliers /\ 0 \in Shifts
  BY Constants DEF INT32, INT32_MIN, Multipliers, Shifts
<1>. QED BY <1>1, <1>2 DEF PipeIInv, PipeTypeOK, PipeInv, NoProduct, ValidBits

(* Withdrawing the valid bits promises nothing of the registers.             *)
LEMMA ClearInv == PipeIInv /\ Clear => PipeIInv'
<1>. SUFFICES ASSUME PipeIInv, Clear PROVE PipeIInv'
  OBVIOUS
<1>1. 0 \in Shifts /\ 0 \in INT32 /\ 0 \in Multipliers
  BY Constants DEF INT32, INT32_MIN, Multipliers, Shifts
<1>. QED BY <1>1 DEF PipeIInv, PipeTypeOK, PipeInv, Clear, RequantClear, ValidBits, NoOperands

(* The first stage holds the product itself.                                 *)
LEMMA MultiplyInv ==
  ASSUME PipeIInv, NEW acc \in INT32, NEW m \in Multipliers, NEW n \in Shifts, Multiply(acc, m, n)
  PROVE  PipeIInv'
<1>1. rq' = RequantMul(rq, acc, m, n) /\ operands' = << acc, m, n >>
  BY DEF Multiply
<1>2. Signed(acc * m, PRODUCT_HALF) = acc * m /\ acc * m \in Int
  BY ProductFits, SignedFits, Constants
<1>3. n % (SHIFT_N_MAX + 1) = n
  <2>1. SHIFT_N_MAX + 1 \in Nat \ {0} /\ n \in 0 .. (SHIFT_N_MAX + 1 - 1)
    BY Constants DEF Shifts
  <2>. QED BY <2>1, ModSmall, Constants
<1>4. rq' = [valid |-> "product", product |-> acc * m, shift |-> n, magnitude |-> rq.magnitude,
             negative |-> rq.negative, round_shift |-> rq.round_shift,
             requantized |-> rq.requantized]
  BY <1>1, <1>2, <1>3 DEF RequantMul
<1>5. PipeTypeOK'
  BY <1>2, <1>4 DEF PipeIInv, PipeTypeOK, ValidBits
<1>6. PipeInv'
  BY <1>1, <1>4 DEF PipeIInv, PipeTypeOK, PipeInv, Product
<1>. QED BY <1>5, <1>6 DEF PipeIInv

(* The second stage holds the magnitude with the rounding offset.            *)
LEMMA RoundAddInv == PipeIInv /\ RoundAdd => PipeIInv'
<1>. SUFFICES ASSUME PipeIInv, RoundAdd PROVE PipeIInv'
  OBVIOUS
<1>1. /\ rq.valid = "product" /\ rq' = RequantRoundAdd(rq) /\ operands' = operands
      /\ operands \in INT32 \X Multipliers \X Shifts
      /\ rq.product = Product /\ rq.shift = operands[3] /\ operands[3] \in Shifts
  BY DEF RoundAdd, PipeIInv, PipeInv
<1>2. Magnitude \in Nat /\ Magnitude < PRODUCT_HALF
  BY <1>1, MagnitudeFits
<1>3. Magnitude + Offset \in Nat /\ Magnitude + Offset < RESULT_HALF
  BY <1>1, <1>2, RoundShiftFits DEF Offset
<1>4. Unsigned(Magnitude + Offset, RESULT_HALF) = Magnitude + Offset
  BY <1>3, UnsignedFits, Constants
<1>5. rq' = [valid |-> "round_add", product |-> Product, shift |-> operands[3],
             magnitude |-> Magnitude + Offset, negative |-> Product < 0,
             round_shift |-> operands[3], requantized |-> rq.requantized]
  BY <1>1, <1>4 DEF RequantRoundAdd, Magnitude, Offset
<1>6. PipeTypeOK'
  BY <1>1, <1>3, <1>5 DEF PipeIInv, PipeTypeOK, ValidBits
<1>7. PipeInv'
  BY <1>1, <1>5 DEF PipeIInv, PipeTypeOK, PipeInv, Product, Magnitude, Offset
<1>. QED BY <1>6, <1>7 DEF PipeIInv

(* The third stage gives the golden result.                                  *)
LEMMA ShiftInv == PipeIInv /\ Shift => PipeIInv'
<1>. SUFFICES ASSUME PipeIInv, Shift PROVE PipeIInv'
  OBVIOUS
<1>1. /\ rq.valid = "round_add" /\ rq' = RequantShift(rq) /\ operands' = operands
      /\ operands \in INT32 \X Multipliers \X Shifts
      /\ rq.magnitude = Magnitude + Offset /\ rq.negative = (Product < 0)
      /\ rq.round_shift = operands[3] /\ operands[3] \in Shifts
  BY DEF Shift, PipeIInv, PipeInv
<1>. DEFINE shifted == RoundShift(Magnitude, operands[3])
<1>2. Magnitude \in Nat /\ Magnitude < PRODUCT_HALF
  BY <1>1, MagnitudeFits
<1>3. /\ rq.magnitude \div Pow2[rq.round_shift] = shifted
      /\ shifted \in Nat /\ shifted < RESULT_HALF
  BY <1>1, <1>2, RoundShiftFits DEF Offset
<1>4. Golden = IF Product < 0 THEN -shifted ELSE shifted
  BY <1>1, MagnitudeFits
<1>. HIDE DEF shifted
<1>5. Golden \in Int /\ -RESULT_HALF <= Golden /\ Golden < RESULT_HALF
  BY <1>3, <1>4, Constants
<1>6. Signed(Golden, RESULT_HALF) = Golden
  BY <1>5, SignedFits, Constants
<1>7. rq' = [valid |-> "requantized", product |-> rq.product, shift |-> rq.shift,
             magnitude |-> rq.magnitude, negative |-> rq.negative,
             round_shift |-> rq.round_shift, requantized |-> Golden]
  BY <1>1, <1>3, <1>4, <1>6 DEF RequantShift
<1>8. PipeTypeOK'
  BY <1>5, <1>7 DEF PipeIInv, PipeTypeOK, ValidBits
<1>9. PipeInv'
  <2>1. Golden' = Golden /\ Magnitude' = Magnitude /\ Offset' = Offset /\ Product' = Product
    BY <1>1 DEF Golden, Magnitude, Offset, Product
  <2>2. rq'.valid = "requantized" /\ rq'.requantized = Golden
    BY <1>7
  <2>. QED BY <1>1, <2>1, <2>2 DEF PipeIInv, PipeInv
<1>. QED BY <1>8, <1>9 DEF PipeIInv

(* The clamp of the RTL is the golden one.                                   *)
LEMMA ClampIsGolden ==
  ASSUME NEW value \in Int, NEW relu \in BOOLEAN
  PROVE  relu_clamp(value, relu) = relu_and_saturate_int8(value, relu)
  BY Constants DEF relu_clamp, relu_and_saturate_int8, clamp, INT8_MIN

LEMMA InvImplies == PipeIInv => ResultIsGolden
  BY ClampIsGolden DEF PipeIInv, PipeTypeOK, PipeInv, ResultIsGolden

LEMMA PipeInvariance == PipeSpec => []PipeIInv
<1>1. PipeIInv /\ [PipeNext]_pipeVars => PipeIInv'
  <2>. SUFFICES ASSUME PipeIInv, [PipeNext]_pipeVars PROVE PipeIInv'
    OBVIOUS
  <2>1. CASE UNCHANGED pipeVars
    BY <2>1 DEF pipeVars, PipeIInv, PipeTypeOK, PipeInv, Product, Magnitude, Offset, Golden
  <2>. QED BY <2>1, ClearInv, MultiplyInv, RoundAddInv, ShiftInv DEF PipeNext
<1>. QED BY <1>1, InitInv, PTL DEF PipeSpec

(* The stages of the requantizer hold the product, its rounded magnitude and *)
(* the result of the operands they were given.                               *)
THEOREM StagesHoldOperands == PipeSpec => []PipeInv
<1>1. PipeIInv => PipeInv
  BY DEF PipeIInv
<1>. QED BY <1>1, PipeInvariance, PTL

(* What the RTL's requantizer and clamp give is what the golden model        *)
(* computes, for accumulators, multipliers and shifts of every width.        *)
THEOREM RtlRequantIsGolden == PipeSpec => []ResultIsGolden
  BY InvImplies, PipeInvariance, PTL

(* An addition gives an accumulator, whatever is added.                      *)
LEMMA SumIsAccumulator ==
  ASSUME NEW acc \in INT32, NEW term \in Int
  PROVE  sat_add_int32(acc, term).value \in INT32
<1>1. acc \in Int /\ INT32_MAX \in Nat
  BY Constants DEF INT32, INT32_MIN
<1>2. sat_add_int32(acc, term).value =
        IF acc + term > INT32_MAX THEN INT32_MAX
        ELSE IF acc + term < INT32_MIN THEN INT32_MIN ELSE acc + term
  BY DEF sat_add_int32, sat_int32
<1>. QED BY <1>1, <1>2 DEF INT32, INT32_MIN

-----------------------------------------------------------------------------
(* Places in an array stored with its last index running fastest.            *)

LEMMA DivMod ==
  ASSUME NEW d \in Nat \ {0}, NEW q \in Nat, NEW x \in 0 .. (d - 1)
  PROVE  (q * d + x) \div d = q /\ (q * d + x) % d = x /\ q * d + x \in Nat
<1>. DEFINE n == q * d + x
            a == n \div d
            b == n % d
<1>1. n \in Nat /\ q * d \in Nat
  OBVIOUS
<1>2. n = q * d + x /\ x \in Nat /\ x < d
  OBVIOUS
<1>. HIDE DEF n
<1>3. a \in Int /\ b \in 0 .. (d - 1) /\ n = d * a + b
  BY <1>1
<1>. HIDE DEF a, b
<1>4. a = q
  <2>1. CASE a >= q + 1
    <3>1. d * a >= d * (q + 1)
      BY <1>3, <2>1
    <3>2. d * (q + 1) = q * d + d
      OBVIOUS
    <3>. QED BY <1>1, <1>2, <1>3, <3>1, <3>2
  <2>2. CASE a <= q - 1
    <3>1. d * a <= d * (q - 1)
      BY <1>3, <2>2
    <3>2. d * (q - 1) = q * d - d
      OBVIOUS
    <3>. QED BY <1>1, <1>2, <1>3, <3>1, <3>2
  <2>. QED BY <1>3, <2>1, <2>2
<1>5. b = x
  <2>1. d * a = q * d
    BY <1>4
  <2>. QED BY <1>1, <1>2, <1>3, <2>1
<1>. QED BY <1>1, <1>4, <1>5 DEF a, b, n

(* A place lies inside the array.                                            *)
LEMMA PlaceBound ==
  ASSUME NEW d \in Nat \ {0}, NEW m \in Nat, NEW q \in 0 .. (m - 1), NEW x \in 0 .. (d - 1)
  PROVE  q * d + x \in 0 .. (m * d - 1)
<1>1. (q + 1) * d <= m * d
  <2>1. q + 1 <= m /\ q + 1 \in Nat
    OBVIOUS
  <2>. QED BY <2>1
<1>2. (q + 1) * d = q * d + d /\ q * d \in Nat /\ m * d \in Nat
  OBVIOUS
<1>. QED BY <1>1, <1>2

LEMMA ReshapeAt ==
  ASSUME NEW flat, NEW d1, NEW d2, NEW d3, NEW i \in Below(d1), NEW j \in Below(d2), NEW k \in Below(d3)
  PROVE  Reshape(flat, d1, d2, d3)[i][j][k] = flat[(i * d2 + j) * d3 + k]
  BY DEF Reshape

-----------------------------------------------------------------------------
(* Sums.  A function defined by recursion is a CHOOSE; that there is one      *)
(* takes an induction, here on a set, because the library's theorems take an *)
(* operator as a parameter.                                                 *)

LEMMA SetInduction ==
  ASSUME NEW S, 0 \in S, \A n \in Nat : n \in S => n + 1 \in S
  PROVE  Nat \subseteq S
<1>. DEFINE T == Nat \ S
            R == OpToRel(<, Nat)
<1>. SUFFICES ASSUME T # {} PROVE FALSE
  OBVIOUS
<1>1. IsWellFoundedOn(R, Nat)
  BY NatLessThanWellFounded
<1>2. PICK x \in T : \A y \in T : << y, x >> \notin R
  <2>. HIDE DEF R
  <2>1. T \subseteq Nat
    OBVIOUS
  <2>. HIDE DEF T
  <2>. QED BY <1>1, <2>1, WFMin
<1>3. x \in Nat /\ x \notin S /\ x # 0 /\ x - 1 \in Nat
  OBVIOUS
<1>4. x - 1 \in S
  <2>1. x - 1 < x
    BY <1>3
  <2>2. << x - 1, x >> \in R
    BY <1>3, <2>1 DEF OpToRel
  <2>3. x - 1 \notin T
    BY <1>2, <2>2
  <2>. QED BY <1>3, <2>3
<1>5. (x - 1) + 1 = x
  BY <1>3
<1>6. x \in S
  BY <1>3, <1>4, <1>5
<1>. QED BY <1>3, <1>6

(* f is the function that SaturatingSums defines.                            *)
AreSums(f, term, n) ==
  f = [t \in 0 .. n |-> IF t = 0 THEN NoSum ELSE AddTerm(f[t - 1], term[t - 1])]

LEMMA SumsExist ==
  ASSUME NEW term, NEW n \in Nat
  PROVE  \E f : AreSums(f, term, n)
<1>. DEFINE S == {k \in Nat : \E f : AreSums(f, term, k)}
<1>1. 0 \in S
  <2>. DEFINE g == [t \in 0 .. 0 |-> NoSum]
  <2>1. AreSums(g, term, 0)
    BY DEF AreSums
  <2>. QED BY <2>1
<1>2. ASSUME NEW k \in Nat, k \in S PROVE k + 1 \in S
  <2>1. PICK f : AreSums(f, term, k)
    BY <1>2
  <2>. DEFINE g == [t \in 0 .. k + 1 |-> IF t = k + 1 THEN AddTerm(f[k], term[k]) ELSE f[t]]
  <2>2. ASSUME NEW t \in 0 .. k + 1
        PROVE  g[t] = IF t = 0 THEN NoSum ELSE AddTerm(g[t - 1], term[t - 1])
    <3>1. CASE t = 0
      BY <2>1, <3>1 DEF AreSums
    <3>2. CASE t \in 1 .. k
      <4>1. g[t] = f[t] /\ g[t - 1] = f[t - 1] /\ t \in 0 .. k /\ t # 0
        BY <3>2
      <4>2. f[t] = AddTerm(f[t - 1], term[t - 1])
        BY <2>1, <4>1, Zenon DEF AreSums
      <4>. QED BY <4>1, <4>2
    <3>3. CASE t = k + 1
      <4>1. g[t] = AddTerm(f[k], term[k]) /\ t - 1 = k /\ g[t - 1] = f[k]
        BY <3>3
      <4>. QED BY <3>3, <4>1
    <3>. QED BY <3>1, <3>2, <3>3
  <2>3. g = [t \in 0 .. k + 1 |-> g[t]]
    OBVIOUS
  <2>. HIDE DEF g
  <2>4. AreSums(g, term, k + 1)
    BY <2>2, <2>3, Zenon DEF AreSums
  <2>. QED BY <2>4
<1>3. Nat \subseteq S
  <2>. HIDE DEF S
  <2>. QED BY <1>1, <1>2, SetInduction
<1>. QED BY <1>3

(* The golden model's saturating sum of n + 1 terms is the sum of n of them,  *)
(* plus the next, for any terms and any n: what the engines compute term by   *)
(* term.                                                                    *)
LEMMA SumsTermByTerm ==
  ASSUME NEW term, NEW n \in Nat
  PROVE  /\ SaturatingSums(term, n)[0] = NoSum
         /\ \A t \in 0 .. (n - 1) :
              SaturatingSums(term, n)[t + 1] = AddTerm(SaturatingSums(term, n)[t], term[t])
<1>. DEFINE f == SaturatingSums(term, n)
<1>1. AreSums(f, term, n)
  <2>1. f = CHOOSE g : AreSums(g, term, n)
    BY DEF SaturatingSums, AreSums
  <2>. QED BY <2>1, SumsExist
<1>. HIDE DEF f
<1>2. \A t \in 0 .. n : f[t] = IF t = 0 THEN NoSum ELSE AddTerm(f[t - 1], term[t - 1])
  BY <1>1, Zenon DEF AreSums
<1>3. f[0] = NoSum
  BY <1>2
<1>4. ASSUME NEW t \in 0 .. (n - 1) PROVE f[t + 1] = AddTerm(f[t], term[t])
  <2>1. t + 1 \in 0 .. n /\ t + 1 # 0 /\ (t + 1) - 1 = t
    OBVIOUS
  <2>. QED BY <1>2, <2>1
<1>. QED BY <1>3, <1>4 DEF f

-----------------------------------------------------------------------------
(* Saturating addition stays in range, and reports exactly the sums outside  *)
(* it (sat_add_int32 of the golden model and of the RTL).                    *)
THEOREM SaturationIsReported ==
  ASSUME NEW acc \in INT32, NEW term \in INT32
  PROVE  /\ sat_add_int32(acc, term).value \in INT32
         /\ sat_add_int32(acc, term).overflow <=> sat_add_int32(acc, term).value # acc + term
<1>1. acc \in Int /\ term \in Int /\ INT32_MAX \in Int /\ INT32_MIN = -INT32_MAX - 1 /\ INT32_MAX >= 0
  BY Constants DEF INT32, INT32_MIN
<1>. DEFINE sum == acc + term
            bounded == IF sum > INT32_MAX THEN INT32_MAX ELSE IF sum < INT32_MIN THEN INT32_MIN ELSE sum
<1>2. sat_add_int32(acc, term).value = bounded
  BY DEF sat_add_int32, sat_int32
<1>3. sat_add_int32(acc, term).overflow = (sum \notin INT32)
  BY Zenon DEF sat_add_int32, sat_int32
<1>4. bounded \in INT32 /\ (sum \notin INT32 <=> bounded # sum)
  BY <1>1 DEF INT32
<1>. HIDE DEF bounded
<1>5. sat_add_int32(acc, term).overflow <=> bounded # acc + term
  BY <1>3, <1>4, Zenon
<1>6. sat_add_int32(acc, term).overflow <=> sat_add_int32(acc, term).value # acc + term
  BY <1>2, <1>5, Zenon
<1>. QED BY <1>2, <1>4, <1>6, Zenon

(* The OUTPUT_SCALE register gives back the multiplier and the shift that     *)
(* were packed into it.                                                      *)
THEOREM OutputScaleRoundTrip ==
  ASSUME NEW m \in 0 .. (HALF_WORD - 1), NEW n \in 0 .. (HALF_WORD - 1)
  PROVE  unpack_output_scale(pack_output_scale(m, n)) = << m, n >>
<1>1. m % HALF_WORD = m /\ n % HALF_WORD = n
  <2>1. HALF_WORD \in Nat \ {0}
    BY DEF HALF_WORD
  <2>. QED BY <2>1, ModSmall
<1>. DEFINE word == n * 65536 + m
            quotient == word \div 65536
            rest == word % 65536
<1>2. word \in Nat
  <2>1. m \in Nat /\ n \in Nat
    BY DEF HALF_WORD
  <2>. QED BY <2>1
<1>. HIDE DEF word
<1>3. /\ quotient \in Int /\ rest \in Int /\ 0 <= rest /\ rest < 65536
      /\ word = 65536 * quotient + rest
  BY <1>2
<1>4. m \in Int /\ 0 <= m /\ m < 65536 /\ n \in Int /\ word = 65536 * n + m
  <2>1. m \in Int /\ 0 <= m /\ m < 65536 /\ n \in Int
    BY DEF HALF_WORD
  <2>. QED BY <2>1 DEF word
<1>. HIDE DEF quotient, rest
<1>5. quotient = n /\ rest = m
  <2>1. CASE quotient >= n + 1
    BY <1>3, <1>4, <2>1
  <2>2. CASE quotient <= n - 1
    BY <1>3, <1>4, <2>2
  <2>3. CASE quotient = n
    BY <1>3, <1>4, <2>3
  <2>. QED BY <1>3, <1>4, <2>1, <2>2, <2>3
<1>6. unpack_output_scale(word) = << m, n >>
  BY <1>5, <1>1 DEF unpack_output_scale, HALF_WORD, quotient, rest
<1>7. pack_output_scale(m, n) = word
  BY <1>1 DEF pack_output_scale, HALF_WORD, word
<1>. QED BY <1>6, <1>7
=============================================================================

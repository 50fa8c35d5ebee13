------------------------ MODULE ConfigValidatorProofs ------------------------
(***************************************************************************)
(* The validator multiplies rightly and accepts exactly the legal           *)
(* configurations, for every size of the buffers and all register values;   *)
(* accel_configure in front of it accepts a layer descriptor exactly if its  *)
(* tensors fit, for all descriptors, widths of the products and results of a *)
(* division by zero.                                                        *)
(***************************************************************************)
EXTENDS AccelConfigure, TLAPS

-----------------------------------------------------------------------------
(* The multiplier.                                                          *)

(* Multiplying by the lowest bit and by the rest.                           *)
LEMMA SplitProduct ==
  ASSUME NEW a \in Nat, NEW m \in Nat, m >= 1
  PROVE  /\ m \div 2 \in Nat /\ (m > 1 => m \div 2 >= 1)
         /\ a * (m \div 2) \in Nat
         /\ (m > 1 => a * (m \div 2) >= a)
         /\ m % 2 = 1 => a * m = a + 2 * (a * (m \div 2))
         /\ m % 2 = 0 => a * m = 2 * (a * (m \div 2))
         /\ m % 2 \in {0, 1}
<1> DEFINE q == m \div 2
<1>1. q \in Nat /\ m % 2 \in {0, 1} /\ m = (2 * q) + (m % 2) /\ (m > 1 => q >= 1)
  OBVIOUS
<1>2. a * q \in Nat /\ (q >= 1 => a * q >= a)
  BY <1>1
<1>3. m % 2 = 1 => a * m = a + 2 * (a * q)
  BY <1>1
<1>4. m % 2 = 0 => a * m = 2 * (a * q)
  BY <1>1
<1> QED
  BY <1>1, <1>2, <1>3, <1>4

(* A cycle that is not the last keeps what the multiplier computes.         *)
LEMMA StepComputes ==
  ASSUME MultiplierTypeOK, NEW x \in Nat, NEW y \in Nat, NEW limit \in Nat,
         Computes(x, y, limit), Step
  PROVE  MultiplierTypeOK' /\ Computes(x, y, limit)'
<1> DEFINE a == mul_multiplicand
           m == mul_multiplier
           q == m \div 2
<1>1. m \in Nat /\ m > 1 /\ a \in Nat /\ limit = mul_limit /\ mul_accumulator \in Nat
  BY DEF Step, LastBit, MultiplierTypeOK, Computes
<1>2. /\ q \in Nat /\ q >= 1 /\ a * q \in Nat /\ a * q >= a
      /\ m % 2 = 1 => a * m = a + 2 * (a * q)
      /\ m % 2 = 0 => a * m = 2 * (a * q)
      /\ m % 2 \in {0, 1}
  BY <1>1, SplitProduct
<1> DEFINE aq == a * q
<1>3. /\ mul_multiplier' = q /\ mul_limit' = limit /\ mul_running' = mul_running
      /\ mul_accumulator' = AccumulatorNext /\ mul_multiplicand' = MultiplicandNext
      /\ mul_over_limit' = OverLimitNext
  BY <1>1 DEF Step, MultiplierNext
<1>4. MultiplierTypeOK'
  BY <1>1, <1>2, <1>3
  DEF MultiplierTypeOK, AccumulatorNext, MultiplicandNext, OverLimitNext, Adds, Exceeds
<1> SUFFICES Computes(x, y, limit)'
  BY <1>4
<1>5. CASE mul_over_limit
  BY <1>2, <1>3, <1>5 DEF Computes, OverLimitNext
<1>6. CASE ~mul_over_limit /\ a > limit
  <2>1. mul_accumulator <= limit /\ x * y > limit
    BY <1>1, <1>6 DEF Computes
  <2>2. mul_multiplicand' = limit + 1
    BY <1>1, <1>3, <1>6 DEF MultiplicandNext
  <2>3. Adds => Exceeds
    BY <1>1, <1>6 DEF Exceeds
  <2>4. mul_accumulator' = mul_accumulator
    BY <1>3, <2>3 DEF AccumulatorNext
  <2> QED
    BY <1>1, <1>2, <1>3, <2>1, <2>2, <2>4 DEF Computes
<1>7. CASE ~mul_over_limit /\ a <= limit
  <2>1. mul_accumulator <= limit /\ mul_accumulator + a * m = x * y
    BY <1>7 DEF Computes
  <2> HIDE DEF q
  <2>2. CASE m % 2 = 1 /\ Exceeds
    <3>1. mul_accumulator + a > limit
      BY <1>1, <2>2, <1>7 DEF Exceeds
    <3>2. x * y = mul_accumulator + (a + 2 * aq)
      BY <1>2, <2>1, <2>2
    <3>3. x * y > limit
      BY <1>1, <1>2, <3>1, <3>2
    <3> QED
      BY <1>2, <1>3, <2>2, <3>3, <1>7 DEF Computes, OverLimitNext, Adds
  <2>3. CASE m % 2 = 1 /\ ~Exceeds
    <3>1. mul_accumulator + a <= limit
      BY <1>1, <2>3, <1>7 DEF Exceeds
    <3>2. x * y = mul_accumulator + (a + 2 * aq)
      BY <1>2, <2>1, <2>3
    <3>3. ~mul_over_limit' /\ mul_accumulator' = mul_accumulator + a
      BY <1>3, <1>7, <2>3 DEF OverLimitNext, AccumulatorNext, Adds
    <3>4. CASE a > limit \div 2
      <4>1. mul_multiplicand' = limit + 1
        BY <1>3, <3>4, <1>1 DEF MultiplicandNext
      <4>2. x * y > limit
        BY <1>1, <1>2, <3>2, <3>4
      <4> QED
        BY <1>1, <1>2, <1>3, <3>1, <3>3, <4>1, <4>2 DEF Computes
    <3>5. CASE ~(a > limit \div 2)
      <4>1. mul_multiplicand' = 2 * a /\ 2 * a <= limit
        BY <1>3, <3>5, <1>1 DEF MultiplicandNext
      <4>2. (2 * a) * q = 2 * aq
        BY <1>1, <1>2
      <4> QED
        BY <1>1, <1>2, <1>3, <3>1, <3>2, <3>3, <4>1, <4>2 DEF Computes
    <3> QED
      BY <3>4, <3>5
  <2>4. CASE m % 2 = 0
    <3>1. x * y = mul_accumulator + 2 * aq
      BY <1>2, <2>1, <2>4
    <3> ~Adds
      BY <2>4 DEF Adds
    <3>2. ~mul_over_limit' /\ mul_accumulator' = mul_accumulator
      BY <1>3, <1>7 DEF OverLimitNext, AccumulatorNext
    <3>3. CASE a > limit \div 2
      <4>1. mul_multiplicand' = limit + 1
        BY <1>3, <3>3, <1>1 DEF MultiplicandNext
      <4>2. x * y > limit
        BY <1>1, <1>2, <3>1, <3>3
      <4> QED
        BY <1>1, <1>2, <1>3, <2>1, <3>2, <4>1, <4>2 DEF Computes
    <3>4. CASE ~(a > limit \div 2)
      <4>1. mul_multiplicand' = 2 * a /\ 2 * a <= limit
        BY <1>3, <3>4, <1>1 DEF MultiplicandNext
      <4>2. (2 * a) * q = 2 * aq
        BY <1>1, <1>2
      <4> QED
        BY <1>1, <1>2, <1>3, <2>1, <3>1, <3>2, <4>1, <4>2 DEF Computes
    <3> QED
      BY <3>3, <3>4
  <2> QED
    BY <1>2, <2>2, <2>3, <2>4
<1> QED
  BY <1>1, <1>5, <1>6, <1>7

(* The last cycle delivers the product, or that it is too large.            *)
LEMMA LastComputes ==
  ASSUME MultiplierTypeOK, NEW x \in Nat, NEW y \in Nat, NEW limit \in Nat,
         Computes(x, y, limit), LastBit
  PROVE  /\ OverLimitNext => x * y > limit
         /\ ~OverLimitNext => AccumulatorNext = x * y /\ x * y <= limit
<1>1. /\ mul_multiplier = 1 /\ mul_limit = limit /\ mul_limit \in Nat
      /\ mul_accumulator \in Nat /\ mul_multiplicand \in Nat
  BY DEF MultiplierTypeOK, Computes, LastBit
<1>2. mul_multiplicand * mul_multiplier = mul_multiplicand
  BY <1>1
<1>3. Adds <=> ~mul_over_limit
  BY <1>1 DEF Adds
<1>4. Exceeds <=> mul_accumulator + mul_multiplicand > limit \/ mul_multiplicand > limit
  BY <1>1 DEF Exceeds
<1>5. x * y \in Nat
  OBVIOUS
<1>6. CASE mul_over_limit
  BY <1>6 DEF OverLimitNext, Computes
<1>7. CASE ~mul_over_limit
  BY <1>1, <1>2, <1>3, <1>4, <1>5, <1>7 DEF OverLimitNext, AccumulatorNext, Computes
<1> QED
  BY <1>6, <1>7

(* A load starts a multiplication.                                          *)
LEMMA LoadComputes ==
  ASSUME NEW x \in Nat, NEW y \in Nat, NEW limit \in Nat, y >= 1, Load(x, y, limit)
  PROVE  MultiplierTypeOK' /\ Computes(x, y, limit)'
<1>1. x * y \in Nat /\ x * y >= x
  OBVIOUS
<1>2. MultiplierTypeOK'
  BY DEF Load, MultiplierTypeOK
<1>3. Computes(x, y, limit)'
  BY <1>1 DEF Load, Computes
<1> QED
  BY <1>2, <1>3

-----------------------------------------------------------------------------
(* Values of registers and limits.                                          *)

LEMMA Caps ==
  /\ INPUT_CAP_BYTES \in Nat /\ INPUT_CAP_BYTES <= 32764
  /\ OUTPUT_CAP_BYTES \in Nat /\ OUTPUT_CAP_BYTES <= 32764
  /\ WEIGHT_CAP_BYTES \in Nat /\ WEIGHT_CAP_BYTES <= 65532
  /\ MAX_BIAS_WORDS \in Nat /\ BIAS_CAP_BYTES = 4 * MAX_BIAS_WORDS
BY SizesAssumption DEF INPUT_CAP_BYTES, OUTPUT_CAP_BYTES, WEIGHT_CAP_BYTES, BIAS_CAP_BYTES

LEMMA WeightLimit ==
  ASSUME NEW c \in RegisterRecords
  PROVE  /\ WeightChannelLimit(c) \in Nat
         /\ c.kernel = 1 => WeightChannelLimit(c) = WEIGHT_CAP_BYTES
         /\ c.kernel = 3 => WeightChannelLimit(c) = WEIGHT_CAP_BYTES \div 9
BY Caps DEF WeightChannelLimit

LEMMA RegisterFields ==
  ASSUME NEW c \in RegisterRecords
  PROVE  /\ c.op \in Operations \cup {OP_OTHER}
         /\ c.h \in Nat /\ c.w \in Nat /\ c.ic \in Nat /\ c.oc \in Nat
         /\ c.kernel \in Nat /\ c.stride \in Nat /\ c.padding \in Nat
         /\ \A p \in Packets : c.bytes[p] \in Nat
         /\ c.output \in Nat
<1>1. /\ c.op \in Operations \cup {OP_OTHER}
      /\ c.h \in Word /\ c.w \in Word /\ c.ic \in Word /\ c.oc \in Word
      /\ c.kernel \in Byte /\ c.stride \in Byte /\ c.padding \in Byte
      /\ c.output \in Word /\ c.bytes \in [Packets -> Word]
  BY DEF RegisterRecords
<1> QED
  BY <1>1 DEF Word, Byte

LEMMA ProductGrows ==
  ASSUME NEW x \in Nat, NEW y \in Nat
  PROVE  x * y \in Nat /\ (y >= 1 => x * y >= x) /\ (x >= 1 => x * y >= y)
OBVIOUS

LEMMA Ops ==
  /\ OP_CONV # OP_RESIDUAL_ADD /\ OP_CONV # OP_GLOBAL_AVG_POOL /\ OP_CONV # OP_OTHER
  /\ OP_RESIDUAL_ADD # OP_GLOBAL_AVG_POOL /\ OP_RESIDUAL_ADD # OP_OTHER
  /\ OP_GLOBAL_AVG_POOL # OP_OTHER
BY DEF OP_CONV, OP_RESIDUAL_ADD, OP_GLOBAL_AVG_POOL, OP_OTHER

(* A configuration that passed the checks of its fields has dimensions in    *)
(* the ranges of the registers that keep them.                              *)
LEMMA FieldRanges ==
  ASSUME NEW c \in RegisterRecords, FieldsPass(c)
  PROVE  /\ c.h >= 1 /\ c.w >= 1 /\ c.ic >= 1 /\ c.oc >= 1
         /\ c.h <= 16384 /\ c.w <= 16384 /\ c.ic <= 4096
         /\ c.op # OP_RESIDUAL_ADD => c.oc <= 127
         /\ c.op = OP_CONV => ConvFieldsPass(c)
         /\ c.op \in Operations
<1>1. DimensionsInRange(c) /\ (c.op # OP_RESIDUAL_ADD => c.oc <= 127)
  BY RegisterFields, Ops DEF FieldsPass, ConvFieldsPass, GapFieldsPass, ResidualFieldsPass
<1>2. (c.op = OP_CONV => ConvFieldsPass(c)) /\ c.op \in Operations
  BY Ops DEF FieldsPass, Operations
<1> QED
  BY <1>1, <1>2, RegisterFields DEF DimensionsInRange

(* The output dimensions in 16 bits are the quotients, unless the kernel is  *)
(* larger than the padded input.                                            *)
LEMMA OutputOneDim ==
  ASSUME NEW c \in RegisterRecords, ConvFieldsPass(c), NEW n \in Nat, n >= 1, n <= 16384
  PROVE  /\ Padded(n, c) = n + 2 * c.padding
         /\ n + 2 * c.padding >= c.kernel =>
              /\ OutputWide(n, c) = OutputDim(n, c)
              /\ OutputDim(n, c) \in Nat /\ OutputDim(n, c) >= 1 /\ OutputDim(n, c) <= 16387
<1> DEFINE k == c.kernel
           p == c.padding
<1>1. k \in {1, 3} /\ c.stride \in {1, 2} /\ p \in {0, 1}
  BY DEF ConvFieldsPass
<1>2. Padded(n, c) = n + 2 * p
  BY <1>1 DEF Padded, Low15
<1> DEFINE d == (n + 2 * p) - k
<1>3. /\ OutputWide(n, c) = IF c.stride = 2 THEN (d % 65536) \div 2 + 1 ELSE (d + 1) % 65536
      /\ OutputDim(n, c) = d \div c.stride + 1
      /\ d \in Int /\ d <= 16385
  BY <1>1, <1>2 DEF OutputWide, OutputDim, Low16
<1>4. SUFFICES ASSUME d >= 0
               PROVE  /\ OutputWide(n, c) = OutputDim(n, c)
                      /\ OutputDim(n, c) \in Nat /\ OutputDim(n, c) >= 1
                      /\ OutputDim(n, c) <= 16387
  BY <1>1, <1>2, <1>3
<1> HIDE DEF d
<1>5. d % 65536 = d /\ (d + 1) % 65536 = d + 1 /\ d \div 1 = d
      /\ d \div 2 \in Nat /\ d \div 2 <= 16385
  BY <1>3, <1>4
<1> QED
  BY <1>1, <1>3, <1>4, <1>5

LEMMA OutputDims ==
  ASSUME NEW c \in RegisterRecords, ConvFieldsPass(c)
  PROVE  /\ DimsPass(c) <=> KernelFits(c)
         /\ KernelFits(c) =>
              \A n \in {c.h, c.w} :
                /\ OutputWide(n, c) = OutputDim(n, c)
                /\ OutputDim(n, c) \in Nat /\ OutputDim(n, c) >= 1 /\ OutputDim(n, c) <= 16387
<1>1. \A n \in {c.h, c.w} : n \in Nat /\ n >= 1 /\ n <= 16384
  BY RegisterFields DEF ConvFieldsPass, DimensionsInRange
<1>2. QED
  BY <1>1, OutputOneDim DEF DimsPass, KernelFits

(* A legal configuration passes the checks of its fields: what they bound is *)
(* a factor of what the byte counts bound.                                  *)
LEMMA LegalPassesFields ==
  ASSUME NEW c \in RegisterRecords, Legal(c)
  PROVE  FieldsPass(c)
<1>1. CASE c.op = OP_CONV
  <2>1. LegalConv(c) /\ DimensionsInRange(c)
    BY <1>1, Ops DEF Legal, LegalConv
  <2>2. /\ c.h \in Nat /\ c.w \in Nat /\ c.ic \in Nat /\ c.oc \in Nat
        /\ c.h >= 1 /\ c.w >= 1 /\ c.ic >= 1 /\ c.oc >= 1
    BY <2>1, RegisterFields DEF DimensionsInRange
  <2>3. (c.h * c.w) * c.ic <= INPUT_CAP_BYTES
    BY <2>1 DEF LegalConv, Holds, InputBytes
  <2>4. c.h <= INPUT_CAP_BYTES /\ c.w <= INPUT_CAP_BYTES
    <3>1. c.h * c.w \in Nat /\ c.h * c.w >= c.h /\ c.h * c.w >= c.w
      BY <2>2, ProductGrows
    <3>2. (c.h * c.w) * c.ic \in Nat /\ (c.h * c.w) * c.ic >= c.h * c.w
      BY <2>2, <3>1, ProductGrows
    <3> QED
      BY <2>2, <2>3, <3>1, <3>2, Caps
  <2>5. c.ic <= WeightChannelLimit(c)
    <3>1. c.ic * c.oc \in Nat /\ c.ic * c.oc >= c.ic
      BY <2>2, ProductGrows
    <3>2. c.kernel \in {1, 3} /\ c.kernel * c.kernel * (c.ic * c.oc) <= WEIGHT_CAP_BYTES
      BY <2>1 DEF LegalConv, Holds
    <3>3. CASE c.kernel = 1
      BY <2>2, <3>1, <3>2, <3>3, Caps, WeightLimit
    <3>4. CASE c.kernel = 3
      BY <2>2, <3>1, <3>2, <3>4, Caps, WeightLimit
    <3> QED
      BY <3>2, <3>3, <3>4
  <2>6. c.oc <= MAX_BIAS_WORDS
    BY <2>1, <2>2, Caps DEF LegalConv, Holds
  <2> QED
    BY <1>1, <2>1, <2>4, <2>5, <2>6 DEF FieldsPass, ConvFieldsPass, LegalConv
<1>2. CASE c.op # OP_CONV
  BY <1>2 DEF Legal, FieldsPass, LegalResidual, LegalGap
<1> QED
  BY <1>1, <1>2

-----------------------------------------------------------------------------
(* Types.                                                                   *)

LEMMA Widths ==
  /\ Bits7 \subseteq Nat /\ Bits13 \subseteq Nat /\ Bits15 \subseteq Nat /\ HalfWord \subseteq Nat
  /\ Bits7 \subseteq Bits15
BY DEF Bits7, Bits13, Bits15, HalfWord

LEMMA LowerBits ==
  ASSUME NEW n \in Int
  PROVE  /\ Low7(n) \in Bits7 /\ Low13(n) \in Bits13 /\ Low15(n) \in Bits15
         /\ Low16(n) \in HalfWord
BY DEF Low7, Low13, Low15, Low16, Bits7, Bits13, Bits15, HalfWord

LEMMA WeightWidths ==
  ASSUME NEW n \in Nat
  PROVE  Low16(n) \in HalfWord /\ Low16(Low16(n) + Low16(8 * Low16(n))) \in HalfWord
<1> n \in Int
  OBVIOUS
<1>1. Low16(n) \in HalfWord
  BY LowerBits
<1> Low16(n) \in Nat
  BY <1>1, Widths
<1>2. 8 * Low16(n) \in Int
  BY <1>1
<1> Low16(8 * Low16(n)) \in HalfWord
  BY <1>2, LowerBits
<1>3. Low16(8 * Low16(n)) \in Nat
  BY Widths
<1>4. Low16(n) + Low16(8 * Low16(n)) \in Int
  BY <1>1, <1>3
<1> QED
  BY <1>1, <1>4, LowerBits

LEMMA PaddedIsInt ==
  ASSUME NEW n \in Nat, NEW c \in RegisterRecords
  PROVE  Padded(n, c) \in Int
<1> n \in Int
  OBVIOUS
<1> Low15(n) \in Bits15
  BY LowerBits
<1>1. Low15(n) \in Nat
  BY Widths
<1> QED
  BY <1>1 DEF Padded

(* Updates that keep the widths.                                            *)
LEMMA FieldsUpdate ==
  ASSUME validated \in Dimensions, NEW h \in Bits15, NEW w \in Bits15, NEW ic \in Bits13,
         NEW oc \in Bits7, NEW oh \in Bits15, NEW ow \in Bits15,
         validated' = [validated EXCEPT !.h = h, !.w = w, !.ic = ic, !.oc = oc,
                                        !.oh = oh, !.ow = ow]
  PROVE  validated' \in Dimensions
BY DEF Dimensions

LEMMA DimsUpdate ==
  ASSUME validated \in Dimensions, NEW oh \in Bits15, NEW ow \in Bits15,
         validated' = [validated EXCEPT !.oh = oh, !.ow = ow]
  PROVE  validated' \in Dimensions
BY DEF Dimensions

LEMMA CountsUpdate ==
  ASSUME calculated \in ByteCounts, NEW n \in Bits15, NEW w \in HalfWord, NEW b \in 0..511,
         \/ calculated' = [calculated EXCEPT !.input = n]
         \/ calculated' = [calculated EXCEPT !.weight = w, !.bias = b]
         \/ calculated' = [calculated EXCEPT !.output = n]
  PROVE  calculated' \in ByteCounts
<1>1. CASE calculated' = [calculated EXCEPT !.input = n]
  BY <1>1 DEF ByteCounts
<1>2. CASE calculated' = [calculated EXCEPT !.weight = w, !.bias = b]
  BY <1>2 DEF ByteCounts
<1>3. CASE calculated' = [calculated EXCEPT !.output = n]
  BY <1>3 DEF ByteCounts
<1> QED
  BY <1>1, <1>2, <1>3

LEMMA MultiplierTypes ==
  ASSUME MultiplierTypeOK
  PROVE  AccumulatorNext \in Nat /\ MultiplicandNext \in Nat /\ OverLimitNext \in BOOLEAN
BY DEF MultiplierTypeOK, AccumulatorNext, MultiplicandNext, OverLimitNext, Adds, Exceeds

LEMMA TypeInit == VInit => ValidatorTypeOK
<1> SUFFICES ASSUME VInit PROVE ValidatorTypeOK
  OBVIOUS
<1>1. pending \in RegisterRecords
  BY DEF VInit, ZeroRegisters, RegisterRecords, Word, Byte, HalfWord, Bits7, Operations
<1>2. validated \in Dimensions
  BY DEF VInit, Dimensions, Bits15, Bits13, Bits7
<1>3. calculated \in ByteCounts
  BY DEF VInit, ByteCounts, HalfWord, Bits15
<1>4. MultiplierTypeOK
  BY DEF VInit, MultiplierInit, MultiplierTypeOK
<1>5. starts \in 0..MaxStarts
  BY SizesAssumption DEF VInit
<1>6. validator \in ValidatorStates /\ reject_operation \in BOOLEAN
  BY DEF VInit, ValidatorStates
<1> QED
  BY <1>1, <1>2, <1>3, <1>4, <1>5, <1>6 DEF ValidatorTypeOK

LEMMA TypeStep ==
  ASSUME ValidatorTypeOK, [VNext]_vvars
  PROVE  ValidatorTypeOK'
<1>1. /\ starts \in 0..MaxStarts /\ pending \in RegisterRecords
      /\ validator \in ValidatorStates /\ reject_operation \in BOOLEAN
      /\ validated \in Dimensions /\ calculated \in ByteCounts /\ MultiplierTypeOK
  BY DEF ValidatorTypeOK
<1>2. MaxStarts \in Nat
  BY SizesAssumption
<1>3. /\ pending.h \in Nat /\ pending.w \in Nat /\ pending.ic \in Nat /\ pending.oc \in Nat
      /\ pending.kernel \in Nat /\ pending.padding \in Nat
  BY <1>1, RegisterFields
<1>4. /\ validated.h \in Bits15 /\ validated.w \in Bits15 /\ validated.ic \in Bits13
      /\ validated.oc \in Bits7 /\ validated.oh \in Bits15 /\ validated.ow \in Bits15
  BY <1>1 DEF Dimensions
<1>5. /\ validated.h \in Nat /\ validated.w \in Nat /\ validated.ic \in Nat
      /\ validated.oc \in Nat /\ validated.oh \in Nat /\ validated.ow \in Nat
      /\ validated.oc \in Bits15
  BY <1>4, Widths
<1> 4 * validated.oc \in 0..511
  BY <1>4 DEF Bits7
<1>6. CASE CheckFields
  <2>1. validated' \in Dimensions
    <3>1. Low15(pending.h) \in Bits15 /\ Low15(pending.w) \in Bits15
          /\ Low13(pending.ic) \in Bits13 /\ Low7(pending.oc) \in Bits7
      BY <1>3, LowerBits
    <3>2. CASE FieldsPass(pending)
      <4> DEFINE oh == IF pending.op = OP_CONV THEN validated.oh ELSE Low15(pending.h)
                 ow == IF pending.op = OP_CONV THEN validated.ow ELSE Low15(pending.w)
      <4>1. oh \in Bits15 /\ ow \in Bits15
        BY <1>4, <3>1
      <4>2. validated' = [validated EXCEPT !.h = Low15(pending.h), !.w = Low15(pending.w),
                            !.ic = Low13(pending.ic), !.oc = Low7(pending.oc),
                            !.oh = oh, !.ow = ow]
        BY <1>1, <1>6, <3>2 DEF CheckFields, ValidatedFields, Dimensions
      <4> QED
        BY <1>1, <3>1, <4>1, <4>2, FieldsUpdate
    <3>3. CASE ~FieldsPass(pending)
      BY <1>1, <1>6, <3>3 DEF CheckFields
    <3> QED
      BY <3>2, <3>3
  <2>2. validator' \in ValidatorStates
    BY <1>6 DEF CheckFields, ValidatorStates, CheckStages, MultiplyStages, CompareStages
  <2>3. MultiplierTypeOK' /\ reject_operation' \in BOOLEAN
    BY <1>1, <1>6 DEF CheckFields, MultiplierTypeOK, operandVars
  <2> QED
    BY <1>1, <1>6, <2>1, <2>2, <2>3 DEF CheckFields, ValidatorTypeOK
<1>7. CASE CheckDims
  <2>1. validated' \in Dimensions
    <3>1. ASSUME NEW n \in Nat PROVE Low15(OutputWide(n, pending)) \in Bits15
      <4>1. Padded(n, pending) \in Int
        BY <1>1, PaddedIsInt
      <4>2. Padded(n, pending) - pending.kernel \in Int
        BY <1>3, <4>1
      <4>3. OutputWide(n, pending) \in Int
        BY <1>3, <4>1, <4>2 DEF OutputWide, Low16
      <4> QED
        BY <4>3, LowerBits
    <3>2. CASE DimsPass(pending)
      BY <1>1, <1>3, <1>7, <3>1, <3>2, DimsUpdate DEF CheckDims
    <3>3. CASE ~DimsPass(pending)
      BY <1>1, <1>7, <3>3 DEF CheckDims
    <3> QED
      BY <3>2, <3>3
  <2>2. validator' \in ValidatorStates
    BY <1>7 DEF CheckDims, ValidatorStates, CheckStages, MultiplyStages
  <2>3. MultiplierTypeOK'
    BY <1>1, <1>7 DEF CheckDims, MultiplierTypeOK, operandVars
  <2> QED
    BY <1>1, <1>7, <2>1, <2>2, <2>3 DEF CheckDims, ValidatorTypeOK
<1>8. CASE MultiplyLoad
  <2>1. ASSUME NEW x \in Nat, NEW y \in Nat, NEW limit \in Nat, Load(x, y, limit)
        PROVE  MultiplierTypeOK'
    BY <2>1 DEF Load, MultiplierTypeOK
  <2>2. /\ mul_accumulator \in Nat /\ WeightChannelLimit(pending) \in Nat
        /\ INPUT_CAP_BYTES \in Nat /\ OUTPUT_CAP_BYTES \in Nat
    BY <1>1, Caps, WeightLimit DEF MultiplierTypeOK
  <2>3. MultiplierTypeOK'
    BY <1>5, <1>8, <2>1, <2>2 DEF MultiplyLoad, LoadFactors
  <2> QED
    BY <1>1, <1>8, <2>3 DEF MultiplyLoad, ValidatorTypeOK
<1>9. CASE MultiplyStep
  <2>1. MultiplierTypeOK'
    <3>1. mul_multiplier \div 2 \in Nat
      BY <1>1 DEF MultiplierTypeOK
    <3> QED
      BY <1>1, <1>9, <3>1, MultiplierTypes DEF MultiplyStep, Step, MultiplierNext, MultiplierTypeOK
  <2> QED
    BY <1>1, <1>9, <2>1 DEF MultiplyStep, ValidatorTypeOK
<1>10. CASE MultiplyFinish
  <2>1. AccumulatorNext \in Nat
    BY <1>1, MultiplierTypes
  <2>2. MultiplierTypeOK'
    BY <1>1, <1>10, <2>1 DEF MultiplyFinish, Product, MultiplierTypeOK
  <2>3. validator' \in ValidatorStates
    BY <1>10 DEF MultiplyFinish, AfterProduct, ValidatorStates, CheckStages, MultiplyStages,
      CompareStages
  <2>4. calculated' \in ByteCounts
    <3>1. WeightBytes \in HalfWord /\ Low15(AccumulatorNext) \in Bits15
      BY <2>1, WeightWidths, LowerBits DEF WeightBytes
    <3>2. UNCHANGED calculated
          \/ calculated' = [calculated EXCEPT !.input = Low15(AccumulatorNext)]
          \/ calculated' = [calculated EXCEPT !.weight = WeightBytes, !.bias = 4 * validated.oc]
          \/ calculated' = [calculated EXCEPT !.output = Low15(AccumulatorNext)]
      BY <1>10 DEF MultiplyFinish, Product
    <3> QED
      BY <1>1, <3>1, <3>2, CountsUpdate
  <2> QED
    BY <1>1, <1>10, <2>2, <2>3, <2>4 DEF MultiplyFinish, ValidatorTypeOK
<1>11. CASE CompareBytes
  <2>1. ASSUME NEW stage, NEW pass, NEW output \in Bits15, Judge(stage, pass, output)
        PROVE  ValidatorTypeOK'
    BY <1>1, <2>1 DEF Judge, ValidatorTypeOK, ValidatorStates, ByteCounts, multiplierVars,
      operandVars, MultiplierTypeOK
  <2>2. calculated.output \in Bits15 /\ calculated.input \in Bits15
    BY <1>1 DEF ByteCounts
  <2> QED
    BY <1>5, <1>11, <2>1, <2>2 DEF CompareBytes
<1>12. CASE TakeStart
  <2>1. pending' \in RegisterRecords
    BY <1>12, SizesAssumption DEF TakeStart
  <2>2. starts' \in 0..MaxStarts
    BY <1>1, <1>2, <1>12 DEF TakeStart
  <2>3. MultiplierTypeOK' /\ validator' \in ValidatorStates
    BY <1>1, <1>12 DEF TakeStart, ValidatorStates, CheckStages, MultiplierTypeOK, operandVars
  <2> QED
    BY <1>1, <1>12, <2>1, <2>2, <2>3 DEF TakeStart, ValidatorTypeOK
<1>13. CASE Conclude \/ AbortValidation
  BY <1>1, <1>13 DEF Conclude, AbortValidation, ValidatorTypeOK, ValidatorStates,
    MultiplierTypeOK, operandVars
<1>14. CASE UNCHANGED vvars
  BY <1>1, <1>14 DEF vvars, ValidatorTypeOK, multiplierVars, operandVars, MultiplierTypeOK
<1> QED
  BY <1>6, <1>7, <1>8, <1>9, <1>10, <1>11, <1>12, <1>13, <1>14
  DEF VNext, ValidatorEdge, Stopped

(* The types of the validator's registers: no value is wider than the        *)
(* register that keeps it.                                                  *)
THEOREM ValidatorTypeCorrect == VSpec => []ValidatorTypeOK
  BY TypeInit, TypeStep, PTL DEF VSpec

-----------------------------------------------------------------------------
(* The invariant.                                                           *)

(* Outside the stages the invariant says little of the registers.            *)
LEMMA OutsideStages ==
  ASSUME ValidatorTypeOK', ~mul_running',
         validator' \in {"VAL_IDLE", "VAL_FIELDS", "VAL_ACCEPT", "VAL_REJECT"},
         VerdictIsLegality', validator' = "VAL_ACCEPT" => FieldsInv' /\ OutputDimsInv'
  PROVE  VInv'
BY DEF VInv, FieldsInv, OutputDimsInv, StageInv, AreaInv, PassedInv, CountsInv, MultipliesRightly,
  MultiplyStages, CompareStages, AfterInput, AfterWeights

LEMMA StopsOutside ==
  ASSUME VInv, validator \notin MultiplyStages
  PROVE  mul_running = FALSE
BY DEF VInv, MultipliesRightly, ValidatorTypeOK, MultiplierTypeOK

LEMMA FieldsKept ==
  ASSUME NEW c \in RegisterRecords, FieldsPass(c)
  PROVE  /\ Low15(c.h) = c.h /\ Low15(c.w) = c.w /\ Low13(c.ic) = c.ic
         /\ c.op # OP_RESIDUAL_ADD => Low7(c.oc) = c.oc
BY FieldRanges, RegisterFields DEF Low15, Low13, Low7

LEMMA CheckFieldsInv ==
  ASSUME VInv, CheckFields, ValidatorTypeOK'
  PROVE  VInv'
<1>1. pending \in RegisterRecords /\ validated \in Dimensions
  BY DEF VInv, ValidatorTypeOK
<1>2. mul_running = FALSE
  BY StopsOutside DEF CheckFields, MultiplyStages
<1>3. CASE ~FieldsPass(pending)
  <2>1. validator' = "VAL_REJECT" /\ mul_running' = FALSE /\ pending' = pending
    BY <1>2, <1>3 DEF CheckFields
  <2>2. VerdictIsLegality'
    BY <1>1, <1>3, <2>1, LegalPassesFields DEF VerdictIsLegality, Legal, LegalConv, LegalResidual,
      LegalGap
  <2> QED
    BY <2>1, <2>2, OutsideStages
<1>4. CASE FieldsPass(pending)
  <2>1. /\ pending' = pending /\ mul_running' = FALSE
        /\ validator' = IF pending.op = OP_CONV THEN "VAL_DIMS" ELSE "VAL_INPUT_AREA"
        /\ validated'.h = pending.h /\ validated'.w = pending.w /\ validated'.ic = pending.ic
        /\ pending.op # OP_RESIDUAL_ADD => validated'.oc = pending.oc
    BY <1>1, <1>2, <1>4, FieldsKept DEF CheckFields, ValidatedFields, Dimensions
  <2>2. FieldsInv'
    BY <1>4, <2>1 DEF FieldsInv
  <2> QED
    BY <2>1, <2>2
    DEF VInv, OutputDimsInv, StageInv, AreaInv, PassedInv, CountsInv, MultipliesRightly,
      MultiplyStages, CompareStages, AfterInput, AfterWeights, VerdictIsLegality
<1> QED
  BY <1>3, <1>4

LEMMA CheckDimsInv ==
  ASSUME VInv, CheckDims, ValidatorTypeOK'
  PROVE  VInv'
<1>1. pending \in RegisterRecords /\ validated \in Dimensions
  BY DEF VInv, ValidatorTypeOK
<1>2. mul_running = FALSE
  BY StopsOutside DEF CheckDims, MultiplyStages
<1>3. /\ FieldsInv /\ pending.op = OP_CONV /\ FieldsPass(pending)
      /\ ConvFieldsPass(pending)
  BY <1>1, FieldRanges DEF VInv, StageInv, FieldsInv, CheckDims
<1>4. CASE ~DimsPass(pending)
  <2>1. validator' = "VAL_REJECT" /\ mul_running' = FALSE /\ pending' = pending
    BY <1>2, <1>4 DEF CheckDims
  <2>2. ~KernelFits(pending)
    BY <1>1, <1>3, <1>4, OutputDims
  <2>3. ~Legal(pending)
    BY <1>3, <2>2, Ops DEF Legal, LegalConv
  <2>4. VerdictIsLegality'
    BY <2>1, <2>3 DEF VerdictIsLegality, Legal, LegalConv, LegalResidual, LegalGap
  <2> QED
    BY <2>1, <2>4, OutsideStages
<1>5. CASE DimsPass(pending)
  <2>1. /\ pending' = pending /\ mul_running' = FALSE /\ validator' = "VAL_INPUT_AREA"
        /\ validated' = [validated EXCEPT !.oh = Low15(OutputWide(pending.h, pending)),
                                          !.ow = Low15(OutputWide(pending.w, pending))]
    BY <1>5 DEF CheckDims
  <2>2. KernelFits(pending)
    BY <1>1, <1>3, <1>5, OutputDims
  <2>3. \A n \in {pending.h, pending.w} : Low15(OutputWide(n, pending)) = OutputDim(n, pending)
    BY <1>1, <1>3, <2>2, OutputDims DEF Low15
  <2>4. /\ validated'.oh = OutputDim(pending.h, pending)
        /\ validated'.ow = OutputDim(pending.w, pending)
        /\ validated'.h = validated.h /\ validated'.w = validated.w
        /\ validated'.ic = validated.ic /\ validated'.oc = validated.oc
    BY <1>1, <2>1, <2>3 DEF Dimensions
  <2>5. FieldsInv'
    BY <1>3, <2>1, <2>4 DEF FieldsInv, CheckDims
  <2>6. OutputDimsInv'
    BY <2>1, <2>2, <2>4 DEF OutputDimsInv
  <2> QED
    BY <2>1, <2>5, <2>6
    DEF VInv, StageInv, AreaInv, PassedInv, CountsInv, MultipliesRightly,
      MultiplyStages, CompareStages, AfterInput, AfterWeights, VerdictIsLegality
<1> QED
  BY <1>4, <1>5

(* What is multiplied are numbers, and the multiplier is not zero.           *)
LEMMA FactorRanges ==
  ASSUME VInv, validator \in MultiplyStages
  PROVE  LET f == Factors(validator, pending)
         IN  /\ f[1] \in Nat /\ f[2] \in Nat /\ f[3] \in Nat
             /\ f[1] >= 1 /\ f[2] >= 1
<1>1. pending \in RegisterRecords /\ FieldsPass(pending)
  BY DEF VInv, ValidatorTypeOK, FieldsInv
<1>2. /\ pending.h \in Nat /\ pending.w \in Nat /\ pending.ic \in Nat /\ pending.oc \in Nat
      /\ pending.h >= 1 /\ pending.w >= 1 /\ pending.ic >= 1 /\ pending.oc >= 1
  BY <1>1, RegisterFields, FieldRanges
<1>3. pending.h * pending.w \in Nat /\ pending.h * pending.w >= 1
  BY <1>2, ProductGrows
<1>4. /\ WeightChannelLimit(pending) \in Nat
      /\ INPUT_CAP_BYTES \in Nat /\ OUTPUT_CAP_BYTES \in Nat
  BY <1>1, Caps, WeightLimit
<1>5. CASE pending.op = OP_CONV
  <2> DEFINE oh == OutputDim(pending.h, pending)
             ow == OutputDim(pending.w, pending)
  <2>1. KernelFits(pending) /\ ConvFieldsPass(pending)
    BY <1>1, <1>5, FieldRanges DEF VInv, OutputDimsInv
  <2>2. oh \in Nat /\ oh >= 1 /\ ow \in Nat /\ ow >= 1
    BY <1>1, <2>1, OutputDims
  <2> HIDE DEF oh, ow
  <2>3. oh * ow \in Nat /\ oh * ow >= 1
    BY <2>2, ProductGrows
  <2>4. OutputArea(pending) = oh * ow
    BY DEF OutputArea, oh, ow
  <2>5. OutputArea(pending) \in Nat /\ OutputArea(pending) >= 1
    BY <2>3, <2>4
  <2> QED
    BY <1>2, <1>3, <1>4, <2>2, <2>5 DEF Factors, MultiplyStages, oh, ow
<1>6. CASE pending.op # OP_CONV
  <2>1. validator \in {"VAL_INPUT_AREA", "VAL_INPUT_CHANNELS"}
    BY <1>6 DEF VInv, StageInv, MultiplyStages, AfterWeights
  <2> QED
    BY <1>2, <1>3, <1>4, <2>1 DEF Factors
<1> QED
  BY <1>5, <1>6

(* The factors that are loaded are those of the registers.                  *)
LEMMA LoadsFactors ==
  ASSUME VInv, validator \in MultiplyStages, ~mul_running, LoadFactors
  PROVE  LET f == Factors(validator, pending) IN Load(f[1], f[2], f[3])
<1>1. /\ validated.h = pending.h /\ validated.w = pending.w /\ validated.ic = pending.ic
      /\ pending.op # OP_RESIDUAL_ADD => validated.oc = pending.oc
  BY DEF VInv, FieldsInv
<1>2. CASE validator = "VAL_INPUT_AREA"
  BY <1>1, <1>2 DEF LoadFactors, Factors
<1>3. CASE validator = "VAL_INPUT_CHANNELS"
  BY <1>1, <1>3 DEF LoadFactors, Factors, VInv, AreaInv
<1>4. CASE validator = "VAL_WEIGHT_CHANNELS"
  BY <1>1, <1>4, Ops DEF LoadFactors, Factors, VInv, StageInv
<1>5. CASE validator = "VAL_OUTPUT_AREA"
  BY <1>1, <1>5, Ops DEF LoadFactors, Factors, VInv, StageInv, OutputDimsInv, AfterWeights
<1>6. CASE validator = "VAL_OUTPUT_CHANNELS"
  BY <1>1, <1>6, Ops DEF LoadFactors, Factors, VInv, StageInv, AreaInv, AfterWeights
<1> QED
  BY <1>2, <1>3, <1>4, <1>5, <1>6 DEF MultiplyStages

LEMMA MultiplyLoadInv ==
  ASSUME VInv, MultiplyLoad, ValidatorTypeOK'
  PROVE  VInv'
<1> DEFINE f == Factors(validator, pending)
<1>1. /\ validator \in MultiplyStages /\ validator' = validator /\ pending' = pending
      /\ validated' = validated /\ calculated' = calculated
  BY DEF MultiplyLoad
<1>2. PICK x \in Nat, y \in Nat, limit \in Nat :
        x = f[1] /\ y = f[2] /\ limit = f[3] /\ y >= 1
  BY <1>1, FactorRanges
<1>3. Load(x, y, limit)
  BY <1>2, LoadsFactors DEF MultiplyLoad
<1>4. Computes(x, y, limit)'
  BY <1>2, <1>3, LoadComputes
<1>5. mul_running' = TRUE
  BY <1>3 DEF Load
<1>6. MultipliesRightly'
  BY <1>1, <1>2, <1>4 DEF MultipliesRightly
<1> QED
  BY <1>1, <1>5, <1>6
  DEF VInv, FieldsInv, OutputDimsInv, StageInv, AreaInv, PassedInv, CountsInv, VerdictIsLegality

LEMMA MultiplyStepInv ==
  ASSUME VInv, MultiplyStep, ValidatorTypeOK'
  PROVE  VInv'
<1> DEFINE f == Factors(validator, pending)
<1>1. /\ validator \in MultiplyStages /\ validator' = validator /\ pending' = pending
      /\ validated' = validated /\ calculated' = calculated
      /\ mul_running /\ Step /\ mul_running' = mul_running
  BY DEF MultiplyStep, Step
<1>2. PICK x \in Nat, y \in Nat, limit \in Nat : x = f[1] /\ y = f[2] /\ limit = f[3]
  BY <1>1, FactorRanges
<1>3. MultiplierTypeOK /\ Computes(x, y, limit)
  BY <1>1, <1>2 DEF VInv, ValidatorTypeOK, MultipliesRightly
<1>4. Computes(x, y, limit)'
  BY <1>1, <1>3, StepComputes
<1>5. MultipliesRightly'
  BY <1>1, <1>2, <1>4 DEF MultipliesRightly
<1> QED
  BY <1>1, <1>5
  DEF VInv, FieldsInv, OutputDimsInv, StageInv, AreaInv, PassedInv, CountsInv, VerdictIsLegality

(* A product over its limit makes the configuration illegal.                *)
LEMMA TooLarge ==
  ASSUME VInv, validator \in MultiplyStages,
         LET f == Factors(validator, pending) IN f[1] * f[2] > f[3]
  PROVE  ~Legal(pending)
<1> DEFINE c == pending
<1>1. c \in RegisterRecords /\ FieldsPass(c)
  BY DEF VInv, ValidatorTypeOK, FieldsInv
<1>2. /\ c.h \in Nat /\ c.w \in Nat /\ c.ic \in Nat /\ c.oc \in Nat
      /\ c.h >= 1 /\ c.w >= 1 /\ c.ic >= 1 /\ c.oc >= 1
  BY <1>1, RegisterFields, FieldRanges
<1>3. Legal(c) => InputBytes(c) <= INPUT_CAP_BYTES
  BY DEF Legal, LegalConv, LegalResidual, LegalGap, Holds
<1>4. c.h * c.w \in Nat /\ InputBytes(c) \in Nat /\ InputBytes(c) >= c.h * c.w
  <2>1. c.h * c.w \in Nat
    BY <1>2, ProductGrows
  <2> QED
    BY <1>2, <2>1, ProductGrows DEF InputBytes
<1>5. CASE validator = "VAL_INPUT_AREA"
  <2>1. c.h * c.w > INPUT_CAP_BYTES
    BY <1>5 DEF Factors
  <2> QED
    BY <1>3, <1>4, <2>1, Caps
<1>6. CASE validator = "VAL_INPUT_CHANNELS"
  <2>1. InputBytes(c) > INPUT_CAP_BYTES
    BY <1>6 DEF Factors, InputBytes
  <2> QED
    BY <1>3, <1>4, <2>1, Caps
<1>7. ASSUME validator \in {"VAL_WEIGHT_CHANNELS", "VAL_OUTPUT_AREA", "VAL_OUTPUT_CHANNELS"}
      PROVE  /\ c.op = OP_CONV /\ KernelFits(c) /\ ConvFieldsPass(c)
             /\ Legal(c) => LegalConv(c)
    BY <1>1, <1>7, FieldRanges, Ops
    DEF VInv, StageInv, OutputDimsInv, AfterWeights, MultiplyStages, Legal
<1>8. CASE validator = "VAL_WEIGHT_CHANNELS"
  <2>1. c.ic * c.oc > WeightChannelLimit(c) /\ c.ic * c.oc \in Nat
    BY <1>2, <1>8, ProductGrows DEF Factors
  <2>2. c.kernel \in {1, 3}
    BY <1>7, <1>8 DEF ConvFieldsPass
  <2>3. c.kernel * c.kernel * (c.ic * c.oc) > WEIGHT_CAP_BYTES
    <3>1. CASE c.kernel = 1
      BY <1>1, <2>1, <3>1, WeightLimit, Caps
    <3>2. CASE c.kernel = 3
      BY <1>1, <2>1, <3>2, WeightLimit, Caps
    <3> QED
      BY <2>2, <3>1, <3>2
  <2>4. c.kernel * c.kernel * (c.ic * c.oc) \in Nat
    BY <2>1, <2>2
  <2> QED
    BY <1>7, <1>8, <2>3, <2>4, Caps DEF LegalConv, Holds
<1>9. CASE validator \in {"VAL_OUTPUT_AREA", "VAL_OUTPUT_CHANNELS"}
  <2>1. OutputArea(c) \in Nat
    <3>1. OutputDim(c.h, c) \in Nat /\ OutputDim(c.w, c) \in Nat
      BY <1>1, <1>7, <1>9, OutputDims
    <3> QED
      BY <3>1, ProductGrows DEF OutputArea
  <2>2. OutputArea(c) * c.oc \in Nat /\ OutputArea(c) * c.oc >= OutputArea(c)
    BY <1>2, <2>1, ProductGrows
  <2>3. OutputArea(c) * c.oc > OUTPUT_CAP_BYTES
    <3>1. CASE validator = "VAL_OUTPUT_AREA"
      <4>1. OutputArea(c) > OUTPUT_CAP_BYTES
        BY <3>1 DEF Factors, OutputArea
      <4> QED
        BY <2>1, <2>2, <4>1, Caps
    <3>2. CASE validator = "VAL_OUTPUT_CHANNELS"
      BY <3>2 DEF Factors
    <3> QED
      BY <1>9, <3>1, <3>2
  <2> QED
    BY <1>7, <1>9, <2>2, <2>3, Caps DEF LegalConv, Holds
<1> QED
  BY <1>5, <1>6, <1>8, <1>9 DEF MultiplyStages

(* The byte count of the weights does not overflow.                         *)
LEMMA WeightBytesRight ==
  ASSUME pending \in RegisterRecords, ConvFieldsPass(pending), NEW n \in Nat,
         AccumulatorNext = n, n <= WeightChannelLimit(pending)
  PROVE  WeightBytes = pending.kernel * pending.kernel * n
<1>1. pending.kernel \in {1, 3}
  BY DEF ConvFieldsPass
<1>2. CASE pending.kernel = 1
  BY <1>2, Caps, WeightLimit DEF WeightBytes, Low16
<1>3. CASE pending.kernel = 3
  <2>1. 9 * n <= 65532
    BY <1>3, Caps, WeightLimit
  <2> QED
    BY <1>3, <2>1 DEF WeightBytes, Low16
<1> QED
  BY <1>1, <1>2, <1>3

(* The stages whose product is within its limit pass on what they know.     *)
LEMMA ProductFits ==
  ASSUME VInv, MultiplyFinish, ValidatorTypeOK', ~OverLimitNext,
         NEW x \in Nat, NEW y \in Nat, NEW limit \in Nat,
         << x, y, limit >> = Factors(validator, pending),
         AccumulatorNext = x * y, x * y <= limit
  PROVE  VInv'
<1> DEFINE c == pending
<1>1. /\ c \in RegisterRecords /\ FieldsPass(c) /\ calculated \in ByteCounts
      /\ validator \in MultiplyStages
  BY DEF VInv, ValidatorTypeOK, FieldsInv, MultiplyFinish
<1>2. /\ mul_running' = FALSE /\ pending' = pending /\ validated' = validated
      /\ validator' = AfterProduct /\ Product
  BY DEF MultiplyFinish
<1>3. x * y \in Nat /\ INPUT_CAP_BYTES <= 32764 /\ OUTPUT_CAP_BYTES <= 32764
      /\ INPUT_CAP_BYTES \in Nat /\ OUTPUT_CAP_BYTES \in Nat
  BY ProductGrows, Caps
<1>4. c.op \in Operations
  BY <1>1, FieldRanges
<1>5. MultipliesRightly' /\ VerdictIsLegality'
  BY <1>2, <1>1 DEF MultipliesRightly, VerdictIsLegality, AfterProduct
<1>6. CASE validator = "VAL_INPUT_AREA"
  <2>1. /\ validator' = "VAL_INPUT_CHANNELS" /\ mul_accumulator' = c.h * c.w
        /\ c.h * c.w <= INPUT_CAP_BYTES
    BY <1>2, <1>6 DEF AfterProduct, Product, Factors
  <2> QED
    BY <1>2, <1>5, <1>6, <2>1 DEF VInv, FieldsInv, OutputDimsInv, StageInv, AreaInv, PassedInv,
      CountsInv, MultiplyStages, CompareStages, AfterInput, AfterWeights
<1>7. CASE validator = "VAL_INPUT_CHANNELS"
  <2>1. /\ x * y = InputBytes(c) /\ InputBytes(c) <= INPUT_CAP_BYTES
        /\ c.h * c.w <= INPUT_CAP_BYTES
    BY <1>7 DEF Factors, InputBytes, VInv, PassedInv
  <2>2. calculated'.input = InputBytes(c)
    <3>1. calculated' = [calculated EXCEPT !.input = Low15(AccumulatorNext)]
      BY <1>2, <1>7 DEF Product
    <3>2. Low15(AccumulatorNext) = InputBytes(c)
      BY <1>3, <2>1 DEF Low15
    <3> QED
      BY <1>1, <3>1, <3>2 DEF ByteCounts
  <2>3. /\ validator' = CASE c.op = OP_RESIDUAL_ADD -> "VAL_RESIDUAL_COMPARE"
                          [] c.op = OP_GLOBAL_AVG_POOL -> "VAL_GAP_COMPARE"
                          [] OTHER -> "VAL_WEIGHT_CHANNELS"
    BY <1>2, <1>7 DEF AfterProduct
  <2>4. StageInv'
    BY <1>2, <1>4, <2>3, Ops DEF StageInv, AfterWeights, Operations
  <2>5. validator' \in {"VAL_RESIDUAL_COMPARE", "VAL_GAP_COMPARE", "VAL_WEIGHT_CHANNELS"}
    BY <2>3
  <2> QED
    BY <1>2, <1>5, <1>7, <2>1, <2>2, <2>4, <2>5 DEF VInv, FieldsInv, OutputDimsInv, AreaInv,
      PassedInv, CountsInv, MultiplyStages, CompareStages, AfterInput, AfterWeights
<1>8. CASE validator \in {"VAL_WEIGHT_CHANNELS", "VAL_OUTPUT_AREA", "VAL_OUTPUT_CHANNELS"}
  <2>1. c.op = OP_CONV /\ ConvFieldsPass(c) /\ validated.oc = c.oc
    BY <1>1, <1>8, FieldRanges, Ops DEF VInv, StageInv, FieldsInv, AfterWeights, MultiplyStages
  <2>2. /\ c.h * c.w <= INPUT_CAP_BYTES /\ InputBytes(c) <= INPUT_CAP_BYTES
        /\ calculated.input = InputBytes(c)
    BY <1>8 DEF VInv, PassedInv, CountsInv, AfterInput
  <2>3. CASE validator = "VAL_WEIGHT_CHANNELS"
    <3>1. x * y = c.ic * c.oc /\ c.ic * c.oc <= WeightChannelLimit(c)
      BY <2>3 DEF Factors
    <3>2. /\ validator' = "VAL_OUTPUT_AREA"
          /\ calculated' = [calculated EXCEPT !.weight = WeightBytes, !.bias = 4 * validated.oc]
      BY <1>2, <2>3 DEF AfterProduct, Product
    <3>3. WeightBytes = c.kernel * c.kernel * (c.ic * c.oc)
      BY <1>1, <1>3, <2>1, <3>1, WeightBytesRight
    <3>4. /\ calculated'.weight = c.kernel * c.kernel * (c.ic * c.oc)
          /\ calculated'.bias = 4 * c.oc /\ calculated'.input = InputBytes(c)
      BY <1>1, <2>1, <2>2, <3>2, <3>3 DEF ByteCounts
    <3> QED
      BY <1>2, <1>5, <2>1, <2>2, <2>3, <3>1, <3>2, <3>4 DEF VInv, FieldsInv, OutputDimsInv, StageInv,
        AreaInv, PassedInv, CountsInv, MultiplyStages, CompareStages, AfterInput, AfterWeights
  <2>4. CASE validator = "VAL_OUTPUT_AREA"
    <3>1. x * y = OutputArea(c) /\ OutputArea(c) <= OUTPUT_CAP_BYTES
      BY <2>4 DEF Factors, OutputArea
    <3>2. /\ validator' = "VAL_OUTPUT_CHANNELS" /\ calculated' = calculated
          /\ mul_accumulator' = OutputArea(c)
      BY <1>2, <2>4, <3>1 DEF AfterProduct, Product
    <3> QED
      BY <1>2, <1>5, <2>1, <2>2, <2>4, <3>1, <3>2 DEF VInv, FieldsInv, OutputDimsInv, StageInv,
        AreaInv, PassedInv, CountsInv, MultiplyStages, CompareStages, AfterInput, AfterWeights
  <2>5. CASE validator = "VAL_OUTPUT_CHANNELS"
    <3>1. x * y = OutputArea(c) * c.oc /\ OutputArea(c) * c.oc <= OUTPUT_CAP_BYTES
      BY <2>5 DEF Factors
    <3>2. /\ validator' = "VAL_COMPARE"
          /\ calculated' = [calculated EXCEPT !.output = Low15(AccumulatorNext)]
      BY <1>2, <2>5 DEF AfterProduct, Product
    <3>3. Low15(AccumulatorNext) = OutputArea(c) * c.oc
      BY <1>3, <3>1 DEF Low15
    <3>4. /\ calculated'.output = OutputArea(c) * c.oc
          /\ calculated'.weight = calculated.weight /\ calculated'.bias = calculated.bias
          /\ calculated'.input = calculated.input
      BY <1>1, <3>2, <3>3 DEF ByteCounts
    <3> QED
      BY <1>2, <1>5, <2>1, <2>2, <2>5, <3>1, <3>2, <3>4 DEF VInv, FieldsInv, OutputDimsInv, StageInv,
        AreaInv, PassedInv, CountsInv, MultiplyStages, CompareStages, AfterInput, AfterWeights
  <2> QED
    BY <1>8, <2>3, <2>4, <2>5
<1> QED
  BY <1>1, <1>6, <1>7, <1>8 DEF MultiplyStages

LEMMA MultiplyFinishInv ==
  ASSUME VInv, MultiplyFinish, ValidatorTypeOK'
  PROVE  VInv'
<1> DEFINE f == Factors(validator, pending)
<1>1. validator \in MultiplyStages /\ mul_running /\ LastBit
  BY DEF MultiplyFinish
<1>2. PICK x \in Nat, y \in Nat, limit \in Nat : x = f[1] /\ y = f[2] /\ limit = f[3]
  BY <1>1, FactorRanges
<1>3. MultiplierTypeOK /\ Computes(x, y, limit)
  BY <1>1, <1>2 DEF VInv, ValidatorTypeOK, MultipliesRightly
<1>4. /\ OverLimitNext => x * y > limit
      /\ ~OverLimitNext => AccumulatorNext = x * y /\ x * y <= limit
  BY <1>1, <1>3, LastComputes
<1>5. CASE OverLimitNext
  <2>1. validator' = "VAL_REJECT" /\ mul_running' = FALSE /\ pending' = pending
    BY <1>5 DEF MultiplyFinish
  <2>2. ~Legal(pending)
    BY <1>1, <1>2, <1>4, <1>5, TooLarge
  <2>3. Legal(pending)' <=> Legal(pending)
    BY <2>1 DEF Legal, LegalConv, LegalResidual, LegalGap
  <2> QED
    BY <2>1, <2>2, <2>3, OutsideStages DEF VerdictIsLegality
<1>6. CASE ~OverLimitNext
  <2>1. << x, y, limit >> = f
    BY <1>1, <1>2 DEF Factors, MultiplyStages
  <2> QED
    BY <1>4, <1>6, <2>1, ProductFits
<1> QED
  BY <1>5, <1>6

(* A comparison passes exactly what is legal.                               *)
LEMMA ConvVerdict ==
  ASSUME VInv, validator = "VAL_COMPARE"
  PROVE  ConvBytesPass(pending) <=> Legal(pending)
<1> DEFINE c == pending
<1>1. /\ c \in RegisterRecords /\ FieldsPass(c) /\ c.op = OP_CONV /\ KernelFits(c)
      /\ calculated.input = InputBytes(c)
      /\ calculated.weight = c.kernel * c.kernel * (c.ic * c.oc)
      /\ calculated.bias = 4 * c.oc
      /\ calculated.output = OutputArea(c) * c.oc
  BY DEF VInv, ValidatorTypeOK, FieldsInv, OutputDimsInv, StageInv, CountsInv, CompareStages,
    AfterInput, AfterWeights
<1>2. ConvFieldsPass(c)
  BY <1>1, FieldRanges
<1>3. Legal(c) <=> LegalConv(c)
  BY <1>1, Ops DEF Legal
<1>4. LegalConv(c) <=>
        /\ c.bytes["WEIGHT"] = calculated.weight /\ c.bytes["BIAS"] = calculated.bias
        /\ c.bytes["INPUT"] = calculated.input /\ c.output = calculated.output
        /\ Holds(calculated.weight, WEIGHT_CAP_BYTES) /\ Holds(calculated.bias, BIAS_CAP_BYTES)
        /\ Holds(calculated.input, INPUT_CAP_BYTES) /\ Holds(calculated.output, OUTPUT_CAP_BYTES)
  BY <1>1, <1>2 DEF LegalConv, ConvFieldsPass
<1> QED
  BY <1>3, <1>4 DEF ConvBytesPass, Holds

LEMMA ResidualVerdict ==
  ASSUME VInv, validator = "VAL_RESIDUAL_COMPARE"
  PROVE  ResidualBytesPass(pending) <=> Legal(pending)
<1> DEFINE c == pending
<1>1. /\ FieldsPass(c) /\ c.op = OP_RESIDUAL_ADD /\ calculated.input = InputBytes(c)
  BY DEF VInv, FieldsInv, StageInv, CountsInv, CompareStages, AfterInput
<1>2. ResidualFieldsPass(c)
  BY <1>1, Ops DEF FieldsPass
<1>3. Legal(c) <=> LegalResidual(c)
  BY <1>1, Ops DEF Legal
<1> QED
  BY <1>1, <1>2, <1>3 DEF ResidualBytesPass, LegalResidual, Holds

LEMMA GapVerdict ==
  ASSUME VInv, validator = "VAL_GAP_COMPARE"
  PROVE  GapBytesPass(pending) <=> Legal(pending)
<1> DEFINE c == pending
<1>1. /\ FieldsPass(c) /\ c.op = OP_GLOBAL_AVG_POOL /\ calculated.input = InputBytes(c)
      /\ validated.oc = c.oc
  BY Ops DEF VInv, FieldsInv, StageInv, CountsInv, CompareStages, AfterInput
<1>2. GapFieldsPass(c)
  BY <1>1, Ops DEF FieldsPass
<1>3. Legal(c) <=> LegalGap(c)
  BY <1>1, Ops DEF Legal
<1> QED
  BY <1>1, <1>2, <1>3 DEF GapBytesPass, LegalGap, Holds

LEMMA CompareBytesInv ==
  ASSUME VInv, CompareBytes, ValidatorTypeOK'
  PROVE  VInv'
<1>1. ASSUME NEW stage \in CompareStages, NEW pass \in BOOLEAN, NEW output,
             Judge(stage, pass, output), pass <=> Legal(pending)
      PROVE  VInv'
  <2>1. /\ validator' = IF pass THEN "VAL_ACCEPT" ELSE "VAL_REJECT"
        /\ pending' = pending /\ mul_running' = mul_running /\ validator \in CompareStages
    BY <1>1 DEF Judge, multiplierVars, operandVars
  <2>2. mul_running = FALSE
    BY <2>1, StopsOutside DEF CompareStages, MultiplyStages
  <2>3. Legal(pending)' <=> Legal(pending)
    BY <2>1 DEF Legal, LegalConv, LegalResidual, LegalGap
  <2>4. VerdictIsLegality'
    BY <1>1, <2>1, <2>3 DEF VerdictIsLegality
  <2>5. OutputDimsInv'
    <3>1. validated' = validated
      BY <1>1 DEF Judge
    <3>2. OutputDimsInv
      BY DEF VInv
    <3> QED
      BY <2>1, <3>1, <3>2 DEF OutputDimsInv, KernelFits, OutputDim
  <2>6. FieldsInv'
    <3>1. validated' = validated
      BY <1>1 DEF Judge
    <3>2. FieldsInv
      BY DEF VInv
    <3> QED
      BY <2>1, <3>1, <3>2 DEF FieldsInv
  <2> QED
    BY <2>1, <2>2, <2>4, <2>5, <2>6, OutsideStages
<1>2. CASE Judge("VAL_COMPARE", ConvBytesPass(pending), calculated.output)
  <2>1. validator = "VAL_COMPARE"
    BY <1>2 DEF Judge
  <2>2. ConvBytesPass(pending) \in BOOLEAN
    BY DEF ConvBytesPass
  <2> QED
    BY <1>1, <1>2, <2>1, <2>2, ConvVerdict DEF CompareStages
<1>3. CASE Judge("VAL_RESIDUAL_COMPARE", ResidualBytesPass(pending), calculated.input)
  <2>1. validator = "VAL_RESIDUAL_COMPARE"
    BY <1>3 DEF Judge
  <2>2. ResidualBytesPass(pending) \in BOOLEAN
    BY DEF ResidualBytesPass
  <2> QED
    BY <1>1, <1>3, <2>1, <2>2, ResidualVerdict DEF CompareStages
<1>4. CASE Judge("VAL_GAP_COMPARE", GapBytesPass(pending), validated.oc)
  <2>1. validator = "VAL_GAP_COMPARE"
    BY <1>4 DEF Judge
  <2>2. GapBytesPass(pending) \in BOOLEAN
    BY DEF GapBytesPass
  <2> QED
    BY <1>1, <1>4, <2>1, <2>2, GapVerdict DEF CompareStages
<1> QED
  BY <1>2, <1>3, <1>4 DEF CompareBytes

(* A start, the end of a validation and an abort leave the stages.           *)
LEMMA LeaveInv ==
  ASSUME VInv, TakeStart \/ Conclude \/ AbortValidation, ValidatorTypeOK'
  PROVE  VInv'
<1>1. validator' \in {"VAL_IDLE", "VAL_FIELDS"}
  BY DEF TakeStart, Conclude, AbortValidation
<1>2. ~mul_running'
  <2>1. CASE TakeStart \/ AbortValidation
    BY <2>1 DEF TakeStart, AbortValidation
  <2>2. CASE Conclude
    BY <2>2, StopsOutside DEF Conclude, MultiplyStages
  <2> QED
    BY <2>1, <2>2
<1>3. VerdictIsLegality'
  BY <1>1 DEF VerdictIsLegality
<1> QED
  BY <1>1, <1>2, <1>3, OutsideStages

LEMMA InvInit == VInit => VInv
<1> SUFFICES ASSUME VInit PROVE VInv
  OBVIOUS
<1>1. ValidatorTypeOK
  BY TypeInit
<1>2. validator = "VAL_IDLE" /\ mul_running = FALSE
  BY DEF VInit, MultiplierInit
<1> QED
  BY <1>1, <1>2 DEF VInv, FieldsInv, OutputDimsInv, StageInv, AreaInv, PassedInv, CountsInv,
    MultipliesRightly, VerdictIsLegality, MultiplyStages, CompareStages, AfterInput, AfterWeights

LEMMA InvStep ==
  ASSUME VInv, [VNext]_vvars
  PROVE  VInv'
<1>1. ValidatorTypeOK'
  BY TypeStep DEF VInv
<1>2. CASE UNCHANGED vvars
  BY <1>1, <1>2 DEF VInv, vvars, multiplierVars, operandVars, FieldsInv, OutputDimsInv, StageInv,
    AreaInv, PassedInv, CountsInv, MultipliesRightly, Computes, VerdictIsLegality
<1>3. CASE CheckFields
  BY <1>1, <1>3, CheckFieldsInv
<1>4. CASE CheckDims
  BY <1>1, <1>4, CheckDimsInv
<1>5. CASE MultiplyLoad
  BY <1>1, <1>5, MultiplyLoadInv
<1>6. CASE MultiplyStep
  BY <1>1, <1>6, MultiplyStepInv
<1>7. CASE MultiplyFinish
  BY <1>1, <1>7, MultiplyFinishInv
<1>8. CASE CompareBytes
  BY <1>1, <1>8, CompareBytesInv
<1>9. CASE TakeStart \/ Conclude \/ AbortValidation
  BY <1>1, <1>9, LeaveInv
<1> QED
  BY <1>2, <1>3, <1>4, <1>5, <1>6, <1>7, <1>8, <1>9 DEF VNext, ValidatorEdge, Stopped

(* What each stage knows of the configuration.                              *)
THEOREM ValidatorInvariant == VSpec => []VInv
  BY InvInit, InvStep, PTL DEF VSpec

(* The running multiplication is that of the stage, of the dimensions of    *)
(* this START: the shift-and-add loop with its 1-bit over-limit flag and its *)
(* saturating multiplicand delivers the product or that it is too large.     *)
THEOREM RightProducts == VSpec => []MultipliesRightly
<1>1. VInv => MultipliesRightly
  BY DEF VInv
<1> QED
  BY <1>1, ValidatorInvariant, PTL

(* VAL_ACCEPT is reached with the legal configurations only, VAL_REJECT with *)
(* the others only, for all sizes of the buffers and all register values.    *)
THEOREM AcceptsExactlyLegal == VSpec => []VerdictIsLegality
<1>1. VInv => VerdictIsLegality
  BY DEF VInv
<1> QED
  BY <1>1, ValidatorInvariant, PTL

(* A convolution that is admitted is one the golden model does not refuse,   *)
(* and its output dimensions, which the RTL computes in 16 bits and with a   *)
(* shift, are those of the golden model.                                    *)
THEOREM AdmittedIsGoldenHolds == VSpec => []AdmittedIsGolden
<1>1. ASSUME VInv
      PROVE  AdmittedIsGolden
  <2> DEFINE c == pending
  <2> SUFFICES ASSUME validator = "VAL_ACCEPT", c.op = OP_CONV
               PROVE  /\ Python!validate_conv_config(c)
                      /\ validated.oh = Python!conv_output_dim(c.h, c.padding, c.kernel, c.stride)
                      /\ validated.ow = Python!conv_output_dim(c.w, c.padding, c.kernel, c.stride)
    BY DEF AdmittedIsGolden
  <2>1. LegalConv(c)
    BY <1>1, Ops DEF VInv, VerdictIsLegality, Legal
  <2>2. c.h \in Nat /\ c.w \in Nat /\ c.ic \in Nat /\ c.oc \in Nat
    BY <1>1, RegisterFields DEF VInv, ValidatorTypeOK
  <2>3. Python!validate_conv_config(c)
    BY <2>1, <2>2 DEF LegalConv, DimensionsInRange, KernelFits, Python!validate_conv_config
  <2>4. validated.oh = OutputDim(c.h, c) /\ validated.ow = OutputDim(c.w, c)
    BY <1>1 DEF VInv, OutputDimsInv
  <2> QED
    BY <2>3, <2>4 DEF OutputDim, Python!conv_output_dim
<1> QED
  BY <1>1, ValidatorInvariant, PTL

-----------------------------------------------------------------------------
(* The configurations of ControllerFsm.                                     *)

(* The checks of the fields and of the input, which all operations have.    *)
FieldsAndKernel(c) == FieldsPass(c) /\ (c.op = OP_CONV => KernelFits(c))
InputFits(c) ==
  FieldsAndKernel(c) /\ c.h * c.w <= INPUT_CAP_BYTES /\ InputBytes(c) <= INPUT_CAP_BYTES

LEMMA NumbersOf ==
  ASSUME NEW c \in RegisterRecords, FieldsAndKernel(c)
  PROVE  /\ c.h * c.w \in Nat /\ InputBytes(c) \in Nat /\ InputBytes(c) >= 1
         /\ c.ic * c.oc \in Nat /\ c.ic * c.oc >= 1
         /\ c.op = OP_CONV => OutputArea(c) \in Nat /\ OutputArea(c) * c.oc \in Nat
                              /\ OutputArea(c) * c.oc >= 1
<1>1. FieldsPass(c) /\ (c.op = OP_CONV => KernelFits(c))
  BY DEF FieldsAndKernel
<1>2. /\ c.h \in Nat /\ c.w \in Nat /\ c.ic \in Nat /\ c.oc \in Nat
      /\ c.h >= 1 /\ c.w >= 1 /\ c.ic >= 1 /\ c.oc >= 1
  BY <1>1, RegisterFields, FieldRanges
<1>3. c.h * c.w \in Nat /\ c.h * c.w >= 1 /\ c.ic * c.oc \in Nat /\ c.ic * c.oc >= 1
  BY <1>2, ProductGrows
<1>4. InputBytes(c) \in Nat /\ InputBytes(c) >= 1
  BY <1>2, <1>3, ProductGrows DEF InputBytes
<1>5. ASSUME c.op = OP_CONV
      PROVE  OutputArea(c) \in Nat /\ OutputArea(c) * c.oc \in Nat /\ OutputArea(c) * c.oc >= 1
  <2> DEFINE oh == OutputDim(c.h, c)
             ow == OutputDim(c.w, c)
  <2>1. oh \in Nat /\ oh >= 1 /\ ow \in Nat /\ ow >= 1
    BY <1>1, <1>5, FieldRanges, OutputDims
  <2> HIDE DEF oh, ow
  <2>2. oh * ow \in Nat /\ oh * ow >= 1
    BY <2>1, ProductGrows
  <2>3. OutputArea(c) \in Nat /\ OutputArea(c) >= 1
    BY <2>2 DEF OutputArea, oh, ow
  <2> QED
    BY <1>2, <2>3, ProductGrows
<1> QED
  BY <1>3, <1>4, <1>5

LEMMA RejectStageIs ==
  ASSUME NEW c \in RegisterRecords
  PROVE  /\ ~FieldsPass(c) => RejectStage(c) = "VAL_FIELDS"
         /\ FieldsPass(c) /\ ~FieldsAndKernel(c) => RejectStage(c) = "VAL_DIMS"
         /\ FieldsAndKernel(c) /\ c.h * c.w > INPUT_CAP_BYTES =>
              RejectStage(c) = "VAL_INPUT_AREA"
         /\ FieldsAndKernel(c) /\ c.h * c.w <= INPUT_CAP_BYTES
              /\ InputBytes(c) > INPUT_CAP_BYTES => RejectStage(c) = "VAL_INPUT_CHANNELS"
         /\ InputFits(c) =>
              /\ c.op = OP_RESIDUAL_ADD => RejectStage(c) = ComparesAt(c, "VAL_RESIDUAL_COMPARE")
              /\ c.op = OP_GLOBAL_AVG_POOL => RejectStage(c) = ComparesAt(c, "VAL_GAP_COMPARE")
              /\ c.op = OP_CONV =>
                   RejectStage(c) =
                     IF c.ic * c.oc > WeightChannelLimit(c) THEN "VAL_WEIGHT_CHANNELS"
                     ELSE IF OutputArea(c) > OUTPUT_CAP_BYTES THEN "VAL_OUTPUT_AREA"
                     ELSE IF OutputArea(c) * c.oc > OUTPUT_CAP_BYTES THEN "VAL_OUTPUT_CHANNELS"
                     ELSE ComparesAt(c, "VAL_COMPARE")
<1>1. CASE ~FieldsPass(c)
  BY <1>1 DEF RejectStage, FieldsAndKernel, InputFits
<1>2. CASE FieldsPass(c) /\ ~FieldsAndKernel(c)
  BY <1>2 DEF RejectStage, FieldsAndKernel, InputFits
<1>3. CASE FieldsAndKernel(c)
  <2>1. /\ FieldsPass(c) /\ ~(FieldsPass(c) /\ c.op = OP_CONV /\ ~KernelFits(c))
        /\ c.h * c.w \in Nat /\ InputBytes(c) \in Nat /\ INPUT_CAP_BYTES \in Nat
    BY <1>3, NumbersOf, Caps DEF FieldsAndKernel
  <2>2. CASE c.h * c.w > INPUT_CAP_BYTES
    BY <1>3, <2>1, <2>2 DEF RejectStage, InputFits
  <2>3. CASE c.h * c.w <= INPUT_CAP_BYTES /\ InputBytes(c) > INPUT_CAP_BYTES
    BY <1>3, <2>1, <2>3 DEF RejectStage, InputFits
  <2>4. CASE InputFits(c)
    <3>1. ~(c.h * c.w > INPUT_CAP_BYTES) /\ ~(InputBytes(c) > INPUT_CAP_BYTES)
      BY <2>1, <2>4 DEF InputFits
    <3> QED
      BY <1>3, <2>1, <3>1, Ops DEF RejectStage
  <2> QED
    BY <1>3, <2>1, <2>2, <2>3, <2>4 DEF InputFits
<1> QED
  BY <1>1, <1>2, <1>3

(* The abstraction of register values satisfies what AccelPkg assumes of    *)
(* the configurations: it is rejected at a stage that looks at it, or it     *)
(* asks for a positive number of whole words in every packet it receives.   *)
THEOREM AbstractWellFormed ==
  ASSUME NEW c \in RegisterRecords
  PROVE  WellFormed(Abstract(c))
<1> DEFINE a == Abstract(c)
<1>1. /\ a.op = c.op /\ a.rejectAt = RejectStage(c) /\ a.bytes = c.bytes /\ a.output = c.output
      /\ a = [op |-> a.op, rejectAt |-> a.rejectAt, bytes |-> a.bytes, output |-> a.output]
  BY DEF Abstract
<1>2. c.op \in Operations \cup {OP_OTHER} /\ c.bytes \in [Packets -> Nat] /\ c.output \in Nat
  BY DEF RegisterRecords, Word
<1>3. CASE ~InputFits(c)
  <2>1. RejectStage(c) \in {"VAL_FIELDS", "VAL_DIMS", "VAL_INPUT_AREA", "VAL_INPUT_CHANNELS"}
    <3>1. FieldsAndKernel(c) =>
            /\ c.h * c.w \in Nat /\ InputBytes(c) \in Nat /\ INPUT_CAP_BYTES \in Nat
      BY NumbersOf, Caps
    <3> QED
      BY <1>3, <3>1, RejectStageIs DEF InputFits
  <2>2. RejectStage(c) \in Stages(c.op)
    <3>1. CASE ~FieldsPass(c)
      BY <1>2, <3>1, Ops, RejectStageIs DEF Stages, Operations
    <3>2. CASE FieldsPass(c) /\ ~FieldsAndKernel(c)
      BY <3>2, Ops, RejectStageIs DEF Stages, FieldsAndKernel
    <3>3. CASE FieldsAndKernel(c)
      <4>1. c.op \in Operations
        BY <3>3, FieldRanges DEF FieldsAndKernel
      <4>2. RejectStage(c) \in {"VAL_INPUT_AREA", "VAL_INPUT_CHANNELS"}
        <5>1. c.h * c.w \in Nat /\ InputBytes(c) \in Nat /\ INPUT_CAP_BYTES \in Nat
          BY <3>3, NumbersOf, Caps
        <5> QED
          BY <1>3, <3>3, <5>1, RejectStageIs DEF InputFits
      <4> QED
        BY <4>1, <4>2, Ops DEF Stages, Operations, MultiplyStages
    <3> QED
      BY <3>1, <3>2, <3>3
  <2>3. a \in ConfigRecords
    BY <1>1, <1>2, <2>1 DEF ConfigRecords, CheckStages, MultiplyStages
  <2>4. a.rejectAt # "never" /\ a.rejectAt \in Stages(a.op)
    BY <1>1, <2>1, <2>2
  <2> QED
    BY <2>3, <2>4 DEF WellFormed, Accepted
<1>4. CASE InputFits(c)
  <2>1. FieldsAndKernel(c) /\ FieldsPass(c) /\ c.op \in Operations
    BY <1>4, FieldRanges DEF InputFits, FieldsAndKernel
  <2>2. RejectStage(c) \in Stages(c.op) \/ (RejectStage(c) = "never" /\ Legal(c))
    BY <1>4, <2>1, Ops, RejectStageIs DEF Stages, Operations, MultiplyStages, ComparesAt
  <2>3. RejectStage(c) \in CheckStages \cup {"never"}
    BY <1>4, <2>1, Ops, RejectStageIs DEF ComparesAt, Operations, CheckStages, MultiplyStages,
      CompareStages
  <2>4. a \in ConfigRecords
    BY <1>1, <1>2, <2>3 DEF ConfigRecords
  <2>5. ASSUME Legal(c)
        PROVE  WordCount(c.output) /\ \A p \in Packets : Uses(c.op, p) => WordCount(c.bytes[p])
    <3>1. ASSUME NEW n \in Nat, n >= 1, n % 4 = 0
          PROVE  WordCount(n)
      BY <3>1 DEF WordCount
    <3>2. /\ InputBytes(c) \in Nat /\ InputBytes(c) >= 1
          /\ c.oc \in Nat /\ c.oc >= 1
          /\ c.ic * c.oc \in Nat /\ c.ic * c.oc >= 1
      BY <2>1, NumbersOf, RegisterFields, FieldRanges
    <3>3. CASE c.op = OP_CONV
      <4>1. LegalConv(c)
        BY <2>5, <3>3, Ops DEF Legal
      <4>2. OutputArea(c) * c.oc \in Nat /\ OutputArea(c) * c.oc >= 1
        BY <2>1, <3>3, NumbersOf
      <4>3. /\ c.kernel * c.kernel * (c.ic * c.oc) \in Nat
            /\ c.kernel * c.kernel * (c.ic * c.oc) >= 1
        <5>1. c.kernel \in {1, 3}
          BY <4>1 DEF LegalConv
        <5>2. CASE c.kernel = 1
          BY <3>2, <5>2
        <5>3. CASE c.kernel = 3
          BY <3>2, <5>3
        <5> QED
          BY <5>1, <5>2, <5>3
      <4>4. WordCount(c.output) /\ WordCount(c.bytes["INPUT"])
        BY <3>1, <3>2, <4>1, <4>2 DEF LegalConv, Holds
      <4>5. WordCount(c.bytes["WEIGHT"])
        BY <3>1, <4>1, <4>3 DEF LegalConv, Holds
      <4>6. WordCount(c.bytes["BIAS"])
        <5>1. c.bytes["BIAS"] = 4 * c.oc /\ (4 * c.oc) \in Nat /\ 4 * c.oc >= 1
              /\ c.bytes["BIAS"] % 4 = 0
          BY <3>2, <4>1 DEF LegalConv, Holds
        <5> QED
          BY <3>1, <5>1
      <4>7. ASSUME NEW p \in Packets, Uses(c.op, p) PROVE p # "SKIP"
        <5> DEFINE plan == << "WEIGHT", "BIAS", "INPUT" >>
        <5>1. PacketPlan(c.op) = plan
          BY <3>3, Ops DEF PacketPlan
        <5>2. PICK i \in DOMAIN plan : plan[i] = p
          BY <4>7, <5>1 DEF Uses
        <5>3. i \in {1, 2, 3}
          OBVIOUS
        <5> QED
          BY <5>2, <5>3
      <4> QED
        BY <4>4, <4>5, <4>6, <4>7 DEF Packets
    <3>4. CASE c.op = OP_RESIDUAL_ADD
      <4>1. LegalResidual(c)
        BY <2>5, <3>4, Ops DEF Legal
      <4>2. WordCount(c.output) /\ WordCount(c.bytes["INPUT"]) /\ WordCount(c.bytes["SKIP"])
        BY <3>1, <3>2, <4>1 DEF LegalResidual, Holds
      <4>3. ASSUME NEW p \in Packets, Uses(c.op, p) PROVE p \in {"INPUT", "SKIP"}
        BY <3>4, <4>3, Ops DEF Uses, PacketPlan
      <4> QED
        BY <4>2, <4>3
    <3>5. CASE c.op = OP_GLOBAL_AVG_POOL
      <4>1. LegalGap(c)
        BY <2>5, <3>5, Ops DEF Legal
      <4>2. WordCount(c.output) /\ WordCount(c.bytes["INPUT"])
        BY <3>1, <3>2, <4>1 DEF LegalGap, Holds
      <4>3. ASSUME NEW p \in Packets, Uses(c.op, p) PROVE p = "INPUT"
        BY <3>5, <4>3, Ops DEF Uses, PacketPlan
      <4> QED
        BY <4>2, <4>3
    <3> QED
      BY <2>1, <3>3, <3>4, <3>5 DEF Operations
  <2>6. "never" \notin Stages(c.op)
    BY DEF Stages, MultiplyStages
  <2> QED
    BY <1>1, <2>1, <2>2, <2>4, <2>5, <2>6 DEF WellFormed, Accepted
<1> QED
  BY <1>3, <1>4

(* A configuration that is accepted fits the buffers, and a residual         *)
(* addition has three tensors of one size: what the proofs about the data    *)
(* path assume of the configurations (DataAssumption, ResnetAccelTopData).   *)
THEOREM AbstractFits ==
  ASSUME NEW c \in RegisterRecords, Accepted(Abstract(c))
  PROVE  LET a == Abstract(c)
         IN  /\ a.output <= OUTPUT_CAP_BYTES
             /\ a.bytes["INPUT"] <= INPUT_CAP_BYTES
             /\ a.op = OP_CONV =>
                  a.bytes["WEIGHT"] <= WEIGHT_CAP_BYTES /\ a.bytes["BIAS"] <= BIAS_CAP_BYTES
             /\ a.op = OP_RESIDUAL_ADD =>
                  a.bytes["INPUT"] = a.output /\ a.bytes["SKIP"] = a.output
<1>1. RejectStage(c) = "never"
  BY DEF Accepted, Abstract
<1>2. FieldsPass(c) /\ FieldsAndKernel(c)
  BY <1>1, RejectStageIs
<1>3. InputFits(c)
  <2>1. c.h * c.w \in Nat /\ InputBytes(c) \in Nat /\ INPUT_CAP_BYTES \in Nat
    BY <1>2, NumbersOf, Caps
  <2> QED
    BY <1>1, <1>2, <2>1, RejectStageIs DEF InputFits
<1>4. c.op \in Operations
  BY <1>2, FieldRanges
<1>5. Legal(c)
  BY <1>1, <1>3, <1>4, RejectStageIs DEF Operations, ComparesAt
<1> QED
  BY <1>5, Ops DEF Legal, LegalConv, LegalResidual, LegalGap, Holds, Abstract

LEMMA KnownOfStages ==
  ASSUME VInv
  PROVE  /\ pending \in RegisterRecords
         /\ validator \in MultiplyStages \cup CompareStages => FieldsAndKernel(pending)
         /\ validator \in AfterInput => InputFits(pending)
BY DEF VInv, ValidatorTypeOK, FieldsInv, OutputDimsInv, PassedInv, FieldsAndKernel, InputFits,
  AfterInput, MultiplyStages, CompareStages

(* The verdict of ControllerFsm on the abstraction.                         *)
LEMMA FsmVerdict ==
  ASSUME NEW stage
  PROVE  Fsm!Verdict(stage) = IF RejectStage(pending) = stage THEN "VAL_REJECT"
                              ELSE Fsm!NextStage(Abstract(pending), stage)
BY DEF Fsm!Verdict, Abstract

(* A multiplication rejects where the abstraction says so.                  *)
LEMMA FinishVerdict ==
  ASSUME VInv, MultiplyFinish
  PROVE  validator' = Fsm!Verdict(validator)
<1> DEFINE c == pending
           f == Factors(validator, c)
<1>1. validator \in MultiplyStages /\ mul_running /\ LastBit
  BY DEF MultiplyFinish
<1>2. /\ c \in RegisterRecords /\ FieldsAndKernel(c)
      /\ validator \in AfterInput => InputFits(c)
  BY <1>1, KnownOfStages
<1>3. PICK x \in Nat, y \in Nat, limit \in Nat : x = f[1] /\ y = f[2] /\ limit = f[3]
  BY <1>1, FactorRanges
<1>4. MultiplierTypeOK /\ Computes(x, y, limit)
  BY <1>1, <1>3 DEF VInv, ValidatorTypeOK, MultipliesRightly
<1>5. OverLimitNext <=> x * y > limit
  <2>1. x * y \in Nat
    BY ProductGrows
  <2> QED
    BY <1>1, <1>3, <1>4, <2>1, LastComputes
<1>6. validator' = IF x * y > limit THEN "VAL_REJECT" ELSE AfterProduct
  BY <1>5 DEF MultiplyFinish
<1>7. AfterProduct = Fsm!NextStage(Abstract(c), validator)
  BY <1>1, Ops DEF AfterProduct, Fsm!NextStage, Abstract, MultiplyStages,
    Fsm!OP_CONV, Fsm!OP_RESIDUAL_ADD, Fsm!OP_GLOBAL_AVG_POOL, OP_RESIDUAL_ADD, OP_GLOBAL_AVG_POOL
<1>8. c.h * c.w \in Nat /\ InputBytes(c) \in Nat /\ INPUT_CAP_BYTES \in Nat
  BY <1>2, NumbersOf, Caps
<1>9. RejectStage(c) = validator <=> x * y > limit
  <2>1. CASE validator = "VAL_INPUT_AREA"
    <3>1. x = c.h /\ y = c.w /\ limit = INPUT_CAP_BYTES
      BY <1>3, <2>1 DEF Factors
    <3>2. c.op \in Operations
      BY <1>2, FieldRanges DEF FieldsAndKernel
    <3>3. CASE c.h * c.w > INPUT_CAP_BYTES
      BY <1>2, <2>1, <3>1, <3>3, RejectStageIs
    <3>4. CASE c.h * c.w <= INPUT_CAP_BYTES /\ InputBytes(c) > INPUT_CAP_BYTES
      BY <1>2, <1>8, <2>1, <3>1, <3>4, RejectStageIs
    <3>5. CASE InputFits(c)
      BY <1>2, <1>8, <2>1, <3>1, <3>2, <3>5, RejectStageIs
      DEF ComparesAt, InputFits, Operations
    <3> QED
      BY <1>2, <1>8, <3>3, <3>4, <3>5 DEF InputFits
  <2>2. CASE validator = "VAL_INPUT_CHANNELS"
    <3>1. x * y = InputBytes(c) /\ limit = INPUT_CAP_BYTES /\ c.h * c.w <= INPUT_CAP_BYTES
      BY <1>3, <2>2 DEF Factors, InputBytes, VInv, PassedInv
    <3>2. c.op \in Operations
      BY <1>2, FieldRanges DEF FieldsAndKernel
    <3>3. CASE InputBytes(c) > INPUT_CAP_BYTES
      BY <1>2, <2>2, <3>1, <3>3, RejectStageIs
    <3>4. CASE InputFits(c)
      BY <1>2, <1>8, <2>2, <3>1, <3>2, <3>4, RejectStageIs
      DEF ComparesAt, InputFits, Operations
    <3> QED
      BY <1>2, <1>8, <3>1, <3>3, <3>4 DEF InputFits
  <2>3. CASE validator \in {"VAL_WEIGHT_CHANNELS", "VAL_OUTPUT_AREA", "VAL_OUTPUT_CHANNELS"}
    <3>1. InputFits(c) /\ c.op = OP_CONV
      BY <1>2, <2>3 DEF AfterInput, VInv, StageInv, AfterWeights
    <3>2. /\ c.ic * c.oc \in Nat /\ OutputArea(c) \in Nat /\ OutputArea(c) * c.oc \in Nat
          /\ WeightChannelLimit(c) \in Nat /\ OUTPUT_CAP_BYTES \in Nat
      BY <1>2, <3>1, NumbersOf, WeightLimit, Caps
    <3>3. /\ validator # "VAL_WEIGHT_CHANNELS" => ~(c.ic * c.oc > WeightChannelLimit(c))
          /\ validator = "VAL_OUTPUT_CHANNELS" => ~(OutputArea(c) > OUTPUT_CAP_BYTES)
      BY <2>3, <3>2 DEF VInv, PassedInv, AfterWeights
    <3>4. x * y > limit <=>
            CASE validator = "VAL_WEIGHT_CHANNELS" -> c.ic * c.oc > WeightChannelLimit(c)
              [] validator = "VAL_OUTPUT_AREA" -> OutputArea(c) > OUTPUT_CAP_BYTES
              [] OTHER -> OutputArea(c) * c.oc > OUTPUT_CAP_BYTES
      BY <1>3, <2>3 DEF Factors, OutputArea
    <3>5. RejectStage(c) =
            IF c.ic * c.oc > WeightChannelLimit(c) THEN "VAL_WEIGHT_CHANNELS"
            ELSE IF OutputArea(c) > OUTPUT_CAP_BYTES THEN "VAL_OUTPUT_AREA"
            ELSE IF OutputArea(c) * c.oc > OUTPUT_CAP_BYTES THEN "VAL_OUTPUT_CHANNELS"
            ELSE ComparesAt(c, "VAL_COMPARE")
      BY <1>2, <3>1, RejectStageIs
    <3>6. ComparesAt(c, "VAL_COMPARE") \in {"VAL_COMPARE", "never"}
      BY DEF ComparesAt
    <3> HIDE DEF c
    <3> QED
      BY <2>3, <3>3, <3>4, <3>5, <3>6
  <2> QED
    BY <1>1, <2>1, <2>2, <2>3 DEF MultiplyStages
<1> QED
  BY <1>6, <1>7, <1>9, FsmVerdict

(* So does a comparison.                                                    *)
LEMMA CompareVerdict ==
  ASSUME VInv, CompareBytes
  PROVE  validator \in CompareStages /\ validator' = Fsm!Verdict(validator)
<1> DEFINE c == pending
<1>1. validator \in CompareStages
  BY DEF CompareBytes, Judge, CompareStages
<1>2. c \in RegisterRecords /\ InputFits(c)
  BY <1>1, KnownOfStages DEF AfterInput
<1>3. RejectStage(c) = IF Legal(c) THEN "never" ELSE validator
  <2>1. CASE validator = "VAL_COMPARE"
    <3>1. c.op = OP_CONV
      BY <2>1 DEF VInv, StageInv, AfterWeights
    <3>2. /\ c.ic * c.oc \in Nat /\ OutputArea(c) \in Nat /\ OutputArea(c) * c.oc \in Nat
          /\ WeightChannelLimit(c) \in Nat /\ OUTPUT_CAP_BYTES \in Nat
      BY <1>2, <3>1, NumbersOf, WeightLimit, Caps DEF InputFits
    <3>3. /\ ~(c.ic * c.oc > WeightChannelLimit(c)) /\ ~(OutputArea(c) > OUTPUT_CAP_BYTES)
          /\ ~(OutputArea(c) * c.oc > OUTPUT_CAP_BYTES)
      BY <2>1, <3>2 DEF VInv, PassedInv, AfterWeights
    <3> QED
      BY <1>2, <2>1, <3>1, <3>3, RejectStageIs DEF ComparesAt
  <2>2. CASE validator # "VAL_COMPARE"
    BY <1>1, <1>2, <2>2, RejectStageIs DEF ComparesAt, VInv, StageInv, CompareStages
  <2> QED
    BY <2>1, <2>2
<1>4. Fsm!NextStage(Abstract(c), validator) = "VAL_ACCEPT"
  BY <1>1 DEF Fsm!NextStage, CompareStages
<1>5. validator' = IF Legal(c) THEN "VAL_ACCEPT" ELSE "VAL_REJECT"
  BY ConvVerdict, ResidualVerdict, GapVerdict DEF CompareBytes, Judge
<1>6. validator # "never"
  BY <1>1 DEF CompareStages
<1> QED
  BY <1>1, <1>3, <1>4, <1>5, <1>6, FsmVerdict

(* The checks of the fields and of the output dimensions.                   *)
LEMMA CheckVerdict ==
  ASSUME VInv, CheckFields \/ CheckDims
  PROVE  validator' = Fsm!Verdict(validator)
<1> DEFINE c == pending
<1>1. c \in RegisterRecords
  BY DEF VInv, ValidatorTypeOK
<1>2. CASE CheckFields
  <2>1. validator = "VAL_FIELDS"
        /\ validator' = IF FieldsPass(c) THEN IF c.op = OP_CONV THEN "VAL_DIMS" ELSE "VAL_INPUT_AREA"
                        ELSE "VAL_REJECT"
    BY <1>2 DEF CheckFields
  <2>2. Fsm!NextStage(Abstract(c), "VAL_FIELDS") =
          IF c.op = OP_CONV THEN "VAL_DIMS" ELSE "VAL_INPUT_AREA"
    BY DEF Fsm!NextStage, Abstract, Fsm!OP_CONV, OP_CONV
  <2>3. RejectStage(c) = "VAL_FIELDS" <=> ~FieldsPass(c)
    BY DEF RejectStage, ComparesAt
  <2> QED
    BY <2>1, <2>2, <2>3, FsmVerdict
<1>3. CASE CheckDims
  <2>1. c.op = OP_CONV /\ FieldsPass(c) /\ ConvFieldsPass(c)
    BY <1>1, <1>3, FieldRanges DEF VInv, StageInv, FieldsInv, CheckDims
  <2>2. validator = "VAL_DIMS"
        /\ validator' = IF KernelFits(c) THEN "VAL_INPUT_AREA" ELSE "VAL_REJECT"
    BY <1>1, <1>3, <2>1, OutputDims DEF CheckDims
  <2>3. Fsm!NextStage(Abstract(c), "VAL_DIMS") = "VAL_INPUT_AREA"
    BY DEF Fsm!NextStage
  <2>4. RejectStage(c) = "VAL_DIMS" <=> ~KernelFits(c)
    BY <2>1 DEF RejectStage, ComparesAt
  <2> QED
    BY <2>2, <2>3, <2>4, FsmVerdict
<1> QED
  BY <1>2, <1>3

LEMMA StageImplements ==
  ASSUME VInv, [VNext]_vvars, validator \in CheckStages, validator' # "VAL_IDLE"
  PROVE  [FsmStage]_vvars
<1>1. CASE CheckFields \/ CheckDims
  <2>1. validator' = Fsm!Verdict(validator)
    BY <1>1, CheckVerdict
  <2>2. /\ validator \in {"VAL_FIELDS", "VAL_DIMS"} /\ pending' = pending
        /\ reject_operation' = IF validator = "VAL_FIELDS" THEN pending.op = OP_OTHER
                               ELSE reject_operation
    BY <1>1 DEF CheckFields, CheckDims
  <2>3. mul_running = FALSE
    BY <2>2, StopsOutside DEF MultiplyStages
  <2>4. mul_running' = FALSE
    BY <1>1, <2>3 DEF CheckFields, CheckDims
  <2>5. Fsm!ValidateStage
    BY <2>1, <2>2, <2>4 DEF Fsm!ValidateStage, Fsm!CheckStages, Fsm!MultiplyStages,
      Fsm!CompareStages, Fsm!NoOutputs, Fsm!Outputs, Abstract, Fsm!OP_OTHER, OP_OTHER
  <2> QED
    BY <2>5 DEF FsmStage
<1>2. CASE MultiplyLoad
  BY <1>2 DEF MultiplyLoad, LoadFactors, Load, FsmStage, Fsm!MultiplyLoad, Fsm!MultiplyStages,
    MultiplyStages, Fsm!NoOutputs, Fsm!Outputs
<1>3. CASE MultiplyStep
  BY <1>3 DEF MultiplyStep, Step, FsmStage, Fsm!MultiplyStep, Fsm!MultiplyStages,
    MultiplyStages, Fsm!NoOutputs, Fsm!Outputs, Fsm!validatorVars
<1>4. CASE MultiplyFinish
  <2>1. validator' = Fsm!Verdict(validator)
    BY <1>4, FinishVerdict
  <2> QED
    BY <1>4, <2>1 DEF MultiplyFinish, FsmStage, Fsm!MultiplyFinish, Fsm!MultiplyStages,
      MultiplyStages, Fsm!NoOutputs, Fsm!Outputs
<1>5. CASE CompareBytes
  <2>1. validator \in CompareStages /\ validator' = Fsm!Verdict(validator)
    BY <1>5, CompareVerdict
  <2>2. /\ pending' = pending /\ reject_operation' = reject_operation
        /\ mul_running' = mul_running
    BY <1>5 DEF CompareBytes, Judge, multiplierVars
  <2>3. Fsm!ValidateStage
    BY <2>1, <2>2 DEF Fsm!ValidateStage, Fsm!CheckStages, Fsm!MultiplyStages, CompareStages,
      Fsm!CompareStages, Fsm!NoOutputs, Fsm!Outputs
  <2> QED
    BY <2>3 DEF FsmStage
<1>6. CASE UNCHANGED vvars
  BY <1>6
<1>7. ~TakeStart /\ ~Conclude /\ ~AbortValidation
  BY DEF TakeStart, Conclude, AbortValidation, CheckStages, MultiplyStages, CompareStages
<1> QED
  BY <1>1, <1>2, <1>3, <1>4, <1>5, <1>6, <1>7 DEF VNext, ValidatorEdge, Stopped

(* The validator with its arithmetic takes the steps that ControllerFsm     *)
(* takes with the abstraction of the registers: what is proved of the       *)
(* accelerator with rejectAt holds of the arithmetic too.                   *)
THEOREM ValidatorImplementsFsm == VSpec => ImplementsFsm
<1>1. VInv /\ [VNext]_vvars =>
        [(validator \in CheckStages /\ validator' # "VAL_IDLE") => FsmStage]_vvars
  BY StageImplements
<1> QED
  BY <1>1, ValidatorInvariant, PTL DEF VSpec, ImplementsFsm

-----------------------------------------------------------------------------
(* accel_configure in front of the validator.                                *)

(* A product that fits a buffer is not cut.                                  *)
LEMMA NotCut ==
  ASSUME NEW n \in Nat, NEW cap \in {WEIGHT_CAP_BYTES, BIAS_CAP_BYTES, INPUT_CAP_BYTES, OUTPUT_CAP_BYTES},
         n <= cap
  PROVE  U32(n) = n
<1>1. cap \in Nat /\ cap < UINT32 /\ UINT32 \in Nat \ {0}
  BY Caps, UINT32Assumption
<1> QED
  BY <1>1 DEF U32

LEMMA LayerFields ==
  ASSUME NEW l \in LayerRecords
  PROVE  /\ l.height \in Nat /\ l.width \in Nat /\ l.in_channels \in Nat /\ l.out_channels \in Nat
         /\ l.kernel \in Nat /\ l.stride \in Nat /\ l.padding \in Nat /\ l.shift \in Nat
         /\ l.op \in Operations \cup {OP_FC, OP_POOL}
<1>1. /\ l.height \in HalfWord /\ l.width \in HalfWord /\ l.in_channels \in HalfWord
      /\ l.out_channels \in HalfWord /\ l.shift \in HalfWord
      /\ l.kernel \in Byte /\ l.stride \in Byte /\ l.padding \in Byte
      /\ l.op \in Operations \cup {OP_FC, OP_POOL}
  BY DEF LayerRecords
<1>2. HalfWord \subseteq Nat /\ Byte \subseteq Nat
  BY DEF HalfWord, Byte
<1> QED
  BY <1>1, <1>2

(* Products of natural numbers, and of positive ones.                        *)
LEMMA Product3 ==
  ASSUME NEW a \in Nat, NEW b \in Nat, NEW c \in Nat
  PROVE  a * b \in Nat /\ a * b * c \in Nat /\ (a >= 1 /\ b >= 1 /\ c >= 1 => a * b * c >= 1)
<1>1. a * b \in Nat /\ (a >= 1 /\ b >= 1 => a * b >= 1)
  BY ProductGrows
<1> DEFINE ab == a * b
<1>2. ab \in Nat /\ (a >= 1 /\ b >= 1 => ab >= 1)
  BY <1>1
<1> HIDE DEF ab
<1>3. ab * c \in Nat /\ (ab >= 1 /\ c >= 1 => ab * c >= 1)
  BY <1>2, ProductGrows
<1> QED
  BY <1>1, <1>2, <1>3 DEF ab

LEMMA RangeOf ==
  ASSUME NEW h \in Nat, NEW w \in Nat, NEW ic \in Nat, NEW oc \in Nat
  PROVE  InRange(h, w, ic, oc) <=>
           /\ h >= 1 /\ w >= 1 /\ ic >= 1 /\ oc >= 1
           /\ h <= 16384 /\ w <= 16384 /\ ic <= 4096 /\ oc <= 64
<1>1. (h \in 1..16384 <=> h >= 1 /\ h <= 16384) /\ (w \in 1..16384 <=> w >= 1 /\ w <= 16384)
  <2>1. h \in 1..16384 <=> h >= 1 /\ h <= 16384
    OBVIOUS
  <2>2. w \in 1..16384 <=> w >= 1 /\ w <= 16384
    OBVIOUS
  <2> QED
    BY <2>1, <2>2
<1>2. ic \in 1..4096 <=> ic >= 1 /\ ic <= 4096
  OBVIOUS
<1>3. oc \in 1..64 <=> oc >= 1 /\ oc <= 64
  OBVIOUS
<1> QED
  BY ONLY <1>1, <1>2, <1>3 DEF InRange

LEMMA LayerOps ==
  /\ OP_FC \notin Operations /\ OP_POOL \notin Operations /\ OP_FC # OP_POOL
BY DEF OP_FC, OP_POOL, Operations, OP_CONV, OP_RESIDUAL_ADD, OP_GLOBAL_AVG_POOL

LEMMA PackedBytes ==
  ASSUME NEW w, NEW b, NEW i, NEW s
  PROVE  /\ Packed(w, b, i, s)["WEIGHT"] = w /\ Packed(w, b, i, s)["BIAS"] = b
         /\ Packed(w, b, i, s)["INPUT"] = i /\ Packed(w, b, i, s)["SKIP"] = s
BY DEF Packed, Packets

LEMMA ResidualFits ==
  ASSUME NEW l \in LayerRecords, ~NoElement(l, l.out_channels)
  PROVE  Legal(ResidualRegisters(l)) <=> FitsResidual(l)
<1> DEFINE r == ResidualRegisters(l)
           n == l.height * l.width * l.out_channels
<1>1. /\ l.height \in Nat /\ l.width \in Nat /\ l.out_channels \in Nat
      /\ l.height >= 1 /\ l.width >= 1 /\ l.out_channels >= 1
  BY LayerFields DEF NoElement
<1>2. n \in Nat /\ n >= 1
  BY <1>1, Product3
<1>3. /\ r.op = OP_RESIDUAL_ADD /\ r.h = l.height /\ r.w = l.width
      /\ r.ic = l.out_channels /\ r.oc = l.out_channels
      /\ r.kernel = 0 /\ r.stride = 0 /\ r.padding = 0 /\ r.reserved = 0
      /\ r.multiplier = 0 /\ r.shift = 0
      /\ r.bytes = Packed(0, 0, U32(n), U32(n)) /\ r.output = U32(n)
  BY DEF ResidualRegisters, ZeroRegisters
<1>4. /\ r.bytes["WEIGHT"] = 0 /\ r.bytes["BIAS"] = 0
      /\ r.bytes["INPUT"] = U32(n) /\ r.bytes["SKIP"] = U32(n)
  BY <1>3, PackedBytes
<1>5. InputBytes(r) = n
  BY <1>3 DEF InputBytes
<1> HIDE DEF r, n
<1>6. Legal(r) <=> LegalResidual(r)
  BY <1>3, Ops DEF Legal
<1>7. FitsResidual(l) => LegalResidual(r)
  <2> SUFFICES ASSUME FitsResidual(l) PROVE LegalResidual(r)
    OBVIOUS
  <2>1. n <= INPUT_CAP_BYTES /\ Holds(n, INPUT_CAP_BYTES) /\ Holds(n, OUTPUT_CAP_BYTES)
    BY DEF FitsResidual, Holds, n
  <2>2. U32(n) = n
    BY <1>2, <2>1, NotCut
  <2>3. l.height <= 16384 /\ l.width <= 16384 /\ l.out_channels <= 4096
    BY <1>1, RangeOf DEF FitsResidual
  <2>4. DimensionsInRange(r)
    BY <1>1, <1>3, <2>3 DEF DimensionsInRange
  <2>5. U32(n) # 0
    BY <1>2, <2>2
  <2>6. ResidualFieldsPass(r)
    BY <1>3, <1>4, <2>3, <2>4, <2>5 DEF ResidualFieldsPass
  <2> QED
    BY <1>3, <1>4, <1>5, <2>1, <2>2, <2>6 DEF LegalResidual
<1>8. LegalResidual(r) => FitsResidual(l)
  <2> SUFFICES ASSUME LegalResidual(r) PROVE FitsResidual(l)
    OBVIOUS
  <2>1. Holds(n, INPUT_CAP_BYTES) /\ Holds(n, OUTPUT_CAP_BYTES)
    BY <1>5 DEF LegalResidual
  <2>2. l.height <= 16384 /\ l.width <= 16384 /\ l.out_channels <= 4096
    BY <1>3 DEF LegalResidual, ResidualFieldsPass, DimensionsInRange
  <2>3. InRange(l.height, l.width, l.out_channels, 1)
    BY <1>1, <2>2, RangeOf
  <2> QED
    BY <2>1, <2>3 DEF FitsResidual, n
<1> QED
  BY <1>6, <1>7, <1>8 DEF r

LEMMA GapFits ==
  ASSUME NEW l \in LayerRecords, ~NoElement(l, l.in_channels)
  PROVE  Legal(GapRegisters(l)) <=> FitsGap(l)
<1> DEFINE r == GapRegisters(l)
           n == l.height * l.width * l.in_channels
<1>1. /\ l.height \in Nat /\ l.width \in Nat /\ l.in_channels \in Nat /\ l.shift \in Nat
      /\ l.height >= 1 /\ l.width >= 1 /\ l.in_channels >= 1
  BY LayerFields DEF NoElement
<1>2. n \in Nat /\ n >= 1
  BY <1>1, Product3
<1>3. /\ r.op = OP_GLOBAL_AVG_POOL /\ r.h = l.height /\ r.w = l.width
      /\ r.ic = l.in_channels /\ r.oc = l.in_channels
      /\ r.kernel = 0 /\ r.stride = 0 /\ r.padding = 0 /\ r.relu = 0 /\ r.reserved = 0
      /\ r.shift = l.shift
      /\ r.bytes = Packed(0, 0, U32(n), 0) /\ r.output = l.in_channels
  BY DEF GapRegisters, ZeroRegisters
<1>4. /\ r.bytes["WEIGHT"] = 0 /\ r.bytes["BIAS"] = 0
      /\ r.bytes["INPUT"] = U32(n) /\ r.bytes["SKIP"] = 0
  BY <1>3, PackedBytes
<1>5. InputBytes(r) = n
  BY <1>3 DEF InputBytes
<1> HIDE DEF r, n
<1>6. Legal(r) <=> LegalGap(r)
  BY <1>3, Ops DEF Legal
<1>7. FitsGap(l) => LegalGap(r)
  <2> SUFFICES ASSUME FitsGap(l) PROVE LegalGap(r)
    OBVIOUS
  <2>1. n <= INPUT_CAP_BYTES /\ Holds(n, INPUT_CAP_BYTES) /\ Holds(l.in_channels, OUTPUT_CAP_BYTES)
    BY DEF FitsGap, Holds, n
  <2>2. U32(n) = n
    BY <1>2, <2>1, NotCut
  <2>3. l.height <= 16384 /\ l.width <= 16384 /\ l.in_channels <= 127 /\ l.shift <= 31
    BY <1>1, RangeOf DEF FitsGap
  <2>4. DimensionsInRange(r)
    BY <1>1, <1>3, <2>3 DEF DimensionsInRange
  <2>5. U32(n) # 0 /\ l.in_channels # 0
    BY <1>1, <1>2, <2>2
  <2>6. \A p \in {"WEIGHT", "BIAS", "SKIP"} : r.bytes[p] = 0
    BY <1>4
  <2>7. GapFieldsPass(r)
    BY <1>3, <1>4, <2>3, <2>4, <2>5, <2>6 DEF GapFieldsPass
  <2> QED
    BY <1>3, <1>4, <1>5, <2>1, <2>2, <2>7 DEF LegalGap
<1>8. LegalGap(r) => FitsGap(l)
  <2> SUFFICES ASSUME LegalGap(r) PROVE FitsGap(l)
    OBVIOUS
  <2>1. Holds(n, INPUT_CAP_BYTES) /\ Holds(l.in_channels, OUTPUT_CAP_BYTES)
    BY <1>3, <1>5 DEF LegalGap
  <2>2. l.height <= 16384 /\ l.width <= 16384 /\ l.in_channels <= 127 /\ l.shift <= 31
    BY <1>3 DEF LegalGap, GapFieldsPass, DimensionsInRange
  <2>3. InRange(l.height, l.width, l.in_channels, 1)
    BY <1>1, <2>2, RangeOf
  <2> QED
    BY <2>1, <2>2, <2>3 DEF FitsGap, n
<1> QED
  BY <1>6, <1>7, <1>8 DEF r

-----------------------------------------------------------------------------
(* Where the kernel fits, a division that truncates is one that floors.      *)
LEMMA SidesAreDims ==
  ASSUME NEW l \in LayerRecords, NEW n \in Nat, NEW side \in Sides(n, l),
         l.stride >= 1, n + 2 * l.padding >= l.kernel
  PROVE  side = (n + 2 * l.padding - l.kernel) \div l.stride + 1
<1>1. l.kernel \in Nat /\ l.stride \in Nat /\ l.padding \in Nat
  BY LayerFields
<1>2. n + 2 * l.padding - l.kernel >= 0 /\ l.stride # 0
  BY <1>1
<1>3. Quotients(n + 2 * l.padding - l.kernel, l.stride) = {(n + 2 * l.padding - l.kernel) \div l.stride}
  BY <1>2 DEF Quotients
<1> QED
  BY <1>3 DEF Sides

LEMMA ConvFits ==
  ASSUME NEW l \in LayerRecords, NEW out_h \in Sides(l.height, l), NEW out_w \in Sides(l.width, l)
  PROVE  LegalConv(ConvRegisters(l, out_h, out_w)) <=> FitsConv(l)
<1> DEFINE r == ConvRegisters(l, out_h, out_w)
           n == l.height * l.width * l.in_channels
           m == l.kernel * l.kernel * (l.in_channels * l.out_channels)
           side(k) == (k + 2 * l.padding - l.kernel) \div l.stride + 1
           area == side(l.height) * side(l.width)
<1>1. /\ l.height \in Nat /\ l.width \in Nat /\ l.in_channels \in Nat /\ l.out_channels \in Nat
      /\ l.kernel \in Nat /\ l.stride \in Nat /\ l.padding \in Nat /\ l.shift \in Nat
  BY LayerFields
<1>2. /\ r.h = l.height /\ r.w = l.width /\ r.ic = l.in_channels /\ r.oc = l.out_channels
      /\ r.kernel = l.kernel /\ r.stride = l.stride /\ r.padding = l.padding /\ r.reserved = 0
      /\ r.shift = l.shift
      /\ r.bytes = Packed(U32(m), U32(4 * l.out_channels), U32(n), 0)
      /\ r.output = U32(out_h * out_w * l.out_channels)
  BY DEF ConvRegisters, ZeroRegisters
<1>3. /\ r.bytes["WEIGHT"] = U32(m) /\ r.bytes["BIAS"] = U32(4 * l.out_channels)
      /\ r.bytes["INPUT"] = U32(n) /\ r.bytes["SKIP"] = 0
  BY <1>2, PackedBytes
<1>4. InputBytes(r) = n /\ OutputArea(r) = area
  BY <1>2 DEF InputBytes, OutputArea, OutputDim
<1>5. KernelFits(r) <=> l.height + 2 * l.padding >= l.kernel /\ l.width + 2 * l.padding >= l.kernel
  BY <1>2 DEF KernelFits
<1>6. r.kernel * r.kernel * (r.ic * r.oc) = m
  BY <1>2
<1>7. n \in Nat /\ m \in Nat /\ 4 * l.out_channels \in Nat
  <2>1. n \in Nat
    BY <1>1, Product3
  <2>2. l.kernel * l.kernel \in Nat /\ l.in_channels * l.out_channels \in Nat
    BY <1>1, ProductGrows
  <2>3. m \in Nat
    BY <2>2, ProductGrows
  <2> QED
    BY <1>1, <2>1, <2>3
<1>8. ASSUME l.stride \in {1, 2}, KernelFits(r)
      PROVE  /\ out_h * out_w * l.out_channels = area * l.out_channels
             /\ area * l.out_channels \in Nat
  <2>1. out_h = side(l.height) /\ out_w = side(l.width)
    BY <1>1, <1>5, <1>8, SidesAreDims
  <2>2. side(l.height) \in Nat /\ side(l.width) \in Nat
    <3> HIDE DEF r
    <3>1. l.height + 2 * l.padding - l.kernel \in Nat /\ l.width + 2 * l.padding - l.kernel \in Nat
      BY <1>1, <1>5, <1>8
    <3>2. \A k \in Nat : k \div l.stride \in Nat
      BY <1>8
    <3> QED
      BY <3>1, <3>2
  <2>3. area \in Nat
    BY <2>2, ProductGrows
  <2> QED
    BY <1>1, <2>1, <2>3, ProductGrows
<1>9. FitsConv(l) <=>
        /\ InRange(l.height, l.width, l.in_channels, l.out_channels)
        /\ l.kernel \in {1, 3} /\ l.stride \in {1, 2} /\ l.padding \in {0, 1} /\ l.shift <= 31
        /\ KernelFits(r)
        /\ Holds(m, WEIGHT_CAP_BYTES) /\ Holds(4 * l.out_channels, BIAS_CAP_BYTES)
        /\ Holds(n, INPUT_CAP_BYTES) /\ Holds(area * l.out_channels, OUTPUT_CAP_BYTES)
  BY <1>5 DEF FitsConv
<1>10. DimensionsInRange(r) /\ r.oc <= 64 <=> InRange(l.height, l.width, l.in_channels, l.out_channels)
  <2>1. DimensionsInRange(r) /\ r.oc <= 64 <=>
          /\ l.height # 0 /\ l.width # 0 /\ l.in_channels # 0 /\ l.out_channels # 0
          /\ l.height <= 16384 /\ l.width <= 16384 /\ l.in_channels <= 4096 /\ l.out_channels <= 64
    BY <1>2 DEF DimensionsInRange
  <2> HIDE DEF r
  <2> QED
    BY <1>1, <2>1, RangeOf
<1> HIDE DEF r, n, m, area, side
<1>11. FitsConv(l) => LegalConv(r)
  <2> SUFFICES ASSUME FitsConv(l) PROVE LegalConv(r)
    OBVIOUS
  <2>1. /\ m <= WEIGHT_CAP_BYTES /\ 4 * l.out_channels <= BIAS_CAP_BYTES /\ n <= INPUT_CAP_BYTES
        /\ area * l.out_channels <= OUTPUT_CAP_BYTES /\ area * l.out_channels \in Nat
        /\ out_h * out_w * l.out_channels = area * l.out_channels
    BY <1>8, <1>9 DEF Holds
  <2>2. /\ U32(m) = m /\ U32(4 * l.out_channels) = 4 * l.out_channels /\ U32(n) = n
        /\ U32(out_h * out_w * l.out_channels) = area * l.out_channels
    BY <1>7, <2>1, NotCut
  <2> QED
    BY <1>2, <1>3, <1>4, <1>6, <1>9, <1>10, <2>2 DEF LegalConv
<1>12. LegalConv(r) => FitsConv(l)
  <2> SUFFICES ASSUME LegalConv(r) PROVE FitsConv(l)
    OBVIOUS
  <2>1. /\ DimensionsInRange(r) /\ r.oc <= 64 /\ KernelFits(r)
        /\ l.kernel \in {1, 3} /\ l.stride \in {1, 2} /\ l.padding \in {0, 1} /\ l.shift <= 31
    BY <1>2 DEF LegalConv
  <2>2. /\ Holds(m, WEIGHT_CAP_BYTES) /\ Holds(4 * l.out_channels, BIAS_CAP_BYTES)
        /\ Holds(n, INPUT_CAP_BYTES) /\ Holds(area * l.out_channels, OUTPUT_CAP_BYTES)
    BY <1>2, <1>4, <1>6 DEF LegalConv
  <2> QED
    BY <1>9, <1>10, <2>1, <2>2
<1> QED
  BY <1>11, <1>12 DEF r

(* A linear layer is a convolution of one pixel.                             *)
LEMMA FcFits ==
  ASSUME NEW l \in LayerRecords, l.op = OP_FC
  PROVE  ConvLayer(l) \in LayerRecords /\ (FitsConv(ConvLayer(l)) <=> FitsFc(l))
<1> DEFINE c == ConvLayer(l)
<1>1. c = [l EXCEPT !.height = 1, !.width = 1, !.kernel = 1, !.stride = 1, !.padding = 0]
  BY DEF ConvLayer
<1>2. c \in LayerRecords
  <2>1. 0 \in Byte /\ 1 \in Byte /\ 1 \in HalfWord
    BY DEF HalfWord, Byte
  <2> QED
    BY <1>1, <2>1 DEF LayerRecords
<1>3. /\ c.height = 1 /\ c.width = 1 /\ c.kernel = 1 /\ c.stride = 1 /\ c.padding = 0
      /\ c.in_channels = l.in_channels /\ c.out_channels = l.out_channels /\ c.shift = l.shift
  BY <1>1 DEF LayerRecords
<1>4. l.in_channels \in Nat /\ l.out_channels \in Nat /\ l.shift \in Nat
  BY LayerFields
<1>5. InRange(1, 1, l.in_channels, l.out_channels) <=> l.in_channels \in 1..4096 /\ l.out_channels \in 1..64
  BY DEF InRange
<1>6. l.in_channels * l.out_channels \in Nat
  BY <1>4, ProductGrows
<1>7. /\ 1 * 1 * (l.in_channels * l.out_channels) = l.in_channels * l.out_channels
      /\ 1 * 1 * l.in_channels = l.in_channels
      /\ ((1 + 2 * 0 - 1) \div 1 + 1) * ((1 + 2 * 0 - 1) \div 1 + 1) * l.out_channels = l.out_channels
      /\ 1 + 2 * 0 >= 1
  BY <1>4, <1>6
<1>8. FitsConv(c) <=>
        /\ InRange(1, 1, l.in_channels, l.out_channels) /\ l.shift <= 31
        /\ Holds(1 * 1 * (l.in_channels * l.out_channels), WEIGHT_CAP_BYTES)
        /\ Holds(4 * l.out_channels, BIAS_CAP_BYTES)
        /\ Holds(1 * 1 * l.in_channels, INPUT_CAP_BYTES)
        /\ Holds(((1 + 2 * 0 - 1) \div 1 + 1) * ((1 + 2 * 0 - 1) \div 1 + 1) * l.out_channels, OUTPUT_CAP_BYTES)
  BY <1>3, <1>7 DEF FitsConv
<1> QED
  BY <1>2, <1>5, <1>7, <1>8 DEF FitsFc


(* What accel_configure writes is accepted exactly if the layer fits.        *)
LEMMA WrittenIsDescribed ==
  ASSUME NEW l \in LayerRecords, NEW r \in Written(l)
  PROVE  Legal(r) <=> Fits(l)
<1>1. /\ OP_FC # OP_CONV /\ OP_FC # OP_RESIDUAL_ADD /\ OP_FC # OP_GLOBAL_AVG_POOL /\ OP_POOL # OP_FC
      /\ OP_POOL # OP_CONV /\ OP_POOL # OP_RESIDUAL_ADD /\ OP_POOL # OP_GLOBAL_AVG_POOL
      /\ l.op \in {OP_CONV, OP_RESIDUAL_ADD, OP_GLOBAL_AVG_POOL, OP_FC, OP_POOL}
  BY LayerOps, LayerFields DEF Operations
<1>2. CASE l.op = OP_RESIDUAL_ADD
  <2>1. ~NoElement(l, l.out_channels) /\ r = ResidualRegisters(l)
    BY <1>1, <1>2, Ops DEF Written
  <2>2. Fits(l) <=> FitsResidual(l)
    BY <1>1, <1>2, Ops DEF Fits
  <2> QED
    BY <2>1, <2>2, ResidualFits
<1>3. CASE l.op = OP_GLOBAL_AVG_POOL
  <2>1. ~NoElement(l, l.in_channels) /\ r = GapRegisters(l)
    BY <1>1, <1>3, Ops DEF Written
  <2>2. Fits(l) <=> FitsGap(l)
    BY <1>1, <1>3, Ops DEF Fits
  <2> QED
    BY <2>1, <2>2, GapFits
<1>4. CASE l.op \in {OP_CONV, OP_FC}
  <2>1. PICK size \in OutputSizes(l) : r = ConvRegisters(ConvLayer(l), size[1], size[2])
    BY <1>1, <1>4, Ops DEF Written
  <2>2. size[1] \in Sides(ConvLayer(l).height, ConvLayer(l)) /\ size[2] \in Sides(ConvLayer(l).width, ConvLayer(l))
    BY DEF OutputSizes
  <2>3. Legal(r) <=> LegalConv(r)
    BY <2>1, Ops DEF Legal, ConvRegisters, ZeroRegisters
  <2>4. ConvLayer(l) \in LayerRecords
    BY FcFits DEF ConvLayer
  <2>5. LegalConv(r) <=> FitsConv(ConvLayer(l))
    BY <2>1, <2>2, <2>4, ConvFits
  <2>6. FitsConv(ConvLayer(l)) <=> Fits(l)
    BY <1>1, <1>4, Ops, FcFits DEF Fits, ConvLayer
  <2> QED
    BY <2>3, <2>5, <2>6
<1>5. CASE l.op = OP_POOL
  BY <1>1, <1>5 DEF Written
<1> QED
  BY <1>1, <1>2, <1>3, <1>4, <1>5

(* No layer that fits is refused.                                            *)
LEMMA RefusedDoesNotFit ==
  ASSUME NEW l \in LayerRecords, Refuses(l)
  PROVE  ~Fits(l)
<1> SUFFICES ASSUME Fits(l) PROVE FALSE
  OBVIOUS
<1>1. /\ OP_FC # OP_CONV /\ OP_FC # OP_RESIDUAL_ADD /\ OP_FC # OP_GLOBAL_AVG_POOL /\ OP_POOL # OP_FC
      /\ OP_POOL # OP_CONV /\ OP_POOL # OP_RESIDUAL_ADD /\ OP_POOL # OP_GLOBAL_AVG_POOL
  BY LayerOps DEF Operations
<1>2. /\ l.height \in Nat /\ l.width \in Nat /\ l.in_channels \in Nat /\ l.out_channels \in Nat
  BY LayerFields
<1>3. CASE l.op = OP_RESIDUAL_ADD
  <2>1. NoElement(l, l.out_channels) /\ InRange(l.height, l.width, l.out_channels, 1)
    BY <1>1, <1>3, Ops DEF Fits, Refuses, FitsResidual
  <2> QED
    BY <1>2, <2>1, RangeOf DEF NoElement
<1>4. CASE l.op = OP_GLOBAL_AVG_POOL
  <2>1. NoElement(l, l.in_channels) /\ InRange(l.height, l.width, l.in_channels, 1)
    BY <1>1, <1>4, Ops DEF Fits, Refuses, FitsGap
  <2> QED
    BY <1>2, <2>1, RangeOf DEF NoElement
<1>5. CASE l.op \in {OP_CONV, OP_FC}
  <2> DEFINE c == ConvLayer(l)
  <2>1. c \in LayerRecords /\ FitsConv(c)
    BY <1>1, <1>5, Ops, FcFits DEF Fits, ConvLayer
  <2>2. PICK size \in OutputSizes(l) : ~Positive(size)
    BY <1>1, <1>5, Ops DEF Refuses
  <2>3. size[1] \in Sides(c.height, c) /\ size[2] \in Sides(c.width, c)
    BY DEF OutputSizes
  <2> HIDE DEF c
  <2>4. /\ c.height \in Nat /\ c.width \in Nat /\ c.kernel \in Nat /\ c.stride \in {1, 2} /\ c.padding \in Nat
        /\ c.height + 2 * c.padding >= c.kernel /\ c.width + 2 * c.padding >= c.kernel
    BY <2>1, LayerFields DEF FitsConv
  <2>5. /\ size[1] = (c.height + 2 * c.padding - c.kernel) \div c.stride + 1
        /\ size[2] = (c.width + 2 * c.padding - c.kernel) \div c.stride + 1
    BY <2>1, <2>3, <2>4, SidesAreDims
  <2>6. c.height + 2 * c.padding - c.kernel \in Nat /\ c.width + 2 * c.padding - c.kernel \in Nat
    BY <2>4
  <2>7. \A k \in Nat : k \div c.stride \in Nat
    BY <2>4
  <2>8. size[1] > 0 /\ size[2] > 0
    BY <2>5, <2>6, <2>7
  <2> QED
    BY <2>2, <2>8 DEF Positive
<1> QED
  BY <1>1, <1>3, <1>4, <1>5 DEF Fits

-----------------------------------------------------------------------------
(* The invariant: what is being validated was written for this layer.        *)
ConfigureInv ==
  /\ VInv
  /\ layer \in Layers
  /\ rc # "ACCEL_OK" => validator = "VAL_IDLE"
  /\ rc = "ACCEL_OK" => pending \in Written(layer)
  /\ rc = "ACCEL_INVALID_ARG" => Refuses(layer)
  /\ rc = "trapped" => layer.op = OP_CONV /\ layer.stride = 0

LEMMA ConfigureInvInit == ConfigureInit => ConfigureInv
<1> SUFFICES ASSUME ConfigureInit PROVE ConfigureInv
  OBVIOUS
<1>1. VInit /\ layer \in Layers /\ rc = "none" /\ validator = "VAL_IDLE"
  BY DEF ConfigureInit, VInit
<1> QED
  BY <1>1, InvInit DEF ConfigureInv

LEMMA ConfigureInvStep ==
  ASSUME ConfigureInv, [ConfigureNext]_configureVars
  PROVE  ConfigureInv'
<1>1. VInv
  BY DEF ConfigureInv
<1>2. VInv'
  <2>1. [VNext]_vvars
    BY DEF ConfigureNext, Configure, Refuse, Trap, Validate, Returned, VNext, configureVars
  <2> QED
    BY <1>1, <2>1, InvStep
<1>3. CASE Configure
  <2>1. rc' = "ACCEL_OK" /\ layer' = layer
    BY <1>3 DEF Configure
  <2>2. pending' \in Written(layer)
    BY <1>3 DEF Configure
  <2> QED
    BY <1>2, <2>1, <2>2 DEF ConfigureInv
<1>4. CASE Refuse
  <2>1. rc' = "ACCEL_INVALID_ARG" /\ layer' = layer /\ validator' = validator /\ rc = "none" /\ Refuses(layer)
    BY <1>4 DEF Refuse, vvars
  <2> QED
    BY <1>2, <2>1 DEF ConfigureInv
<1>5. CASE Trap
  <2>1. /\ rc' = "trapped" /\ layer' = layer /\ validator' = validator /\ rc = "none"
        /\ layer.op = OP_CONV /\ layer.stride = 0
    BY <1>5 DEF Trap, vvars
  <2> QED
    BY <1>2, <2>1 DEF ConfigureInv
<1>6. CASE Validate
  <2>1. layer' = layer /\ rc' = rc /\ pending' = pending /\ validator # "VAL_IDLE"
    BY <1>6 DEF Validate, ValidatorEdge, CheckFields, CheckDims, MultiplyLoad, MultiplyStep,
      MultiplyFinish, CompareBytes, Judge, Conclude, MultiplyStages
  <2> QED
    BY <1>2, <2>1 DEF ConfigureInv
<1>7. CASE UNCHANGED configureVars
  <2>1. layer' = layer /\ rc' = rc /\ pending' = pending /\ validator' = validator
    BY <1>7 DEF configureVars, vvars
  <2> QED
    BY <1>2, <2>1 DEF ConfigureInv
<1> QED
  BY <1>3, <1>4, <1>5, <1>6, <1>7 DEF ConfigureNext, Returned

(* The two checks together accept a descriptor exactly if its tensors fit.   *)
LEMMA InvAccepts == ConfigureInv => AcceptsWhatFits
<1> SUFFICES ASSUME ConfigureInv PROVE AcceptsWhatFits
  OBVIOUS
<1>1. layer \in LayerRecords /\ VerdictIsLegality
  BY LayersAssumption DEF ConfigureInv, VInv
<1>2. ASSUME validator # "VAL_IDLE" PROVE Legal(pending) <=> Fits(layer)
  BY <1>1, <1>2, WrittenIsDescribed DEF ConfigureInv
<1>3. ASSUME rc = "trapped" PROVE ~Fits(layer)
  <2>1. layer.op = OP_CONV /\ layer.stride = 0
    BY <1>3 DEF ConfigureInv
  <2>2. OP_FC # OP_CONV
    BY LayerOps DEF Operations
  <2> QED
    BY <2>1, <2>2, Ops DEF Fits, FitsConv
<1>4. rc = "ACCEL_INVALID_ARG" => ~Fits(layer)
  BY <1>1, RefusedDoesNotFit DEF ConfigureInv
<1> QED
  BY <1>1, <1>2, <1>3, <1>4 DEF AcceptsWhatFits, VerdictIsLegality

(* Whatever the sizes of the buffers, the width of the products and the       *)
(* result of a division by zero: no wrapped product and no truncated         *)
(* quotient of accel_configure gets past the validator, and no layer that     *)
(* fits is turned down.                                                      *)
THEOREM DescriptorsAcceptedExactly == ConfigureSpec => []AcceptsWhatFits
<1>1. ConfigureInit => ConfigureInv
  BY ConfigureInvInit
<1>2. ConfigureInv /\ [ConfigureNext]_configureVars => ConfigureInv'
  BY ConfigureInvStep
<1>3. ConfigureInv => AcceptsWhatFits
  BY InvAccepts
<1> QED
  BY <1>1, <1>2, <1>3, PTL DEF ConfigureSpec
==============================================================================

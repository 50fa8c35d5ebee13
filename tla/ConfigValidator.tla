-------------------------- MODULE ConfigValidator --------------------------
(***************************************************************************)
(* The configuration validator of controller_fsm.sv with its arithmetic.     *)
(* ControllerFsm takes from a configuration the stage that turns it down     *)
(* (rejectAt); here the registers have values, and that stage is computed.   *)
(***************************************************************************)
EXTENDS AccelPkg

CONSTANTS
  MAX_WEIGHT_WORDS, MAX_BIAS_WORDS, MAX_INPUT_WORDS, MAX_OUTPUT_WORDS,
  Registers,     \* the values the host may write
  MaxStarts      \* bound: how often it writes START

(* Registers of 32 bits: they are only compared with smaller numbers and cut *)
(* to fewer bits, so the upper end does not matter.                          *)
Word == Nat
HalfWord == 0..65535
Byte == 0..255
Bits15 == 0..32767
Bits13 == 0..8191
Bits7 == 0..127

(* CONV_CONFIG is kernel, stride, padding, relu and seven reserved bits;     *)
(* OUTPUT_SCALE is multiplier and shift.                                     *)
RegisterRecords ==
  [op : Operations \cup {OP_OTHER}, h : Word, w : Word, ic : Word, oc : Word,
   kernel : Byte, stride : Byte, padding : Byte, relu : 0..1, reserved : Bits7,
   multiplier : HalfWord, shift : HalfWord, bytes : [Packets -> Word], output : Word]

WEIGHT_CAP_BYTES == MAX_WEIGHT_WORDS * 4
BIAS_CAP_BYTES == MAX_BIAS_WORDS * 4
INPUT_CAP_BYTES == MAX_INPUT_WORDS * 4
OUTPUT_CAP_BYTES == MAX_OUTPUT_WORDS * 4

(* The calculated byte counts have 16, 15 and 15 bits.                       *)
ASSUME SizesAssumption ==
  /\ MAX_WEIGHT_WORDS \in 1..16383 /\ MAX_BIAS_WORDS \in Nat \ {0}
  /\ MAX_INPUT_WORDS \in 1..8191 /\ MAX_OUTPUT_WORDS \in 1..8191
  /\ Registers \subseteq RegisterRecords
  /\ MaxStarts \in Nat

-----------------------------------------------------------------------------
(* The shift-and-add multiplier: one bit of the multiplier per cycle, and a  *)
(* limit instead of a wider accumulator.  Nothing ever exceeds the limit by  *)
(* more than one, so 32 bits suffice.                                        *)

VARIABLES
  mul_running, mul_accumulator, mul_multiplicand, mul_multiplier, mul_limit,
  mul_over_limit

operandVars == << mul_accumulator, mul_multiplicand, mul_multiplier, mul_limit, mul_over_limit >>
multiplierVars == << mul_running, operandVars >>

MultiplierTypeOK ==
  /\ mul_running \in BOOLEAN /\ mul_over_limit \in BOOLEAN
  /\ mul_accumulator \in Nat /\ mul_multiplicand \in Nat
  /\ mul_multiplier \in Nat /\ mul_limit \in Nat

MultiplierInit ==
  /\ mul_running = FALSE /\ mul_over_limit = FALSE
  /\ mul_accumulator = 0 /\ mul_multiplicand = 0
  /\ mul_multiplier = 0 /\ mul_limit = 0

Adds == mul_multiplier % 2 = 1 /\ ~mul_over_limit

Exceeds ==
  \/ mul_multiplicand > mul_limit
  \/ mul_accumulator > mul_limit - mul_multiplicand

OverLimitNext == mul_over_limit \/ (Adds /\ Exceeds)

AccumulatorNext ==
  IF Adds /\ ~Exceeds THEN mul_accumulator + mul_multiplicand ELSE mul_accumulator

(* A multiplicand that would pass the limit is replaced by one that does.    *)
MultiplicandNext ==
  IF mul_multiplicand > mul_limit \div 2 THEN mul_limit + 1 ELSE 2 * mul_multiplicand

Load(x, y, limit) ==
  /\ mul_running' = TRUE
  /\ mul_accumulator' = 0 /\ mul_multiplicand' = x
  /\ mul_multiplier' = y /\ mul_limit' = limit
  /\ mul_over_limit' = FALSE

LastBit == mul_multiplier <= 1

(* Mutant: no more shifts once the limit is passed.                          *)
MultiplierNext_Stalls ==
  IF OverLimitNext THEN mul_multiplier ELSE mul_multiplier \div 2

MultiplierNext == mul_multiplier \div 2

Step ==
  /\ mul_running /\ ~LastBit
  /\ mul_accumulator' = AccumulatorNext
  /\ mul_multiplicand' = MultiplicandNext
  /\ mul_multiplier' = MultiplierNext
  /\ mul_over_limit' = OverLimitNext
  /\ UNCHANGED << mul_running, mul_limit >>

-----------------------------------------------------------------------------
(* The validator around it.                                                  *)

VARIABLES
  starts,
  pending,            \* the registers, as they were at the START
  validator, reject_operation,
  validated,          \* dimensions that passed the field checks
  calculated          \* byte counts

vvars == << starts, pending, validator, reject_operation, validated, calculated, multiplierVars >>

Dimensions ==
  [h : Bits15, w : Bits15, ic : Bits13, oc : Bits7, oh : Bits15, ow : Bits15]
ByteCounts == [weight : HalfWord, bias : 0..511, input : Bits15, output : Bits15]

ValidatorTypeOK ==
  /\ starts \in 0..MaxStarts
  /\ pending \in RegisterRecords
  /\ validator \in ValidatorStates
  /\ reject_operation \in BOOLEAN
  /\ validated \in Dimensions
  /\ calculated \in ByteCounts
  /\ MultiplierTypeOK

ZeroRegisters ==
  [op |-> OP_CONV, h |-> 0, w |-> 0, ic |-> 0, oc |-> 0, kernel |-> 0, stride |-> 0,
   padding |-> 0, relu |-> 0, reserved |-> 0, multiplier |-> 0, shift |-> 0,
   bytes |-> [p \in Packets |-> 0], output |-> 0]

VInit ==
  /\ starts = 0
  /\ pending = ZeroRegisters
  /\ validator = "VAL_IDLE" /\ reject_operation = FALSE
  /\ validated = [h |-> 0, w |-> 0, ic |-> 0, oc |-> 0, oh |-> 0, ow |-> 0]
  /\ calculated = [weight |-> 0, bias |-> 0, input |-> 0, output |-> 0]
  /\ MultiplierInit

-----------------------------------------------------------------------------
(* Combinational logic.                                                      *)

(* The lower bits of a number.                                               *)
Low7(n) == n % 128
Low13(n) == n % 8192
Low15(n) == n % 32768
Low16(n) == n % 65536

WeightChannelLimit(c) == IF c.kernel = 1 THEN WEIGHT_CAP_BYTES ELSE WEIGHT_CAP_BYTES \div 9

Padded(n, c) == Low15(n) + (IF c.padding % 2 = 1 THEN 2 ELSE 0)

(* In 16 bits.                                                               *)
OutputWide(n, c) ==
  IF c.stride = 2 THEN Low16(Padded(n, c) - c.kernel) \div 2 + 1
                  ELSE Low16(Padded(n, c) - c.kernel + 1)

-----------------------------------------------------------------------------
(* VAL_FIELDS: every test of a single register.                              *)

DimensionsInRange(c) ==
  /\ c.h # 0 /\ c.w # 0 /\ c.ic # 0 /\ c.oc # 0
  /\ c.h <= 16384 /\ c.w <= 16384 /\ c.ic <= 4096

GapFieldsPass(c) ==
  /\ DimensionsInRange(c)
  /\ c.oc <= 127 /\ c.ic = c.oc
  /\ << c.kernel, c.stride, c.padding, c.relu, c.reserved >> = << 0, 0, 0, 0, 0 >>
  /\ c.shift <= 31
  /\ \A p \in {"WEIGHT", "BIAS", "SKIP"} : c.bytes[p] = 0
  /\ c.bytes["INPUT"] # 0 /\ c.output # 0

ResidualFieldsPass(c) ==
  /\ DimensionsInRange(c)
  /\ c.oc <= 4096 /\ c.ic = c.oc
  /\ << c.kernel, c.stride, c.padding, c.reserved >> = << 0, 0, 0, 0 >>
  /\ c.multiplier = 0 /\ c.shift = 0
  /\ c.bytes["WEIGHT"] = 0 /\ c.bytes["BIAS"] = 0
  /\ c.bytes["INPUT"] # 0 /\ c.bytes["SKIP"] # 0 /\ c.output # 0

ConvFieldsPass(c) ==
  /\ DimensionsInRange(c)
  /\ c.oc <= 64 /\ c.oc <= MAX_BIAS_WORDS
  /\ c.h <= INPUT_CAP_BYTES /\ c.w <= INPUT_CAP_BYTES
  /\ c.ic <= WeightChannelLimit(c)
  /\ c.kernel \in {1, 3} /\ c.stride \in {1, 2} /\ c.padding \in {0, 1}
  /\ c.reserved = 0 /\ c.shift <= 31
  /\ c.bytes["SKIP"] = 0

FieldsPass(c) ==
  \/ c.op = OP_CONV /\ ConvFieldsPass(c)
  \/ c.op = OP_RESIDUAL_ADD /\ ResidualFieldsPass(c)
  \/ c.op = OP_GLOBAL_AVG_POOL /\ GapFieldsPass(c)

(* Mutant: height and width are exchanged, which no product shows.           *)
ValidatedFields_Transposed(c) ==
  [validated EXCEPT
    !.h = Low15(c.w), !.w = Low15(c.h), !.ic = Low13(c.ic), !.oc = Low7(c.oc),
    !.oh = IF c.op = OP_CONV THEN @ ELSE Low15(c.h),
    !.ow = IF c.op = OP_CONV THEN @ ELSE Low15(c.w)]

(* The registers are cut to the widths of the validated dimensions, where a  *)
(* residual addition may lose output channels, which it does not use; the    *)
(* output dimensions of a convolution come from VAL_DIMS.                    *)
ValidatedFields(c) ==
  [validated EXCEPT
    !.h = Low15(c.h), !.w = Low15(c.w), !.ic = Low13(c.ic), !.oc = Low7(c.oc),
    !.oh = IF c.op = OP_CONV THEN @ ELSE Low15(c.h),
    !.ow = IF c.op = OP_CONV THEN @ ELSE Low15(c.w)]

CheckFields ==
  /\ validator = "VAL_FIELDS"
  /\ reject_operation' = (pending.op = OP_OTHER)
  /\ IF FieldsPass(pending)
     THEN /\ validator' = IF pending.op = OP_CONV THEN "VAL_DIMS" ELSE "VAL_INPUT_AREA"
          /\ validated' = ValidatedFields(pending)
          /\ mul_running' = (pending.op = OP_CONV /\ mul_running)
     ELSE validator' = "VAL_REJECT" /\ UNCHANGED << validated, mul_running >>
  /\ UNCHANGED << starts, pending, calculated, operandVars >>

(* Mutant: the height is not tested.                                         *)
DimsPass_Width(c) == Padded(c.w, c) >= c.kernel /\ OutputWide(c.w, c) < 32768

DimsPass(c) ==
  \A n \in {c.h, c.w} : Padded(n, c) >= c.kernel /\ OutputWide(n, c) < 32768

(* Mutant: height and width of the output are exchanged.                     *)
CheckDims_Exchanged ==
  /\ validator = "VAL_DIMS" /\ mul_running' = FALSE
  /\ validator' = IF DimsPass(pending) THEN "VAL_INPUT_AREA" ELSE "VAL_REJECT"
  /\ validated' = [validated EXCEPT !.oh = Low15(OutputWide(pending.w, pending)),
                                    !.ow = Low15(OutputWide(pending.h, pending))]
  /\ UNCHANGED << starts, pending, reject_operation, calculated, operandVars >>

CheckDims ==
  /\ validator = "VAL_DIMS"
  /\ IF DimsPass(pending)
     THEN /\ validator' = "VAL_INPUT_AREA"
          /\ validated' = [validated EXCEPT !.oh = Low15(OutputWide(pending.h, pending)),
                                            !.ow = Low15(OutputWide(pending.w, pending))]
          /\ mul_running' = FALSE
     ELSE validator' = "VAL_REJECT" /\ UNCHANGED << validated, mul_running >>
  /\ UNCHANGED << starts, pending, reject_operation, calculated, operandVars >>

-----------------------------------------------------------------------------
(* The products.                                                             *)

LoadFactors ==
  CASE validator = "VAL_INPUT_AREA" -> Load(validated.h, validated.w, INPUT_CAP_BYTES)
    [] validator = "VAL_INPUT_CHANNELS" -> Load(mul_accumulator, validated.ic, INPUT_CAP_BYTES)
    [] validator = "VAL_WEIGHT_CHANNELS" ->
         Load(validated.ic, validated.oc, WeightChannelLimit(pending))
    [] validator = "VAL_OUTPUT_AREA" -> Load(validated.oh, validated.ow, OUTPUT_CAP_BYTES)
    [] OTHER -> Load(mul_accumulator, validated.oc, OUTPUT_CAP_BYTES)

MultiplyLoad ==
  /\ validator \in MultiplyStages /\ ~mul_running
  /\ LoadFactors
  /\ UNCHANGED << starts, pending, validator, reject_operation, validated, calculated >>

MultiplyStep ==
  /\ validator \in MultiplyStages
  /\ Step
  /\ UNCHANGED << starts, pending, validator, reject_operation, validated, calculated >>

AfterProduct ==
  CASE validator = "VAL_INPUT_AREA" -> "VAL_INPUT_CHANNELS"
    [] validator = "VAL_INPUT_CHANNELS" ->
         (CASE pending.op = OP_RESIDUAL_ADD -> "VAL_RESIDUAL_COMPARE"
            [] pending.op = OP_GLOBAL_AVG_POOL -> "VAL_GAP_COMPARE"
            [] OTHER -> "VAL_WEIGHT_CHANNELS")
    [] validator = "VAL_WEIGHT_CHANNELS" -> "VAL_OUTPUT_AREA"
    [] validator = "VAL_OUTPUT_AREA" -> "VAL_OUTPUT_CHANNELS"
    [] OTHER -> "VAL_COMPARE"

(* Mutant: as for a kernel of two.                                           *)
WeightBytes_Four == Low16(4 * AccumulatorNext)

(* Nine times the channels for a kernel of three.                            *)
WeightBytes ==
  LET n == Low16(AccumulatorNext)
  IN  IF pending.kernel = 1 THEN n ELSE Low16(n + Low16(8 * n))

(* Only an area is left in the accumulator, for the next product.            *)
Product ==
  CASE validator \in {"VAL_INPUT_AREA", "VAL_OUTPUT_AREA"} ->
         mul_accumulator' = AccumulatorNext /\ UNCHANGED calculated
    [] validator = "VAL_INPUT_CHANNELS" ->
         /\ calculated' = [calculated EXCEPT !.input = Low15(AccumulatorNext)]
         /\ UNCHANGED mul_accumulator
    [] validator = "VAL_WEIGHT_CHANNELS" ->
         /\ calculated' = [calculated EXCEPT !.weight = WeightBytes, !.bias = 4 * validated.oc]
         /\ UNCHANGED mul_accumulator
    [] OTHER ->
         /\ calculated' = [calculated EXCEPT !.output = Low15(AccumulatorNext)]
         /\ UNCHANGED mul_accumulator

MultiplyFinish ==
  /\ validator \in MultiplyStages /\ mul_running /\ LastBit
  /\ mul_running' = FALSE
  /\ IF OverLimitNext
     THEN validator' = "VAL_REJECT" /\ UNCHANGED << mul_accumulator, calculated >>
     ELSE validator' = AfterProduct /\ Product
  /\ UNCHANGED << starts, pending, reject_operation, validated,
                  mul_multiplicand, mul_multiplier, mul_limit, mul_over_limit >>

-----------------------------------------------------------------------------
(* The comparison of the calculated byte counts with the registers.          *)

ConvBytesPass(c) ==
  /\ c.bytes["WEIGHT"] = calculated.weight /\ c.bytes["BIAS"] = calculated.bias
  /\ c.bytes["INPUT"] = calculated.input /\ c.output = calculated.output
  /\ calculated.weight <= WEIGHT_CAP_BYTES /\ calculated.bias <= BIAS_CAP_BYTES
  /\ calculated.input <= INPUT_CAP_BYTES /\ calculated.output <= OUTPUT_CAP_BYTES
  /\ \A n \in {calculated.weight, calculated.bias, calculated.input, calculated.output} :
       n % 4 = 0

ResidualBytesPass(c) ==
  /\ \A n \in {c.bytes["INPUT"], c.bytes["SKIP"], c.output} : n = calculated.input
  /\ calculated.input <= INPUT_CAP_BYTES /\ calculated.input <= OUTPUT_CAP_BYTES
  /\ calculated.input % 4 = 0

GapBytesPass(c) ==
  /\ c.bytes["INPUT"] = calculated.input /\ c.output = validated.oc
  /\ calculated.input <= INPUT_CAP_BYTES /\ validated.oc <= OUTPUT_CAP_BYTES
  /\ calculated.input % 4 = 0 /\ validated.oc % 4 = 0

Judge(stage, pass, output) ==
  /\ validator = stage
  /\ validator' = IF pass THEN "VAL_ACCEPT" ELSE "VAL_REJECT"
  /\ calculated' = IF pass THEN [calculated EXCEPT !.output = output] ELSE calculated
  /\ UNCHANGED << starts, pending, reject_operation, validated, multiplierVars >>

CompareBytes ==
  \/ Judge("VAL_COMPARE", ConvBytesPass(pending), calculated.output)
  \/ Judge("VAL_RESIDUAL_COMPARE", ResidualBytesPass(pending), calculated.input)
  \/ Judge("VAL_GAP_COMPARE", GapBytesPass(pending), validated.oc)

-----------------------------------------------------------------------------
(* A START, the end of a validation, and an abort in the middle of one.      *)

TakeStart ==
  /\ validator = "VAL_IDLE" /\ starts < MaxStarts
  /\ starts' = starts + 1
  /\ pending' \in Registers
  /\ validator' = "VAL_FIELDS" /\ reject_operation' = FALSE
  /\ mul_running' = FALSE
  /\ UNCHANGED << validated, calculated, operandVars >>

(* An acceptance leaves the multiplier as it is.                             *)
Conclude ==
  /\ validator \in {"VAL_ACCEPT", "VAL_REJECT"} /\ validator' = "VAL_IDLE"
  /\ mul_running' = (validator = "VAL_ACCEPT" /\ mul_running)
  /\ UNCHANGED << starts, pending, reject_operation, validated, calculated, operandVars >>

AbortValidation ==
  /\ validator # "VAL_IDLE" /\ validator' = "VAL_IDLE"
  /\ mul_running' = FALSE
  /\ UNCHANGED << starts, pending, reject_operation, validated, calculated, operandVars >>

(* The host has written START as often as it does.                           *)
Stopped == validator = "VAL_IDLE" /\ starts = MaxStarts /\ UNCHANGED vvars

(* What a clock edge does while a validation is running.                     *)
ValidatorEdge ==
  \/ CheckFields \/ CheckDims
  \/ MultiplyLoad \/ MultiplyStep \/ MultiplyFinish
  \/ CompareBytes
  \/ Conclude

VNext == ValidatorEdge \/ TakeStart \/ AbortValidation \/ Stopped

VSpec == VInit /\ [][VNext]_vvars

(* The clock runs.                                                           *)
FairVSpec == VSpec /\ WF_vvars(ValidatorEdge)
=============================================================================

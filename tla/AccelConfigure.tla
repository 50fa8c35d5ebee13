--------------------------- MODULE AccelConfigure ---------------------------
(***************************************************************************)
(* accel_configure (accel_driver.c) with its arithmetic, in front of the     *)
(* validator of the RTL: a layer descriptor becomes register values, or is   *)
(* refused, and START lets the validator look at them.  FirmwareDriver takes *)
(* the outcome of both from the descriptor; here it is computed.             *)
(***************************************************************************)
EXTENDS ConfigValidatorProps

CONSTANTS
  Layers,      \* resnet_layer_t
  UINT32,      \* 2^32 in the code: products are taken modulo this
  Undefined    \* what a division by zero may give where it does not trap

OP_FC == "OP_FC"
OP_POOL == "OP_POOL"

LayerRecords ==
  [op : Operations \cup {OP_FC, OP_POOL}, in_channels : HalfWord, out_channels : HalfWord,
   height : HalfWord, width : HalfWord, kernel : Byte, stride : Byte, padding : Byte,
   relu_enable : Byte, multiplier : HalfWord, shift : HalfWord]

(* Products that fit a buffer are not cut.                                   *)
ASSUME UINT32Assumption ==
  /\ UINT32 \in Nat \ {0} /\ Undefined \subseteq Int
  /\ \A cap \in {WEIGHT_CAP_BYTES, BIAS_CAP_BYTES, INPUT_CAP_BYTES, OUTPUT_CAP_BYTES} : cap < UINT32

VARIABLES layer, rc

configureVars == << layer, rc, vvars >>

ConfigureInit == VInit /\ layer \in Layers /\ rc = "none"

-----------------------------------------------------------------------------
U32(n) == n % UINT32

(* Division in C truncates towards zero.                                     *)
Quotients(n, d) ==
  IF d = 0 THEN Undefined ELSE {IF n >= 0 THEN n \div d ELSE -((-n) \div d)}

(* Mutant: a linear layer keeps the dimensions it need not have.             *)
ConvLayer_AsIs(l) == l

ConvLayer(l) ==
  IF l.op # OP_FC THEN l
  ELSE [l EXCEPT !.height = 1, !.width = 1, !.kernel = 1, !.stride = 1, !.padding = 0]

Sides(n, l) == {q + 1 : q \in Quotients(n + 2 * l.padding - l.kernel, l.stride)}

Packed(w, b, i, s) == [p \in Packets |-> CASE p = "WEIGHT" -> w [] p = "BIAS" -> b [] p = "INPUT" -> i [] OTHER -> s]

ResidualRegisters(l) ==
  LET bytes == U32(l.height * l.width * l.out_channels)
  IN  [ZeroRegisters EXCEPT
        !.op = OP_RESIDUAL_ADD, !.h = l.height, !.w = l.width,
        !.ic = l.out_channels, !.oc = l.out_channels, !.relu = l.relu_enable % 2,
        !.bytes = Packed(0, 0, bytes, bytes), !.output = bytes]

GapRegisters(l) ==
  [ZeroRegisters EXCEPT
    !.op = OP_GLOBAL_AVG_POOL, !.h = l.height, !.w = l.width,
    !.ic = l.in_channels, !.oc = l.in_channels, !.multiplier = l.multiplier, !.shift = l.shift,
    !.bytes = Packed(0, 0, U32(l.height * l.width * l.in_channels), 0), !.output = l.in_channels]

ConvRegisters(l, out_h, out_w) ==
  [ZeroRegisters EXCEPT
    !.op = OP_CONV, !.h = l.height, !.w = l.width, !.ic = l.in_channels, !.oc = l.out_channels,
    !.kernel = l.kernel, !.stride = l.stride, !.padding = l.padding, !.relu = l.relu_enable % 2,
    !.multiplier = l.multiplier, !.shift = l.shift,
    !.bytes = Packed(U32(l.kernel * l.kernel * (l.in_channels * l.out_channels)),
                     U32(4 * l.out_channels), U32(l.height * l.width * l.in_channels), 0),
    !.output = U32(out_h * out_w * l.out_channels)]

NoElement(l, channels) == l.height = 0 \/ l.width = 0 \/ channels = 0

(* The output dimensions; of a division by zero there may be several.        *)
OutputSizes(l) == Sides(ConvLayer(l).height, ConvLayer(l)) \X Sides(ConvLayer(l).width, ConvLayer(l))
Positive(size) == size[1] > 0 /\ size[2] > 0

(* The registers it may leave.                                               *)
Written(l) ==
  CASE l.op = OP_POOL -> {}
    [] l.op = OP_RESIDUAL_ADD ->
         IF NoElement(l, l.out_channels) THEN {} ELSE {ResidualRegisters(l)}
    [] l.op = OP_GLOBAL_AVG_POOL ->
         IF NoElement(l, l.in_channels) THEN {} ELSE {GapRegisters(l)}
    [] OTHER ->
         {ConvRegisters(ConvLayer(l), size[1], size[2]) : size \in {s \in OutputSizes(l) : Positive(s)}}

ASSUME LayersAssumption ==
  /\ Layers \subseteq LayerRecords
  /\ \A l \in Layers : Written(l) \subseteq Registers

Refuses(l) ==
  CASE l.op = OP_POOL -> TRUE
    [] l.op = OP_RESIDUAL_ADD -> NoElement(l, l.out_channels)
    [] l.op = OP_GLOBAL_AVG_POOL -> NoElement(l, l.in_channels)
    [] OTHER -> \E size \in OutputSizes(l) : ~Positive(size)

(* accel_configure, and START after ACCEL_OK.                                *)
Configure ==
  /\ rc = "none" /\ rc' = "ACCEL_OK"
  /\ \E regs \in Written(layer) : pending' = regs /\ TakeStart
  /\ UNCHANGED layer

Refuse ==
  /\ rc = "none" /\ Refuses(layer)
  /\ rc' = "ACCEL_INVALID_ARG"
  /\ UNCHANGED << layer, vvars >>

(* The division by zero traps.                                               *)
Trap ==
  /\ rc = "none" /\ layer.op = OP_CONV /\ layer.stride = 0
  /\ rc' = "trapped"
  /\ UNCHANGED << layer, vvars >>

Validate == ValidatorEdge /\ UNCHANGED << layer, rc >>

Returned == rc # "none" /\ validator = "VAL_IDLE" /\ UNCHANGED configureVars

ConfigureNext == Configure \/ Refuse \/ Trap \/ Validate \/ Returned

ConfigureSpec == ConfigureInit /\ [][ConfigureNext]_configureVars

-----------------------------------------------------------------------------
(* A layer whose tensors, in exact arithmetic, are whole words that fit their *)
(* buffers, with the fields the accelerator supports.                        *)
InRange(h, w, ic, oc) == h \in 1..16384 /\ w \in 1..16384 /\ ic \in 1..4096 /\ oc \in 1..64

FitsConv(l) ==
  /\ InRange(l.height, l.width, l.in_channels, l.out_channels)
  /\ l.kernel \in {1, 3} /\ l.stride \in {1, 2} /\ l.padding \in {0, 1} /\ l.shift <= 31
  /\ l.height + 2 * l.padding >= l.kernel /\ l.width + 2 * l.padding >= l.kernel
  /\ Holds(l.kernel * l.kernel * (l.in_channels * l.out_channels), WEIGHT_CAP_BYTES)
  /\ Holds(4 * l.out_channels, BIAS_CAP_BYTES)
  /\ Holds(l.height * l.width * l.in_channels, INPUT_CAP_BYTES)
  /\ LET side(n) == (n + 2 * l.padding - l.kernel) \div l.stride + 1
     IN  Holds(side(l.height) * side(l.width) * l.out_channels, OUTPUT_CAP_BYTES)

FitsFc(l) ==
  /\ l.in_channels \in 1..4096 /\ l.out_channels \in 1..64 /\ l.shift <= 31
  /\ Holds(l.in_channels * l.out_channels, WEIGHT_CAP_BYTES) /\ Holds(4 * l.out_channels, BIAS_CAP_BYTES)
  /\ Holds(l.in_channels, INPUT_CAP_BYTES) /\ Holds(l.out_channels, OUTPUT_CAP_BYTES)

FitsResidual(l) ==
  /\ InRange(l.height, l.width, l.out_channels, 1)
  /\ \A cap \in {INPUT_CAP_BYTES, OUTPUT_CAP_BYTES} : Holds(l.height * l.width * l.out_channels, cap)

FitsGap(l) ==
  /\ InRange(l.height, l.width, l.in_channels, 1) /\ l.in_channels <= 127 /\ l.shift <= 31
  /\ Holds(l.height * l.width * l.in_channels, INPUT_CAP_BYTES) /\ Holds(l.in_channels, OUTPUT_CAP_BYTES)

Fits(l) ==
  \/ l.op = OP_CONV /\ FitsConv(l)
  \/ l.op = OP_FC /\ FitsFc(l)
  \/ l.op = OP_RESIDUAL_ADD /\ FitsResidual(l)
  \/ l.op = OP_GLOBAL_AVG_POOL /\ FitsGap(l)

(* A layer is accepted exactly if it fits: 32-bit products that wrapped,      *)
(* a division that truncated where it should have floored, and a division by *)
(* zero, whatever it gave, end in a refusal, and no layer that fits does.    *)
AcceptsWhatFits ==
  /\ validator = "VAL_ACCEPT" => Fits(layer)
  /\ validator = "VAL_REJECT" \/ rc \in {"ACCEL_INVALID_ARG", "trapped"} => ~Fits(layer)
=============================================================================

-------------------------- MODULE VectorGenerators --------------------------
(***************************************************************************)
(* The scripts that turn a float network into test vectors of single         *)
(* accelerator operations (scripts/generate_stage*_vectors.py): which        *)
(* operations, in which order, on which tensors, onto which scale.  A        *)
(* quantized tensor is its scale and its shape; a scale is named by the      *)
(* float tensor whose range it was taken from.                               *)
(***************************************************************************)
EXTENDS Integers, Sequences, SequencesExt

CONSTANTS NUM_CLASSES, FC_OUT_CHANNELS_PADDED

(* The classes are padded to whole words of the output buffer.               *)
ASSUME PaddedAssumption ==
  /\ FC_OUT_CHANNELS_PADDED \in 4 .. 64 /\ FC_OUT_CHANNELS_PADDED % 4 = 0
  /\ NUM_CLASSES \in 1 .. FC_OUT_CHANNELS_PADDED

-----------------------------------------------------------------------------
(* The networks of python/models/resnet_fp.py.  A layer is << block, part >>; *)
(* block 0 is what comes before the first block, NumBlocks + 1 what follows   *)
(* the last.                                                                  *)

(* Conv2d and BatchNorm2d, which are folded into one convolution, and ReLU.  *)
conv_bn(in, out, kernel, stride, padding, relu) ==
  [ic |-> in, oc |-> out, kernel |-> kernel, stride |-> stride, padding |-> padding, relu |-> relu]

SingleConvReLU == conv_bn(3, 16, 3, 1, 1, TRUE)

(* BasicBlock(in_channels, out_channels, stride)                             *)
HasProjection(block) == block.stride # 1 \/ block.in # block.out

BasicBlock(block, part) ==
  CASE part = "conv1"    -> conv_bn(block.in, block.out, 3, block.stride, 1, TRUE)
    [] part = "conv2"    -> conv_bn(block.out, block.out, 3, 1, 1, FALSE)
    [] part = "shortcut" -> conv_bn(block.in, block.out, 1, block.stride, 0, FALSE)

Stages == << [in |-> 16, out |-> 16, stride |-> 1], [in |-> 16, out |-> 32, stride |-> 2],
             [in |-> 32, out |-> 64, stride |-> 2] >>
BlocksPerStage == 3
NumBlocks == Len(Stages) * BlocksPerStage

(* The k-th block of a stage.                                                *)
_make_stage(stage, k) ==
  IF k = 1 THEN stage ELSE [stage EXCEPT !.in = stage.out, !.stride = 1]

ResNet20Block(b) ==
  _make_stage(Stages[(b - 1) \div BlocksPerStage + 1], ((b - 1) % BlocksPerStage) + 1)

Stem == << 0, "stem" >>
StemConv == conv_bn(3, 16, 3, 1, 1, TRUE)

-----------------------------------------------------------------------------
(* The scripts.                                                              *)

Input == << 0, "input" >>
Self == << 0, "self" >>       \* target_output_scale=None
Part(b, part) == << b, part >>
Gap == << NumBlocks + 1, "gap" >>
Fc == << NumBlocks + 1, "fc" >>

Scripts == {"stage1_conv", "identity", "projection", "stage3_backbone", "stage3_gap_fc"}

(* BLOCK_CONFIGS, and the tensor each script starts from.                    *)
BLOCK_CONFIGS ==
  [identity |-> [in |-> 16, out |-> 16, stride |-> 1], projection |-> [in |-> 16, out |-> 32, stride |-> 2]]

InputShape(script) ==
  CASE script \in {"stage1_conv", "stage3_backbone"} -> << 32, 32, 3 >>
    [] script \in DOMAIN BLOCK_CONFIGS -> << 32, 32, BLOCK_CONFIGS[script].in >>
    [] script = "stage3_gap_fc" -> << 8, 8, 64 >>

-----------------------------------------------------------------------------
(* The calls of the scripts.                                                 *)

Conv(at, from, layer, target) ==
  [op |-> "conv", at |-> at, from |-> from, layer |-> layer, target |-> target]
Other(op, at, from, target) ==
  [op |-> op, at |-> at, from |-> from, layer |-> StemConv, target |-> target]

Conv1(b, block, from) == Conv(Part(b, "conv1"), from, BasicBlock(block, "conv1"), Self)

Shortcut(b, block, from) ==
  Conv(Part(b, "shortcut"), from, BasicBlock(block, "shortcut"), Part(b, "conv2"))
Conv2(b, block, target) ==
  Conv(Part(b, "conv2"), Part(b, "conv1"), BasicBlock(block, "conv2"), target)
Add(b, skip) == Other("add", Part(b, "add"), Part(b, "conv2"), skip)

(* Stage 2: the shortcut is put onto the scale of conv2.                     *)
generate_block(block) ==
  << Conv1(1, block, Input), Conv2(1, block, Self) >> \o
  IF HasProjection(block)
  THEN << Shortcut(1, block, Input), Add(1, Part(1, "shortcut")) >>
  ELSE << Other("rescale", Part(1, "rescaled"), Input, Part(1, "conv2")), Add(1, Part(1, "rescaled")) >>

(* Mutant: conv2 is calibrated by itself in every block.                     *)
process_block_Self(b) ==
  LET block == ResNet20Block(b)
      from == IF b = 1 THEN Stem ELSE Part(b - 1, "add")
  IN  << Conv1(b, block, from), Conv2(b, block, Self) >> \o
      IF HasProjection(block)
      THEN << Shortcut(b, block, from), Add(b, Part(b, "shortcut")) >>
      ELSE << Add(b, from) >>

(* Stage 3: conv2 of a block without projection is put onto the scale of the *)
(* block's input, which is added as it is.                                   *)
process_block(b) ==
  LET block == ResNet20Block(b)
      from == IF b = 1 THEN Stem ELSE Part(b - 1, "add")
  IN  IF HasProjection(block)
      THEN << Conv1(b, block, from), Conv2(b, block, Self), Shortcut(b, block, from),
              Add(b, Part(b, "shortcut")) >>
      ELSE << Conv1(b, block, from), Conv2(b, block, from), Add(b, from) >>

(* Mutant: the ten classes are not padded.                                   *)
FcLayer_NotPadded(channels) == conv_bn(channels, NUM_CLASSES, 1, 1, 0, FALSE)

(* The linear layer, as a convolution of one pixel with zero channels added. *)
FcLayer(channels) == conv_bn(channels, FC_OUT_CHANNELS_PADDED, 1, 1, 0, FALSE)

GapFc(from) ==
  << Other("gap", Gap, from, Self), Conv(Fc, Gap, FcLayer(64), Self) >>

process_stage(s) == process_block(3 * s - 2) \o process_block(3 * s - 1) \o process_block(3 * s)

generate_backbone ==
  << Conv(Stem, Input, StemConv, Self) >> \o
  (process_stage(1) \o process_stage(2) \o process_stage(3)) \o GapFc(Part(NumBlocks, "add"))

generate_gap_directed ==
  [k \in 1 .. 3 |-> Other("gap", << 0, << "all_zero", "all_max", "all_min" >>[k] >>, Input, Self)]

generate_fc_kernel1_directed ==
  << Conv(<< 0, "fc_kernel1" >>, << 0, "pixel" >>, conv_bn(4, 4, 1, 1, 0, FALSE), Self) >>

generate_gap_fc_chain == GapFc(Input)

generate_single_conv == << Conv(<< 0, "conv" >>, Input, SingleConvReLU, Self) >>

Calls(script) ==
  CASE script = "stage1_conv" -> generate_single_conv
    [] script \in DOMAIN BLOCK_CONFIGS -> generate_block(BLOCK_CONFIGS[script])
    [] script = "stage3_backbone" -> generate_backbone
    [] script = "stage3_gap_fc" ->
         generate_gap_directed \o generate_fc_kernel1_directed \o generate_gap_fc_chain

-----------------------------------------------------------------------------
(* One call.                                                                 *)

ConvShape(shape, layer) ==
  LET out(n) == (n + 2 * layer.padding - layer.kernel) \div layer.stride + 1
  IN  << out(shape[1]), out(shape[2]), layer.oc >>

_quantize_and_export_conv(call, x, tensors) ==
  [scale |-> IF call.target = Self THEN call.at ELSE tensors[call.target].scale,
   shape |-> ConvShape(x.shape, call.layer)]

_rescale_int8(call, x, tensors) == [scale |-> tensors[call.target].scale, shape |-> x.shape]

(* A plain sum of bytes, clipped: it has the scale of its first operand.     *)
_combine_residual(conv2, shortcut) == [scale |-> conv2.scale, shape |-> shortcut.shape]

PoolOnto(x) == [scale |-> x.scale, shape |-> << 1, 1, x.shape[3] >>]

(* The tensor a call computes.                                               *)
Output(call, tensors) ==
  LET x == tensors[call.from]
  IN  CASE call.op = "conv"    -> _quantize_and_export_conv(call, x, tensors)
        [] call.op = "rescale" -> _rescale_int8(call, x, tensors)
        [] call.op = "gap"     -> PoolOnto(x)
        [] call.op = "add"     -> _combine_residual(x, tensors[call.target])
=============================================================================

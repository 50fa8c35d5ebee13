------------------------ MODULE ConfigValidatorProps ------------------------
(***************************************************************************)
(* What the validator decides: a reference definition of a legal            *)
(* configuration, in products and quotients, and the abstraction of a       *)
(* configuration that ControllerFsm is written with.                        *)
(***************************************************************************)
EXTENDS ConfigValidator

InputBytes(c) == c.h * c.w * c.ic
OutputDim(n, c) == (n + 2 * c.padding - c.kernel) \div c.stride + 1
OutputArea(c) == OutputDim(c.h, c) * OutputDim(c.w, c)
KernelFits(c) == c.h + 2 * c.padding >= c.kernel /\ c.w + 2 * c.padding >= c.kernel

(* A whole number of words that fits its buffer.                             *)
Holds(n, cap) == n <= cap /\ n % 4 = 0

LegalConv(c) ==
  /\ DimensionsInRange(c) /\ c.oc <= 64
  /\ c.kernel \in {1, 3} /\ c.stride \in {1, 2} /\ c.padding \in {0, 1}
  /\ c.reserved = 0 /\ c.shift <= 31
  /\ KernelFits(c)
  /\ c.bytes["WEIGHT"] = c.kernel * c.kernel * (c.ic * c.oc)
  /\ c.bytes["BIAS"] = 4 * c.oc
  /\ c.bytes["INPUT"] = InputBytes(c)
  /\ c.bytes["SKIP"] = 0
  /\ c.output = OutputArea(c) * c.oc
  /\ Holds(c.bytes["WEIGHT"], WEIGHT_CAP_BYTES) /\ Holds(c.bytes["BIAS"], BIAS_CAP_BYTES)
  /\ Holds(c.bytes["INPUT"], INPUT_CAP_BYTES) /\ Holds(c.output, OUTPUT_CAP_BYTES)

LegalResidual(c) ==
  /\ ResidualFieldsPass(c)
  /\ \A n \in {c.bytes["INPUT"], c.bytes["SKIP"], c.output} : n = InputBytes(c)
  /\ Holds(InputBytes(c), INPUT_CAP_BYTES) /\ Holds(InputBytes(c), OUTPUT_CAP_BYTES)

LegalGap(c) ==
  /\ GapFieldsPass(c)
  /\ c.bytes["INPUT"] = InputBytes(c) /\ c.output = c.oc
  /\ Holds(InputBytes(c), INPUT_CAP_BYTES) /\ Holds(c.oc, OUTPUT_CAP_BYTES)

Legal(c) ==
  \/ c.op = OP_CONV /\ LegalConv(c)
  \/ c.op = OP_RESIDUAL_ADD /\ LegalResidual(c)
  \/ c.op = OP_GLOBAL_AVG_POOL /\ LegalGap(c)

(* The first stage that turns a configuration down.                          *)
ComparesAt(c, stage) == IF Legal(c) THEN "never" ELSE stage

RejectStage(c) ==
  CASE ~FieldsPass(c) -> "VAL_FIELDS"
    [] FieldsPass(c) /\ c.op = OP_CONV /\ ~KernelFits(c) -> "VAL_DIMS"
    [] OTHER ->
  CASE c.h * c.w > INPUT_CAP_BYTES -> "VAL_INPUT_AREA"
    [] c.h * c.w <= INPUT_CAP_BYTES /\ InputBytes(c) > INPUT_CAP_BYTES -> "VAL_INPUT_CHANNELS"
    [] OTHER ->
  CASE c.op = OP_RESIDUAL_ADD -> ComparesAt(c, "VAL_RESIDUAL_COMPARE")
    [] c.op = OP_GLOBAL_AVG_POOL -> ComparesAt(c, "VAL_GAP_COMPARE")
    [] OTHER ->
       IF c.ic * c.oc > WeightChannelLimit(c) THEN "VAL_WEIGHT_CHANNELS"
       ELSE IF OutputArea(c) > OUTPUT_CAP_BYTES THEN "VAL_OUTPUT_AREA"
       ELSE IF OutputArea(c) * c.oc > OUTPUT_CAP_BYTES THEN "VAL_OUTPUT_CHANNELS"
       ELSE ComparesAt(c, "VAL_COMPARE")

Abstract(c) ==
  [op |-> c.op, rejectAt |-> RejectStage(c), bytes |-> c.bytes, output |-> c.output]

-----------------------------------------------------------------------------
(* The validator accepts the legal configurations and no others.             *)
VerdictIsLegality ==
  /\ validator = "VAL_ACCEPT" => Legal(pending)
  /\ validator = "VAL_REJECT" => ~Legal(pending)

(* The multiplier computes x * y, or that it is more than the limit.         *)
Computes(x, y, limit) ==
  /\ mul_limit = limit /\ mul_multiplier >= 1
  /\ IF mul_over_limit THEN x * y > limit
     ELSE /\ mul_accumulator <= limit
          /\ IF mul_multiplicand <= limit
             THEN mul_accumulator + mul_multiplicand * mul_multiplier = x * y
             ELSE x * y > limit

(* What each stage multiplies, and its limit.                               *)
Factors(stage, c) ==
  CASE stage = "VAL_INPUT_AREA" -> << c.h, c.w, INPUT_CAP_BYTES >>
    [] stage = "VAL_INPUT_CHANNELS" -> << c.h * c.w, c.ic, INPUT_CAP_BYTES >>
    [] stage = "VAL_WEIGHT_CHANNELS" -> << c.ic, c.oc, WeightChannelLimit(c) >>
    [] stage = "VAL_OUTPUT_AREA" -> << OutputDim(c.h, c), OutputDim(c.w, c), OUTPUT_CAP_BYTES >>
    [] OTHER -> << OutputArea(c), c.oc, OUTPUT_CAP_BYTES >>

(* In every stage the running multiplication is that of the stage, of the    *)
(* dimensions of this configuration and not of an earlier one.               *)
MultipliesRightly ==
  mul_running =>
    /\ validator \in MultiplyStages
    /\ LET f == Factors(validator, pending) IN Computes(f[1], f[2], f[3])

(* Every validation comes to a verdict, so that the multiplications that      *)
(* ControllerFsm lets take any number of cycles take finitely many.          *)
ValidationEnds == validator # "VAL_IDLE" ~> validator = "VAL_IDLE"

Fsm == INSTANCE ControllerFsm WITH
  Configs <- {Abstract(c) : c \in Registers} \cup {ResetConfig},
  state <- "IDLE", admission <- TRUE, pending <- Abstract(pending), snap <- ResetConfig,
  cancel_pulse <- FALSE, packet_start <- FALSE, engine_start <- {}, output_start <- FALSE,
  ctl_events <- {}, debug_latched <- FALSE, debug_state <- "IDLE"

FsmStage == Fsm!ValidateStage \/ Fsm!MultiplyLoad \/ Fsm!MultiplyStep \/ Fsm!MultiplyFinish

(* The validator takes the steps that ControllerFsm takes with the           *)
(* abstraction of the configuration.                                         *)
ImplementsFsm == [][(validator \in CheckStages /\ validator' # "VAL_IDLE") => FsmStage]_vvars

-----------------------------------------------------------------------------
(* The validator beside validate_conv_config, the check by which the golden  *)
(* model refuses a convolution, at its real widths.                          *)
Python == INSTANCE FixedPoint WITH
  INT8_MAX <- 127, INT32_MAX <- 2147483647, MULTIPLIER_M_MAX <- 65535, SHIFT_N_MAX <- 31,
  Pow2 <- [n \in 0 .. 31 |-> 2 ^ n]

(* A convolution the RTL admits is one the golden model computes, and the    *)
(* RTL's output dimensions, from 16-bit arithmetic with a shift for the      *)
(* stride, are those of the golden model.                                    *)
AdmittedIsGolden ==
  validator = "VAL_ACCEPT" /\ pending.op = OP_CONV =>
    /\ Python!validate_conv_config(pending)
    /\ validated.oh = Python!conv_output_dim(pending.h, pending.padding, pending.kernel, pending.stride)
    /\ validated.ow = Python!conv_output_dim(pending.w, pending.padding, pending.kernel, pending.stride)
-----------------------------------------------------------------------------
(* The inductive invariant of the validator: what each stage knows of the    *)
(* configuration it is looking at.                                           *)

(* The stages after the multiplication that gives the input bytes, and      *)
(* after the one that gives the weight bytes.                               *)
AfterInput ==
  CompareStages \cup {"VAL_WEIGHT_CHANNELS", "VAL_OUTPUT_AREA", "VAL_OUTPUT_CHANNELS"}
AfterWeights == {"VAL_OUTPUT_AREA", "VAL_OUTPUT_CHANNELS", "VAL_COMPARE"}

(* The registers passed the checks of their fields, and the widths of the    *)
(* validated dimensions lost nothing that is used: neither by the products   *)
(* nor, once accepted, by the engines, which get these and not the registers. *)
FieldsInv ==
  validator \in {"VAL_DIMS", "VAL_ACCEPT"} \cup MultiplyStages \cup CompareStages =>
    /\ FieldsPass(pending)
    /\ validated.h = pending.h /\ validated.w = pending.w /\ validated.ic = pending.ic
    /\ pending.op # OP_RESIDUAL_ADD => validated.oc = pending.oc

OutputDimsInv ==
  validator \in MultiplyStages \cup CompareStages \cup {"VAL_ACCEPT"} /\ pending.op = OP_CONV =>
    /\ KernelFits(pending)
    /\ validated.oh = OutputDim(pending.h, pending)
    /\ validated.ow = OutputDim(pending.w, pending)

StageInv ==
  /\ validator \in {"VAL_DIMS", "VAL_WEIGHT_CHANNELS"} \cup AfterWeights => pending.op = OP_CONV
  /\ validator = "VAL_RESIDUAL_COMPARE" => pending.op = OP_RESIDUAL_ADD
  /\ validator = "VAL_GAP_COMPARE" => pending.op = OP_GLOBAL_AVG_POOL

(* An area waits in the accumulator for the next multiplication.            *)
AreaInv ==
  ~mul_running =>
    /\ validator = "VAL_INPUT_CHANNELS" => mul_accumulator = pending.h * pending.w
    /\ validator = "VAL_OUTPUT_CHANNELS" => mul_accumulator = OutputArea(pending)

(* The products so far were within their limits.                            *)
PassedInv ==
  /\ validator \in {"VAL_INPUT_CHANNELS"} \cup AfterInput =>
       pending.h * pending.w <= INPUT_CAP_BYTES
  /\ validator \in AfterInput => InputBytes(pending) <= INPUT_CAP_BYTES
  /\ validator \in AfterWeights => pending.ic * pending.oc <= WeightChannelLimit(pending)
  /\ validator \in {"VAL_OUTPUT_CHANNELS", "VAL_COMPARE"} =>
       OutputArea(pending) <= OUTPUT_CAP_BYTES
  /\ validator = "VAL_COMPARE" => OutputArea(pending) * pending.oc <= OUTPUT_CAP_BYTES

CountsInv ==
  /\ validator \in AfterInput => calculated.input = InputBytes(pending)
  /\ validator \in AfterWeights =>
       /\ calculated.weight = pending.kernel * pending.kernel * (pending.ic * pending.oc)
       /\ calculated.bias = 4 * pending.oc
  /\ validator = "VAL_COMPARE" => calculated.output = OutputArea(pending) * pending.oc

VInv ==
  /\ ValidatorTypeOK
  /\ FieldsInv
  /\ OutputDimsInv
  /\ StageInv
  /\ AreaInv
  /\ PassedInv
  /\ CountsInv
  /\ MultipliesRightly
  /\ VerdictIsLegality
=============================================================================

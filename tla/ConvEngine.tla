----------------------------- MODULE ConvEngine -----------------------------
(***************************************************************************)
(* conv_engine.sv, one action per state of its sequencer: six nested loops   *)
(* whose buffer addresses are advanced step by step, a three-cycle multiply- *)
(* accumulate, the bias, the requantizer, and one write per output element.  *)
(* The buffers hold the data of the configuration; they are read through a   *)
(* register, so that a read is used one cycle later.                         *)
(***************************************************************************)
EXTENDS GoldenModel, Requantizer

CONSTANTS
  ConvConfigs,              \* configurations the controller admits
  Datas,                    \* names of the contents of the three buffers
  InputMem(_, _), WeightMem(_, _), BiasMem(_, _)
                            \* a content, and the element of it

(* The arrays that the bytes of the buffers are to the golden model.         *)
InputArray(cfg, d) == Reshape([i \in Below(cfg.h * cfg.w * cfg.ic) |-> InputMem(d, i)], cfg.h, cfg.w, cfg.ic)
WeightArray(cfg, d) ==
  [kh \in Below(cfg.kernel) |-> [kw \in Below(cfg.kernel) |->
    [ic \in Below(cfg.ic) |-> [oc \in Below(cfg.oc) |->
       WeightMem(d, ((kh * cfg.kernel + kw) * cfg.ic + ic) * cfg.oc + oc)]]]]
BiasArray(cfg, d) == [oc \in Below(cfg.oc) |-> BiasMem(d, oc)]

(* What the controller admits, and elements of eight and biases of 32 bits.   *)
ASSUME ConvAssumption ==
  \A cfg \in ConvConfigs :
    /\ {cfg.h, cfg.w, cfg.ic, cfg.oc} \subseteq Nat \ {0}
    /\ cfg.kernel \in {1, 3} /\ cfg.stride \in {1, 2} /\ cfg.padding \in {0, 1}
    /\ cfg.relu \in BOOLEAN /\ cfg.multiplier \in Multipliers /\ cfg.shift \in Shifts
    /\ validate_conv_config(cfg)
    /\ \A d \in Datas :
         /\ \A i \in Below(cfg.h * cfg.w * cfg.ic) : InputMem(d, i) \in INT8
         /\ \A i \in Below(Taps(cfg) * cfg.oc) : WeightMem(d, i) \in INT8
         /\ \A i \in Below(cfg.oc) : BiasMem(d, i) \in INT32

(* The packets and the output fit the buffers, of the sizes in the code.     *)
InputBytes == 4 * 4096
WeightBytes == 4 * 9216
OutputBytes == 4 * 4096
MaxInChannels == 4096

ASSUME CapsAssumption ==
  \A cfg \in ConvConfigs :
    /\ cfg.h * cfg.w * cfg.ic <= InputBytes /\ cfg.ic <= MaxInChannels
    /\ Taps(cfg) * cfg.oc <= WeightBytes /\ OutElements(cfg) <= OutputBytes

VARIABLES
  state_q,
  c, data,                  \* the configuration and the contents
  e,                        \* the registers of loops, addresses and data path
  done_o, overflow_event_o,
  golden,                   \* history: what the golden model computes,
  written, overflowed       \* the elements written, and whether a sum saturated

convVars == << state_q, c, data, e, pipeVars, done_o, overflow_event_o, golden, written,
               overflowed >>

EngineStates ==
  {"IDLE", "ADDR_INIT", "PREPARE_OUTPUT", "READ_TAP", "MAC_PRODUCT", "ACCUMULATE", "ADD_BIAS",
   "REQUANT_MUL", "REQUANT_ROUND_ADD", "REQUANT_SHIFT", "WRITE_OUTPUT"}

Cleared ==
  [out_h |-> 0, out_w |-> 0, out_c |-> 0, kernel_h |-> 0, kernel_w |-> 0, in_c |-> 0,
   accumulator |-> 0, product |-> 0, last_tap |-> FALSE,
   x_step |-> 0, y_step |-> 0, row_advance |-> 0, row_base |-> 0, patch_base |-> 0,
   origin_y |-> 0, origin_x |-> 0, tap_y |-> 0, tap_x |-> 0, tap_element |-> 0,
   padding |-> FALSE, weight_element |-> 0, output_element |-> 0,
   last_output |-> FALSE, input_data |-> 0, weight_data |-> 0, bias_data |-> 0]

ConvInit ==
  /\ state_q = "IDLE"
  /\ c \in ConvConfigs /\ data \in Datas
  /\ e = Cleared /\ PipeInit
  /\ done_o = FALSE /\ overflow_event_o = FALSE
  /\ golden = conv2d_fixed_point(c, InputArray(c, data), WeightArray(c, data), BiasArray(c, data))
  /\ written = 0 /\ overflowed = FALSE

Pulses(done, overflow) ==
  /\ done_o' = done /\ overflow_event_o' = overflow
  /\ overflowed' = (overflowed \/ overflow)

NoPulses == Pulses(FALSE, FALSE)

-----------------------------------------------------------------------------
Padding(y, x) == y < 0 \/ x < 0 \/ y >= c.h \/ x >= c.w

LastTap == e.kernel_h = c.kernel - 1 /\ e.kernel_w = c.kernel - 1 /\ e.in_c = c.ic - 1

LastOutput == e.out_h = OutH(c) - 1 /\ e.out_w = OutW(c) - 1 /\ e.out_c = c.oc - 1

Start ==
  /\ state_q = "IDLE"
  /\ state_q' = "ADDR_INIT"
  /\ e' = [e EXCEPT !.out_h = 0, !.out_w = 0, !.out_c = 0, !.kernel_h = 0, !.kernel_w = 0,
                    !.in_c = 0, !.accumulator = 0, !.product = 0, !.last_tap = FALSE,
                    !.output_element = 0]
  /\ done_o' = FALSE /\ overflow_event_o' = FALSE
  /\ written' = 0 /\ overflowed' = FALSE
  /\ UNCHANGED << c, data, pipeVars, golden >>

Idle ==
  /\ state_q = "IDLE"
  /\ NoPulses
  /\ UNCHANGED << state_q, c, data, e, pipeVars, golden, written >>

(* From the last tap of a kernel row to the first one of the next row.       *)
RowAdvance(stride) == IF c.kernel = 1 THEN stride + 1 ELSE stride - c.ic - c.ic - c.ic + 1

AddrInit ==
  /\ state_q = "ADDR_INIT"
  /\ LET stride == c.w * c.ic
         base == IF c.padding = 1 THEN -stride - c.ic ELSE 0
         origin == IF c.padding = 1 THEN -1 ELSE 0
     IN  e' = [e EXCEPT !.x_step = IF c.stride = 2 THEN 2 * c.ic ELSE c.ic,
                        !.y_step = IF c.stride = 2 THEN 2 * stride ELSE stride,
                        !.row_advance = RowAdvance(stride),
                        !.row_base = base, !.patch_base = base,
                        !.origin_y = origin, !.origin_x = origin]
  /\ state_q' = "PREPARE_OUTPUT"
  /\ NoPulses
  /\ UNCHANGED << c, data, pipeVars, golden, written >>

PrepareOutput ==
  /\ state_q = "PREPARE_OUTPUT"
  /\ e' = [e EXCEPT !.kernel_h = 0, !.kernel_w = 0, !.in_c = 0,
                    !.tap_y = e.origin_y, !.tap_x = e.origin_x, !.tap_element = e.patch_base,
                    !.padding = Padding(e.origin_y, e.origin_x), !.weight_element = e.out_c]
  /\ state_q' = "READ_TAP"
  /\ NoPulses
  /\ UNCHANGED << c, data, pipeVars, golden, written >>

(* A tap in the padding is not read: the register keeps an earlier element.  *)
ReadTap ==
  /\ state_q = "READ_TAP"
  /\ e' = [e EXCEPT !.input_data = IF e.padding THEN @ ELSE InputMem(data, e.tap_element),
                    !.weight_data = WeightMem(data, e.weight_element)]
  /\ state_q' = "MAC_PRODUCT"
  /\ NoPulses
  /\ UNCHANGED << c, data, pipeVars, golden, written >>

TapProduct == IF e.padding THEN 0 ELSE mac_product(e.input_data, e.weight_data)

MacProduct ==
  /\ state_q = "MAC_PRODUCT"
  /\ e' = [e EXCEPT !.product = TapProduct, !.last_tap = LastTap]
  /\ state_q' = "ACCUMULATE"
  /\ NoPulses
  /\ UNCHANGED << c, data, pipeVars, golden, written >>

(* The registers of the next tap: the next channel, kernel column or row.    *)
NextTap ==
  LET r == [e EXCEPT !.weight_element = @ + c.oc]
      x == e.tap_x + 1
      y == e.tap_y + 1
  IN  IF e.in_c + 1 < c.ic
      THEN [r EXCEPT !.in_c = @ + 1, !.tap_element = @ + 1]
      ELSE IF e.kernel_w < c.kernel - 1
      THEN [r EXCEPT !.in_c = 0, !.kernel_w = @ + 1, !.tap_x = x, !.tap_element = @ + 1,
                     !.padding = Padding(e.tap_y, x)]
      ELSE [r EXCEPT !.in_c = 0, !.kernel_w = 0, !.kernel_h = @ + 1, !.tap_y = y,
                     !.tap_x = e.origin_x, !.tap_element = @ + e.row_advance,
                     !.padding = Padding(y, e.origin_x)]

(* With the last product the bias is read.                                  *)
Accumulate ==
  /\ state_q = "ACCUMULATE"
  /\ LET sum == sat_add_int32(e.accumulator, e.product)
     IN  /\ Pulses(FALSE, sum.overflow)
         /\ e' = [(IF e.last_tap THEN [e EXCEPT !.bias_data = BiasMem(data, e.out_c)] ELSE NextTap)
                    EXCEPT !.accumulator = sum.value]
  /\ state_q' = IF e.last_tap THEN "ADD_BIAS" ELSE "READ_TAP"
  /\ UNCHANGED << c, data, pipeVars, golden, written >>

AddBias ==
  /\ state_q = "ADD_BIAS"
  /\ LET sum == sat_add_int32(e.accumulator, e.bias_data)
     IN  /\ Pulses(FALSE, sum.overflow)
         /\ e' = [e EXCEPT !.accumulator = sum.value, !.last_output = LastOutput]
  /\ state_q' = "REQUANT_MUL"
  /\ UNCHANGED << c, data, pipeVars, golden, written >>

(* The three stages of the requantizer, one cycle each.                     *)
Requantize ==
  /\ \/ /\ state_q = "REQUANT_MUL" /\ state_q' = "REQUANT_ROUND_ADD"
        /\ Multiply(e.accumulator, c.multiplier, c.shift)
     \/ state_q = "REQUANT_ROUND_ADD" /\ state_q' = "REQUANT_SHIFT" /\ RoundAdd
     \/ state_q = "REQUANT_SHIFT" /\ state_q' = "WRITE_OUTPUT" /\ Shift
  /\ NoPulses
  /\ UNCHANGED << c, data, e, golden, written >>

(* Mutant: a new output row begins at the column the last one ended in.      *)
NextOutput_KeepColumn ==
  LET r == [e EXCEPT !.output_element = @ + 1, !.accumulator = 0]
      row == e.row_base + e.y_step
  IN  IF e.out_c + 1 < c.oc THEN [r EXCEPT !.out_c = @ + 1]
      ELSE IF e.out_w + 1 < OutW(c)
      THEN [r EXCEPT !.out_c = 0, !.out_w = @ + 1, !.patch_base = @ + e.x_step,
                     !.origin_x = @ + c.stride]
      ELSE [r EXCEPT !.out_c = 0, !.out_w = 0, !.out_h = @ + 1, !.row_base = row,
                     !.patch_base = row, !.origin_y = @ + c.stride]

(* The registers of the next output: the next channel reuses the patch, the  *)
(* next column and row move it.                                              *)
NextOutput ==
  LET r == [e EXCEPT !.output_element = @ + 1, !.accumulator = 0]
      row == e.row_base + e.y_step
  IN  IF e.out_c + 1 < c.oc THEN [r EXCEPT !.out_c = @ + 1]
      ELSE IF e.out_w + 1 < OutW(c)
      THEN [r EXCEPT !.out_c = 0, !.out_w = @ + 1, !.patch_base = @ + e.x_step,
                     !.origin_x = @ + c.stride]
      ELSE [r EXCEPT !.out_c = 0, !.out_w = 0, !.out_h = @ + 1, !.row_base = row,
                     !.patch_base = row, !.origin_y = @ + c.stride,
                     !.origin_x = IF c.padding = 1 THEN -1 ELSE 0]

OutputWrite == state_q = "WRITE_OUTPUT" /\ rq.valid = "requantized"
OutputData == relu_clamp(rq.requantized, c.relu)

WriteOutput ==
  /\ OutputWrite
  /\ written' = written + 1
  /\ Clear
  /\ Pulses(e.last_output, FALSE)
  /\ e' = IF e.last_output THEN e ELSE NextOutput
  /\ state_q' = IF e.last_output THEN "IDLE" ELSE "PREPARE_OUTPUT"
  /\ UNCHANGED << c, data, golden >>

(* Mutant: a pulse that is up stays up.                                      *)
Abort_KeepPulses ==
  /\ state_q' = "IDLE" /\ e' = Cleared /\ Clear
  /\ UNCHANGED << c, data, done_o, overflow_event_o, golden, written, overflowed >>

(* abort_i, in any cycle; the buffers' read registers are not the engine's.  *)
Abort ==
  /\ state_q' = "IDLE"
  /\ e' = [Cleared EXCEPT !.input_data = e.input_data, !.weight_data = e.weight_data,
                          !.bias_data = e.bias_data]
  /\ Clear
  /\ done_o' = FALSE /\ overflow_event_o' = FALSE
  /\ UNCHANGED << c, data, golden, written, overflowed >>

ConvClock ==
  \/ Start \/ Idle \/ AddrInit \/ PrepareOutput \/ ReadTap \/ MacProduct
  \/ Accumulate \/ AddBias \/ Requantize \/ WriteOutput

ConvNext == ConvClock \/ Abort

ConvSpec == ConvInit /\ [][ConvNext]_convVars

(* The clock runs; starts and aborts need not come.                          *)
ConvFairSpec == ConvSpec /\ WF_convVars(ConvClock /\ state_q # "IDLE")

-----------------------------------------------------------------------------
(* The engine against its references, and against the interface the          *)
(* controller knows of it.                                                   *)

(* Every write of the engine (incremental addresses, registered stages,      *)
(* padding by flag) stores, in NHWC order and without a gap, the element the *)
(* golden model computes for that place from the same bytes, from reads that *)
(* do not leave the packet that was loaded (what lies behind it is left over *)
(* from an earlier operation); and done_o comes after the last element, with *)
(* the overflow warning raised if and only if the golden model reports one.  *)
WritesAreGolden ==
  /\ state_q = "READ_TAP" =>
       /\ e.weight_element \in Below(Taps(c) * c.oc)
       /\ ~e.padding => e.tap_element \in Below(c.h * c.w * c.ic)
  /\ OutputWrite =>
       /\ e.output_element = written
       /\ OutputData = golden.output[written \div (OutW(c) * c.oc)][(written \div c.oc) % OutW(c)]
                                     [written % c.oc]
  /\ done_o => written = OutElements(c) /\ overflowed = golden.overflow

(* The two references agree on every configuration and content: the golden   *)
(* model on padded arrays and the vector generator on flat ones.             *)
ReferencesAgree ==
  state_q = "ADDR_INIT" =>
    LET flat(n, Mem(_, _)) == [i \in Below(n) |-> Mem(data, i)]
        expected == VecExpected(c, flat(c.h * c.w * c.ic, InputMem), flat(Taps(c) * c.oc, WeightMem),
                                flat(c.oc, BiasMem))
    IN  Reshape(expected, OutH(c), OutW(c), c.oc) = golden.output

(* Registers without and with a sign, of so many bits.                       *)
Unsigned13(x) == 0 <= x /\ x < 8192
Unsigned14(x) == 0 <= x /\ x < 16384
Unsigned15(x) == 0 <= x /\ x < 32768
Unsigned16(x) == 0 <= x /\ x < 65536
Signed17(x) == -65536 <= x /\ x < 65536

(* The addresses above are integers; those of the code have these widths, and *)
(* nothing is ever cut: neither on the way into a padding that lies before   *)
(* or behind the image, nor in the steps from row to row.                    *)
RegistersFit ==
  /\ state_q # "IDLE" => Unsigned14(e.output_element)
  /\ state_q \notin {"IDLE", "ADDR_INIT"} =>
       /\ Unsigned13(c.ic) /\ Unsigned15(c.w * c.ic)
       /\ Unsigned14(e.x_step) /\ Unsigned16(e.y_step)
       /\ \A x \in {e.row_advance, e.row_base, e.patch_base, e.origin_y, e.origin_x} : Signed17(x)
  /\ state_q \in {"READ_TAP", "MAC_PRODUCT", "ACCUMULATE"} =>
       /\ \A x \in {e.tap_y, e.tap_x, e.tap_element} : Signed17(x)
       /\ Unsigned16(e.weight_element)

-----------------------------------------------------------------------------
(* What ComputeEngines lets the convolution engine do.                       *)
Engines == INSTANCE ComputeEngines WITH
  Configs <- {}, running <- IF state_q = "IDLE" THEN {} ELSE {"conv"},
  engine_done <- IF done_o THEN {"conv"} ELSE {},
  overflow <- IF overflow_event_o THEN {"conv"} ELSE {}

(* Every cycle of the engine is one that ComputeEngines allows; the proofs   *)
(* about the top level stand on that module.                                 *)
ImplementsEngine == [][\E starts \in {{}, {"conv"}}, abort \in BOOLEAN :
                          Engines!EnginesClock(starts, abort)]_convVars

(* A started computation ends: no loop runs over its bound.                  *)
ComputationEnds == state_q # "IDLE" ~> state_q = "IDLE"
=============================================================================

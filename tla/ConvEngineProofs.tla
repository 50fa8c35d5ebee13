-------------------------- MODULE ConvEngineProofs --------------------------
(***************************************************************************)
(* The convolution engine writes what the golden model computes, for every   *)
(* size, kernel, stride and padding that is admitted, and every content.     *)
(***************************************************************************)
EXTENDS ConvEngine, RequantProofs

-----------------------------------------------------------------------------
(* The inductive invariant: the addresses are those of the place in the six   *)
(* loops, and the accumulator is the golden model's sum up to there.         *)

Terms(cfg, d, oh, ow, oc) ==
  ConvTerms(cfg, _pad_input(cfg, InputArray(cfg, d)), WeightArray(cfg, d), oh, ow, oc)
Sums(cfg, d, oh, ow, oc) == SaturatingSums(Terms(cfg, d, oh, ow, oc), Taps(cfg))
WithBias(cfg, d, oh, ow, oc) ==
  sat_add_int32(Sums(cfg, d, oh, ow, oc)[Taps(cfg)].value, BiasMem(d, oc))
Saturates(cfg, d, oh, ow, oc) ==
  Sums(cfg, d, oh, ow, oc)[Taps(cfg)].overflow \/ WithBias(cfg, d, oh, ow, oc).overflow

(* An output before the n-th saturates.                                      *)
SaturatesBefore(cfg, d, n) ==
  \E m \in Below(n) : Saturates(cfg, d, m \div (OutW(cfg) * cfg.oc), (m \div cfg.oc) % OutW(cfg), m % cfg.oc)

Registers == DOMAIN Cleared

ConvTypeOK ==
  /\ state_q \in EngineStates /\ c \in ConvConfigs /\ data \in Datas
  /\ e = [f \in Registers |-> e[f]] /\ e.accumulator \in INT32
  /\ done_o \in BOOLEAN /\ overflowed \in BOOLEAN

TapStates == {"READ_TAP", "MAC_PRODUCT", "ACCUMULATE"}
OutputStates == EngineStates \ {"IDLE", "ADDR_INIT"}

(* Where the output is, and its patch of the input in the padded image.      *)
OutputInv ==
  /\ state_q # "IDLE" =>
       /\ e.out_h \in Below(OutH(c)) /\ e.out_w \in Below(OutW(c)) /\ e.out_c \in Below(c.oc)
       /\ e.output_element = (e.out_h * OutW(c) + e.out_w) * c.oc + e.out_c
       /\ written = e.output_element
  /\ state_q = "ADDR_INIT" => e.out_h = 0 /\ e.out_w = 0
  /\ state_q \in OutputStates =>
       /\ e.x_step = c.stride * c.ic /\ e.y_step = c.stride * (c.w * c.ic)
       /\ e.row_advance = RowAdvance(c.w * c.ic)
       /\ e.origin_y = e.out_h * c.stride - c.padding
       /\ e.origin_x = e.out_w * c.stride - c.padding
       /\ e.row_base = (e.origin_y * c.w - c.padding) * c.ic
       /\ e.patch_base = (e.origin_y * c.w + e.origin_x) * c.ic

(* The place of a tap in the sum of its output.                              *)
Tap == (e.kernel_h * c.kernel + e.kernel_w) * c.ic + e.in_c

TapInv ==
  state_q \in TapStates =>
    /\ e.kernel_h \in Below(c.kernel) /\ e.kernel_w \in Below(c.kernel) /\ e.in_c \in Below(c.ic)
    /\ e.tap_y = e.origin_y + e.kernel_h /\ e.tap_x = e.origin_x + e.kernel_w
    /\ e.padding = Padding(e.tap_y, e.tap_x)
    /\ e.tap_element = (e.tap_y * c.w + e.tap_x) * c.ic + e.in_c
    /\ e.weight_element = Tap * c.oc + e.out_c

(* The operands of the next step are those of this tap.                      *)
OperandsInv ==
  /\ state_q = "MAC_PRODUCT" =>
       /\ ~e.padding => e.input_data = InputMem(data, e.tap_element)
       /\ e.weight_data = WeightMem(data, e.weight_element)
  /\ state_q = "ACCUMULATE" =>
       /\ e.product = Terms(c, data, e.out_h, e.out_w, e.out_c)[Tap]
       /\ e.last_tap = LastTap
  /\ state_q = "ADD_BIAS" => e.bias_data = BiasMem(data, e.out_c)

(* The accumulator has the first n taps of the output.                       *)
Accumulated(n) ==
  /\ e.accumulator = Sums(c, data, e.out_h, e.out_w, e.out_c)[n].value
  /\ overflowed <=>
       SaturatesBefore(c, data, written) \/ Sums(c, data, e.out_h, e.out_w, e.out_c)[n].overflow

(* The accumulator has them all, and the bias.                               *)
Complete ==
  /\ e.accumulator = WithBias(c, data, e.out_h, e.out_w, e.out_c).value
  /\ overflowed <=> SaturatesBefore(c, data, written) \/ Saturates(c, data, e.out_h, e.out_w, e.out_c)

SumInv ==
  /\ state_q \in {"ADDR_INIT", "PREPARE_OUTPUT"} => Accumulated(0)
  /\ state_q \in TapStates => Accumulated(Tap)
  /\ state_q = "ADD_BIAS" => Accumulated(Taps(c))
  /\ state_q \in {"REQUANT_MUL", "REQUANT_ROUND_ADD", "REQUANT_SHIFT", "WRITE_OUTPUT"} =>
       Complete /\ e.last_output = LastOutput

(* The requantizer is at the stage of the state, with the accumulator.        *)
StagesInv ==
  /\ rq.valid = CASE state_q = "REQUANT_ROUND_ADD" -> "product"
                  [] state_q = "REQUANT_SHIFT" -> "round_add"
                  [] state_q = "WRITE_OUTPUT" -> "requantized"
                  [] OTHER -> "none"
  /\ rq.valid # "none" => operands = << e.accumulator, c.multiplier, c.shift >>

ConvInv ==
  /\ ConvTypeOK /\ OutputInv /\ TapInv /\ OperandsInv /\ SumInv /\ StagesInv
  /\ golden = conv2d_fixed_point(c, InputArray(c, data), WeightArray(c, data), BiasArray(c, data))
  /\ done_o => state_q = "IDLE" /\ written = OutElements(c) /\ overflowed = golden.overflow

-----------------------------------------------------------------------------
(* The constants.                                                           *)

LEMMA OutputDim ==
  ASSUME NEW dim \in Nat \ {0}, NEW p \in {0, 1}, NEW k \in {1, 3}, NEW s \in {1, 2}, dim + 2 * p >= k
  PROVE  /\ conv_output_dim(dim, p, k, s) \in Nat \ {0}
         /\ \A i \in Below(conv_output_dim(dim, p, k, s)), j \in Below(k) :
              i * s + j \in Below(dim + 2 * p)
<1>. DEFINE n == dim + 2 * p - k
            q == n \div s
<1>1. n \in Nat /\ dim + 2 * p = n + k
  OBVIOUS
<1>. HIDE DEF n
<1>2. q \in Nat /\ q * s <= n
  BY <1>1
<1>3. conv_output_dim(dim, p, k, s) = q + 1
  BY DEF conv_output_dim, n
<1>. HIDE DEF q
<1>4. ASSUME NEW i \in 0 .. q, NEW j \in 0 .. (k - 1)
      PROVE  i * s + j \in 0 .. (dim + 2 * p - 1)
  <2>1. i * s <= q * s
    BY <1>2
  <2>. QED BY <1>1, <1>2, <2>1
<1>5. Below(q + 1) = 0 .. q
  BY <1>2 DEF Below
<1>. QED BY <1>2, <1>3, <1>4, <1>5 DEF Below

LEMMA ConvTypes ==
  ASSUME c \in ConvConfigs, data \in Datas
  PROVE  /\ c.h \in Nat \ {0} /\ c.w \in Nat \ {0} /\ c.ic \in Nat \ {0} /\ c.oc \in Nat \ {0}
         /\ c.kernel \in {1, 3} /\ c.stride \in {1, 2} /\ c.padding \in {0, 1}
         /\ c.relu \in BOOLEAN /\ c.multiplier \in Multipliers /\ c.shift \in Shifts
         /\ c.h + 2 * c.padding >= c.kernel /\ c.w + 2 * c.padding >= c.kernel
         /\ Taps(c) \in Nat \ {0} /\ OutH(c) \in Nat \ {0} /\ OutW(c) \in Nat \ {0}
         /\ OutElements(c) \in Nat
<1>1. /\ c.h \in Nat \ {0} /\ c.w \in Nat \ {0} /\ c.ic \in Nat \ {0} /\ c.oc \in Nat \ {0}
      /\ c.kernel \in {1, 3} /\ c.stride \in {1, 2} /\ c.padding \in {0, 1}
      /\ c.relu \in BOOLEAN /\ c.multiplier \in Multipliers /\ c.shift \in Shifts
      /\ c.h + 2 * c.padding >= c.kernel /\ c.w + 2 * c.padding >= c.kernel
  BY ConvAssumption DEF validate_conv_config
<1>2. Taps(c) \in Nat \ {0}
  BY <1>1 DEF Taps
<1>3. OutH(c) \in Nat \ {0} /\ OutW(c) \in Nat \ {0}
  BY <1>1, OutputDim DEF OutH, OutW
<1>4. OutElements(c) \in Nat
  <2>1. OutH(c) * OutW(c) \in Nat
    BY <1>3
  <2>. QED BY <1>1, <2>1 DEF OutElements
<1>. QED BY <1>1, <1>2, <1>3, <1>4

(* The contents of the buffers.                                             *)
LEMMA Contents ==
  ASSUME c \in ConvConfigs, data \in Datas
  PROVE  /\ \A i \in Below(c.h * c.w * c.ic) : InputMem(data, i) \in Int
         /\ \A i \in Below(Taps(c) * c.oc) : WeightMem(data, i) \in Int
         /\ \A i \in Below(c.oc) : BiasMem(data, i) \in INT32
<1>1. INT8 \subseteq Int
  BY Constants DEF INT8, INT8_MIN
<1>2. /\ \A i \in Below(c.h * c.w * c.ic) : InputMem(data, i) \in INT8
      /\ \A i \in Below(Taps(c) * c.oc) : WeightMem(data, i) \in INT8
      /\ \A i \in Below(c.oc) : BiasMem(data, i) \in INT32
  BY ConvAssumption
<1>. QED BY <1>1, <1>2

-----------------------------------------------------------------------------
(* Places.                                                                  *)

(* Three indices, the last of which runs fastest.                            *)
LEMMA ThreeIndices ==
  ASSUME NEW m \in Nat, NEW d2 \in Nat \ {0}, NEW d3 \in Nat \ {0},
         NEW i \in Below(m), NEW j \in Below(d2), NEW k \in Below(d3)
  PROVE  LET n == (i * d2 + j) * d3 + k
         IN  /\ n \in Below(m * d2 * d3)
             /\ n \div (d2 * d3) = i /\ (n \div d3) % d2 = j /\ n % d3 = k
<1>. DEFINE r == i * d2 + j
            n == r * d3 + k
            t == j * d3 + k
<1>1. /\ i \in 0 .. (m - 1) /\ j \in 0 .. (d2 - 1) /\ k \in 0 .. (d3 - 1)
      /\ i \in Nat /\ j \in Nat /\ k \in Nat /\ m * d2 \in Nat /\ d2 * d3 \in Nat \ {0}
  BY DEF Below
<1>2. r \in 0 .. (m * d2 - 1) /\ r \in Nat
  <2>1. r \in 0 .. (m * d2 - 1)
    BY <1>1, PlaceBound, Zenon
  <2>. QED BY <2>1
<1>3. r % d2 = j
  BY <1>1, DivMod, Zenon
<1>4. t \in 0 .. (d2 * d3 - 1)
  BY <1>1, PlaceBound, Zenon
<1>5. n = i * (d2 * d3) + t
  <2>1. (i * d2 + j) * d3 = i * (d2 * d3) + j * d3
    BY <1>1
  <2>. QED BY <1>1, <2>1
<1>. HIDE DEF r, t
<1>6. n \in 0 .. (m * d2 * d3 - 1)
  BY <1>1, <1>2, PlaceBound, Zenon
<1>7. n \div d3 = r /\ n % d3 = k
  BY <1>1, <1>2, DivMod, Zenon
<1>8. n \div (d2 * d3) = i
  <2>. HIDE DEF n
  <2>1. (i * (d2 * d3) + t) \div (d2 * d3) = i
    <3>. DEFINE d == d2 * d3
    <3>1. d \in Nat \ {0} /\ t \in 0 .. (d - 1)
      BY <1>1, <1>4
    <3>. HIDE DEF d
    <3>2. (i * d + t) \div d = i
      BY <1>1, <3>1, DivMod, Zenon
    <3>. QED BY <3>2 DEF d
  <2>. QED BY <1>5, <2>1
<1>. HIDE DEF n
<1>9. n \in Below(m * d2 * d3) /\ n \div (d2 * d3) = i /\ (n \div d3) % d2 = j /\ n % d3 = k
  BY <1>3, <1>6, <1>7, <1>8 DEF Below
<1>. QED BY <1>9 DEF n, r

(* Every place has its three indices.                                       *)
LEMMA PlaceHasIndices ==
  ASSUME NEW m \in Nat, NEW d2 \in Nat \ {0}, NEW d3 \in Nat \ {0}, NEW n \in Below(m * d2 * d3)
  PROVE  n \div (d2 * d3) \in Below(m) /\ (n \div d3) % d2 \in Below(d2) /\ n % d3 \in Below(d3)
<1>. DEFINE d == d2 * d3
            q == n \div d
<1>1. d \in Nat \ {0} /\ m * d2 * d3 = m * d
  OBVIOUS
<1>2. n \in Nat /\ n < m * d
  BY <1>1 DEF Below
<1>. HIDE DEF d
<1>3. q \in Int /\ d * q <= n /\ n < d * q + d
  BY <1>1, <1>2
<1>. HIDE DEF q
<1>4. q >= 0
  <2>1. CASE q <= -1
    <3>1. d * q <= d * (-1)
      BY <1>1, <1>3, <2>1
    <3>. QED BY <1>1, <1>2, <1>3, <3>1
  <2>. QED BY <1>3, <2>1
<1>5. q < m
  <2>1. CASE q >= m
    <3>1. q \in Nat /\ d \in Nat
      BY <1>1, <1>3, <1>4
    <3>2. m * d <= q * d
      BY <2>1, <3>1
    <3>3. d * q = q * d /\ m * d \in Int /\ q * d \in Int
      BY <3>1
    <3>. QED BY <1>2, <1>3, <3>2, <3>3
  <2>. QED BY <1>3, <2>1
<1>6. n \div d3 \in Int
  BY <1>2
<1>7. (n \div d3) % d2 \in 0 .. (d2 - 1) /\ n % d3 \in 0 .. (d3 - 1)
  BY <1>2, <1>6
<1>. QED BY <1>3, <1>4, <1>5, <1>7 DEF Below, d, q

-----------------------------------------------------------------------------
(* What the golden model computes of the bytes.                              *)

(* The arrays are the bytes of the packets, in their order.                  *)
LEMMA InputAt ==
  ASSUME c \in ConvConfigs, data \in Datas,
         NEW y \in Below(c.h), NEW x \in Below(c.w), NEW i \in Below(c.ic)
  PROVE  /\ (y * c.w + x) * c.ic + i \in Below(c.h * c.w * c.ic)
         /\ InputArray(c, data)[y][x][i] = InputMem(data, (y * c.w + x) * c.ic + i)
<1>. DEFINE a == (y * c.w + x) * c.ic + i
            flat == [n \in Below(c.h * c.w * c.ic) |-> InputMem(data, n)]
<1>1. a \in Below(c.h * c.w * c.ic)
  <2>1. c.h \in Nat /\ c.w \in Nat \ {0} /\ c.ic \in Nat \ {0}
    BY ConvTypes
  <2>. QED BY <2>1, ThreeIndices
<1>2. InputArray(c, data) = Reshape(flat, c.h, c.w, c.ic)
  BY DEF InputArray
<1>. HIDE DEF a
<1>3. flat[a] = InputMem(data, a)
  BY <1>1
<1>. HIDE DEF flat
<1>4. Reshape(flat, c.h, c.w, c.ic)[y][x][i] = flat[a]
  BY ReshapeAt DEF a
<1>. QED BY <1>1, <1>2, <1>3, <1>4 DEF a

LEMMA WeightAt ==
  ASSUME NEW kh \in Below(c.kernel), NEW kw \in Below(c.kernel), NEW i \in Below(c.ic), NEW ch \in Below(c.oc)
  PROVE  WeightArray(c, data)[kh][kw][i][ch]
           = WeightMem(data, ((kh * c.kernel + kw) * c.ic + i) * c.oc + ch)
  BY DEF WeightArray

LEMMA PaddedAt ==
  ASSUME NEW input, NEW y \in Below(c.h + 2 * c.padding), NEW x \in Below(c.w + 2 * c.padding),
         NEW i \in Below(c.ic)
  PROVE  _pad_input(c, input)[y][x][i] =
           IF y - c.padding \in Below(c.h) /\ x - c.padding \in Below(c.w)
           THEN input[y - c.padding][x - c.padding][i] ELSE 0
  BY DEF _pad_input

(* The term of a tap: zero in the padding, and else the product of the byte   *)
(* at the tap's address and the weight.                                      *)
LEMMA TermAt ==
  ASSUME c \in ConvConfigs, data \in Datas,
         NEW oh \in Below(OutH(c)), NEW ow \in Below(OutW(c)), NEW ch \in Below(c.oc),
         NEW kh \in Below(c.kernel), NEW kw \in Below(c.kernel), NEW i \in Below(c.ic)
  PROVE  LET y == oh * c.stride - c.padding + kh
             x == ow * c.stride - c.padding + kw
             a == (y * c.w + x) * c.ic + i
             t == (kh * c.kernel + kw) * c.ic + i
         IN  /\ t \in Below(Taps(c)) /\ t * c.oc + ch \in Below(Taps(c) * c.oc)
             /\ y \in Int /\ x \in Int
             /\ ~Padding(y, x) => a \in Below(c.h * c.w * c.ic)
             /\ Terms(c, data, oh, ow, ch)[t] =
                  IF Padding(y, x) THEN 0
                  ELSE mac_product(InputMem(data, a), WeightMem(data, t * c.oc + ch))
<1>. DEFINE y == oh * c.stride - c.padding + kh
            x == ow * c.stride - c.padding + kw
            a == (y * c.w + x) * c.ic + i
            t == (kh * c.kernel + kw) * c.ic + i
            padded == _pad_input(c, InputArray(c, data))
            weight == WeightArray(c, data)
<1>1. /\ c.h \in Nat \ {0} /\ c.w \in Nat \ {0} /\ c.ic \in Nat \ {0} /\ c.oc \in Nat \ {0}
      /\ c.kernel \in Nat \ {0} /\ c.stride \in {1, 2} /\ c.padding \in {0, 1}
      /\ oh \in Nat /\ ow \in Nat /\ ch \in Nat /\ kh \in Nat /\ kw \in Nat /\ i \in Nat
  BY ConvTypes DEF Below
<1>2. /\ t \in Below(Taps(c)) /\ t \div (c.kernel * c.ic) = kh
      /\ (t \div c.ic) % c.kernel = kw /\ t % c.ic = i
  <2>1. /\ t \in Below(c.kernel * c.kernel * c.ic) /\ t \div (c.kernel * c.ic) = kh
        /\ (t \div c.ic) % c.kernel = kw /\ t % c.ic = i
    <3>1. c.kernel \in Nat /\ c.kernel \in Nat \ {0} /\ c.ic \in Nat \ {0}
      BY <1>1
    <3>. QED BY <3>1, ThreeIndices
  <2>. HIDE DEF t
  <2>. QED BY <2>1 DEF Taps
<1>3. t * c.oc + ch \in Below(Taps(c) * c.oc)
  <2>1. Taps(c) \in Nat /\ t \in 0 .. (Taps(c) - 1) /\ ch \in 0 .. (c.oc - 1)
    BY <1>2, ConvTypes DEF Below
  <2>. HIDE DEF t
  <2>2. t * c.oc + ch \in 0 .. (Taps(c) * c.oc - 1)
    BY <1>1, <2>1, PlaceBound
  <2>. QED BY <2>2 DEF Below
<1>4. y \in Int /\ x \in Int
  BY <1>1
<1>5. /\ oh * c.stride + kh \in Below(c.h + 2 * c.padding)
      /\ ow * c.stride + kw \in Below(c.w + 2 * c.padding)
  <2>1. \A d \in {c.h, c.w} : \A n \in Below(conv_output_dim(d, c.padding, c.kernel, c.stride)), j \in Below(c.kernel) :
          n * c.stride + j \in Below(d + 2 * c.padding)
    BY ConvTypes, OutputDim
  <2>. QED BY <2>1 DEF OutH, OutW
<1>6. /\ (oh * c.stride + kh) - c.padding = y
      /\ (ow * c.stride + kw) - c.padding = x
  BY <1>1
<1>7. Padding(y, x) <=> ~(y \in Below(c.h) /\ x \in Below(c.w))
  <2>. HIDE DEF y, x
  <2>. QED BY <1>1, <1>4 DEF Padding, Below
<1>8. padded[oh * c.stride + kh][ow * c.stride + kw][i] =
        IF Padding(y, x) THEN 0 ELSE InputArray(c, data)[y][x][i]
  <2>. DEFINE py == oh * c.stride + kh
              px == ow * c.stride + kw
  <2>. HIDE DEF y, x, py, px
  <2>1. padded[py][px][i] = IF y \in Below(c.h) /\ x \in Below(c.w) THEN InputArray(c, data)[y][x][i] ELSE 0
    <3>1. py - c.padding = y /\ px - c.padding = x /\ py \in Below(c.h + 2 * c.padding) /\ px \in Below(c.w + 2 * c.padding)
      BY <1>5, <1>6 DEF py, px
    <3>. QED BY <3>1, PaddedAt
  <2>. QED BY <1>7, <2>1 DEF py, px
<1>9. Terms(c, data, oh, ow, ch)[t] =
        mac_product(padded[oh * c.stride + kh][ow * c.stride + kw][i], weight[kh][kw][i][ch])
  <2>1. Terms(c, data, oh, ow, ch)[t] =
          mac_product(padded[oh * c.stride + (t \div (c.kernel * c.ic))]
                            [ow * c.stride + ((t \div c.ic) % c.kernel)][t % c.ic],
                      weight[t \div (c.kernel * c.ic)][(t \div c.ic) % c.kernel][t % c.ic][ch])
    <3>1. t \in Below(Taps(c))
      BY <1>2
    <3>. HIDE DEF t, padded, weight
    <3>2. ConvTerms(c, padded, weight, oh, ow, ch)[t] =
            mac_product(padded[oh * c.stride + (t \div (c.kernel * c.ic))]
                              [ow * c.stride + ((t \div c.ic) % c.kernel)][t % c.ic],
                        weight[t \div (c.kernel * c.ic)][(t \div c.ic) % c.kernel][t % c.ic][ch])
      BY <3>1, Zenon DEF ConvTerms
    <3>. QED BY <3>2 DEF Terms, padded, weight
  <2>. HIDE DEF t, padded, weight
  <2>. QED BY <1>2, <2>1
<1>10. weight[kh][kw][i][ch] = WeightMem(data, t * c.oc + ch) /\ WeightMem(data, t * c.oc + ch) \in Int
  <2>1. weight[kh][kw][i][ch] = WeightMem(data, t * c.oc + ch)
    BY WeightAt, Zenon
  <2>2. WeightMem(data, t * c.oc + ch) \in Int
    <3>. HIDE DEF t
    <3>. QED BY <1>3, Contents
  <2>. QED BY <2>1, <2>2
<1>11. ASSUME ~Padding(y, x)
       PROVE  a \in Below(c.h * c.w * c.ic) /\ InputArray(c, data)[y][x][i] = InputMem(data, a)
  <2>1. y \in Below(c.h) /\ x \in Below(c.w)
    BY <1>7, <1>11
  <2>. HIDE DEF y, x
  <2>. QED BY <2>1, InputAt
<1>. HIDE DEF y, x, a, t, padded, weight
<1>12. Terms(c, data, oh, ow, ch)[t] =
         IF Padding(y, x) THEN 0 ELSE mac_product(InputMem(data, a), WeightMem(data, t * c.oc + ch))
  <2>1. CASE Padding(y, x)
    <3>1. Terms(c, data, oh, ow, ch)[t] = 0 * WeightMem(data, t * c.oc + ch)
      BY <1>8, <1>9, <1>10, <2>1 DEF mac_product
    <3>. QED BY <1>10, <2>1, <3>1
  <2>2. CASE ~Padding(y, x)
    BY <1>8, <1>9, <1>10, <1>11, <2>2
  <2>. QED BY <2>1, <2>2
<1>13. /\ t \in Below(Taps(c)) /\ t * c.oc + ch \in Below(Taps(c) * c.oc)
       /\ y \in Int /\ x \in Int
       /\ ~Padding(y, x) => a \in Below(c.h * c.w * c.ic)
  BY <1>2, <1>3, <1>4, <1>11
<1>. QED BY <1>12, <1>13, Zenon DEF y, x, a, t

(* Each term is an integer.                                                  *)
LEMMA TermIsInt ==
  ASSUME c \in ConvConfigs, data \in Datas,
         NEW oh \in Below(OutH(c)), NEW ow \in Below(OutW(c)), NEW ch \in Below(c.oc),
         NEW kh \in Below(c.kernel), NEW kw \in Below(c.kernel), NEW i \in Below(c.ic)
  PROVE  Terms(c, data, oh, ow, ch)[(kh * c.kernel + kw) * c.ic + i] \in Int
<1>. DEFINE y == oh * c.stride - c.padding + kh
            x == ow * c.stride - c.padding + kw
            a == (y * c.w + x) * c.ic + i
            t == (kh * c.kernel + kw) * c.ic + i
<1>1. /\ t * c.oc + ch \in Below(Taps(c) * c.oc)
      /\ ~Padding(y, x) => a \in Below(c.h * c.w * c.ic)
      /\ Terms(c, data, oh, ow, ch)[t] =
           IF Padding(y, x) THEN 0
           ELSE mac_product(InputMem(data, a), WeightMem(data, t * c.oc + ch))
  BY TermAt
<1>. HIDE DEF y, x, a, t
<1>2. WeightMem(data, t * c.oc + ch) \in Int /\ (~Padding(y, x) => InputMem(data, a) \in Int)
  BY <1>1, Contents
<1>3. Terms(c, data, oh, ow, ch)[t] \in Int
  BY <1>1, <1>2 DEF mac_product
<1>. QED BY <1>3 DEF t

(* The sums of an output, term by term.                                      *)
LEMMA SumStarts ==
  ASSUME c \in ConvConfigs, data \in Datas, NEW oh, NEW ow, NEW ch
  PROVE  Sums(c, data, oh, ow, ch)[0] = NoSum
  BY ConvTypes, SumsTermByTerm DEF Sums

LEMMA SumGoesOn ==
  ASSUME c \in ConvConfigs, data \in Datas, NEW oh, NEW ow, NEW ch, NEW t \in Below(Taps(c))
  PROVE  Sums(c, data, oh, ow, ch)[t + 1] = AddTerm(Sums(c, data, oh, ow, ch)[t], Terms(c, data, oh, ow, ch)[t])
<1>. DEFINE term == Terms(c, data, oh, ow, ch)
<1>1. t \in 0 .. (Taps(c) - 1) /\ Taps(c) \in Nat
  BY ConvTypes DEF Below
<1>. HIDE DEF term
<1>2. SaturatingSums(term, Taps(c))[t + 1] = AddTerm(SaturatingSums(term, Taps(c))[t], term[t])
  BY <1>1, SumsTermByTerm
<1>. QED BY <1>2 DEF Sums, term

(* An output of the golden model is the sum with its bias, rescaled.         *)
LEMMA GoldenPoints ==
  ASSUME NEW g, g = conv2d_fixed_point(c, InputArray(c, data), WeightArray(c, data), BiasArray(c, data))
  PROVE  /\ \A oh \in Below(OutH(c)), ow \in Below(OutW(c)), ch \in Below(c.oc) :
              g.output[oh][ow][ch] =
                relu_and_saturate_int8(
                  requantize(WithBias(c, data, oh, ow, ch).value, c.multiplier, c.shift), c.relu)
         /\ g.overflow = (\E oh \in Below(OutH(c)), ow \in Below(OutW(c)), ch \in Below(c.oc) :
                            Saturates(c, data, oh, ow, ch))
<1>. DEFINE padded == _pad_input(c, InputArray(c, data))
            weight == WeightArray(c, data)
            bias == BiasArray(c, data)
            point == [oh \in Below(OutH(c)) |-> [ow \in Below(OutW(c)) |-> [oc \in Below(c.oc) |->
                        ConvPoint(c, padded, weight, bias, oh, ow, oc)]]]
<1>1. /\ g.output = [oh \in Below(OutH(c)) |-> [ow \in Below(OutW(c)) |-> [oc \in Below(c.oc) |->
                       point[oh][ow][oc].output]]]
      /\ g.overflow = (\E oh \in Below(OutH(c)), ow \in Below(OutW(c)), oc \in Below(c.oc) :
                         point[oh][ow][oc].overflow)
  BY Zenon DEF conv2d_fixed_point
<1>2. ASSUME NEW oh \in Below(OutH(c)), NEW ow \in Below(OutW(c)), NEW ch \in Below(c.oc)
      PROVE  /\ point[oh][ow][ch].output =
                  relu_and_saturate_int8(
                    requantize(WithBias(c, data, oh, ow, ch).value, c.multiplier, c.shift), c.relu)
             /\ point[oh][ow][ch].overflow = Saturates(c, data, oh, ow, ch)
  <2>1. point[oh][ow][ch] = ConvPoint(c, padded, weight, bias, oh, ow, ch)
    BY Zenon
  <2>2. SaturatingSum(ConvTerms(c, padded, weight, oh, ow, ch), Taps(c)) = Sums(c, data, oh, ow, ch)[Taps(c)]
    BY Zenon DEF SaturatingSum, Sums, Terms
  <2>3. bias[ch] = BiasMem(data, ch)
    BY Zenon DEF BiasArray
  <2>. HIDE DEF point, padded, weight, bias
  <2>4. sat_add_int32(SaturatingSum(ConvTerms(c, padded, weight, oh, ow, ch), Taps(c)).value, bias[ch])
          = WithBias(c, data, oh, ow, ch)
    BY <2>2, <2>3, Zenon DEF WithBias
  <2>. DEFINE macs == SaturatingSum(ConvTerms(c, padded, weight, oh, ow, ch), Taps(c))
              acc == sat_add_int32(macs.value, bias[ch])
  <2>5. ConvPoint(c, padded, weight, bias, oh, ow, ch) =
          [output |-> relu_and_saturate_int8(requantize(acc.value, c.multiplier, c.shift), c.relu),
           overflow |-> macs.overflow \/ acc.overflow]
    BY Zenon DEF ConvPoint
  <2>6. /\ point[oh][ow][ch].output =
             relu_and_saturate_int8(requantize(acc.value, c.multiplier, c.shift), c.relu)
        /\ point[oh][ow][ch].overflow = (macs.overflow \/ acc.overflow)
    <3>. DEFINE p == point[oh][ow][ch]
                q == relu_and_saturate_int8(requantize(acc.value, c.multiplier, c.shift), c.relu)
                o == macs.overflow \/ acc.overflow
    <3>1. p = [output |-> q, overflow |-> o]
      BY <2>1, <2>5, Zenon
    <3>. HIDE DEF p, q, o
    <3>2. p.output = q /\ p.overflow = o
      BY <3>1, Zenon
    <3>. QED BY <3>2, Zenon DEF p, q, o
  <2>7. Saturates(c, data, oh, ow, ch) = (macs.overflow \/ acc.overflow)
    BY <2>2, <2>4, Zenon DEF Saturates
  <2>. QED BY <2>4, <2>6, <2>7, Zenon
<1>. HIDE DEF point
<1>3. (\E oh \in Below(OutH(c)), ow \in Below(OutW(c)), oc \in Below(c.oc) : point[oh][ow][oc].overflow)
      = (\E oh \in Below(OutH(c)), ow \in Below(OutW(c)), ch \in Below(c.oc) : Saturates(c, data, oh, ow, ch))
  BY <1>2, Zenon
<1>4. ASSUME NEW oh \in Below(OutH(c)), NEW ow \in Below(OutW(c)), NEW ch \in Below(c.oc)
      PROVE  g.output[oh][ow][ch] = point[oh][ow][ch].output
  <2>. DEFINE out == [oh_ \in Below(OutH(c)) |-> [ow_ \in Below(OutW(c)) |-> [oc_ \in Below(c.oc) |->
                       point[oh_][ow_][oc_].output]]]
  <2>1. g.output = out
    BY <1>1, Zenon
  <2>2. out[oh][ow][ch] = point[oh][ow][ch].output
    BY Zenon
  <2>. HIDE DEF out
  <2>. QED BY <2>1, <2>2
<1>5. \A oh \in Below(OutH(c)), ow \in Below(OutW(c)), ch \in Below(c.oc) :
        g.output[oh][ow][ch] =
          relu_and_saturate_int8(
            requantize(WithBias(c, data, oh, ow, ch).value, c.multiplier, c.shift), c.relu)
  BY <1>2, <1>4, Zenon
<1>6. g.overflow = (\E oh \in Below(OutH(c)), ow \in Below(OutW(c)), ch \in Below(c.oc) :
                      Saturates(c, data, oh, ow, ch))
  BY <1>1, <1>3, Zenon
<1>. QED BY <1>5, <1>6, Zenon

-----------------------------------------------------------------------------
(* Outputs in the order in which they are written.                           *)

LEMMA OutputPlace ==
  ASSUME c \in ConvConfigs, data \in Datas,
         NEW oh \in Below(OutH(c)), NEW ow \in Below(OutW(c)), NEW ch \in Below(c.oc)
  PROVE  LET n == (oh * OutW(c) + ow) * c.oc + ch
         IN  /\ n \in Below(OutElements(c)) /\ n \in Nat
             /\ n \div (OutW(c) * c.oc) = oh /\ (n \div c.oc) % OutW(c) = ow /\ n % c.oc = ch
<1>. DEFINE n == (oh * OutW(c) + ow) * c.oc + ch
<1>1. OutH(c) \in Nat /\ OutW(c) \in Nat \ {0} /\ c.oc \in Nat \ {0}
  BY ConvTypes
<1>2. /\ n \in Below(OutH(c) * OutW(c) * c.oc)
      /\ n \div (OutW(c) * c.oc) = oh /\ (n \div c.oc) % OutW(c) = ow /\ n % c.oc = ch
  BY <1>1, ThreeIndices
<1>. HIDE DEF n
<1>3. n \in Below(OutElements(c)) /\ n \in Nat
  BY <1>2 DEF OutElements, Below
<1>. QED BY <1>2, <1>3 DEF n

(* Whether an output saturates, after one more output.                      *)
LEMMA SaturatesNext ==
  ASSUME c \in ConvConfigs, data \in Datas,
         NEW oh \in Below(OutH(c)), NEW ow \in Below(OutW(c)), NEW ch \in Below(c.oc)
  PROVE  LET n == (oh * OutW(c) + ow) * c.oc + ch
         IN  SaturatesBefore(c, data, n + 1) <=> SaturatesBefore(c, data, n) \/ Saturates(c, data, oh, ow, ch)
<1>. DEFINE n == (oh * OutW(c) + ow) * c.oc + ch
<1>1. /\ n \in Nat
      /\ n \div (OutW(c) * c.oc) = oh /\ (n \div c.oc) % OutW(c) = ow /\ n % c.oc = ch
  BY OutputPlace
<1>. HIDE DEF n
<1>2. Below(n + 1) = Below(n) \cup {n}
  BY <1>1 DEF Below
<1>. DEFINE P(m) == Saturates(c, data, m \div (OutW(c) * c.oc), (m \div c.oc) % OutW(c), m % c.oc)
<1>3. P(n) <=> Saturates(c, data, oh, ow, ch)
  BY <1>1
<1>4. /\ SaturatesBefore(c, data, n + 1) <=> \E m \in Below(n + 1) : P(m)
      /\ SaturatesBefore(c, data, n) <=> \E m \in Below(n) : P(m)
  BY Zenon DEF SaturatesBefore
<1>. HIDE DEF P
<1>5. SaturatesBefore(c, data, n + 1) <=> SaturatesBefore(c, data, n) \/ Saturates(c, data, oh, ow, ch)
  BY <1>2, <1>3, <1>4, Zenon
<1>. QED BY <1>5 DEF n

(* All outputs in order are all outputs.                                     *)
LEMMA SaturatesAll ==
  ASSUME c \in ConvConfigs, data \in Datas
  PROVE  SaturatesBefore(c, data, OutElements(c)) <=>
           \E oh \in Below(OutH(c)), ow \in Below(OutW(c)), ch \in Below(c.oc) : Saturates(c, data, oh, ow, ch)
<1>. DEFINE all == \E oh \in Below(OutH(c)), ow \in Below(OutW(c)), ch \in Below(c.oc) :
                     Saturates(c, data, oh, ow, ch)
<1>1. ASSUME SaturatesBefore(c, data, OutElements(c)) PROVE all
  <2>1. PICK m \in Below(OutElements(c)) :
               Saturates(c, data, m \div (OutW(c) * c.oc), (m \div c.oc) % OutW(c), m % c.oc)
    BY <1>1, Zenon DEF SaturatesBefore
  <2>2. OutH(c) \in Nat /\ OutW(c) \in Nat \ {0} /\ c.oc \in Nat \ {0}
    BY ConvTypes
  <2>3. m \in Below(OutH(c) * OutW(c) * c.oc)
    BY DEF OutElements
  <2>4. m \div (OutW(c) * c.oc) \in Below(OutH(c)) /\ (m \div c.oc) % OutW(c) \in Below(OutW(c)) /\ m % c.oc \in Below(c.oc)
    BY <2>2, <2>3, PlaceHasIndices
  <2>. QED BY <2>1, <2>4, Zenon
<1>2. ASSUME all PROVE SaturatesBefore(c, data, OutElements(c))
  <2>1. PICK oh \in Below(OutH(c)), ow \in Below(OutW(c)), ch \in Below(c.oc) : Saturates(c, data, oh, ow, ch)
    BY <1>2, Zenon
  <2>. DEFINE n == (oh * OutW(c) + ow) * c.oc + ch
  <2>2. /\ n \in Below(OutElements(c))
        /\ n \div (OutW(c) * c.oc) = oh /\ (n \div c.oc) % OutW(c) = ow /\ n % c.oc = ch
    BY OutputPlace
  <2>. HIDE DEF n
  <2>3. Saturates(c, data, n \div (OutW(c) * c.oc), (n \div c.oc) % OutW(c), n % c.oc)
    BY <2>1, <2>2
  <2>. QED BY <2>2, <2>3, Zenon DEF SaturatesBefore
<1>. QED BY <1>1, <1>2

-----------------------------------------------------------------------------
(* One action at a time.                                                     *)

LEMMA ConvFacts ==
  ASSUME ConvInv
  PROVE  /\ c \in ConvConfigs /\ data \in Datas
         /\ c.h \in Nat \ {0} /\ c.w \in Nat \ {0} /\ c.ic \in Nat \ {0} /\ c.oc \in Nat \ {0}
         /\ c.kernel \in {1, 3} /\ c.stride \in {1, 2} /\ c.padding \in {0, 1}
         /\ Taps(c) \in Nat \ {0} /\ OutH(c) \in Nat \ {0} /\ OutW(c) \in Nat \ {0}
         /\ e.accumulator \in INT32 /\ done_o \in BOOLEAN /\ overflowed \in BOOLEAN
         /\ overflowed = (overflowed \/ FALSE)
<1>1. c \in ConvConfigs /\ data \in Datas
  BY DEF ConvInv, ConvTypeOK
<1>2. e.accumulator \in INT32 /\ done_o \in BOOLEAN /\ overflowed \in BOOLEAN
  BY DEF ConvInv, ConvTypeOK
<1>. QED BY <1>1, <1>2, ConvTypes

LEMMA InitConvInv == ConvInit => ConvInv
<1>. SUFFICES ASSUME ConvInit PROVE ConvInv
  OBVIOUS
<1>1. 0 \in INT32
  BY Constants DEF INT32, INT32_MIN
<1>2. /\ state_q = "IDLE" /\ c \in ConvConfigs /\ data \in Datas /\ e = Cleared /\ done_o = FALSE
      /\ overflowed = FALSE
      /\ golden = conv2d_fixed_point(c, InputArray(c, data), WeightArray(c, data), BiasArray(c, data))
      /\ rq.valid = "none"
  BY DEF ConvInit, PipeInit, NoProduct
<1>3. e = [f \in Registers |-> e[f]] /\ e.accumulator = 0
  BY <1>2 DEF Registers, Cleared
<1>4. ConvTypeOK
  BY <1>1, <1>2, <1>3 DEF ConvTypeOK, EngineStates
<1>5. OutputInv /\ TapInv /\ OperandsInv /\ SumInv /\ StagesInv
  BY <1>2 DEF OutputInv, TapInv, OperandsInv, SumInv, StagesInv, OutputStates, TapStates
<1>. QED BY <1>2, <1>4, <1>5 DEF ConvInv

LEMMA StartStep == ConvInv /\ Start => ConvInv'
<1>. SUFFICES ASSUME ConvInv, Start PROVE ConvInv'
  OBVIOUS
<1>1. /\ state_q = "IDLE" /\ state_q' = "ADDR_INIT" /\ done_o' = FALSE /\ written' = 0
      /\ overflowed' = FALSE /\ c' = c /\ data' = data /\ golden' = golden /\ rq' = rq
      /\ operands' = operands
  BY DEF Start, pipeVars
<1>2. /\ e'.out_h = 0 /\ e'.out_w = 0 /\ e'.out_c = 0 /\ e'.accumulator = 0 /\ e'.output_element = 0
      /\ e' = [f \in Registers |-> e'[f]]
  BY DEF Start, ConvInv, ConvTypeOK, Registers, Cleared
<1>3. 0 \in INT32
  BY Constants DEF INT32, INT32_MIN
<1>4. ConvTypeOK'
  BY <1>1, <1>2, <1>3 DEF ConvInv, ConvTypeOK, EngineStates
<1>5. OutputInv'
  <2>1. 0 \in Below(OutH(c)) /\ 0 \in Below(OutW(c)) /\ 0 \in Below(c.oc) /\ 0 * OutW(c) = 0 /\ 0 * c.oc = 0
    BY ConvFacts DEF Below
  <2>. QED BY <1>1, <1>2, <2>1 DEF OutputInv, OutputStates
<1>6. Accumulated(0)'
  <2>1. Sums(c, data, 0, 0, 0)[0] = NoSum
    BY ConvFacts, SumStarts
  <2>2. Below(0) = {}
    BY DEF Below
  <2>. QED BY <1>1, <1>2, <2>1, <2>2 DEF Accumulated, NoSum, SaturatesBefore
<1>7. TapInv' /\ OperandsInv' /\ SumInv'
  BY <1>1, <1>6 DEF TapInv, TapStates, OperandsInv, SumInv
<1>8. StagesInv'
  BY <1>1 DEF ConvInv, StagesInv
<1>. QED BY <1>1, <1>4, <1>5, <1>7, <1>8 DEF ConvInv

LEMMA IdleStep == ConvInv /\ Idle => ConvInv'
<1>. SUFFICES ASSUME ConvInv, Idle PROVE ConvInv'
  OBVIOUS
<1>1. /\ state_q = "IDLE" /\ state_q' = "IDLE" /\ e' = e /\ done_o' = FALSE
      /\ overflowed' = (overflowed \/ FALSE) /\ c' = c /\ data' = data /\ golden' = golden /\ rq' = rq
      /\ operands' = operands
  BY DEF Idle, pipeVars, NoPulses, Pulses
<1>2. ConvTypeOK'
  BY <1>1 DEF ConvInv, ConvTypeOK
<1>. QED BY <1>1, <1>2 DEF ConvInv, OutputInv, OutputStates, TapInv, TapStates, OperandsInv, SumInv, StagesInv

LEMMA AbortStep == ConvInv /\ Abort => ConvInv'
<1>. SUFFICES ASSUME ConvInv, Abort PROVE ConvInv'
  OBVIOUS
<1>1. /\ state_q' = "IDLE" /\ done_o' = FALSE
      /\ overflowed' = overflowed /\ c' = c /\ data' = data /\ golden' = golden
      /\ rq'.valid = "none"
  BY DEF Abort, Clear, RequantClear
<1>2. e' = [f \in Registers |-> e'[f]] /\ e'.accumulator = 0
  BY DEF Abort, Registers, Cleared
<1>3. 0 \in INT32
  BY Constants DEF INT32, INT32_MIN
<1>4. ConvTypeOK'
  BY <1>1, <1>2, <1>3 DEF ConvInv, ConvTypeOK, EngineStates
<1>. QED BY <1>1, <1>4 DEF ConvInv, OutputInv, OutputStates, TapInv, TapStates, OperandsInv, SumInv, StagesInv

(* An action inside an output leaves the place of the output alone.          *)
LEMMA SameOutput ==
  ASSUME ConvInv, state_q \in OutputStates, state_q' \in OutputStates, c' = c, written' = written,
         e'.out_h = e.out_h, e'.out_w = e.out_w, e'.out_c = e.out_c, e'.output_element = e.output_element,
         e'.x_step = e.x_step, e'.y_step = e.y_step, e'.row_advance = e.row_advance,
         e'.origin_y = e.origin_y, e'.origin_x = e.origin_x, e'.row_base = e.row_base,
         e'.patch_base = e.patch_base
  PROVE  OutputInv'
<1>1. state_q # "IDLE" /\ state_q' # "IDLE" /\ state_q' # "ADDR_INIT"
  BY DEF OutputStates
<1>2. /\ e.out_h \in Below(OutH(c)) /\ e.out_w \in Below(OutW(c)) /\ e.out_c \in Below(c.oc)
      /\ e.output_element = (e.out_h * OutW(c) + e.out_w) * c.oc + e.out_c
      /\ written = e.output_element
  BY <1>1 DEF ConvInv, OutputInv
<1>3. /\ e.x_step = c.stride * c.ic /\ e.y_step = c.stride * (c.w * c.ic)
      /\ e.row_advance = RowAdvance(c.w * c.ic)
      /\ e.origin_y = e.out_h * c.stride - c.padding
      /\ e.origin_x = e.out_w * c.stride - c.padding
      /\ e.row_base = (e.origin_y * c.w - c.padding) * c.ic
      /\ e.patch_base = (e.origin_y * c.w + e.origin_x) * c.ic
  BY DEF ConvInv, OutputInv
<1>4. RowAdvance(c.w * c.ic)' = RowAdvance(c.w * c.ic)
  BY DEF RowAdvance
<1>5. (state_q # "IDLE" =>
         /\ e.out_h \in Below(OutH(c)) /\ e.out_w \in Below(OutW(c)) /\ e.out_c \in Below(c.oc)
         /\ e.output_element = (e.out_h * OutW(c) + e.out_w) * c.oc + e.out_c
         /\ written = e.output_element)'
  BY <1>2
<1>6. (state_q \in OutputStates =>
         /\ e.x_step = c.stride * c.ic /\ e.y_step = c.stride * (c.w * c.ic)
         /\ e.row_advance = RowAdvance(c.w * c.ic)
         /\ e.origin_y = e.out_h * c.stride - c.padding
         /\ e.origin_x = e.out_w * c.stride - c.padding
         /\ e.row_base = (e.origin_y * c.w - c.padding) * c.ic
         /\ e.patch_base = (e.origin_y * c.w + e.origin_x) * c.ic)'
  BY <1>3, <1>4
<1>. QED BY <1>1, <1>5, <1>6 DEF OutputInv

LEMMA AddrInitStep == ConvInv /\ AddrInit => ConvInv'
<1>. SUFFICES ASSUME ConvInv, AddrInit PROVE ConvInv'
  OBVIOUS
<1>. DEFINE stride == c.w * c.ic
            base == IF c.padding = 1 THEN -stride - c.ic ELSE 0
            origin == IF c.padding = 1 THEN -1 ELSE 0
<1>1. /\ state_q = "ADDR_INIT" /\ state_q' = "PREPARE_OUTPUT" /\ done_o' = FALSE /\ written' = written
      /\ overflowed' = overflowed /\ c' = c /\ data' = data /\ golden' = golden /\ rq' = rq
      /\ operands' = operands
  BY ConvFacts DEF AddrInit, NoPulses, Pulses, pipeVars
<1>2. /\ e'.out_h = e.out_h /\ e'.out_w = e.out_w /\ e'.out_c = e.out_c
      /\ e'.accumulator = e.accumulator /\ e'.output_element = e.output_element
      /\ e'.x_step = IF c.stride = 2 THEN 2 * c.ic ELSE c.ic
      /\ e'.y_step = IF c.stride = 2 THEN 2 * stride ELSE stride
      /\ e'.row_advance = RowAdvance(stride) /\ e'.row_base = base /\ e'.patch_base = base
      /\ e'.origin_y = origin /\ e'.origin_x = origin
      /\ e' = [f \in Registers |-> e'[f]]
  BY DEF AddrInit, ConvInv, ConvTypeOK, Registers, Cleared
<1>3. ConvTypeOK'
  BY <1>1, <1>2 DEF ConvInv, ConvTypeOK, EngineStates
<1>4. /\ e.out_h \in Below(OutH(c)) /\ e.out_w \in Below(OutW(c)) /\ e.out_c \in Below(c.oc)
      /\ e.output_element = (e.out_h * OutW(c) + e.out_w) * c.oc + e.out_c
      /\ written = e.output_element /\ e.out_h = 0 /\ e.out_w = 0
  BY <1>1 DEF ConvInv, OutputInv
<1>5. origin = 0 * c.stride - c.padding /\ (origin * c.w - c.padding) * c.ic = base
  <2>1. CASE c.padding = 1
    <3>1. (-1 * c.w - 1) * c.ic = -(c.w * c.ic) - c.ic
      BY ConvFacts
    <3>. QED BY <2>1, <3>1, ConvFacts
  <2>2. CASE c.padding = 0
    <3>1. 0 * c.w = 0 /\ 0 * c.ic = 0
      BY ConvFacts
    <3>. QED BY <2>2, <3>1, ConvFacts
  <2>. QED BY <2>1, <2>2, ConvFacts
<1>6. (origin * c.w + origin) * c.ic = base
  <2>1. origin = -c.padding /\ origin \in Int
    BY ConvFacts
  <2>2. (origin * c.w + origin) = origin * c.w - c.padding
    BY <2>1, ConvFacts
  <2>. QED BY <1>5, <2>2
<1>7. /\ e'.x_step = c.stride * c.ic
      /\ e'.y_step = c.stride * (c.w * c.ic)
  <2>1. stride \in Int
    BY ConvFacts
  <2>. HIDE DEF stride
  <2>2. e'.x_step = c.stride * c.ic /\ e'.y_step = c.stride * stride
    BY <1>2, <2>1, ConvFacts
  <2>. QED BY <2>2 DEF stride
<1>8. OutputInv'
  <2>. HIDE DEF base, origin
  <2>1. RowAdvance(c.w * c.ic)' = RowAdvance(c.w * c.ic)
    BY <1>1 DEF RowAdvance
  <2>2. (/\ e.out_h \in Below(OutH(c)) /\ e.out_w \in Below(OutW(c)) /\ e.out_c \in Below(c.oc)
         /\ e.output_element = (e.out_h * OutW(c) + e.out_w) * c.oc + e.out_c
         /\ written = e.output_element)'
    BY <1>1, <1>2, <1>4
  <2>3. (/\ e.x_step = c.stride * c.ic /\ e.y_step = c.stride * (c.w * c.ic)
         /\ e.row_advance = RowAdvance(c.w * c.ic)
         /\ e.origin_y = e.out_h * c.stride - c.padding
         /\ e.origin_x = e.out_w * c.stride - c.padding
         /\ e.row_base = (e.origin_y * c.w - c.padding) * c.ic
         /\ e.patch_base = (e.origin_y * c.w + e.origin_x) * c.ic)'
    BY <1>1, <1>2, <1>4, <1>5, <1>6, <1>7, <2>1
  <2>. QED BY <1>1, <2>2, <2>3 DEF OutputInv
<1>9. Accumulated(0)'
  BY <1>1, <1>2 DEF ConvInv, SumInv, Accumulated
<1>10. TapInv' /\ OperandsInv' /\ SumInv'
  BY <1>1, <1>9 DEF TapInv, TapStates, OperandsInv, SumInv
<1>11. StagesInv'
  BY <1>1 DEF ConvInv, StagesInv
<1>. QED BY <1>1, <1>3, <1>8, <1>10, <1>11 DEF ConvInv

LEMMA PrepareOutputStep == ConvInv /\ PrepareOutput => ConvInv'
<1>. SUFFICES ASSUME ConvInv, PrepareOutput PROVE ConvInv'
  OBVIOUS
<1>1. /\ state_q = "PREPARE_OUTPUT" /\ state_q' = "READ_TAP" /\ done_o' = FALSE /\ written' = written
      /\ overflowed' = overflowed /\ c' = c /\ data' = data /\ golden' = golden /\ rq' = rq
      /\ operands' = operands
  BY ConvFacts DEF PrepareOutput, NoPulses, Pulses, pipeVars
<1>2. /\ e'.out_h = e.out_h /\ e'.out_w = e.out_w /\ e'.out_c = e.out_c
      /\ e'.output_element = e.output_element
      /\ e'.x_step = e.x_step /\ e'.y_step = e.y_step /\ e'.row_advance = e.row_advance
      /\ e'.origin_y = e.origin_y /\ e'.origin_x = e.origin_x /\ e'.row_base = e.row_base
      /\ e'.patch_base = e.patch_base /\ e'.accumulator = e.accumulator
      /\ e' = [f \in Registers |-> e'[f]]
  BY DEF PrepareOutput, ConvInv, ConvTypeOK, Registers, Cleared
<1>3. /\ e'.kernel_h = 0 /\ e'.kernel_w = 0 /\ e'.in_c = 0
      /\ e'.tap_y = e.origin_y /\ e'.tap_x = e.origin_x /\ e'.tap_element = e.patch_base
      /\ e'.padding = Padding(e.origin_y, e.origin_x) /\ e'.weight_element = e.out_c
  BY DEF PrepareOutput, ConvInv, ConvTypeOK, Registers, Cleared
<1>4. ConvTypeOK'
  BY <1>1, <1>2 DEF ConvInv, ConvTypeOK, EngineStates
<1>5. OutputInv'
  <2>1. state_q \in OutputStates /\ state_q' \in OutputStates
    BY <1>1 DEF OutputStates, EngineStates
  <2>. QED BY <1>1, <1>2, <2>1, SameOutput
<1>6. /\ e.out_h \in Int /\ e.out_w \in Int /\ e.out_c \in Int
      /\ e.origin_y = e.out_h * c.stride - c.padding
      /\ e.origin_x = e.out_w * c.stride - c.padding
      /\ e.patch_base = (e.origin_y * c.w + e.origin_x) * c.ic
  BY <1>1 DEF ConvInv, OutputInv, OutputStates, EngineStates, Below
<1>7. e.origin_y \in Int /\ e.origin_x \in Int /\ e.patch_base \in Int
  BY <1>6, ConvFacts
<1>8. Tap' = 0 /\ 0 \in Below(c.kernel) /\ 0 \in Below(c.ic) /\ 0 * c.oc = 0
  <2>1. (0 * c.kernel + 0) * c.ic + 0 = 0
    BY ConvFacts
  <2>. QED BY <1>1, <1>3, <2>1, ConvFacts DEF Tap, Below
<1>9. TapInv'
  <2>1. Padding(e.tap_y, e.tap_x)' = Padding(e.origin_y, e.origin_x)
    BY <1>1, <1>3 DEF Padding
  <2>2. /\ e'.tap_element = (e'.tap_y * c.w + e'.tap_x) * c.ic + e'.in_c
        /\ e'.tap_y = e'.origin_y + e'.kernel_h /\ e'.tap_x = e'.origin_x + e'.kernel_w
        /\ e'.weight_element = Tap' * c.oc + e'.out_c
    BY <1>2, <1>3, <1>6, <1>7, <1>8
  <2>. QED BY <1>1, <1>3, <1>8, <2>1, <2>2 DEF TapInv
<1>10. Accumulated(Tap)'
  BY <1>1, <1>2, <1>8 DEF ConvInv, SumInv, Accumulated
<1>11. OperandsInv' /\ SumInv'
  BY <1>1, <1>10 DEF OperandsInv, SumInv
<1>12. StagesInv'
  BY <1>1 DEF ConvInv, StagesInv
<1>. QED BY <1>1, <1>4, <1>5, <1>9, <1>11, <1>12 DEF ConvInv

(* Where an action inside an output finds the loops.                         *)
LEMMA TapFacts ==
  ASSUME ConvInv, state_q \in TapStates
  PROVE  /\ e.out_h \in Below(OutH(c)) /\ e.out_w \in Below(OutW(c)) /\ e.out_c \in Below(c.oc)
         /\ e.kernel_h \in Below(c.kernel) /\ e.kernel_w \in Below(c.kernel) /\ e.in_c \in Below(c.ic)
         /\ e.tap_y \in Int /\ e.tap_x \in Int
         /\ e.tap_y = e.out_h * c.stride - c.padding + e.kernel_h
         /\ e.tap_x = e.out_w * c.stride - c.padding + e.kernel_w
         /\ e.padding = Padding(e.tap_y, e.tap_x) /\ e.padding \in BOOLEAN
         /\ e.tap_element = (e.tap_y * c.w + e.tap_x) * c.ic + e.in_c
         /\ e.weight_element = Tap * c.oc + e.out_c
         /\ Tap = (e.kernel_h * c.kernel + e.kernel_w) * c.ic + e.in_c
         /\ Accumulated(Tap)
<1>1. state_q # "IDLE" /\ state_q \in OutputStates
  BY DEF TapStates, OutputStates, EngineStates
<1>2. /\ e.out_h \in Below(OutH(c)) /\ e.out_w \in Below(OutW(c)) /\ e.out_c \in Below(c.oc)
      /\ e.origin_y = e.out_h * c.stride - c.padding
      /\ e.origin_x = e.out_w * c.stride - c.padding
  BY <1>1 DEF ConvInv, OutputInv
<1>3. /\ e.kernel_h \in Below(c.kernel) /\ e.kernel_w \in Below(c.kernel) /\ e.in_c \in Below(c.ic)
      /\ e.tap_y = e.origin_y + e.kernel_h /\ e.tap_x = e.origin_x + e.kernel_w
      /\ e.padding = Padding(e.tap_y, e.tap_x)
      /\ e.tap_element = (e.tap_y * c.w + e.tap_x) * c.ic + e.in_c
      /\ e.weight_element = Tap * c.oc + e.out_c
  BY <1>1 DEF ConvInv, TapInv
<1>4. e.tap_y \in Int /\ e.tap_x \in Int
  BY <1>2, <1>3, ConvFacts DEF Below
<1>5. e.padding \in BOOLEAN
  BY <1>3 DEF Padding
<1>6. Accumulated(Tap)
  BY DEF ConvInv, SumInv
<1>7. Tap = (e.kernel_h * c.kernel + e.kernel_w) * c.ic + e.in_c
  BY DEF Tap
<1>8. /\ e.tap_y = e.out_h * c.stride - c.padding + e.kernel_h
      /\ e.tap_x = e.out_w * c.stride - c.padding + e.kernel_w
  BY <1>2, <1>3
<1>. QED BY <1>2, <1>3, <1>4, <1>5, <1>6, <1>7, <1>8

LEMMA ReadTapStep == ConvInv /\ ReadTap => ConvInv'
<1>. SUFFICES ASSUME ConvInv, ReadTap PROVE ConvInv'
  OBVIOUS
<1>1. /\ state_q = "READ_TAP" /\ state_q' = "MAC_PRODUCT" /\ done_o' = FALSE /\ written' = written
      /\ overflowed' = overflowed /\ c' = c /\ data' = data /\ golden' = golden /\ rq' = rq
      /\ operands' = operands
  BY ConvFacts DEF ReadTap, NoPulses, Pulses, pipeVars
<1>2. /\ e'.out_h = e.out_h /\ e'.out_w = e.out_w /\ e'.out_c = e.out_c
      /\ e'.output_element = e.output_element
      /\ e'.x_step = e.x_step /\ e'.y_step = e.y_step /\ e'.row_advance = e.row_advance
      /\ e'.origin_y = e.origin_y /\ e'.origin_x = e.origin_x /\ e'.row_base = e.row_base
      /\ e'.patch_base = e.patch_base /\ e'.accumulator = e.accumulator
      /\ e' = [f \in Registers |-> e'[f]]
  BY DEF ReadTap, ConvInv, ConvTypeOK, Registers, Cleared
<1>3. /\ e'.kernel_h = e.kernel_h /\ e'.kernel_w = e.kernel_w /\ e'.in_c = e.in_c
      /\ e'.tap_y = e.tap_y /\ e'.tap_x = e.tap_x /\ e'.tap_element = e.tap_element
      /\ e'.padding = e.padding /\ e'.weight_element = e.weight_element
      /\ e'.weight_data = WeightMem(data, e.weight_element)
      /\ ~e.padding => e'.input_data = InputMem(data, e.tap_element)
  BY DEF ReadTap, ConvInv, ConvTypeOK, Registers, Cleared
<1>4. ConvTypeOK'
  BY <1>1, <1>2 DEF ConvInv, ConvTypeOK, EngineStates
<1>5. OutputInv'
  <2>1. state_q \in OutputStates /\ state_q' \in OutputStates
    BY <1>1 DEF OutputStates, EngineStates
  <2>. QED BY <1>1, <1>2, <2>1, SameOutput
<1>6. Tap' = Tap /\ Padding(e.tap_y, e.tap_x)' = Padding(e.tap_y, e.tap_x)
  BY <1>1, <1>3 DEF Tap, Padding
<1>7. TapInv'
  BY <1>1, <1>2, <1>3, <1>6 DEF ConvInv, TapInv, TapStates
<1>8. OperandsInv'
  BY <1>1, <1>3 DEF OperandsInv
<1>9. Accumulated(Tap)'
  BY <1>1, <1>2, <1>6 DEF ConvInv, SumInv, TapStates, Accumulated
<1>10. SumInv'
  BY <1>1, <1>9 DEF SumInv
<1>11. StagesInv'
  BY <1>1 DEF ConvInv, StagesInv
<1>. QED BY <1>1, <1>4, <1>5, <1>7, <1>8, <1>10, <1>11 DEF ConvInv

(* The registered product is the golden model's term of the tap.              *)
LEMMA ProductIsTerm ==
  ASSUME ConvInv, state_q = "MAC_PRODUCT"
  PROVE  TapProduct = Terms(c, data, e.out_h, e.out_w, e.out_c)[Tap]
<1>. DEFINE term == Terms(c, data, e.out_h, e.out_w, e.out_c)
            t == (e.kernel_h * c.kernel + e.kernel_w) * c.ic + e.in_c
            y == e.out_h * c.stride - c.padding + e.kernel_h
            x == e.out_w * c.stride - c.padding + e.kernel_w
            a == (y * c.w + x) * c.ic + e.in_c
<1>1. state_q \in TapStates
  BY DEF TapStates
<1>2. /\ e.tap_y = y /\ e.tap_x = x /\ e.padding = Padding(y, x) /\ e.tap_element = a
      /\ e.weight_element = t * c.oc + e.out_c /\ Tap = t
  BY <1>1, TapFacts
<1>3. term[t] = IF Padding(y, x) THEN 0 ELSE mac_product(InputMem(data, a), WeightMem(data, t * c.oc + e.out_c))
  BY <1>1, TapFacts, ConvFacts, TermAt
<1>4. /\ ~e.padding => e.input_data = InputMem(data, e.tap_element)
      /\ e.weight_data = WeightMem(data, e.weight_element)
  BY DEF ConvInv, OperandsInv
<1>. HIDE DEF term, t, y, x, a
<1>5. TapProduct = term[t]
  BY <1>2, <1>3, <1>4 DEF TapProduct
<1>. QED BY <1>2, <1>5 DEF term

LEMMA MacProductStep == ConvInv /\ MacProduct => ConvInv'
<1>. SUFFICES ASSUME ConvInv, MacProduct PROVE ConvInv'
  OBVIOUS
<1>1. /\ state_q = "MAC_PRODUCT" /\ state_q' = "ACCUMULATE" /\ done_o' = FALSE /\ written' = written
      /\ overflowed' = overflowed /\ c' = c /\ data' = data /\ golden' = golden /\ rq' = rq
      /\ operands' = operands
  BY ConvFacts DEF MacProduct, NoPulses, Pulses, pipeVars
<1>2. /\ e'.out_h = e.out_h /\ e'.out_w = e.out_w /\ e'.out_c = e.out_c
      /\ e'.output_element = e.output_element
      /\ e'.x_step = e.x_step /\ e'.y_step = e.y_step /\ e'.row_advance = e.row_advance
      /\ e'.origin_y = e.origin_y /\ e'.origin_x = e.origin_x /\ e'.row_base = e.row_base
      /\ e'.patch_base = e.patch_base /\ e'.accumulator = e.accumulator
      /\ e' = [f \in Registers |-> e'[f]]
  BY DEF MacProduct, ConvInv, ConvTypeOK, Registers, Cleared
<1>3. /\ e'.kernel_h = e.kernel_h /\ e'.kernel_w = e.kernel_w /\ e'.in_c = e.in_c
      /\ e'.tap_y = e.tap_y /\ e'.tap_x = e.tap_x /\ e'.tap_element = e.tap_element
      /\ e'.padding = e.padding /\ e'.weight_element = e.weight_element
      /\ e'.product = TapProduct /\ e'.last_tap = LastTap
  BY DEF MacProduct, ConvInv, ConvTypeOK, Registers, Cleared
<1>4. ConvTypeOK'
  BY <1>1, <1>2 DEF ConvInv, ConvTypeOK, EngineStates
<1>5. OutputInv'
  <2>1. state_q \in OutputStates /\ state_q' \in OutputStates
    BY <1>1 DEF OutputStates, EngineStates
  <2>. QED BY <1>1, <1>2, <2>1, SameOutput
<1>6. Tap' = Tap /\ Padding(e.tap_y, e.tap_x)' = Padding(e.tap_y, e.tap_x) /\ LastTap' = LastTap
  BY <1>1, <1>3 DEF Tap, Padding, LastTap
<1>7. TapInv'
  BY <1>1, <1>2, <1>3, <1>6 DEF ConvInv, TapInv, TapStates
<1>8. OperandsInv'
  BY <1>1, <1>2, <1>3, <1>6, ProductIsTerm DEF OperandsInv
<1>9. Accumulated(Tap)'
  BY <1>1, <1>2, <1>6 DEF ConvInv, SumInv, TapStates, Accumulated
<1>10. SumInv'
  BY <1>1, <1>9 DEF SumInv
<1>11. StagesInv'
  BY <1>1 DEF ConvInv, StagesInv
<1>. QED BY <1>1, <1>4, <1>5, <1>7, <1>8, <1>10, <1>11 DEF ConvInv

(* The next place in a three-dimensional array: the next element, or the first *)
(* one of the next column or row.                                            *)
LEMMA NextElementPlace ==
  ASSUME NEW d2 \in Nat \ {0}, NEW d3 \in Nat \ {0}, NEW i \in Nat, NEW j \in Nat, NEW k \in Nat
  PROVE  /\ (i * d2 + j) * d3 + k \in Nat
         /\ (i * d2 + j) * d3 + (k + 1) = (i * d2 + j) * d3 + k + 1
<1>. DEFINE p == i * d2 + j
<1>1. p \in Nat
  OBVIOUS
<1>. HIDE DEF p
<1>2. p * d3 + k \in Nat /\ p * d3 + (k + 1) = p * d3 + k + 1
  BY <1>1
<1>. QED BY <1>2 DEF p

LEMMA NextColumnPlace ==
  ASSUME NEW d2 \in Nat \ {0}, NEW d3 \in Nat \ {0}, NEW i \in Nat, NEW j \in Nat
  PROVE  (i * d2 + (j + 1)) * d3 + 0 = (i * d2 + j) * d3 + (d3 - 1) + 1
<1>. DEFINE p == i * d2 + j
<1>1. p \in Nat /\ i * d2 + (j + 1) = p + 1
  OBVIOUS
<1>. HIDE DEF p
<1>2. (p + 1) * d3 = p * d3 + d3
  BY <1>1
<1>3. (p + 1) * d3 + 0 = p * d3 + (d3 - 1) + 1
  BY <1>1, <1>2
<1>. QED BY <1>1, <1>3 DEF p

LEMMA NextRowPlace ==
  ASSUME NEW d2 \in Nat \ {0}, NEW d3 \in Nat \ {0}, NEW i \in Nat
  PROVE  ((i + 1) * d2 + 0) * d3 + 0 = (i * d2 + (d2 - 1)) * d3 + (d3 - 1) + 1
<1>. DEFINE p == i * d2 + (d2 - 1)
<1>1. p \in Nat /\ (i + 1) * d2 + 0 = p + 1
  OBVIOUS
<1>. HIDE DEF p
<1>2. (p + 1) * d3 = p * d3 + d3
  BY <1>1
<1>3. (p + 1) * d3 + 0 = p * d3 + (d3 - 1) + 1
  BY <1>1, <1>2
<1>. QED BY <1>1, <1>3 DEF p

LEMMA LastPlace ==
  ASSUME NEW m \in Nat \ {0}, NEW d2 \in Nat \ {0}, NEW d3 \in Nat \ {0}
  PROVE  ((m - 1) * d2 + (d2 - 1)) * d3 + (d3 - 1) + 1 = m * d2 * d3
<1>. DEFINE p == (m - 1) * d2 + (d2 - 1)
<1>1. p \in Int /\ p + 1 = m * d2
  <2>1. (m - 1) * d2 = m * d2 - d2
    OBVIOUS
  <2>. QED BY <2>1
<1>. HIDE DEF p
<1>2. (p + 1) * d3 = p * d3 + d3
  BY <1>1
<1>3. p * d3 + (d3 - 1) + 1 = m * d2 * d3
  BY <1>1, <1>2
<1>. QED BY <1>3 DEF p

LEMMA NextRow ==
  ASSUME NEW t \in Nat, NEW d \in Nat, NEW r \in Nat
  PROVE  t * d + r + d = (t + 1) * d + r
<1>1. (t + 1) * d = t * d + d
  OBVIOUS
<1>. QED BY <1>1

(* The addresses of the next tap.                                           *)
LEMMA NextColumnAddress ==
  ASSUME NEW y \in Int, NEW x \in Int, NEW w \in Nat, NEW ic \in Nat
  PROVE  (y * w + x) * ic + (ic - 1) + 1 = (y * w + (x + 1)) * ic + 0
<1>. DEFINE p == y * w + x
<1>1. p \in Int /\ y * w + (x + 1) = p + 1
  OBVIOUS
<1>. HIDE DEF p
<1>2. (p + 1) * ic = p * ic + ic
  BY <1>1
<1>3. p * ic + (ic - 1) + 1 = (p + 1) * ic + 0
  BY <1>1, <1>2
<1>. QED BY <1>1, <1>3 DEF p

LEMMA NextRowAddress ==
  ASSUME NEW y \in Int, NEW x \in Int, NEW w \in Nat, NEW ic \in Nat
  PROVE  (y * w + (x + 2)) * ic + (ic - 1) + (w * ic - ic - ic - ic + 1) = ((y + 1) * w + x) * ic + 0
<1>. DEFINE p == y * w
            q == w * ic
            s == (p + x) * ic
<1>1. p \in Int /\ q \in Int /\ s \in Int /\ (y + 1) * w = p + w
  OBVIOUS
<1>. HIDE DEF p
<1>2. (p + (x + 2)) * ic = s + 2 * ic /\ (p + w + x) * ic = s + q
  BY <1>1
<1>. HIDE DEF q, s
<1>3. (p + (x + 2)) * ic + (ic - 1) + (q - ic - ic - ic + 1) = (p + w + x) * ic + 0
  BY <1>1, <1>2
<1>. QED BY <1>1, <1>3 DEF p, q

(* The sum of one more tap.                                                  *)
LEMMA AccumulatedNext ==
  ASSUME ConvInv, Accumulate
  PROVE  LET sum == sat_add_int32(e.accumulator, e.product)
         IN  /\ sum.value \in INT32
             /\ Sums(c, data, e.out_h, e.out_w, e.out_c)[Tap + 1].value = sum.value
             /\ overflowed' <=> SaturatesBefore(c, data, written)
                                  \/ Sums(c, data, e.out_h, e.out_w, e.out_c)[Tap + 1].overflow
             /\ overflowed' \in BOOLEAN
<1>. DEFINE sum == sat_add_int32(e.accumulator, e.product)
            sums == Sums(c, data, e.out_h, e.out_w, e.out_c)
            term == Terms(c, data, e.out_h, e.out_w, e.out_c)
            before == SaturatesBefore(c, data, written)
            t == Tap
<1>1. state_q = "ACCUMULATE" /\ state_q \in TapStates /\ overflowed' = (overflowed \/ sum.overflow)
  BY DEF Accumulate, Pulses, TapStates
<1>2. e.product = term[t] /\ e.accumulator = sums[t].value /\ (overflowed <=> before \/ sums[t].overflow)
  BY <1>1, TapFacts DEF ConvInv, OperandsInv, Accumulated
<1>3. t \in Below(Taps(c)) /\ term[t] \in Int
  <2>1. /\ e.out_h \in Below(OutH(c)) /\ e.out_w \in Below(OutW(c)) /\ e.out_c \in Below(c.oc)
        /\ e.kernel_h \in Below(c.kernel) /\ e.kernel_w \in Below(c.kernel) /\ e.in_c \in Below(c.ic)
        /\ c \in ConvConfigs /\ data \in Datas
    BY <1>1, TapFacts, ConvFacts
  <2>2. t = (e.kernel_h * c.kernel + e.kernel_w) * c.ic + e.in_c
    BY DEF Tap
  <2>. HIDE DEF t, term
  <2>3. term[t] \in Int
    BY <2>1, <2>2, TermIsInt DEF term
  <2>4. t \in Below(Taps(c))
    BY <2>1, <2>2, TermAt
  <2>. QED BY <2>3, <2>4
<1>4. sums[t + 1] = AddTerm(sums[t], term[t])
  BY <1>3, ConvFacts, SumGoesOn
<1>5. sum.value \in INT32
  BY <1>2, <1>3, ConvFacts, SumIsAccumulator
<1>. HIDE DEF sums, term, before, t
<1>6. sum = sat_add_int32(sums[t].value, term[t])
  BY <1>2
<1>. DEFINE over == sum.overflow
            after == sums[t + 1]
            prior == sums[t]
<1>7. after = [value |-> sum.value, overflow |-> over \/ prior.overflow]
  BY <1>4, <1>6, Zenon DEF AddTerm
<1>. HIDE DEF sum, after, prior
<1>8. after.value = sum.value
  BY <1>7
<1>9. after.overflow = (over \/ prior.overflow)
  <2>. HIDE DEF over
  <2>. QED BY <1>7, Zenon
<1>10. overflowed' = (overflowed \/ over) /\ (overflowed <=> before \/ prior.overflow)
  BY <1>1, <1>2 DEF prior
<1>11. overflowed' <=> before \/ after.overflow
  <2>. HIDE DEF over
  <2>. QED BY <1>9, <1>10
<1>12. overflowed' \in BOOLEAN
  BY <1>10
<1>. QED BY <1>5, <1>8, <1>11, <1>12 DEF sum, after, sums, before, t

(* The next tap is of the same output.                                       *)
LEMMA NextTapKeeps ==
  ASSUME e = [f \in Registers |-> e[f]]
  PROVE  /\ NextTap.out_h = e.out_h /\ NextTap.out_w = e.out_w /\ NextTap.out_c = e.out_c
         /\ NextTap.output_element = e.output_element
         /\ NextTap.x_step = e.x_step /\ NextTap.y_step = e.y_step
         /\ NextTap.row_advance = e.row_advance
         /\ NextTap.origin_y = e.origin_y /\ NextTap.origin_x = e.origin_x
         /\ NextTap.row_base = e.row_base /\ NextTap.patch_base = e.patch_base
         /\ NextTap.weight_element = e.weight_element + c.oc
         /\ NextTap = [f \in Registers |-> NextTap[f]]
<1>1. CASE e.in_c + 1 < c.ic
  BY <1>1 DEF NextTap, Registers, Cleared
<1>2. CASE ~(e.in_c + 1 < c.ic) /\ e.kernel_w < c.kernel - 1
  BY <1>2 DEF NextTap, Registers, Cleared
<1>3. CASE ~(e.in_c + 1 < c.ic) /\ ~(e.kernel_w < c.kernel - 1)
  BY <1>3 DEF NextTap, Registers, Cleared
<1>. QED BY <1>1, <1>2, <1>3

LEMMA AccumulateStep == ConvInv /\ Accumulate => ConvInv'
<1>. SUFFICES ASSUME ConvInv, Accumulate PROVE ConvInv'
  OBVIOUS
<1>. DEFINE sum == sat_add_int32(e.accumulator, e.product)
            t == (e.kernel_h * c.kernel + e.kernel_w) * c.ic + e.in_c
<1>1. /\ state_q = "ACCUMULATE" /\ state_q' = IF e.last_tap THEN "ADD_BIAS" ELSE "READ_TAP"
      /\ e' = [(IF e.last_tap THEN [e EXCEPT !.bias_data = BiasMem(data, e.out_c)] ELSE NextTap)
                 EXCEPT !.accumulator = sum.value]
      /\ done_o' = FALSE /\ written' = written
      /\ c' = c /\ data' = data /\ golden' = golden /\ rq' = rq /\ operands' = operands
      /\ state_q \in TapStates
  BY DEF Accumulate, Pulses, pipeVars, TapStates
<1>2. /\ e.out_h \in Below(OutH(c)) /\ e.out_w \in Below(OutW(c)) /\ e.out_c \in Below(c.oc)
      /\ e.kernel_h \in Below(c.kernel) /\ e.kernel_w \in Below(c.kernel) /\ e.in_c \in Below(c.ic)
      /\ e.tap_y \in Int /\ e.tap_x \in Int
      /\ e.tap_y = e.origin_y + e.kernel_h /\ e.tap_x = e.origin_x + e.kernel_w
      /\ e.tap_element = (e.tap_y * c.w + e.tap_x) * c.ic + e.in_c
      /\ e.weight_element = t * c.oc + e.out_c /\ Tap = t
      /\ e.last_tap = LastTap /\ t = (e.kernel_h * c.kernel + e.kernel_w) * c.ic + e.in_c
  BY <1>1, TapFacts DEF ConvInv, OperandsInv, TapInv
<1>3. e.row_advance = RowAdvance(c.w * c.ic) /\ e.origin_y \in Int /\ e.origin_x \in Int
  <2>1. /\ e.row_advance = RowAdvance(c.w * c.ic)
        /\ e.origin_y = e.out_h * c.stride - c.padding /\ e.origin_x = e.out_w * c.stride - c.padding
    BY <1>1 DEF ConvInv, OutputInv, OutputStates, EngineStates
  <2>2. e.out_h \in Int /\ e.out_w \in Int
    BY <1>2 DEF Below
  <2>. QED BY <2>1, <2>2, ConvFacts
<1>4. /\ sum.value \in INT32
      /\ Sums(c, data, e.out_h, e.out_w, e.out_c)[t + 1].value = sum.value
      /\ overflowed' <=> SaturatesBefore(c, data, written)
                           \/ Sums(c, data, e.out_h, e.out_w, e.out_c)[t + 1].overflow
      /\ overflowed' \in BOOLEAN
  BY <1>2, AccumulatedNext
<1>. HIDE DEF sum, t
<1>5. /\ e'.out_h = e.out_h /\ e'.out_w = e.out_w /\ e'.out_c = e.out_c
      /\ e'.output_element = e.output_element
      /\ e'.x_step = e.x_step /\ e'.y_step = e.y_step /\ e'.row_advance = e.row_advance
      /\ e'.origin_y = e.origin_y /\ e'.origin_x = e.origin_x /\ e'.row_base = e.row_base
      /\ e'.patch_base = e.patch_base /\ e'.accumulator = sum.value
      /\ e' = [f \in Registers |-> e'[f]]
  <2>1. e = [f \in Registers |-> e[f]]
    BY DEF ConvInv, ConvTypeOK
  <2>2. CASE e.last_tap
    BY <1>1, <2>1, <2>2 DEF Registers, Cleared
  <2>3. CASE ~e.last_tap
    BY <1>1, <2>1, <2>3, NextTapKeeps DEF Registers, Cleared
  <2>. QED BY <2>2, <2>3
<1>6. ConvTypeOK'
  <2>1. state_q' \in EngineStates
    BY <1>1 DEF EngineStates
  <2>. QED BY <1>1, <1>4, <1>5, <2>1 DEF ConvInv, ConvTypeOK
<1>7. OutputInv'
  <2>1. state_q \in OutputStates /\ state_q' \in OutputStates
    BY <1>1 DEF OutputStates, EngineStates
  <2>. QED BY <1>1, <1>5, <2>1, SameOutput
<1>8. StagesInv'
  BY <1>1 DEF ConvInv, StagesInv
<1>. DEFINE next == e.in_c + 1 < c.ic
            column == e.kernel_w < c.kernel - 1
            last == e.kernel_h = c.kernel - 1 /\ e.kernel_w = c.kernel - 1 /\ e.in_c = c.ic - 1
<1>11. /\ c.kernel \in {1, 3} /\ c.ic \in Nat \ {0} /\ c.oc \in Nat \ {0}
       /\ e.kernel_h \in Below(c.kernel) /\ e.kernel_w \in Below(c.kernel) /\ e.in_c \in Below(c.ic)
       /\ e.out_c \in Below(c.oc) /\ t = (e.kernel_h * c.kernel + e.kernel_w) * c.ic + e.in_c
  BY <1>2, ConvFacts
<1>13. c.kernel \in Nat \ {0} /\ e.kernel_h \in Nat /\ e.kernel_w \in Nat /\ e.in_c \in Nat
  BY <1>11 DEF Below
<1>12. /\ t \in Nat /\ 0 \in Below(c.kernel) /\ 0 \in Below(c.ic)
       /\ t * c.oc + e.out_c + c.oc = (t + 1) * c.oc + e.out_c
  <2>1. t \in Nat /\ 0 \in Below(c.kernel) /\ 0 \in Below(c.ic)
    BY <1>11, <1>13, NextElementPlace DEF Below
  <2>. QED BY <1>11, <2>1, NextRow DEF Below
<1>. HIDE DEF next, column, last
<1>9. CASE e.last_tap
  <2>1. state_q' = "ADD_BIAS" /\ e' = [e EXCEPT !.bias_data = BiasMem(data, e.out_c), !.accumulator = sum.value]
    BY <1>1, <1>9
  <2>2. e'.bias_data = BiasMem(data, e.out_c)
    BY <2>1 DEF ConvInv, ConvTypeOK, Registers, Cleared
  <2>3. t + 1 = Taps(c)
    <3>1. e.kernel_h = c.kernel - 1 /\ e.kernel_w = c.kernel - 1 /\ e.in_c = c.ic - 1
      BY <1>2, <1>9 DEF LastTap
    <3>2. t = ((c.kernel - 1) * c.kernel + (c.kernel - 1)) * c.ic + (c.ic - 1)
      BY <1>11, <3>1
    <3>3. ((c.kernel - 1) * c.kernel + (c.kernel - 1)) * c.ic + (c.ic - 1) + 1 = c.kernel * c.kernel * c.ic
      BY <1>11, <1>13, LastPlace
    <3>. QED BY <3>2, <3>3 DEF Taps
  <2>4. Accumulated(Taps(c))'
    BY <1>1, <1>4, <1>5, <2>3 DEF Accumulated
  <2>5. TapInv' /\ OperandsInv' /\ SumInv'
    BY <1>1, <1>5, <2>1, <2>2, <2>4 DEF TapInv, TapStates, OperandsInv, SumInv
  <2>. QED BY <1>1, <1>6, <1>7, <1>8, <2>5 DEF ConvInv
<1>10. CASE ~e.last_tap
  <2>. DEFINE t_next == (e'.kernel_h * c.kernel + e'.kernel_w) * c.ic + e'.in_c
  <2>1. /\ e'.weight_element = e.weight_element + c.oc
        /\ next => /\ e'.in_c = e.in_c + 1 /\ e'.tap_element = e.tap_element + 1
                   /\ e'.kernel_w = e.kernel_w /\ e'.kernel_h = e.kernel_h
                   /\ e'.tap_y = e.tap_y /\ e'.tap_x = e.tap_x /\ e'.padding = e.padding
        /\ ~next /\ column =>
             /\ e'.in_c = 0 /\ e'.tap_element = e.tap_element + 1
             /\ e'.kernel_w = e.kernel_w + 1 /\ e'.kernel_h = e.kernel_h
             /\ e'.tap_y = e.tap_y /\ e'.tap_x = e.tap_x + 1 /\ e'.padding = Padding(e.tap_y, e.tap_x + 1)
        /\ ~next /\ ~column =>
             /\ e'.in_c = 0 /\ e'.tap_element = e.tap_element + e.row_advance
             /\ e'.kernel_w = 0 /\ e'.kernel_h = e.kernel_h + 1
             /\ e'.tap_y = e.tap_y + 1 /\ e'.tap_x = e.origin_x
             /\ e'.padding = Padding(e.tap_y + 1, e.origin_x)
    BY <1>1, <1>10 DEF NextTap, ConvInv, ConvTypeOK, Registers, Cleared, next, column
  <2>2. ~last
    BY <1>2, <1>10 DEF LastTap, last
  <2>3. /\ e'.kernel_h \in Below(c.kernel) /\ e'.kernel_w \in Below(c.kernel) /\ e'.in_c \in Below(c.ic)
        /\ t_next = t + 1
        /\ e'.tap_y = e.origin_y + e'.kernel_h /\ e'.tap_x = e.origin_x + e'.kernel_w
        /\ e'.padding = Padding(e'.tap_y, e'.tap_x)
        /\ e'.tap_element = (e'.tap_y * c.w + e'.tap_x) * c.ic + e'.in_c
    <3>1. CASE next
      <4>1. e.in_c + 1 \in Below(c.ic)
        BY <1>11, <3>1 DEF next, Below
      <4>2. (e.kernel_h * c.kernel + e.kernel_w) * c.ic + (e.in_c + 1) = t + 1
        BY <1>11, <1>13, NextElementPlace
      <4>3. /\ e'.kernel_h \in Below(c.kernel) /\ e'.kernel_w \in Below(c.kernel) /\ e'.in_c \in Below(c.ic)
            /\ t_next = t + 1
        BY <1>11, <2>1, <3>1, <4>1, <4>2
      <4>4. e'.padding = Padding(e'.tap_y, e'.tap_x)
        BY <1>1, <2>1, <3>1, TapFacts
      <4>5. e'.tap_y = e.origin_y + e'.kernel_h /\ e'.tap_x = e.origin_x + e'.kernel_w
        BY <1>2, <2>1, <3>1
      <4>6. e'.tap_element = (e'.tap_y * c.w + e'.tap_x) * c.ic + e'.in_c
        <5>1. e.in_c \in Nat
          BY <1>2 DEF Below
        <5>2. (e.tap_y * c.w + e.tap_x) * c.ic + e.in_c + 1 = (e.tap_y * c.w + e.tap_x) * c.ic + (e.in_c + 1)
          BY <1>2, <5>1, ConvFacts
        <5>. QED BY <1>2, <2>1, <3>1, <5>2
      <4>. QED BY <4>3, <4>4, <4>5, <4>6
    <3>2. CASE ~next /\ column
      <4>1. e.kernel_w + 1 \in Below(c.kernel) /\ e.in_c = c.ic - 1
        BY <1>11, <3>2 DEF next, column, Below
      <4>2. (e.kernel_h * c.kernel + (e.kernel_w + 1)) * c.ic + 0 = t + 1
        <5>1. t = (e.kernel_h * c.kernel + e.kernel_w) * c.ic + (c.ic - 1)
          BY <1>11, <4>1
        <5>2. (e.kernel_h * c.kernel + (e.kernel_w + 1)) * c.ic + 0
                = (e.kernel_h * c.kernel + e.kernel_w) * c.ic + (c.ic - 1) + 1
          <6>1. c.ic \in Nat \ {0}
            BY <1>11
          <6>2. PICK p \in Nat : p = e.kernel_h * c.kernel + e.kernel_w
            BY <1>13
          <6>3. e.kernel_h * c.kernel + (e.kernel_w + 1) = p + 1
            BY <1>13, <6>2
          <6>4. (p + 1) * c.ic = p * c.ic + c.ic /\ p * c.ic \in Nat
            BY <6>1
          <6>5. (p + 1) * c.ic + 0 = p * c.ic + (c.ic - 1) + 1
            BY <6>1, <6>4
          <6>. QED BY <6>2, <6>3, <6>5
        <5>. QED BY <5>1, <5>2
      <4>3. /\ e'.kernel_h \in Below(c.kernel) /\ e'.kernel_w \in Below(c.kernel) /\ e'.in_c \in Below(c.ic)
            /\ t_next = t + 1
        BY <1>11, <1>12, <2>1, <3>2, <4>1, <4>2
      <4>4. e'.padding = Padding(e'.tap_y, e'.tap_x)
        BY <2>1, <3>2
      <4>5. e'.tap_y = e.origin_y + e'.kernel_h /\ e'.tap_x = e.origin_x + e'.kernel_w
        BY <1>2, <1>3, <1>11, <2>1, <3>2 DEF Below
      <4>6. e'.tap_element = (e'.tap_y * c.w + e'.tap_x) * c.ic + e'.in_c
        <5>1. (e.tap_y * c.w + e.tap_x) * c.ic + (c.ic - 1) + 1 = (e.tap_y * c.w + (e.tap_x + 1)) * c.ic + 0
          <6>1. e.tap_y \in Int /\ e.tap_x \in Int /\ c.w \in Nat /\ c.ic \in Nat
            BY <1>2, ConvFacts
          <6>. QED BY <6>1, NextColumnAddress
        <5>. QED BY <1>2, <2>1, <3>2, <4>1, <5>1
      <4>. QED BY <4>3, <4>4, <4>5, <4>6
    <3>3. CASE ~next /\ ~column
      <4>1. e.in_c = c.ic - 1 /\ e.kernel_w = c.kernel - 1
        BY <1>11, <3>3 DEF next, column, Below
      <4>2. c.kernel = 3 /\ e.kernel_h + 1 \in Below(c.kernel)
        BY <1>11, <2>2, <4>1 DEF last, Below
      <4>3. ((e.kernel_h + 1) * c.kernel + 0) * c.ic + 0 = t + 1
        <5>1. t = (e.kernel_h * c.kernel + (c.kernel - 1)) * c.ic + (c.ic - 1)
          BY <1>11, <4>1
        <5>2. ((e.kernel_h + 1) * c.kernel + 0) * c.ic + 0
                = (e.kernel_h * c.kernel + (c.kernel - 1)) * c.ic + (c.ic - 1) + 1
          BY <1>11, <1>13, NextRowPlace
        <5>. QED BY <5>1, <5>2
      <4>4. /\ e'.kernel_h \in Below(c.kernel) /\ e'.kernel_w \in Below(c.kernel) /\ e'.in_c \in Below(c.ic)
            /\ t_next = t + 1
        BY <1>12, <2>1, <3>3, <4>2, <4>3
      <4>5. e'.padding = Padding(e'.tap_y, e'.tap_x)
        BY <2>1, <3>3
      <4>6. e'.tap_y = e.origin_y + e'.kernel_h /\ e'.tap_x = e.origin_x + e'.kernel_w
        BY <1>2, <1>3, <1>11, <2>1, <3>3 DEF Below
      <4>7. e'.tap_element = (e'.tap_y * c.w + e'.tap_x) * c.ic + e'.in_c
        <5>1. e.tap_x = e.origin_x + 2
          BY <1>2, <4>1, <4>2
        <5>2. e.row_advance = c.w * c.ic - c.ic - c.ic - c.ic + 1
          BY <1>3, <4>2 DEF RowAdvance
        <5>3. (e.tap_y * c.w + (e.origin_x + 2)) * c.ic + (c.ic - 1) + (c.w * c.ic - c.ic - c.ic - c.ic + 1)
                = ((e.tap_y + 1) * c.w + e.origin_x) * c.ic + 0
          <6>1. e.tap_y \in Int /\ e.origin_x \in Int /\ c.w \in Nat /\ c.ic \in Nat
            BY <1>2, <1>3, ConvFacts
          <6>. QED BY <6>1, NextRowAddress
        <5>. QED BY <1>2, <2>1, <3>3, <4>1, <5>1, <5>2, <5>3
      <4>. QED BY <4>4, <4>5, <4>6, <4>7
    <3>. QED BY <3>1, <3>2, <3>3
  <2>4. Tap' = t + 1
    BY <1>1, <2>3 DEF Tap
  <2>5. e'.weight_element = (t + 1) * c.oc + e.out_c
    BY <1>2, <1>12, <2>1
  <2>6. Padding(e.tap_y, e.tap_x)' = Padding(e'.tap_y, e'.tap_x)
    BY <1>1 DEF Padding
  <2>7. state_q' = "READ_TAP"
    BY <1>1, <1>10
  <2>. HIDE DEF t_next
  <2>8. TapInv'
    BY <1>1, <1>5, <2>3, <2>4, <2>5, <2>6 DEF TapInv
  <2>9. Accumulated(Tap)'
    BY <1>1, <1>4, <1>5, <2>4 DEF Accumulated
  <2>10. OperandsInv' /\ SumInv'
    BY <2>7, <2>9 DEF OperandsInv, SumInv
  <2>. QED BY <1>1, <1>6, <1>7, <1>8, <2>8, <2>10 DEF ConvInv
<1>. QED BY <1>9, <1>10

LEMMA AddBiasStep == ConvInv /\ AddBias => ConvInv'
<1>. SUFFICES ASSUME ConvInv, AddBias PROVE ConvInv'
  OBVIOUS
<1>. DEFINE sum == sat_add_int32(e.accumulator, e.bias_data)
            biased == WithBias(c, data, e.out_h, e.out_w, e.out_c)
            total == Sums(c, data, e.out_h, e.out_w, e.out_c)[Taps(c)]
<1>1. /\ state_q = "ADD_BIAS" /\ state_q' = "REQUANT_MUL" /\ done_o' = FALSE /\ written' = written
      /\ overflowed' = (overflowed \/ sum.overflow)
      /\ c' = c /\ data' = data /\ golden' = golden /\ rq' = rq /\ operands' = operands
  BY DEF AddBias, Pulses, pipeVars
<1>2. /\ e'.out_h = e.out_h /\ e'.out_w = e.out_w /\ e'.out_c = e.out_c
      /\ e'.output_element = e.output_element
      /\ e'.x_step = e.x_step /\ e'.y_step = e.y_step /\ e'.row_advance = e.row_advance
      /\ e'.origin_y = e.origin_y /\ e'.origin_x = e.origin_x /\ e'.row_base = e.row_base
      /\ e'.patch_base = e.patch_base /\ e'.accumulator = sum.value /\ e'.last_output = LastOutput
      /\ e' = [f \in Registers |-> e'[f]]
  <2>. HIDE DEF sum
  <2>1. e' = [e EXCEPT !.accumulator = sum.value, !.last_output = LastOutput]
    BY DEF AddBias, sum
  <2>. QED BY <2>1 DEF ConvInv, ConvTypeOK, Registers, Cleared
<1>3. e.out_h \in Below(OutH(c)) /\ e.out_w \in Below(OutW(c)) /\ e.out_c \in Below(c.oc)
  BY <1>1 DEF ConvInv, OutputInv
<1>4. /\ e.accumulator = total.value /\ e.bias_data = BiasMem(data, e.out_c)
      /\ overflowed <=> SaturatesBefore(c, data, written) \/ total.overflow
  BY <1>1 DEF ConvInv, OperandsInv, SumInv, Accumulated
<1>5. sum = biased
  BY <1>4 DEF WithBias
<1>6. sum.value \in INT32
  <2>1. e.bias_data \in INT32
    BY <1>3, <1>4, Contents, ConvFacts
  <2>2. e.bias_data \in Int
    BY <2>1, Constants DEF INT32, INT32_MIN
  <2>. QED BY <2>2, ConvFacts, SumIsAccumulator
<1>. HIDE DEF sum, total, biased
<1>7. ConvTypeOK'
  <2>1. overflowed' \in BOOLEAN
    BY <1>1
  <2>. QED BY <1>1, <1>2, <1>6, <2>1 DEF ConvInv, ConvTypeOK, EngineStates
<1>8. OutputInv'
  <2>1. state_q \in OutputStates /\ state_q' \in OutputStates
    BY <1>1 DEF OutputStates, EngineStates
  <2>. QED BY <1>1, <1>2, <2>1, SameOutput
<1>9. Complete'
  <2>1. Saturates(c, data, e.out_h, e.out_w, e.out_c) = (total.overflow \/ biased.overflow)
    BY Zenon DEF Saturates, total, biased
  <2>2. overflowed' <=> SaturatesBefore(c, data, written) \/ Saturates(c, data, e.out_h, e.out_w, e.out_c)
    BY <1>1, <1>4, <1>5, <2>1
  <2>3. e'.accumulator = WithBias(c, data, e.out_h, e.out_w, e.out_c).value
    BY <1>2, <1>5 DEF biased
  <2>. QED BY <1>1, <1>2, <2>2, <2>3 DEF Complete
<1>10. LastOutput' = LastOutput
  BY <1>1, <1>2 DEF LastOutput
<1>11. TapInv' /\ OperandsInv' /\ SumInv'
  BY <1>1, <1>2, <1>9, <1>10 DEF TapInv, TapStates, OperandsInv, SumInv
<1>12. StagesInv'
  BY <1>1 DEF ConvInv, StagesInv
<1>. QED BY <1>1, <1>7, <1>8, <1>11, <1>12 DEF ConvInv

LEMMA RequantizeStep == ConvInv /\ Requantize => ConvInv'
<1>. SUFFICES ASSUME ConvInv, Requantize PROVE ConvInv'
  OBVIOUS
<1>1. /\ e' = e /\ done_o' = FALSE /\ overflowed' = overflowed /\ c' = c /\ data' = data
      /\ golden' = golden /\ written' = written
  BY ConvFacts DEF Requantize, NoPulses, Pulses
<1>2. /\ state_q \in {"REQUANT_MUL", "REQUANT_ROUND_ADD", "REQUANT_SHIFT"}
      /\ state_q' \in {"REQUANT_ROUND_ADD", "REQUANT_SHIFT", "WRITE_OUTPUT"}
  BY DEF Requantize
<1>3. ConvTypeOK'
  BY <1>1, <1>2 DEF ConvInv, ConvTypeOK, EngineStates
<1>4. OutputInv'
  <2>1. state_q \in OutputStates /\ state_q' \in OutputStates
    BY <1>2 DEF OutputStates, EngineStates
  <2>. QED BY <1>1, <2>1, SameOutput
<1>5. Complete' /\ e'.last_output = LastOutput'
  BY <1>1, <1>2 DEF ConvInv, SumInv, Complete, LastOutput
<1>6. TapInv' /\ OperandsInv' /\ SumInv'
  BY <1>2, <1>5 DEF TapInv, TapStates, OperandsInv, SumInv
<1>7. StagesInv'
  BY <1>1 DEF ConvInv, StagesInv, Requantize, Multiply, RoundAdd, Shift, RequantMul, RequantRoundAdd,
              RequantShift
<1>. QED BY <1>1, <1>3, <1>4, <1>6, <1>7 DEF ConvInv

(* The patch of the next column, and of the next row.                        *)
LEMMA NextPatch ==
  ASSUME NEW y \in Int, NEW x \in Int, NEW w \in Nat, NEW ic \in Nat, NEW s \in Nat
  PROVE  /\ (y * w + x) * ic + s * ic = (y * w + (x + s)) * ic
         /\ (y * w - x) * ic + s * (w * ic) = ((y + s) * w - x) * ic
<1>. DEFINE p == y * w
            q == s * w
<1>1. p \in Int /\ q \in Int /\ (y + s) * w = p + q /\ s * (w * ic) = q * ic
  OBVIOUS
<1>2. (y * w + x) * ic + s * ic = (y * w + (x + s)) * ic
  <2>. HIDE DEF p
  <2>1. (p + x) * ic + s * ic = (p + (x + s)) * ic
    BY <1>1
  <2>. QED BY <2>1 DEF p
<1>. HIDE DEF p, q
<1>3. (p - x) * ic + q * ic = (p + q - x) * ic
  BY <1>1
<1>. QED BY <1>1, <1>2, <1>3 DEF p

(* The registers that the next output leaves alone or counts up.             *)
LEMMA NextOutputKeeps ==
  ASSUME e = [f \in Registers |-> e[f]]
  PROVE  /\ NextOutput.output_element = e.output_element + 1 /\ NextOutput.accumulator = 0
         /\ NextOutput.x_step = e.x_step /\ NextOutput.y_step = e.y_step
         /\ NextOutput.row_advance = e.row_advance
         /\ NextOutput = [f \in Registers |-> NextOutput[f]]
<1>1. CASE e.out_c + 1 < c.oc
  BY <1>1 DEF NextOutput, Registers, Cleared
<1>2. CASE ~(e.out_c + 1 < c.oc) /\ e.out_w + 1 < OutW(c)
  BY <1>2 DEF NextOutput, Registers, Cleared
<1>3. CASE ~(e.out_c + 1 < c.oc) /\ ~(e.out_w + 1 < OutW(c))
  BY <1>3 DEF NextOutput, Registers, Cleared
<1>. QED BY <1>1, <1>2, <1>3

LEMMA WriteOutputStep == ConvInv /\ WriteOutput => ConvInv'
<1>. SUFFICES ASSUME ConvInv, WriteOutput PROVE ConvInv'
  OBVIOUS
<1>1. /\ state_q = "WRITE_OUTPUT" /\ state_q' = IF e.last_output THEN "IDLE" ELSE "PREPARE_OUTPUT"
      /\ e' = IF e.last_output THEN e ELSE NextOutput
      /\ done_o' = e.last_output /\ written' = written + 1
      /\ overflowed' = overflowed /\ c' = c /\ data' = data /\ golden' = golden
      /\ rq'.valid = "none"
  BY ConvFacts DEF WriteOutput, OutputWrite, Pulses, Clear, RequantClear
<1>2. state_q # "IDLE" /\ state_q \in OutputStates
  BY <1>1 DEF OutputStates, EngineStates
<1>. DEFINE n == (e.out_h * OutW(c) + e.out_w) * c.oc + e.out_c
<1>3. /\ e.out_h \in Below(OutH(c)) /\ e.out_w \in Below(OutW(c)) /\ e.out_c \in Below(c.oc)
      /\ e.output_element = n /\ written = n /\ n \in Nat
  <2>1. /\ e.out_h \in Below(OutH(c)) /\ e.out_w \in Below(OutW(c)) /\ e.out_c \in Below(c.oc)
        /\ e.output_element = n /\ written = e.output_element
    BY <1>2 DEF ConvInv, OutputInv
  <2>. QED BY <2>1, ConvFacts, OutputPlace
<1>4. overflowed <=> SaturatesBefore(c, data, n) \/ Saturates(c, data, e.out_h, e.out_w, e.out_c)
  BY <1>1, <1>3 DEF ConvInv, SumInv, Complete
<1>5. overflowed <=> SaturatesBefore(c, data, n + 1)
  <2>1. SaturatesBefore(c, data, n + 1)
          <=> SaturatesBefore(c, data, n) \/ Saturates(c, data, e.out_h, e.out_w, e.out_c)
    BY <1>3, ConvFacts, SaturatesNext
  <2>. QED BY <1>4, <2>1
<1>6. e.last_output = LastOutput /\ e = [f \in Registers |-> e[f]]
  BY <1>1 DEF ConvInv, SumInv, ConvTypeOK
<1>7. StagesInv'
  BY <1>1 DEF StagesInv
<1>8. TapInv' /\ OperandsInv'
  BY <1>1 DEF TapInv, TapStates, OperandsInv
<1>. DEFINE oh == e.out_h
            ow == e.out_w
            ch == e.out_c
<1>9. /\ OutH(c) \in Nat \ {0} /\ OutW(c) \in Nat \ {0} /\ c.oc \in Nat \ {0}
      /\ oh \in Nat /\ ow \in Nat /\ ch \in Nat
      /\ oh <= OutH(c) - 1 /\ ow <= OutW(c) - 1 /\ ch <= c.oc - 1
  BY <1>3, ConvFacts DEF Below
<1>10. CASE e.last_output
  <2>1. state_q' = "IDLE" /\ e' = e /\ done_o' = TRUE
    BY <1>1, <1>10, <1>6 DEF LastOutput
  <2>2. n + 1 = OutElements(c)
    <3>1. oh = OutH(c) - 1 /\ ow = OutW(c) - 1 /\ ch = c.oc - 1
      BY <1>6, <1>10 DEF LastOutput
    <3>2. n = ((OutH(c) - 1) * OutW(c) + (OutW(c) - 1)) * c.oc + (c.oc - 1)
      BY <3>1
    <3>3. ((OutH(c) - 1) * OutW(c) + (OutW(c) - 1)) * c.oc + (c.oc - 1) + 1 = OutH(c) * OutW(c) * c.oc
      BY <1>9, LastPlace
    <3>. HIDE DEF n
    <3>. QED BY <3>2, <3>3 DEF OutElements
  <2>. HIDE DEF n
  <2>3. ConvTypeOK'
    BY <1>1, <2>1, ConvFacts DEF ConvInv, ConvTypeOK, EngineStates
  <2>4. overflowed' = golden.overflow
    <3>1. golden.overflow = (\E oh_ \in Below(OutH(c)), ow_ \in Below(OutW(c)), ch_ \in Below(c.oc) :
                               Saturates(c, data, oh_, ow_, ch_))
      BY GoldenPoints DEF ConvInv
    <3>2. SaturatesBefore(c, data, OutElements(c)) <=>
            \E oh_ \in Below(OutH(c)), ow_ \in Below(OutW(c)), ch_ \in Below(c.oc) : Saturates(c, data, oh_, ow_, ch_)
      BY ConvFacts, SaturatesAll
    <3>. DEFINE all == \E oh_ \in Below(OutH(c)), ow_ \in Below(OutW(c)), ch_ \in Below(c.oc) :
                         Saturates(c, data, oh_, ow_, ch_)
    <3>. HIDE DEF all
    <3>3. golden.overflow = all /\ (SaturatesBefore(c, data, OutElements(c)) <=> all)
      BY <3>1, <3>2 DEF all
    <3>4. overflowed <=> all
      BY <1>5, <2>2, <3>3
    <3>5. all \in BOOLEAN
      BY DEF all
    <3>. QED BY <1>1, <3>3, <3>4, <3>5, ConvFacts
  <2>5. OutputInv' /\ SumInv'
    BY <2>1 DEF OutputInv, OutputStates, SumInv, TapStates
  <2>6. written' = OutElements(c)
    BY <1>1, <1>3, <2>2
  <2>. QED BY <1>1, <1>7, <1>8, <2>1, <2>3, <2>4, <2>5, <2>6 DEF ConvInv
<1>11. CASE ~e.last_output
  <2>. DEFINE channel == ch + 1 < c.oc
              column == ow + 1 < OutW(c)
              n_next == (e'.out_h * OutW(c) + e'.out_w) * c.oc + e'.out_c
              row == e.row_base + e.y_step
  <2>1. /\ state_q' = "PREPARE_OUTPUT" /\ done_o' = FALSE /\ e' = NextOutput
    BY <1>1, <1>11, <1>6 DEF LastOutput
  <2>2. /\ e'.output_element = n + 1 /\ e'.accumulator = 0
        /\ e'.x_step = e.x_step /\ e'.y_step = e.y_step /\ e'.row_advance = e.row_advance
        /\ e' = [f \in Registers |-> e'[f]]
    BY <1>3, <1>6, <2>1, NextOutputKeeps
  <2>3. /\ channel => /\ e'.out_c = ch + 1 /\ e'.out_w = ow /\ e'.out_h = oh
                      /\ e'.row_base = e.row_base /\ e'.patch_base = e.patch_base
                      /\ e'.origin_y = e.origin_y /\ e'.origin_x = e.origin_x
        /\ ~channel /\ column =>
             /\ e'.out_c = 0 /\ e'.out_w = ow + 1 /\ e'.out_h = oh
             /\ e'.row_base = e.row_base /\ e'.patch_base = e.patch_base + e.x_step
             /\ e'.origin_y = e.origin_y /\ e'.origin_x = e.origin_x + c.stride
        /\ ~channel /\ ~column =>
             /\ e'.out_c = 0 /\ e'.out_w = 0 /\ e'.out_h = oh + 1
             /\ e'.row_base = row /\ e'.patch_base = row
             /\ e'.origin_y = e.origin_y + c.stride
             /\ e'.origin_x = IF c.padding = 1 THEN -1 ELSE 0
    BY <1>6, <2>1 DEF NextOutput, Registers, Cleared
  <2>4. /\ e.x_step = c.stride * c.ic /\ e.y_step = c.stride * (c.w * c.ic)
        /\ e.row_advance = RowAdvance(c.w * c.ic)
        /\ e.origin_y = oh * c.stride - c.padding
        /\ e.origin_x = ow * c.stride - c.padding
        /\ e.row_base = (e.origin_y * c.w - c.padding) * c.ic
        /\ e.patch_base = (e.origin_y * c.w + e.origin_x) * c.ic
    BY <1>2 DEF ConvInv, OutputInv
  <2>5. e.origin_y \in Int /\ e.origin_x \in Int
    BY <1>9, <2>4, ConvFacts
  <2>6. ~(oh = OutH(c) - 1 /\ ow = OutW(c) - 1 /\ ch = c.oc - 1)
    BY <1>6, <1>11 DEF LastOutput
  <2>7. /\ ~channel => ch = c.oc - 1
        /\ ~column => ow = OutW(c) - 1
        /\ channel => ch + 1 \in Below(c.oc)
        /\ column => ow + 1 \in Below(OutW(c))
        /\ ~channel /\ ~column => oh + 1 \in Below(OutH(c))
        /\ 0 \in Below(c.oc) /\ 0 \in Below(OutW(c))
    <3>. HIDE DEF oh, ow, ch
    <3>. QED BY <1>9, <2>6 DEF Below
  <2>. HIDE DEF channel, column, row, oh, ow, ch
  <2>8. /\ e'.out_h \in Below(OutH(c)) /\ e'.out_w \in Below(OutW(c)) /\ e'.out_c \in Below(c.oc)
    BY <1>3, <2>3, <2>7 DEF oh, ow, ch
  <2>9. n_next = n + 1
    <3>1. n = (oh * OutW(c) + ow) * c.oc + ch
      BY DEF oh, ow, ch
    <3>. HIDE DEF n
    <3>2. CASE channel
      <4>1. (oh * OutW(c) + ow) * c.oc + (ch + 1) = (oh * OutW(c) + ow) * c.oc + ch + 1
        BY <1>9, NextElementPlace
      <4>. QED BY <2>3, <3>1, <3>2, <4>1
    <3>3. CASE ~channel /\ column
      <4>1. (oh * OutW(c) + (ow + 1)) * c.oc + 0 = (oh * OutW(c) + ow) * c.oc + (c.oc - 1) + 1
        BY <1>9, NextColumnPlace
      <4>. QED BY <2>3, <2>7, <3>1, <3>3, <4>1
    <3>4. CASE ~channel /\ ~column
      <4>1. ((oh + 1) * OutW(c) + 0) * c.oc + 0 = (oh * OutW(c) + (OutW(c) - 1)) * c.oc + (c.oc - 1) + 1
        BY <1>9, NextRowPlace
      <4>. QED BY <2>3, <2>7, <3>1, <3>4, <4>1
    <3>. QED BY <3>2, <3>3, <3>4
  <2>10. /\ e'.origin_y = e'.out_h * c.stride - c.padding
         /\ e'.origin_x = e'.out_w * c.stride - c.padding
    <3>1. c.stride \in Nat /\ c.padding \in {0, 1}
      BY ConvFacts
    <3>2. (oh + 1) * c.stride = oh * c.stride + c.stride /\ (ow + 1) * c.stride = ow * c.stride + c.stride
      BY <1>9, <3>1
    <3>3. (IF c.padding = 1 THEN -1 ELSE 0) = 0 * c.stride - c.padding
      BY <3>1
    <3>4. CASE channel
      BY <2>3, <2>4, <3>4
    <3>5. CASE ~channel /\ column
      BY <1>9, <2>3, <2>4, <3>1, <3>2, <3>5
    <3>6. CASE ~channel /\ ~column
      BY <1>9, <2>3, <2>4, <3>1, <3>2, <3>3, <3>6
    <3>. QED BY <3>4, <3>5, <3>6
  <2>11. /\ e'.row_base = (e'.origin_y * c.w - c.padding) * c.ic
         /\ e'.patch_base = (e'.origin_y * c.w + e'.origin_x) * c.ic
    <3>1. c.stride \in Nat /\ c.padding \in {0, 1} /\ c.w \in Nat /\ c.ic \in Nat /\ c.padding \in Int
      BY ConvFacts
    <3>2. (e.origin_y * c.w + e.origin_x) * c.ic + c.stride * c.ic
            = (e.origin_y * c.w + (e.origin_x + c.stride)) * c.ic
      BY <2>5, <3>1, NextPatch
    <3>3. (e.origin_y * c.w - c.padding) * c.ic + c.stride * (c.w * c.ic)
            = ((e.origin_y + c.stride) * c.w - c.padding) * c.ic
      BY <2>5, <3>1, NextPatch
    <3>4. CASE channel
      BY <2>3, <2>4, <3>4
    <3>5. CASE ~channel /\ column
      BY <2>3, <2>4, <3>2, <3>5
    <3>6. CASE ~channel /\ ~column
      <4>1. e'.row_base = (e'.origin_y * c.w - c.padding) * c.ic /\ e'.patch_base = e'.row_base
        BY <2>3, <2>4, <3>3, <3>6 DEF row
      <4>2. e'.origin_x = -c.padding
        BY <2>3, <3>1, <3>6
      <4>3. e'.origin_y * c.w \in Int
        BY <2>3, <2>5, <3>1, <3>6
      <4>4. e'.origin_y * c.w + e'.origin_x = e'.origin_y * c.w - c.padding
        BY <3>1, <4>2, <4>3
      <4>. QED BY <4>1, <4>4
    <3>. QED BY <3>4, <3>5, <3>6
  <2>. HIDE DEF n_next
  <2>12. OutputInv'
    <3>1. (/\ e.out_h \in Below(OutH(c)) /\ e.out_w \in Below(OutW(c)) /\ e.out_c \in Below(c.oc)
           /\ e.output_element = (e.out_h * OutW(c) + e.out_w) * c.oc + e.out_c
           /\ written = e.output_element)'
      BY <1>1, <1>3, <2>2, <2>8, <2>9 DEF n_next
    <3>2. RowAdvance(c.w * c.ic)' = RowAdvance(c.w * c.ic)
      BY <1>1 DEF RowAdvance
    <3>3. (/\ e.x_step = c.stride * c.ic /\ e.y_step = c.stride * (c.w * c.ic)
           /\ e.row_advance = RowAdvance(c.w * c.ic)
           /\ e.origin_y = e.out_h * c.stride - c.padding
           /\ e.origin_x = e.out_w * c.stride - c.padding
           /\ e.row_base = (e.origin_y * c.w - c.padding) * c.ic
           /\ e.patch_base = (e.origin_y * c.w + e.origin_x) * c.ic)'
      BY <1>1, <2>2, <2>4, <2>10, <2>11, <3>2
    <3>. QED BY <2>1, <3>1, <3>3 DEF OutputInv
  <2>13. Accumulated(0)'
    <3>1. Sums(c, data, e'.out_h, e'.out_w, e'.out_c)[0] = NoSum
      BY ConvFacts, SumStarts
    <3>2. NoSum.value = 0 /\ NoSum.overflow = FALSE
      BY DEF NoSum
    <3>3. written' = n + 1
      BY <1>1, <1>3
    <3>. HIDE DEF n
    <3>. QED BY <1>1, <1>5, <2>2, <3>1, <3>2, <3>3 DEF Accumulated
  <2>14. SumInv'
    BY <2>1, <2>13 DEF SumInv, TapStates
  <2>15. ConvTypeOK'
    <3>1. 0 \in INT32
      BY Constants DEF INT32, INT32_MIN
    <3>. QED BY <1>1, <2>1, <2>2, <3>1, ConvFacts DEF ConvInv, ConvTypeOK, EngineStates
  <2>. QED BY <1>1, <1>7, <1>8, <2>1, <2>12, <2>14, <2>15 DEF ConvInv
<1>. QED BY <1>10, <1>11, ConvFacts

-----------------------------------------------------------------------------
(* The addresses are those of the place in the six loops, the accumulator is  *)
(* the golden model's sum up to there, the requantizer is at the stage of the *)
(* state, and done comes after the last output.                              *)
THEOREM ConvInvariance == ConvSpec => []ConvInv
<1>1. ConvInv /\ [ConvNext]_convVars => ConvInv'
  <2>. SUFFICES ASSUME ConvInv, [ConvNext]_convVars PROVE ConvInv'
    OBVIOUS
  <2>1. CASE UNCHANGED convVars
    <3>1. /\ state_q' = state_q /\ c' = c /\ data' = data /\ e' = e /\ rq' = rq /\ operands' = operands
          /\ done_o' = done_o /\ golden' = golden /\ written' = written /\ overflowed' = overflowed
      BY <2>1 DEF convVars, pipeVars
    <3>2. ConvTypeOK' /\ OutputInv' /\ StagesInv'
      BY <3>1 DEF ConvInv, ConvTypeOK, OutputInv, StagesInv, RowAdvance
    <3>3. TapInv' /\ OperandsInv'
      BY <3>1 DEF ConvInv, TapInv, OperandsInv, Tap, Padding, LastTap
    <3>4. SumInv'
      BY <3>1 DEF ConvInv, SumInv, Accumulated, Complete, Tap, LastOutput
    <3>. QED BY <3>1, <3>2, <3>3, <3>4 DEF ConvInv
  <2>2. CASE ConvNext
    BY <2>2, StartStep, IdleStep, AddrInitStep, PrepareOutputStep, ReadTapStep, MacProductStep,
       AccumulateStep, AddBiasStep, RequantizeStep, WriteOutputStep, AbortStep DEF ConvNext, ConvClock
  <2>. QED BY <2>1, <2>2
<1>. QED BY <1>1, InitConvInv, PTL DEF ConvSpec

(* The engine drives the requantizer as PipeSpec says.                       *)
THEOREM ConvImplementsPipeline == ConvSpec => PipeSpec
<1>1. ConvInit => PipeInit
  BY DEF ConvInit
<1>2. ConvInv /\ [ConvNext]_convVars => [PipeNext]_pipeVars
  <2>. SUFFICES ASSUME ConvInv, [ConvNext]_convVars PROVE [PipeNext]_pipeVars
    OBVIOUS
  <2>1. CASE Requantize
    <3>1. state_q = "REQUANT_MUL" => rq.valid = "none"
      BY DEF ConvInv, StagesInv
    <3>2. e.accumulator \in INT32 /\ c.multiplier \in Multipliers /\ c.shift \in Shifts
      BY ConvFacts, ConvTypes
    <3>. QED BY <2>1, <3>1, <3>2 DEF Requantize, PipeNext
  <2>2. CASE WriteOutput \/ Abort
    BY <2>2 DEF WriteOutput, Abort, PipeNext
  <2>3. CASE Start \/ Idle \/ AddrInit \/ PrepareOutput \/ ReadTap
    BY <2>3 DEF Start, Idle, AddrInit, PrepareOutput, ReadTap
  <2>4. CASE MacProduct \/ Accumulate \/ AddBias
    BY <2>4 DEF MacProduct, Accumulate, AddBias
  <2>5. CASE UNCHANGED convVars
    BY <2>5 DEF convVars
  <2>. QED BY <2>1, <2>2, <2>3, <2>4, <2>5 DEF ConvNext, ConvClock
<1>. QED BY <1>1, <1>2, ConvInvariance, PTL DEF ConvSpec, PipeSpec

(* Every byte that the convolution engine writes is the golden model's output  *)
(* for that place, from reads inside the packets, and done comes after the    *)
(* last one with the golden model's warning: for every size, kernel, stride,  *)
(* padding, rescaling and content that is admitted.                          *)
THEOREM WritesAreGoldenHolds == ConvSpec => []WritesAreGolden
<1>1. ConvInv /\ ResultIsGolden => WritesAreGolden
  <2>. SUFFICES ASSUME ConvInv, ResultIsGolden PROVE WritesAreGolden
    OBVIOUS
  <2>1. ASSUME state_q = "READ_TAP"
        PROVE  /\ e.weight_element \in Below(Taps(c) * c.oc)
               /\ ~e.padding => e.tap_element \in Below(c.h * c.w * c.ic)
    <3>. DEFINE t == (e.kernel_h * c.kernel + e.kernel_w) * c.ic + e.in_c
                y == e.out_h * c.stride - c.padding + e.kernel_h
                x == e.out_w * c.stride - c.padding + e.kernel_w
                a == (y * c.w + x) * c.ic + e.in_c
    <3>1. state_q \in TapStates
      BY <2>1 DEF TapStates
    <3>2. /\ e.tap_y = y /\ e.tap_x = x /\ e.padding = Padding(y, x) /\ e.tap_element = a
          /\ e.weight_element = t * c.oc + e.out_c
      BY <3>1, TapFacts
    <3>3. /\ t * c.oc + e.out_c \in Below(Taps(c) * c.oc)
          /\ ~Padding(y, x) => a \in Below(c.h * c.w * c.ic)
      BY <3>1, TapFacts, ConvFacts, TermAt
    <3>. HIDE DEF t, y, x, a
    <3>. QED BY <3>2, <3>3
  <2>2. ASSUME OutputWrite
        PROVE  /\ e.output_element = written
               /\ OutputData = golden.output[written \div (OutW(c) * c.oc)][(written \div c.oc) % OutW(c)]
                                            [written % c.oc]
    <3>. DEFINE n == (e.out_h * OutW(c) + e.out_w) * c.oc + e.out_c
    <3>1. /\ state_q = "WRITE_OUTPUT" /\ rq.valid = "requantized"
          /\ operands = << e.accumulator, c.multiplier, c.shift >>
          /\ e.accumulator = WithBias(c, data, e.out_h, e.out_w, e.out_c).value
      BY <2>2 DEF OutputWrite, ConvInv, StagesInv, SumInv, Complete
    <3>2. /\ e.out_h \in Below(OutH(c)) /\ e.out_w \in Below(OutW(c)) /\ e.out_c \in Below(c.oc)
          /\ e.output_element = n /\ written = e.output_element
      BY <3>1 DEF ConvInv, OutputInv
    <3>3. c.relu \in BOOLEAN
      BY ConvFacts, ConvTypes
    <3>4. OutputData = relu_and_saturate_int8(requantize(e.accumulator, c.multiplier, c.shift), c.relu)
      BY <3>1, <3>3 DEF OutputData, ResultIsGolden, Golden
    <3>5. golden.output[e.out_h][e.out_w][e.out_c] =
            relu_and_saturate_int8(
              requantize(WithBias(c, data, e.out_h, e.out_w, e.out_c).value, c.multiplier, c.shift), c.relu)
      BY <3>2, GoldenPoints DEF ConvInv
    <3>6. n \div (OutW(c) * c.oc) = e.out_h /\ (n \div c.oc) % OutW(c) = e.out_w /\ n % c.oc = e.out_c
      BY <3>2, ConvFacts, OutputPlace
    <3>. HIDE DEF n
    <3>. QED BY <3>1, <3>2, <3>4, <3>5, <3>6
  <2>. QED BY <2>1, <2>2 DEF WritesAreGolden, ConvInv
<1>. QED BY <1>1, ConvInvariance, ConvImplementsPipeline, RtlRequantIsGolden, PTL

(* Where a patch lies: at most the padding outside the image.                *)
LEMMA PatchBounds ==
  ASSUME NEW dim \in Nat \ {0}, NEW p \in {0, 1}, NEW k \in {1, 3}, NEW s \in {1, 2},
         dim + 2 * p >= k,
         NEW i \in Below(conv_output_dim(dim, p, k, s)), NEW j \in Below(k)
  PROVE  i \in Nat /\ i * s \in Nat /\ -1 <= i * s - p + j /\ i * s - p + j <= dim
<1>1. i * s + j \in Below(dim + 2 * p)
  BY OutputDim
<1>2. i \in Nat /\ j \in Nat
  <2>1. conv_output_dim(dim, p, k, s) \in Nat
    BY OutputDim
  <2>. QED BY <2>1 DEF Below
<1>3. PICK m \in Nat : m = i * s
  BY <1>2
<1>4. m + j <= dim + 2 * p - 1
  BY <1>1, <1>2, <1>3 DEF Below
<1>. QED BY <1>2, <1>3, <1>4

LEMMA Larger ==
  ASSUME NEW a \in Int, NEW b \in Int, NEW r \in Nat, a <= b
  PROVE  a * r <= b * r
  OBVIOUS

(* The size of a tensor bounds its factors.                                  *)
LEMMA Factors ==
  ASSUME NEW h \in Nat \ {0}, NEW w \in Nat \ {0}, NEW i \in Nat \ {0}, NEW cap \in Nat, h * w * i <= cap
  PROVE  /\ w * i \in Nat /\ w * i <= cap /\ h * (w * i) \in Nat /\ h * (w * i) <= cap
         /\ h <= cap /\ w <= cap
<1>1. PICK row \in Nat \ {0} : row = w * i
  OBVIOUS
<1>2. h * row = h * w * i
  BY <1>1
<1>3. row <= h * row /\ h <= h * row /\ h * row \in Nat
  <2>1. 1 * row <= h * row
    BY Larger
  <2>2. h <= h * row
    <3>1. 1 * h <= row * h
      BY Larger
    <3>. QED BY <3>1
  <2>. QED BY <2>1, <2>2
<1>4. w <= row
  <2>1. 1 * w <= i * w
    BY Larger
  <2>. QED BY <1>1, <2>1
<1>. QED BY <1>1, <1>2, <1>3, <1>4

LEMMA InputBytesNat == InputBytes \in Nat
  BY DEF InputBytes

LEMMA SumFits ==
  ASSUME NEW row \in Nat, NEW ic \in Nat, NEW a \in Int, NEW b \in Int, NEW i \in Int, 0 <= i, i <= ic,
         row <= InputBytes, ic <= MaxInChannels, -row <= a, a <= InputBytes, -ic <= b, b <= row
  PROVE  Signed17(a + b + i)
  BY DEF Signed17, InputBytes, MaxInChannels

(* An element of the image or of a padding next to it, counted from the first *)
(* of the image.                                                            *)
LEMMA ElementFits ==
  ASSUME NEW h \in Nat \ {0}, NEW w \in Nat \ {0}, NEW ic \in Nat \ {0}, h * w * ic <= InputBytes, ic <= MaxInChannels,
         NEW y \in Int, -1 <= y, y <= h, NEW x \in Int, -1 <= x, x <= w, NEW i \in Int, 0 <= i, i <= ic
  PROVE  Signed17((y * w + x) * ic + i)
<1>1. PICK row \in Nat : row = w * ic
  OBVIOUS
<1>2. row <= InputBytes /\ h * row <= InputBytes
  BY <1>1, Factors, InputBytesNat
<1>3. PICK a \in Int : a = y * row
  OBVIOUS
<1>4. PICK b \in Int : b = x * ic
  OBVIOUS
<1>5. (y * w + x) * ic = a + b
  BY <1>1, <1>3, <1>4
<1>6. -row <= a /\ a <= InputBytes
  <2>1. (-1) * row <= y * row /\ y * row <= h * row
    BY Larger
  <2>. QED BY <1>2, <1>3, <2>1, InputBytesNat
<1>7. -ic <= b /\ b <= row
  <2>1. (-1) * ic <= x * ic /\ x * ic <= w * ic
    BY Larger
  <2>. QED BY <1>1, <1>4, <2>1
<1>8. Signed17(a + b + i)
  BY <1>2, <1>6, <1>7, SumFits, Zenon
<1>. QED BY <1>5, <1>8

(* No address of the engine is wider than its register: neither in the image  *)
(* nor in the padding around it, for all that the buffers can hold.          *)
THEOREM RegistersFitHolds == ConvSpec => []RegistersFit
<1>1. ConvInv => RegistersFit
  <2>. SUFFICES ASSUME ConvInv PROVE RegistersFit
    OBVIOUS
  <2>1. /\ c \in ConvConfigs /\ data \in Datas
        /\ c.h \in Nat \ {0} /\ c.w \in Nat \ {0} /\ c.ic \in Nat \ {0} /\ c.oc \in Nat \ {0}
        /\ c.kernel \in {1, 3} /\ c.stride \in {1, 2} /\ c.padding \in {0, 1}
        /\ c.h + 2 * c.padding >= c.kernel /\ c.w + 2 * c.padding >= c.kernel
    BY ConvFacts, ConvTypes
  <2>2. /\ c.h * c.w * c.ic <= InputBytes /\ c.ic <= MaxInChannels
        /\ Taps(c) * c.oc <= WeightBytes /\ OutElements(c) <= OutputBytes
    BY <2>1, CapsAssumption
  <2>3. c.w * c.ic \in Nat /\ c.w * c.ic <= InputBytes
    BY <2>1, <2>2, Factors, InputBytesNat
  <2>4. ASSUME state_q # "IDLE" PROVE Unsigned14(e.output_element)
    <3>1. e.output_element \in Below(OutElements(c))
      <4>1. /\ e.out_h \in Below(OutH(c)) /\ e.out_w \in Below(OutW(c)) /\ e.out_c \in Below(c.oc)
            /\ e.output_element = (e.out_h * OutW(c) + e.out_w) * c.oc + e.out_c
        BY <2>4 DEF ConvInv, OutputInv
      <4>. QED BY <2>1, <4>1, OutputPlace
    <3>2. OutElements(c) \in Nat
      BY <2>1, ConvTypes
    <3>. QED BY <2>2, <3>1, <3>2 DEF Below, Unsigned14, OutputBytes
  <2>5. ASSUME state_q \in OutputStates
        PROVE  /\ Unsigned13(c.ic) /\ Unsigned15(c.w * c.ic)
               /\ Unsigned14(e.x_step) /\ Unsigned16(e.y_step)
               /\ \A x \in {e.row_advance, e.row_base, e.patch_base, e.origin_y, e.origin_x} :
                    Signed17(x)
    <3>1. /\ e.x_step = c.stride * c.ic /\ e.y_step = c.stride * (c.w * c.ic)
          /\ e.row_advance = RowAdvance(c.w * c.ic)
          /\ e.origin_y = e.out_h * c.stride - c.padding
          /\ e.origin_x = e.out_w * c.stride - c.padding
          /\ e.row_base = (e.origin_y * c.w - c.padding) * c.ic
          /\ e.patch_base = (e.origin_y * c.w + e.origin_x) * c.ic
          /\ e.out_h \in Below(OutH(c)) /\ e.out_w \in Below(OutW(c))
      BY <2>5 DEF ConvInv, OutputInv, OutputStates
    <3>2. PICK row \in Nat : row = c.w * c.ic /\ row <= InputBytes
      BY <2>3
    <3>3. PICK ic \in Nat : ic = c.ic /\ ic <= MaxInChannels
      BY <2>1, <2>2
    <3>4. Unsigned13(c.ic) /\ Unsigned15(c.w * c.ic)
      BY <3>2, <3>3 DEF Unsigned13, Unsigned15, InputBytes, MaxInChannels
    <3>5. Unsigned14(e.x_step) /\ Unsigned16(e.y_step)
      <4>1. e.x_step = c.stride * ic /\ e.y_step = c.stride * row
        BY <3>1, <3>2, <3>3
      <4>2. CASE c.stride = 1
        BY <3>2, <3>3, <4>1, <4>2 DEF Unsigned14, Unsigned16, InputBytes, MaxInChannels
      <4>3. CASE c.stride = 2
        BY <3>2, <3>3, <4>1, <4>3 DEF Unsigned14, Unsigned16, InputBytes, MaxInChannels
      <4>. QED BY <2>1, <4>2, <4>3
    <3>6. Signed17(e.row_advance)
      <4>1. e.row_advance = IF c.kernel = 1 THEN row + 1 ELSE row - ic - ic - ic + 1
        BY <3>1, <3>2, <3>3 DEF RowAdvance
      <4>2. e.row_advance = row + 1 \/ e.row_advance = row - ic - ic - ic + 1
        BY <4>1
      <4>. QED BY <3>2, <3>3, <4>2 DEF Signed17, InputBytes, MaxInChannels
    <3>7. 0 \in Below(c.kernel)
      BY <2>1 DEF Below
    <3>8. /\ e.origin_y \in Int /\ -1 <= e.origin_y /\ e.origin_y <= c.h
          /\ e.origin_x \in Int /\ -1 <= e.origin_x /\ e.origin_x <= c.w
      <4>1. /\ e.out_h \in Nat /\ e.out_h * c.stride \in Nat
            /\ -1 <= e.out_h * c.stride - c.padding + 0 /\ e.out_h * c.stride - c.padding + 0 <= c.h
        BY <2>1, <3>1, <3>7, PatchBounds DEF OutH
      <4>2. /\ e.out_w \in Nat /\ e.out_w * c.stride \in Nat
            /\ -1 <= e.out_w * c.stride - c.padding + 0 /\ e.out_w * c.stride - c.padding + 0 <= c.w
        BY <2>1, <3>1, <3>7, PatchBounds DEF OutW
      <4>. QED BY <2>1, <3>1, <4>1, <4>2
    <3>9. Signed17(e.origin_y) /\ Signed17(e.origin_x)
      <4>1. c.h <= InputBytes /\ c.w <= InputBytes
        BY <2>1, <2>2, Factors, InputBytesNat
      <4>. QED BY <2>1, <3>8, <4>1 DEF Signed17, InputBytes, MaxInChannels
    <3>10. Signed17(e.patch_base)
      <4>1. e.patch_base \in Int
        BY <2>1, <3>1, <3>8
      <4>2. PICK z \in Int : z = 0
        OBVIOUS
      <4>3. 0 <= z /\ z <= c.ic
        BY <2>1, <4>2
      <4>4. Signed17((e.origin_y * c.w + e.origin_x) * c.ic + z)
        BY <2>1, <2>2, <3>8, <4>3, ElementFits, Zenon
      <4>5. (e.origin_y * c.w + e.origin_x) * c.ic + z = e.patch_base
        BY <3>1, <4>1, <4>2
      <4>. QED BY <4>4, <4>5
    <3>11. Signed17(e.row_base)
      <4>1. e.row_base \in Int
        BY <2>1, <3>1, <3>8
      <4>2. PICK z \in Int : z = 0
        OBVIOUS
      <4>3. PICK x \in Int : x = -c.padding
        BY <2>1
      <4>4. -1 <= x /\ x <= c.w /\ 0 <= z /\ z <= c.ic
        BY <2>1, <4>2, <4>3
      <4>5. Signed17((e.origin_y * c.w + x) * c.ic + z)
        BY <2>1, <2>2, <3>8, <4>4, ElementFits, Zenon
      <4>6. e.origin_y * c.w + x = e.origin_y * c.w - c.padding
        BY <2>1, <3>8, <4>3
      <4>7. (e.origin_y * c.w + x) * c.ic + z = e.row_base
        BY <3>1, <4>1, <4>2, <4>6
      <4>. QED BY <4>5, <4>7
    <3>. QED BY <3>4, <3>5, <3>6, <3>9, <3>10, <3>11
  <2>6. ASSUME state_q \in TapStates
        PROVE  /\ \A x \in {e.tap_y, e.tap_x, e.tap_element} : Signed17(x)
               /\ Unsigned16(e.weight_element)
    <3>1. /\ e.out_h \in Below(OutH(c)) /\ e.out_w \in Below(OutW(c)) /\ e.out_c \in Below(c.oc)
          /\ e.kernel_h \in Below(c.kernel) /\ e.kernel_w \in Below(c.kernel) /\ e.in_c \in Below(c.ic)
          /\ e.tap_y = e.out_h * c.stride - c.padding + e.kernel_h
          /\ e.tap_x = e.out_w * c.stride - c.padding + e.kernel_w
          /\ e.tap_y \in Int /\ e.tap_x \in Int
          /\ e.tap_element = (e.tap_y * c.w + e.tap_x) * c.ic + e.in_c
          /\ e.weight_element = Tap * c.oc + e.out_c
          /\ Tap = (e.kernel_h * c.kernel + e.kernel_w) * c.ic + e.in_c
      BY <2>6, TapFacts
    <3>2. -1 <= e.tap_y /\ e.tap_y <= c.h
      BY <2>1, <3>1, PatchBounds DEF OutH
    <3>3. -1 <= e.tap_x /\ e.tap_x <= c.w
      BY <2>1, <3>1, PatchBounds DEF OutW
    <3>4. Signed17(e.tap_y) /\ Signed17(e.tap_x)
      <4>1. c.h <= InputBytes /\ c.w <= InputBytes
        BY <2>1, <2>2, Factors, InputBytesNat
      <4>. QED BY <2>1, <3>1, <3>2, <3>3, <4>1 DEF Signed17, InputBytes, MaxInChannels
    <3>5. e.in_c \in Int /\ 0 <= e.in_c /\ e.in_c <= c.ic
      BY <2>1, <3>1 DEF Below
    <3>6. Signed17(e.tap_element)
      <4>1. Signed17((e.tap_y * c.w + e.tap_x) * c.ic + e.in_c)
        BY <2>1, <2>2, <3>1, <3>2, <3>3, <3>5, ElementFits, Zenon
      <4>. QED BY <3>1, <4>1, Zenon
    <3>7. Unsigned16(e.weight_element)
      <4>1. e.weight_element \in Below(Taps(c) * c.oc)
        BY <2>1, <2>6, <3>1, TermAt
      <4>2. Taps(c) * c.oc \in Nat
        BY <2>1, ConvTypes
      <4>. QED BY <2>2, <4>1, <4>2 DEF Below, Unsigned16, WeightBytes
    <3>. QED BY <3>4, <3>6, <3>7
  <2>7. state_q \in EngineStates
    BY DEF ConvInv, ConvTypeOK
  <2>8. state_q \notin {"IDLE", "ADDR_INIT"} => state_q \in OutputStates
    BY <2>7 DEF OutputStates
  <2>. QED BY <2>4, <2>5, <2>6, <2>8 DEF RegistersFit, TapStates
<1>. QED BY <1>1, ConvInvariance, PTL

-----------------------------------------------------------------------------
(* The second reference, the loop nest on flat arrays.                       *)

(* A place is made of its three indices.                                     *)
LEMMA PlaceOf ==
  ASSUME NEW n \in Nat, NEW d2 \in Nat \ {0}, NEW d3 \in Nat \ {0}
  PROVE  n = ((n \div (d2 * d3)) * d2 + ((n \div d3) % d2)) * d3 + (n % d3)
<1>. DEFINE a == n \div d3
            b == a \div d2
            j == a % d2
            k == n % d3
            q == n \div (d2 * d3)
<1>1. a \in Nat /\ k \in Nat /\ k < d3 /\ n = d3 * a + k
  OBVIOUS
<1>. HIDE DEF a, k
<1>2. b \in Nat /\ j \in Nat /\ j < d2 /\ a = d2 * b + j
  BY <1>1
<1>. HIDE DEF b, j
<1>3. a = b * d2 + j /\ n = a * d3 + k
  BY <1>1, <1>2
<1>4. n = (b * d2 + j) * d3 + k
  BY <1>3
<1>5. q = b
  <2>1. b \in Below(b + 1) /\ j \in Below(d2) /\ k \in Below(d3) /\ b + 1 \in Nat
    BY <1>1, <1>2 DEF Below
  <2>2. ((b * d2 + j) * d3 + k) \div (d2 * d3) = b
    BY <2>1, ThreeIndices
  <2>. QED BY <1>4, <2>2
<1>. HIDE DEF q
<1>6. n = (q * d2 + j) * d3 + k
  BY <1>4, <1>5
<1>. QED BY <1>6 DEF q, a, j, k

(* Its saturation, rounding and clamping are those of the golden model.       *)
LEMMA VecSatIsSat ==
  ASSUME NEW x \in Int
  PROVE  VecSat(x) = sat_int32(x).value
<1>1. sat_int32(x).value = IF x > INT32_MAX THEN INT32_MAX ELSE IF x < INT32_MIN THEN INT32_MIN ELSE x
  BY DEF sat_int32
<1>. QED BY <1>1, Constants DEF VecSat, INT32_MIN

LEMMA VecRequantizeIsRequantize ==
  ASSUME NEW acc \in INT32, NEW m \in Multipliers, NEW n \in Shifts
  PROVE  VecRequantize(acc, m, n) = requantize(acc, m, n) /\ requantize(acc, m, n) \in Int
<1>. DEFINE p == acc * m
            magnitude == IF p < 0 THEN -p ELSE p
<1>1. p \in Int
  <2>1. acc \in Int /\ m \in Int
    BY Constants DEF INT32, INT32_MIN, Multipliers
  <2>. QED BY <2>1
<1>2. VecRequantize(acc, m, n) = IF p < 0 THEN -RoundShift(magnitude, n) ELSE RoundShift(magnitude, n)
  BY DEF VecRequantize, RoundShift
<1>3. requantize(acc, m, n) = IF p >= 0 THEN RoundShift(p, n) ELSE -RoundShift(-p, n)
  BY DEF requantize
<1>. HIDE DEF p
<1>4. RoundShift(magnitude, n) \in Int
  <2>1. magnitude \in Int
    BY <1>1
  <2>2. n # 0 => Pow2[n] \in Nat \ {0} /\ Pow2[n - 1] \in Nat
    BY Constants DEF Shifts
  <2>. HIDE DEF magnitude
  <2>. QED BY <2>1, <2>2 DEF RoundShift
<1>. QED BY <1>1, <1>2, <1>3, <1>4

LEMMA VecClampIsClamp ==
  ASSUME NEW value \in Int, NEW relu \in BOOLEAN
  PROVE  VecClamp(value, relu) = relu_and_saturate_int8(value, relu)
  BY Constants DEF VecClamp, relu_and_saturate_int8, clamp, INT8_MIN

(* The flat arrays that it is given.                                         *)
FlatInput == [i \in Below(c.h * c.w * c.ic) |-> InputMem(data, i)]
FlatWeight == [i \in Below(Taps(c) * c.oc) |-> WeightMem(data, i)]
FlatBias == [i \in Below(c.oc) |-> BiasMem(data, i)]

VecTerm(oh, ow, ch, t) ==
  VecTap(c, FlatInput, FlatWeight, oh, ow, ch, t \div (c.kernel * c.ic), (t \div c.ic) % c.kernel, t % c.ic)

LEMMA VecTermIsTerm ==
  ASSUME c \in ConvConfigs, data \in Datas,
         NEW oh \in Below(OutH(c)), NEW ow \in Below(OutW(c)), NEW ch \in Below(c.oc),
         NEW t \in Below(Taps(c))
  PROVE  VecTerm(oh, ow, ch, t) = Terms(c, data, oh, ow, ch)[t] /\ Terms(c, data, oh, ow, ch)[t] \in Int
<1>. DEFINE kh == t \div (c.kernel * c.ic)
            kw == (t \div c.ic) % c.kernel
            i == t % c.ic
            y == oh * c.stride - c.padding + kh
            x == ow * c.stride - c.padding + kw
            a == (y * c.w + x) * c.ic + i
            b == ((kh * c.kernel + kw) * c.ic + i) * c.oc + ch
<1>1. /\ c.h \in Nat \ {0} /\ c.w \in Nat \ {0} /\ c.ic \in Nat \ {0} /\ c.oc \in Nat \ {0}
      /\ c.kernel \in Nat \ {0} /\ c.stride \in Nat /\ c.padding \in Nat
      /\ oh \in Nat /\ ow \in Nat /\ ch \in Nat /\ t \in Nat
  BY ConvTypes DEF Below
<1>2. kh \in Below(c.kernel) /\ kw \in Below(c.kernel) /\ i \in Below(c.ic)
  <2>1. t \in Below(c.kernel * c.kernel * c.ic) /\ c.kernel \in Nat
    BY <1>1 DEF Taps
  <2>. QED BY <1>1, <2>1, PlaceHasIndices
<1>3. t = (kh * c.kernel + kw) * c.ic + i
  BY <1>1, PlaceOf, Zenon
<1>4. kh \in Nat /\ kw \in Nat /\ i \in Nat
  BY <1>2 DEF Below
<1>. HIDE DEF kh, kw, i
<1>5. /\ b \in Below(Taps(c) * c.oc) /\ y \in Int /\ x \in Int
      /\ ~Padding(y, x) => a \in Below(c.h * c.w * c.ic)
      /\ Terms(c, data, oh, ow, ch)[(kh * c.kernel + kw) * c.ic + i] =
           IF Padding(y, x) THEN 0 ELSE mac_product(InputMem(data, a), WeightMem(data, b))
  BY <1>2, TermAt
<1>6. Terms(c, data, oh, ow, ch)[(kh * c.kernel + kw) * c.ic + i] \in Int
  BY <1>2, TermIsInt
<1>7. oh * c.stride + kh - c.padding = y /\ ow * c.stride + kw - c.padding = x
  BY <1>1, <1>4
<1>. DEFINE inside == 0 <= y /\ y < c.h /\ 0 <= x /\ x < c.w
<1>8. VecTerm(oh, ow, ch, t) = (IF inside THEN FlatInput[a] ELSE 0) * FlatWeight[b]
  BY <1>7 DEF VecTerm, VecTap, kh, kw, i
<1>. HIDE DEF y, x, a, b
<1>9. inside = ~Padding(y, x)
  BY <1>1, <1>5 DEF Padding
<1>10. FlatWeight[b] = WeightMem(data, b) /\ WeightMem(data, b) \in Int
  BY <1>5, Contents DEF FlatWeight
<1>11. VecTerm(oh, ow, ch, t) = Terms(c, data, oh, ow, ch)[(kh * c.kernel + kw) * c.ic + i]
  <2>1. CASE Padding(y, x)
    BY <1>5, <1>8, <1>9, <1>10, <2>1
  <2>2. CASE ~Padding(y, x)
    <3>1. FlatInput[a] = InputMem(data, a)
      BY <1>5, <2>2 DEF FlatInput
    <3>. QED BY <1>5, <1>8, <1>9, <1>10, <2>2, <3>1 DEF mac_product
  <2>. QED BY <2>1, <2>2
<1>. QED BY <1>3, <1>6, <1>11

(* f is the running accumulator that VecPoint defines.                       *)
AreVecSums(f, oh, ow, ch) ==
  f = [t \in 0 .. Taps(c) |-> IF t = 0 THEN 0 ELSE VecSat(f[t - 1] + VecTerm(oh, ow, ch, t - 1))]

(* It is the golden model's sum, term by term.                               *)
LEMMA VecSumsAreSums ==
  ASSUME c \in ConvConfigs, data \in Datas,
         NEW oh \in Below(OutH(c)), NEW ow \in Below(OutW(c)), NEW ch \in Below(c.oc)
  PROVE  /\ \E f : AreVecSums(f, oh, ow, ch)
         /\ \A f : AreVecSums(f, oh, ow, ch) =>
                     f[Taps(c)] = Sums(c, data, oh, ow, ch)[Taps(c)].value
         /\ Sums(c, data, oh, ow, ch)[Taps(c)].value \in INT32
<1>. DEFINE sums == Sums(c, data, oh, ow, ch)
            T == Taps(c)
<1>1. T \in Nat /\ T \in 0 .. T
  BY ConvTypes
<1>2. sums[0].value = 0 /\ 0 \in INT32
  <2>1. sums[0] = NoSum
    BY SumStarts
  <2>. QED BY <2>1, Constants DEF NoSum, INT32, INT32_MIN
<1>3. ASSUME NEW t \in 0 .. (T - 1), sums[t].value \in INT32
      PROVE  sums[t + 1].value = VecSat(sums[t].value + VecTerm(oh, ow, ch, t)) /\ sums[t + 1].value \in INT32
  <2>. DEFINE x == Terms(c, data, oh, ow, ch)[t]
  <2>1. t \in Below(Taps(c))
    BY DEF Below
  <2>2. VecTerm(oh, ow, ch, t) = x /\ x \in Int
    BY <2>1, VecTermIsTerm
  <2>3. sums[t + 1] = AddTerm(sums[t], x)
    BY <2>1, SumGoesOn
  <2>. HIDE DEF x, sums
  <2>4. sums[t + 1].value = sat_add_int32(sums[t].value, x).value
    BY <2>3 DEF AddTerm
  <2>5. sums[t].value \in Int
    BY <1>3, Constants DEF INT32, INT32_MIN
  <2>6. sat_add_int32(sums[t].value, x).value = VecSat(sums[t].value + x)
    BY <2>2, <2>5, VecSatIsSat DEF sat_add_int32
  <2>. QED BY <1>3, <2>2, <2>4, <2>6, SumIsAccumulator
<1>. HIDE DEF sums, T
<1>4. \A t \in 0 .. T : sums[t].value \in INT32
  <2>. DEFINE S == {n \in Nat : n \in 0 .. T => sums[n].value \in INT32}
  <2>1. 0 \in S
    BY <1>2
  <2>2. ASSUME NEW n \in Nat, n \in S PROVE n + 1 \in S
    <3>1. SUFFICES ASSUME n + 1 \in 0 .. T PROVE sums[n + 1].value \in INT32
      OBVIOUS
    <3>2. n \in 0 .. (T - 1) /\ n \in 0 .. T
      BY <1>1, <3>1
    <3>. QED BY <1>3, <2>2, <3>2
  <2>3. Nat \subseteq S
    <3>. HIDE DEF S
    <3>. QED BY <2>1, <2>2, SetInduction
  <2>. QED BY <1>1, <2>3
<1>5. \E f : AreVecSums(f, oh, ow, ch)
  <2>. DEFINE g == [t \in 0 .. T |-> sums[t].value]
  <2>1. ASSUME NEW t \in 0 .. T
        PROVE  g[t] = IF t = 0 THEN 0 ELSE VecSat(g[t - 1] + VecTerm(oh, ow, ch, t - 1))
    <3>1. CASE t = 0
      BY <1>2, <3>1
    <3>2. CASE t # 0
      <4>1. t - 1 \in 0 .. (T - 1) /\ t - 1 \in 0 .. T /\ (t - 1) + 1 = t
        BY <1>1, <3>2
      <4>2. sums[(t - 1) + 1].value = VecSat(sums[t - 1].value + VecTerm(oh, ow, ch, t - 1))
        BY <1>3, <1>4, <4>1
      <4>3. g[t] = sums[t].value /\ g[t - 1] = sums[t - 1].value
        BY <4>1
      <4>. QED BY <3>2, <4>1, <4>2, <4>3
    <3>. QED BY <3>1, <3>2
  <2>2. g = [t \in 0 .. T |-> g[t]]
    OBVIOUS
  <2>. HIDE DEF g
  <2>3. g = [t \in 0 .. T |-> IF t = 0 THEN 0 ELSE VecSat(g[t - 1] + VecTerm(oh, ow, ch, t - 1))]
    BY <2>1, <2>2, Zenon
  <2>4. AreVecSums(g, oh, ow, ch)
    BY <2>3, Zenon DEF AreVecSums, T
  <2>. QED BY <2>4, Zenon
<1>6. ASSUME NEW f, AreVecSums(f, oh, ow, ch)
      PROVE  f[T] = sums[T].value
  <2>1. \A t \in 0 .. T : f[t] = IF t = 0 THEN 0 ELSE VecSat(f[t - 1] + VecTerm(oh, ow, ch, t - 1))
    BY <1>6, Zenon DEF AreVecSums, T
  <2>. DEFINE S == {n \in Nat : n \in 0 .. T => f[n] = sums[n].value}
  <2>2. 0 \in S
    BY <1>2, <2>1
  <2>3. ASSUME NEW n \in Nat, n \in S PROVE n + 1 \in S
    <3>1. SUFFICES ASSUME n + 1 \in 0 .. T PROVE f[n + 1] = sums[n + 1].value
      OBVIOUS
    <3>2. n \in 0 .. (T - 1) /\ n \in 0 .. T /\ n + 1 # 0 /\ (n + 1) - 1 = n
      BY <1>1, <3>1
    <3>3. f[n + 1] = VecSat(f[n] + VecTerm(oh, ow, ch, n))
      BY <2>1, <3>1, <3>2
    <3>4. f[n] = sums[n].value /\ sums[n].value \in INT32
      BY <1>4, <2>3, <3>2
    <3>. QED BY <1>3, <3>2, <3>3, <3>4
  <2>4. Nat \subseteq S
    <3>. HIDE DEF S
    <3>. QED BY <2>2, <2>3, SetInduction
  <2>. QED BY <1>1, <2>4
<1>7. sums[T].value \in INT32
  BY <1>1, <1>4
<1>. QED BY <1>5, <1>6, <1>7 DEF sums, T

(* One value of it is the golden model's output for that place.              *)
LEMMA VecPointIsGolden ==
  ASSUME c \in ConvConfigs, data \in Datas,
         NEW oh \in Below(OutH(c)), NEW ow \in Below(OutW(c)), NEW ch \in Below(c.oc)
  PROVE  VecPoint(c, FlatInput, FlatWeight, FlatBias, oh, ow, ch) =
           relu_and_saturate_int8(
             requantize(WithBias(c, data, oh, ow, ch).value, c.multiplier, c.shift), c.relu)
<1>. DEFINE acc == CHOOSE f : AreVecSums(f, oh, ow, ch)
            sum == Sums(c, data, oh, ow, ch)[Taps(c)].value
            total == WithBias(c, data, oh, ow, ch).value
<1>1. VecPoint(c, FlatInput, FlatWeight, FlatBias, oh, ow, ch) =
        VecClamp(VecRequantize(VecSat(acc[Taps(c)] + FlatBias[ch]), c.multiplier, c.shift), c.relu)
  BY DEF VecPoint, AreVecSums, VecTerm
<1>2. acc[Taps(c)] = sum /\ sum \in INT32
  <2>1. AreVecSums(acc, oh, ow, ch)
    BY VecSumsAreSums
  <2>. HIDE DEF acc
  <2>. QED BY <2>1, VecSumsAreSums
<1>. HIDE DEF acc, sum
<1>3. FlatBias[ch] = BiasMem(data, ch) /\ BiasMem(data, ch) \in INT32
  BY Contents DEF FlatBias
<1>4. sum \in Int /\ BiasMem(data, ch) \in Int
  BY <1>2, <1>3, Constants DEF INT32, INT32_MIN
<1>5. total = sat_add_int32(sum, BiasMem(data, ch)).value
  BY DEF WithBias, sum
<1>. HIDE DEF total
<1>6. VecSat(sum + BiasMem(data, ch)) = total /\ total \in INT32
  <2>1. total \in INT32
    BY <1>2, <1>4, <1>5, SumIsAccumulator
  <2>. QED BY <1>4, <1>5, <2>1, VecSatIsSat DEF sat_add_int32
<1>7. c.multiplier \in Multipliers /\ c.shift \in Shifts /\ c.relu \in BOOLEAN
  BY ConvTypes
<1>8. VecRequantize(total, c.multiplier, c.shift) = requantize(total, c.multiplier, c.shift)
      /\ requantize(total, c.multiplier, c.shift) \in Int
  BY <1>6, <1>7, VecRequantizeIsRequantize
<1>9. VecClamp(requantize(total, c.multiplier, c.shift), c.relu)
        = relu_and_saturate_int8(requantize(total, c.multiplier, c.shift), c.relu)
  BY <1>7, <1>8, VecClampIsClamp
<1>. QED BY <1>1, <1>2, <1>3, <1>6, <1>8, <1>9 DEF total

(* An output of the golden model is an array of arrays of arrays.            *)
LEMMA GoldenIsArray ==
  ASSUME NEW g, g = conv2d_fixed_point(c, InputArray(c, data), WeightArray(c, data), BiasArray(c, data))
  PROVE  g.output = [oh \in Below(OutH(c)) |-> [ow \in Below(OutW(c)) |-> [ch \in Below(c.oc) |->
                       g.output[oh][ow][ch]]]]
<1>. DEFINE padded == _pad_input(c, InputArray(c, data))
            point == [oh \in Below(OutH(c)) |-> [ow \in Below(OutW(c)) |-> [oc \in Below(c.oc) |->
                        ConvPoint(c, padded, WeightArray(c, data), BiasArray(c, data), oh, ow, oc)]]]
            out == [oh \in Below(OutH(c)) |-> [ow \in Below(OutW(c)) |-> [oc \in Below(c.oc) |->
                      point[oh][ow][oc].output]]]
<1>1. g.output = out
  BY Zenon DEF conv2d_fixed_point
<1>. HIDE DEF padded, point
<1>2. \A oh \in Below(OutH(c)), ow \in Below(OutW(c)), ch \in Below(c.oc) :
        out[oh][ow][ch] = point[oh][ow][ch].output
  BY Zenon
<1>3. out = [oh \in Below(OutH(c)) |-> [ow \in Below(OutW(c)) |-> [ch \in Below(c.oc) |->
               out[oh][ow][ch]]]]
  BY <1>2, Zenon
<1>. HIDE DEF out
<1>. QED BY <1>1, <1>3, Zenon

(* The two references of a convolution, the golden model on padded arrays and  *)
(* the vector generator on flat ones, compute the same, for every size, kernel, *)
(* stride, padding, rescaling and content that is admitted.                  *)
THEOREM ReferencesAgreeHolds == ConvSpec => []ReferencesAgree
<1>1. ConvInv => ReferencesAgree
  <2>. SUFFICES ASSUME ConvInv PROVE ReferencesAgree
    OBVIOUS
  <2>. DEFINE expected == VecExpected(c, FlatInput, FlatWeight, FlatBias)
  <2>1. c \in ConvConfigs /\ data \in Datas
    BY ConvFacts
  <2>2. ASSUME NEW oh \in Below(OutH(c)), NEW ow \in Below(OutW(c)), NEW ch \in Below(c.oc)
        PROVE  expected[(oh * OutW(c) + ow) * c.oc + ch] = golden.output[oh][ow][ch]
    <3>. DEFINE n == (oh * OutW(c) + ow) * c.oc + ch
    <3>1. /\ n \in Below(OutElements(c)) /\ n \div (OutW(c) * c.oc) = oh
          /\ (n \div c.oc) % OutW(c) = ow /\ n % c.oc = ch
      BY <2>1, OutputPlace
    <3>. HIDE DEF n
    <3>2. expected[n] = VecPoint(c, FlatInput, FlatWeight, FlatBias, n \div (OutW(c) * c.oc),
                                 (n \div c.oc) % OutW(c), n % c.oc)
      BY <3>1, Zenon DEF VecExpected
    <3>3. expected[n] = VecPoint(c, FlatInput, FlatWeight, FlatBias, oh, ow, ch)
      BY <3>1, <3>2
    <3>4. golden.output[oh][ow][ch] =
            relu_and_saturate_int8(
              requantize(WithBias(c, data, oh, ow, ch).value, c.multiplier, c.shift), c.relu)
      BY GoldenPoints DEF ConvInv
    <3>. QED BY <2>1, <3>3, <3>4, VecPointIsGolden, Zenon DEF n
  <2>3. golden.output = [oh \in Below(OutH(c)) |-> [ow \in Below(OutW(c)) |-> [ch \in Below(c.oc) |->
                           golden.output[oh][ow][ch]]]]
    BY GoldenIsArray DEF ConvInv
  <2>. HIDE DEF expected
  <2>4. Reshape(expected, OutH(c), OutW(c), c.oc) = golden.output
    <3>1. Reshape(expected, OutH(c), OutW(c), c.oc) =
            [oh \in Below(OutH(c)) |-> [ow \in Below(OutW(c)) |-> [ch \in Below(c.oc) |->
               expected[(oh * OutW(c) + ow) * c.oc + ch]]]]
      BY Zenon DEF Reshape
    <3>. QED BY <2>2, <2>3, <3>1, Zenon
  <2>. QED BY <2>4, Zenon DEF ReferencesAgree, expected, FlatInput, FlatWeight, FlatBias
<1>. QED BY <1>1, ConvInvariance, PTL

-----------------------------------------------------------------------------
(* What ComputeEngines sees of a step.                                       *)
LEMMA EngineStep ==
  ASSUME NEW starts \in {{}, {"conv"}}, NEW finished \in SUBSET (IF state_q = "IDLE" THEN {} ELSE {"conv"}),
         (IF state_q' = "IDLE" THEN {} ELSE {"conv"})
           = ((IF state_q = "IDLE" THEN {} ELSE {"conv"}) \ finished)
               \cup (starts \ (IF state_q = "IDLE" THEN {} ELSE {"conv"})),
         (IF done_o' THEN {"conv"} ELSE {}) = finished,
         (IF overflow_event_o' THEN {"conv"} ELSE {})
           \in SUBSET (((IF state_q = "IDLE" THEN {} ELSE {"conv"}) \ finished) \ {"residual"})
  PROVE  \E starts_ \in {{}, {"conv"}}, abort \in BOOLEAN : Engines!EnginesClock(starts_, abort)
<1>1. Engines!EnginesWork(starts)
  BY DEF Engines!EnginesWork
<1>2. Engines!EnginesClock(starts, FALSE)
  BY <1>1 DEF Engines!EnginesClock
<1>. QED BY <1>2

(* Every cycle of the engine is one that the model of the top level lets the  *)
(* convolution engine do.                                                    *)
THEOREM ImplementsEngineHolds == ConvSpec => ImplementsEngine
<1>. DEFINE Clock == \E starts \in {{}, {"conv"}}, abort \in BOOLEAN : Engines!EnginesClock(starts, abort)
<1>1. [ConvNext]_convVars => [Clock]_convVars
  <2>. SUFFICES ASSUME ConvNext PROVE Clock
    OBVIOUS
  <2>1. CASE Start
    <3>1. /\ state_q = "IDLE" /\ state_q' = "ADDR_INIT" /\ done_o' = FALSE /\ overflow_event_o' = FALSE
      BY <2>1 DEF Start
    <3>. QED BY <3>1, EngineStep
  <2>2. CASE Idle
    <3>1. /\ state_q = "IDLE" /\ state_q' = "IDLE" /\ done_o' = FALSE /\ overflow_event_o' = FALSE
      BY <2>2 DEF Idle, NoPulses, Pulses
    <3>. QED BY <3>1, EngineStep
  <2>3. CASE AddrInit \/ PrepareOutput \/ ReadTap \/ MacProduct \/ Accumulate \/ AddBias \/ Requantize
    <3>1. state_q # "IDLE" /\ state_q' # "IDLE" /\ done_o' = FALSE
      BY <2>3 DEF AddrInit, PrepareOutput, ReadTap, MacProduct, Accumulate, AddBias, Requantize,
                  NoPulses, Pulses
    <3>. QED BY <3>1, EngineStep
  <2>4. CASE WriteOutput
    <3>1. /\ state_q # "IDLE" /\ overflow_event_o' = FALSE /\ done_o' = e.last_output
          /\ state_q' = IF e.last_output THEN "IDLE" ELSE "PREPARE_OUTPUT"
      BY <2>4 DEF WriteOutput, OutputWrite, Pulses
    <3>2. CASE e.last_output
      BY <3>1, <3>2, EngineStep
    <3>3. CASE ~e.last_output
      BY <3>1, <3>3, EngineStep
    <3>. QED BY <3>2, <3>3
  <2>5. CASE Abort
    <3>1. state_q' = "IDLE" /\ done_o' = FALSE /\ overflow_event_o' = FALSE
      BY <2>5 DEF Abort
    <3>2. Engines!EnginesClock({}, TRUE)
      BY <3>1 DEF Engines!EnginesClock, Engines!EnginesAbort
    <3>. QED BY <3>2
  <2>. QED BY <2>1, <2>2, <2>3, <2>4, <2>5 DEF ConvNext, ConvClock
<1>. QED BY <1>1, PTL DEF ConvSpec, ImplementsEngine
=============================================================================

---------------------------- MODULE GoldenModel ----------------------------
(***************************************************************************)
(* The bit-exact reference computations: conv2d_fixed_point and             *)
(* global_avg_pool_fixed_point of golden_fixed_point.py, on arrays of arrays *)
(* indexed from 0, and the second reference for convolutions, the flat loop nest    *)
(* of generate_full_conv_vector.py.  A configuration c is a record of the   *)
(* fields h, w, ic, oc, kernel, stride, padding, relu, multiplier, shift.   *)
(***************************************************************************)
EXTENDS FixedPoint

Below(n) == 0 .. (n - 1)

OutH(c) == conv_output_dim(c.h, c.padding, c.kernel, c.stride)
OutW(c) == conv_output_dim(c.w, c.padding, c.kernel, c.stride)
OutElements(c) == OutH(c) * OutW(c) * c.oc
Taps(c) == c.kernel * c.kernel * c.ic

(* tobytes and reshape: an array of the dimensions d1 x d2 x d3 is stored    *)
(* with its last index running fastest.                                     *)
Reshape(flat, d1, d2, d3) ==
  [i \in Below(d1) |-> [j \in Below(d2) |-> [k \in Below(d3) |-> flat[(i * d2 + j) * d3 + k]]]]

-----------------------------------------------------------------------------
(* Mutant: the padding is added at the lower end only.                      *)
_pad_input_Shifted(c, input) ==
  [y \in Below(c.h + 2 * c.padding) |-> [x \in Below(c.w + 2 * c.padding) |-> [ic \in Below(c.ic) |->
     IF y \in Below(c.h) /\ x \in Below(c.w) THEN input[y][x][ic] ELSE 0]]]

_pad_input(c, input) ==
  [y \in Below(c.h + 2 * c.padding) |-> [x \in Below(c.w + 2 * c.padding) |-> [ic \in Below(c.ic) |->
     IF y - c.padding \in Below(c.h) /\ x - c.padding \in Below(c.w)
     THEN input[y - c.padding][x - c.padding][ic] ELSE 0]]]

(* The saturating sums of the first terms, up to all n of them, and whether  *)
(* a step saturated.                                                        *)
NoSum == [value |-> 0, overflow |-> FALSE]

AddTerm(before, x) ==
  LET s == sat_add_int32(before.value, x)
  IN  [value |-> s.value, overflow |-> s.overflow \/ before.overflow]

SaturatingSums(term, n) ==
  LET sum[t \in 0 .. n] == IF t = 0 THEN NoSum ELSE AddTerm(sum[t - 1], term[t - 1])
  IN  sum

SaturatingSum(term, n) == SaturatingSums(term, n)[n]

(* One output element: taps in the order kernel row, column, channel, then   *)
(* the bias, each addition saturating.  weight is HWIO.                      *)
ConvTerms(c, padded, weight, oh, ow, oc) ==
  LET row(t) == t \div (c.kernel * c.ic)
      col(t) == (t \div c.ic) % c.kernel
  IN  [t \in Below(Taps(c)) |->
         mac_product(padded[oh * c.stride + row(t)][ow * c.stride + col(t)][t % c.ic],
                     weight[row(t)][col(t)][t % c.ic][oc])]

ConvPoint(c, padded, weight, bias, oh, ow, oc) ==
  LET macs == SaturatingSum(ConvTerms(c, padded, weight, oh, ow, oc), Taps(c))
      acc == sat_add_int32(macs.value, bias[oc])
      q == requantize(acc.value, c.multiplier, c.shift)
  IN  [output |-> relu_and_saturate_int8(q, c.relu), overflow |-> macs.overflow \/ acc.overflow]

conv2d_fixed_point(c, input, weight, bias) ==
  LET padded == _pad_input(c, input)
      point == [oh \in Below(OutH(c)) |-> [ow \in Below(OutW(c)) |-> [oc \in Below(c.oc) |->
                  ConvPoint(c, padded, weight, bias, oh, ow, oc)]]]
  IN  [output |-> [oh \in Below(OutH(c)) |-> [ow \in Below(OutW(c)) |-> [oc \in Below(c.oc) |->
                     point[oh][ow][oc].output]]],
       overflow |-> \E oh \in Below(OutH(c)), ow \in Below(OutW(c)), oc \in Below(c.oc) :
                      point[oh][ow][oc].overflow]

(* The sum over the positions of each channel; no ReLU.                     *)
GapTerms(c, input, ch) == [t \in Below(c.h * c.w) |-> input[t \div c.w][t % c.w][ch]]

GapPoint(c, input, ch) ==
  LET sum == SaturatingSum(GapTerms(c, input, ch), c.h * c.w)
  IN  [output |-> relu_and_saturate_int8(requantize(sum.value, c.multiplier, c.shift), FALSE),
       overflow |-> sum.overflow]

global_avg_pool_fixed_point(c, input) ==
  LET point == [ch \in Below(c.ic) |-> GapPoint(c, input, ch)]
  IN  [output |-> [ch \in Below(c.ic) |-> point[ch].output],
       overflow |-> \E ch \in Below(c.ic) : point[ch].overflow]

-----------------------------------------------------------------------------
(* generate_full_conv_vector.py: the same on flat arrays, with the padding    *)
(* decided by the coordinates, and its own rounding and clamping.            *)
VecRequantize(accumulator, multiplier, shift) ==
  LET product == accumulator * multiplier
      magnitude == IF product < 0 THEN -product ELSE product
      shifted == IF shift = 0 THEN magnitude ELSE (magnitude + Pow2[shift - 1]) \div Pow2[shift]
  IN  IF product < 0 THEN -shifted ELSE shifted

VecClamp(value, relu) ==
  LET rectified == IF relu /\ value < 0 THEN 0 ELSE value
  IN  CASE rectified < INT8_MIN -> INT8_MIN
        [] rectified > INT8_MAX -> INT8_MAX
        [] OTHER -> rectified

VecSat(value) ==
  IF value < INT32_MIN THEN INT32_MIN ELSE IF value > INT32_MAX THEN INT32_MAX ELSE value

VecTap(c, input, weight, oh, ow, oc, kh, kw, ic) ==
  LET iy == oh * c.stride + kh - c.padding
      ix == ow * c.stride + kw - c.padding
      inside == 0 <= iy /\ iy < c.h /\ 0 <= ix /\ ix < c.w
  IN  (IF inside THEN input[((iy * c.w) + ix) * c.ic + ic] ELSE 0)
        * weight[(((kh * c.kernel) + kw) * c.ic + ic) * c.oc + oc]

VecPoint(c, input, weight, bias, oh, ow, oc) ==
  LET acc[t \in 0 .. Taps(c)] ==
        IF t = 0 THEN 0
        ELSE VecSat(acc[t - 1] + VecTap(c, input, weight, oh, ow, oc, (t - 1) \div (c.kernel * c.ic),
                                        ((t - 1) \div c.ic) % c.kernel, (t - 1) % c.ic))
  IN  VecClamp(VecRequantize(VecSat(acc[Taps(c)] + bias[oc]), c.multiplier, c.shift), c.relu)

(* The output values in the order in which they are appended.                *)
VecExpected(c, input, weight, bias) ==
  [e \in Below(OutElements(c)) |->
     VecPoint(c, input, weight, bias, e \div (OutW(c) * c.oc), (e \div c.oc) % OutW(c), e % c.oc)]
=============================================================================

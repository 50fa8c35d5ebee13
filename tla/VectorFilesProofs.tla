-------------------------- MODULE VectorFilesProofs --------------------------
(***************************************************************************)
(* What VectorFiles promises, proved for every set of scripts and of seeds   *)
(* and for any number of runs.                                               *)
(***************************************************************************)
EXTENDS VectorFiles, SequenceTheorems, TLAPS

-----------------------------------------------------------------------------
(* The tensors of the scripts: the network written down once more, by the    *)
(* stage of a block and not by the call that computes it.                    *)

StageOf(b) == IF b <= 3 THEN 1 ELSE IF b <= 6 THEN 2 ELSE 3
Side(b) == IF StageOf(b) = 1 THEN 32 ELSE IF StageOf(b) = 2 THEN 16 ELSE 8
Width(b) == IF StageOf(b) = 1 THEN 16 ELSE IF StageOf(b) = 2 THEN 32 ELSE 64

(* Every block of a stage adds on the scale on which its first one does.     *)
StageScale(b) ==
  IF StageOf(b) = 1 THEN Stem ELSE IF StageOf(b) = 2 THEN Part(4, "conv2") ELSE Part(7, "conv2")

Pixel == << 0, "pixel" >>
Square(n, channels) == << n, n, channels >>
Quantized(scale, shape) == [scale |-> scale, shape |-> shape]

BlockTensor(at, side, width, scale) ==
  Quantized(IF at[2] = "conv1" THEN at ELSE scale, Square(side, width))

BackboneTensor(at) ==
  CASE at = Stem -> Quantized(Stem, Square(32, 16))
    [] at[1] \in 1 .. 9 -> BlockTensor(at, Side(at[1]), Width(at[1]), StageScale(at[1]))
    [] at = Gap -> Quantized(StageScale(9), Square(1, 64))
    [] at = Fc -> Quantized(Fc, Square(1, FC_OUT_CHANNELS_PADDED))
    [] OTHER -> Quantized(Input, Square(32, 3))

GapFcTensor(at) ==
  CASE at = Fc -> Quantized(Fc, Square(1, FC_OUT_CHANNELS_PADDED))
    [] at = Input -> Quantized(Input, Square(8, 64))
    [] at = << 0, "fc_kernel1" >> -> Quantized(at, Square(1, 4))
    [] OTHER -> Quantized(Input, Square(1, 64))

Tensor(script, at) ==
  CASE at = Pixel -> Quantized(Input, Square(1, 4))
    [] at # Pixel /\ script = "stage1_conv" ->
         IF at = Input THEN Quantized(Input, Square(32, 3)) ELSE Quantized(at, Square(32, 16))
    [] at # Pixel /\ script = "identity" ->
         IF at = Input THEN Quantized(Input, Square(32, 16))
         ELSE BlockTensor(at, 32, 16, Part(1, "conv2"))
    [] at # Pixel /\ script = "projection" ->
         IF at = Input THEN Quantized(Input, Square(32, 16))
         ELSE BlockTensor(at, 16, 32, Part(1, "conv2"))
    [] at # Pixel /\ script = "stage3_backbone" -> BackboneTensor(at)
    [] at # Pixel /\ script = "stage3_gap_fc" -> GapFcTensor(at)

-----------------------------------------------------------------------------
(* A list of calls that can be made one after the other.                     *)

PartNames ==
  {"input", "self", "pixel", "conv", "stem", "conv1", "conv2", "shortcut", "rescaled", "add", "gap", "fc",
   "all_zero", "all_max", "all_min", "fc_kernel1"}
Nodes == Int \X PartNames
LayerRecords ==
  [ic : Int, oc : Int, kernel : Int, stride : Int, padding : Int, relu : BOOLEAN]
CallRecords ==
  [op : {"conv", "gap", "add", "rescale"}, at : Nodes, from : Nodes, layer : LayerRecords, target : Nodes]

Net(script) == [n \in Nodes |-> Tensor(script, n)]

(* The call computes the network's tensor, legally for the accelerator, and  *)
(* adds what is on one scale; a shortcut is a convolution.                   *)
GoodCall(script, call) ==
  /\ call \in CallRecords
  /\ Output(call, Net(script)) = Tensor(script, call.at)
  /\ call.op # "rescale" => Rtl!Legal(RegistersOf(call, Net(script)))
  /\ call.op = "add" => Tensor(script, call.from) = Tensor(script, call.target)
  /\ call.at[2] = "shortcut" => call.op = "conv"

(* What it reads is there.                                                   *)
Reads(call, known) ==
  /\ call.from \in known
  /\ call.target \in known \/ (call.target = Self /\ call.op \in {"conv", "gap"})

Ats(s) == {s[i].at : i \in DOMAIN s}
Before(s, known, i) == known \cup {s[j].at : j \in 1 .. i - 1}

Ready(script, s, known) ==
  /\ s \in Seq(CallRecords)
  /\ \A i \in DOMAIN s : GoodCall(script, s[i]) /\ Reads(s[i], Before(s, known, i))

Makes(s, op, at) == \E i \in DOMAIN s : s[i].op = op /\ s[i].at = at

(* What is in two lists is in the one made of them.                          *)
Joins(s, t, st) ==
  /\ Ats(st) = Ats(s) \cup Ats(t)
  /\ \A op, at : Makes(s, op, at) \/ Makes(t, op, at) => Makes(st, op, at)

LEMMA ReadyMore ==
  ASSUME NEW script, NEW s, NEW known, NEW more, known \subseteq more, Ready(script, s, known)
  PROVE  Ready(script, s, more)
BY DEF Ready, Reads, Before

LEMMA ReadyConcat ==
  ASSUME NEW script, NEW s, NEW t, NEW known,
         Ready(script, s, known), Ready(script, t, known \cup Ats(s))
  PROVE  Ready(script, s \o t, known) /\ Joins(s, t, s \o t)
<1> DEFINE st == s \o t
<1>1. s \in Seq(CallRecords) /\ t \in Seq(CallRecords)
  BY DEF Ready
<1>2. /\ st \in Seq(CallRecords) /\ Len(st) = Len(s) + Len(t)
      /\ \A i \in 1 .. Len(s) : st[i] = s[i]
      /\ \A i \in 1 .. Len(t) : st[Len(s) + i] = t[i]
      /\ DOMAIN st = 1 .. Len(s) + Len(t) /\ DOMAIN s = 1 .. Len(s) /\ DOMAIN t = 1 .. Len(t)
      /\ Len(s) \in Nat /\ Len(t) \in Nat
  BY <1>1
<1> HIDE DEF st
<1>3. ASSUME NEW i \in DOMAIN st, i \notin DOMAIN s
      PROVE  i - Len(s) \in DOMAIN t /\ st[i] = t[i - Len(s)]
  <2>1. i - Len(s) \in 1 .. Len(t) /\ Len(s) + (i - Len(s)) = i
    BY <1>2, <1>3
  <2>2. st[Len(s) + (i - Len(s))] = t[i - Len(s)]
    BY <2>1, <1>2
  <2> QED
    BY <2>1, <2>2, <1>2
<1>4. Ats(st) = Ats(s) \cup Ats(t)
  <2>1. ASSUME NEW i \in DOMAIN st
        PROVE  st[i].at \in Ats(s) \cup Ats(t)
    <3>1. CASE i \in DOMAIN s
      BY <3>1, <1>2 DEF Ats
    <3>2. CASE i \notin DOMAIN s
      <4> DEFINE k == i - Len(s)
      <4>1. k \in DOMAIN t /\ st[i] = t[k]
        BY <3>2, <1>3
      <4> QED
        BY <4>1 DEF Ats
    <3> QED
      BY <3>1, <3>2
  <2>2. ASSUME NEW i \in DOMAIN s
        PROVE  s[i].at \in Ats(st)
    <3>1. i \in DOMAIN st /\ st[i] = s[i]
      BY <1>2
    <3> QED
      BY <3>1 DEF Ats
  <2>3. ASSUME NEW i \in DOMAIN t
        PROVE  t[i].at \in Ats(st)
    <3>1. Len(s) + i \in DOMAIN st /\ st[Len(s) + i] = t[i]
      BY <1>2
    <3> QED
      BY <3>1 DEF Ats
  <2> QED
    BY <2>1, <2>2, <2>3 DEF Ats
<1>5. ASSUME NEW op, NEW at, Makes(s, op, at) \/ Makes(t, op, at)
      PROVE  Makes(st, op, at)
  <2>1. CASE Makes(s, op, at)
    BY <2>1, <1>2 DEF Makes
  <2>2. CASE Makes(t, op, at)
    <3>1. PICK i \in DOMAIN t : t[i].op = op /\ t[i].at = at
      BY <2>2 DEF Makes
    <3>2. Len(s) + i \in DOMAIN st /\ st[Len(s) + i] = t[i]
      BY <1>2
    <3> QED
      BY <3>1, <3>2 DEF Makes
  <2> QED
    BY <1>5, <2>1, <2>2
<1>6. ASSUME NEW i \in DOMAIN st
      PROVE  GoodCall(script, st[i]) /\ Reads(st[i], Before(st, known, i))
  <2>1. CASE i \in DOMAIN s
    <3>1. Before(st, known, i) = Before(s, known, i)
      <4>1. \A j \in 1 .. i - 1 : st[j] = s[j]
        BY <2>1, <1>2
      <4> QED
        BY <4>1 DEF Before
    <3> QED
      BY <2>1, <3>1, <1>2 DEF Ready
  <2>2. CASE i \notin DOMAIN s
    <3> DEFINE k == i - Len(s)
    <3>1. k \in DOMAIN t /\ st[i] = t[k]
      BY <2>2, <1>3
    <3>2. Before(t, known \cup Ats(s), k) \subseteq Before(st, known, i)
      <4>1. ASSUME NEW n \in Ats(s)
            PROVE  \E j \in 1 .. i - 1 : st[j].at = n
        <5>1. PICK j \in DOMAIN s : s[j].at = n
          BY DEF Ats
        <5>2. j \in 1 .. i - 1 /\ st[j] = s[j]
          BY <2>2, <1>2
        <5> QED
          BY <5>1, <5>2
      <4>2. ASSUME NEW j \in 1 .. k - 1
            PROVE  Len(s) + j \in 1 .. i - 1 /\ st[Len(s) + j] = t[j]
        BY <3>1, <1>2
      <4>3. \A j \in 1 .. k - 1 : \E l \in 1 .. i - 1 : st[l].at = t[j].at
        BY <4>2
      <4> QED
        BY <4>1, <4>3 DEF Before
    <3>3. GoodCall(script, t[k]) /\ Reads(t[k], Before(t, known \cup Ats(s), k))
      BY <3>1 DEF Ready
    <3> QED
      BY <3>1, <3>2, <3>3 DEF Reads
  <2> QED
    BY <2>1, <2>2
<1> QED
  BY <1>2, <1>4, <1>5, <1>6 DEF Ready, Joins, st

LEMMA ReadyConcat3 ==
  ASSUME NEW script, NEW s, NEW t, NEW u, NEW known,
         Ready(script, s, known), Ready(script, t, known \cup Ats(s)),
         Ready(script, u, (known \cup Ats(s)) \cup Ats(t))
  PROVE  /\ Ready(script, (s \o t) \o u, known)
         /\ Joins(s, t, s \o t) /\ Joins(s \o t, u, (s \o t) \o u)
<1>1. Ready(script, s \o t, known) /\ Joins(s, t, s \o t)
  BY ReadyConcat
<1>2. known \cup Ats(s \o t) = (known \cup Ats(s)) \cup Ats(t)
  BY <1>1 DEF Joins
<1>3. Ready(script, u, known \cup Ats(s \o t))
  BY <1>2
<1> QED
  BY <1>1, <1>3, ReadyConcat

(* Lists of one, two, three and four calls.                                  *)

LEMMA ReadyOne ==
  ASSUME NEW script, NEW known, NEW c, GoodCall(script, c), Reads(c, known)
  PROVE  /\ Ready(script, << c >>, known)
         /\ Ats(<< c >>) = {c.at}
         /\ Makes(<< c >>, c.op, c.at)
<1> DEFINE s == << c >>
<1>1. s \in Seq(CallRecords) /\ DOMAIN s = {1} /\ s[1] = c
  BY DEF GoodCall
<1> HIDE DEF s
<1>2. Reads(s[1], Before(s, known, 1))
  BY <1>1 DEF Reads, Before
<1> QED
  BY <1>1, <1>2 DEF s, Ready, Ats, Makes

LEMMA ReadyTwo ==
  ASSUME NEW script, NEW known, NEW c, NEW d, GoodCall(script, c), GoodCall(script, d),
         Reads(c, known), Reads(d, known \cup {c.at})
  PROVE  /\ Ready(script, << c, d >>, known)
         /\ Ats(<< c, d >>) = {c.at, d.at}
         /\ \A e \in {c, d} : Makes(<< c, d >>, e.op, e.at)
<1> DEFINE s == << c, d >>
<1>1. s \in Seq(CallRecords) /\ DOMAIN s = 1 .. 2 /\ s[1] = c /\ s[2] = d
  BY DEF GoodCall
<1> HIDE DEF s
<1>2. known \subseteq Before(s, known, 1) /\ known \cup {c.at} \subseteq Before(s, known, 2)
  BY <1>1 DEF Before
<1>3. Reads(s[1], Before(s, known, 1)) /\ Reads(s[2], Before(s, known, 2))
  BY <1>1, <1>2 DEF Reads
<1> QED
  BY <1>1, <1>3 DEF s, Ready, Ats, Makes

LEMMA ReadyThree ==
  ASSUME NEW script, NEW known, NEW c, NEW d, NEW e,
         GoodCall(script, c), GoodCall(script, d), GoodCall(script, e),
         Reads(c, known), Reads(d, known \cup {c.at}), Reads(e, known \cup {c.at, d.at})
  PROVE  /\ Ready(script, << c, d, e >>, known)
         /\ Ats(<< c, d, e >>) = {c.at, d.at, e.at}
         /\ \A f \in {c, d, e} : Makes(<< c, d, e >>, f.op, f.at)
<1> DEFINE s == << c, d, e >>
<1>1. s \in Seq(CallRecords) /\ DOMAIN s = 1 .. 3 /\ s[1] = c /\ s[2] = d /\ s[3] = e
  BY DEF GoodCall
<1> HIDE DEF s
<1>2. /\ known \subseteq Before(s, known, 1) /\ known \cup {c.at} \subseteq Before(s, known, 2)
      /\ known \cup {c.at, d.at} \subseteq Before(s, known, 3)
  BY <1>1 DEF Before
<1>3. \A i \in 1 .. 3 : Reads(s[i], Before(s, known, i))
  BY <1>1, <1>2 DEF Reads
<1> QED
  BY <1>1, <1>3 DEF s, Ready, Ats, Makes

LEMMA ReadyFour ==
  ASSUME NEW script, NEW known, NEW c, NEW d, NEW e, NEW f,
         GoodCall(script, c), GoodCall(script, d), GoodCall(script, e), GoodCall(script, f),
         Reads(c, known), Reads(d, known \cup {c.at}), Reads(e, known \cup {c.at, d.at}),
         Reads(f, known \cup {c.at, d.at, e.at})
  PROVE  /\ Ready(script, << c, d, e, f >>, known)
         /\ Ats(<< c, d, e, f >>) = {c.at, d.at, e.at, f.at}
         /\ \A g \in {c, d, e, f} : Makes(<< c, d, e, f >>, g.op, g.at)
<1> DEFINE s == << c, d, e, f >>
<1>1. /\ s \in Seq(CallRecords) /\ DOMAIN s = 1 .. 4
      /\ s[1] = c /\ s[2] = d /\ s[3] = e /\ s[4] = f
  BY DEF GoodCall
<1> HIDE DEF s
<1>2. /\ known \subseteq Before(s, known, 1) /\ known \cup {c.at} \subseteq Before(s, known, 2)
      /\ known \cup {c.at, d.at} \subseteq Before(s, known, 3)
      /\ known \cup {c.at, d.at, e.at} \subseteq Before(s, known, 4)
  BY <1>1 DEF Before
<1>3. \A i \in 1 .. 4 : Reads(s[i], Before(s, known, i))
  BY <1>1, <1>2 DEF Reads
<1> QED
  BY <1>1, <1>3 DEF s, Ready, Ats, Makes

-----------------------------------------------------------------------------
(* The layers, and what they make of a square tensor.                        *)

(* Sides and channels of the input and of the output.                        *)
Geometry(n, layer, m) ==
  << n, layer.ic, layer.oc, layer.kernel, layer.stride, layer.padding, m >> \in
    {<< 32, 3, 16, 3, 1, 1, 32 >>, << 32, 16, 16, 3, 1, 1, 32 >>, << 16, 32, 32, 3, 1, 1, 16 >>,
     << 8, 64, 64, 3, 1, 1, 8 >>, << 32, 16, 32, 3, 2, 1, 16 >>, << 16, 32, 64, 3, 2, 1, 8 >>,
     << 32, 16, 32, 1, 2, 0, 16 >>, << 16, 32, 64, 1, 2, 0, 8 >>, << 1, 4, 4, 1, 1, 0, 1 >>,
     << 1, 64, FC_OUT_CHANNELS_PADDED, 1, 1, 0, 1 >>}

LEMMA LayerKeepsGeometry ==
  ASSUME NEW n, NEW m, NEW layer \in LayerRecords, Geometry(n, layer, m)
  PROVE  ConvShape(Square(n, layer.ic), layer) = Square(m, layer.oc)
BY DEF Geometry, ConvShape, Square, LayerRecords

LEMMA ConvIsLegal ==
  ASSUME NEW call \in CallRecords, call.op = "conv", NEW computed, NEW n, NEW m,
         Geometry(n, call.layer, m),
         computed[call.from].shape = Square(n, call.layer.ic),
         computed[call.at].shape = Square(m, call.layer.oc)
  PROVE  Rtl!Legal(RegistersOf(call, computed))
<1> DEFINE c == RegistersOf(call, computed)
           layer == call.layer
<1>1. layer \in LayerRecords
  BY DEF CallRecords
<1>2. /\ c.op = Rtl!OP_CONV
      /\ c.h = n /\ c.w = n /\ c.ic = layer.ic /\ c.oc = layer.oc
      /\ c.kernel = layer.kernel /\ c.stride = layer.stride /\ c.padding = layer.padding
      /\ c.reserved = 0 /\ c.shift = 0
      /\ c.bytes["INPUT"] = n * n * layer.ic /\ c.bytes["SKIP"] = 0
      /\ c.bytes["WEIGHT"] = layer.kernel * layer.kernel * (layer.ic * layer.oc)
      /\ c.bytes["BIAS"] = 4 * layer.oc
      /\ c.output = m * m * layer.oc
  BY DEF RegistersOf, Square, Volume, Rtl!Packets
<1> HIDE DEF c
<1>3. Rtl!LegalConv(c)
  <2>1. /\ c.kernel \in {1, 3} /\ c.stride \in {1, 2} /\ c.padding \in {0, 1}
        /\ n \in 1 .. 32 /\ c.ic \in 1 .. 64 /\ c.oc \in 1 .. 64 /\ m \in 1 .. 32
        /\ n + 2 * c.padding >= c.kernel
    BY <1>2, PaddedAssumption DEF Geometry
  <2>2. Rtl!OutputDim(n, c) = m
    BY <1>2 DEF Geometry, Rtl!OutputDim
  <2>3. /\ n * n * c.ic <= 16384 /\ n * n * c.ic % 4 = 0
        /\ m * m * c.oc <= 16384 /\ m * m * c.oc % 4 = 0
        /\ 4 * c.oc <= 256 /\ 4 * c.oc % 4 = 0
        /\ c.kernel * c.kernel * (c.ic * c.oc) <= 36864
        /\ c.kernel * c.kernel * (c.ic * c.oc) % 4 = 0
    BY <1>2, PaddedAssumption DEF Geometry
  <2> QED
    BY <1>2, <2>1, <2>2, <2>3
       DEF Rtl!LegalConv, Rtl!DimensionsInRange, Rtl!KernelFits, Rtl!InputBytes, Rtl!OutputArea,
           Rtl!Holds, Rtl!WEIGHT_CAP_BYTES, Rtl!BIAS_CAP_BYTES, Rtl!INPUT_CAP_BYTES,
           Rtl!OUTPUT_CAP_BYTES
<1> QED
  BY <1>2, <1>3 DEF c, Rtl!Legal

LEMMA AddIsLegal ==
  ASSUME NEW call \in CallRecords, call.op = "add", NEW computed, NEW n, NEW channels,
         << n, channels >> \in {<< 32, 16 >>, << 16, 32 >>, << 8, 64 >>},
         \A at \in {call.from, call.target, call.at} : computed[at].shape = Square(n, channels)
  PROVE  Rtl!Legal(RegistersOf(call, computed))
<1> DEFINE c == RegistersOf(call, computed)
<1>1. /\ c.op = Rtl!OP_RESIDUAL_ADD
      /\ c.h = n /\ c.w = n /\ c.ic = channels /\ c.oc = channels
      /\ c.kernel = 0 /\ c.stride = 0 /\ c.padding = 0 /\ c.reserved = 0
      /\ c.multiplier = 0 /\ c.shift = 0
      /\ c.bytes["INPUT"] = n * n * channels /\ c.bytes["SKIP"] = n * n * channels
      /\ c.bytes["WEIGHT"] = 0 /\ c.bytes["BIAS"] = 0
      /\ c.output = n * n * channels
  BY DEF RegistersOf, Square, Volume, Rtl!Packets
<1> HIDE DEF c
<1>2. Rtl!LegalResidual(c)
  BY <1>1 DEF Rtl!LegalResidual, Rtl!ResidualFieldsPass, Rtl!DimensionsInRange, Rtl!InputBytes,
              Rtl!Holds, Rtl!INPUT_CAP_BYTES, Rtl!OUTPUT_CAP_BYTES
<1> QED
  BY <1>1, <1>2 DEF c, Rtl!Legal

LEMMA GapIsLegal ==
  ASSUME NEW call \in CallRecords, call.op = "gap", NEW computed,
         computed[call.from].shape = Square(8, 64), computed[call.at].shape = Square(1, 64)
  PROVE  Rtl!Legal(RegistersOf(call, computed))
<1> DEFINE c == RegistersOf(call, computed)
<1>1. /\ c.op = Rtl!OP_GLOBAL_AVG_POOL
      /\ c.h = 8 /\ c.w = 8 /\ c.ic = 64 /\ c.oc = 64
      /\ c.kernel = 0 /\ c.stride = 0 /\ c.padding = 0 /\ c.relu = 0 /\ c.reserved = 0
      /\ c.shift = 0
      /\ c.bytes["INPUT"] = 8 * 8 * 64 /\ c.bytes["SKIP"] = 0
      /\ c.bytes["WEIGHT"] = 0 /\ c.bytes["BIAS"] = 0
      /\ c.output = 1 * 1 * 64
  BY DEF RegistersOf, Square, Volume, Rtl!Packets
<1> HIDE DEF c
<1>2. Rtl!LegalGap(c)
  BY <1>1 DEF Rtl!LegalGap, Rtl!GapFieldsPass, Rtl!DimensionsInRange, Rtl!InputBytes,
              Rtl!Holds, Rtl!INPUT_CAP_BYTES, Rtl!OUTPUT_CAP_BYTES
<1> QED
  BY <1>1, <1>2 DEF c, Rtl!Legal

-----------------------------------------------------------------------------
(* Good calls, by what the network's tensors are.                            *)

LEMMA GoodConv ==
  ASSUME NEW script, NEW call \in CallRecords, call.op = "conv", NEW n, NEW m, NEW scale,
         Geometry(n, call.layer, m),
         Tensor(script, call.from) = Quantized(scale, Square(n, call.layer.ic)),
         Tensor(script, call.at) =
           Quantized(IF call.target = Self THEN call.at ELSE Tensor(script, call.target).scale,
                     Square(m, call.layer.oc))
  PROVE  GoodCall(script, call)
<1>1. /\ call.layer \in LayerRecords
      /\ \A at \in {call.at, call.from, call.target} : Net(script)[at] = Tensor(script, at)
  BY DEF CallRecords, Net
<1>2. Output(call, Net(script)) = Tensor(script, call.at)
  BY <1>1, LayerKeepsGeometry DEF Output, _quantize_and_export_conv, Quantized
<1>3. Rtl!Legal(RegistersOf(call, Net(script)))
  BY <1>1, ConvIsLegal DEF Quantized
<1> QED
  BY <1>2, <1>3 DEF GoodCall

LEMMA GoodAdd ==
  ASSUME NEW script, NEW call \in CallRecords, call.op = "add", call.at[2] = "add",
         NEW n, NEW channels, NEW scale,
         << n, channels >> \in {<< 32, 16 >>, << 16, 32 >>, << 8, 64 >>},
         \A at \in {call.from, call.target, call.at} :
           Tensor(script, at) = Quantized(scale, Square(n, channels))
  PROVE  GoodCall(script, call)
<1>1. \A at \in {call.at, call.from, call.target} : Net(script)[at] = Tensor(script, at)
  BY DEF CallRecords, Net
<1>2. Output(call, Net(script)) = Tensor(script, call.at)
  BY <1>1 DEF Output, _combine_residual, Quantized
<1>3. Rtl!Legal(RegistersOf(call, Net(script)))
  BY <1>1, AddIsLegal DEF Quantized
<1> QED
  BY <1>2, <1>3 DEF GoodCall

LEMMA GoodGap ==
  ASSUME NEW script, NEW call \in CallRecords, call.op = "gap", call.at[2] # "shortcut", NEW scale,
         Tensor(script, call.from) = Quantized(scale, Square(8, 64)),
         Tensor(script, call.at) = Quantized(scale, Square(1, 64))
  PROVE  GoodCall(script, call)
<1>1. \A at \in {call.at, call.from} : Net(script)[at] = Tensor(script, at)
  BY DEF CallRecords, Net
<1>2. Output(call, Net(script)) = Tensor(script, call.at)
  BY <1>1 DEF Output, PoolOnto, Quantized, Square
<1>3. Rtl!Legal(RegistersOf(call, Net(script)))
  BY <1>1, GapIsLegal DEF Quantized
<1> QED
  BY <1>2, <1>3 DEF GoodCall

(* The calls of a block: side and scale of its input, and of its output.     *)
BlockGeometry(n, block, m) ==
  /\ block = [in |-> block.in, out |-> block.out, stride |-> block.stride]
  /\ << n, block.in, block.out, block.stride, m >> \in
       {<< 32, 16, 16, 1, 32 >>, << 16, 32, 32, 1, 16 >>, << 8, 64, 64, 1, 8 >>,
        << 32, 16, 32, 2, 16 >>, << 16, 32, 64, 2, 8 >>}

LEMMA BlockCalls ==
  ASSUME NEW script, NEW b \in Int, NEW block, NEW from \in Nodes, NEW n, NEW m, NEW before, NEW scale,
         BlockGeometry(n, block, m),
         Tensor(script, from) = Quantized(before, Square(n, block.in)),
         \A part \in {"conv1", "conv2", "shortcut", "add"} :
           Tensor(script, Part(b, part)) = BlockTensor(Part(b, part), m, block.out, scale)
  PROVE  /\ GoodCall(script, Conv1(b, block, from))
         /\ scale = Part(b, "conv2") => GoodCall(script, Conv2(b, block, Self))
         /\ scale = before /\ from # Self => GoodCall(script, Conv2(b, block, from))
         /\ HasProjection(block) => GoodCall(script, Shortcut(b, block, from))
         /\ \A skip \in Nodes :
              Tensor(script, skip) = Quantized(scale, Square(m, block.out)) =>
                GoodCall(script, Add(b, skip))
<1> USE DEF Nodes
<1>1. /\ block.in \in Int /\ block.out \in Int /\ block.stride \in Int
      /\ \A part \in {"conv1", "conv2", "shortcut"} : BasicBlock(block, part) \in LayerRecords
  BY DEF BlockGeometry, BasicBlock, LayerRecords, conv_bn
<1>2. /\ StemConv \in LayerRecords /\ Self \in Nodes
      /\ \A part \in {"conv1", "conv2", "shortcut", "add"} : Part(b, part) \in Nodes /\ Part(b, part)[2] = part
  <2>1. StemConv \in LayerRecords
    BY DEF StemConv, LayerRecords, conv_bn
  <2>2. Self \in Nodes
    BY DEF Self, PartNames
  <2>3. \A part \in {"conv1", "conv2", "shortcut", "add"} : Part(b, part) \in Nodes /\ Part(b, part)[2] = part
    BY DEF Part, PartNames
  <2> QED
    BY <2>1, <2>2, <2>3
<1>3. GoodCall(script, Conv1(b, block, from))
  <2> DEFINE call == Conv1(b, block, from)
  <2>1. /\ call \in CallRecords /\ call.op = "conv" /\ call.from = from /\ call.target = Self
        /\ call.at = Part(b, "conv1") /\ call.layer = BasicBlock(block, "conv1")
    BY <1>1, <1>2 DEF Conv1, Conv, CallRecords
  <2>2. Geometry(n, call.layer, m) /\ call.layer.ic = block.in /\ call.layer.oc = block.out
    BY <2>1 DEF BlockGeometry, Geometry, BasicBlock, conv_bn
  <2>3. Tensor(script, call.at) = Quantized(call.at, Square(m, call.layer.oc))
    BY <1>2, <2>1, <2>2 DEF BlockTensor
  <2> HIDE DEF call
  <2> QED
    BY <2>1, <2>2, <2>3, GoodConv DEF call
<1>4. ASSUME NEW target \in {Self, from}, scale = IF target = Self THEN Part(b, "conv2") ELSE before
      PROVE  GoodCall(script, Conv2(b, block, target))
  <2> DEFINE call == Conv2(b, block, target)
  <2>1. /\ call \in CallRecords /\ call.op = "conv" /\ call.from = Part(b, "conv1") /\ call.target = target
        /\ call.at = Part(b, "conv2") /\ call.layer = BasicBlock(block, "conv2")
    BY <1>1, <1>2 DEF Conv2, Conv, CallRecords
  <2>2. Geometry(m, call.layer, m) /\ call.layer.ic = block.out /\ call.layer.oc = block.out
    BY <2>1 DEF BlockGeometry, Geometry, BasicBlock, conv_bn
  <2>3. Tensor(script, call.from) = Quantized(call.from, Square(m, call.layer.ic))
    BY <1>2, <2>1, <2>2 DEF BlockTensor
  <2>4. Tensor(script, call.at) = Quantized(scale, Square(m, call.layer.oc))
    BY <1>2, <2>1, <2>2 DEF BlockTensor
  <2>5. scale = IF target = Self THEN call.at ELSE Tensor(script, call.target).scale
    BY <1>4, <2>1 DEF Quantized
  <2> HIDE DEF call
  <2> QED
    BY <2>1, <2>2, <2>3, <2>4, <2>5, GoodConv DEF call
<1>5. ASSUME HasProjection(block)
      PROVE  GoodCall(script, Shortcut(b, block, from))
  <2> DEFINE call == Shortcut(b, block, from)
  <2>1. /\ call \in CallRecords /\ call.op = "conv" /\ call.from = from /\ call.target = Part(b, "conv2")
        /\ call.at = Part(b, "shortcut") /\ call.layer = BasicBlock(block, "shortcut")
    BY <1>1, <1>2 DEF Shortcut, Conv, CallRecords
  <2>2. Geometry(n, call.layer, m) /\ call.layer.ic = block.in /\ call.layer.oc = block.out
    BY <1>5, <2>1 DEF BlockGeometry, Geometry, BasicBlock, conv_bn, HasProjection
  <2>3. /\ Tensor(script, call.at) = Quantized(scale, Square(m, call.layer.oc))
        /\ Tensor(script, call.target).scale = scale
    BY <1>2, <2>1, <2>2 DEF BlockTensor, Quantized
  <2>4. call.target # Self
    BY <2>1 DEF Self, Part
  <2> HIDE DEF call
  <2> QED
    BY <2>1, <2>2, <2>3, <2>4, GoodConv DEF call
<1>6. ASSUME NEW skip \in Nodes, Tensor(script, skip) = Quantized(scale, Square(m, block.out))
      PROVE  GoodCall(script, Add(b, skip))
  <2> DEFINE call == Add(b, skip)
  <2>1. /\ call \in CallRecords /\ call.op = "add" /\ call.from = Part(b, "conv2") /\ call.target = skip
        /\ call.at = Part(b, "add") /\ call.at[2] = "add"
    BY <1>2 DEF Add, Other, CallRecords
  <2>2. \A at \in {call.from, call.target, call.at} : Tensor(script, at) = Quantized(scale, Square(m, block.out))
    BY <1>2, <1>6, <2>1 DEF BlockTensor
  <2>3. << m, block.out >> \in {<< 32, 16 >>, << 16, 32 >>, << 8, 64 >>}
    BY DEF BlockGeometry
  <2> HIDE DEF call
  <2> QED
    BY <2>1, <2>2, <2>3, GoodAdd DEF call
<1> QED
  BY <1>3, <1>4, <1>5, <1>6

-----------------------------------------------------------------------------
(* The scripts, one by one: every call can be made, and of which nodes there *)
(* are files.                                                                *)

Start == {Input, Pixel}

LEMMA StartNodes ==
  /\ Input \in Nodes /\ Self \in Nodes /\ Pixel \in Nodes /\ Stem \in Nodes /\ Gap \in Nodes /\ Fc \in Nodes
  /\ NumBlocks = 9 /\ Gap = << 10, "gap" >> /\ Fc = << 10, "fc" >>
  /\ StemConv \in LayerRecords
<1>1. NumBlocks = 9
  BY DEF NumBlocks, Stages, BlocksPerStage
<1>2. Gap = << 10, "gap" >> /\ Fc = << 10, "fc" >>
  BY <1>1 DEF Gap, Fc
<1>3. StemConv \in LayerRecords
  BY DEF StemConv, LayerRecords, conv_bn
<1> QED
  BY <1>1, <1>2, <1>3 DEF Input, Self, Pixel, Stem, Nodes, PartNames

LEMMA PartNodes ==
  ASSUME NEW b \in Int, NEW part \in PartNames
  PROVE  Part(b, part) \in Nodes /\ Part(b, part)[1] = b /\ Part(b, part)[2] = part
BY DEF Part, Nodes

LEMMA Stage1Calls ==
  /\ Ready("stage1_conv", Calls("stage1_conv"), Start)
  /\ Makes(Calls("stage1_conv"), "conv", << 0, "conv" >>)
<1> DEFINE call == Conv(<< 0, "conv" >>, Input, SingleConvReLU, Self)
<1>1. Calls("stage1_conv") = << call >>
  BY DEF Calls, generate_single_conv, BLOCK_CONFIGS
<1>2. SingleConvReLU \in LayerRecords /\ << 0, "conv" >> \in Nodes
  BY DEF SingleConvReLU, LayerRecords, conv_bn, Nodes, PartNames
<1>3. /\ call \in CallRecords /\ call.op = "conv" /\ call.at = << 0, "conv" >> /\ call.from = Input
      /\ call.target = Self /\ call.layer = SingleConvReLU
  BY <1>2, StartNodes DEF Conv, CallRecords
<1>4. /\ Tensor("stage1_conv", Input) = Quantized(Input, Square(32, 3))
      /\ Tensor("stage1_conv", << 0, "conv" >>) = Quantized(<< 0, "conv" >>, Square(32, 16))
  BY DEF Tensor, Input, Pixel
<1>5. Geometry(32, SingleConvReLU, 32) /\ SingleConvReLU.ic = 3 /\ SingleConvReLU.oc = 16
  BY DEF Geometry, SingleConvReLU, conv_bn
<1> HIDE DEF call
<1>6. GoodCall("stage1_conv", call)
  BY <1>3, <1>4, <1>5, GoodConv
<1>7. Reads(call, Start)
  BY <1>3 DEF Reads, Start
<1> QED
  BY <1>1, <1>3, <1>6, <1>7, ReadyOne

(* The tensors of a block that is a script of its own.                       *)
LEMMA Stage2Tensors ==
  ASSUME NEW script \in {"identity", "projection"}
  PROVE  LET block == BLOCK_CONFIGS[script]
             m == IF script = "identity" THEN 32 ELSE 16
         IN  /\ BlockGeometry(32, block, m)
             /\ HasProjection(block) <=> script = "projection"
             /\ Calls(script) = generate_block(block)
             /\ Tensor(script, Input) = Quantized(Input, Square(32, block.in))
             /\ \A part \in PartNames :
                  Tensor(script, Part(1, part)) = BlockTensor(Part(1, part), m, block.out, Part(1, "conv2"))
<1> DEFINE block == BLOCK_CONFIGS[script]
           m == IF script = "identity" THEN 32 ELSE 16
<1>1. /\ block = IF script = "identity" THEN [in |-> 16, out |-> 16, stride |-> 1]
                 ELSE [in |-> 16, out |-> 32, stride |-> 2]
      /\ script \in DOMAIN BLOCK_CONFIGS
  BY DEF BLOCK_CONFIGS
<1>2. Calls(script) = generate_block(block)
  BY <1>1 DEF Calls
<1>3. BlockGeometry(32, block, m) /\ (HasProjection(block) <=> script = "projection")
  BY <1>1 DEF BlockGeometry, HasProjection
<1>4. Tensor(script, Input) = Quantized(Input, Square(32, block.in))
  BY <1>1 DEF Tensor, Input, Pixel
<1>5. ASSUME NEW part \in PartNames
      PROVE  Tensor(script, Part(1, part)) = BlockTensor(Part(1, part), m, block.out, Part(1, "conv2"))
  <2>1. Part(1, part) # Pixel /\ Part(1, part) # Input
    BY DEF Part, Pixel, Input
  <2> QED
    BY <1>1, <2>1 DEF Tensor
<1> QED
  BY <1>2, <1>3, <1>4, <1>5

LEMMA Stage2Calls ==
  ASSUME NEW script \in {"identity", "projection"}
  PROVE  /\ Ready(script, Calls(script), Start)
         /\ Makes(Calls(script), "conv", Part(1, "conv1")) /\ Makes(Calls(script), "conv", Part(1, "conv2"))
         /\ Makes(Calls(script), "add", Part(1, "add"))
         /\ script = "projection" => Makes(Calls(script), "conv", Part(1, "shortcut"))
<1> DEFINE block == BLOCK_CONFIGS[script]
           m == IF script = "identity" THEN 32 ELSE 16
           scale == Part(1, "conv2")
           c == Conv1(1, block, Input)
           d == Conv2(1, block, Self)
           shortcut == Shortcut(1, block, Input)
           rescale == Other("rescale", Part(1, "rescaled"), Input, scale)
           skip == IF script = "projection" THEN Part(1, "shortcut") ELSE Part(1, "rescaled")
           add == Add(1, skip)
<1>1. /\ BlockGeometry(32, block, m)
      /\ HasProjection(block) <=> script = "projection"
      /\ Calls(script) = generate_block(block)
      /\ Tensor(script, Input) = Quantized(Input, Square(32, block.in))
      /\ \A part \in PartNames :
           Tensor(script, Part(1, part)) = BlockTensor(Part(1, part), m, block.out, scale)
  BY Stage2Tensors
<1> HIDE DEF block, m
<1>2. skip \in Nodes /\ Tensor(script, skip) = Quantized(scale, Square(m, block.out))
  <2>1. PICK part \in {"shortcut", "rescaled"} : skip = Part(1, part)
    OBVIOUS
  <2>2. part \in PartNames /\ skip[2] # "conv1"
    BY <2>1, PartNodes DEF PartNames
  <2> QED
    BY <1>1, <2>1, <2>2, PartNodes DEF BlockTensor
<1>3. /\ GoodCall(script, c) /\ GoodCall(script, d) /\ GoodCall(script, add)
      /\ script = "projection" => GoodCall(script, shortcut)
  <2>1. \A part \in {"conv1", "conv2", "shortcut", "add"} :
          Tensor(script, Part(1, part)) = BlockTensor(Part(1, part), m, block.out, scale)
    BY <1>1 DEF PartNames
  <2>2. 1 \in Int /\ Input \in Nodes
    BY StartNodes
  <2> HIDE DEF scale
  <2> QED
    BY <1>1, <1>2, <2>1, <2>2, BlockCalls DEF scale
<1>4. script = "identity" => GoodCall(script, rescale)
  <2>1. /\ Part(1, "rescaled") \in Nodes /\ scale \in Nodes /\ scale[2] = "conv2"
        /\ Part(1, "rescaled")[2] = "rescaled"
    BY PartNodes DEF PartNames
  <2>2. /\ rescale \in CallRecords /\ rescale.op = "rescale" /\ rescale.from = Input /\ rescale.target = scale
        /\ rescale.at = Part(1, "rescaled")
    BY <2>1, StartNodes DEF Other, CallRecords
  <2>3. /\ Tensor(script, rescale.at) = Quantized(scale, Square(m, block.out))
        /\ Tensor(script, scale) = Quantized(scale, Square(m, block.out))
    BY <1>1, <2>1, <2>2 DEF BlockTensor, PartNames
  <2>4. script = "identity" => m = 32 /\ block.in = block.out
    BY <1>1 DEF m, BlockGeometry, HasProjection
  <2>5. \A at \in {rescale.at, rescale.from, rescale.target} : Net(script)[at] = Tensor(script, at)
    BY <2>2 DEF CallRecords, Net
  <2>6. script = "identity" => Output(rescale, Net(script)) = Tensor(script, rescale.at)
    BY <1>1, <2>2, <2>3, <2>4, <2>5 DEF Output, _rescale_int8, Quantized
  <2> QED
    BY <2>1, <2>2, <2>6 DEF GoodCall
<1>5. /\ c.op = "conv" /\ c.at = Part(1, "conv1") /\ c.from = Input /\ c.target = Self
      /\ d.op = "conv" /\ d.at = Part(1, "conv2") /\ d.from = Part(1, "conv1") /\ d.target = Self
      /\ shortcut.op = "conv" /\ shortcut.at = Part(1, "shortcut")
      /\ shortcut.from = Input /\ shortcut.target = scale
      /\ rescale.op = "rescale" /\ rescale.at = Part(1, "rescaled")
      /\ rescale.from = Input /\ rescale.target = scale
      /\ add.op = "add" /\ add.at = Part(1, "add") /\ add.from = scale /\ add.target = skip
  BY DEF Conv1, Conv2, Shortcut, Add, Conv, Other
<1> HIDE DEF c, d, shortcut, rescale, add
<1>6. /\ Ready(script, << c, d >>, Start) /\ Ats(<< c, d >>) = {c.at, d.at}
      /\ Makes(<< c, d >>, "conv", c.at) /\ Makes(<< c, d >>, "conv", d.at)
  <2>1. Reads(c, Start) /\ Reads(d, Start \cup {c.at})
    BY <1>5 DEF Reads, Start
  <2> QED
    BY <1>3, <1>5, <2>1, ReadyTwo
<1> DEFINE s == << c, d >>
           t == IF script = "projection" THEN << shortcut, add >> ELSE << rescale, add >>
<1>7. Calls(script) = s \o t
  BY <1>1 DEF generate_block, c, d, shortcut, rescale, add
<1>8. /\ Ready(script, t, Start \cup Ats(s))
      /\ Makes(t, "add", add.at)
      /\ script = "projection" => Makes(t, "conv", shortcut.at)
  <2>1. CASE script = "projection"
    <3>1. /\ Reads(shortcut, Start \cup {c.at, d.at})
          /\ Reads(add, (Start \cup {c.at, d.at}) \cup {shortcut.at})
      BY <1>5, <2>1 DEF Reads, Start
    <3> QED
      BY <1>3, <1>5, <1>6, <2>1, <3>1, ReadyTwo
  <2>2. CASE script = "identity"
    <3>1. /\ Reads(rescale, Start \cup {c.at, d.at})
          /\ Reads(add, (Start \cup {c.at, d.at}) \cup {rescale.at})
      BY <1>5, <2>2 DEF Reads, Start
    <3> QED
      BY <1>3, <1>4, <1>5, <1>6, <2>2, <3>1, ReadyTwo
  <2> QED
    BY <2>1, <2>2
<1>9. Ready(script, s, Start) /\ Makes(s, "conv", c.at) /\ Makes(s, "conv", d.at)
  BY <1>6
<1> HIDE DEF s, t
<1>10. Ready(script, s \o t, Start) /\ Joins(s, t, s \o t)
  BY <1>8, <1>9, ReadyConcat
<1> QED
  BY <1>5, <1>7, <1>8, <1>9, <1>10 DEF Joins

(* The blocks of the backbone.                                               *)
Backbone == "stage3_backbone"
BlockInput(b) == IF b = 1 THEN Stem ELSE Part(b - 1, "add")

LEMMA MakeStage ==
  ASSUME NEW in, NEW out, NEW stride, NEW k, k # 1
  PROVE  _make_stage([in |-> in, out |-> out, stride |-> stride], k) =
           [in |-> out, out |-> out, stride |-> 1]
BY DEF _make_stage

LEMMA BackboneBlocks ==
  ASSUME NEW b \in 1 .. 9
  PROVE  LET block == ResNet20Block(b)
             n == IF b \in {4, 7} THEN 2 * Side(b) ELSE Side(b)
             before == IF b = 7 THEN Part(4, "conv2") ELSE IF b = 4 THEN Stem ELSE StageScale(b)
         IN  /\ BlockGeometry(n, block, Side(b)) /\ block.out = Width(b)
             /\ HasProjection(block) <=> b \in {4, 7}
             /\ Tensor(Backbone, BlockInput(b)) = Quantized(before, Square(n, block.in))
             /\ BlockInput(b) \in Nodes /\ BlockInput(b) # Self
             /\ \A part \in PartNames :
                  Tensor(Backbone, Part(b, part)) = BlockTensor(Part(b, part), Side(b), Width(b), StageScale(b))
<1> DEFINE block == ResNet20Block(b)
           n == IF b \in {4, 7} THEN 2 * Side(b) ELSE Side(b)
           before == IF b = 7 THEN Part(4, "conv2") ELSE IF b = 4 THEN Stem ELSE StageScale(b)
<1>1. block = [in |-> IF b \in {4, 7} THEN Width(b - 1) ELSE Width(b), out |-> Width(b),
               stride |-> IF b \in {4, 7} THEN 2 ELSE 1]
  <2>1. /\ b \in 1 .. 3 => (b - 1) \div 3 + 1 = 1
        /\ b \in 4 .. 6 => (b - 1) \div 3 + 1 = 2
        /\ b \in 7 .. 9 => (b - 1) \div 3 + 1 = 3
        /\ ((b - 1) % 3) + 1 = 1 <=> b \in {1, 4, 7}
    OBVIOUS
  <2>2. /\ Stages[1] = [in |-> 16, out |-> 16, stride |-> 1]
        /\ Stages[2] = [in |-> 16, out |-> 32, stride |-> 2]
        /\ Stages[3] = [in |-> 32, out |-> 64, stride |-> 2]
    BY DEF Stages
  <2>3. ASSUME NEW k \in 1 .. 3
        PROVE  /\ _make_stage(Stages[1], k) = [in |-> 16, out |-> 16, stride |-> 1]
               /\ _make_stage(Stages[2], k) =
                    [in |-> IF k = 1 THEN 16 ELSE 32, out |-> 32, stride |-> IF k = 1 THEN 2 ELSE 1]
               /\ _make_stage(Stages[3], k) =
                    [in |-> IF k = 1 THEN 32 ELSE 64, out |-> 64, stride |-> IF k = 1 THEN 2 ELSE 1]
    <3>1. CASE k = 1
      BY <2>2, <3>1 DEF _make_stage
    <3>2. CASE k # 1
      BY <2>2, <3>2, MakeStage
    <3> QED
      BY <3>1, <3>2
  <2>4. block = _make_stage(Stages[StageOf(b)], ((b - 1) % 3) + 1)
    BY <2>1 DEF ResNet20Block, BlocksPerStage, StageOf
  <2>5. ((b - 1) % 3) + 1 \in 1 .. 3
    OBVIOUS
  <2> HIDE DEF block
  <2>6. CASE b \in 1 .. 3
    BY <2>1, <2>3, <2>4, <2>5, <2>6 DEF Width, StageOf
  <2>7. CASE b \in 4 .. 6
    BY <2>1, <2>3, <2>4, <2>5, <2>7 DEF Width, StageOf
  <2>8. CASE b \in 7 .. 9
    BY <2>1, <2>3, <2>4, <2>5, <2>8 DEF Width, StageOf
  <2> QED
    BY <2>6, <2>7, <2>8
<1> HIDE DEF block
<1>2. BlockGeometry(n, block, Side(b)) /\ block.out = Width(b) /\ (HasProjection(block) <=> b \in {4, 7})
  BY <1>1 DEF BlockGeometry, HasProjection, Width, Side, StageOf
<1>3. ASSUME NEW c \in 1 .. 9, NEW part \in PartNames
      PROVE  Tensor(Backbone, Part(c, part)) = BlockTensor(Part(c, part), Side(c), Width(c), StageScale(c))
  <2>1. Part(c, part) # Pixel /\ Part(c, part) # Stem /\ Part(c, part)[1] = c
    BY DEF Part, Pixel, Stem
  <2>2. Tensor(Backbone, Part(c, part)) = BackboneTensor(Part(c, part))
    BY <2>1 DEF Tensor, Backbone
  <2>3. Part(c, part) # Gap /\ Part(c, part) # Fc
    BY StartNodes DEF Part
  <2>4. BackboneTensor(Part(c, part)) = BlockTensor(Part(c, part), Side(c), Width(c), StageScale(c))
    BY <2>1, <2>3 DEF BackboneTensor
  <2> QED
    BY <2>2, <2>4
<1>4. BlockInput(b) \in Nodes /\ BlockInput(b) # Self
  BY DEF BlockInput, Part, Stem, Self, Nodes, PartNames
<1>5. Tensor(Backbone, BlockInput(b)) = Quantized(before, Square(n, block.in))
  <2>1. CASE b = 1
    <3>1. Tensor(Backbone, Stem) = Quantized(Stem, Square(32, 16))
      BY StartNodes DEF Tensor, BackboneTensor, Backbone, Stem, Pixel
    <3> QED
      BY <1>1, <2>1, <3>1 DEF BlockInput, StageScale, Side, Width, StageOf
  <2>2. CASE b # 1
    <3>1. Tensor(Backbone, Part(b - 1, "add")) =
            BlockTensor(Part(b - 1, "add"), Side(b - 1), Width(b - 1), StageScale(b - 1))
      BY <1>3, <2>2 DEF PartNames
    <3>2. Part(b - 1, "add")[2] = "add"
      BY DEF Part
    <3>3. /\ Side(b - 1) = n /\ Width(b - 1) = block.in /\ StageScale(b - 1) = before
      BY <1>1, <2>2 DEF Side, Width, StageScale, StageOf
    <3> QED
      BY <2>2, <3>1, <3>2, <3>3 DEF BlockInput, BlockTensor
  <2> QED
    BY <2>1, <2>2
<1> QED
  BY <1>2, <1>3, <1>4, <1>5 DEF block

(* What the calls of a block leave.                                          *)
BlockMade(s, b) ==
  /\ Makes(s, "conv", Part(b, "conv1")) /\ Makes(s, "conv", Part(b, "conv2"))
  /\ Makes(s, "add", Part(b, "add"))

LEMMA BlockReady ==
  ASSUME NEW b \in 1 .. 9, NEW known, BlockInput(b) \in known
  PROVE  /\ Ready(Backbone, process_block(b), known)
         /\ Part(b, "add") \in Ats(process_block(b))
         /\ BlockMade(process_block(b), b)
<1> DEFINE block == ResNet20Block(b)
           from == BlockInput(b)
           n == IF b \in {4, 7} THEN 2 * Side(b) ELSE Side(b)
           before == IF b = 7 THEN Part(4, "conv2") ELSE IF b = 4 THEN Stem ELSE StageScale(b)
           scale == StageScale(b)
           m == Side(b)
           target == IF b \in {4, 7} THEN Self ELSE from
           skip == IF b \in {4, 7} THEN Part(b, "shortcut") ELSE from
           c == Conv1(b, block, from)
           d == Conv2(b, block, target)
           e == Shortcut(b, block, from)
           f == Add(b, skip)
<1>1. /\ BlockGeometry(n, block, m) /\ block.out = Width(b)
      /\ HasProjection(block) <=> b \in {4, 7}
      /\ Tensor(Backbone, from) = Quantized(before, Square(n, block.in))
      /\ from \in Nodes /\ from # Self
      /\ \A part \in PartNames :
           Tensor(Backbone, Part(b, part)) = BlockTensor(Part(b, part), m, block.out, scale)
  BY BackboneBlocks
<1>2. /\ b \in {4, 7} => scale = Part(b, "conv2")
      /\ b \notin {4, 7} => scale = before /\ n = m /\ block.in = block.out
  BY <1>1 DEF StageScale, StageOf, BlockGeometry, HasProjection
<1>3. process_block(b) = IF b \in {4, 7} THEN << c, d, e, f >> ELSE << c, d, f >>
  BY <1>1 DEF process_block, BlockInput
<1>4. skip \in Nodes /\ Tensor(Backbone, skip) = Quantized(scale, Square(m, block.out))
  <2>1. CASE b \in {4, 7}
    <3>1. "shortcut" \in PartNames
      BY DEF PartNames
    <3> QED
      BY <1>1, <2>1, <3>1, PartNodes DEF BlockTensor
  <2>2. CASE b \notin {4, 7}
    BY <1>1, <1>2, <2>2
  <2> QED
    BY <2>1, <2>2
<1>5. /\ c.op = "conv" /\ c.at = Part(b, "conv1") /\ c.from = from /\ c.target = Self
      /\ d.op = "conv" /\ d.at = Part(b, "conv2") /\ d.from = Part(b, "conv1") /\ d.target = target
      /\ e.op = "conv" /\ e.at = Part(b, "shortcut") /\ e.from = from /\ e.target = Part(b, "conv2")
      /\ f.op = "add" /\ f.at = Part(b, "add") /\ f.from = Part(b, "conv2") /\ f.target = skip
  BY DEF Conv1, Conv2, Shortcut, Add, Conv, Other
<1>6. /\ GoodCall(Backbone, c) /\ GoodCall(Backbone, d) /\ GoodCall(Backbone, f)
      /\ b \in {4, 7} => GoodCall(Backbone, e)
  <2>1. \A part \in {"conv1", "conv2", "shortcut", "add"} :
          Tensor(Backbone, Part(b, part)) = BlockTensor(Part(b, part), m, block.out, scale)
    BY <1>1 DEF PartNames
  <2>2. b \in Int
    OBVIOUS
  <2> HIDE DEF block, n, before, scale, m, from, skip
  <2>3. /\ GoodCall(Backbone, c)
        /\ scale = Part(b, "conv2") => GoodCall(Backbone, Conv2(b, block, Self))
        /\ scale = before => GoodCall(Backbone, Conv2(b, block, from))
        /\ HasProjection(block) => GoodCall(Backbone, e)
        /\ GoodCall(Backbone, f)
    BY <1>1, <1>4, <2>1, <2>2, BlockCalls
  <2> QED
    BY <1>1, <1>2, <2>3
<1> HIDE DEF c, d, e, f
<1>7. /\ Reads(c, known) /\ Reads(d, known \cup {c.at})
      /\ b \in {4, 7} => Reads(e, known \cup {c.at, d.at}) /\ Reads(f, known \cup {c.at, d.at, e.at})
      /\ b \notin {4, 7} => Reads(f, known \cup {c.at, d.at})
  BY <1>5 DEF Reads
<1>8. CASE b \in {4, 7}
  <2>1. /\ GoodCall(Backbone, c) /\ GoodCall(Backbone, d) /\ GoodCall(Backbone, e) /\ GoodCall(Backbone, f)
        /\ Reads(c, known) /\ Reads(d, known \cup {c.at}) /\ Reads(e, known \cup {c.at, d.at})
        /\ Reads(f, known \cup {c.at, d.at, e.at})
    BY <1>6, <1>7, <1>8
  <2>2. /\ Ready(Backbone, << c, d, e, f >>, known) /\ Ats(<< c, d, e, f >>) = {c.at, d.at, e.at, f.at}
        /\ \A g \in {c, d, e, f} : Makes(<< c, d, e, f >>, g.op, g.at)
    BY <2>1, ReadyFour
  <2> QED
    BY <1>3, <1>5, <1>8, <2>2 DEF BlockMade
<1>9. CASE b \notin {4, 7}
  <2>1. /\ Ready(Backbone, << c, d, f >>, known) /\ Ats(<< c, d, f >>) = {c.at, d.at, f.at}
        /\ \A g \in {c, d, f} : Makes(<< c, d, f >>, g.op, g.at)
    BY <1>6, <1>7, <1>9, ReadyThree
  <2> QED
    BY <1>3, <1>5, <1>9, <2>1 DEF BlockMade
<1> QED
  BY <1>8, <1>9

LEMMA StageReady ==
  ASSUME NEW k \in 1 .. 3, NEW known, BlockInput(3 * k - 2) \in known
  PROVE  /\ Ready(Backbone, process_stage(k), known)
         /\ Part(3 * k, "add") \in Ats(process_stage(k))
         /\ \A b \in 3 * k - 2 .. 3 * k : BlockMade(process_stage(k), b)
<1> DEFINE s == process_block(3 * k - 2)
           t == process_block(3 * k - 1)
           u == process_block(3 * k)
<1>1. /\ 3 * k - 2 \in 1 .. 9 /\ 3 * k - 1 \in 1 .. 9 /\ 3 * k \in 1 .. 9
      /\ BlockInput(3 * k - 1) = Part(3 * k - 2, "add") /\ BlockInput(3 * k) = Part(3 * k - 1, "add")
  <2>1. 3 * k - 1 # 1 /\ 3 * k # 1 /\ 3 * k - 1 - 1 = 3 * k - 2
    OBVIOUS
  <2> QED
    BY <2>1 DEF BlockInput
<1>2. Ready(Backbone, s, known) /\ Part(3 * k - 2, "add") \in Ats(s) /\ BlockMade(s, 3 * k - 2)
  BY <1>1, BlockReady
<1>3. Ready(Backbone, t, known \cup Ats(s)) /\ Part(3 * k - 1, "add") \in Ats(t) /\ BlockMade(t, 3 * k - 1)
  BY <1>1, <1>2, BlockReady
<1> HIDE DEF s, t, u
<1>4. /\ Ready(Backbone, u, (known \cup Ats(s)) \cup Ats(t)) /\ Part(3 * k, "add") \in Ats(u)
      /\ BlockMade(u, 3 * k)
  BY <1>1, <1>3, BlockReady DEF u
<1>5. Ready(Backbone, s, known) /\ Ready(Backbone, t, known \cup Ats(s))
  BY <1>2, <1>3
<1>6. /\ Ready(Backbone, (s \o t) \o u, known)
      /\ Joins(s, t, s \o t) /\ Joins(s \o t, u, (s \o t) \o u)
  BY <1>4, <1>5, ReadyConcat3
<1>7. process_stage(k) = (s \o t) \o u
  BY DEF process_stage, s, t, u
<1>8. ASSUME NEW b \in 3 * k - 2 .. 3 * k
      PROVE  BlockMade(process_stage(k), b)
  <2>1. b = 3 * k - 2 \/ b = 3 * k - 1 \/ b = 3 * k
    OBVIOUS
  <2> QED
    BY <1>2, <1>3, <1>4, <1>6, <1>7, <2>1 DEF BlockMade, Joins
<1> QED
  BY <1>4, <1>6, <1>7, <1>8 DEF Joins

(* Pooling and the linear layer.                                             *)
LEMMA GapFcReady ==
  ASSUME NEW script, NEW from \in Nodes, NEW known, NEW scale, from \in known,
         Tensor(script, from) = Quantized(scale, Square(8, 64)),
         Tensor(script, Gap) = Quantized(scale, Square(1, 64)),
         Tensor(script, Fc) = Quantized(Fc, Square(1, FC_OUT_CHANNELS_PADDED))
  PROVE  /\ Ready(script, GapFc(from), known)
         /\ Makes(GapFc(from), "gap", Gap) /\ Makes(GapFc(from), "conv", Fc)
<1> DEFINE c == Other("gap", Gap, from, Self)
           d == Conv(Fc, Gap, FcLayer(64), Self)
<1>1. /\ FcLayer(64) \in LayerRecords /\ FcLayer(64).ic = 64
      /\ FcLayer(64).oc = FC_OUT_CHANNELS_PADDED /\ Geometry(1, FcLayer(64), 1)
  BY PaddedAssumption DEF FcLayer, conv_bn, LayerRecords, Geometry
<1>2. /\ c \in CallRecords /\ c.op = "gap" /\ c.at = Gap /\ c.from = from /\ c.target = Self
      /\ d \in CallRecords /\ d.op = "conv" /\ d.at = Fc /\ d.from = Gap /\ d.target = Self
      /\ d.layer = FcLayer(64)
  BY <1>1, StartNodes DEF Other, Conv, CallRecords
<1>3. GapFc(from) = << c, d >>
  BY DEF GapFc
<1> HIDE DEF c, d
<1>4. GoodCall(script, c)
  <2>1. c.at[2] # "shortcut"
    BY <1>2, StartNodes
  <2> QED
    BY <1>2, <2>1, GoodGap
<1>5. GoodCall(script, d)
  BY <1>1, <1>2, GoodConv
<1>6. Reads(c, known) /\ Reads(d, known \cup {c.at})
  BY <1>2 DEF Reads
<1> QED
  BY <1>2, <1>3, <1>4, <1>5, <1>6, ReadyTwo

LEMMA BackboneCalls ==
  /\ Ready(Backbone, Calls(Backbone), Start)
  /\ Makes(Calls(Backbone), "conv", Stem)
  /\ \A b \in 1 .. 9 : BlockMade(Calls(Backbone), b)
  /\ Makes(Calls(Backbone), "gap", Gap) /\ Makes(Calls(Backbone), "conv", Fc)
<1> DEFINE stem == Conv(Stem, Input, StemConv, Self)
           head == << stem >>
           s == process_stage(1)
           t == process_stage(2)
           u == process_stage(3)
           tail == GapFc(Part(9, "add"))
<1>1. Calls(Backbone) = (head \o ((s \o t) \o u)) \o tail
  BY StartNodes DEF Calls, Backbone, BLOCK_CONFIGS, generate_backbone
<1>2. /\ Ready(Backbone, head, Start) /\ Ats(head) = {Stem} /\ Makes(head, "conv", Stem)
  <2>1. /\ stem \in CallRecords /\ stem.op = "conv" /\ stem.at = Stem /\ stem.from = Input
        /\ stem.target = Self /\ stem.layer = StemConv
    BY StartNodes DEF Conv, CallRecords
  <2>2. Geometry(32, StemConv, 32) /\ StemConv.ic = 3 /\ StemConv.oc = 16
    BY DEF StemConv, conv_bn, Geometry
  <2>3. /\ Tensor(Backbone, Stem) = Quantized(Stem, Square(32, 16))
        /\ Tensor(Backbone, Input) = Quantized(Input, Square(32, 3))
    <3>1. Stem # Pixel /\ Input # Pixel /\ Input # Stem /\ Input # Gap /\ Input # Fc /\ Input[1] \notin 1 .. 9
      BY StartNodes DEF Stem, Pixel, Input
    <3>2. /\ Tensor(Backbone, Stem) = BackboneTensor(Stem)
          /\ Tensor(Backbone, Input) = BackboneTensor(Input)
      BY <3>1 DEF Tensor, Backbone
    <3>3. Stem[1] \notin 1 .. 9 /\ Stem # Gap /\ Stem # Fc
      BY StartNodes DEF Stem
    <3>4. BackboneTensor(Stem) = Quantized(Stem, Square(32, 16))
      BY <3>3 DEF BackboneTensor
    <3>5. BackboneTensor(Input) = Quantized(Input, Square(32, 3))
      BY <3>1 DEF BackboneTensor
    <3> QED
      BY <3>2, <3>4, <3>5
  <2> HIDE DEF stem
  <2>4. GoodCall(Backbone, stem)
    BY <2>1, <2>2, <2>3, GoodConv
  <2>5. Reads(stem, Start)
    BY <2>1 DEF Reads, Start
  <2> QED
    BY <2>1, <2>4, <2>5, ReadyOne
<1>3. /\ BlockInput(3 * 1 - 2) = Stem /\ BlockInput(3 * 2 - 2) = Part(3 * 1, "add")
      /\ BlockInput(3 * 3 - 2) = Part(3 * 2, "add")
  BY DEF BlockInput
<1>4. /\ Ready(Backbone, s, Start \cup Ats(head)) /\ Part(3, "add") \in Ats(s)
      /\ \A b \in 1 .. 3 : BlockMade(s, b)
  <2>1. BlockInput(3 * 1 - 2) \in Start \cup Ats(head)
    BY <1>2, <1>3
  <2> QED
    BY <2>1, StageReady
<1> HIDE DEF head, s
<1>5. /\ Ready(Backbone, t, (Start \cup Ats(head)) \cup Ats(s)) /\ Part(6, "add") \in Ats(t)
      /\ \A b \in 4 .. 6 : BlockMade(t, b)
  <2>1. BlockInput(3 * 2 - 2) \in (Start \cup Ats(head)) \cup Ats(s)
    BY <1>3, <1>4
  <2> QED
    BY <2>1, StageReady
<1> HIDE DEF t
<1>6. /\ Ready(Backbone, u, ((Start \cup Ats(head)) \cup Ats(s)) \cup Ats(t)) /\ Part(9, "add") \in Ats(u)
      /\ \A b \in 7 .. 9 : BlockMade(u, b)
  <2>1. BlockInput(3 * 3 - 2) \in ((Start \cup Ats(head)) \cup Ats(s)) \cup Ats(t)
    BY <1>3, <1>5
  <2> QED
    BY <2>1, StageReady
<1> HIDE DEF u
<1>7. /\ Ready(Backbone, s, Start \cup Ats(head)) /\ Ready(Backbone, t, (Start \cup Ats(head)) \cup Ats(s))
      /\ Ready(Backbone, u, ((Start \cup Ats(head)) \cup Ats(s)) \cup Ats(t))
  BY <1>4, <1>5, <1>6
<1> DEFINE blocks == (s \o t) \o u
<1>8. /\ Ready(Backbone, blocks, Start \cup Ats(head))
      /\ Joins(s, t, s \o t) /\ Joins(s \o t, u, blocks)
  BY <1>7, ReadyConcat3
<1>9. \A b \in 1 .. 9 : BlockMade(blocks, b)
  <2>1. ASSUME NEW b \in 1 .. 9
        PROVE  b \in 1 .. 3 \/ b \in 4 .. 6 \/ b \in 7 .. 9
    OBVIOUS
  <2> HIDE DEF blocks
  <2> QED
    BY <1>4, <1>5, <1>6, <1>8, <2>1 DEF BlockMade, Joins
<1> HIDE DEF blocks
<1>10. Ready(Backbone, head \o blocks, Start) /\ Joins(head, blocks, head \o blocks)
  BY <1>2, <1>8, ReadyConcat
<1>11. /\ Ready(Backbone, tail, Start \cup Ats(head \o blocks))
       /\ Makes(tail, "gap", Gap) /\ Makes(tail, "conv", Fc)
  <2>1. /\ Part(9, "add") \in Nodes /\ Part(9, "add")[1] = 9 /\ Part(9, "add")[2] = "add"
        /\ Part(9, "add") \in Start \cup Ats(head \o blocks)
    BY <1>6, <1>8, <1>10, PartNodes DEF PartNames, Joins
  <2>2. Tensor(Backbone, Part(9, "add")) = Quantized(StageScale(9), Square(8, 64))
    <3>1. Tensor(Backbone, Part(9, "add")) = BlockTensor(Part(9, "add"), Side(9), Width(9), StageScale(9))
      BY BackboneBlocks DEF PartNames
    <3> QED
      BY <2>1, <3>1 DEF BlockTensor, Side, Width, StageOf
  <2>3. /\ Tensor(Backbone, Gap) = Quantized(StageScale(9), Square(1, 64))
        /\ Tensor(Backbone, Fc) = Quantized(Fc, Square(1, FC_OUT_CHANNELS_PADDED))
    <3>1. /\ Gap # Pixel /\ Gap # Stem /\ Gap[1] = 10 /\ Fc # Pixel /\ Fc # Stem /\ Fc[1] = 10 /\ Gap # Fc
      BY StartNodes DEF Pixel, Stem
    <3> QED
      BY <3>1 DEF Tensor, BackboneTensor, Backbone
  <2> QED
    BY <2>1, <2>2, <2>3, GapFcReady
<1> HIDE DEF tail
<1>12. /\ Ready(Backbone, (head \o blocks) \o tail, Start)
       /\ Joins(head \o blocks, tail, (head \o blocks) \o tail)
  BY <1>10, <1>11, ReadyConcat
<1> QED
  BY <1>1, <1>2, <1>9, <1>10, <1>11, <1>12 DEF BlockMade, Joins, blocks

GapFcScript == "stage3_gap_fc"

LEMMA GapFcCalls ==
  /\ Ready(GapFcScript, Calls(GapFcScript), Start)
  /\ Makes(Calls(GapFcScript), "gap", Gap) /\ Makes(Calls(GapFcScript), "conv", Fc)
<1> DEFINE c == Other("gap", << 0, "all_zero" >>, Input, Self)
           d == Other("gap", << 0, "all_max" >>, Input, Self)
           e == Other("gap", << 0, "all_min" >>, Input, Self)
           layer == conv_bn(4, 4, 1, 1, 0, FALSE)
           fc == Conv(<< 0, "fc_kernel1" >>, Pixel, layer, Self)
           s == << c, d, e >>
           t == << fc >>
           u == GapFc(Input)
<1>1. Calls(GapFcScript) = (s \o t) \o u
  <2>1. generate_gap_directed = s
    <3>1. generate_gap_directed \in Seq({c, d, e}) /\ Len(generate_gap_directed) = 3
      BY DEF generate_gap_directed
    <3>2. /\ generate_gap_directed[1] = c /\ generate_gap_directed[2] = d
          /\ generate_gap_directed[3] = e
      BY DEF generate_gap_directed
    <3> HIDE DEF c, d, e
    <3> QED
      BY <3>1, <3>2
  <2>2. generate_fc_kernel1_directed = t
    BY DEF generate_fc_kernel1_directed, Pixel
  <2>3. Calls(GapFcScript) = (generate_gap_directed \o generate_fc_kernel1_directed) \o u
    BY DEF Calls, GapFcScript, BLOCK_CONFIGS, generate_gap_fc_chain
  <2> QED
    BY <2>1, <2>2, <2>3
<1>2. \A name \in {"all_zero", "all_max", "all_min", "fc_kernel1"} :
        << 0, name >> \in Nodes /\ << 0, name >> \notin {Pixel, Input, Fc}
  BY StartNodes DEF Nodes, PartNames, Pixel, Input
<1>3. /\ Tensor(GapFcScript, Input) = Quantized(Input, Square(8, 64))
      /\ Tensor(GapFcScript, Pixel) = Quantized(Input, Square(1, 4))
      /\ Tensor(GapFcScript, Gap) = Quantized(Input, Square(1, 64))
      /\ Tensor(GapFcScript, Fc) = Quantized(Fc, Square(1, FC_OUT_CHANNELS_PADDED))
      /\ Tensor(GapFcScript, << 0, "fc_kernel1" >>) = Quantized(<< 0, "fc_kernel1" >>, Square(1, 4))
      /\ \A name \in {"all_zero", "all_max", "all_min"} :
           Tensor(GapFcScript, << 0, name >>) = Quantized(Input, Square(1, 64))
  <2>1. \A at \in Nodes \ {Pixel} : Tensor(GapFcScript, at) = GapFcTensor(at)
    BY DEF Tensor, GapFcScript
  <2>2. Tensor(GapFcScript, Pixel) = Quantized(Input, Square(1, 4))
    BY DEF Tensor
  <2>3. /\ Input # Pixel /\ Gap # Pixel /\ Fc # Pixel
        /\ Input # Fc /\ Gap \notin {Fc, Input, << 0, "fc_kernel1" >>} /\ << 0, "fc_kernel1" >> # Input
    BY StartNodes DEF Pixel, Input
  <2>4. /\ GapFcTensor(Input) = Quantized(Input, Square(8, 64))
        /\ GapFcTensor(Gap) = Quantized(Input, Square(1, 64))
        /\ GapFcTensor(Fc) = Quantized(Fc, Square(1, FC_OUT_CHANNELS_PADDED))
        /\ GapFcTensor(<< 0, "fc_kernel1" >>) = Quantized(<< 0, "fc_kernel1" >>, Square(1, 4))
    BY <1>2, <2>3 DEF GapFcTensor
  <2>5. ASSUME NEW name \in {"all_zero", "all_max", "all_min"}
        PROVE  GapFcTensor(<< 0, name >>) = Quantized(Input, Square(1, 64))
    BY <1>2 DEF GapFcTensor
  <2> QED
    BY <1>2, <2>1, <2>2, <2>3, <2>4, <2>5, StartNodes
<1>4. /\ \A call \in {c, d, e} :
           call \in CallRecords /\ call.op = "gap" /\ call.from = Input /\ call.target = Self
      /\ c.at = << 0, "all_zero" >> /\ d.at = << 0, "all_max" >> /\ e.at = << 0, "all_min" >>
  BY <1>2, StartNodes DEF Other, CallRecords
<1>5. /\ fc \in CallRecords /\ fc.op = "conv" /\ fc.at = << 0, "fc_kernel1" >> /\ fc.from = Pixel
      /\ fc.target = Self /\ fc.layer = layer
  <2>1. layer \in LayerRecords
    BY DEF conv_bn, LayerRecords
  <2> QED
    BY <1>2, <2>1, StartNodes DEF Conv, CallRecords
<1>6. Geometry(1, layer, 1) /\ layer.ic = 4 /\ layer.oc = 4
  BY DEF conv_bn, Geometry
<1> HIDE DEF c, d, e, fc, layer
<1>7. /\ Ready(GapFcScript, s, Start)
  <2>1. GoodCall(GapFcScript, c) /\ GoodCall(GapFcScript, d) /\ GoodCall(GapFcScript, e)
    BY <1>3, <1>4, GoodGap
  <2>2. /\ Reads(c, Start) /\ Reads(d, Start \cup {c.at}) /\ Reads(e, Start \cup {c.at, d.at})
    BY <1>4 DEF Reads, Start
  <2> QED
    BY <2>1, <2>2, ReadyThree
<1> HIDE DEF s
<1>8. Ready(GapFcScript, t, Start \cup Ats(s))
  <2>1. GoodCall(GapFcScript, fc)
    BY <1>3, <1>5, <1>6, GoodConv
  <2>2. Reads(fc, Start \cup Ats(s))
    BY <1>5 DEF Reads, Start
  <2> QED
    BY <2>1, <2>2, ReadyOne
<1> HIDE DEF t
<1>9. /\ Ready(GapFcScript, u, (Start \cup Ats(s)) \cup Ats(t))
      /\ Makes(u, "gap", Gap) /\ Makes(u, "conv", Fc)
  <2>1. Input \in (Start \cup Ats(s)) \cup Ats(t)
    BY DEF Start
  <2> QED
    BY <1>3, <2>1, StartNodes, GapFcReady
<1> HIDE DEF u
<1>10. /\ Ready(GapFcScript, (s \o t) \o u, Start)
       /\ Joins(s, t, s \o t) /\ Joins(s \o t, u, (s \o t) \o u)
  BY <1>7, <1>8, <1>9, ReadyConcat3
<1> QED
  BY <1>1, <1>9, <1>10 DEF Joins

LEMMA ScriptsReady ==
  ASSUME NEW script \in Scripts
  PROVE  Ready(script, Calls(script), Start)
BY Stage1Calls, Stage2Calls, BackboneCalls, GapFcCalls DEF Scripts, Backbone, GapFcScript

-----------------------------------------------------------------------------
(* The inductive invariant.                                                  *)

(* What is there before the n-th call.                                       *)
Known(n) == {Input, Pixel} \cup {AllCalls[k].at : k \in 1 .. n - 1}

(* The files of a call, and those of the calls before the n-th.              *)
FilesOf(call) == {call.at} \X ToSet(ExportFiles(call))
Exported(n) == UNION {FilesOf(AllCalls[k]) : k \in 1 .. n - 1}
Directory == Exported(Len(AllCalls) + 1) \cup ToSet(ChainFiles)

RunInv ==
  /\ run = [script |-> run.script, seed |-> run.seed, next |-> run.next, files |-> run.files]
  /\ run.script \in Generated /\ run.seed \in Seeds \cup {NoSeed}
  /\ run.next \in 1 .. Len(AllCalls) + 1
  /\ run.files \in Seq(Exported(run.next))
  /\ whole \in Seeds \cup {NoSeed}

(* What a run computed so far is the network's.                              *)
TensorsInv ==
  Running => \A n \in Known(run.next) : n \in DOMAIN tensors /\ tensors[n] = Tensor(Script, n)

(* Every file of the calls so far is of this run, but for those still to be  *)
(* written; nobody else writes into the directory.                           *)
DiskInv ==
  /\ DOMAIN disk \subseteq Directory
  /\ Running => \A p \in Exported(run.next) \ ToSet(run.files) : p \in DOMAIN disk /\ disk[p] = run.seed
  /\ whole # NoSeed => ~Running /\ \A p \in Directory : p \in DOMAIN disk /\ disk[p] = whole

PipelineInv == RunInv /\ TensorsInv /\ DiskInv
-----------------------------------------------------------------------------
(* What the directory of a script holds, and what its header reads of it.    *)

FileNames ==
  {"input", "weight", "bias", "expected_output", "config", "final_expected_output", "shortcut_rescaled",
   "residual_config"}

LEMMA ScriptCalls ==
  ASSUME Script \in Scripts
  PROVE  /\ AllCalls \in Seq(CallRecords) /\ Len(AllCalls) \in Nat
         /\ DOMAIN AllCalls = 1 .. Len(AllCalls)
         /\ \A k \in 1 .. Len(AllCalls) :
              AllCalls[k] \in CallRecords /\ GoodCall(Script, AllCalls[k]) /\ Reads(AllCalls[k], Known(k))
<1>1. Ready(Script, AllCalls, Start)
  BY ScriptsReady DEF AllCalls
<1>2. \A k \in 1 .. Len(AllCalls) : Before(AllCalls, Start, k) = Known(k)
  BY DEF Before, Known, Start
<1>3. AllCalls \in Seq(CallRecords) /\ Len(AllCalls) \in Nat /\ DOMAIN AllCalls = 1 .. Len(AllCalls)
  BY <1>1 DEF Ready
<1> QED
  BY <1>1, <1>2, <1>3 DEF Ready

LEMMA FilesWritten ==
  ASSUME NEW call \in CallRecords
  PROVE  /\ ExportFiles(call) \in Seq(FileNames)
         /\ call.op = "conv" => ToSet(ExportFiles(call)) = ConvData \cup {"input"}
         /\ call.op = "gap" => ToSet(ExportFiles(call)) = {"input", "expected_output", "config"}
         /\ call.op = "add" =>
              ToSet(ExportFiles(call)) =
                ResidualData \cup IF Script = "identity" THEN {"shortcut_rescaled"} ELSE {}
<1>1. call.op \in {"conv", "gap", "add", "rescale"}
  BY DEF CallRecords
<1>2. CASE call.op = "conv"
  BY <1>2 DEF ExportFiles, export_conv_test_vector, FileNames, ToSet, ConvData
<1>3. CASE call.op = "gap"
  BY <1>3 DEF ExportFiles, export_gap_test_vector, FileNames, ToSet
<1>4. CASE call.op = "add"
  <2>1. CASE Script = "identity"
    <3>1. ExportFiles(call) = << "final_expected_output", "shortcut_rescaled", "residual_config" >>
      BY <1>4, <2>1 DEF ExportFiles, ResidualFiles
    <3> QED
      BY <1>4, <2>1, <3>1 DEF FileNames, ToSet, ResidualData
  <2>2. CASE Script # "identity"
    <3>1. ExportFiles(call) = << "final_expected_output", "residual_config" >>
      BY <1>4, <2>2 DEF ExportFiles, ResidualFiles
    <3> QED
      BY <1>4, <2>2, <3>1 DEF FileNames, ToSet, ResidualData
  <2> QED
    BY <2>1, <2>2
<1>5. CASE call.op = "rescale"
  BY <1>5 DEF ExportFiles, FileNames
<1> QED
  BY <1>1, <1>2, <1>3, <1>4, <1>5

LEMMA PathsOfCall ==
  ASSUME NEW call \in CallRecords
  PROVE  /\ Paths(call.at, ExportFiles(call)) \in Seq(FilesOf(call))
         /\ ToSet(Paths(call.at, ExportFiles(call))) = FilesOf(call)
<1> DEFINE names == ExportFiles(call)
           paths == Paths(call.at, names)
<1>1. names \in Seq(FileNames) /\ DOMAIN names = 1 .. Len(names) /\ Len(names) \in Nat
  BY FilesWritten
<1> HIDE DEF names
<1>2. DOMAIN paths = DOMAIN names /\ \A k \in DOMAIN names : paths[k] = << call.at, names[k] >>
  BY DEF Paths
<1>3. paths \in Seq(FilesOf(call))
  BY <1>1 DEF Paths, FilesOf, ToSet, names
<1> HIDE DEF paths
<1>4. ToSet(paths) = {call.at} \X ToSet(names)
  BY <1>2 DEF ToSet
<1> QED
  BY <1>3, <1>4 DEF FilesOf, paths, names

LEMMA ExportedGrows ==
  ASSUME Script \in Scripts, NEW n \in 1 .. Len(AllCalls)
  PROVE  /\ Exported(n + 1) = Exported(n) \cup FilesOf(AllCalls[n])
         /\ Known(n + 1) = Known(n) \cup {AllCalls[n].at}
<1>1. Len(AllCalls) \in Nat
  BY ScriptCalls
<1>2. 1 .. (n + 1) - 1 = (1 .. n - 1) \cup {n}
  BY <1>1
<1> QED
  BY <1>2 DEF Exported, Known

LEMMA ExportedInDirectory ==
  ASSUME Script \in Scripts, NEW n \in 1 .. Len(AllCalls) + 1
  PROVE  Exported(n) \subseteq Directory
<1>1. 1 .. n - 1 \subseteq 1 .. (Len(AllCalls) + 1) - 1
  BY ScriptCalls
<1> QED
  BY <1>1 DEF Exported, Directory

LEMMA MadeFiles ==
  ASSUME Script \in Scripts, NEW op, NEW at, Makes(AllCalls, op, at)
  PROVE  /\ op = "conv" => Files(at, ConvData \cup {"input"}) \subseteq Directory
         /\ op = "gap" => Files(at, {"input", "expected_output", "config"}) \subseteq Directory
         /\ op = "add" =>
              Files(at, ResidualData \cup IF Script = "identity" THEN {"shortcut_rescaled"} ELSE {})
                \subseteq Directory
<1>1. PICK k \in 1 .. Len(AllCalls) : AllCalls[k].op = op /\ AllCalls[k].at = at
  BY ScriptCalls DEF Makes
<1>2. FilesOf(AllCalls[k]) \subseteq Directory
  <2>1. k + 1 \in 1 .. Len(AllCalls) + 1
    BY ScriptCalls
  <2> QED
    BY <2>1, ExportedGrows, ExportedInDirectory
<1>3. AllCalls[k] \in CallRecords
  BY ScriptCalls
<1> QED
  BY <1>1, <1>2, <1>3, FilesWritten DEF FilesOf, Files

(* A directory of a projection is written by a convolution.                  *)
LEMMA ShortcutFiles ==
  ASSUME Script \in Scripts, NEW path \in Directory, path[1][2] = "shortcut"
  PROVE  Files(path[1], ConvData) \subseteq Directory
<1>1. path \notin ToSet(ChainFiles)
  BY DEF ChainFiles, Chain, ToSet
<1>2. PICK k \in 1 .. Len(AllCalls) : path \in FilesOf(AllCalls[k])
  BY <1>1, ScriptCalls DEF Directory, Exported
<1>3. path[1] = AllCalls[k].at
  BY <1>2 DEF FilesOf
<1>4. AllCalls[k].op = "conv"
  BY <1>3, ScriptCalls DEF GoodCall
<1>5. Makes(AllCalls, "conv", path[1])
  BY <1>3, <1>4, ScriptCalls DEF Makes
<1> QED
  BY <1>5, MadeFiles DEF Files

LEMMA HeaderFiles ==
  ASSUME Script \in Scripts, DOMAIN disk \subseteq Directory
  PROVE  /\ HeaderReads \subseteq Directory
         /\ \A pair \in Checked :
              << pair[2], "input" >> \in Directory /\ << pair[1], "expected_output" >> \in Directory
<1> USE DEF Scripts
<1>1. CASE Script = "stage1_conv"
  <2>1. Makes(AllCalls, "conv", << 0, "conv" >>)
    BY <1>1, Stage1Calls DEF AllCalls
  <2>2. Stage1Header \subseteq Directory
    BY <2>1, MadeFiles DEF Stage1Header
  <2>3. HeaderReads = Stage1Header /\ Checked = {}
    BY <1>1 DEF HeaderReads, Checked, BLOCK_CONFIGS
  <2> QED
    BY <2>2, <2>3
<1>2. CASE Script \in {"identity", "projection"}
  <2>1. /\ Makes(AllCalls, "conv", Part(1, "conv1")) /\ Makes(AllCalls, "conv", Part(1, "conv2"))
        /\ Makes(AllCalls, "add", Part(1, "add"))
        /\ Script = "projection" => Makes(AllCalls, "conv", Part(1, "shortcut"))
    BY <1>2, Stage2Calls DEF AllCalls
  <2>2. /\ Files(Part(1, "conv1"), ConvData \cup {"input"}) \subseteq Directory
        /\ Files(Part(1, "conv2"), ConvData \cup {"input"}) \subseteq Directory
        /\ Files(Part(1, "add"), ResidualData \cup IF Script = "identity" THEN {"shortcut_rescaled"} ELSE {})
             \subseteq Directory
        /\ Script = "projection" => Files(Part(1, "shortcut"), ConvData \cup {"input"}) \subseteq Directory
    BY <2>1, MadeFiles
  <2>3. HeaderReads = Stage2Header /\ Checked = {<< Part(1, "conv1"), Part(1, "conv2") >>}
    BY <1>2 DEF HeaderReads, Checked, BLOCK_CONFIGS
  <2>4. Stage2Header \subseteq Directory
    BY <1>2, <2>2 DEF Stage2Header, Files
  <2>5. /\ << Part(1, "conv2"), "input" >> \in Directory
        /\ << Part(1, "conv1"), "expected_output" >> \in Directory
    BY <2>2 DEF Files, ConvData
  <2> QED
    BY <2>3, <2>4, <2>5
<1>3. CASE Script = Backbone
  <2>1. /\ Makes(AllCalls, "conv", Stem) /\ \A b \in 1 .. 9 : BlockMade(AllCalls, b)
        /\ Makes(AllCalls, "gap", Gap) /\ Makes(AllCalls, "conv", Fc)
    BY <1>3, BackboneCalls DEF AllCalls
  <2>2. /\ Files(Stem, ConvData \cup {"input"}) \subseteq Directory
        /\ Files(Gap, {"input", "expected_output", "config"}) \subseteq Directory
        /\ Files(Fc, ConvData \cup {"input"}) \subseteq Directory
        /\ \A b \in 1 .. 9 :
             /\ Files(Part(b, "conv1"), ConvData \cup {"input"}) \subseteq Directory
             /\ Files(Part(b, "conv2"), ConvData \cup {"input"}) \subseteq Directory
             /\ Files(Part(b, "add"), ResidualData \cup IF Script = "identity" THEN {"shortcut_rescaled"} ELSE {})
                  \subseteq Directory
    BY <2>1, MadeFiles DEF BlockMade
  <2>3. Chain \in Directory
    BY <1>3 DEF Directory, ChainFiles, Backbone, ToSet
  <2>4. HeaderReads = BackboneHeader /\ Checked = {<< Gap, Fc >>}
    BY <1>3 DEF HeaderReads, Checked, BLOCK_CONFIGS, Backbone
  <2>5. UNION {Files(p[1], ConvData) : p \in {q \in DOMAIN disk : q[1][2] = "shortcut"}} \subseteq Directory
    BY ShortcutFiles
  <2>6. UNION {Files(Part(b, part), ConvData) : b \in 1 .. NumBlocks, part \in {"conv1", "conv2"}} \subseteq Directory
    BY <2>2, StartNodes DEF Files
  <2>7. UNION {Files(Part(b, "add"), ResidualData) : b \in 1 .. NumBlocks} \subseteq Directory
    BY <2>2, StartNodes DEF Files
  <2>8. /\ Files(Gap, {"expected_output", "config"}) \subseteq Directory
        /\ Files(Fc, ConvData) \subseteq Directory
    BY <2>2 DEF Files
  <2>9. BackboneHeader \subseteq Directory
    <3> DEFINE shortcuts == UNION {Files(p[1], ConvData) : p \in {q \in DOMAIN disk : q[1][2] = "shortcut"}}
               convs == UNION {Files(Part(b, part), ConvData) : b \in 1 .. NumBlocks, part \in {"conv1", "conv2"}}
               adds == UNION {Files(Part(b, "add"), ResidualData) : b \in 1 .. NumBlocks}
    <3>1. BackboneHeader =
            Files(Stem, ConvData \cup {"input"}) \cup convs \cup shortcuts \cup adds
              \cup Files(Gap, {"expected_output", "config"}) \cup Files(Fc, ConvData) \cup {Chain}
      BY DEF BackboneHeader
    <3>2. convs \subseteq Directory /\ shortcuts \subseteq Directory /\ adds \subseteq Directory
      BY <2>5, <2>6, <2>7
    <3> HIDE DEF convs, shortcuts, adds
    <3> QED
      BY <2>2, <2>3, <2>8, <3>1, <3>2
  <2>10. << Fc, "input" >> \in Directory /\ << Gap, "expected_output" >> \in Directory
    BY <2>2 DEF Files
  <2> QED
    BY <2>4, <2>9, <2>10
<1>4. CASE Script = GapFcScript
  <2>1. Makes(AllCalls, "gap", Gap) /\ Makes(AllCalls, "conv", Fc)
    BY <1>4, GapFcCalls DEF AllCalls
  <2>2. /\ Files(Gap, {"input", "expected_output", "config"}) \subseteq Directory
        /\ Files(Fc, ConvData \cup {"input"}) \subseteq Directory
    BY <2>1, MadeFiles
  <2>3. Chain \in Directory
    BY <1>4 DEF Directory, ChainFiles, GapFcScript, ToSet
  <2>4. HeaderReads = GapFcHeader /\ Checked = {<< Gap, Fc >>}
    BY <1>4 DEF HeaderReads, Checked, BLOCK_CONFIGS, GapFcScript
  <2>5. << Fc, "input" >> \in Directory /\ << Gap, "expected_output" >> \in Directory
    BY <2>2 DEF Files
  <2>6. GapFcHeader \subseteq Directory
    BY <2>2, <2>3 DEF GapFcHeader, Files
  <2> QED
    BY <2>4, <2>5, <2>6
<1> QED
  BY <1>1, <1>2, <1>3, <1>4 DEF Backbone, GapFcScript
-----------------------------------------------------------------------------
(* The invariant holds in every state.                                       *)

LEMMA StartTensors ==
  ASSUME NEW script \in Scripts
  PROVE  /\ Tensor(script, Input) = [scale |-> Input, shape |-> InputShape(script)]
         /\ Tensor(script, Pixel) = [scale |-> Input, shape |-> << 1, 1, 4 >>]
<1>1. Tensor(script, Pixel) = Quantized(Input, Square(1, 4)) /\ Input # Pixel
  BY DEF Tensor, Input, Pixel
<1>2. /\ Input # Stem /\ Input # Gap /\ Input # Fc /\ Input[1] \notin 1 .. 9
      /\ Input # << 0, "fc_kernel1" >>
  BY StartNodes DEF Input, Stem
<1>3. CASE script = "stage1_conv"
  <2>1. Tensor(script, Input) = Quantized(Input, Square(32, 3))
    BY <1>1, <1>3 DEF Tensor
  <2>2. InputShape(script) = << 32, 32, 3 >>
    BY <1>3 DEF InputShape, BLOCK_CONFIGS
  <2> QED
    BY <1>1, <2>1, <2>2 DEF Quantized, Square
<1>4. CASE script \in {"identity", "projection"}
  <2>1. Tensor(script, Input) = Quantized(Input, Square(32, 16))
    BY <1>1, <1>4 DEF Tensor
  <2>2. InputShape(script) = << 32, 32, 16 >>
    BY <1>4 DEF InputShape, BLOCK_CONFIGS
  <2> QED
    BY <1>1, <2>1, <2>2 DEF Quantized, Square
<1>5. CASE script = Backbone
  <2>1. Tensor(script, Input) = BackboneTensor(Input)
    BY <1>1, <1>5 DEF Tensor, Backbone
  <2>2. BackboneTensor(Input) = Quantized(Input, Square(32, 3))
    BY <1>2 DEF BackboneTensor
  <2>3. InputShape(script) = << 32, 32, 3 >>
    BY <1>5 DEF InputShape, Backbone, BLOCK_CONFIGS
  <2> QED
    BY <1>1, <2>1, <2>2, <2>3 DEF Quantized, Square
<1>6. CASE script = GapFcScript
  <2>1. Tensor(script, Input) = GapFcTensor(Input)
    BY <1>1, <1>6 DEF Tensor, GapFcScript
  <2>2. GapFcTensor(Input) = Quantized(Input, Square(8, 64))
    BY <1>2 DEF GapFcTensor
  <2>3. InputShape(script) = << 8, 8, 64 >>
    BY <1>6 DEF InputShape, GapFcScript, BLOCK_CONFIGS
  <2> QED
    BY <1>1, <2>1, <2>2, <2>3 DEF Quantized, Square
<1> QED
  BY <1>3, <1>4, <1>5, <1>6 DEF Scripts, Backbone, GapFcScript

(* What a call computes, and its registers, depend on what it reads.         *)
LEMMA OutputAgrees ==
  ASSUME NEW call \in CallRecords, NEW one, NEW other, one[call.from] = other[call.from],
         (call.target = Self /\ call.op \in {"conv", "gap"}) \/ one[call.target] = other[call.target]
  PROVE  Output(call, one) = Output(call, other)
<1>1. call.op \in {"conv", "gap", "add", "rescale"}
  BY DEF CallRecords
<1>2. CASE call.op = "conv"
  BY <1>2 DEF Output, _quantize_and_export_conv
<1>3. CASE call.op = "gap"
  BY <1>3 DEF Output, PoolOnto
<1>4. CASE call.op = "add"
  BY <1>4 DEF Output, _combine_residual
<1>5. CASE call.op = "rescale"
  BY <1>5 DEF Output, _rescale_int8
<1> QED
  BY <1>1, <1>2, <1>3, <1>4, <1>5

LEMMA RegistersAgree ==
  ASSUME NEW call \in CallRecords, NEW one, NEW other,
         one[call.from] = other[call.from], one[call.at] = other[call.at],
         call.op = "add" => one[call.target] = other[call.target]
  PROVE  RegistersOf(call, one) = RegistersOf(call, other)
<1>1. CASE call.op = "add"
  BY <1>1 DEF RegistersOf
<1>2. CASE call.op # "add"
  BY <1>2 DEF RegistersOf
<1> QED
  BY <1>1, <1>2

LEMMA HeadAndTail ==
  ASSUME NEW S, NEW s \in Seq(S), s # << >>
  PROVE  /\ Head(s) \in S /\ Tail(s) \in Seq(S)
         /\ ToSet(s) = {Head(s)} \cup ToSet(Tail(s))
<1>1. /\ Len(s) \in Nat \ {0} /\ DOMAIN s = 1 .. Len(s) /\ Head(s) = s[1] /\ Head(s) \in S
      /\ Tail(s) \in Seq(S) /\ Len(Tail(s)) = Len(s) - 1 /\ DOMAIN Tail(s) = 1 .. Len(s) - 1
      /\ \A i \in 1 .. Len(s) - 1 : Tail(s)[i] = s[i + 1]
  OBVIOUS
<1>2. ASSUME NEW i \in 1 .. Len(s), i # 1
      PROVE  i - 1 \in 1 .. Len(s) - 1 /\ Tail(s)[i - 1] = s[i]
  <2>1. i - 1 \in 1 .. Len(s) - 1 /\ (i - 1) + 1 = i
    BY <1>1, <1>2
  <2> QED
    BY <1>1, <2>1
<1>3. \A i \in 1 .. Len(s) - 1 : i + 1 \in 1 .. Len(s) /\ Tail(s)[i] = s[i + 1]
  BY <1>1
<1>4. ToSet(s) \subseteq {Head(s)} \cup ToSet(Tail(s))
  <2>1. ASSUME NEW i \in 1 .. Len(s)
        PROVE  s[i] = Head(s) \/ \E j \in 1 .. Len(s) - 1 : Tail(s)[j] = s[i]
    BY <1>1, <1>2
  <2>2. ASSUME NEW x \in ToSet(s)
        PROVE  x \in {Head(s)} \cup ToSet(Tail(s))
    <3>1. PICK i \in 1 .. Len(s) : x = s[i]
      BY <1>1 DEF ToSet
    <3> QED
      BY <1>1, <2>1, <3>1 DEF ToSet
  <2> QED
    BY <2>2
<1>5. {Head(s)} \cup ToSet(Tail(s)) \subseteq ToSet(s)
  <2>1. 1 \in 1 .. Len(s)
    BY <1>1
  <2> QED
    BY <1>1, <1>3, <2>1 DEF ToSet
<1> QED
  BY <1>1, <1>4, <1>5

LEMMA InitHolds == PipelineInit => PipelineInv
<1> SUFFICES ASSUME PipelineInit PROVE PipelineInv
  OBVIOUS
<1>1. PICK script \in Generated : run = [NotRunning EXCEPT !.script = script]
  BY DEF PipelineInit
<1>2. run = [script |-> script, seed |-> NoSeed, next |-> 1, files |-> << >>]
  BY <1>1 DEF NotRunning
<1>3. Script \in Scripts /\ ~Running
  BY <1>2, GeneratedAssumption DEF Script, Running
<1>4. 1 \in 1 .. Len(AllCalls) + 1
  BY <1>3, ScriptCalls
<1>5. RunInv
  BY <1>2, <1>4 DEF PipelineInit, RunInv
<1>6. TensorsInv /\ DiskInv
  BY <1>3 DEF TensorsInv, DiskInv, PipelineInit, NoFiles
<1> QED
  BY <1>5, <1>6 DEF PipelineInv

(* The script stays what it is, and so do its calls and its files.           *)
LEMMA SameScript ==
  ASSUME run'.script = run.script
  PROVE  /\ Script' = Script /\ AllCalls' = AllCalls /\ Directory' = Directory
         /\ Known(run.next)' = Known(run'.next) /\ Exported(run.next)' = Exported(run'.next)
BY DEF Script, AllCalls, Directory, Known, Exported, FilesOf, ExportFiles, ResidualFiles, ChainFiles

LEMMA GenerateKeeps ==
  ASSUME PipelineInv, NEW seed \in Seeds, Generate(seed)
  PROVE  PipelineInv'
<1>1. /\ run = [script |-> run.script, seed |-> run.seed, next |-> run.next, files |-> run.files]
      /\ run.script \in Generated /\ Script \in Scripts /\ seed # NoSeed
  BY GeneratedAssumption DEF PipelineInv, RunInv, Script
<1>2. run' = [script |-> run.script, seed |-> seed, next |-> 1, files |-> << >>]
  BY <1>1 DEF Generate
<1>3. /\ Script' = Script /\ AllCalls' = AllCalls /\ Directory' = Directory
      /\ Known(run.next)' = Known(1) /\ Exported(run.next)' = Exported(1)
  BY <1>2, SameScript
<1>4. RunInv'
  <2>1. 1 \in 1 .. Len(AllCalls) + 1
    BY <1>1, ScriptCalls
  <2>2. /\ run' = [script |-> run'.script, seed |-> run'.seed, next |-> run'.next, files |-> run'.files]
        /\ run'.next = 1 /\ run'.script = run.script /\ run'.seed = seed
    BY <1>2
  <2>3. run'.files \in Seq(Exported(run.next)')
    BY <1>2
  <2>4. whole' \in Seeds \cup {NoSeed}
    BY DEF Generate
  <2> QED
    BY <1>1, <1>3, <2>1, <2>2, <2>3, <2>4 DEF RunInv
<1>5. Known(1) = {Input, Pixel} /\ Exported(1) = {}
  BY DEF Known, Exported
<1>6. TensorsInv'
  <2>1. /\ DOMAIN tensors' = {Input, Pixel} /\ Input # Pixel
        /\ tensors'[Input] = [scale |-> Input, shape |-> InputShape(Script)]
        /\ tensors'[Pixel] = [scale |-> Input, shape |-> << 1, 1, 4 >>]
    BY DEF Generate, Input, Pixel
  <2>2. \A n \in {Input, Pixel} : tensors'[n] = Tensor(Script, n)
    BY <1>1, <2>1, StartTensors
  <2> QED
    BY <1>2, <1>3, <1>5, <2>1, <2>2 DEF TensorsInv
<1>7. DiskInv'
  BY <1>2, <1>3, <1>5 DEF DiskInv, PipelineInv, Generate
<1> QED
  BY <1>4, <1>6, <1>7 DEF PipelineInv

LEMMA NextCallKeeps ==
  ASSUME PipelineInv, NextCall
  PROVE  PipelineInv'
<1> DEFINE n == run.next
           call == AllCalls[n]
           paths == Paths(call.at, ExportFiles(call))
<1>1. /\ run = [script |-> run.script, seed |-> run.seed, next |-> n, files |-> run.files]
      /\ run.script \in Generated /\ Script \in Scripts /\ Running /\ run.seed \in Seeds
      /\ run.files = << >> /\ whole \in Seeds \cup {NoSeed} /\ whole = NoSeed
  BY GeneratedAssumption DEF PipelineInv, RunInv, DiskInv, Script, Running, NextCall
<1>2. n \in 1 .. Len(AllCalls) /\ n + 1 \in 1 .. Len(AllCalls) + 1
  BY <1>1, ScriptCalls DEF NextCall, PipelineInv, RunInv
<1>3. call \in CallRecords /\ GoodCall(Script, call) /\ Reads(call, Known(n))
  BY <1>1, <1>2, ScriptCalls
<1>4. run' = [script |-> run.script, seed |-> run.seed, next |-> n + 1, files |-> paths]
  BY <1>1 DEF NextCall
<1>5. /\ Script' = Script /\ AllCalls' = AllCalls /\ Directory' = Directory
      /\ Known(run.next)' = Known(n + 1) /\ Exported(run.next)' = Exported(n + 1)
  BY <1>4, SameScript
<1>6. Exported(n + 1) = Exported(n) \cup FilesOf(call) /\ Known(n + 1) = Known(n) \cup {call.at}
  BY <1>1, <1>2, ExportedGrows
<1>7. paths \in Seq(FilesOf(call)) /\ ToSet(paths) = FilesOf(call)
  BY <1>3, PathsOfCall
<1>8. paths \in Seq(Exported(n + 1))
  BY <1>6, <1>7
<1>9. \A m \in Known(n) : m \in DOMAIN tensors /\ tensors[m] = Tensor(Script, m)
  BY <1>1 DEF PipelineInv, TensorsInv
<1>10. Output(call, tensors) = Tensor(Script, call.at)
  <2>1. \A m \in {call.from, call.target} : m \in Nodes
    BY <1>3 DEF CallRecords
  <2>2. tensors[call.from] = Net(Script)[call.from]
    BY <1>3, <1>9, <2>1 DEF Reads, Net
  <2>3. (call.target = Self /\ call.op \in {"conv", "gap"}) \/ tensors[call.target] = Net(Script)[call.target]
    BY <1>3, <1>9, <2>1 DEF Reads, Net
  <2>4. Output(call, tensors) = Output(call, Net(Script))
    BY <1>3, <2>2, <2>3, OutputAgrees
  <2> QED
    BY <1>3, <2>4 DEF GoodCall
<1>11. /\ DOMAIN tensors' = {call.at} \cup DOMAIN tensors
       /\ tensors'[call.at] = Output(call, tensors)
       /\ \A m \in DOMAIN tensors \ {call.at} : tensors'[m] = tensors[m]
  BY DEF NextCall
<1> HIDE DEF n, call, paths
<1>12. RunInv'
  <2>1. run' = [script |-> run'.script, seed |-> run'.seed, next |-> run'.next, files |-> run'.files]
    BY <1>4
  <2>2. whole' \in Seeds \cup {NoSeed}
    BY <1>1 DEF NextCall
  <2>3. run'.files \in Seq(Exported(run.next)')
    BY <1>4, <1>5, <1>8
  <2> QED
    BY <1>1, <1>2, <1>4, <1>5, <2>1, <2>2, <2>3 DEF RunInv
<1>13. TensorsInv'
  <2>1. \A m \in Known(n + 1) : m \in DOMAIN tensors' /\ tensors'[m] = Tensor(Script, m)
    BY <1>6, <1>9, <1>10, <1>11
  <2> QED
    BY <1>4, <1>5, <2>1 DEF TensorsInv
<1>14. DiskInv'
  <2>1. \A p \in Exported(n) : p \in DOMAIN disk /\ disk[p] = run.seed
    <3>1. ToSet(run.files) = {}
      BY <1>1 DEF ToSet
    <3> QED
      BY <1>1, <3>1 DEF PipelineInv, DiskInv, n
  <2>2. \A p \in Exported(n + 1) \ ToSet(paths) : p \in DOMAIN disk /\ disk[p] = run.seed
    BY <1>6, <1>7, <2>1
  <2>3. disk' = disk /\ whole' = whole
    BY DEF NextCall
  <2> QED
    BY <1>1, <1>4, <1>5, <2>2, <2>3 DEF PipelineInv, DiskInv
<1> QED
  BY <1>12, <1>13, <1>14 DEF PipelineInv
LEMMA WriteFileKeeps ==
  ASSUME PipelineInv, WriteFile
  PROVE  PipelineInv'
<1> DEFINE n == run.next
           path == Head(run.files)
<1>1. /\ run = [script |-> run.script, seed |-> run.seed, next |-> n, files |-> run.files]
      /\ run.script \in Generated /\ Script \in Scripts /\ Running /\ run.seed \in Seeds
      /\ run.files \in Seq(Exported(n)) /\ run.files # << >> /\ n \in 1 .. Len(AllCalls) + 1
      /\ whole \in Seeds \cup {NoSeed} /\ whole = NoSeed
  BY GeneratedAssumption DEF PipelineInv, RunInv, DiskInv, Script, Running, WriteFile
<1>2. /\ path \in Exported(n) /\ Tail(run.files) \in Seq(Exported(n))
      /\ ToSet(run.files) = {path} \cup ToSet(Tail(run.files))
  BY <1>1, HeadAndTail
<1>3. run' = [script |-> run.script, seed |-> run.seed, next |-> n, files |-> Tail(run.files)]
  BY <1>1 DEF WriteFile
<1>4. /\ Script' = Script /\ AllCalls' = AllCalls /\ Directory' = Directory
      /\ Known(run.next)' = Known(n) /\ Exported(run.next)' = Exported(n)
  BY <1>3, SameScript
<1>5. /\ DOMAIN disk' = {path} \cup DOMAIN disk /\ disk'[path] = run.seed
      /\ \A p \in DOMAIN disk \ {path} : disk'[p] = disk[p]
      /\ tensors' = tensors /\ whole' = whole
  BY DEF WriteFile, Written
<1> HIDE DEF n, path
<1>6. RunInv'
  <2>1. /\ run' = [script |-> run'.script, seed |-> run'.seed, next |-> run'.next, files |-> run'.files]
        /\ run'.next = n /\ run'.script = run.script /\ run'.seed = run.seed
    BY <1>3
  <2>2. run'.files \in Seq(Exported(run.next)')
    BY <1>2, <1>3, <1>4
  <2> QED
    BY <1>1, <1>4, <1>5, <2>1, <2>2 DEF RunInv
<1>7. TensorsInv'
  BY <1>1, <1>3, <1>4, <1>5 DEF PipelineInv, TensorsInv, n
<1>8. DiskInv'
  <2>1. DOMAIN disk' \subseteq Directory
    BY <1>1, <1>2, <1>5, ExportedInDirectory DEF PipelineInv, DiskInv
  <2>2. \A p \in Exported(n) \ ToSet(Tail(run.files)) : p \in DOMAIN disk' /\ disk'[p] = run.seed
    BY <1>1, <1>2, <1>5 DEF PipelineInv, DiskInv, n
  <2> QED
    BY <1>1, <1>3, <1>4, <1>5, <2>1, <2>2 DEF DiskInv
<1> QED
  BY <1>6, <1>7, <1>8 DEF PipelineInv

LEMMA FinishKeeps ==
  ASSUME PipelineInv, Finish
  PROVE  PipelineInv'
<1>1. /\ run = [script |-> run.script, seed |-> run.seed, next |-> run.next, files |-> run.files]
      /\ run.script \in Generated /\ Script \in Scripts /\ Running /\ run.seed \in Seeds
      /\ run.files = << >> /\ run.next = Len(AllCalls) + 1
      /\ run.next \in 1 .. Len(AllCalls) + 1
  BY GeneratedAssumption DEF PipelineInv, RunInv, Script, Running, Finish
<1>2. run' = [script |-> run.script, seed |-> NoSeed, next |-> run.next, files |-> run.files]
  BY <1>1 DEF Finish
<1>3. /\ Script' = Script /\ AllCalls' = AllCalls /\ Directory' = Directory
      /\ Exported(run.next)' = Exported(run.next)
  BY <1>2, SameScript
<1>4. /\ DOMAIN disk' = ToSet(ChainFiles) \cup DOMAIN disk /\ whole' = run.seed
      /\ \A p \in ToSet(ChainFiles) : disk'[p] = run.seed
      /\ \A p \in DOMAIN disk \ ToSet(ChainFiles) : disk'[p] = disk[p]
  BY DEF Finish, Written
<1>5. RunInv'
  <2>1. run'.files \in Seq(Exported(run.next)')
    BY <1>1, <1>2
  <2> QED
    BY <1>1, <1>2, <1>3, <1>4, <2>1 DEF RunInv
<1>6. ~Running'
  BY <1>2 DEF Running
<1>7. \A p \in Directory : p \in DOMAIN disk' /\ disk'[p] = run.seed
  <2>1. ToSet(run.files) = {}
    BY <1>1 DEF ToSet
  <2>2. \A p \in Exported(Len(AllCalls) + 1) : p \in DOMAIN disk /\ disk[p] = run.seed
    BY <1>1, <2>1 DEF PipelineInv, DiskInv
  <2> QED
    BY <1>4, <2>2 DEF Directory
<1>8. DiskInv'
  <2>1. DOMAIN disk' \subseteq Directory
    BY <1>4 DEF PipelineInv, DiskInv, Directory
  <2> QED
    BY <1>3, <1>4, <1>6, <1>7, <2>1 DEF DiskInv
<1> QED
  BY <1>5, <1>6, <1>8 DEF PipelineInv, TensorsInv

LEMMA RaiseKeeps ==
  ASSUME PipelineInv, Raise
  PROVE  PipelineInv'
<1>1. /\ run = [script |-> run.script, seed |-> run.seed, next |-> run.next, files |-> run.files]
      /\ run.script \in Generated /\ Script \in Scripts
      /\ run.next \in 1 .. Len(AllCalls) + 1 /\ run.files \in Seq(Exported(run.next))
      /\ whole = NoSeed
  BY GeneratedAssumption DEF PipelineInv, RunInv, DiskInv, Script, Raise
<1>2. run' = [script |-> run.script, seed |-> NoSeed, next |-> run.next, files |-> run.files]
  BY <1>1 DEF Raise
<1>3. /\ Script' = Script /\ AllCalls' = AllCalls /\ Directory' = Directory
      /\ Exported(run.next)' = Exported(run.next)
  BY <1>2, SameScript
<1>4. RunInv'
  <2>1. run'.files \in Seq(Exported(run.next)') /\ whole' = NoSeed
    BY <1>1, <1>2, <1>3 DEF Raise
  <2> QED
    BY <1>1, <1>2, <1>3, <2>1 DEF RunInv
<1>5. ~Running' /\ whole' = NoSeed
  BY <1>1, <1>2 DEF Running, Raise
<1>6. DOMAIN disk' \subseteq Directory
  <2>1. DOMAIN disk \subseteq Directory
    BY DEF PipelineInv, DiskInv
  <2>2. ASSUME Writing # << >>, disk' = Written({Head(Writing)}, Torn)
        PROVE  DOMAIN disk' \subseteq Directory
    <3>1. CASE Writing = run.files
      BY <1>1, <2>1, <2>2, <3>1, ExportedInDirectory, HeadAndTail DEF Written
    <3>2. CASE Writing = ChainFiles
      <4>1. ChainFiles = << Chain >> /\ Head(ChainFiles) = Chain /\ Chain \in ToSet(ChainFiles)
        BY <2>2, <3>2 DEF ChainFiles, ToSet
      <4> QED
        BY <2>1, <2>2, <3>2, <4>1 DEF Written, Directory
    <3> QED
      BY <3>1, <3>2 DEF Writing
  <2> QED
    BY <2>1, <2>2 DEF Raise
<1>7. DiskInv'
  BY <1>3, <1>5, <1>6 DEF DiskInv
<1> QED
  BY <1>4, <1>5, <1>7 DEF PipelineInv, TensorsInv

LEMMA NextKeeps ==
  ASSUME PipelineInv, [PipelineNext]_pipelineVars
  PROVE  PipelineInv'
<1>1. ASSUME UNCHANGED << run, tensors, disk, whole >>
      PROVE  PipelineInv'
  <2>1. /\ Script' = Script /\ AllCalls' = AllCalls /\ Directory' = Directory /\ run' = run
        /\ Known(run.next)' = Known(run.next) /\ Exported(run.next)' = Exported(run.next)
        /\ tensors' = tensors /\ disk' = disk /\ whole' = whole /\ Running' = Running
    BY <1>1, SameScript DEF Running
  <2>2. RunInv'
    BY <2>1 DEF PipelineInv, RunInv
  <2>3. TensorsInv'
    BY <2>1 DEF PipelineInv, TensorsInv
  <2>4. DiskInv'
    BY <2>1 DEF PipelineInv, DiskInv
  <2> QED
    BY <2>2, <2>3, <2>4 DEF PipelineInv
<1>2. CASE UNCHANGED pipelineVars
  BY <1>1, <1>2 DEF pipelineVars
<1>3. CASE \E seed \in Seeds : Generate(seed)
  BY <1>3, GenerateKeeps
<1>4. CASE NextCall
  BY <1>4, NextCallKeeps
<1>5. CASE WriteFile
  BY <1>5, WriteFileKeeps
<1>6. CASE Finish
  BY <1>6, FinishKeeps
<1>7. CASE Raise
  BY <1>7, RaiseKeeps
<1>8. CASE \E withManifest \in BOOLEAN : GenerateHeader(withManifest)
  BY <1>1, <1>8 DEF GenerateHeader
<1>9. CASE ApproveManifest
  BY <1>1, <1>9 DEF ApproveManifest
<1> QED
  BY <1>2, <1>3, <1>4, <1>5, <1>6, <1>7, <1>8, <1>9 DEF PipelineNext

(* A run of a script writes its files in the order of its calls and computes *)
(* the network's tensors, wherever earlier runs ended.                       *)
THEOREM PipelineInvariance == PipelineSpec => []PipelineInv
<1>1. PipelineInv /\ [PipelineNext]_pipelineVars => PipelineInv'
  BY NextKeeps
<1> QED
  BY <1>1, InitHolds, PTL DEF PipelineSpec

-----------------------------------------------------------------------------
(* What the runs check, for every set of scripts.                            *)

LEMMA LastCall ==
  ASSUME PipelineInv, NEW k \in DOMAIN AllCalls, Called(AllCalls[k])
  PROVE  LET call == AllCalls[k]
         IN  /\ call \in CallRecords /\ GoodCall(Script, call)
             /\ \A at \in {call.from, call.at} : at \in Nodes /\ tensors[at] = Net(Script)[at]
             /\ call.op = "add" => call.target \in Nodes /\ tensors[call.target] = Net(Script)[call.target]
<1> DEFINE call == AllCalls[k]
           n == run.next - 1
<1>1. /\ Script \in Scripts /\ Running /\ run.next \in 1 .. Len(AllCalls) + 1 /\ run.next > 1
      /\ call = AllCalls[n]
  BY GeneratedAssumption DEF PipelineInv, RunInv, Script, Called
<1>2. n \in 1 .. Len(AllCalls) /\ run.next = n + 1
  BY <1>1, ScriptCalls
<1>3. /\ call \in CallRecords /\ GoodCall(Script, call) /\ Reads(call, Known(n))
      /\ Known(n + 1) = Known(n) \cup {call.at}
  BY <1>1, <1>2, ScriptCalls, ExportedGrows
<1>4. \A m \in Known(n + 1) : tensors[m] = Tensor(Script, m)
  BY <1>1, <1>2 DEF PipelineInv, TensorsInv
<1>5. call.from \in Nodes /\ call.at \in Nodes /\ call.target \in Nodes
  BY <1>3 DEF CallRecords
<1> HIDE DEF call, n
<1>6. /\ \A at \in {call.from, call.at} : tensors[at] = Net(Script)[at]
      /\ call.op = "add" => tensors[call.target] = Net(Script)[call.target]
  BY <1>3, <1>4, <1>5 DEF Reads, Net
<1> QED
  BY <1>3, <1>5, <1>6 DEF call

(* Every operation of every script is one the accelerator admits with the    *)
(* buffers it has (EveryOperationIsLegal): the dimensions that               *)
(* generate_stage*_vectors.py passes through the network fit, for every      *)
(* width the classes are padded to.                                          *)
THEOREM EveryOperationIsLegalHolds == PipelineSpec => []EveryOperationIsLegal
<1>1. PipelineInv => EveryOperationIsLegal
  <2> SUFFICES ASSUME PipelineInv, NEW k \in DOMAIN AllCalls, Called(AllCalls[k]), AllCalls[k].op # "rescale"
               PROVE  Rtl!Legal(RegistersOf(AllCalls[k], tensors))
    BY DEF EveryOperationIsLegal
  <2>1. Rtl!Legal(RegistersOf(AllCalls[k], Net(Script)))
    BY LastCall DEF GoodCall
  <2>2. RegistersOf(AllCalls[k], tensors) = RegistersOf(AllCalls[k], Net(Script))
    BY LastCall, RegistersAgree
  <2> QED
    BY <2>1, <2>2
<1> QED
  BY <1>1, PipelineInvariance, PTL

(* The operands of a residual addition have one shape and one scale          *)
(* (OperandsShareScale), as generate_stage3_backbone_vectors.py:10 says of   *)
(* its nine blocks.                                                          *)
THEOREM OperandsShareScaleHolds == PipelineSpec => []OperandsShareScale
<1>1. PipelineInv => OperandsShareScale
  <2> SUFFICES ASSUME PipelineInv, NEW k \in DOMAIN AllCalls, Called(AllCalls[k]), AllCalls[k].op = "add"
               PROVE  tensors[AllCalls[k].from] = tensors[AllCalls[k].target]
    BY DEF OperandsShareScale
  <2> QED
    BY LastCall DEF GoodCall, Net
<1> QED
  BY <1>1, PipelineInvariance, PTL

(* What was approved is of one run that finished: the hashes of a manifest    *)
(* are of the files that run left, every one of them of its seed.            *)
ManifestInv ==
  manifest # NoManifest =>
    /\ manifest.seed \in Seeds
    /\ \A p \in ManifestFiles : p \in DOMAIN manifest.sha256
    /\ \A p \in DOMAIN manifest.sha256 : manifest.sha256[p] = manifest.seed

(* The hashes are of files the header generator reads.                       *)
LEMMA ManifestFilesAreRead ==
  ASSUME Script \in {"stage1_conv", "identity", "projection"}
  PROVE  ManifestFiles \subseteq HeaderReads
<1>1. CASE Script = "stage1_conv"
  <2>1. ManifestFiles = Files(<< 0, "conv" >>, Convolved \cup {"input", "config"})
    BY <1>1 DEF ManifestFiles
  <2>2. HeaderReads = Stage1Header
    BY <1>1 DEF HeaderReads, BLOCK_CONFIGS
  <2> QED
    BY <2>1, <2>2 DEF Stage1Header, Files, ConvData, Convolved
<1>2. CASE Script \in {"identity", "projection"}
  <2>1. HeaderReads = Stage2Header
    BY <1>2 DEF HeaderReads, BLOCK_CONFIGS
  <2>2. COMMON_FILES \subseteq Stage2Header
    BY DEF COMMON_FILES, Stage2Header, Files, ConvData, Convolved, ResidualData
  <2>3. CASE Script = "identity"
    <3>1. ManifestFiles = COMMON_FILES \cup IDENTITY_ONLY_FILES
      BY <2>3 DEF ManifestFiles
    <3>2. IDENTITY_ONLY_FILES \subseteq Stage2Header
      BY <2>3 DEF IDENTITY_ONLY_FILES, Stage2Header
    <3> QED
      BY <2>1, <2>2, <3>1, <3>2
  <2>4. CASE Script = "projection"
    <3>1. ManifestFiles = COMMON_FILES \cup PROJECTION_ONLY_FILES
      BY <2>4 DEF ManifestFiles
    <3>2. PROJECTION_ONLY_FILES \subseteq Stage2Header
      BY <2>4 DEF PROJECTION_ONLY_FILES, Stage2Header, Files, ConvData, Convolved
    <3> QED
      BY <2>1, <2>2, <3>1, <3>2
  <2> QED
    BY <1>2, <2>3, <2>4
<1> QED
  BY <1>1, <1>2

(* What is compared with the manifest has a hash in it, and what becomes a   *)
(* byte array is compared with it.                                           *)
LEMMA ListsAgree ==
  ASSUME Script \in {"stage1_conv", "identity", "projection"}
  PROVE  ByteArrays \subseteq Verified /\ Verified \subseteq ManifestFiles
<1>1. CASE Script = "stage1_conv"
  <2>1. /\ ByteArrays = Stage1Arrays
        /\ Verified = Stage1Payloads \cup Files(<< 0, "conv" >>, {"config"})
        /\ ManifestFiles = Files(<< 0, "conv" >>, Convolved \cup {"input", "config"})
    BY <1>1 DEF ByteArrays, Verified, Payloads, ManifestFiles
  <2> QED
    BY <2>1 DEF Stage1Arrays, Stage1Payloads, Files, Convolved
<1>2. CASE Script \in {"identity", "projection"}
  <2>1. ByteArrays = Stage2Arrays /\ Verified = Stage2Payloads
    BY <1>2 DEF ByteArrays, Verified, Payloads
  <2>2. Stage2Arrays \subseteq Stage2Payloads
    BY DEF Stage2Arrays, Stage2Payloads, Convolved
  <2>3. Stage2Payloads \subseteq
          COMMON_FILES \cup IF Script = "projection" THEN PROJECTION_ONLY_FILES ELSE IDENTITY_ONLY_FILES
    BY DEF Stage2Payloads, COMMON_FILES, PROJECTION_ONLY_FILES, IDENTITY_ONLY_FILES, Files, Convolved
  <2>4. ManifestFiles =
          COMMON_FILES \cup IF Script = "projection" THEN PROJECTION_ONLY_FILES ELSE IDENTITY_ONLY_FILES
    BY <1>2 DEF ManifestFiles
  <2> QED
    BY <2>1, <2>2, <2>3, <2>4
<1> QED
  BY <1>1, <1>2

LEMMA VariantScripts ==
  ASSUME Script \in {"stage1_conv"} \cup DOMAIN BLOCK_CONFIGS
  PROVE  Script \in {"stage1_conv", "identity", "projection"} /\ Script \in Scripts
BY DEF BLOCK_CONFIGS, Scripts

(* After a run that finished the directory is its, and holds what the header *)
(* generator reads: its checks, that every file is there and that the chain  *)
(* is not stale, refuse no complete run.                                     *)
LEMMA FinishedIsReadable ==
  ASSUME PipelineInv, whole # NoSeed
  PROVE  /\ whole \in Seeds /\ Readable
         /\ \A p \in HeaderReads : p \in DOMAIN disk /\ disk[p] = whole
<1>1. /\ Script \in Scripts /\ DOMAIN disk \subseteq Directory /\ whole \in Seeds
      /\ \A p \in Directory : p \in DOMAIN disk /\ disk[p] = whole
  BY GeneratedAssumption DEF PipelineInv, RunInv, DiskInv, Script
<1>2. /\ HeaderReads \subseteq Directory
      /\ \A pair \in Checked :
           << pair[2], "input" >> \in Directory /\ << pair[1], "expected_output" >> \in Directory
  BY <1>1, HeaderFiles
<1>3. _load_conv
  BY <1>1, <1>2, GeneratedAssumption DEF _load_conv
<1>4. \A pair \in Checked : NotStale(pair[1], pair[2])
  BY <1>1, <1>2 DEF NotStale
<1> QED
  BY <1>1, <1>2, <1>3, <1>4 DEF Readable

LEMMA HeaderStep ==
  ASSUME [PipelineNext]_pipelineVars, header' # header
  PROVE  \E withManifest \in BOOLEAN : GenerateHeader(withManifest)
BY DEF PipelineNext, pipelineVars, Generate, NextCall, WriteFile, Finish, Raise, ApproveManifest

LEMMA ManifestStep ==
  ASSUME [PipelineNext]_pipelineVars, manifest' # manifest
  PROVE  ApproveManifest
BY DEF PipelineNext, pipelineVars, Generate, NextCall, WriteFile, Finish, Raise, GenerateHeader

LEMMA ScriptKept ==
  ASSUME PipelineInv, [PipelineNext]_pipelineVars
  PROVE  run'.script = run.script /\ Script' = Script
<1> DEFINE Steps(next, files, seed) == [script |-> run.script, seed |-> seed, next |-> next, files |-> files]
<1>1. run = Steps(run.next, run.files, run.seed)
  BY DEF PipelineInv, RunInv
<1>2. CASE run' = run
  BY <1>2 DEF Script
<1>3. CASE \E seed, next, files : run' = Steps(next, files, seed)
  BY <1>3 DEF Script
<1>4. ASSUME NEW seed \in Seeds, Generate(seed)
      PROVE  run' = Steps(1, << >>, seed)
  BY <1>1, <1>4 DEF Generate
<1>5. CASE NextCall
  <2>1. PICK files : run' = [run EXCEPT !.next = @ + 1, !.files = files]
    BY <1>5 DEF NextCall
  <2>2. run' = Steps(run.next + 1, files, run.seed)
    BY <1>1, <2>1
  <2> QED
    BY <1>3, <2>2
<1>6. WriteFile => run' = Steps(run.next, Tail(run.files), run.seed)
  BY <1>1 DEF WriteFile
<1>7. Finish \/ Raise => run' = Steps(run.next, run.files, NoSeed)
  BY <1>1 DEF Finish, Raise
<1>8. UNCHANGED pipelineVars \/ ApproveManifest \/ (\E m \in BOOLEAN : GenerateHeader(m)) => run' = run
  BY DEF pipelineVars, ApproveManifest, GenerateHeader
<1> HIDE DEF Steps
<1> QED
  BY <1>2, <1>3, <1>4, <1>5, <1>6, <1>7, <1>8 DEF PipelineNext

LEMMA ManifestKept ==
  ASSUME PipelineInv, ManifestInv, [PipelineNext]_pipelineVars
  PROVE  ManifestInv'
<1>1. Script' = Script
  BY ScriptKept
<1>2. ManifestFiles' = ManifestFiles
  BY <1>1 DEF ManifestFiles, COMMON_FILES, PROJECTION_ONLY_FILES, IDENTITY_ONLY_FILES
<1>3. CASE manifest' = manifest
  BY <1>1, <1>2, <1>3 DEF ManifestInv
<1>4. CASE manifest' # manifest
  <2>1. ApproveManifest
    BY <1>4, ManifestStep
  <2>2. /\ whole # NoSeed /\ Script \in {"stage1_conv"} \cup DOMAIN BLOCK_CONFIGS
        /\ manifest' = [seed |-> whole, sha256 |-> [p \in ManifestFiles |-> disk[p]]]
    BY <2>1 DEF ApproveManifest
  <2>3. \A p \in ManifestFiles : disk[p] = whole
    BY <2>2, VariantScripts, ManifestFilesAreRead, FinishedIsReadable
  <2>4. /\ manifest'.seed = whole /\ DOMAIN manifest'.sha256 = ManifestFiles
        /\ \A p \in ManifestFiles : manifest'.sha256[p] = whole
    BY <2>2, <2>3
  <2> QED
    BY <1>2, <2>2, <2>4, FinishedIsReadable DEF ManifestInv
<1> QED
  BY <1>3, <1>4

(* The hashes of a manifest are of one run, whatever is run afterwards       *)
(* (generate_stage2_vector_manifest.py).                                     *)
THEOREM ManifestInvariance == PipelineSpec => []ManifestInv
<1>1. PipelineInit => ManifestInv
  BY DEF PipelineInit, ManifestInv
<1>2. PipelineInv /\ ManifestInv /\ [PipelineNext]_pipelineVars => ManifestInv'
  BY ManifestKept
<1> QED
  BY <1>1, <1>2, PipelineInvariance, PTL DEF PipelineSpec

(* After a run that finished the header generator accepts, also under the    *)
(* manifest of that run, and embeds only what that run wrote                 *)
(* (FinishedRunGivesHeader).                                                 *)
THEOREM FinishedRunGivesHeaderHolds == PipelineSpec => FinishedRunGivesHeader
<1>1. ASSUME PipelineInv, ManifestInv, [PipelineNext]_pipelineVars, header' # header, whole # NoSeed,
             header'.manifest.seed \in {NoSeed, whole}
      PROVE  header'.outcome = "written" /\ \A p \in DOMAIN header'.files : header'.files[p] = whole
  <2>1. PICK withManifest \in BOOLEAN : GenerateHeader(withManifest)
    BY <1>1, HeaderStep
  <2>2. /\ Readable /\ whole \in Seeds
        /\ \A p \in HeaderReads : p \in DOMAIN disk /\ disk[p] = whole
    BY <1>1, FinishedIsReadable
  <2>3. withManifest => verify_manifest
    <3> SUFFICES ASSUME withManifest PROVE verify_manifest
      OBVIOUS
    <3>1. /\ Script \in {"stage1_conv", "identity", "projection"} /\ manifest # NoManifest
          /\ header'.manifest = manifest
      BY <2>1, VariantScripts DEF GenerateHeader
    <3>2. /\ \A p \in ManifestFiles : p \in DOMAIN manifest.sha256
          /\ \A p \in DOMAIN manifest.sha256 : manifest.sha256[p] = manifest.seed
      BY <1>1, <3>1 DEF ManifestInv
    <3>3. manifest.seed = whole
      BY <1>1, <3>1, GeneratedAssumption DEF ManifestInv
    <3> QED
      BY <2>2, <3>1, <3>2, <3>3, ListsAgree, ManifestFilesAreRead DEF verify_manifest
  <2>4. header'.outcome = "written" /\ header'.files = [p \in HeaderReads |-> disk[p]]
    BY <2>1, <2>2, <2>3 DEF GenerateHeader
  <2> QED
    BY <2>2, <2>4
<1>2. PipelineInv /\ ManifestInv /\ [PipelineNext]_pipelineVars =>
        [header' # header /\ whole # NoSeed /\ header'.manifest.seed \in {NoSeed, whole} =>
           header'.outcome = "written" /\ \A p \in DOMAIN header'.files : header'.files[p] = whole]_pipelineVars
  BY <1>1
<1> QED
  BY <1>2, PipelineInvariance, ManifestInvariance, PTL DEF PipelineSpec, FinishedRunGivesHeader

(* The byte arrays of a header written under an approved manifest are of the *)
(* one run the manifest was made of (ApprovedBinaries), however many runs    *)
(* ended anywhere since: no file the header embeds byte for byte is missing  *)
(* from what verify_manifest compares, and every hash it compares with is of *)
(* that run.                                                                 *)
THEOREM ApprovedBinariesHolds == PipelineSpec => []ApprovedBinaries
<1>1. PipelineInit => ApprovedBinaries
  BY DEF PipelineInit, ApprovedBinaries, NoHeader
<1>2. ASSUME PipelineInv, ManifestInv, ApprovedBinaries, [PipelineNext]_pipelineVars
      PROVE  ApprovedBinaries'
  <2>1. ByteArrays' = ByteArrays
    <3>1. Script' = Script
      BY <1>2, ScriptKept
    <3> QED
      BY <3>1 DEF ByteArrays, Stage1Arrays, Stage2Arrays
  <2>2. CASE header' = header
    BY <1>2, <2>1, <2>2 DEF ApprovedBinaries
  <2>3. CASE header' # header
    <3>1. PICK withManifest \in BOOLEAN : GenerateHeader(withManifest)
      BY <1>2, <2>3, HeaderStep
    <3> SUFFICES ASSUME header'.outcome = "written", header'.manifest # NoManifest, NEW p \in ByteArrays
                 PROVE  header'.files[p] = header'.manifest.seed
      BY <2>1 DEF ApprovedBinaries
    <3>2. /\ Script \in {"stage1_conv", "identity", "projection"} /\ manifest # NoManifest
          /\ header'.manifest = manifest /\ verify_manifest
          /\ header'.files = [q \in HeaderReads |-> disk[q]]
      BY <3>1, VariantScripts DEF GenerateHeader
    <3>3. p \in Verified /\ p \in HeaderReads
      BY <3>2, ListsAgree, ManifestFilesAreRead
    <3>4. disk[p] = manifest.sha256[p] /\ p \in DOMAIN manifest.sha256
      BY <3>2, <3>3 DEF verify_manifest
    <3>5. manifest.sha256[p] = manifest.seed
      BY <1>2, <3>2, <3>4 DEF ManifestInv
    <3> QED
      BY <3>2, <3>3, <3>4, <3>5
  <2> QED
    BY <2>2, <2>3
<1> QED
  BY <1>1, <1>2, PipelineInvariance, ManifestInvariance, PTL DEF PipelineSpec
=============================================================================

---------------------------- MODULE MCConfigure ----------------------------
(***************************************************************************)
(* Descriptors for model checking, around buffers of a few words and with    *)
(* words of six bits, so that products of small numbers wrap.                *)
(***************************************************************************)
EXTENDS AccelConfigure

LayerOf(op, h, w, ic, oc, k, s, p, n) ==
  [op |-> op, in_channels |-> ic, out_channels |-> oc, height |-> h, width |-> w,
   kernel |-> k, stride |-> s, padding |-> p, relu_enable |-> 3, multiplier |-> 1, shift |-> n]

ConvLayers ==
  {LayerOf(OP_CONV, h, w, ic, oc, k, s, p, 31) :
     h \in {1, 2, 8}, w \in {4, 9}, ic \in {1, 4}, oc \in {4, 16}, k \in 1..3, s \in 0..2, p \in 0..1}

(* A linear layer leaves the dimensions of its pixel as they come.           *)
FcLayers ==
  {LayerOf(OP_FC, 0, 7, ic, oc, 5, 0, 9, 31) : ic \in {0, 4, 8, 36, 68}, oc \in {0, 4, 5, 16}}

OtherLayers ==
  {LayerOf(op, h, w, ic, oc, 3, 0, 1, 32) :
     op \in {OP_RESIDUAL_ADD, OP_GLOBAL_AVG_POOL, OP_POOL}, h \in {0, 1, 2, 8}, w \in {1, 2, 9},
     ic \in {4, 8}, oc \in {4, 16}}
  \cup {LayerOf(OP_GLOBAL_AVG_POOL, h, w, ic, 0, 0, 0, 0, 6) : h \in {0, 1, 2, 8}, w \in {1, 2, 8}, ic \in {1, 4, 8}}

ModelLayers == ConvLayers \cup FcLayers \cup OtherLayers
NoOtherConfigs == {ResetConfig}
ModelUndefined == {-1, 0, 1, 3}
ModelRegisters == UNION {Written(l) : l \in ModelLayers}
=============================================================================

---------------------------- MODULE MCConvEngine ----------------------------
(***************************************************************************)
(* Convolutions whose three packets and whose output are whole words, with   *)
(* every kernel, stride and padding, and two contents of the buffers.        *)
(***************************************************************************)
EXTENDS ConvEngine

Powers == [n \in Shifts |-> 2 ^ n]

(* Contents that repeat with different periods, so that neighbours differ.   *)
InputOf(d, i) == ((5 * i + 3 * (i \div 4) + d) % 8) - 4
WeightOf(d, i) == ((3 * i + (i \div 5) + 2 * d + 1) % 8) - 4
BiasOf(d, i) == 7 * (((i + d) % 5) - 2)

Shapes == {<< 3, 4 >>, << 2, 3 >>, << 4, 1 >>}
Channels == {<< 1, 4 >>, << 2, 2 >>, << 4, 1 >>}

Words(n) == n % 4 = 0

Candidates ==
  {[h |-> s[1], w |-> s[2], ic |-> ch[1], oc |-> ch[2], kernel |-> k, stride |-> st, padding |-> p,
    relu |-> (k + p) % 2 = 1, multiplier |-> 5, shift |-> 3] :
     s \in Shapes, ch \in Channels, k \in {1, 3}, st \in {1, 2}, p \in {0, 1}}

ModelConvConfigs ==
  {cfg \in Candidates :
     /\ validate_conv_config(cfg)
     /\ Words(cfg.h * cfg.w * cfg.ic) /\ Words(Taps(cfg) * cfg.oc) /\ Words(OutElements(cfg))}
=============================================================================

------------------------------ MODULE MCDriver ------------------------------
(***************************************************************************)
(* Networks for model checking: one or two layers, packets of one or two    *)
(* words.                                                                   *)
(***************************************************************************)
EXTENDS FirmwareDriver

Layer(op_, reject, w, b, i, s, o, from, skip_) ==
  [op |-> op_, shape |-> TRUE, rejectAt |-> reject,
   bytes |-> [p \in Packets |-> CASE p = "WEIGHT" -> w [] p = "BIAS" -> b
                                  [] p = "INPUT" -> i [] p = "SKIP" -> s],
   output |-> o, input |-> from, skip |-> skip_]

ConvLayer == Layer(OP_CONV, "never", 4, 4, 8, 0, 4, 0, 0)
ResidualLayer == Layer(OP_RESIDUAL_ADD, "never", 0, 0, 4, 4, 4, 1, 0)
PoolLayer == Layer(OP_GLOBAL_AVG_POOL, "never", 0, 0, 4, 0, 4, 0, 0)
FcLayer == Layer(OP_FC, "never", 4, 4, 4, 0, 8, 1, 0)
LargeLayer == Layer(OP_CONV, "VAL_COMPARE", 4, 4, 4, 0, 4, 0, 0)
OddOutput == Layer(OP_CONV, "VAL_FIELDS", 4, 4, 4, 0, 3, 0, 0)
OddInput == Layer(OP_CONV, "VAL_COMPARE", 4, 4, 3, 0, 4, 0, 0)
ReservedLayer == Layer(OP_POOL, "never", 0, 0, 4, 0, 4, 0, 0)
NoShape == [Layer(OP_CONV, "VAL_DIMS", 4, 4, 4, 0, 4, 0, 0) EXCEPT !.shape = FALSE]

RunNetworks ==
  {<< PoolLayer, FcLayer >>, << PoolLayer, ResidualLayer >>,
   << OddOutput >>, << OddInput >>, << ReservedLayer >>, << NoShape >>}
RejectNetworks == {<< ConvLayer >>, << LargeLayer >>}

RegistersOf(networks) ==
  {ResetConfig} \cup
  {RegistersFor(net[n]) : << net, n >> \in
     {<< net_, m >> \in networks \X (1..2) : m \in DOMAIN net_ /\ net_[m].op # OP_POOL}}
RunConfigs == RegistersOf(RunNetworks)
RejectConfigs == RegistersOf(RejectNetworks)
=============================================================================

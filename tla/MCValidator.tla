---------------------------- MODULE MCValidator ----------------------------
(***************************************************************************)
(* Register values for model checking, around buffers of a few words.        *)
(***************************************************************************)
EXTENDS ConfigValidatorProps

Bytes(w, b, i, s) ==
  [p \in Packets |-> CASE p = "WEIGHT" -> w [] p = "BIAS" -> b
                       [] p = "INPUT" -> i [] p = "SKIP" -> s]

(* A convolution with the byte counts that belong to it.                     *)
ConvOf(h_, w_, ic_, oc_, k, s, p) ==
  LET c == [op |-> OP_CONV, h |-> h_, w |-> w_, ic |-> ic_, oc |-> oc_, kernel |-> k,
            stride |-> s, padding |-> p, relu |-> 1, reserved |-> 0, multiplier |-> 1,
            shift |-> 31, bytes |-> Bytes(k * k * ic_ * oc_, 4 * oc_, h_ * w_ * ic_, 0),
            output |-> 0]
  IN  [c EXCEPT !.output = IF KernelFits(c) THEN OutputArea(c) * oc_ ELSE 4]

Convs ==
  {ConvOf(2, 2, 2, 2, 1, 1, 0), ConvOf(4, 2, 1, 4, 3, 2, 1), ConvOf(2, 4, 4, 1, 3, 1, 1),
   ConvOf(3, 3, 1, 4, 3, 2, 0), ConvOf(2, 3, 4, 4, 3, 1, 0),
   ConvOf(5, 7, 1, 4, 1, 1, 0), ConvOf(20, 7, 1, 4, 1, 1, 0), ConvOf(3, 4, 3, 4, 1, 2, 0),
   ConvOf(1, 4, 5, 2, 3, 1, 1),
   ConvOf(3, 4, 2, 2, 3, 1, 1), ConvOf(5, 5, 1, 1, 1, 1, 0), ConvOf(3, 4, 1, 2, 1, 1, 0),
   ConvOf(2, 2, 1, 3, 1, 1, 0), ConvOf(1, 1, 4, 4, 1, 1, 1)}

(* Every kernel, stride and padding on small inputs.                         *)
SmallConvs ==
  {ConvOf(h_, w_, 1, 4, k, s, p) :
     h_ \in {1, 2, 3, 5}, w_ \in {1, 4}, k \in {1, 3}, s \in {1, 2}, p \in {0, 1}}

Wrong ==
  {[ConvOf(2, 2, 2, 2, 1, 1, 0) EXCEPT !.bytes["WEIGHT"] = 8],
   [ConvOf(2, 2, 2, 2, 1, 1, 0) EXCEPT !.shift = 32],
   [ConvOf(2, 2, 2, 2, 1, 1, 0) EXCEPT !.op = OP_OTHER]}

ResidualOf(h_, w_, ic_, n) ==
  [ConvOf(h_, w_, ic_, ic_, 0, 1, 0) EXCEPT
     !.op = OP_RESIDUAL_ADD, !.stride = 0, !.multiplier = 0, !.shift = 0,
     !.bytes = Bytes(0, 0, n, n), !.output = n]

GapOf(h_, w_, ic_, n) ==
  [ResidualOf(h_, w_, ic_, h_ * w_ * ic_) EXCEPT
     !.op = OP_GLOBAL_AVG_POOL, !.shift = 8, !.relu = 0,
     !.bytes = Bytes(0, 0, h_ * w_ * ic_, 0), !.output = n]

Others ==
  {ResidualOf(2, 2, 4, 16), ResidualOf(2, 2, 4, 12), ResidualOf(1, 1, 129, 129),
   GapOf(2, 3, 4, 4), GapOf(2, 3, 4, 8), GapOf(4, 5, 4, 4)}

ModelRegisters == Convs \cup SmallConvs \cup Wrong \cup Others
ModelConfigs == {ResetConfig} \cup {Abstract(c) : c \in ModelRegisters}

=============================================================================

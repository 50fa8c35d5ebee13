----------------------------- MODULE MCTopData -----------------------------
(***************************************************************************)
(* The accelerator with its data: lanes of three bits, tensors that fill     *)
(* their buffers of two words.                                               *)
(***************************************************************************)
EXTENDS ResnetAccelTopData, MCConfigs

FullResidual == Cfg(OP_RESIDUAL_ADD, "never", 0, 0, 8, 8, 8)
ShortResidual == Cfg(OP_RESIDUAL_ADD, "never", 0, 0, 4, 4, 4)

TwoWords == [m \in Memories |-> IF m \in {"INPUT", "SKIP", "OUTPUT"} THEN 2 ELSE 1]

(* Words that differ by content, packet and index, with sums on both sides of *)
(* the range of a lane.                                                      *)
ModelDatum(d, p, i) ==
  LET s == 4 * d + 2 * i + (IF p = "SKIP" THEN 1 ELSE 0)
  IN  [lane \in 0..3 |-> ((3 * s + 5 * lane) % 8) - 4]
ModelByte(d, e) == ((e + 5 * d) % 8) - 4

Controls == {Command("CONTROL", {"START"}), Command("CONTROL", {"ABORT"})}

DataConfigs == {ResetConfig, FullResidual, ShortResidual, Pool, ShortConv}
DataWrites == Controls \cup {Configure(c) : c \in DataConfigs \ {ResetConfig}}
ReluResidual == {ShortResidual}
=============================================================================

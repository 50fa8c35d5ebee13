----------------------------- MODULE MCConfigs -----------------------------
(***************************************************************************)
(* Configurations and writes for model checking.  Packets and outputs have  *)
(* one or two words: with two, a packet has a first, a last and a missing   *)
(* beat.                                                                    *)
(***************************************************************************)
EXTENDS AccelPkg

Cfg(op, reject, w, b, i, s, o) ==
  [op |-> op, rejectAt |-> reject,
   bytes |-> [p \in Packets |-> CASE p = "WEIGHT" -> w [] p = "BIAS" -> b
                                  [] p = "INPUT" -> i [] p = "SKIP" -> s],
   output |-> o]

Conv == Cfg(OP_CONV, "never", 8, 4, 4, 0, 8)
ShortConv == Cfg(OP_CONV, "never", 4, 4, 4, 0, 4)
Residual == Cfg(OP_RESIDUAL_ADD, "never", 0, 0, 4, 4, 4)
Pool == Cfg(OP_GLOBAL_AVG_POOL, "never", 0, 0, 8, 0, 4)
BadOperation == Cfg(OP_OTHER, "VAL_FIELDS", 0, 0, 4, 0, 4)
TooManyChannels == Cfg(OP_CONV, "VAL_OUTPUT_CHANNELS", 4, 4, 4, 0, 4)

Command(addr, bits) == [addr |-> addr, bits |-> bits, cfg |-> ResetConfig]
Configure(c) == [addr |-> "CONFIG", bits |-> {}, cfg |-> c]

Commands ==
  {Command("CONTROL", {"START"}), Command("CONTROL", {"ABORT"}),
   Command("CONTROL", {"START", "ABORT"}),
   Command("STATUS", {"W1C_DONE", "W1C_ERROR"}),
   Command("UNMAPPED", {}), Command("READ_ONLY", {})}

(* All three operations, and a rejection at the first and at a late stage.  *)
AllConfigs == {ResetConfig, Conv, Residual, Pool, BadOperation, TooManyChannels}
AllWrites == Commands \cup {Configure(c) : c \in AllConfigs}

(* One operation that runs and one that is rejected.                        *)
FewConfigs == {ResetConfig, Pool}
FewWrites ==
  {Command("CONTROL", {"START"}), Command("CONTROL", {"ABORT"}), Configure(Pool)}
=============================================================================

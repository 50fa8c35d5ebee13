------------------------------ MODULE MCTop ------------------------------
(* The accelerator with a cycle counter that wraps at two.                   *)
EXTENDS ResnetAccelTopProps, ResnetAccelTopCycles, MCConfigs

TopConfigs == AllConfigs \ {BadOperation}
TopWrites == Commands \cup {Configure(c) : c \in TopConfigs}
=============================================================================

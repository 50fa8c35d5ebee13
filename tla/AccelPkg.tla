------------------------------ MODULE AccelPkg ------------------------------
(***************************************************************************)
(* The vocabulary shared by the modules of the accelerator: operations,    *)
(* packets, error codes and controller states, under their names in        *)
(* rtl/rtl/common/accel_pkg.sv.  A register-file value is abstracted to a  *)
(* configuration record: the operation it selects, the byte counts of its  *)
(* packets, and the validator stage that turns it down, if any.            *)
(***************************************************************************)
EXTENDS Integers, Sequences, FiniteSets

CONSTANT Configs     \* the values the configuration registers can be given

OP_CONV == "OP_CONV"
OP_RESIDUAL_ADD == "OP_RESIDUAL_ADD"
OP_GLOBAL_AVG_POOL == "OP_GLOBAL_AVG_POOL"
OP_OTHER == "OP_OTHER"          \* any other value of the OPERATION register
Operations == {OP_CONV, OP_RESIDUAL_ADD, OP_GLOBAL_AVG_POOL}

Packets == {"WEIGHT", "BIAS", "INPUT", "SKIP"}

Engines == {"conv", "residual", "gap"}

FatalCodes == {"ERR_INVALID_OPERATION", "ERR_INVALID_CONFIG",
               "ERR_PACKET_LENGTH", "ERR_TLAST_POSITION",
               "ERR_ABORTED", "ERR_INTERNAL"}
WarningCodes == {"ERR_START_WHILE_BUSY", "ERR_ACC_OVERFLOW",
                 "ERR_CONFIG_WRITE_BUSY", "ERR_INVALID_ADDRESS"}
ErrorEvents == FatalCodes \cup WarningCodes
ErrorCodes == ErrorEvents \cup {"ERR_NONE"}

LoadStates == {"LOAD_WEIGHT", "LOAD_BIAS", "LOAD_INPUT", "LOAD_SKIP"}
BusyStates == LoadStates \cup {"COMPUTE", "SEND_OUTPUT"}
QuietStates == {"RESET", "IDLE", "COMPLETE"}
ControllerStates == BusyStates \cup QuietStates

(* The stages of the configuration validator; the last three take a        *)
(* decision that no longer depends on the stage.                           *)
MultiplyStages == {"VAL_INPUT_AREA", "VAL_INPUT_CHANNELS",
                   "VAL_WEIGHT_CHANNELS", "VAL_OUTPUT_AREA",
                   "VAL_OUTPUT_CHANNELS"}
CompareStages == {"VAL_COMPARE", "VAL_RESIDUAL_COMPARE", "VAL_GAP_COMPARE"}
CheckStages == {"VAL_FIELDS", "VAL_DIMS"} \cup MultiplyStages \cup CompareStages
ValidatorStates == CheckStages \cup {"VAL_IDLE", "VAL_ACCEPT", "VAL_REJECT"}

(* A register-file value.  rejectAt is the first stage whose test fails,   *)
(* "never" when all of them pass.                                          *)
ConfigRecords ==
  [op : Operations \cup {OP_OTHER}, rejectAt : CheckStages \cup {"never"},
   bytes : [Packets -> Nat], output : Nat]

(* All configuration registers are zero after reset: OP_CONV with zero      *)
(* dimensions, which VAL_FIELDS turns down.                                 *)
ResetConfig == [op |-> OP_CONV, rejectAt |-> "VAL_FIELDS",
                bytes |-> [p \in Packets |-> 0], output |-> 0]

Accepted(c) == c.rejectAt = "never"

(* The packets an operation receives, in the order the controller asks for *)
(* them.                                                                   *)
PacketPlan(op) ==
  CASE op = OP_CONV            -> << "WEIGHT", "BIAS", "INPUT" >>
    [] op = OP_RESIDUAL_ADD    -> << "INPUT", "SKIP" >>
    [] op = OP_GLOBAL_AVG_POOL -> << "INPUT" >>
    [] OTHER                   -> << >>

Uses(op, p) == \E i \in DOMAIN PacketPlan(op) : PacketPlan(op)[i] = p

EngineOf(op) ==
  CASE op = OP_RESIDUAL_ADD    -> "residual"
    [] op = OP_GLOBAL_AVG_POOL -> "gap"
    [] OTHER                   -> "conv"

(* The stages that look at a configuration of this operation.              *)
Stages(op) ==
  CASE op = OP_CONV -> {"VAL_FIELDS", "VAL_DIMS", "VAL_COMPARE"} \cup MultiplyStages
    [] op = OP_RESIDUAL_ADD ->
         {"VAL_FIELDS", "VAL_INPUT_AREA", "VAL_INPUT_CHANNELS", "VAL_RESIDUAL_COMPARE"}
    [] op = OP_GLOBAL_AVG_POOL ->
         {"VAL_FIELDS", "VAL_INPUT_AREA", "VAL_INPUT_CHANNELS", "VAL_GAP_COMPARE"}
    [] OTHER -> {"VAL_FIELDS"}

WordCount(n) == n >= 4 /\ n % 4 = 0

(* What the validator guarantees of a configuration it accepts: a known    *)
(* operation, and a whole positive number of words in every packet the     *)
(* operation receives and in its output.  It rejects at a stage that looks *)
(* at the operation.                                                       *)
WellFormed(c) ==
  /\ c \in ConfigRecords
  /\ Accepted(c) =>
       /\ c.op \in Operations
       /\ WordCount(c.output)
       /\ \A p \in Packets : Uses(c.op, p) => WordCount(c.bytes[p])
  /\ ~Accepted(c) => c.rejectAt \in Stages(c.op)

ASSUME ConfigsAssumption ==
  /\ ResetConfig \in Configs
  /\ \A c \in Configs : WellFormed(c)
=============================================================================

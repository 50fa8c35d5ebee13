------------------------------ MODULE ErrorCtrl ------------------------------
(***************************************************************************)
(* rtl/rtl/control/error_ctrl.sv: the sticky DONE and ERROR flags and the   *)
(* error code of the STATUS and ERROR_CODE registers.  The ten event wires  *)
(* of a clock cycle are the set of codes they carry.                        *)
(***************************************************************************)
EXTENDS AccelPkg

VARIABLES done, error, error_code

errVars == << done, error, error_code >>

ErrTypeOK ==
  /\ done \in BOOLEAN
  /\ error \in BOOLEAN
  /\ error_code \in ErrorCodes

ErrInit ==
  /\ done = FALSE
  /\ error = FALSE
  /\ error_code = "ERR_NONE"

(* The order in which simultaneous events are looked at.                    *)
Priority == << "ERR_INTERNAL", "ERR_ABORTED", "ERR_TLAST_POSITION",
               "ERR_PACKET_LENGTH", "ERR_INVALID_CONFIG",
               "ERR_INVALID_OPERATION", "ERR_ACC_OVERFLOW",
               "ERR_START_WHILE_BUSY", "ERR_CONFIG_WRITE_BUSY",
               "ERR_INVALID_ADDRESS" >>

(* The first event in that order; there is one in every non-empty set.      *)
SelectedCode(events) ==
  LET i == CHOOSE k \in DOMAIN Priority :
             Priority[k] \in events /\ \A j \in 1..(k - 1) : Priority[j] \notin events
  IN  Priority[i]

(* Mutation: a write-one-to-clear wins over an event of the same cycle.     *)
ErrClock_ClearWins(doneClear, errorClear, operationDone, events) ==
  /\ done' = (~doneClear /\ (operationDone \/ done))
  /\ error' = (~errorClear /\ (events # {} \/ error))
  /\ error_code' = IF errorClear THEN "ERR_NONE"
                   ELSE IF events # {} /\ ~error THEN SelectedCode(events)
                   ELSE error_code

(* One clock edge.  Setting wins over a write-one-to-clear in the same      *)
(* cycle; the first code is kept until cleared, except that a fatal code    *)
(* replaces a warning.                                                      *)
ErrClock(doneClear, errorClear, operationDone, events) ==
  /\ done' = (operationDone \/ (done /\ ~doneClear))
  /\ error' = (events # {} \/ (error /\ ~errorClear))
  /\ error_code' =
       LET kept == IF errorClear THEN "ERR_NONE" ELSE error_code
       IN  IF /\ events # {}
              /\ \/ ~error \/ errorClear
                 \/ SelectedCode(events) \in FatalCodes /\ error_code \notin FatalCodes
           THEN SelectedCode(events)
           ELSE kept
=============================================================================

------------------------- MODULE ResidualAddEngine -------------------------
(***************************************************************************)
(* residual_add_engine.sv: reads a word of the main and of the skip tensor   *)
(* in one cycle, writes the sum of their lanes in the next.                  *)
(***************************************************************************)
EXTENDS Integers

CONSTANTS
  LANE_MAX,            \* 127: a lane is a signed byte
  MAX_TENSOR_WORDS     \* a power of two, so that an index of its width wraps there

ASSUME TensorAssumption == LANE_MAX \in Nat /\ MAX_TENSOR_WORDS \in Nat \ {0}

VARIABLES res_state, res_index, res_count, residual_done

residualVars == << res_state, res_index, res_count, residual_done >>

Lanes == 0..3
Lane == (-LANE_MAX - 1)..LANE_MAX

(* The two ReLU and clamp tests, in the order of add_lane.                   *)
AddLane(main, skip, relu) ==
  LET sum == main + skip
  IN  IF relu /\ sum < 0 THEN 0
      ELSE IF sum > LANE_MAX THEN LANE_MAX
      ELSE IF sum < -LANE_MAX - 1 THEN -LANE_MAX - 1 ELSE sum

AddWords(main, skip, relu) == [i \in Lanes |-> AddLane(main[i], skip[i], relu)]

ResidualInit ==
  /\ res_state = "RES_IDLE" /\ res_index = 0 /\ res_count = 0
  /\ residual_done = FALSE

ResidualReads == res_state = "RES_READ"
ResidualWrites == res_state = "RES_WRITE"

(* Mutant: the next index is cut to the width of the index.                  *)
LastWord_Narrow == (res_index + 1) % MAX_TENSOR_WORDS >= res_count

(* Mutant: the count of the words is compared with the one after the next.   *)
LastWord_Early == res_index + 2 >= res_count

LastWord == res_index + 1 >= res_count

ResidualAbort ==
  /\ res_state' = "RES_IDLE" /\ res_index' = 0 /\ res_count' = 0
  /\ residual_done' = FALSE

ResidualStart(bytes) ==
  /\ res_state = "RES_IDLE" /\ res_state' = "RES_READ"
  /\ res_index' = 0 /\ res_count' = bytes \div 4
  /\ residual_done' = FALSE

ResidualRead ==
  /\ ResidualReads /\ res_state' = "RES_WRITE"
  /\ residual_done' = FALSE
  /\ UNCHANGED << res_index, res_count >>

ResidualWrite ==
  /\ ResidualWrites
  /\ residual_done' = LastWord
  /\ res_state' = IF LastWord THEN "RES_IDLE" ELSE "RES_READ"
  /\ res_index' = IF LastWord THEN res_index ELSE (res_index + 1) % MAX_TENSOR_WORDS
  /\ UNCHANGED res_count

ResidualRest ==
  /\ res_state = "RES_IDLE" /\ residual_done' = FALSE
  /\ UNCHANGED << res_state, res_index, res_count >>

(* One clock edge.                                                           *)
ResidualClock(start, abort, bytes) ==
  \/ abort /\ ResidualAbort
  \/ ~abort /\ start /\ ResidualStart(bytes)
  \/ ~abort /\ (ResidualRead \/ ResidualWrite)
  \/ ~abort /\ ~start /\ ResidualRest
=============================================================================

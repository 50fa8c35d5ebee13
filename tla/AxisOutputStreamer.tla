------------------------- MODULE AxisOutputStreamer -------------------------
(***************************************************************************)
(* rtl/rtl/stream/axis_output_streamer.sv: reads the output buffer word by  *)
(* word and offers each word on the output stream.                          *)
(***************************************************************************)
EXTENDS AccelPkg

VARIABLES out_state, word_index, word_count

streamerVars == << out_state, word_index, word_count >>

OutStates == {"OUT_IDLE", "OUT_READ", "OUT_SEND"}

StreamerTypeOK ==
  /\ out_state \in OutStates
  /\ word_index \in Nat
  /\ word_count \in Nat

StreamerInit ==
  /\ out_state = "OUT_IDLE"
  /\ word_index = 0
  /\ word_count = 0

OutputValid == out_state = "OUT_SEND"
(* Mutation: the last word is taken to be the one before it.                *)
OutputLast_Early == word_index + 2 = word_count

OutputLast == word_index = word_count - 1
(* done_o is combinational: the final handshake itself.                     *)
OutputDone(tready) == OutputValid /\ tready /\ OutputLast

StreamerAbort ==
  /\ out_state' = "OUT_IDLE"
  /\ word_index' = 0
  /\ word_count' = 0

StreamerStart(bytes) ==
  /\ out_state = "OUT_IDLE"
  /\ word_index' = 0
  /\ word_count' = bytes \div 4
  /\ out_state' = "OUT_READ"

StreamerRead ==
  /\ out_state = "OUT_READ"
  /\ out_state' = "OUT_SEND"
  /\ UNCHANGED << word_index, word_count >>

StreamerSend ==
  /\ OutputValid
  /\ IF word_index + 1 = word_count
     THEN out_state' = "OUT_IDLE" /\ UNCHANGED word_index
     ELSE out_state' = "OUT_READ" /\ word_index' = word_index + 1
  /\ UNCHANGED word_count

StreamerHold(start, tready) ==
  /\ \/ out_state = "OUT_IDLE" /\ ~start
     \/ OutputValid /\ ~tready
  /\ UNCHANGED streamerVars

(* One clock edge; abort has priority over everything else.                 *)
StreamerClock(start, abort, bytes, tready) ==
  \/ abort /\ StreamerAbort
  \/ ~abort /\ start /\ StreamerStart(bytes)
  \/ ~abort /\ StreamerRead
  \/ ~abort /\ tready /\ StreamerSend
  \/ ~abort /\ StreamerHold(start, tready)
=============================================================================

-------------------------- MODULE AxisPacketLoader --------------------------
(***************************************************************************)
(* rtl/rtl/stream/axis_packet_loader.sv: counts the beats of one packet on  *)
(* the input stream, writes them to the buffer of that packet and reports,  *)
(* one cycle later, the end of the packet or a framing error.               *)
(***************************************************************************)
EXTENDS AccelPkg

VARIABLES byte_count, packet_done, packet_length_error, tlast_error

loaderVars == << byte_count, packet_done, packet_length_error, tlast_error >>

(* What the stream can offer in a cycle: nothing, a beat with a partial     *)
(* TKEEP, a full beat, a full beat with TLAST.                              *)
Beats == {"partial", "data", "last"}
NoBeat == "none"

LoaderTypeOK ==
  /\ byte_count \in Nat
  /\ packet_done \in BOOLEAN
  /\ packet_length_error \in BOOLEAN
  /\ tlast_error \in BOOLEAN

LoaderInit ==
  /\ byte_count = 0
  /\ packet_done = FALSE
  /\ packet_length_error = FALSE
  /\ tlast_error = FALSE

(* s_axis_tready_o                                                          *)
InputReady(active, start) == active /\ ~start /\ ~packet_done

CountValid(beat, expected) == beat # "partial" /\ byte_count + 4 <= expected

ExpectedLast(expected) == byte_count + 4 = expected

(* Mutation: the start of a packet leaves the count of the one before.      *)
LoaderWait_KeepCount(start) ==
  /\ packet_done' = FALSE
  /\ packet_length_error' = FALSE
  /\ tlast_error' = FALSE
  /\ UNCHANGED byte_count

LoaderWait(start) ==
  /\ packet_done' = FALSE
  /\ packet_length_error' = FALSE
  /\ tlast_error' = FALSE
  /\ byte_count' = IF start THEN 0 ELSE byte_count

(* Mutation: TLAST ends the packet, wherever it comes.                      *)
LoaderCount_TrustTlast(beat, expected) ==
  /\ CountValid(beat, expected)
  /\ byte_count' = byte_count + 4
  /\ tlast_error' = FALSE
  /\ packet_done' = (beat = "last")
  /\ packet_length_error' = FALSE

LoaderCount(beat, expected) ==
  /\ CountValid(beat, expected)
  /\ byte_count' = byte_count + 4
  /\ tlast_error' = ((beat = "last") # ExpectedLast(expected))
  /\ packet_done' = (beat = "last" /\ ExpectedLast(expected))
  /\ packet_length_error' = FALSE

LoaderOverrun(beat, expected) ==
  /\ ~CountValid(beat, expected)
  /\ packet_length_error' = TRUE
  /\ packet_done' = FALSE
  /\ tlast_error' = FALSE
  /\ UNCHANGED byte_count

(* One clock edge; a beat other than NoBeat is offered only when the loader *)
(* is ready, so offering and transferring are the same event.               *)
LoaderClock(start, expected, beat) ==
  \/ beat = NoBeat /\ LoaderWait(start)
  \/ beat # NoBeat /\ LoaderCount(beat, expected)
  \/ beat # NoBeat /\ LoaderOverrun(beat, expected)
=============================================================================

--------------------------- MODULE ComputeEngines ---------------------------
(***************************************************************************)
(* The start/abort/done interface shared by conv_engine.sv, gap_engine.sv   *)
(* and residual_add_engine.sv: which engines have left their idle state,    *)
(* which raise done_o and which raise overflow_event_o.  How long a         *)
(* computation lasts is left open; what it computes is not modelled here.   *)
(***************************************************************************)
EXTENDS AccelPkg

VARIABLES running, engine_done, overflow

engineVars == << running, engine_done, overflow >>

EnginesTypeOK ==
  /\ running \subseteq Engines
  /\ engine_done \subseteq Engines
  /\ overflow \subseteq {"conv", "gap"}

EnginesInit ==
  /\ running = {}
  /\ engine_done = {}
  /\ overflow = {}

(* abort_i returns every engine to its idle state and clears its pulses.    *)
EnginesAbort ==
  /\ running' = {}
  /\ engine_done' = {}
  /\ overflow' = {}

(* An idle engine starts; a running one works on, saturates an addition or   *)
(* writes its last output, never the last two in the same cycle.            *)
EnginesWork(starts) ==
  \E finished \in SUBSET running :
    /\ running' = (running \ finished) \cup (starts \ running)
    /\ engine_done' = finished
    /\ overflow' \in SUBSET ((running \ finished) \ {"residual"})

(* One clock edge.                                                          *)
EnginesClock(starts, abort) ==
  \/ abort /\ EnginesAbort
  \/ ~abort /\ EnginesWork(starts)
=============================================================================

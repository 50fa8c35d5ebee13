------------------------ MODULE ResnetAccelTopCycles ------------------------
(***************************************************************************)
(* The accelerator with its cycle counter, which is told of a START pulse    *)
(* and not of its admission, and sees BUSY a cycle after it.                 *)
(***************************************************************************)
EXTENDS ResnetAccelTop

CONSTANT CYCLES          \* 2^32: the count wraps there

ASSUME CyclesAssumption == CYCLES \in Nat \ {0}

VARIABLES
  cycle_count,   \* the CYCLE_COUNT register
  period         \* history: the clock edges at which BUSY was 1, since it last rose

cvars == << vars, cycle_count, period >>

CycleInit == cycle_count = 0

(* cycle_counter.sv: one clock edge of the CYCLE_COUNT register.             *)
CycleClock(operation_start, busy) ==
  cycle_count' = IF operation_start THEN 0
                 ELSE IF busy THEN (cycle_count + 1) % CYCLES ELSE cycle_count

CyclesInit ==
  /\ Init /\ CycleInit
  /\ period = 0

(* A word of the stream and the counter move at the same edge.               *)
CyclesEdge(beat, tready) ==
  /\ ClockEdge(beat, tready)
  /\ CycleClock(start_pulse, Busy)
  /\ period' = IF ~Busy /\ Busy' THEN 0
               ELSE IF Busy THEN (period + 1) % CYCLES ELSE period

CyclesNext ==
  \E beat \in BeatsNow, tready \in TreadyNow : CyclesEdge(beat, tready)

CyclesSpec == CyclesInit /\ [][CyclesNext]_cvars

-----------------------------------------------------------------------------
(* CYCLE_COUNT is the length of the last period of BUSY, from the first      *)
(* cycle of its validation to the last of its output, its abort or its       *)
(* rejection: no START while busy restarts it, no period begins on the count *)
(* of an earlier one, and it keeps its value when BUSY falls                 *)
(* (HW_SW_Interface 12.2; resnet_run reports it as the latency of a layer).  *)
CountsLastPeriod == cycle_count = period
=============================================================================

---------------------------- MODULE MCGapEngine ----------------------------
EXTENDS GapEngine

Powers == [n \in Shifts |-> 2 ^ n]

InputOf(d, i) == ((5 * i + 3 * (i \div 4) + 2 * d) % 8) - 4 + (IF d = 3 /\ i % 4 = 1 THEN 4 ELSE 0)

ModelGapConfigs ==
  {[h |-> s[1], w |-> s[2], ic |-> 4, multiplier |-> m, shift |-> n] :
     s \in {<< 1, 1 >>, << 2, 3 >>, << 3, 2 >>, << 4, 4 >>}, m \in {0, 3}, n \in {0, 2, 3}}
=============================================================================

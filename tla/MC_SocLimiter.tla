---------------------------- MODULE MC_SocLimiter ----------------------------
(* A battery from empty (0) to full (5), power below, at and above its        *)
(* thresholds, and two days.                                                  *)
EXTENDS SocLimiter

Socs == {0, 2, 3, 5}
Solars == {0, 1, 2}
Homes == {8, 9, 10}
SocLimitSet == {0, 2}
HomeLimitSet == {0, 10}
===============================================================================

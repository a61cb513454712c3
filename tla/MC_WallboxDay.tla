---------------------------- MODULE MC_WallboxDay ----------------------------
(* One wallbox with its two counters, two days, and two of: a session lost,   *)
(* a restart of the program, a restart of the counters.                       *)
EXTENDS WallboxDay, DayStatistics
===============================================================================

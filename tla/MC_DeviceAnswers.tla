-------------------------- MODULE MC_DeviceAnswers --------------------------
(* Two strings in both orders of size, one string that is configured       *)
(* rightly or with strings that are not there, trackers configured or not. *)
EXTENDS DeviceAnswers, RawMode

MCSystems ==
  {[strings |-> <<2, 1>>, battery_strings |-> 2, trackers |-> 1, pvi_tracker |-> 0,
    pm_indexes |-> <<0, 6>>, wb_indexes |-> <<0, 1>>],
   [strings |-> <<1, 2>>, battery_strings |-> 3, trackers |-> 2, pvi_tracker |-> 0,
    pm_indexes |-> <<0>>, wb_indexes |-> <<>>],
   [strings |-> <<2>>, battery_strings |-> 1, trackers |-> 2, pvi_tracker |-> 2,
    pm_indexes |-> <<6>>, wb_indexes |-> <<1>>],
   [strings |-> <<1>>, battery_strings |-> 3, trackers |-> 2, pvi_tracker |-> 1,
    pm_indexes |-> <<0>>, wb_indexes |-> <<>>]}
=============================================================================

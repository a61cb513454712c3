---------------------------- MODULE MC_CommandPath ----------------------------
(* A receive cache of four entries in table order: two entries of the idle    *)
(* period topic (system calls), the day request (queued) and one device       *)
(* command (it has a tag, so it goes into the frame).                         *)
EXTENDS CommandPath

Topics == {"set/idle_period", "set/request/day", "set/weather_regulation"}
TableTopics == <<"set/idle_period", "set/idle_period", "set/request/day",
                 "set/weather_regulation">>
DayTopics == {"set/request/day"}
Tagged == {4}
===============================================================================

-------------------------- MODULE MC_ResponseCache --------------------------
(* Ten topics. What the device shows: power of the battery and the grid,     *)
(* state of charge, a status with two bits, and two cell voltages.           *)
EXTENDS ResponseCache, MessageLog

E(key, bit) == [key |-> key, bit |-> bit]

MCTable ==
  <<E("state", NoBit), E("gridState", NoBit), E("power", NoBit),
    E("grid", NoBit), E("soc", NoBit), E("status", NoBit), E("status", 1), E("status", 2),
    E("cells", NoBit), E("cells", NoBit)>>

Base == [power |-> 0, grid |-> 0, soc |-> 3, status |-> {}, cells |-> <<0, 1>>]

MCPatterns == {1..10, {6}}

MCStart == Base

MCDevices ==
  {Base} \union {[Base EXCEPT !.soc = s] : s \in {0, 2}}
    \union {[Base EXCEPT !.power = -1, !.grid = 1], [Base EXCEPT !.power = 1, !.status = {2}],
            [Base EXCEPT !.status = {1, 2}, !.cells = <<1, 1>>],
            [Base EXCEPT !.soc = 0, !.cells = <<1, 0>>]}
===============================================================================

---------------------------- MODULE MC_IdlePeriods ----------------------------
(* Two names, three spans; the device starts with no period, with one or      *)
(* with two, and somebody else may empty the list or store another one.       *)
EXTENDS IdlePeriods, DeviceLists

P(n, s) == [name |-> n, span |-> s]

Lists == {{}, {P("a", "s1")}, {P("a", "s1"), P("b", "s2")},
          {P("a", "s1"), P("b", "s1")}}
Foreigns == {{}, {P("b", "s1")}}
===============================================================================

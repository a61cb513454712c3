--------------------------- MODULE MC_RequestFrame ---------------------------
(* Files and environments with every kind of line; two requests in the same *)
(* container, one outside. A value may have 70 bytes.                       *)
EXTENDS RequestFrame, TypedValues

NoRequest == [container |-> 0, tag |-> 0, index |-> -1, order |-> 0]
R(c, t, i, o) == [container |-> c, tag |-> t, index |-> i, order |-> o]

V(word, num, clean) == [word |-> word, num |-> num, clean |-> clean, request |-> NoRequest]
True == V("true", 0, FALSE)
False == V("false", 0, FALSE)
Num(n) == V("number", n, TRUE)
Two == V("2x", 2, FALSE)
Empty == V("", 0, TRUE)
Ask(r) == [word |-> "request", num |-> 0, clean |-> FALSE, request |-> r]

L(key, value) == [kind |-> "set", key |-> key, value |-> value]
M(kind) == [kind |-> kind, key |-> "", value |-> Empty]
S(key, value) == [key |-> key, value |-> value]

MCLines ==
  {M("open"), M("close"), M("exit"),
   L("BATTERY_STRINGS", Two), L("MQTT_QOS", Num(7)), L("WALLBOX", True),
   L("PM_REQUESTS", False), L("PM_INDEX", Num(3)), L("LIMIT_CHARGE_SOC", Num(80)),
   L("E3DC_USER", V("a b", 0, FALSE)),
   L("ADD_NEW_REQUEST", Ask(R(1, 5, -1, 2))),
   L("ADD_NEW_REQUEST_AT_START", Ask(R(1, 6, 4, 1)))}

MCSettings ==
  {S("BATTERY_STRINGS", Two), S("BATTERY_STRINGS", Num(300)), S("MQTT_QOS", Num(5)),
   S("WALLBOX", V("1", 1, TRUE)), S("WALLBOX", Empty),
   S("PM_REQUESTS", True), S("PM_EXTERN", True),
   S("PM_INDEX", Num(1)), S("WB_INDEX", Num(1)), S("E3DC_USER", V("ab", 0, FALSE)),
   S("LIMIT_CHARGE_SOC", Num(101)), S("LIMIT_CHARGE_DURABLE", True),
   S("ADD_NEW_REQUEST_AT_START", Ask(R(1, 5, -1, 2))),
   S("ADD_NEW_REQUEST", Ask(R(0, 7, -1, 0)))}

MCBadText == [k \in {"E3DC_USER"} |-> {"a b"}]
===============================================================================

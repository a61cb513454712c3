--------------------------- MODULE MC_RequestPass ---------------------------
(* Two wallboxes; currents below, at and above the limits; a power mode of *)
(* three cycles, one of none and the return to normal.                     *)
EXTENDS RequestPass, TopicSetup

MCWallboxes == {1, 2}
MCCurrents == {0, 1, 4}
MCPowerModes == {[mode |-> "charge", cycles |-> 3], [mode |-> "idle", cycles |-> 1],
                 [mode |-> "idle", cycles |-> 0], [mode |-> "auto", cycles |-> 0]}
MCConfigs == {[wallbox |-> TRUE, auto_refresh |-> FALSE],
              [wallbox |-> FALSE, auto_refresh |-> TRUE]}
=============================================================================

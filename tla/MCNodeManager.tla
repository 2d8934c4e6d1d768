---------------------------- MODULE MCNodeManager ----------------------------
(* A small instance of NodeManager: the main stack (one runtime-specific    *)
(* node, one common node, one deferred node) and a one-node teleop group.   *)
EXTENDS NodeManager

CONSTANTS stack, keyboard,              \* names
          sim, real,                    \* runtimes
          simulator, driver, homing, teleop    \* nodes

MCCoreNodes ==
    [n \in Names |-> [r \in Runtimes |->
        IF n = keyboard THEN {teleop}
        ELSE {IF r = sim THEN simulator ELSE driver}]]

MCDeferredNodes == [n \in Names |-> IF n = stack THEN {homing} ELSE {}]
MCProcessOrder == [n \in Names |-> IF n = stack THEN 0 ELSE 1]
MCStopOrder == [n \in Names |-> IF n = stack THEN 1 ELSE 0]

=============================================================================

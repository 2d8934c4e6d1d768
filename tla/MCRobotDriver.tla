---------------------------- MODULE MCRobotDriver ----------------------------
(* A robot with one arm servo and two wheels on two controllers: one          *)
(* controller carries both kinds, the other a wheel only.                     *)
EXTENDS ServoTools

MCServos == {1, 2, 3}
MCController == [s \in MCServos |-> IF s = 3 THEN 2 ELSE 1]

=============================================================================

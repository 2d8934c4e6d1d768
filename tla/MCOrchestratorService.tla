------------------------ MODULE MCOrchestratorService ------------------------
(* Instances of OrchestratorService: which teleops and which requests there are. *)
EXTENDS OrchestratorService

NoTeleop == {}
Keyboard == {"KEYBOARD"}

Real == {"REAL"}
Both == {"SIM", "REAL"}

\* What operators do under a runtime.
StackAndReplay == [r \in Real |-> {"status", "start", "stop", "start_replay", "stop_replay", "close"}]
TeleopModes == [r \in Real |-> {"start", "stop", "request_mode"}]
\* Before they choose real hardware they start and stop things.
RehearsedTeleop ==
    [r \in Both |-> IF r = "REAL" THEN {"start", "stop", "request_mode"} ELSE {"set_runtime", "start", "stop"}]

\* A request that is under way when close() begins may start all that a later one could.
NoneLate == {}

=============================================================================

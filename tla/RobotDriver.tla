----------------------------- MODULE RobotDriver -----------------------------
(***************************************************************************)
(* The hardware driver node (nodes/robot/driver.py) down to the registers  *)
(* of the servos: the actuator system over several Feetech controllers,    *)
(* the configuration of every servo on connection, the write, watchdog and  *)
(* read steps of the loop, and the ways it ends.  Any bus transaction may   *)
(* fail, an interrupt may arrive anywhere, the process may be killed and    *)
(* started again on servos that kept their registers.                      *)
(***************************************************************************)
EXTENDS Integers, FiniteSets

CONSTANTS
    Servos,         \* the actuator numbers; the drivers go through them in increasing order
    Wheels,         \* those under velocity control
    Tuned,          \* those with position_pid gains
    Controllers,    \* the controller numbers
    Controller,     \* the controller of each servo
    Retries,        \* feedback_read_retries
    Timeout,        \* command_timeout_seconds, in ticks of the clock
    MaxCommands,    \* bound: robot commands that are published
    MaxFaults,      \* bound: failing transactions before the node closes
    MaxStarts,      \* bound: starts of the process
    None

ASSUME DriverAssumption ==
    /\ Servos \subseteq Nat /\ IsFiniteSet(Servos)
    /\ Wheels \subseteq Servos /\ Tuned \subseteq Servos \ Wheels
    /\ Controllers \subseteq Nat /\ Controllers # {} /\ IsFiniteSet(Controllers)
    /\ Controller \in [Servos -> Controllers]
    /\ \A c \in Controllers : \E s \in Servos : Controller[s] = c
    /\ {Retries, Timeout, MaxCommands, MaxFaults, MaxStarts} \subseteq Nat /\ MaxStarts # 0
    /\ None \notin {"drive", "halt", "bad", "bus", "missing", "fault"}

Gain == {1, 2, 3}           \* the P, I and D registers, in the order of POSITION_PID_REGISTERS
MaxHits == 2                \* one mishap too many for a servo while the node is closing

VARIABLES
    torque,     \* register: whether torque is enabled
    opmode,     \* register: whether the operating mode is the configured one
    gains,      \* register: the gains that have their configured value
    locked,     \* register: whether the EEPROM is locked
    goal,       \* register: the goal: left over, safe (zero speed, present position) or commanded
    port,       \* the controllers that are open
    at,         \* where the node is
    bus,        \* the controllers the loop under way has still to deal with
    todo,       \* the servos the loop under way has still to deal with
    unwritten,  \* the gains that _configure_position_pid has still to write
    failing,    \* whether a transaction failed whose error is raised later
    command,    \* the subscriber's queue
    sent,       \* the commands published so far
    driving,    \* whether the command being written has a non-zero velocity
    active,     \* VelocityCommandWatchdog._velocity_active
    age,        \* ticks since _last_command_time, up to Timeout
    attempt,    \* the sync read's attempt
    pending,    \* the servos it still waits for
    values,     \* the servos that have answered in this step
    issue,      \* the health issue of each servo
    faults,     \* transactions that have failed before the node closed
    hits,       \* the mishaps of each wheel since the node closes, up to MaxHits
    starts      \* starts of the process

registers == <<torque, opmode, gains, locked, goal>>
watchdogVars == <<active, age>>
readVars == <<attempt, pending, values, issue>>
commandVars == <<command, sent>>
vars == <<registers, port, at, bus, todo, unwritten, failing, commandVars, driving, watchdogVars,
          readVars, faults, hits, starts>>

Configuring == {"torque_off", "mode", "gains", "unlock", "write_gain", "lock", "verify", "stage", "torque_on"}
Serving == {"idle", "positions", "velocities", "observe", "stop", "read", "publish"}
Stages == {"open", "rollback", "close", "disconnect", "ended"} \cup Configuring \cup Serving

TypeOK ==
    /\ torque \in [Servos -> BOOLEAN]
    /\ opmode \in [Servos -> BOOLEAN]
    /\ gains \in [Servos -> SUBSET Gain]
    /\ locked \in [Servos -> BOOLEAN]
    /\ goal \in [Servos -> {"stale", "safe", "commanded"}]
    /\ port \subseteq Controllers
    /\ at \in Stages
    /\ bus \subseteq Controllers /\ (at \in Configuring => bus # {})
    /\ todo \subseteq Servos /\ (at \in Configuring => todo # {})
    /\ unwritten \subseteq Gain
    /\ failing \in BOOLEAN
    /\ command \in {None, "drive", "halt", "bad"}
    /\ sent \in 0..MaxCommands
    /\ driving \in BOOLEAN
    /\ active \in BOOLEAN
    /\ age \in 0..Timeout
    /\ attempt \in 0..Retries
    /\ pending \subseteq Servos
    /\ values \subseteq Servos
    /\ issue \in [Servos -> {None, "bus", "missing", "fault"}]
    /\ faults \in 0..MaxFaults
    /\ hits \in [Wheels -> 0..MaxHits]
    /\ starts \in 1..MaxStarts

First(S) == CHOOSE x \in S : \A y \in S : x <= y
Last(S) == CHOOSE x \in S : \A y \in S : y <= x
ServosOf(c) == {s \in Servos : Controller[s] = c}

\* The servos were powered up: no torque, registers as some earlier use left them.
Init ==
    /\ torque = [s \in Servos |-> FALSE]
    /\ opmode \in [Servos -> BOOLEAN]
    /\ gains \in [Servos -> {{1}, Gain}] /\ \A s \in Servos \ Tuned : gains[s] = Gain
    /\ locked = [s \in Servos |-> TRUE]
    /\ goal = [s \in Servos |-> "stale"]
    /\ port = {}
    /\ at = "open" /\ bus = Controllers /\ todo = {}
    /\ unwritten = {} /\ failing = FALSE
    /\ command = None /\ sent = 0 /\ driving = FALSE
    /\ active = FALSE /\ age = 0
    /\ attempt = 0 /\ pending = {} /\ values = {}
    /\ issue = [s \in Servos |-> None]
    /\ faults = 0 /\ hits = [s \in Wheels |-> 0] /\ starts = 1

-----------------------------------------------------------------------------
(* Transactions.  A write is acknowledged ("ok"), not carried out             *)
(* ("refused"), carried out without an answer ("unanswered"), or              *)
(* acknowledged but ineffective ("ignored").                                 *)

Applied(answer) == answer \in {"ok", "unanswered"}
Reported(answer) == answer \in {"ok", "ignored"}

Closing == at \in {"rollback", "close", "disconnect"}

\* n transactions fail before the node closes.
Fail(n) ==
    /\ faults' = faults + n /\ faults' <= MaxFaults
    /\ UNCHANGED hits

\* A mishap of the servos S while it does; what happens to a position servo is not counted.
Strike(S) ==
    /\ hits' = [s \in Wheels |-> IF s \in S /\ hits[s] < MaxHits THEN hits[s] + 1 ELSE hits[s]]
    /\ UNCHANGED faults

Answered(answer) == Fail(IF answer = "ok" THEN 0 ELSE 1)

Abort == at' = "rollback" /\ bus' = {} /\ todo' = {}

\* What belongs to one step of the loop is gone when it ends.
stepVars == <<driving, readVars>>

ForgetStep ==
    /\ driving' = FALSE
    /\ attempt' = 0 /\ pending' = {} /\ values' = {}
    /\ issue' = [s \in Servos |-> None]

\* The memory of a process is gone with it.
ForgetProcess ==
    /\ ForgetStep
    /\ command' = None /\ active' = FALSE /\ age' = 0 /\ failing' = FALSE /\ unwritten' = {}

\* An exception leaves step(): run() closes the node.
Raise == at' = "close" /\ todo' = Wheels /\ bus' = {} /\ ForgetStep

Going(stage) == at' = stage /\ UNCHANGED <<bus, todo>>

-----------------------------------------------------------------------------
(* connect(): the servos of one controller after the other.                *)

configureVars == <<port, commandVars, driving, watchdogVars, readVars, starts>>

Servo == First(todo)

Open(ok) ==
    /\ at = "open"
    /\ IF ok
       THEN /\ port' = port \cup {First(bus)}
            /\ at' = "torque_off" /\ todo' = ServosOf(First(bus)) /\ bus' = bus
       ELSE port' = port /\ Abort
    /\ Fail(IF ok THEN 0 ELSE 1)
    /\ UNCHANGED <<unwritten, registers, failing, commandVars, driving, watchdogVars, readVars,
                   starts>>

\* _set_torque_enabled(FALSE), which reads the register back.
DisableTorque(answer) ==
    /\ at = "torque_off"
    /\ torque' = IF Applied(answer) THEN [torque EXCEPT ![Servo] = FALSE] ELSE torque
    /\ IF answer = "ok" THEN Going("mode") ELSE Abort
    /\ Answered(answer)
    /\ UNCHANGED <<unwritten, opmode, gains, locked, goal, failing, configureVars>>

\* The operating mode is set if it differs, and read back.
SetMode(answer) ==
    /\ at = "mode"
    /\ opmode' = IF Applied(answer) THEN [opmode EXCEPT ![Servo] = TRUE] ELSE opmode
    /\ IF answer = "ok" THEN Going(IF Servo \in Tuned THEN "gains" ELSE "stage") ELSE Abort
    /\ Answered(answer)
    /\ UNCHANGED <<unwritten, torque, gains, locked, goal, failing, configureVars>>

ReadGains(ok) ==
    /\ at = "gains"
    /\ unwritten' = IF ok THEN Gain \ gains[Servo] ELSE {}
    /\ IF ok THEN Going(IF unwritten' = {} THEN "stage" ELSE "unlock") ELSE Abort
    /\ Fail(IF ok THEN 0 ELSE 1)
    /\ UNCHANGED <<registers, failing, configureVars>>

UnlockEeprom(answer) ==
    /\ at = "unlock"
    /\ locked' = IF Applied(answer) THEN [locked EXCEPT ![Servo] = FALSE] ELSE locked
    /\ IF Reported(answer) THEN Going("write_gain") ELSE Abort
    /\ Answered(answer)
    /\ UNCHANGED <<unwritten, torque, opmode, gains, goal, failing, configureVars>>

\* The gains that differed when they were read, one by one up to the first error; a locked
\* EEPROM ignores what is written.
WriteGain(answer) ==
    /\ at = "write_gain"
    /\ IF unwritten = {}
       THEN answer = "ok" /\ Going("lock") /\ UNCHANGED <<gains, unwritten, failing>>
       ELSE /\ gains' = IF Applied(answer) /\ ~locked[Servo]
                        THEN [gains EXCEPT ![Servo] = @ \cup {First(unwritten)}] ELSE gains
            /\ failing' = ~Reported(answer)
            /\ unwritten' = IF failing' THEN {} ELSE unwritten \ {First(unwritten)}
            /\ Going("write_gain")
    /\ Answered(answer)
    /\ UNCHANGED <<torque, opmode, locked, goal, configureVars>>

\* Mutant: the EEPROM is only locked if every gain was written.
LockUnlessFailing(answer) ==
    /\ at = "lock"
    /\ locked' = IF Applied(answer) /\ ~failing THEN [locked EXCEPT ![Servo] = TRUE] ELSE locked
    /\ IF answer = "ok" THEN Going("stage") ELSE Abort
    /\ failing' = FALSE
    /\ Answered(answer)
    /\ UNCHANGED <<unwritten, torque, opmode, gains, goal, configureVars>>

\* The EEPROM is locked also when a gain could not be written.
LockEeprom(answer) ==
    /\ at = "lock"
    /\ locked' = IF Applied(answer) THEN [locked EXCEPT ![Servo] = TRUE] ELSE locked
    /\ IF answer = "ok" /\ ~failing THEN Going("verify") ELSE Abort
    /\ failing' = FALSE
    /\ Answered(answer)
    /\ UNCHANGED <<unwritten, torque, opmode, gains, goal, configureVars>>

VerifyGains(ok) ==
    /\ at = "verify"
    /\ IF ok /\ gains[Servo] = Gain THEN Going("stage") ELSE Abort
    /\ Fail(IF ok THEN 0 ELSE 1)
    /\ UNCHANGED <<unwritten, registers, failing, configureVars>>

\* _stage_safe_goal: zero speed, or the position that was just read.
StageGoal(answer) ==
    /\ at = "stage"
    /\ goal' = IF Applied(answer) THEN [goal EXCEPT ![Servo] = "safe"] ELSE goal
    /\ IF answer = "ok" THEN Going("torque_on") ELSE Abort
    /\ Answered(answer)
    /\ UNCHANGED <<unwritten, torque, opmode, gains, locked, failing, configureVars>>

\* _set_torque_enabled(TRUE), and on to the next servo, controller, or the loop.
EnableTorque(answer) ==
    /\ at = "torque_on"
    /\ torque' = IF Applied(answer) THEN [torque EXCEPT ![Servo] = TRUE] ELSE torque
    /\ IF answer # "ok"
       THEN Abort /\ Answered(answer)
       ELSE /\ todo' = todo \ {Servo}
            /\ bus' = IF todo' = {} THEN bus \ {First(bus)} ELSE bus
            /\ at' = IF todo' # {} THEN "torque_off" ELSE IF bus' # {} THEN "open" ELSE "idle"
            /\ hits' = IF at' = "idle" THEN [s \in Wheels |-> 0] ELSE hits
            /\ UNCHANGED faults
    /\ UNCHANGED <<unwritten, opmode, gains, locked, goal, failing, configureVars>>

-----------------------------------------------------------------------------
(* step(): receive().                                                      *)

StartRead ==
    /\ at' = "read" /\ bus' = Controllers /\ todo' = {}
    /\ attempt' = 0 /\ values' = {} /\ pending' = ServosOf(First(Controllers))
    /\ issue' = [s \in Servos |-> None]
    /\ driving' = FALSE

serveVars == <<port, unwritten, failing, sent, starts>>

PositionControllers == {c \in Controllers : ServosOf(c) \ Wheels # {}}

\* A command with a wrong dimension or a non-finite value is rejected before any write.
ReceiveCommand ==
    /\ at = "idle" /\ command # None
    /\ command' = None
    /\ IF command = "bad" THEN Raise
       ELSE /\ driving' = (command = "drive")
            /\ bus' = PositionControllers
            /\ at' = IF bus' = {} THEN "velocities" ELSE "positions"
            /\ todo' = Wheels
            /\ UNCHANGED readVars
    /\ UNCHANGED <<registers, serveVars, watchdogVars, faults, hits>>

\* One sync packet per controller, which nobody acknowledges.
WritePositions(answer) ==
    /\ at = "positions"
    /\ LET c == First(bus)
       IN  /\ goal' = IF Applied(answer)
                      THEN [s \in Servos |-> IF s \in ServosOf(c) \ Wheels THEN "commanded" ELSE goal[s]]
                      ELSE goal
           /\ IF answer # "ok" THEN Raise
              ELSE /\ bus' = bus \ {c}
                   /\ at' = IF bus' = {} THEN "velocities" ELSE at
                   /\ UNCHANGED <<todo, stepVars>>
    /\ Answered(answer)
    /\ UNCHANGED <<torque, opmode, gains, locked, serveVars, command, watchdogVars>>

\* write_velocity stops at the first servo that does not acknowledge.
WriteVelocity(answer) ==
    /\ at = "velocities"
    /\ IF todo = {}
       THEN answer = "ok" /\ Going("observe") /\ UNCHANGED <<goal, stepVars>>
       ELSE /\ goal' = IF Applied(answer)
                       THEN [goal EXCEPT ![Servo] = IF driving THEN "commanded" ELSE "safe"] ELSE goal
            /\ IF answer # "ok" THEN Raise ELSE todo' = todo \ {Servo} /\ UNCHANGED <<at, bus, stepVars>>
    /\ Answered(answer)
    /\ UNCHANGED <<torque, opmode, gains, locked, serveVars, command, watchdogVars>>

\* Mutant: the watchdog is armed by the first command only.
ObserveIdleCommand ==
    /\ at = "observe"
    /\ active' = (driving /\ Wheels # {} /\ ~active)
    /\ age' = 0
    /\ StartRead
    /\ UNCHANGED <<registers, serveVars, command, faults, hits>>

ObserveCommand ==
    /\ at = "observe"
    /\ active' = (driving /\ Wheels # {})
    /\ age' = 0
    /\ StartRead
    /\ UNCHANGED <<registers, serveVars, command, faults, hits>>

\* stop_if_stale.
NoCommand ==
    /\ at = "idle" /\ command = None
    /\ IF active /\ age >= Timeout
       THEN at' = "stop" /\ todo' = Wheels /\ UNCHANGED <<bus, stepVars>>
       ELSE StartRead
    /\ UNCHANGED <<registers, serveVars, command, watchdogVars, faults, hits>>

\* Mutant: the first wheel that cannot be stopped ends the stop.
StopUntilFailure(answer) ==
    /\ at \in {"stop", "close"} /\ todo # {}
    /\ goal' = IF Applied(answer) THEN [goal EXCEPT ![Servo] = "safe"] ELSE goal
    /\ todo' = IF Reported(answer) THEN todo \ {Servo} ELSE {}
    /\ failing' = (failing \/ ~Reported(answer))
    /\ IF at = "stop" THEN Answered(answer) ELSE Strike(IF answer = "ok" THEN {} ELSE {Servo})
    /\ UNCHANGED <<unwritten, torque, opmode, gains, locked, port, at, bus, commandVars,
                   driving, watchdogVars,
                   readVars, starts>>

\* CompositeActuatorSystem.stop: every wheel is tried.
StopWheel(answer) ==
    /\ at \in {"stop", "close"} /\ todo # {}
    /\ goal' = IF Applied(answer) THEN [goal EXCEPT ![Servo] = "safe"] ELSE goal
    /\ todo' = todo \ {Servo}
    /\ failing' = (failing \/ ~Reported(answer))
    /\ IF at = "stop" THEN Answered(answer) ELSE Strike(IF answer = "ok" THEN {} ELSE {Servo})
    /\ UNCHANGED <<unwritten, torque, opmode, gains, locked, port, at, bus, commandVars,
                   driving, watchdogVars,
                   readVars, starts>>

StopEnds ==
    /\ at = "stop" /\ todo = {}
    /\ failing' = FALSE
    /\ IF failing THEN Raise /\ UNCHANGED active ELSE active' = FALSE /\ StartRead
    /\ UNCHANGED <<unwritten, registers, port, commandVars, age, faults, hits, starts>>

-----------------------------------------------------------------------------
(* step(): publish().                                                      *)

NextController ==
    /\ bus' = bus \ {First(bus)}
    /\ at' = IF bus' = {} THEN "publish" ELSE at
    /\ attempt' = 0
    /\ pending' = IF bus' = {} THEN {} ELSE ServosOf(First(bus'))

\* Mutant: one attempt more than the configured retries allow.
RetryOnceMore(left, reply) ==
    /\ left # {}
    /\ \A s \in left : reply[s] = "missing"
    /\ attempt <= Retries

\* Mutant: whatever is missing is asked again.
RetryAnything(left, reply) == left # {} /\ attempt < Retries

\* _sync_read goes on while all servos that are left just did not answer.
RetryAgain(left, reply) ==
    /\ left # {}
    /\ \A s \in left : reply[s] = "missing"
    /\ attempt < Retries

\* One attempt of a sync read that reaches the bus; a servo that cannot be added to it
\* counts like one that reports a fault.
ReadAttempt(reply) ==
    /\ at = "read" /\ DOMAIN reply = pending
    /\ LET answered == {s \in pending : reply[s] = "value"}
           left == pending \ answered
       IN  /\ values' = values \cup answered
           /\ issue' = [s \in Servos |-> IF s \in answered THEN None ELSE IF s \in left THEN reply[s] ELSE issue[s]]
           /\ IF RetryAgain(left, reply)
              THEN attempt' = attempt + 1 /\ pending' = left /\ UNCHANGED <<bus, at>>
              ELSE NextController
           /\ Fail(Cardinality(left))
    /\ UNCHANGED <<unwritten, registers, port, todo, failing, commandVars, driving,
                   watchdogVars, starts>>

\* A sync read fails as a whole; it is tried again or ends the step.
ReadFails ==
    /\ at = "read"
    /\ IF attempt < Retries
       THEN /\ attempt' = attempt + 1
            /\ issue' = [s \in Servos |-> IF s \in pending THEN "bus" ELSE issue[s]]
            /\ UNCHANGED <<at, bus, todo, driving, pending, values>>
       ELSE Raise
    /\ Fail(1)
    /\ UNCHANGED <<unwritten, registers, port, failing, commandVars, watchdogVars, starts>>

\* A state is only published if every servo has answered.
Publish ==
    /\ at = "publish"
    /\ IF values = Servos THEN Going("idle") /\ ForgetStep ELSE Raise
    /\ UNCHANGED <<unwritten, registers, port, failing, commandVars, watchdogVars, faults, hits,
                   starts>>

-----------------------------------------------------------------------------
(* on_close(), the rollback of connect(), interrupts and kills.            *)

\* Mutant: no disconnect if the stop raised.
SkipDisconnect ==
    /\ at = "close" /\ todo = {}
    /\ at' = IF failing THEN "ended" ELSE "disconnect"
    /\ active' = (active /\ failing)
    /\ failing' = FALSE
    /\ UNCHANGED <<unwritten, registers, port, bus, todo, commandVars, driving, age, readVars,
                   faults, hits, starts>>

\* The subscriber is closed and the system disconnected, whether the stop failed or not.
CloseStopEnds ==
    /\ at = "close" /\ todo = {}
    /\ at' = "disconnect"
    /\ active' = (active /\ failing)
    /\ failing' = FALSE
    /\ UNCHANGED <<unwritten, registers, port, bus, todo, commandVars, driving, age, readVars,
                   faults, hits, starts>>

\* The controllers in reverse order; the SDK disables the torque of each servo, one of
\* which may be stuck.
Disconnect(stuck) ==
    /\ at \in {"rollback", "disconnect"} /\ port # {}
    /\ stuck \subseteq ServosOf(Last(port))
    /\ torque' = [s \in Servos |-> torque[s] /\ (s \notin ServosOf(Last(port)) \/ s \in stuck)]
    /\ port' = port \ {Last(port)}
    /\ Strike(stuck)
    /\ UNCHANGED <<unwritten, opmode, gains, locked, goal, at, bus, todo, failing, commandVars, driving, watchdogVars,
                   readVars, starts>>

Exit ==
    /\ at \in {"rollback", "disconnect"} /\ port = {}
    /\ at' = "ended" /\ ForgetProcess
    /\ UNCHANGED <<registers, port, bus, todo, sent, faults, hits, starts>>

\* SIGINT: from the manager, and once more from the terminal.  No rollback on the way out
\* of connect(), which only catches Exception; in on_close what is left of the stop, or of
\* the disconnection, is skipped.
Interrupt ==
    /\ at # "ended"
    /\ at' = IF at \in Serving THEN "close" ELSE IF at = "close" THEN "disconnect" ELSE "ended"
    /\ todo' = IF at \in Serving THEN Wheels ELSE {}
    /\ bus' = {}
    /\ Strike(IF Closing THEN Wheels ELSE {})
    /\ IF at' = "ended"
       THEN port' = {} /\ ForgetProcess
       ELSE /\ unwritten' = {} /\ failing' = FALSE /\ ForgetStep
            /\ UNCHANGED <<port, command, watchdogVars>>
    /\ UNCHANGED <<registers, sent, starts>>

\* SIGTERM or SIGKILL: no cleanup.
Kill ==
    /\ at # "ended"
    /\ at' = "ended" /\ port' = {} /\ bus' = {} /\ todo' = {} /\ ForgetProcess
    /\ hits' = [s \in Wheels |-> MaxHits]
    /\ UNCHANGED <<registers, sent, faults, starts>>

\* The new process is not to blame for a wheel it finds turning.
Restart ==
    /\ at = "ended" /\ starts < MaxStarts
    /\ starts' = starts + 1
    /\ hits' = [s \in Wheels |-> IF torque[s] /\ goal[s] # "safe" THEN MaxHits ELSE 0]
    /\ at' = "open" /\ bus' = Controllers
    /\ UNCHANGED <<registers, port, todo, unwritten, failing, commandVars, stepVars, watchdogVars,
                   faults>>

-----------------------------------------------------------------------------
PublishCommand(kind) ==
    /\ at # "ended" /\ sent < MaxCommands
    /\ command' = kind
    /\ sent' = sent + 1
    /\ UNCHANGED <<unwritten, registers, port, at, bus, todo, failing, driving, watchdogVars,
                   readVars, faults,
                   hits, starts>>

Tick ==
    /\ age < Timeout /\ active
    /\ age' = age + 1
    /\ UNCHANGED <<unwritten, registers, port, at, bus, todo, failing, commandVars, driving,
                   active, readVars,
                   faults, hits, starts>>

ConnectStep ==
    \/ \E ok \in BOOLEAN : Open(ok) \/ ReadGains(ok) \/ VerifyGains(ok)
    \/ \E answer \in {"ok", "refused", "unanswered"} :
          DisableTorque(answer) \/ SetMode(answer) \/ LockEeprom(answer) \/ StageGoal(answer)
             \/ EnableTorque(answer)
    \/ \E answer \in {"ok", "refused", "unanswered", "ignored"} : UnlockEeprom(answer) \/ WriteGain(answer)

ServeStep ==
    \/ ReceiveCommand
    \/ \E answer \in {"ok", "refused"} : WritePositions(answer)
    \/ \E answer \in {"ok", "refused", "unanswered"} : WriteVelocity(answer) \/ StopWheel(answer)
    \/ ObserveCommand
    \/ NoCommand
    \/ StopEnds
    \/ \E reply \in [pending -> {"value", "missing", "fault"}] : ReadAttempt(reply)
    \/ ReadFails
    \/ Publish

CloseStep ==
    \/ CloseStopEnds
    \/ \E stuck \in SUBSET Servos : Disconnect(stuck)
    \/ Exit

NodeStep == ConnectStep \/ ServeStep \/ CloseStep

Next ==
    \/ NodeStep
    \/ Interrupt
    \/ Kill
    \/ Restart
    \/ \E kind \in {"drive", "halt", "bad"} : PublishCommand(kind)
    \/ Tick

Spec == Init /\ [][Next]_vars

\* The node's loop goes on, and so does the clock.
FairSpec == Spec /\ WF_vars(NodeStep) /\ WF_vars(Tick)

-----------------------------------------------------------------------------
(* What holds.                                                             *)

\* The servo is in its configured mode and has its configured gains; its EEPROM is locked,
\* unless an earlier process was killed before it could lock it.
PoweredAsConfigured(s) == opmode[s] /\ gains[s] = Gain /\ (starts = 1 => locked[s])

\* However the node ends, no single mishap of a wheel on the way (its stop or its torque-off
\* fails, a second interrupt skips one of them), and no mishap of another servo, leaves the
\* wheel turning: it has been stopped or has no torque.
NoWheelTurnsAtEnd ==
    at = "ended" => \A s \in Wheels : hits[s] = MaxHits \/ ~torque[s] \/ goal[s] = "safe"

\* A step that gets as far as publishing knows of every servo either its state or why not,
\* and no servo is asked again that has reported a fault (feetech/README.md: "surfaced
\* immediately without retrying").
FeedbackIsAccounted ==
    /\ at = "publish" => \A s \in Servos : (s \in values) <=> (issue[s] = None)
    /\ at = "read" => \A s \in pending : issue[s] # "fault"

\* When commands stop arriving while the node serves, no wheel keeps turning.
CommandLossStops ==
    \A s \in Wheels :
       (at \in Serving /\ torque[s] /\ goal[s] = "commanded") ~> (~torque[s] \/ goal[s] = "safe" \/ at = "ended")

=============================================================================

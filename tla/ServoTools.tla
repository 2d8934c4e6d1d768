----------------------------- MODULE ServoTools -----------------------------
(***************************************************************************)
(* The maintenance tools of the Feetech servos (feetech/scripts and          *)
(* feetech/configurator.py): jog, spin, zero, set_id, scan and read_gains,   *)
(* each a process of its own that drives one servo through an ad-hoc driver  *)
(* of its bus.  They run before the robot driver does, one at a time, as     *)
(* feetech/README.md asks ("Stop the robot stack before using them"), and    *)
(* the driver then finds the registers they leave.                          *)
(***************************************************************************)
EXTENDS RobotDriver

CONSTANTS
    Maintained,     \* the servos that tools are used on
    SpareIds,       \* actuator IDs that no servo has
    Span,           \* the half of the position range, in jog steps
    MaxSpeed,       \* --max-speed of spin, in steps of the velocity
    SpeedBits,      \* the width of the magnitude in the speed register
    MaxTools,       \* bound: tools that run
    Repeated,       \* bound: the programs that run after another tool
    MaxJogs         \* bound: how far beyond the range a jog is taken

Programs == {"jog", "spin", "zero", "set_id", "scan", "read_gains"}

ASSUME ToolAssumption ==
    /\ {Span, MaxSpeed, SpeedBits, MaxTools, MaxJogs} \subseteq Nat /\ SpeedBits # 0
    /\ Maintained \subseteq Servos /\ Repeated \subseteq Programs
    /\ SpareIds \subseteq Nat /\ SpareIds \cap Servos = {} /\ IsFiniteSet(SpareIds)
    /\ 0 \notin SpareIds \cup Servos

VARIABLES
    tool,       \* the tool that runs: its program, its servo and, for set_id, the new ID
    toolAt,     \* where it is
    believed,   \* jog's current_pos, spin's current_velocity
    written,    \* the goal register of its servo: jog's position, spin's raw speed
    unsure,     \* whether a write of this tool has failed
    stored,     \* the ID in the EEPROM of each servo
    wire,       \* the ID each servo answers to, until it is powered again
    excused,    \* set_id was used unlike it asks to be: an answer to its probe was lost, or
                \* a servo of its bus had been renamed since the power cycle
    mishaps,    \* the mishaps of the tool's servo since it ends
    tools       \* tools that have run

motionVars == <<believed, written, unsure>>
idVars == <<stored, wire, excused>>
toolVars == <<tool, toolAt, motionVars, idVars, mishaps, tools>>
allVars == <<vars, toolVars>>

Configurers == {"jog", "spin", "zero"}      \* configure_on_connect=True
Ids == Servos \cup SpareIds
Tools == [program : Programs, servo : Servos, new : Ids]

ASSUME NoToolAssumption == None \notin Tools

SpeedMagnitudes == 2^SpeedBits              \* the sign is the next bit

ToolTypeOK ==
    /\ TypeOK
    /\ tool \in Tools \cup {None}
    /\ toolAt \in {"none", "open", "torque_off", "mode", "stage", "torque_on", "ping", "probe",
                   "start", "work", "interrupted", "disconnect"}
    /\ believed \in (-(Span + MaxJogs))..(Span + MaxJogs) \cup (-MaxSpeed)..MaxSpeed
    /\ written \in (-Span)..Span \cup 0..(2 * SpeedMagnitudes - 1)
    /\ unsure \in BOOLEAN
    /\ stored \in [Servos -> Ids] /\ wire \in [Servos -> Ids]
    /\ excused \in BOOLEAN
    /\ mishaps \in 0..MaxHits
    /\ tools \in 0..MaxTools

\* The servos of the robot have their configured mode, unless a tool takes it from them.
ToolInit ==
    /\ Init /\ \A s \in Maintained : opmode[s]
    /\ tool = None /\ toolAt = "none"
    /\ believed = 0 /\ written = 0 /\ unsure = FALSE
    /\ stored = [s \in Servos |-> s] /\ wire = stored /\ excused = FALSE
    /\ mishaps = 0 /\ tools = 0

-----------------------------------------------------------------------------
(* Conversions.                                                            *)

\* Mutant: the position is not clamped to the range of the register.
UnclampedPosition(angle) == angle

\* angle_to_position of a servo that is not inverted, around the middle position.
angle_to_position(angle) == IF angle > Span THEN Span ELSE IF angle < -Span THEN -Span ELSE angle

\* Mutant: the magnitude is not limited and runs into the direction bit.
UnlimitedSpeed(velocity) ==
    IF velocity < 0 THEN ((-velocity) % SpeedMagnitudes) + SpeedMagnitudes ELSE velocity

\* write_velocity: the magnitude in the low bits, the direction above.
RawSpeed(velocity) ==
    LET size == IF velocity < 0 THEN -velocity ELSE velocity
        magnitude == IF size < SpeedMagnitudes THEN size ELSE SpeedMagnitudes - 1
    IN  IF velocity < 0 THEN magnitude + SpeedMagnitudes ELSE magnitude

\* scs_tohost, by which the servo and _velocity_from_raw read it.
SpeedOf(raw) == IF raw >= SpeedMagnitudes THEN SpeedMagnitudes - raw ELSE raw

get_jog_target(position, direction) == position + (IF direction = "left" THEN -1 ELSE 1)

-----------------------------------------------------------------------------
(* A tool's process, from its arguments to its configured servo.           *)

S == tool.servo
Program == tool.program
toolRegisters == <<opmode, goal, torque>>
restVars == <<gains, locked, port, at, bus, todo, unwritten, failing, commandVars, driving,
              watchdogVars, readVars, faults, starts>>
nodeVars == <<restVars, hits>>

NodeNotStarted == at = "open" /\ starts = 1 /\ port = {} /\ bus = Controllers

Driven(s) == torque[s] /\ goal[s] # "safe"

\* The parsed arguments: an ID in range, steps and a speed above zero, and the bus that the
\* servo is on.
StartTool(program, servo, new) ==
    /\ NodeNotStarted /\ toolAt = "none" /\ tools < MaxTools /\ (tools > 0 => program \in Repeated)
    /\ (program = "set_id") <=> (new # servo)
    /\ wire[servo] = servo
    /\ tool' = [program |-> program, servo |-> servo, new |-> new]
    /\ toolAt' = "open" /\ tools' = tools + 1
    /\ mishaps' = IF Driven(servo) THEN MaxHits ELSE 0
    /\ believed' = 0 /\ written' = 0 /\ unsure' = FALSE
    /\ UNCHANGED <<toolRegisters, idVars, nodeVars>>

ToolGoing(stage) == toolAt' = stage /\ UNCHANGED <<tool, tools>>

\* A mishap while the tool ends.
ToolMishap == mishaps' = IF mishaps < MaxHits THEN mishaps + 1 ELSE mishaps

ToolOpens(ok) ==
    /\ toolAt = "open"
    /\ ToolGoing(IF ~ok THEN "disconnect" ELSE
                 CASE Program \in Configurers -> "torque_off"
                   [] Program = "set_id" -> "ping"
                   [] OTHER -> "work")
    /\ UNCHANGED <<toolRegisters, motionVars, idVars, mishaps, nodeVars>>

\* The steps of _configure_actuator for an ad-hoc configuration, which has no gains; the
\* first that fails disconnects.
ToolConfigures(stage, next, answer) ==
    /\ toolAt = stage
    /\ ToolGoing(IF answer = "ok" THEN next ELSE "disconnect")
    /\ UNCHANGED <<believed, idVars, nodeVars>>

ToolDisablesTorque(answer) ==
    /\ ToolConfigures("torque_off", "mode", answer)
    /\ torque' = IF Applied(answer) THEN [torque EXCEPT ![S] = FALSE] ELSE torque
    /\ UNCHANGED <<opmode, goal, written, unsure, mishaps>>

\* spin wants velocity control, the others position control, whatever the robot wants.
ToolSetsMode(answer) ==
    /\ ToolConfigures("mode", "stage", answer)
    /\ opmode' = IF Applied(answer) THEN [opmode EXCEPT ![S] = (Program = "spin") <=> (S \in Wheels)] ELSE opmode
    /\ UNCHANGED <<torque, goal, written, unsure, mishaps>>

ToolStagesGoal(answer) ==
    /\ ToolConfigures("stage", "torque_on", answer)
    /\ goal' = IF Applied(answer) THEN [goal EXCEPT ![S] = "safe"] ELSE goal
    /\ written' = 0
    /\ UNCHANGED <<torque, opmode, unsure, mishaps>>

ToolEnablesTorque(answer) ==
    /\ ToolConfigures("torque_on", IF Program = "zero" THEN "work" ELSE "ping", answer)
    /\ torque' = IF Applied(answer) THEN [torque EXCEPT ![S] = TRUE] ELSE torque
    /\ mishaps' = IF answer = "ok" THEN 0 ELSE mishaps
    /\ UNCHANGED <<opmode, goal, written, unsure>>

\* ping, which takes a lost answer for an absent servo; jog also reads the position.
ToolPings(ok) ==
    /\ toolAt = "ping"
    /\ ToolGoing(IF ~ok THEN "disconnect" ELSE
                 CASE Program = "set_id" -> "probe" [] Program = "spin" -> "start" [] OTHER -> "work")
    /\ UNCHANGED <<toolRegisters, motionVars, idVars, mishaps, nodeVars>>

-----------------------------------------------------------------------------
(* jog and spin: the keys, on the listener's thread.                       *)

\* write_position and write_velocity: the register, and what the tool learns of it.
ToolWrites(raw, motion, answer) ==
    /\ goal' = IF Applied(answer) THEN [goal EXCEPT ![S] = motion] ELSE goal
    /\ written' = IF Applied(answer) THEN raw ELSE written
    /\ unsure' = (unsure \/ answer # "ok")

\* Mutant: the position advances although the write failed.
JogAnyway(direction, answer) ==
    LET target == get_jog_target(believed, direction)
    IN  /\ Program = "jog" /\ target \in (-(Span + MaxJogs))..(Span + MaxJogs)
        /\ ToolWrites(angle_to_position(target), "commanded", answer)
        /\ believed' = target

\* on_press of jog: the position advances with the write.
Jog(direction, answer) ==
    LET target == get_jog_target(believed, direction)
    IN  /\ Program = "jog" /\ target \in (-(Span + MaxJogs))..(Span + MaxJogs)
        /\ ToolWrites(angle_to_position(target), "commanded", answer)
        /\ believed' = IF answer = "ok" THEN target ELSE believed

\* send: the velocity is the tool's before it is the servo's.
Send(velocity, answer) ==
    /\ ToolWrites(RawSpeed(velocity), IF velocity = 0 THEN "safe" ELSE "commanded", answer)
    /\ believed' = velocity

\* spin stops a servo before it takes keys.
SpinStarts(answer) ==
    /\ toolAt = "start"
    /\ Send(0, answer)
    /\ ToolGoing(IF answer = "ok" THEN "work" ELSE "disconnect")
    /\ UNCHANGED <<torque, opmode, idVars, mishaps, nodeVars>>

\* The up, down and space keys.
SpinKeys ==
    {IF believed < MaxSpeed THEN believed + 1 ELSE MaxSpeed,
     IF believed > -MaxSpeed THEN believed - 1 ELSE -MaxSpeed,
     0}

Spin(answer) == Program = "spin" /\ \E velocity \in SpinKeys : Send(velocity, answer)

\* An exception of the callback is logged, and the listener goes on; a callback that was
\* under way when the main thread was interrupted may still write.
Press(answer) ==
    /\ toolAt \in {"work", "interrupted"}
    /\ \/ \E direction \in {"left", "right"} : Jog(direction, answer)
       \/ Spin(answer)
    /\ UNCHANGED <<torque, opmode, tool, toolAt, idVars, mishaps, tools, nodeVars>>

\* Mutant: a quit that could not stop the servo ends the tool.
QuitUnheard(answer) ==
    /\ toolAt = "work" /\ Program \in {"jog", "spin"}
    /\ IF Program = "spin" THEN Send(0, answer) ELSE answer = "ok" /\ UNCHANGED <<goal, motionVars>>
    /\ ToolGoing("disconnect")
    /\ UNCHANGED <<torque, opmode, idVars, mishaps, nodeVars>>

\* Escape or q: spin stops its servo first and goes on taking keys if that fails.
Quit(answer) ==
    /\ toolAt = "work" /\ Program \in {"jog", "spin"}
    /\ IF Program = "spin" THEN Send(0, answer) ELSE answer = "ok" /\ UNCHANGED <<goal, motionVars>>
    /\ ToolGoing(IF answer = "ok" THEN "disconnect" ELSE "work")
    /\ UNCHANGED <<torque, opmode, idVars, mishaps, nodeVars>>

-----------------------------------------------------------------------------
(* The configurator's operations.                                          *)

\* set_middle_position moves the zero under a goal that stays.
SetZero(answer) ==
    /\ toolAt = "work" /\ Program = "zero"
    /\ goal' = IF Applied(answer) THEN [goal EXCEPT ![S] = "stale"] ELSE goal
    /\ ToolGoing("disconnect")
    /\ UNCHANGED <<torque, opmode, motionVars, idVars, mishaps, nodeVars>>

\* scan probes every ID, read_gains reads three registers: the servos stay as they are.
Scan ==
    /\ toolAt = "work" /\ Program = "scan"
    /\ ToolGoing("disconnect")
    /\ UNCHANGED <<toolRegisters, motionVars, idVars, mishaps, nodeVars>>

ReadServoGains ==
    /\ toolAt = "work" /\ Program = "read_gains"
    /\ ToolGoing("disconnect")
    /\ UNCHANGED <<toolRegisters, motionVars, idVars, mishaps, nodeVars>>

Bus(s) == ServosOf(Controller[s])

\* Mutant: the new ID is not looked for.
ProbeNothing(lost) ==
    /\ toolAt = "probe" /\ ~lost
    /\ ToolGoing("work")
    /\ excused' = (excused \/ \E t \in Bus(S) : stored[t] # wire[t])
    /\ UNCHANGED <<toolRegisters, motionVars, stored, wire, mishaps, nodeVars>>

\* set_id gives up if the new ID answers on the bus.
Probe(lost) ==
    LET taken == \E t \in Bus(S) : wire[t] = tool.new
    IN  /\ toolAt = "probe" /\ (lost => taken)
        /\ ToolGoing(IF taken /\ ~lost THEN "disconnect" ELSE "work")
        /\ excused' = (excused \/ lost \/ \E t \in Bus(S) : stored[t] # wire[t])
        /\ UNCHANGED <<toolRegisters, motionVars, stored, wire, mishaps, nodeVars>>

\* set_actuator_id: the EEPROM has the new ID, the servo answers to the old one.
SetId(answer) ==
    /\ toolAt = "work" /\ Program = "set_id"
    /\ stored' = IF Applied(answer) THEN [stored EXCEPT ![S] = tool.new] ELSE stored
    /\ ToolGoing("disconnect")
    /\ UNCHANGED <<toolRegisters, motionVars, wire, excused, mishaps, nodeVars>>

-----------------------------------------------------------------------------
(* How a tool ends.                                                        *)

\* The node, too, is not to blame for a wheel that it finds turning.
ToolEnds ==
    /\ toolAt' = "none" /\ tool' = None
    /\ believed' = 0 /\ written' = 0 /\ unsure' = FALSE
    /\ hits' = [s \in Wheels |-> IF torque'[s] /\ goal[s] # "safe" THEN MaxHits ELSE 0]
    /\ UNCHANGED <<opmode, goal, idVars, tools, restVars>>

\* The SDK disables the torque of the servo, unless it is stuck; a scan has none.
ToolDisconnects(stuck) ==
    /\ toolAt \in {"interrupted", "disconnect"}
    /\ torque' = IF stuck \/ Program = "scan" THEN torque ELSE [torque EXCEPT ![S] = FALSE]
    /\ IF stuck THEN ToolMishap ELSE UNCHANGED mishaps
    /\ ToolEnds

\* SIGINT: connect() only catches Exception; later, the tool disconnects; then, no more.
ToolInterrupted ==
    /\ tool # None
    /\ ToolMishap
    /\ IF toolAt \in {"ping", "probe", "start", "work"}
       THEN /\ ToolGoing(IF toolAt = "work" THEN "interrupted" ELSE "disconnect")
            /\ UNCHANGED <<toolRegisters, motionVars, idVars, nodeVars>>
       ELSE UNCHANGED torque /\ ToolEnds

ToolKilled ==
    /\ tool # None
    /\ mishaps' = MaxHits
    /\ UNCHANGED torque /\ ToolEnds

\* The operator powers the servos off and on.
PowerCycle ==
    /\ NodeNotStarted /\ tool = None /\ tools \in 1..(MaxTools - 1)
    /\ wire' = stored
    /\ torque' = [s \in Servos |-> FALSE]
    /\ goal' = [s \in Servos |-> "stale"]
    /\ mishaps' = 0 /\ hits' = [s \in Wheels |-> 0]
    /\ UNCHANGED <<opmode, tool, toolAt, motionVars, stored, excused, tools, restVars>>

ToolStep ==
    \/ \E ok \in BOOLEAN : ToolOpens(ok) \/ ToolPings(ok)
    \/ \E answer \in {"ok", "refused", "unanswered"} :
          \/ ToolDisablesTorque(answer) \/ ToolSetsMode(answer) \/ ToolStagesGoal(answer)
          \/ ToolEnablesTorque(answer) \/ SpinStarts(answer) \/ Press(answer) \/ Quit(answer)
          \/ SetZero(answer) \/ SetId(answer)
    \/ Scan
    \/ ReadServoGains
    \/ \E fault \in BOOLEAN : Probe(fault) \/ ToolDisconnects(fault)
    \/ ToolInterrupted
    \/ ToolKilled

\* The node is started once no tool runs, on servos that have kept their IDs.
OnMaintained(NodeAction) ==
    /\ tool = None /\ \A s \in Servos : stored[s] = s /\ wire[s] = s
    /\ NodeAction
    /\ tools' = MaxTools /\ mishaps' = 0 /\ excused' = FALSE
    /\ UNCHANGED <<tool, toolAt, motionVars, stored, wire>>

MaintenanceNext ==
    \/ \E program \in Programs, servo \in Maintained, new \in Ids : StartTool(program, servo, new)
    \/ ToolStep
    \/ PowerCycle
    \/ OnMaintained(Next)

MaintenanceSpec == ToolInit /\ [][MaintenanceNext]_allVars

\* As in RobotDriver: the node's loop goes on, and so does the clock.
FairMaintenanceSpec == MaintenanceSpec /\ WF_allVars(OnMaintained(NodeStep)) /\ WF_allVars(OnMaintained(Tick))

-----------------------------------------------------------------------------
(* What holds.                                                             *)

\* Torque is only ever switched on over a goal that does not move the servo, whatever an
\* earlier process or tool left in its registers; by the node, only in the configured mode,
\* with the configured gains, and with the EEPROM locked unless a process was killed before
\* it could.
TorqueOnlyWhenSafe ==
    [][\A s \in Servos : (~torque[s] /\ torque'[s]) =>
         /\ goal[s] = "safe"
         /\ (tool = None => PoweredAsConfigured(s))]_allVars

\* However spin ends, no single mishap on the way (an interrupt, a torque that cannot be
\* switched off) leaves its servo driving on: it only quits once the servo has acknowledged
\* that it stands, and whatever else ends it takes the torque.
SpinLeavesNoMotion ==
    [][(tool # None /\ tool' = None /\ Program = "spin") =>
         mishaps' = MaxHits \/ ~torque'[S] \/ goal'[S] = "safe"]_allVars

\* spin turns its servo the way its operator asked for and never faster, also at the end of
\* the register's range, unless an answer was lost on the way.
SpinTurnsAsAsked ==
    (toolAt = "work" /\ Program = "spin" /\ ~unsure) =>
        /\ SpeedOf(written) * believed >= 0
        /\ (SpeedOf(written) = 0) <=> (believed = 0)
        /\ SpeedOf(written) \in (-MaxSpeed)..MaxSpeed

\* A key moves the goal of a jogged servo by one step at most; by two once the answer to a
\* write was lost, and never by more, however often that happens and also when the operator
\* turns back from beyond the end of the range.
JogNeverLeaps ==
    [][(toolAt = "work" /\ toolAt' = "work" /\ Program = "jog") =>
         written' - written \in (IF unsure THEN -2..2 ELSE -1..1)]_allVars

\* However often servos of a bus are renamed, no two of them have the same ID, provided that
\* every rename was followed by a power cycle and every servo answered to its probe.
IdsStayDistinct ==
    excused \/ \A s, t \in Servos : (s # t /\ Controller[s] = Controller[t]) => stored[s] # stored[t]

\* A tool does to a servo what its operator asked for and nothing else: not faster, not further,
\* not for longer, and not to another servo.
ToolsDoAsAsked == []SpinTurnsAsAsked /\ []IdsStayDistinct /\ SpinLeavesNoMotion /\ JogNeverLeaps

=============================================================================

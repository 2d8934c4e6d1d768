--------------------------- MODULE OrchestratorNode ---------------------------
(***************************************************************************)
(* The orchestrator node (nodes/orchestrator.py).  Every tick it broadcasts *)
(* its mode, drains the events it received, and passes over the per-source  *)
(* command topics: a command of the source the mode selects is forwarded to *)
(* the robot, any other is discarded.  Its Subscriber keeps one message per *)
(* topic and overwrites it, from the LCM thread, at any point of the tick.  *)
(***************************************************************************)
EXTENDS Naturals

CONSTANTS
    Published,      \* the source topics somebody publishes on; the others stay empty
    Commands,       \* the commands a source publishes
    Followers,      \* the nodes subscribed to ORCHESTRATOR_MODE
    Kinds,          \* the event kinds the operator side publishes
    Lossy,          \* whether the transport may lose a message
    None            \* an empty queue, no command, no mode

Modes == {"IDLE", "HOMING", "OCULUS", "KEYBOARD", "SYSTEM"}

NamedModes == Modes \ {"HOMING"}

\* For each mode, the per-source -> final topic forwards that are active.
MODE_FORWARDS ==
    [IDLE     |-> {},
     HOMING   |-> {<<"HOMING_JOINT", "ROBOT_JOINT">>},
     OCULUS   |-> {<<"OCULUS_TOOL", "ROBOT_TOOL">>, <<"OCULUS_BASE", "ROBOT_BASE">>,
                   <<"CONTROLLER_JOINT", "ROBOT_JOINT">>},
     KEYBOARD |-> {<<"KEYBOARD_TOOL", "ROBOT_TOOL">>, <<"KEYBOARD_BASE", "ROBOT_BASE">>,
                   <<"CONTROLLER_JOINT", "ROBOT_JOINT">>},
     SYSTEM   |-> {<<"SYSTEM_TOOL", "ROBOT_TOOL">>, <<"CONTROLLER_JOINT", "ROBOT_JOINT">>}]

SourceTopics == {forward[1] : forward \in UNION {MODE_FORWARDS[m] : m \in Modes}}
FinalTopics == {"ROBOT_JOINT", "ROBOT_TOOL", "ROBOT_BASE"}

\* The source topics that mode m forwards.
Active(m) == {forward[1] : forward \in MODE_FORWARDS[m]}

RETURNABLE_MODES == {"OCULUS", "KEYBOARD"}

\* EventKind, a request for a named mode standing for the four of its kind.
LoggingEvents == {"START_LOGGING", "STOP_LOGGING"}
EventKinds == NamedModes \cup {"REQUEST_HOMING", "COMPLETE"} \cup LoggingEvents

ASSUME TopicsAssumption == Published \subseteq SourceTopics /\ Kinds \subseteq EventKinds

ASSUME NoneAssumption == None \notin Modes \cup EventKinds \cup Commands

ASSUME LossyAssumption == Lossy \in BOOLEAN

VARIABLES
    mode,       \* OrchestratorNode.mode
    returnMode, \* OrchestratorNode.return_mode
    phase,      \* where in step() the node is
    todo,       \* the source topics this tick's pass has still to visit
    event,      \* the queue of ORCHESTRATOR_EVENT
    source,     \* the queue of each source topic
    modeQueue,  \* the queue of ORCHESTRATOR_MODE in each follower
    robot,      \* the last command forwarded on each final topic
    chosen,     \* history: the mode last requested by name (HOMING and COMPLETE aside)
    ticks,      \* history: how many ticks ended since the queued command arrived
    inactive    \* history: the topics whose queued command arrived while they were inactive

nodeVars == <<mode, returnMode, phase, todo>>
queueVars == <<event, source, modeQueue, robot>>
historyVars == <<chosen, ticks, inactive>>
vars == <<nodeVars, queueVars, historyVars>>

TypeOK ==
    /\ mode \in Modes
    /\ returnMode \in RETURNABLE_MODES \cup {None}
    /\ phase \in {"broadcast", "drain", "forward"}
    /\ todo \subseteq Published
    /\ event \in EventKinds \cup {None}
    /\ source \in [Published -> Commands \cup {None}]
    /\ modeQueue \in [Followers -> Modes \cup {None}]
    /\ robot \in [FinalTopics -> Commands \cup {None}]
    /\ chosen \in Modes
    /\ ticks \in [Published -> 0 .. 2]
    /\ inactive \subseteq Published

\* The command line selects the initial mode.
Init ==
    /\ mode \in Modes
    /\ returnMode = None
    /\ phase = "broadcast"
    /\ todo = {}
    /\ event = None
    /\ source = [t \in Published |-> None]
    /\ modeQueue = [f \in Followers |-> None]
    /\ robot = [t \in FinalTopics |-> None]
    /\ chosen = mode
    /\ ticks = [t \in Published |-> 0]
    /\ inactive = {}

-----------------------------------------------------------------------------
(* The transport.  A message that is not lost replaces the one waiting.    *)

PublishEvent(kind) ==
    \/ event' = kind
    \/ Lossy /\ event' = event

PublishCommand(t, command) ==
    \/ /\ source' = [source EXCEPT ![t] = command]
       /\ ticks' = [ticks EXCEPT ![t] = 0]
       /\ inactive' = IF t \in Active(mode) THEN inactive \ {t} ELSE inactive \cup {t}
    \/ Lossy /\ UNCHANGED <<source, ticks, inactive>>

-----------------------------------------------------------------------------
(* One tick.                                                               *)

Broadcast ==
    /\ phase = "broadcast"
    /\ \E lost \in SUBSET Followers :
          /\ lost # {} => Lossy
          /\ modeQueue' = [f \in Followers |-> IF f \in lost THEN modeQueue[f] ELSE mode]
    /\ phase' = "drain"
    /\ UNCHANGED <<mode, returnMode, todo, event, source, robot, historyVars>>

\* The event leaves the queue and the drain loop goes round again.
ReceiveEvent(kind) ==
    /\ phase = "drain"
    /\ event = kind
    /\ event' = None
    /\ UNCHANGED <<phase, todo, source, modeQueue, robot, ticks, inactive>>

HandleRequestHoming ==
    /\ ReceiveEvent("REQUEST_HOMING")
    /\ returnMode' = IF mode \in RETURNABLE_MODES THEN mode ELSE returnMode
    /\ mode' = "HOMING"
    /\ UNCHANGED chosen

\* Mutant: the slot is only cleared by COMPLETE.
HandleRequestKeepingReturnMode(m) ==
    /\ ReceiveEvent(m)
    /\ mode' = m
    /\ chosen' = m
    /\ UNCHANGED returnMode

HandleRequest(m) ==
    /\ ReceiveEvent(m)
    /\ returnMode' = None
    /\ mode' = m
    /\ chosen' = m

\* Mutant: an empty slot is itself taken for a mode.
HandleCompleteWithoutDefault ==
    /\ ReceiveEvent("COMPLETE")
    /\ mode' = returnMode
    /\ returnMode' = None
    /\ UNCHANGED chosen

\* Mutant: without a saved mode COMPLETE is ignored.
HandleCompleteToSavedMode ==
    /\ ReceiveEvent("COMPLETE")
    /\ mode' = IF returnMode = None THEN mode ELSE returnMode
    /\ returnMode' = None
    /\ UNCHANGED chosen

HandleComplete ==
    /\ ReceiveEvent("COMPLETE")
    /\ mode' = IF returnMode = None THEN "IDLE" ELSE returnMode
    /\ returnMode' = None
    /\ UNCHANGED chosen

HandleLogging(kind) == ReceiveEvent(kind) /\ UNCHANGED <<mode, returnMode, chosen>>

\* receive() found the event queue empty: the pass over the sources begins.
EndDrain ==
    /\ phase = "drain"
    /\ event = None
    /\ phase' = "forward"
    /\ todo' = Published
    /\ UNCHANGED <<mode, returnMode, queueVars, historyVars>>

\* Mutant: an inactive source is skipped, its queue is not emptied.
ReceiveActiveCommand(t) ==
    source' = IF t \in Active(mode) THEN [source EXCEPT ![t] = None] ELSE source

ReceiveCommand(t) == source' = [source EXCEPT ![t] = None]

\* One turn of the loop over _source_topics.  Its order is fixed (by name); a turn
\* touches its own topic only, so any order is allowed here.
ForwardSource(t) ==
    /\ phase = "forward"
    /\ t \in todo
    /\ todo' = todo \ {t}
    /\ ReceiveCommand(t)
    /\ robot' = [dest \in FinalTopics |->
           IF source[t] # None /\ <<t, dest>> \in MODE_FORWARDS[mode] THEN source[t] ELSE robot[dest]]
    /\ ticks' = [ticks EXCEPT ![t] = IF source'[t] = None THEN 0 ELSE @]
    /\ inactive' = IF source'[t] = None THEN inactive \ {t} ELSE inactive
    /\ UNCHANGED <<mode, returnMode, phase, event, modeQueue, chosen>>

EndTick ==
    /\ phase = "forward"
    /\ todo = {}
    /\ phase' = "broadcast"
    /\ ticks' = [t \in Published |->
           IF source[t] # None /\ ticks[t] < 2 THEN ticks[t] + 1 ELSE ticks[t]]
    /\ UNCHANGED <<mode, returnMode, todo, queueVars, chosen, inactive>>

Tick ==
    \/ Broadcast
    \/ HandleRequestHoming
    \/ \E m \in NamedModes : HandleRequest(m)
    \/ HandleComplete
    \/ \E kind \in LoggingEvents : HandleLogging(kind)
    \/ EndDrain
    \/ \E t \in Published : ForwardSource(t)
    \/ EndTick

-----------------------------------------------------------------------------
(* The environment of the node alone: anybody publishes anything any time. *)

SomebodyPublishesEvent(kind) ==
    /\ PublishEvent(kind)
    /\ UNCHANGED <<nodeVars, source, modeQueue, robot, historyVars>>

SomebodyPublishesCommand(t, command) ==
    /\ PublishCommand(t, command)
    /\ UNCHANGED <<nodeVars, event, modeQueue, robot, chosen>>

Next ==
    \/ Tick
    \/ \E kind \in Kinds : SomebodyPublishesEvent(kind)
    \/ \E t \in Published, command \in Commands : SomebodyPublishesCommand(t, command)

Spec == Init /\ [][Next]_vars

-----------------------------------------------------------------------------
\* A teleoperation source drives the robot only if its mode is the last one the
\* operator asked for by name: a COMPLETE, on time, late or repeated, returns to a
\* teleop mode only where homing was requested from it and nothing else was since.
TeleopOnlyAsChosen == mode \in RETURNABLE_MODES => mode = chosen

\* "Where to return after HOMING completes. None outside of HOMING." (comment on
\* return_mode), and what it holds is the mode the operator last chose.
ReturnModeOnlyInHoming == returnMode # None => mode = "HOMING" /\ returnMode = chosen

\* Homing returns to where the operator wants to be: of what was chosen, the mode holds all outside
\* of homing and the return slot all within (_handle_event).
ModesAsChosen == TeleopOnlyAsChosen /\ ReturnModeOnlyInHoming

\* Draining the inactive sources as well keeps every queue fresh: no command waits
\* for more than one whole tick, so what can leak through a change of mode is at
\* most one tick old.
QueuesStayFresh == \A t \in Published : source[t] # None => ticks[t] <= 1

\* "Inactive source - discard so its queue doesn't keep stale messages that would
\* leak through on mode change" (comment in step): a command that arrived while
\* its source was inactive is never forwarded.
NoLeakOnModeChange ==
    [][\A t \in Published : ForwardSource(t) /\ source[t] # None /\ t \in Active(mode)
                               => t \notin inactive]_vars

\* The tick, the queues and the losses amount to an arbiter that changes one mode at a
\* time, by a request or a completion, and that knows where homing came from.
Arbiter == INSTANCE ModeArbiter WITH mode <- mode, returnMode <- returnMode, None <- None

ArbitratesModes == Arbiter!ArbiterSpec

=============================================================================

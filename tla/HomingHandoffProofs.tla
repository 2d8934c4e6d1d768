-------------------------- MODULE HomingHandoffProofs --------------------------
(***************************************************************************)
(* Proofs about homing end to end, for any number of targets, any length of   *)
(* a trajectory and a transport with or without losses: what the homing node  *)
(* announces it has driven to, and what the orchestrator node keeps however   *)
(* completions and requests interleave.                                       *)
(***************************************************************************)
EXTENDS HomingHandoff, TLAPS

-----------------------------------------------------------------------------
(* The orchestrator node, for any source topics, commands and followers.    *)

\* The mode a COMPLETE returns to is never a stale choice of the operator's.
ReturnInv == TypeOK /\ TeleopOnlyAsChosen /\ ReturnModeOnlyInHoming

\* QueuesStayFresh is not inductive: a pass must leave nothing from before it.
FreshInv ==
    /\ TypeOK
    /\ QueuesStayFresh
    /\ \A t \in Published :
          phase = "forward" /\ t \notin todo /\ source[t] # None => ticks[t] = 0

-----------------------------------------------------------------------------
LEMMA InitType == Init => TypeOK
  BY NoneAssumption DEF Init, TypeOK, Modes

\* Every action of the tick and of the environment keeps the state well typed.
LEMMA NextType == TypeOK /\ [Next]_vars => TypeOK'
<1> SUFFICES ASSUME TypeOK, [Next]_vars PROVE TypeOK'
  OBVIOUS
<1> USE TopicsAssumption, NoneAssumption, LossyAssumption DEF TypeOK, historyVars
<1>1. CASE Broadcast
  BY <1>1 DEF Broadcast
<1>2. CASE HandleRequestHoming
  BY <1>2 DEF HandleRequestHoming, ReceiveEvent, Modes
<1>3. ASSUME NEW m \in NamedModes, HandleRequest(m) PROVE TypeOK'
  BY <1>3 DEF HandleRequest, ReceiveEvent, NamedModes
<1>4. CASE HandleComplete
  BY <1>4 DEF HandleComplete, ReceiveEvent, Modes, RETURNABLE_MODES
<1>5. ASSUME NEW kind \in LoggingEvents, HandleLogging(kind) PROVE TypeOK'
  BY <1>5 DEF HandleLogging, ReceiveEvent
<1>6. CASE EndDrain
  BY <1>6 DEF EndDrain, queueVars
<1>7. ASSUME NEW t \in Published, ForwardSource(t) PROVE TypeOK'
  BY <1>7 DEF ForwardSource, ReceiveCommand
<1>8. CASE EndTick
  BY <1>8 DEF EndTick, queueVars
<1>9. ASSUME NEW kind \in Kinds, SomebodyPublishesEvent(kind) PROVE TypeOK'
  BY <1>9 DEF SomebodyPublishesEvent, PublishEvent, nodeVars
<1>10. ASSUME NEW t \in Published, NEW command \in Commands, SomebodyPublishesCommand(t, command)
       PROVE TypeOK'
  BY <1>10 DEF SomebodyPublishesCommand, PublishCommand, nodeVars
<1>11. CASE UNCHANGED vars
  BY <1>11 DEF vars, nodeVars, queueVars
<1>12. QED
  BY <1>1, <1>2, <1>3, <1>4, <1>5, <1>6, <1>7, <1>8, <1>9, <1>10, <1>11 DEF Next, Tick

\* Every reachable state of the node is well typed.
THEOREM TypeCorrect == Spec => []TypeOK
  BY InitType, NextType, PTL DEF Spec

-----------------------------------------------------------------------------
LEMMA InitReturn == Init => ReturnInv
  BY InitType DEF Init, ReturnInv, TeleopOnlyAsChosen, ReturnModeOnlyInHoming

\* Only the events that move the mode can disturb the invariant.
LEMMA NextReturn == ReturnInv /\ [Next]_vars => ReturnInv'
<1> SUFFICES ASSUME ReturnInv, [Next]_vars PROVE ReturnInv'
  OBVIOUS
<1>1. TypeOK /\ TypeOK'
  BY NextType DEF ReturnInv
<1>2. CASE HandleRequestHoming
  <2>1. mode' = "HOMING" /\ UNCHANGED chosen
    BY <1>2 DEF HandleRequestHoming
  <2>2. CASE mode \in RETURNABLE_MODES
    BY <1>1, <1>2, <2>1, <2>2 DEF HandleRequestHoming, ReturnInv, TeleopOnlyAsChosen,
       ReturnModeOnlyInHoming, RETURNABLE_MODES
  <2>3. CASE mode \notin RETURNABLE_MODES
    BY <1>1, <1>2, <2>1, <2>3 DEF HandleRequestHoming, ReturnInv, TeleopOnlyAsChosen,
       ReturnModeOnlyInHoming, RETURNABLE_MODES
  <2>4. QED
    BY <2>2, <2>3
<1>3. ASSUME NEW m \in NamedModes, HandleRequest(m) PROVE ReturnInv'
  BY <1>1, <1>3 DEF HandleRequest, ReturnInv, TeleopOnlyAsChosen, ReturnModeOnlyInHoming
<1>4. CASE HandleComplete
  BY <1>1, <1>4 DEF HandleComplete, ReturnInv, TeleopOnlyAsChosen, ReturnModeOnlyInHoming,
     RETURNABLE_MODES
<1>5. CASE UNCHANGED <<mode, returnMode, chosen>>
  BY <1>1, <1>5 DEF ReturnInv, TeleopOnlyAsChosen, ReturnModeOnlyInHoming
<1>6. QED
  BY <1>2, <1>3, <1>4, <1>5 DEF Next, Tick, Broadcast, HandleLogging, EndDrain, ForwardSource, EndTick,
     SomebodyPublishesEvent, SomebodyPublishesCommand, vars, nodeVars, historyVars

\* A teleoperation mode is always the one the operator last asked for by name: no completion, late
\* or repeated, brings back a mode the operator has left, and the return slot holds that choice
\* and is empty outside of HOMING.
THEOREM ModesHold == Spec => []ModesAsChosen
<1>1. ReturnInv => ModesAsChosen
  BY DEF ReturnInv, ModesAsChosen
<1>2. QED
  BY InitReturn, NextReturn, <1>1, PTL DEF Spec

-----------------------------------------------------------------------------
LEMMA InitFresh == Init => FreshInv
  BY InitType DEF Init, FreshInv, QueuesStayFresh

\* A command arrives with age 0; only the end of a tick makes it older, and by then
\* the pass has emptied every queue that held an older one.
LEMMA NextFresh == FreshInv /\ [Next]_vars => FreshInv'
<1> SUFFICES ASSUME FreshInv, [Next]_vars PROVE FreshInv'
  OBVIOUS
<1>1. TypeOK /\ TypeOK'
  BY NextType DEF FreshInv
<1>2. CASE UNCHANGED <<phase, todo, source, ticks>>
  BY <1>1, <1>2 DEF FreshInv, QueuesStayFresh
<1>3. CASE Broadcast
  BY <1>1, <1>3 DEF Broadcast, FreshInv, QueuesStayFresh, historyVars
<1>4. CASE EndDrain
  BY <1>1, <1>4 DEF EndDrain, FreshInv, QueuesStayFresh, historyVars, queueVars
<1>5. ASSUME NEW t \in Published, ForwardSource(t) PROVE FreshInv'
  <2>1. /\ source' = [source EXCEPT ![t] = None]
        /\ ticks' = [ticks EXCEPT ![t] = IF source'[t] = None THEN 0 ELSE ticks[t]]
        /\ todo' = todo \ {t} /\ phase' = phase
    BY <1>5 DEF ForwardSource, ReceiveCommand
  <2>2. QED
    <3>1. source'[t] = None
      BY <2>1 DEF FreshInv, TypeOK
    <3>2. \A u \in Published : u # t => source'[u] = source[u] /\ ticks'[u] = ticks[u]
      BY <2>1 DEF FreshInv, TypeOK
    <3>3. QED
      BY <1>1, <2>1, <3>1, <3>2 DEF FreshInv, QueuesStayFresh
<1>6. CASE EndTick
  <2>1. /\ phase = "forward" /\ todo = {} /\ phase' = "broadcast" /\ source' = source
        /\ ticks' = [t \in Published |->
               IF source[t] # None /\ ticks[t] < 2 THEN ticks[t] + 1 ELSE ticks[t]]
    BY <1>6 DEF EndTick, queueVars
  <2>2. \A t \in Published : source[t] # None => ticks[t] = 0
    BY <2>1 DEF FreshInv
  <2>3. QED
    BY <1>1, <2>1, <2>2 DEF FreshInv, QueuesStayFresh
<1>7. ASSUME NEW t \in Published, NEW command \in Commands, SomebodyPublishesCommand(t, command)
      PROVE FreshInv'
  <2>1. UNCHANGED <<phase, todo>>
    BY <1>7 DEF SomebodyPublishesCommand, nodeVars
  <2>2. CASE source' = [source EXCEPT ![t] = command] /\ ticks' = [ticks EXCEPT ![t] = 0]
    BY <1>1, <2>1, <2>2 DEF FreshInv, QueuesStayFresh, TypeOK
  <2>3. CASE UNCHANGED <<source, ticks>>
    BY <1>2, <2>1, <2>3
  <2>4. QED
    BY <1>7, <2>2, <2>3 DEF SomebodyPublishesCommand, PublishCommand
<1>8. QED
  BY <1>2, <1>3, <1>4, <1>5, <1>6, <1>7 DEF Next, Tick, HandleRequestHoming, HandleRequest, HandleComplete,
     HandleLogging, ReceiveEvent, SomebodyPublishesEvent, vars, nodeVars, queueVars, historyVars

\* No queue ever holds a command older than one whole tick.
THEOREM FreshQueues == Spec => []QueuesStayFresh
<1>1. FreshInv => QueuesStayFresh
  BY DEF FreshInv
<1>2. QED
  BY InitFresh, NextFresh, <1>1, PTL DEF Spec

-----------------------------------------------------------------------------
LEMMA InitArbiter == Init => Arbiter!ArbiterInit
  BY DEF Init, Arbiter!ArbiterInit, Arbiter!Modes, Modes

\* Each event that moves the mode is a step of the arbiter; everything else that the
\* node or the transport does leaves its state alone.
LEMMA NextArbiter == [Next]_vars => [Arbiter!ArbiterNext]_(Arbiter!arbiterVars)
<1> SUFFICES ASSUME [Next]_vars PROVE [Arbiter!ArbiterNext]_(Arbiter!arbiterVars)
  OBVIOUS
<1>1. CASE HandleRequestHoming
  BY <1>1 DEF HandleRequestHoming, Arbiter!ArbiterNext, Arbiter!RequestHoming,
     Arbiter!RETURNABLE_MODES, RETURNABLE_MODES
<1>2. ASSUME NEW m \in NamedModes, HandleRequest(m)
      PROVE Arbiter!ArbiterNext
  BY <1>2 DEF HandleRequest, Arbiter!ArbiterNext, Arbiter!RequestMode, Arbiter!NamedModes,
     Arbiter!Modes, NamedModes, Modes
<1>3. CASE HandleComplete
  BY <1>3 DEF HandleComplete, Arbiter!ArbiterNext, Arbiter!CompleteHoming
<1>4. CASE UNCHANGED <<mode, returnMode>>
  BY <1>4 DEF Arbiter!arbiterVars
<1>5. QED
  BY <1>1, <1>2, <1>3, <1>4 DEF Next, Tick, Broadcast, HandleLogging, EndDrain, ForwardSource, EndTick,
     SomebodyPublishesEvent, SomebodyPublishesCommand, vars, nodeVars

\* The node implements the arbiter: what is built on the arbiter's promises, and takes
\* no notice of ticks, queues and losses, holds of the node as well.
THEOREM ImplementsArbiter == Spec => ArbitratesModes
<1>1. Init => Arbiter!ArbiterInit
  BY InitArbiter
<1>2. [Next]_vars => [Arbiter!ArbiterNext]_(Arbiter!arbiterVars)
  BY NextArbiter
<1>3. QED
  BY <1>1, <1>2, PTL DEF Spec, ArbitratesModes, Arbiter!ArbiterSpec

-----------------------------------------------------------------------------
(* Homing.                                                                 *)

\* A trajectory under way leads to the target the policy has, and its last point has been
\* published as it was generated.
TrajectoryLeadsToTarget ==
    step # 0 => /\ target \in Targets /\ goal = target
                /\ sent = [goal |-> target, step |-> step]

\* Targets are numbered as they are requested: they arrive in that order, and one that is not yet
\* completed is later than all that were announced.
WireInOrder ==
    /\ \A i \in DOMAIN wire : wire[i] <= requested
    /\ \A i, j \in DOMAIN wire : i < j => wire[i] < wire[j]

TargetsInOrder ==
    /\ targetQueue # None => targetQueue <= requested
    /\ target # None => target <= requested
    /\ targetQueue # None => \A i \in DOMAIN wire : targetQueue < wire[i]
    /\ target # None => \A i \in DOMAIN wire : target < wire[i]
    /\ target # None /\ targetQueue # None => target < targetQueue

AnnouncedInOrder ==
    /\ \A t \in announced : target # None /\ t <= target
    /\ ~completed => target # None /\ target \notin announced

HomingInv == TrajectoryLeadsToTarget /\ WireInOrder /\ TargetsInOrder /\ AnnouncedInOrder

HandoffInv == HandoffTypeOK /\ HomingInv /\ ReturnInv /\ FreshInv

-----------------------------------------------------------------------------
(* What the handoff does to the orchestrator node.                         *)

\* A trajectory is advanced to a point on the way to the target.
LEMMA AdvanceCommands ==
  ASSUME HandoffTypeOK, TrajectoryLeadsToTarget, Advance
  PROVE  /\ target \in Targets /\ goal' = target /\ step' = step + 1 /\ step' \in 1 .. Length
         /\ sent' = [goal |-> target, step |-> step'] /\ sent' \in HomingCommands
         /\ PublishCommand(Joint, sent')
<1>1. /\ target # None /\ step # Length /\ step' = step + 1
      /\ goal' = IF step = 0 THEN target ELSE goal
      /\ sent' = [goal |-> goal', step |-> step'] /\ PublishCommand(Joint, sent')
  BY DEF Advance, IsDone
<1>2. target \in Targets /\ step \in 0 .. Length /\ Length \in Nat
  BY <1>1, BoundsAssumption DEF HandoffTypeOK
<1>3. goal' = target /\ step' \in 1 .. Length
  BY <1>1, <1>2 DEF TrajectoryLeadsToTarget
<1>4. QED
  BY <1>1, <1>2, <1>3 DEF HomingCommands

\* Requests and completions are published, and modes observed, by the homing node and the
\* requester, and touch two queues only.
Signal ==
    /\ UNCHANGED <<mode, returnMode, phase, todo, source, robot, chosen, ticks, inactive>>
    /\ event' \in EventKinds \cup {None}
    /\ modeQueue' \in [Followers -> Modes \cup {None}]

LEMMA NodeOrSignal ==
  ASSUME HandoffInv, HandoffNext
  PROVE  [Next]_vars \/ Signal
<1>1. HandoffTypeOK /\ TypeOK /\ TrajectoryLeadsToTarget
  BY DEF HandoffInv, HomingInv, HandoffTypeOK
<1>2. event \in EventKinds \cup {None} /\ modeQueue \in [Followers -> Modes \cup {None}]
  BY <1>1 DEF TypeOK
<1>3. ASSUME OrchestratorStep
      PROVE  Next
  BY <1>3 DEF OrchestratorStep, Next
<1>4. ASSUME ReceiveTarget \/ PublishTarget \/ DeliverTarget
      PROVE  UNCHANGED vars
  BY <1>4 DEF ReceiveTarget, PublishTarget, DeliverTarget
<1>5. ASSUME Act
      PROVE  [Next]_vars
  <2>1. UNCHANGED <<nodeVars, event, modeQueue, robot, chosen>>
    BY <1>5 DEF Act
  <2>2. CASE Advance
    <3>1. PublishCommand(Joint, sent') /\ Joint \in Published /\ sent' \in Commands
      BY <1>1, <2>2, AdvanceCommands, InstanceAssumption
    <3>2. SomebodyPublishesCommand(Joint, sent')
      BY <2>1, <3>1 DEF SomebodyPublishesCommand
    <3>3. QED
      BY <3>1, <3>2 DEF Next
  <2>3. CASE Rest \/ Reset
    BY <2>1, <2>3 DEF Rest, Reset, vars, queueVars, historyVars
  <2>4. QED
    BY <1>5, <2>2, <2>3 DEF Act
<1>6. ASSUME Observe
      PROVE  Signal
  BY <1>2, <1>6, InstanceAssumption DEF Observe, Signal, nodeVars, historyVars
<1>7. ASSUME Report
      PROVE  Signal
  BY <1>2, <1>7 DEF Report, PublishEvent, EventKinds, Signal, nodeVars, historyVars
<1>8. ASSUME PublishRequestHoming
      PROVE  Signal
  BY <1>2, <1>8 DEF PublishRequestHoming, PublishEvent, EventKinds, Signal, nodeVars, historyVars
<1>9. ASSUME NEW kind \in Kinds, PublishOther(kind)
      PROVE  Next
  BY <1>9 DEF PublishOther, Next
<1>10. QED
  BY <1>3, <1>4, <1>5, <1>6, <1>7, <1>8, <1>9 DEF HandoffNext, HomingStep

LEMMA NodeKeepsInvariants ==
  ASSUME HandoffInv, [HandoffNext]_handoffVars
  PROVE  TypeOK' /\ ReturnInv' /\ FreshInv'
<1>1. [Next]_vars \/ Signal
  BY NodeOrSignal DEF handoffVars
<1>2. CASE [Next]_vars
  BY <1>2, NextReturn, NextFresh DEF HandoffInv, ReturnInv
<1>3. CASE Signal
  <2>1. TypeOK /\ ReturnInv /\ FreshInv
    BY DEF HandoffInv, ReturnInv
  <2>2. TypeOK'
    BY <1>3, <2>1 DEF Signal, TypeOK
  <2>3. QED
    BY <1>3, <2>1, <2>2 DEF Signal, ReturnInv, FreshInv, TeleopOnlyAsChosen, ReturnModeOnlyInHoming,
       QueuesStayFresh
<1>4. QED
  BY <1>1, <1>2, <1>3

-----------------------------------------------------------------------------
(* The types of the requester and the homing node.                         *)

RequesterTyped ==
    /\ requested \in 0 .. MaxTarget
    /\ wire \in Seq(Targets)
    /\ targetQueue \in Targets \cup {None}

PolicyTyped ==
    /\ target \in Targets \cup {None}
    /\ goal \in Targets \cup {None}
    /\ step \in 0 .. Length
    /\ observed \in Modes \cup {None}
    /\ at \in {"receive", "act", "observe", "report"}
    /\ sent \in HomingCommands \cup {None}
    /\ announced \subseteq Targets

HomingFlags == requesting \in BOOLEAN /\ completed \in BOOLEAN

LEMMA HandoffParts ==
  /\ HandoffTypeOK <=> TypeOK /\ RequesterTyped /\ PolicyTyped /\ HomingFlags
  /\ HandoffTypeOK' <=> (TypeOK /\ RequesterTyped /\ PolicyTyped /\ HomingFlags)'
BY Zenon DEF HandoffTypeOK, RequesterTyped, PolicyTyped, HomingFlags

\* A target comes off the wire at its head.
LEMMA Delivery ==
  ASSUME RequesterTyped, DeliverTarget
  PROVE  /\ wire # <<>> /\ wire' = Tail(wire) /\ 1 \in DOMAIN wire /\ wire[1] \in Targets
         /\ targetQueue' = wire[1] \/ targetQueue' = targetQueue
         /\ DOMAIN wire' = 1 .. (Len(wire) - 1) /\ DOMAIN wire = 1 .. Len(wire) /\ Len(wire) \in Nat \ {0}
         /\ \A i \in DOMAIN wire' : i + 1 \in DOMAIN wire /\ wire'[i] = wire[i + 1]
         /\ wire' \in Seq(Targets)
BY DEF DeliverTarget, RequesterTyped

\* A target is requested with the next number.
LEMMA Request ==
  ASSUME RequesterTyped, PublishTarget
  PROVE  /\ requested' = requested + 1 /\ requested' \in Targets
         /\ wire' \in Seq(Targets) /\ DOMAIN wire' = 1 .. (Len(wire) + 1)
         /\ DOMAIN wire = 1 .. Len(wire) /\ Len(wire) \in Nat
         /\ \A i \in DOMAIN wire : wire'[i] = wire[i]
         /\ wire'[Len(wire) + 1] = requested'
<1>1. requested \in Nat /\ requested < MaxTarget /\ MaxTarget \in Nat
  BY BoundsAssumption DEF RequesterTyped, PublishTarget
<1>2. requested + 1 \in Targets
  BY <1>1 DEF Targets
<1>3. wire' = Append(wire, requested + 1) /\ requested' = requested + 1 /\ wire \in Seq(Targets)
  BY DEF PublishTarget, RequesterTyped
<1>4. QED
  BY <1>2, <1>3

LEMMA RequesterType ==
  ASSUME HandoffTypeOK, HandoffNext
  PROVE  RequesterTyped'
<1>1. RequesterTyped
  BY HandoffParts
<1>2. CASE PublishTarget
  BY <1>1, <1>2, Request, BoundsAssumption DEF RequesterTyped, PublishTarget, homingVars, Targets
<1>3. CASE DeliverTarget
  BY <1>1, <1>3, Delivery DEF RequesterTyped, DeliverTarget
<1>4. CASE UNCHANGED <<requested, wire>> /\ targetQueue' \in {targetQueue, None}
  BY <1>1, <1>4 DEF RequesterTyped
<1>5. QED
  BY <1>2, <1>3, <1>4 DEF HandoffNext, OrchestratorStep, HomingStep, ReceiveTarget, Act, Observe, Report,
     PublishRequestHoming, PublishOther, requesterVars, homingVars

LEMMA PolicyType ==
  ASSUME HandoffTypeOK, TrajectoryLeadsToTarget, HandoffNext
  PROVE  PolicyTyped'
<1>1. PolicyTyped /\ RequesterTyped /\ TypeOK /\ Length \in Nat
  BY HandoffParts, BoundsAssumption
<1>2. CASE ReceiveTarget
  BY <1>1, <1>2 DEF ReceiveTarget, SetTarget, PolicyTyped, RequesterTyped, policyVars
<1>3. CASE Act
  <2>1. /\ at' = "observe" /\ UNCHANGED <<target, observed, announced>>
        /\ Advance \/ Rest \/ Reset
    BY <1>3 DEF Act
  <2>2. CASE Advance
    BY <1>1, <2>1, <2>2, AdvanceCommands DEF PolicyTyped
  <2>3. CASE Rest \/ Reset
    BY <1>1, <2>1, <2>3 DEF Rest, Reset, PolicyTyped
  <2>4. QED
    BY <2>1, <2>2, <2>3
<1>4. CASE Observe
  BY <1>1, <1>4, InstanceAssumption DEF Observe, PolicyTyped, TypeOK, policyVars
<1>5. CASE Report
  <2>1. /\ at' = "receive" /\ UNCHANGED <<target, goal, step, observed, sent>>
        /\ announced' = announced \/ (step = Length /\ announced' = announced \cup {target})
    BY <1>5 DEF Report, policyVars, IsDone
  <2>2. step = Length => target \in Targets
    BY BoundsAssumption DEF TrajectoryLeadsToTarget
  <2>3. QED
    BY <1>1, <2>1, <2>2 DEF PolicyTyped
<1>6. CASE UNCHANGED <<policyVars, observed, at, sent, announced>>
  BY <1>1, <1>6 DEF PolicyTyped, policyVars
<1>7. QED
  BY <1>2, <1>3, <1>4, <1>5, <1>6 DEF HandoffNext, OrchestratorStep, HomingStep, PublishTarget, DeliverTarget,
     PublishRequestHoming, PublishOther, homingVars

LEMMA FlagsType ==
  ASSUME HandoffTypeOK, HandoffNext
  PROVE  HomingFlags'
<1>1. HomingFlags
  BY HandoffParts
<1>2. requesting' = requesting \/ requesting' = TRUE \/ requesting' = FALSE
  BY DEF HandoffNext, OrchestratorStep, HomingStep, ReceiveTarget, Act, Observe, Report, PublishTarget,
     DeliverTarget, PublishRequestHoming, PublishOther, requesterVars
<1>3. completed' = completed \/ completed' = TRUE \/ completed' = FALSE
  BY DEF HandoffNext, OrchestratorStep, HomingStep, ReceiveTarget, Act, Observe, Report, Latch, PublishTarget,
     DeliverTarget, PublishRequestHoming, PublishOther, homingVars
<1>4. QED
  BY <1>1, <1>2, <1>3, Zenon DEF HomingFlags

-----------------------------------------------------------------------------
(* Trajectories, targets and completions.                                  *)

LEMMA TrajectoryStep ==
  ASSUME HandoffTypeOK, TrajectoryLeadsToTarget, HandoffNext
  PROVE  TrajectoryLeadsToTarget'
<1>1. CASE ReceiveTarget
  BY <1>1 DEF ReceiveTarget, SetTarget, TrajectoryLeadsToTarget, policyVars
<1>2. CASE Act
  <2>1. UNCHANGED target /\ (Advance \/ Rest \/ Reset)
    BY <1>2 DEF Act
  <2>2. CASE Advance
    BY <2>1, <2>2, AdvanceCommands DEF TrajectoryLeadsToTarget
  <2>3. CASE Rest
    BY <2>1, <2>3 DEF Rest, TrajectoryLeadsToTarget
  <2>4. CASE Reset
    BY <2>4 DEF Reset, TrajectoryLeadsToTarget
  <2>5. QED
    BY <2>1, <2>2, <2>3, <2>4
<1>3. CASE UNCHANGED <<policyVars, sent>>
  BY <1>3 DEF TrajectoryLeadsToTarget, policyVars
<1>4. QED
  BY <1>1, <1>2, <1>3 DEF HandoffNext, OrchestratorStep, HomingStep, Observe, Report, PublishTarget,
     DeliverTarget, PublishRequestHoming, PublishOther, homingVars

\* The numbers of targets are numbers.
LEMMA Numbers ==
  ASSUME HandoffTypeOK
  PROVE  /\ requested \in Nat /\ Targets \subseteq Nat /\ None \notin Targets
         /\ \A i \in DOMAIN wire : wire[i] \in Targets
         /\ targetQueue # None => targetQueue \in Targets
         /\ target # None => target \in Targets
         /\ announced \subseteq Targets
<1>1. RequesterTyped /\ PolicyTyped
  BY HandoffParts
<1>2. QED
  BY <1>1, InstanceAssumption, BoundsAssumption DEF RequesterTyped, PolicyTyped, Targets

LEMMA WireStep ==
  ASSUME HandoffTypeOK, WireInOrder, HandoffNext
  PROVE  WireInOrder'
<1>1. RequesterTyped /\ requested \in Nat /\ \A i \in DOMAIN wire : wire[i] \in Nat
  BY HandoffParts, Numbers
<1>2. CASE PublishTarget
  BY <1>1, <1>2, Request DEF WireInOrder
<1>3. CASE DeliverTarget
  <2>1. UNCHANGED requested
    BY <1>3 DEF DeliverTarget
  <2>2. QED
    BY <1>1, <1>3, <2>1, Delivery DEF WireInOrder
<1>4. CASE UNCHANGED <<requested, wire>>
  BY <1>4 DEF WireInOrder
<1>5. QED
  BY <1>2, <1>3, <1>4 DEF HandoffNext, OrchestratorStep, HomingStep, ReceiveTarget, Act, Observe, Report,
     PublishRequestHoming, PublishOther, requesterVars

LEMMA TargetsStep ==
  ASSUME HandoffTypeOK, WireInOrder, TargetsInOrder, HandoffNext
  PROVE  TargetsInOrder'
<1>1. /\ RequesterTyped /\ requested \in Nat /\ Targets \subseteq Nat /\ None \notin Targets
      /\ \A i \in DOMAIN wire : wire[i] \in Nat
      /\ targetQueue # None => targetQueue \in Nat
      /\ target # None => target \in Nat
  BY HandoffParts, Numbers
<1>2. CASE PublishTarget
  <2>1. UNCHANGED <<targetQueue, target>>
    BY <1>2 DEF PublishTarget, homingVars, policyVars
  <2>2. /\ requested' = requested + 1
        /\ \A i \in DOMAIN wire' : wire'[i] = requested + 1 \/ (i \in DOMAIN wire /\ wire'[i] = wire[i])
    BY <1>1, <1>2, Request
  <2>3. QED
    BY <1>1, <2>1, <2>2 DEF TargetsInOrder
<1>3. CASE DeliverTarget
  <2>1. UNCHANGED <<requested, target>>
    BY <1>3 DEF DeliverTarget, policyVars
  <2>2. \A i \in DOMAIN wire' : wire[1] < wire'[i]
    BY <1>1, <1>3, Delivery DEF WireInOrder
  <2>3. QED
    BY <1>1, <1>3, <2>1, <2>2, Delivery DEF WireInOrder, TargetsInOrder
<1>4. CASE ReceiveTarget
  <2>1. /\ UNCHANGED <<requested, wire>> /\ targetQueue' = None
        /\ target' = IF targetQueue = None THEN target ELSE targetQueue
    BY <1>4 DEF ReceiveTarget, SetTarget, policyVars, requesterVars
  <2>2. QED
    BY <1>1, <2>1 DEF TargetsInOrder
<1>5. CASE UNCHANGED <<requested, wire, targetQueue, target>>
  BY <1>5 DEF TargetsInOrder
<1>6. QED
  BY <1>2, <1>3, <1>4, <1>5 DEF HandoffNext, OrchestratorStep, HomingStep, Act, Observe, Report,
     PublishRequestHoming, PublishOther, requesterVars, homingVars, policyVars

LEMMA AnnouncedStep ==
  ASSUME HandoffTypeOK, TrajectoryLeadsToTarget, TargetsInOrder, AnnouncedInOrder, HandoffNext
  PROVE  AnnouncedInOrder'
<1>1. /\ Targets \subseteq Nat /\ None \notin Targets
      /\ announced \subseteq Targets
      /\ targetQueue # None => targetQueue \in Targets
      /\ target # None => target \in Targets
  BY Numbers
<1>2. CASE ReceiveTarget
  <2>1. /\ UNCHANGED announced
        /\ \/ UNCHANGED <<target, completed>>
           \/ targetQueue # None /\ target' = targetQueue
    BY <1>2 DEF ReceiveTarget, SetTarget, policyVars
  <2>2. CASE UNCHANGED <<target, completed>>
    BY <2>1, <2>2 DEF AnnouncedInOrder
  <2>3. CASE targetQueue # None /\ target' = targetQueue
    <3>1. \A t \in announced : t \in Nat /\ target # None /\ t <= target
      BY <1>1 DEF AnnouncedInOrder
    <3>2. target # None => target \in Nat /\ targetQueue \in Nat /\ target < targetQueue
      BY <1>1, <2>3 DEF TargetsInOrder
    <3>3. \A t \in announced : t <= targetQueue /\ t # targetQueue
      BY <3>1, <3>2
    <3>4. QED
      BY <2>1, <2>3, <3>3 DEF AnnouncedInOrder
  <2>4. QED
    BY <2>1, <2>2, <2>3
<1>3. CASE Report
  <2>1. /\ UNCHANGED target
        /\ \/ UNCHANGED <<completed, announced>>
           \/ step = Length /\ completed' = TRUE /\ announced' = announced \cup {target}
    BY <1>3 DEF Report, IsDone, Latch, policyVars
  <2>2. step = Length => target \in Targets
    BY BoundsAssumption DEF TrajectoryLeadsToTarget
  <2>3. CASE UNCHANGED <<completed, announced>>
    BY <2>1, <2>3 DEF AnnouncedInOrder
  <2>4. CASE step = Length /\ completed' = TRUE /\ announced' = announced \cup {target}
    <3>1. target \in Nat /\ target # None
      <4>1. target \in Targets
        BY <2>2, <2>4
      <4>2. QED
        BY <1>1, <4>1
    <3>2. QED
      BY <2>1, <2>4, <3>1 DEF AnnouncedInOrder
  <2>5. QED
    BY <2>1, <2>3, <2>4
<1>4. CASE UNCHANGED <<target, completed, announced>>
  BY <1>4 DEF AnnouncedInOrder
<1>5. QED
  BY <1>2, <1>3, <1>4 DEF HandoffNext, OrchestratorStep, HomingStep, Act, Observe, PublishTarget,
     DeliverTarget, PublishRequestHoming, PublishOther, homingVars, policyVars

-----------------------------------------------------------------------------
(* The theorems.                                                           *)

LEMMA HandoffInitInv ==
  ASSUME HandoffInit
  PROVE  HandoffInv
<1>1. Init /\ mode = "IDLE"
  BY DEF HandoffInit
<1>2. TypeOK /\ ReturnInv /\ FreshInv
  BY <1>1, InitType, InitReturn, InitFresh
<1>3. RequesterTyped /\ PolicyTyped /\ HomingFlags
  <2>1. RequesterTyped /\ PolicyTyped
    BY <1>1, BoundsAssumption DEF HandoffInit, RequesterTyped, PolicyTyped, Modes
  <2>2. HomingFlags
    BY Zenon DEF HandoffInit, HomingFlags
  <2>3. QED
    BY <2>1, <2>2
<1>4. HomingInv
  BY DEF HandoffInit, HomingInv, TrajectoryLeadsToTarget, WireInOrder, TargetsInOrder, AnnouncedInOrder
<1>5. QED
  BY <1>2, <1>3, <1>4, HandoffParts DEF HandoffInv

LEMMA HandoffStepInv ==
  ASSUME HandoffInv, [HandoffNext]_handoffVars
  PROVE  HandoffInv'
<1>1. TypeOK' /\ ReturnInv' /\ FreshInv'
  BY NodeKeepsInvariants
<1>2. CASE HandoffNext
  <2>1. RequesterTyped' /\ PolicyTyped' /\ HomingFlags'
    BY <1>2, RequesterType, PolicyType, FlagsType DEF HandoffInv, HomingInv
  <2>2. HomingInv'
    BY <1>2, TrajectoryStep, WireStep, TargetsStep, AnnouncedStep DEF HandoffInv, HomingInv
  <2>3. QED
    BY <1>1, <2>1, <2>2, HandoffParts DEF HandoffInv
<1>3. CASE UNCHANGED handoffVars
  <2>1. UNCHANGED <<requested, requesting, wire, targetQueue, target, goal, step>>
    BY <1>3 DEF handoffVars, requesterVars, homingVars, policyVars
  <2>2. UNCHANGED <<completed, observed, at, sent, announced>>
    BY <1>3 DEF handoffVars, homingVars
  <2>3. RequesterTyped' /\ PolicyTyped'
    BY <2>1, <2>2, HandoffParts DEF HandoffInv, RequesterTyped, PolicyTyped
  <2>4. HomingFlags'
    BY <2>1, <2>2, HandoffParts, Zenon DEF HandoffInv, HomingFlags
  <2>5. HomingInv'
    BY <2>1, <2>2 DEF HandoffInv, HomingInv, TrajectoryLeadsToTarget, WireInOrder, TargetsInOrder,
       AnnouncedInOrder
  <2>6. QED
    BY <1>1, <2>3, <2>4, <2>5, HandoffParts DEF HandoffInv
<1>4. QED
  BY <1>2, <1>3

LEMMA HandoffInvHolds == HandoffSpec => []HandoffInv
BY HandoffInitInv, HandoffStepInv, PTL DEF HandoffSpec

\* The queues, the wire, the policy and the orchestrator node stay in their types, whatever is lost
\* and however late a mode is observed.
THEOREM HandoffTypeCorrect == HandoffSpec => []HandoffTypeOK
<1>1. HandoffInv => HandoffTypeOK
  BY DEF HandoffInv
<1>2. QED
  BY <1>1, HandoffInvHolds, PTL

\* COMPLETE is published at most once for a target, and only after the last point of the
\* trajectory to that very target has been published.
THEOREM CompletionsAreEarned == HandoffSpec => CompletionIsEarned
<1> DEFINE Earned == Report /\ IsDone /\ ~completed =>
                       /\ target \notin announced
                       /\ sent = [goal |-> target, step |-> Length]
<1>1. HandoffInv => Earned
  <2>1. ASSUME HandoffInv, step = Length, ~completed
        PROVE  target \notin announced /\ sent = [goal |-> target, step |-> Length]
    BY <2>1, BoundsAssumption DEF HandoffInv, HomingInv, TrajectoryLeadsToTarget, AnnouncedInOrder
  <2>2. QED
    BY <2>1 DEF IsDone
<1>2. QED
  BY <1>1, HandoffInvHolds, PTL DEF CompletionIsEarned

\* With the homing node attached, the modes are as the operator chose them and no command waits
\* for more than a tick, as they are for the orchestrator node alone.
THEOREM NodeKeepsItsPromises == HandoffSpec => []ModesAsChosen /\ []QueuesStayFresh
<1>1. HandoffInv => ModesAsChosen /\ QueuesStayFresh
  BY DEF HandoffInv, ReturnInv, FreshInv, ModesAsChosen
<1>2. QED
  BY <1>1, HandoffInvHolds, PTL

\* The orchestrator node, the homing node and the requesters together still amount to the arbiter
\* that the control session is built on.
THEOREM HandoffImplementsArbiter == HandoffSpec => ArbitratesModes
<1>1. HandoffInit => Arbiter!ArbiterInit
  BY InitArbiter DEF HandoffInit
<1>2. HandoffInv /\ [HandoffNext]_handoffVars => [Arbiter!ArbiterNext]_(Arbiter!arbiterVars)
  <2> SUFFICES ASSUME HandoffInv, [HandoffNext]_handoffVars
               PROVE  [Arbiter!ArbiterNext]_(Arbiter!arbiterVars)
    OBVIOUS
  <2>1. [Next]_vars \/ Signal
    BY NodeOrSignal DEF handoffVars
  <2>2. CASE Signal
    BY <2>2 DEF Signal, Arbiter!arbiterVars
  <2>3. QED
    BY <2>1, <2>2, NextArbiter
<1>3. QED
  BY <1>1, <1>2, HandoffInvHolds, PTL DEF HandoffSpec, ArbitratesModes, Arbiter!ArbiterSpec

=============================================================================

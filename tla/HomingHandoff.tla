---------------------------- MODULE HomingHandoff ----------------------------
(***************************************************************************)
(* Homing end to end: a requester (the operator console or the Oculus       *)
(* policy), the homing node (nodes/policy/homing.py, policy/homing.py on    *)
(* environment/realtime.py) and the orchestrator node, which hand the robot *)
(* over to one another with messages that overwrite one another and that    *)
(* two processes receive at different times.                                *)
(*                                                                          *)
(* Homing targets are numbered in the order in which they are requested.    *)
(***************************************************************************)
EXTENDS OrchestratorNode, Sequences

CONSTANTS
    MaxTarget,      \* bound: the number of homing requests
    Length,         \* the number of commands of a trajectory
    Prompt          \* whether a requester publishes a target and its event within one
                    \* period of the homing node, so that no step of it begins in between

ASSUME BoundsAssumption == MaxTarget \in Nat \ {0} /\ Length \in Nat \ {0} /\ Prompt \in BOOLEAN

Targets == 1 .. MaxTarget

\* The joint commands of the homing node: the step-th point on the way to goal.
HomingCommands == [goal : Targets, step : 1 .. Length]

\* The node's follower queue and its source topic.
Homing == "homing"
Joint == "HOMING_JOINT"

ASSUME InstanceAssumption ==
    /\ Followers = {Homing} /\ Published = {Joint} /\ Commands = HomingCommands
    /\ None \notin Targets

VARIABLES
    requested,      \* the number of targets published so far
    requesting,     \* the requester is between its two publish() calls
    wire,           \* the homing targets on their way to the homing node
    targetQueue,    \* the queue of HOMING_TARGET in the homing node
    target,         \* HomingPolicy._target_position
    goal,           \* the target the current trajectory was generated for
    step,           \* HomingPolicy._step; 0 also stands for the empty _trajectory
    completed,      \* HomingNode._completed
    observed,       \* the mode of HomingNode.observation
    at,             \* where in HomingNode.step() the node is
    sent,           \* history: the last joint command published by the homing node
    announced       \* history: the targets whose COMPLETE was published

requesterVars == <<requested, requesting, wire>>
policyVars == <<target, goal, step>>
homingVars == <<targetQueue, policyVars, completed, observed, at, sent, announced>>
handoffVars == <<vars, requesterVars, homingVars>>

HandoffTypeOK ==
    /\ TypeOK
    /\ requested \in 0 .. MaxTarget
    /\ requesting \in BOOLEAN
    /\ wire \in Seq(Targets)
    /\ targetQueue \in Targets \cup {None}
    /\ target \in Targets \cup {None}
    /\ goal \in Targets \cup {None}
    /\ step \in 0 .. Length
    /\ completed \in BOOLEAN
    /\ observed \in Modes \cup {None}
    /\ at \in {"receive", "act", "observe", "report"}
    /\ sent \in HomingCommands \cup {None}
    /\ announced \subseteq Targets

\* The console starts the orchestrator node without arguments: in IDLE.
HandoffInit ==
    /\ Init
    /\ mode = "IDLE"
    /\ requested = 0
    /\ requesting = FALSE
    /\ wire = <<>>
    /\ targetQueue = None
    /\ target = None
    /\ goal = None
    /\ step = 0
    /\ completed = TRUE
    /\ observed \in {None, mode}
    /\ at = "receive"
    /\ sent = None
    /\ announced = {}

-----------------------------------------------------------------------------
(* OrchestratorClient.request_homing: the target first, then the event.    *)

PublishTarget ==
    /\ ~requesting
    /\ requested < MaxTarget
    /\ requested' = requested + 1
    /\ requesting' = TRUE
    /\ wire' = Append(wire, requested + 1)
    /\ UNCHANGED <<vars, homingVars>>

PublishRequestHoming ==
    /\ requesting
    /\ requesting' = FALSE
    /\ PublishEvent("REQUEST_HOMING")
    /\ UNCHANGED <<nodeVars, source, modeQueue, robot, historyVars, requested, wire, homingVars>>

\* Any other event of the operator side.
PublishOther(kind) ==
    /\ ~requesting
    /\ SomebodyPublishesEvent(kind)
    /\ UNCHANGED <<requesterVars, homingVars>>

DeliverTarget ==
    /\ wire # <<>>
    /\ wire' = Tail(wire)
    /\ \/ targetQueue' = Head(wire)
       \/ Lossy /\ UNCHANGED targetQueue
    /\ UNCHANGED <<vars, requested, requesting, policyVars, completed, observed, at, sent, announced>>

-----------------------------------------------------------------------------
(* HomingNode.step.                                                        *)

\* Mutant: a new target leaves the trajectory under way in place.
SetTargetKeepingTrajectory(t) == target' = t /\ UNCHANGED <<goal, step>>

SetTarget(t) == target' = t /\ goal' = None /\ step' = 0

IsDone == step = Length

\* Policy.__call__: active without an orchestrator, or in the policy's own mode.
PolicyActive == observed \in {None, "HOMING"}

ReceiveTarget ==
    /\ at = "receive"
    /\ Prompt => ~requesting
    /\ IF targetQueue = None
       THEN UNCHANGED <<policyVars, completed>>
       ELSE SetTarget(targetQueue) /\ completed' = FALSE
    /\ targetQueue' = None
    /\ at' = "act"
    /\ UNCHANGED <<vars, requesterVars, observed, sent, announced>>

\* policy(observation) and _submit_action: the next point of the trajectory, which is
\* generated when there is none, or nothing to do.
Advance ==
    /\ PolicyActive /\ target # None /\ ~IsDone
    /\ goal' = IF step = 0 THEN target ELSE goal
    /\ step' = step + 1
    /\ sent' = [goal |-> goal', step |-> step']
    /\ PublishCommand(Joint, sent')

Rest ==
    /\ PolicyActive /\ (target = None \/ IsDone)
    /\ UNCHANGED <<goal, step, sent, source, ticks, inactive>>

\* Mutant: Policy.reset is not overridden.
ResetNothing == ~PolicyActive /\ UNCHANGED <<goal, step, sent, source, ticks, inactive>>

\* Policy.reset: the trajectory is cleared, the target kept.
Reset ==
    /\ ~PolicyActive
    /\ goal' = None
    /\ step' = 0
    /\ UNCHANGED <<sent, source, ticks, inactive>>

Act ==
    /\ at = "act"
    /\ Advance \/ Rest \/ Reset
    /\ at' = "observe"
    /\ UNCHANGED <<nodeVars, event, modeQueue, robot, chosen, requesterVars, targetQueue, target,
                   completed, observed, announced>>

\* _build_observation: the last mode is kept when no new one was received.
Observe ==
    /\ at = "observe"
    /\ observed' = IF modeQueue[Homing] = None THEN observed ELSE modeQueue[Homing]
    /\ modeQueue' = [modeQueue EXCEPT ![Homing] = None]
    /\ at' = "report"
    /\ UNCHANGED <<nodeVars, event, source, robot, historyVars, requesterVars, targetQueue,
                   policyVars, completed, sent, announced>>

\* Mutant: the latch is not set, COMPLETE is published on every step.
LatchNothing == UNCHANGED completed

Latch == completed' = TRUE

Report ==
    /\ at = "report"
    /\ IF IsDone /\ ~completed
       THEN /\ PublishEvent("COMPLETE")
            /\ Latch
            /\ announced' = announced \cup {target}
       ELSE UNCHANGED <<event, completed, announced>>
    /\ at' = "receive"
    /\ UNCHANGED <<nodeVars, source, modeQueue, robot, historyVars, requesterVars, targetQueue,
                   policyVars, observed, sent>>

-----------------------------------------------------------------------------
OrchestratorStep == Tick /\ UNCHANGED <<requesterVars, homingVars>>
HomingStep == ReceiveTarget \/ Act \/ Observe \/ Report

HandoffNext ==
    \/ OrchestratorStep
    \/ HomingStep
    \/ PublishTarget
    \/ PublishRequestHoming
    \/ \E kind \in Kinds : PublishOther(kind)
    \/ DeliverTarget

HandoffSpec == HandoffInit /\ [][HandoffNext]_handoffVars

\* Both nodes loop at their rate, a requester that published a target goes on to
\* publish the event, and what is on the wire arrives.  Events are published at human
\* pace, so the drain loop does not go on finding another one for ever.  Nobody has to
\* request anything.
Fairness ==
    /\ WF_handoffVars(OrchestratorStep)
    /\ SF_handoffVars(EndDrain /\ UNCHANGED <<requesterVars, homingVars>>)
    /\ WF_handoffVars(HomingStep)
    /\ WF_handoffVars(PublishRequestHoming)
    /\ WF_handoffVars(DeliverTarget)

FairHandoffSpec == HandoffSpec /\ Fairness

-----------------------------------------------------------------------------
(* What holds.                                                             *)

\* COMPLETE is published at most once for a target, and only as the last point of
\* the trajectory to that very target has been published: retargeting in the middle
\* of a trajectory, a reset on a mode change and a mode that is observed late never
\* make the node announce a target it did not drive to.
CompletionIsEarned ==
    [][Report /\ IsDone /\ ~completed =>
         /\ target \notin announced
         /\ sent = [goal |-> target, step |-> Length]]_handoffVars

\* Homing ends: the orchestrator does not stay in HOMING for ever, whatever modes
\* the operator requests meanwhile and however often homing is requested again, as
\* long as nothing else is published on the event topic and nothing is lost.
HomingEnds == mode = "HOMING" ~> mode # "HOMING"

\* When the robot is out of homing for good, the homing node sooner or later forgets
\* the trajectory under way, so that the next homing starts from where the robot then
\* is: the mode that ends it is not missed, although only the latest one is kept.
TrajectoryIsForgotten == <>[](mode # "HOMING") => <>[](step = 0)

\* Homing concludes, and nothing of it is left for the next one.
HomingConcludes == HomingEnds /\ TrajectoryIsForgotten

(* What the repository says, and the code does not keep.                   *)

\* "Moves the robot to a target joint configuration along a smooth trajectory"
\* (HomingPolicy): when a completion ends homing, the last command of a robot that
\* homing has moved is the end of a trajectory.
HomingReachesTarget ==
    [][mode = "HOMING" /\ HandleComplete /\ robot["ROBOT_JOINT"] # None
           => robot["ROBOT_JOINT"].step = Length]_handoffVars

=============================================================================

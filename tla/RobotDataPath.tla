----------------------------- MODULE RobotDataPath -----------------------------
(***************************************************************************)
(* The way of joint values through the program: a robot is configured and   *)
(* validated (types/robot.py, robots/base.py); the driver node or the        *)
(* simulation measures it into the vectors q and v; the controllers each     *)
(* move the coordinates they own; the joint command is normalised and taken  *)
(* apart again into one target per actuator.  Joints with one coordinate,    *)
(* with two (the cosine and sine of an unbounded joint) and with four (the    *)
(* planar root) share the vectors, so every index is an offset.  Angles are  *)
(* in quarter turns.  Timing, modes and failing hardware are in RobotDriver   *)
(* and RobotController.                                                      *)
(***************************************************************************)
EXTENDS Integers, Sequences

CONSTANTS
    Candidates,     \* robot configurations, which may be refused
    MaxRounds,      \* bound: control periods
    Travel,         \* the angles a bounded joint can take
    WheelLimit,     \* the limit of a wheel's rate
    Absent          \* no value

ASSUME DataPathAssumption ==
    /\ MaxRounds \in Nat /\ WheelLimit \in Nat \ {0, 1}
    /\ Travel \subseteq Int /\ 0 \in Travel
    /\ \E low, high \in Travel : \A a \in Travel : low <= a /\ a <= high

\* No value is none of the program's.
ASSUME AbsentAssumption ==
    /\ Absent \notin Int /\ Absent \notin Seq(Int)
    /\ Absent \notin [q : Seq(Int), v : Seq(Int) \cup {Absent}]

VARIABLES
    body,       \* the RobotConfig, once it is accepted
    runtime,    \* the driver node or the simulation
    stage,      \* where the round is
    rounds,     \* control periods so far
    world,      \* the robot itself: angle and rate of every joint, root pose and twist
    believedRoot,   \* DeadReckoningIntegrator: position and velocity
    measured,   \* the last RobotState: q and v
    model,      \* the configuration the controllers hold
    jointCommand,   \* the RobotJointCommand under way
    wanted      \* what the command means, joint by joint

dataPathVars == <<body, runtime, stage, rounds, world, believedRoot, measured, model, jointCommand,
                  wanted>>

-----------------------------------------------------------------------------
(* Angles and planar motion.                                               *)

Cosine(a) == <<1, 0, -1, 0>>[(a % 4) + 1]
Sine(a) == <<0, 1, 0, -1>>[(a % 4) + 1]
ArcTan2(s, c) == IF s = 0 /\ c = 0 THEN 0 ELSE CHOOSE a \in -1..2 : Sine(a) = s /\ Cosine(a) = c
SameAngle(a, b) == (a - b) % 4 = 0

\* A twist turned from the body into the world.
Turned(yaw, t) == <<Cosine(yaw) * t[1] - Sine(yaw) * t[2], Sine(yaw) * t[1] + Cosine(yaw) * t[2]>>

\* A unit of time; a twist moves or turns, never both.
Moved(p, t) ==
    LET d == Turned(p[3], t) IN <<p[1] + d[1], p[2] + d[2], p[3] + t[3]>>

Bounded(x, low, high) == IF x < low THEN low ELSE IF x > high THEN high ELSE x
Lowest == CHOOSE a \in Travel : \A b \in Travel : a <= b
Highest == CHOOSE a \in Travel : \A b \in Travel : b <= a

-----------------------------------------------------------------------------
(* The layout of the vectors.                                              *)

Names(b) == DOMAIN b.joints

\* The joint of the model that has a name: the planar root comes first.
JointIndex(b, n) == n + (IF b.base THEN 1 ELSE 0)

Kinds(b) == (IF b.base THEN <<"planar">> ELSE <<>>) \o [n \in Names(b) |-> b.joints[n].kind]

nq == [planar |-> 4, continuous |-> 2, revolute |-> 1]
nv == [planar |-> 3, continuous |-> 1, revolute |-> 1]

\* Where the coordinates of each joint start, and where the last one's end.
Starts(kinds, size) ==
    LET start[i \in 1..(Len(kinds) + 1)] == IF i = 1 THEN 1 ELSE start[i - 1] + size[kinds[i - 1]] IN start

\* Robot: the configuration with its model.
Robot(b) ==
    [base |-> b.base, estimator |-> b.estimator, joints |-> b.joints, tool |-> b.tool, wheels |-> b.wheels,
     gripper |-> b.gripper, home |-> b.home,
     kinds |-> Kinds(b), idxQ |-> Starts(Kinds(b), nq), idxV |-> Starts(Kinds(b), nv)]

Owned(idx, js) == UNION {idx[j]..(idx[j + 1] - 1) : j \in js}
Coordinates(idx) == 1..(idx[Len(idx)] - 1)
JointOf(idx, i) == CHOOSE j \in DOMAIN idx : idx[j] <= i /\ i < idx[j + 1]

\* Mutant: every joint has one coordinate, as in v.
ScalarPositionIndex(b, n) == b.idxV[JointIndex(b, n)]

PositionIndex(b, n) == b.idxQ[JointIndex(b, n)]
VelocityIndex(b, n) == b.idxV[JointIndex(b, n)]

Neutral(b) ==
    [i \in Coordinates(b.idxQ) |->
        LET j == JointOf(b.idxQ, i)
            cosine == \/ b.kinds[j] = "continuous" /\ i = b.idxQ[j]
                      \/ b.kinds[j] = "planar" /\ i = b.idxQ[j] + 2
        IN  IF cosine THEN 1 ELSE 0]

\* Mutant: positions are laid out as velocities are.
PositionsAsVelocities(b, angle) ==
    [i \in Coordinates(b.idxV) |->
        LET n == {m \in DOMAIN angle : i = VelocityIndex(b, m)} IN
        IF n = {} THEN 0 ELSE angle[CHOOSE m \in n : TRUE]]

\* joint_positions_to_q: joints with no entry, the root among them, stay neutral.
ToQ(b, angle) ==
    [i \in Coordinates(b.idxQ) |->
        LET n == {m \in DOMAIN angle : i \in Owned(b.idxQ, {JointIndex(b, m)})} IN
        IF n = {} THEN Neutral(b)[i]
        ELSE LET m == CHOOSE m \in n : TRUE IN
             IF b.joints[m].kind = "revolute" THEN angle[m]
             ELSE IF i = PositionIndex(b, m) THEN Cosine(angle[m]) ELSE Sine(angle[m])]

ToV(b, rate) ==
    [i \in Coordinates(b.idxV) |->
        LET n == {m \in DOMAIN rate : i = VelocityIndex(b, m)} IN
        IF n = {} THEN 0 ELSE rate[CHOOSE m \in n : TRUE]]

\* joint_position_from_q.
FromQ(b, q, n) ==
    LET i == PositionIndex(b, n) IN
    IF b.joints[n].kind = "continuous" THEN ArcTan2(q[i + 1], q[i]) ELSE q[i]

RootOfQ(q) == <<q[1], q[2], ArcTan2(q[4], q[3])>>
RootToQ(p) == <<p[1], p[2], Cosine(p[3]), Sine(p[3])>>

\* The root's slices of q and v, when there is one.
WithRootQ(b, q, p) == IF b.base THEN [i \in DOMAIN q |-> IF i <= 4 THEN RootToQ(p)[i] ELSE q[i]] ELSE q
WithRootV(b, v, t) == IF b.base THEN [i \in DOMAIN v |-> IF i <= 3 THEN t[i] ELSE v[i]] ELSE v

\* pinocchio.integrate, over one unit of time.
Integrate(b, q, v) ==
    LET angle == [n \in Names(b) |-> FromQ(b, q, n) + v[VelocityIndex(b, n)]]
    IN  WithRootQ(b, ToQ(b, angle), IF b.base THEN Moved(RootOfQ(q), SubSeq(v, 1, 3)) ELSE <<0, 0, 0>>)

-----------------------------------------------------------------------------
(* Configurations.                                                         *)

Gripper(b) == {b.gripper[i] : i \in DOMAIN b.gripper}
Wheels(b) == {b.wheels[i] : i \in DOMAIN b.wheels}
Controlled(b) == {n \in Names(b) : b.joints[n].mode # Absent}
InMode(b, m) == {n \in Controlled(b) : b.joints[n].mode = m}

\* RobotConfig: a mobile base needs an estimator of its state, and wheels to be driven.
ConfigAccepted(b) == (b.base <=> b.estimator) /\ (b.base => b.wheels # <<>>)

\* The gripper's joints are different ones, and take positions.
GripperNamed(b) == \A i, j \in DOMAIN b.gripper : i # j => b.gripper[i] # b.gripper[j]
GripperInPosition(b) == Gripper(b) \subseteq InMode(b, "position")

\* ActuatorHardwareConfig: no two joints share an actuator of a controller.
AddressesAccepted(b) == \A m, n \in Controlled(b) : m # n => b.joints[m].address # b.joints[n].address

\* Mutant: the gripper's joints are not looked at.
AnyGripper(b) == TRUE

\* Robot: the joints of the gripper have one coordinate.
GripperAccepted(b) == \A n \in Gripper(b) : b.joints[n].kind = "revolute"

\* WheelKinematics: every wheel's frame is on a joint with one velocity coordinate.
WheelsAccepted(b) == Wheels(b) \subseteq Names(b)

Accepted(b) ==
    /\ ConfigAccepted(b) /\ GripperNamed(b) /\ GripperInPosition(b)
    /\ AddressesAccepted(b) /\ WheelsAccepted(b) /\ GripperAccepted(b)

\* get_arm_joint_indices: the chain from the tool's joint to the base, without the root.
Arm(b) ==
    LET chain[n \in 0..Len(b.joints)] == IF n = 0 THEN {} ELSE {n} \cup chain[b.joints[n].parent]
    IN  chain[b.tool]

\* What the controllers own: the joints of the model, then their coordinates.
ArmOwns(b) == {JointIndex(b, n) : n \in Arm(b)}
GripperOwns(b) == {JointIndex(b, n) : n \in Gripper(b)}
BaseOwns(b) == IF b.base THEN {1} \cup {JointIndex(b, n) : n \in Wheels(b)} ELSE {}

JointConfiguration == [kind : {"revolute", "continuous"}, parent : Nat, mode : {Absent, "position", "velocity"},
                       address : Nat \X Nat]
Configurations ==
    [base : BOOLEAN, estimator : BOOLEAN, joints : Seq(JointConfiguration), tool : Nat, wheels : Seq(Nat),
     gripper : Seq(Nat), home : Seq(Int)]

\* What no check of the code refuses and every supported robot has: positions of joints beside the gripper
\* are controlled of bounded ones only, all from a home within their limits; the tool is upstream of the
\* gripper, and its chain bears no wheels; a mobile base has the three wheels whose geometry determines its motion.
Supported(b) ==
    /\ \A n \in Names(b) : b.joints[n].parent < n
    /\ b.tool \in 0..Len(b.joints) /\ Len(b.home) = Len(b.joints)
    /\ \A n \in InMode(b, "position") \ Gripper(b) : b.joints[n].kind = "revolute"
    /\ \A n \in InMode(b, "position") : b.home[n] \in Lowest..Highest
    /\ Arm(b) \cap (Gripper(b) \cup InMode(b, "velocity")) = {}
    /\ IF b.base THEN /\ Len(b.wheels) = 3 /\ Wheels(b) \subseteq InMode(b, "velocity")
                      /\ \A i, j \in 1..3 : i # j => b.wheels[i] # b.wheels[j]
       ELSE b.wheels = <<>>

ASSUME CandidatesAssumption ==
    /\ Candidates \subseteq Configurations
    /\ \A b \in Candidates : Accepted(b) => Supported(b)

-----------------------------------------------------------------------------
(* Wheels.                                                                 *)

\* The wheels' constraint: what rate a twist takes of the wheels, one after the other.
Gear == <<<<0, 2, 1>>, <<-2, -1, 1>>, <<2, -1, 1>>>>
WheelRate(b, t, n) ==
    LET w == Gear[CHOOSE i \in DOMAIN b.wheels : b.wheels[i] = n]
    IN  w[1] * t[1] + w[2] * t[2] + w[3] * t[3]

Units == {<<1, 0, 0>>, <<0, -1, 0>>, <<0, 0, 1>>}
Times2(t) == [i \in 1..3 |-> 2 * t[i]]
Twists == {<<0, 0, 0>>} \cup Units \cup {Times2(t) : t \in Units}

\* estimate_root_velocity: the twist that explains the wheels' rates.
EstimatedTwist(b, v) ==
    LET fits(t) == \A n \in Wheels(b) : WheelRate(b, t, n) = v[VelocityIndex(b, n)]
    IN  IF \E t \in Twists : fits(t) THEN CHOOSE t \in Twists : fits(t) ELSE <<0, 0, 0>>

WithinLimit(b, t) == \A n \in Wheels(b) : WheelRate(b, t, n) \in -WheelLimit..WheelLimit

\* Mutant: a twist that is too fast is only slowed down at the wheels.
UnscaledTwist(b, t) == t

\* A twist that asks too much of a wheel is scaled down as a whole.
ScaledTwist(b, t) == IF WithinLimit(b, t) THEN t ELSE CHOOSE u \in Units : Times2(u) = t

-----------------------------------------------------------------------------
(* The driver node and the simulation.                                     *)

Rest(b) == [n \in Names(b) |-> 0]

\* Mutant: actuators are told apart by their number alone.
ByNumber(b, address) == CHOOSE n \in Controlled(b) : b.joints[n].address[2] = address[2]

\* _joint_by_address.
JointAt(b, address) == CHOOSE n \in Controlled(b) : b.joints[n].address = address

\* read_states: what a bus says of an address goes to the joint at that address.
ReadStates(b, w) ==
    LET known == {JointAt(b, b.joints[n].address) : n \in Controlled(b)}
        source(n) == CHOOSE m \in Controlled(b) : JointAt(b, b.joints[m].address) = n
    IN  [angle |-> [n \in known |-> w.angle[source(n)]], rate |-> [n \in known |-> w.rate[source(n)]]]

\* A RobotState: the joints' coordinates, then those of the root.
State(b, joints, root) ==
    [q |-> WithRootQ(b, ToQ(b, joints.angle), root.position),
     v |-> WithRootV(b, ToV(b, joints.rate), root.velocity)]

\* _integrate: the root since the last update, at the velocity of then.
DeadReckoned(r) == [r EXCEPT !.position = Moved(@, r.velocity)]

\* WheelDeadReckoningRootStateEstimator.update.
RootEstimate(b, r, v) == IF b.base THEN [DeadReckoned(r) EXCEPT !.velocity = EstimatedTwist(b, v)] ELSE r

\* read_robot_state: the world's velocity of the root, turned into the body.
SimulatedRoot(w) ==
    LET turned == Turned(-w.root[3], w.twist)
    IN  [position |-> w.root, velocity |-> <<turned[1], turned[2], w.twist[3]>>]

\* Mutant: a command without velocities leaves the wheels as they turn.
KeepVelocities(b, w, c) == IF c.v = Absent THEN ToV(b, w.rate) ELSE c.v

\* normalize_robot_joint_command: velocities that are missing are zero; all are clamped.
Velocities(b, w, c) ==
    [i \in Coordinates(b.idxV) |->
        IF c.v = Absent THEN 0
        ELSE IF b.kinds[JointOf(b.idxV, i)] = "planar" THEN c.v[i]
        ELSE Bounded(c.v[i], -WheelLimit, WheelLimit)]

Positions(b, c) ==
    [i \in Coordinates(b.idxQ) |->
        IF b.kinds[JointOf(b.idxQ, i)] = "revolute" THEN Bounded(c.q[i], Lowest, Highest) ELSE c.q[i]]

\* receive: the driver gives an actuator the coordinate itself; wheels that turn move the base.
DriverTargets(b, w, c) ==
    LET v == Velocities(b, w, c) IN
    [w EXCEPT !.goal = [n \in Names(b) |-> IF n \in InMode(b, "position") THEN Positions(b, c)[PositionIndex(b, n)] ELSE 0],
              !.rate = [n \in Names(b) |-> IF n \in InMode(b, "velocity") THEN v[VelocityIndex(b, n)] ELSE 0],
              !.twist = IF b.base THEN EstimatedTwist(b, v) ELSE @]

\* apply_joint_command: the simulation gives it the angle; the base has a target of its own, in
\* the world.
SimulationTargets(b, w, c) ==
    LET v == Velocities(b, w, c)
        turned == Turned(w.root[3], v)
    IN  [w EXCEPT !.goal = [n \in Names(b) |-> IF n \in InMode(b, "position") THEN FromQ(b, Positions(b, c), n) ELSE 0],
                  !.rate = [n \in Names(b) |-> IF n \in InMode(b, "velocity") THEN v[VelocityIndex(b, n)] ELSE 0],
                  !.twist = IF b.base THEN <<turned[1], turned[2], v[3]>> ELSE @]

\* A period: positions are reached, wheels turn.
JointsMoved(b, w) ==
    [n \in Names(b) |-> IF n \in InMode(b, "position") THEN w.goal[n] ELSE (w.angle[n] + w.rate[n]) % 4]

\* The simulated base has joints of the world.
SimulatedBase(w) == <<w.root[1] + w.twist[1], w.root[2] + w.twist[2], w.root[3] + w.twist[3]>>

-----------------------------------------------------------------------------
DataPathStages == {"configure", "drive", "time", "follow", "control", "end"}

DataPathTypeOK ==
    /\ body = Absent \/ Accepted(body)
    /\ runtime \in {"real", "simulation"}
    /\ stage \in DataPathStages
    /\ rounds \in 0..MaxRounds
    /\ body # Absent =>
        /\ measured = Absent \/ (DOMAIN measured.q = Coordinates(body.idxQ) /\ DOMAIN measured.v = Coordinates(body.idxV))
        /\ model = Absent \/ DOMAIN model = Coordinates(body.idxQ)
        /\ jointCommand = Absent \/ DOMAIN jointCommand.q = Coordinates(body.idxQ)

Nothing ==
    /\ world = Absent /\ believedRoot = Absent /\ measured = Absent /\ model = Absent
    /\ jointCommand = Absent /\ wanted = Absent

DataPathInit ==
    /\ body = Absent /\ runtime = "simulation" /\ stage = "configure" /\ rounds = 0
    /\ Nothing

\* The data path has been left.
DataPathOver ==
    /\ body = Absent /\ runtime = "simulation" /\ stage = "end" /\ rounds = 0
    /\ Nothing

\* Every joint starts at its home angle, and the base at the origin.
HomeWorld(b) == [angle |-> b.home, goal |-> b.home, rate |-> Rest(b), root |-> <<0, 0, 0>>, twist |-> <<0, 0, 0>>]

Configure(b, r) ==
    /\ stage = "configure"
    /\ Accepted(b)
    /\ body' = Robot(b) /\ runtime' = r
    /\ stage' = "drive"
    /\ world' = HomeWorld(b)
    /\ believedRoot' = [position |-> <<0, 0, 0>>, velocity |-> <<0, 0, 0>>]
    /\ UNCHANGED <<rounds, measured, model, jointCommand, wanted>>

\* RobotDriverNode.step: the command, then the feedback.
RobotDriverStep ==
    /\ stage = "drive" /\ runtime = "real"
    /\ world' = IF jointCommand = Absent THEN world ELSE DriverTargets(body, world, jointCommand)
    /\ LET joints == ReadStates(body, world') IN
       /\ believedRoot' = RootEstimate(body, believedRoot, ToV(body, joints.rate))
       /\ measured' = State(body, joints, believedRoot')
    /\ stage' = "time"
    /\ UNCHANGED <<body, runtime, rounds, model, jointCommand, wanted>>

TimePasses ==
    /\ stage = "time"
    /\ world' = [world EXCEPT !.angle = JointsMoved(body, world), !.root = Moved(@, world.twist)]
    /\ stage' = IF model = Absent THEN "follow" ELSE "control"
    /\ UNCHANGED <<body, runtime, rounds, believedRoot, measured, model, jointCommand, wanted>>

\* MujocoSimulationNode.step: the command, the physics, then the feedback.
SimulationStep ==
    /\ stage = "drive" /\ runtime = "simulation"
    /\ LET w == IF jointCommand = Absent THEN world ELSE SimulationTargets(body, world, jointCommand)
       IN  world' = [w EXCEPT !.angle = JointsMoved(body, w), !.root = SimulatedBase(w)]
    /\ measured' = State(body, world', SimulatedRoot(world'))
    /\ stage' = IF model = Absent THEN "follow" ELSE "control"
    /\ UNCHANGED <<body, runtime, rounds, believedRoot, model, jointCommand, wanted>>

-----------------------------------------------------------------------------
(* The controllers.                                                        *)

\* An inactive controller node follows the robot.
Follow ==
    /\ stage = "follow" /\ rounds = 0
    /\ model' = measured.q
    /\ stage' = "control"
    /\ UNCHANGED <<body, runtime, rounds, world, believedRoot, measured, jointCommand, wanted>>

\* What the arm's solver may ask for: a step of one joint that stays within its travel.
ArmMotions(b) ==
    {Rest(b)} \cup {[Rest(b) EXCEPT ![n] = d] : n \in Arm(b), d \in {-1, 1}}

GripperTargets(b) == IF b.gripper = <<>> THEN {Absent} ELSE {Absent, Lowest, Highest + 1}
BaseTwists(b) == IF b.base THEN Twists ELSE {<<0, 0, 0>>}

WithinTravel(b, motion) == \A n \in Arm(b) : world.angle[n] + motion[n] \in Travel

SetGripperPositions(b, q, target) ==
    [i \in DOMAIN q |-> IF \E n \in Gripper(b) : i = PositionIndex(b, n) THEN target ELSE q[i]]

\* GripperController.compute_control.
GripperControl(b, q, target) == SetGripperPositions(b, q, Bounded(target, Lowest, Highest))

\* _apply_gripper_target_to_model_state: what the arm and the base start from.
Held(b, target) == IF target = Absent THEN model ELSE GripperControl(b, model, target)

\* OmniwheelBaseController.compute_control: the root and its wheels.
BaseVelocity(b, twist) == WithRootV(b, ToV(b, [n \in Wheels(b) |-> WheelRate(b, twist, n)]), twist)

\* Mutant: a result is taken whole.
WholeResult(own, from, into) == from

\* Only the coordinates a controller owns are copied from its result.
Merge(own, from, into) == [i \in DOMAIN into |-> IF i \in own THEN from[i] ELSE into[i]]

\* The controllers' results, put together: <<q, v>>.
Merged(b, held, armV, baseV) ==
    LET still == [i \in Coordinates(b.idxV) |-> 0]
        armQ == Integrate(b, held, armV)
        baseQ == Integrate(b, held, baseV)
    IN  <<Merge(Owned(b.idxQ, GripperOwns(b)), held, Merge(Owned(b.idxQ, BaseOwns(b)), baseQ, armQ)),
          Merge(Owned(b.idxV, BaseOwns(b)), baseV, Merge(Owned(b.idxV, ArmOwns(b)), armV, still))>>

\* step() in an active mode: the gripper's target first, then the arm and the base.
ControlPeriod(motion, target, twist) ==
    LET b == body
        baseTwist == ScaledTwist(b, twist)
        merged == Merged(b, Held(b, target), ToV(b, motion), BaseVelocity(b, baseTwist))
    IN  /\ rounds < MaxRounds
        /\ WithinTravel(b, motion)
        /\ model' = merged[1]
        /\ jointCommand' = [q |-> merged[1], v |-> merged[2]]
        /\ wanted' = [angle |-> [n \in Names(b) |->
                                    IF n \in Gripper(b) /\ target # Absent THEN Bounded(target, Lowest, Highest)
                                    ELSE world.angle[n] + motion[n]],
                      rate |-> [n \in Names(b) |-> IF n \in Wheels(b) THEN WheelRate(b, baseTwist, n) ELSE 0]]
        /\ stage' = "drive"
        /\ rounds' = rounds + 1
        /\ UNCHANGED <<body, runtime, world, believedRoot, measured>>

\* Homing's command is the home configuration without velocities, and the last of all.
HomingCommand ==
    /\ stage = "control" /\ rounds \in 1..(MaxRounds - 1)
    /\ jointCommand' = [q |-> ToQ(body, body.home), v |-> Absent]
    /\ wanted' = [angle |-> body.home, rate |-> Rest(body)]
    /\ model' = Absent
    /\ stage' = "drive"
    /\ rounds' = MaxRounds
    /\ UNCHANGED <<body, runtime, world, believedRoot, measured>>

DataPathEnds ==
    /\ stage \in {"follow", "control"} /\ rounds = MaxRounds
    /\ body' = Absent /\ runtime' = "simulation" /\ stage' = "end" /\ rounds' = 0
    /\ world' = Absent /\ believedRoot' = Absent /\ measured' = Absent /\ model' = Absent
    /\ jointCommand' = Absent /\ wanted' = Absent

DataPathNext ==
    \/ \E b \in Candidates, r \in {"real", "simulation"} : Configure(b, r)
    \/ RobotDriverStep
    \/ TimePasses
    \/ SimulationStep
    \/ Follow
    \/ /\ stage = "control"
       /\ \E motion \in ArmMotions(body), target \in GripperTargets(body), twist \in BaseTwists(body) :
            ControlPeriod(motion, target, twist)
    \/ HomingCommand
    \/ DataPathEnds

DataPathSpec == DataPathInit /\ [][DataPathNext]_dataPathVars

-----------------------------------------------------------------------------
(* Properties.                                                             *)

SamePlace(p, r) == p[1] = r[1] /\ p[2] = r[2] /\ SameAngle(p[3], r[3])

\* joint by joint, a configuration vector says what the world is.
DescribesWorld(q) ==
    /\ \A n \in Controlled(body) : SameAngle(FromQ(body, q, n), world.angle[n])
    /\ body.base => SamePlace(RootOfQ(q), world.root)

\* Whatever the robot's joints, buses and runtime, the published state is the robot's: every
\* joint's angle and rate under its own index, and the base where the wheels took it, in the
\* body's frame (driver.py publish, engine.py read_robot_state, joint_positions_to_q,
\* wheel dead reckoning).
StateIsTheRobots ==
    /\ stage = "time" \/ (stage \in {"follow", "control"} /\ runtime = "simulation") =>
        /\ DescribesWorld(measured.q)
        /\ \A n \in Controlled(body) : measured.v[VelocityIndex(body, n)] = world.rate[n]

\* What a command means for a joint is what its actuator is told, clipped to its limits, and
\* a command that says nothing of velocities stops the wheels (step() of the controller
\* node, receive() of the driver, apply_joint_command of the simulation).
CommandReachesItsJoint ==
    stage \in {"time", "follow", "control"} /\ wanted # Absent =>
        /\ \A n \in InMode(body, "position") : world.goal[n] = wanted.angle[n]
        /\ \A n \in InMode(body, "velocity") : world.rate[n] = wanted.rate[n]

\* The controllers run open loop: they never look at the robot again, and yet, as long as the
\* robot does what it is told, the configuration they hold stays the robot's own.
OpenLoopHolds == stage = "control" /\ model # Absent => DescribesWorld(model)

\* Measured or held by the controllers, a configuration is the robot's.
ConfigurationsAreTheRobots == StateIsTheRobots /\ OpenLoopHolds

=============================================================================

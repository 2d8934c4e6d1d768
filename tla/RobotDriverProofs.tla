--------------------------- MODULE RobotDriverProofs ---------------------------
(***************************************************************************)
(* Proofs about the driver node and the maintenance tools, for any servos,   *)
(* controllers, retries and range of the registers, and whatever fails: the  *)
(* torque is only switched on over a goal that does not move the servo, no   *)
(* single mishap leaves a wheel turning, a state is published or accounted   *)
(* for, and a tool does to its servo what its operator asked for.            *)
(***************************************************************************)
EXTENDS ServoTools, FiniteSetTheorems, WellFoundedInduction, TLAPS

-----------------------------------------------------------------------------
(* The inductive invariant: of the node,                                   *)

\* The controllers are opened one by one, and all are open while the node serves.
OpenedInOrder ==
    /\ at = "open" => bus # {} /\ port = Controllers \ bus
    /\ at \in Configuring => port = (Controllers \ bus) \cup {First(bus)}
    /\ at \in Serving \cup {"close"} => port = Controllers
    /\ at = "ended" => port = {}

\* What the configuration of a servo has achieved at each of its stages.
ModeIsSet == at \in {"gains", "unlock", "write_gain", "lock", "verify", "stage", "torque_on"} => opmode[Servo]

GainsAreSet ==
    /\ \A s \in Servos \ Tuned : gains[s] = Gain
    /\ at \in {"stage", "torque_on"} => gains[Servo] = Gain

EepromIsLocked ==
    starts = 1 /\ at \in Configuring \cup {"open"} =>
        \A s \in Servos : locked[s] \/ (s = Servo /\ at \in {"write_gain", "lock"})

GoalIsStaged == at = "torque_on" => goal[Servo] = "safe"

ConfiguredSoFar == ModeIsSet /\ GainsAreSet /\ EepromIsLocked /\ GoalIsStaged

\* Which servos the sync reads of a step have dealt with, and what is known of each.
Accounted(s) == s \in values <=> issue[s] = None

ReadSoFar ==
    /\ at = "read" =>
         /\ bus # {} /\ pending \subseteq ServosOf(First(bus))
         /\ \A s \in pending : s \notin values /\ issue[s] # "fault"
         /\ \A s \in Servos :
              IF Controller[s] \in bus \ {First(bus)} THEN s \notin values /\ issue[s] = None
                                                      ELSE s \in pending \/ Accounted(s)
    /\ at = "publish" => \A s \in Servos : Accounted(s)

\* A wheel that stands, or is not to be held against the node; one that has at least been
\* told to stand, or could not be.
Still(s) == hits[s] = MaxHits \/ ~torque[s] \/ goal[s] = "safe"
Halted(s) == hits[s] # 0 \/ goal[s] = "safe"

WheelsOnTheWay ==
    /\ at \in Configuring \cup {"open", "rollback", "ended"} => \A s \in Wheels : Still(s)
    /\ at = "close" => \A s \in Wheels \ todo : Halted(s)
    /\ at = "disconnect" => \A s \in Wheels : Halted(s) /\ (Controller[s] \notin port => Still(s))

DriverInv == TypeOK /\ OpenedInOrder /\ ConfiguredSoFar /\ ReadSoFar

(* and of the tools.                                                       *)

\* A tool runs before the node does.
ToolRunsAlone ==
    /\ tool = None <=> toolAt = "none"
    /\ tool # None => NodeNotStarted

\* On the way of a tool's servo through its configuration, and out of it.
ToolStage ==
    tool # None =>
      /\ toolAt = "torque_on" => goal[S] = "safe"
      /\ toolAt = "start" => Program = "spin"
      /\ Program = "spin" =>
           /\ toolAt \in {"open", "torque_off", "mode", "stage"} => mishaps = MaxHits \/ ~Driven(S)
           /\ toolAt \in {"ping", "start"} => goal[S] = "safe"
           /\ toolAt = "interrupted" => mishaps # 0
           /\ toolAt = "disconnect" => mishaps # 0 \/ ~Driven(S)
           /\ toolAt # "probe"

\* A tool knows nothing and has written nothing before it takes keys.
ToolStartsAfresh ==
    tool # None /\ toolAt \notin {"work", "interrupted", "disconnect"} =>
        believed = 0 /\ written = 0 /\ ~unsure

\* What spin and jog make of their keys.
SpinState ==
    tool # None /\ Program = "spin" =>
      /\ believed \in (-MaxSpeed)..MaxSpeed
      /\ ~unsure => written = RawSpeed(believed)

JogState ==
    tool # None /\ Program = "jog" =>
      /\ believed \in (-(Span + MaxJogs))..(Span + MaxJogs)
      /\ \E lag \in -1..1 : written = angle_to_position(believed + lag)
      /\ ~unsure => written = angle_to_position(believed)

\* The new ID of set_id is not taken.
RenameState ==
    tool # None /\ toolAt = "work" /\ Program = "set_id" /\ ~excused =>
        \A t \in Bus(S) : stored[t] # tool.new

IInv ==
    /\ ToolTypeOK
    /\ DriverInv
    /\ tool = None => WheelsOnTheWay
    /\ ToolRunsAlone /\ ToolStage
    /\ ToolStartsAfresh /\ SpinState /\ JogState
    /\ RenameState /\ IdsStayDistinct

-----------------------------------------------------------------------------
(* The least of some natural numbers, and the widths of a register.        *)

\* A set of natural numbers has a least one.
LEMMA LeastNatural ==
  ASSUME NEW T \in SUBSET Nat, T # {}
  PROVE  \E n \in T : \A k \in T : n <= k
<1> DEFINE R == OpToRel(<, Nat)
<1>1. IsWellFoundedOn(R, Nat)
  BY NatLessThanWellFounded
<1>2. \A x, y \in Nat : <<y, x>> \in R <=> y < x
  BY DEF OpToRel
<1> HIDE DEF R
<1>3. PICK n \in T : \A k \in T : ~ (<<k, n>> \in R)
  BY <1>1, WFMin
<1>4. \A k \in T : k \in Nat /\ n \in Nat /\ ~(k < n)
  BY <1>2, <1>3
<1>5. \A k \in T : n <= k
  BY <1>4
<1>6. QED
  BY <1>5

\* The loops of the drivers take a servo, or a controller, of those that are left.
LEMMA FirstIsOne ==
  ASSUME NEW T \in SUBSET Nat, T # {}
  PROVE  First(T) \in T
BY LeastNatural DEF First

\* A register of at least one bit tells two magnitudes apart.
LEMMA MagnitudesDiffer == SpeedMagnitudes \in Nat /\ SpeedMagnitudes >= 2
<1>1. SpeedBits \in Nat \ {0}
  BY ToolAssumption
<1>2. IsFiniteSet(1 .. SpeedBits) /\ Cardinality(1 .. SpeedBits) = SpeedBits
  BY <1>1, FS_Interval
<1> DEFINE numbers == SUBSET (1 .. SpeedBits)
<1>3. IsFiniteSet(numbers) /\ Cardinality(numbers) = SpeedMagnitudes
  BY <1>2, FS_SUBSET DEF SpeedMagnitudes
<1>4. {} \in numbers /\ {1} \in numbers /\ {1} # {}
  BY <1>1
<1> HIDE DEF numbers
<1>5. Cardinality(numbers \ {{}}) = Cardinality(numbers) - 1 /\ IsFiniteSet(numbers \ {{}})
  BY <1>3, <1>4, FS_RemoveElement
<1>6. Cardinality(numbers \ {{}}) \in Nat
  BY <1>5, FS_CardinalityType
<1>7. Cardinality(numbers \ {{}}) # 0
  <2>1. {1} \in numbers \ {{}}
    BY <1>4
  <2>2. QED
    BY <1>5, <2>1, FS_EmptySet
<1>8. Cardinality(numbers) \in Nat
  BY <1>3, FS_CardinalityType
<1>9. QED
  BY <1>3, <1>5, <1>6, <1>7, <1>8

\* A node that configures has a controller and a servo to go on with.
LEMMA FirstOfNode ==
  ASSUME TypeOK, OpenedInOrder
  PROVE  /\ at \in Configuring => Servo \in todo /\ Servo \in Servos
         /\ at \in Configuring \cup {"open", "read"} /\ bus # {} => First(bus) \in bus
         /\ at \in Configuring \cup {"open"} => bus # {}
         /\ unwritten # {} => First(unwritten) \in Gain
         /\ First(Controllers) \in Controllers
<1>1. Servos \subseteq Nat /\ Controllers \subseteq Nat /\ Controllers # {} /\ Gain \subseteq Nat
  BY DriverAssumption DEF Gain
<1>2. at \in Configuring => Servo \in todo /\ Servo \in Servos
  <2>1. todo \subseteq Servos /\ (at \in Configuring => todo # {})
    BY DEF TypeOK
  <2>2. QED
    BY <1>1, <2>1, FirstIsOne DEF Servo
<1>3. bus \subseteq Controllers /\ (at \in Configuring \cup {"open"} => bus # {})
  BY DEF TypeOK, OpenedInOrder
<1>4. bus # {} => First(bus) \in bus
  BY <1>1, <1>3, FirstIsOne
<1>5. unwritten # {} => First(unwritten) \in unwritten /\ unwritten \subseteq Gain
  BY <1>1, FirstIsOne DEF TypeOK
<1>6. First(Controllers) \in Controllers
  BY <1>1, FirstIsOne
<1>7. QED
  BY <1>2, <1>3, <1>4, <1>5, <1>6

-----------------------------------------------------------------------------
(* The types.                                                              *)

RegistersTyped ==
    /\ torque \in [Servos -> BOOLEAN]
    /\ opmode \in [Servos -> BOOLEAN]
    /\ gains \in [Servos -> SUBSET Gain]
    /\ locked \in [Servos -> BOOLEAN]
    /\ goal \in [Servos -> {"stale", "safe", "commanded"}]

PlaceTyped ==
    /\ port \subseteq Controllers
    /\ at \in Stages
    /\ bus \subseteq Controllers /\ (at \in Configuring => bus # {})
    /\ todo \subseteq Servos /\ (at \in Configuring => todo # {})
    /\ unwritten \subseteq Gain

FlagsTyped == failing \in BOOLEAN /\ driving \in BOOLEAN /\ active \in BOOLEAN

ReadTyped ==
    /\ attempt \in 0..Retries
    /\ pending \subseteq Servos
    /\ values \subseteq Servos
    /\ issue \in [Servos -> {None, "bus", "missing", "fault"}]

CountsTyped ==
    /\ command \in {None, "drive", "halt", "bad"}
    /\ sent \in 0..MaxCommands
    /\ age \in 0..Timeout
    /\ faults \in 0..MaxFaults
    /\ hits \in [Wheels -> 0..MaxHits]
    /\ starts \in 1..MaxStarts

\* ToolTypeOK in the groups of variables that change together.
LEMMA TypeParts ==
  /\ TypeOK <=> RegistersTyped /\ PlaceTyped /\ FlagsTyped /\ ReadTyped /\ CountsTyped
  /\ TypeOK' <=> (RegistersTyped /\ PlaceTyped /\ FlagsTyped /\ ReadTyped /\ CountsTyped)'
BY Zenon DEF TypeOK, RegistersTyped, PlaceTyped, FlagsTyped, ReadTyped, CountsTyped

LEMMA Bounds ==
  /\ Retries \in Nat /\ Timeout \in Nat /\ MaxCommands \in Nat
  /\ MaxFaults \in Nat /\ MaxStarts \in Nat \ {0}
BY DriverAssumption

\* Losing what a process knew, and starting a process, keeps the types.
LEMMA TypeOfForget ==
  ASSUME ForgetStep
  PROVE  ReadTyped' /\ driving' \in BOOLEAN
<1>1. driving' \in BOOLEAN
  BY Zenon DEF ForgetStep
<1>2. ReadTyped'
  BY Bounds DEF ForgetStep, ReadTyped
<1>3. QED
  BY <1>1, <1>2

LEMMA TypeOfForgetProcess ==
  ASSUME ForgetProcess
  PROVE  ReadTyped' /\ FlagsTyped'
<1>1. failing' \in BOOLEAN /\ active' \in BOOLEAN /\ ForgetStep
  BY Zenon DEF ForgetProcess
<1>2. QED
  BY <1>1, TypeOfForget, Zenon DEF FlagsTyped

\* Every controller has a servo, and the wheels are servos.
LEMMA ControllerServos ==
  /\ \A c \in Controllers : ServosOf(c) # {} /\ ServosOf(c) \subseteq Servos
  /\ Wheels \subseteq Servos
BY DriverAssumption DEF ServosOf

\* What an attempt leaves of the servos of a read can be counted.
LEMMA FiniteLeft ==
  ASSUME TypeOK, NEW left \in SUBSET pending
  PROVE  Cardinality(left) \in Nat
<1>1. pending \subseteq Servos /\ IsFiniteSet(Servos)
  BY DriverAssumption DEF TypeOK
<1>2. IsFiniteSet(left)
  BY <1>1, FS_Subset
<1>3. QED
  BY <1>2, FS_CardinalityType

\* The types hold at first, and in every step of the node.
LEMMA InitType ==
  ASSUME Init
  PROVE  TypeOK
<1>1. RegistersTyped
  BY DEF Init, RegistersTyped, Gain
<1>2. PlaceTyped
  BY DEF Init, PlaceTyped, Stages, Configuring
<1>3. FlagsTyped
  BY Zenon DEF Init, FlagsTyped
<1>4. ReadTyped /\ CountsTyped
  BY Bounds DEF Init, ReadTyped, CountsTyped, MaxHits
<1>5. QED
  BY <1>1, <1>2, <1>3, <1>4, TypeParts

LEMMA ConnectType ==
  ASSUME TypeOK, OpenedInOrder, ConnectStep
  PROVE  TypeOK'
<1>1. ASSUME NEW ok \in BOOLEAN, Open(ok)
      PROVE  TypeOK'
  <2>1. RegistersTyped'
    BY <1>1, TypeParts, FirstOfNode DEF Open, RegistersTyped, registers
  <2>2. PlaceTyped'
    BY <1>1, TypeParts, FirstOfNode, ControllerServos DEF Open, PlaceTyped, Stages, Configuring,
       Abort
  <2>3. FlagsTyped'
    BY <1>1, TypeParts, Zenon DEF Open, FlagsTyped, watchdogVars
  <2>4. ReadTyped'
    BY <1>1, TypeParts, Bounds DEF Open, ReadTyped, readVars
  <2>5. CountsTyped'
    BY <1>1, TypeParts, Bounds DEF Open, CountsTyped, commandVars, watchdogVars, Fail, MaxHits
  <2>6. QED
    BY <2>1, <2>2, <2>3, <2>4, <2>5, TypeParts
<1>2. ASSUME NEW ok \in BOOLEAN, ReadGains(ok)
      PROVE  TypeOK'
  <2>1. RegistersTyped'
    BY <1>2, TypeParts, FirstOfNode DEF ReadGains, RegistersTyped, registers
  <2>2. PlaceTyped'
    BY <1>2, TypeParts, FirstOfNode DEF ReadGains, PlaceTyped, Stages, Configuring, Serving, Abort,
       Going, configureVars
  <2>3. FlagsTyped'
    BY <1>2, TypeParts, Zenon DEF ReadGains, FlagsTyped, configureVars, watchdogVars
  <2>4. ReadTyped'
    BY <1>2, TypeParts, Bounds DEF ReadGains, ReadTyped, configureVars, readVars
  <2>5. CountsTyped'
    BY <1>2, TypeParts, Bounds DEF ReadGains, CountsTyped, configureVars, commandVars,
       watchdogVars, Fail, MaxHits
  <2>6. QED
    BY <2>1, <2>2, <2>3, <2>4, <2>5, TypeParts
<1>3. ASSUME NEW ok \in BOOLEAN, VerifyGains(ok)
      PROVE  TypeOK'
  <2>1. RegistersTyped'
    BY <1>3, TypeParts, FirstOfNode DEF VerifyGains, RegistersTyped, registers
  <2>2. PlaceTyped'
    BY <1>3, TypeParts, FirstOfNode DEF VerifyGains, PlaceTyped, Stages, Configuring, Serving,
       Abort, Going, configureVars
  <2>3. FlagsTyped'
    BY <1>3, TypeParts, Zenon DEF VerifyGains, FlagsTyped, configureVars, watchdogVars
  <2>4. ReadTyped'
    BY <1>3, TypeParts, Bounds DEF VerifyGains, ReadTyped, configureVars, readVars
  <2>5. CountsTyped'
    BY <1>3, TypeParts, Bounds DEF VerifyGains, CountsTyped, configureVars, commandVars,
       watchdogVars, Fail, MaxHits
  <2>6. QED
    BY <2>1, <2>2, <2>3, <2>4, <2>5, TypeParts
<1>4. ASSUME NEW answer, DisableTorque(answer)
      PROVE  TypeOK'
  <2>1. RegistersTyped'
    BY <1>4, TypeParts, FirstOfNode DEF DisableTorque, RegistersTyped, Configuring
  <2>2. PlaceTyped'
    BY <1>4, TypeParts, FirstOfNode DEF DisableTorque, PlaceTyped, Stages, Configuring, Serving,
       Abort, Going, configureVars
  <2>3. FlagsTyped'
    BY <1>4, TypeParts, Zenon DEF DisableTorque, FlagsTyped, configureVars, watchdogVars
  <2>4. ReadTyped'
    BY <1>4, TypeParts, Bounds DEF DisableTorque, ReadTyped, configureVars, readVars
  <2>5. CountsTyped'
    BY <1>4, TypeParts, Bounds DEF DisableTorque, CountsTyped, configureVars, commandVars,
       watchdogVars, Answered, Fail, MaxHits
  <2>6. QED
    BY <2>1, <2>2, <2>3, <2>4, <2>5, TypeParts
<1>5. ASSUME NEW answer, SetMode(answer)
      PROVE  TypeOK'
  <2>1. RegistersTyped'
    BY <1>5, TypeParts, FirstOfNode DEF SetMode, RegistersTyped, Configuring
  <2>2. PlaceTyped'
    BY <1>5, TypeParts, FirstOfNode DEF SetMode, PlaceTyped, Stages, Configuring, Serving, Abort,
       Going, configureVars
  <2>3. FlagsTyped'
    BY <1>5, TypeParts, Zenon DEF SetMode, FlagsTyped, configureVars, watchdogVars
  <2>4. ReadTyped'
    BY <1>5, TypeParts, Bounds DEF SetMode, ReadTyped, configureVars, readVars
  <2>5. CountsTyped'
    BY <1>5, TypeParts, Bounds DEF SetMode, CountsTyped, configureVars, commandVars, watchdogVars,
       Answered, Fail, MaxHits
  <2>6. QED
    BY <2>1, <2>2, <2>3, <2>4, <2>5, TypeParts
<1>6. ASSUME NEW answer, LockEeprom(answer)
      PROVE  TypeOK'
  <2>1. RegistersTyped'
    BY <1>6, TypeParts, FirstOfNode DEF LockEeprom, RegistersTyped, Configuring
  <2>2. PlaceTyped'
    BY <1>6, TypeParts, FirstOfNode DEF LockEeprom, PlaceTyped, Stages, Configuring, Serving,
       Abort, Going, configureVars
  <2>3. FlagsTyped'
    BY <1>6, TypeParts, Zenon DEF LockEeprom, FlagsTyped, configureVars, watchdogVars
  <2>4. ReadTyped'
    BY <1>6, TypeParts, Bounds DEF LockEeprom, ReadTyped, configureVars, readVars
  <2>5. CountsTyped'
    BY <1>6, TypeParts, Bounds DEF LockEeprom, CountsTyped, configureVars, commandVars,
       watchdogVars, Answered, Fail, MaxHits
  <2>6. QED
    BY <2>1, <2>2, <2>3, <2>4, <2>5, TypeParts
<1>7. ASSUME NEW answer, StageGoal(answer)
      PROVE  TypeOK'
  <2>1. RegistersTyped'
    BY <1>7, TypeParts, FirstOfNode DEF StageGoal, RegistersTyped, Configuring
  <2>2. PlaceTyped'
    BY <1>7, TypeParts, FirstOfNode DEF StageGoal, PlaceTyped, Stages, Configuring, Serving, Abort,
       Going, configureVars
  <2>3. FlagsTyped'
    BY <1>7, TypeParts, Zenon DEF StageGoal, FlagsTyped, configureVars, watchdogVars
  <2>4. ReadTyped'
    BY <1>7, TypeParts, Bounds DEF StageGoal, ReadTyped, configureVars, readVars
  <2>5. CountsTyped'
    BY <1>7, TypeParts, Bounds DEF StageGoal, CountsTyped, configureVars, commandVars,
       watchdogVars, Answered, Fail, MaxHits
  <2>6. QED
    BY <2>1, <2>2, <2>3, <2>4, <2>5, TypeParts
<1>8. ASSUME NEW answer, EnableTorque(answer)
      PROVE  TypeOK'
  <2>1. RegistersTyped'
    BY <1>8, TypeParts, FirstOfNode DEF EnableTorque, RegistersTyped, Configuring
  <2>2. PlaceTyped'
    BY <1>8, TypeParts, FirstOfNode DEF EnableTorque, PlaceTyped, Stages, Configuring, Serving,
       Abort, configureVars
  <2>3. FlagsTyped'
    BY <1>8, TypeParts, Zenon DEF EnableTorque, FlagsTyped, configureVars, watchdogVars
  <2>4. ReadTyped'
    BY <1>8, TypeParts, Bounds DEF EnableTorque, ReadTyped, configureVars, readVars
  <2>5. CountsTyped'
    BY <1>8, TypeParts, Bounds DEF EnableTorque, CountsTyped, configureVars, commandVars,
       watchdogVars, Answered, Fail, MaxHits
  <2>6. QED
    BY <2>1, <2>2, <2>3, <2>4, <2>5, TypeParts
<1>9. ASSUME NEW answer, UnlockEeprom(answer)
      PROVE  TypeOK'
  <2>1. RegistersTyped'
    BY <1>9, TypeParts, FirstOfNode DEF UnlockEeprom, RegistersTyped, Configuring
  <2>2. PlaceTyped'
    BY <1>9, TypeParts, FirstOfNode DEF UnlockEeprom, PlaceTyped, Stages, Configuring, Serving,
       Abort, Going, configureVars
  <2>3. FlagsTyped'
    BY <1>9, TypeParts, Zenon DEF UnlockEeprom, FlagsTyped, configureVars, watchdogVars
  <2>4. ReadTyped'
    BY <1>9, TypeParts, Bounds DEF UnlockEeprom, ReadTyped, configureVars, readVars
  <2>5. CountsTyped'
    BY <1>9, TypeParts, Bounds DEF UnlockEeprom, CountsTyped, configureVars, commandVars,
       watchdogVars, Answered, Fail, MaxHits
  <2>6. QED
    BY <2>1, <2>2, <2>3, <2>4, <2>5, TypeParts
<1>10. ASSUME NEW answer, WriteGain(answer)
       PROVE  TypeOK'
  <2>1. RegistersTyped'
    BY <1>10, TypeParts, FirstOfNode DEF WriteGain, RegistersTyped, Configuring
  <2>2. PlaceTyped'
    BY <1>10, TypeParts, FirstOfNode DEF WriteGain, PlaceTyped, Stages, Configuring, Serving,
       Going, configureVars
  <2>3. FlagsTyped'
    BY <1>10, TypeParts, Zenon DEF WriteGain, FlagsTyped, configureVars, watchdogVars
  <2>4. ReadTyped'
    BY <1>10, TypeParts, Bounds DEF WriteGain, ReadTyped, configureVars, readVars
  <2>5. CountsTyped'
    BY <1>10, TypeParts, Bounds DEF WriteGain, CountsTyped, configureVars, commandVars,
       watchdogVars, Answered, Fail, MaxHits
  <2>6. QED
    BY <2>1, <2>2, <2>3, <2>4, <2>5, TypeParts
<1>11. QED
  BY <1>1, <1>2, <1>3, <1>4, <1>5, <1>6, <1>7, <1>8, <1>9, <1>10 DEF ConnectStep

LEMMA ServeType ==
  ASSUME TypeOK, OpenedInOrder, ServeStep
  PROVE  TypeOK'
<1>1. ASSUME ReceiveCommand
      PROVE  TypeOK'
  <2>1. RegistersTyped'
    BY <1>1, TypeParts, FirstOfNode, ControllerServos DEF ReceiveCommand, RegistersTyped, registers
  <2>2. PlaceTyped'
    BY <1>1, TypeParts, FirstOfNode, ControllerServos DEF ReceiveCommand, PlaceTyped, Stages,
       Configuring, Serving, Raise, serveVars, PositionControllers
  <2>3. FlagsTyped'
    BY <1>1, TypeParts, Zenon DEF ReceiveCommand, FlagsTyped, serveVars, watchdogVars, Raise,
       ForgetStep
  <2>4. ReadTyped'
    BY <1>1, TypeParts, Bounds DEF ReceiveCommand, ReadTyped, readVars, Raise, ForgetStep
  <2>5. CountsTyped'
    BY <1>1, TypeParts, Bounds DEF ReceiveCommand, CountsTyped, serveVars, watchdogVars, MaxHits
  <2>6. QED
    BY <2>1, <2>2, <2>3, <2>4, <2>5, TypeParts
<1>2. ASSUME NEW answer, WritePositions(answer)
      PROVE  TypeOK'
  <2>1. RegistersTyped'
    BY <1>2, TypeParts, FirstOfNode, ControllerServos DEF WritePositions, RegistersTyped
  <2>2. PlaceTyped'
    BY <1>2, TypeParts, FirstOfNode, ControllerServos DEF WritePositions, PlaceTyped, Stages,
       Configuring, Serving, Raise, serveVars, stepVars
  <2>3. FlagsTyped'
    BY <1>2, TypeParts, Zenon DEF WritePositions, FlagsTyped, serveVars, watchdogVars, stepVars,
       Raise, ForgetStep
  <2>4. ReadTyped'
    BY <1>2, TypeParts, Bounds DEF WritePositions, ReadTyped, stepVars, readVars, Raise,
       ForgetStep, ServosOf
  <2>5. CountsTyped'
    BY <1>2, TypeParts, Bounds DEF WritePositions, CountsTyped, serveVars, watchdogVars, Answered,
       Fail, MaxHits
  <2>6. QED
    BY <2>1, <2>2, <2>3, <2>4, <2>5, TypeParts
<1>3. ASSUME NEW answer, WriteVelocity(answer)
      PROVE  TypeOK'
  <2>1. RegistersTyped'
    BY <1>3, TypeParts, FirstOfNode, ControllerServos DEF WriteVelocity, RegistersTyped
  <2>2. PlaceTyped'
    BY <1>3, TypeParts, FirstOfNode, ControllerServos DEF WriteVelocity, PlaceTyped, Stages,
       Configuring, Serving, Raise, Going, serveVars, stepVars
  <2>3. FlagsTyped'
    BY <1>3, TypeParts, Zenon DEF WriteVelocity, FlagsTyped, serveVars, watchdogVars, stepVars,
       Raise, ForgetStep
  <2>4. ReadTyped'
    BY <1>3, TypeParts, Bounds DEF WriteVelocity, ReadTyped, stepVars, readVars, Raise, ForgetStep
  <2>5. CountsTyped'
    BY <1>3, TypeParts, Bounds DEF WriteVelocity, CountsTyped, serveVars, watchdogVars, Answered,
       Fail, MaxHits
  <2>6. QED
    BY <2>1, <2>2, <2>3, <2>4, <2>5, TypeParts
<1>4. ASSUME NEW answer, StopWheel(answer)
      PROVE  TypeOK'
  <2>1. RegistersTyped'
    BY <1>4, TypeParts, FirstOfNode, ControllerServos DEF StopWheel, RegistersTyped
  <2>2. PlaceTyped'
    BY <1>4, TypeParts, FirstOfNode, ControllerServos DEF StopWheel, PlaceTyped, Stages,
       Configuring, Serving
  <2>3. FlagsTyped'
    BY <1>4, TypeParts, Zenon DEF StopWheel, FlagsTyped, watchdogVars
  <2>4. ReadTyped'
    BY <1>4, TypeParts, Bounds DEF StopWheel, ReadTyped, readVars
  <2>5. CountsTyped'
    BY <1>4, TypeParts, Bounds DEF StopWheel, CountsTyped, Answered, Fail, Strike, MaxHits,
       commandVars, watchdogVars
  <2>6. QED
    BY <2>1, <2>2, <2>3, <2>4, <2>5, TypeParts
<1>5. ASSUME ObserveCommand
      PROVE  TypeOK'
  <2>1. RegistersTyped'
    BY <1>5, TypeParts, FirstOfNode, ControllerServos DEF ObserveCommand, RegistersTyped, registers
  <2>2. PlaceTyped'
    BY <1>5, TypeParts, FirstOfNode, ControllerServos DEF ObserveCommand, PlaceTyped, Stages,
       Configuring, Serving, StartRead, serveVars
  <2>3. FlagsTyped'
    BY <1>5, TypeParts, Zenon DEF ObserveCommand, FlagsTyped, serveVars, StartRead
  <2>4. ReadTyped'
    BY <1>5, TypeParts, Bounds DEF ObserveCommand, ReadTyped, StartRead, ServosOf
  <2>5. CountsTyped'
    BY <1>5, TypeParts, Bounds DEF ObserveCommand, CountsTyped, serveVars, MaxHits
  <2>6. QED
    BY <2>1, <2>2, <2>3, <2>4, <2>5, TypeParts
<1>6. ASSUME NoCommand
      PROVE  TypeOK'
  <2>1. RegistersTyped'
    BY <1>6, TypeParts, FirstOfNode, ControllerServos DEF NoCommand, RegistersTyped, registers
  <2>2. PlaceTyped'
    BY <1>6, TypeParts, FirstOfNode, ControllerServos DEF NoCommand, PlaceTyped, Stages,
       Configuring, Serving, StartRead, serveVars, stepVars
  <2>3. FlagsTyped'
    BY <1>6, TypeParts, Zenon DEF NoCommand, FlagsTyped, serveVars, watchdogVars, stepVars,
       StartRead
  <2>4. ReadTyped'
    BY <1>6, TypeParts, Bounds DEF NoCommand, ReadTyped, stepVars, readVars, StartRead, ServosOf
  <2>5. CountsTyped'
    BY <1>6, TypeParts, Bounds DEF NoCommand, CountsTyped, serveVars, watchdogVars, MaxHits
  <2>6. QED
    BY <2>1, <2>2, <2>3, <2>4, <2>5, TypeParts
<1>7. ASSUME StopEnds
      PROVE  TypeOK'
  <2>1. RegistersTyped'
    BY <1>7, TypeParts, FirstOfNode, ControllerServos DEF StopEnds, RegistersTyped, registers
  <2>2. PlaceTyped'
    BY <1>7, TypeParts, FirstOfNode, ControllerServos DEF StopEnds, PlaceTyped, Stages,
       Configuring, Serving, Raise, StartRead
  <2>3. FlagsTyped'
    BY <1>7, TypeParts, Zenon DEF StopEnds, FlagsTyped, Raise, ForgetStep, StartRead
  <2>4. ReadTyped'
    BY <1>7, TypeParts, Bounds DEF StopEnds, ReadTyped, Raise, ForgetStep, StartRead, ServosOf
  <2>5. CountsTyped'
    BY <1>7, TypeParts, Bounds DEF StopEnds, CountsTyped, commandVars, MaxHits
  <2>6. QED
    BY <2>1, <2>2, <2>3, <2>4, <2>5, TypeParts
<1>8. ASSUME NEW reply \in [pending -> {"value", "missing", "fault"}], ReadAttempt(reply)
      PROVE  TypeOK'
  <2>1. RegistersTyped'
    BY <1>8, TypeParts, FirstOfNode, ControllerServos DEF ReadAttempt, RegistersTyped, registers
  <2>2. PlaceTyped'
    BY <1>8, TypeParts, FirstOfNode, ControllerServos DEF ReadAttempt, PlaceTyped, Stages,
       Configuring, Serving, NextController
  <2>3. FlagsTyped'
    BY <1>8, TypeParts, Zenon DEF ReadAttempt, FlagsTyped, watchdogVars
  <2>4. ReadTyped'
    BY <1>8, TypeParts, Bounds DEF ReadAttempt, ReadTyped, NextController, RetryAgain, ServosOf
  <2>5. CountsTyped'
    BY <1>8, TypeParts, Bounds, FiniteLeft DEF ReadAttempt, CountsTyped, Fail, MaxHits,
       commandVars, watchdogVars
  <2>6. QED
    BY <2>1, <2>2, <2>3, <2>4, <2>5, TypeParts
<1>9. ASSUME ReadFails
      PROVE  TypeOK'
  <2>1. RegistersTyped'
    BY <1>9, TypeParts, FirstOfNode, ControllerServos DEF ReadFails, RegistersTyped, registers
  <2>2. PlaceTyped'
    BY <1>9, TypeParts, FirstOfNode, ControllerServos DEF ReadFails, PlaceTyped, Stages,
       Configuring, Serving, Raise
  <2>3. FlagsTyped'
    BY <1>9, TypeParts, Zenon DEF ReadFails, FlagsTyped, watchdogVars, Raise, ForgetStep
  <2>4. ReadTyped'
    BY <1>9, TypeParts, Bounds DEF ReadFails, ReadTyped, Raise, ForgetStep
  <2>5. CountsTyped'
    BY <1>9, TypeParts, Bounds DEF ReadFails, CountsTyped, commandVars, watchdogVars, Fail, MaxHits
  <2>6. QED
    BY <2>1, <2>2, <2>3, <2>4, <2>5, TypeParts
<1>10. ASSUME Publish
       PROVE  TypeOK'
  <2>1. RegistersTyped'
    BY <1>10, TypeParts, FirstOfNode, ControllerServos DEF Publish, RegistersTyped, registers
  <2>2. PlaceTyped'
    BY <1>10, TypeParts, FirstOfNode, ControllerServos DEF Publish, PlaceTyped, Stages,
       Configuring, Serving, Raise, Going
  <2>3. FlagsTyped'
    BY <1>10, TypeParts, Zenon DEF Publish, FlagsTyped, watchdogVars, Raise, ForgetStep
  <2>4. ReadTyped'
    BY <1>10, TypeParts, Bounds DEF Publish, ReadTyped, Raise, ForgetStep
  <2>5. CountsTyped'
    BY <1>10, TypeParts, Bounds DEF Publish, CountsTyped, commandVars, watchdogVars, MaxHits
  <2>6. QED
    BY <2>1, <2>2, <2>3, <2>4, <2>5, TypeParts
<1>11. QED
  BY <1>1, <1>2, <1>3, <1>4, <1>5, <1>6, <1>7, <1>8, <1>9, <1>10 DEF ServeStep

LEMMA OtherType ==
  ASSUME TypeOK, OpenedInOrder,
         CloseStep \/ Interrupt \/ Kill \/ Restart \/ Tick
           \/ \E kind \in {"drive", "halt", "bad"} : PublishCommand(kind)
  PROVE  TypeOK'
<1>1. ASSUME CloseStopEnds
      PROVE  TypeOK'
  <2>1. RegistersTyped'
    BY <1>1, TypeParts, DriverAssumption DEF CloseStopEnds, RegistersTyped, registers
  <2>2. PlaceTyped'
    BY <1>1, TypeParts, DriverAssumption DEF CloseStopEnds, PlaceTyped, Stages, Configuring,
       Serving, OpenedInOrder
  <2>3. FlagsTyped'
    BY <1>1, TypeParts, Zenon DEF CloseStopEnds, FlagsTyped
  <2>4. ReadTyped'
    BY <1>1, TypeParts, Bounds DEF CloseStopEnds, ReadTyped, readVars
  <2>5. CountsTyped'
    BY <1>1, TypeParts, Bounds DEF CloseStopEnds, CountsTyped, commandVars, MaxHits
  <2>6. QED
    BY <2>1, <2>2, <2>3, <2>4, <2>5, TypeParts
<1>2. ASSUME NEW stuck \in SUBSET Servos, Disconnect(stuck)
      PROVE  TypeOK'
  <2>1. RegistersTyped'
    BY <1>2, TypeParts, DriverAssumption DEF Disconnect, RegistersTyped
  <2>2. PlaceTyped'
    BY <1>2, TypeParts, DriverAssumption DEF Disconnect, PlaceTyped, Stages, Configuring, Serving,
       OpenedInOrder
  <2>3. FlagsTyped'
    BY <1>2, TypeParts, Zenon DEF Disconnect, FlagsTyped, watchdogVars
  <2>4. ReadTyped'
    BY <1>2, TypeParts, Bounds DEF Disconnect, ReadTyped, readVars
  <2>5. CountsTyped'
    BY <1>2, TypeParts, Bounds DEF Disconnect, CountsTyped, commandVars, watchdogVars, Strike,
       MaxHits
  <2>6. QED
    BY <2>1, <2>2, <2>3, <2>4, <2>5, TypeParts
<1>3. ASSUME Exit
      PROVE  TypeOK'
  <2>1. RegistersTyped'
    BY <1>3, TypeParts, DriverAssumption DEF Exit, RegistersTyped, registers, ForgetProcess
  <2>2. PlaceTyped'
    BY <1>3, TypeParts, DriverAssumption DEF Exit, PlaceTyped, Stages, Configuring, Serving,
       ForgetProcess, ForgetStep, OpenedInOrder
  <2>3. FlagsTyped'
    BY <1>3, TypeParts, Zenon DEF Exit, FlagsTyped, ForgetProcess, ForgetStep
  <2>4. ReadTyped'
    BY <1>3, TypeParts, Bounds DEF Exit, ReadTyped, ForgetStep, ForgetProcess
  <2>5. CountsTyped'
    BY <1>3, TypeParts, Bounds DEF Exit, CountsTyped, MaxHits, ForgetProcess
  <2>6. QED
    BY <2>1, <2>2, <2>3, <2>4, <2>5, TypeParts
<1>4. ASSUME Interrupt
      PROVE  TypeOK'
  <2>1. RegistersTyped'
    BY <1>4, TypeParts, DriverAssumption DEF Interrupt, RegistersTyped, registers, ForgetProcess
  <2>2. PlaceTyped'
    BY <1>4, TypeParts, DriverAssumption DEF Interrupt, PlaceTyped, Stages, Configuring, Serving,
       ForgetProcess, ForgetStep, OpenedInOrder
  <2>3. FlagsTyped'
    BY <1>4, TypeParts, Zenon DEF Interrupt, FlagsTyped, watchdogVars, ForgetProcess, ForgetStep
  <2>4. ReadTyped'
    BY <1>4, TypeParts, Bounds DEF Interrupt, ReadTyped, ForgetStep, ForgetProcess
  <2>5. CountsTyped'
    BY <1>4, TypeParts, Bounds DEF Interrupt, CountsTyped, watchdogVars, Strike, MaxHits,
       ForgetProcess
  <2>6. QED
    BY <2>1, <2>2, <2>3, <2>4, <2>5, TypeParts
<1>5. ASSUME Kill
      PROVE  TypeOK'
  <2>1. RegistersTyped'
    BY <1>5, TypeParts, DriverAssumption DEF Kill, RegistersTyped, registers, ForgetProcess
  <2>2. PlaceTyped'
    BY <1>5, TypeParts, DriverAssumption DEF Kill, PlaceTyped, Stages, Configuring, Serving,
       ForgetProcess, ForgetStep, OpenedInOrder
  <2>3. FlagsTyped'
    BY <1>5, TypeParts, Zenon DEF Kill, FlagsTyped, ForgetProcess, ForgetStep
  <2>4. ReadTyped'
    BY <1>5, TypeParts, Bounds DEF Kill, ReadTyped, ForgetStep, ForgetProcess
  <2>5. CountsTyped'
    BY <1>5, TypeParts, Bounds DEF Kill, CountsTyped, MaxHits, ForgetProcess
  <2>6. QED
    BY <2>1, <2>2, <2>3, <2>4, <2>5, TypeParts
<1>6. ASSUME Restart
      PROVE  TypeOK'
  <2>1. RegistersTyped'
    BY <1>6, TypeParts, DriverAssumption DEF Restart, RegistersTyped, registers
  <2>2. PlaceTyped'
    BY <1>6, TypeParts, DriverAssumption DEF Restart, PlaceTyped, Stages, Configuring, Serving,
       OpenedInOrder
  <2>3. FlagsTyped'
    BY <1>6, TypeParts, Zenon DEF Restart, FlagsTyped, watchdogVars, stepVars
  <2>4. ReadTyped'
    BY <1>6, TypeParts, Bounds DEF Restart, ReadTyped, stepVars, readVars
  <2>5. CountsTyped'
    BY <1>6, TypeParts, Bounds DEF Restart, CountsTyped, commandVars, watchdogVars, MaxHits
  <2>6. QED
    BY <2>1, <2>2, <2>3, <2>4, <2>5, TypeParts
<1>7. ASSUME NEW kind \in {"drive", "halt", "bad"}, PublishCommand(kind)
      PROVE  TypeOK'
  <2>1. RegistersTyped'
    BY <1>7, TypeParts, DriverAssumption DEF PublishCommand, RegistersTyped, registers
  <2>2. PlaceTyped'
    BY <1>7, TypeParts, DriverAssumption DEF PublishCommand, PlaceTyped, Stages, Configuring,
       Serving, OpenedInOrder
  <2>3. FlagsTyped'
    BY <1>7, TypeParts, Zenon DEF PublishCommand, FlagsTyped, watchdogVars
  <2>4. ReadTyped'
    BY <1>7, TypeParts, Bounds DEF PublishCommand, ReadTyped, readVars
  <2>5. CountsTyped'
    BY <1>7, TypeParts, Bounds DEF PublishCommand, CountsTyped, watchdogVars, MaxHits
  <2>6. QED
    BY <2>1, <2>2, <2>3, <2>4, <2>5, TypeParts
<1>8. ASSUME Tick
      PROVE  TypeOK'
  <2>1. RegistersTyped'
    BY <1>8, TypeParts, DriverAssumption DEF Tick, RegistersTyped, registers
  <2>2. PlaceTyped'
    BY <1>8, TypeParts, DriverAssumption DEF Tick, PlaceTyped, Stages, Configuring, Serving,
       OpenedInOrder
  <2>3. FlagsTyped'
    BY <1>8, TypeParts, Zenon DEF Tick, FlagsTyped
  <2>4. ReadTyped'
    BY <1>8, TypeParts, Bounds DEF Tick, ReadTyped, readVars
  <2>5. CountsTyped'
    BY <1>8, TypeParts, Bounds DEF Tick, CountsTyped, commandVars, MaxHits
  <2>6. QED
    BY <2>1, <2>2, <2>3, <2>4, <2>5, TypeParts
<1>9. QED
  BY <1>1, <1>2, <1>3, <1>4, <1>5, <1>6, <1>7, <1>8 DEF CloseStep

-----------------------------------------------------------------------------
(* The controllers.                                                        *)

\* Each part of DriverInv in every step of the node: the ports,
LEMMA OpenedStep ==
  ASSUME TypeOK, OpenedInOrder, Next
  PROVE  OpenedInOrder'
<1>1. ASSUME NEW ok \in BOOLEAN, Open(ok)
      PROVE  OpenedInOrder'
  BY <1>1, FirstOfNode, TypeParts DEF Open, OpenedInOrder, Configuring, Serving, Abort, PlaceTyped
<1>2. ASSUME NEW ok \in BOOLEAN, ReadGains(ok)
      PROVE  OpenedInOrder'
  BY <1>2, FirstOfNode DEF ReadGains, OpenedInOrder, Configuring, Serving, Abort, Going,
     configureVars
<1>3. ASSUME NEW ok \in BOOLEAN, VerifyGains(ok)
      PROVE  OpenedInOrder'
  BY <1>3, FirstOfNode DEF VerifyGains, OpenedInOrder, Configuring, Serving, Abort, Going,
     configureVars
<1>4. ASSUME NEW answer, DisableTorque(answer)
      PROVE  OpenedInOrder'
  BY <1>4, FirstOfNode DEF DisableTorque, OpenedInOrder, Configuring, Serving, Abort, Going,
     configureVars
<1>5. ASSUME NEW answer, SetMode(answer)
      PROVE  OpenedInOrder'
  BY <1>5, FirstOfNode DEF SetMode, OpenedInOrder, Configuring, Serving, Abort, Going,
     configureVars
<1>6. ASSUME NEW answer, LockEeprom(answer)
      PROVE  OpenedInOrder'
  BY <1>6, FirstOfNode DEF LockEeprom, OpenedInOrder, Configuring, Serving, Abort, Going,
     configureVars
<1>7. ASSUME NEW answer, StageGoal(answer)
      PROVE  OpenedInOrder'
  BY <1>7, FirstOfNode DEF StageGoal, OpenedInOrder, Configuring, Serving, Abort, Going,
     configureVars
<1>8. ASSUME NEW answer, EnableTorque(answer)
      PROVE  OpenedInOrder'
  BY <1>8, FirstOfNode, TypeParts DEF EnableTorque, OpenedInOrder, Configuring, Serving, Abort,
     configureVars, PlaceTyped
<1>9. ASSUME NEW answer, UnlockEeprom(answer)
      PROVE  OpenedInOrder'
  BY <1>9, FirstOfNode DEF UnlockEeprom, OpenedInOrder, Configuring, Serving, Abort, Going,
     configureVars
<1>10. ASSUME NEW answer, WriteGain(answer)
       PROVE  OpenedInOrder'
  BY <1>10, FirstOfNode DEF WriteGain, OpenedInOrder, Configuring, Serving, Going, configureVars
<1>11. ASSUME ReceiveCommand
       PROVE  OpenedInOrder'
  BY <1>11, FirstOfNode DEF ReceiveCommand, OpenedInOrder, Configuring, Serving, serveVars, Raise
<1>12. ASSUME NEW answer, WritePositions(answer)
       PROVE  OpenedInOrder'
  BY <1>12, FirstOfNode DEF WritePositions, OpenedInOrder, Configuring, Serving, serveVars,
     stepVars, Raise
<1>13. ASSUME NEW answer, WriteVelocity(answer)
       PROVE  OpenedInOrder'
  BY <1>13, FirstOfNode DEF WriteVelocity, OpenedInOrder, Configuring, Serving, Going, serveVars,
     stepVars, Raise
<1>14. ASSUME NEW answer, StopWheel(answer)
       PROVE  OpenedInOrder'
  BY <1>14, FirstOfNode DEF StopWheel, OpenedInOrder, Configuring, Serving
<1>15. ASSUME ObserveCommand
       PROVE  OpenedInOrder'
  BY <1>15, FirstOfNode DEF ObserveCommand, OpenedInOrder, Configuring, Serving, serveVars,
     StartRead
<1>16. ASSUME NoCommand
       PROVE  OpenedInOrder'
  BY <1>16, FirstOfNode DEF NoCommand, OpenedInOrder, Configuring, Serving, serveVars, stepVars,
     StartRead
<1>17. ASSUME StopEnds
       PROVE  OpenedInOrder'
  BY <1>17, FirstOfNode DEF StopEnds, OpenedInOrder, Configuring, Serving, Raise, StartRead
<1>18. ASSUME NEW reply \in [pending -> {"value", "missing", "fault"}], ReadAttempt(reply)
       PROVE  OpenedInOrder'
  BY <1>18, FirstOfNode DEF ReadAttempt, OpenedInOrder, Configuring, Serving, NextController
<1>19. ASSUME ReadFails
       PROVE  OpenedInOrder'
  BY <1>19, FirstOfNode DEF ReadFails, OpenedInOrder, Configuring, Serving, Raise
<1>20. ASSUME Publish
       PROVE  OpenedInOrder'
  BY <1>20, FirstOfNode DEF Publish, OpenedInOrder, Configuring, Serving, Going, Raise
<1>21. ASSUME CloseStopEnds
       PROVE  OpenedInOrder'
  BY <1>21, FirstOfNode DEF CloseStopEnds, OpenedInOrder, Configuring, Serving
<1>22. ASSUME NEW stuck \in SUBSET Servos, Disconnect(stuck)
       PROVE  OpenedInOrder'
  BY <1>22, FirstOfNode DEF Disconnect, OpenedInOrder, Configuring, Serving
<1>23. ASSUME Exit
       PROVE  OpenedInOrder'
  BY <1>23, FirstOfNode DEF Exit, OpenedInOrder, Configuring, Serving, ForgetProcess
<1>24. ASSUME Interrupt
       PROVE  OpenedInOrder'
  BY <1>24, FirstOfNode DEF Interrupt, OpenedInOrder, Configuring, Serving, ForgetProcess
<1>25. ASSUME Kill
       PROVE  OpenedInOrder'
  BY <1>25, FirstOfNode DEF Kill, OpenedInOrder, Configuring, Serving, ForgetProcess
<1>26. ASSUME Restart
       PROVE  OpenedInOrder'
  BY <1>26, FirstOfNode DEF Restart, OpenedInOrder, Configuring, Serving, stepVars
<1>27. ASSUME NEW kind \in {"drive", "halt", "bad"}, PublishCommand(kind)
       PROVE  OpenedInOrder'
  BY <1>27, FirstOfNode DEF PublishCommand, OpenedInOrder, Configuring, Serving
<1>28. ASSUME Tick
       PROVE  OpenedInOrder'
  BY <1>28, FirstOfNode DEF Tick, OpenedInOrder, Configuring, Serving
<1>29. QED
  BY <1>1, <1>2, <1>3, <1>4, <1>5, <1>6, <1>7, <1>8, <1>9, <1>10, <1>11, <1>12, <1>13, <1>14,
     <1>15, <1>16, <1>17, <1>18, <1>19, <1>20, <1>21, <1>22, <1>23, <1>24, <1>25, <1>26, <1>27,
     <1>28 DEF Next, NodeStep, ConnectStep, ServeStep, CloseStep

-----------------------------------------------------------------------------
(* The configuration of the servos.                                        *)

\* the configuration of a servo,
LEMMA ConfiguredStep ==
  ASSUME TypeOK, OpenedInOrder, ConfiguredSoFar, Next
  PROVE  ConfiguredSoFar'
<1>1. ASSUME NEW ok \in BOOLEAN, Open(ok)
      PROVE  ConfiguredSoFar'
  BY <1>1, FirstOfNode, TypeParts, DriverAssumption DEF Open, ConfiguredSoFar, ModeIsSet,
     GainsAreSet, EepromIsLocked, GoalIsStaged, RegistersTyped, Configuring, Abort, registers,
     Servo
<1>2. ASSUME NEW ok \in BOOLEAN, ReadGains(ok)
      PROVE  ConfiguredSoFar'
  <2>1. /\ at = "gains" /\ UNCHANGED <<registers, starts>>
        /\ \/ at' = "rollback"
           \/ /\ unwritten' = Gain \ gains[Servo] /\ UNCHANGED todo
              /\ at' = IF unwritten' = {} THEN "stage" ELSE "unlock"
    BY <1>2 DEF ReadGains, Going, Abort, configureVars
  <2>2. Servo \in Servos /\ gains[Servo] \subseteq Gain
    BY <2>1, FirstOfNode, TypeParts DEF RegistersTyped, Configuring
  <2>3. at' = "stage" => gains[Servo] = Gain
    BY <2>1, <2>2
  <2>4. at' # "rollback" => Servo' = Servo
    BY <2>1 DEF Servo
  <2>5. ModeIsSet' /\ GainsAreSet' /\ GoalIsStaged'
    BY <2>1, <2>3, <2>4 DEF ConfiguredSoFar, ModeIsSet, GainsAreSet, GoalIsStaged, registers
  <2>6. EepromIsLocked'
    BY <2>1, <2>4 DEF ConfiguredSoFar, EepromIsLocked, Configuring, registers
  <2>7. QED
    BY <2>5, <2>6 DEF ConfiguredSoFar
<1>3. ASSUME NEW ok \in BOOLEAN, VerifyGains(ok)
      PROVE  ConfiguredSoFar'
  BY <1>3, FirstOfNode, TypeParts, DriverAssumption DEF VerifyGains, ConfiguredSoFar, ModeIsSet,
     GainsAreSet, EepromIsLocked, GoalIsStaged, RegistersTyped, Configuring, Abort, Going,
     configureVars, registers, Servo
<1>4. ASSUME NEW answer, DisableTorque(answer)
      PROVE  ConfiguredSoFar'
  BY <1>4, FirstOfNode, TypeParts, DriverAssumption DEF DisableTorque, ConfiguredSoFar, ModeIsSet,
     GainsAreSet, EepromIsLocked, GoalIsStaged, RegistersTyped, Configuring, Abort, Going, Applied,
     configureVars, Servo, Answered
<1>5. ASSUME NEW answer, SetMode(answer)
      PROVE  ConfiguredSoFar'
  <2>1. /\ at = "mode" /\ Servo \in Servos
        /\ opmode' = IF Applied(answer) THEN [opmode EXCEPT ![Servo] = TRUE] ELSE opmode
        /\ UNCHANGED <<gains, locked, starts>>
    BY <1>5, FirstOfNode DEF SetMode, Configuring, configureVars
  <2>2. \/ at' = "rollback"
        \/ /\ answer = "ok" /\ UNCHANGED todo
           /\ at' = IF Servo \in Tuned THEN "gains" ELSE "stage"
    BY <1>5 DEF SetMode, Going, Abort
  <2>3. at' # "rollback" => Servo' = Servo
    BY <2>2 DEF Servo
  <2>4. ModeIsSet'
    <3>1. answer = "ok" => opmode'[Servo]
      BY <2>1, TypeParts DEF Applied, RegistersTyped
    <3>2. QED
      BY <2>2, <2>3, <3>1 DEF ModeIsSet
  <2>5. GainsAreSet' /\ GoalIsStaged'
    BY <2>1, <2>2, <2>3 DEF ConfiguredSoFar, GainsAreSet, GoalIsStaged
  <2>6. EepromIsLocked'
    BY <2>1, <2>2, <2>3 DEF ConfiguredSoFar, EepromIsLocked, Configuring
  <2>7. QED
    BY <2>4, <2>5, <2>6 DEF ConfiguredSoFar
<1>6. ASSUME NEW answer, LockEeprom(answer)
      PROVE  ConfiguredSoFar'
  BY <1>6, FirstOfNode, TypeParts, DriverAssumption DEF LockEeprom, ConfiguredSoFar, ModeIsSet,
     GainsAreSet, EepromIsLocked, GoalIsStaged, RegistersTyped, Configuring, Abort, Going, Applied,
     configureVars, Servo, Answered
<1>7. ASSUME NEW answer, StageGoal(answer)
      PROVE  ConfiguredSoFar'
  BY <1>7, FirstOfNode, TypeParts, DriverAssumption DEF StageGoal, ConfiguredSoFar, ModeIsSet,
     GainsAreSet, EepromIsLocked, GoalIsStaged, RegistersTyped, Configuring, Abort, Going, Applied,
     configureVars, Servo, Answered
<1>8. ASSUME NEW answer, EnableTorque(answer)
      PROVE  ConfiguredSoFar'
  BY <1>8, FirstOfNode, TypeParts, DriverAssumption DEF EnableTorque, ConfiguredSoFar, ModeIsSet,
     GainsAreSet, EepromIsLocked, GoalIsStaged, RegistersTyped, Configuring, Abort, Applied,
     configureVars, Servo, Answered
<1>9. ASSUME NEW answer, UnlockEeprom(answer)
      PROVE  ConfiguredSoFar'
  BY <1>9, FirstOfNode, TypeParts, DriverAssumption DEF UnlockEeprom, ConfiguredSoFar, ModeIsSet,
     GainsAreSet, EepromIsLocked, GoalIsStaged, RegistersTyped, Configuring, Abort, Going, Applied,
     Reported, configureVars, Servo, Answered
<1>10. ASSUME NEW answer, WriteGain(answer)
       PROVE  ConfiguredSoFar'
  BY <1>10, FirstOfNode, TypeParts, DriverAssumption DEF WriteGain, ConfiguredSoFar, ModeIsSet,
     GainsAreSet, EepromIsLocked, GoalIsStaged, RegistersTyped, Configuring, Going, Applied,
     Reported, configureVars, Servo, Answered
<1>11. ASSUME ReceiveCommand
       PROVE  ConfiguredSoFar'
  BY <1>11, FirstOfNode, TypeParts, DriverAssumption DEF ReceiveCommand, ConfiguredSoFar,
     ModeIsSet, GainsAreSet, EepromIsLocked, GoalIsStaged, RegistersTyped, Configuring, serveVars,
     Raise, registers, Servo
<1>12. ASSUME NEW answer, WritePositions(answer)
       PROVE  ConfiguredSoFar'
  BY <1>12, FirstOfNode, TypeParts, DriverAssumption DEF WritePositions, ConfiguredSoFar,
     ModeIsSet, GainsAreSet, EepromIsLocked, GoalIsStaged, RegistersTyped, Configuring, Applied,
     serveVars, stepVars, Raise, Servo, Answered
<1>13. ASSUME NEW answer, WriteVelocity(answer)
       PROVE  ConfiguredSoFar'
  BY <1>13, FirstOfNode, TypeParts, DriverAssumption DEF WriteVelocity, ConfiguredSoFar, ModeIsSet,
     GainsAreSet, EepromIsLocked, GoalIsStaged, RegistersTyped, Configuring, Going, Applied,
     serveVars, stepVars, Raise, Servo, Answered
<1>14. ASSUME NEW answer, StopWheel(answer)
       PROVE  ConfiguredSoFar'
  BY <1>14, FirstOfNode, TypeParts, DriverAssumption DEF StopWheel, ConfiguredSoFar, ModeIsSet,
     GainsAreSet, EepromIsLocked, GoalIsStaged, RegistersTyped, Configuring, Applied, Reported,
     Servo, Answered
<1>15. ASSUME ObserveCommand
       PROVE  ConfiguredSoFar'
  BY <1>15, FirstOfNode, TypeParts, DriverAssumption DEF ObserveCommand, ConfiguredSoFar,
     ModeIsSet, GainsAreSet, EepromIsLocked, GoalIsStaged, RegistersTyped, Configuring, serveVars,
     StartRead, registers, Servo
<1>16. ASSUME NoCommand
       PROVE  ConfiguredSoFar'
  BY <1>16, FirstOfNode, TypeParts, DriverAssumption DEF NoCommand, ConfiguredSoFar, ModeIsSet,
     GainsAreSet, EepromIsLocked, GoalIsStaged, RegistersTyped, Configuring, serveVars, stepVars,
     StartRead, registers, Servo
<1>17. ASSUME StopEnds
       PROVE  ConfiguredSoFar'
  BY <1>17, FirstOfNode, TypeParts, DriverAssumption DEF StopEnds, ConfiguredSoFar, ModeIsSet,
     GainsAreSet, EepromIsLocked, GoalIsStaged, RegistersTyped, Configuring, Raise, StartRead,
     registers, Servo
<1>18. ASSUME NEW reply \in [pending -> {"value", "missing", "fault"}], ReadAttempt(reply)
       PROVE  ConfiguredSoFar'
  BY <1>18, FirstOfNode, TypeParts, DriverAssumption DEF ReadAttempt, ConfiguredSoFar, ModeIsSet,
     GainsAreSet, EepromIsLocked, GoalIsStaged, RegistersTyped, Configuring, NextController,
     registers, Servo
<1>19. ASSUME ReadFails
       PROVE  ConfiguredSoFar'
  BY <1>19, FirstOfNode, TypeParts, DriverAssumption DEF ReadFails, ConfiguredSoFar, ModeIsSet,
     GainsAreSet, EepromIsLocked, GoalIsStaged, RegistersTyped, Configuring, Raise, registers,
     Servo
<1>20. ASSUME Publish
       PROVE  ConfiguredSoFar'
  BY <1>20, FirstOfNode, TypeParts, DriverAssumption DEF Publish, ConfiguredSoFar, ModeIsSet,
     GainsAreSet, EepromIsLocked, GoalIsStaged, RegistersTyped, Configuring, Going, Raise,
     registers, Servo
<1>21. ASSUME CloseStopEnds
       PROVE  ConfiguredSoFar'
  BY <1>21, FirstOfNode, TypeParts, DriverAssumption DEF CloseStopEnds, ConfiguredSoFar, ModeIsSet,
     GainsAreSet, EepromIsLocked, GoalIsStaged, RegistersTyped, Configuring, registers, Servo
<1>22. ASSUME NEW stuck \in SUBSET Servos, Disconnect(stuck)
       PROVE  ConfiguredSoFar'
  BY <1>22, FirstOfNode, TypeParts, DriverAssumption DEF Disconnect, ConfiguredSoFar, ModeIsSet,
     GainsAreSet, EepromIsLocked, GoalIsStaged, RegistersTyped, Configuring, Servo
<1>23. ASSUME Exit
       PROVE  ConfiguredSoFar'
  BY <1>23, FirstOfNode, TypeParts, DriverAssumption DEF Exit, ConfiguredSoFar, ModeIsSet,
     GainsAreSet, EepromIsLocked, GoalIsStaged, RegistersTyped, Configuring, ForgetProcess,
     registers, Servo
<1>24. ASSUME Interrupt
       PROVE  ConfiguredSoFar'
  BY <1>24, FirstOfNode, TypeParts, DriverAssumption DEF Interrupt, ConfiguredSoFar, ModeIsSet,
     GainsAreSet, EepromIsLocked, GoalIsStaged, RegistersTyped, Configuring, Serving,
     ForgetProcess, registers, Servo
<1>25. ASSUME Kill
       PROVE  ConfiguredSoFar'
  BY <1>25, FirstOfNode, TypeParts, DriverAssumption DEF Kill, ConfiguredSoFar, ModeIsSet,
     GainsAreSet, EepromIsLocked, GoalIsStaged, RegistersTyped, Configuring, ForgetProcess,
     registers, Servo
<1>26. ASSUME Restart
       PROVE  ConfiguredSoFar'
  BY <1>26, FirstOfNode, TypeParts, DriverAssumption, Bounds DEF Restart, ConfiguredSoFar,
     ModeIsSet, GainsAreSet, EepromIsLocked, GoalIsStaged, RegistersTyped, Configuring, stepVars,
     registers, Servo, CountsTyped
<1>27. ASSUME NEW kind \in {"drive", "halt", "bad"}, PublishCommand(kind)
       PROVE  ConfiguredSoFar'
  BY <1>27, FirstOfNode, TypeParts, DriverAssumption DEF PublishCommand, ConfiguredSoFar,
     ModeIsSet, GainsAreSet, EepromIsLocked, GoalIsStaged, RegistersTyped, Configuring, registers,
     Servo
<1>28. ASSUME Tick
       PROVE  ConfiguredSoFar'
  BY <1>28, FirstOfNode, TypeParts, DriverAssumption DEF Tick, ConfiguredSoFar, ModeIsSet,
     GainsAreSet, EepromIsLocked, GoalIsStaged, RegistersTyped, Configuring, registers, Servo
<1>29. QED
  BY <1>1, <1>2, <1>3, <1>4, <1>5, <1>6, <1>7, <1>8, <1>9, <1>10, <1>11, <1>12, <1>13, <1>14,
     <1>15, <1>16, <1>17, <1>18, <1>19, <1>20, <1>21, <1>22, <1>23, <1>24, <1>25, <1>26, <1>27,
     <1>28 DEF Next, NodeStep, ConnectStep, ServeStep, CloseStep

-----------------------------------------------------------------------------
(* The reads of the servos.                                                *)

LEMMA ReadStarts ==
  ASSUME StartRead
  PROVE  ReadSoFar'
<1>1. /\ at' = "read" /\ bus' = Controllers /\ pending' = ServosOf(First(Controllers))
      /\ values' = {} /\ issue' = [s \in Servos |-> None]
  BY DEF StartRead
<1>2. None # "fault" /\ Controllers # {} /\ Controller \in [Servos -> Controllers]
  BY DriverAssumption
<1>3. QED
  BY <1>1, <1>2 DEF ReadSoFar, ServosOf, Accounted

\* what the sync reads have accounted for,
LEMMA ReadStep ==
  ASSUME TypeOK, OpenedInOrder, ReadSoFar, Next
  PROVE  ReadSoFar'
<1>1. ASSUME NEW ok \in BOOLEAN, Open(ok)
      PROVE  ReadSoFar'
  BY <1>1 DEF Open, ReadSoFar, Accounted, Abort, readVars
<1>2. ASSUME NEW ok \in BOOLEAN, ReadGains(ok)
      PROVE  ReadSoFar'
  BY <1>2 DEF ReadGains, ReadSoFar, Accounted, Abort, Going
<1>3. ASSUME NEW ok \in BOOLEAN, VerifyGains(ok)
      PROVE  ReadSoFar'
  BY <1>3 DEF VerifyGains, ReadSoFar, Accounted, Abort, Going
<1>4. ASSUME NEW answer, DisableTorque(answer)
      PROVE  ReadSoFar'
  BY <1>4 DEF DisableTorque, ReadSoFar, Accounted, Abort, Going
<1>5. ASSUME NEW answer, SetMode(answer)
      PROVE  ReadSoFar'
  BY <1>5 DEF SetMode, ReadSoFar, Accounted, Abort, Going
<1>6. ASSUME NEW answer, LockEeprom(answer)
      PROVE  ReadSoFar'
  BY <1>6 DEF LockEeprom, ReadSoFar, Accounted, Abort, Going
<1>7. ASSUME NEW answer, StageGoal(answer)
      PROVE  ReadSoFar'
  BY <1>7 DEF StageGoal, ReadSoFar, Accounted, Abort, Going
<1>8. ASSUME NEW answer, EnableTorque(answer)
      PROVE  ReadSoFar'
  BY <1>8 DEF EnableTorque, ReadSoFar, Accounted, Abort
<1>9. ASSUME NEW answer, UnlockEeprom(answer)
      PROVE  ReadSoFar'
  BY <1>9 DEF UnlockEeprom, ReadSoFar, Accounted, Abort, Going
<1>10. ASSUME NEW answer, WriteGain(answer)
       PROVE  ReadSoFar'
  BY <1>10 DEF WriteGain, ReadSoFar, Accounted, Going
<1>11. ASSUME ReceiveCommand
       PROVE  ReadSoFar'
  BY <1>11 DEF ReceiveCommand, ReadSoFar, Accounted, serveVars, readVars, Raise
<1>12. ASSUME NEW answer, WritePositions(answer)
       PROVE  ReadSoFar'
  BY <1>12 DEF WritePositions, ReadSoFar, Accounted, serveVars, Raise
<1>13. ASSUME NEW answer, WriteVelocity(answer)
       PROVE  ReadSoFar'
  BY <1>13 DEF WriteVelocity, ReadSoFar, Accounted, Going, serveVars, Raise
<1>14. ASSUME NEW answer, StopWheel(answer)
       PROVE  ReadSoFar'
  BY <1>14 DEF StopWheel, ReadSoFar, Accounted, readVars
<1>15. ASSUME ObserveCommand
       PROVE  ReadSoFar'
  <2>1. StartRead \/ at' \in {"stop", "close"}
    BY <1>15 DEF ObserveCommand
  <2>2. QED
    BY <2>1, ReadStarts DEF ReadSoFar
<1>16. ASSUME NoCommand
       PROVE  ReadSoFar'
  <2>1. StartRead \/ at' \in {"stop", "close"}
    BY <1>16 DEF NoCommand
  <2>2. QED
    BY <2>1, ReadStarts DEF ReadSoFar
<1>17. ASSUME StopEnds
       PROVE  ReadSoFar'
  <2>1. StartRead \/ at' \in {"stop", "close"}
    BY <1>17 DEF StopEnds, Raise
  <2>2. QED
    BY <2>1, ReadStarts DEF ReadSoFar
<1>18. ASSUME NEW reply \in [pending -> {"value", "missing", "fault"}], ReadAttempt(reply)
       PROVE  ReadSoFar'
  <2> DEFINE answered == {s \in pending : reply[s] = "value"}
             left == pending \ answered
  <2>1. /\ at = "read" /\ values' = values \cup answered
        /\ issue' = [s \in Servos |-> IF s \in answered THEN None ELSE IF s \in left THEN reply[s] ELSE issue[s]]
        /\ \/ /\ \A s \in left : reply[s] = "missing"
              /\ pending' = left /\ UNCHANGED <<bus, at>>
           \/ NextController
    BY <1>18 DEF ReadAttempt, RetryAgain
  <2>2. /\ bus # {} /\ pending \subseteq ServosOf(First(bus)) /\ First(bus) \in bus /\ bus \subseteq Controllers
        /\ \A s \in pending : s \notin values /\ issue[s] # "fault"
        /\ \A s \in Servos :
             IF Controller[s] \in bus \ {First(bus)} THEN s \notin values /\ issue[s] = None
                                                     ELSE s \in pending \/ Accounted(s)
    BY <2>1, FirstOfNode, TypeParts DEF ReadSoFar, PlaceTyped
  <2>3. \A s \in left : s \in Servos /\ reply[s] \in {"missing", "fault"} /\ s \notin answered
    BY <1>18, TypeParts DEF ReadTyped
  <2>4. \A s \in Servos :
           IF Controller[s] \in bus \ {First(bus)}
           THEN s \notin values' /\ issue'[s] = None
           ELSE s \in values' <=> issue'[s] = None
    BY <2>1, <2>2, <2>3, DriverAssumption DEF Accounted, ServosOf
  <2>5. CASE pending' = left /\ UNCHANGED <<bus, at>> /\ \A s \in left : reply[s] = "missing"
    <3>1. pending' \subseteq ServosOf(First(bus')) /\ bus' # {}
      BY <2>2, <2>5
    <3>2. \A s \in pending' : s \notin values' /\ issue'[s] # "fault"
      BY <2>1, <2>2, <2>3, <2>5
    <3>3. QED
      BY <2>1, <2>4, <2>5, <3>1, <3>2 DEF ReadSoFar, Accounted
  <2>6. CASE NextController
    <3>1. /\ bus' = bus \ {First(bus)}
          /\ bus' = {} => at' = "publish" /\ pending' = {}
          /\ bus' # {} => at' = "read" /\ pending' = ServosOf(First(bus'))
      BY <2>1, <2>6 DEF NextController
    <3>2. CASE bus' = {}
      BY <2>4, <3>1, <3>2 DEF ReadSoFar, Accounted
    <3>3. CASE bus' # {}
      <4>1. First(bus') \in bus'
        BY <2>2, <3>1, <3>3, FirstIsOne, DriverAssumption
      <4>2. \A s \in pending' : s \in Servos /\ Controller[s] \in bus \ {First(bus)}
        BY <3>1, <3>3, <4>1 DEF ServosOf
      <4>3. \A s \in pending' : s \notin values' /\ issue'[s] # "fault"
        BY <2>4, <4>2, DriverAssumption
      <4>4. \A s \in Servos : IF Controller[s] \in bus' \ {First(bus')} THEN s \notin values' /\ issue'[s] = None
                                                     ELSE s \in pending' \/ (s \in values' <=> issue'[s] = None)
        BY <2>4, <3>1, <3>3, <4>1 DEF ServosOf
      <4>5. QED
        BY <3>1, <3>3, <4>3, <4>4 DEF ReadSoFar, Accounted
    <3>4. QED
      BY <3>2, <3>3
  <2>7. QED
    BY <2>1, <2>5, <2>6
<1>19. ASSUME ReadFails
       PROVE  ReadSoFar'
  <2>1. CASE at' = "close"
    BY <2>1 DEF ReadSoFar
  <2>2. CASE at' # "close"
    <3>1. /\ at = "read" /\ UNCHANGED <<at, bus, pending, values>>
          /\ issue' = [s \in Servos |-> IF s \in pending THEN "bus" ELSE issue[s]]
      BY <1>19, <2>2 DEF ReadFails, Raise
    <3>2. pending \subseteq Servos /\ \A s \in pending : Controller[s] = First(bus)
      BY <3>1, TypeParts DEF ReadTyped, ReadSoFar, ServosOf
    <3>3. QED
      BY <3>1, <3>2, DriverAssumption DEF ReadSoFar, Accounted
  <2>3. QED
    BY <2>1, <2>2
<1>20. ASSUME Publish
       PROVE  ReadSoFar'
  BY <1>20 DEF Publish, ReadSoFar, Accounted, Going, Raise
<1>21. ASSUME CloseStopEnds
       PROVE  ReadSoFar'
  BY <1>21 DEF CloseStopEnds, ReadSoFar, Accounted, readVars
<1>22. ASSUME NEW stuck \in SUBSET Servos, Disconnect(stuck)
       PROVE  ReadSoFar'
  BY <1>22 DEF Disconnect, ReadSoFar, Accounted, readVars
<1>23. ASSUME Exit
       PROVE  ReadSoFar'
  BY <1>23 DEF Exit, ReadSoFar, Accounted, ForgetProcess
<1>24. ASSUME Interrupt
       PROVE  ReadSoFar'
  BY <1>24 DEF Interrupt, ReadSoFar, Accounted, Serving, ForgetProcess
<1>25. ASSUME Kill
       PROVE  ReadSoFar'
  BY <1>25 DEF Kill, ReadSoFar, Accounted, ForgetProcess
<1>26. ASSUME Restart
       PROVE  ReadSoFar'
  BY <1>26 DEF Restart, ReadSoFar, Accounted
<1>27. ASSUME NEW kind \in {"drive", "halt", "bad"}, PublishCommand(kind)
       PROVE  ReadSoFar'
  BY <1>27 DEF PublishCommand, ReadSoFar, Accounted, readVars
<1>28. ASSUME Tick
       PROVE  ReadSoFar'
  BY <1>28 DEF Tick, ReadSoFar, Accounted, readVars
<1>29. QED
  BY <1>1, <1>2, <1>3, <1>4, <1>5, <1>6, <1>7, <1>8, <1>9, <1>10, <1>11, <1>12, <1>13, <1>14,
     <1>15, <1>16, <1>17, <1>18, <1>19, <1>20, <1>21, <1>22, <1>23, <1>24, <1>25, <1>26, <1>27,
     <1>28 DEF Next, NodeStep, ConnectStep, ServeStep, CloseStep

-----------------------------------------------------------------------------
(* The wheels.                                                             *)

\* A mishap counts, and the second counts in full.
LEMMA StrikeCounts ==
  ASSUME TypeOK, NEW T, Strike(T), NEW s \in Wheels
  PROVE  /\ hits[s] \in 0..2 /\ hits'[s] \in 0..2
         /\ hits[s] = MaxHits => hits'[s] = MaxHits
         /\ hits[s] # 0 => hits'[s] # 0
         /\ s \in T => hits'[s] # 0
         /\ s \in T /\ hits[s] # 0 => hits'[s] = MaxHits
<1>1. hits[s] \in 0..2
  BY TypeParts DEF CountsTyped, MaxHits
<1>2. hits'[s] = IF s \in T /\ hits[s] < 2 THEN hits[s] + 1 ELSE hits[s]
  BY DEF Strike, MaxHits
<1>3. QED
  BY <1>1, <1>2 DEF MaxHits

\* and the wheels on every way to the end of the process.
LEMMA WheelsStep ==
  ASSUME TypeOK, OpenedInOrder, ConfiguredSoFar, WheelsOnTheWay, Next
  PROVE  WheelsOnTheWay'
<1>1. ASSUME NEW ok \in BOOLEAN, Open(ok)
      PROVE  WheelsOnTheWay'
  BY <1>1, TypeParts, DriverAssumption DEF Open, WheelsOnTheWay, Still, Halted, RegistersTyped,
     CountsTyped, MaxHits, Configuring, Serving, Abort, Fail, OpenedInOrder, registers
<1>2. ASSUME NEW ok \in BOOLEAN, ReadGains(ok)
      PROVE  WheelsOnTheWay'
  BY <1>2, TypeParts, DriverAssumption DEF ReadGains, WheelsOnTheWay, Still, Halted,
     RegistersTyped, CountsTyped, MaxHits, Configuring, Serving, Abort, Going, Fail, OpenedInOrder,
     configureVars, registers
<1>3. ASSUME NEW ok \in BOOLEAN, VerifyGains(ok)
      PROVE  WheelsOnTheWay'
  BY <1>3, TypeParts, DriverAssumption DEF VerifyGains, WheelsOnTheWay, Still, Halted,
     RegistersTyped, CountsTyped, MaxHits, Configuring, Serving, Abort, Going, Fail, OpenedInOrder,
     configureVars, registers
<1>4. ASSUME NEW answer, DisableTorque(answer)
      PROVE  WheelsOnTheWay'
  BY <1>4, TypeParts, DriverAssumption, FirstOfNode DEF DisableTorque, WheelsOnTheWay, Still,
     Halted, RegistersTyped, CountsTyped, MaxHits, Configuring, Serving, Abort, Going, Answered,
     Applied, Fail, OpenedInOrder, configureVars, ConfiguredSoFar, GoalIsStaged
<1>5. ASSUME NEW answer, SetMode(answer)
      PROVE  WheelsOnTheWay'
  BY <1>5, TypeParts, DriverAssumption DEF SetMode, WheelsOnTheWay, Still, Halted, RegistersTyped,
     CountsTyped, MaxHits, Configuring, Serving, Abort, Going, Answered, Applied, Fail,
     OpenedInOrder, configureVars
<1>6. ASSUME NEW answer, LockEeprom(answer)
      PROVE  WheelsOnTheWay'
  BY <1>6, TypeParts, DriverAssumption DEF LockEeprom, WheelsOnTheWay, Still, Halted,
     RegistersTyped, CountsTyped, MaxHits, Configuring, Serving, Abort, Going, Answered, Applied,
     Fail, OpenedInOrder, configureVars
<1>7. ASSUME NEW answer, StageGoal(answer)
      PROVE  WheelsOnTheWay'
  BY <1>7, TypeParts, DriverAssumption, FirstOfNode DEF StageGoal, WheelsOnTheWay, Still, Halted,
     RegistersTyped, CountsTyped, MaxHits, Configuring, Serving, Abort, Going, Answered, Applied,
     Fail, OpenedInOrder, configureVars, ConfiguredSoFar, GoalIsStaged
<1>8. ASSUME NEW answer, EnableTorque(answer)
      PROVE  WheelsOnTheWay'
  BY <1>8, TypeParts, DriverAssumption, FirstOfNode DEF EnableTorque, WheelsOnTheWay, Still,
     Halted, RegistersTyped, CountsTyped, MaxHits, Configuring, Serving, Abort, Answered, Applied,
     Fail, OpenedInOrder, configureVars, ConfiguredSoFar, GoalIsStaged
<1>9. ASSUME NEW answer, UnlockEeprom(answer)
      PROVE  WheelsOnTheWay'
  BY <1>9, TypeParts, DriverAssumption DEF UnlockEeprom, WheelsOnTheWay, Still, Halted,
     RegistersTyped, CountsTyped, MaxHits, Configuring, Serving, Abort, Going, Answered, Applied,
     Fail, OpenedInOrder, configureVars
<1>10. ASSUME NEW answer, WriteGain(answer)
       PROVE  WheelsOnTheWay'
  BY <1>10, TypeParts, DriverAssumption DEF WriteGain, WheelsOnTheWay, Still, Halted,
     RegistersTyped, CountsTyped, MaxHits, Configuring, Serving, Going, Answered, Applied, Fail,
     OpenedInOrder, configureVars
<1>11. ASSUME ReceiveCommand
       PROVE  WheelsOnTheWay'
  BY <1>11, TypeParts, DriverAssumption DEF ReceiveCommand, WheelsOnTheWay, Still, Halted,
     RegistersTyped, CountsTyped, MaxHits, Configuring, Serving, OpenedInOrder, registers,
     serveVars, Raise
<1>12. ASSUME NEW answer, WritePositions(answer)
       PROVE  WheelsOnTheWay'
  BY <1>12, TypeParts, DriverAssumption DEF WritePositions, WheelsOnTheWay, Still, Halted,
     RegistersTyped, CountsTyped, MaxHits, Configuring, Serving, Answered, Applied, Fail,
     OpenedInOrder, serveVars, stepVars, Raise
<1>13. ASSUME NEW answer, WriteVelocity(answer)
       PROVE  WheelsOnTheWay'
  BY <1>13, TypeParts, DriverAssumption DEF WriteVelocity, WheelsOnTheWay, Still, Halted,
     RegistersTyped, CountsTyped, MaxHits, Configuring, Serving, Going, Answered, Applied, Fail,
     OpenedInOrder, serveVars, stepVars, Raise
<1>14. ASSUME NEW answer, StopWheel(answer)
       PROVE  WheelsOnTheWay'
  BY <1>14, TypeParts, DriverAssumption DEF StopWheel, WheelsOnTheWay, Still, Halted,
     RegistersTyped, CountsTyped, MaxHits, Configuring, Serving, Answered, Applied, Fail, Strike,
     OpenedInOrder
<1>15. ASSUME ObserveCommand
       PROVE  WheelsOnTheWay'
  BY <1>15, TypeParts, DriverAssumption DEF ObserveCommand, WheelsOnTheWay, Still, Halted,
     RegistersTyped, CountsTyped, MaxHits, Configuring, Serving, OpenedInOrder, registers,
     serveVars, StartRead
<1>16. ASSUME NoCommand
       PROVE  WheelsOnTheWay'
  BY <1>16, TypeParts, DriverAssumption DEF NoCommand, WheelsOnTheWay, Still, Halted,
     RegistersTyped, CountsTyped, MaxHits, Configuring, Serving, OpenedInOrder, registers,
     serveVars, stepVars, StartRead
<1>17. ASSUME StopEnds
       PROVE  WheelsOnTheWay'
  BY <1>17, TypeParts, DriverAssumption DEF StopEnds, WheelsOnTheWay, Still, Halted,
     RegistersTyped, CountsTyped, MaxHits, Configuring, Serving, OpenedInOrder, registers, Raise,
     StartRead
<1>18. ASSUME NEW reply \in [pending -> {"value", "missing", "fault"}], ReadAttempt(reply)
       PROVE  WheelsOnTheWay'
  BY <1>18, TypeParts, DriverAssumption DEF ReadAttempt, WheelsOnTheWay, Still, Halted,
     RegistersTyped, CountsTyped, MaxHits, Configuring, Serving, Fail, OpenedInOrder, registers,
     NextController
<1>19. ASSUME ReadFails
       PROVE  WheelsOnTheWay'
  BY <1>19, TypeParts, DriverAssumption DEF ReadFails, WheelsOnTheWay, Still, Halted,
     RegistersTyped, CountsTyped, MaxHits, Configuring, Serving, Fail, OpenedInOrder, registers,
     Raise
<1>20. ASSUME Publish
       PROVE  WheelsOnTheWay'
  BY <1>20, TypeParts, DriverAssumption DEF Publish, WheelsOnTheWay, Still, Halted, RegistersTyped,
     CountsTyped, MaxHits, Configuring, Serving, Going, OpenedInOrder, registers, Raise
<1>21. ASSUME CloseStopEnds
       PROVE  WheelsOnTheWay'
  BY <1>21, TypeParts, DriverAssumption DEF CloseStopEnds, WheelsOnTheWay, Still, Halted,
     RegistersTyped, CountsTyped, MaxHits, Configuring, Serving, OpenedInOrder, registers
<1>22. ASSUME NEW stuck \in SUBSET Servos, Disconnect(stuck)
       PROVE  WheelsOnTheWay'
  <2>1. /\ at \in {"rollback", "disconnect"} /\ UNCHANGED <<at, goal>>
        /\ torque' = [s \in Servos |-> torque[s] /\ (s \notin ServosOf(Last(port)) \/ s \in stuck)]
        /\ port' = port \ {Last(port)} /\ Strike(stuck)
    BY <1>22 DEF Disconnect
  <2>2. \A s \in Wheels : s \in Servos /\ (torque'[s] => torque[s] /\ (s \notin ServosOf(Last(port)) \/ s \in stuck))
    BY <2>1, ControllerServos
  <2>3. \A s \in Wheels : (Still(s) => Still(s)') /\ (Halted(s) => Halted(s)')
    BY <2>1, <2>2, StrikeCounts DEF Still, Halted
  <2>4. ASSUME NEW s \in Wheels, at = "disconnect", Controller[s] = Last(port)
        PROVE  Still(s)'
    <3>1. s \in ServosOf(Last(port)) /\ Halted(s)
      BY <2>2, <2>4 DEF WheelsOnTheWay, ServosOf
    <3>2. torque'[s] => s \in stuck
      BY <2>2, <3>1
    <3>3. goal[s] # "safe" => hits[s] # 0
      BY <3>1 DEF Halted
    <3>4. QED
      BY <2>1, <3>2, <3>3, StrikeCounts DEF Still
  <2>5. \A s \in Wheels : Controller[s] \notin port' => Controller[s] \notin port \/ Controller[s] = Last(port)
    BY <2>1
  <2>6. QED
    BY <2>1, <2>3, <2>4, <2>5 DEF WheelsOnTheWay, Configuring
<1>23. ASSUME Exit
       PROVE  WheelsOnTheWay'
  BY <1>23, TypeParts, DriverAssumption DEF Exit, WheelsOnTheWay, Still, Halted, RegistersTyped,
     CountsTyped, MaxHits, Configuring, Serving, OpenedInOrder, registers, ForgetProcess
<1>24. ASSUME Interrupt
       PROVE  WheelsOnTheWay'
  <2>1. /\ at # "ended" /\ UNCHANGED <<torque, goal>>
        /\ at' = IF at \in Serving THEN "close" ELSE IF at = "close" THEN "disconnect" ELSE "ended"
        /\ todo' = IF at \in Serving THEN Wheels ELSE {}
        /\ Strike(IF Closing THEN Wheels ELSE {})
        /\ at' = "ended" \/ UNCHANGED port
    BY <1>24 DEF Interrupt, registers
  <2>2. \A s \in Wheels : Still(s) => Still(s)'
    BY <2>1, StrikeCounts DEF Still
  <2>3. Closing => \A s \in Wheels : Halted(s)' /\ (Halted(s) => Still(s)')
    BY <2>1, StrikeCounts DEF Still, Halted
  <2>4. CASE at \in Serving
    BY <2>1, <2>4 DEF WheelsOnTheWay, Configuring
  <2>5. CASE at = "close"
    <3>1. at' = "disconnect" /\ port' = Controllers /\ \A s \in Wheels : Halted(s)'
      BY <2>1, <2>3, <2>5 DEF Serving, Closing, OpenedInOrder
    <3>2. QED
      BY <3>1, ControllerServos, DriverAssumption DEF WheelsOnTheWay, Configuring
  <2>6. CASE at \notin Serving \cup {"close"}
    <3>1. at' = "ended"
      BY <2>1, <2>6
    <3>2. \A s \in Wheels : Still(s)'
      BY <2>1, <2>2, <2>3, <2>6, TypeParts DEF WheelsOnTheWay, Closing, PlaceTyped, Stages
    <3>3. QED
      BY <3>1, <3>2 DEF WheelsOnTheWay, Configuring
  <2>7. QED
    BY <2>4, <2>5, <2>6
<1>25. ASSUME Kill
       PROVE  WheelsOnTheWay'
  BY <1>25, TypeParts, DriverAssumption DEF Kill, WheelsOnTheWay, Still, Halted, RegistersTyped,
     CountsTyped, MaxHits, Configuring, Serving, OpenedInOrder, registers, ForgetProcess
<1>26. ASSUME Restart
       PROVE  WheelsOnTheWay'
  BY <1>26, TypeParts, DriverAssumption DEF Restart, WheelsOnTheWay, Still, Halted, RegistersTyped,
     CountsTyped, MaxHits, Configuring, Serving, OpenedInOrder, registers, stepVars
<1>27. ASSUME NEW kind \in {"drive", "halt", "bad"}, PublishCommand(kind)
       PROVE  WheelsOnTheWay'
  BY <1>27, TypeParts, DriverAssumption DEF PublishCommand, WheelsOnTheWay, Still, Halted,
     RegistersTyped, CountsTyped, MaxHits, Configuring, Serving, OpenedInOrder, registers
<1>28. ASSUME Tick
       PROVE  WheelsOnTheWay'
  BY <1>28, TypeParts, DriverAssumption DEF Tick, WheelsOnTheWay, Still, Halted, RegistersTyped,
     CountsTyped, MaxHits, Configuring, Serving, OpenedInOrder, registers
<1>29. QED
  BY <1>1, <1>2, <1>3, <1>4, <1>5, <1>6, <1>7, <1>8, <1>9, <1>10, <1>11, <1>12, <1>13, <1>14,
     <1>15, <1>16, <1>17, <1>18, <1>19, <1>20, <1>21, <1>22, <1>23, <1>24, <1>25, <1>26, <1>27,
     <1>28 DEF Next, NodeStep, ConnectStep, ServeStep, CloseStep

-----------------------------------------------------------------------------
(* The conversions of the tools.                                           *)

\* A position is clamped to the range, and clamping widens no distance.
LEMMA PositionInRange ==
  ASSUME NEW angle \in Int
  PROVE  /\ angle_to_position(angle) \in (-Span)..Span
         /\ angle_to_position(angle) \in Int
         /\ \A other \in Int : \A far \in Nat : angle - other \in (-far)..far =>
              angle_to_position(angle) - angle_to_position(other) \in (-far)..far
<1>1. Span \in Nat
  BY ToolAssumption
<1>2. QED
  BY <1>1 DEF angle_to_position

\* A speed fits its register, keeps its direction, and is never made faster.
LEMMA SpeedInRegister ==
  ASSUME NEW velocity \in Int
  PROVE  /\ RawSpeed(velocity) \in 0..(2 * SpeedMagnitudes - 1)
         /\ velocity >= 0 => SpeedOf(RawSpeed(velocity)) \in 0..velocity
         /\ velocity <= 0 => SpeedOf(RawSpeed(velocity)) \in velocity..0
         /\ SpeedOf(RawSpeed(velocity)) = 0 <=> velocity = 0
BY MagnitudesDiffer DEF RawSpeed, SpeedOf

\* The product of two numbers of one sign is not negative.
LEMMA SameSign ==
  ASSUME NEW a \in Int, NEW b \in Int, (a >= 0 /\ b >= 0) \/ (a <= 0 /\ b <= 0)
  PROVE  a * b >= 0
OBVIOUS

-----------------------------------------------------------------------------
(* The tools.                                                              *)

MaintenanceAct ==
    \/ \E program \in Programs, servo \in Maintained, new \in Ids : StartTool(program, servo, new)
    \/ ToolStep
    \/ PowerCycle

\* What the state of a tool that runs is.
LEMMA RunningTool ==
  ASSUME IInv, tool # None \/ toolAt # "none"
  PROVE  /\ tool \in Tools /\ S \in Servos /\ Program \in Programs /\ tool.new \in Ids
         /\ NodeNotStarted
<1>1. tool \in Tools /\ NodeNotStarted
  BY DEF IInv, ToolTypeOK, ToolRunsAlone
<1>2. QED
  BY <1>1 DEF Tools, S, Program

\* The driver's state apart from the registers that tools write stays as it is.
LEMMA RestIsKept ==
  ASSUME IInv, MaintenanceAct
  PROVE  UNCHANGED restVars
<1>1. ASSUME NEW program \in Programs, NEW servo \in Maintained, NEW new \in Ids, StartTool(program, servo, new)
      PROVE  UNCHANGED restVars
  BY <1>1 DEF StartTool, toolRegisters, idVars, nodeVars, restVars
<1>2. ASSUME NEW ok \in BOOLEAN, ToolOpens(ok)
      PROVE  UNCHANGED restVars
  BY <1>2 DEF ToolOpens, ToolGoing, toolRegisters, motionVars, idVars, nodeVars, restVars
<1>3. ASSUME NEW ok \in BOOLEAN, ToolPings(ok)
      PROVE  UNCHANGED restVars
  BY <1>3 DEF ToolPings, ToolGoing, toolRegisters, motionVars, idVars, nodeVars, restVars
<1>4. ASSUME NEW answer \in {"ok", "refused", "unanswered"}, ToolDisablesTorque(answer)
      PROVE  UNCHANGED restVars
  BY <1>4 DEF ToolDisablesTorque, ToolGoing, ToolConfigures, idVars, nodeVars, restVars
<1>5. ASSUME NEW answer \in {"ok", "refused", "unanswered"}, ToolSetsMode(answer)
      PROVE  UNCHANGED restVars
  BY <1>5 DEF ToolSetsMode, ToolGoing, ToolConfigures, idVars, nodeVars, restVars
<1>6. ASSUME NEW answer \in {"ok", "refused", "unanswered"}, ToolStagesGoal(answer)
      PROVE  UNCHANGED restVars
  BY <1>6 DEF ToolStagesGoal, ToolGoing, ToolConfigures, idVars, nodeVars, restVars
<1>7. ASSUME NEW answer \in {"ok", "refused", "unanswered"}, ToolEnablesTorque(answer)
      PROVE  UNCHANGED restVars
  BY <1>7 DEF ToolEnablesTorque, ToolGoing, ToolConfigures, idVars, nodeVars, restVars
<1>8. ASSUME NEW answer \in {"ok", "refused", "unanswered"}, SpinStarts(answer)
      PROVE  UNCHANGED restVars
  BY <1>8 DEF SpinStarts, ToolGoing, ToolWrites, Send, idVars, nodeVars, restVars
<1>9. ASSUME NEW answer \in {"ok", "refused", "unanswered"}, Press(answer)
      PROVE  UNCHANGED restVars
  BY <1>9 DEF Press, ToolWrites, Send, Spin, Jog, idVars, nodeVars, restVars
<1>10. ASSUME NEW answer \in {"ok", "refused", "unanswered"}, Quit(answer)
       PROVE  UNCHANGED restVars
  BY <1>10 DEF Quit, ToolGoing, ToolWrites, Send, motionVars, idVars, nodeVars, restVars
<1>11. ASSUME NEW answer \in {"ok", "refused", "unanswered"}, SetZero(answer)
       PROVE  UNCHANGED restVars
  BY <1>11 DEF SetZero, ToolGoing, motionVars, idVars, nodeVars, restVars
<1>12. ASSUME NEW answer \in {"ok", "refused", "unanswered"}, SetId(answer)
       PROVE  UNCHANGED restVars
  BY <1>12 DEF SetId, ToolGoing, toolRegisters, motionVars, nodeVars, restVars
<1>13. ASSUME Scan
       PROVE  UNCHANGED restVars
  BY <1>13 DEF Scan, ToolGoing, toolRegisters, motionVars, idVars, nodeVars, restVars
<1>14. ASSUME ReadServoGains
       PROVE  UNCHANGED restVars
  BY <1>14 DEF ReadServoGains, ToolGoing, toolRegisters, motionVars, idVars, nodeVars, restVars
<1>15. ASSUME NEW fault \in BOOLEAN, Probe(fault)
       PROVE  UNCHANGED restVars
  BY <1>15 DEF Probe, ToolGoing, toolRegisters, motionVars, nodeVars, restVars
<1>16. ASSUME NEW fault \in BOOLEAN, ToolDisconnects(fault)
       PROVE  UNCHANGED restVars
  BY <1>16 DEF ToolDisconnects, ToolMishap, ToolEnds, idVars, restVars
<1>17. ASSUME ToolInterrupted
       PROVE  UNCHANGED restVars
  BY <1>17 DEF ToolInterrupted, ToolGoing, ToolMishap, ToolEnds, toolRegisters, motionVars, idVars,
     nodeVars, restVars
<1>18. ASSUME ToolKilled
       PROVE  UNCHANGED restVars
  BY <1>18 DEF ToolKilled, ToolEnds, idVars, restVars
<1>19. ASSUME PowerCycle
       PROVE  UNCHANGED restVars
  BY <1>19 DEF PowerCycle, motionVars, restVars
<1>20. QED
  BY <1>1, <1>2, <1>3, <1>4, <1>5, <1>6, <1>7, <1>8, <1>9, <1>10, <1>11, <1>12, <1>13, <1>14,
     <1>15, <1>16, <1>17, <1>18, <1>19 DEF MaintenanceAct, ToolStep


\* A tool leaves the registers it writes in their types.
LEMMA ToolRegisters ==
  ASSUME IInv, MaintenanceAct
  PROVE  RegistersTyped'
<1> USE DEF RegistersTyped
<1>0. RegistersTyped /\ UNCHANGED <<gains, locked>>
  BY RestIsKept, TypeParts DEF IInv, DriverInv, restVars
<1>1. ASSUME NEW program \in Programs, NEW servo \in Maintained, NEW new \in Ids, StartTool(program, servo, new)
      PROVE  RegistersTyped'
  BY <1>1, <1>0, RunningTool DEF StartTool, toolRegisters, idVars, nodeVars, restVars
<1>2. ASSUME NEW ok \in BOOLEAN, ToolOpens(ok)
      PROVE  RegistersTyped'
  BY <1>2, <1>0, RunningTool DEF ToolOpens, ToolGoing, toolRegisters, motionVars, idVars, nodeVars,
     restVars
<1>3. ASSUME NEW ok \in BOOLEAN, ToolPings(ok)
      PROVE  RegistersTyped'
  BY <1>3, <1>0, RunningTool DEF ToolPings, ToolGoing, toolRegisters, motionVars, idVars, nodeVars,
     restVars
<1>4. ASSUME NEW answer \in {"ok", "refused", "unanswered"}, ToolDisablesTorque(answer)
      PROVE  RegistersTyped'
  BY <1>4, <1>0, RunningTool DEF ToolDisablesTorque, ToolGoing, ToolConfigures, idVars, nodeVars,
     restVars, Applied
<1>5. ASSUME NEW answer \in {"ok", "refused", "unanswered"}, ToolSetsMode(answer)
      PROVE  RegistersTyped'
  BY <1>5, <1>0, RunningTool DEF ToolSetsMode, ToolGoing, ToolConfigures, idVars, nodeVars,
     restVars, Applied
<1>6. ASSUME NEW answer \in {"ok", "refused", "unanswered"}, ToolStagesGoal(answer)
      PROVE  RegistersTyped'
  BY <1>6, <1>0, RunningTool DEF ToolStagesGoal, ToolGoing, ToolConfigures, idVars, nodeVars,
     restVars, Applied
<1>7. ASSUME NEW answer \in {"ok", "refused", "unanswered"}, ToolEnablesTorque(answer)
      PROVE  RegistersTyped'
  BY <1>7, <1>0, RunningTool DEF ToolEnablesTorque, ToolGoing, ToolConfigures, idVars, nodeVars,
     restVars, Applied
<1>8. ASSUME NEW answer \in {"ok", "refused", "unanswered"}, SpinStarts(answer)
      PROVE  RegistersTyped'
  BY <1>8, <1>0, RunningTool DEF SpinStarts, ToolGoing, ToolWrites, Send, idVars, nodeVars,
     restVars, Applied
<1>9. ASSUME NEW answer \in {"ok", "refused", "unanswered"}, Press(answer)
      PROVE  RegistersTyped'
  BY <1>9, <1>0, RunningTool DEF Press, ToolWrites, Send, Spin, Jog, idVars, nodeVars, restVars,
     Applied
<1>10. ASSUME NEW answer \in {"ok", "refused", "unanswered"}, Quit(answer)
       PROVE  RegistersTyped'
  BY <1>10, <1>0, RunningTool DEF Quit, ToolGoing, ToolWrites, Send, motionVars, idVars, nodeVars,
     restVars, Applied
<1>11. ASSUME NEW answer \in {"ok", "refused", "unanswered"}, SetZero(answer)
       PROVE  RegistersTyped'
  BY <1>11, <1>0, RunningTool DEF SetZero, ToolGoing, motionVars, idVars, nodeVars, restVars,
     Applied
<1>12. ASSUME NEW answer \in {"ok", "refused", "unanswered"}, SetId(answer)
       PROVE  RegistersTyped'
  BY <1>12, <1>0, RunningTool DEF SetId, ToolGoing, toolRegisters, motionVars, nodeVars, restVars,
     Applied
<1>13. ASSUME Scan
       PROVE  RegistersTyped'
  BY <1>13, <1>0, RunningTool DEF Scan, ToolGoing, toolRegisters, motionVars, idVars, nodeVars,
     restVars
<1>14. ASSUME ReadServoGains
       PROVE  RegistersTyped'
  BY <1>14, <1>0, RunningTool DEF ReadServoGains, ToolGoing, toolRegisters, motionVars, idVars,
     nodeVars, restVars
<1>15. ASSUME NEW fault \in BOOLEAN, Probe(fault)
       PROVE  RegistersTyped'
  BY <1>15, <1>0, RunningTool DEF Probe, ToolGoing, toolRegisters, motionVars, nodeVars, restVars
<1>16. ASSUME NEW fault \in BOOLEAN, ToolDisconnects(fault)
       PROVE  RegistersTyped'
  BY <1>16, <1>0, RunningTool DEF ToolDisconnects, ToolMishap, ToolEnds, idVars, restVars
<1>17. ASSUME ToolInterrupted
       PROVE  RegistersTyped'
  BY <1>17, <1>0, RunningTool DEF ToolInterrupted, ToolGoing, ToolMishap, ToolEnds, toolRegisters,
     motionVars, idVars, nodeVars, restVars
<1>18. ASSUME ToolKilled
       PROVE  RegistersTyped'
  BY <1>18, <1>0, RunningTool DEF ToolKilled, ToolEnds, idVars, restVars
<1>19. ASSUME PowerCycle
       PROVE  RegistersTyped'
  BY <1>19, <1>0, RunningTool DEF PowerCycle, motionVars, restVars
<1>20. QED
  BY <1>1, <1>2, <1>3, <1>4, <1>5, <1>6, <1>7, <1>8, <1>9, <1>10, <1>11, <1>12, <1>13, <1>14,
     <1>15, <1>16, <1>17, <1>18, <1>19 DEF MaintenanceAct, ToolStep

\* The mishaps of a tool are counted.
LEMMA ToolHits ==
  ASSUME IInv, MaintenanceAct
  PROVE  hits' \in [Wheels -> 0..MaxHits]
<1>0. hits \in [Wheels -> 0..MaxHits]
  BY TypeParts DEF IInv, DriverInv, CountsTyped
<1>1. ASSUME NEW program \in Programs, NEW servo \in Maintained, NEW new \in Ids, StartTool(program, servo, new)
      PROVE  hits' \in [Wheels -> 0..MaxHits]
  BY <1>1, <1>0 DEF StartTool, toolRegisters, idVars, nodeVars, restVars, MaxHits
<1>2. ASSUME NEW ok \in BOOLEAN, ToolOpens(ok)
      PROVE  hits' \in [Wheels -> 0..MaxHits]
  BY <1>2, <1>0 DEF ToolOpens, ToolGoing, toolRegisters, motionVars, idVars, nodeVars, restVars,
     MaxHits
<1>3. ASSUME NEW ok \in BOOLEAN, ToolPings(ok)
      PROVE  hits' \in [Wheels -> 0..MaxHits]
  BY <1>3, <1>0 DEF ToolPings, ToolGoing, toolRegisters, motionVars, idVars, nodeVars, restVars,
     MaxHits
<1>4. ASSUME NEW answer \in {"ok", "refused", "unanswered"}, ToolDisablesTorque(answer)
      PROVE  hits' \in [Wheels -> 0..MaxHits]
  BY <1>4, <1>0 DEF ToolDisablesTorque, ToolGoing, ToolConfigures, idVars, nodeVars, restVars,
     MaxHits
<1>5. ASSUME NEW answer \in {"ok", "refused", "unanswered"}, ToolSetsMode(answer)
      PROVE  hits' \in [Wheels -> 0..MaxHits]
  BY <1>5, <1>0 DEF ToolSetsMode, ToolGoing, ToolConfigures, idVars, nodeVars, restVars, MaxHits
<1>6. ASSUME NEW answer \in {"ok", "refused", "unanswered"}, ToolStagesGoal(answer)
      PROVE  hits' \in [Wheels -> 0..MaxHits]
  BY <1>6, <1>0 DEF ToolStagesGoal, ToolGoing, ToolConfigures, idVars, nodeVars, restVars, MaxHits
<1>7. ASSUME NEW answer \in {"ok", "refused", "unanswered"}, ToolEnablesTorque(answer)
      PROVE  hits' \in [Wheels -> 0..MaxHits]
  BY <1>7, <1>0 DEF ToolEnablesTorque, ToolGoing, ToolConfigures, idVars, nodeVars, restVars,
     MaxHits
<1>8. ASSUME NEW answer \in {"ok", "refused", "unanswered"}, SpinStarts(answer)
      PROVE  hits' \in [Wheels -> 0..MaxHits]
  BY <1>8, <1>0 DEF SpinStarts, ToolGoing, ToolWrites, Send, idVars, nodeVars, restVars, MaxHits
<1>9. ASSUME NEW answer \in {"ok", "refused", "unanswered"}, Press(answer)
      PROVE  hits' \in [Wheels -> 0..MaxHits]
  BY <1>9, <1>0 DEF Press, ToolWrites, Send, Spin, Jog, idVars, nodeVars, restVars, MaxHits
<1>10. ASSUME NEW answer \in {"ok", "refused", "unanswered"}, Quit(answer)
       PROVE  hits' \in [Wheels -> 0..MaxHits]
  BY <1>10, <1>0 DEF Quit, ToolGoing, ToolWrites, Send, motionVars, idVars, nodeVars, restVars,
     MaxHits
<1>11. ASSUME NEW answer \in {"ok", "refused", "unanswered"}, SetZero(answer)
       PROVE  hits' \in [Wheels -> 0..MaxHits]
  BY <1>11, <1>0 DEF SetZero, ToolGoing, motionVars, idVars, nodeVars, restVars, MaxHits
<1>12. ASSUME NEW answer \in {"ok", "refused", "unanswered"}, SetId(answer)
       PROVE  hits' \in [Wheels -> 0..MaxHits]
  BY <1>12, <1>0 DEF SetId, ToolGoing, toolRegisters, motionVars, nodeVars, restVars, MaxHits
<1>13. ASSUME Scan
       PROVE  hits' \in [Wheels -> 0..MaxHits]
  BY <1>13, <1>0 DEF Scan, ToolGoing, toolRegisters, motionVars, idVars, nodeVars, restVars,
     MaxHits
<1>14. ASSUME ReadServoGains
       PROVE  hits' \in [Wheels -> 0..MaxHits]
  BY <1>14, <1>0 DEF ReadServoGains, ToolGoing, toolRegisters, motionVars, idVars, nodeVars,
     restVars, MaxHits
<1>15. ASSUME NEW fault \in BOOLEAN, Probe(fault)
       PROVE  hits' \in [Wheels -> 0..MaxHits]
  BY <1>15, <1>0 DEF Probe, ToolGoing, toolRegisters, motionVars, nodeVars, restVars, MaxHits
<1>16. ASSUME NEW fault \in BOOLEAN, ToolDisconnects(fault)
       PROVE  hits' \in [Wheels -> 0..MaxHits]
  BY <1>16, <1>0 DEF ToolDisconnects, ToolMishap, ToolEnds, idVars, restVars, MaxHits
<1>17. ASSUME ToolInterrupted
       PROVE  hits' \in [Wheels -> 0..MaxHits]
  BY <1>17, <1>0 DEF ToolInterrupted, ToolGoing, ToolMishap, ToolEnds, toolRegisters, motionVars,
     idVars, nodeVars, restVars, MaxHits
<1>18. ASSUME ToolKilled
       PROVE  hits' \in [Wheels -> 0..MaxHits]
  BY <1>18, <1>0 DEF ToolKilled, ToolEnds, idVars, restVars, MaxHits
<1>19. ASSUME PowerCycle
       PROVE  hits' \in [Wheels -> 0..MaxHits]
  BY <1>19, <1>0 DEF PowerCycle, motionVars, restVars, MaxHits
<1>20. QED
  BY <1>1, <1>2, <1>3, <1>4, <1>5, <1>6, <1>7, <1>8, <1>9, <1>10, <1>11, <1>12, <1>13, <1>14,
     <1>15, <1>16, <1>17, <1>18, <1>19 DEF MaintenanceAct, ToolStep

\* A tool runs before the node does, from its start to its end.
LEMMA ToolAlone ==
  ASSUME IInv, MaintenanceAct
  PROVE  ToolRunsAlone'
<1>0. /\ NodeNotStarted <=> NodeNotStarted'
      /\ ToolRunsAlone
  BY RestIsKept, Zenon DEF IInv, NodeNotStarted, restVars
<1>1. ASSUME NEW program \in Programs, NEW servo \in Maintained, NEW new \in Ids, StartTool(program, servo, new)
      PROVE  ToolRunsAlone'
  BY <1>1, <1>0, NoToolAssumption, ToolAssumption DEF StartTool, toolRegisters, idVars, nodeVars,
     restVars, ToolRunsAlone, Tools, Ids
<1>2. ASSUME NEW ok \in BOOLEAN, ToolOpens(ok)
      PROVE  ToolRunsAlone'
  BY <1>2, <1>0, NoToolAssumption, ToolAssumption DEF ToolOpens, ToolGoing, toolRegisters,
     motionVars, idVars, nodeVars, restVars, ToolRunsAlone, Tools, Ids
<1>3. ASSUME NEW ok \in BOOLEAN, ToolPings(ok)
      PROVE  ToolRunsAlone'
  BY <1>3, <1>0, NoToolAssumption, ToolAssumption DEF ToolPings, ToolGoing, toolRegisters,
     motionVars, idVars, nodeVars, restVars, ToolRunsAlone, Tools, Ids
<1>4. ASSUME NEW answer \in {"ok", "refused", "unanswered"}, ToolDisablesTorque(answer)
      PROVE  ToolRunsAlone'
  BY <1>4, <1>0, NoToolAssumption, ToolAssumption DEF ToolDisablesTorque, ToolGoing,
     ToolConfigures, idVars, nodeVars, restVars, ToolRunsAlone, Tools, Ids
<1>5. ASSUME NEW answer \in {"ok", "refused", "unanswered"}, ToolSetsMode(answer)
      PROVE  ToolRunsAlone'
  BY <1>5, <1>0, NoToolAssumption, ToolAssumption DEF ToolSetsMode, ToolGoing, ToolConfigures,
     idVars, nodeVars, restVars, ToolRunsAlone, Tools, Ids
<1>6. ASSUME NEW answer \in {"ok", "refused", "unanswered"}, ToolStagesGoal(answer)
      PROVE  ToolRunsAlone'
  BY <1>6, <1>0, NoToolAssumption, ToolAssumption DEF ToolStagesGoal, ToolGoing, ToolConfigures,
     idVars, nodeVars, restVars, ToolRunsAlone, Tools, Ids
<1>7. ASSUME NEW answer \in {"ok", "refused", "unanswered"}, ToolEnablesTorque(answer)
      PROVE  ToolRunsAlone'
  BY <1>7, <1>0, NoToolAssumption, ToolAssumption DEF ToolEnablesTorque, ToolGoing, ToolConfigures,
     idVars, nodeVars, restVars, ToolRunsAlone, Tools, Ids
<1>8. ASSUME NEW answer \in {"ok", "refused", "unanswered"}, SpinStarts(answer)
      PROVE  ToolRunsAlone'
  BY <1>8, <1>0, NoToolAssumption, ToolAssumption DEF SpinStarts, ToolGoing, ToolWrites, Send,
     idVars, nodeVars, restVars, ToolRunsAlone, Tools, Ids
<1>9. ASSUME NEW answer \in {"ok", "refused", "unanswered"}, Press(answer)
      PROVE  ToolRunsAlone'
  BY <1>9, <1>0, NoToolAssumption, ToolAssumption DEF Press, ToolWrites, Send, Spin, Jog, idVars,
     nodeVars, restVars, ToolRunsAlone, Tools, Ids
<1>10. ASSUME NEW answer \in {"ok", "refused", "unanswered"}, Quit(answer)
       PROVE  ToolRunsAlone'
  BY <1>10, <1>0, NoToolAssumption, ToolAssumption DEF Quit, ToolGoing, ToolWrites, Send,
     motionVars, idVars, nodeVars, restVars, ToolRunsAlone, Tools, Ids
<1>11. ASSUME NEW answer \in {"ok", "refused", "unanswered"}, SetZero(answer)
       PROVE  ToolRunsAlone'
  BY <1>11, <1>0, NoToolAssumption, ToolAssumption DEF SetZero, ToolGoing, motionVars, idVars,
     nodeVars, restVars, ToolRunsAlone, Tools, Ids
<1>12. ASSUME NEW answer \in {"ok", "refused", "unanswered"}, SetId(answer)
       PROVE  ToolRunsAlone'
  BY <1>12, <1>0, NoToolAssumption, ToolAssumption DEF SetId, ToolGoing, toolRegisters, motionVars,
     nodeVars, restVars, ToolRunsAlone, Tools, Ids
<1>13. ASSUME Scan
       PROVE  ToolRunsAlone'
  BY <1>13, <1>0, NoToolAssumption, ToolAssumption DEF Scan, ToolGoing, toolRegisters, motionVars,
     idVars, nodeVars, restVars, ToolRunsAlone, Tools, Ids
<1>14. ASSUME ReadServoGains
       PROVE  ToolRunsAlone'
  BY <1>14, <1>0, NoToolAssumption, ToolAssumption DEF ReadServoGains, ToolGoing, toolRegisters,
     motionVars, idVars, nodeVars, restVars, ToolRunsAlone, Tools, Ids
<1>15. ASSUME NEW fault \in BOOLEAN, Probe(fault)
       PROVE  ToolRunsAlone'
  BY <1>15, <1>0, NoToolAssumption, ToolAssumption DEF Probe, ToolGoing, toolRegisters, motionVars,
     nodeVars, restVars, ToolRunsAlone, Tools, Ids
<1>16. ASSUME NEW fault \in BOOLEAN, ToolDisconnects(fault)
       PROVE  ToolRunsAlone'
  BY <1>16, <1>0, NoToolAssumption, ToolAssumption DEF ToolDisconnects, ToolMishap, ToolEnds,
     idVars, restVars, ToolRunsAlone, Tools, Ids
<1>17. ASSUME ToolInterrupted
       PROVE  ToolRunsAlone'
  BY <1>17, <1>0, NoToolAssumption, ToolAssumption DEF ToolInterrupted, ToolGoing, ToolMishap,
     ToolEnds, toolRegisters, motionVars, idVars, nodeVars, restVars, ToolRunsAlone, Tools, Ids
<1>18. ASSUME ToolKilled
       PROVE  ToolRunsAlone'
  BY <1>18, <1>0, NoToolAssumption, ToolAssumption DEF ToolKilled, ToolEnds, idVars, restVars,
     ToolRunsAlone, Tools, Ids
<1>19. ASSUME PowerCycle
       PROVE  ToolRunsAlone'
  BY <1>19, <1>0, NoToolAssumption, ToolAssumption DEF PowerCycle, motionVars, restVars,
     ToolRunsAlone, Tools, Ids
<1>20. QED
  BY <1>1, <1>2, <1>3, <1>4, <1>5, <1>6, <1>7, <1>8, <1>9, <1>10, <1>11, <1>12, <1>13, <1>14,
     <1>15, <1>16, <1>17, <1>18, <1>19 DEF MaintenanceAct, ToolStep

\* The positions and speeds that the tools think of.
JogRange == (-(Span + MaxJogs))..(Span + MaxJogs)
SpeedRange == (-MaxSpeed)..MaxSpeed

MotionTyped ==
    /\ believed \in JogRange \cup SpeedRange
    /\ written \in (-Span)..Span \cup 0..(2 * SpeedMagnitudes - 1)

\* The rest of a tool's state.
ToolTyped ==
    /\ tool \in Tools \cup {None}
    /\ toolAt \in {"none", "open", "torque_off", "mode", "stage", "torque_on", "ping", "probe",
                   "start", "work", "interrupted", "disconnect"}
    /\ stored \in [Servos -> Ids] /\ wire \in [Servos -> Ids]
    /\ mishaps \in 0..MaxHits
    /\ tools \in 0..MaxTools

LEMMA ToolParts ==
  /\ ToolTypeOK <=> TypeOK /\ ToolTyped /\ MotionTyped /\ unsure \in BOOLEAN /\ excused \in BOOLEAN
  /\ ToolTypeOK' <=> (TypeOK /\ ToolTyped /\ MotionTyped /\ unsure \in BOOLEAN /\ excused \in BOOLEAN)'
BY Zenon DEF ToolTypeOK, ToolTyped, MotionTyped, JogRange, SpeedRange

\* A step of a tool keeps the types of what it writes, and of what it knows.
LEMMA ToolTypedStep ==
  ASSUME IInv, MaintenanceAct
  PROVE  ToolTyped'
<1>0. ToolTyped
  BY ToolParts DEF IInv
<1>a. MaxTools \in Nat /\ Maintained \subseteq Servos /\ Servos \subseteq Ids
  BY ToolAssumption DEF Ids
<1>1. ASSUME NEW program \in Programs, NEW servo \in Maintained, NEW new \in Ids, StartTool(program, servo, new)
      PROVE  ToolTyped'
  BY <1>1, <1>0, <1>a DEF StartTool, toolRegisters, idVars, nodeVars, restVars, ToolTyped, MaxHits,
     Tools
<1>2. ASSUME NEW ok \in BOOLEAN, ToolOpens(ok)
      PROVE  ToolTyped'
  BY <1>2, <1>0, <1>a DEF ToolOpens, ToolGoing, toolRegisters, motionVars, idVars, nodeVars,
     restVars, ToolTyped, MaxHits, Tools
<1>3. ASSUME NEW ok \in BOOLEAN, ToolPings(ok)
      PROVE  ToolTyped'
  BY <1>3, <1>0, <1>a DEF ToolPings, ToolGoing, toolRegisters, motionVars, idVars, nodeVars,
     restVars, ToolTyped, MaxHits, Tools
<1>4. ASSUME NEW answer \in {"ok", "refused", "unanswered"}, ToolDisablesTorque(answer)
      PROVE  ToolTyped'
  BY <1>4, <1>0, <1>a DEF ToolDisablesTorque, ToolGoing, ToolConfigures, idVars, nodeVars,
     restVars, ToolTyped, MaxHits, Tools, Applied
<1>5. ASSUME NEW answer \in {"ok", "refused", "unanswered"}, ToolSetsMode(answer)
      PROVE  ToolTyped'
  BY <1>5, <1>0, <1>a DEF ToolSetsMode, ToolGoing, ToolConfigures, idVars, nodeVars, restVars,
     ToolTyped, MaxHits, Tools, Applied
<1>6. ASSUME NEW answer \in {"ok", "refused", "unanswered"}, ToolStagesGoal(answer)
      PROVE  ToolTyped'
  BY <1>6, <1>0, <1>a DEF ToolStagesGoal, ToolGoing, ToolConfigures, idVars, nodeVars, restVars,
     ToolTyped, MaxHits, Tools, Applied
<1>7. ASSUME NEW answer \in {"ok", "refused", "unanswered"}, ToolEnablesTorque(answer)
      PROVE  ToolTyped'
  BY <1>7, <1>0, <1>a DEF ToolEnablesTorque, ToolGoing, ToolConfigures, idVars, nodeVars, restVars,
     ToolTyped, MaxHits, Tools, Applied
<1>8. ASSUME NEW answer \in {"ok", "refused", "unanswered"}, SpinStarts(answer)
      PROVE  ToolTyped'
  BY <1>8, <1>0, <1>a DEF SpinStarts, ToolGoing, ToolWrites, Send, idVars, nodeVars, restVars,
     ToolTyped, MaxHits, Tools, Applied
<1>9. ASSUME NEW answer \in {"ok", "refused", "unanswered"}, Press(answer)
      PROVE  ToolTyped'
  BY <1>9, <1>0, <1>a DEF Press, ToolWrites, Send, Spin, Jog, idVars, nodeVars, restVars,
     ToolTyped, MaxHits, Tools, Applied
<1>10. ASSUME NEW answer \in {"ok", "refused", "unanswered"}, Quit(answer)
       PROVE  ToolTyped'
  BY <1>10, <1>0, <1>a DEF Quit, ToolGoing, ToolWrites, Send, motionVars, idVars, nodeVars,
     restVars, ToolTyped, MaxHits, Tools, Applied
<1>11. ASSUME NEW answer \in {"ok", "refused", "unanswered"}, SetZero(answer)
       PROVE  ToolTyped'
  BY <1>11, <1>0, <1>a DEF SetZero, ToolGoing, motionVars, idVars, nodeVars, restVars, ToolTyped,
     MaxHits, Tools, Applied
<1>12. ASSUME NEW answer \in {"ok", "refused", "unanswered"}, SetId(answer)
       PROVE  ToolTyped'
  BY <1>12, <1>0, <1>a, RunningTool DEF SetId, ToolGoing, toolRegisters, motionVars, nodeVars,
     restVars, ToolTyped, MaxHits, Tools, Applied, S
<1>13. ASSUME Scan
       PROVE  ToolTyped'
  BY <1>13, <1>0, <1>a DEF Scan, ToolGoing, toolRegisters, motionVars, idVars, nodeVars, restVars,
     ToolTyped, MaxHits, Tools
<1>14. ASSUME ReadServoGains
       PROVE  ToolTyped'
  BY <1>14, <1>0, <1>a DEF ReadServoGains, ToolGoing, toolRegisters, motionVars, idVars, nodeVars,
     restVars, ToolTyped, MaxHits, Tools
<1>15. ASSUME NEW fault \in BOOLEAN, Probe(fault)
       PROVE  ToolTyped'
  BY <1>15, <1>0, <1>a DEF Probe, ToolGoing, toolRegisters, motionVars, nodeVars, restVars,
     ToolTyped, MaxHits, Tools
<1>16. ASSUME NEW fault \in BOOLEAN, ToolDisconnects(fault)
       PROVE  ToolTyped'
  BY <1>16, <1>0, <1>a DEF ToolDisconnects, ToolMishap, ToolEnds, idVars, restVars, ToolTyped,
     MaxHits, Tools
<1>17. ASSUME ToolInterrupted
       PROVE  ToolTyped'
  BY <1>17, <1>0, <1>a DEF ToolInterrupted, ToolGoing, ToolMishap, ToolEnds, toolRegisters,
     motionVars, idVars, nodeVars, restVars, ToolTyped, MaxHits, Tools
<1>18. ASSUME ToolKilled
       PROVE  ToolTyped'
  BY <1>18, <1>0, <1>a DEF ToolKilled, ToolEnds, idVars, restVars, ToolTyped, MaxHits, Tools
<1>19. ASSUME PowerCycle
       PROVE  ToolTyped'
  BY <1>19, <1>0, <1>a DEF PowerCycle, motionVars, restVars, ToolTyped, MaxHits, Tools
<1>20. QED
  BY <1>1, <1>2, <1>3, <1>4, <1>5, <1>6, <1>7, <1>8, <1>9, <1>10, <1>11, <1>12, <1>13, <1>14,
     <1>15, <1>16, <1>17, <1>18, <1>19 DEF MaintenanceAct, ToolStep

\* It keeps the flags that say what it may be excused for.
LEMMA FlagsStep ==
  ASSUME IInv, MaintenanceAct
  PROVE  unsure' \in BOOLEAN /\ excused' \in BOOLEAN
<1>0. unsure \in BOOLEAN /\ excused \in BOOLEAN
  BY ToolParts DEF IInv
<1>1. ASSUME NEW program \in Programs, NEW servo \in Maintained, NEW new \in Ids, StartTool(program, servo, new)
      PROVE  unsure' \in BOOLEAN /\ excused' \in BOOLEAN
  BY <1>1, <1>0, Zenon DEF StartTool, toolRegisters, idVars, nodeVars, restVars
<1>2. ASSUME NEW ok \in BOOLEAN, ToolOpens(ok)
      PROVE  unsure' \in BOOLEAN /\ excused' \in BOOLEAN
  BY <1>2, <1>0, Zenon DEF ToolOpens, ToolGoing, toolRegisters, motionVars, idVars, nodeVars,
     restVars
<1>3. ASSUME NEW ok \in BOOLEAN, ToolPings(ok)
      PROVE  unsure' \in BOOLEAN /\ excused' \in BOOLEAN
  BY <1>3, <1>0, Zenon DEF ToolPings, ToolGoing, toolRegisters, motionVars, idVars, nodeVars,
     restVars
<1>4. ASSUME NEW answer \in {"ok", "refused", "unanswered"}, ToolDisablesTorque(answer)
      PROVE  unsure' \in BOOLEAN /\ excused' \in BOOLEAN
  BY <1>4, <1>0, Zenon DEF ToolDisablesTorque, ToolGoing, ToolConfigures, idVars, nodeVars,
     restVars
<1>5. ASSUME NEW answer \in {"ok", "refused", "unanswered"}, ToolSetsMode(answer)
      PROVE  unsure' \in BOOLEAN /\ excused' \in BOOLEAN
  BY <1>5, <1>0, Zenon DEF ToolSetsMode, ToolGoing, ToolConfigures, idVars, nodeVars, restVars
<1>6. ASSUME NEW answer \in {"ok", "refused", "unanswered"}, ToolStagesGoal(answer)
      PROVE  unsure' \in BOOLEAN /\ excused' \in BOOLEAN
  BY <1>6, <1>0, Zenon DEF ToolStagesGoal, ToolGoing, ToolConfigures, idVars, nodeVars, restVars
<1>7. ASSUME NEW answer \in {"ok", "refused", "unanswered"}, ToolEnablesTorque(answer)
      PROVE  unsure' \in BOOLEAN /\ excused' \in BOOLEAN
  BY <1>7, <1>0, Zenon DEF ToolEnablesTorque, ToolGoing, ToolConfigures, idVars, nodeVars, restVars
<1>8. ASSUME NEW answer \in {"ok", "refused", "unanswered"}, SpinStarts(answer)
      PROVE  unsure' \in BOOLEAN /\ excused' \in BOOLEAN
  BY <1>8, <1>0, Zenon DEF SpinStarts, ToolGoing, ToolWrites, Send, idVars, nodeVars, restVars
<1>9. ASSUME NEW answer \in {"ok", "refused", "unanswered"}, Press(answer)
      PROVE  unsure' \in BOOLEAN /\ excused' \in BOOLEAN
  BY <1>9, <1>0, Zenon DEF Press, ToolWrites, Send, Spin, Jog, idVars, nodeVars, restVars
<1>10. ASSUME NEW answer \in {"ok", "refused", "unanswered"}, Quit(answer)
       PROVE  unsure' \in BOOLEAN /\ excused' \in BOOLEAN
  BY <1>10, <1>0, Zenon DEF Quit, ToolGoing, ToolWrites, Send, motionVars, idVars, nodeVars,
     restVars
<1>11. ASSUME NEW answer \in {"ok", "refused", "unanswered"}, SetZero(answer)
       PROVE  unsure' \in BOOLEAN /\ excused' \in BOOLEAN
  BY <1>11, <1>0, Zenon DEF SetZero, ToolGoing, motionVars, idVars, nodeVars, restVars
<1>12. ASSUME NEW answer \in {"ok", "refused", "unanswered"}, SetId(answer)
       PROVE  unsure' \in BOOLEAN /\ excused' \in BOOLEAN
  BY <1>12, <1>0, Zenon DEF SetId, ToolGoing, toolRegisters, motionVars, nodeVars, restVars
<1>13. ASSUME Scan
       PROVE  unsure' \in BOOLEAN /\ excused' \in BOOLEAN
  BY <1>13, <1>0, Zenon DEF Scan, ToolGoing, toolRegisters, motionVars, idVars, nodeVars, restVars
<1>14. ASSUME ReadServoGains
       PROVE  unsure' \in BOOLEAN /\ excused' \in BOOLEAN
  BY <1>14, <1>0, Zenon DEF ReadServoGains, ToolGoing, toolRegisters, motionVars, idVars, nodeVars,
     restVars
<1>15. ASSUME NEW fault \in BOOLEAN, Probe(fault)
       PROVE  unsure' \in BOOLEAN /\ excused' \in BOOLEAN
  BY <1>15, <1>0, Zenon DEF Probe, ToolGoing, toolRegisters, motionVars, nodeVars, restVars
<1>16. ASSUME NEW fault \in BOOLEAN, ToolDisconnects(fault)
       PROVE  unsure' \in BOOLEAN /\ excused' \in BOOLEAN
  BY <1>16, <1>0, Zenon DEF ToolDisconnects, ToolMishap, ToolEnds, idVars, restVars
<1>17. ASSUME ToolInterrupted
       PROVE  unsure' \in BOOLEAN /\ excused' \in BOOLEAN
  BY <1>17, <1>0, Zenon DEF ToolInterrupted, ToolGoing, ToolMishap, ToolEnds, toolRegisters,
     motionVars, idVars, nodeVars, restVars
<1>18. ASSUME ToolKilled
       PROVE  unsure' \in BOOLEAN /\ excused' \in BOOLEAN
  BY <1>18, <1>0, Zenon DEF ToolKilled, ToolEnds, idVars, restVars
<1>19. ASSUME PowerCycle
       PROVE  unsure' \in BOOLEAN /\ excused' \in BOOLEAN
  BY <1>19, <1>0, Zenon DEF PowerCycle, motionVars, restVars
<1>20. QED
  BY <1>1, <1>2, <1>3, <1>4, <1>5, <1>6, <1>7, <1>8, <1>9, <1>10, <1>11, <1>12, <1>13, <1>14,
     <1>15, <1>16, <1>17, <1>18, <1>19 DEF MaintenanceAct, ToolStep

\* A tool on its way through the configuration, and out of it.
LEMMA ToolStageStep ==
  ASSUME IInv, MaintenanceAct
  PROVE  ToolStage'
<1>0. /\ ToolStage /\ mishaps \in 0..2 /\ (tool = None <=> toolAt = "none")
      /\ torque \in [Servos -> BOOLEAN] /\ goal \in [Servos -> {"stale", "safe", "commanded"}]
  BY ToolParts, TypeParts DEF IInv, ToolTyped, MaxHits, ToolRunsAlone, RegistersTyped
<1>1. ASSUME NEW program \in Programs, NEW servo \in Maintained, NEW new \in Ids, StartTool(program, servo, new)
      PROVE  ToolStage'
  BY <1>1, <1>0, RunningTool DEF StartTool, toolRegisters, idVars, nodeVars, restVars, ToolStage,
     MaxHits, Driven, S, Program
<1>2. ASSUME NEW ok \in BOOLEAN, ToolOpens(ok)
      PROVE  ToolStage'
  BY <1>2, <1>0, RunningTool DEF ToolOpens, ToolGoing, toolRegisters, motionVars, idVars, nodeVars,
     restVars, ToolStage, MaxHits, Driven, S, Program
<1>3. ASSUME NEW ok \in BOOLEAN, ToolPings(ok)
      PROVE  ToolStage'
  BY <1>3, <1>0, RunningTool DEF ToolPings, ToolGoing, toolRegisters, motionVars, idVars, nodeVars,
     restVars, ToolStage, MaxHits, Driven, S, Program
<1>4. ASSUME NEW answer \in {"ok", "refused", "unanswered"}, ToolDisablesTorque(answer)
      PROVE  ToolStage'
  BY <1>4, <1>0, RunningTool DEF ToolDisablesTorque, ToolGoing, ToolConfigures, idVars, nodeVars,
     restVars, ToolStage, MaxHits, Applied, Driven, S, Program
<1>5. ASSUME NEW answer \in {"ok", "refused", "unanswered"}, ToolSetsMode(answer)
      PROVE  ToolStage'
  BY <1>5, <1>0, RunningTool DEF ToolSetsMode, ToolGoing, ToolConfigures, idVars, nodeVars,
     restVars, ToolStage, MaxHits, Applied, Driven, S, Program
<1>6. ASSUME NEW answer \in {"ok", "refused", "unanswered"}, ToolStagesGoal(answer)
      PROVE  ToolStage'
  BY <1>6, <1>0, RunningTool DEF ToolStagesGoal, ToolGoing, ToolConfigures, idVars, nodeVars,
     restVars, ToolStage, MaxHits, Applied, Driven, S, Program
<1>7. ASSUME NEW answer \in {"ok", "refused", "unanswered"}, ToolEnablesTorque(answer)
      PROVE  ToolStage'
  BY <1>7, <1>0, RunningTool DEF ToolEnablesTorque, ToolGoing, ToolConfigures, idVars, nodeVars,
     restVars, ToolStage, MaxHits, Applied, Driven, S, Program
<1>8. ASSUME NEW answer \in {"ok", "refused", "unanswered"}, SpinStarts(answer)
      PROVE  ToolStage'
  BY <1>8, <1>0, RunningTool DEF SpinStarts, ToolGoing, ToolWrites, Send, idVars, nodeVars,
     restVars, ToolStage, MaxHits, Applied, Driven, S, Program
<1>9. ASSUME NEW answer \in {"ok", "refused", "unanswered"}, Press(answer)
      PROVE  ToolStage'
  BY <1>9, <1>0, RunningTool DEF Press, ToolWrites, Send, Spin, Jog, idVars, nodeVars, restVars,
     ToolStage, MaxHits, Applied, Driven, S, Program
<1>10. ASSUME NEW answer \in {"ok", "refused", "unanswered"}, Quit(answer)
       PROVE  ToolStage'
  BY <1>10, <1>0, RunningTool DEF Quit, ToolGoing, ToolWrites, Send, motionVars, idVars, nodeVars,
     restVars, ToolStage, MaxHits, Applied, Driven, S, Program
<1>11. ASSUME NEW answer \in {"ok", "refused", "unanswered"}, SetZero(answer)
       PROVE  ToolStage'
  BY <1>11, <1>0, RunningTool DEF SetZero, ToolGoing, motionVars, idVars, nodeVars, restVars,
     ToolStage, MaxHits, Applied, Driven, S, Program
<1>12. ASSUME NEW answer \in {"ok", "refused", "unanswered"}, SetId(answer)
       PROVE  ToolStage'
  BY <1>12, <1>0, RunningTool DEF SetId, ToolGoing, toolRegisters, motionVars, nodeVars, restVars,
     ToolStage, MaxHits, Applied, Driven, S, Program
<1>13. ASSUME Scan
       PROVE  ToolStage'
  BY <1>13, <1>0, RunningTool DEF Scan, ToolGoing, toolRegisters, motionVars, idVars, nodeVars,
     restVars, ToolStage, MaxHits, Driven, S, Program
<1>14. ASSUME ReadServoGains
       PROVE  ToolStage'
  BY <1>14, <1>0, RunningTool DEF ReadServoGains, ToolGoing, toolRegisters, motionVars, idVars,
     nodeVars, restVars, ToolStage, MaxHits, Driven, S, Program
<1>15. ASSUME NEW fault \in BOOLEAN, Probe(fault)
       PROVE  ToolStage'
  BY <1>15, <1>0, RunningTool DEF Probe, ToolGoing, toolRegisters, motionVars, nodeVars, restVars,
     ToolStage, MaxHits, Driven, S, Program
<1>16. ASSUME NEW fault \in BOOLEAN, ToolDisconnects(fault)
       PROVE  ToolStage'
  BY <1>16, <1>0, RunningTool DEF ToolDisconnects, ToolMishap, ToolEnds, idVars, restVars,
     ToolStage, MaxHits, Driven, S, Program
<1>17. ASSUME ToolInterrupted
       PROVE  ToolStage'
  BY <1>17, <1>0, RunningTool DEF ToolInterrupted, ToolGoing, ToolMishap, ToolEnds, toolRegisters,
     motionVars, idVars, nodeVars, restVars, ToolStage, MaxHits, Driven, S, Program
<1>18. ASSUME ToolKilled
       PROVE  ToolStage'
  BY <1>18, <1>0, RunningTool DEF ToolKilled, ToolEnds, idVars, restVars, ToolStage, MaxHits,
     Driven, S, Program
<1>19. ASSUME PowerCycle
       PROVE  ToolStage'
  BY <1>19, <1>0, RunningTool DEF PowerCycle, motionVars, restVars, ToolStage, MaxHits, Driven, S,
     Program
<1>20. QED
  BY <1>1, <1>2, <1>3, <1>4, <1>5, <1>6, <1>7, <1>8, <1>9, <1>10, <1>11, <1>12, <1>13, <1>14,
     <1>15, <1>16, <1>17, <1>18, <1>19 DEF MaintenanceAct, ToolStep

\* A tool has sent nothing until it takes keys.
LEMMA FreshStep ==
  ASSUME IInv, MaintenanceAct
  PROVE  ToolStartsAfresh'
<1>0. ToolStartsAfresh
  BY DEF IInv
<1>1. ASSUME NEW program \in Programs, NEW servo \in Maintained, NEW new \in Ids, StartTool(program, servo, new)
      PROVE  ToolStartsAfresh'
  BY <1>1, <1>0 DEF StartTool, toolRegisters, idVars, nodeVars, restVars, ToolStartsAfresh
<1>2. ASSUME NEW ok \in BOOLEAN, ToolOpens(ok)
      PROVE  ToolStartsAfresh'
  BY <1>2, <1>0 DEF ToolOpens, ToolGoing, toolRegisters, motionVars, idVars, nodeVars, restVars,
     ToolStartsAfresh
<1>3. ASSUME NEW ok \in BOOLEAN, ToolPings(ok)
      PROVE  ToolStartsAfresh'
  BY <1>3, <1>0 DEF ToolPings, ToolGoing, toolRegisters, motionVars, idVars, nodeVars, restVars,
     ToolStartsAfresh
<1>4. ASSUME NEW answer \in {"ok", "refused", "unanswered"}, ToolDisablesTorque(answer)
      PROVE  ToolStartsAfresh'
  BY <1>4, <1>0 DEF ToolDisablesTorque, ToolGoing, ToolConfigures, idVars, nodeVars, restVars,
     ToolStartsAfresh
<1>5. ASSUME NEW answer \in {"ok", "refused", "unanswered"}, ToolSetsMode(answer)
      PROVE  ToolStartsAfresh'
  BY <1>5, <1>0 DEF ToolSetsMode, ToolGoing, ToolConfigures, idVars, nodeVars, restVars,
     ToolStartsAfresh
<1>6. ASSUME NEW answer \in {"ok", "refused", "unanswered"}, ToolStagesGoal(answer)
      PROVE  ToolStartsAfresh'
  BY <1>6, <1>0 DEF ToolStagesGoal, ToolGoing, ToolConfigures, idVars, nodeVars, restVars,
     ToolStartsAfresh
<1>7. ASSUME NEW answer \in {"ok", "refused", "unanswered"}, ToolEnablesTorque(answer)
      PROVE  ToolStartsAfresh'
  BY <1>7, <1>0 DEF ToolEnablesTorque, ToolGoing, ToolConfigures, idVars, nodeVars, restVars,
     ToolStartsAfresh
<1>8. ASSUME NEW answer \in {"ok", "refused", "unanswered"}, SpinStarts(answer)
      PROVE  ToolStartsAfresh'
  BY <1>8, <1>0 DEF SpinStarts, ToolGoing, ToolWrites, Send, idVars, nodeVars, restVars,
     ToolStartsAfresh
<1>9. ASSUME NEW answer \in {"ok", "refused", "unanswered"}, Press(answer)
      PROVE  ToolStartsAfresh'
  BY <1>9, <1>0 DEF Press, ToolWrites, Send, Spin, Jog, idVars, nodeVars, restVars,
     ToolStartsAfresh
<1>10. ASSUME NEW answer \in {"ok", "refused", "unanswered"}, Quit(answer)
       PROVE  ToolStartsAfresh'
  BY <1>10, <1>0 DEF Quit, ToolGoing, ToolWrites, Send, motionVars, idVars, nodeVars, restVars,
     ToolStartsAfresh
<1>11. ASSUME NEW answer \in {"ok", "refused", "unanswered"}, SetZero(answer)
       PROVE  ToolStartsAfresh'
  BY <1>11, <1>0 DEF SetZero, ToolGoing, motionVars, idVars, nodeVars, restVars, ToolStartsAfresh
<1>12. ASSUME NEW answer \in {"ok", "refused", "unanswered"}, SetId(answer)
       PROVE  ToolStartsAfresh'
  BY <1>12, <1>0 DEF SetId, ToolGoing, toolRegisters, motionVars, nodeVars, restVars,
     ToolStartsAfresh
<1>13. ASSUME Scan
       PROVE  ToolStartsAfresh'
  BY <1>13, <1>0 DEF Scan, ToolGoing, toolRegisters, motionVars, idVars, nodeVars, restVars,
     ToolStartsAfresh
<1>14. ASSUME ReadServoGains
       PROVE  ToolStartsAfresh'
  BY <1>14, <1>0 DEF ReadServoGains, ToolGoing, toolRegisters, motionVars, idVars, nodeVars,
     restVars, ToolStartsAfresh
<1>15. ASSUME NEW fault \in BOOLEAN, Probe(fault)
       PROVE  ToolStartsAfresh'
  BY <1>15, <1>0 DEF Probe, ToolGoing, toolRegisters, motionVars, nodeVars, restVars,
     ToolStartsAfresh
<1>16. ASSUME NEW fault \in BOOLEAN, ToolDisconnects(fault)
       PROVE  ToolStartsAfresh'
  BY <1>16, <1>0 DEF ToolDisconnects, ToolMishap, ToolEnds, idVars, restVars, ToolStartsAfresh
<1>17. ASSUME ToolInterrupted
       PROVE  ToolStartsAfresh'
  BY <1>17, <1>0 DEF ToolInterrupted, ToolGoing, ToolMishap, ToolEnds, toolRegisters, motionVars,
     idVars, nodeVars, restVars, ToolStartsAfresh
<1>18. ASSUME ToolKilled
       PROVE  ToolStartsAfresh'
  BY <1>18, <1>0 DEF ToolKilled, ToolEnds, idVars, restVars, ToolStartsAfresh
<1>19. ASSUME PowerCycle
       PROVE  ToolStartsAfresh'
  BY <1>19, <1>0 DEF PowerCycle, motionVars, restVars, ToolStartsAfresh
<1>20. QED
  BY <1>1, <1>2, <1>3, <1>4, <1>5, <1>6, <1>7, <1>8, <1>9, <1>10, <1>11, <1>12, <1>13, <1>14,
     <1>15, <1>16, <1>17, <1>18, <1>19 DEF MaintenanceAct, ToolStep

\* What spin knows once it has sent a velocity.
LEMMA SendIsKnown ==
  ASSUME NEW velocity, NEW answer, Send(velocity, answer)
  PROVE  believed' = velocity /\ (~unsure' => written' = RawSpeed(velocity))
<1>1. unsure' = (unsure \/ answer # "ok") /\ believed' = velocity
  BY DEF Send, ToolWrites
<1>2. ~unsure' => answer = "ok"
  BY <1>1, Zenon
<1>3. answer = "ok" => written' = RawSpeed(velocity)
  BY DEF Send, ToolWrites, Applied
<1>4. QED
  BY <1>1, <1>2, <1>3

\* The velocity in the register is the one spin believes in.
LEMMA SpinStep ==
  ASSUME IInv, MaintenanceAct
  PROVE  SpinState'
<1>0. SpinState /\ RawSpeed(0) = 0 /\ MaxSpeed \in Nat
  BY MagnitudesDiffer, ToolAssumption DEF IInv, RawSpeed
<1>1. ASSUME NEW program \in Programs, NEW servo \in Maintained, NEW new \in Ids, StartTool(program, servo, new)
      PROVE  SpinState'
  BY <1>1, <1>0 DEF StartTool, toolRegisters, idVars, nodeVars, restVars, SpinState, Program
<1>2. ASSUME NEW ok \in BOOLEAN, ToolOpens(ok)
      PROVE  SpinState'
  BY <1>2, <1>0 DEF ToolOpens, ToolGoing, toolRegisters, motionVars, idVars, nodeVars, restVars,
     SpinState, Program
<1>3. ASSUME NEW ok \in BOOLEAN, ToolPings(ok)
      PROVE  SpinState'
  BY <1>3, <1>0 DEF ToolPings, ToolGoing, toolRegisters, motionVars, idVars, nodeVars, restVars,
     SpinState, Program
<1>4. ASSUME NEW answer \in {"ok", "refused", "unanswered"}, ToolDisablesTorque(answer)
      PROVE  SpinState'
  BY <1>4, <1>0 DEF ToolDisablesTorque, ToolGoing, ToolConfigures, idVars, nodeVars, restVars,
     SpinState, Program
<1>5. ASSUME NEW answer \in {"ok", "refused", "unanswered"}, ToolSetsMode(answer)
      PROVE  SpinState'
  BY <1>5, <1>0 DEF ToolSetsMode, ToolGoing, ToolConfigures, idVars, nodeVars, restVars, SpinState,
     Program
<1>6. ASSUME NEW answer \in {"ok", "refused", "unanswered"}, ToolStagesGoal(answer)
      PROVE  SpinState'
  BY <1>6, <1>0 DEF ToolStagesGoal, ToolGoing, ToolConfigures, idVars, nodeVars, restVars,
     SpinState, Program, ToolStartsAfresh, IInv
<1>7. ASSUME NEW answer \in {"ok", "refused", "unanswered"}, ToolEnablesTorque(answer)
      PROVE  SpinState'
  BY <1>7, <1>0 DEF ToolEnablesTorque, ToolGoing, ToolConfigures, idVars, nodeVars, restVars,
     SpinState, Program
<1>8. ASSUME NEW answer \in {"ok", "refused", "unanswered"}, SpinStarts(answer)
      PROVE  SpinState'
  <2>1. Send(0, answer) /\ UNCHANGED tool
    BY <1>8 DEF SpinStarts, ToolGoing
  <2>2. QED
    BY <1>0, <2>1, SendIsKnown DEF SpinState
<1>9. ASSUME NEW answer \in {"ok", "refused", "unanswered"}, Press(answer)
      PROVE  SpinState'
  <2>1. UNCHANGED tool /\ (Program = "spin" => Spin(answer))
    BY <1>9 DEF Press, Jog
  <2>2. ASSUME tool' # None, Program' = "spin"
        PROVE  \E velocity \in (-MaxSpeed)..MaxSpeed : Send(velocity, answer)
    BY <1>0, <2>1, <2>2 DEF SpinState, Spin, SpinKeys, Program
  <2>3. QED
    BY <2>2, SendIsKnown DEF SpinState
<1>10. ASSUME NEW answer \in {"ok", "refused", "unanswered"}, Quit(answer)
       PROVE  SpinState'
  <2>1. UNCHANGED tool /\ (Program = "spin" => Send(0, answer))
    BY <1>10 DEF Quit, ToolGoing
  <2>2. QED
    BY <1>0, <2>1, SendIsKnown DEF SpinState, Program
<1>11. ASSUME NEW answer \in {"ok", "refused", "unanswered"}, SetZero(answer)
       PROVE  SpinState'
  BY <1>11, <1>0 DEF SetZero, ToolGoing, motionVars, idVars, nodeVars, restVars, SpinState, Program
<1>12. ASSUME NEW answer \in {"ok", "refused", "unanswered"}, SetId(answer)
       PROVE  SpinState'
  BY <1>12, <1>0 DEF SetId, ToolGoing, toolRegisters, motionVars, nodeVars, restVars, SpinState,
     Program
<1>13. ASSUME Scan
       PROVE  SpinState'
  BY <1>13, <1>0 DEF Scan, ToolGoing, toolRegisters, motionVars, idVars, nodeVars, restVars,
     SpinState, Program
<1>14. ASSUME ReadServoGains
       PROVE  SpinState'
  BY <1>14, <1>0 DEF ReadServoGains, ToolGoing, toolRegisters, motionVars, idVars, nodeVars,
     restVars, SpinState, Program
<1>15. ASSUME NEW fault \in BOOLEAN, Probe(fault)
       PROVE  SpinState'
  BY <1>15, <1>0 DEF Probe, ToolGoing, toolRegisters, motionVars, nodeVars, restVars, SpinState,
     Program
<1>16. ASSUME NEW fault \in BOOLEAN, ToolDisconnects(fault)
       PROVE  SpinState'
  BY <1>16, <1>0 DEF ToolDisconnects, ToolMishap, ToolEnds, idVars, restVars, SpinState, Program
<1>17. ASSUME ToolInterrupted
       PROVE  SpinState'
  BY <1>17, <1>0 DEF ToolInterrupted, ToolGoing, ToolMishap, ToolEnds, toolRegisters, motionVars,
     idVars, nodeVars, restVars, SpinState, Program
<1>18. ASSUME ToolKilled
       PROVE  SpinState'
  BY <1>18, <1>0 DEF ToolKilled, ToolEnds, idVars, restVars, SpinState, Program
<1>19. ASSUME PowerCycle
       PROVE  SpinState'
  BY <1>19, <1>0 DEF PowerCycle, motionVars, restVars, SpinState, Program
<1>20. QED
  BY <1>1, <1>2, <1>3, <1>4, <1>5, <1>6, <1>7, <1>8, <1>9, <1>10, <1>11, <1>12, <1>13, <1>14,
     <1>15, <1>16, <1>17, <1>18, <1>19 DEF MaintenanceAct, ToolStep

\* set_id gives no ID away that is taken.
LEMMA RenameStep ==
  ASSUME IInv, MaintenanceAct
  PROVE  RenameState' /\ IdsStayDistinct'
<1>0. /\ RenameState /\ IdsStayDistinct /\ stored \in [Servos -> Ids]
  BY ToolParts DEF IInv, ToolTyped
<1>1. ASSUME NEW program \in Programs, NEW servo \in Maintained, NEW new \in Ids, StartTool(program, servo, new)
      PROVE  RenameState' /\ IdsStayDistinct'
  BY <1>1, <1>0 DEF StartTool, toolRegisters, idVars, nodeVars, restVars, RenameState,
     IdsStayDistinct, Program, S, Bus, ServosOf
<1>2. ASSUME NEW ok \in BOOLEAN, ToolOpens(ok)
      PROVE  RenameState' /\ IdsStayDistinct'
  BY <1>2, <1>0 DEF ToolOpens, ToolGoing, toolRegisters, motionVars, idVars, nodeVars, restVars,
     RenameState, IdsStayDistinct, Program, S, Bus, ServosOf
<1>3. ASSUME NEW ok \in BOOLEAN, ToolPings(ok)
      PROVE  RenameState' /\ IdsStayDistinct'
  BY <1>3, <1>0 DEF ToolPings, ToolGoing, toolRegisters, motionVars, idVars, nodeVars, restVars,
     RenameState, IdsStayDistinct, Program, S, Bus, ServosOf
<1>4. ASSUME NEW answer \in {"ok", "refused", "unanswered"}, ToolDisablesTorque(answer)
      PROVE  RenameState' /\ IdsStayDistinct'
  BY <1>4, <1>0 DEF ToolDisablesTorque, ToolGoing, ToolConfigures, idVars, nodeVars, restVars,
     RenameState, IdsStayDistinct, Program, S, Bus, ServosOf
<1>5. ASSUME NEW answer \in {"ok", "refused", "unanswered"}, ToolSetsMode(answer)
      PROVE  RenameState' /\ IdsStayDistinct'
  BY <1>5, <1>0 DEF ToolSetsMode, ToolGoing, ToolConfigures, idVars, nodeVars, restVars,
     RenameState, IdsStayDistinct, Program, S, Bus, ServosOf
<1>6. ASSUME NEW answer \in {"ok", "refused", "unanswered"}, ToolStagesGoal(answer)
      PROVE  RenameState' /\ IdsStayDistinct'
  BY <1>6, <1>0 DEF ToolStagesGoal, ToolGoing, ToolConfigures, idVars, nodeVars, restVars,
     RenameState, IdsStayDistinct, Program, S, Bus, ServosOf
<1>7. ASSUME NEW answer \in {"ok", "refused", "unanswered"}, ToolEnablesTorque(answer)
      PROVE  RenameState' /\ IdsStayDistinct'
  BY <1>7, <1>0 DEF ToolEnablesTorque, ToolGoing, ToolConfigures, idVars, nodeVars, restVars,
     RenameState, IdsStayDistinct, Program, S, Bus, ServosOf
<1>8. ASSUME NEW answer \in {"ok", "refused", "unanswered"}, SpinStarts(answer)
      PROVE  RenameState' /\ IdsStayDistinct'
  <2>1. UNCHANGED <<tool, stored, excused>> /\ toolAt = "start"
    BY <1>8 DEF SpinStarts, ToolGoing, idVars
  <2>2. Program = "spin"
    BY <2>1 DEF IInv, ToolStage, ToolRunsAlone
  <2>3. QED
    BY <1>0, <2>1, <2>2 DEF RenameState, IdsStayDistinct, Program
<1>9. ASSUME NEW answer \in {"ok", "refused", "unanswered"}, Press(answer)
      PROVE  RenameState' /\ IdsStayDistinct'
  BY <1>9, <1>0 DEF Press, ToolWrites, Send, Spin, Jog, idVars, nodeVars, restVars, RenameState,
     IdsStayDistinct, Program, S, Bus, ServosOf
<1>10. ASSUME NEW answer \in {"ok", "refused", "unanswered"}, Quit(answer)
       PROVE  RenameState' /\ IdsStayDistinct'
  BY <1>10, <1>0 DEF Quit, ToolGoing, ToolWrites, Send, motionVars, idVars, nodeVars, restVars,
     RenameState, IdsStayDistinct, Program, S, Bus, ServosOf
<1>11. ASSUME NEW answer \in {"ok", "refused", "unanswered"}, SetZero(answer)
       PROVE  RenameState' /\ IdsStayDistinct'
  BY <1>11, <1>0 DEF SetZero, ToolGoing, motionVars, idVars, nodeVars, restVars, RenameState,
     IdsStayDistinct, Program, S, Bus, ServosOf
<1>12. ASSUME NEW answer \in {"ok", "refused", "unanswered"}, SetId(answer)
       PROVE  RenameState' /\ IdsStayDistinct'
  <2>1. /\ toolAt = "work" /\ Program = "set_id" /\ toolAt' = "disconnect" /\ UNCHANGED excused
        /\ stored' = IF Applied(answer) THEN [stored EXCEPT ![S] = tool.new] ELSE stored
    BY <1>12 DEF SetId, ToolGoing
  <2>2. RenameState'
    BY <2>1 DEF RenameState
  <2>3. S \in Servos /\ (~excused => \A t \in Servos : Controller[t] = Controller[S] => stored[t] # tool.new)
    BY <1>0, <2>1, RunningTool DEF RenameState, Bus, ServosOf, IInv, ToolRunsAlone
  <2>4. IdsStayDistinct'
    BY <1>0, <2>1, <2>3 DEF IdsStayDistinct
  <2>5. QED
    BY <2>2, <2>4
<1>13. ASSUME Scan
       PROVE  RenameState' /\ IdsStayDistinct'
  BY <1>13, <1>0 DEF Scan, ToolGoing, toolRegisters, motionVars, idVars, nodeVars, restVars,
     RenameState, IdsStayDistinct, Program, S, Bus, ServosOf
<1>14. ASSUME ReadServoGains
       PROVE  RenameState' /\ IdsStayDistinct'
  BY <1>14, <1>0 DEF ReadServoGains, ToolGoing, toolRegisters, motionVars, idVars, nodeVars,
     restVars, RenameState, IdsStayDistinct, Program, S, Bus, ServosOf
<1>15. ASSUME NEW fault \in BOOLEAN, Probe(fault)
       PROVE  RenameState' /\ IdsStayDistinct'
  BY <1>15, <1>0 DEF Probe, ToolGoing, toolRegisters, motionVars, nodeVars, restVars, RenameState,
     IdsStayDistinct, Program, S, Bus, ServosOf
<1>16. ASSUME NEW fault \in BOOLEAN, ToolDisconnects(fault)
       PROVE  RenameState' /\ IdsStayDistinct'
  BY <1>16, <1>0 DEF ToolDisconnects, ToolMishap, ToolEnds, idVars, restVars, RenameState,
     IdsStayDistinct, Program, S, Bus, ServosOf
<1>17. ASSUME ToolInterrupted
       PROVE  RenameState' /\ IdsStayDistinct'
  BY <1>17, <1>0 DEF ToolInterrupted, ToolGoing, ToolMishap, ToolEnds, toolRegisters, motionVars,
     idVars, nodeVars, restVars, RenameState, IdsStayDistinct, Program, S, Bus, ServosOf
<1>18. ASSUME ToolKilled
       PROVE  RenameState' /\ IdsStayDistinct'
  BY <1>18, <1>0 DEF ToolKilled, ToolEnds, idVars, restVars, RenameState, IdsStayDistinct, Program,
     S, Bus, ServosOf
<1>19. ASSUME PowerCycle
       PROVE  RenameState' /\ IdsStayDistinct'
  BY <1>19, <1>0 DEF PowerCycle, motionVars, restVars, RenameState, IdsStayDistinct, Program, S,
     Bus, ServosOf
<1>20. QED
  BY <1>1, <1>2, <1>3, <1>4, <1>5, <1>6, <1>7, <1>8, <1>9, <1>10, <1>11, <1>12, <1>13, <1>14,
     <1>15, <1>16, <1>17, <1>18, <1>19 DEF MaintenanceAct, ToolStep

\* The position in the register is the one jog believes in, or the one before it.
LEMMA JogStep ==
  ASSUME IInv, MaintenanceAct
  PROVE  JogState'
<1>0. JogState /\ angle_to_position(0) = 0 /\ Span \in Nat /\ MaxJogs \in Nat
  BY ToolAssumption DEF IInv, angle_to_position
<1>1. ASSUME NEW program \in Programs, NEW servo \in Maintained, NEW new \in Ids, StartTool(program, servo, new)
      PROVE  JogState'
  <2>1. believed' = 0 /\ written' = 0 /\ 0 + 0 = 0 /\ 0 \in -1..1 /\ 0 \in (-(Span + MaxJogs))..(Span + MaxJogs)
    BY <1>1, <1>0 DEF StartTool
  <2>2. QED
    BY <1>0, <2>1 DEF JogState
<1>2. ASSUME NEW ok \in BOOLEAN, ToolOpens(ok)
      PROVE  JogState'
  BY <1>2, <1>0 DEF ToolOpens, ToolGoing, toolRegisters, motionVars, idVars, nodeVars, restVars,
     JogState, Program
<1>3. ASSUME NEW ok \in BOOLEAN, ToolPings(ok)
      PROVE  JogState'
  BY <1>3, <1>0 DEF ToolPings, ToolGoing, toolRegisters, motionVars, idVars, nodeVars, restVars,
     JogState, Program
<1>4. ASSUME NEW answer \in {"ok", "refused", "unanswered"}, ToolDisablesTorque(answer)
      PROVE  JogState'
  BY <1>4, <1>0 DEF ToolDisablesTorque, ToolGoing, ToolConfigures, idVars, nodeVars, restVars,
     JogState, Program
<1>5. ASSUME NEW answer \in {"ok", "refused", "unanswered"}, ToolSetsMode(answer)
      PROVE  JogState'
  BY <1>5, <1>0 DEF ToolSetsMode, ToolGoing, ToolConfigures, idVars, nodeVars, restVars, JogState,
     Program
<1>6. ASSUME NEW answer \in {"ok", "refused", "unanswered"}, ToolStagesGoal(answer)
      PROVE  JogState'
  <2>1. UNCHANGED <<tool, believed, unsure>> /\ written' = 0 /\ toolAt = "stage" /\ 0 + 0 = 0 /\ 0 \in -1..1
    BY <1>6 DEF ToolStagesGoal, ToolConfigures, ToolGoing
  <2>2. tool # None => believed = 0
    BY <2>1 DEF IInv, ToolStartsAfresh
  <2>3. QED
    BY <1>0, <2>1, <2>2 DEF JogState, Program
<1>7. ASSUME NEW answer \in {"ok", "refused", "unanswered"}, ToolEnablesTorque(answer)
      PROVE  JogState'
  BY <1>7, <1>0 DEF ToolEnablesTorque, ToolGoing, ToolConfigures, idVars, nodeVars, restVars,
     JogState, Program
<1>8. ASSUME NEW answer \in {"ok", "refused", "unanswered"}, SpinStarts(answer)
      PROVE  JogState'
  <2>1. UNCHANGED tool /\ toolAt = "start"
    BY <1>8 DEF SpinStarts, ToolGoing
  <2>2. Program # "jog"
    BY <2>1 DEF IInv, ToolStage, ToolRunsAlone
  <2>3. QED
    BY <2>1, <2>2 DEF JogState, Program
<1>9. ASSUME NEW answer \in {"ok", "refused", "unanswered"}, Press(answer)
      PROVE  JogState'
  <2> SUFFICES ASSUME tool' # None, Program' = "jog"
               PROVE  /\ believed' \in (-(Span + MaxJogs))..(Span + MaxJogs)
                      /\ \E lag \in -1..1 : written' = angle_to_position(believed' + lag)
                      /\ ~unsure' => written' = angle_to_position(believed')
    BY DEF JogState
  <2>1. UNCHANGED tool
    BY <1>9 DEF Press
  <2>2. PICK direction \in {"left", "right"} : Jog(direction, answer)
    BY <1>9, <2>1 DEF Press, Spin, Program
  <2> DEFINE target == get_jog_target(believed, direction)
  <2>3. /\ target \in (-(Span + MaxJogs))..(Span + MaxJogs)
        /\ believed' = IF answer = "ok" THEN target ELSE believed
        /\ written' = IF Applied(answer) THEN angle_to_position(target) ELSE written
        /\ unsure' = (unsure \/ answer # "ok")
    BY <2>2 DEF Jog, ToolWrites
  <2>4. ~unsure' => answer = "ok"
    BY <2>3, Zenon
  <2>5. /\ believed \in (-(Span + MaxJogs))..(Span + MaxJogs)
        /\ \E lag \in -1..1 : written = angle_to_position(believed + lag)
    BY <1>0, <2>1 DEF JogState, Program
  <2>6. \E step \in -1..1 : target = believed + step
    BY DEF get_jog_target
  <2>7. target + 0 = target /\ 0 \in -1..1
    BY <1>0, <2>3
  <2>8. CASE answer = "ok"
    BY <2>3, <2>7, <2>8 DEF Applied
  <2>9. CASE answer # "ok"
    BY <2>3, <2>4, <2>5, <2>6, <2>9
  <2>10. QED
    BY <2>8, <2>9
<1>10. ASSUME NEW answer \in {"ok", "refused", "unanswered"}, Quit(answer)
       PROVE  JogState'
  BY <1>10, <1>0 DEF Quit, ToolGoing, ToolWrites, Send, motionVars, idVars, nodeVars, restVars,
     JogState, Program
<1>11. ASSUME NEW answer \in {"ok", "refused", "unanswered"}, SetZero(answer)
       PROVE  JogState'
  BY <1>11, <1>0 DEF SetZero, ToolGoing, motionVars, idVars, nodeVars, restVars, JogState, Program
<1>12. ASSUME NEW answer \in {"ok", "refused", "unanswered"}, SetId(answer)
       PROVE  JogState'
  BY <1>12, <1>0 DEF SetId, ToolGoing, toolRegisters, motionVars, nodeVars, restVars, JogState,
     Program
<1>13. ASSUME Scan
       PROVE  JogState'
  BY <1>13, <1>0 DEF Scan, ToolGoing, toolRegisters, motionVars, idVars, nodeVars, restVars,
     JogState, Program
<1>14. ASSUME ReadServoGains
       PROVE  JogState'
  BY <1>14, <1>0 DEF ReadServoGains, ToolGoing, toolRegisters, motionVars, idVars, nodeVars,
     restVars, JogState, Program
<1>15. ASSUME NEW fault \in BOOLEAN, Probe(fault)
       PROVE  JogState'
  BY <1>15, <1>0 DEF Probe, ToolGoing, toolRegisters, motionVars, nodeVars, restVars, JogState,
     Program
<1>16. ASSUME NEW fault \in BOOLEAN, ToolDisconnects(fault)
       PROVE  JogState'
  BY <1>16, <1>0 DEF ToolDisconnects, ToolMishap, ToolEnds, idVars, restVars, JogState, Program
<1>17. ASSUME ToolInterrupted
       PROVE  JogState'
  BY <1>17, <1>0 DEF ToolInterrupted, ToolGoing, ToolMishap, ToolEnds, toolRegisters, motionVars,
     idVars, nodeVars, restVars, JogState, Program
<1>18. ASSUME ToolKilled
       PROVE  JogState'
  BY <1>18, <1>0 DEF ToolKilled, ToolEnds, idVars, restVars, JogState, Program
<1>19. ASSUME PowerCycle
       PROVE  JogState'
  BY <1>19, <1>0 DEF PowerCycle, motionVars, restVars, JogState, Program
<1>20. QED
  BY <1>1, <1>2, <1>3, <1>4, <1>5, <1>6, <1>7, <1>8, <1>9, <1>10, <1>11, <1>12, <1>13, <1>14,
     <1>15, <1>16, <1>17, <1>18, <1>19 DEF MaintenanceAct, ToolStep

LEMMA SendIsTyped ==
  ASSUME MotionTyped, NEW velocity \in SpeedRange, NEW answer, Send(velocity, answer)
  PROVE  MotionTyped'
<1>1. believed' = velocity /\ written' \in {RawSpeed(velocity), written}
  BY DEF Send, ToolWrites
<1>2. RawSpeed(velocity) \in 0..(2 * SpeedMagnitudes - 1)
  BY SpeedInRegister, ToolAssumption DEF SpeedRange
<1>3. QED
  BY <1>1, <1>2 DEF MotionTyped

\* What a tool believes and writes stays within the range of its register.
LEMMA MotionStep ==
  ASSUME IInv, MaintenanceAct
  PROVE  MotionTyped'
<1>0. MotionTyped /\ 0 \in Nat /\ Span \in Nat /\ MaxJogs \in Nat /\ MaxSpeed \in Nat
  BY ToolParts, ToolAssumption DEF IInv
<1>1. ASSUME NEW program \in Programs, NEW servo \in Maintained, NEW new \in Ids, StartTool(program, servo, new)
      PROVE  MotionTyped'
  BY <1>1, <1>0, MagnitudesDiffer DEF StartTool, toolRegisters, idVars, nodeVars, restVars,
     MotionTyped, JogRange, SpeedRange
<1>2. ASSUME NEW ok \in BOOLEAN, ToolOpens(ok)
      PROVE  MotionTyped'
  BY <1>2, <1>0, MagnitudesDiffer DEF ToolOpens, ToolGoing, toolRegisters, motionVars, idVars,
     nodeVars, restVars, MotionTyped, JogRange, SpeedRange
<1>3. ASSUME NEW ok \in BOOLEAN, ToolPings(ok)
      PROVE  MotionTyped'
  BY <1>3, <1>0, MagnitudesDiffer DEF ToolPings, ToolGoing, toolRegisters, motionVars, idVars,
     nodeVars, restVars, MotionTyped, JogRange, SpeedRange
<1>4. ASSUME NEW answer \in {"ok", "refused", "unanswered"}, ToolDisablesTorque(answer)
      PROVE  MotionTyped'
  BY <1>4, <1>0, MagnitudesDiffer DEF ToolDisablesTorque, ToolGoing, ToolConfigures, idVars,
     nodeVars, restVars, MotionTyped, JogRange, SpeedRange
<1>5. ASSUME NEW answer \in {"ok", "refused", "unanswered"}, ToolSetsMode(answer)
      PROVE  MotionTyped'
  BY <1>5, <1>0, MagnitudesDiffer DEF ToolSetsMode, ToolGoing, ToolConfigures, idVars, nodeVars,
     restVars, MotionTyped, JogRange, SpeedRange
<1>6. ASSUME NEW answer \in {"ok", "refused", "unanswered"}, ToolStagesGoal(answer)
      PROVE  MotionTyped'
  BY <1>6, <1>0, MagnitudesDiffer DEF ToolStagesGoal, ToolGoing, ToolConfigures, idVars, nodeVars,
     restVars, MotionTyped, JogRange, SpeedRange
<1>7. ASSUME NEW answer \in {"ok", "refused", "unanswered"}, ToolEnablesTorque(answer)
      PROVE  MotionTyped'
  BY <1>7, <1>0, MagnitudesDiffer DEF ToolEnablesTorque, ToolGoing, ToolConfigures, idVars,
     nodeVars, restVars, MotionTyped, JogRange, SpeedRange
<1>8. ASSUME NEW answer \in {"ok", "refused", "unanswered"}, SpinStarts(answer)
      PROVE  MotionTyped'
  <2>1. UNCHANGED <<believed, written>> \/ Send(0, answer)
    BY <1>8 DEF SpinStarts
  <2>2. QED
    BY <1>0, <2>1, SendIsTyped DEF MotionTyped, SpeedRange
<1>9. ASSUME NEW answer \in {"ok", "refused", "unanswered"}, Press(answer)
      PROVE  MotionTyped'
  <2>1. CASE Program = "spin"
    <3>1. believed \in SpeedRange /\ Spin(answer)
      BY <1>9, <2>1, RunningTool DEF Press, Jog, IInv, SpinState, SpeedRange, ToolRunsAlone
    <3>2. \E velocity \in SpeedRange : Send(velocity, answer)
      BY <1>0, <3>1 DEF Spin, SpinKeys, SpeedRange
    <3>3. QED
      BY <1>0, <3>2, SendIsTyped
  <2>2. CASE Program # "spin"
    <3>1. PICK direction \in {"left", "right"} : Jog(direction, answer)
      BY <1>9, <2>2 DEF Press, Spin
    <3> DEFINE target == get_jog_target(believed, direction)
    <3>2. /\ target \in JogRange
          /\ believed' \in {target, believed}
          /\ written' \in {angle_to_position(target), written}
      BY <3>1 DEF Jog, ToolWrites, JogRange
    <3>3. angle_to_position(target) \in (-Span)..Span
      BY <1>0, <3>2, PositionInRange DEF JogRange
    <3>4. QED
      BY <1>0, <3>2, <3>3 DEF MotionTyped
  <2>3. QED
    BY <2>1, <2>2
<1>10. ASSUME NEW answer \in {"ok", "refused", "unanswered"}, Quit(answer)
       PROVE  MotionTyped'
  <2>1. UNCHANGED <<believed, written>> \/ Send(0, answer)
    BY <1>10 DEF Quit, motionVars
  <2>2. QED
    BY <1>0, <2>1, SendIsTyped DEF MotionTyped, SpeedRange
<1>11. ASSUME NEW answer \in {"ok", "refused", "unanswered"}, SetZero(answer)
       PROVE  MotionTyped'
  BY <1>11, <1>0, MagnitudesDiffer DEF SetZero, ToolGoing, motionVars, idVars, nodeVars, restVars,
     MotionTyped, JogRange, SpeedRange
<1>12. ASSUME NEW answer \in {"ok", "refused", "unanswered"}, SetId(answer)
       PROVE  MotionTyped'
  BY <1>12, <1>0, MagnitudesDiffer DEF SetId, ToolGoing, toolRegisters, motionVars, nodeVars,
     restVars, MotionTyped, JogRange, SpeedRange
<1>13. ASSUME Scan
       PROVE  MotionTyped'
  BY <1>13, <1>0, MagnitudesDiffer DEF Scan, ToolGoing, toolRegisters, motionVars, idVars,
     nodeVars, restVars, MotionTyped, JogRange, SpeedRange
<1>14. ASSUME ReadServoGains
       PROVE  MotionTyped'
  BY <1>14, <1>0, MagnitudesDiffer DEF ReadServoGains, ToolGoing, toolRegisters, motionVars,
     idVars, nodeVars, restVars, MotionTyped, JogRange, SpeedRange
<1>15. ASSUME NEW fault \in BOOLEAN, Probe(fault)
       PROVE  MotionTyped'
  BY <1>15, <1>0, MagnitudesDiffer DEF Probe, ToolGoing, toolRegisters, motionVars, nodeVars,
     restVars, MotionTyped, JogRange, SpeedRange
<1>16. ASSUME NEW fault \in BOOLEAN, ToolDisconnects(fault)
       PROVE  MotionTyped'
  BY <1>16, <1>0, MagnitudesDiffer DEF ToolDisconnects, ToolMishap, ToolEnds, idVars, restVars,
     MotionTyped, JogRange, SpeedRange
<1>17. ASSUME ToolInterrupted
       PROVE  MotionTyped'
  BY <1>17, <1>0, MagnitudesDiffer DEF ToolInterrupted, ToolGoing, ToolMishap, ToolEnds,
     toolRegisters, motionVars, idVars, nodeVars, restVars, MotionTyped, JogRange, SpeedRange
<1>18. ASSUME ToolKilled
       PROVE  MotionTyped'
  BY <1>18, <1>0, MagnitudesDiffer DEF ToolKilled, ToolEnds, idVars, restVars, MotionTyped,
     JogRange, SpeedRange
<1>19. ASSUME PowerCycle
       PROVE  MotionTyped'
  BY <1>19, <1>0, MagnitudesDiffer DEF PowerCycle, motionVars, restVars, MotionTyped, JogRange,
     SpeedRange
<1>20. QED
  BY <1>1, <1>2, <1>3, <1>4, <1>5, <1>6, <1>7, <1>8, <1>9, <1>10, <1>11, <1>12, <1>13, <1>14,
     <1>15, <1>16, <1>17, <1>18, <1>19 DEF MaintenanceAct, ToolStep

\* No step of a tool finds a node that has started.
LEMMA ToolFindsNoNode ==
  ASSUME IInv, MaintenanceAct
  PROVE  NodeNotStarted
<1>0. tool = None => toolAt = "none"
  BY DEF IInv, ToolRunsAlone
<1>1. ASSUME NEW program \in Programs, NEW servo \in Maintained, NEW new \in Ids, StartTool(program, servo, new)
      PROVE  NodeNotStarted
  BY <1>1, <1>0, RunningTool DEF StartTool
<1>2. ASSUME NEW ok \in BOOLEAN, ToolOpens(ok)
      PROVE  NodeNotStarted
  BY <1>2, <1>0, RunningTool DEF ToolOpens
<1>3. ASSUME NEW ok \in BOOLEAN, ToolPings(ok)
      PROVE  NodeNotStarted
  BY <1>3, <1>0, RunningTool DEF ToolPings
<1>4. ASSUME NEW answer \in {"ok", "refused", "unanswered"}, ToolDisablesTorque(answer)
      PROVE  NodeNotStarted
  BY <1>4, <1>0, RunningTool DEF ToolDisablesTorque, ToolConfigures
<1>5. ASSUME NEW answer \in {"ok", "refused", "unanswered"}, ToolSetsMode(answer)
      PROVE  NodeNotStarted
  BY <1>5, <1>0, RunningTool DEF ToolSetsMode, ToolConfigures
<1>6. ASSUME NEW answer \in {"ok", "refused", "unanswered"}, ToolStagesGoal(answer)
      PROVE  NodeNotStarted
  BY <1>6, <1>0, RunningTool DEF ToolStagesGoal, ToolConfigures
<1>7. ASSUME NEW answer \in {"ok", "refused", "unanswered"}, ToolEnablesTorque(answer)
      PROVE  NodeNotStarted
  BY <1>7, <1>0, RunningTool DEF ToolEnablesTorque, ToolConfigures
<1>8. ASSUME NEW answer \in {"ok", "refused", "unanswered"}, SpinStarts(answer)
      PROVE  NodeNotStarted
  BY <1>8, <1>0, RunningTool DEF SpinStarts
<1>9. ASSUME NEW answer \in {"ok", "refused", "unanswered"}, Press(answer)
      PROVE  NodeNotStarted
  BY <1>9, <1>0, RunningTool DEF Press
<1>10. ASSUME NEW answer \in {"ok", "refused", "unanswered"}, Quit(answer)
       PROVE  NodeNotStarted
  BY <1>10, <1>0, RunningTool DEF Quit
<1>11. ASSUME NEW answer \in {"ok", "refused", "unanswered"}, SetZero(answer)
       PROVE  NodeNotStarted
  BY <1>11, <1>0, RunningTool DEF SetZero
<1>12. ASSUME NEW answer \in {"ok", "refused", "unanswered"}, SetId(answer)
       PROVE  NodeNotStarted
  BY <1>12, <1>0, RunningTool DEF SetId
<1>13. ASSUME Scan
       PROVE  NodeNotStarted
  BY <1>13, <1>0, RunningTool DEF Scan
<1>14. ASSUME ReadServoGains
       PROVE  NodeNotStarted
  BY <1>14, <1>0, RunningTool DEF ReadServoGains
<1>15. ASSUME NEW fault \in BOOLEAN, Probe(fault)
       PROVE  NodeNotStarted
  BY <1>15, <1>0, RunningTool DEF Probe
<1>16. ASSUME NEW fault \in BOOLEAN, ToolDisconnects(fault)
       PROVE  NodeNotStarted
  BY <1>16, <1>0, RunningTool DEF ToolDisconnects
<1>17. ASSUME ToolInterrupted
       PROVE  NodeNotStarted
  BY <1>17, <1>0, RunningTool DEF ToolInterrupted
<1>18. ASSUME ToolKilled
       PROVE  NodeNotStarted
  BY <1>18, <1>0, RunningTool DEF ToolKilled
<1>19. ASSUME PowerCycle
       PROVE  NodeNotStarted
  BY <1>19, <1>0, RunningTool DEF PowerCycle
<1>20. QED
  BY <1>1, <1>2, <1>3, <1>4, <1>5, <1>6, <1>7, <1>8, <1>9, <1>10, <1>11, <1>12, <1>13, <1>14,
     <1>15, <1>16, <1>17, <1>18, <1>19 DEF MaintenanceAct, ToolStep

\* The node is not held against what a tool leaves.
LEMMA WheelsAfterTool ==
  ASSUME IInv, MaintenanceAct, tool' = None
  PROVE  \A s \in Wheels : Still(s)'
<1>0. (tool = None => toolAt = "none") /\ None \notin Tools /\ Maintained \subseteq Servos /\ Servos \subseteq Ids /\ Wheels \subseteq Servos
  BY NoToolAssumption, ToolAssumption, DriverAssumption DEF IInv, ToolRunsAlone, Ids
<1>1. ASSUME NEW program \in Programs, NEW servo \in Maintained, NEW new \in Ids, StartTool(program, servo, new)
      PROVE  \A s \in Wheels : Still(s)'
  BY <1>1, <1>0 DEF StartTool, Still, Tools
<1>2. ASSUME NEW ok \in BOOLEAN, ToolOpens(ok)
      PROVE  \A s \in Wheels : Still(s)'
  BY <1>2, <1>0 DEF ToolOpens, ToolGoing, Still, Tools
<1>3. ASSUME NEW ok \in BOOLEAN, ToolPings(ok)
      PROVE  \A s \in Wheels : Still(s)'
  BY <1>3, <1>0 DEF ToolPings, ToolGoing, Still, Tools
<1>4. ASSUME NEW answer \in {"ok", "refused", "unanswered"}, ToolDisablesTorque(answer)
      PROVE  \A s \in Wheels : Still(s)'
  BY <1>4, <1>0 DEF ToolDisablesTorque, ToolGoing, ToolConfigures, Still, Tools
<1>5. ASSUME NEW answer \in {"ok", "refused", "unanswered"}, ToolSetsMode(answer)
      PROVE  \A s \in Wheels : Still(s)'
  BY <1>5, <1>0 DEF ToolSetsMode, ToolGoing, ToolConfigures, Still, Tools
<1>6. ASSUME NEW answer \in {"ok", "refused", "unanswered"}, ToolStagesGoal(answer)
      PROVE  \A s \in Wheels : Still(s)'
  BY <1>6, <1>0 DEF ToolStagesGoal, ToolGoing, ToolConfigures, Still, Tools
<1>7. ASSUME NEW answer \in {"ok", "refused", "unanswered"}, ToolEnablesTorque(answer)
      PROVE  \A s \in Wheels : Still(s)'
  BY <1>7, <1>0 DEF ToolEnablesTorque, ToolGoing, ToolConfigures, Still, Tools
<1>8. ASSUME NEW answer \in {"ok", "refused", "unanswered"}, SpinStarts(answer)
      PROVE  \A s \in Wheels : Still(s)'
  BY <1>8, <1>0 DEF SpinStarts, ToolGoing, Still, Tools
<1>9. ASSUME NEW answer \in {"ok", "refused", "unanswered"}, Press(answer)
      PROVE  \A s \in Wheels : Still(s)'
  BY <1>9, <1>0 DEF Press, Still, Tools
<1>10. ASSUME NEW answer \in {"ok", "refused", "unanswered"}, Quit(answer)
       PROVE  \A s \in Wheels : Still(s)'
  BY <1>10, <1>0 DEF Quit, ToolGoing, Still, Tools
<1>11. ASSUME NEW answer \in {"ok", "refused", "unanswered"}, SetZero(answer)
       PROVE  \A s \in Wheels : Still(s)'
  BY <1>11, <1>0 DEF SetZero, ToolGoing, Still, Tools
<1>12. ASSUME NEW answer \in {"ok", "refused", "unanswered"}, SetId(answer)
       PROVE  \A s \in Wheels : Still(s)'
  BY <1>12, <1>0 DEF SetId, ToolGoing, Still, Tools
<1>13. ASSUME Scan
       PROVE  \A s \in Wheels : Still(s)'
  BY <1>13, <1>0 DEF Scan, ToolGoing, Still, Tools
<1>14. ASSUME ReadServoGains
       PROVE  \A s \in Wheels : Still(s)'
  BY <1>14, <1>0 DEF ReadServoGains, ToolGoing, Still, Tools
<1>15. ASSUME NEW fault \in BOOLEAN, Probe(fault)
       PROVE  \A s \in Wheels : Still(s)'
  BY <1>15, <1>0 DEF Probe, ToolGoing, Still, Tools
<1>16. ASSUME NEW fault \in BOOLEAN, ToolDisconnects(fault)
       PROVE  \A s \in Wheels : Still(s)'
  BY <1>16, <1>0 DEF ToolDisconnects, ToolEnds, Still, Tools
<1>17. ASSUME ToolInterrupted
       PROVE  \A s \in Wheels : Still(s)'
  BY <1>17, <1>0 DEF ToolInterrupted, ToolGoing, ToolEnds, Still, Tools
<1>18. ASSUME ToolKilled
       PROVE  \A s \in Wheels : Still(s)'
  BY <1>18, <1>0 DEF ToolKilled, ToolEnds, Still, Tools
<1>19. ASSUME PowerCycle
       PROVE  \A s \in Wheels : Still(s)'
  BY <1>19, <1>0 DEF PowerCycle, Still, Tools
<1>20. QED
  BY <1>1, <1>2, <1>3, <1>4, <1>5, <1>6, <1>7, <1>8, <1>9, <1>10, <1>11, <1>12, <1>13, <1>14,
     <1>15, <1>16, <1>17, <1>18, <1>19 DEF MaintenanceAct, ToolStep

\* The invariant holds in every step of a tool, in every step of the node, and at first.
LEMMA ToolStepInv ==
  ASSUME IInv, MaintenanceAct
  PROVE  IInv'
<1>1. NodeNotStarted /\ UNCHANGED restVars
  BY ToolFindsNoNode, RestIsKept
<1>2. TypeOK'
  <2>1. TypeOK
    BY DEF IInv, DriverInv
  <2>2. RegistersTyped' /\ hits' \in [Wheels -> 0..MaxHits]
    BY ToolRegisters, ToolHits
  <2>3. PlaceTyped' /\ ReadTyped'
    BY <1>1, <2>1, TypeParts DEF PlaceTyped, ReadTyped, restVars, readVars
  <2>4. FlagsTyped'
    BY <1>1, <2>1, TypeParts, Zenon DEF FlagsTyped, restVars, watchdogVars
  <2>5. CountsTyped'
    BY <1>1, <2>1, <2>2, TypeParts DEF CountsTyped, restVars, commandVars, watchdogVars
  <2>6. QED
    BY <2>2, <2>3, <2>4, <2>5, TypeParts
<1>3. at = "open" /\ at' = "open" /\ UNCHANGED <<port, bus, gains, locked, starts>>
  BY <1>1 DEF NodeNotStarted, restVars
<1>4. DriverInv'
  <2>1. OpenedInOrder'
    BY <1>3 DEF IInv, DriverInv, OpenedInOrder, Configuring, Serving
  <2>2. ConfiguredSoFar'
    BY <1>3 DEF IInv, DriverInv, ConfiguredSoFar, ModeIsSet, GainsAreSet, EepromIsLocked,
       GoalIsStaged
  <2>3. ReadSoFar'
    BY <1>3 DEF ReadSoFar
  <2>4. QED
    BY <1>2, <2>1, <2>2, <2>3 DEF DriverInv
<1>5. tool' = None => WheelsOnTheWay'
  BY <1>3, WheelsAfterTool DEF WheelsOnTheWay
<1>6. ToolTypeOK'
  BY <1>2, ToolTypedStep, MotionStep, FlagsStep, ToolParts
<1>7. QED
  BY <1>4, <1>5, <1>6, ToolAlone, ToolStageStep, FreshStep, SpinStep, JogStep, RenameStep DEF IInv

-----------------------------------------------------------------------------
(* The invariant holds.                                                    *)

LEMMA NodeStepInv ==
  ASSUME IInv, OnMaintained(Next)
  PROVE  IInv'
<1>1. /\ tool = None /\ UNCHANGED <<tool, toolAt, believed, written, unsure, stored, wire>>
      /\ tools' = MaxTools /\ mishaps' = 0 /\ excused' = FALSE
      /\ \A s \in Servos : stored[s] = s
      /\ Next
  BY DEF OnMaintained, motionVars
<1>2. TypeOK /\ OpenedInOrder /\ ConfiguredSoFar /\ ReadSoFar /\ WheelsOnTheWay
  BY <1>1 DEF IInv, DriverInv
<1>3. TypeOK'
  BY <1>1, <1>2, ConnectType, ServeType, OtherType DEF Next, NodeStep
<1>4. DriverInv'
  BY <1>1, <1>2, <1>3, OpenedStep, ConfiguredStep, ReadStep DEF DriverInv
<1>5. WheelsOnTheWay'
  BY <1>1, <1>2, WheelsStep
<1>6. ToolTyped' /\ MotionTyped'
  BY <1>1, ToolParts, ToolAssumption DEF IInv, ToolTyped, MotionTyped, MaxHits
<1>7. unsure' \in BOOLEAN /\ excused' \in BOOLEAN
  BY <1>1, ToolParts, Zenon DEF IInv
<1>8. ToolTypeOK'
  BY <1>3, <1>6, <1>7, ToolParts
<1>9. ToolRunsAlone'
  BY <1>1 DEF IInv, ToolRunsAlone
<1>10. ToolStage' /\ ToolStartsAfresh' /\ SpinState' /\ JogState' /\ RenameState'
  BY <1>1 DEF ToolStage, ToolStartsAfresh, SpinState, JogState, RenameState
<1>11. IdsStayDistinct'
  BY <1>1 DEF IdsStayDistinct
<1>12. QED
  BY <1>4, <1>5, <1>8, <1>9, <1>10, <1>11 DEF IInv

LEMMA InitInv ==
  ASSUME ToolInit
  PROVE  IInv
<1>1. /\ Init /\ tool = None /\ toolAt = "none" /\ believed = 0 /\ written = 0 /\ unsure = FALSE
      /\ stored = [s \in Servos |-> s] /\ wire = stored /\ excused = FALSE /\ mishaps = 0 /\ tools = 0
  BY DEF ToolInit
<1>2. TypeOK
  BY <1>1, InitType
<1>3. OpenedInOrder /\ ReadSoFar /\ WheelsOnTheWay
  BY <1>1, DriverAssumption DEF Init, OpenedInOrder, ReadSoFar, WheelsOnTheWay, Configuring,
     Serving, Still
<1>4. ConfiguredSoFar
  BY <1>1 DEF Init, ConfiguredSoFar, ModeIsSet, GainsAreSet, EepromIsLocked, GoalIsStaged
<1>5. ToolTyped /\ MotionTyped
  BY <1>1, ToolAssumption DEF ToolTyped, MotionTyped, MaxHits, Ids, JogRange
<1>6. unsure \in BOOLEAN /\ excused \in BOOLEAN
  BY <1>1, Zenon
<1>7. ToolTypeOK
  BY <1>2, <1>5, <1>6, ToolParts
<1>8. ToolRunsAlone /\ ToolStage /\ ToolStartsAfresh /\ SpinState /\ JogState /\ RenameState
  BY <1>1 DEF ToolRunsAlone, ToolStage, ToolStartsAfresh, SpinState, JogState, RenameState
<1>9. IdsStayDistinct
  BY <1>1 DEF IdsStayDistinct
<1>10. QED
  BY <1>2, <1>3, <1>4, <1>7, <1>8, <1>9 DEF IInv, DriverInv

LEMMA StutterInv ==
  ASSUME IInv, UNCHANGED allVars
  PROVE  IInv'
<1>1. /\ UNCHANGED <<torque, opmode, gains, locked, goal, port, at, bus, todo, unwritten, failing, command, sent>>
      /\ UNCHANGED <<driving, active, age, attempt, pending, values, issue, faults, hits, starts>>
      /\ UNCHANGED <<tool, toolAt, believed, written, unsure, stored, wire, excused, mishaps, tools>>
  BY DEF allVars, vars, registers, commandVars, watchdogVars, readVars, toolVars, motionVars,
     idVars
<1>2. TypeOK'
  BY <1>1, Zenon DEF IInv, DriverInv, TypeOK
<1>3. DriverInv'
  <2>1. OpenedInOrder' /\ ReadSoFar'
    BY <1>1 DEF IInv, DriverInv, OpenedInOrder, ReadSoFar, Accounted
  <2>2. ConfiguredSoFar'
    BY <1>1 DEF IInv, DriverInv, ConfiguredSoFar, ModeIsSet, GainsAreSet, EepromIsLocked,
       GoalIsStaged, Servo
  <2>3. QED
    BY <1>2, <2>1, <2>2 DEF DriverInv
<1>4. tool' = None => WheelsOnTheWay'
  BY <1>1 DEF IInv, WheelsOnTheWay, Still, Halted
<1>5. ToolTypeOK'
  BY <1>1, <1>2, Zenon DEF IInv, ToolTypeOK
<1>6. ToolRunsAlone' /\ ToolStage' /\ ToolStartsAfresh'
  BY <1>1 DEF IInv, ToolRunsAlone, ToolStage, ToolStartsAfresh, NodeNotStarted, Driven, S, Program
<1>7. SpinState' /\ JogState'
  BY <1>1 DEF IInv, SpinState, JogState, Program
<1>8. RenameState' /\ IdsStayDistinct'
  BY <1>1 DEF IInv, RenameState, IdsStayDistinct, S, Program
<1>9. QED
  BY <1>3, <1>4, <1>5, <1>6, <1>7, <1>8 DEF IInv

\* The node switches a torque on over a safe goal only, and so do the tools.
LEMMA TorqueByNode ==
  ASSUME TypeOK, OpenedInOrder, ConfiguredSoFar, Next, NEW s \in Servos, ~torque[s], torque'[s]
  PROVE  goal[s] = "safe" /\ PoweredAsConfigured(s)
<1>0. torque \in [Servos -> BOOLEAN]
  BY TypeParts DEF RegistersTyped
<1>1. ASSUME NEW ok \in BOOLEAN, Open(ok)
      PROVE  goal[s] = "safe" /\ PoweredAsConfigured(s)
  BY <1>1, <1>0 DEF Open, registers
<1>2. ASSUME NEW ok \in BOOLEAN, ReadGains(ok)
      PROVE  goal[s] = "safe" /\ PoweredAsConfigured(s)
  BY <1>2, <1>0 DEF ReadGains, configureVars, registers
<1>3. ASSUME NEW ok \in BOOLEAN, VerifyGains(ok)
      PROVE  goal[s] = "safe" /\ PoweredAsConfigured(s)
  BY <1>3, <1>0 DEF VerifyGains, configureVars, registers
<1>4. ASSUME NEW answer, DisableTorque(answer)
      PROVE  goal[s] = "safe" /\ PoweredAsConfigured(s)
  BY <1>4, <1>0 DEF DisableTorque, configureVars
<1>5. ASSUME NEW answer, SetMode(answer)
      PROVE  goal[s] = "safe" /\ PoweredAsConfigured(s)
  BY <1>5, <1>0 DEF SetMode, configureVars
<1>6. ASSUME NEW answer, LockEeprom(answer)
      PROVE  goal[s] = "safe" /\ PoweredAsConfigured(s)
  BY <1>6, <1>0 DEF LockEeprom, configureVars
<1>7. ASSUME NEW answer, StageGoal(answer)
      PROVE  goal[s] = "safe" /\ PoweredAsConfigured(s)
  BY <1>7, <1>0 DEF StageGoal, configureVars
<1>8. ASSUME NEW answer, EnableTorque(answer)
      PROVE  goal[s] = "safe" /\ PoweredAsConfigured(s)
  <2>1. at = "torque_on" /\ torque' \in {torque, [torque EXCEPT ![Servo] = TRUE]}
    BY <1>8 DEF EnableTorque
  <2>2. s = Servo
    BY <1>0, <2>1
  <2>3. QED
    BY <2>1, <2>2 DEF ConfiguredSoFar, ModeIsSet, GainsAreSet, EepromIsLocked, GoalIsStaged,
       PoweredAsConfigured, Configuring
<1>9. ASSUME NEW answer, UnlockEeprom(answer)
      PROVE  goal[s] = "safe" /\ PoweredAsConfigured(s)
  BY <1>9, <1>0 DEF UnlockEeprom, configureVars
<1>10. ASSUME NEW answer, WriteGain(answer)
       PROVE  goal[s] = "safe" /\ PoweredAsConfigured(s)
  BY <1>10, <1>0 DEF WriteGain, configureVars
<1>11. ASSUME ReceiveCommand
       PROVE  goal[s] = "safe" /\ PoweredAsConfigured(s)
  BY <1>11, <1>0 DEF ReceiveCommand, registers, serveVars
<1>12. ASSUME NEW answer, WritePositions(answer)
       PROVE  goal[s] = "safe" /\ PoweredAsConfigured(s)
  BY <1>12, <1>0 DEF WritePositions, serveVars
<1>13. ASSUME NEW answer, WriteVelocity(answer)
       PROVE  goal[s] = "safe" /\ PoweredAsConfigured(s)
  BY <1>13, <1>0 DEF WriteVelocity, serveVars
<1>14. ASSUME NEW answer, StopWheel(answer)
       PROVE  goal[s] = "safe" /\ PoweredAsConfigured(s)
  BY <1>14, <1>0 DEF StopWheel
<1>15. ASSUME ObserveCommand
       PROVE  goal[s] = "safe" /\ PoweredAsConfigured(s)
  BY <1>15, <1>0 DEF ObserveCommand, registers, serveVars
<1>16. ASSUME NoCommand
       PROVE  goal[s] = "safe" /\ PoweredAsConfigured(s)
  BY <1>16, <1>0 DEF NoCommand, registers, serveVars
<1>17. ASSUME StopEnds
       PROVE  goal[s] = "safe" /\ PoweredAsConfigured(s)
  BY <1>17, <1>0 DEF StopEnds, registers
<1>18. ASSUME NEW reply \in [pending -> {"value", "missing", "fault"}], ReadAttempt(reply)
       PROVE  goal[s] = "safe" /\ PoweredAsConfigured(s)
  BY <1>18, <1>0 DEF ReadAttempt, registers
<1>19. ASSUME ReadFails
       PROVE  goal[s] = "safe" /\ PoweredAsConfigured(s)
  BY <1>19, <1>0 DEF ReadFails, registers
<1>20. ASSUME Publish
       PROVE  goal[s] = "safe" /\ PoweredAsConfigured(s)
  BY <1>20, <1>0 DEF Publish, registers
<1>21. ASSUME CloseStopEnds
       PROVE  goal[s] = "safe" /\ PoweredAsConfigured(s)
  BY <1>21, <1>0 DEF CloseStopEnds, registers
<1>22. ASSUME NEW stuck \in SUBSET Servos, Disconnect(stuck)
       PROVE  goal[s] = "safe" /\ PoweredAsConfigured(s)
  BY <1>22, <1>0 DEF Disconnect
<1>23. ASSUME Exit
       PROVE  goal[s] = "safe" /\ PoweredAsConfigured(s)
  BY <1>23, <1>0 DEF Exit, registers
<1>24. ASSUME Interrupt
       PROVE  goal[s] = "safe" /\ PoweredAsConfigured(s)
  BY <1>24, <1>0 DEF Interrupt, registers
<1>25. ASSUME Kill
       PROVE  goal[s] = "safe" /\ PoweredAsConfigured(s)
  BY <1>25, <1>0 DEF Kill, registers
<1>26. ASSUME Restart
       PROVE  goal[s] = "safe" /\ PoweredAsConfigured(s)
  BY <1>26, <1>0 DEF Restart, registers
<1>27. ASSUME NEW kind \in {"drive", "halt", "bad"}, PublishCommand(kind)
       PROVE  goal[s] = "safe" /\ PoweredAsConfigured(s)
  BY <1>27, <1>0 DEF PublishCommand, registers
<1>28. ASSUME Tick
       PROVE  goal[s] = "safe" /\ PoweredAsConfigured(s)
  BY <1>28, <1>0 DEF Tick, registers
<1>29. QED
  BY <1>1, <1>2, <1>3, <1>4, <1>5, <1>6, <1>7, <1>8, <1>9, <1>10, <1>11, <1>12, <1>13, <1>14,
     <1>15, <1>16, <1>17, <1>18, <1>19, <1>20, <1>21, <1>22, <1>23, <1>24, <1>25, <1>26, <1>27,
     <1>28 DEF Next, NodeStep, ConnectStep, ServeStep, CloseStep

LEMMA TorqueByTool ==
  ASSUME IInv, MaintenanceAct, NEW s \in Servos, ~torque[s], torque'[s]
  PROVE  goal[s] = "safe" /\ tool # None
<1>0. torque \in [Servos -> BOOLEAN] /\ (tool = None => toolAt = "none") /\ ToolStage
  BY TypeParts DEF IInv, DriverInv, RegistersTyped, ToolRunsAlone
<1>1. ASSUME NEW program \in Programs, NEW servo \in Maintained, NEW new \in Ids, StartTool(program, servo, new)
      PROVE  goal[s] = "safe" /\ tool # None
  BY <1>1, <1>0 DEF StartTool, toolRegisters, nodeVars, ToolStage, S
<1>2. ASSUME NEW ok \in BOOLEAN, ToolOpens(ok)
      PROVE  goal[s] = "safe" /\ tool # None
  BY <1>2, <1>0 DEF ToolOpens, toolRegisters, nodeVars, ToolStage, S
<1>3. ASSUME NEW ok \in BOOLEAN, ToolPings(ok)
      PROVE  goal[s] = "safe" /\ tool # None
  BY <1>3, <1>0 DEF ToolPings, toolRegisters, nodeVars, ToolStage, S
<1>4. ASSUME NEW answer \in {"ok", "refused", "unanswered"}, ToolDisablesTorque(answer)
      PROVE  goal[s] = "safe" /\ tool # None
  BY <1>4, <1>0 DEF ToolDisablesTorque, nodeVars, ToolConfigures, ToolStage, Applied, S
<1>5. ASSUME NEW answer \in {"ok", "refused", "unanswered"}, ToolSetsMode(answer)
      PROVE  goal[s] = "safe" /\ tool # None
  BY <1>5, <1>0 DEF ToolSetsMode, nodeVars, ToolConfigures, ToolStage, Applied, S
<1>6. ASSUME NEW answer \in {"ok", "refused", "unanswered"}, ToolStagesGoal(answer)
      PROVE  goal[s] = "safe" /\ tool # None
  BY <1>6, <1>0 DEF ToolStagesGoal, nodeVars, ToolConfigures, ToolStage, Applied, S
<1>7. ASSUME NEW answer \in {"ok", "refused", "unanswered"}, ToolEnablesTorque(answer)
      PROVE  goal[s] = "safe" /\ tool # None
  BY <1>7, <1>0 DEF ToolEnablesTorque, nodeVars, ToolConfigures, ToolStage, Applied, S
<1>8. ASSUME NEW answer \in {"ok", "refused", "unanswered"}, SpinStarts(answer)
      PROVE  goal[s] = "safe" /\ tool # None
  BY <1>8, <1>0 DEF SpinStarts, nodeVars, ToolStage, S
<1>9. ASSUME NEW answer \in {"ok", "refused", "unanswered"}, Press(answer)
      PROVE  goal[s] = "safe" /\ tool # None
  BY <1>9, <1>0 DEF Press, nodeVars, ToolStage, S
<1>10. ASSUME NEW answer \in {"ok", "refused", "unanswered"}, Quit(answer)
       PROVE  goal[s] = "safe" /\ tool # None
  BY <1>10, <1>0 DEF Quit, nodeVars, ToolStage, S
<1>11. ASSUME NEW answer \in {"ok", "refused", "unanswered"}, SetZero(answer)
       PROVE  goal[s] = "safe" /\ tool # None
  BY <1>11, <1>0 DEF SetZero, nodeVars, ToolStage, Applied, S
<1>12. ASSUME NEW answer \in {"ok", "refused", "unanswered"}, SetId(answer)
       PROVE  goal[s] = "safe" /\ tool # None
  BY <1>12, <1>0 DEF SetId, toolRegisters, nodeVars, ToolStage, Applied, S
<1>13. ASSUME Scan
       PROVE  goal[s] = "safe" /\ tool # None
  BY <1>13, <1>0 DEF Scan, toolRegisters, nodeVars, ToolStage, S
<1>14. ASSUME ReadServoGains
       PROVE  goal[s] = "safe" /\ tool # None
  BY <1>14, <1>0 DEF ReadServoGains, toolRegisters, nodeVars, ToolStage, S
<1>15. ASSUME NEW fault \in BOOLEAN, Probe(fault)
       PROVE  goal[s] = "safe" /\ tool # None
  BY <1>15, <1>0 DEF Probe, toolRegisters, nodeVars, ToolStage, S
<1>16. ASSUME NEW fault \in BOOLEAN, ToolDisconnects(fault)
       PROVE  goal[s] = "safe" /\ tool # None
  BY <1>16, <1>0 DEF ToolDisconnects, ToolStage, S
<1>17. ASSUME ToolInterrupted
       PROVE  goal[s] = "safe" /\ tool # None
  BY <1>17, <1>0 DEF ToolInterrupted, toolRegisters, nodeVars, ToolStage, S
<1>18. ASSUME ToolKilled
       PROVE  goal[s] = "safe" /\ tool # None
  BY <1>18, <1>0 DEF ToolKilled, ToolStage, S
<1>19. ASSUME PowerCycle
       PROVE  goal[s] = "safe" /\ tool # None
  BY <1>19, <1>0 DEF PowerCycle, ToolStage, S
<1>20. QED
  BY <1>1, <1>2, <1>3, <1>4, <1>5, <1>6, <1>7, <1>8, <1>9, <1>10, <1>11, <1>12, <1>13, <1>14,
     <1>15, <1>16, <1>17, <1>18, <1>19 DEF MaintenanceAct, ToolStep

-----------------------------------------------------------------------------
(* The theorems.                                                           *)

LEMMA IInvHolds == MaintenanceSpec => []IInv
<1>1. IInv /\ [MaintenanceNext]_allVars => IInv'
  BY ToolStepInv, NodeStepInv, StutterInv DEF MaintenanceNext, MaintenanceAct
<1>2. QED
  BY <1>1, InitInv, PTL DEF MaintenanceSpec

\* The registers, the node and a tool stay in their types, whatever fails and whenever
\* the node is interrupted, killed and started again.
THEOREM TypeCorrect == MaintenanceSpec => []ToolTypeOK
<1>1. IInv => ToolTypeOK
  BY DEF IInv
<1>2. QED
  BY <1>1, IInvHolds, PTL

\* However the driver node ends, no single mishap leaves a wheel turning: the stop in
\* on_close, or the torque-off of the disconnection, reaches it.
THEOREM NoMishapLeavesAWheelTurning == MaintenanceSpec => []NoWheelTurnsAtEnd
<1>1. IInv => NoWheelTurnsAtEnd
  <2>1. ASSUME IInv, at = "ended"
        PROVE  \A s \in Wheels : Still(s)
    BY <2>1 DEF IInv, ToolRunsAlone, NodeNotStarted, WheelsOnTheWay
  <2>2. QED
    BY <2>1 DEF NoWheelTurnsAtEnd, Still
<1>2. QED
  BY <1>1, IInvHolds, PTL

\* A read step that comes to its publication knows of every servo its state or why not, over
\* any number of controllers and retries, and asks no servo again that reported a fault.
THEOREM ReadsAreAccounted == MaintenanceSpec => []FeedbackIsAccounted
<1>1. IInv => FeedbackIsAccounted
  BY DEF IInv, DriverInv, ReadSoFar, Accounted, FeedbackIsAccounted
<1>2. QED
  BY <1>1, IInvHolds, PTL

\* Torque is only switched on over a goal that does not move the servo and, by the node, in
\* the configured mode, with the configured gains and the EEPROM locked.
THEOREM TorqueIsSafe == MaintenanceSpec => TorqueOnlyWhenSafe
<1> DEFINE Safe == \A s \in Servos : (~torque[s] /\ torque'[s]) =>
                     /\ goal[s] = "safe"
                     /\ (tool = None => PoweredAsConfigured(s))
<1>1. ASSUME IInv, MaintenanceNext, NEW s \in Servos, ~torque[s], torque'[s]
      PROVE  goal[s] = "safe" /\ (tool = None => PoweredAsConfigured(s))
  <2>1. CASE MaintenanceAct
    BY <1>1, <2>1, TorqueByTool DEF IInv
  <2>2. CASE OnMaintained(Next)
    BY <1>1, <2>2, TorqueByNode DEF IInv, OnMaintained, DriverInv
  <2>3. QED
    BY <1>1, <2>1, <2>2 DEF MaintenanceNext, MaintenanceAct
<1>2. UNCHANGED allVars => UNCHANGED torque
  BY DEF allVars, vars, registers
<1>3. IInv /\ [MaintenanceNext]_allVars => [Safe]_allVars
  BY <1>1, <1>2
<1>4. QED
  BY <1>3, IInvHolds, PTL DEF MaintenanceSpec, TorqueOnlyWhenSafe

\* spin leaves its wheel standing; jog moves its joint by the keys it was given.
LEMMA SpinEndsStill ==
  ASSUME IInv, MaintenanceAct, tool # None, tool' = None, Program = "spin"
  PROVE  mishaps' = MaxHits \/ ~torque'[S] \/ goal'[S] = "safe"
<1>0. ToolStage /\ mishaps \in 0..2 /\ torque \in [Servos -> BOOLEAN] /\ S \in Servos /\ tool \in Tools /\ None \notin Tools
  BY ToolParts, TypeParts, RunningTool, NoToolAssumption DEF IInv, ToolTyped, MaxHits,
     RegistersTyped
<1>b. /\ toolAt \in {"none", "open", "torque_off", "mode", "stage", "torque_on", "ping", "probe",
                   "start", "work", "interrupted", "disconnect"}
      /\ toolAt # "none"
  BY ToolParts DEF IInv, ToolTyped, ToolRunsAlone
<1>1. ASSUME NEW program \in Programs, NEW servo \in Maintained, NEW new \in Ids, StartTool(program, servo, new)
      PROVE  mishaps' = MaxHits \/ ~torque'[S] \/ goal'[S] = "safe"
  BY <1>1, <1>0, <1>b, ToolAssumption DEF StartTool, MaxHits, ToolStage, Driven, Tools, Ids
<1>2. ASSUME NEW ok \in BOOLEAN, ToolOpens(ok)
      PROVE  mishaps' = MaxHits \/ ~torque'[S] \/ goal'[S] = "safe"
  BY <1>2, <1>0, <1>b DEF ToolOpens, ToolGoing, MaxHits, ToolStage, Driven
<1>3. ASSUME NEW ok \in BOOLEAN, ToolPings(ok)
      PROVE  mishaps' = MaxHits \/ ~torque'[S] \/ goal'[S] = "safe"
  BY <1>3, <1>0, <1>b DEF ToolPings, ToolGoing, MaxHits, ToolStage, Driven
<1>4. ASSUME NEW answer \in {"ok", "refused", "unanswered"}, ToolDisablesTorque(answer)
      PROVE  mishaps' = MaxHits \/ ~torque'[S] \/ goal'[S] = "safe"
  BY <1>4, <1>0, <1>b DEF ToolDisablesTorque, ToolGoing, ToolConfigures, MaxHits, ToolStage, Driven
<1>5. ASSUME NEW answer \in {"ok", "refused", "unanswered"}, ToolSetsMode(answer)
      PROVE  mishaps' = MaxHits \/ ~torque'[S] \/ goal'[S] = "safe"
  BY <1>5, <1>0, <1>b DEF ToolSetsMode, ToolGoing, ToolConfigures, MaxHits, ToolStage, Driven
<1>6. ASSUME NEW answer \in {"ok", "refused", "unanswered"}, ToolStagesGoal(answer)
      PROVE  mishaps' = MaxHits \/ ~torque'[S] \/ goal'[S] = "safe"
  BY <1>6, <1>0, <1>b DEF ToolStagesGoal, ToolGoing, ToolConfigures, MaxHits, ToolStage, Driven
<1>7. ASSUME NEW answer \in {"ok", "refused", "unanswered"}, ToolEnablesTorque(answer)
      PROVE  mishaps' = MaxHits \/ ~torque'[S] \/ goal'[S] = "safe"
  BY <1>7, <1>0, <1>b DEF ToolEnablesTorque, ToolGoing, ToolConfigures, MaxHits, ToolStage, Driven
<1>8. ASSUME NEW answer \in {"ok", "refused", "unanswered"}, SpinStarts(answer)
      PROVE  mishaps' = MaxHits \/ ~torque'[S] \/ goal'[S] = "safe"
  BY <1>8, <1>0, <1>b DEF SpinStarts, ToolGoing, MaxHits, ToolStage, Driven
<1>9. ASSUME NEW answer \in {"ok", "refused", "unanswered"}, Press(answer)
      PROVE  mishaps' = MaxHits \/ ~torque'[S] \/ goal'[S] = "safe"
  BY <1>9, <1>0, <1>b DEF Press, MaxHits, ToolStage, Driven
<1>10. ASSUME NEW answer \in {"ok", "refused", "unanswered"}, Quit(answer)
       PROVE  mishaps' = MaxHits \/ ~torque'[S] \/ goal'[S] = "safe"
  BY <1>10, <1>0, <1>b DEF Quit, ToolGoing, MaxHits, ToolStage, Driven
<1>11. ASSUME NEW answer \in {"ok", "refused", "unanswered"}, SetZero(answer)
       PROVE  mishaps' = MaxHits \/ ~torque'[S] \/ goal'[S] = "safe"
  BY <1>11, <1>0, <1>b DEF SetZero, ToolGoing, MaxHits, ToolStage, Driven
<1>12. ASSUME NEW answer \in {"ok", "refused", "unanswered"}, SetId(answer)
       PROVE  mishaps' = MaxHits \/ ~torque'[S] \/ goal'[S] = "safe"
  BY <1>12, <1>0, <1>b DEF SetId, ToolGoing, MaxHits, ToolStage, Driven
<1>13. ASSUME Scan
       PROVE  mishaps' = MaxHits \/ ~torque'[S] \/ goal'[S] = "safe"
  BY <1>13, <1>0, <1>b DEF Scan, ToolGoing, MaxHits, ToolStage, Driven
<1>14. ASSUME ReadServoGains
       PROVE  mishaps' = MaxHits \/ ~torque'[S] \/ goal'[S] = "safe"
  BY <1>14, <1>0, <1>b DEF ReadServoGains, ToolGoing, MaxHits, ToolStage, Driven
<1>15. ASSUME NEW fault \in BOOLEAN, Probe(fault)
       PROVE  mishaps' = MaxHits \/ ~torque'[S] \/ goal'[S] = "safe"
  BY <1>15, <1>0, <1>b DEF Probe, ToolGoing, MaxHits, ToolStage, Driven
<1>16. ASSUME NEW fault \in BOOLEAN, ToolDisconnects(fault)
       PROVE  mishaps' = MaxHits \/ ~torque'[S] \/ goal'[S] = "safe"
  BY <1>16, <1>0, <1>b DEF ToolDisconnects, ToolEnds, ToolMishap, MaxHits, ToolStage, Driven
<1>17. ASSUME ToolInterrupted
       PROVE  mishaps' = MaxHits \/ ~torque'[S] \/ goal'[S] = "safe"
  BY <1>17, <1>0, <1>b DEF ToolInterrupted, ToolGoing, ToolEnds, ToolMishap, MaxHits, ToolStage,
     Driven
<1>18. ASSUME ToolKilled
       PROVE  mishaps' = MaxHits \/ ~torque'[S] \/ goal'[S] = "safe"
  BY <1>18, <1>0, <1>b DEF ToolKilled, ToolEnds, MaxHits, ToolStage, Driven
<1>19. ASSUME PowerCycle
       PROVE  mishaps' = MaxHits \/ ~torque'[S] \/ goal'[S] = "safe"
  BY <1>19, <1>0, <1>b DEF PowerCycle, MaxHits, ToolStage, Driven
<1>20. QED
  BY <1>1, <1>2, <1>3, <1>4, <1>5, <1>6, <1>7, <1>8, <1>9, <1>10, <1>11, <1>12, <1>13, <1>14,
     <1>15, <1>16, <1>17, <1>18, <1>19 DEF MaintenanceAct, ToolStep

LEMMA JogStays ==
  ASSUME IInv, MaintenanceAct, toolAt = "work", toolAt' = "work", Program = "jog"
  PROVE  written' - written \in (IF unsure THEN -2..2 ELSE -1..1)
<1>0. written \in Int /\ written - written = 0
  BY ToolParts, ToolAssumption, MagnitudesDiffer DEF IInv, MotionTyped
<1>1. ASSUME NEW program \in Programs, NEW servo \in Maintained, NEW new \in Ids, StartTool(program, servo, new)
      PROVE  written' - written \in (IF unsure THEN -2..2 ELSE -1..1)
  BY <1>1, <1>0 DEF StartTool
<1>2. ASSUME NEW ok \in BOOLEAN, ToolOpens(ok)
      PROVE  written' - written \in (IF unsure THEN -2..2 ELSE -1..1)
  BY <1>2, <1>0 DEF ToolOpens, ToolGoing, motionVars
<1>3. ASSUME NEW ok \in BOOLEAN, ToolPings(ok)
      PROVE  written' - written \in (IF unsure THEN -2..2 ELSE -1..1)
  BY <1>3, <1>0 DEF ToolPings, ToolGoing, motionVars
<1>4. ASSUME NEW answer \in {"ok", "refused", "unanswered"}, ToolDisablesTorque(answer)
      PROVE  written' - written \in (IF unsure THEN -2..2 ELSE -1..1)
  BY <1>4, <1>0 DEF ToolDisablesTorque, ToolGoing, ToolConfigures
<1>5. ASSUME NEW answer \in {"ok", "refused", "unanswered"}, ToolSetsMode(answer)
      PROVE  written' - written \in (IF unsure THEN -2..2 ELSE -1..1)
  BY <1>5, <1>0 DEF ToolSetsMode, ToolGoing, ToolConfigures
<1>6. ASSUME NEW answer \in {"ok", "refused", "unanswered"}, ToolStagesGoal(answer)
      PROVE  written' - written \in (IF unsure THEN -2..2 ELSE -1..1)
  BY <1>6, <1>0 DEF ToolStagesGoal, ToolGoing, ToolConfigures
<1>7. ASSUME NEW answer \in {"ok", "refused", "unanswered"}, ToolEnablesTorque(answer)
      PROVE  written' - written \in (IF unsure THEN -2..2 ELSE -1..1)
  BY <1>7, <1>0 DEF ToolEnablesTorque, ToolGoing, ToolConfigures
<1>8. ASSUME NEW answer \in {"ok", "refused", "unanswered"}, SpinStarts(answer)
      PROVE  written' - written \in (IF unsure THEN -2..2 ELSE -1..1)
  BY <1>8, <1>0 DEF SpinStarts, ToolGoing
<1>9. ASSUME NEW answer \in {"ok", "refused", "unanswered"}, Press(answer)
      PROVE  written' - written \in (IF unsure THEN -2..2 ELSE -1..1)
  <2>1. PICK direction \in {"left", "right"} : Jog(direction, answer)
    BY <1>9 DEF Press, Spin
  <2> DEFINE target == get_jog_target(believed, direction)
  <2>2. /\ believed \in Int /\ target \in {believed - 1, believed + 1}
        /\ written' = written \/ written' = angle_to_position(target)
    BY <2>1, ToolAssumption DEF Jog, ToolWrites, get_jog_target, IInv, JogState, ToolRunsAlone
  <2>3. PICK lag \in -1..1 : written = angle_to_position(believed + lag) /\ (~unsure => written = angle_to_position(believed))
    BY DEF IInv, JogState, ToolRunsAlone
  <2>4. angle_to_position(target) - angle_to_position(believed + lag) \in -2..2
    <3>1. target \in Int /\ believed + lag \in Int /\ target - (believed + lag) \in -2..2
      BY <2>2
    <3>2. QED
      BY <3>1, PositionInRange
  <2>5. angle_to_position(target) - angle_to_position(believed) \in -1..1
    <3>1. target \in Int /\ target - believed \in -1..1
      BY <2>2
    <3>2. QED
      BY <2>2, <3>1, PositionInRange
  <2>6. CASE unsure
    BY <1>0, <2>2, <2>3, <2>4, <2>6
  <2>7. CASE ~unsure
    BY <1>0, <2>2, <2>3, <2>5, <2>7
  <2>8. QED
    BY <2>6, <2>7
<1>10. ASSUME NEW answer \in {"ok", "refused", "unanswered"}, Quit(answer)
       PROVE  written' - written \in (IF unsure THEN -2..2 ELSE -1..1)
  BY <1>10, <1>0 DEF Quit, ToolGoing, motionVars
<1>11. ASSUME NEW answer \in {"ok", "refused", "unanswered"}, SetZero(answer)
       PROVE  written' - written \in (IF unsure THEN -2..2 ELSE -1..1)
  BY <1>11, <1>0 DEF SetZero, ToolGoing, motionVars
<1>12. ASSUME NEW answer \in {"ok", "refused", "unanswered"}, SetId(answer)
       PROVE  written' - written \in (IF unsure THEN -2..2 ELSE -1..1)
  BY <1>12, <1>0 DEF SetId, ToolGoing, motionVars
<1>13. ASSUME Scan
       PROVE  written' - written \in (IF unsure THEN -2..2 ELSE -1..1)
  BY <1>13, <1>0 DEF Scan, ToolGoing, motionVars
<1>14. ASSUME ReadServoGains
       PROVE  written' - written \in (IF unsure THEN -2..2 ELSE -1..1)
  BY <1>14, <1>0 DEF ReadServoGains, ToolGoing, motionVars
<1>15. ASSUME NEW fault \in BOOLEAN, Probe(fault)
       PROVE  written' - written \in (IF unsure THEN -2..2 ELSE -1..1)
  BY <1>15, <1>0 DEF Probe, ToolGoing, motionVars
<1>16. ASSUME NEW fault \in BOOLEAN, ToolDisconnects(fault)
       PROVE  written' - written \in (IF unsure THEN -2..2 ELSE -1..1)
  BY <1>16, <1>0 DEF ToolDisconnects, ToolEnds, ToolMishap
<1>17. ASSUME ToolInterrupted
       PROVE  written' - written \in (IF unsure THEN -2..2 ELSE -1..1)
  BY <1>17, <1>0 DEF ToolInterrupted, ToolGoing, ToolEnds, ToolMishap, motionVars
<1>18. ASSUME ToolKilled
       PROVE  written' - written \in (IF unsure THEN -2..2 ELSE -1..1)
  BY <1>18, <1>0 DEF ToolKilled, ToolEnds
<1>19. ASSUME PowerCycle
       PROVE  written' - written \in (IF unsure THEN -2..2 ELSE -1..1)
  BY <1>19, <1>0 DEF PowerCycle, motionVars
<1>20. QED
  BY <1>1, <1>2, <1>3, <1>4, <1>5, <1>6, <1>7, <1>8, <1>9, <1>10, <1>11, <1>12, <1>13, <1>14,
     <1>15, <1>16, <1>17, <1>18, <1>19 DEF MaintenanceAct, ToolStep

\* A tool does to its servo what its operator asked for: spin turns it the way it shows and
\* never faster, and does not leave it turning; jog moves it by a step; set_id renames no two
\* servos of a bus alike.
THEOREM ToolsAreTame == MaintenanceSpec => ToolsDoAsAsked
<1> DEFINE Halts == (tool # None /\ tool' = None /\ Program = "spin") =>
                       mishaps' = MaxHits \/ ~torque'[S] \/ goal'[S] = "safe"
           Steps == (toolAt = "work" /\ toolAt' = "work" /\ Program = "jog") =>
                       written' - written \in (IF unsure THEN -2..2 ELSE -1..1)
<1>1. ASSUME IInv
      PROVE  SpinTurnsAsAsked /\ IdsStayDistinct
  <2>1. ASSUME toolAt = "work", Program = "spin", ~unsure
        PROVE  /\ SpeedOf(written) * believed >= 0
               /\ (SpeedOf(written) = 0) <=> (believed = 0)
               /\ SpeedOf(written) \in (-MaxSpeed)..MaxSpeed
    <3>1. written = RawSpeed(believed) /\ believed \in (-MaxSpeed)..MaxSpeed /\ MaxSpeed \in Nat
      BY <1>1, <2>1, ToolAssumption DEF IInv, SpinState, ToolRunsAlone
    <3>2. /\ believed >= 0 => SpeedOf(written) \in 0..believed
          /\ believed <= 0 => SpeedOf(written) \in believed..0
          /\ SpeedOf(written) = 0 <=> believed = 0
      BY <3>1, SpeedInRegister
    <3>3. /\ SpeedOf(written) \in Int /\ believed \in Int
          /\ (SpeedOf(written) >= 0 /\ believed >= 0) \/ (SpeedOf(written) <= 0 /\ believed <= 0)
          /\ SpeedOf(written) \in (-MaxSpeed)..MaxSpeed
      BY <3>1, <3>2
    <3>4. SpeedOf(written) * believed >= 0
      BY <3>3, SameSign
    <3>5. QED
      BY <3>2, <3>3, <3>4
  <2>2. QED
    BY <1>1, <2>1 DEF SpinTurnsAsAsked, IInv
<1>2. ASSUME IInv, MaintenanceNext
      PROVE  Halts /\ Steps
  <2>1. CASE MaintenanceAct
    BY <1>2, <2>1, SpinEndsStill, JogStays
  <2>2. CASE OnMaintained(Next)
    BY <1>2, <2>2 DEF OnMaintained, IInv, ToolRunsAlone
  <2>3. QED
    BY <1>2, <2>1, <2>2 DEF MaintenanceNext, MaintenanceAct
<1>3. IInv /\ [MaintenanceNext]_allVars => [Halts]_allVars /\ [Steps]_allVars
  BY <1>2
<1>4. MaintenanceSpec => []SpinTurnsAsAsked /\ []IdsStayDistinct
  BY <1>1, IInvHolds, PTL
<1>5. MaintenanceSpec => SpinLeavesNoMotion /\ JogNeverLeaps
  BY <1>3, IInvHolds, PTL DEF MaintenanceSpec, SpinLeavesNoMotion, JogNeverLeaps
<1>6. QED
  BY <1>4, <1>5 DEF ToolsDoAsAsked

=============================================================================

----------------------------- MODULE RobotMessages -----------------------------
(***************************************************************************)
(* One topic from its publishers to one subscriber: a message is checked     *)
(* against its topic (middleware/publisher.py), converted and encoded         *)
(* (types/lcm), carried by multicast, which may lose, repeat and reorder,     *)
(* and decoded, converted back and queued (middleware/subscriber.py).         *)
(* Programs of another release publish on the same channels, and a replayed   *)
(* recording is one.                                                         *)
(*                                                                         *)
(* On the wire everything is a number: a text is one, and 0 the empty text.  *)
(***************************************************************************)
EXTENDS Integers, Sequences, FiniteSets

CONSTANTS
    Samples,    \* the messages that programs try to publish
    MaxSent,    \* bound: messages that are sent
    QueueSize,  \* the subscriber's queue_size
    NaN,
    NoValue     \* a field that is None

ASSUME MessagesAssumption == MaxSent \in Nat /\ QueueSize \in Nat \ {0} /\ NaN \in Int /\ NoValue \notin Int

VARIABLES
    topic,      \* the subscriber's topic, NoValue before and after
    sent,       \* history: the messages that were published
    air,        \* packets that were sent
    inbox,      \* the topic's message queue
    refused     \* history: packets that were not decoded

messageVars == <<topic, sent, air, inbox, refused>>

-----------------------------------------------------------------------------
(* Types on the wire.                                                      *)

\* A type is its fields in their order, each with how many there are of it: one, a fixed
\* number, or as many as another field says.
Fixed == [three |-> 3, four |-> 4]
actuator_health_report_t ==
    <<<<"timestamp", "one">>, <<"num_actuators", "one">>, <<"joint_names", "num_actuators">>,
      <<"controllers", "num_actuators">>, <<"actuator_ids", "num_actuators">>, <<"healthy", "num_actuators">>,
      <<"temperatures_celsius", "num_actuators">>, <<"issues", "num_actuators">>, <<"error", "one">>>>

homing_target_t ==
    <<<<"timestamp", "one">>, <<"num_positions", "one">>, <<"target_position", "num_positions">>>>

logging_status_t ==
    <<<<"timestamp", "one">>, <<"state", "one">>, <<"file_name", "one">>, <<"error", "one">>>>

node_rate_sample_t ==
    <<<<"timestamp", "one">>, <<"node_name", "one">>, <<"pid", "one">>, <<"target_rate_hz", "one">>,
      <<"measured_rate_hz", "one">>, <<"cpu_percent", "one">>, <<"memory_rss_mb", "one">>>>

orchestrator_event_t == <<<<"timestamp", "one">>, <<"kind", "one">>>>

orchestrator_mode_t == <<<<"timestamp", "one">>, <<"mode", "one">>>>

robot_base_command_t == <<<<"timestamp", "one">>, <<"position", "three">>, <<"quaternion", "four">>>>

robot_joint_command_t ==
    <<<<"timestamp", "one">>, <<"num_positions", "one">>, <<"num_velocities", "one">>,
      <<"joint_positions", "num_positions">>, <<"joint_velocities", "num_velocities">>>>

robot_state_t ==
    <<<<"timestamp", "one">>, <<"num_joints", "one">>, <<"num_positions", "one">>, <<"num_velocities", "one">>,
      <<"effort_source", "one">>, <<"num_efforts", "one">>, <<"joint_positions", "num_positions">>,
      <<"joint_velocities", "num_velocities">>, <<"joint_efforts", "num_efforts">>,
      <<"actuator_temperatures", "num_joints">>>>

robot_tool_command_t ==
    <<<<"timestamp", "one">>, <<"position", "three">>, <<"quaternion", "four">>, <<"has_velocity", "one">>,
      <<"linear_velocity", "three">>, <<"angular_velocity", "three">>, <<"num_gripper_joints", "one">>,
      <<"gripper_positions", "num_gripper_joints">>>>

Schema ==
    [actuator_health_report |-> actuator_health_report_t, homing_target |-> homing_target_t,
     logging_status |-> logging_status_t, node_rate_sample |-> node_rate_sample_t,
     orchestrator_event |-> orchestrator_event_t, orchestrator_mode |-> orchestrator_mode_t,
     robot_base_command |-> robot_base_command_t, robot_joint_command |-> robot_joint_command_t,
     robot_state |-> robot_state_t, robot_tool_command |-> robot_tool_command_t]

\* A packet starts with a fingerprint, of the type and its release.
Fingerprint ==
    [actuator_health_report |-> 1, homing_target |-> 2, logging_status |-> 3, node_rate_sample |-> 4,
     orchestrator_event |-> 5, orchestrator_mode |-> 6, robot_base_command |-> 7, robot_joint_command |-> 8,
     robot_state |-> 9, robot_tool_command |-> 10]
OtherRelease == 11

\* A record with one more field.
WithField(r, f, x) == [g \in DOMAIN r \cup {f} |-> IF g = f THEN x ELSE r[g]]

\* How many of a field there are; m holds the fields before it.
Count(field, m) ==
    CASE field[2] = "one" -> 1
      [] field[2] \in DOMAIN Fixed -> Fixed[field[2]]
      [] OTHER -> m[field[2]]

\* encode: arrays are cut to their count, and must not be shorter.
Encodable(t, m) ==
    \A i \in {i \in DOMAIN Schema[t] : Schema[t][i][2] # "one"} :
        Len(m[Schema[t][i][1]]) >= Count(Schema[t][i], m)

Encode(t, m) ==
    LET fields == Schema[t]
        packed(f) == IF f[2] = "one" THEN <<m[f[1]]>> ELSE SubSeq(m[f[1]], 1, Count(f, m))
        body[i \in 0..Len(fields)] == IF i = 0 THEN <<>> ELSE body[i - 1] \o packed(fields[i])
    IN  <<Fingerprint[t]>> \o body[Len(fields)]

\* _decode_one: the fields in their order; a packet may be longer, and must not be shorter.
Unpacked(t, units) ==
    LET fields == Schema[t]
        read[i \in 0..Len(fields)] ==
            IF i = 0 THEN [at |-> 2, m |-> <<>>, ok |-> TRUE]
            ELSE IF ~read[i - 1].ok THEN read[i - 1]
            ELSE LET r == read[i - 1]
                     n == Count(fields[i], r.m)
                     value == IF fields[i][2] = "one" THEN units[r.at] ELSE SubSeq(units, r.at, r.at + n - 1)
                 IN  IF n < 0 \/ r.at + n - 1 > Len(units) THEN [r EXCEPT !.ok = FALSE]
                     ELSE [at |-> r.at + n, m |-> WithField(r.m, fields[i][1], value), ok |-> TRUE]
    IN  read[Len(fields)]

\* Mutant: the fingerprint is not looked at.
DecodableByShape(t, units) == Unpacked(t, units).ok

Decodable(t, units) == units[1] = Fingerprint[t] /\ Unpacked(t, units).ok
Decode(t, units) == Unpacked(t, units).m

-----------------------------------------------------------------------------
(* LCMConverter: a field that is None is an empty text, an empty array, NaN or a flag that is
   not set.                                                                  *)

TextOf(x) == IF x = NoValue THEN 0 ELSE x
TextOrNone(x) == IF x = 0 THEN NoValue ELSE x
ArrayOf(x) == IF x = NoValue THEN <<>> ELSE x
ArrayOrNone(x) == IF x = <<>> THEN NoValue ELSE x

actuator_health_report_to_lcm(r) ==
    LET a == r.actuators IN
    [timestamp |-> r.timestamp, num_actuators |-> Len(a),
     joint_names |-> [i \in DOMAIN a |-> a[i].joint_name],
     controllers |-> [i \in DOMAIN a |-> a[i].controller],
     actuator_ids |-> [i \in DOMAIN a |-> a[i].actuator_id],
     healthy |-> [i \in DOMAIN a |-> IF a[i].healthy THEN 1 ELSE 0],
     temperatures_celsius |-> [i \in DOMAIN a |-> IF a[i].temperature_celsius = NoValue THEN NaN
                                                 ELSE a[i].temperature_celsius],
     issues |-> [i \in DOMAIN a |-> TextOf(a[i].issue)],
     error |-> TextOf(r.error)]

\* Mutant: a temperature that is missing stays NaN.
actuator_health_report_keeps_nan(r) ==
    [type |-> "actuator_health_report", timestamp |-> r.timestamp,
     actuators |-> [i \in 1..r.num_actuators |->
        [joint_name |-> r.joint_names[i], controller |-> r.controllers[i], actuator_id |-> r.actuator_ids[i],
         healthy |-> r.healthy[i] # 0, temperature_celsius |-> r.temperatures_celsius[i],
         issue |-> TextOrNone(r.issues[i])]],
     error |-> TextOrNone(r.error)]

actuator_health_report_from_lcm(r) ==
    [type |-> "actuator_health_report", timestamp |-> r.timestamp,
     actuators |-> [i \in 1..r.num_actuators |->
        [joint_name |-> r.joint_names[i], controller |-> r.controllers[i], actuator_id |-> r.actuator_ids[i],
         healthy |-> r.healthy[i] # 0,
         temperature_celsius |-> IF r.temperatures_celsius[i] = NaN THEN NoValue ELSE r.temperatures_celsius[i],
         issue |-> TextOrNone(r.issues[i])]],
     error |-> TextOrNone(r.error)]

robot_joint_command_to_lcm(c) ==
    [timestamp |-> c.timestamp, num_positions |-> Len(c.joint_positions), joint_positions |-> c.joint_positions,
     num_velocities |-> Len(ArrayOf(c.joint_velocities)), joint_velocities |-> ArrayOf(c.joint_velocities)]

robot_joint_command_from_lcm(c) ==
    [type |-> "robot_joint_command", timestamp |-> c.timestamp, joint_positions |-> c.joint_positions,
     joint_velocities |-> ArrayOrNone(c.joint_velocities)]

\* Mutant: the positions are counted where the joints are.
robot_state_counts_positions(s) ==
    [timestamp |-> s.timestamp, num_joints |-> Len(s.joint_positions), num_positions |-> Len(s.joint_positions),
     num_velocities |-> Len(s.joint_velocities), num_efforts |-> Len(ArrayOf(s.joint_efforts)),
     joint_positions |-> s.joint_positions, joint_velocities |-> s.joint_velocities,
     joint_efforts |-> ArrayOf(s.joint_efforts), actuator_temperatures |-> s.actuator_temperatures,
     effort_source |-> TextOf(s.effort_source)]

robot_state_to_lcm(s) ==
    [timestamp |-> s.timestamp, num_joints |-> Len(s.actuator_temperatures),
     num_positions |-> Len(s.joint_positions), num_velocities |-> Len(s.joint_velocities),
     num_efforts |-> Len(ArrayOf(s.joint_efforts)), joint_positions |-> s.joint_positions,
     joint_velocities |-> s.joint_velocities, joint_efforts |-> ArrayOf(s.joint_efforts),
     actuator_temperatures |-> s.actuator_temperatures, effort_source |-> TextOf(s.effort_source)]

\* Mutant: efforts of any shape are published.
AnyEfforts(s) == TRUE

\* Efforts have the shape of the velocities, where there are any: ValueError on either side.
EffortsFit(s) == s.joint_efforts = NoValue \/ Len(s.joint_efforts) = Len(s.joint_velocities)
EffortsReadable(s) == s.num_efforts \in {0, s.num_velocities}

robot_state_from_lcm(s) ==
    [type |-> "robot_state", timestamp |-> s.timestamp, joint_positions |-> s.joint_positions,
     joint_velocities |-> s.joint_velocities, joint_efforts |-> ArrayOrNone(s.joint_efforts),
     actuator_temperatures |-> s.actuator_temperatures, effort_source |-> TextOrNone(s.effort_source)]

robot_tool_command_to_lcm(c) ==
    [timestamp |-> c.timestamp, position |-> c.pose[1], quaternion |-> c.pose[2],
     has_velocity |-> IF c.velocity = NoValue THEN 0 ELSE 1,
     linear_velocity |-> IF c.velocity = NoValue THEN <<0, 0, 0>> ELSE c.velocity[1],
     angular_velocity |-> IF c.velocity = NoValue THEN <<0, 0, 0>> ELSE c.velocity[2],
     num_gripper_joints |-> Len(ArrayOf(c.gripper_positions)), gripper_positions |-> ArrayOf(c.gripper_positions)]

robot_tool_command_from_lcm(c) ==
    [type |-> "robot_tool_command", timestamp |-> c.timestamp, pose |-> <<c.position, c.quaternion>>,
     gripper_positions |-> ArrayOrNone(c.gripper_positions),
     velocity |-> IF c.has_velocity = 0 THEN NoValue ELSE <<c.linear_velocity, c.angular_velocity>>]

robot_base_command_to_lcm(c) == [timestamp |-> c.timestamp, position |-> c.pose[1], quaternion |-> c.pose[2]]

robot_base_command_from_lcm(c) ==
    [type |-> "robot_base_command", timestamp |-> c.timestamp, pose |-> <<c.position, c.quaternion>>]

homing_target_to_lcm(m) ==
    [timestamp |-> m.timestamp, num_positions |-> Len(m.target_position), target_position |-> m.target_position]

homing_target_from_lcm(m) ==
    [type |-> "homing_target", timestamp |-> m.timestamp, target_position |-> m.target_position]

logging_status_to_lcm(s) ==
    [timestamp |-> s.timestamp, state |-> s.state, file_name |-> TextOf(s.file_name), error |-> TextOf(s.error)]

logging_status_from_lcm(s) ==
    [type |-> "logging_status", timestamp |-> s.timestamp, state |-> s.state,
     file_name |-> TextOrNone(s.file_name), error |-> TextOrNone(s.error)]

\* Modes, events and samples of rates are what they are.
Plain(t, m) == [f \in {Schema[t][i][1] : i \in DOMAIN Schema[t]} |-> m[f]]
PlainFrom(t, m) == WithField(m, "type", t)

\* The enumerations: Mode, EventKind, LoggingState and ActuatorEffortSource.
EnumReadable(t, m) ==
    CASE t = "orchestrator_mode" -> m.mode \in 1..5
      [] t = "orchestrator_event" -> m.kind \in 1..8
      [] t = "logging_status" -> m.state \in 1..5
      [] t = "robot_state" -> m.effort_source \in 0..2
      [] OTHER -> TRUE

ToLcm(m) ==
    CASE m.type = "actuator_health_report" -> actuator_health_report_to_lcm(m)
      [] m.type = "robot_joint_command" -> robot_joint_command_to_lcm(m)
      [] m.type = "robot_state" -> robot_state_to_lcm(m)
      [] m.type = "robot_tool_command" -> robot_tool_command_to_lcm(m)
      [] m.type = "robot_base_command" -> robot_base_command_to_lcm(m)
      [] m.type = "homing_target" -> homing_target_to_lcm(m)
      [] m.type = "logging_status" -> logging_status_to_lcm(m)
      [] OTHER -> Plain(m.type, m)

FromLcm(t, m) ==
    CASE t = "actuator_health_report" -> actuator_health_report_from_lcm(m)
      [] t = "robot_joint_command" -> robot_joint_command_from_lcm(m)
      [] t = "robot_state" -> robot_state_from_lcm(m)
      [] t = "robot_tool_command" -> robot_tool_command_from_lcm(m)
      [] t = "robot_base_command" -> robot_base_command_from_lcm(m)
      [] t = "homing_target" -> homing_target_from_lcm(m)
      [] t = "logging_status" -> logging_status_from_lcm(m)
      [] OTHER -> PlainFrom(t, m)

-----------------------------------------------------------------------------
(* The program's types.  A text that is there is not empty, a temperature that is there was
   measured, and some joint of a robot moves.                               *)

Text == (Int \ {0}) \cup {NoValue}
SE3 == [1..3 -> Int] \X [1..4 -> Int]
CartesianVelocity == [1..3 -> Int] \X [1..3 -> Int]
ActuatorHealth ==
    [joint_name : Int, controller : Int, actuator_id : Int, healthy : BOOLEAN,
     temperature_celsius : (Int \ {NaN}) \cup {NoValue}, issue : Text]

NodeRateSample ==
    [type : {"node_rate_sample"}, timestamp : Int, node_name : Int, pid : Int, target_rate_hz : Int,
     measured_rate_hz : Int, cpu_percent : Int, memory_rss_mb : Int]
ActuatorHealthReport ==
    [type : {"actuator_health_report"}, timestamp : Int, actuators : Seq(ActuatorHealth), error : Text]
RobotState ==
    [type : {"robot_state"}, timestamp : Int, joint_positions : Seq(Int), joint_velocities : Seq(Int) \ {<<>>},
     joint_efforts : Seq(Int) \cup {NoValue}, actuator_temperatures : Seq(Int), effort_source : {NoValue, 1, 2}]
RobotJointCommand ==
    [type : {"robot_joint_command"}, timestamp : Int, joint_positions : Seq(Int),
     joint_velocities : Seq(Int) \cup {NoValue}]
RobotToolCommand ==
    [type : {"robot_tool_command"}, timestamp : Int, pose : SE3, gripper_positions : Seq(Int) \cup {NoValue},
     velocity : CartesianVelocity \cup {NoValue}]
RobotBaseCommand == [type : {"robot_base_command"}, timestamp : Int, pose : SE3]
HomingTarget == [type : {"homing_target"}, timestamp : Int, target_position : Seq(Int)]
OrchestratorMode == [type : {"orchestrator_mode"}, timestamp : Int, mode : 1..5]
OrchestratorEvent == [type : {"orchestrator_event"}, timestamp : Int, kind : 1..8]
LoggingStatus == [type : {"logging_status"}, timestamp : Int, state : 1..5, file_name : Text, error : Text]

AcceptedTypes ==
    NodeRateSample \cup ActuatorHealthReport \cup RobotState \cup RobotJointCommand \cup RobotToolCommand
    \cup RobotBaseCommand \cup HomingTarget \cup OrchestratorMode \cup OrchestratorEvent \cup LoggingStatus

ASSUME SamplesAssumption == Samples \subseteq AcceptedTypes

-----------------------------------------------------------------------------
(* Publisher and Subscriber.                                               *)

TOPIC_TO_TYPE ==
    [NODE_RATE |-> "node_rate_sample", ACTUATOR_HEALTH |-> "actuator_health_report",
     ROBOT_STATE |-> "robot_state", ROBOT_JOINT_COMMAND |-> "robot_joint_command",
     ROBOT_TOOL_COMMAND |-> "robot_tool_command", ROBOT_BASE_COMMAND |-> "robot_base_command",
     ORCHESTRATOR_MODE |-> "orchestrator_mode", ORCHESTRATOR_EVENT |-> "orchestrator_event",
     LOGGING_STATUS |-> "logging_status", HOMING_TARGET |-> "homing_target"]

Packet(m) == Encode(m.type, ToLcm(m))

\* Mutant: a message of any type is published on a topic.
AnyTopic(m) == m.type = "robot_state" => EffortsFit(m)

\* TypeError, ValueError or struct.error otherwise.
Publishable(m) ==
    /\ m.type = TOPIC_TO_TYPE[topic]
    /\ m.type = "robot_state" => EffortsFit(m)
    /\ Encodable(m.type, ToLcm(m))

Readable(units) ==
    LET t == TOPIC_TO_TYPE[topic] IN
    /\ Decodable(t, units)
    /\ t = "robot_state" => EffortsReadable(Decode(t, units))
    /\ EnumReadable(t, Decode(t, units))

Delivered(units) == LET t == TOPIC_TO_TYPE[topic] IN FromLcm(t, Decode(t, units))

MessagesInit == topic = NoValue /\ sent = {} /\ air = {} /\ inbox = <<>> /\ refused = {}

Subscribe(t) ==
    /\ topic = NoValue
    /\ topic' = t
    /\ UNCHANGED <<sent, air, inbox, refused>>

Send(m) ==
    /\ Cardinality(sent) < MaxSent /\ m \notin sent
    /\ m \in {x \in Samples : Publishable(x)}
    /\ sent' = sent \cup {m}
    /\ air' = air \cup {Packet(m)}
    /\ UNCHANGED <<topic, inbox, refused>>

\* A program of another release, with another schema or with a value that this one has not.
OtherReleases(t) ==
    {<<OtherRelease, 7, 1, 1>>, <<OtherRelease, 7, 1, 1, 1, 0, 1, 1, 1, 1>>}
    \cup (IF t \in {"orchestrator_mode", "orchestrator_event"} THEN {<<Fingerprint[t], 7, 9>>} ELSE {})

SendOther(units) ==
    /\ Cardinality(air) = Cardinality(sent)
    /\ units \notin air
    /\ air' = air \cup {units}
    /\ UNCHANGED <<topic, sent, inbox, refused>>

\* Mutant: the queue makes room before the packet is decoded.
RoomFirst(units) ==
    /\ topic # NoValue
    /\ LET room == IF Len(inbox) = QueueSize THEN Tail(inbox) ELSE inbox IN
       IF Readable(units) THEN inbox' = Append(room, Delivered(units)) /\ UNCHANGED refused
       ELSE refused' = refused \cup {units} /\ inbox' = room
    /\ UNCHANGED <<topic, sent, air>>

\* Mutant: a full queue keeps its oldest.
GrowingQueue(units) ==
    /\ topic # NoValue
    /\ IF Readable(units)
       THEN inbox' = Append(inbox, Delivered(units)) /\ UNCHANGED refused
       ELSE refused' = refused \cup {units} /\ UNCHANGED inbox
    /\ Len(inbox) <= QueueSize
    /\ UNCHANGED <<topic, sent, air>>

\* _handle_message: what cannot be decoded is logged and dropped; a full queue loses its oldest.
HandleMessage(units) ==
    /\ topic # NoValue
    /\ IF Readable(units)
       THEN /\ inbox' = Append(IF Len(inbox) = QueueSize THEN Tail(inbox) ELSE inbox, Delivered(units))
            /\ UNCHANGED refused
       ELSE /\ refused' = refused \cup {units}
            /\ UNCHANGED inbox
    /\ UNCHANGED <<topic, sent, air>>

\* receive.
Receive ==
    /\ inbox # <<>>
    /\ inbox' = Tail(inbox)
    /\ UNCHANGED <<topic, sent, air, refused>>

MessagesEnd ==
    /\ topic # NoValue /\ inbox = <<>>
    /\ topic' = NoValue /\ sent' = {} /\ air' = {} /\ inbox' = <<>> /\ refused' = {}

MessagesNext ==
    \/ \E t \in DOMAIN TOPIC_TO_TYPE : Subscribe(t)
    \/ topic # NoValue /\ \E m \in Samples : Send(m)
    \/ topic # NoValue /\ \E units \in OtherReleases(TOPIC_TO_TYPE[topic]) : SendOther(units)
    \/ \E units \in air : HandleMessage(units)
    \/ Receive
    \/ MessagesEnd

MessagesSpec == MessagesInit /\ [][MessagesNext]_messageVars

-----------------------------------------------------------------------------
(* Properties.                                                             *)

MessagesTypeOK ==
    /\ topic \in {NoValue} \cup DOMAIN TOPIC_TO_TYPE
    /\ sent \subseteq Samples /\ Cardinality(sent) <= MaxSent
    /\ Len(inbox) <= QueueSize
    /\ \A i \in DOMAIN inbox : inbox[i].type = TOPIC_TO_TYPE[topic]
    /\ refused \subseteq air

\* An array that may be left out is as good as left out when it is empty.
Optional == {"joint_velocities", "gripper_positions"}
SameMessage(a, b) ==
    /\ DOMAIN a = DOMAIN b
    /\ \A f \in DOMAIN a :
        \/ a[f] = b[f]
        \/ a.type # "robot_state" /\ f \in Optional /\ a[f] = <<>> /\ b[f] = NoValue

\* A message that is received is one that was sent on its topic, field by field and with what
\* was left out still left out, whatever else travels on the channel: a packet of another
\* release, or of a replayed recording that is one, is never taken for a message (converter.py,
\* the fingerprints of types/lcm, _handle_message).
ReceivedWasSent == \A i \in DOMAIN inbox : \E m \in sent : SameMessage(m, inbox[i])

\* What the publisher lets through, a subscriber of the topic can read: the checks of the two
\* sides agree, and no message of ours is lost to a decode error (publish, *_to_lcm, *_from_lcm).
SentIsReadable == \A m \in sent : Packet(m) \notin refused

\* A packet that cannot be decoded costs nothing: the message that waits in the queue stays
\* there (_handle_message decodes before it makes room).
BadPacketHarmsNothing == [][refused' # refused /\ topic' = topic => inbox' = inbox]_messageVars

\* What is sent arrives as it was sent or is lost on the way, and nothing else does: publisher
\* and subscriber agree, and what does not decode does no harm.
MessagesArriveAsSent == []ReceivedWasSent /\ []SentIsReadable /\ BadPacketHarmsNothing

=============================================================================

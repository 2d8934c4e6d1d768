---------------------------- MODULE MCControlStack ----------------------------
EXTENDS ControlStack

AllSetups == {"keyboard", "oculus"} \X {"tool", "base", "gripper"}
             \cup {<<"oculus", "buttons">>, <<"tracking", "tool">>}

-----------------------------------------------------------------------------
(* A fixed arm with a gripper on a bus of its own, a mobile robot whose wheels and arm joints
   alternate, and configurations that are each wrong in one way.              *)

Joint(k, p, m, bus, id) == [kind |-> k, parent |-> p, mode |-> m, address |-> <<bus, id>>]

FixedArm ==
    [base |-> FALSE, estimator |-> FALSE,
     joints |-> <<Joint("revolute", 0, "position", 1, 1), Joint("revolute", 1, "position", 1, 2),
                  Joint("revolute", 2, "position", 2, 1)>>,
     tool |-> 2, wheels |-> <<>>, gripper |-> <<3>>, home |-> <<0, 1, 0>>]

Mobile ==
    [base |-> TRUE, estimator |-> TRUE,
     joints |-> <<Joint("continuous", 0, "velocity", 1, 1), Joint("revolute", 0, "position", 2, 1),
                  Joint("continuous", 0, "velocity", 1, 2), Joint("revolute", 2, "position", 2, 2),
                  Joint("continuous", 0, "velocity", 1, 3)>>,
     tool |-> 2, wheels |-> <<1, 5, 3>>, gripper |-> <<4>>, home |-> <<0, 1, 0, 0, 0>>]

AllCandidates ==
    {FixedArm, Mobile,
     [FixedArm EXCEPT !.joints[3].address = <<1, 1>>],
     [FixedArm EXCEPT !.joints[3].kind = "continuous"],
     [FixedArm EXCEPT !.joints[3].mode = "velocity"],
     [Mobile EXCEPT !.estimator = FALSE],
     [Mobile EXCEPT !.wheels = <<>>],
     [Mobile EXCEPT !.wheels = <<1, 5, 0>>]}

ThreeAngles == -1..1

-----------------------------------------------------------------------------
(* Messages of every type, with and without what may be left out.            *)

Health ==
    {h \in [joint_name : {1}, controller : {2}, actuator_id : {3}, healthy : BOOLEAN,
            temperature_celsius : {NoValue, 4}, issue : {NoValue, 5}] : h.healthy = (h.issue = NoValue)}
Pose == <<<<1, 2, 3>>, <<1, 0, 0, 0>>>>
Still == <<<<0, 0, 0>>, <<0, 0, 0>>>>

AllSamples ==
    [type : {"node_rate_sample"}, timestamp : {1}, node_name : {2}, pid : {3}, target_rate_hz : {4},
     measured_rate_hz : {4, 5}, cpu_percent : {6}, memory_rss_mb : {7}]
    \cup [type : {"actuator_health_report"}, timestamp : {1}, error : {NoValue, 5},
          actuators : {<<>>} \cup UNION {{<<h>>, <<h, [h EXCEPT !.actuator_id = 4]>>} : h \in Health}]
    \cup [type : {"robot_state"}, timestamp : {1}, joint_positions : {<<3, 4>>}, joint_velocities : {<<5>>},
          joint_efforts : {NoValue, <<6>>, <<NaN>>, <<6, 6>>}, actuator_temperatures : {<<7>>},
          effort_source : {NoValue, 2}]
    \cup [type : {"robot_joint_command"}, timestamp : {1}, joint_positions : {<<3, 4>>},
          joint_velocities : {NoValue, <<>>, <<5>>}]
    \cup [type : {"robot_tool_command"}, timestamp : {1}, pose : {Pose}, gripper_positions : {NoValue, <<>>, <<2>>},
          velocity : {NoValue, Still, <<<<1, 2, 3>>, <<0, 0, 4>>>>}]
    \cup [type : {"robot_base_command"}, timestamp : {1, 2}, pose : {Pose}]
    \cup [type : {"homing_target"}, timestamp : {1}, target_position : {<<>>, <<1, 2>>}]
    \cup [type : {"orchestrator_mode"}, timestamp : {1, 2}, mode : {1, 5}]
    \cup [type : {"orchestrator_event"}, timestamp : {1, 2}, kind : {1, 8}]
    \cup [type : {"logging_status"}, timestamp : {1}, state : {1, 5}, file_name : {NoValue, 3}, error : {NoValue, 4}]

=============================================================================

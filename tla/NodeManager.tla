----------------------------- MODULE NodeManager -----------------------------
(***************************************************************************)
(* The process manager of the operator console (nodes/manager.py): it      *)
(* starts, monitors and stops groups of node processes.  A group that has  *)
(* deferred nodes (the main stack's HomingNode) owns a startup thread that *)
(* waits for the first robot state and then spawns them.                   *)
(*                                                                         *)
(* Each `with self._lock` block of the code is one action.  Everything the *)
(* code does outside the lock (joining the startup thread, interrupting    *)
(* and killing processes, waiting for a robot state) interleaves with the  *)
(* other threads.  Time is abstracted: a timeout may fire at any moment.   *)
(***************************************************************************)
EXTENDS Naturals, FiniteSets

CONSTANTS
    Names,          \* ProcessName: the logical groups
    Runtimes,       \* Runtime: sim, real
    Robots,         \* RobotName
    Nodes,          \* the node classes
    Callers,        \* threads that call the manager's methods
    Groups,         \* identities of ManagedNodeGroup objects (bounds the number of starts)
    NoGroup,        \* "None" where a group is expected
    CoreNodes,      \* NodeGroup.nodes_for_runtime: the nodes start() spawns
    DeferredNodes,  \* NodeGroup.deferred_nodes: the nodes the startup thread spawns
    ProcessOrder,   \* position of a name in PROCESS_ORDER
    StopOrder       \* position of a name in PROCESS_STOP_ORDER

ASSUME NamesAssumption ==
    /\ Names # {}
    /\ CoreNodes \in [Names -> [Runtimes -> SUBSET Nodes]]
    /\ DeferredNodes \in [Names -> SUBSET Nodes]
    /\ \A n \in Names, r \in Runtimes : CoreNodes[n][r] \cap DeferredNodes[n] = {}
    /\ ProcessOrder \in [Names -> Nat]
    /\ StopOrder \in [Names -> Nat]

ASSUME GroupsAssumption == NoGroup \notin Groups

ASSUME ThreadsAssumption == Callers \cap Groups = {}

VARIABLES
    runtime,    \* NodeManager.runtime
    robot,      \* NodeManager.robot
    current,    \* NodeManager._groups
    group,      \* the ManagedNodeGroup objects: the name and configuration of each
    flags,      \* the BOOLEAN-like fields of each that are set
    process,    \* ManagedNodeGroup.processes: the state of each spawned process
    startup,    \* the startup thread of each group
    stopping,   \* the group a thread is stopping, outside the lock
    pending     \* the stops a caller's status(), stop() or close() still has to make

vars == <<runtime, robot, current, group, flags, process, startup, stopping, pending>>

\* The startup thread of group g is identified with g.
Threads == Callers \cup Groups

ProcessState == {"absent", "alive", "ok", "error"}

\* "none" before start(), or for a group without deferred nodes; "waiting" in
\* _wait_for_robot_state; "ready" and "failing" are past it, not yet under the lock.
StartupState == {"none", "waiting", "ready", "failing", "stopping", "done"}

\* "created": the object exists; "failed": failure_exit_code is not None.
Flags == {"created", "failed", "stop_event", "stop_requested", "shutdown_started"}

GroupRecord == [name : Names, runtime : Runtimes, robot : Robots]

NoStop == [group |-> NoGroup, processes |-> {}]

\* Why _stop_group is called: with failure=... or on request.
Causes == {"request", "failure"}
NoPending == [names |-> {}, cause |-> "request"]

TypeOK ==
    /\ runtime \in Runtimes
    /\ robot \in Robots
    /\ current \in [Names -> Groups \cup {NoGroup}]
    /\ group \in [Groups -> GroupRecord]
    /\ flags \in [Groups -> SUBSET Flags]
    /\ process \in [Groups -> [Nodes -> ProcessState]]
    /\ startup \in [Groups -> StartupState]
    /\ stopping \in [Threads -> [group : Groups \cup {NoGroup}, processes : SUBSET Nodes]]
    /\ pending \in [Callers -> [names : SUBSET Names, cause : Causes]]

Init ==
    /\ runtime \in Runtimes
    /\ robot \in Robots
    /\ current = [n \in Names |-> NoGroup]
    /\ group = [g \in Groups |-> CHOOSE record \in GroupRecord : TRUE]
    /\ flags = [g \in Groups |-> {}]
    /\ process = [g \in Groups |-> [n \in Nodes |-> "absent"]]
    /\ startup = [g \in Groups |-> "none"]
    /\ stopping = [t \in Threads |-> NoStop]
    /\ pending = [c \in Callers |-> NoPending]

-----------------------------------------------------------------------------
(* What _status_locked and _partial_failure_locked read off a group.       *)

Alive(g) == {n \in Nodes : process[g][n] = "alive"}
Spawned(g) == {n \in Nodes : process[g][n] # "absent"}
StartupAlive(g) == startup[g] \in {"waiting", "ready", "failing", "stopping"}

GroupRunning(g) ==
    /\ \/ Alive(g) # {}
       \/ StartupAlive(g) /\ "shutdown_started" \notin flags[g]
    /\ "failed" \notin flags[g]

Running(name) == current[name] # NoGroup /\ GroupRunning(current[name])

\* ProcessStatus.exit_code, with every failure code abstracted to "failure".
ExitCode(g) ==
    IF GroupRunning(g) THEN "none"
    ELSE IF "failed" \in flags[g] THEN "failure"
    ELSE IF "stop_requested" \in flags[g] THEN "zero"
    ELSE IF \E n \in Nodes : process[g][n] = "error" THEN "failure"
    ELSE IF \E n \in Nodes : process[g][n] = "ok" THEN "zero" ELSE "none"

PartialFailure(name) ==
    LET g == current[name] IN
    /\ g # NoGroup
    /\ "stop_requested" \notin flags[g] /\ "shutdown_started" \notin flags[g] /\ "failed" \notin flags[g]
    /\ \E n \in Nodes : process[g][n] \in {"ok", "error"}
    /\ Alive(g) # {} \/ StartupAlive(g)

\* A caller between two of its calls.
Idle(c) == stopping[c] = NoStop /\ pending[c] = NoPending

-----------------------------------------------------------------------------
(* Configuration and start.                                                *)

\* Mutant: only processes count, not a startup thread still waiting.
ConfigurationChangeIgnoringStartup ==
    \A name \in Names : current[name] # NoGroup => Alive(current[name]) = {} \/ "failed" \in flags[current[name]]

ConfigurationChangeAllowed == \A name \in Names : ~Running(name)

SetRuntime(c, r) ==
    /\ Idle(c)
    /\ ConfigurationChangeAllowed
    /\ runtime' = r
    /\ UNCHANGED <<robot, current, group, flags, process, startup, stopping, pending>>

SetRobot(c, r) ==
    /\ Idle(c)
    /\ ConfigurationChangeAllowed
    /\ robot' = r
    /\ UNCHANGED <<runtime, current, group, flags, process, startup, stopping, pending>>

\* A fresh ManagedNodeGroup, published in _groups before its nodes are spawned.
NewGroup(g, name) ==
    /\ "created" \notin flags[g]
    /\ current' = [current EXCEPT ![name] = g]
    /\ group' = [group EXCEPT ![g] = [name |-> name, runtime |-> runtime, robot |-> robot]]

Start(c, g, name) ==
    /\ Idle(c)
    /\ ~Running(name)
    /\ NewGroup(g, name)
    /\ flags' = [flags EXCEPT ![g] = {"created"}]
    /\ process' = [process EXCEPT ![g] =
           [n \in Nodes |-> IF n \in CoreNodes[name][runtime] THEN "alive" ELSE "absent"]]
    /\ startup' = [startup EXCEPT ![g] = IF DeferredNodes[name] # {} THEN "waiting" ELSE "none"]
    /\ UNCHANGED <<runtime, robot, stopping, pending>>

\* Spawning some node raises: the nodes spawned before it are stopped, still
\* under the lock, and the group stays in _groups as a failed one.
StartFails(c, g, name) ==
    /\ Idle(c)
    /\ ~Running(name)
    /\ NewGroup(g, name)
    /\ flags' = [flags EXCEPT ![g] = {"created", "failed", "stop_event"}]
    /\ \E spawned \in SUBSET CoreNodes[name][runtime] :
          /\ spawned # CoreNodes[name][runtime]
          /\ process' = [process EXCEPT ![g] =
                 [n \in Nodes |-> IF n \in spawned THEN "ok" ELSE "absent"]]
    /\ UNCHANGED <<runtime, robot, startup, stopping, pending>>

-----------------------------------------------------------------------------
(* Stopping: stop(), status() and close() queue stops, _stop_group makes    *)
(* them one after the other.                                               *)

\* The first locked block of _stop_group: the group is looked up by name.
StopGroup(t, name, cause) ==
    LET g == current[name] IN
    \/ /\ g = NoGroup
       /\ UNCHANGED <<flags, stopping>>
    \/ /\ g # NoGroup
       /\ flags' = [flags EXCEPT ![g] = @ \cup {"stop_event", "shutdown_started",
              IF cause = "failure" THEN "failed" ELSE "stop_requested"}]
       /\ stopping' = IF "shutdown_started" \in flags[g] THEN stopping
                      ELSE [stopping EXCEPT ![t] = [group |-> g, processes |-> Spawned(g)]]

Stop(c, name) ==
    /\ Idle(c)
    /\ pending' = [pending EXCEPT ![c] = [names |-> {name}, cause |-> "request"]]
    /\ UNCHANGED <<runtime, robot, current, group, flags, process, startup, stopping>>

Close(c) ==
    /\ Idle(c)
    /\ pending' = [pending EXCEPT ![c] = [names |-> Names, cause |-> "request"]]
    /\ UNCHANGED <<runtime, robot, current, group, flags, process, startup, stopping>>

\* status() collects the partially failed groups under one hold of the lock and
\* stops them after releasing it.
Status(c) ==
    /\ Idle(c)
    /\ \E name \in Names : PartialFailure(name)
    /\ pending' = [pending EXCEPT ![c] =
           [names |-> {name \in Names : PartialFailure(name)}, cause |-> "failure"]]
    /\ UNCHANGED <<runtime, robot, current, group, flags, process, startup, stopping>>

IsNextStop(c, name) ==
    LET order == IF pending[c].cause = "failure" THEN ProcessOrder ELSE StopOrder IN
    /\ name \in pending[c].names
    /\ \A other \in pending[c].names : order[name] <= order[other]

StopNext(c, name) ==
    /\ stopping[c] = NoStop
    /\ IsNextStop(c, name)
    /\ StopGroup(c, name, pending[c].cause)
    /\ pending' = [pending EXCEPT ![c] =
           IF pending[c].names = {name} THEN NoPending
           ELSE [pending[c] EXCEPT !.names = @ \ {name}]]
    /\ UNCHANGED <<runtime, robot, current, group, process, startup>>

\* Mutant: the escalation from SIGINT to SIGKILL is missing.
StopProcessesWithoutKill(t) ==
    /\ stopping[t].group # NoGroup
    /\ stopping' = [stopping EXCEPT ![t] = NoStop]
    /\ startup' = IF t \in Groups THEN [startup EXCEPT ![t] = "done"] ELSE startup
    /\ UNCHANGED <<runtime, robot, current, group, flags, process, pending>>

\* The rest of _stop_group: the startup thread is joined for at most a second,
\* then the processes listed under the lock are interrupted, terminated, killed.
StopProcesses(t) ==
    LET g == stopping[t].group IN
    /\ g # NoGroup
    /\ \E clean \in SUBSET (Alive(g) \cap stopping[t].processes) :
          process' = [process EXCEPT ![g] = [n \in Nodes |->
              IF n \in Alive(g) \cap stopping[t].processes
              THEN IF n \in clean THEN "ok" ELSE "error"
              ELSE process[g][n]]]
    /\ stopping' = [stopping EXCEPT ![t] = NoStop]
    /\ startup' = IF t \in Groups THEN [startup EXCEPT ![t] = "done"] ELSE startup
    /\ UNCHANGED <<runtime, robot, current, group, flags, pending>>

-----------------------------------------------------------------------------
(* The startup thread (_start_deferred_nodes).                             *)

\* The stop event is tested before each poll, so a robot state or the deadline
\* may still be acted on after the event was set.
WaitCancelled(g) ==
    /\ startup[g] = "waiting"
    /\ "stop_event" \in flags[g]
    /\ startup' = [startup EXCEPT ![g] = "done"]
    /\ UNCHANGED <<runtime, robot, current, group, flags, process, stopping, pending>>

WaitSucceeds(g) ==
    /\ startup[g] = "waiting"
    /\ startup' = [startup EXCEPT ![g] = "ready"]
    /\ UNCHANGED <<runtime, robot, current, group, flags, process, stopping, pending>>

WaitTimesOut(g) ==
    /\ startup[g] = "waiting"
    /\ startup' = [startup EXCEPT ![g] = "failing"]
    /\ UNCHANGED <<runtime, robot, current, group, flags, process, stopping, pending>>

\* Mutant: the stop event is not tested again under the lock.
MayStartDeferredUnlessReplaced(g) == current[group[g].name] = g

MayStartDeferred(g) == "stop_event" \notin flags[g] /\ current[group[g].name] = g

StartDeferredNodes(g) ==
    /\ startup[g] = "ready"
    /\ startup' = [startup EXCEPT ![g] = "done"]
    /\ process' = IF MayStartDeferred(g)
                  THEN [process EXCEPT ![g] = [n \in Nodes |->
                           IF n \in DeferredNodes[group[g].name] THEN "alive" ELSE process[g][n]]]
                  ELSE process
    /\ UNCHANGED <<runtime, robot, current, group, flags, stopping, pending>>

StartDeferredNodesFails(g) ==
    /\ startup[g] = "ready"
    /\ MayStartDeferred(g)
    /\ startup' = [startup EXCEPT ![g] = "failing"]
    /\ \E spawned \in SUBSET DeferredNodes[group[g].name] :
          /\ spawned # DeferredNodes[group[g].name]
          /\ process' = [process EXCEPT ![g] = [n \in Nodes |->
                 IF n \in spawned THEN "alive" ELSE process[g][n]]]
    /\ UNCHANGED <<runtime, robot, current, group, flags, stopping, pending>>

\* Mutant: the exception is only logged, the half-started group is left running.
StartupFailsSilently(g) ==
    /\ startup[g] = "failing"
    /\ startup' = [startup EXCEPT ![g] = "done"]
    /\ UNCHANGED <<runtime, robot, current, group, flags, process, stopping, pending>>

StartupFails(g) ==
    /\ startup[g] = "failing"
    /\ StopGroup(g, group[g].name, "failure")
    /\ startup' = [startup EXCEPT ![g] =
           IF stopping'[g].group = NoGroup THEN "done" ELSE "stopping"]
    /\ UNCHANGED <<runtime, robot, current, group, process, pending>>

-----------------------------------------------------------------------------
\* Mutant: a killed process keeps a code of its own that no reader knows.
ProcessExitsBySignal(g, n, exit) ==
    /\ process[g][n] = "alive"
    /\ process' = [process EXCEPT ![g][n] = "signal"]
    /\ UNCHANGED <<runtime, robot, current, group, flags, startup, stopping, pending>>

\* A node process ends by itself or on SIGINT (nodes/base.py run).
ProcessExits(g, n, exit) ==
    /\ process[g][n] = "alive"
    /\ process' = [process EXCEPT ![g][n] = exit]
    /\ UNCHANGED <<runtime, robot, current, group, flags, startup, stopping, pending>>

CallerNext(c) ==
    \/ \E r \in Runtimes : SetRuntime(c, r)
    \/ \E r \in Robots : SetRobot(c, r)
    \/ \E name \in Names, g \in Groups : Start(c, g, name)
    \/ \E name \in Names, g \in Groups : StartFails(c, g, name)
    \/ \E name \in Names : Stop(c, name)
    \/ Close(c)
    \/ Status(c)
    \/ \E name \in Names : StopNext(c, name)

StartupNext(g) ==
    \/ WaitCancelled(g)
    \/ WaitSucceeds(g)
    \/ WaitTimesOut(g)
    \/ StartDeferredNodes(g)
    \/ StartDeferredNodesFails(g)
    \/ StartupFails(g)

Next ==
    \/ \E c \in Callers : CallerNext(c)
    \/ \E g \in Groups : StartupNext(g)
    \/ \E t \in Threads : StopProcesses(t)
    \/ \E g \in Groups, n \in Nodes, exit \in {"ok", "error"} : ProcessExits(g, n, exit)

Spec == Init /\ [][Next]_vars

\* What a thread that has begun something does next: a caller its remaining
\* stops, a startup thread the rest of its startup.
ThreadNext(t) ==
    \/ StopProcesses(t)
    \/ t \in Callers /\ \E name \in Names : StopNext(t, name)
    \/ t \in Groups /\ StartupNext(t)

\* Every thread keeps running: _wait_for_robot_state ends by its deadline, and
\* _stop_processes escalates to SIGKILL.  Nothing obliges a caller to call.
Fairness == \A t \in Threads : WF_vars(ThreadNext(t))

FairSpec == Spec /\ Fairness

-----------------------------------------------------------------------------
(* Safety.                                                                 *)

\* A shutdown leaves no process behind: once _stop_group has begun on a group,
\* its live processes are all on the list of the one thread stopping it, and when
\* that thread is done none is alive, although the startup thread may still be
\* running (it is joined for one second only) and about to spawn deferred nodes.
ShutdownLeavesNoOrphan ==
    \A g \in Groups : "shutdown_started" \in flags[g] /\ Alive(g) # {} =>
        \E t \in Threads : /\ stopping[t].group = g
                           /\ Alive(g) \subseteq stopping[t].processes

\* Every process of a running group was spawned under the runtime and the robot
\* the manager reports now: set_runtime and set_robot are refused while anything
\* runs, and a running group is the one _groups holds.
RunningUnderCurrentConfiguration ==
    \A g \in Groups : GroupRunning(g) =>
        /\ group[g].runtime = runtime
        /\ group[g].robot = robot
        /\ current[group[g].name] = g

\* A group that status() reports as not running is never reported as running
\* again, although the startup thread may spawn nodes into an old group and
\* is_alive() is read anew on every call: `ended_monotonic` is frozen for good.
StoppedIsFinal ==
    [][\A g \in Groups :
         "created" \in flags[g] /\ ~GroupRunning(g) => ~GroupRunning(g)']_vars

(* Liveness.                                                               *)

\* What was begun with a group is over: no process is left of a group under
\* shutdown, and the startup thread has ended, with the deferred nodes spawned
\* or the group out of service (no half-started stack).
Settled(g) ==
    /\ "shutdown_started" \in flags[g] => Alive(g) = {}
    /\ startup[g] \in {"none", "done"}
    /\ startup[g] = "done" =>
          \/ \A n \in DeferredNodes[group[g].name] : process[g][n] # "absent"
          \/ ~GroupRunning(g)

\* Whatever dies, hangs or is never heard of, and whoever else starts and stops
\* what meanwhile, shutdowns and startups end (_stop_group, _start_deferred_nodes).
LifecyclesConclude == \A g \in Groups : "created" \in flags[g] ~> Settled(g)

(* What the code's messages and tests say, and the code does not keep.     *)

\* "Stop the stack and teleop processes before changing configuration."
\* (manager.py): the configuration changes only while no process is alive.
ConfigurationChangesWhenStopped ==
    [][<<runtime, robot>>' # <<runtime, robot>> => \A g \in Groups : Alive(g) = {}]_vars

\* test_stopping_stack_cancels_deferred_startup (tests/nodes/test_manager.py)
\* asserts exit code 0 after a stop during startup: a requested stop that has been
\* reported as exit code 0 does not become a failure afterwards.
StopCancelsStartup ==
    [][\A g \in Groups :
         "stop_requested" \in flags[g] /\ ExitCode(g) = "zero" => ExitCode(g)' = "zero"]_vars

=============================================================================

-------------------------- MODULE NodeManagerProofs --------------------------
(* Proofs, for every set of names, nodes, callers and groups, that the node *)
(* manager keeps its safety properties.                                     *)
EXTENDS NodeManager, TLAPS

\* A group that was never created has no process and no startup thread.
UnusedIsEmpty ==
    \A g \in Groups : "created" \notin flags[g] => Alive(g) = {} /\ startup[g] = "none"

\* _groups maps a name to a group created under that name.
CurrentIsNamed ==
    \A name \in Names : current[name] # NoGroup =>
        "created" \in flags[current[name]] /\ group[current[name]].name = name

\* Both ways of leaving service, a shutdown and a failed start, set the event the
\* startup thread tests.
LeavingSetsEvent ==
    \A g \in Groups : 
        "shutdown_started" \in flags[g] \/ "failed" \in flags[g] => "stop_event" \in flags[g]

\* A startup thread stops processes only in the exception handler it ends with.
StartupStopsLast ==
    \A g \in Groups : stopping[g].group # NoGroup => startup[g] = "stopping"

IInv ==
    /\ TypeOK
    /\ UnusedIsEmpty
    /\ CurrentIsNamed
    /\ LeavingSetsEvent
    /\ StartupStopsLast
    /\ RunningUnderCurrentConfiguration
    /\ ShutdownLeavesNoOrphan

-----------------------------------------------------------------------------
\* What StopGroup does to the group it finds and to the thread that calls it.
LEMMA StopGroupTypes ==
    ASSUME TypeOK, NEW t \in Threads, NEW name \in Names, NEW cause \in Causes,
           StopGroup(t, name, cause)
    PROVE  /\ flags' \in [Groups -> SUBSET Flags]
           /\ stopping' \in
                  [Threads -> [group : Groups \cup {NoGroup}, processes : SUBSET Nodes]]
<1> DEFINE g == current[name]
<1>1. CASE g = NoGroup
  BY <1>1 DEF StopGroup, TypeOK
<1>2. CASE g # NoGroup
  <2>1. g \in Groups
    BY <1>2 DEF TypeOK
  <2>2. flags' \in [Groups -> SUBSET Flags]
    BY <1>2, <2>1 DEF StopGroup, TypeOK, Flags, Causes
  <2>3. Spawned(g) \in SUBSET Nodes
    BY DEF Spawned
  <2>4. [group |-> g, processes |-> Spawned(g)] \in
            [group : Groups \cup {NoGroup}, processes : SUBSET Nodes]
    BY <2>1, <2>3
  <2> HIDE DEF g
  <2>5. stopping' = stopping
          \/ stopping' = [stopping EXCEPT ![t] = [group |-> g, processes |-> Spawned(g)]]
    BY <1>2 DEF StopGroup, g
  <2> QED
    BY <2>2, <2>4, <2>5 DEF TypeOK
<1> QED
  BY <1>1, <1>2

\* The types, step by step.
LEMMA TypeStep == TypeOK /\ [Next]_vars => TypeOK'
<1> SUFFICES ASSUME TypeOK, [Next]_vars PROVE TypeOK'
  OBVIOUS
<1> USE GroupsAssumption DEF TypeOK, Threads
<1>1. ASSUME NEW c \in Callers, CallerNext(c) PROVE TypeOK'
  <2>1. ASSUME NEW r \in Runtimes, SetRuntime(c, r) PROVE TypeOK'
    BY <2>1 DEF SetRuntime
  <2>2. ASSUME NEW r \in Robots, SetRobot(c, r) PROVE TypeOK'
    BY <2>2 DEF SetRobot
  <2>3. ASSUME NEW name \in Names, NEW g \in Groups, Start(c, g, name) PROVE TypeOK'
    BY <2>3 DEF Start, NewGroup, GroupRecord, Flags, ProcessState, StartupState
  <2>4. ASSUME NEW name \in Names, NEW g \in Groups, StartFails(c, g, name) PROVE TypeOK'
    BY <2>4 DEF StartFails, NewGroup, GroupRecord, Flags, ProcessState, StartupState
  <2>5. ASSUME NEW name \in Names, Stop(c, name) PROVE TypeOK'
    BY <2>5 DEF Stop, Causes
  <2>6. ASSUME Close(c) PROVE TypeOK'
    BY <2>6 DEF Close, Causes
  <2>7. ASSUME Status(c) PROVE TypeOK'
    BY <2>7 DEF Status, Causes
  <2>8. ASSUME NEW name \in Names, StopNext(c, name) PROVE TypeOK'
    <3>1. pending[c].cause \in Causes
      OBVIOUS
    <3>2. StopGroup(c, name, pending[c].cause)
      BY <2>8 DEF StopNext
    <3>3. flags' \in [Groups -> SUBSET Flags] /\ stopping' \in
              [Threads -> [group : Groups \cup {NoGroup}, processes : SUBSET Nodes]]
      BY <3>1, <3>2, StopGroupTypes
    <3>4. pending' \in [Callers -> [names : SUBSET Names, cause : Causes]]
      BY <2>8 DEF StopNext, NoPending, Causes
    <3> QED
      BY <2>8, <3>3, <3>4 DEF StopNext
  <2> QED
    BY <1>1, <2>1, <2>2, <2>3, <2>4, <2>5, <2>6, <2>7, <2>8 DEF CallerNext
<1>2. ASSUME NEW g \in Groups, StartupNext(g) PROVE TypeOK'
  <2>1. CASE WaitCancelled(g)
    BY <2>1 DEF WaitCancelled, StartupState
  <2>2. CASE WaitSucceeds(g)
    BY <2>2 DEF WaitSucceeds, StartupState
  <2>3. CASE WaitTimesOut(g)
    BY <2>3 DEF WaitTimesOut, StartupState
  <2>4. CASE StartDeferredNodes(g)
    BY <2>4 DEF StartDeferredNodes, StartupState, ProcessState
  <2>5. CASE StartDeferredNodesFails(g)
    BY <2>5 DEF StartDeferredNodesFails, StartupState, ProcessState
  <2>6. CASE StartupFails(g)
    <3>1. group[g].name \in Names
      BY DEF GroupRecord
    <3>2. flags' \in [Groups -> SUBSET Flags] /\ stopping' \in
              [Threads -> [group : Groups \cup {NoGroup}, processes : SUBSET Nodes]]
      BY <2>6, <3>1, StopGroupTypes DEF StartupFails, Causes
    <3>3. startup' \in [Groups -> StartupState]
      BY <2>6 DEF StartupFails, StartupState
    <3> QED
      BY <2>6, <3>2, <3>3 DEF StartupFails
  <2> QED
    BY <1>2, <2>1, <2>2, <2>3, <2>4, <2>5, <2>6 DEF StartupNext
<1>3. ASSUME NEW t \in Threads, StopProcesses(t) PROVE TypeOK'
  BY <1>3 DEF StopProcesses, NoStop, ProcessState, StartupState
<1>4. ASSUME NEW g \in Groups, NEW n \in Nodes, NEW exit \in {"ok", "error"},
             ProcessExits(g, n, exit)
      PROVE  TypeOK'
  <2>1. exit \in ProcessState
    BY DEF ProcessState
  <2> QED
    BY <1>4, <2>1 DEF ProcessExits
<1>5. CASE UNCHANGED vars
  BY <1>5 DEF vars
<1> HIDE DEF TypeOK, Threads
<1> QED
  BY <1>1, <1>2, <1>3, <1>4, <1>5 DEF Next

LEMMA TypeInit == Init => TypeOK
<1> SUFFICES ASSUME Init PROVE TypeOK
  OBVIOUS
<1>1. \E record \in GroupRecord : TRUE
  <2>1. PICK name \in Names : TRUE
    BY NamesAssumption
  <2>2. [name |-> name, runtime |-> runtime, robot |-> robot] \in GroupRecord
    BY DEF Init, GroupRecord
  <2> QED
    BY <2>2
<1>2. (CHOOSE record \in GroupRecord : TRUE) \in GroupRecord
  BY <1>1
<1> QED
  BY <1>2 DEF Init, TypeOK, Causes, ProcessState, StartupState, NoStop, NoPending

\* Every reachable state of the manager is well typed.
THEOREM TypeCorrect == Spec => []TypeOK
  BY TypeInit, TypeStep, PTL DEF Spec

-----------------------------------------------------------------------------
\* The effect of StopGroup that the invariant is about: only flags are added, and
\* only the thread that was free gets a group to stop, with all its processes.
LEMMA StopGroupEffect ==
    ASSUME TypeOK, NEW t \in Threads, NEW name \in Names, NEW cause \in Causes,
           StopGroup(t, name, cause)
    PROVE  /\ \A g \in Groups : flags[g] \subseteq flags'[g]
           /\ \A g \in Groups :
                  flags'[g] # flags[g] => g = current[name] /\ "stop_event" \in flags'[g]
           /\ \A g \in Groups :
                  "shutdown_started" \in flags'[g] /\ "shutdown_started" \notin flags[g] =>
                      /\ stopping'[t].group = g
                      /\ stopping'[t].processes = Spawned(g)
           /\ \A u \in Threads : u # t => stopping'[u] = stopping[u]
           /\ stopping'[t] = stopping[t] \/ stopping'[t].group = current[name]
<1>1. CASE current[name] = NoGroup
  BY <1>1, GroupsAssumption DEF StopGroup
<1>2. CASE current[name] # NoGroup
  <2>1. /\ current[name] \in Groups
        /\ flags' = [flags EXCEPT ![current[name]] = @ \cup {"stop_event", "shutdown_started",
               IF cause = "failure" THEN "failed" ELSE "stop_requested"}]
        /\ stopping' = IF "shutdown_started" \in flags[current[name]] THEN stopping
                       ELSE [stopping EXCEPT ![t] =
                           [group |-> current[name], processes |-> Spawned(current[name])]]
    BY <1>2 DEF StopGroup, TypeOK
  <2>2. \A g \in Groups : g # current[name] => flags'[g] = flags[g]
    BY <2>1 DEF TypeOK
  <2> QED
    BY <2>1, <2>2 DEF TypeOK
<1> QED
  BY <1>1, <1>2

\* IInv is preserved by a step of _stop_group's first locked block, by any thread.
LEMMA StopGroupStep ==
    ASSUME IInv, NEW t \in Threads, NEW name \in Names, NEW cause \in Causes,
           StopGroup(t, name, cause), stopping[t].group = NoGroup,
           UNCHANGED <<runtime, robot, current, group, process>>,
           startup' \in [Groups -> StartupState],
           \A g \in Groups : \/ startup'[g] = startup[g] /\ t # g
                             \/ /\ t = g /\ startup[g] = "failing"
                                /\ \/ startup'[g] = "stopping"
                                   \/ startup'[g] = "done" /\ stopping'[g].group = NoGroup
    PROVE  /\ UnusedIsEmpty'
           /\ CurrentIsNamed'
           /\ LeavingSetsEvent'
           /\ StartupStopsLast'
           /\ RunningUnderCurrentConfiguration'
           /\ ShutdownLeavesNoOrphan'
<1> USE DEF IInv
<1>0. \A g \in Groups : Alive(g)' = Alive(g) /\ Alive(g) \subseteq Spawned(g)
  BY DEF Alive, Spawned
<1>1. UnusedIsEmpty'
  BY <1>0, StopGroupEffect DEF UnusedIsEmpty, CurrentIsNamed
<1>2. CurrentIsNamed'
  BY StopGroupEffect DEF CurrentIsNamed, TypeOK
<1>3. LeavingSetsEvent'
  BY StopGroupEffect DEF LeavingSetsEvent
<1>4. StartupStopsLast'
  BY StopGroupEffect DEF StartupStopsLast, Threads
<1>5. RunningUnderCurrentConfiguration'
  <2> SUFFICES ASSUME NEW g \in Groups, GroupRunning(g)' PROVE GroupRunning(g)
    BY DEF RunningUnderCurrentConfiguration
  <2> QED
    BY <1>0, StopGroupEffect DEF GroupRunning, StartupAlive
<1>6. ShutdownLeavesNoOrphan'
  <2> SUFFICES ASSUME NEW g \in Groups, "shutdown_started" \in flags'[g], Alive(g) # {}
               PROVE  \E u \in Threads : /\ stopping'[u].group = g
                                         /\ Alive(g) \subseteq stopping'[u].processes
    BY <1>0 DEF ShutdownLeavesNoOrphan
  <2>1. CASE "shutdown_started" \in flags[g]
    <3>1. PICK u \in Threads : stopping[u].group = g /\ Alive(g) \subseteq stopping[u].processes
      BY <2>1 DEF ShutdownLeavesNoOrphan
    <3>2. u # t
      BY <3>1, GroupsAssumption
    <3> QED
      BY <3>1, <3>2, StopGroupEffect
  <2>2. CASE "shutdown_started" \notin flags[g]
    BY <1>0, <2>2, StopGroupEffect
  <2> QED
    BY <2>1, <2>2
<1> QED
  BY <1>1, <1>2, <1>3, <1>4, <1>5, <1>6

\* IInv is preserved when a caller creates a group: the new group replaces one
\* that is not running, and no thread is stopping it yet.
LEMMA NewGroupStep ==
    ASSUME IInv, NEW name \in Names, NEW g \in Groups, ~Running(name), NewGroup(g, name),
           UNCHANGED <<runtime, robot, stopping>>,
           \/ flags' = [flags EXCEPT ![g] = {"created"}]
           \/ flags' = [flags EXCEPT ![g] = {"created", "failed", "stop_event"}],
           \A h \in Groups : h # g => process'[h] = process[h] /\ startup'[h] = startup[h]
    PROVE  /\ UnusedIsEmpty'
           /\ CurrentIsNamed'
           /\ LeavingSetsEvent'
           /\ StartupStopsLast'
           /\ RunningUnderCurrentConfiguration'
           /\ ShutdownLeavesNoOrphan'
<1> USE DEF IInv
<1>0. /\ "created" \notin flags[g]
      /\ current' = [current EXCEPT ![name] = g]
      /\ group' = [group EXCEPT ![g] = [name |-> name, runtime |-> runtime, robot |-> robot]]
  BY DEF NewGroup
<1>1. \A h \in Groups : h # g => /\ flags'[h] = flags[h]
                                /\ group'[h] = group[h]
                                /\ Alive(h)' = Alive(h)
                                /\ GroupRunning(h)' = GroupRunning(h)
  BY <1>0 DEF TypeOK, Alive, GroupRunning, StartupAlive
<1>2. "created" \in flags'[g] /\ "shutdown_started" \notin flags'[g]
  BY DEF TypeOK
<1>3. UnusedIsEmpty'
  BY <1>1, <1>2 DEF UnusedIsEmpty
<1>4. CurrentIsNamed'
  BY <1>0, <1>1, <1>2 DEF CurrentIsNamed, TypeOK, GroupRecord
<1>5. LeavingSetsEvent'
  BY <1>1 DEF LeavingSetsEvent, TypeOK
<1>6. StartupStopsLast'
  BY <1>0 DEF StartupStopsLast, UnusedIsEmpty
<1>7. RunningUnderCurrentConfiguration'
  <2> SUFFICES ASSUME NEW h \in Groups, GroupRunning(h)'
               PROVE  /\ group'[h].runtime = runtime
                      /\ group'[h].robot = robot
                      /\ current'[group'[h].name] = h
    BY DEF RunningUnderCurrentConfiguration
  <2>1. CASE h = g
    BY <1>0, <2>1 DEF TypeOK
  <2>2. CASE h # g
    <3>1. GroupRunning(h) /\ group'[h] = group[h]
      BY <1>1, <2>2
    <3>2. group[h].name # name
      BY <3>1, GroupsAssumption DEF Running, RunningUnderCurrentConfiguration
    <3>3. group[h].name \in Names
      BY DEF TypeOK, GroupRecord
    <3> QED
      BY <1>0, <3>1, <3>2, <3>3 DEF RunningUnderCurrentConfiguration, TypeOK
  <2> QED
    BY <2>1, <2>2
<1>8. ShutdownLeavesNoOrphan'
  BY <1>1, <1>2 DEF ShutdownLeavesNoOrphan
<1> QED
  BY <1>3, <1>4, <1>5, <1>6, <1>7, <1>8

\* IInv is preserved when only processes and startup threads move: no group
\* starts running by it, and a group being stopped gets no new live process.
LEMMA ProcessStep ==
    ASSUME IInv,
           UNCHANGED <<runtime, robot, current, group, flags>>,
           \A g \in Groups : GroupRunning(g)' => GroupRunning(g),
           \A g \in Groups : "created" \notin flags[g] => Alive(g)' = {} /\ startup'[g] = "none",
           \A g \in Groups : "shutdown_started" \in flags[g] => Alive(g)' \subseteq Alive(g),
           \A t \in Threads : \/ stopping'[t] = stopping[t]
                              \/ /\ stopping'[t] = NoStop
                                 /\ \A g \in Groups : stopping[t].group = g =>
                                       Alive(g)' \cap stopping[t].processes = {},
           \A g \in Groups : stopping'[g].group # NoGroup => startup'[g] = startup[g]
    PROVE  /\ UnusedIsEmpty'
           /\ CurrentIsNamed'
           /\ LeavingSetsEvent'
           /\ StartupStopsLast'
           /\ RunningUnderCurrentConfiguration'
           /\ ShutdownLeavesNoOrphan'
<1> USE DEF IInv
<1>1. UnusedIsEmpty'
  BY DEF UnusedIsEmpty
<1>2. CurrentIsNamed' /\ LeavingSetsEvent'
  BY DEF CurrentIsNamed, LeavingSetsEvent
<1>3. StartupStopsLast'
  BY DEF StartupStopsLast, Threads, NoStop
<1>4. RunningUnderCurrentConfiguration'
  BY DEF RunningUnderCurrentConfiguration
<1>5. ShutdownLeavesNoOrphan'
  <2> SUFFICES ASSUME NEW g \in Groups, "shutdown_started" \in flags[g], Alive(g)' # {}
               PROVE  \E t \in Threads : /\ stopping'[t].group = g
                                         /\ Alive(g)' \subseteq stopping'[t].processes
    BY DEF ShutdownLeavesNoOrphan
  <2>1. PICK t \in Threads : stopping[t].group = g /\ Alive(g) \subseteq stopping[t].processes
    BY DEF ShutdownLeavesNoOrphan
  <2>2. Alive(g)' \subseteq stopping[t].processes
    BY <2>1
  <2>3. stopping'[t] = stopping[t]
    BY <2>1, <2>2
  <2> QED
    BY <2>1, <2>2, <2>3
<1> QED
  BY <1>1, <1>2, <1>3, <1>4, <1>5

LEMMA InvStep == IInv /\ [Next]_vars => IInv'
<1> SUFFICES ASSUME IInv, [Next]_vars PROVE IInv'
  OBVIOUS
<1> DEFINE Rest == /\ UnusedIsEmpty'
                   /\ CurrentIsNamed'
                   /\ LeavingSetsEvent'
                   /\ StartupStopsLast'
                   /\ RunningUnderCurrentConfiguration'
                   /\ ShutdownLeavesNoOrphan'
<1>t. TypeOK /\ TypeOK'
  BY TypeStep DEF IInv
<1>u. ASSUME UNCHANGED <<runtime, robot, current, group, flags, process, startup, stopping>>
      PROVE  Rest
  <2>1. \A g \in Groups : Alive(g)' = Alive(g) /\ GroupRunning(g)' = GroupRunning(g)
    BY <1>u DEF Alive, GroupRunning, StartupAlive
  <2> QED
    BY <1>u, <2>1, ProcessStep DEF IInv, UnusedIsEmpty
<1>1. ASSUME NEW c \in Callers, CallerNext(c) PROVE Rest
  <2> c \in Threads /\ c \notin Groups
    BY ThreadsAssumption DEF Threads
  <2>1. ASSUME NEW r \in Runtimes, SetRuntime(c, r) PROVE Rest
    <3>1. \A g \in Groups : ~GroupRunning(g)
      BY <1>t, <2>1, GroupsAssumption DEF SetRuntime, ConfigurationChangeAllowed, Running, IInv,
         RunningUnderCurrentConfiguration, TypeOK, GroupRecord
    <3>2. \A g \in Groups : Alive(g)' = Alive(g) /\ ~GroupRunning(g)'
      BY <2>1, <3>1 DEF SetRuntime, Alive, GroupRunning, StartupAlive
    <3> QED
      BY <2>1, <3>2 DEF SetRuntime, IInv, UnusedIsEmpty, CurrentIsNamed, LeavingSetsEvent,
         StartupStopsLast, RunningUnderCurrentConfiguration, ShutdownLeavesNoOrphan
  <2>2. ASSUME NEW r \in Robots, SetRobot(c, r) PROVE Rest
    <3>1. \A g \in Groups : ~GroupRunning(g)
      BY <1>t, <2>2, GroupsAssumption DEF SetRobot, ConfigurationChangeAllowed, Running, IInv,
         RunningUnderCurrentConfiguration, TypeOK, GroupRecord
    <3>2. \A g \in Groups : Alive(g)' = Alive(g) /\ ~GroupRunning(g)'
      BY <2>2, <3>1 DEF SetRobot, Alive, GroupRunning, StartupAlive
    <3> QED
      BY <2>2, <3>2 DEF SetRobot, IInv, UnusedIsEmpty, CurrentIsNamed, LeavingSetsEvent,
         StartupStopsLast, RunningUnderCurrentConfiguration, ShutdownLeavesNoOrphan
  <2>3. ASSUME NEW name \in Names, NEW g \in Groups, Start(c, g, name) PROVE Rest
    <3>1. \A h \in Groups : h # g => process'[h] = process[h] /\ startup'[h] = startup[h]
      BY <1>t, <2>3 DEF Start, TypeOK
    <3> QED
      BY <2>3, <3>1, NewGroupStep DEF Start
  <2>4. ASSUME NEW name \in Names, NEW g \in Groups, StartFails(c, g, name) PROVE Rest
    <3>1. \A h \in Groups : h # g => process'[h] = process[h] /\ startup'[h] = startup[h]
      BY <1>t, <2>4 DEF StartFails, TypeOK
    <3> QED
      BY <2>4, <3>1, NewGroupStep DEF StartFails
  <2>5. ASSUME NEW name \in Names, Stop(c, name) PROVE Rest
    BY <1>u, <2>5 DEF Stop
  <2>6. ASSUME Close(c) PROVE Rest
    BY <1>u, <2>6 DEF Close
  <2>7. ASSUME Status(c) PROVE Rest
    BY <1>u, <2>7 DEF Status
  <2>8. ASSUME NEW name \in Names, StopNext(c, name) PROVE Rest
    <3>1. pending[c].cause \in Causes
      BY <1>t DEF TypeOK
    <3>2. StopGroup(c, name, pending[c].cause) /\ stopping[c].group = NoGroup
      BY <2>8 DEF StopNext, NoStop
    <3>3. /\ UNCHANGED <<runtime, robot, current, group, process>>
          /\ startup' \in [Groups -> StartupState]
          /\ \A g \in Groups : startup'[g] = startup[g] /\ c # g
      BY <1>t, <2>8 DEF StopNext, TypeOK
    <3> QED
      BY <3>1, <3>2, <3>3, StopGroupStep
  <2> QED
    BY <1>1, <2>1, <2>2, <2>3, <2>4, <2>5, <2>6, <2>7, <2>8 DEF CallerNext
<1>2. ASSUME NEW g \in Groups, StartupNext(g) PROVE Rest
  <2> g \in Threads
    BY DEF Threads
  <2>1. CASE WaitCancelled(g) \/ WaitSucceeds(g) \/ WaitTimesOut(g)
    <3>1. /\ startup[g] = "waiting"
          /\ \A h \in Groups : h # g => startup'[h] = startup[h]
          /\ UNCHANGED <<runtime, robot, current, group, flags, process, stopping>>
      BY <1>t, <2>1 DEF WaitCancelled, WaitSucceeds, WaitTimesOut, TypeOK
    <3>2. \A h \in Groups : Alive(h)' = Alive(h)
      BY <3>1 DEF Alive
    <3>3. stopping[g].group = NoGroup
      BY <3>1 DEF IInv, StartupStopsLast
    <3>4. \A h \in Groups : GroupRunning(h)' => GroupRunning(h)
      BY <3>1, <3>2 DEF GroupRunning, StartupAlive
    <3>5. "created" \in flags[g]
      BY <3>1 DEF IInv, UnusedIsEmpty
    <3> QED
      BY <3>1, <3>2, <3>3, <3>4, <3>5, ProcessStep DEF IInv, UnusedIsEmpty
  <2>4. CASE StartDeferredNodes(g) \/ StartDeferredNodesFails(g)
    <3>1. /\ startup[g] = "ready"
          /\ \A h \in Groups : h # g => startup'[h] = startup[h] /\ process'[h] = process[h]
          /\ UNCHANGED <<runtime, robot, current, group, flags, stopping>>
      BY <1>t, <2>4 DEF StartDeferredNodes, StartDeferredNodesFails, TypeOK
    <3>2. process' = process \/ "stop_event" \notin flags[g]
      BY <2>4 DEF StartDeferredNodes, StartDeferredNodesFails, MayStartDeferred
    <3>3. "created" \in flags[g]
      BY <3>1 DEF IInv, UnusedIsEmpty
    <3>4. process' # process => /\ "shutdown_started" \notin flags[g]
                                /\ GroupRunning(g)
      BY <3>1, <3>2 DEF IInv, LeavingSetsEvent, GroupRunning, StartupAlive
    <3>5. \A h \in Groups : h # g => Alive(h)' = Alive(h) /\ GroupRunning(h)' = GroupRunning(h)
      BY <3>1 DEF Alive, GroupRunning, StartupAlive
    <3>6. \/ process' # process
          \/ Alive(g)' = Alive(g) /\ (GroupRunning(g)' => GroupRunning(g))
      BY <3>1 DEF Alive, GroupRunning, StartupAlive
    <3> QED
      BY <1>t, <3>1, <3>3, <3>4, <3>5, <3>6, ProcessStep DEF IInv, UnusedIsEmpty, StartupStopsLast, TypeOK
  <2>6. CASE StartupFails(g)
    BY <1>t, <2>6, StopGroupStep DEF StartupFails, TypeOK, IInv, StartupStopsLast, GroupRecord, Causes
  <2> QED
    BY <1>2, <2>1, <2>4, <2>6 DEF StartupNext
<1>3. ASSUME NEW t \in Threads, StopProcesses(t) PROVE Rest
  <2>1. PICK h \in Groups : h = stopping[t].group
    BY <1>t, <1>3 DEF StopProcesses, TypeOK
  <2>2. /\ \A g \in Groups : Alive(g)' \subseteq Alive(g)
        /\ Alive(h)' \cap stopping[t].processes = {}
    BY <1>t, <1>3, <2>1 DEF StopProcesses, TypeOK, Alive
  <2>3. /\ stopping' = [stopping EXCEPT ![t] = NoStop]
        /\ \A g \in Groups : startup'[g] = IF g = t THEN "done" ELSE startup[g]
        /\ UNCHANGED <<runtime, robot, current, group, flags>>
    BY <1>t, <1>3 DEF StopProcesses, TypeOK
  <2>4. \A u \in Threads : stopping'[u] = IF u = t THEN NoStop ELSE stopping[u]
    BY <1>t, <2>3 DEF TypeOK
  <2>5. t \in Groups => startup[t] # "none" /\ "created" \in flags[t]
    BY <2>1, GroupsAssumption DEF IInv, StartupStopsLast, UnusedIsEmpty
  <2>6. \A g \in Groups : GroupRunning(g)' => GroupRunning(g)
    BY <2>2, <2>3 DEF GroupRunning, StartupAlive
  <2>7. \A g \in Groups : "created" \notin flags[g] => Alive(g)' = {} /\ startup'[g] = "none"
    BY <2>2, <2>3, <2>5 DEF IInv, UnusedIsEmpty
  <2>8. \A g \in Groups : stopping'[g].group # NoGroup => startup'[g] = startup[g]
    BY <2>3, <2>4 DEF NoStop, Threads
  <2> QED
    BY <2>1, <2>2, <2>3, <2>4, <2>6, <2>7, <2>8, ProcessStep
<1>4. ASSUME NEW g \in Groups, NEW n \in Nodes, NEW exit \in {"ok", "error"},
             ProcessExits(g, n, exit)
      PROVE  Rest
  <2>1. \A h \in Groups : Alive(h)' \subseteq Alive(h)
    <3>1. exit # "alive" /\ process' = [process EXCEPT ![g][n] = exit]
      BY <1>4 DEF ProcessExits
    <3>2. \A h \in Groups, m \in Nodes :
             process'[h][m] = IF h = g /\ m = n THEN exit ELSE process[h][m]
      BY <1>t, <3>1 DEF TypeOK
    <3> QED
      BY <3>1, <3>2 DEF Alive
  <2>2. \A h \in Groups : GroupRunning(h)' => GroupRunning(h)
    BY <1>4, <2>1 DEF ProcessExits, GroupRunning, StartupAlive
  <2> QED
    BY <1>4, <2>1, <2>2, ProcessStep DEF ProcessExits, IInv, UnusedIsEmpty
<1>5. ASSUME UNCHANGED vars PROVE Rest
  BY <1>5, <1>u DEF vars
<1>6. Rest
  BY <1>1, <1>2, <1>3, <1>4, <1>5 DEF Next
<1> QED
  BY <1>t, <1>6 DEF IInv

LEMMA InvInit == Init => IInv
<1> SUFFICES ASSUME Init PROVE IInv
  OBVIOUS
<1>1. TypeOK
  BY TypeInit
<1>2. \A g \in Groups : Alive(g) = {} /\ startup[g] = "none" /\ flags[g] = {}
  BY DEF Init, Alive
<1> QED
  BY <1>1, <1>2 DEF Init, IInv, UnusedIsEmpty, CurrentIsNamed, LeavingSetsEvent, StartupStopsLast,
     RunningUnderCurrentConfiguration, ShutdownLeavesNoOrphan, GroupRunning, StartupAlive,
     Threads, NoStop

LEMMA Invariance == Spec => []IInv
  BY InvInit, InvStep, PTL DEF Spec

\* Whatever the callers, the startup threads and the processes do, the live
\* processes of a group under shutdown are on the list of a thread stopping it.
THEOREM NoOrphans == Spec => []ShutdownLeavesNoOrphan
<1>1. IInv => ShutdownLeavesNoOrphan
  BY DEF IInv
<1> QED
  BY <1>1, Invariance, PTL

\* Every running group runs under the configuration the manager reports, and is
\* the group _groups holds for its name.
THEOREM ConfigurationHolds == Spec => []RunningUnderCurrentConfiguration
<1>1. IInv => RunningUnderCurrentConfiguration
  BY DEF IInv
<1> QED
  BY <1>1, Invariance, PTL

-----------------------------------------------------------------------------
LEMMA StaysStopped ==
    ASSUME IInv, Next, NEW g \in Groups, "created" \in flags[g], ~GroupRunning(g)
    PROVE  ~GroupRunning(g)'
<1> USE DEF IInv
<1>1. ASSUME UNCHANGED <<flags, process, startup>> PROVE ~GroupRunning(g)'
  BY <1>1 DEF GroupRunning, Alive, StartupAlive
<1>2. ASSUME NEW c \in Callers, CallerNext(c) PROVE ~GroupRunning(g)'
  <2>1. ASSUME NEW r \in Runtimes, SetRuntime(c, r) PROVE ~GroupRunning(g)'
    BY <1>1, <2>1 DEF SetRuntime
  <2>2. ASSUME NEW r \in Robots, SetRobot(c, r) PROVE ~GroupRunning(g)'
    BY <1>1, <2>2 DEF SetRobot
  <2>3. ASSUME NEW name \in Names, NEW h \in Groups, Start(c, h, name) PROVE ~GroupRunning(g)'
    <3>1. g # h
      BY <2>3 DEF Start, NewGroup
    <3> QED
      BY <2>3, <3>1 DEF Start, TypeOK, GroupRunning, Alive, StartupAlive
  <2>4. ASSUME NEW name \in Names, NEW h \in Groups, StartFails(c, h, name)
        PROVE  ~GroupRunning(g)'
    <3>1. g # h
      BY <2>4 DEF StartFails, NewGroup
    <3>2. flags'[g] = flags[g] /\ process'[g] = process[g] /\ startup'[g] = startup[g]
      BY <2>4, <3>1 DEF StartFails, TypeOK
    <3> QED
      BY <3>2 DEF GroupRunning, Alive, StartupAlive
  <2>5. CASE (\E name \in Names : Stop(c, name)) \/ Close(c) \/ Status(c)
    BY <1>1, <2>5 DEF Stop, Close, Status
  <2>6. ASSUME NEW name \in Names, StopNext(c, name) PROVE ~GroupRunning(g)'
    <3>1. pending[c].cause \in Causes /\ c \in Threads
      BY DEF TypeOK, Threads
    <3>2. flags[g] \subseteq flags'[g]
      BY <2>6, <3>1, StopGroupEffect DEF StopNext
    <3> QED
      BY <2>6, <3>2 DEF StopNext, GroupRunning, Alive, StartupAlive
  <2> QED
    BY <1>2, <2>1, <2>2, <2>3, <2>4, <2>5, <2>6 DEF CallerNext
<1>3. ASSUME NEW h \in Groups, StartupNext(h) PROVE ~GroupRunning(g)'
  <2>1. CASE WaitCancelled(h) \/ WaitSucceeds(h) \/ WaitTimesOut(h)
    BY <2>1 DEF WaitCancelled, WaitSucceeds, WaitTimesOut, TypeOK, GroupRunning, Alive, StartupAlive
  <2>2. CASE StartDeferredNodes(h) \/ StartDeferredNodesFails(h)
    <3>1. h # g => process'[g] = process[g] /\ startup'[g] = startup[g]
      BY <2>2 DEF StartDeferredNodes, StartDeferredNodesFails, TypeOK
    <3>2. h = g => process' = process
      BY <2>2 DEF StartDeferredNodes, StartDeferredNodesFails, MayStartDeferred, LeavingSetsEvent,
         GroupRunning, StartupAlive
    <3>3. flags' = flags /\ startup[h] = "ready"
      BY <2>2 DEF StartDeferredNodes, StartDeferredNodesFails
    <3> QED
      BY <3>1, <3>2, <3>3 DEF GroupRunning, Alive, StartupAlive
  <2>3. CASE StartupFails(h)
    <3>1. group[h].name \in Names /\ h \in Threads /\ "failure" \in Causes
      BY DEF TypeOK, GroupRecord, Threads, Causes
    <3>2. flags[g] \subseteq flags'[g]
      BY <2>3, <3>1, StopGroupEffect DEF StartupFails
    <3>3. process' = process /\ (StartupAlive(g)' => StartupAlive(g))
      BY <2>3 DEF StartupFails, TypeOK, StartupAlive
    <3> QED
      BY <3>2, <3>3 DEF GroupRunning, Alive
  <2> QED
    BY <1>3, <2>1, <2>2, <2>3 DEF StartupNext
<1>4. ASSUME NEW t \in Threads, StopProcesses(t) PROVE ~GroupRunning(g)'
  <2>1. /\ flags' = flags
        /\ Alive(g)' \subseteq Alive(g)
        /\ StartupAlive(g)' => StartupAlive(g)
    BY <1>4 DEF StopProcesses, TypeOK, Alive, StartupAlive
  <2> QED
    BY <2>1 DEF GroupRunning
<1>5. ASSUME NEW h \in Groups, NEW n \in Nodes, NEW exit \in {"ok", "error"},
             ProcessExits(h, n, exit)
      PROVE  ~GroupRunning(g)'
  <2>1. exit # "alive" /\ process' = [process EXCEPT ![h][n] = exit]
    BY <1>5 DEF ProcessExits
  <2>2. \A m \in Nodes : process'[g][m] = process[g][m] \/ process'[g][m] = exit
    BY <2>1 DEF TypeOK
  <2>3. Alive(g)' \subseteq Alive(g)
    BY <2>1, <2>2 DEF Alive
  <2> QED
    BY <1>5, <2>3 DEF ProcessExits, GroupRunning, StartupAlive
<1> QED
  BY <1>2, <1>3, <1>4, <1>5 DEF Next

\* A group reported as not running is never reported as running again.
THEOREM StoppedGroupsStayStopped == Spec => StoppedIsFinal
<1> DEFINE Final == \A g \in Groups :
              "created" \in flags[g] /\ ~GroupRunning(g) => ~GroupRunning(g)'
<1>1. IInv /\ [Next]_vars => [Final]_vars
  BY StaysStopped
<1> QED
  BY <1>1, Invariance, PTL DEF Spec, StoppedIsFinal

=============================================================================

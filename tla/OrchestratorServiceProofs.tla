---------------------- MODULE OrchestratorServiceProofs ----------------------
(***************************************************************************)
(* Proofs about the operator service, for any teleops, runtimes and requests *)
(* and for a console that is closed at any moment of a request.              *)
(***************************************************************************)
EXTENDS OrchestratorService, TLAPS

-----------------------------------------------------------------------------
\* What the proofs need of the constants.
LEMMA ServiceNames ==
  /\ Recorded \subseteq Modes
  /\ None \notin Names \cup Modes \cup Runtimes
  /\ Teleops \cap {"STACK", "REPLAY", "IDLE", "HOMING"} = {}
  BY ServiceAssumption

LEMMA InitType == Init => TypeOK
  BY ServiceNames DEF Init, TypeOK, Names, Modes, NoView, GroupState, Running, Stage

\* What the managers' calls make of the groups and of the player is well typed.
LEMMA CallsType ==
  ASSUME NEW groups \in [Names -> GroupState], NEW names
  PROVE  /\ StatusOf(groups) \in [Names -> GroupState \ {"partial"}]
         /\ StatusOf(groups) \in [Names -> GroupState]
         /\ StopAll(groups, names) \in [Names -> GroupState]
         /\ StatusOf(StopAll(groups, names)) \in [Names -> GroupState \ {"partial"}]
  BY DEF StatusOf, StopAll, Runs, GroupState, Running

LEMMA EnvironmentType == TypeOK /\ Environment => TypeOK'
<1> SUFFICES ASSUME TypeOK, Environment PROVE TypeOK'
  OBVIOUS
<1> USE ServiceNames DEF TypeOK, managerVars, replayVars, nodeVars, monitorVars, requestVars, closeVars,
    Names, Modes, GroupState, Running
<1>1. ASSUME NEW n \in Names, ProcessDies(n) PROVE TypeOK'
  BY <1>1 DEF ProcessDies
<1>2. ASSUME NEW n \in Names, GroupEnds(n) PROVE TypeOK'
  BY <1>2 DEF GroupEnds
<1>3. CASE StartupSucceeds
  BY <1>3 DEF StartupSucceeds
<1>4. CASE StartupFails
  BY <1>4 DEF StartupFails
<1>5. ASSUME NEW n \in Names, ShutdownEnds(n) PROVE TypeOK'
  <2>1. leftover' \in SUBSET Names /\ group' \in {group, [group EXCEPT ![n] = "failed"]}
    BY <1>5, Zenon DEF ShutdownEnds
  <2>2. group' \in [Names -> GroupState]
    BY <2>1
  <2>3. QED
    BY <1>5, <2>1, <2>2 DEF ShutdownEnds
<1>6. ASSUME NEW exit \in {"ok", "error"}, PlayerEnds(exit) PROVE TypeOK'
  BY <1>6 DEF PlayerEnds
<1>7. CASE HandleEvent
  BY <1>7 DEF HandleEvent
<1>8. CASE HomingCompletes
  BY <1>8 DEF HomingCompletes
<1>9. ASSUME NEW m \in Modes, Broadcast(m) PROVE TypeOK'
  BY <1>9 DEF Broadcast
<1>10. CASE ModeExpires
  BY <1>10 DEF ModeExpires
<1>11. QED
  BY <1>1, <1>2, <1>3, <1>4, <1>5, <1>6, <1>7, <1>8, <1>9, <1>10 DEF Environment

\* The last status() and the end of a request, and the stop of the player.
LEMMA StepsType ==
  ASSUME TypeOK
  PROVE  /\ Finish => /\ request' \in [call : Request, acted : BOOLEAN] \cup {None}
                      /\ at' \in Stage
                      /\ view' \in [Names -> GroupState \ {"partial"}]
                      /\ playing' \in BOOLEAN
         /\ request # None /\ Acted =>
              /\ request' \in [call : Request, acted : BOOLEAN] \cup {None}
              /\ at' \in Stage
              /\ view' \in [Names -> GroupState \ {"partial"}]
              /\ playing' \in BOOLEAN
         /\ \A stage \in Stage : Going(stage) =>
              /\ request' \in [call : Request, acted : BOOLEAN] \cup {None}
              /\ at' \in Stage
              /\ view' \in [Names -> GroupState \ {"partial"}]
              /\ playing' \in BOOLEAN
         /\ StopPlayer => /\ player' \in {"absent", "alive", "ok", "error"}
                          /\ outcome' \in {None, "COMPLETED", "FAILED", "STOPPED"}
         /\ PolledOutcome \in {None, "COMPLETED", "FAILED", "STOPPED"}
         /\ ResetMonitor => heard' \in Modes \cup {None} /\ seen' \in Modes \cup {None}
         /\ Snapshot => heard' \in Modes \cup {None} /\ seen' \in Modes \cup {None}
<1> USE DEF TypeOK
<1>1. NoView \in [Names -> GroupState \ {"partial"}]
  BY DEF NoView, GroupState, Running
<1>2. Finish => /\ request' \in [call : Request, acted : BOOLEAN] \cup {None}
                /\ at' \in Stage
                /\ view' \in [Names -> GroupState \ {"partial"}]
                /\ playing' \in BOOLEAN
  BY <1>1 DEF Finish, Stage
<1>3. request # None /\ Acted =>
              /\ request' \in [call : Request, acted : BOOLEAN] \cup {None}
              /\ at' \in Stage
              /\ view' \in [Names -> GroupState \ {"partial"}]
              /\ playing' \in BOOLEAN
  BY DEF Acted, Stage
<1>4. \A stage \in Stage : Going(stage) =>
              /\ request' \in [call : Request, acted : BOOLEAN] \cup {None}
              /\ at' \in Stage
              /\ view' \in [Names -> GroupState \ {"partial"}]
              /\ playing' \in BOOLEAN
  BY DEF Going
<1>5. PolledOutcome \in {None, "COMPLETED", "FAILED", "STOPPED"}
  BY DEF PolledOutcome
<1>6. StopPlayer => /\ player' \in {"absent", "alive", "ok", "error"}
                    /\ outcome' \in {None, "COMPLETED", "FAILED", "STOPPED"}
  BY <1>5 DEF StopPlayer
<1>7. /\ ResetMonitor => heard' \in Modes \cup {None} /\ seen' \in Modes \cup {None}
      /\ Snapshot => heard' \in Modes \cup {None} /\ seen' \in Modes \cup {None}
  BY DEF ResetMonitor, Snapshot
<1>8. QED
  BY <1>2, <1>3, <1>4, <1>5, <1>6, <1>7


\* What NodeManager.start makes of the groups and, of the stack, of its orchestrator is well typed.
LEMMA StartsType ==
  ASSUME TypeOK, NEW n \in Names, NEW started \in BOOLEAN,
         ManagerStart(n, started) \/ UNCHANGED <<group, leftover, late, nodeVars>>
  PROVE  /\ group' \in [Names -> GroupState]
         /\ leftover' \in SUBSET Names
         /\ late' \in SUBSET (Names \cup {"PLAYER"})
         /\ mode' \in Modes
         /\ returnMode' \in Teleops \cup {None}
         /\ event' \in Modes \cup {None}
<1>1. CASE ManagerStart(n, started)
  <2>1. group' \in [Names -> GroupState]
    BY <1>1 DEF ManagerStart, TypeOK, GroupState, Running
  <2>2. leftover' \in SUBSET Names
    BY <1>1 DEF ManagerStart, TypeOK
  <2>3. late' \in SUBSET (Names \cup {"PLAYER"})
    BY <1>1 DEF ManagerStart, Notes, TypeOK
  <2>4. mode' \in Modes /\ returnMode' \in Teleops \cup {None} /\ event' \in Modes \cup {None}
    BY <1>1 DEF ManagerStart, TypeOK, Modes, nodeVars
  <2>5. QED
    BY <2>1, <2>2, <2>3, <2>4
<1>2. CASE UNCHANGED <<group, leftover, late, nodeVars>>
  BY <1>2 DEF TypeOK, nodeVars
<1>3. QED
  BY <1>1, <1>2

\* The lock is held exactly while a request is under way.
RequestHeld == (request = None) <=> (at = "idle")

LEMMA RequestType == TypeOK /\ RequestHeld /\ RequestStep => TypeOK'
<1> SUFFICES ASSUME TypeOK, RequestHeld, RequestStep PROVE TypeOK'
  OBVIOUS
<1> USE ServiceNames, StepsType, CallsType
    DEF managerVars, replayVars, nodeVars, monitorVars, requestVars, closeVars, RequestHeld
<1>1. CASE ManagerStatus
  BY <1>1 DEF ManagerStatus, TypeOK, Stage
<1>2. CASE ReconcileReplay
  <2>1. player' \in {"absent", "alive", "ok", "error"} /\ outcome' \in {None, "COMPLETED", "FAILED", "STOPPED"}
    BY <1>2 DEF ReconcileReplay, TypeOK
  <2>2. /\ group' \in [Names -> GroupState]
        /\ view' \in [Names -> GroupState \ {"partial"}]
    BY <1>2 DEF ReconcileReplay, TypeOK
  <2>3. heard' \in Modes \cup {None} /\ seen' \in Modes \cup {None}
    BY <1>2 DEF ReconcileReplay, TypeOK
  <2>4. playing' \in BOOLEAN
    BY <1>2, Zenon DEF ReconcileReplay, TypeOK
  <2>5. QED
    BY <1>2, <2>1, <2>2, <2>3, <2>4 DEF ReconcileReplay, TypeOK, Stage
<1>3. CASE HandleStackFailure
  <2>1. heard' \in Modes \cup {None} /\ seen' \in Modes \cup {None}
    BY <1>3 DEF HandleStackFailure, TypeOK
  <2>2. QED
    BY <1>3, <2>1 DEF HandleStackFailure, TypeOK, Stage
<1>4. CASE Verdict
  <2>1. /\ request' \in [call : Request, acted : BOOLEAN] \cup {None}
        /\ at' \in Stage
        /\ view' \in [Names -> GroupState \ {"partial"}]
        /\ playing' \in BOOLEAN
    <3>1. Finish \/ (at' \in {"roll_back", "act"} /\ UNCHANGED <<request, view, playing>>)
      BY <1>4, Zenon DEF Verdict
    <3>2. QED
      BY <3>1 DEF TypeOK, Stage
  <2>2. QED
    BY <1>4, <2>1 DEF Verdict, TypeOK
<1>5. ASSUME NEW r \in Runtimes, SetRuntime(r) PROVE TypeOK'
  <2>1. /\ runtime' \in Runtimes
        /\ Acted \/ Finish
    BY <1>5, Zenon DEF SetRuntime, TypeOK
  <2>2. request # None
    BY <1>5 DEF SetRuntime
  <2>3. QED
    BY <1>5, <2>1, <2>2 DEF SetRuntime, TypeOK
<1>6. ASSUME NEW n \in Names, NEW started \in BOOLEAN, Start(n, started) PROVE TypeOK'
  <2>1. /\ ManagerStart(n, started) \/ UNCHANGED <<group, leftover, late, nodeVars>>
        /\ Acted \/ Finish
        /\ handled' \in {handled, None}
    BY <1>6, Zenon DEF Start
  <2>2. request # None
    BY <1>6 DEF Start
  <2>3. /\ group' \in [Names -> GroupState]
        /\ leftover' \in SUBSET Names
        /\ late' \in SUBSET (Names \cup {"PLAYER"})
        /\ mode' \in Modes
        /\ returnMode' \in Teleops \cup {None}
        /\ event' \in Modes \cup {None}
    BY <2>1, StartsType
  <2>4. QED
    BY <1>6, <2>1, <2>2, <2>3 DEF Start, TypeOK
<1>7. ASSUME NEW n \in Teleops, StopTeleop(n) PROVE TypeOK'
  <2>1. event' \in Modes \cup {None}
    BY <1>7 DEF StopTeleop, TypeOK, Modes
  <2>2. Going("wait_idle") \/ Going("stop_teleop")
    BY <1>7, Zenon DEF StopTeleop
  <2>3. QED
    BY <1>7, <2>1, <2>2 DEF StopTeleop, TypeOK, Stage
<1>8. CASE WaitForIdle
  BY <1>8 DEF WaitForIdle, TypeOK, Stage
<1>9. CASE StopTeleopProcess
  <2>1. group' \in [Names -> GroupState] /\ request # None /\ Acted
    BY <1>9 DEF StopTeleopProcess, TypeOK
  <2>2. QED
    BY <1>9, <2>1 DEF StopTeleopProcess, TypeOK
<1>10. CASE StopStack
  <2>1. event' \in Modes \cup {None}
    BY <1>10 DEF StopStack, TypeOK, Modes
  <2>2. (Acted \/ Going("close_stack")) /\ request # None
    BY <1>10 DEF StopStack
  <2>3. QED
    BY <1>10, <2>1, <2>2 DEF StopStack, TypeOK, Stage
<1>11. CASE CloseStack
  <2>1. group' \in [Names -> GroupState] /\ request # None
    BY <1>11 DEF CloseStack, TypeOK
  <2>2. QED
    BY <1>11, <2>1 DEF CloseStack, TypeOK
<1>12. ASSUME NEW m \in Modes, RequestMode(m) PROVE TypeOK'
  <2>1. event' \in Modes \cup {None}
    BY <1>12 DEF RequestMode, TypeOK, Modes
  <2>2. (Acted \/ Finish) /\ request # None
    BY <1>12 DEF RequestMode
  <2>3. QED
    BY <1>12, <2>1, <2>2 DEF RequestMode, TypeOK
<1>13. ASSUME NEW valid \in BOOLEAN, NEW started \in BOOLEAN, StartReplay(valid, started) PROVE TypeOK'
  <2>1. /\ ManagerStart("REPLAY", started) \/ UNCHANGED <<group, leftover, late, nodeVars>>
        /\ Going("wait_ready") \/ Finish
    BY <1>13, Zenon DEF StartReplay
  <2>2. /\ group' \in [Names -> GroupState]
        /\ leftover' \in SUBSET Names
        /\ late' \in SUBSET (Names \cup {"PLAYER"})
        /\ mode' \in Modes
        /\ returnMode' \in Teleops \cup {None}
        /\ event' \in Modes \cup {None}
    BY <2>1, StartsType DEF Names
  <2>3. QED
    BY <1>13, <2>1, <2>2 DEF StartReplay, TypeOK, Stage
<1>14. ASSUME NEW ready \in BOOLEAN, WaitUntilReady(ready) PROVE TypeOK'
  BY <1>14 DEF WaitUntilReady, TypeOK, Stage
<1>15. ASSUME NEW spawned \in BOOLEAN, Play(spawned) PROVE TypeOK'
  <2>1. /\ player' \in {"alive", "absent"} /\ outcome' \in {None, "FAILED"}
        /\ Acted \/ Going("roll_back")
    BY <1>15, Zenon DEF Play
  <2>2. request # None
    BY <1>15 DEF Play
  <2>3. late' \in SUBSET (Names \cup {"PLAYER"})
    BY <1>15 DEF Play, Notes, TypeOK
  <2>4. QED
    <3>1. UNCHANGED <<managerVars, nodeVars, monitorVars, handled, closing>>
      BY <1>15 DEF Play
    <3>2. /\ request' \in [call : Request, acted : BOOLEAN] \cup {None}
          /\ at' \in Stage
          /\ view' \in [Names -> GroupState \ {"partial"}]
          /\ playing' \in BOOLEAN
      BY <2>1, <2>2 DEF Stage
    <3>3. /\ player' \in {"absent", "alive", "ok", "error"}
          /\ outcome' \in {None, "COMPLETED", "FAILED", "STOPPED"}
      BY <2>1
    <3>4. /\ runtime' \in Runtimes /\ group' \in [Names -> GroupState] /\ leftover' \in SUBSET Names
          /\ mode' \in Modes /\ returnMode' \in Teleops \cup {None} /\ event' \in Modes \cup {None}
          /\ heard' \in Modes \cup {None} /\ seen' \in Modes \cup {None}
          /\ handled' \in {None, "failing", "failed"}
          /\ closing' \in {"open", "status", "look", "close", "players", "closed"}
      BY <3>1 DEF TypeOK
    <3>5. QED
      BY <2>3, <3>2, <3>3, <3>4 DEF TypeOK
<1>16. CASE RollBack
  <2>1. /\ player' \in {"absent", "alive", "ok", "error"}
        /\ outcome' \in {None, "COMPLETED", "FAILED", "STOPPED"}
    BY <1>16 DEF RollBack, TypeOK
  <2>2. group' \in [Names -> GroupState]
    BY <1>16 DEF RollBack, TypeOK
  <2>3. Finish /\ ResetMonitor
    BY <1>16 DEF RollBack
  <2>4. QED
    BY <1>16, <2>1, <2>2, <2>3 DEF RollBack, TypeOK
<1>17. CASE StopReplay
  BY <1>17 DEF StopReplay, TypeOK
<1>18. QED
  BY <1>1, <1>2, <1>3, <1>4, <1>5, <1>6, <1>7, <1>8, <1>9, <1>10, <1>11, <1>12, <1>13, <1>14,
     <1>15, <1>16, <1>17 DEF RequestStep

LEMMA ServiceType == TypeOK /\ RequestHeld /\ [Next]_vars => TypeOK'
<1> SUFFICES ASSUME TypeOK, RequestHeld, [Next]_vars PROVE TypeOK'
  OBVIOUS
<1> USE DEF managerVars, replayVars, nodeVars, monitorVars, requestVars, closeVars
<1>1. CASE Environment
  BY <1>1, EnvironmentType
<1>2. ASSUME NEW call \in Request, Receive(call) PROVE TypeOK'
  BY <1>2 DEF Receive, TypeOK, Stage
<1>3. CASE RequestStep
  BY <1>3, RequestType
<1>4. CASE Close
  BY <1>4, StepsType DEF Close, TypeOK
<1>5. CASE CloseStep
  <2>1. CASE CloseStatus
    BY <2>1 DEF CloseStatus, TypeOK, GroupState, Running
  <2>2. CASE CloseLook
    BY <2>2 DEF CloseLook, TypeOK, Modes
  <2>3. CASE CloseManager
    <3>1. group' \in [Names -> GroupState]
      BY <2>3, CallsType DEF CloseManager, TypeOK
    <3>2. heard' = None /\ seen' = None
      BY <2>3 DEF CloseManager, ResetMonitor
    <3>3. QED
      BY <2>3, <3>1, <3>2 DEF CloseManager, TypeOK
  <2>4. CASE ClosePlayers
    BY <2>4, StepsType DEF ClosePlayers, TypeOK
  <2>5. QED
    BY <1>5, <2>1, <2>2, <2>3, <2>4 DEF CloseStep
<1>6. CASE UNCHANGED vars
  BY <1>6 DEF vars, TypeOK
<1>7. QED
  BY <1>1, <1>2, <1>3, <1>4, <1>5, <1>6 DEF Next


-----------------------------------------------------------------------------
(* The inductive invariant: what a request may rely on at each of its stages. *)

\* The request has looked at the processes, and acts on what it saw.
Judging == at \in {"reconcile", "failure", "verdict"} \/ (at = "act" /\ Call.op # "stop_replay")

\* What runs now was running when the request looked: the lock keeps others from starting
\* anything, and what dies does not come back.
ViewCoversTheRunning == Judging => \A n \in Names : RunningNow(n) => Runs(view, n)

\* Once the replay is reconciled it is whole, or it is gone.
ReconciledReplay ==
    (Judging /\ at # "reconcile" /\ ~playing) => player # "alive" /\ ~RunningNow("REPLAY")

\* Neither do the nodes of a replay run nor does its player live.
NoReplay == ~RunningNow("REPLAY") /\ player # "alive"

\* A stack that was seen to run had no replay beside it.
StackSeenAlone == Judging /\ Runs(view, "STACK") => NoReplay

\* A replay is being started only where nothing else runs.
ReplayStartsAlone == at \in {"wait_ready", "play"} => \A n \in Names \ {"REPLAY"} : ~RunningNow(n)

\* The stack is closed after the player.
PlayerStopsFirst == at = "close_stack" => player # "alive"

\* No request names the replay's nodes.
NoRequestForReplayNodes == at # "idle" => Call.name # "REPLAY"

\* Beside a replay nothing else runs, as the process manager means it.
ReplayExcludes == \A n \in Names \ {"REPLAY"} : RunningNow(n) => NoReplay

\* What close() has been through is stopped, or was started since close() began.
LateOnly ==
    closing # "open" =>
        /\ player = "alive" => "PLAYER" \in late
        /\ closing \in {"players", "closed"} => \A n \in Names : RunningNow(n) => n \in late

\* A group that has failed and is being shut down.
Ending(n) == group[n] = "failing" \/ n \in leftover

\* Only the stack is left to a shutdown of its own, and once close() has begun the replay;
\* a teleop is one process, which does not die in part.
OnlyStacksEnd ==
    /\ \A n \in Names : Ending(n) => n = "STACK" \/ (n = "REPLAY" /\ closing # "open")
    /\ \A n \in Teleops : group[n] # "partial"

IInv == TypeOK /\ RequestHeld /\ ViewCoversTheRunning /\ ReconciledReplay /\ StackSeenAlone
        /\ ReplayStartsAlone /\ PlayerStopsFirst /\ NoRequestForReplayNodes /\ ReplayExcludes
        /\ LateOnly /\ OnlyStacksEnd


LEMMA InitIInv == Init => IInv
<1> SUFFICES ASSUME Init PROVE IInv
  OBVIOUS
<1>1. TypeOK
  BY InitType
<1>2. QED
  BY <1>1 DEF Init, IInv, RequestHeld, Judging, ViewCoversTheRunning, ReconciledReplay,
     StackSeenAlone, NoReplay, ReplayStartsAlone, PlayerStopsFirst, NoRequestForReplayNodes,
     ReplayExcludes, LateOnly, OnlyStacksEnd, Ending, Names, RunningNow, Runs, Running

\* The step starts nothing.
Losing == (\A n \in Names : RunningNow(n)' => RunningNow(n)) /\ (player' = "alive" => player = "alive")

\* The step fails no group that had not failed before.
FailsNone ==
    \A n \in Names : /\ group'[n] \in {"failing", "partial"} => group[n] = group'[n]
                     /\ n \in leftover' => Ending(n)

\* Looking at the groups and stopping some of them starts nothing.
LEMMA CallsLose ==
  ASSUME NEW groups \in [Names -> GroupState], NEW names, NEW n \in Names
  PROVE  /\ Runs(StatusOf(groups), n) => Runs(groups, n)
         /\ Runs(StopAll(groups, names), n) => Runs(groups, n) /\ n \notin names
         /\ Runs(StatusOf(StopAll(groups, names)), n) => Runs(groups, n) /\ n \notin names
  BY DEF StatusOf, StopAll, Runs, Running

LEMMA StopPlayerLoses == StopPlayer => player' # "alive"
  BY DEF StopPlayer

\* Nothing outside starts a process or a player, nor does it touch the request; only the
\* stack's startup thread fails a group.
LEMMA EnvironmentLoses ==
  TypeOK /\ OnlyStacksEnd /\ Environment => Losing /\ OnlyStacksEnd' /\ UNCHANGED <<requestVars, closeVars>>
<1> SUFFICES ASSUME TypeOK, OnlyStacksEnd, Environment
             PROVE  Losing /\ OnlyStacksEnd' /\ UNCHANGED <<requestVars, closeVars>>
  OBVIOUS
<1> USE DEF TypeOK, Losing, OnlyStacksEnd, Ending, RunningNow, Runs, Running, managerVars, replayVars,
    closeVars
<1>1. ASSUME NEW n \in Names, ProcessDies(n) \/ GroupEnds(n)
      PROVE  Losing /\ OnlyStacksEnd' /\ UNCHANGED <<requestVars, closeVars>>
  <2>1. group' \in {[group EXCEPT ![n] = "failed"], [group EXCEPT ![n] = "stopped"]}
        \/ (group' = [group EXCEPT ![n] = "partial"] /\ n \notin Teleops)
    BY <1>1, Zenon DEF ProcessDies, GroupEnds
  <2>2. RunningNow(n) /\ UNCHANGED <<leftover, player, requestVars, closing, late>>
    BY <1>1 DEF ProcessDies, GroupEnds
  <2>3. QED
    BY <2>1, <2>2 DEF Names
<1>2. CASE StartupSucceeds
  BY <1>2 DEF StartupSucceeds, Names
<1>3. CASE StartupFails
  BY <1>3 DEF StartupFails, Names
<1>4. ASSUME NEW n \in Names, ShutdownEnds(n)
      PROVE  Losing /\ OnlyStacksEnd' /\ UNCHANGED <<requestVars, closeVars>>
  <2>1. /\ leftover' \subseteq leftover
        /\ \A m \in Names : group'[m] \in {group[m], "failed"}
        /\ UNCHANGED <<runtime, replayVars, nodeVars, monitorVars, requestVars, closeVars>>
    BY <1>4 DEF ShutdownEnds
  <2>2. Losing
    BY <2>1
  <2>3. OnlyStacksEnd'
    <3>1. \A m \in Names : Ending(m)' => Ending(m)
      BY <2>1
    <3>2. \A m \in Teleops : group'[m] # "partial"
      BY <2>1 DEF Names
    <3>3. QED
      BY <2>1, <3>1, <3>2
  <2>4. QED
    BY <2>1, <2>2, <2>3
<1>5. ASSUME NEW exit \in {"ok", "error"}, PlayerEnds(exit)
      PROVE  Losing /\ OnlyStacksEnd' /\ UNCHANGED <<requestVars, closeVars>>
  BY <1>5 DEF PlayerEnds
<1>6. CASE HandleEvent
  BY <1>6 DEF HandleEvent
<1>7. CASE HomingCompletes
  BY <1>7 DEF HomingCompletes
<1>8. ASSUME NEW m \in Modes, Broadcast(m)
      PROVE  Losing /\ OnlyStacksEnd' /\ UNCHANGED <<requestVars, closeVars>>
  BY <1>8 DEF Broadcast
<1>9. CASE ModeExpires
  BY <1>9 DEF ModeExpires
<1>10. QED
  BY <1>1, <1>2, <1>3, <1>4, <1>5, <1>6, <1>7, <1>8, <1>9 DEF Environment

\* What a request relies on outlives every step, beside it, that only loses.
LEMMA LosingKeeps ==
  ASSUME IInv, Losing, UNCHANGED requestVars
  PROVE  RequestHeld' /\ ViewCoversTheRunning' /\ ReconciledReplay' /\ StackSeenAlone'
         /\ ReplayStartsAlone' /\ PlayerStopsFirst' /\ NoRequestForReplayNodes' /\ ReplayExcludes'
<1> USE DEF IInv, Losing, requestVars
<1>1. RequestHeld' /\ NoRequestForReplayNodes' /\ PlayerStopsFirst' /\ (Judging' <=> Judging)
  BY DEF RequestHeld, NoRequestForReplayNodes, PlayerStopsFirst, Judging, Call
<1>2. NoReplay => NoReplay'
  BY DEF NoReplay, Names
<1>3. ViewCoversTheRunning' /\ StackSeenAlone'
  BY <1>1, <1>2 DEF ViewCoversTheRunning, StackSeenAlone, RunningNow, Runs
<1>4. ReconciledReplay' /\ ReplayStartsAlone' /\ ReplayExcludes'
  BY <1>1, <1>2 DEF ReconciledReplay, ReplayStartsAlone, ReplayExcludes, Names
<1>5. QED
  BY <1>1, <1>3, <1>4

\* The end of a request, its last status() and a step onwards keep what it holds.
LEMMA StagesHold ==
  ASSUME TypeOK, RequestHeld, NoRequestForReplayNodes, at # "idle"
  PROVE  /\ Finish => request' = None /\ at' = "idle"
         /\ Acted => /\ RequestHeld' /\ NoRequestForReplayNodes' /\ at' = "manager"
                     /\ Call' = Call
         /\ \A stage \in Stage \ {"idle"} : Going(stage) =>
              /\ RequestHeld' /\ NoRequestForReplayNodes' /\ at' = stage
              /\ Call' = Call /\ view' = view /\ playing' = playing
<1>1. request \in [call : Request, acted : BOOLEAN] /\ request # None
  BY DEF TypeOK, RequestHeld
<1>2. Finish => request' = None /\ at' = "idle"
  BY DEF Finish
<1>3. Acted => /\ RequestHeld' /\ NoRequestForReplayNodes' /\ at' = "manager"
               /\ Call' = Call
  <2>1. SUFFICES ASSUME Acted
                 PROVE  RequestHeld' /\ NoRequestForReplayNodes' /\ at' = "manager" /\ Call' = Call
    OBVIOUS
  <2>2. at' = "manager" /\ Call' = Call /\ request' \in [call : Request, acted : BOOLEAN]
    BY <1>1, <2>1 DEF Acted, Call
  <2>3. QED
    BY <2>2, NoneIsNoRequest DEF RequestHeld, NoRequestForReplayNodes
<1>4. \A stage \in Stage \ {"idle"} : Going(stage) =>
              /\ RequestHeld' /\ NoRequestForReplayNodes' /\ at' = stage
              /\ Call' = Call /\ view' = view /\ playing' = playing
  BY <1>1 DEF Going, RequestHeld, NoRequestForReplayNodes, Call
<1>5. QED
  BY <1>2, <1>3, <1>4

\* What a request relies on, as it is at the stages that are not a start.
Held == RequestHeld /\ ViewCoversTheRunning /\ ReconciledReplay /\ StackSeenAlone /\ ReplayStartsAlone
        /\ PlayerStopsFirst /\ NoRequestForReplayNodes /\ ReplayExcludes

\* At these stages a request relies on nothing.
LEMMA FreeStages ==
  ASSUME at' \in {"idle", "manager", "wait_idle", "stop_teleop", "roll_back"},
         RequestHeld', NoRequestForReplayNodes', ReplayExcludes'
  PROVE  Held'
  BY DEF Held, Judging, ViewCoversTheRunning, ReconciledReplay, StackSeenAlone, ReplayStartsAlone,
     PlayerStopsFirst

\* A request that ends or has acted relies on nothing any more.
LEMMA EndsHold ==
  ASSUME TypeOK, RequestHeld, NoRequestForReplayNodes, at # "idle", Acted \/ Finish,
         ReplayExcludes'
  PROVE  Held'
<1>1. CASE Acted
  BY <1>1, StagesHold, FreeStages
<1>2. CASE Finish
  <2>1. request' = None /\ at' = "idle"
    BY <1>2, StagesHold
  <2>2. RequestHeld' /\ NoRequestForReplayNodes'
    BY <2>1 DEF RequestHeld, NoRequestForReplayNodes
  <2>3. QED
    BY <2>1, <2>2, FreeStages
<1>3. QED
  BY <1>1, <1>2

\* What only loses keeps a replay and the others apart, the seen stack included as long as
\* the view of it stays.
LEMMA LosingExcludes ==
  IInv /\ Losing => /\ ReplayExcludes'
                    /\ Judging /\ (Runs(view', "STACK") => Runs(view, "STACK")) => StackSeenAlone'
  BY DEF IInv, Losing, ReplayExcludes, StackSeenAlone, NoReplay, Names


\* status(), up to its verdict.
LEMMA StatusHolds == IInv /\ (ManagerStatus \/ ReconcileReplay \/ HandleStackFailure \/ Verdict) => Held'
<1> SUFFICES ASSUME IInv, ManagerStatus \/ ReconcileReplay \/ HandleStackFailure \/ Verdict
             PROVE  Held'
  OBVIOUS
<1>0. TypeOK /\ RequestHeld /\ NoRequestForReplayNodes /\ at # "idle"
  BY DEF IInv, ManagerStatus, ReconcileReplay, HandleStackFailure, Verdict
<1>1. CASE ManagerStatus
  <2>1. Losing
    BY <1>0, <1>1, CallsLose DEF ManagerStatus, TypeOK, Losing, RunningNow, Runs, replayVars
  <2>2. ViewCoversTheRunning' /\ StackSeenAlone'
    BY <1>1, <2>1, LosingExcludes
       DEF ManagerStatus, ViewCoversTheRunning, StackSeenAlone, ReplayExcludes, RunningNow, Runs, Names
  <2>3. RequestHeld' /\ NoRequestForReplayNodes' /\ at' = "reconcile"
    BY <1>0, <1>1 DEF ManagerStatus, RequestHeld, NoRequestForReplayNodes, Call
  <2>4. QED
    BY <2>1, <2>2, <2>3, LosingExcludes
       DEF Held, ReconciledReplay, ReplayStartsAlone, PlayerStopsFirst
<1>2. CASE ReconcileReplay
  <2>1. RequestHeld' /\ NoRequestForReplayNodes' /\ at' = "failure"
    BY <1>0, <1>2 DEF ReconcileReplay, RequestHeld, NoRequestForReplayNodes, Call
  <2>2. Judging /\ \A n \in Names : RunningNow(n) => Runs(view, n)
    BY <1>2 DEF ReconcileReplay, Judging, IInv, ViewCoversTheRunning
  <2>3. CASE MustFailPlayer
    <3>1. player' = "absent" /\ UNCHANGED <<group, view>> /\ (playing' <=> FALSE)
      BY <1>2, <2>3 DEF ReconcileReplay
    <3>2. ~Runs(view, "REPLAY")
      BY <2>3 DEF MustFailPlayer, Runs, Running
    <3>3. Losing
      BY <3>1 DEF Losing, RunningNow, Runs
    <3>4. ~RunningNow("REPLAY")' /\ ViewCoversTheRunning'
      BY <2>2, <3>1, <3>2 DEF Names, ViewCoversTheRunning, RunningNow, Runs
    <3>5. QED
      BY <2>1, <2>2, <3>1, <3>3, <3>4, LosingExcludes
         DEF Held, ReconciledReplay, ReplayStartsAlone, PlayerStopsFirst
  <2>4. CASE ~MustFailPlayer /\ MustStopReplayNodes
    <3>1. /\ player # "alive" /\ player' = "absent"
          /\ group' = StatusOf(StopAll(group, {"REPLAY"})) /\ view' = group'
      BY <1>2, <2>4 DEF ReconcileReplay, MustStopReplayNodes
    <3>2. Losing
      BY <1>0, <3>1, CallsLose DEF Losing, RunningNow, TypeOK, Runs
    <3>3. ~RunningNow("REPLAY")' /\ ViewCoversTheRunning'
      BY <1>0, <3>1, CallsLose DEF Names, ViewCoversTheRunning, RunningNow, TypeOK, Runs
    <3>4. StackSeenAlone'
      BY <3>1, <3>2, LosingExcludes DEF StackSeenAlone, ReplayExcludes, RunningNow, Runs, Names
    <3>5. QED
      BY <2>1, <3>1, <3>2, <3>3, <3>4, LosingExcludes
         DEF Held, ReconciledReplay, ReplayStartsAlone, PlayerStopsFirst
  <2>5. CASE ~MustFailPlayer /\ ~MustStopReplayNodes
    <3>1. /\ player' = IF player = "alive" THEN player ELSE "absent"
          /\ playing' <=> (player = "alive")
          /\ UNCHANGED <<group, view>>
      BY <1>2, <2>5, Zenon DEF ReconcileReplay
    <3>2. Losing
      BY <3>1 DEF Losing, RunningNow, Runs
    <3>3. player # "alive" => ~RunningNow("REPLAY")
      BY <2>2, <2>5 DEF MustStopReplayNodes, Names
    <3>4. ViewCoversTheRunning' /\ ReconciledReplay'
      BY <2>2, <3>1, <3>3 DEF ViewCoversTheRunning, ReconciledReplay, RunningNow, Runs
    <3>5. QED
      BY <2>1, <2>2, <3>1, <3>2, <3>4, LosingExcludes DEF Held, ReplayStartsAlone, PlayerStopsFirst
  <2>6. QED
    BY <2>3, <2>4, <2>5
<1>3. CASE HandleStackFailure
  <2>1. Losing /\ UNCHANGED <<group, player, request, view, playing>> /\ at = "failure" /\ at' = "verdict"
    BY <1>3 DEF HandleStackFailure, Losing, RunningNow, Runs, managerVars, replayVars
  <2>2. RequestHeld' /\ NoRequestForReplayNodes'
    BY <1>0, <2>1 DEF RequestHeld, NoRequestForReplayNodes, Call
  <2>3. ViewCoversTheRunning' /\ ReconciledReplay' /\ StackSeenAlone'
    BY <2>1
       DEF IInv, ViewCoversTheRunning, ReconciledReplay, StackSeenAlone, NoReplay, Judging, RunningNow, Runs
  <2>4. QED
    BY <2>1, <2>2, <2>3, LosingExcludes DEF Held, ReplayStartsAlone, PlayerStopsFirst
<1>4. CASE Verdict
  <2>1. Losing /\ UNCHANGED <<group, player>>
    BY <1>4 DEF Verdict, Losing, RunningNow, Runs, managerVars, replayVars
  <2>2. \/ Finish
        \/ at' \in {"roll_back", "act"} /\ UNCHANGED <<request, view, playing>>
    BY <1>4, Zenon DEF Verdict
  <2>3. CASE Finish
    BY <1>0, <2>1, <2>3, LosingExcludes, EndsHold
  <2>4. CASE at' \in {"roll_back", "act"} /\ UNCHANGED <<request, view, playing>>
    <3>1. RequestHeld' /\ NoRequestForReplayNodes'
      BY <1>0, <2>4 DEF RequestHeld, NoRequestForReplayNodes, Call
    <3>2. ViewCoversTheRunning' /\ ReconciledReplay' /\ StackSeenAlone'
      BY <1>4, <2>1, <2>4
         DEF Verdict, IInv, ViewCoversTheRunning, ReconciledReplay, StackSeenAlone, NoReplay, Judging,
             RunningNow, Runs
    <3>3. QED
      BY <2>1, <2>4, <3>1, <3>2, LosingExcludes DEF Held, ReplayStartsAlone, PlayerStopsFirst
  <2>5. QED
    BY <2>2, <2>3, <2>4
<1>5. QED
  BY <1>1, <1>2, <1>3, <1>4

\* The requests that start something.
LEMMA StartHolds ==
  ASSUME IInv, NEW n \in Names, NEW started \in BOOLEAN, Start(n, started) PROVE Held'
<1>1. TypeOK /\ RequestHeld /\ NoRequestForReplayNodes /\ at # "idle" /\ n # "REPLAY"
  BY DEF IInv, Start, NoRequestForReplayNodes
<1>2. Acted \/ Finish
  BY Zenon DEF Start
<1>3. player' = player
  BY DEF Start, replayVars
<1>4. CASE ~(MayStart(n) /\ ~RunningNow(n))
  <2>1. Losing
    BY <1>3, <1>4 DEF Start, Losing, RunningNow, Runs
  <2>2. QED
    BY <1>1, <1>2, <2>1, LosingExcludes, EndsHold
<1>5. CASE MayStart(n) /\ ~RunningNow(n)
  <2>1. \A m \in Names \ {n} : RunningNow(m)' <=> RunningNow(m)
    BY <1>1, <1>5 DEF Start, ManagerStart, TypeOK, RunningNow, Runs
  <2>2. CASE n = "STACK"
    <3>1. ~playing
      BY <1>5, <2>2 DEF MayStart
    <3>2. player # "alive" /\ ~RunningNow("REPLAY")
      BY <3>1 DEF IInv, ReconciledReplay, Judging, Start
    <3>3. ReplayExcludes'
      BY <1>1, <1>3, <2>1, <3>2 DEF ReplayExcludes, NoReplay, Names
    <3>4. QED
      BY <1>1, <1>2, <3>3, EndsHold
  <2>3. CASE n # "STACK"
    <3>1. NoReplay
      BY <1>5, <2>3 DEF MayStart, ReadyStack, IInv, StackSeenAlone, Judging, Start
    <3>2. ReplayExcludes'
      BY <1>1, <1>3, <2>1, <3>1 DEF ReplayExcludes, NoReplay, Names
    <3>3. QED
      BY <1>1, <1>2, <3>2, EndsHold
  <2>4. QED
    BY <2>2, <2>3
<1>6. QED
  BY <1>4, <1>5

LEMMA StartReplayHolds ==
  ASSUME IInv, NEW valid \in BOOLEAN, NEW started \in BOOLEAN, StartReplay(valid, started) PROVE Held'
<1>1. TypeOK /\ RequestHeld /\ NoRequestForReplayNodes /\ at # "idle"
  BY DEF IInv, StartReplay
<1>2. player' = player
  BY DEF StartReplay, replayVars
<1>3. CASE ~(MayStartReplay /\ valid /\ ~RunningNow("REPLAY"))
  <2>1. Losing /\ Finish
    BY <1>2, <1>3, Zenon DEF StartReplay, Losing, RunningNow, Runs
  <2>2. QED
    BY <1>1, <2>1, LosingExcludes, EndsHold
<1>4. CASE MayStartReplay /\ valid /\ ~RunningNow("REPLAY")
  <2>1. \A n \in Names : ~RunningNow(n)
    BY <1>4 DEF StartReplay, IInv, ViewCoversTheRunning, Judging, MayStartReplay, AnyRunning
  <2>2. \A n \in Names \ {"REPLAY"} : ~RunningNow(n)'
    BY <1>1, <1>4, <2>1 DEF StartReplay, ManagerStart, TypeOK, RunningNow, Runs
  <2>3. ReplayExcludes' /\ ReplayStartsAlone'
    BY <2>2 DEF ReplayExcludes, ReplayStartsAlone
  <2>4. Going("wait_ready") \/ Finish
    BY <1>4, Zenon DEF StartReplay
  <2>5. CASE Finish
    BY <1>1, <2>3, <2>5, EndsHold
  <2>6. CASE Going("wait_ready")
    <3>1. RequestHeld' /\ NoRequestForReplayNodes' /\ at' = "wait_ready"
      BY <1>1, <2>6, StagesHold DEF Stage
    <3>2. QED
      BY <2>3, <3>1
         DEF Held, ViewCoversTheRunning, ReconciledReplay, StackSeenAlone, Judging, PlayerStopsFirst
  <2>7. QED
    BY <2>4, <2>5, <2>6
<1>5. QED
  BY <1>3, <1>4

LEMMA PlayHolds == ASSUME IInv, NEW spawned \in BOOLEAN, Play(spawned) PROVE Held'
<1>1. TypeOK /\ RequestHeld /\ NoRequestForReplayNodes /\ at # "idle" /\ group' = group
  BY DEF IInv, Play, managerVars
<1>2. \A n \in Names \ {"REPLAY"} : ~RunningNow(n)
  BY DEF IInv, ReplayStartsAlone, Play
<1>3. ReplayExcludes'
  BY <1>1, <1>2 DEF ReplayExcludes, RunningNow, Runs
<1>4. Acted \/ Going("roll_back")
  BY Zenon DEF Play
<1>5. CASE Acted
  BY <1>1, <1>3, <1>5, EndsHold
<1>6. CASE Going("roll_back")
  BY <1>1, <1>3, <1>6, StagesHold, FreeStages DEF Stage
<1>7. QED
  BY <1>4, <1>5, <1>6


\* Every step of a request leaves the next one what that one relies on.
LEMMA RequestHolds == IInv /\ RequestStep => Held'
<1> SUFFICES ASSUME IInv, RequestStep PROVE Held'
  OBVIOUS
<1>0. TypeOK /\ RequestHeld /\ NoRequestForReplayNodes /\ at # "idle"
  BY DEF IInv, RequestStep, ManagerStatus, ReconcileReplay, HandleStackFailure, Verdict, SetRuntime, Start,
     StopTeleop, WaitForIdle, StopTeleopProcess, StopStack, CloseStack, RequestMode, StartReplay,
     WaitUntilReady, Play, RollBack, StopReplay
<1> USE DEF managerVars, replayVars
<1>1. CASE ManagerStatus \/ ReconcileReplay \/ HandleStackFailure \/ Verdict
  BY <1>1, StatusHolds
<1>2. ASSUME NEW r \in Runtimes, SetRuntime(r) PROVE Held'
  <2>1. Losing
    BY <1>2 DEF SetRuntime, Losing, RunningNow, Runs
  <2>2. Acted \/ Finish
    BY <1>2, Zenon DEF SetRuntime
  <2>3. QED
    BY <1>0, <2>1, <2>2, LosingExcludes, EndsHold
<1>3. ASSUME NEW n \in Names, NEW started \in BOOLEAN, Start(n, started) PROVE Held'
  BY <1>3, StartHolds
<1>4. ASSUME NEW n \in Teleops, StopTeleop(n) PROVE Held'
  <2>1. Losing
    BY <1>4 DEF StopTeleop, Losing, RunningNow, Runs
  <2>2. Going("wait_idle") \/ Going("stop_teleop")
    BY <1>4, Zenon DEF StopTeleop
  <2>3. QED
    BY <1>0, <2>1, <2>2, LosingExcludes, StagesHold, FreeStages DEF Stage
<1>5. CASE WaitForIdle
  <2>1. Losing /\ Going("stop_teleop")
    BY <1>5 DEF WaitForIdle, Losing, RunningNow, Runs
  <2>2. QED
    BY <1>0, <2>1, LosingExcludes, StagesHold, FreeStages DEF Stage
<1>6. CASE StopTeleopProcess
  <2>1. Losing /\ Acted
    BY <1>0, <1>6, CallsLose DEF StopTeleopProcess, Losing, RunningNow, TypeOK, Runs
  <2>2. QED
    BY <1>0, <2>1, LosingExcludes, EndsHold
<1>7. CASE StopStack
  <2>1. Losing /\ player' # "alive"
    BY <1>0, <1>7, CallsLose, StopPlayerLoses DEF StopStack, Losing, RunningNow, TypeOK, Runs
  <2>2. Acted \/ Going("close_stack")
    BY <1>7, Zenon DEF StopStack
  <2>3. CASE Acted
    BY <1>0, <2>1, <2>3, LosingExcludes, EndsHold
  <2>4. CASE Going("close_stack")
    <3>1. RequestHeld' /\ NoRequestForReplayNodes' /\ at' = "close_stack"
      BY <1>0, <2>4, StagesHold DEF Stage
    <3>2. QED
      BY <2>1, <3>1, LosingExcludes
         DEF Held, ViewCoversTheRunning, ReconciledReplay, StackSeenAlone, Judging, ReplayStartsAlone,
             PlayerStopsFirst
  <2>5. QED
    BY <2>2, <2>3, <2>4
<1>8. CASE CloseStack
  <2>1. Losing /\ Acted
    BY <1>0, <1>8, CallsLose DEF CloseStack, Losing, RunningNow, TypeOK, Runs
  <2>2. QED
    BY <1>0, <2>1, LosingExcludes, EndsHold
<1>9. ASSUME NEW m \in Modes, RequestMode(m) PROVE Held'
  <2>1. Losing
    BY <1>9 DEF RequestMode, Losing, RunningNow, Runs
  <2>2. Acted \/ Finish
    BY <1>9, Zenon DEF RequestMode
  <2>3. QED
    BY <1>0, <2>1, <2>2, LosingExcludes, EndsHold
<1>10. ASSUME NEW valid \in BOOLEAN, NEW started \in BOOLEAN, StartReplay(valid, started) PROVE Held'
  BY <1>10, StartReplayHolds
<1>11. ASSUME NEW ready \in BOOLEAN, WaitUntilReady(ready) PROVE Held'
  <2>1. Losing /\ at = "wait_ready" /\ UNCHANGED group
    BY <1>11 DEF WaitUntilReady, Losing, RunningNow, Runs
  <2>2. Going("play") \/ Going("roll_back")
    BY <1>11, Zenon DEF WaitUntilReady
  <2>3. RequestHeld' /\ NoRequestForReplayNodes' /\ at' \in {"play", "roll_back"}
    BY <1>0, <2>2, StagesHold DEF Stage
  <2>4. QED
    BY <2>1, <2>3, LosingExcludes
       DEF IInv, Held, ViewCoversTheRunning, ReconciledReplay, StackSeenAlone, Judging, ReplayStartsAlone,
           PlayerStopsFirst, RunningNow, Runs
<1>12. ASSUME NEW spawned \in BOOLEAN, Play(spawned) PROVE Held'
  BY <1>12, PlayHolds
<1>13. CASE RollBack \/ StopReplay
  <2>1. Losing
    BY <1>0, <1>13, CallsLose, StopPlayerLoses DEF RollBack, StopReplay, Losing, RunningNow, TypeOK, Runs
  <2>2. Acted \/ Finish
    BY <1>13 DEF RollBack, StopReplay
  <2>3. QED
    BY <1>0, <2>1, <2>2, LosingExcludes, EndsHold
<1>14. QED
  BY <1>1, <1>2, <1>3, <1>4, <1>5, <1>6, <1>7, <1>8, <1>9, <1>10, <1>11, <1>12, <1>13 DEF RequestStep

\* A request starts something by node_manager.start or by the player's start, and by
\* nothing else; whatever it does, it fails no group and leaves close() where it is.
LEMMA OnlyStartsStart ==
  ASSUME TypeOK, RequestStep
  PROVE  /\ FailsNone /\ closing' = closing
         /\ \/ Losing /\ late' = late
            \/ \E n \in Names, started \in BOOLEAN : Start(n, started)
            \/ \E valid, started \in BOOLEAN : StartReplay(valid, started)
            \/ \E spawned \in BOOLEAN : Play(spawned)
<1> USE DEF managerVars, replayVars, closeVars
<1>1. group \in [Names -> GroupState]
  BY DEF TypeOK
<1>2. ASSUME NEW n \in Names, NEW started \in BOOLEAN, ManagerStart(n, started) PROVE FailsNone
  BY <1>1, <1>2 DEF ManagerStart, FailsNone, Ending
<1>3. ASSUME NEW n \in Names, NEW started \in BOOLEAN, Start(n, started) PROVE FailsNone /\ closing' = closing
  <2>1. ManagerStart(n, started) \/ UNCHANGED <<group, leftover>>
    BY <1>3, Zenon DEF Start
  <2>2. QED
    BY <1>2, <1>3, <2>1 DEF Start, FailsNone, Ending
<1>4. ASSUME NEW valid \in BOOLEAN, NEW started \in BOOLEAN, StartReplay(valid, started)
      PROVE  FailsNone /\ closing' = closing
  <2>1. ManagerStart("REPLAY", started) \/ UNCHANGED <<group, leftover>>
    BY <1>4, Zenon DEF StartReplay
  <2>2. QED
    BY <1>2, <1>4, <2>1 DEF StartReplay, FailsNone, Ending, Names
<1>5. ASSUME NEW spawned \in BOOLEAN, Play(spawned) PROVE FailsNone /\ closing' = closing
  BY <1>5 DEF Play, FailsNone, Ending
<1>6. CASE /\ ~\E n \in Names, started \in BOOLEAN : Start(n, started)
           /\ ~\E valid, started \in BOOLEAN : StartReplay(valid, started)
           /\ ~\E spawned \in BOOLEAN : Play(spawned)
  <2>1. UNCHANGED <<leftover, closing, late>>
    BY <1>6 DEF RequestStep, ManagerStatus, ReconcileReplay, HandleStackFailure, Verdict, SetRuntime,
       StopTeleop, WaitForIdle, StopTeleopProcess, StopStack, CloseStack, RequestMode, WaitUntilReady,
       RollBack, StopReplay
  <2>2. \/ group' = group \/ group' = StatusOf(group) \/ group' = StopAll(group, {"REPLAY"})
        \/ group' = StatusOf(StopAll(group, {"REPLAY"})) \/ group' = StopAll(group, {Call.name})
        \/ group' = StopAll(group, Names)
    BY <1>6 DEF RequestStep, ManagerStatus, ReconcileReplay, HandleStackFailure, Verdict, SetRuntime,
       StopTeleop, WaitForIdle, StopTeleopProcess, StopStack, CloseStack, RequestMode, WaitUntilReady,
       RollBack, StopReplay
  <2>3. /\ \A n \in Names : RunningNow(n)' => RunningNow(n)
        /\ \A n \in Names : group'[n] \in {"failing", "partial"} => group[n] = group'[n]
    BY <1>1, <2>2, CallsLose DEF StatusOf, StopAll, RunningNow, Runs
  <2>4. player' = "alive" => player = "alive"
    BY <1>6, StopPlayerLoses
       DEF RequestStep, ManagerStatus, ReconcileReplay, HandleStackFailure, Verdict, SetRuntime,
           StopTeleop, WaitForIdle, StopTeleopProcess, StopStack, CloseStack, RequestMode, WaitUntilReady,
           RollBack, StopReplay
  <2>5. QED
    BY <2>1, <2>3, <2>4 DEF Losing, FailsNone, Ending
<1>7. QED
  BY <1>3, <1>4, <1>5, <1>6

\* What a request starts behind close() is noted.
LEMMA RequestsNote == IInv /\ RequestStep => LateOnly' /\ OnlyStacksEnd' /\ closing' = closing
<1> SUFFICES ASSUME IInv, RequestStep PROVE LateOnly' /\ OnlyStacksEnd' /\ closing' = closing
  OBVIOUS
<1>0. TypeOK /\ LateOnly /\ OnlyStacksEnd
  BY DEF IInv
<1>1. FailsNone /\ closing' = closing
  BY <1>0, OnlyStartsStart
<1>2. OnlyStacksEnd'
  BY <1>0, <1>1 DEF OnlyStacksEnd, FailsNone, Ending, Names
<1>3. LateOnly'
  <2>1. CASE Losing /\ late' = late
    BY <1>0, <1>1, <2>1 DEF LateOnly, Losing
  <2>2. ASSUME NEW n \in Names, NEW started \in BOOLEAN, Start(n, started) PROVE LateOnly'
    <3>1. player' = player
      BY <2>2 DEF Start, replayVars
    <3>2. ManagerStart(n, started) \/ UNCHANGED <<group, late>>
      BY <2>2, Zenon DEF Start
    <3>3. QED
      BY <1>0, <1>1, <3>1, <3>2 DEF ManagerStart, Notes, LateOnly, TypeOK, RunningNow, Runs
  <2>3. ASSUME NEW valid \in BOOLEAN, NEW started \in BOOLEAN, StartReplay(valid, started) PROVE LateOnly'
    <3>1. player' = player
      BY <2>3 DEF StartReplay, replayVars
    <3>2. ManagerStart("REPLAY", started) \/ UNCHANGED <<group, late>>
      BY <2>3, Zenon DEF StartReplay
    <3>3. QED
      BY <1>0, <1>1, <3>1, <3>2 DEF ManagerStart, Notes, LateOnly, TypeOK, RunningNow, Runs
  <2>4. ASSUME NEW spawned \in BOOLEAN, Play(spawned) PROVE LateOnly'
    BY <1>0, <1>1, <2>4 DEF Play, Notes, LateOnly, managerVars, RunningNow, Runs
  <2>5. QED
    BY <1>0, <2>1, <2>2, <2>3, <2>4, OnlyStartsStart
<1>4. QED
  BY <1>1, <1>2, <1>3

\* close() starts nothing.
LEMMA CloseLoses ==
  TypeOK /\ (Close \/ CloseStep) => Losing /\ UNCHANGED <<requestVars, late>>
<1> SUFFICES ASSUME TypeOK, Close \/ CloseStep PROVE Losing /\ UNCHANGED <<requestVars, late>>
  OBVIOUS
<1> USE DEF managerVars, replayVars
<1>1. CASE Close
  BY <1>1, StopPlayerLoses DEF Close, Losing, RunningNow, Runs
<1>2. CASE CloseStatus
  BY <1>2 DEF CloseStatus, Losing, RunningNow, TypeOK, Runs, Running
<1>3. CASE CloseLook
  BY <1>3 DEF CloseLook, Losing, RunningNow, Runs
<1>4. CASE CloseManager
  BY <1>4, CallsLose DEF CloseManager, Losing, RunningNow, TypeOK, Runs
<1>5. CASE ClosePlayers
  BY <1>5, StopPlayerLoses DEF ClosePlayers, Losing, RunningNow, Runs
<1>6. QED
  BY <1>1, <1>2, <1>3, <1>4, <1>5 DEF CloseStep

\* It stops what it finds running.
LEMMA CloseHolds == IInv /\ (Close \/ CloseStep) => Held' /\ LateOnly' /\ OnlyStacksEnd'
<1> SUFFICES ASSUME IInv, Close \/ CloseStep PROVE Held' /\ LateOnly' /\ OnlyStacksEnd'
  OBVIOUS
<1> USE DEF managerVars, replayVars
<1>0. TypeOK /\ LateOnly /\ OnlyStacksEnd
  BY DEF IInv
<1>1. Losing /\ UNCHANGED <<requestVars, late>>
  BY <1>0, CloseLoses
<1>2. Held'
  BY <1>1, LosingKeeps DEF Held
<1>3. LateOnly'
  <2>1. CASE Close
    BY <2>1, StopPlayerLoses DEF Close, LateOnly
  <2>2. CASE CloseStatus
    BY <1>0, <1>1, <2>2 DEF CloseStatus, LateOnly, Losing
  <2>3. CASE CloseLook
    BY <1>0, <1>1, <2>3 DEF CloseLook, NothingToStop, LateOnly, Losing, RunningNow
  <2>4. CASE CloseManager
    <3>1. \A n \in Names : ~RunningNow(n)'
      BY <1>0, <2>4, CallsLose DEF CloseManager, RunningNow, TypeOK, Runs
    <3>2. QED
      BY <1>0, <1>1, <2>4, <3>1 DEF CloseManager, LateOnly, Losing
  <2>5. CASE ClosePlayers
    BY <1>0, <1>1, <2>5 DEF ClosePlayers, LateOnly, Losing
  <2>6. QED
    BY <2>1, <2>2, <2>3, <2>4, <2>5 DEF CloseStep
<1>4. OnlyStacksEnd'
  <2>1. CASE CloseStatus
    <3>1. \A n \in Teleops : group[n] # "partial"
      BY <1>0 DEF OnlyStacksEnd
    <3>2. QED
      BY <1>0, <2>1, <3>1 DEF CloseStatus, OnlyStacksEnd, Ending, Names
  <2>2. CASE ~CloseStatus
    <3>1. FailsNone
      BY <1>0, <2>2 DEF Close, CloseStep, CloseLook, CloseManager, ClosePlayers, FailsNone, Ending, StopAll
    <3>2. closing' # "open"
      BY <2>2 DEF Close, CloseStep, CloseLook, CloseManager, ClosePlayers
    <3>3. QED
      BY <1>0, <3>1, <3>2 DEF OnlyStacksEnd, FailsNone, Ending, Names
  <2>3. QED
    BY <2>1, <2>2
<1>5. QED
  BY <1>2, <1>3, <1>4

LEMMA NextIInv == IInv /\ [Next]_vars => IInv'
<1> SUFFICES ASSUME IInv, [Next]_vars PROVE IInv'
  OBVIOUS
<1>1. TypeOK'
  BY ServiceType DEF IInv
<1>2. Held' /\ LateOnly' /\ OnlyStacksEnd'
  <2>1. CASE Environment
    <3>1. Losing /\ OnlyStacksEnd' /\ UNCHANGED <<requestVars, closeVars>>
      BY <2>1, EnvironmentLoses DEF IInv
    <3>2. QED
      BY <3>1, LosingKeeps DEF Held, IInv, LateOnly, Losing, closeVars
  <2>2. ASSUME NEW call \in Request, Receive(call) PROVE Held' /\ LateOnly' /\ OnlyStacksEnd'
    <3>1. /\ request' = [call |-> call, acted |-> FALSE]
          /\ at' \in {"act", "manager"} /\ (at' = "act" => call.op = "stop_replay")
          /\ UNCHANGED <<group, leftover, player, closing, late>>
          /\ call.name # "REPLAY"
      BY <2>2 DEF Receive, managerVars, replayVars, closeVars
    <3>2. request' \in [call : Request, acted : BOOLEAN] /\ Call' = call
      BY <3>1 DEF Call
    <3>3. RequestHeld' /\ NoRequestForReplayNodes' /\ ~Judging'
      BY <3>1, <3>2, NoneIsNoRequest DEF RequestHeld, NoRequestForReplayNodes, Judging
    <3>4. ReplayExcludes' /\ LateOnly' /\ OnlyStacksEnd'
      BY <3>1 DEF IInv, ReplayExcludes, NoReplay, LateOnly, OnlyStacksEnd, Ending, RunningNow, Runs
    <3>5. QED
      BY <3>1, <3>3, <3>4
         DEF Held, ViewCoversTheRunning, ReconciledReplay, StackSeenAlone, ReplayStartsAlone,
             PlayerStopsFirst
  <2>3. CASE RequestStep
    BY <2>3, RequestHolds, RequestsNote
  <2>4. CASE Close \/ CloseStep
    BY <2>4, CloseHolds
  <2>5. CASE UNCHANGED vars
    <3>1. Losing /\ UNCHANGED <<requestVars, closeVars, group, leftover>>
      BY <2>5 DEF vars, managerVars, replayVars, Losing, RunningNow, Runs
    <3>2. QED
      BY <3>1, LosingKeeps DEF Held, IInv, LateOnly, OnlyStacksEnd, Ending, Losing, closeVars
  <2>6. QED
    BY <2>1, <2>2, <2>3, <2>4, <2>5 DEF Next
<1>3. QED
  BY <1>1, <1>2 DEF IInv, Held

LEMMA Invariant == Spec => []IInv
  BY InitIInv, NextIInv, PTL DEF Spec


-----------------------------------------------------------------------------
(* The theorems.                                                           *)

\* The service's state has the types that the code gives it.
THEOREM TypeCorrect == Spec => []TypeOK
  BY Invariant, PTL DEF IInv

\* Where a replay's processes and others live side by side one of the two is a failed
\* group in its shutdown, for any teleops, runtimes and requests, also while the console
\* is being closed under a request (the checks of `running` in start_process and
\* start_replay, _require_ready_stack, and _reconcile_replay in status).
THEOREM ReplayMeetsOnlyTheEnding == Spec => []MeetOnlyInShutdown
<1>1. IInv => MeetOnlyInShutdown
  BY DEF IInv, ReplayExcludes, NoReplay, OnlyStacksEnd, Ending, MeetOnlyInShutdown, Lives, ReplayLives, Names
<1>2. QED
  BY <1>1, Invariant, PTL

\* What runs after close() was started by a request behind it, whatever request is under
\* way when close() begins and whichever come later (close, which takes no lock).
THEOREM CloseLeavesOnlyTheLate == Spec => []CloseStopsWhatItFound
<1>1. IInv => CloseStopsWhatItFound
  BY DEF IInv, LateOnly, CloseStopsWhatItFound
<1>2. QED
  BY <1>1, Invariant, PTL

\* Whoever starts the stack or a replay had the runtime in view, and has acknowledged it
\* where it is the real robot (_require_expected_configuration and
\* _require_real_hardware_acknowledgement, before node_manager.start).
THEOREM OperatorConfirms == Spec => OperatorConfirmedStart
<1> DEFINE Started == \A n \in {"STACK", "REPLAY"} : (~RunningNow(n) /\ RunningNow(n)') =>
                        /\ Call.expected = runtime
                        /\ (runtime = "REAL" => Call.acknowledged)
<1>1. IInv /\ [Next]_vars => [Started]_vars
  <2> SUFFICES ASSUME IInv, Next PROVE Started
    OBVIOUS
  <2> USE DEF managerVars
  <2>1. CASE Environment
    BY <2>1, EnvironmentLoses DEF IInv, Losing, Names
  <2>2. ASSUME NEW call \in Request, Receive(call) PROVE Started
    BY <2>2 DEF Receive, RunningNow, Runs
  <2>3. CASE RequestStep
    <3>1. CASE Losing \/ UNCHANGED group
      BY <3>1 DEF Names, Losing, RunningNow, Runs
    <3>2. ASSUME NEW n \in Names, NEW started \in BOOLEAN, Start(n, started) PROVE Started
      <4>1. \A m \in Names \ {n} : RunningNow(m)' <=> RunningNow(m)
        BY <3>2 DEF Start, ManagerStart, IInv, TypeOK, RunningNow, Runs
      <4>2. n # "REPLAY"
        BY <3>2 DEF Start, IInv, NoRequestForReplayNodes
      <4>3. CASE MayStart(n) /\ ~RunningNow(n)
        BY <4>1, <4>2, <4>3 DEF MayStart, Confirmed, Names
      <4>4. CASE ~(MayStart(n) /\ ~RunningNow(n))
        BY <3>2, <4>4 DEF Start, RunningNow, Runs
      <4>5. QED
        BY <4>3, <4>4
    <3>3. ASSUME NEW valid \in BOOLEAN, NEW started \in BOOLEAN, StartReplay(valid, started) PROVE Started
      <4>1. CASE MayStartReplay
        BY <4>1 DEF MayStartReplay, Confirmed
      <4>2. CASE ~MayStartReplay
        BY <3>3, <4>2 DEF StartReplay, RunningNow, Runs
      <4>3. QED
        BY <4>1, <4>2
    <3>4. QED
      BY <2>3, <3>1, <3>2, <3>3, OnlyStartsStart DEF IInv, Play
  <2>4. CASE Close \/ CloseStep
    <3>1. \A n \in Names : RunningNow(n)' => RunningNow(n)
      BY <2>4, CloseLoses DEF IInv, Losing
    <3>2. QED
      BY <3>1 DEF Names
  <2>5. QED
    BY <2>1, <2>2, <2>3, <2>4 DEF Next
<1>2. QED
  BY <1>1, Invariant, PTL DEF Spec, OperatorConfirmedStart

\* Stopping the stack stops all that runs under the console, the player first (_stop_stack).
THEOREM StackStopLeavesNothing == Spec => StackStopStopsAll
<1> DEFINE Stopped == (at \in {"act", "close_stack"} /\ at' = "manager" /\ Call.op = "stop"
                       /\ Call.name = "STACK") =>
                        /\ \A n \in Names : ~Runs(group', n)
                        /\ player' # "alive"
<1>1. IInv /\ [Next]_vars => [Stopped]_vars
  <2> SUFFICES ASSUME IInv, Next, at \in {"act", "close_stack"}, at' = "manager", Call.op = "stop",
                      Call.name = "STACK"
               PROVE  (\A n \in Names : ~Runs(group', n)) /\ player' # "alive"
    OBVIOUS
  <2>1. RequestStep
    <3>1. ~Environment /\ ~Close /\ ~CloseStep
      BY EnvironmentLoses, CloseLoses DEF IInv, requestVars
    <3>2. ~\E call \in Request : Receive(call)
      BY DEF IInv, RequestHeld, Receive
    <3>3. QED
      BY <3>1, <3>2 DEF Next
  <2>2. StopStack \/ CloseStack
    BY <2>1, ServiceNames
       DEF RequestStep, ManagerStatus, ReconcileReplay, HandleStackFailure, Verdict, SetRuntime, Start,
           StopTeleop, WaitForIdle, StopTeleopProcess, RequestMode, StartReplay, WaitUntilReady, Play,
           RollBack, StopReplay
  <2>3. CASE StopStack
    BY <2>3, StopPlayerLoses DEF StopStack, NothingToStop, Going
  <2>4. CASE CloseStack
    BY <2>4, CallsLose DEF CloseStack, IInv, TypeOK, PlayerStopsFirst, replayVars
  <2>5. QED
    BY <2>2, <2>3, <2>4
<1>2. QED
  BY <1>1, Invariant, PTL DEF Spec, StackStopStopsAll

=============================================================================

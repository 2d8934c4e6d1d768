------------------------- MODULE RecordingReplayProofs -------------------------
(***************************************************************************)
(* Proofs that every recorder is accounted for and that every replay is of   *)
(* what was recorded, for any number of recordings, events, starts of the    *)
(* stack and robots, and whatever the clock reads.                           *)
(***************************************************************************)
EXTENDS RecordingReplay, FiniteSetTheorems, WellFoundedInduction, TLAPS

-----------------------------------------------------------------------------
(* The least of some natural numbers.                                      *)

LEMMA LeastNatural ==
  ASSUME NEW T \in SUBSET Nat, T # {}
  PROVE  \E n \in T : \A k \in T : n <= k
<1> DEFINE R == OpToRel(<, Nat)
<1>1. IsWellFoundedOn(R, Nat)
  BY NatLessThanWellFounded
<1>2. \A x, y \in Nat : <<y, x>> \in R <=> y < x
  BY DEF OpToRel
<1> HIDE DEF R
<1>3. PICK n \in T : \A k \in T : ~ (<<k, n>> \in R)
  BY <1>1, WFMin
<1>4. QED
  <2>1. \A k \in T : k \in Nat /\ n \in Nat /\ ~(k < n)
    BY <1>2, <1>3
  <2>2. \A k \in T : n <= k
    BY <2>1
  <2>3. QED
    BY <2>2

-----------------------------------------------------------------------------
(* The inductive invariants.                                               *)

\* The node holds no recorder while it has none to hold, and the last report is of the one it holds.
HeldRecorder ==
    /\ at \in {"create", "spawn", "done", "ended"} => process = None
    /\ at = "wait" => process # None
    /\ process # None => status.file = process /\ recorder[process] # "unborn"
    /\ at = "wait" => recorder[process] # "records"
    /\ status.file # None => recorder[status.file] # "unborn"

LoggingInv == TypeOK /\ HeldRecorder /\ NoForgottenRecorder /\ StoppedIsComplete

\* A directory is prepared within a start, and belongs to one recording.
BundlesOnDisk ==
    /\ draft # None => at = "spawn"
    /\ \A r \in Recordings : bundle[r].dir # None => /\ bundle[r].dir \in taken /\ bundle[r].dir # draft
                                                     /\ recorder[r] # "unborn"

\* Events that still may lead to a directory: one that is answered, that waits, that is to be published.
One(condition) == IF condition THEN 1 ELSE 0
Preparing == One(at = "create" \/ (at = "spawn" /\ draft = None))
Waiting == One(event # None)
Asking == One(request \in {"mark_START", "mark_STOP", "publish_START", "publish_STOP"})

\* A directory answers an event, so that its time has always another suffix.
EventsBeforeDirectories ==
    /\ IsFiniteSet(taken)
    /\ Cardinality(taken) + Preparing + Waiting + Asking <= events

\* What is known of the player's end.
PlayerAccounted ==
    /\ player \in {"ok", "error"} => exit = player
    /\ player = "alive" => outcome = None /\ source # None

ReplayInv ==
    /\ ReplayTypeOK
    /\ BundlesOnDisk
    /\ EventsBeforeDirectories
    /\ PlayerAccounted
    /\ RecordingsKeptApart /\ ReplayFitsRecording /\ OutcomeIsHonest


-----------------------------------------------------------------------------
(* The types of the logger.                                                *)

\* What a report leaves behind.
LEMMA Published ==
  ASSUME TypeOK, NEW state \in LoggingState, NEW file \in Recordings \cup {None}, PublishStatus(state, file)
  PROVE  /\ status' \in Report /\ status'.state = state /\ status'.file = file
         /\ reports' \in Seq(Report) /\ Len(reports') <= MaxReports
<1>1. status' = [state |-> state, file |-> file] /\ reports' = Append(reports, status') /\ Len(reports) < MaxReports
  BY DEF PublishStatus
<1>2. status' \in Report /\ status'.state = state /\ status'.file = file
  BY <1>1 DEF Report
<1>3. reports' \in Seq(Report) /\ Len(reports') = Len(reports) + 1 /\ Len(reports) \in Nat /\ MaxReports \in Nat
  BY <1>1, <1>2, LoggingAssumption DEF TypeOK
<1>4. QED
  BY <1>1, <1>2, <1>3

LEMMA SnapshotTyped ==
  ASSUME TypeOK, Snapshot
  PROVE  mailbox' \in Report \cup {None} /\ shown' \in LoggingState /\ pending' \in BOOLEAN
<1>1. CASE mailbox = None
  BY <1>1 DEF Snapshot, monitorVars, TypeOK
<1>2. CASE mailbox # None
  <2>1. mailbox \in Report
    BY <1>2 DEF TypeOK
  <2>2. mailbox.state \in LoggingState
    BY <2>1 DEF Report
  <2>3. mailbox' = None /\ shown' = mailbox.state /\ pending' \in BOOLEAN
    BY <1>2 DEF Snapshot
  <2>4. QED
    BY <2>2, <2>3
<1>3. QED
  BY <1>1, <1>2

LEMMA NodeStepTyped ==
  ASSUME LoggingInv, NodeStep \/ Interrupt
  PROVE  TypeOK'
<1> USE DEF LoggingInv, TypeOK, Stages, nodeFrame, monitorVars
<1>1. CASE ReportUnexpectedExit
  <2>1. CASE process # None /\ Exited(process)
    <3>1. status.file \in Recordings \cup {None} /\ "FAILED" \in LoggingState
      BY DEF Report, LoggingState
    <3>2. QED
      BY <1>1, <2>1, <3>1, Published DEF ReportUnexpectedExit
  <2>2. CASE ~(process # None /\ Exited(process))
    BY <1>1, <2>2 DEF ReportUnexpectedExit
  <2>3. QED
    BY <2>1, <2>2
<1>2. CASE ReceiveEvent
  BY <1>2 DEF ReceiveEvent
<1>3. CASE CreateRecording
  <2>1. "STARTING" \in LoggingState /\ PublishStatus("STARTING", None)
    BY <1>3 DEF CreateRecording, LoggingState
  <2>2. QED
    BY <1>3, <2>1, Published DEF CreateRecording
<1>4. CASE StartFails
  <2>1. "FAILED" \in LoggingState /\ PublishStatus("FAILED", None)
    BY <1>4 DEF StartFails, LoggingState
  <2>2. QED
    BY <1>4, <2>1, Published DEF StartFails
<1>5. ASSUME NEW r \in Recordings, NEW alive \in BOOLEAN, Spawn(r, alive)
      PROVE  TypeOK'
  <2> DEFINE state == IF alive THEN "RUNNING" ELSE "FAILED"
  <2>1. state \in LoggingState /\ PublishStatus(state, r)
    BY <1>5 DEF Spawn, LoggingState
  <2>2. status' \in Report /\ reports' \in Seq(Report) /\ Len(reports') <= MaxReports
    BY <2>1, Published
  <2>3. recorder' \in [Recordings -> {"unborn", "records", "told", "clean", "broken"}] /\ process' \in Recordings \cup {None}
    BY <1>5 DEF Spawn
  <2>4. QED
    BY <1>5, <2>2, <2>3 DEF Spawn
<1>6. CASE StopNothing
  <2>1. "STOPPED" \in LoggingState /\ PublishStatus("STOPPED", None)
    BY <1>6 DEF StopNothing, LoggingState
  <2>2. QED
    BY <1>6, <2>1, Published DEF StopNothing, AfterStop
<1>7. CASE StopRecorder
  <2>1. "STOPPING" \in LoggingState /\ PublishStatus("STOPPING", status.file) /\ status.file \in Recordings \cup {None}
    BY <1>7 DEF StopRecorder, LoggingState, Report
  <2>2. recorder' \in [Recordings -> {"unborn", "records", "told", "clean", "broken"}]
    BY <1>7 DEF StopRecorder
  <2>3. QED
    BY <1>7, <2>1, <2>2, Published DEF StopRecorder
<1>8. CASE RecorderEnded
  <2> DEFINE state == IF recorder[process] = "clean" THEN "STOPPED" ELSE "FAILED"
  <2>1. state \in LoggingState /\ PublishStatus(state, status.file) /\ status.file \in Recordings \cup {None}
    BY <1>8 DEF RecorderEnded, LoggingState, Report
  <2>2. status' \in Report /\ reports' \in Seq(Report) /\ Len(reports') <= MaxReports
    BY <2>1, Published
  <2>3. QED
    BY <1>8, <2>2 DEF RecorderEnded, AfterStop
<1>9. CASE RecorderKilled
  <2>1. "FAILED" \in LoggingState /\ PublishStatus("FAILED", status.file) /\ status.file \in Recordings \cup {None}
    BY <1>9 DEF RecorderKilled, LoggingState, Report
  <2>2. recorder' \in [Recordings -> {"unborn", "records", "told", "clean", "broken"}]
    BY <1>9 DEF RecorderKilled
  <2>3. QED
    BY <1>9, <2>1, <2>2, Published DEF RecorderKilled, AfterStop
<1>10. CASE NodeEnds
  BY <1>10 DEF NodeEnds
<1>11. CASE Interrupt
  BY <1>11 DEF Interrupt
<1>12. QED
  BY <1>1, <1>2, <1>3, <1>4, <1>5, <1>6, <1>7, <1>8, <1>9, <1>10, <1>11 DEF NodeStep

\* The steps that leave the node and the recorders alone, but for a start of the stack.
Around ==
    \/ \E kind \in Others : SomebodyPublishes(kind)
    \/ DeliverReport
    \/ Poll
    \/ PollExpired
    \/ \E kind \in {"START", "STOP"} : SetLogging(kind)
    \/ ConsoleStep
    \/ StopStack

LEMMA AroundTyped ==
  ASSUME TypeOK, Around \/ StartStack
  PROVE  TypeOK'
<1> USE DEF TypeOK, consoleFrame, nodeVars, monitorVars, Requests, Event
<1>1. ASSUME NEW kind \in Others, SomebodyPublishes(kind) PROVE TypeOK'
  <2>1. kind \in {"START", "STOP", "OTHER"} /\ MaxEvents \in Nat
    BY LoggingAssumption
  <2>2. QED
    BY <1>1, <2>1 DEF SomebodyPublishes, PublishEvent
<1>2. CASE DeliverReport
  <2>1. Head(reports) \in Report /\ Tail(reports) \in Seq(Report) /\ Len(Tail(reports)) = Len(reports) - 1 /\ Len(reports) \in Nat
    BY <1>2 DEF DeliverReport
  <2>2. Len(Tail(reports)) <= MaxReports
    BY <2>1, LoggingAssumption
  <2>3. QED
    BY <1>2, <2>1, <2>2 DEF DeliverReport
<1>3. CASE Poll
  BY <1>3, SnapshotTyped DEF Poll
<1>4. CASE PollExpired
  BY <1>4 DEF PollExpired, Expires, LoggingState
<1>5. ASSUME NEW kind \in {"START", "STOP"}, SetLogging(kind) PROVE TypeOK'
  <2>1. events' \in 0 .. MaxEvents
    BY <1>5, LoggingAssumption DEF SetLogging
  <2>2. request' \in Requests
    BY <1>5 DEF SetLogging
  <2>3. QED
    BY <1>5, <2>1, <2>2, SnapshotTyped DEF SetLogging
<1>6. CASE MarkRequested
  BY <1>6 DEF MarkRequested, SetPending, LoggingState
<1>7. CASE PublishRequest
  <2>1. event' \in Event \cup {None}
    BY <1>7 DEF PublishRequest, PublishEvent
  <2>2. QED
    BY <1>7, <2>1 DEF PublishRequest
<1>8. CASE PublishFails
  BY <1>8 DEF PublishFails, LoggingState
<1>9. CASE ReportBack
  BY <1>9, SnapshotTyped DEF ReportBack
<1>10. CASE StackStopped
  BY <1>10 DEF StackStopped, Reset, LoggingState
<1>11. CASE StopStack
  BY <1>11 DEF StopStack
<1>12. CASE StartStack
  <2>1. "STOPPED" \in LoggingState /\ PublishStatus("STOPPED", None)
    BY <1>12 DEF StartStack, LoggingState
  <2>2. starts' \in 0 .. MaxStarts
    BY <1>12, LoggingAssumption DEF StartStack
  <2>3. QED
    BY <1>12, <2>1, <2>2, Published DEF StartStack, Stages
<1>13. QED
  BY <1>1, <1>2, <1>3, <1>4, <1>5, <1>6, <1>7, <1>8, <1>9, <1>10, <1>11, <1>12 DEF Around, ConsoleStep

-----------------------------------------------------------------------------
(* The recorders.                                                          *)

Accounted == HeldRecorder /\ NoForgottenRecorder /\ StoppedIsComplete

\* None is no recording.
LEMMA NoneIsNoRecording == None \notin Recordings
  BY LoggingAssumption DEF Recordings

\* A recorder that exits is one that was running.
LEMMA RecorderExitsAccounted ==
  ASSUME LoggingInv, NEW r \in Recordings, NEW code \in {"clean", "broken"}, RecorderExits(r, code)
  PROVE  TypeOK' /\ Accounted'
<1>1. /\ recorder[r] \in {"records", "told"} /\ recorder' = [recorder EXCEPT ![r] = code]
      /\ UNCHANGED <<at, process, status, closing, event, events, starts, reports, mailbox, shown, pending, request>>
  BY DEF RecorderExits, Live, nodeVars, monitorVars
<1>2. recorder \in [Recordings -> {"unborn", "records", "told", "clean", "broken"}] /\ process \in Recordings \cup {None}
      /\ status.file \in Recordings \cup {None}
  BY DEF LoggingInv, TypeOK, Report
<1>3. /\ recorder'[r] = code /\ \A o \in Recordings : o # r => recorder'[o] = recorder[o]
      /\ recorder' \in [Recordings -> {"unborn", "records", "told", "clean", "broken"}]
  BY <1>1, <1>2
<1>4. TypeOK'
  BY <1>1, <1>3 DEF LoggingInv, TypeOK
<1>5. HeldRecorder'
  BY <1>1, <1>2, <1>3, NoneIsNoRecording DEF LoggingInv, HeldRecorder
<1>6. NoForgottenRecorder'
  BY <1>1, <1>2, <1>3 DEF LoggingInv, NoForgottenRecorder
<1>7. StoppedIsComplete'
  BY <1>1, <1>2, <1>3 DEF LoggingInv, StoppedIsComplete
<1>8. QED
  BY <1>4, <1>5, <1>6, <1>7 DEF Accounted

\* What the node does with its recorder.
LEMMA NodeStepAccounted ==
  ASSUME LoggingInv, NodeStep \/ Interrupt
  PROVE  Accounted'
<1>1. /\ recorder \in [Recordings -> {"unborn", "records", "told", "clean", "broken"}]
      /\ process \in Recordings \cup {None} /\ status.file \in Recordings \cup {None} /\ status \in Report
      /\ None \notin Recordings /\ TypeOK
  BY NoneIsNoRecording DEF LoggingInv, TypeOK, Report
<1>2. /\ at \in {"create", "spawn", "done", "ended"} => process = None
      /\ at = "wait" => process # None
      /\ process # None => status.file = process /\ recorder[process] # "unborn"
      /\ at = "wait" => recorder[process] # "records"
      /\ status.file # None => recorder[status.file] # "unborn"
      /\ \A r \in Recordings : recorder[r] = "records" => process = r
      /\ status.state = "STOPPED" /\ status.file # None => recorder[status.file] = "clean"
  BY DEF LoggingInv, HeldRecorder, NoForgottenRecorder, StoppedIsComplete
<1> USE DEF Accounted, HeldRecorder, NoForgottenRecorder, StoppedIsComplete
<1>3. CASE ReportUnexpectedExit
  <2>1. at = "check" /\ at' = "drain" /\ recorder' = recorder
    BY <1>3 DEF ReportUnexpectedExit
  <2>2. CASE process # None /\ Exited(process)
    <3>1. PublishStatus("FAILED", status.file) /\ process' = None
      BY <1>3, <2>2 DEF ReportUnexpectedExit
    <3>2. status'.state = "FAILED" /\ status'.file = status.file
      BY <1>1, <3>1, Published DEF LoggingState
    <3>3. recorder[process] # "records"
      BY <2>2 DEF Exited
    <3>4. QED
      BY <1>1, <1>2, <2>1, <3>1, <3>2, <3>3
  <2>3. CASE ~(process # None /\ Exited(process))
    <3>1. UNCHANGED <<process, status>>
      BY <1>3, <2>3 DEF ReportUnexpectedExit
    <3>2. QED
      BY <1>1, <1>2, <2>1, <3>1
  <2>4. QED
    BY <2>2, <2>3
<1>4. CASE ReceiveEvent
  <2>1. /\ at = "drain" /\ UNCHANGED <<recorder, status>>
        /\ at' \in {"check", "create", "stop", "drain"}
        /\ at' = "create" => event # None /\ event = "START" /\ MayStart
        /\ process' = IF event = "START" /\ MayStart THEN None ELSE process
    BY <1>4 DEF ReceiveEvent
  <2>2. MayStart => process = None \/ recorder[process] # "records"
    BY DEF MayStart, Exited
  <2>3. QED
    BY <1>1, <1>2, <2>1, <2>2
<1>5. CASE CreateRecording
  <2>1. at = "create" /\ at' = "spawn" /\ UNCHANGED <<recorder, process>> /\ PublishStatus("STARTING", None)
    BY <1>5 DEF CreateRecording
  <2>2. status'.state = "STARTING" /\ status'.file = None
    BY <1>1, <2>1, Published DEF LoggingState
  <2>3. QED
    BY <1>1, <1>2, <2>1, <2>2
<1>6. CASE StartFails
  <2>1. at = "spawn" /\ at' = "drain" /\ UNCHANGED <<recorder, process>> /\ PublishStatus("FAILED", None)
    BY <1>6 DEF StartFails
  <2>2. status'.state = "FAILED" /\ status'.file = None
    BY <1>1, <2>1, Published DEF LoggingState
  <2>3. QED
    BY <1>1, <1>2, <2>1, <2>2
<1>7. ASSUME NEW r \in Recordings, NEW alive \in BOOLEAN, Spawn(r, alive)
      PROVE  Accounted'
  <2> DEFINE state == IF alive THEN "RUNNING" ELSE "FAILED"
  <2>1. /\ at = "spawn" /\ at' = "drain" /\ recorder[r] = "unborn"
        /\ recorder' = [recorder EXCEPT ![r] = IF alive THEN "records" ELSE "broken"]
        /\ process' = (IF alive THEN r ELSE None)
        /\ state \in LoggingState /\ PublishStatus(state, r)
    BY <1>7 DEF Spawn, LoggingState
  <2>2. status'.state = state /\ status'.file = r
    BY <1>1, <2>1, Published
  <2>3. recorder'[r] = (IF alive THEN "records" ELSE "broken") /\ \A o \in Recordings : o # r => recorder'[o] = recorder[o]
    BY <1>1, <2>1
  <2>4. QED
    BY <1>1, <1>2, <2>1, <2>2, <2>3
<1>8. CASE StopNothing
  <2>1. at = "stop" /\ process = None /\ at' \in {"done", "drain"} /\ UNCHANGED <<recorder, process>> /\ PublishStatus("STOPPED", None)
    BY <1>8 DEF StopNothing, AfterStop
  <2>2. status'.state = "STOPPED" /\ status'.file = None
    BY <1>1, <2>1, Published DEF LoggingState
  <2>3. QED
    BY <1>1, <1>2, <2>1, <2>2
<1>9. CASE StopRecorder
  <2>1. /\ at = "stop" /\ process # None /\ at' = "wait" /\ process' = process /\ PublishStatus("STOPPING", status.file)
        /\ recorder' = IF recorder[process] = "records" THEN [recorder EXCEPT ![process] = "told"] ELSE recorder
    BY <1>9 DEF StopRecorder
  <2>2. status'.state = "STOPPING" /\ status'.file = status.file
    BY <1>1, <2>1, Published DEF LoggingState
  <2>3. /\ \A o \in Recordings : o # process => recorder'[o] = recorder[o]
        /\ recorder'[process] = recorder[process] \/ recorder'[process] = "told"
        /\ recorder'[process] # "records"
    BY <1>1, <2>1
  <2>4. QED
    BY <1>1, <1>2, <2>1, <2>2, <2>3
<1>10. CASE RecorderEnded
  <2> DEFINE state == IF recorder[process] = "clean" THEN "STOPPED" ELSE "FAILED"
  <2>1. /\ at = "wait" /\ at' \in {"done", "drain"} /\ recorder' = recorder /\ process' = None
        /\ state \in LoggingState /\ PublishStatus(state, status.file)
    BY <1>10 DEF RecorderEnded, AfterStop, LoggingState
  <2>2. status'.state = state /\ status'.file = status.file
    BY <1>1, <2>1, Published
  <2>3. QED
    BY <1>1, <1>2, <2>1, <2>2
<1>11. CASE RecorderKilled
  <2>1. /\ at = "wait" /\ at' \in {"done", "drain"} /\ recorder' = [recorder EXCEPT ![process] = "broken"] /\ process' = None
        /\ PublishStatus("FAILED", status.file)
    BY <1>11 DEF RecorderKilled, AfterStop
  <2>2. status'.state = "FAILED" /\ status'.file = status.file
    BY <1>1, <2>1, Published DEF LoggingState
  <2>3. recorder'[process] = "broken" /\ \A o \in Recordings : o # process => recorder'[o] = recorder[o]
    BY <1>1, <1>2, <2>1
  <2>4. QED
    BY <1>1, <1>2, <2>1, <2>2, <2>3
<1>12. CASE NodeEnds
  <2>1. at = "done" /\ at' = "ended" /\ UNCHANGED <<recorder, process, status>>
    BY <1>12 DEF NodeEnds
  <2>2. QED
    BY <1>1, <1>2, <2>1
<1>13. CASE Interrupt
  <2>1. at' = "stop" /\ process' = (IF at = "wait" THEN None ELSE process) /\ UNCHANGED <<recorder, status>>
    BY <1>13 DEF Interrupt
  <2>2. QED
    BY <1>1, <1>2, <2>1
<1>14. QED
  BY <1>3, <1>4, <1>5, <1>6, <1>7, <1>8, <1>9, <1>10, <1>11, <1>12, <1>13 DEF NodeStep

LEMMA AroundAccounted ==
  ASSUME LoggingInv, Around \/ StartStack
  PROVE  Accounted'
<1>1. CASE Around
  <2>1. UNCHANGED <<recorder, at, process, status>>
    BY <1>1 DEF Around, SomebodyPublishes, DeliverReport, Poll, PollExpired, SetLogging, ConsoleStep, MarkRequested,
                PublishRequest, PublishFails, ReportBack, StackStopped, StopStack, consoleFrame, nodeVars
  <2>2. QED
    BY <2>1 DEF LoggingInv, Accounted, HeldRecorder, NoForgottenRecorder, StoppedIsComplete
<1>2. CASE StartStack
  <2>1. at = "ended" /\ at' = "check" /\ recorder' = recorder /\ process' = None /\ PublishStatus("STOPPED", None)
    BY <1>2 DEF StartStack
  <2>2. status'.state = "STOPPED" /\ status'.file = None
    BY <2>1, Published DEF LoggingState, LoggingInv
  <2>3. QED
    BY <2>1, <2>2 DEF LoggingInv, Accounted, HeldRecorder, NoForgottenRecorder, StoppedIsComplete
<1>3. QED
  BY <1>1, <1>2

LEMMA LoggingStart == Init => LoggingInv
<1> SUFFICES ASSUME Init PROVE LoggingInv
  OBVIOUS
<1>1. status \in Report /\ status.state = "STOPPED" /\ status.file = None
  BY DEF Init, Report, LoggingState
<1>2. TypeOK
  <2>1. recorder \in [Recordings -> {"unborn", "records", "told", "clean", "broken"}]
    BY DEF Init
  <2>2. events \in 0 .. MaxEvents /\ starts \in 0 .. MaxStarts
    BY LoggingAssumption DEF Init
  <2>3. reports \in Seq(Report) /\ Len(reports) <= MaxReports
    BY LoggingAssumption DEF Init
  <2>4. QED
    BY <1>1, <2>1, <2>2, <2>3 DEF Init, TypeOK, Stages, Requests, LoggingState
<1>3. HeldRecorder /\ NoForgottenRecorder /\ StoppedIsComplete
  BY <1>1 DEF Init, HeldRecorder, NoForgottenRecorder, StoppedIsComplete
<1>4. QED
  BY <1>2, <1>3 DEF LoggingInv

LEMMA LoggingKeeps == LoggingInv /\ [Next]_vars => LoggingInv'
<1> SUFFICES ASSUME LoggingInv, [Next]_vars PROVE LoggingInv'
  OBVIOUS
<1>1. CASE NodeStep \/ Interrupt
  BY <1>1, NodeStepTyped, NodeStepAccounted DEF LoggingInv, Accounted
<1>2. CASE Around \/ StartStack
  BY <1>2, AroundTyped, AroundAccounted DEF LoggingInv, Accounted
<1>3. ASSUME NEW r \in Recordings, NEW code \in {"clean", "broken"}, RecorderExits(r, code) PROVE LoggingInv'
  BY <1>3, RecorderExitsAccounted DEF LoggingInv, Accounted
<1>4. CASE UNCHANGED vars
  BY <1>4 DEF vars, nodeVars, monitorVars, LoggingInv, TypeOK, HeldRecorder, NoForgottenRecorder, StoppedIsComplete
<1>5. QED
  BY <1>1, <1>2, <1>3, <1>4 DEF Next, Around

-----------------------------------------------------------------------------
(* The logger among bundles and replays.                                   *)

\* A step of bundles, recordings and replays is one of the logger and its console, or leaves them.
LEMMA StepIsLogging == [ReplayNext]_allVars => [Next]_vars
  BY DEF ReplayNext, LoggerStep, BundleStep, SpawnInBundle, PrepareBundle, LoggingStep, ReplayStep, StartReplay, PlayerEnds,
         PollReplay, StopPlayer, SetRobot, replayFrame, allVars, Next, NodeStep

\* Every behaviour with bundles and replays is one of the logger and its console: what is
\* proved of those holds of it.
THEOREM ReplayIsLogging == ReplaySpec => Spec
<1>1. ReplayInit => Init
  BY DEF ReplayInit
<1>2. QED
  BY <1>1, StepIsLogging, PTL DEF ReplaySpec, Spec

\* The types of the logger, and what it holds of its recorders.
THEOREM LoggingInvariant == ReplaySpec => []LoggingInv
  BY LoggingStart, LoggingKeeps, ReplayIsLogging, PTL DEF Spec

\* No recorder is forgotten and no recording reported as stopped is incomplete, through double
\* starts, failing starts, interrupted stops and restarts of the stack (RobotLoggerNode).
THEOREM EveryRecorderIsAccounted == ReplaySpec => []RecordersAreAccounted
<1>1. LoggingInv => RecordersAreAccounted
  BY DEF LoggingInv, RecordersAreAccounted
<1>2. QED
  BY <1>1, LoggingInvariant, PTL

-----------------------------------------------------------------------------
(* What the node and the console know of a recording's end.                *)

\* Between two events the node holds the recorder that it reports as running.
RunningIsHeld ==
    status.state = "RUNNING" /\ at \in {"check", "drain"} => process = status.file /\ process # None

\* The steps of the node that report, those that do not, and what they lead to.
LEMMA NodeHoldsWhatRuns ==
  ASSUME LoggingInv, RunningIsHeld, NodeStep
  PROVE  RunningIsHeld'
<1> USE DEF RunningIsHeld, LoggingState
<1>1. TypeOK /\ process \in Recordings \cup {None} /\ status.file \in Recordings \cup {None} /\ None \notin Recordings
  BY NoneIsNoRecording DEF LoggingInv, TypeOK, Report
<1>2. CASE ReportUnexpectedExit
  <2>1. CASE process # None /\ Exited(process)
    <3>1. PublishStatus("FAILED", status.file)
      BY <1>2, <2>1 DEF ReportUnexpectedExit
    <3>2. status'.state = "FAILED"
      BY <1>1, <3>1, Published
    <3>3. QED
      BY <3>2
  <2>2. CASE ~(process # None /\ Exited(process))
    BY <1>2, <2>2 DEF ReportUnexpectedExit
  <2>3. QED
    BY <2>1, <2>2
<1>3. CASE ReceiveEvent
  <2>1. event = None => event # "START"
    BY AbsenceAssumption DEF Event
  <2>2. QED
    BY <1>3, <2>1 DEF ReceiveEvent
<1>4. CASE CreateRecording
  BY <1>4 DEF CreateRecording
<1>5. CASE StartFails
  <2>1. status'.state = "FAILED"
    BY <1>1, <1>5, Published DEF StartFails
  <2>2. QED
    BY <2>1
<1>6. ASSUME NEW r \in Recordings, NEW alive \in BOOLEAN, Spawn(r, alive) PROVE RunningIsHeld'
  <2>1. CASE alive
    <3>1. process' = r /\ PublishStatus("RUNNING", r)
      BY <1>6, <2>1 DEF Spawn
    <3>2. status'.file = r
      BY <1>1, <3>1, Published
    <3>3. QED
      BY <1>1, <3>1, <3>2
  <2>2. CASE ~alive
    <3>1. PublishStatus("FAILED", r)
      BY <1>6, <2>2 DEF Spawn
    <3>2. status'.state = "FAILED"
      BY <1>1, <3>1, Published
    <3>3. QED
      BY <3>2
  <2>3. QED
    BY <2>1, <2>2
<1>7. CASE StopNothing
  <2>1. status'.state = "STOPPED"
    BY <1>1, <1>7, Published DEF StopNothing
  <2>2. QED
    BY <2>1
<1>8. CASE StopRecorder
  BY <1>8 DEF StopRecorder
<1>9. CASE RecorderEnded
  <2>1. PublishStatus(IF recorder[process] = "clean" THEN "STOPPED" ELSE "FAILED", status.file)
    BY <1>9 DEF RecorderEnded
  <2>2. status'.state \in {"STOPPED", "FAILED"}
    BY <1>1, <2>1, Published
  <2>3. QED
    BY <2>2
<1>10. CASE RecorderKilled
  <2>1. status'.state = "FAILED"
    BY <1>1, <1>10, Published DEF RecorderKilled
  <2>2. QED
    BY <2>1
<1>11. CASE NodeEnds
  BY <1>11 DEF NodeEnds
<1>12. QED
  BY <1>2, <1>3, <1>4, <1>5, <1>6, <1>7, <1>8, <1>9, <1>10, <1>11 DEF NodeStep

LEMMA RunningStaysHeld == LoggingInv /\ RunningIsHeld /\ [Next]_vars => RunningIsHeld'
<1> SUFFICES ASSUME LoggingInv, RunningIsHeld, [Next]_vars PROVE RunningIsHeld'
  OBVIOUS
<1>1. CASE NodeStep
  BY <1>1, NodeHoldsWhatRuns
<1>2. CASE Interrupt
  BY <1>2 DEF Interrupt, RunningIsHeld
<1>3. CASE Around
  <2>1. UNCHANGED <<at, process, status>>
    BY <1>3 DEF Around, SomebodyPublishes, DeliverReport, Poll, PollExpired, SetLogging, ConsoleStep, MarkRequested,
                PublishRequest, PublishFails, ReportBack, StackStopped, StopStack, consoleFrame, nodeVars
  <2>2. QED
    BY <2>1 DEF RunningIsHeld
<1>4. CASE StartStack
  <2>1. status'.state = "STOPPED"
    BY <1>4, Published DEF StartStack, LoggingState, LoggingInv
  <2>2. QED
    BY <2>1 DEF RunningIsHeld
<1>5. ASSUME NEW r \in Recordings, NEW code \in {"clean", "broken"}, RecorderExits(r, code) PROVE RunningIsHeld'
  BY <1>5 DEF RecorderExits, nodeVars, RunningIsHeld
<1>6. CASE UNCHANGED vars
  BY <1>6 DEF vars, nodeVars, RunningIsHeld
<1>7. QED
  BY <1>1, <1>2, <1>3, <1>4, <1>5, <1>6 DEF Next, Around

\* The node, when it has checked, reports the death of the recorder it holds; only an interrupt comes before.
LEMMA CheckSeesDeath ==
  LoggingInv /\ RunningIsHeld /\ [Next]_vars
    => (at = "check" /\ at' # at /\ status.state = "RUNNING" /\ Exited(status.file)
          => status'.state = "FAILED" \/ at' = "stop")
<1> SUFFICES ASSUME LoggingInv, RunningIsHeld, [Next]_vars, at = "check", at' # at, status.state = "RUNNING",
                    Exited(status.file)
             PROVE  status'.state = "FAILED" \/ at' = "stop"
  OBVIOUS
<1>1. process = status.file /\ process # None /\ status.file \in Recordings \cup {None} /\ TypeOK
  BY DEF RunningIsHeld, LoggingInv, TypeOK, Report
<1>2. ReportUnexpectedExit \/ Interrupt
  BY DEF Next, NodeStep, ReceiveEvent, CreateRecording, StartFails, Spawn, StopNothing, StopRecorder, RecorderEnded,
         RecorderKilled, NodeEnds, RecorderExits, SomebodyPublishes, DeliverReport, Poll, PollExpired, SetLogging,
         ConsoleStep, MarkRequested, PublishRequest, PublishFails, ReportBack, StackStopped, StopStack, StartStack,
         consoleFrame, nodeVars, vars
<1>3. CASE ReportUnexpectedExit
  <2>1. PublishStatus("FAILED", status.file)
    BY <1>1, <1>3 DEF ReportUnexpectedExit
  <2>2. QED
    BY <1>1, <2>1, Published DEF LoggingState
<1>4. CASE Interrupt
  BY <1>4 DEF Interrupt
<1>5. QED
  BY <1>2, <1>3, <1>4

\* The safety part of DeathIsReported: a recorder that died while it was reported as running is reported as failed
\* by the node's next check (_report_unexpected_exit), for every number of recordings and starts.
THEOREM DeathIsSeenByTheNode == ReplaySpec => DeathIsSeen
<1>1. Init => RunningIsHeld
  BY DEF Init, RunningIsHeld
<1>2. QED
  BY <1>1, LoggingStart, LoggingKeeps, RunningStaysHeld, CheckSeesDeath, ReplayIsLogging, PTL DEF Spec, DeathIsSeen

\* A report that the node publishes is the last one under way.
LEMMA PublishedIsUnderWay ==
  ASSUME TypeOK, NEW state \in LoggingState, NEW file \in Recordings \cup {None}, PublishStatus(state, file)
  PROVE  NoReportIsMissed'
<1>1. reports \in Seq(Report) /\ status' \in Report /\ reports' = Append(reports, status')
  BY Published DEF PublishStatus, TypeOK
<1>2. reports' # <<>> /\ reports'[Len(reports')] = status'
  BY <1>1
<1>3. QED
  BY <1>2 DEF NoReportIsMissed

\* A step of the node publishes, or leaves the status and what is under way; it does not leave its end.
LEMMA NodeReports ==
  ASSUME LoggingInv, NoReportIsMissed, NodeStep \/ Interrupt
  PROVE  NoReportIsMissed'
<1>1. TypeOK /\ process \in Recordings \cup {None} /\ status.file \in Recordings \cup {None}
  BY DEF LoggingInv, TypeOK, Report
<1> USE DEF LoggingState
<1>2. ASSUME UNCHANGED <<status, reports, monitorVars>>, at # "ended" PROVE NoReportIsMissed'
  BY <1>2 DEF NoReportIsMissed, monitorVars
<1>3. CASE ReportUnexpectedExit
  <2>1. CASE process # None /\ Exited(process)
    BY <1>1, <1>3, <2>1, PublishedIsUnderWay DEF ReportUnexpectedExit
  <2>2. CASE ~(process # None /\ Exited(process))
    BY <1>2, <1>3, <2>2 DEF ReportUnexpectedExit, nodeFrame
  <2>3. QED
    BY <2>1, <2>2
<1>4. CASE ReceiveEvent
  BY <1>2, <1>4 DEF ReceiveEvent, nodeFrame
<1>5. CASE CreateRecording
  BY <1>1, <1>5, PublishedIsUnderWay DEF CreateRecording
<1>6. CASE StartFails
  BY <1>1, <1>6, PublishedIsUnderWay DEF StartFails
<1>7. ASSUME NEW r \in Recordings, NEW alive \in BOOLEAN, Spawn(r, alive) PROVE NoReportIsMissed'
  <2>1. PublishStatus(IF alive THEN "RUNNING" ELSE "FAILED", r)
    BY <1>7 DEF Spawn
  <2>2. QED
    BY <1>1, <2>1, PublishedIsUnderWay
<1>8. CASE StopNothing
  BY <1>1, <1>8, PublishedIsUnderWay DEF StopNothing
<1>9. CASE StopRecorder
  BY <1>1, <1>9, PublishedIsUnderWay DEF StopRecorder
<1>10. CASE RecorderEnded
  <2>1. PublishStatus(IF recorder[process] = "clean" THEN "STOPPED" ELSE "FAILED", status.file)
    BY <1>10 DEF RecorderEnded
  <2>2. QED
    BY <1>1, <2>1, PublishedIsUnderWay
<1>11. CASE RecorderKilled
  BY <1>1, <1>11, PublishedIsUnderWay DEF RecorderKilled
<1>12. CASE NodeEnds
  BY <1>2, <1>12 DEF NodeEnds, nodeFrame
<1>13. CASE Interrupt
  BY <1>2, <1>13 DEF Interrupt, nodeFrame
<1>14. QED
  BY <1>3, <1>4, <1>5, <1>6, <1>7, <1>8, <1>9, <1>10, <1>11, <1>12, <1>13 DEF NodeStep

\* A report is delivered before the next one, so the last one stays under way or comes to wait.
LEMMA DeliveryMissesNone ==
  ASSUME TypeOK, NoReportIsMissed, DeliverReport
  PROVE  NoReportIsMissed'
<1>1. /\ reports \in Seq(Report) /\ reports # <<>> /\ reports[Len(reports)] = status
      /\ mailbox' = Head(reports) /\ reports' = Tail(reports) /\ status' = status
  BY DEF DeliverReport, NoReportIsMissed, TypeOK, nodeVars
<1>2. CASE Len(reports) = 1
  <2>1. mailbox' = status /\ reports' = <<>>
    BY <1>1, <1>2
  <2>2. status # None
    BY AbsenceAssumption DEF TypeOK
  <2>3. QED
    BY <1>1, <2>1, <2>2 DEF NoReportIsMissed
<1>3. CASE Len(reports) > 1
  <2>1. Len(Tail(reports)) = Len(reports) - 1 /\ Tail(reports) \in Seq(Report) /\ Len(reports) \in Nat
    BY <1>1
  <2>2. \A i \in 1 .. Len(reports) - 1 : Tail(reports)[i] = reports[i + 1]
    BY <1>1
  <2>3. Len(reports) - 1 \in 1 .. Len(reports) - 1 /\ (Len(reports) - 1) + 1 = Len(reports)
    BY <1>3, <2>1
  <2>4. Tail(reports)[Len(reports) - 1] = reports[Len(reports)]
    BY <2>2, <2>3
  <2>5. Tail(reports) # <<>>
    <3>1. Len(Tail(reports)) # 0
      BY <1>3, <2>1
    <3>2. Len(<<>>) = 0
      OBVIOUS
    <3>3. QED
      BY <3>1, <3>2, Zenon
  <2>6. QED
    BY <1>1, <2>1, <2>4, <2>5 DEF NoReportIsMissed
<1>4. QED
  <2>1. Len(reports) \in Nat /\ Len(reports) # 0
    BY <1>1
  <2>2. QED
    BY <1>2, <1>3, <2>1

\* The console looks at the last report, waits for an answer, or gives up: it never forgets in which.
LEMMA MonitorMissesNone ==
  ASSUME NoReportIsMissed, UNCHANGED <<at, status, reports>>,
         Snapshot \/ Expires \/ (mailbox' = None /\ pending') \/ (mailbox' = None /\ shown' = "STOPPED" /\ at = "ended")
           \/ (mailbox' = mailbox /\ shown' = "FAILED")
  PROVE  NoReportIsMissed'
<1>1. CASE reports # <<>>
  BY <1>1 DEF NoReportIsMissed
<1>2. CASE reports = <<>> /\ mailbox # None
  <2>1. mailbox = status
    BY <1>2 DEF NoReportIsMissed
  <2>2. QED
    BY <1>2, <2>1 DEF NoReportIsMissed, Snapshot, Expires
<1>3. CASE reports = <<>> /\ mailbox = None
  BY <1>3 DEF NoReportIsMissed, Snapshot, Expires, monitorVars
<1>4. QED
  BY <1>1, <1>2, <1>3

LEMMA AroundMissesNone ==
  ASSUME LoggingInv, NoReportIsMissed, Around \/ StartStack
  PROVE  NoReportIsMissed'
<1> USE DEF consoleFrame, nodeVars
<1>1. ASSUME UNCHANGED <<at, status, reports, monitorVars>> PROVE NoReportIsMissed'
  BY <1>1 DEF NoReportIsMissed, monitorVars
<1>2. ASSUME NEW kind \in Others, SomebodyPublishes(kind) PROVE NoReportIsMissed'
  BY <1>1, <1>2 DEF SomebodyPublishes
<1>3. CASE DeliverReport
  BY <1>3, DeliveryMissesNone DEF LoggingInv
<1>4. CASE Poll
  BY <1>4, MonitorMissesNone DEF Poll
<1>5. CASE PollExpired
  BY <1>5, MonitorMissesNone DEF PollExpired
<1>6. ASSUME NEW kind \in {"START", "STOP"}, SetLogging(kind) PROVE NoReportIsMissed'
  BY <1>6, MonitorMissesNone DEF SetLogging
<1>7. CASE MarkRequested
  BY <1>7, MonitorMissesNone DEF MarkRequested, SetPending
<1>8. CASE PublishRequest
  BY <1>1, <1>8 DEF PublishRequest
<1>9. CASE PublishFails
  BY <1>9, MonitorMissesNone DEF PublishFails
<1>10. CASE ReportBack
  BY <1>10, MonitorMissesNone DEF ReportBack
<1>11. CASE StackStopped
  BY <1>11, MonitorMissesNone DEF StackStopped, Reset
<1>12. CASE StopStack
  BY <1>1, <1>12 DEF StopStack
<1>13. CASE StartStack
  BY <1>13, PublishedIsUnderWay DEF StartStack, LoggingInv, LoggingState
<1>14. QED
  BY <1>2, <1>3, <1>4, <1>5, <1>6, <1>7, <1>8, <1>9, <1>10, <1>11, <1>12, <1>13 DEF Around, ConsoleStep

LEMMA ReportsReachTheConsole == LoggingInv /\ NoReportIsMissed /\ [Next]_vars => NoReportIsMissed'
<1> SUFFICES ASSUME LoggingInv, NoReportIsMissed, [Next]_vars PROVE NoReportIsMissed'
  OBVIOUS
<1>1. CASE NodeStep \/ Interrupt
  BY <1>1, NodeReports
<1>2. CASE Around \/ StartStack
  BY <1>2, AroundMissesNone
<1>3. ASSUME NEW r \in Recordings, NEW code \in {"clean", "broken"}, RecorderExits(r, code) PROVE NoReportIsMissed'
  BY <1>3 DEF RecorderExits, nodeVars, monitorVars, NoReportIsMissed
<1>4. CASE UNCHANGED vars
  BY <1>4 DEF vars, nodeVars, monitorVars, NoReportIsMissed
<1>5. QED
  BY <1>1, <1>2, <1>3, <1>4 DEF Next, Around

\* The safety part of ConsoleErrsToFailure: once no report is under way, the console shows the node's last report
\* or a failure, waits for an answer, or has seen the stack end, whatever requests crossed (LoggingMonitor).
THEOREM TheConsoleMissesNoReport == ReplaySpec => []NoReportIsMissed
<1>1. Init => NoReportIsMissed
  BY DEF Init, NoReportIsMissed
<1>2. QED
  BY <1>1, LoggingStart, LoggingKeeps, ReportsReachTheConsole, ReplayIsLogging, PTL DEF Spec

-----------------------------------------------------------------------------
(* Directories.                                                            *)

LEMMA ClaimsCounted == Preparing \in {0, 1} /\ Waiting \in {0, 1} /\ Asking \in {0, 1}
  BY DEF Preparing, Waiting, Asking, One

\* Fewer directories than suffixes leave one, and so a least one.
LEMMA SuffixIsFree ==
  ASSUME IsFiniteSet(taken), Cardinality(taken) <= MaxEvents, NEW time \in Times
  PROVE  FreeSuffix(time) \in Suffixes /\ <<time, FreeSuffix(time)>> \notin taken
<1>1. MaxEvents \in Nat /\ Suffixes \subseteq Nat /\ \A n \in Suffixes : \A k \in 0 .. (n - 1) : k \in Suffixes /\ k \in Nat /\ k < n
  BY LoggingAssumption DEF Suffixes
<1> DEFINE free == {n \in Suffixes : <<time, n>> \notin taken}
<1>2. free # {}
  <2>1. SUFFICES ASSUME \A n \in Suffixes : <<time, n>> \in taken
                 PROVE  FALSE
    OBVIOUS
  <2> DEFINE f == [n \in Suffixes |-> <<time, n>>]
  <2>2. f \in Injection(Suffixes, taken)
    BY <2>1 DEF Injection, IsInjective
  <2>3. Cardinality(Suffixes) <= Cardinality(taken)
    BY <2>2, FS_Injection
  <2>4. Cardinality(Suffixes) = 2 * MaxEvents + 1
    BY <1>1, FS_Interval DEF Suffixes
  <2>5. Cardinality(taken) \in Nat
    BY FS_CardinalityType
  <2>6. QED
    BY <1>1, <2>3, <2>4, <2>5
<1>3. PICK n \in free : \A k \in free : n <= k
  BY <1>1, <1>2, LeastNatural
<1>4. \A k \in 0 .. (n - 1) : <<time, k>> \in taken
  BY <1>1, <1>3
<1>5. \E m \in Suffixes : /\ <<time, m>> \notin taken
                          /\ \A k \in 0 .. (m - 1) : <<time, k>> \in taken
  BY <1>3, <1>4
<1>6. QED
  BY <1>5 DEF FreeSuffix

\* An event is published, waits, and is answered, or is dropped on its way.
PassedOn ==
    \/ Preparing' <= Preparing /\ Waiting' <= Waiting /\ Asking' <= Asking /\ events' = events
    \/ Preparing = 0 /\ Waiting = 1 /\ Waiting' = 0 /\ Asking' <= Asking /\ events' = events
    \/ Preparing' <= Preparing /\ Asking' <= Asking /\ events' = events + 1
    \/ Preparing' <= Preparing /\ Waiting' <= Waiting /\ events' = events + 1
    \/ Preparing' <= Preparing /\ Asking = 1 /\ Asking' = 0 /\ events' = events

LEMMA PassedOnCount ==
  ASSUME NEW c \in Nat, NEW e \in Nat, NEW e2 \in Nat, NEW p \in 0 .. 1, NEW w \in 0 .. 1, NEW a \in 0 .. 1,
         NEW p2 \in 0 .. 1, NEW w2 \in 0 .. 1, NEW a2 \in 0 .. 1, c + p + w + a <= e,
         \/ p2 <= p /\ w2 <= w /\ a2 <= a /\ e2 = e
         \/ p = 0 /\ w = 1 /\ w2 = 0 /\ a2 <= a /\ e2 = e
         \/ p2 <= p /\ a2 <= a /\ e2 = e + 1
         \/ p2 <= p /\ w2 <= w /\ e2 = e + 1
         \/ p2 <= p /\ a = 1 /\ a2 = 0 /\ e2 = e
  PROVE  c + p2 + w2 + a2 <= e2
OBVIOUS

\* Nothing but PrepareBundle takes a directory; the others only pass an event on or drop it.
LEMMA ClaimsPassOn ==
  ASSUME EventsBeforeDirectories, TypeOK, TypeOK', taken' = taken, PassedOn
  PROVE  EventsBeforeDirectories'
<1>1. Preparing \in 0 .. 1 /\ Waiting \in 0 .. 1 /\ Asking \in 0 .. 1
  BY ClaimsCounted
<1>2. Preparing' \in 0 .. 1 /\ Waiting' \in 0 .. 1 /\ Asking' \in 0 .. 1
  BY DEF Preparing, Waiting, Asking, One
<1>3. IsFiniteSet(taken) /\ Cardinality(taken) \in Nat /\ Cardinality(taken) + Preparing + Waiting + Asking <= events
  BY FS_CardinalityType DEF EventsBeforeDirectories
<1>4. events \in Nat /\ events' \in Nat
  BY LoggingAssumption DEF TypeOK
<1>5. Cardinality(taken) + Preparing' + Waiting' + Asking' <= events'
  BY <1>1, <1>2, <1>3, <1>4, PassedOnCount DEF PassedOn
<1>6. QED
  BY <1>3, <1>5 DEF EventsBeforeDirectories

LEMMA LoggerStepClaims ==
  ASSUME TypeOK, LoggerStep
  PROVE  PassedOn
<1>1. events' = events /\ request' = request /\ draft' = draft /\ Asking' = Asking
  BY LoggingAssumption DEF TypeOK, LoggerStep, ReportUnexpectedExit, ReceiveEvent, CreateRecording, StopNothing, StopRecorder,
     RecorderEnded, RecorderKilled, NodeEnds, nodeFrame, bundleVars, diskVars, Asking
<1>2. Preparing \in {0, 1} /\ Waiting \in {0, 1} /\ Asking \in {0, 1} /\ Waiting' \in {0, 1}
  BY ClaimsCounted DEF Waiting, One
<1>3. CASE ReceiveEvent
  <2>1. /\ at = "drain" /\ event' = None
        /\ at' \in {"check", "create", "stop", "drain"}
        /\ at' = "create" => event # None
    BY <1>3 DEF ReceiveEvent
  <2>2. Preparing = 0 /\ Waiting' = 0
    BY <2>1 DEF Preparing, Waiting, One
  <2>3. Preparing' = 1 => Waiting = 1
    BY <2>1 DEF Preparing, Waiting, One
  <2>4. Preparing' \in {0, 1}
    BY DEF Preparing, One
  <2>5. QED
    BY <1>1, <1>2, <2>2, <2>3, <2>4 DEF PassedOn
<1>4. CASE CreateRecording
  <2>1. at = "create" /\ event' = event
    BY <1>4 DEF CreateRecording
  <2>2. Preparing = 1 /\ Preparing' \in {0, 1} /\ Waiting' = Waiting
    BY <2>1 DEF Preparing, Waiting, One
  <2>3. QED
    BY <1>1, <1>2, <2>2 DEF PassedOn
<1>5. CASE ~ReceiveEvent /\ ~CreateRecording
  <2>1. at' \notin {"create", "spawn"} /\ event' \in {event, None}
    BY <1>5 DEF LoggerStep, ReportUnexpectedExit, StopNothing, StopRecorder, RecorderEnded, RecorderKilled, NodeEnds, AfterStop
  <2>2. Preparing' = 0 /\ Waiting' <= Waiting
    BY <2>1 DEF Preparing, Waiting, One
  <2>3. QED
    BY <1>1, <1>2, <2>2 DEF PassedOn
<1>6. QED
  BY <1>3, <1>4, <1>5

LEMMA AroundClaims ==
  ASSUME TypeOK, Around \/ StartStack, UNCHANGED draft
  PROVE  PassedOn
<1>1. Preparing \in {0, 1} /\ Waiting \in {0, 1} /\ Asking \in {0, 1} /\ Waiting' \in {0, 1} /\ Asking' \in {0, 1} /\ events \in Nat
  BY ClaimsCounted, LoggingAssumption DEF Waiting, Asking, One, TypeOK
<1>2. Preparing' <= Preparing
  <2>1. at' = at \/ at' = "check"
    BY DEF Around, SomebodyPublishes, DeliverReport, Poll, PollExpired, SetLogging, ConsoleStep, MarkRequested,
           PublishRequest, PublishFails, ReportBack, StackStopped, StopStack, consoleFrame, nodeVars, StartStack
  <2>2. QED
    BY <2>1 DEF Preparing, One
<1>3. Preparing' \in {0, 1}
  BY DEF Preparing, One
<1>5. ASSUME NEW kind \in Others, SomebodyPublishes(kind)
      PROVE  PassedOn
  <2>1. events' = events + 1 /\ request' = request
    BY <1>5 DEF SomebodyPublishes
  <2>2. Asking' = Asking
    BY <2>1 DEF Asking
  <2>3. QED
    BY <1>1, <1>2, <1>3, <2>1, <2>2 DEF PassedOn
<1>6. ASSUME NEW kind \in {"START", "STOP"}, SetLogging(kind)
      PROVE  PassedOn
  <2>1. events' = events + 1 /\ event' = event
    BY <1>6 DEF SetLogging
  <2>2. Waiting' = Waiting
    BY <2>1 DEF Waiting
  <2>3. QED
    BY <1>1, <1>2, <1>3, <2>1, <2>2 DEF PassedOn
<1>7. CASE PublishRequest
  <2>1. events' = events /\ Asking = 1 /\ Asking' = 0
    BY <1>7 DEF PublishRequest, consoleFrame, Asking, One
  <2>2. QED
    BY <1>1, <1>2, <1>3, <2>1 DEF PassedOn
<1>8. CASE MarkRequested
  <2>1. events' = events /\ event' = event /\ Asking = 1
    BY <1>8 DEF MarkRequested, Asking, One
  <2>2. Waiting' = Waiting
    BY <2>1 DEF Waiting
  <2>3. QED
    BY <1>1, <1>2, <1>3, <2>1, <2>2 DEF PassedOn
<1>9. CASE DeliverReport \/ Poll \/ PollExpired \/ PublishFails \/ ReportBack \/ StackStopped \/ StopStack \/ StartStack
  <2>1. events' = events /\ event' = event /\ request' \in {request, "idle", "stop_stack"}
    BY <1>9 DEF DeliverReport, Poll, PollExpired, PublishFails, ReportBack, StackStopped, StopStack, StartStack
  <2>2. Waiting' = Waiting /\ Asking' <= Asking
    BY <2>1 DEF Waiting, Asking, One
  <2>3. QED
    BY <1>1, <1>2, <1>3, <2>1, <2>2 DEF PassedOn
<1>10. QED
  BY <1>5, <1>6, <1>7, <1>8, <1>9 DEF Around, ConsoleStep

-----------------------------------------------------------------------------
(* Bundles and replays.                                                    *)

\* A recorder that has begun has begun for good, and one that does not record never does again.
RecordersAge ==
    \A r \in Recordings : /\ recorder[r] # "unborn" => recorder'[r] # "unborn"
                          /\ recorder[r] \notin {"unborn", "records"} => recorder'[r] \notin {"unborn", "records"}

LEMMA StepsAge ==
  ASSUME LoggingInv, [Next]_vars
  PROVE  RecordersAge
<1>1. recorder \in [Recordings -> {"unborn", "records", "told", "clean", "broken"}] /\ process \in Recordings \cup {None}
  BY DEF LoggingInv, TypeOK
<1>2. ASSUME recorder' = recorder PROVE RecordersAge
  BY <1>2 DEF RecordersAge
<1>3. ASSUME NEW r \in Recordings, NEW code \in {"clean", "broken"}, RecorderExits(r, code) PROVE RecordersAge
  BY <1>1, <1>3 DEF RecorderExits, RecordersAge
<1>4. ASSUME NEW r \in Recordings, NEW alive \in BOOLEAN, Spawn(r, alive) PROVE RecordersAge
  BY <1>1, <1>4 DEF Spawn, RecordersAge
<1>5. CASE StopRecorder
  BY <1>1, <1>5 DEF StopRecorder, RecordersAge
<1>6. CASE RecorderKilled
  BY <1>1, <1>6 DEF RecorderKilled, RecordersAge
<1>7. ReportUnexpectedExit \/ ReceiveEvent \/ CreateRecording \/ StartFails \/ StopNothing \/ RecorderEnded \/ NodeEnds \/ Interrupt
      => recorder' = recorder
  BY DEF ReportUnexpectedExit, ReceiveEvent, CreateRecording, StartFails, StopNothing, RecorderEnded, NodeEnds, Interrupt
<1>8. Around \/ StartStack \/ UNCHANGED vars => recorder' = recorder
  BY DEF Around, SomebodyPublishes, DeliverReport, Poll, PollExpired, SetLogging, ConsoleStep, MarkRequested,
         PublishRequest, PublishFails, ReportBack, StackStopped, StopStack, consoleFrame, StartStack, vars
<1>9. QED
  BY <1>2, <1>3, <1>4, <1>5, <1>6, <1>7, <1>8 DEF Next, NodeStep, Around

\* What is on disk and in the player stays true while only the logger and its console step.
LEMMA LoggingLeavesBundles ==
  ASSUME LoggingInv, TypeOK', ReplayInv, [Next]_vars, UNCHANGED <<robot, taken, bundle, replayVars>>,
         draft' = draft \/ draft' = None, draft' # None => at' = "spawn", EventsBeforeDirectories'
  PROVE  ReplayInv'
<1>1. RecordersAge
  BY StepsAge
<1>2. UNCHANGED <<robot, taken, bundle, source, player, outcome, stderr, exit>>
  BY DEF replayVars
<1>3. ReplayTypeOK'
  BY <1>2 DEF ReplayInv, ReplayTypeOK
<1>4. BundlesOnDisk'
  BY <1>1, <1>2 DEF ReplayInv, BundlesOnDisk, RecordersAge
<1>5. RecordingsKeptApart' /\ OutcomeIsHonest' /\ PlayerAccounted'
  BY <1>2 DEF ReplayInv, RecordingsKeptApart, OutcomeIsHonest, PlayerAccounted
<1>6. ReplayFitsRecording'
  <2>1. player = "alive" => source \in Recordings
    BY DEF ReplayInv, PlayerAccounted, ReplayTypeOK
  <2>2. QED
    BY <1>1, <1>2, <2>1 DEF ReplayInv, ReplayFitsRecording, RecordersAge
<1>7. QED
  BY <1>3, <1>4, <1>5, <1>6 DEF ReplayInv

LEMMA PrepareBundleKeeps ==
  ASSUME LoggingInv, ReplayInv, NEW time \in Times, PrepareBundle(time)
  PROVE  ReplayInv'
<1> DEFINE d == <<time, FreeSuffix(time)>>
<1>1. /\ at = "spawn" /\ draft = None /\ draft' = d /\ taken' = taken \cup {d}
      /\ UNCHANGED <<vars, robot, bundle, replayVars>>
  BY DEF PrepareBundle
<1>2. /\ IsFiniteSet(taken) /\ Cardinality(taken) \in Nat /\ events \in 0 .. MaxEvents /\ MaxEvents \in Nat
      /\ Cardinality(taken) + Preparing + Waiting + Asking <= events
  BY FS_CardinalityType, LoggingAssumption DEF ReplayInv, EventsBeforeDirectories, LoggingInv, TypeOK
<1>3. Preparing = 1 /\ Waiting \in 0 .. 1 /\ Asking \in 0 .. 1
  BY <1>1 DEF Preparing, Waiting, Asking, One
<1>4. PICK c \in Nat : c = Cardinality(taken)
  BY <1>2
<1>5. c + 1 + Waiting + Asking <= events /\ c <= MaxEvents
  BY <1>2, <1>3, <1>4
<1>6. d \in Directory /\ d \notin taken
  BY <1>2, <1>4, <1>5, SuffixIsFree DEF Directory
<1>7. d # None
  BY <1>6, NoDirectoryAssumption
<1> HIDE DEF d
<1>8. UNCHANGED <<recorder, at, event, events, request, robot, bundle, source, player, outcome, stderr, exit>>
  BY <1>1 DEF vars, nodeVars, replayVars
<1>9. ReplayTypeOK'
  <2>1. TypeOK'
    BY <1>1 DEF LoggingInv, TypeOK, vars, nodeVars, monitorVars
  <2>2. taken' \subseteq Directory /\ draft' \in taken' \cup {None}
    BY <1>1, <1>6 DEF ReplayInv, ReplayTypeOK
  <2>3. QED
    BY <1>8, <2>1, <2>2 DEF ReplayInv, ReplayTypeOK
<1>10. EventsBeforeDirectories'
  <2>1. IsFiniteSet(taken') /\ Cardinality(taken') = c + 1
    BY <1>1, <1>2, <1>4, <1>6, FS_AddElement
  <2>2. Preparing' = 0 /\ Waiting' = Waiting /\ Asking' = Asking
    BY <1>1, <1>7, <1>8 DEF Preparing, Waiting, Asking, One
  <2>3. c + 1 + 0 + Waiting + Asking <= events
    BY <1>2, <1>3, <1>5
  <2>4. QED
    BY <1>8, <2>1, <2>2, <2>3 DEF EventsBeforeDirectories
<1>11. BundlesOnDisk'
  BY <1>1, <1>6, <1>8 DEF ReplayInv, BundlesOnDisk
<1>12. QED
  BY <1>8, <1>9, <1>10, <1>11 DEF ReplayInv, RecordingsKeptApart, ReplayFitsRecording, OutcomeIsHonest, PlayerAccounted

LEMMA SpawnInBundleKeeps ==
  ASSUME LoggingInv, TypeOK', ReplayInv, NEW r \in Recordings, NEW alive \in BOOLEAN, SpawnInBundle(r, alive)
  PROVE  ReplayInv'
<1> DEFINE b == [dir |-> draft, robot |-> robot, log |-> alive]
<1>1. /\ draft # None /\ at = "spawn" /\ at' = "drain" /\ recorder[r] = "unborn"
      /\ recorder' = [recorder EXCEPT ![r] = IF alive THEN "records" ELSE "broken"]
      /\ bundle' = [bundle EXCEPT ![r] = b] /\ draft' = None
      /\ UNCHANGED <<event, events, request, robot, taken, source, player, outcome, stderr, exit>>
  BY DEF SpawnInBundle, Spawn, nodeFrame, replayVars
<1>2. /\ recorder \in [Recordings -> {"unborn", "records", "told", "clean", "broken"}]
      /\ bundle \in [Recordings -> Bundle] /\ draft \in taken /\ taken \subseteq Directory /\ robot \in Robots
  BY <1>1 DEF ReplayInv, ReplayTypeOK, TypeOK
<1>3. b \in Bundle /\ b.dir = draft
  BY <1>2 DEF Bundle
<1> HIDE DEF b
<1>4. /\ recorder'[r] # "unborn" /\ bundle'[r] = b
      /\ \A o \in Recordings : o # r => recorder'[o] = recorder[o] /\ bundle'[o] = bundle[o]
  BY <1>1, <1>2
<1>5. ReplayTypeOK'
  <2>1. bundle' \in [Recordings -> Bundle]
    BY <1>1, <1>2, <1>3
  <2>2. QED
    BY <1>1, <2>1 DEF ReplayInv, ReplayTypeOK
<1>6. BundlesOnDisk'
  BY <1>1, <1>2, <1>3, <1>4 DEF ReplayInv, BundlesOnDisk
<1>7. RecordingsKeptApart'
  BY <1>1, <1>3, <1>4 DEF ReplayInv, BundlesOnDisk, RecordingsKeptApart
<1>8. ReplayFitsRecording'
  <2>1. player = "alive" => source \in Recordings /\ source # r
    BY <1>1 DEF ReplayInv, PlayerAccounted, ReplayTypeOK, ReplayFitsRecording
  <2>2. QED
    BY <1>1, <1>4, <2>1 DEF ReplayInv, ReplayFitsRecording
<1>9. EventsBeforeDirectories'
  <2>1. Preparing' = 0 /\ Waiting' = Waiting /\ Asking' = Asking
    BY <1>1 DEF Preparing, Waiting, Asking, One
  <2>2. Preparing \in 0 .. 1 /\ 0 <= Preparing
    BY DEF Preparing, One
  <2>3. PassedOn
    BY <1>1, <2>1, <2>2, ClaimsCounted DEF PassedOn
  <2>4. QED
    BY <1>1, <2>3, ClaimsPassOn DEF ReplayInv, LoggingInv
<1>10. QED
  BY <1>1, <1>5, <1>6, <1>7, <1>8, <1>9 DEF ReplayInv, OutcomeIsHonest, PlayerAccounted

\* A recording that may be replayed was told to stop, for nothing records once the stack has ended.
LEMMA ReplayStepKeeps ==
  ASSUME LoggingInv, ReplayInv, ReplayStep
  PROVE  ReplayInv'
<1>1. /\ UNCHANGED <<vars, taken, draft, bundle>>
      /\ UNCHANGED <<recorder, at, process, event, events, request>>
  BY DEF ReplayStep, StartReplay, PlayerEnds, PollReplay, StopPlayer, SetRobot, replayFrame, diskVars, vars, nodeVars
<1>2. TypeOK'
  BY <1>1 DEF LoggingInv, TypeOK, vars, nodeVars, monitorVars
<1>3. BundlesOnDisk' /\ EventsBeforeDirectories' /\ RecordingsKeptApart'
  BY <1>1 DEF ReplayInv, BundlesOnDisk, EventsBeforeDirectories, RecordingsKeptApart, Preparing, Waiting, Asking
<1> DEFINE PlayerTypes == /\ robot \in Robots
                          /\ source \in Recordings \cup {None}
                          /\ player \in {"absent", "alive", "ok", "error"}
                          /\ outcome \in {None, "COMPLETED", "FAILED", "STOPPED"}
                          /\ stderr \in BOOLEAN
                          /\ exit \in {None, "ok", "error", "interrupted"}
           PlayerInv == PlayerTypes /\ PlayerAccounted /\ ReplayFitsRecording /\ OutcomeIsHonest
<1>4. SUFFICES PlayerInv'
  BY <1>1, <1>2, <1>3 DEF ReplayInv, ReplayTypeOK
<1>5. PlayerInv
  BY DEF ReplayInv, ReplayTypeOK
<1> USE DEF PlayerAccounted, ReplayFitsRecording, OutcomeIsHonest
<1>6. ASSUME PollPlayer, UNCHANGED <<robot, source, exit>> PROVE PlayerInv'
  <2>1. player' \in {"absent", "alive"} /\ (player' = "alive" <=> player = "alive") /\ outcome' = PolledOutcome
        /\ stderr' = (stderr /\ player' # "absent")
    BY <1>5, <1>6 DEF PollPlayer
  <2>2. CASE player = "ok"
    BY <1>1, <1>5, <1>6, <2>1, <2>2 DEF PolledOutcome
  <2>3. CASE player = "error"
    BY <1>1, <1>5, <1>6, <2>1, <2>3 DEF PolledOutcome
  <2>4. CASE player \notin {"ok", "error"}
    <3>1. outcome' = outcome
      BY <2>1, <2>4 DEF PolledOutcome
    <3>2. QED
      BY <1>1, <1>5, <1>6, <2>1, <2>4, <3>1
  <2>5. QED
    BY <2>2, <2>3, <2>4
<1>7. ASSUME NEW r \in Recordings, NEW spawned \in BOOLEAN, StartReplay(r, spawned) PROVE PlayerInv'
  <2>1. CASE Valid(r)
    <3>1. /\ source' = r /\ player' = (IF spawned THEN "alive" ELSE "absent") /\ outcome' = (IF spawned THEN None ELSE "FAILED")
          /\ stderr' = spawned /\ exit' = None /\ robot' = robot /\ at = "ended"
      BY <1>7, <2>1 DEF StartReplay, PlayerStarts, replayFrame, NothingRuns
    <3>2. bundle[r].dir # None /\ bundle[r].robot = robot
      BY <2>1 DEF Valid, Listed
    <3>3. recorder[r] \notin {"unborn", "records"}
      <4>1. recorder[r] # "unborn"
        BY <3>2 DEF ReplayInv, BundlesOnDisk
      <4>2. process = None
        BY <3>1 DEF LoggingInv, HeldRecorder
      <4>3. recorder[r] # "records"
        BY <4>2, NoneIsNoRecording DEF LoggingInv, NoForgottenRecorder
      <4>4. QED
        BY <4>1, <4>3
    <3>4. r # None /\ None # "COMPLETED" /\ None # "STOPPED"
      BY NoneIsNoRecording, ReplayAssumption
    <3>5. QED
      BY <1>1, <1>5, <3>1, <3>2, <3>3, <3>4
  <2>2. CASE ~Valid(r)
    BY <1>6, <1>7, <2>2 DEF StartReplay, replayFrame
  <2>3. QED
    BY <2>1, <2>2
<1>8. ASSUME NEW code \in {"ok", "error"}, PlayerEnds(code) PROVE PlayerInv'
  <2>1. player = "alive" /\ player' = code /\ exit' = code /\ UNCHANGED <<robot, source, outcome, stderr>>
    BY <1>8 DEF PlayerEnds, replayFrame
  <2>2. None # "COMPLETED" /\ None # "STOPPED"
    BY ReplayAssumption
  <2>3. QED
    BY <1>1, <1>5, <2>1, <2>2
<1>9. CASE PollReplay
  BY <1>6, <1>9 DEF PollReplay, replayFrame
<1>10. ASSUME NEW result \in {"STOPPED", "FAILED"}, StopPlayer(result) PROVE PlayerInv'
  <2>1. player' = "absent" /\ stderr' = FALSE /\ UNCHANGED <<robot, source>>
    BY <1>10 DEF StopPlayer, replayFrame
  <2>2. CASE player = "alive"
    <3>1. outcome' = result /\ exit' = "interrupted"
      BY <1>10, <2>2 DEF StopPlayer
    <3>2. QED
      BY <1>1, <1>5, <2>1, <3>1
  <2>3. CASE player # "alive"
    <3>1. exit' = exit /\ outcome' \in {"FAILED", PolledOutcome}
      BY <1>10, <2>3 DEF StopPlayer
    <3>2. \/ PolledOutcome = "COMPLETED" /\ player = "ok"
          \/ PolledOutcome = "FAILED"
          \/ PolledOutcome = outcome
      BY <1>5, <2>3 DEF PolledOutcome
    <3>3. QED
      BY <1>1, <1>5, <2>1, <3>1, <3>2
  <2>4. QED
    BY <2>2, <2>3
<1>11. ASSUME NEW name \in Robots, SetRobot(name) PROVE PlayerInv'
  <2>1. player = "absent" /\ robot' = name /\ UNCHANGED <<source, player, outcome, stderr, exit>>
    BY <1>11 DEF SetRobot, replayVars
  <2>2. QED
    BY <1>1, <1>5, <2>1
<1>12. QED
  BY <1>7, <1>8, <1>9, <1>10, <1>11 DEF ReplayStep

LEMMA ReplayStart == ReplayInit => ReplayInv
<1> SUFFICES ASSUME ReplayInit PROVE ReplayInv
  OBVIOUS
<1>1. TypeOK
  BY LoggingStart DEF ReplayInit, LoggingInv
<1>2. robot \in Robots
  BY ReplayAssumption DEF ReplayInit
<1>3. \A r \in Recordings : bundle[r] \in Bundle /\ bundle[r].dir = None
  BY DEF ReplayInit, Bundle
<1>4. ReplayTypeOK
  BY <1>1, <1>2, <1>3 DEF ReplayInit, ReplayTypeOK
<1>5. EventsBeforeDirectories
  <2>1. Preparing = 0 /\ Waiting = 0 /\ Asking = 0 /\ events = 0
    BY DEF ReplayInit, Init, Preparing, Waiting, Asking, One
  <2>2. IsFiniteSet(taken) /\ Cardinality(taken) = 0
    BY FS_EmptySet DEF ReplayInit
  <2>3. QED
    BY <2>1, <2>2 DEF EventsBeforeDirectories
<1>6. None # "COMPLETED" /\ None # "STOPPED"
  BY ReplayAssumption
<1>7. QED
  BY <1>3, <1>4, <1>5, <1>6 DEF ReplayInit, ReplayInv, BundlesOnDisk, PlayerAccounted, RecordingsKeptApart,
                                ReplayFitsRecording, OutcomeIsHonest

LEMMA ReplayKeeps ==
  ASSUME LoggingInv, TypeOK', ReplayInv, [ReplayNext]_allVars
  PROVE  ReplayInv'
<1>1. [Next]_vars
  BY StepIsLogging
<1>2. CASE LoggerStep
  <2>1. UNCHANGED bundleVars
    BY <1>2 DEF LoggerStep
  <2>2. draft # None => at = "spawn"
    BY DEF ReplayInv, BundlesOnDisk
  <2>3. at = "spawn" => FALSE
    BY <1>2 DEF LoggerStep, ReportUnexpectedExit, ReceiveEvent, CreateRecording, StopNothing, StopRecorder, RecorderEnded,
                RecorderKilled, NodeEnds
  <2>4. EventsBeforeDirectories'
    BY <1>2, <2>1, LoggerStepClaims, ClaimsPassOn DEF bundleVars, diskVars, LoggingInv, ReplayInv
  <2>5. QED
    BY <1>1, <2>1, <2>2, <2>3, <2>4, LoggingLeavesBundles DEF bundleVars, diskVars
<1>3. ASSUME NEW time \in Times, PrepareBundle(time) PROVE ReplayInv'
  BY <1>3, PrepareBundleKeeps
<1>4. ASSUME NEW r \in Recordings, NEW alive \in BOOLEAN, SpawnInBundle(r, alive) PROVE ReplayInv'
  BY <1>4, SpawnInBundleKeeps
<1>5. CASE (StartFails \/ Interrupt) /\ AbandonDraft
  <2>1. draft' = None /\ UNCHANGED <<robot, taken, bundle, replayVars>>
    BY <1>5 DEF AbandonDraft
  <2>2. at' \in {"drain", "stop"} /\ UNCHANGED <<event, events, request>>
    BY <1>5 DEF StartFails, Interrupt, nodeFrame
  <2>3. Preparing' = 0 /\ Waiting' = Waiting /\ Asking' = Asking /\ 0 <= Preparing
    BY <2>2 DEF Preparing, Waiting, Asking, One
  <2>4. PassedOn
    BY <2>2, <2>3, ClaimsCounted DEF PassedOn
  <2>5. EventsBeforeDirectories'
    BY <2>1, <2>4, ClaimsPassOn DEF LoggingInv, ReplayInv
  <2>6. QED
    BY <1>1, <2>1, <2>5, LoggingLeavesBundles
<1>6. CASE LoggingStep /\ UNCHANGED bundleVars
  <2>1. UNCHANGED <<robot, taken, draft, bundle, replayVars>>
    BY <1>6 DEF bundleVars, diskVars
  <2>2. CASE Around \/ StartStack
    <3>1. draft # None => at = "spawn" /\ at # "ended"
      BY DEF ReplayInv, BundlesOnDisk
    <3>2. draft # None => at' = at
      BY <2>2, <3>1 DEF Around, SomebodyPublishes, DeliverReport, Poll, PollExpired, SetLogging, ConsoleStep, MarkRequested,
         PublishRequest, PublishFails, ReportBack, StackStopped, StopStack, consoleFrame, nodeVars, StartStack
    <3>3. EventsBeforeDirectories'
      BY <2>1, <2>2, AroundClaims, ClaimsPassOn DEF LoggingInv, ReplayInv
    <3>4. QED
      BY <1>1, <2>1, <3>1, <3>2, <3>3, LoggingLeavesBundles
  <2>3. ASSUME NEW r \in Recordings, NEW code \in {"clean", "broken"}, RecorderExits(r, code) PROVE ReplayInv'
    <3>1. UNCHANGED <<at, event, events, request>>
      BY <2>3 DEF RecorderExits, nodeVars
    <3>2. EventsBeforeDirectories' /\ (draft # None => at' = "spawn")
      BY <2>1, <3>1 DEF ReplayInv, BundlesOnDisk, EventsBeforeDirectories, Preparing, Waiting, Asking
    <3>3. QED
      BY <1>1, <2>1, <3>2, LoggingLeavesBundles
  <2>4. QED
    BY <1>6, <2>2, <2>3 DEF LoggingStep, Around
<1>7. CASE ReplayStep
  BY <1>7, ReplayStepKeeps
<1>8. CASE UNCHANGED allVars
  <2>1. UNCHANGED <<at, event, events, request, robot, taken, draft, bundle, replayVars>>
    BY <1>8 DEF allVars, vars, nodeVars, bundleVars, diskVars
  <2>2. EventsBeforeDirectories' /\ (draft # None => at' = "spawn")
    BY <2>1 DEF ReplayInv, BundlesOnDisk, EventsBeforeDirectories, Preparing, Waiting, Asking
  <2>3. QED
    BY <1>1, <2>1, <2>2, LoggingLeavesBundles
<1>9. QED
  BY <1>2, <1>3, <1>4, <1>5, <1>6, <1>7, <1>8 DEF ReplayNext, BundleStep

\* The recordings on disk, the player and their types.
THEOREM ReplayInvariant == ReplaySpec => []ReplayInv
<1>1. LoggingInv /\ LoggingInv' /\ ReplayInv /\ [ReplayNext]_allVars => ReplayInv'
  <2>1. LoggingInv' => TypeOK'
    BY DEF LoggingInv
  <2>2. QED
    BY <2>1, ReplayKeeps
<1>2. QED
  BY <1>1, ReplayStart, LoggingInvariant, PTL DEF ReplaySpec

\* Every variable of the logger, its console, the disk and the player is of its type.
THEOREM ReplayTypeCorrect == ReplaySpec => []ReplayTypeOK
<1>1. ReplayInv => ReplayTypeOK
  BY DEF ReplayInv
<1>2. QED
  BY <1>1, ReplayInvariant, PTL

\* What a replay plays was recorded on the selected robot by a recorder that had been told to stop or
\* has ended (it may still be flushing, or have broken off), no recording lies in another's directory,
\* and what is shown of the player's end is what happened (RecordingCatalog, ReplayManager).
THEOREM WhatIsReplayedWasRecorded == ReplaySpec => []ReplayIsHonest
<1>1. ReplayInv => ReplayIsHonest
  BY DEF ReplayInv, ReplayIsHonest
<1>2. QED
  BY <1>1, ReplayInvariant, PTL
=============================================================================

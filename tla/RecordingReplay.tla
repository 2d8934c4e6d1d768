--------------------------- MODULE RecordingReplay ---------------------------
(***************************************************************************)
(* What becomes of a recording: the bundle that the logger node prepares     *)
(* for it on disk (recording.py), and the player that the console runs over   *)
(* it later (orchestrator/replay.py), once the stack was stopped.  The disk   *)
(* outlives every process; a bundle may be left half-made by an interrupt.    *)
(* The nodes of a replay, and stacks that fail, are in OrchestratorService.  *)
(***************************************************************************)
EXTENDS DataLogging, FiniteSets

CONSTANTS
    Robots,     \* RobotName
    Times       \* what the wall clock may read when a recording is prepared

ASSUME ReplayAssumption ==
    /\ Robots # {} /\ IsFiniteSet(Robots) /\ None \notin Robots
    /\ Times # {} /\ Times \subseteq Nat
    /\ None \notin {"COMPLETED", "STOPPED"}

VARIABLES
    robot,      \* NodeManager.robot, under which the stack and the replay are started
    taken,      \* the recording directories on disk: a time and a suffix
    draft,      \* the directory of the recording under preparation
    bundle,     \* what a recording has on disk: its directory, its robot, whether it has a log
    source,     \* ReplayManager._source
    player,     \* ReplayManager._process: absent, alive, or ended and not yet polled
    outcome,    \* ReplayManager._outcome
    stderr,     \* whether the file that takes the player's errors is open
    exit        \* how the last player ended: "interrupted" if it was found alive when it was to be stopped

diskVars == <<taken, draft, bundle>>
replayVars == <<source, player, outcome, stderr, exit>>
bundleVars == <<robot, diskVars, replayVars>>
allVars == <<vars, bundleVars>>

Suffixes == 0..(2 * MaxEvents)
Directory == Times \X Suffixes

ASSUME NoDirectoryAssumption == None \notin Directory

Bundle == [dir : Directory \cup {None}, robot : Robots \cup {None}, log : BOOLEAN]

ReplayTypeOK ==
    /\ TypeOK
    /\ robot \in Robots
    /\ taken \subseteq Directory
    /\ draft \in taken \cup {None}
    /\ bundle \in [Recordings -> Bundle]
    /\ source \in Recordings \cup {None}
    /\ player \in {"absent", "alive", "ok", "error"}
    /\ outcome \in {None, "COMPLETED", "FAILED", "STOPPED"}
    /\ stderr \in BOOLEAN
    /\ exit \in {None, "ok", "error", "interrupted"}

ReplayInit ==
    /\ Init
    /\ robot = CHOOSE name \in Robots : TRUE
    /\ taken = {} /\ draft = None
    /\ bundle = [r \in Recordings |-> [dir |-> None, robot |-> None, log |-> FALSE]]
    /\ source = None
    /\ player = "absent" /\ outcome = None /\ stderr = FALSE /\ exit = None

-----------------------------------------------------------------------------
(* RecordingCatalog.create, within _start_logging.                         *)

\* Mutant: the suffix is not counted on.
FirstSuffix(time) == 0

\* The first suffix that no directory has; the clock may stand still or be set back.
FreeSuffix(time) == CHOOSE n \in Suffixes : /\ <<time, n>> \notin taken
                                            /\ \A k \in 0..(n - 1) : <<time, k>> \in taken

\* The directory first, then the manifest with the robot's configuration in it.
PrepareBundle(time) ==
    /\ at = "spawn" /\ draft = None
    /\ draft' = <<time, FreeSuffix(time)>>
    /\ taken' = taken \cup {draft'}
    /\ UNCHANGED <<vars, robot, bundle, replayVars>>

\* lcm-logger, if it runs, creates its log beside the manifest.
SpawnInBundle(r, alive) ==
    /\ draft # None
    /\ Spawn(r, alive)
    /\ bundle' = [bundle EXCEPT ![r] = [dir |-> draft, robot |-> robot, log |-> alive]]
    /\ draft' = None
    /\ UNCHANGED <<robot, taken, replayVars>>

\* The disk or the command fails, before the manifest is written or after, or the node is
\* interrupted: the directory stays as it is.
AbandonDraft ==
    /\ draft' = None
    /\ UNCHANGED <<robot, taken, bundle, replayVars>>

-----------------------------------------------------------------------------
(* RecordingCatalog.list and get, ReplayManager.validate.                  *)

\* A directory without a log, or with half a manifest, is passed over.
Listed(r) == bundle[r].dir # None /\ bundle[r].log

\* Mutant: any recording is replayed on any robot.
ValidAnyway(r) == Listed(r)

Valid(r) == Listed(r) /\ bundle[r].robot = robot

-----------------------------------------------------------------------------
(* ReplayManager, and the requests that call it.                           *)

\* Mutant: a replay is started beside the stack.
NoOtherReplay == player # "alive"

\* start_replay asks for a console without running processes.  A stack that failed at start-up counts as
\* one without, before its logger has ended; stacks are only stopped here, never failing, so that
\* the node of a stack that does not run has ended (OrchestratorService has the ones that fail).
NothingRuns == player # "alive" /\ at = "ended"

\* Mutant: whatever is left when the player has gone counts as completed.
PolledEarly == IF player = "alive" THEN outcome ELSE "COMPLETED"

\* Mutant: the outcome is the exit code.
PolledCode == CASE player \in {"ok", "error"} -> player [] OTHER -> outcome

PolledOutcome == CASE player = "ok" -> "COMPLETED" [] player = "error" -> "FAILED" [] OTHER -> outcome

\* _status_locked: a player that has ended is let go of, with its error file.
PollPlayer ==
    /\ player' = IF player = "alive" THEN player ELSE "absent"
    /\ outcome' = PolledOutcome
    /\ stderr' = (stderr /\ player' # "absent")

replayFrame == <<vars, robot, diskVars>>

\* start(), for a recording that has been validated; the log may have gone meanwhile, and the
\* player may not be there.
PlayerStarts(r, spawned) ==
    /\ source' = r
    /\ player' = IF spawned THEN "alive" ELSE "absent"
    /\ outcome' = IF spawned THEN None ELSE "FAILED"
    /\ stderr' = spawned
    /\ exit' = None

\* start_replay: the nodes of the replay are started after the recording has been validated.
StartReplay(r, spawned) ==
    /\ request = "idle"
    /\ NothingRuns
    /\ IF Valid(r) THEN PlayerStarts(r, spawned)
       ELSE PollPlayer /\ UNCHANGED <<source, exit>>
    /\ UNCHANGED replayFrame

PlayerEnds(code) ==
    /\ player = "alive"
    /\ player' = code /\ exit' = code
    /\ UNCHANGED <<replayFrame, source, outcome, stderr>>

PollReplay ==
    /\ request = "idle"
    /\ PollPlayer
    /\ UNCHANGED <<replayFrame, source, exit>>

\* stop() and fail(): the player is polled, interrupted, killed after a while, and waited for; one
\* that had ended before the poll keeps its own outcome in stop(), and fails all the same in fail().
\* One that ends between the poll and the signal is taken for an interrupted one, as it is there.
StopPlayer(result) ==
    /\ request = "idle" /\ source # None
    /\ player' = "absent" /\ stderr' = FALSE
    /\ IF player = "alive"
       THEN outcome' = result /\ exit' = "interrupted"
       ELSE /\ outcome' = IF result = "FAILED" THEN result ELSE PolledOutcome
            /\ UNCHANGED exit
    /\ UNCHANGED <<replayFrame, source>>

\* set_robot, which is refused while a process runs.
SetRobot(name) ==
    /\ request = "idle" /\ name # robot
    /\ at = "ended" /\ player = "absent"
    /\ robot' = name
    /\ UNCHANGED <<vars, diskVars, replayVars>>

-----------------------------------------------------------------------------
\* DataLogging, whose recorders now write into bundles; the stack is not started beside a
\* replay.
LoggerStep ==
    /\ \/ ReportUnexpectedExit \/ ReceiveEvent \/ CreateRecording \/ StopNothing \/ StopRecorder
       \/ RecorderEnded \/ RecorderKilled \/ NodeEnds
    /\ UNCHANGED bundleVars

BundleStep ==
    \/ \E time \in Times : PrepareBundle(time)
    \/ \E r \in Recordings, alive \in BOOLEAN : SpawnInBundle(r, alive)

LoggingStep ==
    \/ DeliverReport
    \/ ConsoleStep
    \/ Poll
    \/ PollExpired
    \/ StopStack
    \/ player # "alive" /\ StartStack
    \/ \E kind \in {"START", "STOP"} : SetLogging(kind)
    \/ \E kind \in Others : SomebodyPublishes(kind)
    \/ \E r \in Recordings, code \in {"clean", "broken"} : RecorderExits(r, code)

ReplayStep ==
    \/ \E r \in Recordings, spawned \in BOOLEAN : StartReplay(r, spawned)
    \/ \E code \in {"ok", "error"} : PlayerEnds(code)
    \/ PollReplay
    \/ \E result \in {"STOPPED", "FAILED"} : StopPlayer(result)
    \/ \E name \in Robots : SetRobot(name)

ReplayNext ==
    \/ LoggerStep
    \/ BundleStep
    \/ StartFails /\ AbandonDraft
    \/ Interrupt /\ AbandonDraft
    \/ LoggingStep /\ UNCHANGED bundleVars
    \/ ReplayStep

ReplaySpec == ReplayInit /\ [][ReplayNext]_allVars

\* As in DataLogging; the player and the operator are under no obligation.
ReplayFairness ==
    /\ WF_allVars(LoggerStep \/ BundleStep \/ (StartFails /\ AbandonDraft))
    /\ WF_allVars(Interrupt /\ AbandonDraft)
    /\ WF_allVars(DeliverReport /\ UNCHANGED bundleVars)
    /\ WF_allVars(ConsoleStep /\ UNCHANGED bundleVars)
    /\ WF_allVars(Poll /\ UNCHANGED bundleVars)
    /\ SF_allVars(PollExpired /\ UNCHANGED bundleVars)

FairReplaySpec == ReplaySpec /\ ReplayFairness

-----------------------------------------------------------------------------
(* What holds.                                                             *)

\* No two recordings share a directory, also when the clock stands still and when a
\* preparation was given up half-way: none writes over another's log or manifest.
RecordingsKeptApart ==
    \A r, s \in Recordings : (r # s /\ bundle[r].dir # None) => bundle[r].dir # bundle[s].dir

\* What is replayed was recorded on the robot that is selected, and its recorder was told to
\* stop before (it may still be flushing, when the node could not wait for it): robots change
\* and stacks start and stop between a recording and its replay.
ReplayFitsRecording ==
    player = "alive" =>
        /\ bundle[source].robot = robot
        /\ recorder[source] \notin {"unborn", "records"}

\* The outcome shown is the one of the last player: completed only if it played to the end,
\* stopped only if it was alive when that was asked; its error file is open only while it is held.
OutcomeIsHonest ==
    /\ outcome = "COMPLETED" => exit = "ok"
    /\ outcome = "STOPPED" => exit = "interrupted"
    /\ stderr => player # "absent"

\* What a replay plays, and shows of its end, is what was recorded, and what happened.
ReplayIsHonest == RecordingsKeptApart /\ ReplayFitsRecording /\ OutcomeIsHonest

=============================================================================

----------------------------- MODULE ConsoleFeeds -----------------------------
(***************************************************************************)
(* What the console tells its operator beside the state of the robot: the     *)
(* application log, which a browser tab follows by a cursor through a bounded  *)
(* buffer (orchestrator/monitor/application_log.py, ui/static/js/app.js), and  *)
(* the actuators' health, which outlives the driver that reported it           *)
(* (orchestrator/monitor/actuator.py).  Rates are in NodeRates.  The feeds do  *)
(* not meet, so a behaviour follows one of them.                              *)
(***************************************************************************)
EXTENDS Integers, Sequences, FiniteSets

CONSTANTS
    Capacity,       \* APPLICATION_LOG_RETAINED_ENTRIES
    MaxMessages,    \* bound: messages that are logged
    MaxLives,       \* bound: starts of the console
    MaxStacks,      \* bound: starts of the stack
    MaxReports,     \* bound: reports of actuators
    Nobody          \* no value

ASSUME FeedsAssumption ==
    /\ Capacity \in Nat \ {0}
    /\ {MaxMessages, MaxLives, MaxStacks, MaxReports} \subseteq Nat
    /\ Nobody \notin Int

VARIABLES
    logged,     \* the lines of the log file so far: a message may have two
    life,       \* starts of the console so far
    cursor,     \* _ApplicationLogBuffer._cursor
    entries,    \* its _entries: cursor and message
    reply,      \* the snapshot on its way to the tab, Nobody; history: what was retained, and
                \* whether the tab's cursor told that it was another console's
    retained,   \* history: what the console retained when it gave the answer last shown
    tab,        \* the tab: applicationLogs, applicationLogCursor, the console they are from
    stacks,     \* starts of the stack so far
    driver,     \* the driver: none, runs, closing
    reports,    \* reports so far
    report,     \* a report under way, Nobody
    mailbox,    \* the monitor's queue
    health      \* ActuatorHealthMonitor._report

logVars == <<logged, life, cursor, entries, reply, retained, tab>>
healthVars == <<stacks, driver, reports, report, mailbox, health>>
feedsVars == <<logVars, healthVars>>

EmptyTab == [messages |-> <<>>, after |-> Nobody, of |-> 0]

FeedsAt(lives, starts) ==
    /\ logged = <<>> /\ life = lives /\ cursor = 0 /\ entries = <<>>
    /\ reply = Nobody /\ retained = <<>> /\ tab = EmptyTab
    /\ stacks = starts /\ driver = "none" /\ reports = 0
    /\ report = Nobody /\ mailbox = Nobody /\ health = Nobody

FeedsInit == FeedsAt(0, 0)

FeedsTypeOK ==
    /\ life \in 0..MaxLives
    /\ Len(entries) <= Capacity /\ Len(tab.messages) <= Capacity
    /\ \A i \in DOMAIN entries : entries[i].cursor = cursor - Len(entries) + i
    /\ driver \in {"none", "runs", "closing"}
    /\ stacks \in 0..MaxStacks /\ reports \in 0..MaxReports

-----------------------------------------------------------------------------
(* The application log.                                                    *)

\* Mutant: one more is kept.
LastOnesAndOne(s, n) == IF Len(s) <= n + 1 THEN s ELSE SubSeq(s, Len(s) - n, Len(s))

LastOnes(s, n) == IF Len(s) <= n THEN s ELSE SubSeq(s, Len(s) - n + 1, Len(s))
Messages(s) == [i \in DOMAIN s |-> s[i].message]
MessagesLogged == IF logged = <<>> THEN 0 ELSE logged[Len(logged)]

\* A console starts with the end of the log file, one entry a line.
ConsoleStarts ==
    /\ life < MaxLives
    /\ LET lines == LastOnes(logged, Capacity) IN
       /\ entries' = [i \in DOMAIN lines |-> [cursor |-> i, message |-> lines[i]]]
       /\ cursor' = Len(lines)
    /\ life' = life + 1
    /\ reply' = Nobody
    /\ UNCHANGED <<logged, retained, tab, healthVars>>

\* emit, and the file's handler; a message with a traceback has more than one line.
LogMessage(lines) ==
    /\ life > 0 /\ MessagesLogged < MaxMessages
    /\ LET message == MessagesLogged + 1 IN
       /\ cursor' = cursor + 1
       /\ entries' = LastOnes(Append(entries, [cursor |-> cursor + 1, message |-> message]), Capacity)
       /\ logged' = logged \o [i \in 1..lines |-> message]
    /\ UNCHANGED <<life, reply, retained, tab, healthVars>>

\* Mutant: a cursor that is not of this console is taken for one.
ResetIfMissed(after) == entries # <<>> /\ after < entries[1].cursor - 1

\* The tab has missed something, or knows more than there is.
LogReset(after) == after > cursor \/ (entries # <<>> /\ after < entries[1].cursor - 1)

\* snapshot: cursors increase, so that the entries after the tab's are the last ones.
SnapshotLog ==
    /\ life > 0 /\ reply = Nobody
    /\ LET after == tab.after
           reset == after # Nobody /\ LogReset(after)
           new == {i \in DOMAIN entries : after = Nobody \/ reset \/ entries[i].cursor > after}
       IN  reply' = [cursor |-> cursor, entries |-> LastOnes(entries, Cardinality(new)), reset |-> reset,
                     retained |-> Messages(entries),
                     anew |-> after = Nobody \/ after > cursor \/ reset]
    /\ UNCHANGED <<logged, life, cursor, entries, retained, tab, healthVars>>

\* loadApplicationLogs, one request at a time.
TabShows ==
    /\ reply # Nobody
    /\ LET kept == IF reply.reset THEN <<>> ELSE tab.messages IN
       tab' = [messages |-> LastOnes(kept \o Messages(reply.entries), Capacity), after |-> reply.cursor,
               of |-> IF reply.anew THEN life ELSE tab.of]
    /\ retained' = reply.retained
    /\ reply' = Nobody
    /\ UNCHANGED <<logged, life, cursor, entries, healthVars>>

RequestFails ==
    /\ reply # Nobody
    /\ reply' = Nobody
    /\ UNCHANGED <<logged, life, cursor, entries, retained, tab, healthVars>>

-----------------------------------------------------------------------------
(* The actuators' health: reports in the order of their publication.         *)

\* A driver reports with its feedback; a failure is reported as well, and ends it.
DriverReports(fault) ==
    /\ driver = "runs" /\ report = Nobody /\ reports < MaxReports
    /\ reports' = reports + 1
    /\ report' = [number |-> reports + 1, fault |-> fault]
    /\ driver' = IF fault THEN "closing" ELSE driver
    /\ UNCHANGED <<logVars, stacks, mailbox, health>>

\* on_close: what fails is reported.
CloseFails ==
    /\ driver = "closing" /\ report = Nobody /\ reports < MaxReports
    /\ reports' = reports + 1
    /\ report' = [number |-> reports + 1, fault |-> TRUE]
    /\ driver' = "none"
    /\ UNCHANGED <<logVars, stacks, mailbox, health>>

\* It is closed, or was killed.
DriverGone ==
    /\ driver # "none"
    /\ driver' = "none"
    /\ UNCHANGED <<logVars, stacks, reports, report, mailbox, health>>

ReportArrives ==
    /\ report # Nobody
    /\ mailbox' = report /\ report' = Nobody
    /\ UNCHANGED <<logVars, stacks, driver, reports, health>>

ReportIsLost ==
    /\ report # Nobody
    /\ report' = Nobody
    /\ UNCHANGED <<logVars, stacks, driver, reports, mailbox, health>>

\* Mutant: a report that is too old is shown as none.
ForgetsStale(received, stale) == IF stale THEN Nobody ELSE IF received = Nobody THEN health ELSE received

\* What snapshot retains: the last report, however old.
Retains(received, stale) == IF received = Nobody THEN health ELSE received

SnapshotHealth(stale) ==
    /\ health' = Retains(mailbox, stale)
    /\ mailbox' = Nobody
    /\ UNCHANGED <<logVars, stacks, driver, reports, report>>

\* start_process(STACK): reset, then the driver.
StackStartsAnew ==
    /\ driver = "none" /\ stacks < MaxStacks
    /\ stacks' = stacks + 1 /\ driver' = "runs"
    /\ health' = Nobody /\ mailbox' = Nobody
    /\ UNCHANGED <<logVars, reports, report>>

FeedsNext ==
    \/ stacks = 0 /\ (ConsoleStarts \/ \E lines \in 1..2 : LogMessage(lines))
    \/ SnapshotLog
    \/ TabShows
    \/ RequestFails
    \/ life = 0 /\ StackStartsAnew
    \/ \E fault \in BOOLEAN : DriverReports(fault)
    \/ CloseFails
    \/ DriverGone
    \/ ReportArrives
    \/ ReportIsLost
    \/ stacks > 0 /\ \E stale \in BOOLEAN : SnapshotHealth(stale)

-----------------------------------------------------------------------------
(* Properties.                                                             *)

\* A tab that follows a console, also one that was started anew with fewer messages than the tab
\* has seen, misses nothing and shows nothing twice: after every answer it
\* shows what the console retained when it answered, however many messages came between two
\* requests and whatever requests failed (snapshot, loadApplicationLogs).
TabMissesNothing == (reply = Nobody /\ tab.of = life /\ life > 0) => tab.messages = retained

\* A fault that is shown stays on show after its driver has ended, however long, until the
\* stack is started anew or a driver reports again (ActuatorHealthMonitor).
FaultOutlivesDriver ==
    [][(health # Nobody /\ health.fault /\ health' # health)
       => (stacks' > stacks \/ (health' # Nobody /\ health'.number > health.number))]_feedsVars

\* The console forgets nothing that its operator still has to see.
ConsoleForgetsNothing == []TabMissesNothing /\ FaultOutlivesDriver

=============================================================================

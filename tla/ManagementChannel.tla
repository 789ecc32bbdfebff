-------------------------- MODULE ManagementChannel --------------------------
(***************************************************************************)
(* The command channel between the controller and the Helper of ONE server. *)
(*                                                                         *)
(* The Helper polls: every report it uploads carries the result it still    *)
(* owes (PendingResult), and the answer carries the command at the head of  *)
(* the controller's queue.  The controller removes a command only when its  *)
(* result arrives or it expires; the Helper recognises commands it already  *)
(* ran by a bounded list of IDs.  Both keep their state in memory and in a  *)
(* durable file, and either may stop between any two steps.                 *)
(*                                                                         *)
(*   controller  agent_management.go, connection_control.go                 *)
(*   Helper      cmd/mmwxc-helper/main.go (runOnce), management.go, state*.go *)
(*                                                                         *)
(* Commands carry random UUIDs in the code.  Here they are numbered in the  *)
(* order in which they are drawn; both sides only compare them for equality. *)
(***************************************************************************)
EXTENDS Integers, Sequences, SequencesExt, FiniteSets, DurableStore

CONSTANTS
    MaxCommands,    \* bound: commands drawn in a behaviour
    Uninstalls,     \* which of them are helper.uninstall
    BatchCommands,  \* which of them a Helper batch issued
    Cancellable,    \* bound: which of them may be withdrawn
    CommandTTL,     \* managementCommandTTL
    BatchTTL,       \* helperBatchTimeout
    ClockSkew,      \* managementClockSkew
    HelperDrift,    \* what the Helper's clock may read, relative to the controller's
    QueueMax,       \* managementQueueMax
    HistoryMax,     \* managementHistoryMax
    CompletedMax,   \* completedCommandMax
    MaxTime,        \* bound: clock
    MaxFaults,      \* bound: crashes, damaged files and failed writes
    MaxLosses,      \* bound: calls whose answer the Helper never reads
    MaxMishaps      \* bound: both together

ASSUME BoundsAssumption ==
    /\ MaxCommands \in Nat /\ MaxTime \in Nat
    /\ MaxFaults \in Nat /\ MaxLosses \in Nat /\ MaxMishaps \in Nat
ASSUME TimesAssumption ==
    /\ CommandTTL \in Nat /\ BatchTTL \in Nat /\ ClockSkew \in Nat
    /\ HelperDrift \subseteq Int
ASSUME LimitsAssumption ==
    /\ QueueMax \in Nat \ {0} /\ HistoryMax \in Nat \ {0}
    /\ CompletedMax \in Nat \ {0}

Command == 1..MaxCommands
ASSUME KindsAssumption ==
    Uninstalls \subseteq Command /\ BatchCommands \subseteq Command /\ Cancellable \subseteq Command
NoCommand == 0
\* A result is known by the command it answers; nothing here depends on its success.
Result == Command
NoResult == NoCommand

VARIABLES
    now,          \* the controller's clock
    registered,   \* the official server row exists (RemoteServerExists)
    drawn,        \* command IDs drawn so far
    expiresAt,    \* ExpiresAt of each drawn command
    ctl,          \* controller memory: ManagementCommands and ManagementResults
    ctlStore,     \* helper-state.json and its .bak
    rewound,      \* history: the controller has loaded its .bak
    helper,       \* Helper memory: the part of localState the channel uses
    helperStore,  \* the Helper's state file and its .bak
    pc,           \* where the Helper's single goroutine stands
    reply,        \* the command in the answer being read or run
    late,         \* reports whose client gave up: they may still be handled
    ran,          \* history: commands the Helper executed, in order
    forgotten,    \* history: how often a restart lost the record of a command
    faults, losses

controllerVars == <<registered, ctl, ctlStore, rewound>>
helperVars == <<helper, helperStore, reply>>
historyVars == <<ran, forgotten>>
boundVars == <<faults, losses>>
vars == <<now, drawn, expiresAt, controllerVars, helperVars, pc, late, historyVars,
          boundVars>>

EmptyController == [queue |-> <<>>, history |-> <<>>]
ControllerState ==
    { c \in [queue: Seq(Command), history: Seq(Result)] :
        Len(c.queue) <= QueueMax /\ Len(c.history) <= HistoryMax }
FreshHelper == [pending |-> NoResult, completed |-> <<>>, uninstalling |-> FALSE]
HelperState ==
    { h \in [pending: Result \cup {NoResult}, completed: Seq(Command),
            uninstalling: BOOLEAN] : Len(h.completed) <= CompletedMax }

Init ==
    /\ now = 0
    /\ registered = TRUE
    /\ drawn = 0
    /\ expiresAt = [c \in Command |-> 0]
    /\ ctl = EmptyController
    /\ ctlStore = BothHold(EmptyController)
    /\ rewound = FALSE
    /\ helper = FreshHelper
    /\ helperStore = BothHold(FreshHelper)
    /\ pc = "idle"
    /\ reply = NoCommand
    /\ late = {}
    /\ ran = <<>>
    /\ forgotten = [c \in Command |-> 0]
    /\ faults = 0 /\ losses = 0

\* What is left of a list that may hold n entries: the newest n.
Newest(s, n) == IF Len(s) <= n THEN s ELSE SubSeq(s, Len(s) - n + 1, Len(s))

Fault == faults < MaxFaults /\ faults + losses < MaxMishaps /\ faults' = faults + 1

\* helperState.saveLocked: the whole state is written; a failure is returned.
SavedController(new) ==
    ctlStore' = Replaced(ctlStore, new) /\ UNCHANGED faults
UnsavedController(new) ==
    Fault /\ ctlStore' \in Interrupted(ctlStore, new)

Tick ==
    /\ now < MaxTime
    /\ now' = now + 1
    /\ UNCHANGED <<drawn, expiresAt, controllerVars, helperVars, pc, late,
                   historyVars, boundVars>>

-----------------------------------------------------------------------------
(* The controller: agent_management.go *)

Ttl(c) == IF c \in BatchCommands THEN BatchTTL ELSE CommandTTL

Queued(queue, c) == Append(queue, c)

\* enqueueManagementCommand: the queue is rolled back when the save fails.
Enqueue ==
    /\ drawn < MaxCommands /\ now + CommandTTL < MaxTime
    /\ registered
    /\ Len(ctl.queue) < QueueMax
    /\ LET c == drawn + 1
           new == [ctl EXCEPT !.queue = Queued(@, c)]
       IN  /\ drawn' = c
           /\ expiresAt' = [expiresAt EXCEPT ![c] = now + Ttl(c)]
           /\ \/ SavedController(new) /\ ctl' = new
              \/ UnsavedController(new) /\ UNCHANGED ctl
    /\ UNCHANGED <<now, registered, rewound, helperVars, pc, late, historyVars,
                   losses>>

\* A result removes the command at the head of the queue, and only that one.
Acknowledged(queue, result) ==
    IF queue # <<>> /\ Head(queue) = result THEN Tail(queue) ELSE queue

\* Mutant: an expired command stays until it is answered.
NothingExpires(queue) == queue

\* Expired commands are dropped from the front, up to the first live one.
WithoutExpired(queue) ==
    LET live == { i \in 1..Len(queue) : now <= expiresAt[queue[i]] }
    IN  IF live = {} THEN <<>> ELSE SubSeq(queue, Min(live), Len(queue))

\* Mutant: the history is never trimmed.
RememberedUntrimmed(history, result) ==
    IF result = NoResult THEN history ELSE Append(history, result)

\* Every result that comes with a report is kept, whatever it answers.
Remembered(history, result) ==
    IF result = NoResult THEN history ELSE Newest(Append(history, result), HistoryMax)

AfterReport(result) ==
    [queue |-> WithoutExpired(Acknowledged(ctl.queue, result)),
     history |-> Remembered(ctl.history, result)]

\* Mutant: a result that removes no command is kept in memory only.
AcceptReportLazily(result) ==
    LET new == AfterReport(result)
    IN  /\ ctl' = new
        /\ IF new.queue = ctl.queue
           THEN UNCHANGED <<ctlStore, faults>>
           ELSE SavedController(new)

\* acceptManagementReport: saved at once when a result came or the queue became
\* shorter.  A plain heartbeat changes nothing kept here.
AcceptReport(result) ==
    LET new == AfterReport(result)
    IN  /\ ctl' = new
        /\ IF result = NoResult /\ new = ctl
           THEN UNCHANGED <<ctlStore, faults>>
           ELSE SavedController(new)

\* ... and rolled back as a whole when that save fails; the Helper gets an error.
RejectReport(result) ==
    LET new == AfterReport(result)
    IN  /\ ~(result = NoResult /\ new = ctl)
        /\ UnsavedController(new)
        /\ UNCHANGED ctl

\* What the answer carries; the command stays queued until its result.
NextCommand(queue) == IF queue = <<>> THEN NoCommand ELSE Head(queue)

ControllerAnswers ==
    /\ pc = "sent"
    /\ \/ ~registered /\ pc' = "unauthorized" /\ UNCHANGED <<ctl, ctlStore, reply, faults>>
       \/ /\ registered
          /\ \/ /\ AcceptReport(helper.pending)
                /\ pc' = "answered"
                /\ reply' = NextCommand(ctl'.queue)
             \/ RejectReport(helper.pending) /\ pc' = "idle" /\ UNCHANGED reply
    /\ UNCHANGED <<now, drawn, expiresAt, registered, rewound, helper,
                   helperStore, late, historyVars, losses>>

\* A report the Helper has given up on is handled like any other.
ControllerHandlesLateReport ==
    /\ \E result \in late :
          /\ late' = late \ {result}
          /\ \/ ~registered /\ UNCHANGED <<ctl, ctlStore, faults>>
             \/ registered /\ (AcceptReport(result) \/ RejectReport(result))
    /\ UNCHANGED <<now, drawn, expiresAt, registered, rewound, helperVars, pc,
                   historyVars, losses>>

\* Any other change of the state file writes the whole of it, this part included.
ControllerSavesOther ==
    /\ SavedController(ctl) \/ UnsavedController(ctl)
    /\ UNCHANGED <<now, drawn, expiresAt, registered, ctl, rewound, helperVars,
                   pc, late, historyVars, losses>>

Withdrawn(i) == [ctl EXCEPT !.queue = RemoveAt(@, i)]

\* Other parts withdraw commands they no longer want: updates that fell silent or
\* whose batch row ended, a core.mode.apply overtaken by a new install, the rest of
\* the queue before a deleted server's uninstall.  Some of them save later, some roll
\* back and some do not.  They may remove several at once; here one at a time.
WithdrawCommand ==
    /\ registered
    /\ \E i \in 1..Len(ctl.queue) :
          /\ ctl.queue[i] \in Cancellable
          /\ \/ SavedController(Withdrawn(i)) /\ ctl' = Withdrawn(i)
             \/ UNCHANGED <<ctlStore, faults>> /\ ctl' = Withdrawn(i)
             \/ UnsavedController(Withdrawn(i)) /\ ctl' \in {ctl, Withdrawn(i)}
    /\ UNCHANGED <<now, drawn, expiresAt, registered, rewound, helperVars, pc, late,
                   historyVars, losses>>

\* The server is deleted: its row is gone, retireDeletedServerState forgets the
\* queue and the history, and keeps them forgotten in memory if the save fails.
RetireServer ==
    /\ registered
    /\ registered' = FALSE
    /\ ctl' = EmptyController
    /\ SavedController(EmptyController) \/ UnsavedController(EmptyController)
    /\ UNCHANGED <<now, drawn, expiresAt, rewound, helperVars, pc, late,
                   historyVars, losses>>

\* helperState.load: the primary, or the backup when the primary is damaged.
ControllerRestarts ==
    /\ Fault
    /\ \/ ctl' = ctlStore.main /\ UNCHANGED <<ctlStore, rewound>>
       \/ /\ ctl' = ctlStore.bak
          /\ ctlStore' = RestoredFromBackup(ctlStore)
          /\ rewound' = TRUE
    /\ UNCHANGED <<now, drawn, expiresAt, registered, helperVars, pc, late,
                   historyVars, losses>>

-----------------------------------------------------------------------------
(* The Helper: runOnce, one pass every five seconds in one goroutine *)

\* A save whose failure the Helper only logs.
HelperSaves(state) ==
    \/ helperStore' = Replaced(helperStore, state) /\ UNCHANGED faults
    \/ Fault /\ helperStore' \in Interrupted(helperStore, state)

\* The pass saves its heartbeat, then uploads the report with the result it owes.
\* With an uninstall pending it saves nothing.
HelperReports ==
    /\ pc = "idle"
    /\ pc' = "sent"
    /\ IF helper.uninstalling
       THEN UNCHANGED <<helperStore, faults>>
       ELSE HelperSaves(helper)
    /\ UNCHANGED <<now, drawn, expiresAt, controllerVars, helper, reply, late,
                   historyVars, losses>>

\* Mutant: the owed result is dropped with the failed upload.
CallFailsDroppingResult ==
    /\ pc \in {"sent", "answered", "unauthorized"}
    /\ losses < MaxLosses /\ faults + losses < MaxMishaps /\ losses' = losses + 1
    /\ pc' = "idle" /\ reply' = NoCommand
    /\ helper' = [helper EXCEPT !.pending = NoResult]
    /\ UNCHANGED <<now, drawn, expiresAt, controllerVars, helperStore, late, historyVars,
                   faults>>

\* The upload fails: the request was not delivered, is still under way, was
\* rate limited, or its answer is an error or is lost.
CallFails ==
    /\ pc \in {"sent", "answered", "unauthorized"}
    /\ losses < MaxLosses /\ faults + losses < MaxMishaps /\ losses' = losses + 1
    /\ pc' = "idle"
    /\ \/ UNCHANGED late
       \/ pc = "sent" /\ late' = late \cup {helper.pending}
    /\ reply' = NoCommand
    /\ UNCHANGED <<now, drawn, expiresAt, controllerVars, helper, helperStore, historyVars,
                   faults>>

\* A success means that the result was taken.  A command already in the
\* completed list is not run again.
HelperReadsAnswer ==
    /\ pc = "answered" /\ ~helper.uninstalling
    /\ helper' = [helper EXCEPT !.pending = NoResult]
    /\ IF reply # NoCommand /\ reply \notin Range(helper.completed)
       THEN pc' = "run" /\ UNCHANGED reply
       ELSE pc' = "save" /\ reply' = NoCommand
    /\ UNCHANGED <<now, drawn, expiresAt, controllerVars, helperStore, late, historyVars,
                   boundVars>>

HelperIsRefused ==
    /\ pc = "unauthorized" /\ ~helper.uninstalling
    /\ pc' = "idle"
    /\ UNCHANGED <<now, drawn, expiresAt, controllerVars, helperVars, late, historyVars,
                   boundVars>>

\* Mutant: only the last command is remembered.
WithOnlyLast(completed, c) == <<c>>

\* rememberCompletedCommand: the newest CompletedMax IDs.
WithCompleted(completed, c) ==
    IF c \in Range(completed) THEN completed
    ELSE Newest(Append(completed, c), CompletedMax)

\* The result is held in memory until the save that follows.
Finished(state, c) ==
    [state EXCEPT !.pending = c, !.completed = WithCompleted(@, c)]

\* verifyManagementCommand, by the Helper's clock.
Verified(c, clock) ==
    /\ clock + ClockSkew >= expiresAt[c] - Ttl(c)
    /\ clock - ClockSkew <= expiresAt[c]

\* A command that does not verify gets a failed result and is not executed.
HelperRejects ==
    /\ pc = "run"
    /\ \E drift \in HelperDrift : ~Verified(reply, now + drift)
    /\ helper' = Finished(helper, reply)
    /\ pc' = "save" /\ reply' = NoCommand
    /\ UNCHANGED <<now, drawn, expiresAt, controllerVars, helperStore, late, historyVars,
                   boundVars>>

HelperExecutes ==
    /\ pc = "run" /\ reply \notin Uninstalls
    /\ \E drift \in HelperDrift : Verified(reply, now + drift)
    /\ ran' = Append(ran, reply)
    /\ helper' = Finished(helper, reply)
    /\ pc' = "save" /\ reply' = NoCommand
    /\ UNCHANGED <<now, drawn, expiresAt, controllerVars, helperStore, late, forgotten,
                   boundVars>>

\* helper.uninstall saves the pending uninstall on its own, before its result
\* exists.  It fails before that save, or saves; when the save fails the result is a
\* failure, but the uninstall stays pending in memory.
HelperPreparesUninstall ==
    LET prepared == [helper EXCEPT !.uninstalling = TRUE]
    IN  /\ pc = "run" /\ reply \in Uninstalls
        /\ \E drift \in HelperDrift : Verified(reply, now + drift)
        /\ ran' = Append(ran, reply)
        /\ \/ /\ helper' = Finished(helper, reply)
              /\ UNCHANGED <<helperStore, faults>>
           \/ /\ helper' = Finished(prepared, reply)
              /\ HelperSaves(prepared)
        /\ pc' = "save" /\ reply' = NoCommand
        /\ UNCHANGED <<now, drawn, expiresAt, controllerVars, late, forgotten, losses>>

\* The pass ends by saving; the remaining saves of a pass write the same state,
\* and the next heartbeat stands for them.
HelperEndsPass ==
    /\ pc = "save"
    /\ HelperSaves(helper)
    /\ pc' = "idle"
    /\ UNCHANGED <<now, drawn, expiresAt, controllerVars, helper, reply, late,
                   historyVars, losses>>

\* Mutant: the removal does not wait for the controller's answer.
HelperFinishesUnasked ==
    /\ pc \in {"sent", "answered", "unauthorized"} /\ helper.uninstalling
    /\ pc' \in {"gone", "idle"} /\ reply' = NoCommand
    /\ UNCHANGED <<now, drawn, expiresAt, controllerVars, helper, helperStore, late,
                   historyVars, boundVars>>

\* With an uninstall pending, an accepted report (or a revoked credential) lets the
\* Helper remove itself.  Preparing again or starting the removal may fail.
HelperFinishesUninstall ==
    /\ pc \in {"answered", "unauthorized"} /\ helper.uninstalling
    /\ pc' \in {"gone", "idle"} /\ reply' = NoCommand
    /\ UNCHANGED <<now, drawn, expiresAt, controllerVars, helper, helperStore, late,
                   historyVars, boundVars>>

\* loadLocalStateWithRecovery: the primary, else the backup, else defaults.
HelperLoads ==
    \/ helper' = helperStore.main /\ UNCHANGED helperStore
    \/ helper' = helperStore.bak /\ helperStore' = RestoredFromBackup(helperStore)
    \/ helper' = FreshHelper /\ helperStore' = BothHold(FreshHelper)

HelperRestarts ==
    /\ pc # "gone"
    /\ Fault
    /\ HelperLoads
    /\ pc' = "idle" /\ reply' = NoCommand
    /\ forgotten' = [c \in Command |->
            IF c \in Range(helper.completed) /\ c \notin Range(helper'.completed)
            THEN forgotten[c] + 1 ELSE forgotten[c]]
    /\ \/ UNCHANGED late
       \/ pc = "sent" /\ late' = late \cup {helper.pending}
    /\ UNCHANGED <<now, drawn, expiresAt, controllerVars, ran, losses>>

\* Nothing more has to happen once the Helper is removed.
Done == pc = "gone" /\ UNCHANGED vars

Next ==
    \/ Tick \/ Enqueue \/ ControllerAnswers \/ ControllerHandlesLateReport
    \/ ControllerSavesOther \/ WithdrawCommand \/ RetireServer \/ ControllerRestarts
    \/ HelperReports \/ CallFails \/ HelperReadsAnswer \/ HelperIsRefused
    \/ HelperRejects \/ HelperExecutes \/ HelperPreparesUninstall
    \/ HelperEndsPass \/ HelperFinishesUninstall \/ HelperRestarts \/ Done

Spec == Init /\ [][Next]_vars

\* runOnce, step by step.
HelperPass ==
    \/ HelperReports \/ HelperReadsAnswer \/ HelperIsRefused \/ HelperFinishesUninstall
    \/ HelperRejects \/ HelperExecutes \/ HelperPreparesUninstall \/ HelperEndsPass

\* The Helper's ticker drives its pass, the controller handles what it receives, and
\* time passes.  Crashes, failed saves and lost calls are finitely many (the bounds);
\* nothing forces the operator, the deletion of the server or the late reports.
Fairness ==
    /\ WF_vars(Tick)
    /\ WF_vars(HelperPass)
    /\ WF_vars(ControllerAnswers)

FairSpec == Spec /\ Fairness
-----------------------------------------------------------------------------
(* Properties *)

Answered(history) == { history[i] : i \in 1..Len(history) }
Executions(c) == Cardinality({ i \in 1..Len(ran) : ran[i] = c })

\* Types, and the three limits: the queue (managementQueueMax), the result history
\* (managementHistoryMax) and the replay window (completedCommandMax) never
\* outgrow their constants, in memory or in any file.
TypeOK ==
    /\ now \in Nat /\ registered \in BOOLEAN /\ rewound \in BOOLEAN
    /\ drawn \in 0..MaxCommands
    /\ expiresAt \in [Command -> Nat]
    /\ ctl \in ControllerState /\ ctlStore \in Store(ControllerState)
    /\ helper \in HelperState /\ helperStore \in Store(HelperState)
    /\ pc \in {"idle", "sent", "answered", "unauthorized", "run", "save", "gone"}
    /\ reply \in Command \cup {NoCommand} /\ (pc = "run" => reply \in Command)
    /\ late \subseteq Result \cup {NoResult}
    /\ ran \in Seq(Command)
    /\ forgotten \in [Command -> Nat]
    /\ faults \in Nat /\ losses \in Nat

\* A command is executed once, and once more for each restart of the Helper that
\* lost its record (the command ran, the save after it did not reach the disk or
\* the file was damaged).  As long as the replay window covers the commands drawn,
\* nothing the controller or the network does adds an execution: not a lost answer,
\* a report handled late, a rolled-back save, nor a controller that falls back to
\* its .bak and queues an answered command again.  (Beyond the window such a fall
\* back can.)
ExecutedOncePerRecord ==
    drawn <= CompletedMax => \A c \in Command : Executions(c) <= 1 + forgotten[c]

\* No result is lost between the two: a command in the Helper's completed list
\* either still has its result waiting in memory, or the controller has that
\* result in its file.  (The server must exist, the controller must not have
\* fallen back to its .bak, and the history must not have been trimmed.)
CompletedIsOwedOrRecorded ==
    registered /\ ~rewound /\ Len(ctlStore.main.history) < HistoryMax =>
        \A c \in Range(helper.completed) :
            helper.pending = c \/ c \in Answered(ctlStore.main.history)

\* A Helper removes itself only when the controller has recorded the uninstall's
\* result, unless a Helper restart lost that result.
GoneIsRecorded ==
    pc = "gone" /\ registered /\ ~rewound /\ Len(ctlStore.main.history) < HistoryMax =>
        \E c \in Uninstalls : c \in Answered(ctlStore.main.history) \/ forgotten[c] > 0

ServiceEnds == ~registered \/ pc = "gone"

\* A queued command never blocks the queue for good: its result arrives or it expires,
\* although the Helper answers a command it has already completed with nothing.
QueueDrains ==
    \A c \in Command :
        c \in Range(ctl.queue) ~> c \notin Range(ctl.queue) \/ ServiceEnds

\* A result the Helper holds reaches the controller's file, unless a Helper restart
\* lost it together with the record of the command, or the controller fell back to a
\* .bak written before it arrived.
ResultsArrive ==
    \A c \in Command :
        helper.pending = c ~>
            \/ c \in Answered(ctlStore.main.history)
            \/ forgotten[c] > 0 \/ rewound \/ ServiceEnds
=============================================================================

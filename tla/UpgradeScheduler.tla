-------------------------- MODULE UpgradeScheduler --------------------------
(***************************************************************************)
(* Helper upgrades: single-server updates, batch jobs and their progress.   *)
(*                                                                         *)
(* The controller keeps, per server, the progress of the latest upgrade     *)
(* attempt and the queued update commands, and at most one running batch    *)
(* with a row per server.  Four parties change them under one lock, in any  *)
(* order: the operator (starting, stopping, updating one server), the       *)
(* five-second scheduler, the Helpers' reports, and the progress posts of   *)
(* the upgrade workers, which may be late.                                  *)
(*                                                                         *)
(*   helper_batch.go, update_progress.go, and the update part of            *)
(*   agent_management.go                                                    *)
(*                                                                         *)
(* Attempts are numbered where the code compares StartedAt.  Times are ages *)
(* in ticks, in memory and in the file, so that time never ends.            *)
(***************************************************************************)
EXTENDS Integers, FiniteSets

CONSTANTS
    Servers,       \* how many servers there are; rows are handled in this order
    MaxActive,     \* how many rows may run at once (two in advanceHelperBatch)
    BatchTimeout,  \* helperBatchTimeout, also the life of a batch's command
    CommandTTL,    \* managementCommandTTL
    MaxJobs,       \* bound: batches started
    SingleVersions,\* bound: what the operator installs on a single server
    MaxSingles,    \* bound: single-server updates asked for
    MaxPosts,      \* bound: progress posts
    MaxFaults      \* bound: failed saves, failed database reads, restarts

ASSUME CountsAssumption ==
    /\ Servers \in Nat \ {0} /\ MaxActive \in Nat \ {0}
    /\ MaxJobs \in Nat /\ MaxSingles \in Nat /\ MaxPosts \in Nat /\ MaxFaults \in Nat
ASSUME VersionsAssumption == SingleVersions \subseteq {"wanted", "other"}
ASSUME AgesAssumption ==
    BatchTimeout \in Nat \ {0} /\ CommandTTL \in Nat /\ BatchTimeout <= CommandTTL

Server == 1..Servers
\* What an update installs: the batch's Helper version, or another one.
Version == {"wanted", "other"}
Age == 0..(CommandTTL + 1)
Terminal == {"success", "failed"}   \* "failed" stands for "rolled_back", too

NoUpdate == [attempt |-> 0, version |-> "none", phase |-> "none", age |-> 0]
NoCommand == [attempt |-> 0, version |-> "none", result |-> "none"]
NoJob == [running |-> FALSE, stopped |-> FALSE,
          row |-> [s \in Server |-> [phase |-> "skipped", attempt |-> 0, age |-> 0]]]

VARIABLES
    state,      \* the controller's memory: job, update, queue, seen
    file,       \* what helper-state.json holds
    dirty,      \* updateProgressDirty
    scheduler,  \* "idle", or what helperBatchTick still has to do
    taken,      \* the command each Helper is executing
    given,      \* attempts whose command a Helper has received
    workers,    \* per server: versions whose worker may still post
    drawn,      \* attempts numbered so far
    jobs,       \* batches started so far
    issuedFor,  \* history: the server and batch each attempt was issued for
    singles, posts, faults

controllerVars == <<state, file, dirty>>
machineVars == <<taken, given, workers>>
numberVars == <<drawn, jobs, issuedFor>>
boundVars == <<singles, posts, faults>>
vars == <<controllerVars, scheduler, machineVars, numberVars, boundVars>>

Empty == [job |-> NoJob,
          update |-> [s \in Server |-> NoUpdate],
          queue |-> [s \in Server |-> {}],
          seen |-> [s \in Server |-> "old"]]

Init ==
    /\ state = Empty /\ file = Empty /\ dirty = FALSE
    /\ scheduler = "idle"
    /\ taken = [s \in Server |-> NoCommand]
    /\ given = {}
    /\ workers = [s \in Server |-> {}]
    /\ drawn = 0 /\ jobs = 0 /\ issuedFor = {}
    /\ singles = 0 /\ posts = 0 /\ faults = 0

Fault == faults < MaxFaults /\ faults' = faults + 1

\* Memory and file change together; or the save fails, the memory is rolled back and
\* the file may nevertheless hold the new contents (durableWriteFile).
Saved(new) == state' = new /\ file' = new /\ UNCHANGED faults
RolledBack(new) == Fault /\ UNCHANGED state /\ file' \in {file, new}

-----------------------------------------------------------------------------
(* Time *)

Older(age) == IF age > CommandTTL THEN age ELSE age + 1
OlderIfRunning(r) == IF r.phase = "running" THEN [r EXCEPT !.age = Older(@)] ELSE r

Aged(st) ==
    [st EXCEPT
        !.job.row = [s \in Server |-> OlderIfRunning(@[s])],
        !.update = [s \in Server |-> OlderIfRunning(@[s])],
        !.queue = [s \in Server |-> { [c EXCEPT !.age = Older(@)] : c \in @[s] }]]

\* A step of the scheduler, its database read included, takes less than a tick.
Tick ==
    /\ scheduler = "idle"
    /\ state' = Aged(state) /\ file' = Aged(file)
    /\ UNCHANGED <<dirty, scheduler, machineVars, numberVars, boundVars>>

-----------------------------------------------------------------------------
(* Who may start an upgrade *)

RowBusy(job, s) == job.running /\ job.row[s].phase \in {"queued", "running"}

\* updateQueuedLocked, upgradeInProgressLocked
UpdateQueued(st, s) == \E c \in st.queue[s] : c.age < c.life

\* Mutant: only the progress counts, not the queued command.
InProgressByPosts(st, s) == st.update[s].phase = "running" /\ st.update[s].age < CommandTTL

InProgress(st, s) ==
    \/ UpdateQueued(st, s)
    \/ st.update[s].phase = "running" /\ st.update[s].age < CommandTTL

NewCommand(attempt, version, life) ==
    [attempt |-> attempt, version |-> version, life |-> life, age |-> 0]
NewAttempt(attempt, version) ==
    [attempt |-> attempt, version |-> version, phase |-> "running", age |-> 0]

-----------------------------------------------------------------------------
(* The operator *)

\* enqueueManagementCommand for one server: refused during an upgrade of the server
\* and while a running batch has a row for it.
UpdateOneServer(s, version) ==
    LET new == [state EXCEPT
                   !.update[s] = NewAttempt(drawn + 1, version),
                   !.queue[s] = @ \cup { NewCommand(drawn + 1, version, CommandTTL) }]
    IN  /\ singles < MaxSingles /\ singles' = singles + 1
        /\ ~InProgress(state, s) /\ ~RowBusy(state.job, s)
        /\ drawn' = drawn + 1
        /\ Saved(new) \/ RolledBack(new)
        /\ UNCHANGED <<dirty, scheduler, machineVars, jobs, issuedFor, posts>>

\* helperBatchPreviewLocked keeps the servers that can be upgraded; which of them
\* are online, known and chosen by the operator is free.
Upgradable(s) == ~InProgress(state, s) /\ state.seen[s] # "wanted"

StartBatch ==
    /\ jobs < MaxJobs /\ jobs' = jobs + 1
    /\ ~state.job.running
    /\ \E chosen \in SUBSET { s \in Server : Upgradable(s) } \ {{}} :
          LET row == [s \in Server |->
                  [phase |-> IF s \in chosen THEN "queued" ELSE "skipped",
                   attempt |-> 0, age |-> 0]]
              new == [state EXCEPT !.job = [running |-> TRUE, stopped |-> FALSE, row |-> row]]
          IN  Saved(new) \/ RolledBack(new)
    /\ UNCHANGED <<dirty, scheduler, machineVars, drawn, issuedFor, singles, posts>>

\* finishHelperBatch
Finished(job) ==
    [job EXCEPT !.running = \E s \in Server : job.row[s].phase \in {"queued", "running"}]

Stopped(job) ==
    Finished([job EXCEPT !.stopped = TRUE,
                         !.row = [s \in Server |->
                             IF @[s].phase = "queued" THEN [@[s] EXCEPT !.phase = "cancelled"]
                             ELSE @[s]]])

\* stopHelperBatch
StopBatch ==
    /\ state.job.running
    /\ LET new == [state EXCEPT !.job = Stopped(@)]
       IN  Saved(new) \/ RolledBack(new)
    /\ UNCHANGED <<dirty, scheduler, machineVars, numberVars, singles, posts>>

-----------------------------------------------------------------------------
(* Helpers: reports, workers and their posts *)

\* The report says what is installed.  An attempt whose version is seen is a success
\* (completeObservedUpdate); a failed result of a queued command ends a running
\* attempt; a result removes its command, and expired commands are dropped.
Reported(s, version, answer) ==
    LET u == state.update[s]
        seenDone == u.phase = "running" /\ u.version = version
        refused == /\ answer.result = "failed" /\ u.phase = "running"
                   /\ \E c \in state.queue[s] : c.attempt = answer.attempt
    IN  [state EXCEPT
            !.seen[s] = version,
            !.update[s] = IF seenDone THEN [@ EXCEPT !.phase = "success", !.age = 0]
                          ELSE IF refused THEN [@ EXCEPT !.phase = "failed", !.age = 0]
                          ELSE @,
            !.queue[s] = { c \in @ : c.attempt # answer.attempt /\ c.age <= c.life }]

\* The answer hands out a queued command the Helper has not completed.
Handed(st, s) ==
    LET fresh == { c \in st.queue[s] : c.attempt \notin given }
    IN  IF fresh = {} THEN {NoCommand}
        ELSE { [attempt |-> c.attempt, version |-> c.version, result |-> "none"] : c \in fresh }

\* A report is sent between two commands; it carries the result of the last one and
\* the version that runs, which a worker may have replaced.  A plain heartbeat saves
\* nothing.  The answer may be lost.
Report(s) ==
    /\ taken[s] = NoCommand \/ taken[s].result # "none"
    /\ \E version \in workers[s] \cup {state.seen[s]} :
          LET new == Reported(s, version, taken[s])
          IN  \/ /\ IF taken[s] = NoCommand /\ new = state
                    THEN UNCHANGED <<state, file, faults>>
                    ELSE Saved(new)
                 /\ \/ UNCHANGED <<taken, given>>
                    \/ \E c \in Handed(new, s) :
                          /\ taken' = [taken EXCEPT ![s] = c]
                          /\ given' = given \cup ({c.attempt} \ {0})
              \/ RolledBack(new) /\ UNCHANGED <<taken, given>>
    /\ UNCHANGED <<dirty, scheduler, workers, numberVars, singles, posts>>

\* helper.update starts a detached worker and succeeds, or is refused.
Execute(s) ==
    /\ taken[s] # NoCommand /\ taken[s].result = "none"
    /\ \/ /\ taken' = [taken EXCEPT ![s].result = "ok"]
          /\ workers' = [workers EXCEPT ![s] = @ \cup {taken[s].version}]
       \/ /\ taken' = [taken EXCEPT ![s].result = "failed"]
          /\ UNCHANGED workers
    /\ UNCHANGED <<controllerVars, scheduler, given, numberVars, boundVars>>

\* recordUpdateProgressAt: late posts must not reopen a completed attempt, and only
\* a failure replaces another outcome.
Ignored(u, version, phase) ==
    /\ u.version = version /\ u.phase \in Terminal
    /\ phase = "running" \/ (u.phase = "failed" /\ phase = "success")

\* A post about another version than the attempt on record starts a new attempt.
Posted(s, version, phase) ==
    [state EXCEPT !.update[s] =
        [attempt |-> IF @.version = version THEN @.attempt ELSE drawn + 1,
         version |-> version, phase |-> phase, age |-> 0]]

\* A post is saved at once, or left for the next save (at most one every five seconds).
Post(s, version, phase) ==
    LET u == state.update[s]
        new == Posted(s, version, phase)
    IN  /\ version \in workers[s]
        /\ posts < MaxPosts /\ posts' = posts + 1
        /\ ~Ignored(u, version, phase)
        /\ drawn' = IF u.version = version THEN drawn ELSE drawn + 1
        /\ \/ Saved(new) /\ dirty' = FALSE
           \/ state' = new /\ dirty' = TRUE /\ UNCHANGED <<file, faults>>
           \/ RolledBack(new) /\ dirty' = TRUE
        /\ UNCHANGED <<scheduler, machineVars, jobs, issuedFor, singles>>

-----------------------------------------------------------------------------
(* The scheduler: helperBatchTick, every five seconds *)

\* Mutant: a command that expired still counts as one that may continue.
SilentUnlessListed(s) ==
    /\ state.update[s].phase = "running" /\ state.update[s].age >= CommandTTL
    /\ state.queue[s] = {} /\ ~RowBusy(state.job, s)

\* An attempt outside the batch that has been silent for managementCommandTTL and that
\* no queued command can still continue.
Silent(s) ==
    /\ state.update[s].phase = "running" /\ state.update[s].age >= CommandTTL
    /\ ~UpdateQueued(state, s) /\ ~RowBusy(state.job, s)

\* expireStaleUpdatesLocked.  Whether a batch runs is read here, and used after the
\* lock was released and the database read.
SweepStale ==
    /\ scheduler = "idle"
    /\ scheduler' = IF state.job.running THEN "advance" ELSE "flush"
    /\ state' = [state EXCEPT
            !.update = [s \in Server |->
                IF Silent(s) THEN [@[s] EXCEPT !.phase = "failed", !.age = 0] ELSE @[s]],
            !.queue = [s \in Server |-> IF Silent(s) THEN {} ELSE @[s]]]
    /\ dirty' = (dirty \/ \E s \in Server : Silent(s))
    /\ UNCHANGED <<file, machineVars, numberVars, boundVars>>

\* Mutant: no timeout.
FollowedOnly(s) ==
    LET row == state.job.row[s]
        u == state.update[s]
    IN  IF row.phase = "running" /\ u.attempt = row.attempt
        THEN [row EXCEPT !.phase = u.phase] ELSE row

\* First pass of advanceHelperBatch: a running row takes the phase of its own attempt,
\* and fails after helperBatchTimeout, with its attempt.
Followed(s) ==
    LET row == state.job.row[s]
        u == state.update[s]
        mine == u.attempt = row.attempt
        phase == IF mine THEN u.phase ELSE row.phase
    IN  IF row.phase # "running" THEN row
        ELSE IF phase = "running" /\ row.age >= BatchTimeout
             THEN [row EXCEPT !.phase = "failed"]
             ELSE [row EXCEPT !.phase = phase]

Ended(s) == state.job.row[s].phase = "running" /\ Followed(s).phase \in Terminal

AfterFollowing ==
    [state EXCEPT
        !.job.row = [s \in Server |-> Followed(s)],
        !.update = [s \in Server |->
            IF Ended(s) /\ @[s].attempt = state.job.row[s].attempt /\ @[s].phase = "running"
            THEN [@[s] EXCEPT !.phase = "failed", !.age = 0] ELSE @[s]],
        !.queue = [s \in Server |->
            IF Ended(s) THEN { c \in @[s] : c.attempt # state.job.row[s].attempt }
            ELSE @[s]]]

\* Second pass: the queued rows in order, until MaxActive rows run.  A row whose server
\* is offline, or whose command is refused, fails; one that has the version succeeds.
Verdict(st, online, s) ==
    IF s \notin online THEN "failed"
    ELSE IF st.seen[s] = "wanted" THEN "success"
    ELSE IF InProgress(st, s) THEN "failed"
    ELSE "running"

\* Mutant: the rows already running are not counted.
TurnsUncounted(st, online) ==
    { s \in Server :
        /\ st.job.row[s].phase = "queued"
        /\ Cardinality({ r \in Server : r < s /\ st.job.row[r].phase = "queued"
                                       /\ Verdict(st, online, r) = "running" }) < MaxActive }

\* The queued rows whose turn comes in this pass.
Turns(st, online) ==
    LET active == Cardinality({ s \in Server : st.job.row[s].phase = "running" })
    IN  { s \in Server :
            /\ st.job.row[s].phase = "queued"
            /\ active + Cardinality({ r \in Server : r < s /\ st.job.row[r].phase = "queued"
                                         /\ Verdict(st, online, r) = "running" }) < MaxActive }

\* The attempts of this pass are numbered in the order of the rows.
Number(starting, s) == drawn + Cardinality({ r \in starting : r <= s })

Advanced(online) ==
    LET st == AfterFollowing
        turns == Turns(st, online)
        starting == { s \in turns : Verdict(st, online, s) = "running" }
        row == [s \in Server |->
            IF s \notin turns THEN st.job.row[s]
            ELSE IF s \in starting
                 THEN [phase |-> "running", attempt |-> Number(starting, s), age |-> 0]
                 ELSE [st.job.row[s] EXCEPT !.phase = Verdict(st, online, s)]]
    IN  [st EXCEPT
            !.job = Finished([@ EXCEPT !.row = row]),
            !.update = [s \in Server |->
                IF s \in starting
                THEN NewAttempt(Number(starting, s), "wanted") ELSE @[s]],
            !.queue = [s \in Server |->
                IF s \in starting
                THEN @[s] \cup { NewCommand(Number(starting, s), "wanted", BatchTimeout) }
                ELSE @[s]]]

\* advanceHelperBatch: commands and rows are saved together, or rolled back together.
AdvanceBatch ==
    /\ scheduler = "advance" /\ state.job.running
    /\ \E online \in SUBSET Server :
          LET new == Advanced(online)
              started == { s \in Server : new.job.row[s].attempt > drawn }
          IN  /\ new # state
              /\ Saved(new) \/ RolledBack(new)
              /\ dirty' = IF state' = state THEN dirty ELSE FALSE
              /\ drawn' = drawn + Cardinality(started)
              /\ issuedFor' = issuedFor \cup
                    { [server |-> s, job |-> jobs, attempt |-> new.job.row[s].attempt] :
                        s \in started }
    /\ scheduler' = "idle"
    /\ UNCHANGED <<machineVars, jobs, singles, posts>>

\* Nothing to advance: no batch (any more), no change, or the database read failed.
NothingToAdvance ==
    /\ scheduler = "advance"
    /\ \/ ~state.job.running /\ UNCHANGED faults
       \/ (\E online \in SUBSET Server : Advanced(online) = state) /\ UNCHANGED faults
       \/ Fault
    /\ scheduler' = "flush"
    /\ UNCHANGED <<controllerVars, machineVars, numberVars, singles, posts>>

\* flushUpdateProgressLocked
FlushProgress ==
    /\ scheduler = "flush"
    /\ \/ dirty /\ Saved(state) /\ dirty' = FALSE
       \/ UNCHANGED controllerVars /\ UNCHANGED faults
       \/ dirty /\ RolledBack(state) /\ UNCHANGED dirty
    /\ scheduler' = "idle"
    /\ UNCHANGED <<machineVars, numberVars, singles, posts>>

\* Mutant: the rows that were running start again.
RestartsFromScratch ==
    /\ Fault
    /\ state' = [file EXCEPT !.job.row = [s \in Server |->
                    IF @[s].phase = "running" THEN [@[s] EXCEPT !.phase = "queued"] ELSE @[s]]]
    /\ dirty' = FALSE
    /\ scheduler' = "idle"
    /\ UNCHANGED <<file, machineVars, numberVars, singles, posts>>

\* openHelperState: what was not saved is forgotten.
ControllerRestarts ==
    /\ Fault
    /\ state' = file /\ dirty' = FALSE
    /\ scheduler' = "idle"
    /\ UNCHANGED <<file, machineVars, numberVars, singles, posts>>

Next ==
    \/ Tick \/ StartBatch \/ StopBatch
    \/ SweepStale \/ AdvanceBatch \/ NothingToAdvance \/ FlushProgress \/ ControllerRestarts
    \/ \E s \in Server :
          \/ Report(s) \/ Execute(s)
          \/ \E v \in SingleVersions : UpdateOneServer(s, v)
          \/ \E v \in Version, phase \in Terminal \cup {"running"} : Post(s, v, phase)

Spec == Init /\ [][Next]_vars

\* The scheduler's ticker fires, and wall-clock time passes however often the scheduler
\* is at work (hence the strong fairness); failed reads and saves are bounded.
\* Nothing is assumed of the Helpers, their workers or the operator.
Fairness ==
    /\ SF_vars(Tick) /\ WF_vars(SweepStale)
    /\ WF_vars(AdvanceBatch \/ NothingToAdvance) /\ WF_vars(FlushProgress)

FairSpec == Spec /\ Fairness
-----------------------------------------------------------------------------
(* Properties *)

RunningRows(st) == { s \in Server : st.job.running /\ st.job.row[s].phase = "running" }

\* At most MaxActive Helpers are upgraded by a batch at a time, also when the scheduler
\* works with a job and a time it read before the database, after stops, rollbacks and
\* restarts.
AtMostActive == \A st \in {state, file} : Cardinality(RunningRows(st)) <= MaxActive

\* A server never has two live update commands: the batch reservation and the upgrade
\* lock hold between the operator's updates, the batch and the restarts.
OneLiveUpdate ==
    \A st \in {state, file} : \A s \in Server :
        Cardinality({ c \in st.queue[s] : c.age < c.life }) <= 1

\* "Restarting Custom resumes the same commands": for one row of one batch a Helper
\* receives at most one command, whatever saves fail and however often the controller
\* restarts.
OneCommandPerRow ==
    \A a, b \in issuedFor :
        /\ a.server = b.server /\ a.job = b.job
        /\ a.attempt \in given /\ b.attempt \in given
        => a = b

\* Every batch ends, even if no Helper ever answers.
BatchEnds == state.job.running ~> ~state.job.running

\* No attempt stays running for ever: it is swept when it falls silent, and then no
\* longer blocks later upgrades of the server.
AttemptsEnd ==
    \A s \in Server : state.update[s].phase = "running" ~> state.update[s].phase # "running"
=============================================================================

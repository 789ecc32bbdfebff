----------------------- MODULE UpgradeSchedulerProofs -----------------------
(***************************************************************************)
(* Theorems about UpgradeScheduler, for every value of its constants: the   *)
(* limit of running rows, one live update per server, one command per row.  *)
(***************************************************************************)
EXTENDS UpgradeScheduler, FunctionTheorems, FiniteSetTheorems, NaturalsInduction,
        WellFoundedInduction, TLAPS

-----------------------------------------------------------------------------
(* Types.  Attempts are numbered up to n. *)

RowPhase == {"skipped", "queued", "running", "cancelled", "success", "failed", "none"}
UpdatePhase == {"none", "running", "success", "failed"}
Seen == Version \cup {"old"}

Rows(n) == [Server -> [phase: RowPhase, attempt: 0..n, age: Nat]]
Jobs(n) == [running: BOOLEAN, stopped: BOOLEAN, row: Rows(n)]
Updates(n) == [Server -> [attempt: 0..n, version: Version \cup {"none"},
                          phase: UpdatePhase, age: Nat]]
Command(n) == [attempt: 1..n, version: Version, life: Nat, age: Nat]
Queues(n) == [Server -> SUBSET Command(n)]
State(n) == [job: Jobs(n), update: Updates(n), queue: Queues(n), seen: [Server -> Seen]]
Taken(n) == [attempt: 0..n, version: Version \cup {"none"}, result: {"none", "ok", "failed"}]
Issue(n) == [server: Server, job: 0..jobs, attempt: 1..n]

TypeInv ==
    /\ drawn \in Nat /\ jobs \in Nat
    /\ state \in State(drawn) /\ file \in State(drawn)
    /\ dirty \in BOOLEAN /\ scheduler \in {"idle", "advance", "flush"}
    /\ taken \in [Server -> Taken(drawn)]
    /\ \A s \in Server : taken[s] # NoCommand => taken[s].version \in Version
    /\ given \subseteq 1..drawn
    /\ workers \in [Server -> SUBSET Version]
    /\ issuedFor \subseteq Issue(drawn)
    /\ singles \in Nat /\ posts \in Nat /\ faults \in Nat

-----------------------------------------------------------------------------
(* The properties, without cardinalities of queues *)

Live(c) == c.age < c.life

\* Two live commands of a server are one.
LiveOnce(st) ==
    \A s \in Server : \A c, d \in st.queue[s] : Live(c) /\ Live(d) => c = d

\* The file or the memory holds the command of an attempt, or a Helper received it.
InQueue(st, n) == \E s \in Server : \E c \in st.queue[s] : c.attempt = n
Held(n) == n \in given \/ InQueue(state, n) \/ InQueue(file, n)

WaitsIn(st, s) == st.job.row[s].phase = "queued"

\* A row that still waits has no command of its own that anybody holds; and what the
\* memory holds also stands in the file's rows.
RowsHoldTheirCommands ==
    \A a \in issuedFor : a.job = jobs =>
        /\ a.attempt \in given \/ InQueue(state, a.attempt) =>
              ~WaitsIn(state, a.server) /\ ~WaitsIn(file, a.server)
        /\ InQueue(file, a.attempt) => ~WaitsIn(file, a.server)

\* Of the commands issued for one row, one is held.
OneHeldPerRow ==
    \A a, b \in issuedFor :
        /\ a.server = b.server /\ a.job = b.job
        /\ Held(a.attempt) /\ Held(b.attempt)
        => a = b

\* An attempt is issued for one row.
IssuedOnce == \A a, b \in issuedFor : a.attempt = b.attempt => a = b

Commands == RowsHoldTheirCommands /\ OneHeldPerRow /\ IssuedOnce

-----------------------------------------------------------------------------
(* What every step makes of a memory or a file st: a new one that is typed, keeps *)
(* the two limits, brings no command back and lets no row wait again.             *)

Good(st, n) ==
    st \in State(n) /\ LiveOnce(st) /\ Cardinality(RunningRows(st)) <= MaxActive

NoCommandBack(new, st, n) == \A m \in 1..n : InQueue(new, m) => InQueue(st, m)
NoRowBack(new, st) == \A s \in Server : WaitsIn(new, s) => WaitsIn(st, s)

SchedulerInv == TypeInv /\ Good(state, drawn) /\ Good(file, drawn) /\ Commands

\* The rows of a set of servers are finitely many.
LEMMA ServersAreFinite ==
    ASSUME NEW S, S \subseteq Server
    PROVE  IsFiniteSet(S) /\ Cardinality(S) \in Nat
<1>1. Servers \in Nat BY CountsAssumption
<1>2. IsFiniteSet(Server) BY <1>1, FS_Interval DEF Server
<1> QED BY <1>2, FS_Subset, FS_CardinalityType

\* Where no row starts, no more rows run.
LEMMA FewerRowsRun ==
    ASSUME NEW new, NEW st, RunningRows(new) \subseteq RunningRows(st),
           Cardinality(RunningRows(st)) <= MaxActive
    PROVE  Cardinality(RunningRows(new)) <= MaxActive
<1>1. RunningRows(st) \subseteq Server /\ RunningRows(new) \subseteq Server BY DEF RunningRows
<1>2. IsFiniteSet(RunningRows(st)) /\ Cardinality(RunningRows(st)) \in Nat
      BY <1>1, ServersAreFinite
<1>3. Cardinality(RunningRows(new)) \in Nat BY <1>1, ServersAreFinite
<1>4. Cardinality(RunningRows(new)) <= Cardinality(RunningRows(st)) BY <1>2, FS_Subset
<1> QED BY <1>2, <1>3, <1>4, CountsAssumption

\* A row without a live command may get one.
LEMMA OneMoreCommand ==
    ASSUME NEW st, NEW new, NEW S, S \subseteq Server, NEW made,
           LiveOnce(st),
           \A s \in Server \ S : new.queue[s] \subseteq st.queue[s],
           \A s \in S : new.queue[s] = st.queue[s] \cup {made[s]} /\ ~UpdateQueued(st, s)
    PROVE  LiveOnce(new)
BY DEF LiveOnce, Live, UpdateQueued

\* States of fewer attempts are states of more.
LEMMA MoreAttempts ==
    ASSUME NEW n \in Nat, NEW m \in Nat, n <= m, NEW st \in State(n)
    PROVE  st \in State(m)
<1>1. 0..n \subseteq 0..m /\ 1..n \subseteq 1..m OBVIOUS
<1>2. Rows(n) \subseteq Rows(m) BY <1>1 DEF Rows
<1>3. Jobs(n) \subseteq Jobs(m) BY <1>2 DEF Jobs
<1>4. Updates(n) \subseteq Updates(m) BY <1>1 DEF Updates
<1>5. Command(n) \subseteq Command(m) BY <1>1 DEF Command
<1>6. Queues(n) \subseteq Queues(m) BY <1>5 DEF Queues
<1> HIDE DEF Jobs, Updates, Queues
<1> QED BY <1>3, <1>4, <1>6 DEF State

LEMMA MoreAttemptsGood ==
    ASSUME NEW n \in Nat, NEW m \in Nat, n <= m, NEW st, Good(st, n)
    PROVE  Good(st, m)
BY MoreAttempts DEF Good

\* Mapping the queues may remove commands, never number one anew.
LEMMA QueuesShrink ==
    ASSUME NEW st, NEW new, NEW n,
           \A s \in Server : new.queue[s] \subseteq st.queue[s]
    PROVE  NoCommandBack(new, st, n)
BY DEF NoCommandBack, InQueue

-----------------------------------------------------------------------------
(* Time *)

LEMMA AgedIsGood ==
    ASSUME NEW n \in Nat, NEW st, Good(st, n)
    PROVE  Good(Aged(st), n) /\ NoCommandBack(Aged(st), st, n) /\ NoRowBack(Aged(st), st)
<1> DEFINE new == Aged(st)
<1>1. CommandTTL \in Nat BY AgesAssumption
<1>2. st \in State(n) BY DEF Good
<1>3. \A age \in Nat : Older(age) \in Nat /\ Older(age) >= age BY <1>1 DEF Older
<1>4. st.job \in Jobs(n) /\ st.update \in Updates(n) /\ st.queue \in Queues(n)
      BY <1>2 DEF State
<1>5. /\ new.job.running = st.job.running /\ new.job.stopped = st.job.stopped
      /\ new.job.row = [s \in Server |-> OlderIfRunning(st.job.row[s])]
      /\ new.update = [s \in Server |-> OlderIfRunning(st.update[s])]
      /\ new.queue = [s \in Server |-> { [c EXCEPT !.age = Older(@)] : c \in st.queue[s] }]
      /\ new.seen = st.seen
      BY <1>2 DEF Aged, State, Jobs
<1>6. \A s \in Server : OlderIfRunning(st.job.row[s]) \in
            [phase: RowPhase, attempt: 0..n, age: Nat]
         /\ OlderIfRunning(st.job.row[s]).phase = st.job.row[s].phase
      BY <1>3, <1>4 DEF OlderIfRunning, Jobs, Rows
<1>7. new.job \in Jobs(n)
      BY <1>2, <1>4, <1>6 DEF Aged, State, Jobs, Rows
<1>8. new.update \in Updates(n)
  <2>1. \A s \in Server : OlderIfRunning(st.update[s]) \in
           [attempt: 0..n, version: Version \cup {"none"}, phase: UpdatePhase, age: Nat]
        BY <1>3, <1>4 DEF OlderIfRunning, Updates
  <2> QED BY <1>5, <2>1 DEF Updates
<1>9. \A s \in Server : \A c \in st.queue[s] :
         /\ c \in Command(n) /\ [c EXCEPT !.age = Older(@)] \in Command(n)
         /\ [c EXCEPT !.age = Older(@)].attempt = c.attempt
         /\ Live([c EXCEPT !.age = Older(@)]) => Live(c)
  <2> TAKE s \in Server
  <2> TAKE c \in st.queue[s]
  <2>1. c \in Command(n) BY <1>4 DEF Queues
  <2>2. c.age \in Nat /\ c.life \in Nat BY <2>1 DEF Command
  <2>3. Older(c.age) \in Nat /\ Older(c.age) >= c.age BY <1>3, <2>2
  <2>4. /\ [c EXCEPT !.age = Older(@)].age = Older(c.age)
        /\ [c EXCEPT !.age = Older(@)].life = c.life
        /\ [c EXCEPT !.age = Older(@)].attempt = c.attempt
        /\ [c EXCEPT !.age = Older(@)] \in Command(n)
        BY <2>1, <2>3 DEF Command
  <2> QED BY <2>1, <2>2, <2>3, <2>4 DEF Live
<1>10. new.queue \in Queues(n) BY <1>5, <1>9 DEF Queues
<1>11. new \in State(n) BY <1>2, <1>7, <1>8, <1>10 DEF Aged, State
<1>12. LiveOnce(new)
  <2> SUFFICES ASSUME NEW s \in Server, NEW c \in new.queue[s], NEW d \in new.queue[s],
                      Live(c), Live(d)
               PROVE  c = d
      BY DEF LiveOnce
  <2>1. PICK b \in st.queue[s] : c = [b EXCEPT !.age = Older(@)] BY <1>5
  <2>2. PICK e \in st.queue[s] : d = [e EXCEPT !.age = Older(@)] BY <1>5
  <2>3. b = e BY <1>9, <2>1, <2>2 DEF Good, LiveOnce
  <2> QED BY <2>1, <2>2, <2>3
<1>13. RunningRows(new) \subseteq RunningRows(st) BY <1>5, <1>6 DEF RunningRows
<1>14. NoCommandBack(new, st, n)
  <2> SUFFICES ASSUME NEW m \in 1..n, NEW s \in Server, NEW c \in new.queue[s], c.attempt = m
               PROVE  InQueue(st, m)
      BY DEF NoCommandBack, InQueue
  <2>1. PICK b \in st.queue[s] : c = [b EXCEPT !.age = Older(@)] BY <1>5
  <2> QED BY <1>9, <2>1 DEF InQueue
<1>15. NoRowBack(new, st) BY <1>5, <1>6 DEF NoRowBack, WaitsIn
<1>16. Cardinality(RunningRows(new)) <= MaxActive BY <1>13, FewerRowsRun DEF Good
<1> HIDE DEF new
<1> QED BY <1>11, <1>12, <1>14, <1>15, <1>16 DEF Good, new

-----------------------------------------------------------------------------
(* The operator's steps *)

\* UpdateOneServer, StartedJob and Stopped, as the records they make.
SingleUpdate(st, s, version, n) ==
    [st EXCEPT !.update[s] = NewAttempt(n + 1, version),
               !.queue[s] = @ \cup { NewCommand(n + 1, version, CommandTTL) }]

LEMMA SingleUpdateIsGood ==
    ASSUME NEW n \in Nat, NEW st, Good(st, n), NEW s \in Server, NEW version \in Version,
           ~InProgress(st, s)
    PROVE  /\ Good(SingleUpdate(st, s, version, n), n + 1)
           /\ NoCommandBack(SingleUpdate(st, s, version, n), st, n)
           /\ NoRowBack(SingleUpdate(st, s, version, n), st)
<1> DEFINE new == SingleUpdate(st, s, version, n)
           c == NewCommand(n + 1, version, CommandTTL)
<1>1. st \in State(n + 1) BY MoreAttempts DEF Good
<1>2. /\ st.job \in Jobs(n + 1) /\ st.update \in Updates(n + 1)
      /\ st.queue \in Queues(n + 1)
      BY <1>1 DEF State
<1>3. CommandTTL \in Nat BY AgesAssumption
<1>4. /\ new.job = st.job
      /\ new.update = [st.update EXCEPT ![s] = NewAttempt(n + 1, version)]
      /\ new.queue = [st.queue EXCEPT ![s] = @ \cup {c}]
      BY <1>1 DEF SingleUpdate, State
<1>5. new.update \in Updates(n + 1)
      BY <1>2, <1>4 DEF Updates, NewAttempt, UpdatePhase
<1>6. c \in Command(n + 1) BY <1>3 DEF Command, NewCommand
<1> HIDE DEF c
<1>7. new.queue \in Queues(n + 1) BY <1>2, <1>4, <1>6 DEF Queues
<1>8. new \in State(n + 1) BY <1>1, <1>5, <1>7 DEF SingleUpdate, State
<1>9. LiveOnce(new)
  <2>1. \A r \in Server \ {s} : new.queue[r] \subseteq st.queue[r]
        BY <1>2, <1>4 DEF Queues
  <2>2. \A r \in {s} : new.queue[r] = st.queue[r] \cup {c} /\ ~UpdateQueued(st, r)
        BY <1>2, <1>4 DEF Queues, InProgress
  <2>3. LiveOnce(st) BY DEF Good
  <2> QED BY <2>1, <2>2, <2>3 DEF LiveOnce, Live, UpdateQueued
<1>10. RunningRows(new) = RunningRows(st) BY <1>4 DEF RunningRows
<1>11. NoCommandBack(new, st, n)
  <2>1. c.attempt = n + 1 BY DEF c, NewCommand
  <2>2. \A r \in Server : \A d \in new.queue[r] : d \in st.queue[r] \/ d = c
        BY <1>2, <1>4 DEF Queues
  <2> QED BY <2>1, <2>2 DEF NoCommandBack, InQueue
<1>12. NoRowBack(new, st) BY <1>4 DEF NoRowBack, WaitsIn
<1> HIDE DEF new
<1> QED BY <1>8, <1>9, <1>10, <1>11, <1>12 DEF Good, new

StartedJob(chosen) ==
    [running |-> TRUE, stopped |-> FALSE,
     row |-> [s \in Server |-> [phase |-> IF s \in chosen THEN "queued" ELSE "skipped",
                                attempt |-> 0, age |-> 0]]]

LEMMA StartedIsGood ==
    ASSUME NEW n \in Nat, NEW st, Good(st, n), NEW chosen
    PROVE  /\ Good([st EXCEPT !.job = StartedJob(chosen)], n)
           /\ NoCommandBack([st EXCEPT !.job = StartedJob(chosen)], st, n)
<1> DEFINE new == [st EXCEPT !.job = StartedJob(chosen)]
<1>1. st \in State(n) BY DEF Good
<1>2. new.job = StartedJob(chosen) /\ new.queue = st.queue BY <1>1 DEF State
<1>3. StartedJob(chosen).row \in Rows(n) BY DEF StartedJob, Rows, RowPhase
<1>4. StartedJob(chosen) \in Jobs(n) BY <1>3 DEF StartedJob, Jobs
<1>5. new \in State(n) BY <1>1, <1>4 DEF State
<1>6. RunningRows(new) = {} BY <1>2 DEF RunningRows, StartedJob
<1>7. Cardinality(RunningRows(new)) <= MaxActive
      BY <1>6, FS_EmptySet, CountsAssumption
<1>8. LiveOnce(new) /\ NoCommandBack(new, st, n)
      BY <1>2 DEF LiveOnce, Good, NoCommandBack, InQueue
<1> HIDE DEF new
<1> QED BY <1>5, <1>7, <1>8 DEF Good, new

LEMMA FinishedJob ==
    ASSUME NEW n \in Nat, NEW job \in Jobs(n)
    PROVE  /\ Finished(job) \in Jobs(n)
           /\ Finished(job).row = job.row /\ Finished(job).stopped = job.stopped
BY DEF Finished, Jobs

LEMMA StoppedIsGood ==
    ASSUME NEW n \in Nat, NEW st, Good(st, n), st.job.running
    PROVE  /\ Good([st EXCEPT !.job = Stopped(@)], n)
           /\ NoCommandBack([st EXCEPT !.job = Stopped(@)], st, n)
           /\ NoRowBack([st EXCEPT !.job = Stopped(@)], st)
<1> DEFINE new == [st EXCEPT !.job = Stopped(@)]
           row == [s \in Server |->
                     IF st.job.row[s].phase = "queued"
                     THEN [st.job.row[s] EXCEPT !.phase = "cancelled"] ELSE st.job.row[s]]
           halted == [st.job EXCEPT !.stopped = TRUE,
                         !.row = [s \in Server |->
                             IF @[s].phase = "queued" THEN [@[s] EXCEPT !.phase = "cancelled"]
                             ELSE @[s]]]
<1>1. st \in State(n) /\ st.job \in Jobs(n) BY DEF Good, State
<1>2. row \in Rows(n) BY <1>1 DEF Jobs, Rows, RowPhase
<1>3. halted \in Jobs(n) /\ halted.row = row
  <2>1. st.job.row \in Rows(n) BY <1>1 DEF Jobs
  <2>2. halted = [st.job EXCEPT !.stopped = TRUE, !.row = row] BY <1>1, <2>1 DEF Rows, Jobs
  <2> HIDE DEF row, halted
  <2> QED BY <1>1, <1>2, <2>2 DEF Jobs
<1>4. Stopped(st.job) = Finished(halted) BY DEF Stopped
<1>5. Stopped(st.job) \in Jobs(n) /\ Stopped(st.job).row = row
      BY <1>3, <1>4, FinishedJob
<1>6. new.job = Stopped(st.job) /\ new.queue = st.queue BY <1>1 DEF State
<1>7. new \in State(n) BY <1>1, <1>5 DEF State
<1>8. \A s \in Server : /\ row[s].phase = "running" => st.job.row[s].phase = "running"
                        /\ row[s].phase # "queued"
      BY <1>1 DEF Jobs, Rows
<1>9. RunningRows(new) \subseteq RunningRows(st)
  <2> SUFFICES ASSUME NEW s \in Server, new.job.row[s].phase = "running"
               PROVE  st.job.row[s].phase = "running"
      BY DEF RunningRows
  <2> QED BY <1>5, <1>6, <1>8
<1>10. Cardinality(RunningRows(new)) <= MaxActive BY <1>9, FewerRowsRun DEF Good
<1>11. LiveOnce(new) /\ NoCommandBack(new, st, n)
      BY <1>6 DEF LiveOnce, Good, NoCommandBack, InQueue
<1>12. NoRowBack(new, st) BY <1>5, <1>6, <1>8 DEF NoRowBack, WaitsIn
<1> HIDE DEF new
<1> QED BY <1>7, <1>10, <1>11, <1>12 DEF Good, new

-----------------------------------------------------------------------------
(* The Helpers' steps *)

LEMMA ReportedIsGood ==
    ASSUME NEW n \in Nat, Good(state, n), NEW s \in Server,
           NEW version \in Seen, NEW answer
    PROVE  /\ Good(Reported(s, version, answer), n)
           /\ NoCommandBack(Reported(s, version, answer), state, n)
           /\ NoRowBack(Reported(s, version, answer), state)
<1> DEFINE new == Reported(s, version, answer)
<1>1. /\ state \in State(n) /\ state.update \in Updates(n) /\ state.queue \in Queues(n)
      /\ state.seen \in [Server -> Seen]
      BY DEF Good, State
<1>2. /\ new.job = state.job
      /\ new.queue = [state.queue EXCEPT
              ![s] = { c \in @ : c.attempt # answer.attempt /\ c.age <= c.life }]
      /\ new.seen = [state.seen EXCEPT ![s] = version]
      BY <1>1 DEF Reported, State
<1>3. new.update \in Updates(n)
  <2>1. PICK u \in {state.update[s], [state.update[s] EXCEPT !.phase = "success", !.age = 0],
                    [state.update[s] EXCEPT !.phase = "failed", !.age = 0]} :
            new.update = [state.update EXCEPT ![s] = u]
        BY <1>1 DEF Reported, State, Updates
  <2>2. state.update[s] \in
            [attempt: 0..n, version: Version \cup {"none"}, phase: UpdatePhase, age: Nat]
        BY <1>1 DEF Updates
  <2>3. /\ [state.update[s] EXCEPT !.phase = "success", !.age = 0] \in
              [attempt: 0..n, version: Version \cup {"none"}, phase: UpdatePhase, age: Nat]
        /\ [state.update[s] EXCEPT !.phase = "failed", !.age = 0] \in
              [attempt: 0..n, version: Version \cup {"none"}, phase: UpdatePhase, age: Nat]
        BY <2>2 DEF UpdatePhase
  <2>4. u \in [attempt: 0..n, version: Version \cup {"none"}, phase: UpdatePhase, age: Nat]
        BY <2>1, <2>2, <2>3
  <2> QED BY <1>1, <2>1, <2>4 DEF Updates
<1>4. new.queue \in Queues(n) /\ \A r \in Server : new.queue[r] \subseteq state.queue[r]
      BY <1>1, <1>2 DEF Queues
<1>5. new \in State(n) BY <1>1, <1>2, <1>3, <1>4 DEF Reported, State
<1>6. LiveOnce(new) BY <1>4 DEF LiveOnce, Good
<1>7. RunningRows(new) = RunningRows(state) BY <1>2 DEF RunningRows
<1>8. NoCommandBack(new, state, n) BY <1>4, QueuesShrink
<1>9. NoRowBack(new, state) BY <1>2 DEF NoRowBack, WaitsIn
<1> HIDE DEF new
<1> QED BY <1>5, <1>6, <1>7, <1>8, <1>9 DEF Good, new

LEMMA PostedIsGood ==
    ASSUME drawn \in Nat, Good(state, drawn), NEW s \in Server, NEW version \in Version,
           NEW phase \in Terminal \cup {"running"},
           NEW m \in Nat, m = IF state.update[s].version = version THEN drawn ELSE drawn + 1
    PROVE  /\ Good(Posted(s, version, phase), m)
           /\ NoCommandBack(Posted(s, version, phase), state, drawn)
           /\ NoRowBack(Posted(s, version, phase), state)
<1> DEFINE new == Posted(s, version, phase)
           u == [attempt |-> IF state.update[s].version = version
                             THEN state.update[s].attempt ELSE drawn + 1,
                 version |-> version, phase |-> phase, age |-> 0]
<1>1. state \in State(drawn) /\ state.update \in Updates(drawn) BY DEF Good, State
<1>2. state \in State(m) /\ state.update \in Updates(m) BY <1>1, MoreAttempts DEF State
<1>3. new.job = state.job /\ new.queue = state.queue BY <1>1 DEF Posted, State
<1>4. new.update = [state.update EXCEPT ![s] = u] BY <1>1 DEF Posted, State, Updates
<1>5. u.attempt \in 0..m BY <1>1 DEF Updates
<1>6. u \in [attempt: 0..m, version: Version \cup {"none"}, phase: UpdatePhase, age: Nat]
      BY <1>5 DEF UpdatePhase, Terminal
<1>7. new.update \in Updates(m) BY <1>2, <1>4, <1>6 DEF Updates
<1>8. new \in State(m) BY <1>2, <1>7 DEF Posted, State
<1>9. LiveOnce(new) /\ RunningRows(new) = RunningRows(state)
      BY <1>3 DEF LiveOnce, RunningRows, Good
<1>10. NoCommandBack(new, state, drawn) /\ NoRowBack(new, state)
      BY <1>3 DEF NoCommandBack, NoRowBack, InQueue, WaitsIn
<1> HIDE DEF new
<1> QED BY <1>8, <1>9, <1>10 DEF Good, new

-----------------------------------------------------------------------------
(* The scheduler's steps *)

\* What SweepStale leaves.
Swept ==
    [state EXCEPT
        !.update = [s \in Server |->
            IF Silent(s) THEN [@[s] EXCEPT !.phase = "failed", !.age = 0] ELSE @[s]],
        !.queue = [s \in Server |-> IF Silent(s) THEN {} ELSE @[s]]]

LEMMA FailedUpdates ==
    ASSUME NEW n \in Nat, NEW update \in Updates(n), NEW new,
           new = [s \in Server |-> new[s]],
           \A s \in Server : \/ new[s] = update[s]
                             \/ new[s] = [update[s] EXCEPT !.phase = "failed", !.age = 0]
    PROVE  new \in Updates(n)
<1> DEFINE Update == [attempt: 0..n, version: Version \cup {"none"},
                      phase: UpdatePhase, age: Nat]
<1>1. \A s \in Server : update[s] \in Update BY DEF Updates
<1>2. \A s \in Server : [update[s] EXCEPT !.phase = "failed", !.age = 0] \in Update
  <2> TAKE s \in Server
  <2>1. update[s] \in Update BY <1>1
  <2>2. "failed" \in UpdatePhase BY DEF UpdatePhase
  <2> HIDE DEF UpdatePhase
  <2> QED BY <2>1, <2>2
<1> HIDE DEF Update
<1>3. new \in [Server -> Update] BY <1>1, <1>2
<1> QED BY <1>3 DEF Update, Updates

LEMMA SweptIsGood ==
    ASSUME NEW n \in Nat, Good(state, n)
    PROVE  /\ Good(Swept, n)
           /\ NoCommandBack(Swept, state, n)
           /\ NoRowBack(Swept, state)
<1>1. /\ state \in State(n) /\ state.update \in Updates(n) /\ state.queue \in Queues(n)
      BY DEF Good, State
<1>2. /\ Swept.job = state.job
      /\ Swept.update = [s \in Server |->
            IF Silent(s) THEN [state.update[s] EXCEPT !.phase = "failed", !.age = 0]
            ELSE state.update[s]]
      /\ Swept.queue = [s \in Server |-> IF Silent(s) THEN {} ELSE state.queue[s]]
      BY <1>1 DEF Swept, State
<1>3. Swept.update \in Updates(n) BY <1>1, <1>2, FailedUpdates
<1>4. Swept.queue \in Queues(n) /\ \A r \in Server : Swept.queue[r] \subseteq state.queue[r]
  <2>1. state.queue \in [Server -> SUBSET Command(n)] BY <1>1 DEF Queues
  <2>2. \A r \in Server : /\ (IF Silent(r) THEN {} ELSE state.queue[r]) \in SUBSET Command(n)
                          /\ (IF Silent(r) THEN {} ELSE state.queue[r]) \subseteq state.queue[r]
        BY <2>1
  <2> QED BY <1>2, <2>2 DEF Queues
<1>5. Swept \in State(n) BY <1>1, <1>3, <1>4 DEF Swept, State
<1>6. LiveOnce(Swept) BY <1>4 DEF LiveOnce, Good
<1>7. RunningRows(Swept) = RunningRows(state) BY <1>2 DEF RunningRows
<1>8. NoCommandBack(Swept, state, n) BY <1>4, QueuesShrink
<1>9. NoRowBack(Swept, state) BY <1>2 DEF NoRowBack, WaitsIn
<1> QED BY <1>5, <1>6, <1>7, <1>8, <1>9 DEF Good

\* The first pass of advanceHelperBatch ends rows, and starts none.
LEMMA FollowedRow ==
    ASSUME NEW n \in Nat, state \in State(n), NEW s \in Server
    PROVE  /\ Followed(s) \in [phase: RowPhase, attempt: 0..n, age: Nat]
           /\ Followed(s).attempt = state.job.row[s].attempt
           /\ Followed(s).phase = "running" => state.job.row[s].phase = "running"
           /\ Followed(s).phase = "queued" => state.job.row[s].phase = "queued"
<1> DEFINE row == state.job.row[s]
<1>1. row \in [phase: RowPhase, attempt: 0..n, age: Nat] BY DEF State, Jobs, Rows
<1>2. state.update[s].phase \in UpdatePhase BY DEF State, Updates
<1>3. CASE row.phase # "running" BY <1>1, <1>3 DEF Followed
<1>4. CASE row.phase = "running"
  <2>1. PICK p \in UpdatePhase \cup {"running"} : Followed(s) = [row EXCEPT !.phase = p]
        BY <1>2, <1>4 DEF Followed, UpdatePhase
  <2>2. p \in RowPhase /\ p # "queued" BY DEF UpdatePhase, RowPhase
  <2> HIDE DEF row
  <2>3. Followed(s) \in [phase: RowPhase, attempt: 0..n, age: Nat] BY <1>1, <2>1, <2>2
  <2>4. Followed(s).phase = p /\ Followed(s).attempt = row.attempt BY <1>1, <2>1
  <2> QED BY <1>4, <2>2, <2>3, <2>4 DEF row
<1> QED BY <1>3, <1>4

LEMMA FollowingIsGood ==
    ASSUME NEW n \in Nat, Good(state, n)
    PROVE  /\ Good(AfterFollowing, n)
           /\ NoCommandBack(AfterFollowing, state, n)
           /\ NoRowBack(AfterFollowing, state)
           /\ AfterFollowing.job.running = state.job.running
           /\ \A s \in Server :
                 AfterFollowing.job.row[s].attempt = state.job.row[s].attempt
<1> DEFINE new == AfterFollowing
<1>1. /\ state \in State(n) /\ state.update \in Updates(n) /\ state.queue \in Queues(n)
      /\ state.job \in Jobs(n)
      BY DEF Good, State
<1>2. /\ new.job.running = state.job.running
      /\ new.job.row = [s \in Server |-> Followed(s)]
      /\ new.queue = [s \in Server |->
            IF Ended(s) THEN { c \in state.queue[s] : c.attempt # state.job.row[s].attempt }
            ELSE state.queue[s]]
      BY <1>1 DEF AfterFollowing, State, Jobs
<1>3. new.update = [s \in Server |->
            IF /\ Ended(s) /\ state.update[s].attempt = state.job.row[s].attempt
               /\ state.update[s].phase = "running"
            THEN [state.update[s] EXCEPT !.phase = "failed", !.age = 0] ELSE state.update[s]]
      BY <1>1 DEF AfterFollowing, State, Jobs
<1>4. new.job \in Jobs(n)
  <2>1. [s \in Server |-> Followed(s)] \in Rows(n) BY <1>1, FollowedRow DEF Rows
  <2>2. new.job = [state.job EXCEPT !.row = [s \in Server |-> Followed(s)]]
        BY <1>1 DEF AfterFollowing, State
  <2> QED BY <1>1, <2>1, <2>2 DEF Jobs
<1>5. new.update \in Updates(n) BY <1>1, <1>3, FailedUpdates
<1>6. new.queue \in Queues(n) /\ \A r \in Server : new.queue[r] \subseteq state.queue[r]
      BY <1>1, <1>2 DEF Queues
<1>7. new \in State(n) BY <1>1, <1>4, <1>5, <1>6 DEF AfterFollowing, State
<1>8. LiveOnce(new) BY <1>6 DEF LiveOnce, Good
<1>9. /\ RunningRows(new) \subseteq RunningRows(state)
      /\ NoRowBack(new, state)
      /\ \A s \in Server : new.job.row[s].attempt = state.job.row[s].attempt
      BY <1>1, <1>2, FollowedRow DEF RunningRows, NoRowBack, WaitsIn
<1>10. Cardinality(RunningRows(new)) <= MaxActive BY <1>9, FewerRowsRun DEF Good
<1>11. NoCommandBack(new, state, n) BY <1>6, QueuesShrink
<1> HIDE DEF new
<1> QED BY <1>2, <1>7, <1>8, <1>9, <1>10, <1>11 DEF Good, new

\* A non-empty set of rows has a last one.
LEMMA LastRow ==
    ASSUME NEW S, S \subseteq Server, S # {}
    PROVE  \E m \in S : \A r \in S : r <= m
<1>1. Servers \in Nat BY CountsAssumption
<1> DEFINE Bounds == { k \in Nat : S \subseteq 1..k }
<1>2. Bounds \in SUBSET Nat /\ Servers \in Bounds BY <1>1 DEF Server
<1>3. PICK m \in Bounds : \A k \in Bounds : <<k, m>> \notin OpToRel(<, Nat)
      BY <1>2, NatLessThanWellFounded, WFMin
<1>4. m \in Nat /\ S \subseteq 1..m BY <1>3
<1>5. \A k \in Bounds : ~(k < m) BY <1>2, <1>3, <1>4, Zenon DEF OpToRel
<1>6. m # 0
  <2>1. PICK r \in S : TRUE OBVIOUS
  <2> QED BY <1>4, <2>1
<1>7. m - 1 \notin Bounds BY <1>4, <1>5, <1>6
<1>8. m \in S BY <1>4, <1>6, <1>7
<1> QED BY <1>4, <1>8

\* The attempts of a pass are numbered one after the other.
LEMMA NumbersAreNew ==
    ASSUME drawn \in Nat, NEW S, S \subseteq Server
    PROVE  /\ Cardinality(S) \in Nat
           /\ \A s \in S : Number(S, s) \in (drawn + 1)..(drawn + Cardinality(S))
           /\ \A r, s \in S : Number(S, r) = Number(S, s) => r = s
<1> DEFINE Upto(s) == { r \in S : r <= s }
<1>1. IsFiniteSet(S) /\ Cardinality(S) \in Nat BY ServersAreFinite
<1>2. \A s \in S : IsFiniteSet(Upto(s)) /\ Cardinality(Upto(s)) \in Nat
  <2> TAKE s \in S
  <2>1. Upto(s) \subseteq Server OBVIOUS
  <2> HIDE DEF Upto
  <2> QED BY <2>1, ServersAreFinite
<1>3. \A s \in S : s \in Int BY CountsAssumption DEF Server
<1>4. \A s \in S : Number(S, s) = drawn + Cardinality(Upto(s)) BY DEF Number
<1>5. \A s \in S : s \in Upto(s) /\ Upto(s) \subseteq S BY <1>3
<1>6. \A r, s \in S : r < s => Upto(r) \subseteq Upto(s) /\ s \notin Upto(r) BY <1>3
<1> HIDE DEF Upto
<1>7. \A s \in S : Cardinality(Upto(s)) <= Cardinality(S) BY <1>1, <1>5, FS_Subset
<1>8. \A s \in S : Cardinality(Upto(s)) # 0 BY <1>2, <1>5, FS_EmptySet
<1>9. \A r, s \in S : r < s => Cardinality(Upto(r)) # Cardinality(Upto(s))
  <2> SUFFICES ASSUME NEW r \in S, NEW s \in S, r < s,
                      Cardinality(Upto(r)) = Cardinality(Upto(s))
               PROVE  FALSE
      OBVIOUS
  <2>1. Upto(r) = Upto(s) BY <1>2, <1>6, FS_Subset
  <2> QED BY <1>5, <1>6, <2>1
<1>10. ASSUME NEW r \in S, NEW s \in S, Number(S, r) = Number(S, s)
       PROVE  r = s
  <2>1. Cardinality(Upto(r)) = Cardinality(Upto(s)) BY <1>2, <1>4, <1>10
  <2>2. ~(r < s) /\ ~(s < r) BY <1>9, <2>1
  <2> QED BY <1>3, <2>2
<1>11. \A s \in S : Number(S, s) \in (drawn + 1)..(drawn + Cardinality(S))
       BY <1>1, <1>2, <1>4, <1>7, <1>8
<1> QED BY <1>1, <1>10, <1>11

\* The rows the second pass starts.
Starting(online) ==
    { s \in Turns(AfterFollowing, online) : Verdict(AfterFollowing, online, s) = "running" }

\* The rows that run after the pass are not more than MaxActive: the last row that
\* started did so when fewer were running.
LEMMA TurnsKeepTheLimit ==
    ASSUME NEW online, AfterFollowing.job.running = TRUE,
           Cardinality(RunningRows(AfterFollowing)) <= MaxActive
    PROVE  Cardinality(RunningRows(AfterFollowing) \cup Starting(online)) <= MaxActive
<1> DEFINE st == AfterFollowing
           runs == RunningRows(AfterFollowing)
           before(m) == { r \in Server : r < m /\ st.job.row[r].phase = "queued"
                                         /\ Verdict(st, online, r) = "running" }
<1>1. runs = { s \in Server : st.job.row[s].phase = "running" } BY DEF RunningRows
<1>2. \A m \in Starting(online) :
         /\ m \in Server /\ st.job.row[m].phase = "queued"
         /\ Verdict(st, online, m) = "running"
         /\ Cardinality(runs) + Cardinality(before(m)) < MaxActive
      BY <1>1 DEF Starting, Turns
<1>3. CASE Starting(online) = {} BY <1>3
<1>4. CASE Starting(online) # {}
  <2>1. Starting(online) \subseteq Server BY <1>2
  <2>2. PICK m \in Starting(online) : \A r \in Starting(online) : r <= m
        BY <1>4, <2>1, LastRow
  <2>3. \A r \in Server : r \in Int BY CountsAssumption DEF Server
  <2>4. Starting(online) \subseteq before(m) \cup {m}
    <3> SUFFICES ASSUME NEW r \in Starting(online), r # m
                 PROVE  r \in before(m)
        OBVIOUS
    <3>1. r \in Int /\ m \in Int /\ r <= m BY <2>1, <2>2, <2>3
    <3>2. r < m BY <3>1
    <3> QED BY <1>2, <3>2
  <2>5. Cardinality(runs) + Cardinality(before(m)) < MaxActive BY <1>2, <2>2
  <2>6. runs \subseteq Server /\ before(m) \subseteq Server BY <1>1
  <2>7. runs \cup Starting(online) \subseteq (runs \cup before(m)) \cup {m} BY <2>4
  <2> HIDE DEF before, runs
  <2>8. /\ IsFiniteSet(runs) /\ Cardinality(runs) \in Nat
        /\ IsFiniteSet(before(m)) /\ Cardinality(before(m)) \in Nat
        BY <2>6, ServersAreFinite
  <2>9. runs \cap before(m) \subseteq Server BY <2>6
  <2>10. Cardinality(runs \cap before(m)) \in Nat BY <2>9, ServersAreFinite
  <2>11. /\ IsFiniteSet(runs \cup before(m))
         /\ Cardinality(runs \cup before(m)) =
              Cardinality(runs) + Cardinality(before(m)) - Cardinality(runs \cap before(m))
         BY <2>8, FS_Union
  <2>12. Cardinality(runs \cup before(m)) \in Nat BY <2>11, FS_CardinalityType
  <2>13. /\ IsFiniteSet((runs \cup before(m)) \cup {m})
         /\ Cardinality((runs \cup before(m)) \cup {m}) <= Cardinality(runs \cup before(m)) + 1
         BY <2>11, <2>12, FS_AddElement
  <2>14. Cardinality(runs \cup Starting(online)) <=
            Cardinality((runs \cup before(m)) \cup {m})
         BY <2>7, <2>13, FS_Subset
  <2>15. /\ Cardinality(runs \cup Starting(online)) \in Nat
         /\ Cardinality((runs \cup before(m)) \cup {m}) \in Nat
         BY <2>7, <2>13, FS_Subset, FS_CardinalityType
  <2>16. MaxActive \in Nat BY CountsAssumption
  <2>17. Cardinality(runs \cup Starting(online)) <= MaxActive
         BY <2>5, <2>8, <2>10, <2>11, <2>12, <2>13, <2>14, <2>15, <2>16
  <2> QED BY <2>17 DEF runs
<1> QED BY <1>3, <1>4

AdvancedRow(online, s) ==
    IF s \notin Turns(AfterFollowing, online) THEN AfterFollowing.job.row[s]
    ELSE IF s \in Starting(online)
         THEN [phase |-> "running", attempt |-> Number(Starting(online), s), age |-> 0]
         ELSE [AfterFollowing.job.row[s] EXCEPT !.phase = Verdict(AfterFollowing, online, s)]

\* What the second pass writes.
LEMMA AdvancedFields ==
    ASSUME NEW n \in Nat, AfterFollowing \in State(n), NEW online
    PROVE  /\ Advanced(online).job =
                Finished([AfterFollowing.job EXCEPT
                             !.row = [s \in Server |-> AdvancedRow(online, s)]])
           /\ Advanced(online).update = [s \in Server |->
                IF s \in Starting(online)
                THEN NewAttempt(Number(Starting(online), s), "wanted")
                ELSE AfterFollowing.update[s]]
           /\ Advanced(online).queue = [s \in Server |->
                IF s \in Starting(online)
                THEN AfterFollowing.queue[s] \cup
                        { NewCommand(Number(Starting(online), s), "wanted", BatchTimeout) }
                ELSE AfterFollowing.queue[s]]
           /\ Advanced(online).seen = AfterFollowing.seen
           /\ Advanced(online) = [job |-> Advanced(online).job,
                                  update |-> Advanced(online).update,
                                  queue |-> Advanced(online).queue,
                                  seen |-> Advanced(online).seen]
<1> DEFINE st == AfterFollowing
           job == Finished([st.job EXCEPT !.row = [s \in Server |-> AdvancedRow(online, s)]])
           update == [s \in Server |->
                         IF s \in Starting(online)
                         THEN NewAttempt(Number(Starting(online), s), "wanted")
                         ELSE st.update[s]]
           queue == [s \in Server |->
                         IF s \in Starting(online)
                         THEN st.queue[s] \cup
                                { NewCommand(Number(Starting(online), s), "wanted", BatchTimeout) }
                         ELSE st.queue[s]]
<1>1. Advanced(online) = [st EXCEPT !.job = job, !.update = update, !.queue = queue]
      BY DEF Advanced, AdvancedRow, Starting
<1>2. st = [job |-> st.job, update |-> st.update, queue |-> st.queue, seen |-> st.seen]
      BY DEF State
<1> HIDE DEF job, update, queue, st
<1>3. Advanced(online) = [job |-> job, update |-> update, queue |-> queue, seen |-> st.seen]
      BY <1>1, <1>2
<1> QED BY <1>3 DEF job, update, queue, st

LEMMA AdvancedIsGood ==
    ASSUME drawn \in Nat, Good(state, drawn), state.job.running = TRUE,
           NEW online, NEW m, m = drawn + Cardinality(Starting(online))
    PROVE  /\ m \in Nat
           /\ Good(Advanced(online), m)
           /\ NoCommandBack(Advanced(online), state, drawn)
           /\ NoRowBack(Advanced(online), state)
           /\ Starting(online) = { s \in Server : Advanced(online).job.row[s].attempt > drawn }
           /\ \A s \in Starting(online) :
                 /\ Advanced(online).job.row[s].attempt = Number(Starting(online), s)
                 /\ WaitsIn(state, s) /\ ~WaitsIn(Advanced(online), s)
<1> DEFINE st == AfterFollowing
           new == Advanced(online)
           S == Starting(online)
           made(s) == NewCommand(Number(Starting(online), s), "wanted", BatchTimeout)
<1>1. /\ Good(st, drawn) /\ NoCommandBack(st, state, drawn) /\ NoRowBack(st, state)
      /\ st.job.running = TRUE
      BY FollowingIsGood
<1>2. /\ S \subseteq Server
      /\ \A s \in S : /\ st.job.row[s].phase = "queued"
                      /\ Verdict(st, online, s) = "running"
      BY DEF Starting, Turns
<1>3. /\ Cardinality(S) \in Nat
      /\ \A s \in S : Number(S, s) \in (drawn + 1)..(drawn + Cardinality(S))
      BY <1>2, NumbersAreNew
<1> HIDE DEF S
<1>4. m \in Nat /\ drawn <= m BY <1>3 DEF S
<1>5. \A s \in S : Number(S, s) \in 1..m /\ Number(S, s) > drawn BY <1>3 DEF S
<1>6. st \in State(drawn) BY <1>1 DEF Good
<1>7. st \in State(m) BY <1>4, <1>6, MoreAttempts
<1>8. /\ st.job \in Jobs(m) /\ st.update \in Updates(m) /\ st.queue \in Queues(m)
      /\ st.seen \in [Server -> Seen]
      BY <1>7 DEF State
<1>9. \A s \in Server : /\ st.job.row[s] \in [phase: RowPhase, attempt: 0..m, age: Nat]
                        /\ st.job.row[s].attempt \in 0..drawn
      BY <1>6, <1>8 DEF State, Jobs, Rows
<1> HIDE DEF st
<1>10. \A s \in Server :
         /\ AdvancedRow(online, s) \in [phase: RowPhase, attempt: 0..m, age: Nat]
         /\ AdvancedRow(online, s).phase = "running" =>
               st.job.row[s].phase = "running" \/ s \in S
         /\ AdvancedRow(online, s).phase = "queued" => st.job.row[s].phase = "queued"
         /\ s \in S => /\ AdvancedRow(online, s).attempt = Number(S, s)
                       /\ AdvancedRow(online, s).phase = "running"
         /\ s \notin S => AdvancedRow(online, s).attempt = st.job.row[s].attempt
  <2> TAKE s \in Server
  <2> DEFINE row == st.job.row[s]
  <2>1. row \in [phase: RowPhase, attempt: 0..m, age: Nat] BY <1>9
  <2>2. CASE s \notin Turns(st, online)
    <3>1. AdvancedRow(online, s) = row /\ s \notin S BY <2>2 DEF AdvancedRow, S, Starting, st
    <3> QED BY <2>1, <3>1
  <2>3. CASE s \in S
    <3>1. AdvancedRow(online, s) = [phase |-> "running", attempt |-> Number(S, s), age |-> 0]
          BY <2>3 DEF AdvancedRow, S, Starting
    <3>2. Number(S, s) \in 0..m BY <1>5, <2>3
    <3> QED BY <2>3, <3>1, <3>2 DEF RowPhase
  <2>4. CASE s \in Turns(st, online) /\ s \notin S
    <3>1. PICK v \in {"failed", "success"} : AdvancedRow(online, s) = [row EXCEPT !.phase = v]
          BY <2>4 DEF AdvancedRow, S, Starting, Verdict, st
    <3> HIDE DEF row
    <3>2. [row EXCEPT !.phase = v] \in [phase: RowPhase, attempt: 0..m, age: Nat]
          BY <2>1 DEF RowPhase
    <3>3. /\ [row EXCEPT !.phase = v].phase = v
          /\ [row EXCEPT !.phase = v].attempt = row.attempt
          BY <2>1
    <3>4. AdvancedRow(online, s).phase \notin {"running", "queued"} BY <3>1, <3>3
    <3> QED BY <2>4, <3>1, <3>2, <3>3, <3>4 DEF row
  <2> QED BY <2>2, <2>3, <2>4
<1> DEFINE job == [st.job EXCEPT !.row = [s \in Server |-> AdvancedRow(online, s)]]
<1>11. job \in Jobs(m) /\ job.row = [s \in Server |-> AdvancedRow(online, s)]
  <2>1. [s \in Server |-> AdvancedRow(online, s)] \in Rows(m) BY <1>10 DEF Rows
  <2> QED BY <1>8, <2>1 DEF Jobs
<1>12. /\ new.job = Finished(job)
       /\ new.update = [s \in Server |->
            IF s \in S THEN NewAttempt(Number(S, s), "wanted") ELSE st.update[s]]
       /\ new.queue = [s \in Server |->
            IF s \in S THEN st.queue[s] \cup {made(s)} ELSE st.queue[s]]
       /\ new.seen = st.seen
       /\ new = [job |-> new.job, update |-> new.update, queue |-> new.queue,
                 seen |-> new.seen]
       BY <1>6, AdvancedFields DEF S, st
<1> HIDE DEF job
<1>13. new.job \in Jobs(m) /\ new.job.row = [s \in Server |-> AdvancedRow(online, s)]
       BY <1>11, <1>12, <1>4, FinishedJob
<1>14. new.update \in Updates(m)
  <2>1. \A s \in S : NewAttempt(Number(S, s), "wanted") \in
           [attempt: 0..m, version: Version \cup {"none"}, phase: UpdatePhase, age: Nat]
        BY <1>5 DEF NewAttempt, Version, UpdatePhase
  <2> QED BY <1>8, <1>12, <2>1 DEF Updates
<1>15. \A s \in S : made(s) \in Command(m) /\ made(s).attempt > drawn
  <2>1. BatchTimeout \in Nat BY AgesAssumption
  <2> QED BY <1>5, <2>1 DEF NewCommand, Version, Command, S
<1> HIDE DEF made, new
<1>16. new.queue \in Queues(m) BY <1>8, <1>12, <1>15 DEF Queues
<1>17. new \in State(m) BY <1>8, <1>12, <1>13, <1>14, <1>16 DEF State
<1>18. LiveOnce(new)
  <2>1. \A s \in Server \ S : new.queue[s] = st.queue[s] BY <1>12
  <2>2. \A s \in S : new.queue[s] = st.queue[s] \cup {made(s)} /\ ~UpdateQueued(st, s)
        BY <1>2, <1>12 DEF Verdict, InProgress
  <2>3. LiveOnce(st) BY <1>1 DEF Good
  <2> QED BY <2>1, <2>2, <2>3 DEF LiveOnce, Live, UpdateQueued
<1>19. Cardinality(RunningRows(new)) <= MaxActive
  <2>1. RunningRows(new) \subseteq RunningRows(st) \cup S
        BY <1>1, <1>10, <1>13 DEF RunningRows
  <2>2. Cardinality(RunningRows(st) \cup S) <= MaxActive
        BY <1>1, TurnsKeepTheLimit DEF Good, S, st
  <2>3. RunningRows(st) \cup S \subseteq Server /\ RunningRows(new) \subseteq Server
        BY <1>2 DEF RunningRows
  <2>4. IsFiniteSet(RunningRows(st) \cup S) /\ Cardinality(RunningRows(st) \cup S) \in Nat
        BY <2>3, ServersAreFinite
  <2>5. Cardinality(RunningRows(new)) <= Cardinality(RunningRows(st) \cup S)
        BY <2>1, <2>4, FS_Subset
  <2>6. Cardinality(RunningRows(new)) \in Nat BY <2>3, ServersAreFinite
  <2> QED BY <2>2, <2>4, <2>5, <2>6, CountsAssumption
<1>20. NoCommandBack(new, state, drawn)
  <2> SUFFICES ASSUME NEW k \in 1..drawn, NEW s \in Server, NEW c \in new.queue[s],
                      c.attempt = k
               PROVE  InQueue(state, k)
      BY DEF NoCommandBack, InQueue
  <2>1. c \in st.queue[s] BY <1>12, <1>15
  <2> QED BY <1>1, <2>1 DEF NoCommandBack, InQueue
<1>21. NoRowBack(new, state) BY <1>1, <1>10, <1>13 DEF NoRowBack, WaitsIn
<1>22. S = { s \in Server : new.job.row[s].attempt > drawn }
  <2>1. \A s \in Server : s \notin S => ~(new.job.row[s].attempt > drawn)
        BY <1>9, <1>10, <1>13
  <2>2. \A s \in S : new.job.row[s].attempt > drawn BY <1>2, <1>5, <1>10, <1>13
  <2> QED BY <1>2, <2>1, <2>2
<1>23. \A s \in S : /\ new.job.row[s].attempt = Number(S, s)
                    /\ WaitsIn(state, s) /\ ~WaitsIn(new, s)
       BY <1>1, <1>2, <1>10, <1>13 DEF WaitsIn, NoRowBack
<1> QED BY <1>4, <1>17, <1>18, <1>19, <1>20, <1>21, <1>22, <1>23 DEF Good, new, S

-----------------------------------------------------------------------------
(* Memory and file together *)

LEMMA EitherIsGood ==
    ASSUME TypeInv, Good(state, drawn), Good(file, drawn), NEW new,
           drawn' \in Nat, drawn <= drawn', Good(new, drawn'),
           state' \in {state, new}, file' \in {file, new}
    PROVE  Good(state', drawn') /\ Good(file', drawn')
<1>1. Good(state, drawn') /\ Good(file, drawn') BY MoreAttemptsGood DEF TypeInv
<1> QED BY <1>1

\* A step that issues no command for a row: each side keeps what it had or takes the
\* new state, and the Helpers receive what the memory holds.
LEMMA NothingIssued ==
    ASSUME TypeInv, Commands, NEW new,
           NoCommandBack(new, state, drawn), NoRowBack(new, state),
           state' \in {state, new}, file' \in {file, new},
           issuedFor' = issuedFor, jobs' = jobs,
           \A n \in given' : n \in given \/ InQueue(state', n)
    PROVE  Commands'
<1>1. \A a \in issuedFor : a.attempt \in 1..drawn /\ a.server \in Server
      BY DEF TypeInv, Issue
<1>2. \A a \in issuedFor :
         /\ InQueue(new, a.attempt) => InQueue(state, a.attempt)
         /\ InQueue(state', a.attempt) => InQueue(state, a.attempt)
         /\ a.attempt \in given' => a.attempt \in given \/ InQueue(state, a.attempt)
         /\ InQueue(file', a.attempt) =>
               InQueue(file, a.attempt) \/ (file' = new /\ InQueue(state, a.attempt))
         /\ WaitsIn(new, a.server) => WaitsIn(state, a.server)
      BY <1>1 DEF NoCommandBack, NoRowBack
<1>3. RowsHoldTheirCommands'
  <2> SUFFICES ASSUME NEW a \in issuedFor, a.job = jobs
               PROVE  /\ a.attempt \in given' \/ InQueue(state', a.attempt) =>
                            ~WaitsIn(state', a.server) /\ ~WaitsIn(file', a.server)
                      /\ InQueue(file', a.attempt) => ~WaitsIn(file', a.server)
      BY DEF RowsHoldTheirCommands
  <2>1. /\ a.attempt \in given \/ InQueue(state, a.attempt) =>
              ~WaitsIn(state, a.server) /\ ~WaitsIn(file, a.server)
        /\ InQueue(file, a.attempt) => ~WaitsIn(file, a.server)
        BY DEF Commands, RowsHoldTheirCommands
  <2> QED BY <1>2, <2>1
<1>4. \A a \in issuedFor : Held(a.attempt)' => Held(a.attempt)
  <2> SUFFICES ASSUME NEW a \in issuedFor,
                      \/ a.attempt \in given' \/ InQueue(state', a.attempt)
                      \/ InQueue(file', a.attempt)
               PROVE  Held(a.attempt)
      BY DEF Held, InQueue
  <2> QED BY <1>2 DEF Held
<1>5. OneHeldPerRow' BY <1>4 DEF Commands, OneHeldPerRow
<1>6. IssuedOnce' BY DEF Commands, IssuedOnce
<1> QED BY <1>3, <1>5, <1>6 DEF Commands

\* The types of what the controller does not keep.
OtherTypes ==
    /\ jobs \in Nat
    /\ dirty \in BOOLEAN /\ scheduler \in {"idle", "advance", "flush"}
    /\ taken \in [Server -> Taken(drawn)]
    /\ \A s \in Server : taken[s] # NoCommand => taken[s].version \in Version
    /\ given \subseteq 1..drawn
    /\ workers \in [Server -> SUBSET Version]
    /\ issuedFor \subseteq Issue(drawn)
    /\ singles \in Nat /\ posts \in Nat /\ faults \in Nat

LEMMA TypesTogether ==
    ASSUME drawn' \in Nat, Good(state', drawn'), Good(file', drawn'), OtherTypes', Commands'
    PROVE  SchedulerInv'
BY DEF SchedulerInv, TypeInv, OtherTypes, Good, Issue, Taken

\* What a step that draws a number and touches no Helper leaves of the types.
LEMMA OtherTypesKept ==
    ASSUME TypeInv, drawn' \in Nat, drawn <= drawn', jobs' \in Nat, jobs <= jobs',
           dirty' \in BOOLEAN, scheduler' \in {"idle", "advance", "flush"},
           UNCHANGED <<taken, given, workers, issuedFor>>,
           singles' \in Nat, posts' \in Nat, faults' \in Nat
    PROVE  OtherTypes'
<1>1. drawn \in Nat /\ jobs \in Nat BY DEF TypeInv
<1>2. 0..drawn \subseteq 0..drawn' /\ 1..drawn \subseteq 1..drawn' /\ 0..jobs \subseteq 0..jobs'
      BY <1>1
<1>3. Taken(drawn) \subseteq Taken(drawn') BY <1>2 DEF Taken
<1>4. \A a \in issuedFor : a \in [server: Server, job: 0..jobs, attempt: 1..drawn]
      BY DEF TypeInv, Issue
<1>5. issuedFor' \subseteq [server: Server, job: 0..jobs', attempt: 1..drawn']
      BY <1>2, <1>4
<1>6. issuedFor' \subseteq Issue(drawn)' BY <1>5 DEF Issue
<1>7. taken' \in [Server -> Taken(drawn')] BY <1>3 DEF TypeInv
<1>8. taken' \in [Server -> Taken(drawn)]' BY <1>7 DEF Taken
<1> QED BY <1>2, <1>6, <1>8 DEF TypeInv, OtherTypes

LEMMA NothingBack ==
    ASSUME NEW st, NEW n
    PROVE  NoCommandBack(st, st, n) /\ NoRowBack(st, st)
BY DEF NoCommandBack, NoRowBack

-----------------------------------------------------------------------------
(* The invariant, step by step *)

LEMMA SchedulerInit == Init => SchedulerInv
<1> SUFFICES ASSUME Init PROVE SchedulerInv
    OBVIOUS
<1>1. Empty.job \in Jobs(0) BY DEF Empty, NoJob, Jobs, Rows, RowPhase
<1>2. Empty.update \in Updates(0) BY DEF Empty, NoUpdate, Updates, UpdatePhase
<1>3. Empty.queue \in Queues(0) BY DEF Empty, Queues
<1>4. Empty \in State(0) BY <1>1, <1>2, <1>3 DEF Empty, State, Seen
<1>5. RunningRows(Empty) = {} BY DEF RunningRows, Empty, NoJob
<1>6. Cardinality(RunningRows(Empty)) <= MaxActive BY <1>5, FS_EmptySet, CountsAssumption
<1>7. LiveOnce(Empty) BY DEF LiveOnce, Empty
<1>8. Good(Empty, 0) BY <1>4, <1>6, <1>7 DEF Good
<1>9. Good(state, drawn) /\ Good(file, drawn) BY <1>8 DEF Init
<1>10. TypeInv
  <2>1. NoCommand \in Taken(0) BY DEF NoCommand, Taken
  <2> QED BY <1>9, <2>1 DEF TypeInv, Good, Init
<1>11. Commands
       BY DEF Commands, Init, RowsHoldTheirCommands, OneHeldPerRow, IssuedOnce
<1> QED BY <1>9, <1>10, <1>11 DEF SchedulerInv

LEMMA TickKeeps == SchedulerInv /\ Tick => SchedulerInv'
<1> SUFFICES ASSUME SchedulerInv, Tick PROVE SchedulerInv'
    OBVIOUS
<1> USE DEF SchedulerInv
<1>1. drawn \in Nat /\ drawn' = drawn BY DEF TypeInv, Tick, numberVars
<1>2. /\ Good(state', drawn) /\ NoCommandBack(state', state, drawn) /\ NoRowBack(state', state)
      /\ Good(file', drawn) /\ NoCommandBack(file', file, drawn) /\ NoRowBack(file', file)
      BY <1>1, AgedIsGood DEF Tick
<1>3. OtherTypes'
      BY <1>1, OtherTypesKept DEF TypeInv, Tick, numberVars, machineVars, boundVars
<1>4. UNCHANGED <<issuedFor, jobs, given>> BY DEF Tick, numberVars, machineVars
<1>5. \A a \in issuedFor : a.attempt \in 1..drawn /\ a.server \in Server
      BY DEF TypeInv, Issue
<1>6. RowsHoldTheirCommands'
  <2> SUFFICES ASSUME NEW a \in issuedFor, a.job = jobs
               PROVE  /\ a.attempt \in given \/ InQueue(state', a.attempt) =>
                            ~WaitsIn(state', a.server) /\ ~WaitsIn(file', a.server)
                      /\ InQueue(file', a.attempt) => ~WaitsIn(file', a.server)
      BY <1>4 DEF RowsHoldTheirCommands
  <2> QED BY <1>2, <1>5 DEF Commands, RowsHoldTheirCommands, NoCommandBack, NoRowBack
<1>7. \A a \in issuedFor : /\ InQueue(state', a.attempt) => InQueue(state, a.attempt)
                           /\ InQueue(file', a.attempt) => InQueue(file, a.attempt)
      BY <1>2, <1>5 DEF NoCommandBack
<1>8. \A a \in issuedFor : Held(a.attempt)' => Held(a.attempt)
      BY <1>4, <1>7 DEF Held, InQueue
<1>9. OneHeldPerRow' /\ IssuedOnce' BY <1>4, <1>8 DEF Commands, OneHeldPerRow, IssuedOnce
<1> QED BY <1>1, <1>2, <1>3, <1>6, <1>9, TypesTogether DEF Commands

LEMMA UpdateOneServerKeeps ==
    ASSUME SchedulerInv, NEW s \in Server, NEW version \in SingleVersions,
           UpdateOneServer(s, version)
    PROVE  SchedulerInv'
<1> USE DEF SchedulerInv
<1> DEFINE new == SingleUpdate(state, s, version, drawn)
<1>1. drawn \in Nat /\ drawn' = drawn + 1 BY DEF TypeInv, UpdateOneServer
<1>2. version \in Version BY VersionsAssumption DEF Version
<1>3. ~InProgress(state, s) BY DEF UpdateOneServer
<1>4. /\ Good(new, drawn') /\ NoCommandBack(new, state, drawn) /\ NoRowBack(new, state)
      BY <1>1, <1>2, <1>3, SingleUpdateIsGood
<1>5. /\ state' \in {state, new} /\ file' \in {file, new}
      /\ faults' \in {faults, faults + 1}
      BY DEF UpdateOneServer, Saved, RolledBack, Fault, SingleUpdate
<1>6. UNCHANGED <<issuedFor, jobs, taken, given, workers, dirty, scheduler, posts>>
      /\ singles' = singles + 1
      BY DEF UpdateOneServer, machineVars
<1> HIDE DEF new
<1>7. Good(state', drawn') /\ Good(file', drawn') BY <1>1, <1>4, <1>5, EitherIsGood
<1>8. OtherTypes' BY <1>1, <1>5, <1>6, OtherTypesKept DEF TypeInv
<1>9. Commands' BY <1>4, <1>5, <1>6, NothingIssued
<1> QED BY <1>1, <1>7, <1>8, <1>9, TypesTogether

LEMMA StartBatchKeeps == SchedulerInv /\ StartBatch => SchedulerInv'
<1> SUFFICES ASSUME SchedulerInv, StartBatch PROVE SchedulerInv'
    OBVIOUS
<1> USE DEF SchedulerInv
<1>1. PICK chosen : \/ Saved([state EXCEPT !.job = StartedJob(chosen)])
                    \/ RolledBack([state EXCEPT !.job = StartedJob(chosen)])
      BY DEF StartBatch, StartedJob
<1> DEFINE new == [state EXCEPT !.job = StartedJob(chosen)]
<1>2. /\ UNCHANGED <<issuedFor, drawn, taken, given, workers, dirty, scheduler, singles, posts>>
      /\ jobs' = jobs + 1
      BY DEF StartBatch, machineVars
<1>3. Good(new, drawn) /\ NoCommandBack(new, state, drawn) BY StartedIsGood DEF TypeInv
<1>4. /\ state' \in {state, new} /\ file' \in {file, new}
      /\ faults' \in {faults, faults + 1}
      BY <1>1 DEF Saved, RolledBack, Fault
<1> HIDE DEF new
<1>5. Good(state', drawn') /\ Good(file', drawn')
      BY <1>2, <1>3, <1>4, EitherIsGood DEF TypeInv
<1>6. OtherTypes' BY <1>2, <1>4, OtherTypesKept DEF TypeInv
<1>7. \A a \in issuedFor : a.attempt \in 1..drawn /\ a.job \in 0..jobs
      BY DEF TypeInv, Issue
<1>8. RowsHoldTheirCommands'
  <2>1. \A a \in issuedFor' : a.job # jobs' BY <1>2, <1>7 DEF TypeInv
  <2> QED BY <2>1 DEF RowsHoldTheirCommands
<1>9. \A a \in issuedFor : /\ InQueue(state', a.attempt) => InQueue(state, a.attempt)
                           /\ InQueue(file', a.attempt) =>
                                 InQueue(state, a.attempt) \/ InQueue(file, a.attempt)
      BY <1>3, <1>4, <1>7 DEF NoCommandBack
<1>10. \A a \in issuedFor : Held(a.attempt)' => Held(a.attempt)
       BY <1>2, <1>9 DEF Held, InQueue
<1>11. OneHeldPerRow' /\ IssuedOnce' BY <1>2, <1>10 DEF Commands, OneHeldPerRow, IssuedOnce
<1> QED BY <1>2, <1>5, <1>6, <1>8, <1>11, TypesTogether DEF Commands, TypeInv

LEMMA StopBatchKeeps == SchedulerInv /\ StopBatch => SchedulerInv'
<1> SUFFICES ASSUME SchedulerInv, StopBatch PROVE SchedulerInv'
    OBVIOUS
<1> USE DEF SchedulerInv
<1> DEFINE new == [state EXCEPT !.job = Stopped(@)]
<1>1. /\ UNCHANGED <<issuedFor, jobs, drawn, taken, given, workers, dirty, scheduler,
                     singles, posts>>
      /\ state' \in {state, new} /\ file' \in {file, new}
      /\ faults' \in {faults, faults + 1}
      BY DEF StopBatch, machineVars, numberVars, Saved, RolledBack, Fault
<1>2. /\ Good(new, drawn) /\ NoCommandBack(new, state, drawn) /\ NoRowBack(new, state)
      BY StoppedIsGood DEF TypeInv, StopBatch
<1> HIDE DEF new
<1>3. Good(state', drawn') /\ Good(file', drawn') BY <1>1, <1>2, EitherIsGood DEF TypeInv
<1>4. OtherTypes' BY <1>1, OtherTypesKept DEF TypeInv
<1>5. Commands' BY <1>1, <1>2, NothingIssued
<1> QED BY <1>1, <1>3, <1>4, <1>5, TypesTogether DEF TypeInv

\* What a Helper takes from a queue is a command of the queue.
LEMMA HandedCommands ==
    ASSUME NEW n \in Nat, NEW st \in State(n), NEW s \in Server, NEW c \in Handed(st, s)
    PROVE  /\ c \in Taken(n)
           /\ c # NoCommand => c.version \in Version
           /\ c.attempt # 0 => InQueue(st, c.attempt) /\ c.attempt \in 1..n
<1>1. st.queue[s] \subseteq Command(n) BY DEF State, Queues
<1>2. CASE c = NoCommand BY <1>2 DEF NoCommand, Taken
<1>3. CASE c # NoCommand
  <2>1. PICK d \in st.queue[s] : c = [attempt |-> d.attempt, version |-> d.version,
                                      result |-> "none"]
        BY <1>3 DEF Handed
  <2>2. d.attempt \in 1..n /\ d.version \in Version BY <1>1, <2>1 DEF Command
  <2>3. c.attempt = d.attempt /\ c.version = d.version BY <2>1
  <2>4. InQueue(st, c.attempt) BY <2>1, <2>3 DEF InQueue
  <2>5. c \in Taken(n) BY <2>1, <2>2 DEF Taken
  <2> QED BY <2>2, <2>3, <2>4, <2>5
<1> QED BY <1>2, <1>3

LEMMA ReportKeeps ==
    ASSUME SchedulerInv, NEW s \in Server, Report(s)
    PROVE  SchedulerInv'
<1> USE DEF SchedulerInv
<1>1. PICK version \in workers[s] \cup {state.seen[s]} :
         \/ /\ IF taken[s] = NoCommand /\ Reported(s, version, taken[s]) = state
               THEN UNCHANGED <<state, file, faults>>
               ELSE Saved(Reported(s, version, taken[s]))
            /\ \/ UNCHANGED <<taken, given>>
               \/ \E c \in Handed(Reported(s, version, taken[s]), s) :
                     /\ taken' = [taken EXCEPT ![s] = c]
                     /\ given' = given \cup ({c.attempt} \ {0})
         \/ RolledBack(Reported(s, version, taken[s])) /\ UNCHANGED <<taken, given>>
      BY DEF Report
<1> DEFINE new == Reported(s, version, taken[s])
<1>2. version \in Seen BY DEF TypeInv, Seen, State
<1>3. UNCHANGED <<dirty, scheduler, workers, drawn, jobs, issuedFor, singles, posts>>
      BY DEF Report, numberVars
<1>4. /\ Good(new, drawn) /\ NoCommandBack(new, state, drawn) /\ NoRowBack(new, state)
      BY <1>2, ReportedIsGood DEF TypeInv
<1>5. /\ state' \in {state, new} /\ file' \in {file, new} /\ faults' \in {faults, faults + 1}
      /\ \/ UNCHANGED <<taken, given>>
         \/ /\ state' = new
            /\ \E c \in Handed(new, s) : /\ taken' = [taken EXCEPT ![s] = c]
                                         /\ given' = given \cup ({c.attempt} \ {0})
      BY <1>1 DEF Saved, RolledBack, Fault
<1> HIDE DEF new
<1>6. Good(state', drawn') /\ Good(file', drawn')
      BY <1>3, <1>4, <1>5, EitherIsGood DEF TypeInv
<1>7. /\ \A n \in given' : n \in given \/ InQueue(state', n)
      /\ taken' \in [Server -> Taken(drawn)] /\ given' \subseteq 1..drawn
      /\ \A r \in Server : taken'[r] # NoCommand => taken'[r].version \in Version
  <2>1. CASE UNCHANGED <<taken, given>> BY <2>1 DEF TypeInv
  <2>2. ASSUME NEW c \in Handed(new, s), state' = new, taken' = [taken EXCEPT ![s] = c],
               given' = given \cup ({c.attempt} \ {0})
        PROVE  <1>7
    <3>1. new \in State(drawn) BY <1>4 DEF Good
    <3>2. /\ c \in Taken(drawn)
          /\ c # NoCommand => c.version \in Version
          /\ c.attempt # 0 => InQueue(new, c.attempt) /\ c.attempt \in 1..drawn
          BY <2>2, <3>1, HandedCommands DEF TypeInv
    <3> QED BY <2>2, <3>2 DEF TypeInv
  <2> QED BY <1>5, <2>1, <2>2
<1>8. Commands' BY <1>3, <1>4, <1>5, <1>7, NothingIssued
<1>9. OtherTypes'
      BY <1>3, <1>5, <1>7 DEF TypeInv, OtherTypes, Issue, Taken
<1> QED BY <1>3, <1>6, <1>8, <1>9, TypesTogether DEF TypeInv

LEMMA ExecuteKeeps ==
    ASSUME SchedulerInv, NEW s \in Server, Execute(s)
    PROVE  SchedulerInv'
<1> USE DEF SchedulerInv
<1>1. UNCHANGED <<state, file, dirty, scheduler, given, drawn, jobs, issuedFor, singles,
                  posts, faults>>
      BY DEF Execute, controllerVars, numberVars, boundVars
<1>2. taken[s] \in Taken(drawn) /\ taken[s] # NoCommand /\ taken[s].version \in Version
      BY DEF TypeInv, Execute
<1>3. \A r \in {"ok", "failed"} :
         /\ [taken[s] EXCEPT !.result = r] \in Taken(drawn)
         /\ [taken[s] EXCEPT !.result = r].version \in Version
      BY <1>2 DEF Taken
<1>4. PICK r \in {"ok", "failed"} :
         taken' = [taken EXCEPT ![s] = [taken[s] EXCEPT !.result = r]]
      BY DEF Execute
<1>5. /\ taken' \in [Server -> Taken(drawn)]
      /\ \A q \in Server : taken'[q] # NoCommand => taken'[q].version \in Version
      BY <1>3, <1>4 DEF TypeInv
<1>6. workers' \in [Server -> SUBSET Version] BY <1>2 DEF Execute, TypeInv
<1>7. OtherTypes' BY <1>1, <1>5, <1>6 DEF TypeInv, OtherTypes, Taken, Issue
<1>8. Commands' BY <1>1, NothingIssued, NothingBack
<1>9. Good(state', drawn') /\ Good(file', drawn') BY <1>1
<1> QED BY <1>1, <1>7, <1>8, <1>9, TypesTogether DEF TypeInv

LEMMA PostKeeps ==
    ASSUME SchedulerInv, NEW s \in Server, NEW version \in Version,
           NEW phase \in Terminal \cup {"running"}, Post(s, version, phase)
    PROVE  SchedulerInv'
<1> USE DEF SchedulerInv
<1> DEFINE new == Posted(s, version, phase)
<1>1. drawn \in Nat /\ drawn' = IF state.update[s].version = version THEN drawn ELSE drawn + 1
      BY DEF TypeInv, Post
<1>2. drawn' \in Nat /\ drawn <= drawn' BY <1>1
<1>3. /\ Good(new, drawn') /\ NoCommandBack(new, state, drawn) /\ NoRowBack(new, state)
      BY <1>1, <1>2, PostedIsGood
<1>4. /\ state' \in {state, new} /\ file' \in {file, new}
      /\ faults' \in {faults, faults + 1} /\ dirty' \in BOOLEAN /\ posts' = posts + 1
      /\ UNCHANGED <<scheduler, taken, given, workers, jobs, issuedFor, singles>>
      BY DEF Post, machineVars, Saved, RolledBack, Fault
<1> HIDE DEF new
<1>5. Good(state', drawn') /\ Good(file', drawn') BY <1>2, <1>3, <1>4, EitherIsGood
<1>6. OtherTypes' BY <1>2, <1>4, OtherTypesKept DEF TypeInv
<1>7. Commands' BY <1>3, <1>4, NothingIssued
<1> QED BY <1>2, <1>5, <1>6, <1>7, TypesTogether

LEMMA SweepStaleKeeps == SchedulerInv /\ SweepStale => SchedulerInv'
<1> SUFFICES ASSUME SchedulerInv, SweepStale PROVE SchedulerInv'
    OBVIOUS
<1> USE DEF SchedulerInv
<1>1. /\ UNCHANGED <<file, taken, given, workers, drawn, jobs, issuedFor, singles, posts,
                     faults>>
      /\ state' = Swept /\ scheduler' \in {"advance", "flush"}
      BY DEF SweepStale, Swept, machineVars, numberVars, boundVars
<1>2. dirty' \in BOOLEAN BY DEF SweepStale, TypeInv
<1>3. Good(Swept, drawn) /\ NoCommandBack(Swept, state, drawn) /\ NoRowBack(Swept, state)
      BY SweptIsGood DEF TypeInv
<1>4. Good(state', drawn') /\ Good(file', drawn') BY <1>1, <1>3
<1>5. OtherTypes' BY <1>1, <1>2, OtherTypesKept DEF TypeInv
<1>6. Commands' BY <1>1, <1>3, NothingIssued
<1> QED BY <1>1, <1>4, <1>5, <1>6, TypesTogether DEF TypeInv

LEMMA NothingToAdvanceKeeps == SchedulerInv /\ NothingToAdvance => SchedulerInv'
<1> SUFFICES ASSUME SchedulerInv, NothingToAdvance PROVE SchedulerInv'
    OBVIOUS
<1> USE DEF SchedulerInv
<1>1. /\ UNCHANGED <<state, file, dirty, taken, given, workers, drawn, jobs, issuedFor,
                     singles, posts>>
      /\ scheduler' = "flush" /\ faults' \in {faults, faults + 1}
      BY DEF NothingToAdvance, controllerVars, machineVars, numberVars, Fault
<1>2. OtherTypes'
  <2>1. dirty' \in BOOLEAN BY <1>1 DEF TypeInv
  <2>2. faults' \in Nat BY <1>1 DEF TypeInv
  <2> QED BY <1>1, <2>1, <2>2, OtherTypesKept DEF TypeInv
<1>3. Commands' BY <1>1, NothingIssued, NothingBack
<1>4. Good(state', drawn') /\ Good(file', drawn') BY <1>1
<1> QED BY <1>1, <1>2, <1>3, <1>4, TypesTogether DEF TypeInv

LEMMA FlushProgressKeeps == SchedulerInv /\ FlushProgress => SchedulerInv'
<1> SUFFICES ASSUME SchedulerInv, FlushProgress PROVE SchedulerInv'
    OBVIOUS
<1> USE DEF SchedulerInv
<1>1. /\ UNCHANGED <<state, taken, given, workers, drawn, jobs, issuedFor, singles, posts>>
      /\ file' \in {file, state} /\ dirty' \in {dirty, FALSE}
      /\ scheduler' = "idle" /\ faults' \in {faults, faults + 1}
      BY DEF FlushProgress, controllerVars, machineVars, numberVars, Saved, RolledBack, Fault
<1>2. OtherTypes'
  <2>1. dirty' \in BOOLEAN BY <1>1 DEF TypeInv
  <2>2. faults' \in Nat BY <1>1 DEF TypeInv
  <2> QED BY <1>1, <2>1, <2>2, OtherTypesKept DEF TypeInv
<1>3. Commands' BY <1>1, NothingIssued, NothingBack
<1>4. Good(state', drawn') /\ Good(file', drawn') BY <1>1
<1> QED BY <1>1, <1>2, <1>3, <1>4, TypesTogether DEF TypeInv

\* openHelperState: what the file's rows promise, the memory's rows promise.
LEMMA ControllerRestartsKeeps == SchedulerInv /\ ControllerRestarts => SchedulerInv'
<1> SUFFICES ASSUME SchedulerInv, ControllerRestarts PROVE SchedulerInv'
    OBVIOUS
<1> USE DEF SchedulerInv
<1>1. /\ UNCHANGED <<file, taken, given, workers, drawn, jobs, issuedFor, singles, posts>>
      /\ state' = file /\ dirty' = FALSE
      /\ scheduler' = "idle" /\ faults' = faults + 1
      BY DEF ControllerRestarts, machineVars, numberVars, Fault
<1>2. OtherTypes'
  <2>1. dirty' \in BOOLEAN BY <1>1
  <2>2. faults' \in Nat BY <1>1 DEF TypeInv
  <2> QED BY <1>1, <2>1, <2>2, OtherTypesKept DEF TypeInv
<1>3. RowsHoldTheirCommands'
  <2> SUFFICES ASSUME NEW a \in issuedFor, a.job = jobs,
                      a.attempt \in given \/ InQueue(file, a.attempt)
               PROVE  ~WaitsIn(file, a.server)
      BY <1>1 DEF RowsHoldTheirCommands
  <2> QED BY DEF Commands, RowsHoldTheirCommands
<1>4. \A a \in issuedFor : Held(a.attempt)' => Held(a.attempt) BY <1>1 DEF Held, InQueue
<1>5. OneHeldPerRow' /\ IssuedOnce' BY <1>1, <1>4 DEF Commands, OneHeldPerRow, IssuedOnce
<1>6. Good(state', drawn') /\ Good(file', drawn') BY <1>1
<1> QED BY <1>1, <1>2, <1>3, <1>5, <1>6, TypesTogether DEF TypeInv, Commands

LEMMA AdvanceBatchKeeps == SchedulerInv /\ AdvanceBatch => SchedulerInv'
<1> SUFFICES ASSUME SchedulerInv, AdvanceBatch PROVE SchedulerInv'
    OBVIOUS
<1> USE DEF SchedulerInv
<1>1. PICK online \in SUBSET Server :
         LET started == { s \in Server : Advanced(online).job.row[s].attempt > drawn }
         IN  /\ Advanced(online) # state
             /\ Saved(Advanced(online)) \/ RolledBack(Advanced(online))
             /\ dirty' = IF state' = state THEN dirty ELSE FALSE
             /\ drawn' = drawn + Cardinality(started)
             /\ issuedFor' = issuedFor \cup
                   { [server |-> s, job |-> jobs,
                      attempt |-> Advanced(online).job.row[s].attempt] : s \in started }
      BY DEF AdvanceBatch
<1> DEFINE new == Advanced(online)
           S == Starting(online)
           issue(s) == [server |-> s, job |-> jobs, attempt |-> new.job.row[s].attempt]
<1>2. drawn \in Nat /\ state.job.running = TRUE
      BY DEF TypeInv, State, Jobs, AdvanceBatch
<1>3. /\ drawn + Cardinality(S) \in Nat
      /\ Good(new, drawn + Cardinality(S))
      /\ NoCommandBack(new, state, drawn) /\ NoRowBack(new, state)
      /\ S = { s \in Server : new.job.row[s].attempt > drawn }
      /\ \A s \in S : /\ new.job.row[s].attempt = Number(S, s)
                      /\ WaitsIn(state, s) /\ ~WaitsIn(new, s)
      BY <1>2, AdvancedIsGood
<1>4. /\ S \subseteq Server /\ Cardinality(S) \in Nat
      /\ \A s \in S : Number(S, s) \in (drawn + 1)..(drawn + Cardinality(S))
      /\ \A r, s \in S : Number(S, r) = Number(S, s) => r = s
  <2>1. S \subseteq Server BY <1>3
  <2> HIDE DEF S
  <2> QED BY <1>2, <2>1, NumbersAreNew
<1>5. /\ drawn' = drawn + Cardinality(S)
      /\ issuedFor' = issuedFor \cup { issue(s) : s \in S }
      BY <1>1, <1>3
<1>6. /\ UNCHANGED <<taken, given, workers, jobs, singles, posts>>
      /\ scheduler' = "idle" /\ dirty' \in {dirty, FALSE}
      /\ state' \in {state, new} /\ file' \in {file, new}
      /\ state' = new => file' = new
      /\ faults' \in {faults, faults + 1}
      BY <1>1 DEF AdvanceBatch, machineVars, Saved, RolledBack, Fault
<1> HIDE DEF S, new
<1>7. drawn' \in Nat /\ drawn <= drawn' BY <1>2, <1>4, <1>5
<1>8. Good(state', drawn') /\ Good(file', drawn') BY <1>3, <1>5, <1>6, <1>7, EitherIsGood
<1>9. \A s \in S : issue(s).attempt \in (drawn + 1)..drawn' /\ issue(s).server \in Server
      BY <1>3, <1>4, <1>5
<1>10. \A a \in issuedFor : a \in Issue(drawn) BY DEF TypeInv
<1>11. issuedFor' \subseteq Issue(drawn)'
  <2>1. \A s \in S : issue(s) \in [server: Server, job: 0..jobs, attempt: 1..drawn']
        BY <1>2, <1>9 DEF TypeInv
  <2>2. \A a \in issuedFor : a \in [server: Server, job: 0..jobs, attempt: 1..drawn']
        BY <1>2, <1>7, <1>10 DEF Issue
  <2> QED BY <1>5, <1>6, <2>1, <2>2 DEF Issue
<1>12. OtherTypes'
  <2>1. \A n \in 0..drawn : n \in 0..drawn' BY <1>2, <1>7
  <2>2. Taken(drawn) \subseteq Taken(drawn') BY <2>1 DEF Taken
  <2>3. taken' \in [Server -> Taken(drawn')] BY <1>6, <2>2 DEF TypeInv
  <2>4. taken' \in [Server -> Taken(drawn)]' BY <2>3 DEF Taken
  <2>5. given' \subseteq 1..drawn' BY <1>2, <1>6, <1>7 DEF TypeInv
  <2>6. dirty' \in BOOLEAN BY <1>6 DEF TypeInv
  <2>7. faults' \in Nat BY <1>6 DEF TypeInv
  <2> QED BY <1>6, <1>11, <2>4, <2>5, <2>6, <2>7 DEF TypeInv, OtherTypes
\* What is held of the older commands was held before, and not for a row that starts.
<1>13. \A a \in issuedFor :
          /\ a.attempt \in 1..drawn /\ a.server \in Server
          /\ InQueue(new, a.attempt) => InQueue(state, a.attempt)
  <2>1. \A a \in issuedFor : a.attempt \in 1..drawn /\ a.server \in Server
        BY <1>10 DEF Issue
  <2> QED BY <1>3, <2>1 DEF NoCommandBack
<1>14. \A s \in S : /\ issue(s).attempt \notin given
                    /\ ~InQueue(state, issue(s).attempt) /\ ~InQueue(file, issue(s).attempt)
  <2> TAKE s \in S
  <2>1. issue(s).attempt \notin 1..drawn BY <1>2, <1>9
  <2>2. \A st : st \in State(drawn) => ~InQueue(st, issue(s).attempt)
        BY <2>1 DEF InQueue, State, Queues, Command
  <2> QED BY <2>1, <2>2 DEF TypeInv
<1>15. \A a \in issuedFor : a.job = jobs /\ a.server \in S =>
          a.attempt \notin given /\ ~InQueue(state, a.attempt) /\ ~InQueue(new, a.attempt)
       BY <1>3, <1>13 DEF Commands, RowsHoldTheirCommands
<1>16. RowsHoldTheirCommands'
  <2>1. ASSUME NEW a \in issuedFor, a.job = jobs
        PROVE  /\ a.attempt \in given \/ InQueue(state', a.attempt) =>
                     ~WaitsIn(state', a.server) /\ ~WaitsIn(file', a.server)
               /\ InQueue(file', a.attempt) => ~WaitsIn(file', a.server)
    <3>1. /\ a.attempt \in given \/ InQueue(state, a.attempt) =>
                ~WaitsIn(state, a.server) /\ ~WaitsIn(file, a.server)
          /\ InQueue(file, a.attempt) => ~WaitsIn(file, a.server)
          BY <2>1 DEF Commands, RowsHoldTheirCommands
    <3>2. WaitsIn(new, a.server) => WaitsIn(state, a.server)
          BY <1>3, <1>13 DEF NoRowBack
    <3> QED BY <1>6, <1>13, <3>1, <3>2
  <2>2. ASSUME NEW s \in S
        PROVE  /\ issue(s).attempt \in given \/ InQueue(state', issue(s).attempt) =>
                     ~WaitsIn(state', s) /\ ~WaitsIn(file', s)
               /\ InQueue(file', issue(s).attempt) => ~WaitsIn(file', s)
        BY <1>3, <1>6, <1>14
  <2>3. \A s \in S : issue(s).server = s OBVIOUS
  <2> HIDE DEF issue
  <2> QED BY <1>5, <1>6, <2>1, <2>2, <2>3 DEF RowsHoldTheirCommands
<1>17. IssuedOnce'
  <2>1. ASSUME NEW r \in S, NEW s \in S, issue(r).attempt = issue(s).attempt
        PROVE  issue(r) = issue(s)
    <3>1. Number(S, r) = Number(S, s) BY <1>3, <2>1
    <3>2. r = s BY <1>4, <3>1
    <3> QED BY <3>2
  <2>2. \A a \in issuedFor, s \in S : a.attempt # issue(s).attempt
        BY <1>2, <1>9, <1>13
  <2> HIDE DEF issue
  <2> QED BY <1>5, <2>1, <2>2 DEF IssuedOnce, Commands
<1>18. OneHeldPerRow'
  <2>1. \A a \in issuedFor : Held(a.attempt)' => Held(a.attempt)
    <3> SUFFICES ASSUME NEW a \in issuedFor,
                        \/ a.attempt \in given' \/ InQueue(state', a.attempt)
                        \/ InQueue(file', a.attempt)
                 PROVE  Held(a.attempt)
        BY DEF Held, InQueue
    <3> QED BY <1>6, <1>13 DEF Held
  <2>2. \A r, s \in S : issue(r).server = issue(s).server => issue(r) = issue(s)
        OBVIOUS
  <2>3. ASSUME NEW a \in issuedFor, NEW s \in S, a.job = jobs, a.server = s,
               NEW c, c = issue(s), Held(a.attempt)', Held(c.attempt)'
        PROVE  FALSE
    <3>1. file' = new \/ state' = new
          BY <1>6, <1>14, <2>3 DEF Held, InQueue
    <3>2. file' = new /\ state' \in {state, new} BY <1>6, <3>1
    <3>3. a.attempt \notin given /\ ~InQueue(state, a.attempt) /\ ~InQueue(new, a.attempt)
          BY <1>15, <2>3
    <3>4. ~(a.attempt \in given' \/ InQueue(state', a.attempt) \/ InQueue(file', a.attempt))
          BY <1>6, <3>2, <3>3
    <3> QED BY <2>3, <3>4 DEF Held, InQueue
  <2>4. \A s \in S : issue(s).server = s /\ issue(s).job = jobs OBVIOUS
  <2> HIDE DEF issue
  <2>5. ASSUME NEW a \in issuedFor', NEW c \in issuedFor', a.server = c.server, a.job = c.job,
               Held(a.attempt)', Held(c.attempt)'
        PROVE  a = c
    <3>1. CASE a \in issuedFor /\ c \in issuedFor
          BY <2>1, <2>5, <3>1 DEF Commands, OneHeldPerRow
    <3>2. CASE a \in issuedFor /\ c \notin issuedFor
      <4>1. PICK s \in S : c = issue(s) BY <1>5, <3>2
      <4> QED BY <2>3, <2>4, <2>5, <3>2, <4>1
    <3>3. CASE a \notin issuedFor /\ c \in issuedFor
      <4>1. PICK s \in S : a = issue(s) BY <1>5, <3>3
      <4> QED BY <2>3, <2>4, <2>5, <3>3, <4>1
    <3>4. CASE a \notin issuedFor /\ c \notin issuedFor
      <4>1. PICK r \in S : a = issue(r) BY <1>5, <3>4
      <4>2. PICK s \in S : c = issue(s) BY <1>5, <3>4
      <4> QED BY <2>2, <2>5, <4>1, <4>2
    <3> QED BY <3>1, <3>2, <3>3, <3>4
  <2> QED BY <2>5 DEF OneHeldPerRow
<1> QED BY <1>7, <1>8, <1>12, <1>16, <1>17, <1>18, TypesTogether DEF Commands

LEMMA SchedulerStep == SchedulerInv /\ [Next]_vars => SchedulerInv'
<1> SUFFICES ASSUME SchedulerInv, [Next]_vars PROVE SchedulerInv'
    OBVIOUS
<1>1. CASE Tick BY <1>1, TickKeeps
<1>2. CASE StartBatch BY <1>2, StartBatchKeeps
<1>3. CASE StopBatch BY <1>3, StopBatchKeeps
<1>4. CASE SweepStale BY <1>4, SweepStaleKeeps
<1>5. CASE AdvanceBatch BY <1>5, AdvanceBatchKeeps
<1>6. CASE NothingToAdvance BY <1>6, NothingToAdvanceKeeps
<1>7. CASE FlushProgress BY <1>7, FlushProgressKeeps
<1>8. CASE ControllerRestarts BY <1>8, ControllerRestartsKeeps
<1>9. CASE \E s \in Server : Report(s) BY <1>9, ReportKeeps
<1>10. CASE \E s \in Server : Execute(s) BY <1>10, ExecuteKeeps
<1>11. CASE \E s \in Server : \E v \in SingleVersions : UpdateOneServer(s, v)
       BY <1>11, UpdateOneServerKeeps
<1>12. CASE \E s \in Server : \E v \in Version, phase \in Terminal \cup {"running"} :
               Post(s, v, phase)
       BY <1>12, PostKeeps
<1>13. CASE UNCHANGED vars
  <2>1. UNCHANGED <<state, file, dirty, scheduler, taken, given, workers, drawn, jobs,
                    issuedFor, singles, posts, faults>>
        BY <1>13 DEF vars, controllerVars, machineVars, numberVars, boundVars
  <2> QED BY <2>1 DEF SchedulerInv, TypeInv, Issue, Commands, RowsHoldTheirCommands,
             OneHeldPerRow, IssuedOnce, Held, InQueue, WaitsIn
<1> QED BY <1>1, <1>2, <1>3, <1>4, <1>5, <1>6, <1>7, <1>8, <1>9, <1>10, <1>11, <1>12, <1>13
        DEF Next

LEMMA SchedulerInvAlways == Spec => []SchedulerInv
BY SchedulerInit, SchedulerStep, PTL DEF Spec

-----------------------------------------------------------------------------
(* Theorems *)

\* Whatever the operator, the scheduler, the Helpers and their workers do in which order,
\* and whatever saves fail: the controller's memory and its file have the types of
\* helperState, and every attempt in them has been numbered.
THEOREM TypesAlways == Spec => []TypeInv
<1>1. SchedulerInv => TypeInv BY DEF SchedulerInv
<1> QED BY <1>1, SchedulerInvAlways, PTL

\* advanceHelperBatch never lets more than MaxActive rows run, in memory or in the file,
\* with any number of servers and any length of the timeouts.
THEOREM LimitOfRunningRows == Spec => []AtMostActive
<1>1. SchedulerInv => AtMostActive BY DEF SchedulerInv, Good, AtMostActive
<1> QED BY <1>1, SchedulerInvAlways, PTL

\* upgradeInProgressLocked is asked wherever an update is queued, so a server has at most
\* one command that a Helper would still be handed.
THEOREM OneLiveUpdatePerServer == Spec => []OneLiveUpdate
<1>1. ASSUME SchedulerInv PROVE OneLiveUpdate
  <2> SUFFICES ASSUME NEW st \in {state, file}, NEW s \in Server
               PROVE  Cardinality({ c \in st.queue[s] : c.age < c.life }) <= 1
      BY DEF OneLiveUpdate
  <2> DEFINE live == { c \in st.queue[s] : c.age < c.life }
  <2>1. LiveOnce(st) BY <1>1 DEF SchedulerInv, Good
  <2>2. \A c, d \in live : c = d BY <2>1 DEF LiveOnce, Live
  <2>3. CASE live = {}
    <3>1. Cardinality(live) = 0 BY <2>3, FS_EmptySet
    <3> QED BY <3>1
  <2>4. CASE live # {}
    <3>1. PICK c \in live : TRUE BY <2>4
    <3> HIDE DEF live
    <3>2. live = {c} BY <2>2, <3>1
    <3>3. Cardinality(live) = 1 BY <3>2, FS_Singleton
    <3> QED BY <3>3 DEF live
  <2> QED BY <2>3, <2>4
<1> QED BY <1>1, SchedulerInvAlways, PTL

\* "Restarting Custom resumes the same commands": commands and rows are saved together
\* or not at all, so of the commands ever issued for a row Helpers receive at most one.
THEOREM OneCommandForEachRow == Spec => []OneCommandPerRow
<1>1. SchedulerInv => OneCommandPerRow
      BY DEF SchedulerInv, Commands, OneHeldPerRow, Held, OneCommandPerRow
<1> QED BY <1>1, SchedulerInvAlways, PTL
=============================================================================

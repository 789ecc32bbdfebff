------------------------ MODULE ManagementChannelProofs ------------------------
(***************************************************************************)
(* Theorems about ManagementChannel, for every value of its constants.      *)
(***************************************************************************)
EXTENDS ManagementChannel, SequenceTheorems, FunctionTheorems, FiniteSetTheorems,
        NaturalsInduction, WellFoundedInduction, TLAPS

-----------------------------------------------------------------------------
(* Lists *)

\* A nonempty set of naturals has its least element for Min.
LEMMA MinOfNaturals ==
    ASSUME NEW S \in SUBSET Nat, S # {}
    PROVE  Min(S) \in S /\ \A y \in S : Min(S) <= y
<1>1. PICK x \in S : \A y \in S : <<y, x>> \notin OpToRel(<, Nat)
  BY NatLessThanWellFounded, WFMin
<1>2. \A y \in S : x <= y
  <2>. SUFFICES ASSUME NEW y \in S
               PROVE  x <= y
    OBVIOUS
  <2>1. <<y, x>> \notin OpToRel(<, Nat)
    BY <1>1
  <2>2. y \in Nat /\ x \in Nat
    OBVIOUS
  <2>3. ~(y < x)
    BY <2>1, <2>2, Zenon DEF OpToRel
  <2>. QED
    BY <2>2, <2>3
<1>. QED
  BY <1>2 DEF Min

\* The newest n entries of a list: still entries of it, and no more than n.
LEMMA NewestType ==
    ASSUME NEW S, NEW s \in Seq(S), NEW n \in Nat
    PROVE  /\ Newest(s, n) \in Seq(S)
           /\ Len(Newest(s, n)) <= n
<1>1. CASE Len(s) <= n
  BY <1>1 DEF Newest
<1>2. CASE Len(s) > n
  <2>1. \A i \in (Len(s) - n + 1) .. Len(s) : s[i] \in S
    BY <1>2, ElementOfSeq
  <2>2. /\ SubSeq(s, Len(s) - n + 1, Len(s)) \in Seq(S)
        /\ Len(SubSeq(s, Len(s) - n + 1, Len(s))) =
             IF Len(s) - n + 1 <= Len(s) THEN Len(s) - (Len(s) - n + 1) + 1 ELSE 0
    BY <2>1, SubSeqProperties
  <2>. QED
    BY <1>2, <2>2 DEF Newest
<1>. QED
  BY <1>1, <1>2
-----------------------------------------------------------------------------
(* What the saves leave on disk *)

LEMMA StoreType ==
    ASSUME NEW S, NEW store \in Store(S), NEW new \in S
    PROVE  /\ store.main \in S /\ store.bak \in S
           /\ BothHold(new) \in Store(S)
           /\ Replaced(store, new) \in Store(S)
           /\ Interrupted(store, new) \subseteq Store(S)
           /\ RestoredFromBackup(store) \in Store(S)
BY DEF Store, BothHold, Replaced, Interrupted, RestoredFromBackup

\* A list without its i-th entry is a list of the same entries, one shorter.
LEMMA RemoveAtType ==
    ASSUME NEW S, NEW s \in Seq(S), NEW i \in 1..Len(s)
    PROVE  RemoveAt(s, i) \in Seq(S) /\ Len(RemoveAt(s, i)) = Len(s) - 1
<1>1. Len(s) \in Nat /\ i \in Int /\ i - 1 \in Int /\ i + 1 \in Int
  BY LenProperties
<1>2. \A j \in 1..(i - 1) : s[j] \in S
  BY <1>1, ElementOfSeq
<1>3. \A j \in (i + 1)..Len(s) : s[j] \in S
  BY <1>1, ElementOfSeq
<1>. DEFINE before == SubSeq(s, 1, i - 1)
            after == SubSeq(s, i + 1, Len(s))
<1>4. before \in Seq(S) /\ Len(before) = IF 1 <= i - 1 THEN (i - 1) - 1 + 1 ELSE 0
  BY <1>1, <1>2, SubSeqProperties
<1>5. after \in Seq(S) /\ Len(after) = IF i + 1 <= Len(s) THEN Len(s) - (i + 1) + 1 ELSE 0
  BY <1>1, <1>3, SubSeqProperties
<1>6. RemoveAt(s, i) = before \o after
  BY DEF RemoveAt
<1>. HIDE DEF before, after
<1>7. Len(before) = i - 1 /\ Len(after) = Len(s) - i
  BY <1>1, <1>4, <1>5
<1>8. before \o after \in Seq(S) /\ Len(before \o after) = Len(before) + Len(after)
  BY <1>4, <1>5, ConcatProperties
<1>. QED
  BY <1>1, <1>6, <1>7, <1>8

\* A withdrawn command leaves a shorter queue of commands.
LEMMA WithdrawnType ==
    ASSUME ctl \in ControllerState, NEW i \in 1..Len(ctl.queue)
    PROVE  /\ Withdrawn(i) \in ControllerState
           /\ Withdrawn(i).history = ctl.history
<1>1. /\ ctl.queue \in Seq(Command) /\ Len(ctl.queue) \in Nat /\ Len(ctl.queue) <= QueueMax
      /\ ctl \in [queue: Seq(Command), history: Seq(Result)]
      /\ Len(ctl.history) <= HistoryMax
  BY LenProperties DEF ControllerState
<1>2. RemoveAt(ctl.queue, i) \in Seq(Command) /\ Len(RemoveAt(ctl.queue, i)) = Len(ctl.queue) - 1
  BY <1>1, RemoveAtType
<1>3. Len(RemoveAt(ctl.queue, i)) <= QueueMax
  BY <1>1, <1>2, LimitsAssumption
<1>4. /\ Withdrawn(i) = [ctl EXCEPT !.queue = RemoveAt(ctl.queue, i)]
      /\ Withdrawn(i).queue = RemoveAt(ctl.queue, i) /\ Withdrawn(i).history = ctl.history
  BY <1>1 DEF Withdrawn
<1>5. Withdrawn(i) \in [queue: Seq(Command), history: Seq(Result)]
  BY <1>1, <1>2, <1>4
<1>. QED
  BY <1>1, <1>3, <1>4, <1>5 DEF ControllerState

LEMMA SavedControllerType ==
    ASSUME ctlStore \in Store(ControllerState), NEW new \in ControllerState, faults \in Nat,
           SavedController(new) \/ UnsavedController(new)
    PROVE  ctlStore' \in Store(ControllerState) /\ faults' \in Nat
<1>1. CASE SavedController(new)
  BY <1>1, StoreType DEF SavedController
<1>2. CASE UnsavedController(new)
  <2>1. ctlStore' \in Interrupted(ctlStore, new) /\ faults' = faults + 1
    BY <1>2 DEF UnsavedController, Fault
  <2>. QED
    BY <2>1, StoreType
<1>. QED
  BY <1>1, <1>2

LEMMA HelperSavesType ==
    ASSUME helperStore \in Store(HelperState), NEW new \in HelperState, faults \in Nat,
           HelperSaves(new)
    PROVE  helperStore' \in Store(HelperState) /\ faults' \in Nat
<1>1. CASE helperStore' = Replaced(helperStore, new) /\ UNCHANGED faults
  BY <1>1, StoreType
<1>2. CASE Fault /\ helperStore' \in Interrupted(helperStore, new)
  BY <1>2, StoreType DEF Fault
<1>. QED
  BY <1>1, <1>2 DEF HelperSaves

-----------------------------------------------------------------------------
(* The steps of the two sides stay within their types and limits *)

LEMMA EnqueuedType ==
    ASSUME ctl \in ControllerState, NEW c \in Command, Len(ctl.queue) < QueueMax
    PROVE  [ctl EXCEPT !.queue = Queued(@, c)] \in ControllerState
<1>. DEFINE new == [ctl EXCEPT !.queue = Queued(@, c)]
<1>1. ctl.queue \in Seq(Command)
  BY DEF ControllerState
<1>2. /\ Append(ctl.queue, c) \in Seq(Command)
      /\ Len(Append(ctl.queue, c)) = Len(ctl.queue) + 1
  BY <1>1, AppendProperties
<1>3. Len(ctl.queue) + 1 <= QueueMax
  BY <1>1, LenProperties, LimitsAssumption
<1>4. new.queue = Append(ctl.queue, c) /\ new.history = ctl.history
  BY DEF ControllerState, Queued
<1>5. new \in [queue: Seq(Command), history: Seq(Result)]
  BY <1>2 DEF ControllerState, Queued
<1>. QED
  BY <1>2, <1>3, <1>4, <1>5 DEF ControllerState

LEMMA ShorterQueueType ==
    ASSUME NEW S, NEW q \in Seq(S), NEW r
    PROVE  /\ Acknowledged(q, r) \in Seq(S) /\ Len(Acknowledged(q, r)) <= Len(q)
           /\ WithoutExpired(q) \in Seq(S) /\ Len(WithoutExpired(q)) <= Len(q)
<1>1. Acknowledged(q, r) \in Seq(S) /\ Len(Acknowledged(q, r)) <= Len(q)
  BY HeadTailProperties DEF Acknowledged
<1>2. WithoutExpired(q) \in Seq(S) /\ Len(WithoutExpired(q)) <= Len(q)
  <2>. DEFINE live == { i \in 1..Len(q) : now <= expiresAt[q[i]] }
  <2>1. CASE live = {}
    BY <2>1 DEF WithoutExpired
  <2>2. CASE live # {}
    <3>1. Min(live) \in 1..Len(q)
      <4>1. live \in SUBSET Nat /\ live \subseteq 1..Len(q)
        OBVIOUS
      <4>. HIDE DEF live
      <4>. QED
        BY <2>2, <4>1, MinOfNaturals
    <3>2. \A i \in Min(live)..Len(q) : q[i] \in S
      BY <3>1, ElementOfSeq
    <3>3. /\ SubSeq(q, Min(live), Len(q)) \in Seq(S)
          /\ Len(SubSeq(q, Min(live), Len(q))) =
               IF Min(live) <= Len(q) THEN Len(q) - Min(live) + 1 ELSE 0
      <4>. HIDE DEF live
      <4>. QED
        BY <3>1, <3>2, SubSeqProperties
    <3>4. WithoutExpired(q) = SubSeq(q, Min(live), Len(q))
      BY <2>2 DEF WithoutExpired
    <3>. HIDE DEF live
    <3>. QED
      BY <3>1, <3>3, <3>4
  <2>. QED
    BY <2>1, <2>2
<1>. QED
  BY <1>1, <1>2

LEMMA AfterReportType ==
    ASSUME ctl \in ControllerState, NEW r \in Result \cup {NoResult},
           expiresAt \in [Command -> Nat], now \in Nat
    PROVE  AfterReport(r) \in ControllerState
<1>1. /\ WithoutExpired(Acknowledged(ctl.queue, r)) \in Seq(Command)
      /\ Len(WithoutExpired(Acknowledged(ctl.queue, r))) <= QueueMax
  <2>1. ctl.queue \in Seq(Command) /\ Len(ctl.queue) <= QueueMax
    BY DEF ControllerState
  <2>. DEFINE q == Acknowledged(ctl.queue, r)
  <2>2. q \in Seq(Command) /\ Len(q) <= Len(ctl.queue)
    BY <2>1, ShorterQueueType
  <2>. HIDE DEF q
  <2>3. WithoutExpired(q) \in Seq(Command) /\ Len(WithoutExpired(q)) <= Len(q)
    BY <2>2, ShorterQueueType
  <2>. QED
    BY <2>1, <2>2, <2>3, LimitsAssumption DEF q
<1>2. Remembered(ctl.history, r) \in Seq(Result) /\ Len(Remembered(ctl.history, r)) <= HistoryMax
  <2>1. ctl.history \in Seq(Result) /\ Len(ctl.history) <= HistoryMax
    BY DEF ControllerState
  <2>2. CASE r = NoResult
    BY <2>1, <2>2 DEF Remembered
  <2>3. CASE r # NoResult
    <3>1. Append(ctl.history, r) \in Seq(Result)
      BY <2>1, <2>3, AppendProperties
    <3>. QED
      BY <2>3, <3>1, NewestType, LimitsAssumption DEF Remembered
  <2>. QED
    BY <2>2, <2>3
<1>. QED
  BY <1>1, <1>2 DEF AfterReport, ControllerState

LEMMA FinishedType ==
    ASSUME NEW h \in HelperState, NEW c \in Command
    PROVE  Finished(h, c) \in HelperState
<1>1. h.completed \in Seq(Command) /\ Len(h.completed) <= CompletedMax
  BY DEF HelperState
<1>2. Append(h.completed, c) \in Seq(Command)
  BY <1>1, AppendProperties
<1>3. WithCompleted(h.completed, c) \in Seq(Command)
      /\ Len(WithCompleted(h.completed, c)) <= CompletedMax
  BY <1>1, <1>2, NewestType, LimitsAssumption DEF WithCompleted
<1>4. c \in Result
  BY DEF Result
<1>. QED
  BY <1>3, <1>4 DEF Finished, HelperState
\* In a typed state, what a report makes of the controller and of its file is typed.
LEMMA ReportType ==
    ASSUME TypeOK, NEW r \in Result \cup {NoResult},
           AcceptReport(r) \/ RejectReport(r)
    PROVE  /\ ctl' \in ControllerState /\ ctlStore' \in Store(ControllerState)
           /\ faults' \in Nat
<1>1. AfterReport(r) \in ControllerState
  BY AfterReportType DEF TypeOK
<1>2. CASE AcceptReport(r)
  BY <1>1, <1>2, SavedControllerType DEF AcceptReport, TypeOK
<1>3. CASE RejectReport(r)
  BY <1>1, <1>3, SavedControllerType DEF RejectReport, TypeOK
<1>. QED
  BY <1>2, <1>3

LEMMA TypeInit == Init => TypeOK
<1>. SUFFICES ASSUME Init
             PROVE  TypeOK
  OBVIOUS
<1>1. <<>> \in Seq(Command) /\ <<>> \in Seq(Result) /\ Len(<<>>) = 0
  BY EmptySeq
<1>2. EmptyController \in ControllerState
  BY <1>1, LimitsAssumption DEF EmptyController, ControllerState
<1>3. FreshHelper \in HelperState
  BY <1>1, LimitsAssumption DEF FreshHelper, HelperState
<1>4. /\ BothHold(EmptyController) \in Store(ControllerState)
      /\ BothHold(FreshHelper) \in Store(HelperState)
  BY <1>2, <1>3 DEF BothHold, Store
<1>5. 0 \in 0..MaxCommands
  BY BoundsAssumption
<1>. QED
  BY <1>1, <1>2, <1>3, <1>4, <1>5 DEF Init, TypeOK, NoCommand

LEMMA TypeStep == TypeOK /\ [Next]_vars => TypeOK'
<1>. SUFFICES ASSUME TypeOK, [Next]_vars
             PROVE  TypeOK'
  OBVIOUS
<1>. USE DEF TypeOK, vars, controllerVars, helperVars, historyVars, boundVars
<1>0. /\ EmptyController \in ControllerState /\ FreshHelper \in HelperState
      /\ BothHold(FreshHelper) \in Store(HelperState)
  <2>1. <<>> \in Seq(Command) /\ <<>> \in Seq(Result) /\ Len(<<>>) = 0
    BY EmptySeq
  <2>2. EmptyController \in ControllerState
    BY <2>1, LimitsAssumption DEF EmptyController, ControllerState
  <2>3. FreshHelper \in HelperState
    BY <2>1, LimitsAssumption DEF FreshHelper, HelperState
  <2>. QED
    BY <2>2, <2>3 DEF BothHold, Store
<1>1. CASE Tick
  BY <1>1 DEF Tick
<1>2. CASE Enqueue
  <2>. DEFINE c == drawn + 1
             new == [ctl EXCEPT !.queue = Queued(@, c)]
  <2>1. c \in Command /\ c \in 0..MaxCommands
    BY <1>2, BoundsAssumption DEF Enqueue, Command
  <2>2. new \in ControllerState
    BY <1>2, <2>1, EnqueuedType DEF Enqueue
  <2>3. ctlStore' \in Store(ControllerState) /\ faults' \in Nat
    BY <1>2, <2>2, SavedControllerType DEF Enqueue
  <2>4. ctl' \in ControllerState
    BY <1>2, <2>2 DEF Enqueue
  <2>5. drawn' \in 0..MaxCommands
    BY <1>2, <2>1 DEF Enqueue
  <2>6. expiresAt' \in [Command -> Nat]
    <3>1. Ttl(c) \in Nat BY TimesAssumption DEF Ttl
    <3>2. now + Ttl(c) \in Nat BY <3>1
    <3>3. expiresAt' = [expiresAt EXCEPT ![c] = now + Ttl(c)] BY <1>2 DEF Enqueue
    <3>. QED BY <3>2, <3>3
  <2>. QED
    BY <1>2, <2>3, <2>4, <2>5, <2>6 DEF Enqueue
<1>3. CASE ControllerAnswers
  <2>1. CASE ~registered
    BY <1>3, <2>1 DEF ControllerAnswers
  <2>2. CASE registered
    <3>1. helper.pending \in Result \cup {NoResult}
      BY DEF HelperState
    <3>2. AcceptReport(helper.pending) \/ RejectReport(helper.pending)
      BY <1>3, <2>2 DEF ControllerAnswers
    <3>3. /\ ctl' \in ControllerState /\ ctlStore' \in Store(ControllerState)
          /\ faults' \in Nat
      BY <3>1, <3>2, ReportType
    <3>4. reply' \in Command \cup {NoCommand}
      <4>1. NextCommand(ctl'.queue) \in Command \cup {NoCommand}
        BY <3>3, HeadTailProperties DEF NextCommand, ControllerState
      <4>. QED
        BY <1>3, <2>2, <4>1 DEF ControllerAnswers
    <3>5. pc' \in {"answered", "idle"}
      BY <1>3, <2>2 DEF ControllerAnswers
    <3>. QED
      BY <1>3, <3>3, <3>4, <3>5 DEF ControllerAnswers
  <2>. QED
    BY <2>1, <2>2
<1>4. CASE ControllerHandlesLateReport
  <2>1. PICK r \in late :
          /\ late' = late \ {r}
          /\ \/ ~registered /\ UNCHANGED <<ctl, ctlStore, faults>>
             \/ registered /\ (AcceptReport(r) \/ RejectReport(r))
    BY <1>4 DEF ControllerHandlesLateReport
  <2>2. r \in Result \cup {NoResult}
    OBVIOUS
  <2>3. /\ ctl' \in ControllerState /\ ctlStore' \in Store(ControllerState)
        /\ faults' \in Nat
    BY <2>1, <2>2, ReportType
  <2>. QED
    BY <1>4, <2>1, <2>3 DEF ControllerHandlesLateReport
<1>5. CASE ControllerSavesOther
  BY <1>5, SavedControllerType DEF ControllerSavesOther
<1>5a. CASE WithdrawCommand
  <2>1. PICK i \in 1..Len(ctl.queue) :
          /\ \/ SavedController(Withdrawn(i)) /\ ctl' = Withdrawn(i)
             \/ UNCHANGED <<ctlStore, faults>> /\ ctl' = Withdrawn(i)
             \/ UnsavedController(Withdrawn(i)) /\ ctl' \in {ctl, Withdrawn(i)}
    BY <1>5a DEF WithdrawCommand
  <2>2. Withdrawn(i) \in ControllerState
    BY WithdrawnType
  <2>3. ctl' \in ControllerState /\ ctlStore' \in Store(ControllerState) /\ faults' \in Nat
    BY <2>1, <2>2, SavedControllerType
  <2>. QED
    BY <1>5a, <2>1, <2>3 DEF WithdrawCommand
<1>6. CASE RetireServer
  BY <1>0, <1>6, SavedControllerType DEF RetireServer
<1>7. CASE ControllerRestarts
  <2>1. ctlStore.main \in ControllerState /\ ctlStore.bak \in ControllerState
    BY StoreType
  <2>2. RestoredFromBackup(ctlStore) \in Store(ControllerState)
    BY StoreType
  <2>3. /\ ctl' \in ControllerState /\ ctlStore' \in Store(ControllerState)
        /\ rewound' \in BOOLEAN
    BY <1>7, <2>1, <2>2 DEF ControllerRestarts
  <2>. QED
    BY <1>7, <2>3 DEF ControllerRestarts, Fault
<1>8. CASE HelperReports
  BY <1>8, HelperSavesType DEF HelperReports
<1>9. CASE CallFails
  BY <1>9 DEF CallFails, HelperState
<1>10. CASE HelperReadsAnswer
  <2>1. helper' \in HelperState
    BY <1>10 DEF HelperReadsAnswer, HelperState
  <2>. QED
    BY <1>10, <2>1 DEF HelperReadsAnswer
<1>11. CASE HelperIsRefused
  BY <1>11 DEF HelperIsRefused
<1>12. CASE HelperRejects
  <2>1. helper' \in HelperState
    BY <1>12, FinishedType DEF HelperRejects
  <2>. QED
    BY <1>12, <2>1 DEF HelperRejects
<1>12a. CASE HelperExecutes
  <2>1. helper' \in HelperState
    BY <1>12a, FinishedType DEF HelperExecutes
  <2>2. ran' \in Seq(Command)
    BY <1>12a, AppendProperties DEF HelperExecutes
  <2>. QED
    BY <1>12a, <2>1, <2>2 DEF HelperExecutes
<1>12b. CASE HelperPreparesUninstall
  <2>. DEFINE prepared == [helper EXCEPT !.uninstalling = TRUE]
  <2>1. reply \in Command /\ prepared \in HelperState
    BY <1>12b DEF HelperPreparesUninstall, HelperState
  <2>2. helper' \in HelperState
    <3>1. \A h \in {helper, prepared} : Finished(h, reply) \in HelperState
      BY <2>1, FinishedType
    <3>. HIDE DEF prepared
    <3>2. \E h \in {helper, prepared} : helper' = Finished(h, reply)
      BY <1>12b DEF HelperPreparesUninstall, prepared
    <3>. QED
      BY <3>1, <3>2
  <2>3. helperStore' \in Store(HelperState) /\ faults' \in Nat
    <3>1. \/ UNCHANGED <<helperStore, faults>>
          \/ helperStore' = Replaced(helperStore, prepared) /\ UNCHANGED faults
          \/ Fault /\ helperStore' \in Interrupted(helperStore, prepared)
      BY <1>12b DEF HelperPreparesUninstall, HelperSaves
    <3>2. Fault => faults' \in Nat
      BY DEF Fault
    <3>. HIDE DEF prepared
    <3>. QED
      BY <2>1, <3>1, <3>2, StoreType
  <2>4. ran' \in Seq(Command)
    BY <1>12b, AppendProperties DEF HelperPreparesUninstall
  <2>. QED
    BY <1>12b, <2>2, <2>3, <2>4 DEF HelperPreparesUninstall
<1>13. CASE HelperEndsPass
  BY <1>13, HelperSavesType DEF HelperEndsPass
<1>14. CASE HelperFinishesUninstall
  BY <1>14 DEF HelperFinishesUninstall
<1>15. CASE HelperRestarts
  <2>1. helper' \in HelperState /\ helperStore' \in Store(HelperState)
    BY <1>0, <1>15, StoreType DEF HelperRestarts, HelperLoads
  <2>2. forgotten' \in [Command -> Nat]
    BY <1>15 DEF HelperRestarts
  <2>3. late' \subseteq Result \cup {NoResult}
    BY <1>15 DEF HelperRestarts, HelperState
  <2>. QED
    BY <1>15, <2>1, <2>2, <2>3 DEF HelperRestarts, Fault
<1>16. CASE Done
  BY <1>16 DEF Done
<1>17. CASE UNCHANGED vars
  BY <1>17
<1>. QED
  BY <1>1, <1>2, <1>3, <1>4, <1>5, <1>5a, <1>6, <1>7, <1>8, <1>9, <1>10, <1>11,
     <1>12, <1>12a, <1>12b, <1>13, <1>14, <1>15, <1>16, <1>17 DEF Next

\* Every reachable state of the channel is well typed, and the queue, the result
\* history and the replay window respect their limits (agent_management.go,
\* cmd/mmwxc-helper/management.go).
THEOREM TypeCorrect == Spec => []TypeOK
BY TypeInit, TypeStep, PTL DEF Spec
-----------------------------------------------------------------------------
(* No result is lost: the inductive invariant *)

\* A copy of the Helper's state owes or has delivered every result it knows of.
Accounted(h, history) ==
    \A c \in Range(h.completed) : h.pending = c \/ c \in Answered(history)

Reliable == registered /\ ~rewound

\* A failed save may leave the file ahead of the memory, never behind it.
FileNotBehind == Reliable => Len(ctl.history) <= Len(ctlStore.main.history)

\* A command starts only after the answer that brought it took the previous result.
RunOwesNothing == pc = "run" => helper.pending = NoResult

\* Stated of the controller's memory, which is what the next save writes, and of
\* every copy of its state that the Helper may come back with.
ResultsAccounted ==
    Reliable /\ Len(ctl.history) < HistoryMax =>
        /\ Answered(ctl.history) \subseteq Answered(ctlStore.main.history)
        /\ Accounted(helper, ctl.history)
        /\ Accounted(helperStore.main, ctl.history)
        /\ Accounted(helperStore.bak, ctl.history)
        /\ pc = "answered" =>
              helper.pending = NoResult \/ helper.pending \in Answered(ctl.history)

DeliveryInv == TypeOK /\ FileNotBehind /\ RunOwesNothing /\ ResultsAccounted
\* Recording a result never makes the history shorter; below the limit it keeps every
\* earlier answer and adds the new one.
LEMMA RememberedGrows ==
    ASSUME NEW h \in Seq(Result), NEW r \in Result \cup {NoResult}, Len(h) <= HistoryMax
    PROVE  /\ Len(h) <= Len(Remembered(h, r))
           /\ Len(h) < HistoryMax =>
                /\ Answered(h) \subseteq Answered(Remembered(h, r))
                /\ r # NoResult => r \in Answered(Remembered(h, r))
<1>1. CASE r = NoResult
  BY <1>1 DEF Remembered
<1>2. CASE r # NoResult
  <2>. DEFINE l == Append(h, r)
  <2>1. /\ l \in Seq(Result) /\ Len(l) = Len(h) + 1
        /\ \A i \in 1..Len(h) : l[i] = h[i]
        /\ l[Len(h) + 1] = r
    BY <1>2, AppendProperties
  <2>2. Remembered(h, r) = Newest(l, HistoryMax)
    BY <1>2 DEF Remembered
  <2>. HIDE DEF l
  <2>3. Len(h) \in Nat
    BY LenProperties
  <2>4. CASE Len(h) < HistoryMax
    <3>1. Remembered(h, r) = l
      BY <2>1, <2>2, <2>3, <2>4, LimitsAssumption DEF Newest
    <3>2. Answered(h) \subseteq Answered(l) /\ r \in Answered(l)
      BY <2>1, <2>3 DEF Answered
    <3>. QED
      BY <2>1, <2>3, <3>1, <3>2
  <2>5. CASE Len(h) = HistoryMax
    <3>1. Newest(l, HistoryMax) = SubSeq(l, 2, Len(l))
      BY <2>1, <2>3, <2>5, LimitsAssumption DEF Newest
    <3>2. \A i \in 2..Len(l) : l[i] \in Result
      BY <2>1, ElementOfSeq
    <3>3. Len(SubSeq(l, 2, Len(l))) = IF 2 <= Len(l) THEN Len(l) - 2 + 1 ELSE 0
      BY <2>1, <2>3, <3>2, SubSeqProperties
    <3>. QED
      BY <2>1, <2>2, <2>3, <2>5, <3>1, <3>3, LimitsAssumption
  <2>. QED
    BY <2>3, <2>4, <2>5, LimitsAssumption
<1>. QED
  BY <1>1, <1>2

LEMMA WithCompletedRange ==
    ASSUME NEW s \in Seq(Command), NEW c \in Command
    PROVE  Range(WithCompleted(s, c)) \subseteq Range(s) \cup {c}
<1>. DEFINE l == Append(s, c)
<1>1. /\ l \in Seq(Command) /\ Len(l) = Len(s) + 1 /\ Len(s) \in Nat
      /\ \A i \in 1..Len(s) : l[i] = s[i]
      /\ l[Len(s) + 1] = c
  BY AppendProperties, LenProperties
<1>. HIDE DEF l
<1>2. Range(l) \subseteq Range(s) \cup {c}
  BY <1>1, RangeEquality
<1>3. Range(Newest(l, CompletedMax)) \subseteq Range(l)
  <2>1. CASE Len(l) <= CompletedMax
    BY <2>1 DEF Newest
  <2>2. CASE Len(l) > CompletedMax
    <3>. DEFINE m == Len(l) - CompletedMax + 1
    <3>1. m \in 1..Len(l)
      BY <1>1, <2>2, LimitsAssumption
    <3>2. \A i \in m..Len(l) : l[i] \in Range(l)
      BY <1>1, <3>1, RangeEquality
    <3>. HIDE DEF m
    <3>3. SubSeq(l, m, Len(l)) \in Seq(Range(l))
      BY <1>1, <3>1, <3>2, SubSeqProperties
    <3>4. Range(SubSeq(l, m, Len(l))) \subseteq Range(l)
      BY <3>3, RangeOfSeq
    <3>. QED
      BY <2>2, <3>4 DEF Newest, m
  <2>. QED
    BY <1>1, <2>1, <2>2, LimitsAssumption
<1>. QED
  BY <1>2, <1>3 DEF WithCompleted, l

\* Finishing a command owes its result; nothing else may have been owed before.
LEMMA FinishedAccounted ==
    ASSUME NEW h \in HelperState, NEW c \in Command, NEW history,
           h.pending = NoResult, Accounted(h, history)
    PROVE  Accounted(Finished(h, c), history)
<1>1. h.completed \in Seq(Command)
  BY DEF HelperState
<1>2. Range(h.completed) \subseteq Command
  BY <1>1, RangeOfSeq
<1>3. \A d \in Range(h.completed) : d \in Answered(history)
  BY <1>2 DEF Accounted, NoResult, NoCommand, Command
<1>4. /\ Finished(h, c).pending = c
      /\ Finished(h, c).completed = WithCompleted(h.completed, c)
  BY DEF Finished, HelperState
<1>. QED
  BY <1>1, <1>3, <1>4, WithCompletedRange DEF Accounted

\* More answers keep a copy accounted.
LEMMA AccountedMonotone ==
    ASSUME NEW h, NEW before, NEW after, Answered(before) \subseteq Answered(after),
           Accounted(h, before)
    PROVE  Accounted(h, after)
BY DEF Accounted
LEMMA SavedParts ==
    ASSUME NEW store, NEW new, NEW after \in Interrupted(store, new) \cup {Replaced(store, new)}
    PROVE  after.main \in {store.main, new} /\ after.bak \in {store.main, store.bak}
BY DEF Interrupted, Replaced, BothHold

\* A report, accepted or rolled back, keeps what the controller knows and saves.
LEMMA ReportDelivers ==
    ASSUME DeliveryInv, TypeOK', registered, UNCHANGED <<registered, rewound>>,
           NEW r \in Result \cup {NoResult},
           AcceptReport(r) \/ RejectReport(r)
    PROVE  /\ FileNotBehind'
           /\ (Reliable /\ Len(ctl.history) < HistoryMax)' =>
                /\ Reliable /\ Len(ctl.history) < HistoryMax
                /\ Answered(ctl.history) \subseteq Answered(ctl'.history)
                /\ Answered(ctl'.history) \subseteq Answered(ctlStore'.main.history)
                /\ AcceptReport(r) /\ r # NoResult => r \in Answered(ctl'.history)
<1>. DEFINE new == AfterReport(r)
<1>1. /\ ctl.history \in Seq(Result) /\ Len(ctl.history) <= HistoryMax
      /\ ctl.queue \in Seq(Command)
  BY DEF DeliveryInv, TypeOK, ControllerState
<1>2. new.history = Remembered(ctl.history, r)
  BY DEF AfterReport
<1>3. Len(ctl.history) \in Nat /\ Len(new.history) \in Nat
  <2>1. new \in ControllerState
    BY AfterReportType DEF DeliveryInv, TypeOK
  <2>2. new.history \in Seq(Result)
    BY <2>1 DEF ControllerState
  <2>. QED
    BY <1>1, <2>2, LenProperties
<1>4. /\ Len(ctl.history) <= Len(new.history)
      /\ Len(ctl.history) < HistoryMax =>
            /\ Answered(ctl.history) \subseteq Answered(new.history)
            /\ r # NoResult => r \in Answered(new.history)
  BY <1>1, <1>2, RememberedGrows
<1>5. CASE AcceptReport(r)
  <2>1. ctl' = new
    BY <1>5 DEF AcceptReport
  <2>2. \/ r = NoResult /\ new = ctl /\ ctlStore' = ctlStore
        \/ ctlStore'.main = new
    BY <1>5 DEF AcceptReport, SavedController, Replaced
  <2>. HIDE DEF new
  <2>3. CASE r = NoResult /\ new = ctl /\ ctlStore' = ctlStore
    BY <2>1, <2>3 DEF DeliveryInv, FileNotBehind, ResultsAccounted, Reliable
  <2>4. CASE ctlStore'.main = new
    BY <1>3, <1>4, <2>1, <2>4, LimitsAssumption DEF FileNotBehind, Reliable
  <2>. QED
    BY <2>2, <2>3, <2>4
<1>6. CASE RejectReport(r)
  <2>1. ctl' = ctl /\ ~(r = NoResult /\ new = ctl)
    BY <1>6 DEF RejectReport
  <2>2. ctlStore'.main \in {ctlStore.main, new}
    BY <1>6, SavedParts DEF RejectReport, UnsavedController
  <2>3. AcceptReport(r) /\ r # NoResult => new = ctl
    BY <2>1 DEF AcceptReport
  <2>. HIDE DEF new
  <2>. QED
    BY <1>4, <2>1, <2>2, <2>3 DEF DeliveryInv, FileNotBehind, ResultsAccounted, Reliable
<1>. QED
  BY <1>5, <1>6
LEMMA DeliveryInit == Init => DeliveryInv
<1>. SUFFICES ASSUME Init
             PROVE  DeliveryInv
  OBVIOUS
<1>1. TypeOK
  BY TypeInit
<1>2. /\ ctl = EmptyController /\ ctlStore.main = EmptyController
      /\ helper = FreshHelper /\ helperStore.main = FreshHelper /\ helperStore.bak = FreshHelper
      /\ pc = "idle"
  BY DEF Init, BothHold
<1>3. Range(FreshHelper.completed) = {}
  BY DEF FreshHelper, Range
<1>4. Len(EmptyController.history) \in Nat
  BY EmptySeq DEF EmptyController
<1>. QED
  BY <1>1, <1>2, <1>3, <1>4
  DEF DeliveryInv, FileNotBehind, RunOwesNothing, ResultsAccounted, Accounted

\* Steps that leave the controller's histories alone.
LEMMA HelperSideStep ==
    ASSUME DeliveryInv, TypeOK', UNCHANGED <<registered, rewound, ctl, ctlStore>>,
           RunOwesNothing',
           ASSUME Reliable, Len(ctl.history) < HistoryMax
           PROVE  /\ Accounted(helper', ctl.history)
                  /\ Accounted(helperStore'.main, ctl.history)
                  /\ Accounted(helperStore'.bak, ctl.history)
                  /\ pc' = "answered" => pc = "answered" /\ UNCHANGED helper
    PROVE  DeliveryInv'
BY DEF DeliveryInv, FileNotBehind, ResultsAccounted, Reliable

LEMMA DeliveryStep == DeliveryInv /\ [Next]_vars => DeliveryInv'
<1>. SUFFICES ASSUME DeliveryInv, [Next]_vars
             PROVE  DeliveryInv'
  OBVIOUS
<1>0. TypeOK /\ TypeOK'
  BY TypeStep DEF DeliveryInv
<1>a. /\ helper \in HelperState /\ ctl \in ControllerState
      /\ ctl.history \in Seq(Result) /\ Len(ctl.history) \in Nat
      /\ helper.pending \in Result \cup {NoResult}
  BY <1>0, LenProperties DEF TypeOK, HelperState, ControllerState
<1>b. ASSUME Reliable, Len(ctl.history) < HistoryMax
      PROVE  /\ Accounted(helper, ctl.history)
             /\ Accounted(helperStore.main, ctl.history)
             /\ Accounted(helperStore.bak, ctl.history)
  BY <1>b DEF DeliveryInv, ResultsAccounted
<1>. USE DEF vars, controllerVars, helperVars, historyVars, boundVars
<1>1. CASE Tick \/ Done \/ UNCHANGED vars
  BY <1>0, <1>1
  DEF Tick, Done, DeliveryInv, FileNotBehind, RunOwesNothing, ResultsAccounted, Reliable
<1>2. CASE Enqueue
  <2>. DEFINE new == [ctl EXCEPT !.queue = Queued(@, drawn + 1)]
  <2>1. new.history = ctl.history
    BY <1>a DEF ControllerState
  <2>2. \/ ctl' = new /\ ctlStore'.main = new
        \/ ctl' = ctl /\ ctlStore'.main \in {ctlStore.main, new}
    <3>1. \/ ctl' = new /\ ctlStore' = Replaced(ctlStore, new)
          \/ ctl' = ctl /\ ctlStore' \in Interrupted(ctlStore, new)
      BY <1>2 DEF Enqueue, SavedController, UnsavedController
    <3>2. Replaced(ctlStore, new).main = new
      BY DEF Replaced
    <3>. HIDE DEF new
    <3>. QED
      BY <3>1, <3>2, SavedParts
  <2>3. UNCHANGED <<registered, rewound, helper, helperStore, pc>>
    BY <1>2 DEF Enqueue
  <2>. HIDE DEF new
  <2>. QED
    BY <1>0, <1>a, <2>1, <2>2, <2>3
    DEF DeliveryInv, FileNotBehind, RunOwesNothing, ResultsAccounted, Reliable
<1>3. CASE ControllerAnswers
  <2>1. UNCHANGED <<registered, rewound, helper, helperStore>>
    BY <1>3 DEF ControllerAnswers
  <2>2. RunOwesNothing'
    BY <1>3 DEF ControllerAnswers, RunOwesNothing
  <2>3. CASE ~registered
    BY <1>0, <1>3, <2>1, <2>2, <2>3
    DEF DeliveryInv, FileNotBehind, ResultsAccounted, Reliable
  <2>4. CASE registered
    <3>1. /\ AcceptReport(helper.pending) \/ RejectReport(helper.pending)
          /\ pc' = "answered" => AcceptReport(helper.pending)
      BY <1>3, <2>4 DEF ControllerAnswers
    <3>2. /\ FileNotBehind'
          /\ (Reliable /\ Len(ctl.history) < HistoryMax)' =>
               /\ Reliable /\ Len(ctl.history) < HistoryMax
               /\ Answered(ctl.history) \subseteq Answered(ctl'.history)
               /\ Answered(ctl'.history) \subseteq Answered(ctlStore'.main.history)
               /\ AcceptReport(helper.pending) /\ helper.pending # NoResult =>
                     helper.pending \in Answered(ctl'.history)
      BY <1>0, <1>a, <2>1, <2>4, <3>1, ReportDelivers
    <3>. QED
      BY <1>0, <1>b, <2>1, <2>2, <3>1, <3>2, AccountedMonotone
      DEF DeliveryInv, ResultsAccounted
  <2>. QED
    BY <2>3, <2>4
<1>4. CASE ControllerHandlesLateReport
  <2>1. UNCHANGED <<registered, rewound, helper, helperStore, pc>>
    BY <1>4 DEF ControllerHandlesLateReport
  <2>2. PICK r \in late :
          \/ ~registered /\ UNCHANGED <<ctl, ctlStore, faults>>
          \/ registered /\ (AcceptReport(r) \/ RejectReport(r))
    BY <1>4 DEF ControllerHandlesLateReport
  <2>3. r \in Result \cup {NoResult}
    BY <1>0 DEF TypeOK
  <2>4. CASE ~registered
    BY <1>0, <2>1, <2>4
    DEF DeliveryInv, FileNotBehind, RunOwesNothing, ResultsAccounted, Reliable
  <2>5. CASE registered
    <3>1. /\ FileNotBehind'
          /\ (Reliable /\ Len(ctl.history) < HistoryMax)' =>
               /\ Reliable /\ Len(ctl.history) < HistoryMax
               /\ Answered(ctl.history) \subseteq Answered(ctl'.history)
               /\ Answered(ctl'.history) \subseteq Answered(ctlStore'.main.history)
      BY <1>0, <2>1, <2>2, <2>3, <2>5, ReportDelivers
    <3>. QED
      BY <1>0, <1>b, <2>1, <3>1, AccountedMonotone
      DEF DeliveryInv, RunOwesNothing, ResultsAccounted
  <2>. QED
    BY <2>4, <2>5
<1>5. CASE ControllerSavesOther
  <2>1. /\ UNCHANGED <<registered, rewound, helper, helperStore, pc, ctl>>
        /\ ctlStore'.main \in {ctlStore.main, ctl}
    BY <1>5, SavedParts DEF ControllerSavesOther, SavedController, UnsavedController
  <2>. QED
    BY <1>0, <1>a, <2>1
    DEF DeliveryInv, FileNotBehind, RunOwesNothing, ResultsAccounted, Reliable
<1>5a. CASE WithdrawCommand
  <2>1. PICK i \in 1..Len(ctl.queue) :
          \/ SavedController(Withdrawn(i)) /\ ctl' = Withdrawn(i)
          \/ UNCHANGED <<ctlStore, faults>> /\ ctl' = Withdrawn(i)
          \/ UnsavedController(Withdrawn(i)) /\ ctl' \in {ctl, Withdrawn(i)}
    BY <1>5a DEF WithdrawCommand
  <2>2. UNCHANGED <<registered, rewound, helper, helperStore, pc>>
    BY <1>5a DEF WithdrawCommand
  <2>3. Withdrawn(i).history = ctl.history
    BY <1>a, WithdrawnType
  <2>4. ctlStore'.main \in {ctlStore.main, Withdrawn(i)} /\ ctl'.history = ctl.history
    BY <2>1, <2>3, SavedParts DEF SavedController, UnsavedController
  <2>. QED
    BY <1>0, <1>a, <2>2, <2>3, <2>4
    DEF DeliveryInv, FileNotBehind, RunOwesNothing, ResultsAccounted, Reliable
<1>6. CASE RetireServer
  BY <1>0, <1>6
  DEF RetireServer, DeliveryInv, FileNotBehind, RunOwesNothing, ResultsAccounted, Reliable
<1>7. CASE ControllerRestarts
  <2>1. CASE ctl' = ctlStore.main /\ UNCHANGED <<ctlStore, rewound>>
    <3>1. /\ ctlStore.main \in ControllerState
          /\ UNCHANGED <<registered, helper, helperStore, pc>>
      BY <1>0, <1>7, StoreType DEF ControllerRestarts, TypeOK
    <3>2. Len(ctlStore.main.history) \in Nat
      BY <3>1, LenProperties DEF ControllerState
    <3>. QED
      BY <1>0, <1>a, <1>b, <2>1, <3>1, <3>2, AccountedMonotone, LimitsAssumption
      DEF DeliveryInv, FileNotBehind, RunOwesNothing, ResultsAccounted, Reliable
  <2>2. CASE rewound'
    BY <1>0, <1>7, <2>2
    DEF ControllerRestarts, DeliveryInv, FileNotBehind, RunOwesNothing, ResultsAccounted,
        Reliable
  <2>. QED
    BY <1>7, <2>1, <2>2 DEF ControllerRestarts
<1>8. CASE HelperReports
  <2>1. /\ UNCHANGED <<registered, rewound, ctl, ctlStore, helper>> /\ pc' = "sent"
        /\ helperStore' = helperStore \/ HelperSaves(helper)
    BY <1>8 DEF HelperReports
  <2>2. /\ helperStore'.main \in {helperStore.main, helper}
        /\ helperStore'.bak \in {helperStore.main, helperStore.bak}
    BY <2>1, SavedParts DEF HelperSaves
  <2>. QED
    BY <1>0, <1>b, <2>1, <2>2, HelperSideStep DEF RunOwesNothing
<1>9. CASE CallFails
  BY <1>0, <1>9, <1>b, HelperSideStep DEF CallFails, RunOwesNothing
<1>10. CASE HelperReadsAnswer
  <2>1. /\ UNCHANGED <<registered, rewound, ctl, ctlStore, helperStore>>
        /\ pc = "answered" /\ pc' # "answered"
        /\ helper'.pending = NoResult /\ helper'.completed = helper.completed
    BY <1>10, <1>a DEF HelperReadsAnswer, HelperState
  <2>2. ASSUME Reliable, Len(ctl.history) < HistoryMax
        PROVE  Accounted(helper', ctl.history)
    <3>1. helper.completed \in Seq(Command)
      BY <1>a DEF HelperState
    <3>2. NoCommand \notin Range(helper.completed)
      <4>1. Range(helper.completed) \subseteq Command
        BY <3>1, RangeOfSeq
      <4>2. NoCommand \notin Command
        BY DEF NoCommand, Command
      <4>. QED
        BY <4>1, <4>2
    <3>3. helper.pending = NoResult \/ helper.pending \in Answered(ctl.history)
      BY <2>1, <2>2 DEF DeliveryInv, ResultsAccounted
    <3>4. \A c \in Range(helper.completed) : c \in Answered(ctl.history)
      BY <1>b, <2>2, <3>2, <3>3 DEF Accounted, NoResult
    <3>. QED
      BY <2>1, <3>4 DEF Accounted
  <2>. QED
    BY <1>0, <1>b, <2>1, <2>2, HelperSideStep DEF RunOwesNothing
<1>11. CASE HelperIsRefused
  BY <1>0, <1>11, <1>b, HelperSideStep DEF HelperIsRefused, RunOwesNothing
<1>12. CASE HelperRejects \/ HelperExecutes
  <2>1. /\ UNCHANGED <<registered, rewound, ctl, ctlStore, helperStore>>
        /\ pc = "run" /\ pc' = "save"
    BY <1>12 DEF HelperRejects, HelperExecutes
  <2>2. helper' = Finished(helper, reply)
    BY <1>12 DEF HelperRejects, HelperExecutes
  <2>3. helper.pending = NoResult /\ reply \in Command
    BY <1>0, <2>1 DEF DeliveryInv, RunOwesNothing, TypeOK
  <2>. QED
    BY <1>0, <1>a, <1>b, <2>1, <2>2, <2>3, FinishedAccounted, HelperSideStep
    DEF RunOwesNothing
<1>13. CASE HelperPreparesUninstall
  <2>. DEFINE prepared == [helper EXCEPT !.uninstalling = TRUE]
  <2>1. /\ UNCHANGED <<registered, rewound, ctl, ctlStore>>
        /\ pc = "run" /\ pc' = "save"
    BY <1>13 DEF HelperPreparesUninstall
  <2>2. /\ prepared \in HelperState
        /\ prepared.pending = helper.pending /\ prepared.completed = helper.completed
    BY <1>a DEF HelperState
  <2>3. helper.pending = NoResult /\ reply \in Command
    BY <1>0, <2>1 DEF DeliveryInv, RunOwesNothing, TypeOK
  <2>4. PICK h \in {helper, prepared} : helper' = Finished(h, reply)
    BY <1>13 DEF HelperPreparesUninstall
  <2>5. /\ helperStore'.main \in {helperStore.main, prepared}
        /\ helperStore'.bak \in {helperStore.main, helperStore.bak}
    BY <1>13, SavedParts DEF HelperPreparesUninstall, HelperSaves
  <2>. HIDE DEF prepared
  <2>6. ASSUME Reliable, Len(ctl.history) < HistoryMax
        PROVE  Accounted(prepared, ctl.history) /\ Accounted(helper', ctl.history)
    <3>1. Accounted(prepared, ctl.history)
      BY <1>b, <2>2, <2>6 DEF Accounted
    <3>. QED
      BY <1>a, <1>b, <2>2, <2>3, <2>4, <2>6, <3>1, FinishedAccounted
  <2>. QED
    BY <1>0, <1>b, <2>1, <2>5, <2>6, HelperSideStep DEF RunOwesNothing
<1>14. CASE HelperEndsPass
  <2>1. /\ UNCHANGED <<registered, rewound, ctl, ctlStore, helper>> /\ pc' = "idle"
        /\ HelperSaves(helper)
    BY <1>14 DEF HelperEndsPass
  <2>2. /\ helperStore'.main \in {helperStore.main, helper}
        /\ helperStore'.bak \in {helperStore.main, helperStore.bak}
    BY <2>1, SavedParts DEF HelperSaves
  <2>. QED
    BY <1>0, <1>b, <2>1, <2>2, HelperSideStep DEF RunOwesNothing
<1>15. CASE HelperFinishesUninstall
  BY <1>0, <1>15, <1>b, HelperSideStep DEF HelperFinishesUninstall, RunOwesNothing
<1>16. CASE HelperRestarts
  <2>1. UNCHANGED <<registered, rewound, ctl, ctlStore>> /\ pc' = "idle" /\ HelperLoads
    BY <1>16 DEF HelperRestarts
  <2>2. Accounted(FreshHelper, ctl.history)
    BY DEF Accounted, FreshHelper, Range
  <2>3. /\ helper' \in {helperStore.main, helperStore.bak, FreshHelper}
        /\ helperStore'.main \in {helperStore.main, helperStore.bak, FreshHelper}
        /\ helperStore'.bak \in {helperStore.bak, FreshHelper}
    BY <2>1 DEF HelperLoads, RestoredFromBackup, BothHold
  <2>. QED
    BY <1>0, <1>b, <2>1, <2>2, <2>3, HelperSideStep DEF RunOwesNothing
<1>. QED
  BY <1>1, <1>2, <1>3, <1>4, <1>5, <1>5a, <1>6, <1>7, <1>8, <1>9, <1>10, <1>11,
     <1>12, <1>13, <1>14, <1>15, <1>16 DEF Next

\* No result is lost between the Helper and the controller's file: what the Helper
\* lists as completed it still owes, or the controller has it on disk, whatever
\* answers are lost, saves fail or processes restart (acceptManagementReport, runOnce).
THEOREM ResultsNeverLost == Spec => []CompletedIsOwedOrRecorded
<1>1. DeliveryInv => CompletedIsOwedOrRecorded
  <2>. SUFFICES ASSUME DeliveryInv, registered, ~rewound,
                      Len(ctlStore.main.history) < HistoryMax,
                      NEW c \in Range(helper.completed)
               PROVE  helper.pending = c \/ c \in Answered(ctlStore.main.history)
    BY DEF CompletedIsOwedOrRecorded
  <2>1. ctl \in ControllerState /\ ctlStore.main \in ControllerState
    BY StoreType DEF DeliveryInv, TypeOK
  <2>2. Len(ctl.history) \in Nat /\ Len(ctlStore.main.history) \in Nat
    BY <2>1, LenProperties DEF ControllerState
  <2>3. Len(ctl.history) < HistoryMax
    BY <2>2, LimitsAssumption DEF DeliveryInv, FileNotBehind, Reliable
  <2>. QED
    BY <2>3 DEF DeliveryInv, ResultsAccounted, Reliable, Accounted
<1>. QED
  BY <1>1, DeliveryInit, DeliveryStep, PTL DEF Spec
-----------------------------------------------------------------------------
(* The Helper removes itself only after its uninstall was recorded *)

UninstallKnown ==
    \E c \in Uninstalls : c \in Range(helper.completed) \/ forgotten[c] > 0

\* No file of the Helper knows of an uninstall that its memory does not know.
FilesNotAhead ==
    /\ helperStore.main.uninstalling => helper.uninstalling
    /\ helperStore.bak.uninstalling => helperStore.main.uninstalling

\* The two ways in which the Helper may leave, and what it takes with it.
LeavesRecorded ==
    /\ pc = "run" => ~helper.uninstalling
    /\ pc = "unauthorized" => ~registered
    /\ pc = "gone" /\ Reliable /\ Len(ctl.history) < HistoryMax =>
          \E c \in Uninstalls : c \in Answered(ctl.history) \/ forgotten[c] > 0

UninstallInv ==
    /\ DeliveryInv
    /\ FilesNotAhead
    /\ helper.uninstalling => UninstallKnown
    /\ LeavesRecorded

\* While nothing was lost and the history is below its limit, the controller keeps in
\* memory every answer it had there, whichever step is taken.
LEMMA AnswersKept ==
    ASSUME DeliveryInv, [Next]_vars,
           (Reliable /\ Len(ctl.history) < HistoryMax)'
    PROVE  /\ Reliable /\ Len(ctl.history) < HistoryMax
           /\ Answered(ctl.history) \subseteq Answered(ctl'.history)
<1>0. TypeOK /\ TypeOK' /\ DeliveryInv'
  BY TypeStep, DeliveryStep DEF DeliveryInv
<1>a. /\ ctl \in ControllerState /\ Len(ctl.history) \in Nat
      /\ helper.pending \in Result \cup {NoResult}
  BY <1>0, LenProperties DEF TypeOK, HelperState, ControllerState
<1>. USE DEF vars, controllerVars, helperVars, historyVars, boundVars
<1>1. CASE UNCHANGED <<ctl, registered, rewound>>
  BY <1>1 DEF Reliable
<1>2. CASE Enqueue
  <2>1. UNCHANGED <<registered, rewound>>
    BY <1>2 DEF Enqueue
  <2>2. ctl'.history = ctl.history
    BY <1>2, <1>a DEF Enqueue, ControllerState
  <2>. QED
    BY <2>1, <2>2 DEF Reliable
<1>3. ASSUME registered, UNCHANGED <<registered, rewound>>,
             NEW r \in Result \cup {NoResult}, AcceptReport(r) \/ RejectReport(r)
      PROVE  /\ Reliable /\ Len(ctl.history) < HistoryMax
             /\ Answered(ctl.history) \subseteq Answered(ctl'.history)
  BY <1>0, <1>3, ReportDelivers
<1>4. CASE ControllerAnswers
  BY <1>3, <1>4, <1>a DEF ControllerAnswers, Reliable
<1>5. CASE ControllerHandlesLateReport
  <2>1. UNCHANGED <<registered, rewound>>
    BY <1>5 DEF ControllerHandlesLateReport
  <2>2. PICK r \in late :
          \/ ~registered /\ UNCHANGED <<ctl, ctlStore, faults>>
          \/ registered /\ (AcceptReport(r) \/ RejectReport(r))
    BY <1>5 DEF ControllerHandlesLateReport
  <2>3. r \in Result \cup {NoResult}
    BY <1>0 DEF TypeOK
  <2>. QED
    BY <1>3, <2>1, <2>2, <2>3 DEF Reliable
<1>6. CASE WithdrawCommand
  <2>1. PICK i \in 1..Len(ctl.queue) : ctl' \in {ctl, Withdrawn(i)}
    BY <1>6 DEF WithdrawCommand
  <2>2. UNCHANGED <<registered, rewound>>
    BY <1>6 DEF WithdrawCommand
  <2>3. ctl'.history = ctl.history
    BY <1>a, <2>1, WithdrawnType
  <2>. QED
    BY <2>2, <2>3 DEF Reliable
<1>7. CASE RetireServer
  BY <1>7 DEF RetireServer, Reliable
<1>8. CASE ControllerRestarts
  <2>1. UNCHANGED <<registered>> /\ (rewound' \/ (ctl' = ctlStore.main /\ UNCHANGED rewound))
    BY <1>8 DEF ControllerRestarts
  <2>2. ctl' = ctlStore.main /\ Reliable
    BY <2>1 DEF Reliable
  <2>3. Len(ctl.history) <= Len(ctlStore.main.history)
    BY <2>2 DEF DeliveryInv, FileNotBehind
  <2>4. Len(ctlStore.main.history) \in Nat
    BY <1>0, <2>2, LenProperties DEF TypeOK, ControllerState
  <2>5. Len(ctl.history) < HistoryMax
    BY <1>a, <2>2, <2>3, <2>4, LimitsAssumption
  <2>. QED
    BY <2>2, <2>5 DEF DeliveryInv, ResultsAccounted
<1>9. ~(Enqueue \/ ControllerAnswers \/ ControllerHandlesLateReport \/ WithdrawCommand
        \/ RetireServer \/ ControllerRestarts) => UNCHANGED <<ctl, registered, rewound>>
  BY DEF Next, Tick, ControllerSavesOther, HelperReports, CallFails, HelperReadsAnswer,
         HelperIsRefused, HelperRejects, HelperExecutes, HelperPreparesUninstall,
         HelperEndsPass, HelperFinishesUninstall, HelperRestarts, Done
<1>. QED
  BY <1>1, <1>2, <1>4, <1>5, <1>6, <1>7, <1>8, <1>9

\* The newest completed command is never trimmed.
LEMMA WithCompletedKeeps ==
    ASSUME NEW s \in Seq(Command), NEW c \in Command
    PROVE  c \in Range(WithCompleted(s, c))
<1>. DEFINE l == Append(s, c)
<1>1. /\ l \in Seq(Command) /\ Len(l) = Len(s) + 1 /\ Len(s) \in Nat
      /\ l[Len(l)] = c
  BY AppendProperties, LenProperties
<1>. HIDE DEF l
<1>2. CASE Len(l) <= CompletedMax
  <2>1. c \in Range(l)
    BY <1>1, RangeEquality
  <2>. QED
    BY <1>2, <2>1 DEF WithCompleted, Newest, l
<1>3. CASE Len(l) > CompletedMax
  <2>. DEFINE m == Len(l) - CompletedMax + 1
              rest == SubSeq(l, m, Len(l))
  <2>1. m \in 1..Len(l)
    BY <1>1, <1>3, LimitsAssumption
  <2>2. \A i \in m..Len(l) : l[i] \in Command
    BY <1>1, <2>1, ElementOfSeq
  <2>. HIDE DEF m
  <2>3. /\ rest \in Seq(Command) /\ Len(rest) = Len(l) - m + 1
        /\ rest[Len(l) - m + 1] = l[m + (Len(l) - m + 1) - 1]
    BY <1>1, <2>1, <2>2, SubSeqProperties
  <2>. HIDE DEF rest
  <2>4. Len(rest) \in 1..Len(rest) /\ rest[Len(rest)] = c
    BY <1>1, <2>1, <2>3
  <2>5. c \in Range(rest)
    BY <2>3, <2>4, RangeEquality
  <2>6. Newest(l, CompletedMax) = rest
    BY <1>1, <1>3, LimitsAssumption DEF Newest, m, rest
  <2>. QED
    BY <2>5, <2>6 DEF WithCompleted, l
<1>. QED
  BY <1>1, <1>2, <1>3, LimitsAssumption

\* A save of the Helper writes what its memory knows of an uninstall.
LEMMA SaveNotAhead ==
    ASSUME TypeOK, FilesNotAhead, NEW h \in HelperState, HelperSaves(h),
           helper.uninstalling => h.uninstalling,
           h.uninstalling => helper'.uninstalling
    PROVE  FilesNotAhead'
<1>1. \/ helperStore' = helperStore
      \/ helperStore' = BothHold(helperStore.main)
      \/ helperStore' = Replaced(helperStore, h)
  BY DEF HelperSaves, Interrupted
<1>. QED
  BY <1>1 DEF FilesNotAhead, BothHold, Replaced

LEMMA UninstallInit == Init => UninstallInv
<1>. SUFFICES ASSUME Init
             PROVE  UninstallInv
  OBVIOUS
<1>1. DeliveryInv
  BY DeliveryInit
<1>. QED
  BY <1>1 DEF UninstallInv, Init, FilesNotAhead, LeavesRecorded, FreshHelper, BothHold

\* Steps that change neither the Helper's state nor its record.
LEMMA UninstallUnchanged ==
    ASSUME UninstallInv, [Next]_vars, UNCHANGED <<helper, helperStore, forgotten>>,
           registered' => registered,
           pc' = pc \/ pc' \in {"idle", "sent", "answered", "save"}
                    \/ (pc' = "unauthorized" /\ ~registered)
    PROVE  UninstallInv'
<1>1. DeliveryInv'
  BY DeliveryStep DEF UninstallInv
<1>2. FilesNotAhead' /\ (helper.uninstalling => UninstallKnown)'
  BY DEF UninstallInv, FilesNotAhead, UninstallKnown
<1>3. LeavesRecorded'
  BY AnswersKept DEF UninstallInv, LeavesRecorded
<1>. QED
  BY <1>1, <1>2, <1>3 DEF UninstallInv

LEMMA UninstallStep == UninstallInv /\ [Next]_vars => UninstallInv'
<1>. SUFFICES ASSUME UninstallInv, [Next]_vars
             PROVE  UninstallInv'
  OBVIOUS
<1>0. TypeOK /\ TypeOK' /\ DeliveryInv /\ DeliveryInv'
  BY TypeStep, DeliveryStep DEF UninstallInv, DeliveryInv
<1>a. /\ helper \in HelperState /\ helper.completed \in Seq(Command)
      /\ helperStore.main \in HelperState /\ helperStore.bak \in HelperState
  BY <1>0, StoreType DEF TypeOK, HelperState
<1>. USE DEF vars, controllerVars, helperVars, historyVars, boundVars
<1>1. CASE Tick \/ Enqueue \/ ControllerHandlesLateReport \/ ControllerSavesOther
           \/ WithdrawCommand \/ RetireServer \/ ControllerRestarts \/ Done
           \/ UNCHANGED vars
  <2>1. UNCHANGED <<helper, helperStore, forgotten, pc>> /\ (registered' => registered)
    BY <1>1 DEF Tick, Enqueue, ControllerHandlesLateReport, ControllerSavesOther,
                WithdrawCommand, RetireServer, ControllerRestarts, Done
  <2>. QED
    BY <2>1, UninstallUnchanged
<1>2. CASE ControllerAnswers \/ CallFails \/ HelperIsRefused
  <2>1. /\ UNCHANGED <<helper, helperStore, forgotten, registered>>
        /\ \/ pc' \in {"idle", "answered"}
           \/ pc' = "unauthorized" /\ ~registered
    BY <1>2 DEF ControllerAnswers, CallFails, HelperIsRefused
  <2>. QED
    BY <2>1, UninstallUnchanged
<1>3. CASE HelperReports \/ HelperEndsPass
  <2>1. /\ UNCHANGED <<helper, forgotten>> /\ pc' \in {"sent", "idle"}
        /\ helperStore' = helperStore \/ HelperSaves(helper)
    BY <1>3 DEF HelperReports, HelperEndsPass
  <2>2. FilesNotAhead'
    BY <1>0, <1>a, <2>1, SaveNotAhead DEF UninstallInv, FilesNotAhead
  <2>. QED
    BY <1>0, <2>1, <2>2 DEF UninstallInv, UninstallKnown, LeavesRecorded
<1>4. CASE HelperReadsAnswer
  <2>1. /\ UNCHANGED <<helperStore, forgotten>>
        /\ pc' \in {"run", "save"} /\ ~helper.uninstalling
        /\ helper'.uninstalling = helper.uninstalling
    BY <1>4, <1>a DEF HelperReadsAnswer, HelperState
  <2>. QED
    BY <1>0, <2>1 DEF UninstallInv, FilesNotAhead, UninstallKnown, LeavesRecorded
<1>5. CASE HelperRejects \/ HelperExecutes
  <2>1. /\ UNCHANGED <<helperStore, forgotten>>
        /\ pc = "run" /\ pc' = "save" /\ helper' = Finished(helper, reply)
    BY <1>5 DEF HelperRejects, HelperExecutes
  <2>2. ~helper.uninstalling /\ helper'.uninstalling = helper.uninstalling
    BY <1>a, <2>1 DEF UninstallInv, LeavesRecorded, Finished, HelperState
  <2>. QED
    BY <1>0, <2>1, <2>2 DEF UninstallInv, FilesNotAhead, LeavesRecorded
<1>6. CASE HelperPreparesUninstall
  <2>. DEFINE prepared == [helper EXCEPT !.uninstalling = TRUE]
  <2>1. /\ UNCHANGED forgotten /\ pc' = "save"
        /\ reply \in Uninstalls /\ reply \in Command
        /\ ~helper.uninstalling
    BY <1>0, <1>6 DEF HelperPreparesUninstall, UninstallInv, LeavesRecorded, TypeOK
  <2>2. /\ prepared \in HelperState /\ prepared.uninstalling = TRUE
        /\ prepared.completed = helper.completed
    BY <1>a DEF HelperState
  <2>3. \/ helper' = Finished(helper, reply) /\ UNCHANGED helperStore
        \/ helper' = Finished(prepared, reply) /\ HelperSaves(prepared)
    BY <1>6 DEF HelperPreparesUninstall
  <2>. HIDE DEF prepared
  <2>4. /\ Finished(helper, reply).completed = WithCompleted(helper.completed, reply)
        /\ Finished(prepared, reply).completed = WithCompleted(helper.completed, reply)
        /\ Finished(helper, reply).uninstalling = helper.uninstalling
        /\ Finished(prepared, reply).uninstalling = TRUE
    BY <1>a, <2>2 DEF Finished, HelperState
  <2>5. UninstallKnown'
    BY <1>a, <2>1, <2>3, <2>4, WithCompletedKeeps DEF UninstallKnown
  <2>6. FilesNotAhead'
    <3>1. CASE UNCHANGED helperStore
      BY <2>1, <3>1 DEF UninstallInv, FilesNotAhead
    <3>2. CASE helper' = Finished(prepared, reply) /\ HelperSaves(prepared)
      BY <1>0, <2>2, <2>4, <3>2, SaveNotAhead DEF UninstallInv
    <3>. QED
      BY <2>3, <3>1, <3>2
  <2>. QED
    BY <1>0, <2>1, <2>5, <2>6 DEF UninstallInv, LeavesRecorded
<1>7. CASE HelperFinishesUninstall
  <2>1. /\ UNCHANGED <<helper, helperStore, forgotten, registered, rewound, ctl>>
        /\ pc \in {"answered", "unauthorized"} /\ pc' \in {"gone", "idle"}
        /\ helper.uninstalling
    BY <1>7 DEF HelperFinishesUninstall
  <2>2. ASSUME Reliable, Len(ctl.history) < HistoryMax
        PROVE  \E c \in Uninstalls : c \in Answered(ctl.history) \/ forgotten[c] > 0
    <3>1. pc = "answered"
      BY <2>1, <2>2 DEF UninstallInv, LeavesRecorded, Reliable
    <3>2. helper.pending = NoResult \/ helper.pending \in Answered(ctl.history)
      BY <1>0, <2>2, <3>1 DEF DeliveryInv, ResultsAccounted
    <3>3. \A c \in Range(helper.completed) : c \in Answered(ctl.history)
      <4>1. NoResult \notin Range(helper.completed)
        <5>1. Range(helper.completed) \subseteq Command
          BY <1>a, RangeOfSeq
        <5>2. NoResult \notin Command
          BY DEF NoResult, NoCommand, Command
        <5>. QED
          BY <5>1, <5>2
      <4>2. Accounted(helper, ctl.history)
        BY <1>0, <2>2 DEF DeliveryInv, ResultsAccounted
      <4>. QED
        BY <3>2, <4>1, <4>2 DEF Accounted
    <3>4. UninstallKnown
      BY <2>1 DEF UninstallInv
    <3>. QED
      BY <3>3, <3>4 DEF UninstallKnown
  <2>. QED
    BY <1>0, <2>1, <2>2 DEF UninstallInv, FilesNotAhead, UninstallKnown, LeavesRecorded, Reliable
<1>8. CASE HelperRestarts
  <2>1. /\ pc' = "idle" /\ HelperLoads
        /\ forgotten' = [c \in Command |->
              IF c \in Range(helper.completed) /\ c \notin Range(helper'.completed)
              THEN forgotten[c] + 1 ELSE forgotten[c]]
    BY <1>8 DEF HelperRestarts
  <2>2. FilesNotAhead' /\ (helper'.uninstalling => helper.uninstalling)
    BY <1>a, <2>1 DEF HelperLoads, UninstallInv, FilesNotAhead, RestoredFromBackup, BothHold,
                      FreshHelper
  <2>3. (helper.uninstalling => UninstallKnown)'
    <3>1. SUFFICES ASSUME helper'.uninstalling
                   PROVE  UninstallKnown'
      OBVIOUS
    <3>2. PICK c \in Uninstalls : c \in Range(helper.completed) \/ forgotten[c] > 0
      BY <2>2, <3>1 DEF UninstallInv, UninstallKnown
    <3>3. c \in Command /\ forgotten[c] \in Nat
      BY <1>0, <3>2, KindsAssumption, RangeOfSeq DEF TypeOK
    <3>. QED
      BY <2>1, <3>2, <3>3 DEF UninstallKnown
  <2>. QED
    BY <1>0, <2>1, <2>2, <2>3 DEF UninstallInv, LeavesRecorded
<1>. QED
  BY <1>1, <1>2, <1>3, <1>4, <1>5, <1>6, <1>7, <1>8 DEF Next

\* A Helper that removed itself has its uninstall recorded by the controller, or lost the
\* record of it in a restart of its own: HelperFinishesUninstall waits for the answer to
\* the report that carried the result (finishPendingUninstall, runOnce).
THEOREM RemovalIsRecorded == Spec => []GoneIsRecorded
<1>1. UninstallInv => GoneIsRecorded
  <2>. SUFFICES ASSUME UninstallInv, pc = "gone", registered, ~rewound,
                      Len(ctlStore.main.history) < HistoryMax
               PROVE  \E c \in Uninstalls :
                         c \in Answered(ctlStore.main.history) \/ forgotten[c] > 0
    BY DEF GoneIsRecorded
  <2>1. ctl \in ControllerState /\ ctlStore.main \in ControllerState /\ DeliveryInv
    BY StoreType DEF UninstallInv, DeliveryInv, TypeOK
  <2>2. Len(ctl.history) \in Nat /\ Len(ctlStore.main.history) \in Nat
    BY <2>1, LenProperties DEF ControllerState
  <2>3. Len(ctl.history) < HistoryMax
    BY <2>1, <2>2, LimitsAssumption DEF DeliveryInv, FileNotBehind, Reliable
  <2>. QED
    BY <2>1, <2>3 DEF UninstallInv, LeavesRecorded, DeliveryInv, ResultsAccounted, Reliable
<1>. QED
  BY <1>1, UninstallInit, UninstallStep, PTL DEF Spec
-----------------------------------------------------------------------------
(* No command is executed twice while the replay window covers them all *)

IssuedControllerState == { c \in ControllerState : c.queue \in Seq(1..drawn) }
Distinct(s) == \A i, j \in 1..Len(s) : s[i] = s[j] => i = j
IssuedHelperState ==
    { h \in HelperState : h.completed \in Seq(1..drawn) /\ Distinct(h.completed) }

\* Only drawn commands are queued, answered and remembered, none of them twice.
OnlyDrawn ==
    /\ ctl \in IssuedControllerState /\ ctlStore \in Store(IssuedControllerState)
    /\ helper \in IssuedHelperState /\ helperStore \in Store(IssuedHelperState)
    /\ reply \in 0..drawn
    /\ pc = "run" => reply \notin Range(helper.completed)

\* The completed list counts for one execution, each lost record for another.
Remembers(c) == IF c \in Range(helper.completed) THEN 1 ELSE 0
ExecutionsCounted ==
    drawn <= CompletedMax => \A c \in Command : Executions(c) <= forgotten[c] + Remembers(c)

ReplayInv == TypeOK /\ OnlyDrawn /\ ExecutionsCounted

\* A list of distinct elements of 1..n has at most n of them.
LEMMA DistinctLength ==
    ASSUME NEW n \in Nat, NEW s \in Seq(1..n), Distinct(s)
    PROVE  Len(s) <= n
<1>1. Len(s) \in Nat /\ s \in [1..Len(s) -> 1..n]
  BY LenProperties
<1>a. ASSUME NEW k \in Nat
      PROVE  IsFiniteSet(1..k) /\ Cardinality(1..k) = k
  <2>1. /\ IsFiniteSet(1..k)
        /\ Cardinality(1..k) = IF 1 > k THEN 0 ELSE k - 1 + 1
    BY FS_Interval
  <2>. QED
    BY <2>1
<1>2. /\ IsFiniteSet(1..n) /\ Cardinality(1..n) = n
      /\ Cardinality(1..Len(s)) = Len(s)
  BY <1>1, <1>a
<1>3. s \in Injection(1..Len(s), 1..n)
  BY <1>1, Fun_IsInj DEF Distinct
<1>. QED
  BY <1>2, <1>3, FS_Injection

\* The newest entries of a list of distinct elements are distinct.
LEMMA NewestDistinct ==
    ASSUME NEW S, NEW s \in Seq(S), NEW n \in Nat, Distinct(s)
    PROVE  Distinct(Newest(s, n))
<1>1. CASE Len(s) <= n
  BY <1>1 DEF Newest
<1>2. CASE Len(s) > n
  <2>. DEFINE m == Len(s) - n + 1
  <2>0. Len(s) \in Nat
    BY LenProperties
  <2>1. m \in Int /\ m >= 1 /\ \A i \in m..Len(s) : s[i] \in S
    BY <1>2, <2>0, ElementOfSeq
  <2>2. Newest(s, n) = SubSeq(s, m, Len(s))
    BY <1>2 DEF Newest
  <2>. HIDE DEF m
  <2>3. /\ Len(SubSeq(s, m, Len(s))) = IF m <= Len(s) THEN Len(s) - m + 1 ELSE 0
        /\ \A i \in 1..Len(s) - m + 1 : SubSeq(s, m, Len(s))[i] = s[m + i - 1]
    BY <2>0, <2>1, SubSeqProperties
  <2>. QED
    BY <2>0, <2>1, <2>2, <2>3 DEF Distinct
<1>. QED
  BY <1>1, <1>2, LenProperties

LEMMA IssuedQueues ==
    ASSUME ctl \in IssuedControllerState, TypeOK
    PROVE  /\ \A r \in Result \cup {NoResult} : AfterReport(r) \in IssuedControllerState
           /\ \A i \in 1..Len(ctl.queue) : Withdrawn(i) \in IssuedControllerState
<1>1. ctl \in ControllerState /\ ctl.queue \in Seq(1..drawn)
  BY DEF IssuedControllerState
<1>2. ASSUME NEW r \in Result \cup {NoResult}
      PROVE  AfterReport(r) \in IssuedControllerState
  <2>1. AfterReport(r) \in ControllerState
    BY <1>1, AfterReportType DEF TypeOK
  <2>2. AfterReport(r).queue = WithoutExpired(Acknowledged(ctl.queue, r))
    BY DEF AfterReport
  <2>3. Acknowledged(ctl.queue, r) \in Seq(1..drawn)
    BY <1>1, ShorterQueueType
  <2>4. WithoutExpired(Acknowledged(ctl.queue, r)) \in Seq(1..drawn)
    BY <2>3, ShorterQueueType
  <2>. QED
    BY <2>1, <2>2, <2>4 DEF IssuedControllerState
<1>3. ASSUME NEW i \in 1..Len(ctl.queue)
      PROVE  Withdrawn(i) \in IssuedControllerState
  <2>1. Withdrawn(i) \in ControllerState
    BY <1>1, WithdrawnType
  <2>2. Withdrawn(i).queue = RemoveAt(ctl.queue, i)
    BY <1>1 DEF Withdrawn, ControllerState
  <2>3. RemoveAt(ctl.queue, i) \in Seq(1..drawn)
    BY <1>1, RemoveAtType
  <2>. QED
    BY <2>1, <2>2, <2>3 DEF IssuedControllerState
<1>. QED
  BY <1>2, <1>3

\* A finished command is remembered; while the window covers every command drawn, none
\* is forgotten for it.
LEMMA FinishedIssued ==
    ASSUME TypeOK, NEW h \in IssuedHelperState, NEW c \in Command, c \in 1..drawn,
           c \notin Range(h.completed)
    PROVE  /\ Finished(h, c) \in IssuedHelperState
           /\ drawn <= CompletedMax =>
                 Range(Finished(h, c).completed) = Range(h.completed) \cup {c}
<1>. DEFINE s == h.completed
            l == Append(s, c)
<1>0. drawn \in Nat /\ h \in HelperState /\ s \in Seq(1..drawn) /\ Distinct(s)
  BY BoundsAssumption DEF IssuedHelperState, TypeOK
<1>1. Finished(h, c) \in HelperState /\ Finished(h, c).completed = Newest(l, CompletedMax)
  BY <1>0, FinishedType DEF Finished, WithCompleted, HelperState
<1>2. /\ l \in Seq(1..drawn) /\ Len(l) = Len(s) + 1 /\ Len(s) \in Nat
      /\ \A i \in 1..Len(s) : l[i] = s[i]
      /\ l[Len(s) + 1] = c
  BY <1>0, AppendProperties, LenProperties
<1>3. Range(s) = { s[i] : i \in 1..Len(s) }
  BY <1>0, RangeEquality
<1>. HIDE DEF s, l
<1>4. \A i \in 1..Len(s) : s[i] # c
  BY <1>3 DEF s
<1>5. Distinct(l)
  <2>. SUFFICES ASSUME NEW i \in 1..Len(l), NEW j \in 1..Len(l), l[i] = l[j]
               PROVE  i = j
    BY DEF Distinct
  <2>1. \A k \in 1..Len(l) : k \in 1..Len(s) \/ k = Len(s) + 1
    BY <1>2
  <2>2. CASE i \in 1..Len(s) /\ j \in 1..Len(s)
    BY <1>0, <1>2, <2>2 DEF Distinct
  <2>. QED
    BY <1>2, <1>4, <2>1, <2>2
<1>6. Newest(l, CompletedMax) \in Seq(1..drawn) /\ Distinct(Newest(l, CompletedMax))
  BY <1>2, <1>5, NewestType, NewestDistinct, LimitsAssumption
<1>7. ASSUME drawn <= CompletedMax
      PROVE  Range(Newest(l, CompletedMax)) = Range(s) \cup {c}
  <2>1. Len(l) <= CompletedMax
    BY <1>0, <1>2, <1>5, <1>7, DistinctLength, LimitsAssumption
  <2>2. Range(l) = { l[i] : i \in 1..Len(l) }
    BY <1>2, RangeEquality
  <2>3. Range(l) = Range(s) \cup {c}
    BY <1>2, <1>3, <2>2
  <2>. QED
    BY <2>1, <2>3 DEF Newest
<1>. QED
  BY <1>1, <1>6, <1>7 DEF IssuedHelperState, s

LEMMA ExecutionsStep ==
    ASSUME TypeOK, NEW c \in Command, NEW d \in Command
    PROVE  /\ Executions(d) \in Nat
           /\ ran' = Append(ran, c) =>
                 Executions(d)' = IF d = c THEN Executions(d) + 1 ELSE Executions(d)
<1>. DEFINE at == { i \in 1..Len(ran) : ran[i] = d }
<1>0. ran \in Seq(Command) /\ Len(ran) \in Nat
  BY LenProperties DEF TypeOK
<1>1. IsFiniteSet(at) /\ Cardinality(at) \in Nat
  <2>1. IsFiniteSet(1..Len(ran))
    BY <1>0, FS_Interval
  <2>2. at \in SUBSET (1..Len(ran))
    OBVIOUS
  <2>. HIDE DEF at
  <2>3. IsFiniteSet(at)
    BY <2>1, <2>2, FS_Subset
  <2>. QED
    BY <2>3, FS_CardinalityType
<1>2. ASSUME ran' = Append(ran, c)
      PROVE  Executions(d)' = IF d = c THEN Executions(d) + 1 ELSE Executions(d)
  <2>1. /\ Len(ran') = Len(ran) + 1
        /\ \A i \in 1..Len(ran) : ran'[i] = ran[i]
        /\ ran'[Len(ran) + 1] = c
    BY <1>0, <1>2, AppendProperties
  <2>2. { i \in 1..Len(ran') : ran'[i] = d } =
          IF d = c THEN at \cup {Len(ran) + 1} ELSE at
    BY <1>0, <2>1
  <2>3. Len(ran) + 1 \notin at
    BY <1>0
  <2>. HIDE DEF at
  <2>4. Cardinality(at \cup {Len(ran) + 1}) = Cardinality(at) + 1
    BY <1>1, <2>3, FS_AddElement
  <2>. QED
    BY <2>2, <2>4 DEF Executions, at
<1>. QED
  BY <1>1, <1>2 DEF Executions

LEMMA ReplayInit == Init => ReplayInv
<1>. SUFFICES ASSUME Init
             PROVE  ReplayInv
  OBVIOUS
<1>1. TypeOK /\ drawn = 0
  BY TypeInit DEF Init
<1>2. /\ <<>> \in Seq(1..0) /\ Len(<<>>) = 0 /\ <<>> \in Seq(Command)
      /\ \A S : <<>> \in Seq(S)
  BY EmptySeq
<1>3. EmptyController \in IssuedControllerState
  BY <1>1, <1>2 DEF Init, TypeOK, IssuedControllerState, EmptyController
<1>4. FreshHelper \in IssuedHelperState
  <2>1. FreshHelper \in HelperState /\ FreshHelper.completed = <<>>
    BY <1>1 DEF Init, TypeOK, FreshHelper
  <2>2. Distinct(<<>>)
    BY <1>2 DEF Distinct
  <2>. QED
    BY <1>2, <2>1, <2>2 DEF IssuedHelperState
<1>5. OnlyDrawn
  BY <1>1, <1>3, <1>4 DEF Init, OnlyDrawn, Store, BothHold, NoCommand
<1>6. ExecutionsCounted
  <2>1. \A c \in Command : Executions(c) = 0 /\ forgotten[c] = 0
    <3>1. \A c \in Command : { i \in 1..Len(ran) : ran[i] = c } = {}
      BY <1>2 DEF Init
    <3>. QED
      BY <3>1, FS_EmptySet DEF Executions, Init
  <2>. QED
    BY <2>1 DEF ExecutionsCounted, Remembers
<1>. QED
  BY <1>1, <1>5, <1>6 DEF ReplayInv

\* Steps that only save, or change nothing of either side's lists.
LEMMA ReplaySaves ==
    ASSUME ReplayInv, TypeOK', UNCHANGED <<drawn, ran, forgotten>>,
           Range(helper'.completed) = Range(helper.completed),
           ctl' \in IssuedControllerState, ctlStore' \in Store(IssuedControllerState),
           helper' \in IssuedHelperState, helperStore' \in Store(IssuedHelperState),
           reply' \in 0..drawn,
           pc' = "run" => reply' \notin Range(helper.completed)
    PROVE  ReplayInv'
<1>1. OnlyDrawn'
  BY DEF OnlyDrawn, IssuedControllerState, IssuedHelperState
<1>2. ExecutionsCounted'
  BY DEF ReplayInv, ExecutionsCounted, Executions, Remembers
<1>. QED
  BY <1>1, <1>2 DEF ReplayInv

LEMMA SavesStay ==
    ASSUME NEW S, NEW store \in Store(S), NEW new \in S,
           NEW after \in Interrupted(store, new) \cup {Replaced(store, new)}
    PROVE  after \in Store(S)
BY DEF Store, Interrupted, Replaced, BothHold

LEMMA ReplayEnqueue == ReplayInv /\ Enqueue /\ TypeOK' => ReplayInv'
<1>. SUFFICES ASSUME ReplayInv, Enqueue, TypeOK'
             PROVE  ReplayInv'
  OBVIOUS
<1>. DEFINE c == drawn + 1
            new == [ctl EXCEPT !.queue = Queued(@, c)]
<1>0. /\ TypeOK /\ OnlyDrawn /\ drawn \in Nat /\ drawn' = drawn + 1
      /\ UNCHANGED <<helper, helperStore, reply, pc, ran, forgotten>>
  <2>1. TypeOK /\ OnlyDrawn /\ drawn \in Nat
    BY BoundsAssumption DEF ReplayInv, TypeOK
  <2>2. drawn' = drawn + 1 /\ UNCHANGED <<helper, helperStore, reply, pc, ran, forgotten>>
    BY DEF Enqueue, helperVars, historyVars
  <2>. QED
    BY <2>1, <2>2
<1>1. c \in Command /\ 1..drawn \subseteq 1..c
  <2>1. drawn < MaxCommands
    BY DEF Enqueue
  <2>. QED
    BY <1>0, <2>1, BoundsAssumption DEF Command
<1>2. /\ IssuedControllerState \subseteq { k \in ControllerState : k.queue \in Seq(1..c) }
      /\ IssuedHelperState \subseteq
            { h \in HelperState : h.completed \in Seq(1..c) /\ Distinct(h.completed) }
  BY <1>1, SeqMonotonic DEF IssuedControllerState, IssuedHelperState
<1>3. new \in ControllerState /\ new.queue \in Seq(1..c)
  <2>1. new \in ControllerState
    BY <1>0, <1>1, EnqueuedType DEF Enqueue, TypeOK
  <2>2. new.queue = Append(ctl.queue, c)
    BY <1>0 DEF TypeOK, ControllerState, Queued
  <2>3. ctl.queue \in Seq(1..c)
    BY <1>0, <1>2 DEF OnlyDrawn
  <2>4. c \in 1..c
    BY <1>0
  <2>5. Append(ctl.queue, c) \in Seq(1..c)
    BY <2>3, <2>4, AppendProperties
  <2>. QED
    BY <2>1, <2>2, <2>5
<1>4. \/ ctl' = new /\ ctlStore' = Replaced(ctlStore, new)
      \/ ctl' = ctl /\ ctlStore' \in Interrupted(ctlStore, new)
  BY DEF Enqueue, SavedController, UnsavedController
<1>5. OnlyDrawn'
  <2>. DEFINE S == { k \in ControllerState : k.queue \in Seq(1..c) }
              T == { h \in HelperState : h.completed \in Seq(1..c) /\ Distinct(h.completed) }
  <2>1. S = IssuedControllerState' /\ T = IssuedHelperState'
    BY <1>0 DEF IssuedControllerState, IssuedHelperState
  <2>2. new \in S /\ ctl \in S /\ ctlStore \in Store(S) /\ helper \in T /\ helperStore \in Store(T)
    BY <1>0, <1>2, <1>3 DEF OnlyDrawn, Store
  <2>3. reply' \in 0..c
    BY <1>0 DEF OnlyDrawn
  <2>. HIDE DEF S, T, new
  <2>4. ctl' \in S /\ ctlStore' \in Store(S)
    BY <1>4, <2>2, SavesStay
  <2>. QED
    BY <1>0, <2>1, <2>2, <2>3, <2>4 DEF OnlyDrawn
<1>6. ExecutionsCounted'
  BY <1>0, LimitsAssumption DEF ReplayInv, ExecutionsCounted, Executions, Remembers
<1>. QED
  BY <1>5, <1>6 DEF ReplayInv

\* What the two executing steps, and the rejecting one, do to the counts.
LEMMA ReplayFinishes ==
    ASSUME ReplayInv, TypeOK', pc = "run", pc' = "save", reply' = NoCommand,
           UNCHANGED <<drawn, ctl, ctlStore, forgotten>>,
           ran' \in {ran, Append(ran, reply)},
           NEW h \in IssuedHelperState, h.completed = helper.completed,
           helper' = Finished(h, reply), helperStore' \in Store(IssuedHelperState)
    PROVE  ReplayInv'
<1>1. /\ TypeOK /\ OnlyDrawn /\ reply \in Command /\ reply \in 1..drawn
      /\ reply \notin Range(h.completed)
  BY DEF ReplayInv, OnlyDrawn, TypeOK, Command
<1>2. /\ Finished(h, reply) \in IssuedHelperState
      /\ drawn <= CompletedMax =>
            Range(Finished(h, reply).completed) = Range(h.completed) \cup {reply}
  BY <1>1, FinishedIssued
<1>3. OnlyDrawn'
  <2>1. 0 \in 0..drawn
    BY <1>1, BoundsAssumption DEF TypeOK
  <2>. QED
    BY <1>1, <1>2, <2>1 DEF OnlyDrawn, IssuedControllerState, IssuedHelperState, NoCommand
<1>4. ExecutionsCounted'
  <2>. SUFFICES ASSUME drawn <= CompletedMax, NEW c \in Command
               PROVE  Executions(c)' <= forgotten[c] + Remembers(c)'
    BY DEF ExecutionsCounted
  <2>1. Executions(c) <= forgotten[c] + Remembers(c)
    BY DEF ReplayInv, ExecutionsCounted
  <2>2. Executions(c)' = Executions(c) \/ (c = reply /\ Executions(c)' = Executions(c) + 1)
    <3>1. CASE ran' = ran
      BY <3>1 DEF Executions
    <3>2. CASE ran' = Append(ran, reply)
      BY <1>1, <3>2, ExecutionsStep
    <3>. QED
      BY <3>1, <3>2
  <2>3. Range(helper'.completed) = Range(helper.completed) \cup {reply}
    BY <1>2
  <2>4. /\ Remembers(c)' = IF c \in Range(helper.completed) \/ c = reply THEN 1 ELSE 0
        /\ Remembers(c) = IF c \in Range(helper.completed) THEN 1 ELSE 0
    BY <2>3 DEF Remembers
  <2>5. Executions(c) \in Nat /\ forgotten[c] \in Nat /\ reply \notin Range(helper.completed)
    BY <1>1, ExecutionsStep DEF TypeOK
  <2>. QED
    BY <2>1, <2>2, <2>4, <2>5
<1>. QED
  BY <1>3, <1>4 DEF ReplayInv

LEMMA ReplayRestart == ReplayInv /\ HelperRestarts /\ TypeOK' => ReplayInv'
<1>. SUFFICES ASSUME ReplayInv, HelperRestarts, TypeOK'
             PROVE  ReplayInv'
  OBVIOUS
<1>1. /\ TypeOK /\ OnlyDrawn /\ UNCHANGED <<drawn, ctl, ctlStore, ran>>
      /\ pc' = "idle" /\ reply' = NoCommand /\ HelperLoads
      /\ forgotten' = [c \in Command |->
            IF c \in Range(helper.completed) /\ c \notin Range(helper'.completed)
            THEN forgotten[c] + 1 ELSE forgotten[c]]
  BY DEF ReplayInv, HelperRestarts, controllerVars
<1>2. FreshHelper \in IssuedHelperState
  <2>1. <<>> \in Seq(1..drawn) /\ <<>> \in Seq(Command) /\ Len(<<>>) = 0
    BY EmptySeq
  <2>2. FreshHelper \in HelperState /\ FreshHelper.completed = <<>>
    BY <2>1, LimitsAssumption DEF FreshHelper, HelperState
  <2>3. Distinct(<<>>)
    BY <2>1 DEF Distinct
  <2>. QED
    BY <2>1, <2>2, <2>3 DEF IssuedHelperState
<1>3. helper' \in IssuedHelperState /\ helperStore' \in Store(IssuedHelperState)
  BY <1>1, <1>2 DEF OnlyDrawn, HelperLoads, Store, BothHold, RestoredFromBackup
<1>4. OnlyDrawn'
  <2>1. 0 \in 0..drawn
    BY BoundsAssumption, <1>1 DEF TypeOK
  <2>. QED
    BY <1>1, <1>3, <2>1 DEF OnlyDrawn, IssuedControllerState, IssuedHelperState, NoCommand
<1>5. ExecutionsCounted'
  <2>. SUFFICES ASSUME drawn <= CompletedMax, NEW c \in Command
               PROVE  Executions(c)' <= forgotten'[c] + Remembers(c)'
    BY <1>1 DEF ExecutionsCounted
  <2>1. Executions(c) <= forgotten[c] + Remembers(c) /\ Executions(c)' = Executions(c)
    BY <1>1 DEF ReplayInv, ExecutionsCounted, Executions
  <2>2. /\ Remembers(c)' = IF c \in Range(helper'.completed) THEN 1 ELSE 0
        /\ Remembers(c) = IF c \in Range(helper.completed) THEN 1 ELSE 0
    BY DEF Remembers
  <2>3. Executions(c) \in Nat /\ forgotten[c] \in Nat
    BY <1>1, ExecutionsStep DEF TypeOK
  <2>4. forgotten'[c] = IF c \in Range(helper.completed) /\ c \notin Range(helper'.completed)
                        THEN forgotten[c] + 1 ELSE forgotten[c]
    BY <1>1
  <2>. QED
    BY <2>1, <2>2, <2>3, <2>4
<1>. QED
  BY <1>4, <1>5 DEF ReplayInv

LEMMA ReplayStep == ReplayInv /\ [Next]_vars => ReplayInv'
<1>. SUFFICES ASSUME ReplayInv, [Next]_vars
             PROVE  ReplayInv'
  OBVIOUS
<1>0. TypeOK /\ TypeOK' /\ OnlyDrawn
  BY TypeStep DEF ReplayInv
<1>a. /\ helper \in IssuedHelperState /\ helperStore \in Store(IssuedHelperState)
      /\ ctl \in IssuedControllerState /\ ctlStore \in Store(IssuedControllerState)
      /\ reply \in 0..drawn /\ drawn \in Nat /\ 0 \in 0..drawn
      /\ helper \in HelperState
      /\ (pc = "run" => reply \notin Range(helper.completed))
  BY <1>0, BoundsAssumption DEF OnlyDrawn, IssuedHelperState, TypeOK
<1>b. ASSUME NEW new \in IssuedControllerState, SavedController(new) \/ UnsavedController(new)
      PROVE  ctlStore' \in Store(IssuedControllerState)
  BY <1>a, <1>b, SavesStay DEF SavedController, UnsavedController
<1>c. ASSUME NEW h \in IssuedHelperState, HelperSaves(h)
      PROVE  helperStore' \in Store(IssuedHelperState)
  BY <1>a, <1>c, SavesStay DEF HelperSaves
<1>d. ASSUME NEW r \in Result \cup {NoResult}, AcceptReport(r) \/ RejectReport(r)
      PROVE  ctl' \in IssuedControllerState /\ ctlStore' \in Store(IssuedControllerState)
  <2>1. AfterReport(r) \in IssuedControllerState
    BY <1>0, <1>a, IssuedQueues
  <2>. QED
    BY <1>a, <1>b, <1>d, <2>1 DEF AcceptReport, RejectReport
<1>. USE DEF vars, controllerVars, helperVars, historyVars, boundVars
<1>1. CASE Tick \/ Done \/ HelperIsRefused \/ UNCHANGED vars
  BY <1>0, <1>1, <1>a, ReplaySaves DEF Tick, Done, HelperIsRefused
<1>2. CASE Enqueue
  BY <1>0, <1>2, ReplayEnqueue
<1>3. CASE ControllerAnswers
  <2>1. /\ UNCHANGED <<drawn, ran, forgotten, helper, helperStore>>
        /\ pc' # "run" /\ helper.pending \in Result \cup {NoResult}
    BY <1>3, <1>a DEF ControllerAnswers, HelperState
  <2>2. ctl' \in IssuedControllerState /\ ctlStore' \in Store(IssuedControllerState)
    BY <1>3, <1>a, <1>d, <2>1 DEF ControllerAnswers
  <2>3. reply' \in 0..drawn
    <3>1. ctl'.queue \in Seq(1..drawn)
      BY <2>2 DEF IssuedControllerState
    <3>2. NextCommand(ctl'.queue) \in 0..drawn
      BY <1>a, <3>1, HeadTailProperties DEF NextCommand, NoCommand
    <3>. QED
      BY <1>3, <1>a, <3>2 DEF ControllerAnswers
  <2>. QED
    BY <1>0, <1>a, <2>1, <2>2, <2>3, ReplaySaves
<1>4. CASE ControllerHandlesLateReport
  <2>1. UNCHANGED <<drawn, ran, forgotten, helper, helperStore, reply, pc>>
    BY <1>4 DEF ControllerHandlesLateReport
  <2>2. PICK r \in late :
          \/ UNCHANGED <<ctl, ctlStore, faults>>
          \/ AcceptReport(r) \/ RejectReport(r)
    BY <1>4 DEF ControllerHandlesLateReport
  <2>3. r \in Result \cup {NoResult}
    BY <1>0 DEF TypeOK
  <2>4. ctl' \in IssuedControllerState /\ ctlStore' \in Store(IssuedControllerState)
    BY <1>a, <1>d, <2>2, <2>3
  <2>. QED
    BY <1>0, <1>a, <2>1, <2>4, ReplaySaves
<1>5. CASE ControllerSavesOther
  <2>1. ctlStore' \in Store(IssuedControllerState)
    BY <1>5, <1>a, <1>b DEF ControllerSavesOther
  <2>. QED
    BY <1>0, <1>5, <1>a, <2>1, ReplaySaves DEF ControllerSavesOther
<1>6. CASE WithdrawCommand
  <2>1. UNCHANGED <<drawn, ran, forgotten, helper, helperStore, reply, pc>>
    BY <1>6 DEF WithdrawCommand
  <2>2. PICK i \in 1..Len(ctl.queue) :
          /\ ctl' \in {ctl, Withdrawn(i)}
          /\ \/ SavedController(Withdrawn(i)) \/ UnsavedController(Withdrawn(i))
             \/ UNCHANGED ctlStore
    BY <1>6 DEF WithdrawCommand
  <2>3. Withdrawn(i) \in IssuedControllerState
    BY <1>0, <1>a, IssuedQueues
  <2>4. ctl' \in IssuedControllerState /\ ctlStore' \in Store(IssuedControllerState)
    BY <1>a, <1>b, <2>2, <2>3
  <2>. QED
    BY <1>0, <1>a, <2>1, <2>4, ReplaySaves
<1>7. CASE RetireServer
  <2>1. EmptyController \in IssuedControllerState
    <3>1. <<>> \in Seq(1..drawn) /\ <<>> \in Seq(Command) /\ <<>> \in Seq(Result) /\ Len(<<>>) = 0
      BY EmptySeq
    <3>2. EmptyController \in ControllerState /\ EmptyController.queue = <<>>
      BY <3>1, LimitsAssumption DEF ControllerState, EmptyController
    <3>. QED
      BY <3>1, <3>2 DEF IssuedControllerState
  <2>2. ctl' \in IssuedControllerState /\ ctlStore' \in Store(IssuedControllerState)
    BY <1>7, <1>b, <2>1 DEF RetireServer
  <2>. QED
    BY <1>0, <1>7, <1>a, <2>2, ReplaySaves DEF RetireServer
<1>8. CASE ControllerRestarts
  <2>1. ctl' \in IssuedControllerState /\ ctlStore' \in Store(IssuedControllerState)
    BY <1>8, <1>a DEF ControllerRestarts, Store, RestoredFromBackup, BothHold
  <2>. QED
    BY <1>0, <1>8, <1>a, <2>1, ReplaySaves DEF ControllerRestarts
<1>9. CASE HelperReports \/ HelperEndsPass
  <2>1. /\ UNCHANGED <<drawn, ran, forgotten, helper, ctl, ctlStore, reply>> /\ pc' # "run"
        /\ helperStore' = helperStore \/ HelperSaves(helper)
    BY <1>9 DEF HelperReports, HelperEndsPass
  <2>2. helperStore' \in Store(IssuedHelperState)
    BY <1>a, <1>c, <2>1
  <2>. QED
    BY <1>0, <1>a, <2>1, <2>2, ReplaySaves
<1>10. CASE CallFails \/ HelperFinishesUninstall
  <2>1. /\ UNCHANGED <<drawn, ran, forgotten, helper, helperStore, ctl, ctlStore>>
        /\ pc' # "run" /\ reply' = 0
    BY <1>10 DEF CallFails, HelperFinishesUninstall, NoCommand
  <2>. QED
    BY <1>0, <1>a, <2>1, ReplaySaves
<1>11. CASE HelperReadsAnswer
  <2>1. /\ UNCHANGED <<drawn, ran, forgotten, helperStore, ctl, ctlStore>>
        /\ helper' = [helper EXCEPT !.pending = NoResult]
        /\ \/ reply \notin Range(helper.completed) /\ pc' = "run" /\ reply' = reply
           \/ pc' = "save" /\ reply' = 0
    BY <1>11 DEF HelperReadsAnswer, NoCommand
  <2>2. helper'.completed = helper.completed /\ helper' \in HelperState
    BY <1>0, <1>a, <2>1 DEF TypeOK, HelperState
  <2>3. helper' \in IssuedHelperState
    BY <1>a, <2>2 DEF IssuedHelperState
  <2>. QED
    BY <1>0, <1>a, <2>1, <2>2, <2>3, ReplaySaves
<1>12. CASE HelperRejects \/ HelperExecutes
  <2>1. /\ UNCHANGED <<drawn, ctl, ctlStore, forgotten, helperStore>>
        /\ pc = "run" /\ pc' = "save" /\ reply' = NoCommand
        /\ ran' \in {ran, Append(ran, reply)} /\ helper' = Finished(helper, reply)
    BY <1>12 DEF HelperRejects, HelperExecutes
  <2>. QED
    BY <1>0, <1>a, <2>1, ReplayFinishes
<1>13. CASE HelperPreparesUninstall
  <2>. DEFINE prepared == [helper EXCEPT !.uninstalling = TRUE]
  <2>1. /\ UNCHANGED <<drawn, ctl, ctlStore, forgotten>>
        /\ pc = "run" /\ pc' = "save" /\ reply' = NoCommand
        /\ ran' = Append(ran, reply)
        /\ \/ helper' = Finished(helper, reply) /\ UNCHANGED helperStore
           \/ helper' = Finished(prepared, reply) /\ HelperSaves(prepared)
    BY <1>13 DEF HelperPreparesUninstall
  <2>2. prepared \in HelperState /\ prepared.completed = helper.completed
    BY <1>a DEF HelperState
  <2>. HIDE DEF prepared
  <2>3. prepared \in IssuedHelperState
    BY <1>a, <2>2 DEF IssuedHelperState
  <2>4. CASE helper' = Finished(helper, reply) /\ UNCHANGED helperStore
    BY <1>0, <1>a, <2>1, <2>4, ReplayFinishes
  <2>5. CASE helper' = Finished(prepared, reply) /\ HelperSaves(prepared)
    BY <1>0, <1>c, <2>1, <2>2, <2>3, <2>5, ReplayFinishes
  <2>. QED
    BY <2>1, <2>4, <2>5
<1>14. CASE HelperRestarts
  BY <1>0, <1>14, ReplayRestart
<1>. QED
  BY <1>1, <1>2, <1>3, <1>4, <1>5, <1>6, <1>7, <1>8, <1>9, <1>10, <1>11, <1>12, <1>13,
     <1>14 DEF Next

\* A command is executed once, and once more for each Helper restart that lost its record,
\* as long as no more commands were drawn than the replay window holds (completedCommandMax,
\* rememberCompletedCommand): no lost answer, late report, rolled-back save, withdrawal or
\* fall back to a .bak on either side adds an execution.  Beyond the window it is not true:
\* a controller that falls back to its .bak again and again can keep a withdrawn command at
\* the head of its queue while the Helper completes more commands than it remembers.
THEOREM NothingRunsTwice == Spec => []ExecutedOncePerRecord
<1>1. ReplayInv => ExecutedOncePerRecord
  <2>. SUFFICES ASSUME ReplayInv, drawn <= CompletedMax, NEW c \in Command
               PROVE  Executions(c) <= 1 + forgotten[c]
    BY DEF ExecutedOncePerRecord
  <2>1. Executions(c) <= forgotten[c] + Remembers(c)
    BY DEF ReplayInv, ExecutionsCounted
  <2>2. Executions(c) \in Nat /\ forgotten[c] \in Nat
    BY ExecutionsStep DEF ReplayInv, TypeOK
  <2>. QED
    BY <2>1, <2>2 DEF Remembers
<1>. QED
  BY <1>1, ReplayInit, ReplayStep, PTL DEF Spec
=============================================================================

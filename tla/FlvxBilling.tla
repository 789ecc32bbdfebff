----------------------------- MODULE FlvxBilling -----------------------------
(***************************************************************************)
(* Traffic accounting of a shared FLVX Core.                                *)
(*                                                                         *)
(* The Core counts bytes per node from its start.  The Helper samples these *)
(* counters, keeps lifetime totals in state.json and publishes reports with *)
(* a generation and a sequence.  The controller merges them into the        *)
(* ledger that FLVX bills by, and answers with the desired nodes, its own   *)
(* usage and an acknowledgement, upon which the Helper forgets removed      *)
(* nodes and, after a revocation, itself.  Requests and answers get lost    *)
(* and are handled late; Core, Helper and disk fail.                        *)
(*                                                                         *)
(*   cmd/mmwxc-helper/flvx_instance.go, flvx_runtime.go; internal/flvx;     *)
(*   flvx_store.go, flvx_helper.go, flvx_api.go                             *)
(*                                                                         *)
(* Up and down bytes are one number; a desired revision is its set of       *)
(* enabled nodes; quota periods are numbered.                               *)
(***************************************************************************)
EXTENDS Integers, Sequences, FiniteSets, FiniteSetsExt

CONSTANTS
    Node,         \* the nodes FLVX may place on the server
    Limit,        \* the share's traffic quota (Config.TrafficLimitBytes)
    MaxRetired,   \* how many retired generations the controller remembers
    MaxTraffic,   \* bound: bytes carried per node
    MaxChanges,   \* bound: new periods, revisions and status changes of the share
    MaxFaults     \* bound: lost or late calls, failed saves, crashes, reinstallations

ASSUME NodesAssumption == IsFiniteSet(Node)
ASSUME LimitAssumption == Limit \in Nat \ {0} /\ MaxRetired \in Nat \ {0}
ASSUME BoundsAssumption ==
    MaxTraffic \in Nat /\ MaxChanges \in Nat /\ MaxFaults \in Nat

VARIABLES
    core,       \* the FLVX Core: its epoch, its raw counters and the nodes that have one,
                \* the nodes it serves, and those of them whose traffic is blocked
    carried,    \* history: bytes really carried per node
    missed,     \* history: nodes with traffic between the last sample of a pass and their block
    today,      \* the current quota period
    born,       \* history: what was carried when each generation was drawn
    helper,     \* flvxManager.state
    disk,       \* state.json, or NoState
    published,  \* flvxManager.report and reportedMaterial
    pass,       \* what reconcile has done so far
    settled,    \* reconciledPayload: the payload is reconciled, the Core runs
    inbox,      \* flvxManager.incoming
    request,    \* the report of the upload under way
    late,       \* reports of abandoned uploads that the controller may still handle
    share,      \* the controller's row and ledger
    faults

coreVars == <<core, carried, missed, today, born>>
helperVars == <<helper, disk, published, settled>>
netVars == <<inbox, request, late>>
vars == <<coreVars, helperVars, pass, netVars, share, faults>>

Fault == faults < MaxFaults /\ faults' = faults + 1
MayChange == today + share.version < 2 + MaxChanges

-----------------------------------------------------------------------------
(* Counters *)

NoCounter == [epoch |-> 0, raw |-> 0, total |-> 0]

Delta(previous, current, reset) ==
    IF reset \/ current < previous THEN current ELSE current - previous

Gain(c, epoch, raw) == Delta(c.raw, raw, c.epoch # epoch)
Merged(c, epoch, raw) ==
    [epoch |-> epoch, raw |-> raw, total |-> c.total + Gain(c, epoch, raw)]

Larger(a, b) == IF a >= b THEN a ELSE b
Sum(f) == MapThenSumSet(LAMBDA n : f[n], Node)

-----------------------------------------------------------------------------
(* The Helper's state *)

NoAck == [gen |-> 0, seq |-> 0]
NoState == [gen |-> 0]
NoNodes == [n \in {} |-> NoCounter]
NoReport == [gen |-> 0]
NoEnvelope == [version |-> 0]
Unpublished == [report |-> NoReport, material |-> <<>>]

NewState(gen) ==
    [gen |-> gen, seq |-> 0, period |-> 0, used |-> 0,
     version |-> 0, status |-> "active", desired |-> {}, ack |-> NoAck,
     counter |-> [n \in Node |-> NoCounter],
     nodes |-> NoNodes, applied |-> {}, epoch |-> 0, stopped |-> FALSE]

ReportOf(h) ==
    [gen |-> h.gen, seq |-> h.seq, period |-> h.period, used |-> h.used, nodes |-> h.nodes]

\* materialHash: what a report must not delay; not the byte counts, unless they cross
\* the quota.
Material(h) ==
    <<h.version, h.status, h.applied, h.epoch, h.period, h.stopped, h.used >= Limit,
      [n \in DOMAIN h.nodes |-> h.nodes[n].state]>>

Published(h) == [report |-> ReportOf(h), material |-> Material(h)]

\* Mutant: the quota does not count.
WantedWithoutQuota(h) == IF h.status = "active" THEN h.desired ELSE {}

\* wanted: the nodes the Core may admit users to.
Wanted(h) == IF h.status = "active" /\ h.used < Limit THEN h.desired ELSE {}

\* collect: new periods start at zero; every counter the Core has is merged.
InPeriod(h) == IF h.period = today THEN h ELSE [h EXCEPT !.period = today, !.used = 0]

Total(h) == Sum([n \in Node |-> h.counter[n].total])
Sampled(h) == Sum([n \in Node |-> Gain(h.counter[n], core.epoch, core.raw[n])])
Sample(c, n) == IF n \in core.counts THEN Merged(c, core.epoch, core.raw[n]) ELSE c
Collected(h) ==
    [InPeriod(h) EXCEPT
        !.stopped = FALSE,
        !.used = @ + Sampled(h),
        !.counter = [n \in Node |-> Sample(@[n], n)]]

\* A new Core has lost its handlers (AppliedEpoch).
InEpoch(h) ==
    IF h.epoch = core.epoch THEN h ELSE [h EXCEPT !.epoch = core.epoch, !.applied = {}]

\* record: removed nodes stay in the report until their final bytes are acknowledged.
\* Mutant: they are dropped at once.
DroppedAtOnce(h) == { n \in DOMAIN h.nodes : h.nodes[n].state = "removed" /\ n \notin h.desired }

Dropped(h) ==
    { n \in DOMAIN h.nodes :
        /\ h.ack.gen = h.gen /\ h.ack.seq >= h.seq
        /\ h.nodes[n].state = "removed" /\ n \notin h.desired
        /\ h.counter[n].total = h.nodes[n].total }

WithNodes(h) ==
    LET D == (DOMAIN h.nodes \ Dropped(h)) \cup h.desired
    IN  [h EXCEPT !.nodes =
            [n \in D |-> [total |-> h.counter[n].total,
                          state |-> IF n \in h.applied /\ n \in Wanted(h)
                                    THEN "active" ELSE "removed"]]]

\* persist: the file is replaced; or the write fails, and may have replaced it.
Persisted(h) == disk' = h /\ UNCHANGED faults
PersistFails(h) == Fault /\ h # disk /\ disk' \in {disk, h}

NextSequence(h) ==
    (IF h.ack.gen = h.gen THEN Larger(h.ack.seq, h.seq) ELSE h.seq) + 1

\* persistReport: material changes at once, byte counts at most every 30 seconds (the
\* first disjunct); a report is published only after it was written.  Heartbeats that
\* say nothing new are left out.
PersistReport(h, force) ==
    LET n == [h EXCEPT !.seq = NextSequence(h)]
    IN  \/ /\ ~force /\ Material(h) = published.material
           /\ helper' = h /\ UNCHANGED <<disk, published, faults>>
        \/ /\ force \/ Material(h) # published.material \/ ReportOf(h) # published.report
           /\ helper' = n /\ Persisted(n) /\ published' = Published(n)

\* The same, when its write fails.
PersistReportFails(h) ==
    LET n == [h EXCEPT !.seq = NextSequence(h)]
    IN  helper' = n /\ PersistFails(n) /\ UNCHANGED published

-----------------------------------------------------------------------------
EmptyCore(epoch) ==
    [epoch |-> epoch, raw |-> [n \in Node |-> 0], counts |-> {}, serves |-> {}, blocked |-> {}]

\* A share with or without its first nodes, and a Helper that knows nothing of it.
Init ==
    /\ core = EmptyCore(1)
    /\ carried = [n \in Node |-> 0] /\ missed = {} /\ today = 1 /\ born = <<carried>>
    /\ helper = NewState(1) /\ disk = NoState
    /\ published = Unpublished
    /\ pass = "idle" /\ settled = FALSE
    /\ inbox = NoEnvelope /\ request = NoReport /\ late = {}
    /\ \E nodes \in {{}, Node} : share =
               [version |-> 1, status |-> "active", desired |-> nodes,
                gen |-> 0, seq |-> 0, retired |-> {}, period |-> 1, used |-> 0,
                ledger |-> [n \in Node |-> NoCounter]]
    /\ faults = 0

(* The Core and the calendar *)

Traffic(n) ==
    /\ carried[n] < MaxTraffic
    /\ n \in core.serves \ core.blocked
    /\ core' = [core EXCEPT !.raw[n] = @ + 1]
    /\ carried' = [carried EXCEPT ![n] = @ + 1]
    /\ missed' = IF pass = "over" THEN missed \cup {n} ELSE missed
    /\ UNCHANGED <<today, born, helperVars, pass, netVars, share, faults>>

NewCore == EmptyCore(core.epoch + 1)

CoreRestarts ==
    /\ Fault
    /\ core' = NewCore
    /\ UNCHANGED <<carried, missed, today, born, helperVars, pass, netVars, share>>

PeriodEnds ==
    /\ MayChange /\ today' = today + 1
    /\ UNCHANGED <<core, carried, missed, born, helperVars, pass, netVars, share, faults>>

-----------------------------------------------------------------------------
(* The Helper: flvxManager.run and reconcile *)

\* accept: an older version or a failed signature is refused; usage is taken over within
\* a period.
Accepted(h, e) ==
    LET p == InPeriod([h EXCEPT !.version = e.version, !.status = e.status,
                                !.desired = e.desired, !.ack = e.ack])
    IN  IF e.period = today THEN [p EXCEPT !.used = Larger(@, e.used)] ELSE p

\* reportAbsentInstance: nothing is installed here, so the controller's own totals stand.
Absent(e) ==
    e.status = "revoked" /\ disk = NoState /\ helper.applied = {}
    /\ \A n \in Node : helper.counter[n] = NoCounter
AbsentState(h, e) ==
    [h EXCEPT !.version = e.version, !.status = e.status, !.desired = e.desired,
              !.ack = e.ack, !.period = e.period, !.used = e.used,
              !.nodes = NoNodes, !.stopped = TRUE,
              !.gen = IF e.ack.gen = 0 THEN h.gen ELSE e.ack.gen,
              !.seq = (IF e.ack.gen = 0 THEN h.seq ELSE e.ack.seq) + 1]

\* An envelope that says nothing new, except perhaps about usage, need not be written.
Repeats(e) ==
    /\ disk # NoState /\ helper.period = today
    /\ [v |-> e.version, s |-> e.status, d |-> e.desired, a |-> e.ack] =
       [v |-> disk.version, s |-> disk.status, d |-> disk.desired, a |-> disk.ack]

\* accept, once its checks are passed.
TakeOver(e) ==
    IF Absent(e)
    THEN /\ helper' = AbsentState(helper, e) /\ published' = Published(helper')
         /\ pass' = "removed" /\ UNCHANGED <<disk, faults>>
    ELSE /\ helper' = Accepted(helper, e)
         /\ \/ Persisted(helper') \/ PersistFails(helper')
            \/ Repeats(e) /\ UNCHANGED <<disk, faults>>
         /\ UNCHANGED <<published, pass>>

Accept ==
    /\ pass \in {"idle", "removed"} /\ inbox # NoEnvelope
    /\ inbox' = NoEnvelope
    /\ IF inbox.version < helper.version \/ pass = "removed"
       THEN UNCHANGED <<helper, disk, published, pass, settled, faults>>
       ELSE TakeOver(inbox) /\ settled' = (settled /\ inbox.version = helper.version
                                                  /\ inbox.status = helper.status)
    /\ UNCHANGED <<coreVars, request, late, share>>

\* No Core was ever set up (APIPort = 0).
PausedUnborn == helper.status = "paused" /\ helper.epoch = 0
Reconciles == helper.version > 0 /\ helper.status # "revoked" /\ ~PausedUnborn

\* "Save final counters only when setup may replace/recover this Core."
SaveFinalCounters ==
    /\ pass = "idle" /\ Reconciles /\ ~settled
    /\ helper' = Collected(helper)
    /\ \/ Persisted(helper') /\ pass' = "ready"
       \/ PersistFails(helper') /\ pass' = "failed"
    /\ UNCHANGED <<coreVars, published, settled, netVars, share>>

PassRuns == Reconciles /\ (pass = "ready" \/ (pass = "idle" /\ settled))
Current == InEpoch(Collected(helper))

\* limits: the Core lets only the users of the open nodes through.
Limited(open) == [core EXCEPT !.blocked = core.serves \ open]

\* The Core's inbounds are listed only when they may differ (checkInbounds).
Differs(h) ==
    \/ h.applied # Wanted(h)
    \/ (~settled \/ helper.epoch # core.epoch) /\ core.serves # Wanted(h)

\* The report that ends a pass.
RecordAndEnd(h) ==
    \/ PersistReport(h, ~settled) /\ pass' = "idle" /\ settled' = TRUE
    \/ PersistReportFails(h) /\ pass' = "failed" /\ UNCHANGED settled

\* A share that is paused from the start needs no Core.
StayUnborn ==
    /\ pass = "idle" /\ helper.version > 0 /\ PausedUnborn
    /\ \E h \in {WithNodes([helper EXCEPT !.stopped = TRUE])} : RecordAndEnd(h)
    /\ UNCHANGED <<coreVars, netVars, share>>

\* A pass that finds the inbounds as they should be.
SteadyPass ==
    /\ PassRuns /\ ~Differs(Current)
    /\ core' = Limited(Wanted(Current))
    /\ \E h \in {WithNodes(Current)} : RecordAndEnd(h)
    /\ UNCHANGED <<carried, missed, today, born, netVars, share>>

\* Mutant: what was sampled stays in memory until the pass ends.
CursorsInMemory(h) == UNCHANGED <<disk, faults>>

\* persistState: the "final cursors" of the nodes that change.
CursorsSaved(h) == Persisted(h)

\* A pass that changes inbounds: what goes is blocked, sampled for the last time and
\* saved, as "handlers/stat counters will be removed".
SaveCursors ==
    /\ PassRuns /\ Differs(Current)
    /\ core' = Limited(Current.applied \cap Wanted(Current))
    /\ helper' = Current
    /\ \/ CursorsSaved(helper') /\ pass' = "remove"
       \/ PersistFails(helper') /\ pass' = "failed"
    /\ UNCHANGED <<carried, missed, today, born, published, settled, netVars, share>>

\* Inbounds go from the Core, all of them with their counters or none.
Without(gone) ==
    {[core EXCEPT !.serves = @ \ gone, !.blocked = {}],
     [core EXCEPT !.serves = @ \ gone, !.blocked = {}, !.counts = @ \ gone,
                  !.raw = [n \in Node |-> IF n \in gone THEN 0 ELSE @[n]]]}

RemoveInbounds ==
    LET h == [helper EXCEPT !.applied = @ \cap Wanted(helper)]
    IN  /\ pass = "remove"
        /\ core' \in Without(core.serves \ h.applied)
        /\ helper' = h
        /\ \/ Persisted(h) /\ pass' = "add"
           \/ PersistFails(h) /\ pass' = "failed"
        /\ UNCHANGED <<carried, missed, today, born, published, settled, netVars, share>>

AddInbounds ==
    LET h == [helper EXCEPT !.applied = Wanted(helper)]
        new == h.applied \ helper.applied
    IN  /\ pass = "add"
        /\ core' = [core EXCEPT !.serves = @ \cup new, !.counts = @ \cup new]
        /\ helper' = h
        /\ \/ Persisted(h) /\ pass' = "finish"
           \/ PersistFails(h) /\ pass' = "failed"
        /\ UNCHANGED <<carried, missed, today, born, published, settled, netVars, share>>

\* The last sample of a changing pass.  What was missed of the nodes that are active again is
\* reported with them.
FinishPass ==
    /\ pass = "finish"
    /\ LET h == Collected(helper)
       IN  \/ /\ h.used < Limit
              /\ \E r \in {WithNodes(h)} : RecordAndEnd(r)
              /\ missed' = IF disk' = helper' THEN missed \ helper.applied ELSE missed
           \/ /\ h.used >= Limit /\ helper' = h /\ pass' = "over"
              /\ UNCHANGED <<missed, disk, published, settled, faults>>
    /\ UNCHANGED <<core, carried, today, born, netVars, share>>

\* "Usage can cross the cap while the diff is applying. Remove all admissions
\* immediately": all are blocked and the state is saved ...
CloseAdmissions ==
    /\ pass = "over"
    /\ core' = Limited({})
    /\ \/ Persisted(helper) /\ pass' = "close"
       \/ PersistFails(helper) /\ pass' = "failed"
    /\ UNCHANGED <<carried, missed, today, born, helper, published, settled, netVars, share>>

\* ... and removed.
CloseInbounds ==
    /\ pass = "close"
    /\ core' \in Without(core.serves)
    /\ \E h \in {WithNodes([helper EXCEPT !.applied = {}])} : RecordAndEnd(h)
    /\ UNCHANGED <<carried, missed, today, born, netVars, share>>

\* A call to the Core or to systemd fails in the middle of a pass.
CoreCallFails ==
    /\ Fault
    /\ pass \in {"ready", "remove", "add", "finish", "over", "close"}
    /\ pass' = "failed"
    /\ UNCHANGED <<coreVars, helperVars, netVars, share>>

\* reportFailure: the instance is stopped, and says so.
FailPass ==
    LET h == [helper EXCEPT !.stopped = FALSE, !.nodes =
                [n \in DOMAIN @ |-> [total |-> helper.counter[n].total,
                    state |-> IF @[n].state = "removed" THEN "removed" ELSE "error"]]]
    IN  /\ pass = "failed"
        /\ core' = NewCore
        /\ PersistReport(h, TRUE) \/ PersistReportFails(h)
        /\ pass' = "idle" /\ settled' = FALSE
        /\ UNCHANGED <<carried, missed, today, born, netVars, share>>

\* A revoked share: last sample, Core stopped, last report.
StopRevoked ==
    /\ pass = "idle" /\ helper.status = "revoked" /\ ~(helper.stopped /\ settled)
    /\ core' = NewCore
    /\ \E h \in {[Collected(helper) EXCEPT !.applied = {}, !.stopped = TRUE]} :
          RecordAndEnd(WithNodes(h))
    /\ UNCHANGED <<carried, missed, today, born, netVars, share>>

\* Mutant: the state goes with the Core, before the last report arrived.
FinalReportIsOut == TRUE

FinalReportAcknowledged == helper.ack.gen = helper.gen /\ helper.ack.seq >= helper.seq

\* removeInstance: "Keep the acknowledged tombstone in memory."
RemoveInstance ==
    /\ pass = "idle" /\ helper.status = "revoked" /\ helper.stopped /\ helper.seq > 0
    /\ FinalReportAcknowledged
    /\ \/ disk' = NoState /\ pass' = "removed" /\ UNCHANGED faults
       \/ disk' \in {disk, NoState} /\ pass' = "failed" /\ Fault
    /\ UNCHANGED <<coreVars, helper, published, settled, netVars, share>>

\* load: the sequence never falls behind what the controller acknowledged; without a file
\* a generation is drawn at random.
Loaded ==
    IF disk = NoState THEN NewState(Len(born) + 1)
    ELSE IF disk.ack.gen = disk.gen THEN [disk EXCEPT !.seq = Larger(@, disk.ack.seq)]
    ELSE disk

Restarted(h) ==
    /\ helper' = h
    /\ born' = IF h.gen > Len(born) THEN Append(born, carried) ELSE born
    /\ published' = IF h.version > 0 THEN Published(h) ELSE Unpublished
    /\ pass' = "idle" /\ settled' = FALSE
    /\ inbox' = NoEnvelope /\ request' = NoReport

\* The Helper process ends at any point and starts again from its file.
HelperRestarts ==
    /\ Fault
    /\ Restarted(Loaded)
    /\ disk' = IF disk = NoState THEN NoState ELSE Loaded
    /\ UNCHANGED <<core, carried, missed, today, late, share>>

\* The machine is installed anew.
Reinstalled ==
    /\ Fault
    /\ core' = NewCore /\ disk' = NoState
    /\ Restarted(NewState(Len(born) + 1))
    /\ UNCHANGED <<carried, missed, today, late, share>>

-----------------------------------------------------------------------------
(* The report upload and the controller's transaction *)

Upload ==
    /\ request = NoReport /\ published.report # NoReport
    /\ request' = published.report
    /\ UNCHANGED <<coreVars, helperVars, pass, inbox, late, share, faults>>

\* flvxReset
ShareInPeriod(s) == IF s.period = today THEN s ELSE [s EXCEPT !.period = today, !.used = 0]

\* Mutant: a report that arrives late is merged like any other.
FreshAlways(s, r) == r # NoReport

\* Neither an old sequence nor a retired generation.
Fresh(s, r) ==
    /\ r # NoReport
    /\ r.gen = s.gen => r.seq > s.seq
    /\ r.gen \notin s.retired

\* The controller's own sum, or the Helper's if that is larger.
UsageMerged(s, r, gained) ==
    IF r.period = s.period THEN Larger(s.used + gained, r.used) ELSE s.used

\* The newest generations before the current one.
Retired(s, r) ==
    LET all == s.retired \cup ({s.gen} \ {0, r.gen})
    IN  IF Cardinality(all) <= MaxRetired THEN all
        ELSE all \ {CHOOSE g \in all : \A other \in all : g <= other}

\* mergeFLVXReport: the ledger counts by generation as the Helper counts by epoch.
MergedShare(old, r) ==
    LET s == ShareInPeriod(old)
        raw == [n \in Node |-> IF n \in DOMAIN r.nodes THEN r.nodes[n].total ELSE 0]
        gain == [n \in Node |-> IF n \in DOMAIN r.nodes
                                THEN Gain(s.ledger[n], r.gen, raw[n]) ELSE 0]
    IN  [s EXCEPT
            !.gen = r.gen, !.seq = r.seq,
            !.retired = Retired(s, r),
            !.used = UsageMerged(s, r, Sum(gain)),
            !.ledger = [n \in Node |-> IF n \in DOMAIN r.nodes
                                       THEN Merged(@[n], r.gen, raw[n]) ELSE @[n]]]

\* A Helper that never got to its first report uploads sequence 0, which rolls back.
Invalid(r) == r # NoReport /\ r.seq = 0
AfterReport(r) ==
    IF Invalid(r) THEN share
    ELSE IF Fresh(share, r) THEN MergedShare(share, r) ELSE ShareInPeriod(share)

\* flvxHelperDesired: no admission without the official inventory of ports.
EnvelopeOf(s, portsKnown) ==
    [version |-> s.version, desired |-> s.desired,
     status |-> IF s.status = "active" /\ ~portsKnown THEN "paused" ELSE s.status,
     period |-> s.period, used |-> s.used, ack |-> [gen |-> s.gen, seq |-> s.seq]]

\* The transaction commits and the answer replaces what the Helper has not read yet.
Answer ==
    /\ request # NoReport \/ published.report = NoReport
    /\ share' = AfterReport(request)
    /\ request' = NoReport
    /\ IF Invalid(request) THEN UNCHANGED <<inbox, faults>>
       ELSE \E portsKnown \in BOOLEAN :
                /\ inbox' = EnvelopeOf(share', portsKnown)
                /\ IF portsKnown THEN UNCHANGED faults ELSE Fault
    /\ UNCHANGED <<coreVars, helperVars, pass, late>>

\* The call fails: before, after or long before the controller handles it.
UploadFails ==
    /\ request # NoReport /\ Fault
    /\ \/ UNCHANGED <<share, late>>
       \/ share' = AfterReport(request) /\ UNCHANGED late
       \/ late' = late \cup {request} /\ UNCHANGED share
    /\ request' = NoReport
    /\ UNCHANGED <<coreVars, helperVars, pass, inbox>>

HandleLate(r) ==
    /\ r \in late /\ late' = late \ {r}
    /\ share' = AfterReport(r)
    /\ UNCHANGED <<coreVars, helperVars, pass, inbox, request, faults>>

\* putFLVXDesired: only active shares take a new revision.
PutDesired ==
    /\ MayChange /\ share.status = "active"
    /\ \E nodes \in SUBSET Node \ {share.desired} :
          share' = [share EXCEPT !.version = @ + 1, !.desired = nodes]
    /\ UNCHANGED <<coreVars, helperVars, pass, netVars, faults>>

\* saveFLVXShare: "cancelled shares cannot be resumed".
SaveShare ==
    /\ MayChange /\ share.status # "revoked"
    /\ \E status \in {"active", "paused", "revoked"} \ {share.status} :
          share' = [ShareInPeriod(share) EXCEPT !.version = @ + 1, !.status = status]
    /\ UNCHANGED <<coreVars, helperVars, pass, netVars, faults>>

-----------------------------------------------------------------------------
Reconcile ==
    \/ StayUnborn \/ SaveFinalCounters \/ SteadyPass \/ SaveCursors \/ RemoveInbounds \/ AddInbounds
    \/ FinishPass \/ CloseAdmissions \/ CloseInbounds \/ CoreCallFails \/ FailPass \/ StopRevoked \/ RemoveInstance

Next ==
    \/ \E n \in Node : Traffic(n)
    \/ CoreRestarts \/ PeriodEnds \/ HelperRestarts \/ Reinstalled
    \/ Accept \/ Reconcile
    \/ Upload \/ Answer \/ UploadFails \/ PutDesired \/ SaveShare
    \/ \E r \in late : HandleLate(r)

Spec == Init /\ [][Next]_vars

\* flvxManager.run takes envelopes and reconciles; the reporting loop uploads.
Fairness ==
    /\ WF_vars(Accept) /\ WF_vars(Reconcile)
    /\ WF_vars(Upload \/ Answer)
FairSpec == Spec /\ Fairness

-----------------------------------------------------------------------------
(* Properties *)

Meter == INSTANCE TrafficMeter WITH
    billed <- [n \in Node |-> share.ledger[n].total], period <- share.period, used <- share.used

\* With its reports, restarts and faults the ledger is no more than a meter: FLVX is never
\* billed for a byte that the Core did not carry or for one byte twice, and within a period
\* an exhausted quota never opens again, neither for a repeated or late report nor for a
\* new Helper that starts from zero (mergeFLVXReport).
BillsLikeAMeter == Meter!MeterSpec

\* What is carried but neither durable nor still in the Core's counter is lost for ever.
Lost(n) ==
    carried[n] - (IF disk = NoState THEN 0
                  ELSE disk.counter[n].total + Gain(disk.counter[n], core.epoch, core.raw[n]))

\* A counter that started again below its saved cursor, which no sample has seen.
Stale(n) == disk.counter[n].epoch = core.epoch /\ core.raw[n] < disk.counter[n].raw

\* What a Core that counts no more takes with it when usage crossed the cap in the pass.
Unsampled(n) == IF pass = "close" THEN Gain(helper.counter[n], core.epoch, core.raw[n]) ELSE 0

\* Only the end of a Core (or of the machine) loses traffic: no sampling, no removal of
\* inbounds and no crash of the Helper does, as cursors and totals are written together
\* (collect, persist).
OnlyCoreRestartsLoseTraffic ==
    [][disk # NoState /\ disk' # NoState /\ core'.epoch = core.epoch
        => \A n \in Node : Stale(n) \/ Lost(n)' <= Lost(n) + Unsampled(n)]_vars

\* A revoked share leaves the machine only after its final counters are in the ledger
\* (reconcile waits for the acknowledgement of its last report).
FinalCountersBilled ==
    pass = "removed" =>
        \A n \in DOMAIN helper.nodes : share.ledger[n].total >= helper.counter[n].total

\* A node leaves the reports only when the ledger has its last byte (record drops only
\* acknowledged, unchanged removals).
DroppedNodesWereBilled ==
    [][settled' /\ helper'.gen = helper.gen =>
        \A n \in DOMAIN helper.nodes \ (DOMAIN helper'.nodes \cup missed) :
            share.ledger[n].total >= helper'.counter[n].total]_vars

\* Once a pass is done, a node that the Helper neither serves nor mentions is billed to its
\* last sampled byte: "Final counters are sampled before removal" (docs/architecture.md).
\* It does not hold: a Helper that is restarted between the first inbound of a node and the
\* end of that pass, and finds the node gone from the desired state, samples its counters
\* but never reports them.
RemovedNodesAreBilled ==
    pass = "idle" /\ settled =>
        \A n \in Node \ (DOMAIN helper.nodes \cup helper.desired) :
            share.gen = helper.gen => share.ledger[n].total >= helper.counter[n].total

\* Once FLVX has used its quota the Core admits nobody, until a new period begins.
OverQuotaCloses == share.used >= Limit ~> core.serves = {} \/ share.used < Limit
=============================================================================

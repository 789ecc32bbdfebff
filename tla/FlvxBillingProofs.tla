-------------------------- MODULE FlvxBillingProofs --------------------------
(***************************************************************************)
(* Theorems about FlvxBilling: the ledger is a meter, whatever is lost,     *)
(* late or restarted.                                                       *)
(*                                                                         *)
(* A counter of the Helper and what it may still gain from the Core stay    *)
(* within what was carried since its generation was drawn; a report stays   *)
(* within its generation; and the ledger is the number of a set of carried  *)
(* bytes, of which a generation that may still report holds no other than   *)
(* those the ledger has for it.                                             *)
(*                                                                         *)
(* On it rests a second invariant: a sequence that the controller has      *)
(* acknowledged to a state, of memory or of the file, stands for a report   *)
(* with every node that has ended in that state.  So removed nodes and a    *)
(* revoked share go only once they are billed.                              *)
(***************************************************************************)
EXTENDS FlvxBilling, FiniteSetTheorems, NaturalsInduction, WellFoundedInduction, TLAPS

-----------------------------------------------------------------------------
(* Types *)

Counters == [epoch: Nat, raw: Nat, total: Nat]
Statuses == {"active", "paused", "revoked"}
NodeReport == [total: Nat, state: {"active", "removed", "error"}]
NodeReports == UNION { [D -> NodeReport] : D \in SUBSET Node }
Acks == [gen: Nat, seq: Nat]
Cores ==
    { k \in [epoch: Nat, raw: [Node -> Nat], counts: SUBSET Node, serves: SUBSET Node,
             blocked: SUBSET Node] :
        k.serves \subseteq k.counts /\ \A n \in Node \ k.counts : k.raw[n] = 0 }

HelperState ==
    [gen: Nat \ {0}, seq: Nat, period: Nat, used: Nat, version: Nat, status: Statuses,
     desired: SUBSET Node, ack: Acks, counter: [Node -> Counters], nodes: NodeReports,
     applied: SUBSET Node, epoch: Nat, stopped: BOOLEAN]
Report == [gen: Nat \ {0}, seq: Nat, period: Nat, used: Nat, nodes: NodeReports]
Envelope ==
    [version: Nat, desired: SUBSET Node, status: Statuses, period: Nat, used: Nat, ack: Acks]
Share ==
    [version: Nat, status: Statuses, desired: SUBSET Node, gen: Nat, seq: Nat,
     retired: SUBSET Nat, period: Nat, used: Nat, ledger: [Node -> Counters]]

Passes == {"idle", "ready", "remove", "add", "finish", "over", "close", "failed", "removed"}

TypeInv ==
    /\ core \in Cores /\ core.epoch > 0
    /\ carried \in [Node -> Nat] /\ missed \subseteq Node /\ today \in Nat
    /\ born \in Seq([Node -> Nat])
    /\ helper \in HelperState
    /\ disk = NoState \/ disk \in HelperState
    /\ published.report = NoReport \/ published.report \in Report
    /\ pass \in Passes /\ settled \in BOOLEAN
    /\ inbox = NoEnvelope \/ inbox \in Envelope
    /\ request = NoReport \/ request \in Report
    /\ late \subseteq Report
    /\ share \in Share /\ share.period <= today
    /\ faults \in Nat

-----------------------------------------------------------------------------
(* The inductive invariant *)

\* Nothing was counted, and nobody is served.
Quiet(k) == k.serves = {} /\ \A n \in Node : k.raw[n] = 0

\* What counter c has once the Core k is sampled.
Due(c, k, n) == c.total + Gain(c, k.epoch, k.raw[n])

\* A counter never counts a byte that was not carried since its generation was drawn.
Counts(h, k, ca, bo) ==
    \A n \in Node :
        /\ h.counter[n].epoch <= k.epoch
        /\ bo[Len(bo)][n] + Due(h.counter[n], k, n) <= ca[n]

\* A state whose instance was stopped, or never set up, finds a quiet Core.
Rests(h, k) == h.stopped \/ h.epoch = 0 => Quiet(k)

\* State h knows what a report of its generation, or the ledger, says.
Knows(h, gen, seq, totals) ==
    h.gen = gen =>
        /\ seq <= h.seq
        /\ \A n \in DOMAIN totals :
              /\ totals[n].total <= h.counter[n].total
              /\ n \in DOMAIN h.nodes => totals[n].total <= h.nodes[n].total

\* State h is of the last generation and knows every report of it.
Sound(h, k, ca, bo, P, l) ==
    /\ h.gen = Len(bo)
    /\ Counts(h, k, ca, bo)
    /\ \A n \in DOMAIN h.nodes : h.nodes[n].total <= h.counter[n].total
    /\ \A r \in P : Knows(h, r.gen, r.seq, r.nodes)
    /\ \A n \in Node : l[n].epoch = h.gen =>
          /\ l[n].raw <= h.counter[n].total
          /\ n \in DOMAIN h.nodes => l[n].raw <= h.nodes[n].total

\* Counter e has counted, and will count, no less than c: it is the same; or both are of an
\* earlier Core; or it was sampled, when c would not have gained more.
Covers(c, e, epoch, raw) ==
    \/ c = e
    \/ c.total <= e.total /\ c.epoch < epoch /\ e.epoch < epoch
    \/ e.epoch = epoch /\ e.raw <= raw /\ c.total + Gain(c, epoch, e.raw) <= e.total

Ahead(d, h, k) == \A n \in Node : Covers(d.counter[n], h.counter[n], k.epoch, k.raw[n])

\* The reports the controller may still handle.
Pending == ({published.report, request} \cup late) \ {NoReport}

HelperIsSound ==
    /\ pass = "removed" => disk = NoState
    /\ disk = NoState => Quiet(core)
    /\ pass \in {"remove", "add", "finish", "over", "close"} =>
          /\ ~helper.stopped /\ helper.epoch # 0
          /\ disk # NoState /\ ~disk.stopped /\ disk.epoch # 0
    /\ pass # "removed" => /\ Sound(helper, core, carried, born, Pending, share.ledger)
                           /\ Rests(helper, core)
    /\ disk # NoState => /\ Sound(disk, core, carried, born, Pending, share.ledger)
                         /\ Rests(disk, core)
    /\ inbox # NoEnvelope => inbox.ack.gen <= Len(born)
    /\ disk # NoState => Ahead(disk, helper, core)

\* Before counters go with their inbounds they are sampled, unless they are still in use, and
\* saved.
CutsAreSaved ==
    /\ pass \in {"remove", "close"} => disk # NoState /\ disk.counter = helper.counter
    /\ pass = "remove" => \A n \in core.serves \ (helper.applied \cap Wanted(helper)) :
          n \in core.blocked /\ Gain(helper.counter[n], core.epoch, core.raw[n]) = 0

\* What was carried when generation g ended.
Until(g, n, ca, bo) == IF g < Len(bo) THEN bo[g + 1][n] ELSE ca[n]

GenerationsInOrder(ca, bo) ==
    /\ Len(bo) > 0
    /\ \A n \in Node : /\ \A g \in 1..Len(bo) : bo[g][n] <= ca[n]
                       /\ \A g, h \in 1..Len(bo) : g <= h => bo[g][n] <= bo[h][n]

ReportsAreSound(P, ca, bo) ==
    /\ \A r \in P :
          /\ r.gen \in 1..Len(bo)
          /\ \A n \in DOMAIN r.nodes :
                bo[r.gen][n] + r.nodes[n].total <= Until(r.gen, n, ca, bo)
    /\ \A r, q \in P : r.gen = q.gen /\ r.seq < q.seq =>
          \A n \in DOMAIN r.nodes \cap DOMAIN q.nodes : r.nodes[n].total <= q.nodes[n].total

\* The bytes B of node n that are in the ledger.  Only bytes of generations that will never
\* be merged again are not known by the ledger's counter.
Bytes(B, n, s, ca, bo) ==
    /\ B \in SUBSET (1..ca[n])
    /\ Cardinality(B) = s.ledger[n].total
    /\ \A g \in 1..Len(bo) \ s.retired : \A b \in B :
          bo[g][n] < b /\ b <= Until(g, n, ca, bo) =>
              s.ledger[n].epoch = g /\ b <= bo[g][n] + s.ledger[n].raw

LedgerIsSound(s, P, ca, bo) ==
    /\ s.gen \in 0..Len(bo) /\ s.gen \notin s.retired
    /\ s.retired \subseteq 1..Len(bo)
    /\ \A n \in Node :
          /\ s.ledger[n].epoch \in s.retired \cup {0, s.gen}
          /\ \A r \in P : r.gen = s.gen /\ s.ledger[n].epoch = r.gen /\ r.seq > s.seq
                             /\ n \in DOMAIN r.nodes => s.ledger[n].raw <= r.nodes[n].total
          /\ \E B \in SUBSET (1..ca[n]) : Bytes(B, n, s, ca, bo)

BillingInv ==
    /\ TypeInv
    /\ HelperIsSound
    /\ CutsAreSaved
    /\ GenerationsInOrder(carried, born)
    /\ ReportsAreSound(Pending, carried, born)
    /\ LedgerIsSound(share, Pending, carried, born)

-----------------------------------------------------------------------------
(* Sums over the nodes *)

\* A non-empty set of numbers has a least one.
LEMMA LeastNumber ==
    ASSUME NEW S \in SUBSET Nat, S # {}
    PROVE  \E m \in S : \A k \in S : ~(k < m)
<1>1. PICK m \in S : \A k \in S : <<k, m>> \notin OpToRel(<, Nat)
      BY NatLessThanWellFounded, WFMin
<1>2. m \in Nat /\ \A k \in S : k \in Nat OBVIOUS
<1>3. \A k \in S : ~(k < m) BY <1>1, <1>2, Zenon DEF OpToRel
<1> QED BY <1>3

Pick(S) == CHOOSE x \in S : TRUE
SumStep(f, g, S) == IF S = {} THEN 0 ELSE f[Pick(S)] + g[S \ {Pick(S)}]
IsSumOf(g, f) == g = [S \in SUBSET Node |-> SumStep(f, g, S)]

\* A set of nodes without one of them is smaller.
LEMMA OneNodeLess ==
    ASSUME NEW S \in SUBSET Node, S # {}
    PROVE  /\ Pick(S) \in S
           /\ S \ {Pick(S)} \in SUBSET Node
           /\ Cardinality(S) \in Nat
           /\ Cardinality(S \ {Pick(S)}) \in Nat
           /\ Cardinality(S \ {Pick(S)}) < Cardinality(S)
<1>1. Pick(S) \in S BY DEF Pick
<1>2. IsFiniteSet(S) /\ Cardinality(S) \in Nat
      BY NodesAssumption, FS_Subset, FS_CardinalityType
<1>3. Cardinality(S \ {Pick(S)}) = Cardinality(S) - 1 /\ IsFiniteSet(S \ {Pick(S)})
      BY <1>1, <1>2, FS_RemoveElement
<1>4. Cardinality(S \ {Pick(S)}) \in Nat BY <1>3, FS_CardinalityType
<1> QED BY <1>1, <1>2, <1>3, <1>4

\* The sum over the nodes, written as a recursive function on their subsets, exists: up
\* to every size of the subsets there is a function that adds up as it should.
LEMMA SumExists ==
    ASSUME NEW f \in [Node -> Nat]
    PROVE  \E g : IsSumOf(g, f)
<1> DEFINE AddsUp(g, k) ==
              \A S \in SUBSET Node : Cardinality(S) <= k => g[S] = SumStep(f, g, S)
           Missing == { k \in Nat : ~ \E g \in [SUBSET Node -> Nat] : AddsUp(g, k) }
<1>1. \A S \in SUBSET Node : IsFiniteSet(S) /\ Cardinality(S) \in Nat
      BY NodesAssumption, FS_Subset, FS_CardinalityType
<1>2. ASSUME Missing # {} PROVE FALSE
  <2>1. Missing \in SUBSET Nat OBVIOUS
  <2> HIDE DEF Missing
  <2>2. PICK m \in Missing : \A k \in Missing : ~(k < m) BY <1>2, <2>1, LeastNumber
  <2>3. m \in Nat BY <2>1
  <2>4. CASE m = 0
    <3> DEFINE g == [S \in SUBSET Node |-> 0]
    <3>1. \A S \in SUBSET Node : Cardinality(S) <= 0 => S = {} BY <1>1, FS_EmptySet
    <3>2. AddsUp(g, 0) BY <3>1 DEF SumStep
    <3>3. g \in [SUBSET Node -> Nat] OBVIOUS
    <3> HIDE DEF g, AddsUp
    <3> QED BY <2>2, <2>4, <3>2, <3>3 DEF Missing
  <2>5. CASE m # 0
    <3>1. m - 1 \in Nat /\ m - 1 \notin Missing BY <2>2, <2>3, <2>5
    <3>2. PICK g \in [SUBSET Node -> Nat] : AddsUp(g, m - 1) BY <3>1 DEF Missing
    <3> DEFINE h == [S \in SUBSET Node |-> SumStep(f, g, S)]
    <3>3. \A S \in SUBSET Node : SumStep(f, g, S) \in Nat
      <4> TAKE S \in SUBSET Node
      <4>1. CASE S = {} BY <4>1 DEF SumStep
      <4>2. CASE S # {}
        <5>1. Pick(S) \in Node /\ S \ {Pick(S)} \in SUBSET Node BY <4>2, OneNodeLess
        <5>2. f[Pick(S)] \in Nat /\ g[S \ {Pick(S)}] \in Nat BY <3>2, <5>1
        <5> QED BY <4>2, <5>2 DEF SumStep
      <4> QED BY <4>1, <4>2
    <3>4. h \in [SUBSET Node -> Nat] BY <3>3
    <3>5. ASSUME NEW S \in SUBSET Node, Cardinality(S) <= m
          PROVE  h[S] = SumStep(f, h, S)
      <4>1. CASE S = {} BY <4>1 DEF SumStep
      <4>2. CASE S # {}
        <5> DEFINE T == S \ {Pick(S)}
        <5>1. T \in SUBSET Node /\ Cardinality(T) <= m - 1
              BY <2>3, <3>5, <4>2, OneNodeLess
        <5>2. g[T] = SumStep(f, g, T) BY <3>2, <5>1
        <5>3. h[T] = g[T] BY <5>1, <5>2
        <5> QED BY <4>2, <5>3 DEF SumStep
      <4> QED BY <4>1, <4>2
    <3>6. AddsUp(h, m) BY <3>5
    <3> HIDE DEF h, AddsUp
    <3> QED BY <2>2, <3>4, <3>6 DEF Missing
  <2> QED BY <2>4, <2>5
<1>3. Cardinality(Node) \in Nat BY <1>1
<1>4. PICK g \in [SUBSET Node -> Nat] : AddsUp(g, Cardinality(Node)) BY <1>2, <1>3
<1>5. \A S \in SUBSET Node : Cardinality(S) <= Cardinality(Node)
      BY NodesAssumption, FS_Subset
<1>6. \A S \in SUBSET Node : g[S] = SumStep(f, g, S) BY <1>4, <1>5
<1>7. g = [S \in SUBSET Node |-> SumStep(f, g, S)] BY <1>6
<1> QED BY <1>7 DEF IsSumOf

\* The sum of naturals over the nodes is a natural.
LEMMA SumIsNatural ==
    ASSUME NEW f \in [Node -> Nat]
    PROVE  Sum(f) \in Nat
<1> DEFINE t == CHOOSE g : IsSumOf(g, f)
           Bad == { k \in Nat : \E S \in SUBSET Node : Cardinality(S) = k /\ t[S] \notin Nat }
<1>1. IsSumOf(t, f) BY SumExists
<1> HIDE DEF t
<1>2. \A S \in SUBSET Node : t[S] = SumStep(f, t, S) BY <1>1 DEF IsSumOf
<1>3. ASSUME Bad # {} PROVE FALSE
  <2>1. Bad \in SUBSET Nat OBVIOUS
  <2> HIDE DEF Bad
  <2>2. PICK m \in Bad : \A k \in Bad : ~(k < m) BY <1>3, <2>1, LeastNumber
  <2>3. PICK S \in SUBSET Node : Cardinality(S) = m /\ t[S] \notin Nat BY <2>2 DEF Bad
  <2>4. S # {}
    <3>1. t[S] = SumStep(f, t, S) BY <1>2
    <3>2. S = {} => t[S] = 0 BY <3>1 DEF SumStep
    <3> QED BY <2>3, <3>2
  <2> DEFINE T == S \ {Pick(S)}
  <2>5. /\ T \in SUBSET Node /\ Pick(S) \in Node
        /\ Cardinality(T) \in Nat /\ Cardinality(T) < m
        BY <2>3, <2>4, OneNodeLess
  <2>6. t[T] \in Nat BY <2>2, <2>5 DEF Bad
  <2>7. t[S] = f[Pick(S)] + t[T] BY <1>2, <2>4 DEF SumStep
  <2>8. f[Pick(S)] \in Nat BY <2>5
  <2> HIDE DEF T
  <2> QED BY <2>3, <2>6, <2>7, <2>8
<1>4. \A S \in SUBSET Node : Cardinality(S) \in Nat
      BY NodesAssumption, FS_Subset, FS_CardinalityType
<1>5. t[Node] \in Nat BY <1>3, <1>4
<1>6. Sum(f) = t[Node]
      BY DEF Sum, MapThenSumSet, MapThenFoldSet, t, IsSumOf, SumStep, Pick
<1> QED BY <1>5, <1>6

-----------------------------------------------------------------------------
(* What the operators make of a state of the Helper *)

LEMMA NodeReportsOf ==
    ASSUME NEW D \in SUBSET Node, NEW f \in [D -> NodeReport]
    PROVE  f \in NodeReports
BY DEF NodeReports

LEMMA NodeReportsAre ==
    ASSUME NEW f \in NodeReports
    PROVE  /\ DOMAIN f \subseteq Node
           /\ f \in [DOMAIN f -> NodeReport]
           /\ \A n \in DOMAIN f : f[n] \in NodeReport /\ f[n].total \in Nat
BY DEF NodeReports, NodeReport

\* Delta and Merge: what is due stays due, now counted.
LEMMA MergedCounter ==
    ASSUME NEW c \in Counters, NEW epoch \in Nat, NEW raw \in Nat
    PROVE  /\ Gain(c, epoch, raw) \in Nat
           /\ Merged(c, epoch, raw) \in Counters
           /\ Merged(c, epoch, raw).epoch = epoch /\ Merged(c, epoch, raw).raw = raw
           /\ Merged(c, epoch, raw).total = c.total + Gain(c, epoch, raw)
           /\ 0 = Gain(Merged(c, epoch, raw), epoch, raw)
<1>1. Gain(c, epoch, raw) \in Nat BY DEF Gain, Delta, Counters
<1>2. c.total + Gain(c, epoch, raw) \in Nat BY <1>1 DEF Counters
<1> QED BY <1>1, <1>2 DEF Merged, Counters, Gain, Delta

\* A counter the Core does not have gains nothing.
LEMMA SampleCounter ==
    ASSUME core \in Cores, NEW c \in Counters, NEW n \in Node
    PROVE  /\ Sample(c, n) \in Counters
           /\ Sample(c, n) = c \/ Sample(c, n) = Merged(c, core.epoch, core.raw[n])
           /\ Sample(c, n).total = c.total + Gain(c, core.epoch, core.raw[n])
           /\ 0 = Gain(Sample(c, n), core.epoch, core.raw[n])
<1>1. core.epoch \in Nat /\ core.raw[n] \in Nat BY DEF Cores
<1>2. CASE n \in core.counts BY <1>1, <1>2, MergedCounter DEF Sample
<1>3. CASE n \notin core.counts
  <2>1. core.raw[n] = 0 /\ Sample(c, n) = c BY <1>3 DEF Cores, Sample
  <2> QED BY <1>1, <2>1 DEF Gain, Delta, Counters
<1> QED BY <1>2, <1>3

LEMMA NewStateType ==
    ASSUME NEW gen \in Nat \ {0}
    PROVE  NewState(gen) \in HelperState
<1>1. NoNodes \in [{} -> NodeReport] BY DEF NoNodes
<1>2. NoNodes \in NodeReports BY <1>1, NodeReportsOf
<1> QED BY <1>2 DEF NewState, HelperState, NoAck, NoCounter, Acks, Counters, Statuses

LEMMA InPeriodType ==
    ASSUME TypeInv, NEW h \in HelperState
    PROVE  /\ InPeriod(h) \in HelperState
           /\ InPeriod(h).gen = h.gen /\ InPeriod(h).seq = h.seq
           /\ InPeriod(h).counter = h.counter /\ InPeriod(h).nodes = h.nodes
           /\ InPeriod(h).stopped = h.stopped /\ InPeriod(h).epoch = h.epoch
BY DEF InPeriod, HelperState, TypeInv

LEMMA SampledType ==
    ASSUME TypeInv, NEW h \in HelperState
    PROVE  Sampled(h) \in Nat
<1>1. \A n \in Node : Gain(h.counter[n], core.epoch, core.raw[n]) \in Nat
      BY MergedCounter DEF TypeInv, HelperState, Cores
<1>2. [n \in Node |-> Gain(h.counter[n], core.epoch, core.raw[n])] \in [Node -> Nat]
      BY <1>1
<1> QED BY <1>2, SumIsNatural DEF Sampled

LEMMA CollectedType ==
    ASSUME TypeInv, NEW h \in HelperState
    PROVE  /\ Collected(h) \in HelperState
           /\ Collected(h).gen = h.gen /\ Collected(h).seq = h.seq
           /\ Collected(h).nodes = h.nodes /\ Collected(h).epoch = h.epoch
           /\ Collected(h).stopped = FALSE
           /\ Collected(h).counter =
                [n \in Node |-> Sample(h.counter[n], n)]
<1> DEFINE p == InPeriod(h)
<1>1. /\ p \in HelperState /\ p.gen = h.gen /\ p.seq = h.seq
      /\ p.nodes = h.nodes /\ p.epoch = h.epoch /\ p.counter = h.counter
      BY InPeriodType
<1> HIDE DEF p
<1>2. Sampled(h) \in Nat BY SampledType
<1>3. \A n \in Node : Sample(p.counter[n], n) \in Counters
      BY <1>1, SampleCounter DEF TypeInv, HelperState
<1> DEFINE f == [n \in Node |-> Sample(h.counter[n], n)]
           u == p.used + Sampled(h)
<1>4. f \in [Node -> Counters] BY <1>1, <1>3
<1>5. u \in Nat BY <1>1, <1>2 DEF HelperState
<1>6. Collected(h) = [p EXCEPT !.stopped = FALSE, !.used = u, !.counter = f]
      BY <1>1 DEF Collected, p
<1>7. f = [n \in Node |-> Sample(h.counter[n], n)] OBVIOUS
<1> HIDE DEF f, u
<1>8. Collected(h) \in HelperState BY <1>1, <1>4, <1>5, <1>6 DEF HelperState
<1>9. /\ Collected(h).gen = p.gen /\ Collected(h).seq = p.seq /\ Collected(h).nodes = p.nodes
      /\ Collected(h).epoch = p.epoch /\ Collected(h).stopped = FALSE
      /\ Collected(h).counter = f
      BY <1>1, <1>6 DEF HelperState
<1> QED BY <1>1, <1>7, <1>8, <1>9

LEMMA InEpochType ==
    ASSUME TypeInv, NEW h \in HelperState
    PROVE  /\ InEpoch(h) \in HelperState
           /\ InEpoch(h).gen = h.gen /\ InEpoch(h).seq = h.seq
           /\ InEpoch(h).counter = h.counter /\ InEpoch(h).nodes = h.nodes
           /\ InEpoch(h).stopped = h.stopped /\ InEpoch(h).epoch = core.epoch
BY DEF InEpoch, HelperState, TypeInv, Cores

LEMMA WithNodesType ==
    ASSUME NEW h \in HelperState
    PROVE  /\ WithNodes(h) \in HelperState
           /\ WithNodes(h).gen = h.gen /\ WithNodes(h).seq = h.seq
           /\ WithNodes(h).counter = h.counter
           /\ WithNodes(h).stopped = h.stopped /\ WithNodes(h).epoch = h.epoch
           /\ \A n \in DOMAIN WithNodes(h).nodes :
                 WithNodes(h).nodes[n].total = h.counter[n].total
<1> DEFINE D == (DOMAIN h.nodes \ Dropped(h)) \cup h.desired
           f == [n \in D |-> [total |-> h.counter[n].total,
                              state |-> IF n \in h.applied /\ n \in Wanted(h)
                                        THEN "active" ELSE "removed"]]
<1>1. h.nodes \in NodeReports /\ h.desired \subseteq Node BY DEF HelperState
<1>2. D \in SUBSET Node BY <1>1, NodeReportsAre
<1>3. \A n \in Node : h.counter[n].total \in Nat BY DEF HelperState, Counters
<1>4. WithNodes(h) = [h EXCEPT !.nodes = f] BY DEF WithNodes
<1> HIDE DEF D
<1>5. f \in [D -> NodeReport] BY <1>2, <1>3 DEF NodeReport
<1>6. f \in NodeReports BY <1>2, <1>5, NodeReportsOf
<1>7. \A n \in D : f[n].total = h.counter[n].total OBVIOUS
<1>8. DOMAIN f = D OBVIOUS
<1> HIDE DEF f
<1> QED BY <1>4, <1>6, <1>7, <1>8 DEF HelperState

LEMMA NextSequenceType ==
    ASSUME NEW h \in HelperState
    PROVE  /\ NextSequence(h) \in Nat /\ h.seq <= NextSequence(h)
           /\ [h EXCEPT !.seq = NextSequence(h)] \in HelperState
<1>1. NextSequence(h) \in Nat /\ h.seq <= NextSequence(h)
      BY DEF NextSequence, Larger, HelperState, Acks
<1> QED BY <1>1 DEF HelperState

LEMMA ReportOfType ==
    ASSUME NEW h \in HelperState
    PROVE  /\ ReportOf(h) \in Report /\ ReportOf(h) # NoReport
           /\ ReportOf(h).gen = h.gen /\ ReportOf(h).seq = h.seq
           /\ ReportOf(h).nodes = h.nodes
           /\ Published(h).report = ReportOf(h)
BY DEF ReportOf, Report, HelperState, NoReport, Published

-----------------------------------------------------------------------------
(* What keeps a state of the Helper sound *)

World(k, ca, bo) ==
    /\ k \in Cores /\ ca \in [Node -> Nat]
    /\ bo \in Seq([Node -> Nat]) /\ Len(bo) > 0

LEMMA WorldTypes ==
    ASSUME NEW k, NEW ca, NEW bo, World(k, ca, bo)
    PROVE  /\ k.epoch \in Nat /\ Len(bo) \in Nat
           /\ \A n \in Node : k.raw[n] \in Nat /\ ca[n] \in Nat
           /\ \A g \in 1..Len(bo), n \in Node : bo[g][n] \in Nat
<1>1. \A g \in 1..Len(bo) : bo[g] \in [Node -> Nat] BY DEF World
<1> QED BY <1>1 DEF World, Cores

LEMMA CounterTypes ==
    ASSUME NEW h \in HelperState, NEW n \in Node
    PROVE  /\ h.counter[n] \in Counters /\ h.counter[n].epoch \in Nat
           /\ h.counter[n].raw \in Nat /\ h.counter[n].total \in Nat
BY DEF HelperState, Counters

LEMMA NodeTypes ==
    ASSUME NEW h \in HelperState, NEW n \in DOMAIN h.nodes
    PROVE  n \in Node /\ h.nodes[n].total \in Nat
<1>1. h.nodes \in NodeReports BY DEF HelperState
<1> QED BY <1>1, NodeReportsAre

\* Counters are sampled or left alone; nodes are reported with their counters or as before.
Advances(h, g, k) ==
    /\ g.gen = h.gen /\ h.seq <= g.seq
    /\ \A n \in Node : \/ g.counter[n] = h.counter[n]
                       \/ g.counter[n] = Merged(h.counter[n], k.epoch, k.raw[n])
    /\ \A n \in DOMAIN g.nodes :
          \/ g.nodes[n].total = g.counter[n].total
          \/ n \in DOMAIN h.nodes /\ g.nodes[n].total = h.nodes[n].total

\* Sampling counts nothing that was not due.
LEMMA AdvancesCounts ==
    ASSUME NEW k, NEW ca, NEW bo, World(k, ca, bo),
           NEW h \in HelperState, NEW g \in HelperState,
           Counts(h, k, ca, bo), Advances(h, g, k)
    PROVE  Counts(g, k, ca, bo)
<1> SUFFICES ASSUME NEW n \in Node
             PROVE  /\ g.counter[n].epoch <= k.epoch
                    /\ bo[Len(bo)][n] + Due(g.counter[n], k, n) <= ca[n]
    BY DEF Counts
<1> DEFINE c == h.counter[n]
           m == Merged(c, k.epoch, k.raw[n])
<1>1. k.epoch \in Nat /\ k.raw[n] \in Nat BY WorldTypes
<1>2. c \in Counters /\ c.total \in Nat BY CounterTypes DEF c
<1> HIDE DEF c
<1>3. /\ m.epoch = k.epoch /\ m.raw = k.raw[n]
      /\ m.total = c.total + Gain(c, k.epoch, k.raw[n])
      /\ 0 = Gain(m, k.epoch, k.raw[n])
      /\ Gain(c, k.epoch, k.raw[n]) \in Nat
  <2>1. Gain(c, k.epoch, k.raw[n]) \in Nat BY <1>1, <1>2 DEF Gain, Delta, Counters
  <2>2. /\ m.epoch = k.epoch /\ m.raw = k.raw[n]
        /\ m.total = c.total + Gain(c, k.epoch, k.raw[n])
        BY DEF Merged, m
  <2>3. 0 = Gain(m, k.epoch, k.raw[n]) BY <1>1, <2>2 DEF Gain, Delta
  <2> QED BY <2>1, <2>2, <2>3
<1>4. Due(m, k, n) = Due(c, k, n) BY <1>2, <1>3 DEF Due
<1>5. c.epoch <= k.epoch /\ bo[Len(bo)][n] + Due(c, k, n) <= ca[n]
      BY DEF Counts, c
<1>6. g.counter[n] = c \/ g.counter[n] = m BY DEF Advances, c
<1> HIDE DEF m
<1>7. CASE g.counter[n] = c BY <1>5, <1>7
<1>8. CASE g.counter[n] = m BY <1>1, <1>3, <1>4, <1>5, <1>8
<1> QED BY <1>6, <1>7, <1>8

LEMMA AdvancesDue ==
    ASSUME NEW k, NEW ca, NEW bo, World(k, ca, bo),
           NEW h \in HelperState, NEW g \in HelperState, Advances(h, g, k), NEW n \in Node
    PROVE  Due(g.counter[n], k, n) = Due(h.counter[n], k, n)
<1> DEFINE c == h.counter[n]
           m == Merged(c, k.epoch, k.raw[n])
<1>1. k.epoch \in Nat /\ k.raw[n] \in Nat BY WorldTypes
<1>2. c \in Counters /\ c.total \in Nat BY CounterTypes DEF c
<1> HIDE DEF c
<1>3. /\ m.epoch = k.epoch /\ m.raw = k.raw[n]
      /\ m.total = c.total + Gain(c, k.epoch, k.raw[n])
      /\ 0 = Gain(m, k.epoch, k.raw[n])
      /\ Gain(c, k.epoch, k.raw[n]) \in Nat
  <2>1. Gain(c, k.epoch, k.raw[n]) \in Nat BY <1>1, <1>2 DEF Gain, Delta, Counters
  <2>2. /\ m.epoch = k.epoch /\ m.raw = k.raw[n]
        /\ m.total = c.total + Gain(c, k.epoch, k.raw[n])
        BY DEF Merged, m
  <2>3. 0 = Gain(m, k.epoch, k.raw[n]) BY <1>1, <2>2 DEF Gain, Delta
  <2> QED BY <2>1, <2>2, <2>3
<1>4. Due(m, k, n) = Due(c, k, n) BY <1>2, <1>3 DEF Due
<1>5. g.counter[n] = c \/ g.counter[n] = m BY DEF Advances, c
<1> HIDE DEF m
<1> QED BY <1>4, <1>5 DEF c

LEMMA AdvancesTotals ==
    ASSUME NEW k, NEW ca, NEW bo, World(k, ca, bo),
           NEW h \in HelperState, NEW g \in HelperState, Advances(h, g, k), NEW n \in Node
    PROVE  h.counter[n].total <= g.counter[n].total
<1>1. k.epoch \in Nat /\ k.raw[n] \in Nat BY WorldTypes
<1>2. h.counter[n] \in Counters /\ h.counter[n].total \in Nat BY CounterTypes
<1>3. Gain(h.counter[n], k.epoch, k.raw[n]) \in Nat BY <1>1, <1>2, MergedCounter
<1>5. Merged(h.counter[n], k.epoch, k.raw[n]).total =
        h.counter[n].total + Gain(h.counter[n], k.epoch, k.raw[n])
      BY DEF Merged
<1>4. \/ g.counter[n] = h.counter[n]
      \/ g.counter[n] = Merged(h.counter[n], k.epoch, k.raw[n])
      BY DEF Advances
<1> QED BY <1>2, <1>3, <1>4, <1>5

LEMMA AdvancesSound ==
    ASSUME NEW k, NEW ca, NEW bo, World(k, ca, bo), NEW P \in SUBSET Report,
           NEW l \in [Node -> Counters],
           NEW h \in HelperState, NEW g \in HelperState,
           Sound(h, k, ca, bo, P, l), Advances(h, g, k)
    PROVE  Sound(g, k, ca, bo, P, l)
<1>1. Counts(g, k, ca, bo) BY AdvancesCounts DEF Sound
<1>2. \A n \in Node : /\ h.counter[n].total \in Nat /\ g.counter[n].total \in Nat
                      /\ h.counter[n].total <= g.counter[n].total
      BY CounterTypes, AdvancesTotals
<1>3. g.gen = h.gen /\ h.seq <= g.seq /\ h.gen = Len(bo) BY DEF Advances, Sound
<1>4. ASSUME NEW n \in DOMAIN g.nodes
      PROVE  /\ n \in Node /\ g.nodes[n].total <= g.counter[n].total
             /\ g.nodes[n].total \in Nat
             /\ \/ h.counter[n].total <= g.nodes[n].total
                \/ n \in DOMAIN h.nodes /\ g.nodes[n].total = h.nodes[n].total
  <2>1. n \in Node /\ g.nodes[n].total \in Nat BY NodeTypes
  <2>2. CASE g.nodes[n].total = g.counter[n].total BY <1>2, <2>1, <2>2
  <2>3. CASE n \in DOMAIN h.nodes /\ g.nodes[n].total = h.nodes[n].total
    <3>1. h.nodes[n].total <= h.counter[n].total /\ h.nodes[n].total \in Nat
          BY <2>3, NodeTypes DEF Sound
    <3> QED BY <1>2, <2>1, <2>3, <3>1
  <2> QED BY <2>2, <2>3 DEF Advances
<1>5. ASSUME NEW r \in P PROVE Knows(g, r.gen, r.seq, r.nodes)
  <2>1. CASE g.gen # r.gen BY <2>1 DEF Knows
  <2>2. CASE g.gen = r.gen
    <3>1. /\ r.seq <= h.seq
          /\ \A n \in DOMAIN r.nodes :
                /\ r.nodes[n].total <= h.counter[n].total
                /\ n \in DOMAIN h.nodes => r.nodes[n].total <= h.nodes[n].total
          BY <1>3, <2>2 DEF Sound, Knows
    <3>2. r \in Report /\ r.seq \in Nat /\ r.nodes \in NodeReports BY DEF Report
    <3>3. \A n \in DOMAIN r.nodes : n \in Node /\ r.nodes[n].total \in Nat
          BY <3>2, NodeReportsAre
    <3>4. h.seq \in Nat /\ g.seq \in Nat BY DEF HelperState
    <3>5. r.seq <= g.seq BY <1>3, <3>1, <3>2, <3>4
    <3>6. ASSUME NEW n \in DOMAIN r.nodes
          PROVE  /\ r.nodes[n].total <= g.counter[n].total
                 /\ n \in DOMAIN g.nodes => r.nodes[n].total <= g.nodes[n].total
          BY <1>2, <1>4, <3>1, <3>3
    <3> QED BY <3>5, <3>6 DEF Knows
  <2> QED BY <2>1, <2>2
<1>6. ASSUME NEW n \in Node, l[n].epoch = g.gen
      PROVE  /\ l[n].raw <= g.counter[n].total
             /\ n \in DOMAIN g.nodes => l[n].raw <= g.nodes[n].total
  <2>1. /\ l[n].raw <= h.counter[n].total
        /\ n \in DOMAIN h.nodes => l[n].raw <= h.nodes[n].total
        BY <1>3, <1>6 DEF Sound
  <2>2. l[n].raw \in Nat BY DEF Counters
  <2> QED BY <1>2, <1>4, <2>1, <2>2
<1> QED BY <1>1, <1>3, <1>4, <1>5, <1>6 DEF Sound

\* Neither the inbounds nor a new Core add to what is due; what the Core carries is due once.
LEMMA CountsWithSameCounters ==
    ASSUME NEW h, NEW k, NEW m, NEW ca, NEW bo, Counts(h, k, ca, bo),
           m.epoch = k.epoch, m.raw = k.raw
    PROVE  Counts(h, m, ca, bo)
BY DEF Counts, Due

LEMMA CountsWithNewCore ==
    ASSUME NEW k, NEW ca, NEW bo, World(k, ca, bo), NEW h \in HelperState,
           Counts(h, k, ca, bo),
           NEW m, m.epoch = k.epoch + 1, \A n \in Node : m.raw[n] = 0
    PROVE  Counts(h, m, ca, bo)
<1> SUFFICES ASSUME NEW n \in Node
             PROVE  /\ h.counter[n].epoch <= m.epoch
                    /\ bo[Len(bo)][n] + Due(h.counter[n], m, n) <= ca[n]
    BY DEF Counts
<1>1. k.epoch \in Nat /\ k.raw[n] \in Nat BY WorldTypes
<1>2. /\ h.counter[n] \in Counters /\ h.counter[n].epoch \in Nat
      /\ h.counter[n].raw \in Nat /\ h.counter[n].total \in Nat
      BY CounterTypes
<1>3. /\ h.counter[n].epoch <= k.epoch
      /\ bo[Len(bo)][n] + Due(h.counter[n], k, n) <= ca[n]
      BY DEF Counts
<1>4. Gain(h.counter[n], k.epoch, k.raw[n]) \in Nat BY <1>1, <1>2, MergedCounter
<1>5. Gain(h.counter[n], m.epoch, m.raw[n]) = 0
      BY <1>1, <1>2, <1>3 DEF Gain, Delta
<1>6. bo[Len(bo)][n] \in Nat /\ ca[n] \in Nat
      BY WorldTypes DEF World
<1>7. /\ Due(h.counter[n], m, n) = h.counter[n].total
      /\ Due(h.counter[n], k, n) = h.counter[n].total + Gain(h.counter[n], k.epoch, k.raw[n])
      BY <1>2, <1>5 DEF Due
<1>8. bo[Len(bo)][n] + Due(h.counter[n], m, n) <= ca[n] BY <1>2, <1>3, <1>4, <1>6, <1>7
<1>9. h.counter[n].epoch <= m.epoch BY <1>1, <1>2, <1>3
<1> QED BY <1>8, <1>9

\* Counters that go with their inbounds gain nothing, or what a new Core gains.
LEMMA CountsWithFewerCounters ==
    ASSUME NEW k, NEW ca, NEW bo, World(k, ca, bo), NEW h \in HelperState,
           Counts(h, k, ca, bo),
           NEW m, m.epoch = k.epoch, \A n \in Node : m.raw[n] = k.raw[n] \/ m.raw[n] = 0
    PROVE  Counts(h, m, ca, bo)
<1> SUFFICES ASSUME NEW n \in Node
             PROVE  bo[Len(bo)][n] + Due(h.counter[n], m, n) <= ca[n]
    BY DEF Counts
<1>1. k.epoch \in Nat /\ k.raw[n] \in Nat BY WorldTypes
<1>2. h.counter[n] \in Counters /\ h.counter[n].raw \in Nat /\ h.counter[n].total \in Nat
      BY CounterTypes
<1>3. bo[Len(bo)][n] + Due(h.counter[n], k, n) <= ca[n] BY DEF Counts
<1>4. Gain(h.counter[n], k.epoch, k.raw[n]) \in Nat BY <1>1, <1>2, MergedCounter
<1>5. /\ Gain(h.counter[n], m.epoch, m.raw[n]) \in Nat
      /\ Gain(h.counter[n], m.epoch, m.raw[n]) <= Gain(h.counter[n], k.epoch, k.raw[n])
  <2>1. CASE m.raw[n] = k.raw[n] BY <1>4, <2>1
  <2>2. CASE m.raw[n] = 0
    <3>1. Gain(h.counter[n], m.epoch, m.raw[n]) = 0 BY <1>2, <2>2 DEF Gain, Delta
    <3> QED BY <1>4, <3>1
  <2> QED BY <2>1, <2>2
<1>6. bo[Len(bo)][n] \in Nat /\ ca[n] \in Nat BY WorldTypes DEF World
<1> QED BY <1>2, <1>3, <1>4, <1>5, <1>6 DEF Due

LEMMA CountsWithTraffic ==
    ASSUME NEW k, NEW ca, NEW bo, World(k, ca, bo), NEW h \in HelperState,
           Counts(h, k, ca, bo), NEW x \in Node,
           NEW m, m = [k EXCEPT !.raw[x] = @ + 1],
           NEW da, da = [ca EXCEPT ![x] = @ + 1]
    PROVE  Counts(h, m, da, bo)
<1> SUFFICES ASSUME NEW n \in Node
             PROVE  /\ h.counter[n].epoch <= m.epoch
                    /\ bo[Len(bo)][n] + Due(h.counter[n], m, n) <= da[n]
    BY DEF Counts
<1> DEFINE c == h.counter[n]
<1>1. k.epoch \in Nat /\ k.raw[n] \in Nat BY WorldTypes
<1>2. c.epoch \in Nat /\ c.raw \in Nat /\ c.total \in Nat
      BY CounterTypes
<1>3. /\ c.epoch <= k.epoch
      /\ bo[Len(bo)][n] + (c.total + Gain(c, k.epoch, k.raw[n])) <= ca[n]
      BY DEF Counts, Due
<1>4. bo[Len(bo)][n] \in Nat /\ ca[n] \in Nat
      BY WorldTypes DEF World
<1>5. /\ m.epoch = k.epoch
      /\ m.raw[n] = IF n = x THEN k.raw[n] + 1 ELSE k.raw[n]
      /\ da[n] = IF n = x THEN ca[n] + 1 ELSE ca[n]
      BY DEF World, Cores
<1> HIDE DEF c
<1>6. Gain(c, m.epoch, m.raw[n]) <= Gain(c, k.epoch, k.raw[n]) + (IF n = x THEN 1 ELSE 0)
      BY <1>1, <1>2, <1>3, <1>5 DEF Gain, Delta
<1>7. Gain(c, k.epoch, k.raw[n]) \in Nat /\ Gain(c, m.epoch, m.raw[n]) \in Nat
      BY <1>1, <1>2, <1>5 DEF Gain, Delta
<1>8. bo[Len(bo)][n] + (c.total + Gain(c, m.epoch, m.raw[n])) <= da[n]
      BY <1>2, <1>3, <1>4, <1>5, <1>6, <1>7
<1> QED BY <1>1, <1>2, <1>3, <1>5, <1>8 DEF Due, c

LEMMA DueWithTraffic ==
    ASSUME NEW k, NEW ca, NEW bo, World(k, ca, bo), NEW h \in HelperState,
           NEW x \in Node, NEW m, m = [k EXCEPT !.raw[x] = @ + 1],
           NEW n \in Node, h.counter[n].epoch = k.epoch => h.counter[n].raw <= k.raw[n]
    PROVE  Due(h.counter[n], m, n) = Due(h.counter[n], k, n) + (IF n = x THEN 1 ELSE 0)
<1> DEFINE c == h.counter[n]
<1>1. k.epoch \in Nat /\ k.raw[n] \in Nat BY WorldTypes
<1>2. c.epoch \in Nat /\ c.raw \in Nat /\ c.total \in Nat
      BY CounterTypes
<1>3. c.epoch = k.epoch => c.raw <= k.raw[n] OBVIOUS
<1>4. /\ m.epoch = k.epoch
      /\ m.raw[n] = IF n = x THEN k.raw[n] + 1 ELSE k.raw[n]
      BY DEF World, Cores
<1> HIDE DEF c
<1>5. Gain(c, m.epoch, m.raw[n]) = Gain(c, k.epoch, k.raw[n]) + (IF n = x THEN 1 ELSE 0)
      BY <1>1, <1>2, <1>3, <1>4 DEF Gain, Delta
<1>6. Gain(c, k.epoch, k.raw[n]) \in Nat
      BY <1>1, <1>2 DEF Gain, Delta
<1> QED BY <1>2, <1>5, <1>6 DEF Due, c

\* A counter that covers another has counted, and will count, no less.
LEMMA CoversMeans ==
    ASSUME NEW c \in Counters, NEW e \in Counters, NEW epoch \in Nat, NEW raw \in Nat,
           Covers(c, e, epoch, raw)
    PROVE  /\ c.total <= e.total
           /\ c.total + Gain(c, epoch, raw) <= e.total + Gain(e, epoch, raw)
<1>1. /\ c.epoch \in Nat /\ c.raw \in Nat /\ c.total \in Nat
      /\ e.epoch \in Nat /\ e.raw \in Nat /\ e.total \in Nat
      BY DEF Counters
<1>2. CASE c = e BY <1>1, <1>2 DEF Gain, Delta
<1>3. CASE c.total <= e.total /\ c.epoch < epoch /\ e.epoch < epoch
      BY <1>1, <1>3 DEF Gain, Delta
<1>4. CASE e.epoch = epoch /\ e.raw <= raw /\ c.total + Gain(c, epoch, e.raw) <= e.total
      BY <1>1, <1>4 DEF Gain, Delta
<1> QED BY <1>2, <1>3, <1>4 DEF Covers

LEMMA CoversSampled ==
    ASSUME NEW c \in Counters, NEW e \in Counters, NEW epoch \in Nat, NEW raw \in Nat,
           Covers(c, e, epoch, raw)
    PROVE  Covers(c, Merged(e, epoch, raw), epoch, raw)
<1>1. c.total + Gain(c, epoch, raw) <= e.total + Gain(e, epoch, raw) BY CoversMeans
<1>2. /\ Merged(e, epoch, raw).epoch = epoch /\ Merged(e, epoch, raw).raw = raw
      /\ Merged(e, epoch, raw).total = e.total + Gain(e, epoch, raw)
      BY DEF Merged
<1> QED BY <1>1, <1>2 DEF Covers

LEMMA CoversMore ==
    ASSUME NEW c \in Counters, NEW e \in Counters, NEW epoch \in Nat, NEW raw \in Nat,
           NEW more \in Nat, raw <= more, Covers(c, e, epoch, raw)
    PROVE  Covers(c, e, epoch, more)
BY DEF Covers, Counters

LEMMA CoversOnNewCore ==
    ASSUME NEW c \in Counters, NEW e \in Counters, NEW epoch \in Nat, NEW raw \in Nat,
           Covers(c, e, epoch, raw), c.epoch <= epoch, e.epoch <= epoch
    PROVE  Covers(c, e, epoch + 1, 0)
<1>1. c.total <= e.total BY CoversMeans
<1>2. c.epoch \in Nat /\ e.epoch \in Nat BY DEF Counters
<1> QED BY <1>1, <1>2 DEF Covers

\* Soundness when the Core has moved and reports are gone.
LEMMA SoundElsewhere ==
    ASSUME NEW h, NEW k, NEW m, NEW ca, NEW da, NEW bo, NEW P, NEW Q \in SUBSET P, NEW l,
           Sound(h, k, ca, bo, P, l), Counts(h, m, da, bo)
    PROVE  Sound(h, m, da, bo, Q, l)
BY DEF Sound

\* A state knows its own report.
LEMMA SoundWithReport ==
    ASSUME NEW k, NEW ca, NEW bo, NEW P, NEW l, NEW h, NEW g \in HelperState,
           Sound(g, k, ca, bo, P, l), h = g, NEW Q \in SUBSET (P \cup {ReportOf(g)})
    PROVE  Sound(h, k, ca, bo, Q, l)
<1>1. Knows(g, g.gen, g.seq, g.nodes)
  <2>1. g.seq <= g.seq BY DEF HelperState
  <2>2. \A n \in DOMAIN g.nodes : /\ g.nodes[n].total <= g.counter[n].total
                                  /\ g.nodes[n].total <= g.nodes[n].total
        BY NodeTypes DEF Sound
  <2> QED BY <2>1, <2>2 DEF Knows
<1>2. /\ ReportOf(g).gen = g.gen /\ ReportOf(g).seq = g.seq /\ ReportOf(g).nodes = g.nodes
      BY ReportOfType
<1>3. ASSUME NEW r \in Q PROVE Knows(h, r.gen, r.seq, r.nodes)
  <2>1. CASE r \in P BY <2>1 DEF Sound
  <2>2. CASE r = ReportOf(g) BY <1>1, <1>2, <2>2
  <2> QED BY <2>1, <2>2
<1> QED BY <1>3 DEF Sound

\* The reports stay sound with a report of a sound state.
LEMMA NewReportIsSound ==
    ASSUME NEW k, NEW ca, NEW bo, World(k, ca, bo), NEW P \in SUBSET Report,
           NEW l \in [Node -> Counters], NEW g \in HelperState,
           Sound(g, k, ca, bo, P, l), ReportsAreSound(P, ca, bo),
           NEW Q \in SUBSET (P \cup {ReportOf(g)})
    PROVE  ReportsAreSound(Q, ca, bo)
<1> DEFINE new == ReportOf(g)
<1>1. new.gen = g.gen /\ new.seq = g.seq /\ new.nodes = g.nodes /\ new \in Report
      BY ReportOfType
<1>2. g.gen = Len(bo) /\ Len(bo) \in 1..Len(bo)
      BY WorldTypes DEF Sound, World
<1> HIDE DEF new
<1>3. ASSUME NEW n \in DOMAIN new.nodes
      PROVE  bo[new.gen][n] + new.nodes[n].total <= Until(new.gen, n, ca, bo)
  <2>1. n \in Node /\ g.nodes[n].total \in Nat BY <1>1, NodeTypes
  <2>2. g.nodes[n].total <= g.counter[n].total BY <1>1 DEF Sound
  <2>3. bo[Len(bo)][n] + Due(g.counter[n], k, n) <= ca[n] BY <2>1 DEF Sound, Counts
  <2>4. k.epoch \in Nat /\ k.raw[n] \in Nat BY <2>1, WorldTypes
  <2>5. g.counter[n] \in Counters /\ g.counter[n].total \in Nat BY <2>1, CounterTypes
  <2>6. Gain(g.counter[n], k.epoch, k.raw[n]) \in Nat BY <2>4, <2>5, MergedCounter
  <2>7. bo[Len(bo)][n] \in Nat /\ ca[n] \in Nat BY <1>2, <2>1, WorldTypes
  <2>8. Until(new.gen, n, ca, bo) = ca[n] BY <1>1, <1>2, WorldTypes DEF Until
  <2>9. Due(g.counter[n], k, n) = g.counter[n].total + Gain(g.counter[n], k.epoch, k.raw[n])
        BY DEF Due
  <2>10. bo[Len(bo)][n] + g.nodes[n].total <= ca[n]
         BY <2>1, <2>2, <2>3, <2>5, <2>6, <2>7, <2>9
  <2> QED BY <1>1, <1>2, <2>8, <2>10
<1>4. ASSUME NEW r \in Q
      PROVE  /\ r.gen \in 1..Len(bo)
             /\ \A n \in DOMAIN r.nodes :
                   bo[r.gen][n] + r.nodes[n].total <= Until(r.gen, n, ca, bo)
  <2>1. CASE r \in P BY <2>1 DEF ReportsAreSound
  <2>2. CASE r = new BY <1>1, <1>2, <1>3, <2>2
  <2> QED BY <2>1, <2>2 DEF new
<1>5. ASSUME NEW r \in Q, NEW q \in Q, r.gen = q.gen, r.seq < q.seq,
             NEW n \in DOMAIN r.nodes \cap DOMAIN q.nodes
      PROVE  r.nodes[n].total <= q.nodes[n].total
  <2>1. r \in P \cup {new} /\ q \in P \cup {new} BY DEF new
  <2>2. r.seq \in Nat /\ q.seq \in Nat BY <1>1, <2>1 DEF Report
  <2>3. \A p \in P : p.gen = g.gen =>
           /\ p.seq <= g.seq
           /\ \A x \in DOMAIN p.nodes :
                 x \in DOMAIN g.nodes => p.nodes[x].total <= g.nodes[x].total
        BY DEF Sound, Knows
  <2>4. CASE r \in P /\ q \in P BY <1>5, <2>4 DEF ReportsAreSound
  <2>5. CASE r = new
    <3>1. q \in P /\ q.gen = g.gen BY <1>1, <1>5, <2>1, <2>2, <2>5
    <3>2. q.seq <= g.seq BY <2>3, <3>1
    <3> QED BY <1>1, <1>5, <2>2, <2>5, <3>2
  <2>6. CASE r \in P /\ q = new
    <3>1. r.gen = g.gen /\ n \in DOMAIN g.nodes BY <1>1, <1>5, <2>6
    <3>2. r.nodes[n].total <= g.nodes[n].total BY <2>3, <2>6, <3>1
    <3> QED BY <1>1, <2>6, <3>2
  <2> QED BY <2>1, <2>4, <2>5, <2>6
<1> QED BY <1>4, <1>5 DEF ReportsAreSound

\* And so does what the ledger expects of the reports to come.
LEMMA LedgerWithReport ==
    ASSUME NEW k, NEW ca, NEW bo, World(k, ca, bo), NEW P \in SUBSET Report,
           NEW s \in Share, NEW g \in HelperState,
           Sound(g, k, ca, bo, P, s.ledger), LedgerIsSound(s, P, ca, bo),
           NEW Q \in SUBSET (P \cup {ReportOf(g)})
    PROVE  LedgerIsSound(s, Q, ca, bo)
<1>1. ReportOf(g).gen = g.gen /\ ReportOf(g).nodes = g.nodes
      BY ReportOfType
<1>2. ASSUME NEW n \in Node, NEW r \in Q,
             r.gen = s.gen, s.ledger[n].epoch = r.gen, r.seq > s.seq, n \in DOMAIN r.nodes
      PROVE  s.ledger[n].raw <= r.nodes[n].total
  <2>1. CASE r \in P BY <1>2, <2>1 DEF LedgerIsSound
  <2>2. CASE r = ReportOf(g)
        BY <1>1, <1>2, <2>2 DEF Sound
  <2> QED BY <2>1, <2>2
<1> QED BY <1>2 DEF LedgerIsSound

-----------------------------------------------------------------------------
(* The ledger *)

LEMMA IntervalSize ==
    ASSUME NEW a \in Int, NEW b \in Int, a <= b + 1
    PROVE  IsFiniteSet(a..b) /\ Cardinality(a..b) = b - a + 1
<1>1. IsFiniteSet(a..b) /\ Cardinality(a..b) = IF a > b THEN 0 ELSE b - a + 1 BY FS_Interval
<1> QED BY <1>1

\* A generation ends before the next begins, and all lie within what was carried.
LEMMA GenerationsApart ==
    ASSUME NEW k, NEW ca, NEW bo, World(k, ca, bo), GenerationsInOrder(ca, bo), NEW n \in Node,
           NEW g \in 1..Len(bo)
    PROVE  /\ bo[g][n] \in Nat /\ Until(g, n, ca, bo) \in Nat
           /\ bo[g][n] <= Until(g, n, ca, bo) /\ Until(g, n, ca, bo) <= ca[n]
           /\ \A h \in 1..Len(bo) : g < h => Until(g, n, ca, bo) <= bo[h][n]
<1>1. Len(bo) \in Nat /\ ca[n] \in Nat /\ \A h \in 1..Len(bo) : bo[h][n] \in Nat
      BY WorldTypes
<1>2. \A h \in 1..Len(bo) : bo[h][n] <= ca[n] BY DEF GenerationsInOrder
<1>3. \A h, j \in 1..Len(bo) : h <= j => bo[h][n] <= bo[j][n] BY DEF GenerationsInOrder
<1>4. CASE g < Len(bo)
  <2>1. g + 1 \in 1..Len(bo) /\ Until(g, n, ca, bo) = bo[g + 1][n] BY <1>1, <1>4 DEF Until
  <2>2. \A h \in 1..Len(bo) : g < h => g + 1 <= h BY <1>1
  <2>3. g <= g + 1 BY <1>1
  <2> QED BY <1>1, <1>2, <1>3, <2>1, <2>2, <2>3
<1>5. CASE ~(g < Len(bo))
  <2>1. Until(g, n, ca, bo) = ca[n] BY <1>5 DEF Until
  <2>2. \A h \in 1..Len(bo) : ~(g < h) BY <1>1, <1>5
  <2> QED BY <1>1, <1>2, <2>1, <2>2
<1> QED BY <1>4, <1>5

LEMMA ShareTypes ==
    ASSUME NEW s \in Share, NEW n \in Node
    PROVE  /\ s.gen \in Nat /\ s.seq \in Nat /\ s.retired \in SUBSET Nat
           /\ s.ledger \in [Node -> Counters] /\ s.ledger[n] \in Counters
           /\ s.ledger[n].epoch \in Nat /\ s.ledger[n].raw \in Nat /\ s.ledger[n].total \in Nat
BY DEF Share, Counters

LEMMA ReportTypes ==
    ASSUME NEW r \in Report
    PROVE  /\ r.gen \in Nat /\ r.gen # 0 /\ r.seq \in Nat /\ r # NoReport
           /\ DOMAIN r.nodes \subseteq Node
           /\ \A n \in DOMAIN r.nodes : r.nodes[n].total \in Nat
<1>1. r.nodes \in NodeReports BY DEF Report
<1> QED BY <1>1, NodeReportsAre DEF Report, NoReport

\* The ledger t that a fresh report r leaves of s: its generation is the current one, the one
\* before is retired, and its nodes are merged.
Merges(s, r, t) ==
    /\ t.gen = r.gen /\ t.seq = r.seq
    /\ t.retired = s.retired \cup ({s.gen} \ {0, r.gen})
    /\ \A n \in Node :
          t.ledger[n] = IF n \in DOMAIN r.nodes
                        THEN Merged(s.ledger[n], r.gen, r.nodes[n].total) ELSE s.ledger[n]

LEMMA MergesNode ==
    ASSUME NEW s, NEW r \in Report, NEW t, Merges(s, r, t), NEW n \in DOMAIN r.nodes
    PROVE  /\ t.ledger[n].epoch = r.gen /\ t.ledger[n].raw = r.nodes[n].total
           /\ t.ledger[n].total = s.ledger[n].total + Gain(s.ledger[n], r.gen, r.nodes[n].total)
<1>1. n \in Node BY ReportTypes
<1>2. t.ledger[n] = Merged(s.ledger[n], r.gen, r.nodes[n].total) BY <1>1 DEF Merges
<1> QED BY <1>2 DEF Merged

\* A ledger continues the report that was merged.
LEMMA MergesCursor ==
    ASSUME NEW s, NEW r \in Report, NEW t, Merges(s, r, t)
    PROVE  \A n \in DOMAIN r.nodes :
              t.ledger[n].epoch = r.gen /\ t.ledger[n].raw = r.nodes[n].total
BY MergesNode

\* The bytes of a fresh report that were not in the ledger are new ones.
LEMMA MergedBytes ==
    ASSUME NEW k, NEW ca, NEW bo, World(k, ca, bo), GenerationsInOrder(ca, bo),
           NEW P \in SUBSET Report, ReportsAreSound(P, ca, bo),
           NEW s \in Share, LedgerIsSound(s, P, ca, bo),
           NEW r \in P, Fresh(s, r), NEW t \in Share, Merges(s, r, t),
           NEW n \in DOMAIN r.nodes
    PROVE  \E B \in SUBSET (1..ca[n]) : Bytes(B, n, t, ca, bo)
<1> DEFINE c == s.ledger[n]
           now == r.nodes[n].total
           from == bo[r.gen][n]
           known == IF c.epoch = r.gen THEN c.raw ELSE 0
           X == (from + known + 1)..(from + now)
<1>1. /\ n \in Node /\ now \in Nat /\ r.gen \in Nat /\ r.gen # 0 /\ r.seq \in Nat
      BY ReportTypes
<1>2. /\ c \in Counters /\ c.epoch \in Nat /\ c.raw \in Nat /\ c.total \in Nat
      /\ s.gen \in Nat /\ s.seq \in Nat /\ s.retired \in SUBSET Nat
      BY <1>1, ShareTypes
<1>3. r.gen \in 1..Len(bo) /\ from + now <= Until(r.gen, n, ca, bo)
      BY DEF ReportsAreSound
<1>4. /\ from \in Nat /\ Until(r.gen, n, ca, bo) \in Nat /\ ca[n] \in Nat
      /\ Until(r.gen, n, ca, bo) <= ca[n]
      BY <1>1, <1>3, GenerationsApart, WorldTypes
<1>5. PICK B \in SUBSET (1..ca[n]) : Bytes(B, n, s, ca, bo) BY <1>1 DEF LedgerIsSound
<1>6. r.gen \notin s.retired /\ (r.gen = s.gen => r.seq > s.seq) BY DEF Fresh
<1>7. c.epoch \in s.retired \cup {0, s.gen} BY <1>1 DEF LedgerIsSound
<1>8. c.epoch = r.gen => s.gen = r.gen /\ c.raw <= now
  <2> SUFFICES ASSUME c.epoch = r.gen PROVE s.gen = r.gen /\ c.raw <= now OBVIOUS
  <2>1. s.gen = r.gen BY <1>1, <1>6, <1>7
  <2>2. r.seq > s.seq BY <1>6, <2>1
  <2> QED BY <1>1, <2>1, <2>2 DEF LedgerIsSound
<1>9. known \in Nat /\ known <= now BY <1>1, <1>2, <1>8
<1>10. Gain(c, r.gen, now) = now - known
  <2>1. CASE c.epoch = r.gen BY <1>1, <1>2, <1>8, <2>1 DEF Gain, Delta
  <2>2. CASE c.epoch # r.gen BY <1>1, <1>2, <2>2 DEF Gain, Delta
  <2> QED BY <2>1, <2>2
<1>11. t.ledger[n].epoch = r.gen /\ t.ledger[n].raw = now
       /\ t.ledger[n].total = c.total + (now - known)
       BY <1>10, MergesNode
<1>12. /\ Cardinality(B) = c.total
       /\ \A g \in 1..Len(bo) \ s.retired : \A b \in B :
             bo[g][n] < b /\ b <= Until(g, n, ca, bo) => c.epoch = g /\ b <= bo[g][n] + c.raw
       BY <1>5 DEF Bytes
<1> HIDE DEF c, now, from, known
<1>13. \A b \in X : b \in Int /\ from < b /\ b <= from + now /\ from + known < b
       BY <1>1, <1>4, <1>9
<1>14. X \in SUBSET (1..ca[n])
       BY <1>1, <1>3, <1>4, <1>13
<1>15. IsFiniteSet(X) /\ Cardinality(X) = now - known
  <2>1. from + known + 1 \in Int /\ from + now \in Int
        /\ from + known + 1 <= (from + now) + 1
        BY <1>1, <1>4, <1>9
  <2>2. IsFiniteSet(X) /\ Cardinality(X) = (from + now) - (from + known + 1) + 1
        BY <2>1, IntervalSize
  <2> QED BY <1>1, <1>4, <1>9, <2>2
<1>16. \A b \in B : b \in Int BY <1>4
<1>17. B \cap X = {}
  <2> SUFFICES ASSUME NEW b \in B, b \in X PROVE FALSE OBVIOUS
  <2>1. from < b /\ b <= from + now /\ from + known < b BY <1>13
  <2>2. b <= Until(r.gen, n, ca, bo) BY <1>1, <1>3, <1>4, <1>16, <2>1
  <2>3. c.epoch = r.gen /\ b <= from + c.raw BY <1>3, <1>6, <1>12, <2>1, <2>2 DEF from
  <2>4. known = c.raw BY <2>3 DEF known
  <2> QED BY <1>2, <1>4, <1>9, <1>16, <2>1, <2>3, <2>4
<1> DEFINE C == B \cup X
<1>18. C \in SUBSET (1..ca[n]) BY <1>14
<1>19. Cardinality(C) = t.ledger[n].total
  <2>1. IsFiniteSet(1..ca[n]) BY <1>4, FS_Interval
  <2>2. IsFiniteSet(B) BY <2>1, FS_Subset
  <2>3. Cardinality(B \cap X) = 0 BY <1>17, FS_EmptySet
  <2>4. Cardinality(C) = Cardinality(B) + Cardinality(X) - Cardinality(B \cap X)
        BY <1>15, <2>2, FS_Union
  <2> QED BY <1>1, <1>2, <1>9, <1>11, <1>12, <1>15, <2>3, <2>4
<1>20. ASSUME NEW g \in 1..Len(bo) \ t.retired, NEW b \in C,
              bo[g][n] < b, b <= Until(g, n, ca, bo)
       PROVE  t.ledger[n].epoch = g /\ b <= bo[g][n] + t.ledger[n].raw
  <2>1. g \notin s.retired /\ (s.gen = g => s.gen = r.gen)
    <3>1. t.retired = s.retired \cup ({s.gen} \ {0, r.gen}) BY DEF Merges
    <3>2. g # 0 BY WorldTypes
    <3> QED BY <3>1, <3>2
  <2>2. bo[g][n] \in Nat /\ Until(g, n, ca, bo) \in Nat BY <1>1, GenerationsApart
  <2>3. b \in Int BY <1>13, <1>16
  <2>4. CASE b \in B
    <3>1. c.epoch = g /\ b <= bo[g][n] + c.raw BY <1>12, <1>20, <2>1, <2>4
    <3>2. g # 0 BY WorldTypes
    <3>3. s.gen = g BY <1>7, <2>1, <3>1, <3>2
    <3>4. g = r.gen BY <2>1, <3>3
    <3>5. c.raw <= now BY <1>8, <3>1, <3>4
    <3> QED BY <1>1, <1>2, <1>11, <2>2, <2>3, <3>1, <3>4, <3>5
  <2>5. CASE b \in X
    <3>1. from < b /\ b <= from + now BY <1>13, <2>5
    <3>2. b <= Until(r.gen, n, ca, bo) BY <1>1, <1>3, <1>4, <2>3, <3>1
    <3>3. CASE g < r.gen
      <4>1. Until(g, n, ca, bo) <= from BY <1>1, <1>3, <3>3, GenerationsApart DEF from
      <4> QED BY <1>4, <1>20, <2>2, <2>3, <3>1, <4>1
    <3>4. CASE r.gen < g
      <4>1. Until(r.gen, n, ca, bo) <= bo[g][n] BY <1>1, <1>3, <3>4, GenerationsApart
      <4> QED BY <1>4, <1>20, <2>2, <2>3, <3>2, <4>1
    <3>5. CASE g = r.gen BY <1>11, <3>1, <3>5 DEF from
    <3>6. g \in Int /\ r.gen \in Int BY <1>1
    <3> QED BY <3>3, <3>4, <3>5, <3>6
  <2> QED BY <2>4, <2>5
<1>21. Bytes(C, n, t, ca, bo) BY <1>18, <1>19, <1>20 DEF Bytes
<1> QED BY <1>18, <1>21

\* mergeFLVXReport: the ledger stays sound.
LEMMA MergedLedger ==
    ASSUME NEW k, NEW ca, NEW bo, World(k, ca, bo), GenerationsInOrder(ca, bo),
           NEW P \in SUBSET Report, ReportsAreSound(P, ca, bo),
           NEW s \in Share, LedgerIsSound(s, P, ca, bo),
           NEW r \in P, Fresh(s, r), NEW t \in Share, Merges(s, r, t)
    PROVE  LedgerIsSound(t, P, ca, bo)
<1>1. /\ s.gen \in 0..Len(bo) /\ s.gen \notin s.retired /\ s.retired \subseteq 1..Len(bo)
      BY DEF LedgerIsSound
<1>2. /\ t.gen = r.gen /\ t.seq = r.seq
      /\ t.retired = s.retired \cup ({s.gen} \ {0, r.gen})
      BY DEF Merges
<1>3. r.gen \in 1..Len(bo) /\ r.gen \notin s.retired /\ (r.gen = s.gen => r.seq > s.seq)
      BY DEF Fresh, ReportsAreSound
<1>4. Len(bo) \in Nat BY WorldTypes
<1>5. t.gen \in 0..Len(bo) /\ t.gen \notin t.retired /\ t.retired \subseteq 1..Len(bo)
      BY <1>1, <1>2, <1>3, <1>4
<1>6. ASSUME NEW n \in Node
      PROVE  t.ledger[n].epoch \in t.retired \cup {0, t.gen}
  <2>1. CASE n \in DOMAIN r.nodes
    <3>1. t.ledger[n].epoch = r.gen BY <2>1, MergesCursor
    <3> QED BY <1>2, <3>1
  <2>2. CASE n \notin DOMAIN r.nodes
    <3>1. t.ledger[n] = s.ledger[n] BY <2>2 DEF Merges
    <3>2. s.ledger[n].epoch \in s.retired \cup {0, s.gen} BY DEF LedgerIsSound
    <3> QED BY <1>2, <3>1, <3>2
  <2> QED BY <2>1, <2>2
<1>7. ASSUME NEW n \in Node, NEW q \in P,
             q.gen = t.gen, t.ledger[n].epoch = q.gen, q.seq > t.seq, n \in DOMAIN q.nodes
      PROVE  t.ledger[n].raw <= q.nodes[n].total
  <2>0. r.seq \in Nat /\ q.seq \in Nat /\ s.seq \in Nat BY ReportTypes, ShareTypes
  <2>1. CASE n \in DOMAIN r.nodes
    <3>1. t.ledger[n].raw = r.nodes[n].total BY <2>1, MergesCursor
    <3>2. r.nodes[n].total <= q.nodes[n].total
          BY <1>2, <1>7, <2>0, <2>1 DEF ReportsAreSound
    <3> QED BY <3>1, <3>2
  <2>2. CASE n \notin DOMAIN r.nodes
    <3>1. t.ledger[n] = s.ledger[n] BY <2>2 DEF Merges
    <3>2. s.ledger[n].epoch \in s.retired \cup {0, s.gen} BY DEF LedgerIsSound
    <3>3. s.gen = r.gen BY <1>2, <1>3, <1>4, <1>7, <3>1, <3>2
    <3>4. q.seq > s.seq BY <1>2, <1>3, <1>7, <2>0, <3>3
    <3> QED BY <1>2, <1>7, <3>1, <3>3, <3>4 DEF LedgerIsSound
  <2> QED BY <2>1, <2>2
<1>8. ASSUME NEW n \in Node
      PROVE  \E B \in SUBSET (1..ca[n]) : Bytes(B, n, t, ca, bo)
  <2>1. CASE n \in DOMAIN r.nodes BY <2>1, MergedBytes
  <2>2. CASE n \notin DOMAIN r.nodes
    <3>1. t.ledger[n] = s.ledger[n] BY <2>2 DEF Merges
    <3>2. PICK B \in SUBSET (1..ca[n]) : Bytes(B, n, s, ca, bo) BY DEF LedgerIsSound
    <3>3. 1..Len(bo) \ t.retired \subseteq 1..Len(bo) \ s.retired BY <1>2
    <3>4. Bytes(B, n, t, ca, bo) BY <3>1, <3>2, <3>3 DEF Bytes
    <3> QED BY <3>4
  <2> QED BY <2>1, <2>2
<1> QED BY <1>5, <1>6, <1>7, <1>8 DEF LedgerIsSound

\* The Helper's states know what was merged.
LEMMA MergedSound ==
    ASSUME NEW k, NEW ca, NEW bo, NEW P \in SUBSET Report, NEW h \in HelperState,
           NEW s \in Share, Sound(h, k, ca, bo, P, s.ledger),
           NEW r \in P, NEW t \in Share, Merges(s, r, t)
    PROVE  Sound(h, k, ca, bo, P, t.ledger)
<1>1. ASSUME NEW n \in Node, t.ledger[n].epoch = h.gen
      PROVE  /\ t.ledger[n].raw <= h.counter[n].total
             /\ n \in DOMAIN h.nodes => t.ledger[n].raw <= h.nodes[n].total
  <2>1. CASE n \in DOMAIN r.nodes
    <3>1. t.ledger[n].epoch = r.gen /\ t.ledger[n].raw = r.nodes[n].total
          BY <2>1, MergesCursor
    <3>2. Knows(h, r.gen, r.seq, r.nodes) BY DEF Sound
    <3> QED BY <1>1, <2>1, <3>1, <3>2 DEF Knows
  <2>2. CASE n \notin DOMAIN r.nodes
    <3>1. t.ledger[n] = s.ledger[n] BY <2>2 DEF Merges
    <3> QED BY <1>1, <3>1 DEF Sound
  <2> QED BY <2>1, <2>2
<1> QED BY <1>1 DEF Sound

-----------------------------------------------------------------------------
(* Traffic and new generations *)

LEMMA FewerReports ==
    ASSUME NEW ca, NEW bo, NEW P, NEW Q \in SUBSET P, NEW s,
           ReportsAreSound(P, ca, bo), LedgerIsSound(s, P, ca, bo)
    PROVE  ReportsAreSound(Q, ca, bo) /\ LedgerIsSound(s, Q, ca, bo)
BY DEF ReportsAreSound, LedgerIsSound

\* One byte more of node x: the last generation ends one byte later.
LEMMA MoreCarried ==
    ASSUME NEW k, NEW ca, NEW bo, World(k, ca, bo), GenerationsInOrder(ca, bo),
           NEW P \in SUBSET Report, ReportsAreSound(P, ca, bo),
           NEW s \in Share, LedgerIsSound(s, P, ca, bo),
           NEW x \in Node, NEW da, da = [ca EXCEPT ![x] = @ + 1]
    PROVE  /\ da \in [Node -> Nat]
           /\ GenerationsInOrder(da, bo) /\ ReportsAreSound(P, da, bo)
           /\ LedgerIsSound(s, P, da, bo)
<1>1. /\ ca \in [Node -> Nat] /\ \A n \in Node : ca[n] \in Nat
      /\ Len(bo) \in Nat /\ \A g \in 1..Len(bo), n \in Node : bo[g][n] \in Nat
      BY WorldTypes DEF World
<1>2. da \in [Node -> Nat] /\ \A n \in Node : da[n] \in Nat /\ ca[n] <= da[n] BY <1>1
<1>3. GenerationsInOrder(da, bo) BY <1>1, <1>2 DEF GenerationsInOrder
<1>4. ASSUME NEW g \in 1..Len(bo), NEW n \in Node
      PROVE  /\ Until(g, n, ca, bo) \in Nat /\ Until(g, n, da, bo) \in Nat
             /\ Until(g, n, ca, bo) <= Until(g, n, da, bo)
             /\ \A b \in 1..ca[n] : b <= Until(g, n, da, bo) => b <= Until(g, n, ca, bo)
  <2>1. Until(g, n, ca, bo) \in Nat BY GenerationsApart
  <2>2. CASE g < Len(bo) BY <2>1, <2>2 DEF Until
  <2>3. CASE ~(g < Len(bo)) BY <1>1, <1>2, <2>3 DEF Until
  <2> QED BY <2>2, <2>3
<1>5. ReportsAreSound(P, da, bo)
  <2>1. ASSUME NEW r \in P
        PROVE  /\ r.gen \in 1..Len(bo)
               /\ \A n \in DOMAIN r.nodes :
                     bo[r.gen][n] + r.nodes[n].total <= Until(r.gen, n, da, bo)
    <3>1. /\ r.gen \in 1..Len(bo)
          /\ \A n \in DOMAIN r.nodes :
                bo[r.gen][n] + r.nodes[n].total <= Until(r.gen, n, ca, bo)
          BY DEF ReportsAreSound
    <3>2. \A n \in DOMAIN r.nodes : n \in Node /\ r.nodes[n].total \in Nat BY ReportTypes
    <3>3. ASSUME NEW n \in DOMAIN r.nodes
          PROVE  bo[r.gen][n] + r.nodes[n].total <= Until(r.gen, n, da, bo)
      <4>1. /\ Until(r.gen, n, ca, bo) \in Nat /\ Until(r.gen, n, da, bo) \in Nat
            /\ Until(r.gen, n, ca, bo) <= Until(r.gen, n, da, bo)
            BY <1>4, <3>1, <3>2
      <4>2. bo[r.gen][n] \in Nat /\ r.nodes[n].total \in Nat BY <1>1, <3>1, <3>2
      <4> QED BY <3>1, <4>1, <4>2
    <3> QED BY <3>1, <3>3
  <2> QED BY <2>1 DEF ReportsAreSound
<1>6. ASSUME NEW n \in Node PROVE \E B \in SUBSET (1..da[n]) : Bytes(B, n, s, da, bo)
  <2>1. PICK B \in SUBSET (1..ca[n]) : Bytes(B, n, s, ca, bo) BY DEF LedgerIsSound
  <2>2. 1..ca[n] \subseteq 1..da[n] BY <1>1, <1>2
  <2>3. Bytes(B, n, s, da, bo) BY <1>4, <2>1, <2>2 DEF Bytes
  <2> QED BY <2>1, <2>2, <2>3
<1>7. LedgerIsSound(s, P, da, bo) BY <1>6 DEF LedgerIsSound
<1> QED BY <1>2, <1>3, <1>5, <1>7

\* A new generation begins where the last one ends.
LEMMA OneGenerationMore ==
    ASSUME NEW k, NEW ca, NEW bo, World(k, ca, bo), GenerationsInOrder(ca, bo),
           NEW P \in SUBSET Report, ReportsAreSound(P, ca, bo),
           NEW s \in Share, LedgerIsSound(s, P, ca, bo),
           NEW co, co = Append(bo, ca)
    PROVE  /\ co \in Seq([Node -> Nat]) /\ Len(co) = Len(bo) + 1 /\ co[Len(co)] = ca
           /\ GenerationsInOrder(ca, co) /\ ReportsAreSound(P, ca, co)
           /\ LedgerIsSound(s, P, ca, co)
<1>1. /\ ca \in [Node -> Nat] /\ \A n \in Node : ca[n] \in Nat
      /\ Len(bo) \in Nat /\ \A g \in 1..Len(bo), n \in Node : bo[g][n] \in Nat
      BY WorldTypes DEF World
<1>2. /\ co \in Seq([Node -> Nat]) /\ Len(co) = Len(bo) + 1 /\ co[Len(bo) + 1] = ca
      /\ \A g \in 1..Len(bo) : co[g] = bo[g]
      BY <1>1 DEF World
<1>3. \A g \in 1..Len(co) : g \in 1..Len(bo) \/ g = Len(bo) + 1 BY <1>1, <1>2
<1>4. GenerationsInOrder(ca, co)
  <2>1. ASSUME NEW n \in Node, NEW g \in 1..Len(co) PROVE co[g][n] <= ca[n]
        BY <1>1, <1>2, <1>3 DEF GenerationsInOrder
  <2>2. ASSUME NEW n \in Node, NEW g \in 1..Len(co), NEW h \in 1..Len(co), g <= h
        PROVE  co[g][n] <= co[h][n]
    <3>1. CASE g \in 1..Len(bo) /\ h \in 1..Len(bo)
          BY <1>2, <2>2, <3>1 DEF GenerationsInOrder
    <3>2. CASE h = Len(bo) + 1 BY <1>2, <2>1, <3>2
    <3>3. CASE g = Len(bo) + 1 /\ h \in 1..Len(bo) BY <1>1, <2>2, <3>3
    <3> QED BY <1>3, <3>1, <3>2, <3>3
  <2> QED BY <1>1, <1>2, <2>1, <2>2 DEF GenerationsInOrder
<1>5. ASSUME NEW g \in 1..Len(bo), NEW n \in Node
      PROVE  Until(g, n, ca, co) = Until(g, n, ca, bo)
  <2>1. CASE g < Len(bo)
    <3>1. g + 1 \in 1..Len(bo) /\ g < Len(co) BY <1>1, <1>2, <2>1
    <3> QED BY <1>2, <2>1, <3>1 DEF Until
  <2>2. CASE ~(g < Len(bo))
    <3>1. g = Len(bo) /\ g < Len(co) BY <1>1, <1>2, <2>2
    <3> QED BY <1>2, <2>2, <3>1 DEF Until
  <2> QED BY <2>1, <2>2
<1>6. ReportsAreSound(P, ca, co)
  <2>1. ASSUME NEW r \in P
        PROVE  /\ r.gen \in 1..Len(co)
               /\ \A n \in DOMAIN r.nodes :
                     co[r.gen][n] + r.nodes[n].total <= Until(r.gen, n, ca, co)
    <3>1. /\ r.gen \in 1..Len(bo)
          /\ \A n \in DOMAIN r.nodes :
                bo[r.gen][n] + r.nodes[n].total <= Until(r.gen, n, ca, bo)
          BY DEF ReportsAreSound
    <3>2. \A n \in DOMAIN r.nodes : n \in Node BY ReportTypes
    <3>3. r.gen \in 1..Len(co) BY <1>1, <1>2, <3>1
    <3> QED BY <1>2, <1>5, <3>1, <3>2, <3>3
  <2> QED BY <2>1 DEF ReportsAreSound
<1>7. ASSUME NEW n \in Node PROVE \E B \in SUBSET (1..ca[n]) : Bytes(B, n, s, ca, co)
  <2>1. PICK B \in SUBSET (1..ca[n]) : Bytes(B, n, s, ca, bo) BY DEF LedgerIsSound
  <2>2. ASSUME NEW g \in 1..Len(co) \ s.retired, NEW b \in B,
               co[g][n] < b, b <= Until(g, n, ca, co)
        PROVE  s.ledger[n].epoch = g /\ b <= co[g][n] + s.ledger[n].raw
    <3>1. CASE g \in 1..Len(bo)
          BY <1>2, <1>5, <2>1, <2>2, <3>1 DEF Bytes
    <3>2. CASE g = Len(bo) + 1
      <4>1. b <= ca[n] /\ b \in Int BY <1>1
      <4>2. ca[n] < b BY <1>2, <2>2, <3>2
      <4> QED BY <1>1, <4>1, <4>2
    <3> QED BY <1>3, <3>1, <3>2
  <2>3. Bytes(B, n, s, ca, co) BY <2>1, <2>2 DEF Bytes
  <2> QED BY <2>3
<1>8. /\ s.gen \in 0..Len(co) /\ s.gen \notin s.retired
      /\ s.retired \subseteq 1..Len(co)
      BY <1>1, <1>2 DEF LedgerIsSound
<1>9. LedgerIsSound(s, P, ca, co) BY <1>7, <1>8 DEF LedgerIsSound
<1> QED BY <1>1, <1>2, <1>4, <1>6, <1>9

\* A generation that was just drawn has nothing to count on a quiet Core.
LEMMA NewGenerationIsSound ==
    ASSUME NEW k, NEW ca, NEW bo, World(k, ca, bo),
           NEW P \in SUBSET Report, ReportsAreSound(P, ca, bo),
           NEW s \in Share, LedgerIsSound(s, P, ca, bo),
           NEW co, co = Append(bo, ca),
           NEW m \in Cores, m.epoch > 0, Quiet(m)
    PROVE  Sound(NewState(Len(bo) + 1), m, ca, co, P, s.ledger)
<1> DEFINE h == NewState(Len(bo) + 1)
<1>1. /\ Len(bo) \in Nat /\ Len(co) = Len(bo) + 1 /\ co[Len(co)] = ca
      /\ \A n \in Node : ca[n] \in Nat
      BY WorldTypes DEF World
<1>2. h.gen = Len(co) /\ h.nodes = NoNodes /\ \A n \in Node : h.counter[n] = NoCounter
      BY <1>1 DEF NewState
<1>3. DOMAIN h.nodes = {} BY <1>2 DEF NoNodes
<1> HIDE DEF h
<1>4. Counts(h, m, ca, co)
  <2>1. ASSUME NEW n \in Node
        PROVE  /\ h.counter[n].epoch <= m.epoch
               /\ co[Len(co)][n] + Due(h.counter[n], m, n) <= ca[n]
    <3>1. m.raw[n] = 0 /\ m.epoch \in Nat /\ m.epoch > 0 BY DEF Quiet, Cores
    <3>2. Due(NoCounter, m, n) = 0 BY <3>1 DEF Due, Gain, Delta, NoCounter
    <3>3. h.counter[n] = NoCounter /\ co[Len(co)][n] = ca[n] /\ ca[n] \in Nat BY <1>1, <1>2
    <3>4. NoCounter.epoch = 0 BY DEF NoCounter
    <3> QED BY <3>1, <3>2, <3>3, <3>4
  <2> QED BY <2>1 DEF Counts
<1>5. ASSUME NEW r \in P PROVE Knows(h, r.gen, r.seq, r.nodes)
  <2>1. r.gen \in 1..Len(bo) BY DEF ReportsAreSound
  <2>2. r.gen # h.gen BY <1>1, <1>2, <2>1
  <2> QED BY <2>2 DEF Knows
<1>6. ASSUME NEW n \in Node PROVE s.ledger[n].epoch # h.gen
  <2>1. s.ledger[n].epoch \in 0..Len(bo) BY <1>1 DEF LedgerIsSound
  <2> QED BY <1>1, <1>2, <2>1
<1> QED BY <1>2, <1>3, <1>4, <1>5, <1>6 DEF Sound, h

-----------------------------------------------------------------------------
(* Steps of the Helper *)

LEMMA InvWorld ==
    ASSUME BillingInv
    PROVE  /\ World(core, carried, born) /\ Pending \in SUBSET Report
           /\ share.ledger \in [Node -> Counters] /\ share \in Share
           /\ helper \in HelperState /\ (disk # NoState => disk \in HelperState)
           /\ core \in Cores /\ core.epoch \in Nat /\ core.epoch > 0
<1>1. /\ core \in Cores /\ core.epoch > 0 /\ carried \in [Node -> Nat]
      /\ born \in Seq([Node -> Nat])
      /\ helper \in HelperState /\ (disk # NoState => disk \in HelperState)
      /\ share \in Share
      BY DEF BillingInv, TypeInv
<1>2. Len(born) > 0 BY DEF BillingInv, GenerationsInOrder
<1>3. Pending \in SUBSET Report BY DEF BillingInv, TypeInv, Pending
<1>4. share.ledger \in [Node -> Counters] BY <1>1 DEF Share
<1> QED BY <1>1, <1>2, <1>3, <1>4 DEF World, Cores

LEMMA StatesDiffer ==
    /\ \A h \in HelperState : h # NoState
    /\ \A r \in Report : r # NoReport
<1>1. NoState.gen = 0 BY DEF NoState
<1>2. NoReport.gen = 0 BY DEF NoReport
<1>3. \A h \in HelperState : h.gen # 0 BY DEF HelperState
<1>4. \A r \in Report : r.gen # 0 BY DEF Report
<1> QED BY <1>1, <1>2, <1>3, <1>4

\* The Core m serves no more than k did, or is a new one.
Settles(k, m) ==
    \/ m.epoch = k.epoch /\ m.raw = k.raw /\ m.serves \subseteq k.serves
    \/ m.epoch = k.epoch + 1 /\ Quiet(m)

LEMMA SettlesQuiet ==
    ASSUME NEW k, NEW m, Settles(k, m), Quiet(k)
    PROVE  Quiet(m)
BY DEF Settles, Quiet

LEMMA SettlesSound ==
    ASSUME NEW k, NEW m, NEW ca, NEW bo, NEW P, NEW l, NEW h \in HelperState,
           World(k, ca, bo), Sound(h, k, ca, bo, P, l), Settles(k, m)
    PROVE  Sound(h, m, ca, bo, P, l) /\ (Rests(h, k) => Rests(h, m))
<1>1. Counts(h, k, ca, bo) BY DEF Sound
<1>2. m.epoch = k.epoch /\ m.raw = k.raw => Counts(h, m, ca, bo)
      BY <1>1, CountsWithSameCounters
<1>3. m.epoch = k.epoch + 1 /\ Quiet(m) => Counts(h, m, ca, bo)
      BY <1>1, CountsWithNewCore DEF Quiet
<1>4. Counts(h, m, ca, bo) BY <1>2, <1>3 DEF Settles
<1>5. Sound(h, m, ca, bo, P, l) BY <1>4, SoundElsewhere
<1>6. Rests(h, k) => Rests(h, m) BY SettlesQuiet DEF Rests
<1> QED BY <1>5, <1>6

\* limits: only the blocks change.
LEMMA LimitedCore ==
    ASSUME core \in Cores, NEW open
    PROVE  /\ Limited(open) \in Cores /\ Limited(open).epoch = core.epoch
           /\ Limited(open).raw = core.raw /\ Limited(open).serves = core.serves
           /\ Limited(open).counts = core.counts
           /\ Limited(open).blocked = core.serves \ open
           /\ Settles(core, Limited(open))
<1>1. /\ Limited(open) \in Cores /\ Limited(open).epoch = core.epoch
      /\ Limited(open).raw = core.raw /\ Limited(open).serves = core.serves
      /\ Limited(open).counts = core.counts /\ Limited(open).blocked = core.serves \ open
      BY DEF Limited, Cores
<1> QED BY <1>1 DEF Settles

\* Inbounds go, with their counters or without.
LEMMA WithoutCore ==
    ASSUME core \in Cores, NEW gone, NEW m \in Without(gone)
    PROVE  /\ m \in Cores /\ m.epoch = core.epoch /\ m.serves = core.serves \ gone
           /\ \A n \in Node : m.raw[n] = core.raw[n] \/ (n \in gone /\ m.raw[n] = 0)
<1>1. CASE m = [core EXCEPT !.serves = @ \ gone, !.blocked = {}]
      BY <1>1 DEF Cores
<1>2. CASE m = [core EXCEPT !.serves = @ \ gone, !.blocked = {}, !.counts = @ \ gone,
                           !.raw = [n \in Node |-> IF n \in gone THEN 0 ELSE @[n]]]
  <2>1. /\ m.epoch = core.epoch /\ m.serves = core.serves \ gone /\ m.blocked = {}
        /\ m.counts = core.counts \ gone
        /\ m.raw = [n \in Node |-> IF n \in gone THEN 0 ELSE core.raw[n]]
        /\ m \in [epoch: Nat, raw: [Node -> Nat], counts: SUBSET Node, serves: SUBSET Node,
                  blocked: SUBSET Node]
        BY <1>2 DEF Cores
  <2> QED BY <2>1 DEF Cores
<1> QED BY <1>1, <1>2 DEF Without

\* What goes with its inbound was saved.
Cuts(g, m) ==
    /\ disk # NoState /\ disk.counter = helper.counter /\ g.counter = helper.counter
    /\ m.epoch = core.epoch /\ m.serves \subseteq core.serves
    /\ \A n \in Node :
          \/ m.raw[n] = core.raw[n]
          \/ m.raw[n] = 0 /\ Gain(helper.counter[n], core.epoch, core.raw[n]) <= Unsampled(n)

\* The Helper advances to g, writes that or nothing, and publishes what it wrote.
HelperGoes(g) ==
    /\ g \in HelperState /\ Advances(helper, g, core) /\ Rests(g, core')
    /\ pass # "removed" /\ helper' = g
    /\ disk' = disk \/ disk' = g
    /\ published' = published \/ (published' = Published(g) /\ disk' = g)
    /\ core' \in Cores /\ core'.epoch > 0
    /\ \/ Settles(core, core')
       \/ pass = "add" /\ core'.epoch = core.epoch /\ core'.raw = core.raw
       \/ Cuts(g, core')
    /\ pass' \in Passes \ {"removed"} /\ settled' \in BOOLEAN /\ faults' \in Nat
    /\ pass' \in {"remove", "add", "finish", "over", "close"} =>
          ~g.stopped /\ g.epoch # 0 /\ (disk' = g \/ pass = "finish")
    /\ pass' \in {"remove", "close"} => CutsAreSaved'
    /\ missed' \subseteq Node /\ UNCHANGED <<carried, today, born, share>>

\* Unless the Core ends, what the file counts and the Core still has grows as traffic does.
NothingLost ==
    disk # NoState /\ disk' # NoState /\ core'.epoch = core.epoch
        => \A n \in Node : Stale(n) \/ Lost(n)' <= Lost(n) + Unsampled(n)

LEMMA UnsampledType ==
    ASSUME BillingInv, NEW n \in Node
    PROVE  Unsampled(n) \in Nat
<1>1. helper.counter[n] \in Counters /\ core.epoch \in Nat /\ core.raw[n] \in Nat
      BY InvWorld, WorldTypes, CounterTypes
<1> QED BY <1>1, MergedCounter DEF Unsampled

\* What a sound state counts, and will count, are numbers.
LEMMA DueTypes ==
    ASSUME NEW k, NEW ca, NEW bo, World(k, ca, bo), NEW h \in HelperState, NEW n \in Node
    PROVE  /\ Due(h.counter[n], k, n) \in Nat /\ h.counter[n].total \in Nat
           /\ h.counter[n].total <= Due(h.counter[n], k, n)
<1>1. k.epoch \in Nat /\ k.raw[n] \in Nat BY WorldTypes
<1>2. h.counter[n] \in Counters /\ h.counter[n].total \in Nat BY CounterTypes
<1>3. Gain(h.counter[n], k.epoch, k.raw[n]) \in Nat BY <1>1, <1>2, MergedCounter
<1> QED BY <1>2, <1>3 DEF Due

\* On a new Core only what was counted counts.
LEMMA DueOnNewCore ==
    ASSUME NEW k, NEW ca, NEW bo, World(k, ca, bo), NEW h \in HelperState,
           Counts(h, k, ca, bo), NEW m, m.epoch = k.epoch + 1, Quiet(m), NEW n \in Node
    PROVE  Due(h.counter[n], m, n) = h.counter[n].total
<1>1. k.epoch \in Nat BY WorldTypes
<1>2. h.counter[n].epoch \in Nat /\ h.counter[n].raw \in Nat /\ h.counter[n].total \in Nat
      BY CounterTypes
<1>3. h.counter[n].epoch <= k.epoch BY DEF Counts
<1>4. Gain(h.counter[n], m.epoch, m.raw[n]) = 0
      BY <1>1, <1>2, <1>3 DEF Gain, Delta, Quiet
<1> QED BY <1>2, <1>4 DEF Due

\* Nothing is lost when the file stays, or takes over a state that counts no less.
LEMMA NothingIsLost ==
    ASSUME BillingInv, UNCHANGED carried,
           disk' # NoState =>
              \/ disk' = disk /\ core'.raw = core.raw
              \/ core'.epoch # core.epoch
              \/ /\ disk' \in HelperState /\ core'.raw = core.raw
                 /\ \A n \in Node :
                       disk # NoState =>
                          Due(disk.counter[n], core, n) <= Due(disk'.counter[n], core, n)
    PROVE  NothingLost
<1> SUFFICES ASSUME disk # NoState, disk' # NoState, core'.epoch = core.epoch, NEW n \in Node
             PROVE  Lost(n)' <= Lost(n) + Unsampled(n)
    BY DEF NothingLost
<1>0. Unsampled(n) \in Nat BY UnsampledType
<1>1. World(core, carried, born) /\ disk \in HelperState BY InvWorld
<1>2. carried[n] \in Nat /\ carried'[n] = carried[n] BY <1>1, WorldTypes
<1>3. Due(disk.counter[n], core, n) \in Nat BY <1>1, DueTypes
<1>4. /\ Lost(n) = carried[n] - Due(disk.counter[n], core, n)
      /\ core'.raw = core.raw => Lost(n)' = carried'[n] - Due(disk'.counter[n], core, n)
      BY DEF Lost, Due
<1>5. CASE disk' = disk /\ core'.raw = core.raw BY <1>0, <1>2, <1>3, <1>4, <1>5
<1>6. CASE disk' \in HelperState /\ core'.raw = core.raw
           /\ Due(disk.counter[n], core, n) <= Due(disk'.counter[n], core, n)
  <2>1. Due(disk'.counter[n], core, n) \in Nat BY <1>1, <1>6, DueTypes
  <2> QED BY <1>0, <1>2, <1>3, <1>4, <1>6, <2>1
<1> QED BY <1>5, <1>6

\* Nothing is lost with counters that were saved, but what was not sampled.
LEMMA NothingIsCut ==
    ASSUME BillingInv, UNCHANGED carried, NEW g \in HelperState, Cuts(g, core'),
           disk' = disk \/ disk' = g
    PROVE  NothingLost
<1> SUFFICES ASSUME NEW n \in Node
             PROVE  Lost(n)' <= Lost(n) + Unsampled(n)
    BY DEF NothingLost
<1> DEFINE c == helper.counter[n]
<1>1. /\ c \in Counters /\ c.total \in Nat /\ core.epoch \in Nat /\ core.raw[n] \in Nat
      /\ carried[n] \in Nat /\ Unsampled(n) \in Nat
      BY InvWorld, WorldTypes, CounterTypes, UnsampledType
<1>2. /\ disk.counter[n] = c /\ disk'.counter[n] = c /\ disk # NoState /\ disk' # NoState
      /\ core'.epoch = core.epoch /\ carried' = carried
      BY StatesDiffer DEF Cuts
<1>3. \/ core'.raw[n] = core.raw[n]
      \/ core'.raw[n] = 0 /\ Gain(c, core.epoch, core.raw[n]) <= Unsampled(n)
      BY DEF Cuts
<1>4. /\ Lost(n) = carried[n] - (c.total + Gain(c, core.epoch, core.raw[n]))
      /\ Lost(n)' = carried[n] - (c.total + Gain(c, core.epoch, core'.raw[n]))
      BY <1>2 DEF Lost
<1> HIDE DEF c
<1>5. Gain(c, core.epoch, core.raw[n]) \in Nat BY <1>1, MergedCounter
<1>6. CASE core'.raw[n] = core.raw[n] BY <1>1, <1>4, <1>5, <1>6
<1>7. CASE core'.raw[n] = 0 /\ Gain(c, core.epoch, core.raw[n]) <= Unsampled(n)
  <2>1. Gain(c, core.epoch, core'.raw[n]) = 0 BY <1>1, <1>7 DEF Gain, Delta, Counters
  <2> QED BY <1>1, <1>4, <1>5, <1>7, <2>1
<1> QED BY <1>3, <1>6, <1>7

LEMMA HelperStep ==
    ASSUME BillingInv, NEW g, HelperGoes(g),
           inbox' \in {inbox, NoEnvelope}, UNCHANGED <<request, late>>
    PROVE  BillingInv' /\ NothingLost
<1> USE DEF HelperGoes
<1>1. /\ World(core, carried, born) /\ Pending \in SUBSET Report
      /\ share.ledger \in [Node -> Counters] /\ share \in Share
      /\ helper \in HelperState /\ (disk # NoState => disk \in HelperState)
      BY InvWorld
<1>2. /\ Sound(helper, core, carried, born, Pending, share.ledger)
      /\ disk # NoState => Sound(disk, core, carried, born, Pending, share.ledger)
                           /\ Rests(disk, core)
      /\ pass \in {"add", "finish"} => disk # NoState /\ ~disk.stopped /\ disk.epoch # 0
      /\ disk = NoState => Quiet(core)
      BY DEF BillingInv, HelperIsSound
<1>3. Sound(g, core, carried, born, Pending, share.ledger) BY <1>1, <1>2, AdvancesSound
<1>4. World(core', carried, born) BY <1>1 DEF World
<1>5. ASSUME NEW h \in HelperState, Sound(h, core, carried, born, Pending, share.ledger)
      PROVE  Sound(h, core', carried, born, Pending, share.ledger)
  <2>1. CASE Settles(core, core') BY <1>1, <1>5, <2>1, SettlesSound
  <2>2. CASE core'.epoch = core.epoch /\ core'.raw = core.raw
    <3>1. Counts(h, core', carried, born)
          BY <1>5, <2>2, CountsWithSameCounters DEF Sound
    <3> QED BY <1>5, <3>1, SoundElsewhere
  <2>3. CASE Cuts(g, core')
    <3>1. /\ core'.epoch = core.epoch
          /\ \A n \in Node : core'.raw[n] = core.raw[n] \/ core'.raw[n] = 0
          BY <2>3 DEF Cuts
    <3>2. Counts(h, core', carried, born)
          BY <1>1, <1>5, <3>1, CountsWithFewerCounters DEF Sound
    <3> QED BY <1>5, <3>2, SoundElsewhere
  <2> QED BY <2>1, <2>2, <2>3
<1>6. Sound(g, core', carried, born, Pending, share.ledger) BY <1>3, <1>5
<1>7. disk # NoState => /\ Sound(disk, core', carried, born, Pending, share.ledger)
                        /\ Rests(disk, core')
  <2> SUFFICES ASSUME disk # NoState
               PROVE  /\ Sound(disk, core', carried, born, Pending, share.ledger)
                      /\ Rests(disk, core')
      OBVIOUS
  <2>1. Sound(disk, core', carried, born, Pending, share.ledger) BY <1>1, <1>2, <1>5
  <2>2. CASE Settles(core, core')
        BY <1>1, <1>2, <2>2, SettlesSound
  <2>3. CASE pass = "add" BY <1>2, <2>1, <2>3 DEF Rests
  <2>4. CASE Cuts(g, core')
    <3>1. Quiet(core) => Quiet(core') BY <2>4 DEF Quiet, Cuts
    <3> QED BY <1>2, <2>1, <3>1 DEF Rests
  <2> QED BY <2>1, <2>2, <2>3, <2>4
<1>8. g # NoState BY StatesDiffer
<1>9. disk' = NoState => Quiet(core')
  <2> SUFFICES ASSUME disk' = NoState PROVE Quiet(core') OBVIOUS
  <2>1. disk = NoState BY <1>8
  <2>2. Settles(core, core') BY <1>2, <2>1 DEF Cuts
  <2> QED BY <1>2, <2>1, <2>2, SettlesQuiet
<1> DEFINE P == Pending
           Q == Pending'
<1>10. Q \in SUBSET (P \cup {ReportOf(g)})
  <2>1. Published(g).report = ReportOf(g) BY ReportOfType
  <2>2. published'.report = published.report \/ published'.report = ReportOf(g) BY <2>1
  <2> QED BY <2>2 DEF Pending
<1>11. disk' = disk /\ disk' # g => Q = P
  <2> SUFFICES ASSUME disk' = disk, disk' # g PROVE Q = P OBVIOUS
  <2>1. published' = published OBVIOUS
  <2> QED BY <2>1 DEF Pending
<1> HIDE DEF P, Q
<1>12. Sound(g, core', carried, born, P, share.ledger) BY <1>6 DEF P
<1>13. Sound(g, core', carried, born, Q, share.ledger) BY <1>10, <1>12, SoundWithReport
<1>14. P \in SUBSET Report BY <1>1 DEF P
<1>15. ReportsAreSound(P, carried, born) /\ LedgerIsSound(share, P, carried, born)
       /\ GenerationsInOrder(carried, born)
       BY DEF BillingInv, P
<1>16. ReportsAreSound(Q, carried, born)
       BY <1>1, <1>4, <1>10, <1>12, <1>14, <1>15, NewReportIsSound
<1>17. LedgerIsSound(share, Q, carried, born)
       BY <1>1, <1>4, <1>10, <1>12, <1>14, <1>15, LedgerWithReport
<1>18. disk' # NoState => Sound(disk', core', carried, born, Q, share.ledger)
                          /\ Rests(disk', core')
  <2>1. CASE disk' = g BY <1>13, <2>1
  <2>2. CASE disk' = disk /\ disk' # g BY <1>7, <1>11, <2>2 DEF P
  <2> QED BY <2>1, <2>2
<1>19. TypeInv'
  <2>1. ReportOf(g) \in Report /\ Published(g).report = ReportOf(g) BY ReportOfType
  <2>2. TypeInv BY DEF BillingInv
  <2>3. published'.report = NoReport \/ published'.report \in Report
        BY <2>1, <2>2 DEF TypeInv
  <2>4. disk' = NoState \/ disk' \in HelperState BY <2>2 DEF TypeInv
  <2> QED BY <2>2, <2>3, <2>4 DEF TypeInv
<1>20. /\ pass' # "removed"
       /\ pass' \in {"remove", "add", "finish", "over", "close"} =>
              /\ ~helper'.stopped /\ helper'.epoch # 0
              /\ disk' # NoState /\ ~disk'.stopped /\ disk'.epoch # 0
  <2> SUFFICES ASSUME pass' \in {"remove", "add", "finish", "over", "close"}
               PROVE  /\ ~helper'.stopped /\ helper'.epoch # 0
                      /\ disk' # NoState /\ ~disk'.stopped /\ disk'.epoch # 0
      OBVIOUS
  <2>1. CASE disk' = g BY <1>8, <2>1
  <2>2. CASE pass = "finish" /\ disk' = disk BY <1>2, <2>2
  <2> QED BY <2>1, <2>2
<1>21. inbox' # NoEnvelope => inbox'.ack.gen <= Len(born')
       BY DEF BillingInv, HelperIsSound
<1>22. \A n \in Node : core.epoch \in Nat /\ core.raw[n] \in Nat /\ g.counter[n] \in Counters
       BY <1>1, WorldTypes, CounterTypes
<1>23. disk # NoState => Ahead(disk, g, core)
  <2> SUFFICES ASSUME disk # NoState, NEW n \in Node
               PROVE  Covers(disk.counter[n], g.counter[n], core.epoch, core.raw[n])
      BY DEF Ahead
  <2>1. Covers(disk.counter[n], helper.counter[n], core.epoch, core.raw[n])
        BY DEF BillingInv, HelperIsSound, Ahead
  <2>2. disk.counter[n] \in Counters /\ helper.counter[n] \in Counters BY <1>1, CounterTypes
  <2> QED BY <1>22, <2>1, <2>2, CoversSampled DEF Advances
<1>24. disk' # NoState => Ahead(disk', g, core')
  <2> SUFFICES ASSUME disk' # NoState, NEW n \in Node
               PROVE  Covers(disk'.counter[n], g.counter[n], core'.epoch, core'.raw[n])
      BY DEF Ahead
  <2>1. CASE disk' = g BY <2>1 DEF Covers
  <2>2. CASE disk' = disk
    <3>1. Covers(disk.counter[n], g.counter[n], core.epoch, core.raw[n])
          /\ disk \in HelperState /\ disk.counter[n] \in Counters
          BY <1>1, <1>23, <2>2, CounterTypes DEF Ahead
    <3>2. CASE core'.epoch = core.epoch /\ core'.raw = core.raw BY <2>2, <3>1, <3>2
    <3>3. CASE core'.epoch = core.epoch + 1 /\ Quiet(core')
      <4>1. disk.counter[n].epoch <= core.epoch /\ g.counter[n].epoch <= core.epoch
            BY <1>2, <1>3, <2>2 DEF Sound, Counts
      <4>2. core'.raw[n] = 0 BY <3>3 DEF Quiet
      <4> QED BY <1>22, <2>2, <3>1, <3>3, <4>1, <4>2, CoversOnNewCore
    <3>4. CASE Cuts(g, core') BY <2>2, <3>4 DEF Cuts, Covers
    <3> QED BY <3>2, <3>3, <3>4 DEF Settles
  <2> QED BY <2>1, <2>2
<1>25. NothingLost
  <2>1. CASE core'.epoch = core.epoch /\ core'.raw = core.raw
    <3>1. disk # NoState =>
             \A n \in Node : Due(disk.counter[n], core, n) <= Due(g.counter[n], core, n)
          BY <1>1, <1>22, <1>23, CounterTypes, CoversMeans DEF Ahead, Due
    <3> QED BY <2>1, <3>1, NothingIsLost
  <2>2. CASE core'.epoch = core.epoch + 1
    <3>1. core.epoch \in Nat BY <1>1, WorldTypes
    <3> QED BY <2>2, <3>1, NothingIsLost
  <2>3. CASE Cuts(g, core') BY <2>3, NothingIsCut
  <2> QED BY <2>1, <2>2, <2>3 DEF Settles
<1>27. CutsAreSaved' BY DEF CutsAreSaved
<1>26. HelperIsSound'
       BY <1>9, <1>13, <1>18, <1>20, <1>21, <1>24 DEF HelperIsSound, Q
<1> QED BY <1>15, <1>16, <1>17, <1>19, <1>25, <1>26, <1>27 DEF BillingInv, Q

\* persistReport goes to h, with the next sequence when it writes.
LEMMA ReportGoes ==
    ASSUME NEW h \in HelperState, NEW force, faults \in Nat,
           PersistReport(h, force) \/ PersistReportFails(h)
    PROVE  \E g \in HelperState :
              /\ g.gen = h.gen /\ h.seq <= g.seq /\ g.counter = h.counter /\ g.nodes = h.nodes
              /\ g.stopped = h.stopped /\ g.epoch = h.epoch
              /\ helper' = g
              /\ disk' = disk \/ disk' = g
              /\ published' = published \/ (published' = Published(g) /\ disk' = g)
              /\ faults' \in Nat
<1> DEFINE n == [h EXCEPT !.seq = NextSequence(h)]
<1>1. NextSequence(h) \in Nat /\ h.seq <= NextSequence(h) /\ n \in HelperState
      BY NextSequenceType
<1>2. /\ n.gen = h.gen /\ n.seq = NextSequence(h) /\ n.counter = h.counter
      /\ n.nodes = h.nodes /\ n.stopped = h.stopped /\ n.epoch = h.epoch
      BY DEF HelperState
<1>3. h.seq <= h.seq BY DEF HelperState
<1>4. \/ helper' = h /\ UNCHANGED <<disk, published, faults>>
      \/ helper' = n /\ disk' = n /\ UNCHANGED faults /\ published' = Published(n)
      \/ helper' = n /\ Fault /\ disk' \in {disk, n} /\ UNCHANGED published
      BY DEF PersistReport, PersistReportFails, Persisted, PersistFails
<1>5. faults' \in Nat BY <1>4 DEF Fault
<1> HIDE DEF n
<1>6. CASE helper' = h /\ UNCHANGED <<disk, published, faults>> BY <1>3, <1>5, <1>6
<1>7. CASE helper' = n /\ disk' = n /\ UNCHANGED faults /\ published' = Published(n)
      BY <1>1, <1>2, <1>5, <1>7
<1>8. CASE helper' = n /\ Fault /\ disk' \in {disk, n} /\ UNCHANGED published
      BY <1>1, <1>2, <1>5, <1>8
<1> QED BY <1>4, <1>6, <1>7, <1>8

LEMMA GoesAhead ==
    ASSUME NEW h \in HelperState, NEW g \in HelperState, NEW k,
           g.gen = h.gen, h.seq <= g.seq,
           \A n \in Node : \/ g.counter[n] = h.counter[n]
                           \/ g.counter[n] = Merged(h.counter[n], k.epoch, k.raw[n]),
           \/ g.nodes = h.nodes
           \/ \A n \in DOMAIN g.nodes : g.nodes[n].total = g.counter[n].total
    PROVE  Advances(h, g, k)
BY DEF Advances

LEMMA HelperRests ==
    ASSUME BillingInv, pass # "removed"
    PROVE  /\ helper \in HelperState /\ Rests(helper, core) /\ Settles(core, core)
           /\ core \in Cores /\ core.epoch \in Nat /\ core.epoch > 0
           /\ helper.seq \in Nat /\ helper.seq <= helper.seq /\ TypeInv /\ missed \subseteq Node
           /\ pass \in {"remove", "add", "finish", "over", "close"} =>
                 ~helper.stopped /\ helper.epoch # 0
<1>1. TypeInv /\ HelperIsSound BY DEF BillingInv
<1>2. /\ helper \in HelperState /\ core \in Cores /\ core.epoch > 0 BY <1>1 DEF TypeInv
<1>3. core.epoch \in Nat /\ helper.seq \in Nat BY <1>2 DEF Cores, HelperState
<1>4. Rests(helper, core) /\ missed \subseteq Node BY <1>1 DEF HelperIsSound, TypeInv
<1>5. pass \in {"remove", "add", "finish", "over", "close"} =>
        ~helper.stopped /\ helper.epoch # 0
      BY <1>1 DEF HelperIsSound
<1>6. Settles(core, core) BY DEF Settles
<1> QED BY <1>1, <1>2, <1>3, <1>4, <1>5, <1>6

\* Counters are as they were, or sampled.
LEMMA GoesOn ==
    ASSUME TypeInv, NEW g \in HelperState, helper.gen = g.gen, helper.seq <= g.seq,
           \/ g.counter = helper.counter
           \/ g.counter = [n \in Node |-> Sample(helper.counter[n], n)],
           \/ g.nodes = helper.nodes
           \/ \A n \in DOMAIN g.nodes : g.nodes[n].total = g.counter[n].total
    PROVE  Advances(helper, g, core)
<1>1. \A n \in Node : helper.counter[n] \in Counters /\ core \in Cores
      BY CounterTypes DEF TypeInv
<1>2. \A n \in Node : \/ Sample(helper.counter[n], n) = helper.counter[n]
                      \/ Sample(helper.counter[n], n)
                            = Merged(helper.counter[n], core.epoch, core.raw[n])
      BY <1>1, SampleCounter
<1>3. \A n \in Node : \/ g.counter[n] = helper.counter[n]
                      \/ g.counter[n] = Merged(helper.counter[n], core.epoch, core.raw[n])
      BY <1>2
<1>4. helper \in HelperState BY DEF TypeInv
<1> QED BY <1>3, <1>4, GoesAhead

\* Mapping of the writes that save a state and do not report it.
LEMMA SaveStep ==
    ASSUME BillingInv, pass # "removed",
           NEW g \in HelperState, Advances(helper, g, core), Rests(g, core'), helper' = g,
           core' \in Cores, core'.epoch > 0,
           \/ Settles(core, core')
           \/ pass = "add" /\ core'.epoch = core.epoch /\ core'.raw = core.raw
           \/ Cuts(g, core'),
           NEW next \in {"ready", "remove", "add", "finish", "close"},
           next # "ready" => ~g.stopped /\ g.epoch # 0,
           \/ Persisted(g) /\ pass' = next
           \/ PersistFails(g) /\ pass' = "failed",
           pass' \in {"remove", "close"} => CutsAreSaved',
           UNCHANGED <<carried, missed, today, born, published, settled, netVars, share>>
    PROVE  BillingInv' /\ NothingLost
<1>1. faults \in Nat /\ settled \in BOOLEAN /\ missed \subseteq Node BY DEF BillingInv, TypeInv
<1>2. CASE Persisted(g) /\ pass' = next
  <2>1. disk' = g /\ faults' = faults BY <1>2 DEF Persisted
  <2>2. HelperGoes(g) BY <1>1, <1>2, <2>1 DEF HelperGoes, Passes
  <2> QED BY <2>2, HelperStep DEF netVars
<1>3. CASE PersistFails(g) /\ pass' = "failed"
  <2>1. disk' \in {disk, g} /\ faults' \in Nat BY <1>1, <1>3 DEF PersistFails, Fault
  <2>2. HelperGoes(g) BY <1>1, <1>3, <2>1 DEF HelperGoes, Passes
  <2> QED BY <2>2, HelperStep DEF netVars
<1> QED BY <1>2, <1>3

\* And of those that report it.
LEMMA ReportStep ==
    ASSUME BillingInv, pass # "removed",
           NEW h \in HelperState, helper.gen = h.gen, helper.seq <= h.seq,
           \/ h.counter = helper.counter
           \/ h.counter = [n \in Node |-> Sample(helper.counter[n], n)],
           \/ h.nodes = helper.nodes
           \/ \A n \in DOMAIN h.nodes : h.nodes[n].total = h.counter[n].total,
           Rests(h, core'), core' \in Cores, core'.epoch > 0,
           Settles(core, core') \/ Cuts(h, core'), missed' \subseteq Node,
           NEW force, PersistReport(h, force) \/ PersistReportFails(h),
           pass' \in {"idle", "failed"}, settled' \in BOOLEAN,
           UNCHANGED <<carried, today, born, netVars, share>>
    PROVE  BillingInv' /\ NothingLost
<1>1. faults \in Nat /\ helper \in HelperState /\ TypeInv BY DEF BillingInv, TypeInv
<1>2. PICK g \in HelperState :
         /\ g.gen = h.gen /\ h.seq <= g.seq /\ g.counter = h.counter /\ g.nodes = h.nodes
         /\ g.stopped = h.stopped /\ g.epoch = h.epoch
         /\ helper' = g
         /\ disk' = disk \/ disk' = g
         /\ published' = published \/ (published' = Published(g) /\ disk' = g)
         /\ faults' \in Nat
      BY <1>1, ReportGoes
<1>3. helper.seq <= g.seq BY <1>1, <1>2 DEF HelperState
<1>4. Advances(helper, g, core) BY <1>1, <1>2, <1>3, GoesOn
<1>5. Rests(g, core') BY <1>2 DEF Rests
<1>6. Cuts(h, core') => Cuts(g, core') BY <1>2 DEF Cuts
<1>7. HelperGoes(g) BY <1>2, <1>4, <1>5, <1>6 DEF HelperGoes, Passes
<1> QED BY <1>7, HelperStep DEF netVars

LEMMA RecordStep ==
    ASSUME BillingInv, pass # "removed",
           NEW h \in HelperState, helper.gen = h.gen, helper.seq <= h.seq,
           \/ h.counter = helper.counter
           \/ h.counter = [n \in Node |-> Sample(helper.counter[n], n)],
           \/ h.nodes = helper.nodes
           \/ \A n \in DOMAIN h.nodes : h.nodes[n].total = h.counter[n].total,
           Rests(h, core'), core' \in Cores, core'.epoch > 0,
           Settles(core, core') \/ Cuts(h, core'), missed' \subseteq Node,
           RecordAndEnd(h),
           UNCHANGED <<carried, today, born, netVars, share>>
    PROVE  BillingInv' /\ NothingLost
<1>1. settled \in BOOLEAN BY DEF BillingInv, TypeInv
<1>2. \/ PersistReport(h, ~settled) /\ pass' = "idle" /\ settled' = TRUE
      \/ PersistReportFails(h) /\ pass' = "failed" /\ settled' = settled
      BY DEF RecordAndEnd
<1>3. pass' \in {"idle", "failed"} /\ settled' \in BOOLEAN
      /\ (PersistReport(h, ~settled) \/ PersistReportFails(h))
      BY <1>1, <1>2
<1> QED BY <1>3, ReportStep

-----------------------------------------------------------------------------
(* The actions of the Helper *)

LEMMA SaveFinalCountersStep ==
    ASSUME BillingInv, SaveFinalCounters
    PROVE  BillingInv' /\ NothingLost
<1>1. pass # "removed" BY DEF SaveFinalCounters
<1>2. /\ helper \in HelperState /\ Rests(helper, core) /\ Settles(core, core)
      /\ core \in Cores /\ core.epoch > 0 /\ helper.seq <= helper.seq /\ TypeInv
      BY <1>1, HelperRests
<1> DEFINE g == Collected(helper)
<1>3. /\ g \in HelperState /\ g.gen = helper.gen /\ g.seq = helper.seq
      /\ g.nodes = helper.nodes /\ g.epoch = helper.epoch /\ g.stopped = FALSE
      /\ g.counter = [n \in Node |-> Sample(helper.counter[n], n)]
      BY <1>2, CollectedType
<1>4. /\ helper' = g /\ core' = core
      /\ \/ Persisted(helper') /\ pass' = "ready"
         \/ PersistFails(helper') /\ pass' = "failed"
      /\ UNCHANGED <<carried, missed, today, born, published, settled, netVars, share>>
      BY DEF SaveFinalCounters, coreVars
<1> HIDE DEF g
<1>5. Advances(helper, g, core) BY <1>2, <1>3, GoesOn
<1>6. Rests(g, core') BY <1>2, <1>3, <1>4 DEF Rests
<1> QED BY <1>1, <1>2, <1>3, <1>4, <1>5, <1>6, SaveStep

LEMMA CurrentType ==
    ASSUME TypeInv
    PROVE  /\ Current \in HelperState /\ Current.gen = helper.gen /\ Current.seq = helper.seq
           /\ Current.nodes = helper.nodes /\ Current.epoch = core.epoch
           /\ Current.stopped = FALSE
           /\ Current.counter =
                [n \in Node |-> Sample(helper.counter[n], n)]
<1> DEFINE c == Collected(helper)
<1>1. /\ c \in HelperState /\ c.gen = helper.gen /\ c.seq = helper.seq
      /\ c.nodes = helper.nodes /\ c.stopped = FALSE
      /\ c.counter = [n \in Node |-> Sample(helper.counter[n], n)]
      BY CollectedType DEF TypeInv
<1> HIDE DEF c
<1>2. /\ InEpoch(c) \in HelperState /\ InEpoch(c).gen = c.gen /\ InEpoch(c).seq = c.seq
      /\ InEpoch(c).counter = c.counter /\ InEpoch(c).nodes = c.nodes
      /\ InEpoch(c).stopped = c.stopped /\ InEpoch(c).epoch = core.epoch
      BY <1>1, InEpochType
<1>3. Current = InEpoch(c) BY DEF Current, c
<1> QED BY <1>1, <1>2, <1>3

LEMMA SaveCursorsStep ==
    ASSUME BillingInv, SaveCursors
    PROVE  BillingInv' /\ NothingLost
<1>1. pass # "removed" BY DEF SaveCursors, PassRuns
<1>2. /\ helper \in HelperState /\ Rests(helper, core) /\ Settles(core, core)
      /\ core \in Cores /\ core.epoch > 0 /\ helper.seq <= helper.seq /\ TypeInv
      BY <1>1, HelperRests
<1> DEFINE g == Current
<1>3. /\ g \in HelperState /\ g.gen = helper.gen /\ g.seq = helper.seq
      /\ g.nodes = helper.nodes /\ g.epoch = core.epoch /\ g.stopped = FALSE
      /\ g.counter = [n \in Node |-> Sample(helper.counter[n], n)]
      BY <1>2, CurrentType
<1>4. /\ helper' = g /\ core' = Limited(g.applied \cap Wanted(g))
      /\ \/ Persisted(helper') /\ pass' = "remove"
         \/ PersistFails(helper') /\ pass' = "failed"
      /\ UNCHANGED <<carried, missed, today, born, published, settled, netVars, share>>
      BY DEF SaveCursors, CursorsSaved
<1> HIDE DEF g
<1>5. Advances(helper, g, core) BY <1>2, <1>3, GoesOn
<1>6. g.epoch # 0 /\ ~g.stopped BY <1>2, <1>3
<1>7. Rests(g, core') BY <1>6 DEF Rests
<1>8. /\ core' \in Cores /\ core'.epoch = core.epoch /\ core'.raw = core.raw
      /\ core'.serves = core.serves /\ core'.blocked = core.serves \ (g.applied \cap Wanted(g))
      /\ Settles(core, core')
      BY <1>2, <1>4, LimitedCore
<1>9. ASSUME pass' \in {"remove", "close"} PROVE CutsAreSaved'
  <2>1. pass' = "remove" /\ disk' = g BY <1>4, <1>9 DEF Persisted
  <2>2. ASSUME NEW n \in Node PROVE Gain(g.counter[n], core.epoch, core.raw[n]) = 0
    <3>1. g.counter[n] = Sample(helper.counter[n], n) BY <1>3
    <3> QED BY <1>2, <3>1, CounterTypes, SampleCounter
  <2>3. core'.serves \subseteq Node BY <1>8 DEF Cores
  <2>4. g # NoState BY <1>3, StatesDiffer
  <2>5. ASSUME NEW n \in core'.serves \ (g.applied \cap Wanted(g))
        PROVE  n \in core'.blocked /\ Gain(g.counter[n], core'.epoch, core'.raw[n]) = 0
        BY <1>8, <2>2, <2>3
  <2>6. Wanted(helper)' = Wanted(g) BY <1>4 DEF Wanted
  <2> QED BY <1>4, <2>1, <2>4, <2>5, <2>6 DEF CutsAreSaved
<1> QED BY <1>1, <1>2, <1>3, <1>4, <1>5, <1>6, <1>7, <1>8, <1>9, SaveStep

LEMMA RemoveInboundsStep ==
    ASSUME BillingInv, RemoveInbounds
    PROVE  BillingInv' /\ NothingLost
<1>1. pass = "remove" BY DEF RemoveInbounds
<1>2. /\ helper \in HelperState /\ core \in Cores /\ core.epoch > 0
      /\ helper.seq <= helper.seq /\ ~helper.stopped /\ helper.epoch # 0 /\ TypeInv
      BY <1>1, HelperRests
<1> DEFINE g == [helper EXCEPT !.applied = @ \cap Wanted(helper)]
<1>3. /\ g \in HelperState /\ g.gen = helper.gen /\ g.seq = helper.seq
      /\ g.nodes = helper.nodes /\ g.epoch = helper.epoch /\ g.stopped = helper.stopped
      /\ g.counter = helper.counter
      BY <1>2 DEF HelperState
<1>4. /\ helper' = g /\ core' \in Without(core.serves \ g.applied)
      /\ g.applied = helper.applied \cap Wanted(helper)
      /\ \/ Persisted(g) /\ pass' = "add"
         \/ PersistFails(g) /\ pass' = "failed"
      /\ UNCHANGED <<carried, missed, today, born, published, settled, netVars, share>>
      BY <1>2 DEF RemoveInbounds, HelperState
<1> HIDE DEF g
<1>5. Advances(helper, g, core) BY <1>2, <1>3, GoesOn
<1>6. g.epoch # 0 /\ ~g.stopped BY <1>2, <1>3
<1>7. Rests(g, core') BY <1>6 DEF Rests
<1>8. /\ core' \in Cores /\ core'.epoch = core.epoch /\ core'.serves \subseteq core.serves
      /\ \A n \in Node : \/ core'.raw[n] = core.raw[n]
                         \/ n \in core.serves \ g.applied /\ core'.raw[n] = 0
  <2>0. PICK gone : gone = core.serves \ g.applied OBVIOUS
  <2>1. core' \in Without(gone) BY <1>4, <2>0
  <2>2. /\ core' \in Cores /\ core'.epoch = core.epoch /\ core'.serves = core.serves \ gone
        /\ \A n \in Node : core'.raw[n] = core.raw[n] \/ (n \in gone /\ core'.raw[n] = 0)
        BY <1>2, <2>1, WithoutCore
  <2>3. core'.serves \subseteq core.serves BY <2>2
  <2>4. \A n \in Node : \/ core'.raw[n] = core.raw[n]
                        \/ n \in core.serves \ g.applied /\ core'.raw[n] = 0
        BY <2>0, <2>2
  <2> QED BY <2>2, <2>3, <2>4
<1>9. /\ disk # NoState /\ disk.counter = helper.counter
      /\ \A n \in core.serves \ g.applied : Gain(helper.counter[n], core.epoch, core.raw[n]) = 0
      BY <1>1, <1>4 DEF BillingInv, CutsAreSaved
<1>10. \A n \in core.serves \ g.applied :
          Gain(helper.counter[n], core.epoch, core.raw[n]) <= Unsampled(n)
       BY <1>1, <1>9 DEF Unsampled
<1>11. Cuts(g, core') BY <1>3, <1>8, <1>9, <1>10 DEF Cuts
<1> QED BY <1>1, <1>2, <1>3, <1>4, <1>5, <1>6, <1>7, <1>8, <1>11, SaveStep

LEMMA AddInboundsStep ==
    ASSUME BillingInv, AddInbounds
    PROVE  BillingInv' /\ NothingLost
<1>1. pass = "add" BY DEF AddInbounds
<1>2. /\ helper \in HelperState /\ core \in Cores /\ core.epoch > 0
      /\ helper.seq <= helper.seq /\ ~helper.stopped /\ helper.epoch # 0
      BY <1>1, HelperRests
<1> DEFINE g == [helper EXCEPT !.applied = Wanted(helper)]
<1>3. Wanted(helper) \subseteq Node BY <1>2 DEF Wanted, HelperState
<1>4. /\ g \in HelperState /\ g.gen = helper.gen /\ g.seq = helper.seq
      /\ g.nodes = helper.nodes /\ g.epoch = helper.epoch /\ g.stopped = helper.stopped
      /\ g.counter = helper.counter
      BY <1>2, <1>3 DEF HelperState
<1> DEFINE new == g.applied \ helper.applied
<1>5. /\ helper' = g /\ core' = [core EXCEPT !.serves = @ \cup new, !.counts = @ \cup new]
      /\ \/ Persisted(g) /\ pass' = "finish"
         \/ PersistFails(g) /\ pass' = "failed"
      /\ UNCHANGED <<carried, missed, today, born, published, settled, netVars, share>>
      BY DEF AddInbounds
<1> HIDE DEF g
<1>6. Advances(helper, g, core) BY <1>1, <1>2, <1>4, HelperRests, GoesOn
<1>7. g.epoch # 0 /\ ~g.stopped BY <1>2, <1>4
<1>8. Rests(g, core') BY <1>7 DEF Rests
<1>9. g.applied \subseteq Node BY <1>4 DEF HelperState
<1>10. core' \in Cores /\ core'.epoch > 0 /\ core'.epoch = core.epoch /\ core'.raw = core.raw
       BY <1>2, <1>5, <1>9 DEF Cores
<1> QED BY <1>1, <1>4, <1>5, <1>6, <1>7, <1>8, <1>10, SaveStep

LEMMA NewCoreSettles ==
    ASSUME core \in Cores, core.epoch > 0, NEW m, m = NewCore
    PROVE  m \in Cores /\ m.epoch > 0 /\ Quiet(m) /\ Settles(core, m)
<1>1. /\ m.epoch = core.epoch + 1 /\ m.raw = [n \in Node |-> 0] /\ m.serves = {}
      /\ m.counts = {}
      BY DEF NewCore, EmptyCore
<1>2. m.epoch \in Nat /\ m.epoch > 0 BY <1>1 DEF Cores
<1>3. m \in Cores BY <1>1, <1>2 DEF NewCore, EmptyCore, Cores
<1>4. Quiet(m) BY <1>1 DEF Quiet
<1> QED BY <1>1, <1>2, <1>3, <1>4 DEF Settles

\* A state whose nodes are as its counters.
LEMMA WithNodesOf ==
    ASSUME NEW h \in HelperState, NEW w, w = WithNodes(h)
    PROVE  /\ w \in HelperState /\ w.gen = h.gen /\ w.seq = h.seq /\ w.counter = h.counter
           /\ w.stopped = h.stopped /\ w.epoch = h.epoch
           /\ \A n \in DOMAIN w.nodes : w.nodes[n].total = w.counter[n].total
<1>1. /\ w \in HelperState /\ w.gen = h.gen /\ w.seq = h.seq /\ w.counter = h.counter
      /\ w.stopped = h.stopped /\ w.epoch = h.epoch
      BY WithNodesType
<1>2. \A n \in DOMAIN w.nodes : w.nodes[n].total = h.counter[n].total
      BY WithNodesType
<1> QED BY <1>1, <1>2

LEMMA StayUnbornStep ==
    ASSUME BillingInv, StayUnborn
    PROVE  BillingInv' /\ NothingLost
<1>1. pass # "removed" /\ helper.epoch = 0 BY DEF StayUnborn, PausedUnborn
<1>2. /\ helper \in HelperState /\ Rests(helper, core) /\ Settles(core, core)
      /\ core \in Cores /\ core.epoch > 0 /\ helper.seq <= helper.seq
      BY <1>1, HelperRests
<1> DEFINE p == [helper EXCEPT !.stopped = TRUE]
           h == WithNodes(p)
<1>3. p \in HelperState /\ p.gen = helper.gen /\ p.seq = helper.seq /\ p.counter = helper.counter
      BY <1>2 DEF HelperState
<1>4. /\ RecordAndEnd(h) /\ core' = core
      /\ missed' \subseteq Node /\ UNCHANGED <<carried, today, born, netVars, share>>
      BY <1>1, HelperRests DEF StayUnborn, coreVars
<1> HIDE DEF p
<1>5. /\ h \in HelperState /\ h.gen = helper.gen /\ h.seq = helper.seq
      /\ h.counter = helper.counter
      /\ \A n \in DOMAIN h.nodes : h.nodes[n].total = h.counter[n].total
      BY <1>3, WithNodesOf
<1> HIDE DEF h
<1>6. Rests(h, core') BY <1>1, <1>2, <1>4 DEF Rests
<1> QED BY <1>1, <1>2, <1>4, <1>5, <1>6, RecordStep

LEMMA SteadyPassStep ==
    ASSUME BillingInv, SteadyPass
    PROVE  BillingInv' /\ NothingLost
<1>1. pass # "removed" BY DEF SteadyPass, PassRuns
<1>2. /\ helper \in HelperState /\ TypeInv /\ missed \subseteq Node
      /\ core \in Cores /\ core.epoch > 0 /\ helper.seq <= helper.seq
      BY <1>1, HelperRests
<1> DEFINE p == Current
           h == WithNodes(p)
<1>3. /\ p \in HelperState /\ p.gen = helper.gen /\ p.seq = helper.seq
      /\ p.epoch = core.epoch /\ p.stopped = FALSE
      /\ p.counter = [n \in Node |-> Sample(helper.counter[n], n)]
      BY <1>2, CurrentType
<1>4. /\ RecordAndEnd(h) /\ core' = Limited(Wanted(p))
      /\ missed' \subseteq Node /\ UNCHANGED <<carried, today, born, netVars, share>>
      BY <1>2 DEF SteadyPass
<1> HIDE DEF p
<1>5. /\ h \in HelperState /\ h.gen = helper.gen /\ h.seq = helper.seq
      /\ h.epoch = core.epoch /\ h.stopped = FALSE
      /\ h.counter = [n \in Node |-> Sample(helper.counter[n], n)]
      /\ \A n \in DOMAIN h.nodes : h.nodes[n].total = h.counter[n].total
      BY <1>3, WithNodesOf
<1> HIDE DEF h
<1>6. Rests(h, core') BY <1>2, <1>5 DEF Rests
<1>7. core' \in Cores /\ core'.epoch > 0 /\ Settles(core, core') BY <1>2, <1>4, LimitedCore
<1> QED BY <1>1, <1>2, <1>4, <1>5, <1>6, <1>7, RecordStep

LEMMA FinishPassStep ==
    ASSUME BillingInv, FinishPass
    PROVE  BillingInv' /\ NothingLost
<1>1. pass = "finish" BY DEF FinishPass
<1>2. /\ helper \in HelperState /\ Settles(core, core) /\ TypeInv
      /\ core \in Cores /\ core.epoch > 0 /\ helper.seq <= helper.seq
      /\ helper.epoch # 0 /\ missed \subseteq Node
      BY <1>1, HelperRests
<1> DEFINE c == Collected(helper)
           h == WithNodes(c)
<1>3. /\ c \in HelperState /\ c.gen = helper.gen /\ c.seq = helper.seq
      /\ c.epoch = helper.epoch /\ c.stopped = FALSE /\ c.nodes = helper.nodes
      /\ c.counter = [n \in Node |-> Sample(helper.counter[n], n)]
      BY <1>2, CollectedType
<1>4. /\ \/ RecordAndEnd(h)
         \/ helper' = c /\ pass' = "over" /\ UNCHANGED <<disk, published, settled, faults>>
      /\ missed' \subseteq Node /\ UNCHANGED <<core, carried, today, born, netVars, share>>
      BY <1>2 DEF FinishPass
<1> HIDE DEF c
<1>5. /\ h \in HelperState /\ h.gen = helper.gen /\ h.seq = helper.seq
      /\ h.epoch = helper.epoch /\ h.stopped = FALSE
      /\ h.counter = [n \in Node |-> Sample(helper.counter[n], n)]
      /\ \A n \in DOMAIN h.nodes : h.nodes[n].total = h.counter[n].total
      BY <1>3, WithNodesOf
<1> HIDE DEF h
<1>6. Rests(h, core') /\ Rests(c, core') BY <1>2, <1>3, <1>5 DEF Rests
<1>7. CASE RecordAndEnd(h) BY <1>1, <1>2, <1>4, <1>5, <1>6, <1>7, RecordStep
<1>8. CASE helper' = c /\ pass' = "over" /\ UNCHANGED <<disk, published, settled, faults>>
  <2>1. Advances(helper, c, core) BY <1>2, <1>3, GoesOn
  <2>2. faults \in Nat /\ settled \in BOOLEAN BY <1>2 DEF TypeInv
  <2>3. HelperGoes(c) BY <1>1, <1>2, <1>3, <1>4, <1>6, <1>8, <2>1, <2>2 DEF HelperGoes, Passes
  <2> QED BY <1>4, <2>3, HelperStep DEF netVars
<1> QED BY <1>4, <1>7, <1>8

LEMMA CloseAdmissionsStep ==
    ASSUME BillingInv, CloseAdmissions
    PROVE  BillingInv' /\ NothingLost
<1>1. pass = "over" BY DEF CloseAdmissions
<1>2. /\ helper \in HelperState /\ core \in Cores /\ core.epoch > 0 /\ TypeInv
      /\ helper.seq <= helper.seq /\ ~helper.stopped /\ helper.epoch # 0
      BY <1>1, HelperRests
<1>3. /\ helper' = helper /\ core' = Limited({})
      /\ \/ Persisted(helper) /\ pass' = "close"
         \/ PersistFails(helper) /\ pass' = "failed"
      /\ UNCHANGED <<carried, missed, today, born, published, settled, netVars, share>>
      BY DEF CloseAdmissions
<1>4. Advances(helper, helper, core) BY <1>2, GoesOn
<1>5. Rests(helper, core') BY <1>2 DEF Rests
<1>6. core' \in Cores /\ core'.epoch > 0 /\ Settles(core, core') BY <1>2, <1>3, LimitedCore
<1>7. ASSUME pass' \in {"remove", "close"} PROVE CutsAreSaved'
  <2>1. pass' = "close" /\ disk' = helper BY <1>3, <1>7 DEF Persisted
  <2> QED BY <1>2, <1>3, <2>1, StatesDiffer DEF CutsAreSaved
<1> QED BY <1>1, <1>2, <1>3, <1>4, <1>5, <1>6, <1>7, SaveStep

LEMMA CloseInboundsStep ==
    ASSUME BillingInv, CloseInbounds
    PROVE  BillingInv' /\ NothingLost
<1>1. pass = "close" BY DEF CloseInbounds
<1>2. /\ helper \in HelperState /\ core \in Cores /\ core.epoch > 0 /\ TypeInv
      /\ helper.seq <= helper.seq /\ ~helper.stopped /\ helper.epoch # 0 /\ missed \subseteq Node
      BY <1>1, HelperRests
<1> DEFINE d == [helper EXCEPT !.applied = {}]
           h == WithNodes(d)
<1>3. /\ core' \in Without(core.serves) /\ RecordAndEnd(h)
      /\ missed' \subseteq Node /\ UNCHANGED <<carried, today, born, netVars, share>>
      BY <1>2 DEF CloseInbounds
<1>4. /\ d \in HelperState /\ d.gen = helper.gen /\ d.seq = helper.seq
      /\ d.counter = helper.counter /\ d.epoch = helper.epoch /\ d.stopped = helper.stopped
      BY <1>2 DEF HelperState
<1> HIDE DEF d
<1>5. /\ h \in HelperState /\ h.gen = helper.gen /\ h.seq = helper.seq
      /\ h.counter = helper.counter /\ h.epoch = helper.epoch /\ h.stopped = helper.stopped
      /\ \A n \in DOMAIN h.nodes : h.nodes[n].total = h.counter[n].total
      BY <1>4, WithNodesOf
<1> HIDE DEF h
<1>6. Rests(h, core') BY <1>2, <1>5 DEF Rests
<1>7. /\ core' \in Cores /\ core'.epoch = core.epoch /\ core'.serves \subseteq core.serves
      /\ \A n \in Node : core'.raw[n] = core.raw[n] \/ core'.raw[n] = 0
      BY <1>2, <1>3, WithoutCore
<1>8. \A n \in Node : Gain(helper.counter[n], core.epoch, core.raw[n]) <= Unsampled(n)
  <2>1. \A n \in Node : Unsampled(n) \in Nat BY UnsampledType
  <2> QED BY <1>1, <2>1 DEF Unsampled
<1>9. disk # NoState /\ disk.counter = helper.counter BY <1>1 DEF BillingInv, CutsAreSaved
<1>10. Cuts(h, core') BY <1>5, <1>7, <1>8, <1>9 DEF Cuts
<1> QED BY <1>1, <1>2, <1>3, <1>5, <1>6, <1>7, <1>10, RecordStep

LEMMA FailPassStep ==
    ASSUME BillingInv, FailPass
    PROVE  BillingInv' /\ NothingLost
<1>1. pass = "failed" /\ pass' = "idle" /\ settled' = FALSE BY DEF FailPass
<1>2. /\ helper \in HelperState /\ core \in Cores /\ core.epoch > 0
      /\ helper.seq <= helper.seq
      BY <1>1, HelperRests
<1> DEFINE f == [n \in DOMAIN helper.nodes |->
                   [total |-> helper.counter[n].total,
                    state |-> IF helper.nodes[n].state = "removed" THEN "removed" ELSE "error"]]
           h == [helper EXCEPT !.stopped = FALSE, !.nodes = f]
<1>3. core' = NewCore /\ (PersistReport(h, TRUE) \/ PersistReportFails(h))
      /\ missed' \subseteq Node /\ UNCHANGED <<carried, today, born, netVars, share>>
      BY <1>1, HelperRests DEF FailPass
<1>4. \A n \in DOMAIN helper.nodes : n \in Node /\ helper.counter[n].total \in Nat
      BY <1>2, NodeTypes, CounterTypes
<1>5. f \in [DOMAIN helper.nodes -> NodeReport] /\ DOMAIN helper.nodes \in SUBSET Node
      BY <1>4 DEF NodeReport
<1>6. f \in NodeReports BY <1>5, NodeReportsOf
<1>7. DOMAIN f = DOMAIN helper.nodes
      /\ \A n \in DOMAIN helper.nodes : f[n].total = helper.counter[n].total
      OBVIOUS
<1> HIDE DEF f
<1>8. /\ h \in HelperState /\ h.gen = helper.gen /\ h.seq = helper.seq
      /\ h.counter = helper.counter /\ h.nodes = f
      BY <1>2, <1>6 DEF HelperState
<1> HIDE DEF h
<1>9. \A n \in DOMAIN h.nodes : h.nodes[n].total = h.counter[n].total BY <1>7, <1>8
<1>10. core' \in Cores /\ core'.epoch > 0 /\ Quiet(core') /\ Settles(core, core')
       BY <1>2, <1>3, NewCoreSettles
<1>11. Rests(h, core') BY <1>10 DEF Rests
<1>12. pass' \in {"idle", "failed"} /\ settled' \in BOOLEAN BY <1>1
<1> QED BY <1>1, <1>2, <1>3, <1>8, <1>9, <1>10, <1>11, <1>12, ReportStep

LEMMA StopRevokedStep ==
    ASSUME BillingInv, StopRevoked
    PROVE  BillingInv' /\ NothingLost
<1>1. pass = "idle" BY DEF StopRevoked
<1>2. /\ helper \in HelperState /\ TypeInv
      /\ core \in Cores /\ core.epoch > 0 /\ helper.seq <= helper.seq
      BY <1>1, HelperRests
<1> DEFINE c == Collected(helper)
           d == [c EXCEPT !.applied = {}, !.stopped = TRUE]
           h == WithNodes(d)
<1>3. /\ c \in HelperState /\ c.gen = helper.gen /\ c.seq = helper.seq
      /\ c.counter = [n \in Node |-> Sample(helper.counter[n], n)]
      BY <1>2, CollectedType
<1>4. /\ core' = NewCore /\ RecordAndEnd(h)
      /\ missed' \subseteq Node /\ UNCHANGED <<carried, today, born, netVars, share>>
      BY <1>1, HelperRests DEF StopRevoked
<1> HIDE DEF c
<1>5. d \in HelperState /\ d.gen = c.gen /\ d.seq = c.seq /\ d.counter = c.counter
      BY <1>3 DEF HelperState
<1> HIDE DEF d
<1>6. /\ h \in HelperState /\ h.gen = helper.gen /\ h.seq = helper.seq
      /\ h.counter = [n \in Node |-> Sample(helper.counter[n], n)]
      /\ \A n \in DOMAIN h.nodes : h.nodes[n].total = h.counter[n].total
      BY <1>3, <1>5, WithNodesOf
<1> HIDE DEF h
<1>7. core' \in Cores /\ core'.epoch > 0 /\ Quiet(core') /\ Settles(core, core')
      BY <1>2, <1>4, NewCoreSettles
<1>8. Rests(h, core') BY <1>7 DEF Rests
<1> QED BY <1>1, <1>2, <1>4, <1>6, <1>7, <1>8, RecordStep

LEMMA CoreCallFailsStep ==
    ASSUME BillingInv, CoreCallFails
    PROVE  BillingInv' /\ NothingLost
<1>1. /\ pass # "removed" /\ pass' = "failed" /\ faults' = faults + 1
      /\ UNCHANGED <<coreVars, helperVars, netVars, share>>
      BY DEF CoreCallFails, Fault
<1>2. /\ TypeInv' /\ Pending' = Pending
      BY <1>1 DEF BillingInv, TypeInv, coreVars, helperVars, netVars, Passes, Pending
<1>3. HelperIsSound'
      BY <1>1, <1>2 DEF BillingInv, HelperIsSound, coreVars, helperVars, netVars
<1>4. NothingLost BY <1>1, NothingIsLost DEF coreVars, helperVars
<1>5. CutsAreSaved' BY <1>1 DEF CutsAreSaved
<1> QED BY <1>1, <1>2, <1>3, <1>4, <1>5 DEF BillingInv, coreVars, helperVars

\* A stopped instance goes; what it leaves on the Core is nothing.
LEMMA RemoveInstanceStep ==
    ASSUME BillingInv, RemoveInstance
    PROVE  BillingInv' /\ NothingLost
<1>1. /\ pass = "idle" /\ helper.stopped
      /\ disk' \in {disk, NoState} /\ pass' \in {"removed", "failed"}
      /\ pass' = "removed" => disk' = NoState
      /\ faults' = faults \/ faults' = faults + 1
      /\ UNCHANGED <<coreVars, helper, published, settled, netVars, share>>
      BY DEF RemoveInstance, Fault
<1>2. TypeInv' /\ Pending' = Pending
      BY <1>1 DEF BillingInv, TypeInv, coreVars, helperVars, netVars, Passes, Pending
<1>3. Quiet(core)
  <2>1. Rests(helper, core) BY <1>1, HelperRests
  <2> QED BY <1>1, <2>1 DEF Rests
<1>4. HelperIsSound'
      BY <1>1, <1>2, <1>3 DEF BillingInv, HelperIsSound, coreVars, netVars
<1>5. NothingLost BY <1>1, NothingIsLost DEF coreVars
<1>6. CutsAreSaved' BY <1>1 DEF CutsAreSaved
<1> QED BY <1>1, <1>2, <1>4, <1>5, <1>6 DEF BillingInv, coreVars

-----------------------------------------------------------------------------
(* The Core, the calendar and the restarts of the Helper *)

LEMMA TrafficStep ==
    ASSUME BillingInv, NEW x \in Node, Traffic(x)
    PROVE  BillingInv' /\ NothingLost
<1> DEFINE P == Pending
<1>1. /\ World(core, carried, born) /\ P \in SUBSET Report
      /\ share \in Share /\ core \in Cores
      /\ helper \in HelperState /\ (disk # NoState => disk \in HelperState)
      BY InvWorld
<1>2. /\ core' = [core EXCEPT !.raw[x] = @ + 1]
      /\ carried' = [carried EXCEPT ![x] = @ + 1]
      /\ x \in core.serves /\ x \notin core.blocked
      /\ missed' \subseteq missed \cup {x}
      /\ UNCHANGED <<today, born, helperVars, pass, netVars, share, faults>>
      BY DEF Traffic
<1>3. Pending' = P BY <1>2 DEF Pending, helperVars, netVars
<1>4. GenerationsInOrder(carried, born) /\ ReportsAreSound(P, carried, born)
      /\ LedgerIsSound(share, P, carried, born)
      BY DEF BillingInv
<1>5. ~Quiet(core) BY <1>2 DEF Quiet
<1>6. /\ pass # "removed" => Sound(helper, core, carried, born, P, share.ledger)
                             /\ ~(helper.stopped \/ helper.epoch = 0)
      /\ disk # NoState => Sound(disk, core, carried, born, P, share.ledger)
                           /\ ~(disk.stopped \/ disk.epoch = 0)
      /\ disk # NoState
      BY <1>5 DEF BillingInv, HelperIsSound, Rests
<1> HIDE DEF P
<1>7. ASSUME NEW h \in HelperState, Sound(h, core, carried, born, P, share.ledger)
      PROVE  Sound(h, core', carried', born, P, share.ledger)
  <2>1. Counts(h, core', carried', born)
        BY <1>1, <1>2, <1>7, CountsWithTraffic DEF Sound
  <2> QED BY <1>7, <2>1, SoundElsewhere
<1>8. /\ carried' \in [Node -> Nat]
      /\ GenerationsInOrder(carried', born) /\ ReportsAreSound(P, carried', born)
      /\ LedgerIsSound(share, P, carried', born)
      BY <1>1, <1>2, <1>4, MoreCarried
<1>9. /\ core' \in Cores /\ core'.epoch = core.epoch
      /\ core'.serves = core.serves /\ core'.blocked = core.blocked
      /\ \A n \in Node : core'.raw[n] = IF n = x THEN core.raw[n] + 1 ELSE core.raw[n]
  <2>1. x \in core.counts BY <1>1, <1>2 DEF Cores
  <2>2. /\ core'.epoch = core.epoch /\ core'.serves = core.serves
        /\ core'.blocked = core.blocked /\ core'.counts = core.counts
        /\ core'.raw \in [Node -> Nat]
        /\ \A n \in Node : core'.raw[n] = IF n = x THEN core.raw[n] + 1 ELSE core.raw[n]
        BY <1>1, <1>2 DEF Cores
  <2>3. core' \in [epoch: Nat, raw: [Node -> Nat], counts: SUBSET Node, serves: SUBSET Node,
                   blocked: SUBSET Node]
        BY <1>1, <1>2, <2>2 DEF Cores
  <2> QED BY <1>1, <2>1, <2>2, <2>3 DEF Cores
<1>10. TypeInv' BY <1>2, <1>8, <1>9 DEF BillingInv, TypeInv, helperVars, netVars
<1>11. HelperIsSound'
  <2>1. /\ pass # "removed" => Sound(helper, core', carried', born, P, share.ledger)
        /\ disk # NoState => Sound(disk, core', carried', born, P, share.ledger)
        BY <1>1, <1>6, <1>7
  <2>2. /\ pass' = pass /\ disk' = disk /\ helper' = helper /\ born' = born /\ share' = share
        /\ inbox' = inbox
        BY <1>2 DEF helperVars, netVars
  <2>3. /\ pass # "removed" => Rests(helper, core')
        /\ disk # NoState => Rests(disk, core')
        BY <1>6 DEF Rests
  <2>4. disk # NoState => Ahead(disk, helper, core')
    <3> SUFFICES ASSUME disk # NoState, NEW n \in Node
                 PROVE  Covers(disk.counter[n], helper.counter[n], core'.epoch, core'.raw[n])
        BY DEF Ahead
    <3>1. Covers(disk.counter[n], helper.counter[n], core.epoch, core.raw[n])
          BY DEF BillingInv, HelperIsSound, Ahead
    <3>2. /\ disk.counter[n] \in Counters /\ helper.counter[n] \in Counters
          /\ core.epoch \in Nat /\ core.raw[n] \in Nat
          BY <1>1, WorldTypes, CounterTypes
    <3>3. core'.raw[n] \in Nat /\ core.raw[n] <= core'.raw[n] BY <1>9, <3>2
    <3> QED BY <1>9, <3>1, <3>2, <3>3, CoversMore
  <2> QED BY <1>3, <1>6, <2>1, <2>2, <2>3, <2>4 DEF BillingInv, HelperIsSound
<1>12. NothingLost
  <2> SUFFICES ASSUME NEW n \in Node, ~Stale(n) PROVE Lost(n)' <= Lost(n) + Unsampled(n)
      BY DEF NothingLost
  <2>1. disk.counter[n].epoch = core.epoch => disk.counter[n].raw <= core.raw[n]
        BY <1>1, <1>6, WorldTypes, CounterTypes DEF Stale
  <2>2. /\ Due(disk.counter[n], core', n) =
             Due(disk.counter[n], core, n) + (IF n = x THEN 1 ELSE 0)
        /\ Due(disk.counter[n], core, n) \in Nat
        BY <1>1, <1>2, <1>6, <2>1, DueWithTraffic, DueTypes
  <2>3. carried[n] \in Nat /\ carried'[n] = carried[n] + (IF n = x THEN 1 ELSE 0)
        BY <1>1, <1>2 DEF World
  <2>4. Lost(n) = carried[n] - Due(disk.counter[n], core, n) BY <1>6 DEF Lost, Due
  <2>5. Lost(n)' = carried'[n] - Due(disk.counter[n], core', n)
        BY <1>2, <1>6 DEF Lost, Due, helperVars
  <2>6. Unsampled(n) \in Nat BY UnsampledType
  <2> QED BY <2>2, <2>3, <2>4, <2>5, <2>6
<1>13. CutsAreSaved'
  <2>1. /\ pass' = pass /\ disk' = disk /\ helper' = helper
        BY <1>2 DEF helperVars
  <2>2. pass \in {"remove", "close"} => disk # NoState /\ disk.counter = helper.counter
        BY DEF BillingInv, CutsAreSaved
  <2>3. ASSUME pass = "remove", NEW n \in core'.serves \ (helper.applied \cap Wanted(helper))
        PROVE  n \in core'.blocked /\ Gain(helper.counter[n], core'.epoch, core'.raw[n]) = 0
    <3>1. /\ n \in core.blocked /\ n \in Node
          /\ Gain(helper.counter[n], core.epoch, core.raw[n]) = 0
          BY <1>1, <1>9, <2>3 DEF BillingInv, CutsAreSaved, Cores
    <3>2. core'.raw[n] = core.raw[n] BY <1>2, <1>9, <3>1
    <3> QED BY <1>9, <3>1, <3>2
  <2>4. Wanted(helper)' = Wanted(helper) BY <2>1 DEF Wanted
  <2> QED BY <2>1, <2>2, <2>3, <2>4 DEF CutsAreSaved
<1> QED BY <1>2, <1>3, <1>8, <1>10, <1>11, <1>12, <1>13 DEF BillingInv

LEMMA CoreRestartsStep ==
    ASSUME BillingInv, CoreRestarts
    PROVE  BillingInv' /\ NothingLost
<1> DEFINE P == Pending
<1>1. /\ World(core, carried, born) /\ core \in Cores /\ core.epoch > 0
      /\ helper \in HelperState /\ (disk # NoState => disk \in HelperState)
      BY InvWorld
<1>2. /\ core' = NewCore /\ faults' = faults + 1
      /\ UNCHANGED <<carried, missed, today, born, helperVars, pass, netVars, share>>
      BY DEF CoreRestarts, Fault
<1>3. Pending' = P BY <1>2 DEF Pending, helperVars, netVars
<1>4. core' \in Cores /\ core'.epoch > 0 /\ Quiet(core') /\ Settles(core, core')
      BY <1>1, <1>2, NewCoreSettles
<1>5. TypeInv' BY <1>2, <1>4 DEF BillingInv, TypeInv, helperVars, netVars
<1>6. /\ pass # "removed" => Sound(helper, core', carried, born, P, share.ledger)
                             /\ Rests(helper, core')
      /\ disk # NoState => Sound(disk, core', carried, born, P, share.ledger)
                           /\ Rests(disk, core')
      BY <1>1, <1>4, SettlesSound DEF BillingInv, HelperIsSound
<1> HIDE DEF P
<1>7. HelperIsSound'
  <2>1. /\ pass' = pass /\ disk' = disk /\ helper' = helper /\ born' = born /\ share' = share
        /\ inbox' = inbox /\ carried' = carried
        BY <1>2 DEF helperVars, netVars
  <2>2. disk # NoState => Ahead(disk, helper, core')
    <3> SUFFICES ASSUME disk # NoState, NEW n \in Node
                 PROVE  Covers(disk.counter[n], helper.counter[n], core'.epoch, core'.raw[n])
        BY DEF Ahead
    <3>1. Covers(disk.counter[n], helper.counter[n], core.epoch, core.raw[n])
          BY DEF BillingInv, HelperIsSound, Ahead
    <3>2. Counts(helper, core, carried, born) /\ Counts(disk, core, carried, born)
          BY DEF BillingInv, HelperIsSound, Sound
    <3>3. core'.epoch = core.epoch + 1 /\ core'.raw[n] = 0 BY <1>2 DEF NewCore, EmptyCore
    <3>4. /\ disk.counter[n] \in Counters /\ helper.counter[n] \in Counters
          /\ core.epoch \in Nat /\ core.raw[n] \in Nat
          BY <1>1, WorldTypes, CounterTypes
    <3>5. disk.counter[n].epoch <= core.epoch /\ helper.counter[n].epoch <= core.epoch
          BY <3>2 DEF Counts
    <3> QED BY <3>1, <3>3, <3>4, <3>5, CoversOnNewCore
  <2> QED BY <1>3, <1>4, <1>6, <2>1, <2>2 DEF BillingInv, HelperIsSound
<1>8. NothingLost
  <2>1. core'.epoch = core.epoch + 1 /\ core.epoch \in Nat
        BY <1>1, <1>2, WorldTypes DEF NewCore, EmptyCore
  <2> QED BY <2>1 DEF NothingLost
<1>9. CutsAreSaved'
  <2>1. core'.serves = {} BY <1>2 DEF NewCore, EmptyCore
  <2> QED BY <1>2, <2>1 DEF BillingInv, CutsAreSaved, helperVars
<1> QED BY <1>2, <1>3, <1>5, <1>7, <1>8, <1>9 DEF BillingInv, P

LEMMA PeriodEndsStep ==
    ASSUME BillingInv, PeriodEnds
    PROVE  BillingInv' /\ NothingLost
<1>1. /\ today' = today + 1
      /\ UNCHANGED <<core, carried, missed, born, helperVars, pass, netVars, share, faults>>
      BY DEF PeriodEnds
<1>2. Pending' = Pending BY <1>1 DEF Pending, helperVars, netVars
<1>3. today \in Nat /\ share.period \in Nat /\ share.period <= today
      BY DEF BillingInv, TypeInv, Share
<1>4. today' \in Nat /\ share.period <= today' BY <1>1, <1>3
<1>5. TypeInv' BY <1>1, <1>4 DEF BillingInv, TypeInv, helperVars, netVars
<1>6. HelperIsSound' BY <1>1, <1>2 DEF BillingInv, HelperIsSound, helperVars, netVars
<1>7. NothingLost BY <1>1, NothingIsLost DEF helperVars
<1>8. CutsAreSaved'
  <2>1. helper' = helper /\ disk' = disk /\ core' = core /\ pass' = pass BY <1>1 DEF helperVars
  <2> QED BY <2>1 DEF BillingInv, CutsAreSaved, Wanted
<1> QED BY <1>1, <1>2, <1>5, <1>6, <1>7, <1>8 DEF BillingInv

\* Without a file a new generation is drawn, on a Core that has carried nothing yet.
LEMMA DrawsGeneration ==
    ASSUME BillingInv, Restarted(NewState(Len(born) + 1)), disk' = NoState,
           core' \in Cores, core'.epoch > 0, Quiet(core'), faults' \in Nat,
           UNCHANGED <<carried, missed, today, late, share>>
    PROVE  BillingInv' /\ NothingLost
<1> DEFINE h == NewState(Len(born) + 1)
           P == Pending
           Q == Pending'
<1>1. /\ World(core, carried, born) /\ P \in SUBSET Report /\ share \in Share
      /\ Len(born) \in Nat
      BY InvWorld, WorldTypes
<1>2. h \in HelperState /\ h.gen = Len(born) + 1 /\ h.version = 0
      BY <1>1, NewStateType DEF NewState
<1> HIDE DEF h
<1>3. /\ helper' = h /\ born' = Append(born, carried) /\ published' = Unpublished
      /\ pass' = "idle" /\ settled' = FALSE /\ inbox' = NoEnvelope /\ request' = NoReport
      BY <1>1, <1>2 DEF Restarted, h
<1>4. Q \in SUBSET P BY <1>3 DEF Pending, Unpublished
<1>5. /\ GenerationsInOrder(carried, born)
      /\ ReportsAreSound(P, carried, born) /\ LedgerIsSound(share, P, carried, born)
      BY DEF BillingInv
<1> HIDE DEF P, Q
<1>6. ReportsAreSound(Q, carried, born) /\ LedgerIsSound(share, Q, carried, born)
      /\ Q \in SUBSET Report
      BY <1>1, <1>4, <1>5, FewerReports
<1>7. /\ born' \in Seq([Node -> Nat])
      /\ GenerationsInOrder(carried, born') /\ ReportsAreSound(Q, carried, born')
      /\ LedgerIsSound(share, Q, carried, born')
      BY <1>1, <1>3, <1>5, <1>6, OneGenerationMore
<1>8. Sound(h, core', carried, born', Q, share.ledger)
      BY <1>1, <1>3, <1>6, NewGenerationIsSound DEF h
<1>9. Rests(h, core') BY DEF Rests
<1>10. TypeInv'
       BY <1>2, <1>3, <1>7 DEF BillingInv, TypeInv, Unpublished, Passes
<1>11. HelperIsSound' BY <1>3, <1>8, <1>9 DEF HelperIsSound, Q
<1>12. NothingLost BY DEF NothingLost
<1>13. CutsAreSaved' BY <1>3 DEF CutsAreSaved
<1> QED BY <1>7, <1>10, <1>11, <1>12, <1>13 DEF BillingInv, Q

LEMMA ReinstalledStep ==
    ASSUME BillingInv, Reinstalled
    PROVE  BillingInv' /\ NothingLost
<1>1. core \in Cores /\ core.epoch > 0 /\ faults \in Nat BY DEF BillingInv, TypeInv
<1>2. /\ core' = NewCore /\ faults' = faults + 1 /\ disk' = NoState
      /\ Restarted(NewState(Len(born) + 1))
      /\ UNCHANGED <<carried, missed, today, late, share>>
      BY DEF Reinstalled, Fault
<1>3. core' \in Cores /\ core'.epoch > 0 /\ Quiet(core') BY <1>1, <1>2, NewCoreSettles
<1> QED BY <1>1, <1>2, <1>3, DrawsGeneration

LEMMA HelperRestartsStep ==
    ASSUME BillingInv, HelperRestarts
    PROVE  BillingInv' /\ NothingLost
<1>1. /\ World(core, carried, born) /\ Pending \in SUBSET Report /\ share \in Share
      /\ share.ledger \in [Node -> Counters]
      /\ core \in Cores /\ core.epoch > 0 /\ (disk # NoState => disk \in HelperState)
      BY InvWorld
<1>2. faults \in Nat /\ faults' = faults + 1 BY DEF BillingInv, TypeInv, HelperRestarts, Fault
<1>3. /\ Restarted(Loaded) /\ UNCHANGED <<core, carried, missed, today, late, share>>
      /\ disk' = IF disk = NoState THEN NoState ELSE Loaded
      BY DEF HelperRestarts
<1>4. CASE disk = NoState
  <2>1. Loaded = NewState(Len(born) + 1) BY <1>4 DEF Loaded
  <2>2. Quiet(core) BY <1>4 DEF BillingInv, HelperIsSound
  <2> QED BY <1>1, <1>2, <1>3, <1>4, <2>1, <2>2, DrawsGeneration
<1>5. CASE disk # NoState
  <2> DEFINE h == Loaded
             P == Pending
             Q == Pending'
  <2>1. disk \in HelperState /\ Sound(disk, core, carried, born, P, share.ledger)
        /\ Rests(disk, core)
        BY <1>1, <1>5 DEF BillingInv, HelperIsSound
  <2>2. /\ h \in HelperState /\ h.gen = disk.gen /\ disk.seq <= h.seq
        /\ h.counter = disk.counter /\ h.nodes = disk.nodes
        /\ h.stopped = disk.stopped /\ h.epoch = disk.epoch
    <3>1. /\ disk.seq \in Nat /\ disk.ack.seq \in Nat
          /\ h = [disk EXCEPT !.seq = Larger(@, disk.ack.seq)] \/ h = disk
          BY <1>5, <2>1 DEF Loaded, HelperState, Acks
    <3>2. Larger(disk.seq, disk.ack.seq) \in Nat /\ disk.seq <= Larger(disk.seq, disk.ack.seq)
          BY <3>1 DEF Larger
    <3> HIDE DEF h
    <3> QED BY <2>1, <3>1, <3>2 DEF HelperState
  <2> HIDE DEF h
  <2>3. h.gen = Len(born) /\ Len(born) \in Nat BY <1>1, <2>1, <2>2, WorldTypes DEF Sound
  <2>4. /\ helper' = h /\ born' = born
        /\ published' = Published(h) \/ published' = Unpublished
        /\ pass' = "idle" /\ settled' = FALSE /\ inbox' = NoEnvelope /\ request' = NoReport
        /\ disk' = h
        BY <1>3, <1>5, <2>3 DEF Restarted, h
  <2>5. Q \in SUBSET (P \cup {ReportOf(h)})
    <3>1. Published(h).report = ReportOf(h) BY <2>2, ReportOfType
    <3>2. published'.report = NoReport \/ published'.report = ReportOf(h)
          BY <2>4, <3>1 DEF Unpublished
    <3> QED BY <1>3, <2>4, <3>2 DEF Pending
  <2>6. Advances(disk, h, core) BY <2>1, <2>2, GoesAhead
  <2>7. ReportsAreSound(P, carried, born) /\ LedgerIsSound(share, P, carried, born)
        /\ GenerationsInOrder(carried, born) /\ P \in SUBSET Report
        BY <1>1 DEF BillingInv
  <2> HIDE DEF P, Q
  <2>8. Sound(h, core, carried, born, P, share.ledger)
        BY <1>1, <2>1, <2>2, <2>6, <2>7, AdvancesSound
  <2>9. Sound(h, core, carried, born, Q, share.ledger)
        BY <2>2, <2>5, <2>8, SoundWithReport
  <2>10. ReportsAreSound(Q, carried, born)
         BY <1>1, <2>2, <2>5, <2>7, <2>8, NewReportIsSound
  <2>11. LedgerIsSound(share, Q, carried, born)
         BY <1>1, <2>2, <2>5, <2>7, <2>8, LedgerWithReport
  <2>12. TypeInv'
    <3>1. published'.report = NoReport \/ published'.report \in Report
          BY <2>2, <2>4, ReportOfType DEF Unpublished
    <3>2. TypeInv /\ faults' \in Nat BY <1>2 DEF BillingInv
    <3> QED BY <1>3, <2>2, <2>4, <3>1, <3>2 DEF TypeInv, Passes
  <2>13. Rests(h, core) BY <2>1, <2>2 DEF Rests
  <2>14. h # NoState BY <2>2, StatesDiffer
  <2>15. HelperIsSound'
    <3>1. Ahead(h, h, core) BY DEF Ahead, Covers
    <3> QED BY <1>3, <2>4, <2>9, <2>13, <2>14, <3>1 DEF HelperIsSound, Q
  <2>16. NothingLost
    <3>1. \A n \in Node : Due(disk.counter[n], core, n) \in Nat BY <1>1, <2>1, DueTypes
    <3> QED BY <1>3, <2>2, <2>4, <3>1, NothingIsLost
  <2>17. CutsAreSaved' BY <2>4 DEF CutsAreSaved
  <2> QED BY <1>3, <2>4, <2>7, <2>10, <2>11, <2>12, <2>15, <2>16, <2>17 DEF BillingInv, Q
<1> QED BY <1>4, <1>5

-----------------------------------------------------------------------------
(* Envelopes *)

LEMMA AcceptedType ==
    ASSUME TypeInv, NEW h \in HelperState, NEW e \in Envelope, NEW g, g = Accepted(h, e)
    PROVE  /\ g \in HelperState /\ g.gen = h.gen /\ g.seq = h.seq
           /\ g.counter = h.counter /\ g.nodes = h.nodes
           /\ g.stopped = h.stopped /\ g.epoch = h.epoch
<1> DEFINE q == [h EXCEPT !.version = e.version, !.status = e.status,
                          !.desired = e.desired, !.ack = e.ack]
           p == InPeriod(q)
<1>1. /\ q \in HelperState /\ q.gen = h.gen /\ q.seq = h.seq
      /\ q.counter = h.counter /\ q.nodes = h.nodes
      /\ q.stopped = h.stopped /\ q.epoch = h.epoch
      BY DEF HelperState, Envelope
<1> HIDE DEF q
<1>2. /\ p \in HelperState /\ p.gen = h.gen /\ p.seq = h.seq
      /\ p.counter = h.counter /\ p.nodes = h.nodes
      /\ p.stopped = h.stopped /\ p.epoch = h.epoch
      BY <1>1, InPeriodType
<1>3. g = p \/ g = [p EXCEPT !.used = Larger(@, e.used)] BY DEF Accepted, q
<1>4. Larger(p.used, e.used) \in Nat BY <1>2 DEF Larger, HelperState, Envelope
<1> HIDE DEF p
<1> QED BY <1>2, <1>3, <1>4 DEF HelperState

LEMMA AbsentStateType ==
    ASSUME NEW h \in HelperState, NEW e \in Envelope, NEW g, g = AbsentState(h, e)
    PROVE  /\ g \in HelperState /\ DOMAIN g.nodes = {}
           /\ g.gen = h.gen \/ (g.gen = e.ack.gen /\ g.gen # 0)
<1>1. NoNodes \in [{} -> NodeReport] BY DEF NoNodes
<1>2. NoNodes \in NodeReports /\ DOMAIN NoNodes = {} BY <1>1, NodeReportsOf
<1>3. /\ e.ack.gen \in Nat /\ e.ack.seq \in Nat /\ e.version \in Nat /\ e.status \in Statuses
      /\ e.desired \in SUBSET Node /\ e.ack \in Acks /\ e.period \in Nat /\ e.used \in Nat
      BY DEF Envelope, Acks
<1>4. /\ (IF e.ack.gen = 0 THEN h.gen ELSE e.ack.gen) \in Nat \ {0}
      /\ (IF e.ack.gen = 0 THEN h.seq ELSE e.ack.seq) + 1 \in Nat
      BY <1>3 DEF HelperState
<1>5. g \in HelperState BY <1>2, <1>3, <1>4 DEF AbsentState, HelperState
<1>6. g.nodes = NoNodes /\ g.gen = IF e.ack.gen = 0 THEN h.gen ELSE e.ack.gen
      BY DEF AbsentState, HelperState
<1> QED BY <1>2, <1>5, <1>6

LEMMA CutsStaySaved ==
    ASSUME BillingInv, UNCHANGED <<helper, disk, core, pass>>
    PROVE  CutsAreSaved'
BY DEF BillingInv, CutsAreSaved, Wanted

\* Nothing but the envelope goes.
LEMMA EnvelopeGoes ==
    ASSUME BillingInv, UNCHANGED <<coreVars, helper, disk, published, pass, request, late, share>>,
           inbox' = NoEnvelope, settled' \in BOOLEAN, faults' \in Nat
    PROVE  BillingInv' /\ NothingLost
<1>1. Pending' = Pending BY DEF Pending
<1>2. TypeInv' BY DEF BillingInv, TypeInv, coreVars
<1>3. HelperIsSound' BY <1>1 DEF BillingInv, HelperIsSound, coreVars
<1>4. NothingLost BY NothingIsLost DEF coreVars
<1>5. CutsAreSaved' BY CutsStaySaved DEF coreVars
<1> QED BY <1>1, <1>2, <1>3, <1>4, <1>5 DEF BillingInv, coreVars

\* reportAbsentInstance: the report of a revoked share that was never here has no nodes.
LEMMA AbsentStep ==
    ASSUME BillingInv, pass # "removed", NEW e \in Envelope, e.ack.gen <= Len(born), disk = NoState,
           helper' = AbsentState(helper, e), published' = Published(helper'),
           pass' = "removed", settled' \in BOOLEAN, inbox' = NoEnvelope,
           UNCHANGED <<coreVars, disk, faults, request, late, share>>
    PROVE  BillingInv' /\ NothingLost
<1> DEFINE g == AbsentState(helper, e)
           P == Pending
           Q == Pending'
<1>1. /\ World(core, carried, born) /\ P \in SUBSET Report /\ share \in Share
      /\ helper \in HelperState /\ Len(born) \in Nat
      BY InvWorld, WorldTypes
<1>2. /\ g \in HelperState /\ DOMAIN g.nodes = {}
      /\ g.gen = helper.gen \/ (g.gen = e.ack.gen /\ g.gen # 0)
      BY <1>1, AbsentStateType
<1> HIDE DEF g
<1>3. helper.gen = Len(born) BY DEF BillingInv, HelperIsSound, Sound
<1>4. g.gen \in 1..Len(born)
  <2>1. g.gen \in Nat /\ g.gen # 0 BY <1>2 DEF HelperState
  <2> QED BY <1>1, <1>2, <1>3, <2>1
<1>5. /\ ReportOf(g) \in Report /\ ReportOf(g).gen = g.gen /\ ReportOf(g).nodes = g.nodes
      /\ published'.report = ReportOf(g)
      BY <1>2, ReportOfType DEF g
<1>6. Q \in SUBSET (P \cup {ReportOf(g)}) BY <1>5 DEF Pending
<1>7. ReportsAreSound(P, carried, born) /\ LedgerIsSound(share, P, carried, born)
      BY DEF BillingInv
<1> HIDE DEF P, Q
<1>8. ReportsAreSound(Q, carried, born)
  <2>1. ASSUME NEW r \in Q
        PROVE  r \in P \/ (r.gen \in 1..Len(born) /\ DOMAIN r.nodes = {})
        BY <1>2, <1>4, <1>5, <1>6
  <2>2. ASSUME NEW r \in Q
        PROVE  /\ r.gen \in 1..Len(born)
               /\ \A n \in DOMAIN r.nodes :
                     born[r.gen][n] + r.nodes[n].total <= Until(r.gen, n, carried, born)
        BY <1>7, <2>1 DEF ReportsAreSound
  <2>3. ASSUME NEW r \in Q, NEW q \in Q, r.gen = q.gen, r.seq < q.seq,
               NEW n \in DOMAIN r.nodes \cap DOMAIN q.nodes
        PROVE  r.nodes[n].total <= q.nodes[n].total
    <3>1. r \in P /\ q \in P BY <2>1, <2>3
    <3> QED BY <1>7, <2>3, <3>1 DEF ReportsAreSound
  <2> QED BY <2>2, <2>3 DEF ReportsAreSound
<1>9. LedgerIsSound(share, Q, carried, born)
  <2>1. ASSUME NEW n \in Node, NEW r \in Q,
               r.gen = share.gen, share.ledger[n].epoch = r.gen, r.seq > share.seq,
               n \in DOMAIN r.nodes
        PROVE  share.ledger[n].raw <= r.nodes[n].total
    <3>1. r \in P BY <1>2, <1>5, <1>6, <2>1
    <3> QED BY <1>7, <2>1, <3>1 DEF LedgerIsSound
  <2> QED BY <1>7, <2>1 DEF LedgerIsSound
<1>10. TypeInv /\ HelperIsSound BY DEF BillingInv
<1>11. TypeInv' BY <1>2, <1>5, <1>10 DEF TypeInv, coreVars, Passes, g
<1>12. HelperIsSound' BY <1>10 DEF HelperIsSound, coreVars
<1>13. NothingLost BY DEF NothingLost
<1>14. CutsAreSaved' BY DEF CutsAreSaved
<1> QED BY <1>8, <1>9, <1>11, <1>12, <1>13, <1>14 DEF BillingInv, Q, coreVars

LEMMA AcceptStep ==
    ASSUME BillingInv, Accept
    PROVE  BillingInv' /\ NothingLost
<1>1. /\ TypeInv /\ helper \in HelperState /\ faults \in Nat /\ settled \in BOOLEAN
      /\ inbox \in Envelope /\ inbox.ack.gen <= Len(born)
      /\ core \in Cores /\ core.epoch > 0
      BY DEF BillingInv, TypeInv, HelperIsSound, Accept
<1>2. /\ inbox' = NoEnvelope
      /\ UNCHANGED <<coreVars, request, late, share>>
      BY DEF Accept
<1>3. CASE inbox.version < helper.version \/ pass = "removed"
  <2>1. UNCHANGED <<helper, disk, published, pass, settled, faults>> BY <1>3 DEF Accept
  <2> QED BY <1>1, <1>2, <2>1, EnvelopeGoes
<1>4. CASE ~(inbox.version < helper.version \/ pass = "removed")
  <2>1. /\ TakeOver(inbox)
        /\ settled' = (settled /\ inbox.version = helper.version
                               /\ inbox.status = helper.status)
        BY <1>4 DEF Accept
  <2>2. settled' \in BOOLEAN BY <2>1
  <2>3. pass = "idle" BY <1>4 DEF Accept
  <2>4. CASE Absent(inbox)
    <3>1. /\ helper' = AbsentState(helper, inbox) /\ published' = Published(helper')
          /\ pass' = "removed" /\ UNCHANGED <<disk, faults>> /\ disk = NoState
          BY <2>1, <2>4 DEF TakeOver, Absent
    <3> QED BY <1>1, <1>2, <2>2, <2>3, <3>1, AbsentStep
  <2>5. CASE ~Absent(inbox)
    <3> DEFINE g == Accepted(helper, inbox)
    <3>1. /\ helper' = g
          /\ \/ Persisted(helper') \/ PersistFails(helper')
             \/ UNCHANGED <<disk, faults>>
          /\ UNCHANGED <<published, pass>>
          BY <2>1, <2>5 DEF TakeOver
    <3>2. /\ g \in HelperState /\ g.gen = helper.gen /\ g.seq = helper.seq
          /\ g.counter = helper.counter /\ g.nodes = helper.nodes
          /\ g.stopped = helper.stopped /\ g.epoch = helper.epoch
          BY <1>1, AcceptedType
    <3> HIDE DEF g
    <3>3. (disk' = disk \/ disk' = g) /\ faults' \in Nat
          BY <1>1, <3>1 DEF Persisted, PersistFails, Fault
    <3>4. /\ Rests(helper, core) /\ helper.seq <= helper.seq /\ Settles(core, core)
          /\ missed \subseteq Node
          BY <2>3, HelperRests
    <3>5. core' = core /\ missed' = missed BY <1>2 DEF coreVars
    <3>6. Advances(helper, g, core) BY <1>1, <3>2, <3>4, GoesOn
    <3>7. Rests(g, core') BY <3>2, <3>4, <3>5 DEF Rests
    <3>8. HelperGoes(g)
          BY <1>1, <1>2, <2>2, <2>3, <3>1, <3>2, <3>3, <3>4, <3>5, <3>6, <3>7
          DEF HelperGoes, coreVars, Passes
    <3> QED BY <1>2, <3>8, HelperStep
  <2> QED BY <2>4, <2>5
<1> QED BY <1>3, <1>4

-----------------------------------------------------------------------------
(* The controller *)

LEMMA InPeriodShare ==
    ASSUME TypeInv, NEW s, s = ShareInPeriod(share)
    PROVE  /\ s \in Share /\ s.period <= today
           /\ s.gen = share.gen /\ s.seq = share.seq /\ s.retired = share.retired
           /\ s.ledger = share.ledger
           /\ \/ s.period = share.period /\ s.used = share.used
              \/ s.period > share.period /\ s.used = 0
<1>1. share \in Share /\ today \in Nat /\ share.period <= today /\ share.period \in Nat
      BY DEF TypeInv, Share
<1>2. CASE share.period = today BY <1>1, <1>2 DEF ShareInPeriod
<1>3. CASE share.period # today
  <2>1. s = [share EXCEPT !.period = today, !.used = 0] BY <1>3 DEF ShareInPeriod
  <2>2. today > share.period /\ today <= today BY <1>1, <1>3
  <2>3. s \in Share
    <3> USE DEF Share
    <3>1. share \in Share /\ today \in Nat /\ 0 \in Nat BY <1>1
    <3>2. [share EXCEPT !.period = today] \in Share BY <3>1
    <3> DEFINE p == [share EXCEPT !.period = today]
    <3>3. s = [p EXCEPT !.used = 0] BY <2>1
    <3> HIDE DEF p
    <3> QED BY <3>1, <3>2, <3>3 DEF p
  <2>4. /\ s.period = today /\ s.used = 0
        /\ s.gen = share.gen /\ s.seq = share.seq /\ s.retired = share.retired
        /\ s.ledger = share.ledger
        BY <1>1, <2>1 DEF Share
  <2> QED BY <2>2, <2>3, <2>4
<1> QED BY <1>2, <1>3

\* As long as no more generations were drawn than the controller remembers, it remembers
\* every one that has ever reported.
FewGenerations == Len(born) <= 1 + MaxRetired

LEMMA AllRetired ==
    ASSUME NEW k, NEW ca, NEW bo, World(k, ca, bo), Len(bo) <= 1 + MaxRetired,
           NEW P, NEW s \in Share, LedgerIsSound(s, P, ca, bo),
           NEW r, r.gen \in 1..Len(bo), Fresh(s, r)
    PROVE  Retired(s, r) = s.retired \cup ({s.gen} \ {0, r.gen})
<1> DEFINE all == s.retired \cup ({s.gen} \ {0, r.gen})
           others == (1..Len(bo)) \ {r.gen}
<1>1. Len(bo) \in Nat BY WorldTypes
<1>2. IsFiniteSet(1..Len(bo)) /\ Cardinality(1..Len(bo)) = Len(bo)
  <2>1. 1 \in Int /\ Len(bo) \in Int /\ 1 <= Len(bo) + 1 BY <1>1
  <2>2. /\ IsFiniteSet(1..Len(bo)) /\ Cardinality(1..Len(bo)) = Len(bo) - 1 + 1
        BY <2>1, IntervalSize
  <2> QED BY <1>1, <2>2
<1>3. Cardinality(others) = Len(bo) - 1 /\ IsFiniteSet(others)
      BY <1>2, FS_RemoveElement
<1>4. all \subseteq others
  <2>1. s.gen \in 0..Len(bo) /\ s.retired \subseteq 1..Len(bo) BY DEF LedgerIsSound
  <2>2. r.gen \notin s.retired BY DEF Fresh
  <2> QED BY <1>1, <2>1, <2>2
<1>5. Cardinality(all) <= Cardinality(others) /\ Cardinality(all) \in Nat
      BY <1>3, <1>4, FS_Subset, FS_CardinalityType
<1>6. MaxRetired \in Nat BY LimitAssumption
<1>7. Cardinality(all) <= MaxRetired BY <1>1, <1>3, <1>5, <1>6
<1> QED BY <1>7 DEF Retired

\* What a fresh report adds to the ledger is no less than what it adds to the usage.
LEMMA MergedShareIs ==
    ASSUME TypeInv, NEW r \in Report, NEW t, t = MergedShare(share, r),
           Retired(share, r) = share.retired \cup ({share.gen} \ {0, r.gen})
    PROVE  /\ t \in Share /\ t.period = ShareInPeriod(share).period
           /\ Merges(share, r, t)
           /\ \E gain \in [Node -> Nat] :
                 /\ \A n \in Node : t.ledger[n].total = share.ledger[n].total + gain[n]
                 /\ \/ t.used >= ShareInPeriod(share).used + Sum(gain)
                    \/ t.used = ShareInPeriod(share).used
<1> DEFINE s == ShareInPeriod(share)
           raw == [n \in Node |-> IF n \in DOMAIN r.nodes THEN r.nodes[n].total ELSE 0]
           gain == [n \in Node |-> IF n \in DOMAIN r.nodes
                                   THEN Gain(s.ledger[n], r.gen, raw[n]) ELSE 0]
           ledger == [n \in Node |-> IF n \in DOMAIN r.nodes
                                     THEN Merged(s.ledger[n], r.gen, raw[n]) ELSE s.ledger[n]]
           used == UsageMerged(s, r, Sum(gain))
           retired == Retired(s, r)
<1>1. /\ s \in Share /\ s.gen = share.gen /\ s.seq = share.seq /\ s.retired = share.retired
      /\ s.ledger = share.ledger
      BY InPeriodShare
<1>2. t = [s EXCEPT !.gen = r.gen, !.seq = r.seq, !.retired = retired,
                    !.used = used, !.ledger = ledger]
      BY DEF MergedShare
<1>3. /\ r.gen \in Nat /\ r.seq \in Nat /\ r.period \in Nat /\ r.used \in Nat
      /\ \A n \in DOMAIN r.nodes : r.nodes[n].total \in Nat
      BY ReportTypes DEF Report
<1>4. raw \in [Node -> Nat] BY <1>3
<1>5. \A n \in Node : s.ledger[n] \in Counters /\ s.ledger[n].total \in Nat BY <1>1, ShareTypes
<1> HIDE DEF s, raw
<1>6. \A n \in Node : /\ Gain(s.ledger[n], r.gen, raw[n]) \in Nat
                      /\ Merged(s.ledger[n], r.gen, raw[n]) \in Counters
  <2> TAKE n \in Node
  <2>1. s.ledger[n] \in Counters /\ raw[n] \in Nat BY <1>4, <1>5
  <2> QED BY <1>3, <2>1, MergedCounter
<1>7. gain \in [Node -> Nat] /\ ledger \in [Node -> Counters] BY <1>5, <1>6
<1>8. Sum(gain) \in Nat BY <1>7, SumIsNatural
<1>9. s.used \in Nat BY <1>1 DEF Share
<1>10. used \in Nat /\ (used >= s.used + Sum(gain) \/ used = s.used)
  <2> HIDE DEF gain
  <2> QED BY <1>3, <1>8, <1>9 DEF UsageMerged, Larger
<1>11. retired = share.retired \cup ({share.gen} \ {0, r.gen})
  <2>1. Retired(s, r) = Retired(share, r) BY <1>1 DEF Retired
  <2> QED BY <2>1
<1>12. retired \in SUBSET Nat BY <1>1, <1>11 DEF Share
<1>13. \A n \in Node : ledger[n].total = share.ledger[n].total + gain[n]
  <2> TAKE n \in Node
  <2>1. CASE n \in DOMAIN r.nodes BY <1>1, <2>1 DEF Merged
  <2>2. CASE n \notin DOMAIN r.nodes BY <1>1, <1>5, <2>2
  <2> QED BY <2>1, <2>2
<1>14. \A n \in Node :
          ledger[n] = IF n \in DOMAIN r.nodes
                      THEN Merged(share.ledger[n], r.gen, r.nodes[n].total) ELSE share.ledger[n]
       BY <1>1 DEF raw
<1> HIDE DEF gain, ledger, used, retired
<1>15. t \in Share BY <1>1, <1>2, <1>3, <1>7, <1>10, <1>12 DEF Share
<1>16. /\ t.gen = r.gen /\ t.seq = r.seq /\ t.retired = retired /\ t.used = used
       /\ t.ledger = ledger /\ t.period = s.period
       BY <1>1, <1>2 DEF Share
<1>17. Merges(share, r, t) BY <1>11, <1>14, <1>16 DEF Merges
<1> QED BY <1>7, <1>10, <1>13, <1>15, <1>16, <1>17 DEF s

LEMMA SameLedger ==
    ASSUME NEW s, NEW t, NEW P, NEW ca, NEW bo, LedgerIsSound(s, P, ca, bo),
           t.gen = s.gen, t.seq = s.seq, t.retired = s.retired, t.ledger = s.ledger
    PROVE  LedgerIsSound(t, P, ca, bo)
<1>1. \A B, n : Bytes(B, n, s, ca, bo) = Bytes(B, n, t, ca, bo) BY DEF Bytes
<1> QED BY <1>1 DEF LedgerIsSound

Revised(s, nodes, status) ==
    [s EXCEPT !.version = @ + 1, !.desired = nodes, !.status = status]

LEMMA NewRevision ==
    ASSUME NEW s \in Share, NEW nodes \in SUBSET Node, NEW status \in Statuses, NEW t,
           t = Revised(s, nodes, status)
    PROVE  /\ t \in Share /\ t.period = s.period /\ t.used = s.used
           /\ t.gen = s.gen /\ t.seq = s.seq /\ t.retired = s.retired /\ t.ledger = s.ledger
<1> DEFINE v == s.version + 1
<1>1. v \in Nat BY DEF Share
<1>2. t = [s EXCEPT !.version = v, !.desired = nodes, !.status = status]
      BY DEF Revised, Share
<1> HIDE DEF v
<1>3. t \in Share BY <1>1, <1>2 DEF Share
<1>4. /\ t.period = s.period /\ t.used = s.used
      /\ t.gen = s.gen /\ t.seq = s.seq /\ t.retired = s.retired /\ t.ledger = s.ledger
      BY <1>2 DEF Share
<1> QED BY <1>3, <1>4

\* What handling a report leaves of the share.
LEMMA HandledReport ==
    ASSUME BillingInv, FewGenerations, NEW r \in Pending \cup {NoReport},
           NEW t, t = AfterReport(r)
    PROVE  /\ t \in Share /\ t.period <= today
           /\ LedgerIsSound(t, Pending, carried, born)
           /\ \A h \in HelperState :
                 Sound(h, core, carried, born, Pending, share.ledger) =>
                    Sound(h, core, carried, born, Pending, t.ledger)
<1>1. /\ World(core, carried, born) /\ Pending \in SUBSET Report
      /\ share.ledger \in [Node -> Counters] /\ share \in Share /\ TypeInv
      BY InvWorld DEF BillingInv
<1>2. /\ GenerationsInOrder(carried, born) /\ ReportsAreSound(Pending, carried, born)
      /\ LedgerIsSound(share, Pending, carried, born)
      BY DEF BillingInv
<1>3. CASE t = share
      BY <1>1, <1>2, <1>3 DEF TypeInv
<1>4. CASE t = ShareInPeriod(share)
  <2>1. /\ t \in Share /\ t.period <= today
        /\ t.gen = share.gen /\ t.seq = share.seq /\ t.retired = share.retired
        /\ t.ledger = share.ledger
        BY <1>1, <1>4, InPeriodShare
  <2>2. LedgerIsSound(t, Pending, carried, born)
        BY <1>2, <2>1, SameLedger
  <2> QED BY <2>1, <2>2
<1>5. CASE Fresh(share, r) /\ t = MergedShare(share, r)
  <2>1. r \in Pending /\ r \in Report BY <1>1, <1>5 DEF Fresh
  <2>2. r.gen \in 1..Len(born) BY <1>2, <2>1 DEF ReportsAreSound
  <2>3. Retired(share, r) = share.retired \cup ({share.gen} \ {0, r.gen})
        BY <1>1, <1>2, <1>5, <2>2, AllRetired DEF FewGenerations
  <2>4. t \in Share /\ t.period = ShareInPeriod(share).period /\ Merges(share, r, t)
        BY <1>1, <1>5, <2>1, <2>3, MergedShareIs
  <2>5. t.period <= today BY <1>1, <2>4, InPeriodShare
  <2>6. LedgerIsSound(t, Pending, carried, born)
        BY <1>1, <1>2, <1>5, <2>1, <2>4, MergedLedger
  <2>7. ASSUME NEW h \in HelperState,
               Sound(h, core, carried, born, Pending, share.ledger)
        PROVE  Sound(h, core, carried, born, Pending, t.ledger)
        BY <1>1, <2>1, <2>4, <2>7, MergedSound
  <2> QED BY <2>4, <2>5, <2>6, <2>7
<1> QED BY <1>3, <1>4, <1>5 DEF AfterReport

\* The controller's row and the calls move, the Helper stays.
ShareGoes ==
    /\ share' \in Share /\ share'.period <= today
    /\ LedgerIsSound(share', Pending, carried, born)
    /\ \A h \in HelperState :
          Sound(h, core, carried, born, Pending, share.ledger) =>
             Sound(h, core, carried, born, Pending, share'.ledger)
    /\ request' \in {request, published.report, NoReport}
    /\ late' \subseteq late \cup ({request} \ {NoReport})
    /\ \/ inbox' = inbox
       \/ inbox' \in Envelope /\ inbox'.ack.gen = share'.gen
    /\ faults' \in Nat
    /\ UNCHANGED <<coreVars, helperVars, pass>>

LEMMA ShareStep ==
    ASSUME BillingInv, ShareGoes
    PROVE  BillingInv' /\ NothingLost
<1> DEFINE P == Pending
           Q == Pending'
<1>1. /\ P \in SUBSET Report /\ helper \in HelperState
      /\ (disk # NoState => disk \in HelperState)
      BY InvWorld
<1>2. TypeInv /\ HelperIsSound /\ GenerationsInOrder(carried, born)
      /\ ReportsAreSound(P, carried, born)
      BY DEF BillingInv
<1>3. /\ core' = core /\ carried' = carried /\ missed' = missed /\ today' = today
      /\ born' = born
      /\ helper' = helper /\ disk' = disk /\ published' = published /\ settled' = settled
      /\ pass' = pass
      BY DEF ShareGoes, coreVars, helperVars
<1>4. Q \in SUBSET P BY <1>3 DEF ShareGoes, Pending
<1>5. LedgerIsSound(share', P, carried, born) BY DEF ShareGoes
<1>6. TypeInv'
  <2>1. request' = NoReport \/ request' \in Report BY <1>2 DEF ShareGoes, TypeInv
  <2>2. late' \subseteq Report BY <1>2 DEF ShareGoes, TypeInv
  <2>3. inbox' = NoEnvelope \/ inbox' \in Envelope BY <1>2 DEF ShareGoes, TypeInv
  <2>4. share' \in Share /\ share'.period <= today' /\ faults' \in Nat
        BY <1>3 DEF ShareGoes
  <2> QED BY <1>2, <1>3, <2>1, <2>2, <2>3, <2>4 DEF TypeInv
<1>7. /\ pass # "removed" => Sound(helper, core, carried, born, P, share'.ledger)
      /\ disk # NoState => Sound(disk, core, carried, born, P, share'.ledger)
      BY <1>1, <1>2 DEF ShareGoes, HelperIsSound
<1> HIDE DEF P, Q
<1>8. /\ pass # "removed" => Sound(helper, core, carried, born, Q, share'.ledger)
      /\ disk # NoState => Sound(disk, core, carried, born, Q, share'.ledger)
      BY <1>4, <1>7 DEF Sound
<1>9. ReportsAreSound(Q, carried, born) /\ LedgerIsSound(share', Q, carried, born)
      BY <1>2, <1>4, <1>5, FewerReports
<1>10. inbox' # NoEnvelope => inbox'.ack.gen <= Len(born)
  <2>1. share'.gen \in 0..Len(born) BY <1>5 DEF LedgerIsSound
  <2>2. Len(born) \in Nat BY InvWorld, WorldTypes
  <2> QED BY <1>2, <2>1, <2>2 DEF ShareGoes, HelperIsSound
<1>11. HelperIsSound' BY <1>2, <1>3, <1>8, <1>10 DEF HelperIsSound, Q
<1>12. NothingLost BY <1>3, NothingIsLost
<1>13. CutsAreSaved' BY <1>3, CutsStaySaved
<1> QED BY <1>2, <1>3, <1>6, <1>9, <1>11, <1>12, <1>13 DEF BillingInv, Q

LEMMA ShareStays ==
    ASSUME BillingInv, UNCHANGED share
    PROVE  /\ share' \in Share /\ share'.period <= today
           /\ LedgerIsSound(share', Pending, carried, born)
           /\ \A h \in HelperState :
                 Sound(h, core, carried, born, Pending, share.ledger) =>
                    Sound(h, core, carried, born, Pending, share'.ledger)
           /\ faults \in Nat
BY DEF BillingInv, TypeInv

LEMMA UploadStep ==
    ASSUME BillingInv, Upload
    PROVE  BillingInv' /\ NothingLost
<1>1. /\ request' = published.report
      /\ UNCHANGED <<coreVars, helperVars, pass, inbox, late, share, faults>>
      BY DEF Upload
<1>2. ShareGoes BY <1>1, ShareStays DEF ShareGoes
<1> QED BY <1>2, ShareStep

LEMMA EnvelopeOfType ==
    ASSUME NEW s \in Share, NEW portsKnown \in BOOLEAN,
           NEW e, e = EnvelopeOf(s, portsKnown)
    PROVE  e \in Envelope /\ e.ack.gen = s.gen
<1>1. [gen |-> s.gen, seq |-> s.seq] \in Acks BY DEF Share, Acks
<1>2. (IF s.status = "active" /\ ~portsKnown THEN "paused" ELSE s.status) \in Statuses
      BY DEF Share, Statuses
<1> QED BY <1>1, <1>2 DEF EnvelopeOf, Envelope, Share

LEMMA AnswerStep ==
    ASSUME BillingInv, FewGenerations, Answer
    PROVE  BillingInv' /\ NothingLost
<1>1. /\ share' = AfterReport(request) /\ request' = NoReport
      /\ UNCHANGED <<coreVars, helperVars, pass, late>>
      BY DEF Answer
<1>2. request \in Pending \cup {NoReport} BY DEF Pending
<1>3. /\ share' \in Share /\ share'.period <= today
      /\ LedgerIsSound(share', Pending, carried, born)
      /\ \A h \in HelperState :
            Sound(h, core, carried, born, Pending, share.ledger) =>
               Sound(h, core, carried, born, Pending, share'.ledger)
      BY <1>1, <1>2, HandledReport
<1>4. faults \in Nat BY DEF BillingInv, TypeInv
<1>5. /\ \/ inbox' = inbox
         \/ inbox' \in Envelope /\ inbox'.ack.gen = share'.gen
      /\ faults' \in Nat
  <2>1. CASE Invalid(request) BY <1>4, <2>1 DEF Answer
  <2>2. CASE ~Invalid(request)
    <3>1. PICK portsKnown \in BOOLEAN :
             /\ inbox' = EnvelopeOf(share', portsKnown)
             /\ IF portsKnown THEN UNCHANGED faults ELSE Fault
          BY <2>2 DEF Answer
    <3>2. inbox' \in Envelope /\ inbox'.ack.gen = share'.gen
          BY <1>3, <3>1, EnvelopeOfType
    <3>3. faults' \in Nat BY <1>4, <3>1 DEF Fault
    <3> QED BY <3>2, <3>3
  <2> QED BY <2>1, <2>2
<1>6. ShareGoes BY <1>1, <1>3, <1>5 DEF ShareGoes
<1> QED BY <1>6, ShareStep

LEMMA UploadFailsStep ==
    ASSUME BillingInv, FewGenerations, UploadFails
    PROVE  BillingInv' /\ NothingLost
<1>1. /\ request # NoReport /\ request' = NoReport /\ faults' = faults + 1
      /\ UNCHANGED <<coreVars, helperVars, pass, inbox>>
      /\ \/ UNCHANGED <<share, late>>
         \/ share' = AfterReport(request) /\ UNCHANGED late
         \/ late' = late \cup {request} /\ UNCHANGED share
      BY DEF UploadFails, Fault
<1>2. request \in Pending \cup {NoReport} BY DEF Pending
<1>3. faults' \in Nat /\ inbox' = inbox BY <1>1 DEF BillingInv, TypeInv
<1>4. CASE UNCHANGED share
  <2>1. late' \subseteq late \cup ({request} \ {NoReport})
    <3>1. CASE UNCHANGED late BY <3>1
    <3>2. CASE late' = late \cup {request} BY <1>1, <3>2
    <3>3. CASE share' = AfterReport(request) /\ UNCHANGED late BY <3>3
    <3> QED BY <1>1, <3>1, <3>2, <3>3
  <2>2. ShareGoes BY <1>1, <1>3, <1>4, <2>1, ShareStays DEF ShareGoes
  <2> QED BY <2>2, ShareStep
<1>5. CASE share' = AfterReport(request) /\ UNCHANGED late
  <2>1. /\ share' \in Share /\ share'.period <= today
        /\ LedgerIsSound(share', Pending, carried, born)
        /\ \A h \in HelperState :
              Sound(h, core, carried, born, Pending, share.ledger) =>
                 Sound(h, core, carried, born, Pending, share'.ledger)
        BY <1>2, <1>5, HandledReport
  <2>2. ShareGoes BY <1>1, <1>3, <1>5, <2>1 DEF ShareGoes
  <2> QED BY <2>2, ShareStep
<1> QED BY <1>1, <1>4, <1>5

LEMMA HandleLateStep ==
    ASSUME BillingInv, FewGenerations, NEW r \in late, HandleLate(r)
    PROVE  BillingInv' /\ NothingLost
<1>1. /\ late' = late \ {r} /\ share' = AfterReport(r)
      /\ UNCHANGED <<coreVars, helperVars, pass, inbox, request, faults>>
      BY DEF HandleLate
<1>2. r \in Pending \cup {NoReport} BY DEF Pending
<1>3. /\ share' \in Share /\ share'.period <= today
      /\ LedgerIsSound(share', Pending, carried, born)
      /\ \A h \in HelperState :
            Sound(h, core, carried, born, Pending, share.ledger) =>
               Sound(h, core, carried, born, Pending, share'.ledger)
      BY <1>1, <1>2, HandledReport
<1>4. faults \in Nat BY DEF BillingInv, TypeInv
<1>5. ShareGoes BY <1>1, <1>3, <1>4 DEF ShareGoes
<1> QED BY <1>5, ShareStep

LEMMA PutDesiredStep ==
    ASSUME BillingInv, PutDesired
    PROVE  BillingInv' /\ NothingLost
<1>1. TypeInv /\ share \in Share /\ share.period <= today /\ faults \in Nat
      BY DEF BillingInv, TypeInv
<1>2. UNCHANGED <<coreVars, helperVars, pass, netVars, faults>> BY DEF PutDesired
<1>3. PICK nodes \in SUBSET Node :
         share' = [share EXCEPT !.version = @ + 1, !.desired = nodes]
      BY DEF PutDesired
<1>4. /\ share' \in Share /\ share'.period = share.period
      /\ share'.gen = share.gen /\ share'.seq = share.seq /\ share'.retired = share.retired
      /\ share'.ledger = share.ledger
  <2>1. share' = Revised(share, nodes, share.status) BY <1>1, <1>3 DEF Share, Revised
  <2>2. share.status \in Statuses BY <1>1 DEF Share
  <2> QED BY <1>1, <2>1, <2>2, NewRevision
<1>5. LedgerIsSound(share', Pending, carried, born)
      BY <1>4, SameLedger DEF BillingInv
<1>6. ShareGoes BY <1>1, <1>2, <1>4, <1>5 DEF ShareGoes, netVars
<1> QED BY <1>6, ShareStep

LEMMA SaveShareStep ==
    ASSUME BillingInv, SaveShare
    PROVE  BillingInv' /\ NothingLost
<1>1. TypeInv /\ faults \in Nat BY DEF BillingInv, TypeInv
<1>2. UNCHANGED <<coreVars, helperVars, pass, netVars, faults>> BY DEF SaveShare
<1> DEFINE s == ShareInPeriod(share)
<1>3. PICK status \in Statuses : share' = [s EXCEPT !.version = @ + 1, !.status = status]
      BY DEF SaveShare, Statuses
<1>4. /\ s \in Share /\ s.period <= today /\ s.gen = share.gen /\ s.seq = share.seq
      /\ s.retired = share.retired /\ s.ledger = share.ledger
      BY <1>1, InPeriodShare
<1> HIDE DEF s
<1>5. /\ share' \in Share /\ share'.period = s.period
      /\ share'.gen = s.gen /\ share'.seq = s.seq /\ share'.retired = s.retired
      /\ share'.ledger = s.ledger
  <2>1. share' = Revised(s, s.desired, status) BY <1>3, <1>4 DEF Share, Revised
  <2>2. s.desired \in SUBSET Node BY <1>4 DEF Share
  <2> QED BY <1>4, <2>1, <2>2, NewRevision
<1>6. LedgerIsSound(share', Pending, carried, born)
      BY <1>4, <1>5, SameLedger DEF BillingInv
<1>7. ShareGoes BY <1>1, <1>2, <1>4, <1>5, <1>6 DEF ShareGoes, netVars
<1> QED BY <1>7, ShareStep

-----------------------------------------------------------------------------
(* The invariant holds in every reachable state *)

LEMMA InitInv ==
    ASSUME Init
    PROVE  BillingInv
<1> USE DEF Init
<1>1. helper \in HelperState BY NewStateType
<1>2. /\ core.epoch = 1 /\ core.serves = {} /\ \A n \in Node : core.raw[n] = 0
      /\ core \in Cores
      BY DEF EmptyCore, Cores
<1>3. carried \in [Node -> Nat] /\ \A n \in Node : carried[n] = 0 OBVIOUS
<1>4. /\ born \in Seq([Node -> Nat]) /\ Len(born) = 1 /\ born[1] = carried BY <1>3
<1>5. /\ share.gen = 0 /\ share.seq = 0 /\ share.retired = {} /\ share.period = 1
      /\ share.ledger = [n \in Node |-> NoCounter]
      /\ share \in Share
      BY DEF Share, Statuses, Counters, NoCounter
<1>6. TypeInv
  <2>1. today \in Nat /\ faults \in Nat /\ share.period <= today BY <1>5
  <2>2. published.report = NoReport BY DEF Unpublished
  <2>3. pass \in Passes /\ settled \in BOOLEAN BY DEF Passes
  <2> QED BY <1>1, <1>2, <1>3, <1>4, <1>5, <2>1, <2>2, <2>3 DEF TypeInv
<1>7. Pending = {} BY DEF Pending, Unpublished
<1>8. Quiet(core) BY <1>2 DEF Quiet
<1>9. Sound(helper, core, carried, born, {}, share.ledger)
  <2>1. helper.gen = 1 /\ \A n \in Node : helper.counter[n] = NoCounter BY DEF NewState
  <2>2. DOMAIN helper.nodes = {} BY DEF NewState, NoNodes
  <2>3. \A n \in Node : share.ledger[n].epoch = 0 BY <1>5 DEF NoCounter
  <2>4. Counts(helper, core, carried, born)
    <3>1. NoCounter.epoch = 0 /\ NoCounter.raw = 0 /\ NoCounter.total = 0 BY DEF NoCounter
    <3>2. \A n \in Node : Due(helper.counter[n], core, n) = 0
          BY <1>2, <2>1, <3>1 DEF Due, Gain, Delta
    <3> QED BY <1>2, <1>3, <1>4, <2>1, <3>1, <3>2 DEF Counts
  <2> QED BY <1>4, <2>1, <2>2, <2>3, <2>4 DEF Sound
<1>10. HelperIsSound BY <1>7, <1>8, <1>9 DEF HelperIsSound, Rests
<1>11. GenerationsInOrder(carried, born) BY <1>3, <1>4 DEF GenerationsInOrder
<1>12. ReportsAreSound(Pending, carried, born) BY <1>7 DEF ReportsAreSound
<1>13. LedgerIsSound(share, Pending, carried, born)
  <2>1. ASSUME NEW n \in Node PROVE Bytes({}, n, share, carried, born)
    <3>1. share.ledger[n].total = 0 BY <1>5 DEF NoCounter
    <3>2. Cardinality({}) = 0 BY FS_EmptySet
    <3> QED BY <3>1, <3>2 DEF Bytes
  <2>2. \A n \in Node : share.ledger[n].epoch = 0 BY <1>5 DEF NoCounter
  <2>3. \A n \in Node : \E B \in SUBSET (1..carried[n]) : Bytes(B, n, share, carried, born)
        BY <2>1
  <2>4. share.gen \in 0..Len(born) /\ share.gen \notin share.retired
        /\ share.retired \subseteq 1..Len(born)
        BY <1>4, <1>5
  <2> QED BY <1>7, <2>2, <2>3, <2>4 DEF LedgerIsSound
<1>14. CutsAreSaved BY DEF CutsAreSaved
<1> QED BY <1>6, <1>10, <1>11, <1>12, <1>13, <1>14 DEF BillingInv

LEMMA InvStep ==
    ASSUME BillingInv, FewGenerations, [Next]_vars
    PROVE  BillingInv' /\ NothingLost
<1>1. CASE UNCHANGED vars
  <2>1. /\ UNCHANGED coreVars /\ UNCHANGED helperVars /\ UNCHANGED netVars
        /\ UNCHANGED <<pass, share, faults>>
        BY <1>1 DEF vars
  <2>2. ShareGoes
    <3>1. UNCHANGED <<share, request, late, inbox, faults>> BY <2>1 DEF netVars
    <3> QED BY <2>1, <3>1, ShareStays DEF ShareGoes
  <2> QED BY <2>2, ShareStep
<1>2. ASSUME NEW n \in Node, Traffic(n) PROVE BillingInv' /\ NothingLost BY <1>2, TrafficStep
<1>3. CASE CoreRestarts BY <1>3, CoreRestartsStep
<1>4. CASE PeriodEnds BY <1>4, PeriodEndsStep
<1>5. CASE HelperRestarts BY <1>5, HelperRestartsStep
<1>6. CASE Reinstalled BY <1>6, ReinstalledStep
<1>7. CASE Accept BY <1>7, AcceptStep
<1>8. CASE Reconcile
      BY <1>8, StayUnbornStep, SaveFinalCountersStep, SteadyPassStep, SaveCursorsStep,
         RemoveInboundsStep, AddInboundsStep, FinishPassStep, CloseAdmissionsStep,
         CloseInboundsStep, CoreCallFailsStep,
         FailPassStep, StopRevokedStep, RemoveInstanceStep
      DEF Reconcile
<1>9. CASE Upload BY <1>9, UploadStep
<1>10. CASE Answer BY <1>10, AnswerStep
<1>11. CASE UploadFails BY <1>11, UploadFailsStep
<1>12. CASE PutDesired BY <1>12, PutDesiredStep
<1>13. CASE SaveShare BY <1>13, SaveShareStep
<1>14. ASSUME NEW r \in late, HandleLate(r) PROVE BillingInv' /\ NothingLost BY <1>14, HandleLateStep
<1> QED BY <1>1, <1>2, <1>3, <1>4, <1>5, <1>6, <1>7, <1>8, <1>9, <1>10, <1>11, <1>12,
           <1>13, <1>14
        DEF Next

\* Reachable states are sound as long as the controller remembers every generation that may
\* still report.
THEOREM BillingIsSound == Spec /\ []FewGenerations => []BillingInv
<1>1. Init => BillingInv BY InitInv
<1>2. BillingInv /\ FewGenerations /\ [Next]_vars => BillingInv' BY InvStep
<1> QED BY <1>1, <1>2, PTL DEF Spec

-----------------------------------------------------------------------------
(* The ledger is a meter *)

LEMMA BilledIsCarried ==
    ASSUME NEW ca \in [Node -> Nat], NEW bo, NEW P, NEW s \in Share,
           LedgerIsSound(s, P, ca, bo), NEW n \in Node
    PROVE  /\ s.ledger[n].total \in Nat /\ ca[n] \in Nat
           /\ s.ledger[n].total <= ca[n]
<1>2. PICK B \in SUBSET (1..ca[n]) : Bytes(B, n, s, ca, bo)
      BY DEF LedgerIsSound
<1>3. ca[n] \in Nat OBVIOUS
<1>4. IsFiniteSet(1..ca[n]) /\ Cardinality(1..ca[n]) = ca[n]
  <2>1. 1 \in Int /\ ca[n] \in Int /\ 1 <= ca[n] + 1 BY <1>3
  <2>2. /\ IsFiniteSet(1..ca[n])
        /\ Cardinality(1..ca[n]) = ca[n] - 1 + 1
        BY <2>1, IntervalSize
  <2> QED BY <1>3, <2>2
<1>5. Cardinality(B) <= ca[n] BY <1>4, FS_Subset
<1>6. Cardinality(B) = s.ledger[n].total BY <1>2 DEF Bytes
<1>7. s.ledger[n].total \in Nat BY ShareTypes
<1> QED BY <1>3, <1>5, <1>6, <1>7

LEMMA MeterBilled ==
    ASSUME NEW gain \in [Node -> Nat],
           gain = [n \in Node |-> [x \in Node |-> share.ledger[x].total]'[n]
                                  - [x \in Node |-> share.ledger[x].total][n]]
    PROVE  Meter!Billed = Sum(gain)
BY DEF Meter!Billed, Sum, MapThenSumSet, MapThenFoldSet, Meter!MapThenSumSet,
       Meter!MapThenFoldSet

\* Steps that leave counts and traffic alone.
LEMMA MeterStays ==
    ASSUME UNCHANGED carried, share'.ledger = share.ledger,
           share'.period = share.period, share'.used = share.used
    PROVE  UNCHANGED Meter!meterVars
BY DEF Meter!meterVars

\* A reading of the meter: what was gained is billed.
LEMMA MeterReads ==
    ASSUME BillingInv, BillingInv', UNCHANGED carried,
           NEW gain \in [Node -> Nat],
           \A n \in Node : share'.ledger[n].total = share.ledger[n].total + gain[n]
    PROVE  /\ \A n \in Node : share'.ledger[n].total \in share.ledger[n].total..carried[n]
           /\ Meter!Billed = Sum(gain)
<1>1. \A n \in Node : /\ share.ledger[n].total \in Nat /\ share'.ledger[n].total \in Nat
                      /\ carried[n] \in Nat /\ share'.ledger[n].total <= carried[n]
  <2>1. /\ share \in Share /\ share' \in Share /\ carried \in [Node -> Nat]
        /\ carried' = carried
        /\ LedgerIsSound(share, Pending, carried, born)
        /\ LedgerIsSound(share', Pending', carried', born')
        BY DEF BillingInv, TypeInv
  <2>2. LedgerIsSound(share', Pending', carried, born') BY <2>1
  <2> QED BY <2>1, <2>2, BilledIsCarried
<1>2. gain = [n \in Node |-> [x \in Node |-> share.ledger[x].total]'[n]
                             - [x \in Node |-> share.ledger[x].total][n]]
  <2>1. \A n \in Node : gain[n] = share'.ledger[n].total - share.ledger[n].total
        BY <1>1
  <2> QED BY <2>1
<1>3. Meter!Billed = Sum(gain) BY <1>2, MeterBilled
<1>4. \A n \in Node :
         share'.ledger[n].total \in share.ledger[n].total..carried[n]
      BY <1>1
<1> QED BY <1>3, <1>4

LEMMA NothingGained ==
    ASSUME BillingInv, share'.ledger = share.ledger,
           NEW gain, gain = [n \in Node |-> 0]
    PROVE  /\ gain \in [Node -> Nat]
           /\ \A n \in Node : share'.ledger[n].total = share.ledger[n].total + gain[n]
<1>1. \A n \in Node : share.ledger[n].total \in Nat BY InvWorld, ShareTypes
<1> QED BY <1>1

\* A change of the period, or a stutter.
LEMMA MeterPeriod ==
    ASSUME BillingInv, BillingInv', UNCHANGED carried, share'.ledger = share.ledger,
           \/ share'.period = share.period /\ share'.used = share.used
           \/ share'.period > share.period /\ share'.used = 0
    PROVE  Meter!NewPeriod \/ UNCHANGED Meter!meterVars
<1>1. CASE share'.period = share.period /\ share'.used = share.used
      BY <1>1, MeterStays
<1>2. CASE share'.period > share.period /\ share'.used = 0
  <2> DEFINE gain == [n \in Node |-> 0]
  <2>2. /\ gain \in [Node -> Nat]
        /\ \A n \in Node : share'.ledger[n].total = share.ledger[n].total + gain[n]
        BY NothingGained
  <2> HIDE DEF gain
  <2>3. \A n \in Node : share'.ledger[n].total \in share.ledger[n].total..carried[n]
        BY <2>2, MeterReads
  <2>1. Meter!Reading(0) BY <1>2, <2>3 DEF Meter!Reading
  <2> QED BY <1>2, <2>1 DEF Meter!NewPeriod
<1> QED BY <1>1, <1>2

\* mergeFLVXReport is a reading, or nothing happens.
LEMMA MeterMerges ==
    ASSUME BillingInv, BillingInv', FewGenerations, UNCHANGED carried,
           NEW r \in Pending \cup {NoReport}, share' = AfterReport(r)
    PROVE  [Meter!MeterNext]_(Meter!meterVars)
<1>1. TypeInv /\ share \in Share /\ World(core, carried, born) /\ Pending \in SUBSET Report
      /\ LedgerIsSound(share, Pending, carried, born)
      /\ ReportsAreSound(Pending, carried, born)
      BY InvWorld DEF BillingInv
<1>2. CASE share' = share BY <1>2, MeterStays
<1>3. CASE share' = ShareInPeriod(share)
  <2>1. /\ share'.ledger = share.ledger
        /\ \/ share'.period = share.period /\ share'.used = share.used
           \/ share'.period > share.period /\ share'.used = 0
        BY <1>1, <1>3, InPeriodShare
  <2> QED BY <2>1, MeterPeriod DEF Meter!MeterNext
<1>4. CASE Fresh(share, r) /\ share' = MergedShare(share, r)
  <2>1. r \in Pending /\ r \in Report BY <1>1, <1>4 DEF Fresh
  <2>2. r.gen \in 1..Len(born) BY <1>1, <2>1 DEF ReportsAreSound
  <2>3. Retired(share, r) = share.retired \cup ({share.gen} \ {0, r.gen})
        BY <1>1, <1>4, <2>2, AllRetired DEF FewGenerations
  <2>4. share'.period = ShareInPeriod(share).period BY <1>1, <1>4, <2>1, <2>3, MergedShareIs
  <2>5. PICK gain \in [Node -> Nat] :
           /\ \A n \in Node : share'.ledger[n].total = share.ledger[n].total + gain[n]
           /\ \/ share'.used >= ShareInPeriod(share).used + Sum(gain)
              \/ share'.used = ShareInPeriod(share).used
        BY <1>1, <1>4, <2>1, <2>3, MergedShareIs
  <2>6. ShareInPeriod(share) \in Share
        /\ \/ /\ ShareInPeriod(share).period = share.period
              /\ ShareInPeriod(share).used = share.used
           \/ ShareInPeriod(share).period > share.period /\ ShareInPeriod(share).used = 0
        BY <1>1, InPeriodShare
  <2>7. ShareInPeriod(share).used \in Nat BY <2>6 DEF Share
  <2>8. /\ \A n \in Node : share'.ledger[n].total \in share.ledger[n].total..carried[n]
        /\ Meter!Billed = Sum(gain)
        BY <2>5, MeterReads
  <2>9. CASE ShareInPeriod(share).period = share.period
             /\ ShareInPeriod(share).used = share.used
    <3>1. share'.used >= share.used + Meter!Billed \/ share'.used = share.used
          BY <2>5, <2>8, <2>9
    <3>2. Meter!Reading(share.used) BY <2>8, <3>1 DEF Meter!Reading
    <3>3. UNCHANGED share.period BY <2>4, <2>9
    <3> QED BY <3>2, <3>3 DEF Meter!MeterNext
  <2>10. CASE ShareInPeriod(share).period > share.period /\ ShareInPeriod(share).used = 0
    <3>1. share'.used >= 0 + Meter!Billed \/ share'.used = 0
          BY <2>5, <2>8, <2>10
    <3>2. Meter!Reading(0) BY <2>8, <3>1 DEF Meter!Reading
    <3>3. share'.period > share.period BY <2>4, <2>10
    <3> QED BY <3>2, <3>3 DEF Meter!MeterNext, Meter!NewPeriod
  <2> QED BY <2>6, <2>9, <2>10
<1> QED BY <1>2, <1>3, <1>4 DEF AfterReport

LEMMA MeterStep ==
    ASSUME BillingInv, BillingInv', FewGenerations, [Next]_vars
    PROVE  [Meter!MeterNext]_(Meter!meterVars)
<1>1. CASE UNCHANGED <<carried, share>> BY <1>1, MeterStays
<1>2. ASSUME NEW n \in Node, Traffic(n) PROVE [Meter!MeterNext]_(Meter!meterVars)
  <2>1. carried' = [carried EXCEPT ![n] = @ + 1] /\ UNCHANGED share BY <1>2 DEF Traffic
  <2>2. Meter!Carries(n) BY <2>1 DEF Meter!Carries
  <2> QED BY <2>2 DEF Meter!MeterNext
<1>3. CASE Answer
  <2>1. share' = AfterReport(request) /\ UNCHANGED carried BY <1>3 DEF Answer, coreVars
  <2>2. request \in Pending \cup {NoReport} BY DEF Pending
  <2> QED BY <2>1, <2>2, MeterMerges
<1>4. CASE UploadFails
  <2>1. UNCHANGED carried BY <1>4 DEF UploadFails, coreVars
  <2>2. UNCHANGED share \/ share' = AfterReport(request) BY <1>4 DEF UploadFails
  <2>3. request \in Pending \cup {NoReport} BY DEF Pending
  <2> QED BY <1>1, <2>1, <2>2, <2>3, MeterMerges
<1>5. ASSUME NEW r \in late, HandleLate(r) PROVE [Meter!MeterNext]_(Meter!meterVars)
  <2>1. share' = AfterReport(r) /\ UNCHANGED carried BY <1>5 DEF HandleLate, coreVars
  <2>2. r \in Pending \cup {NoReport} BY DEF Pending
  <2> QED BY <2>1, <2>2, MeterMerges
<1>6. CASE PutDesired
  <2>1. UNCHANGED carried BY <1>6 DEF PutDesired, coreVars
  <2>2. share \in Share BY InvWorld
  <2>3. /\ share'.ledger = share.ledger /\ share'.period = share.period
        /\ share'.used = share.used
        BY <1>6, <2>2 DEF PutDesired, Share
  <2> QED BY <2>1, <2>3, MeterStays
<1>7. CASE SaveShare
  <2> DEFINE s == ShareInPeriod(share)
  <2>1. UNCHANGED carried BY <1>7 DEF SaveShare, coreVars
  <2>2. PICK status \in Statuses : share' = [s EXCEPT !.version = @ + 1, !.status = status]
        BY <1>7 DEF SaveShare, Statuses
  <2>3. /\ s \in Share /\ s.ledger = share.ledger
        /\ \/ s.period = share.period /\ s.used = share.used
           \/ s.period > share.period /\ s.used = 0
        BY InPeriodShare DEF BillingInv
  <2> HIDE DEF s
  <2>4. share'.ledger = s.ledger /\ share'.period = s.period /\ share'.used = s.used
        BY <2>2, <2>3 DEF Share
  <2> QED BY <2>1, <2>3, <2>4, MeterPeriod DEF Meter!MeterNext
<1>8. CASE Reconcile
  <2>1. UNCHANGED <<carried, share>>
        BY <1>8 DEF Reconcile, StayUnborn, SaveFinalCounters, SteadyPass, SaveCursors,
           RemoveInbounds, AddInbounds, FinishPass, CloseAdmissions, CloseInbounds,
           CoreCallFails, FailPass, StopRevoked, RemoveInstance, coreVars
  <2> QED BY <1>1, <2>1
<1>9. CASE CoreRestarts \/ PeriodEnds \/ HelperRestarts \/ Reinstalled \/ Accept \/ Upload
  <2>1. UNCHANGED <<carried, share>>
        BY <1>9 DEF CoreRestarts, PeriodEnds, HelperRestarts, Reinstalled, Accept, Upload, coreVars
  <2> QED BY <1>1, <2>1
<1>10. CASE UNCHANGED vars
  <2>1. UNCHANGED <<carried, share>> BY <1>10 DEF vars, coreVars
  <2> QED BY <1>1, <2>1
<1> QED BY <1>2, <1>3, <1>4, <1>5, <1>6, <1>7, <1>8, <1>9, <1>10 DEF Next

LEMMA MeterBegins ==
    ASSUME Init
    PROVE  Meter!MeterInit
<1>1. /\ carried = [n \in Node |-> 0] /\ share.period = 1 /\ share.used = 0
      /\ share.ledger = [n \in Node |-> NoCounter]
      BY DEF Init
<1>2. [n \in Node |-> share.ledger[n].total] = [n \in Node |-> 0] BY <1>1 DEF NoCounter
<1> QED BY <1>1, <1>2 DEF Meter!MeterInit

\* With its reports, restarts and faults the ledger is no more than a meter
\* (mergeFLVXReport): nothing is billed that was not carried, nothing twice, and the usage of
\* a period grows by what is billed in it.  It holds for any number of faults, as long as no
\* more generations were drawn than the controller remembers (it remembers 32 of them besides
\* the current one): an older one that still reports is billed once more.
THEOREM LedgerIsAMeter == Spec /\ []FewGenerations => BillsLikeAMeter
<1>1. Init => Meter!MeterInit BY MeterBegins
<1>2. BillingInv /\ BillingInv' /\ FewGenerations /\ [Next]_vars
      => [Meter!MeterNext]_(Meter!meterVars)
      BY MeterStep
<1> QED BY <1>1, <1>2, BillingIsSound, PTL DEF Spec, BillsLikeAMeter, Meter!MeterSpec

\* Only the end of a Core, or of the machine, loses traffic (collect, persist): no sampling,
\* no removal of inbounds, no failed save and no crash of the Helper does, in any order.  It is
\* not claimed for a counter that began again below its saved cursor (Stale), nor for what
\* the inbounds closed at the cap take along (Unsampled).
THEOREM OnlyTheCoreLosesTraffic == Spec /\ []FewGenerations => OnlyCoreRestartsLoseTraffic
<1>1. BillingInv /\ FewGenerations /\ [Next]_vars
      => [disk # NoState /\ disk' # NoState /\ core'.epoch = core.epoch
            => \A n \in Node : Stale(n) \/ Lost(n)' <= Lost(n) + Unsampled(n)]_vars
      BY InvStep DEF NothingLost
<1> QED BY <1>1, BillingIsSound, PTL DEF Spec, OnlyCoreRestartsLoseTraffic

-----------------------------------------------------------------------------
(* Acknowledgements: what the controller has said it has *)

\* Nodes that have carried their last byte; M are those of which bytes were missed.
Ended(h, M) ==
    {n \in DOMAIN h.nodes :
        /\ h.stopped \/ (h.nodes[n].state = "removed" /\ n \notin M)
        /\ h.nodes[n].total > 0}

\* Their last bytes are in the ledger, or in a report.
InLedger(h, l, M) == \A n \in Ended(h, M) : h.nodes[n].total <= l[n].total
InReport(h, r, M) ==
    \A n \in Ended(h, M) : n \in DOMAIN r.nodes /\ h.nodes[n].total <= r.nodes[n].total

\* What the controller has, and has said it has.
AckOf(s) == [gen |-> s.gen, seq |-> s.seq]
Said == {AckOf(share)} \cup (IF inbox = NoEnvelope THEN {} ELSE {inbox.ack})

\* Acknowledgement a says no more of state h than the ledger has.
Acknowledges(a, h, l, M) ==
    a.gen = h.gen => a.seq <= h.seq /\ (a.seq = h.seq => InLedger(h, l, M))

\* The acknowledgements A, and that of a report of P that is still to come, are true of h.
Answered(h, A, P, l, M) ==
    /\ \A a \in A \cup {h.ack} : Acknowledges(a, h, l, M)
    /\ \A r \in P : r.gen = h.gen /\ r.seq = h.seq => InReport(h, r, M)
    /\ h.stopped => \A n \in DOMAIN h.nodes : h.nodes[n].total = h.counter[n].total
    /\ h.epoch = 0 => h.applied = {} /\ \A n \in Node : h.counter[n].total = 0

\* A node that ended stays as it is while the share is settled.
Still(n) ==
    /\ n \notin core.serves /\ Gain(helper.counter[n], core.epoch, core.raw[n]) = 0
    /\ helper.counter[n].total = helper.nodes[n].total

States(h) == [n \in DOMAIN h.nodes |-> h.nodes[n].state]

\* What the steps of a pass have made of the Core and of the state.
PassIsSound ==
    /\ pass # "removed" => helper.period <= today
    /\ disk # NoState => disk.period <= today
    /\ pass \in {"ready", "remove", "add", "finish", "over", "close"} => helper.status # "revoked"
    /\ pass = "ready" => ~settled
    /\ settled /\ helper.status = "revoked" => helper.stopped
    /\ pass \in {"add", "finish", "over", "close"} \/ (pass = "idle" /\ settled)
          => core.serves \subseteq helper.applied
    /\ pass = "close" => core.serves \subseteq core.blocked
    /\ pass \in {"over", "close"} =>
          /\ helper.used >= Limit
          /\ \A n \in Node : n \in missed \/ Gain(helper.counter[n], core.epoch, core.raw[n]) = 0
    /\ pass = "add" => helper.applied \subseteq Wanted(helper)
    /\ pass = "finish" => helper.applied = Wanted(helper)

\* While the share is settled, what was published last describes the state: a report that
\* is not repeated because nothing changed says what the state says.
RecordIsSound ==
    settled /\ pass \in {"idle", "remove", "add", "finish", "over", "close"} =>
        /\ published.material # <<>>
        /\ published.material[8] = States(helper)
        /\ published.material[5] \in 0..helper.period
        /\ published.material[5] = helper.period /\ published.material[7] => helper.used >= Limit
        /\ \A n \in DOMAIN helper.nodes : helper.nodes[n].state = "removed" =>
             IF n \in helper.applied
             THEN \/ pass = "finish"
                  \/ /\ pass \in {"over", "close"}
                     /\ ~(published.material[5] = helper.period /\ published.material[7])
             ELSE n \in missed \/ Still(n)

\* A ledger has no less of a node than the report it merged last.
LedgerHasReports == \A n \in Node : share.ledger[n].raw <= share.ledger[n].total

\* The state in memory and the one in the file.
StatesAreAnswered ==
    /\ pass # "removed" => Answered(helper, Said, Pending, share.ledger, missed)
    /\ disk # NoState => Answered(disk, Said, Pending, share.ledger, missed)

AckInv ==
    /\ StatesAreAnswered
    /\ PassIsSound
    /\ RecordIsSound
    /\ LedgerHasReports
    /\ FinalCountersBilled
-----------------------------------------------------------------------------
(* Fields of a state that a pass changes or keeps *)

LEMMA CollectedFields ==
    ASSUME TypeInv, NEW h \in HelperState
    PROVE  /\ Collected(h).status = h.status /\ Collected(h).desired = h.desired
           /\ Collected(h).ack = h.ack /\ Collected(h).applied = h.applied
           /\ Collected(h).version = h.version /\ Collected(h).period = today
           /\ h.period = today => h.used <= Collected(h).used
<1> DEFINE u == InPeriod(h).used + Sampled(h)
           f == [n \in Node |-> Sample(InPeriod(h).counter[n], n)]
<1>1. Sampled(h) \in Nat BY SampledType
<1>2. /\ InPeriod(h).status = h.status /\ InPeriod(h).desired = h.desired
      /\ InPeriod(h).ack = h.ack /\ InPeriod(h).applied = h.applied
      /\ InPeriod(h).version = h.version /\ InPeriod(h).period = today
      /\ h.period = today => InPeriod(h).used = h.used
      /\ InPeriod(h) \in HelperState
      BY InPeriodType DEF InPeriod, HelperState
<1>3. h.period = today => h.used <= u BY <1>1, <1>2 DEF HelperState
<1>4. Collected(h) = [InPeriod(h) EXCEPT !.stopped = FALSE, !.used = u, !.counter = f]
      BY DEF Collected
<1> HIDE DEF u, f
<1> QED BY <1>2, <1>3, <1>4 DEF HelperState

LEMMA InEpochFields ==
    ASSUME NEW h \in HelperState
    PROVE  /\ InEpoch(h).status = h.status /\ InEpoch(h).desired = h.desired
           /\ InEpoch(h).ack = h.ack /\ InEpoch(h).period = h.period /\ InEpoch(h).used = h.used
           /\ InEpoch(h).version = h.version
           /\ InEpoch(h).applied \in {h.applied, {}}
           /\ h.epoch = core.epoch => InEpoch(h).applied = h.applied
BY DEF InEpoch, HelperState

LEMMA CurrentFields ==
    ASSUME TypeInv
    PROVE  /\ Current.status = helper.status /\ Current.desired = helper.desired
           /\ Current.ack = helper.ack /\ Current.period = today
           /\ Current.applied \in {helper.applied, {}}
           /\ helper.epoch = core.epoch => Current.applied = helper.applied
           /\ helper.period = today => helper.used <= Current.used
<1>1. helper \in HelperState BY DEF TypeInv
<1>2. Collected(helper) \in HelperState /\ Collected(helper).epoch = helper.epoch
      BY <1>1, CollectedType
<1> QED BY <1>1, <1>2, CollectedFields, InEpochFields DEF Current

LEMMA WithNodesFields ==
    ASSUME NEW h \in HelperState, NEW w, w = WithNodes(h)
    PROVE  /\ w.status = h.status /\ w.ack = h.ack /\ w.applied = h.applied
           /\ w.period = h.period /\ w.used = h.used
           /\ DOMAIN h.nodes \ DOMAIN w.nodes \subseteq Dropped(h)
           /\ \A n \in DOMAIN w.nodes :
                 w.nodes[n].state = "removed" <=> ~(n \in h.applied /\ n \in Wanted(h))
<1> DEFINE D == (DOMAIN h.nodes \ Dropped(h)) \cup h.desired
           f == [n \in D |-> [total |-> h.counter[n].total,
                              state |-> IF n \in h.applied /\ n \in Wanted(h)
                                        THEN "active" ELSE "removed"]]
<1>1. w = [h EXCEPT !.nodes = f] BY DEF WithNodes
<1>2. DOMAIN f = D OBVIOUS
<1>3. \A n \in D : f[n].state = "removed" <=> ~(n \in h.applied /\ n \in Wanted(h)) OBVIOUS
<1>4. DOMAIN h.nodes \ D \subseteq Dropped(h) OBVIOUS
<1> HIDE DEF f, D
<1> QED BY <1>1, <1>2, <1>3, <1>4 DEF HelperState

\* A counter that was sampled gains nothing before the next byte, and nothing of a new Core.
LEMMA SampledGains ==
    ASSUME core \in Cores, NEW h \in HelperState, NEW n \in Node,
           h.counter = [x \in Node |-> Sample(helper.counter[x], x)],
           helper \in HelperState,
           (core'.epoch = core.epoch /\ core'.raw = core.raw) \/ Quiet(core')
    PROVE  Gain(h.counter[n], core'.epoch, core'.raw[n]) = 0
<1>1. core.epoch \in Nat /\ core.raw[n] \in Nat /\ helper.counter[n] \in Counters
      BY CounterTypes DEF Cores
<1>2. /\ h.counter[n] \in Counters
      /\ Gain(h.counter[n], core.epoch, core.raw[n]) = 0
  <2>1. h.counter[n] = Sample(helper.counter[n], n) OBVIOUS
  <2> QED BY <1>1, <2>1, SampleCounter
<1>3. CASE core'.epoch = core.epoch /\ core'.raw = core.raw BY <1>2, <1>3
<1>4. CASE Quiet(core') BY <1>2, <1>4 DEF Quiet, Gain, Delta, Counters
<1> QED BY <1>3, <1>4

LEMMA QuietGains ==
    ASSUME NEW k, Quiet(k), NEW c \in Counters, NEW n \in Node
    PROVE  Gain(c, k.epoch, k.raw[n]) = 0
BY DEF Quiet, Gain, Delta, Counters

\* Nor does a counter gain anything by going with its inbound.
LEMMA CutGains ==
    ASSUME NEW c \in Counters, NEW epoch, NEW raw \in Nat, Gain(c, epoch, raw) = 0,
           NEW cut \in {raw, 0}
    PROVE  Gain(c, epoch, cut) = 0
BY DEF Gain, Delta, Counters

-----------------------------------------------------------------------------
(* What was answered to a state *)

\* The ledger grows, fewer reports and answers are on their way, and more nodes were missed.
LEMMA AnsweredLater ==
    ASSUME NEW h \in HelperState, NEW A, NEW P, NEW l \in [Node -> Counters], NEW M,
           Answered(h, A, P, l, M),
           NEW m \in [Node -> Counters], \A n \in Node : l[n].total <= m[n].total,
           NEW B \in SUBSET A, NEW Q \in SUBSET P, NEW N, M \subseteq N
    PROVE  Answered(h, B, Q, m, N)
<1>0. Ended(h, N) \subseteq Ended(h, M) BY DEF Ended
<1>1. InLedger(h, l, M) => InLedger(h, m, N)
  <2> SUFFICES ASSUME InLedger(h, l, M), NEW n \in Ended(h, N) PROVE h.nodes[n].total <= m[n].total
      BY DEF InLedger
  <2>1. n \in Node /\ h.nodes[n].total \in Nat BY NodeTypes DEF Ended
  <2>2. l[n].total \in Nat /\ m[n].total \in Nat BY <2>1 DEF Counters
  <2>3. h.nodes[n].total <= l[n].total BY <1>0 DEF InLedger
  <2> QED BY <2>1, <2>2, <2>3
<1>2. \A r \in P : InReport(h, r, M) => InReport(h, r, N) BY <1>0 DEF InReport
<1> QED BY <1>1, <1>2 DEF Answered, Acknowledges

\* A state as it was answered before, with no node more that has ended.
LEMMA InReportOfItself ==
    ASSUME NEW h \in HelperState, NEW M
    PROVE  InReport(h, ReportOf(h), M)
<1>1. ReportOf(h).nodes = h.nodes BY ReportOfType
<1>2. \A n \in Ended(h, M) : n \in DOMAIN h.nodes /\ h.nodes[n].total \in Nat BY NodeTypes DEF Ended
<1> QED BY <1>1, <1>2 DEF InReport

LEMMA AnsweredAgain ==
    ASSUME NEW h, NEW g \in HelperState, NEW A, NEW P, NEW l, NEW M, Answered(h, A, P, l, M),
           g.gen = h.gen, g.seq = h.seq, g.ack \in A \cup {h.ack}, NEW N,
           \A n \in Ended(g, N) : n \in Ended(h, M) /\ g.nodes[n].total = h.nodes[n].total,
           g.stopped => \A n \in DOMAIN g.nodes : g.nodes[n].total = g.counter[n].total,
           g.epoch = 0 => g.applied = {} /\ \A n \in Node : g.counter[n].total = 0
    PROVE  Answered(g, A, P \cup {ReportOf(g)}, l, N)
<1>1. InLedger(h, l, M) => InLedger(g, l, N) BY DEF InLedger
<1>2. \A r \in P : InReport(h, r, M) => InReport(g, r, N) BY DEF InReport
<1> QED BY <1>1, <1>2, InReportOfItself DEF Answered, Acknowledges

\* A new sequence: nobody answered it yet.
LEMMA AnsweredAfresh ==
    ASSUME NEW h \in HelperState, NEW g \in HelperState, NEW A \in SUBSET Acks, NEW P, NEW l,
           NEW M, Answered(h, A, P, l, M),
           \A r \in P : r.gen = h.gen => r.seq \in Nat /\ r.seq <= h.seq, NEW N,
           g.gen = h.gen, h.seq < g.seq, g.ack = h.ack,
           g.stopped => \A n \in DOMAIN g.nodes : g.nodes[n].total = g.counter[n].total,
           g.epoch = 0 => g.applied = {} /\ \A n \in Node : g.counter[n].total = 0
    PROVE  Answered(g, A, P \cup {ReportOf(g)}, l, N)
<1>1. ASSUME NEW a \in A \cup {g.ack} PROVE Acknowledges(a, g, l, N)
  <2>1. a \in Acks BY DEF HelperState
  <2>2. a.gen = h.gen => a.seq <= h.seq BY DEF Answered, Acknowledges
  <2>3. a.seq \in Nat /\ h.seq \in Nat /\ g.seq \in Nat BY <2>1 DEF Acks, HelperState
  <2> QED BY <2>2, <2>3 DEF Acknowledges
<1>2. \A r \in P : ~(r.gen = g.gen /\ r.seq = g.seq) BY DEF HelperState
<1> QED BY <1>1, <1>2, InReportOfItself DEF Answered

\* The sequence that a report takes.
LEMMA SequenceTaken ==
    ASSUME NEW h \in HelperState, NEW g, g = [h EXCEPT !.seq = NextSequence(h)]
    PROVE  /\ g \in HelperState /\ h.seq < g.seq
           /\ g.gen = h.gen /\ g.ack = h.ack /\ g.nodes = h.nodes /\ g.counter = h.counter
           /\ g.stopped = h.stopped /\ g.epoch = h.epoch /\ g.applied = h.applied
           /\ g.status = h.status /\ g.period = h.period /\ g.used = h.used
           /\ Material(g) = Material(h)
<1>1. NextSequence(h) \in Nat /\ h.seq < NextSequence(h)
      BY DEF NextSequence, Larger, HelperState, Acks
<1>2. g \in HelperState /\ g.seq = NextSequence(h) BY <1>1 DEF HelperState
<1>3. /\ g.gen = h.gen /\ g.ack = h.ack /\ g.nodes = h.nodes /\ g.counter = h.counter
      /\ g.stopped = h.stopped /\ g.epoch = h.epoch /\ g.applied = h.applied
      /\ g.status = h.status /\ g.period = h.period /\ g.used = h.used /\ g.version = h.version
      BY DEF HelperState
<1> QED BY <1>1, <1>2, <1>3 DEF Material

\* What the inductive invariants say of the state of the Helper.
LEMMA AckWorld ==
    ASSUME BillingInv, AckInv
    PROVE  /\ TypeInv /\ helper \in HelperState /\ Said \in SUBSET Acks /\ Pending \in SUBSET Report
           /\ share.ledger \in [Node -> Counters] /\ core \in Cores /\ core.epoch > 0
           /\ disk # NoState => disk \in HelperState /\ Answered(disk, Said, Pending, share.ledger, missed)
           /\ pass # "removed" =>
                /\ Answered(helper, Said, Pending, share.ledger, missed) /\ Rests(helper, core)
                /\ \A r \in Pending : r.gen = helper.gen => r.seq \in Nat /\ r.seq <= helper.seq
<1>1. /\ TypeInv /\ helper \in HelperState /\ Pending \in SUBSET Report
      /\ share.ledger \in [Node -> Counters] /\ core \in Cores /\ core.epoch > 0
      /\ disk # NoState => disk \in HelperState
      BY InvWorld DEF BillingInv
<1>2. AckOf(share) \in Acks BY DEF BillingInv, TypeInv, AckOf, Acks, Share
<1>3. inbox # NoEnvelope => inbox.ack \in Acks BY DEF BillingInv, TypeInv, Envelope
<1>4. Said \in SUBSET Acks BY <1>2, <1>3 DEF Said
<1>5. pass # "removed" =>
        Sound(helper, core, carried, born, Pending, share.ledger) /\ Rests(helper, core)
      BY DEF BillingInv, HelperIsSound
<1>6. \A r \in Pending : r.seq \in Nat BY <1>1 DEF Report
<1>7. pass # "removed" => \A r \in Pending : r.gen = helper.gen => r.seq <= helper.seq
      BY <1>5 DEF Sound, Knows
<1> QED BY <1>1, <1>4, <1>5, <1>6, <1>7 DEF AckInv, StatesAreAnswered

\* The Helper goes on with g, writes it or not, and publishes only what it wrote.
LEMMA HelperAnswered ==
    ASSUME BillingInv, AckInv, NEW g \in HelperState, helper' = g,
           Answered(g, Said, Pending \cup {ReportOf(g)}, share.ledger, missed'),
           disk' = disk \/ disk' = g, missed \subseteq missed' \/ disk' = g,
           published' = published \/ (published' = Published(g) /\ disk' = g),
           inbox' \in {inbox, NoEnvelope}, UNCHANGED <<request, late, share>>
    PROVE  StatesAreAnswered'
<1>1. Said' \in SUBSET Said BY DEF Said
<1>2. Pending' \in SUBSET (Pending \cup {ReportOf(g)})
  <2>1. Published(g).report = ReportOf(g) BY ReportOfType
  <2> QED BY <2>1 DEF Pending
<1>3. /\ share.ledger \in [Node -> Counters]
      /\ disk # NoState => disk \in HelperState /\ Answered(disk, Said, Pending, share.ledger, missed)
      /\ \A n \in Node : share.ledger[n].total <= share.ledger[n].total
  <2>1. \A n \in Node : share.ledger[n].total \in Nat BY AckWorld DEF Counters
  <2> QED BY <2>1, AckWorld
<1>4. Answered(g, Said', Pending', share.ledger, missed')
      BY <1>1, <1>2, <1>3, AnsweredLater
<1>5. CASE disk' = g BY <1>4, <1>5 DEF StatesAreAnswered
<1>6. CASE disk' # g
  <2>1. disk' = disk /\ published' = published BY <1>6
  <2>2. Pending' \in SUBSET Pending BY <2>1 DEF Pending
  <2>3. disk # NoState => Answered(disk, Said', Pending', share.ledger, missed')
        BY <1>1, <1>3, <1>6, <2>2, AnsweredLater
  <2> QED BY <1>4, <2>1, <2>3 DEF StatesAreAnswered
<1> QED BY <1>5, <1>6

\* A state that is not stopped, with nodes as before.
LEMMA GoesOnAnswered ==
    ASSUME BillingInv, AckInv, pass # "removed", NEW g \in HelperState, helper' = g,
           g.gen = helper.gen, g.seq = helper.seq, g.ack \in Said \cup {helper.ack},
           g.nodes = helper.nodes,
           ~g.stopped \/ (g.stopped = helper.stopped /\ g.counter = helper.counter),
           g.epoch = 0 => g.applied = {} /\ \A n \in Node : g.counter[n].total = 0,
           disk' = disk \/ disk' = g, published' = published,
           inbox' \in {inbox, NoEnvelope}, UNCHANGED <<missed, request, late, share>>
    PROVE  StatesAreAnswered'
<1>1. Answered(helper, Said, Pending, share.ledger, missed) BY AckWorld
<1>2. \A n \in Ended(g, missed) :
         n \in Ended(helper, missed) /\ g.nodes[n].total = helper.nodes[n].total
      BY DEF Ended
<1>3. g.stopped => \A n \in DOMAIN g.nodes : g.nodes[n].total = g.counter[n].total
      BY <1>1 DEF Answered, HelperState
<1>4. Answered(g, Said, Pending \cup {ReportOf(g)}, share.ledger, missed)
      BY <1>1, <1>2, <1>3, AnsweredAgain
<1> QED BY <1>4, HelperAnswered

\* The end of a pass, or its failure, with state h.
LEMMA ReportAnswered ==
    ASSUME BillingInv, AckInv, pass # "removed", NEW h \in HelperState,
           h.gen = helper.gen, h.seq = helper.seq, h.ack = helper.ack,
           h.stopped => \A n \in DOMAIN h.nodes : h.nodes[n].total = h.counter[n].total,
           h.epoch = 0 => h.applied = {} /\ \A n \in Node : h.counter[n].total = 0,
           NEW force, PersistReport(h, force) \/ PersistReportFails(h),
           ~force /\ Material(h) = published.material =>
               \A n \in Ended(h, missed') :
                   n \in Ended(helper, missed) /\ h.nodes[n].total = helper.nodes[n].total,
           missed \subseteq missed' \/ disk' = helper',
           UNCHANGED <<netVars, share>>
    PROVE  /\ StatesAreAnswered'
           /\ PersistReport(h, force) => published'.material = Material(h)
           /\ helper' \in HelperState /\ helper'.status = h.status /\ helper'.period = h.period
           /\ helper'.used = h.used /\ helper'.applied = h.applied /\ helper'.stopped = h.stopped
           /\ helper'.counter = h.counter /\ helper'.nodes = h.nodes
           /\ disk' \in {disk, helper'}
<1> DEFINE g == [h EXCEPT !.seq = NextSequence(h)]
<1>1. /\ g \in HelperState /\ h.seq < g.seq
      /\ g.gen = h.gen /\ g.ack = h.ack /\ g.nodes = h.nodes /\ g.counter = h.counter
      /\ g.stopped = h.stopped /\ g.epoch = h.epoch /\ g.applied = h.applied
      /\ g.status = h.status /\ g.period = h.period /\ g.used = h.used
      /\ Material(g) = Material(h)
      BY SequenceTaken
<1>2. \/ /\ ~force /\ Material(h) = published.material
         /\ helper' = h /\ disk' = disk /\ published' = published
      \/ helper' = g /\ disk' = g /\ published' = Published(g)
      \/ helper' = g /\ (disk' = disk \/ disk' = g) /\ published' = published /\ PersistReportFails(h)
      BY DEF PersistReport, PersistReportFails, Persisted, PersistFails
<1>3. /\ Answered(helper, Said, Pending, share.ledger, missed) /\ Said \in SUBSET Acks /\ helper \in HelperState
      /\ \A r \in Pending : r.gen = helper.gen => r.seq \in Nat /\ r.seq <= helper.seq
      BY AckWorld
<1> HIDE DEF g
<1>4. Answered(g, Said, Pending \cup {ReportOf(g)}, share.ledger, missed')
      BY <1>1, <1>3, AnsweredAfresh
<1>5. ~force /\ Material(h) = published.material =>
        Answered(h, Said, Pending \cup {ReportOf(h)}, share.ledger, missed')
      BY <1>3, AnsweredAgain
<1>6. inbox' = inbox /\ UNCHANGED <<request, late, share>> BY DEF netVars
<1>7. CASE ~force /\ Material(h) = published.material /\ helper' = h /\ disk' = disk /\ published' = published
  <2>1. StatesAreAnswered' BY <1>5, <1>6, <1>7, HelperAnswered
  <2> QED BY <1>7, <2>1
<1>8. CASE helper' = g /\ disk' = g /\ published' = Published(g)
  <2>1. StatesAreAnswered' BY <1>1, <1>4, <1>6, <1>8, HelperAnswered
  <2>2. published'.material = Material(h) BY <1>1, <1>8 DEF Published
  <2> QED BY <1>1, <1>8, <2>1, <2>2
<1>9. CASE helper' = g /\ (disk' = disk \/ disk' = g) /\ published' = published /\ PersistReportFails(h)
  <2>1. StatesAreAnswered' BY <1>1, <1>4, <1>6, <1>9, HelperAnswered
  <2>2. PersistReport(h, force) => published'.material = Material(h)
    <3>1. helper' = h => FALSE BY <1>1, <1>9 DEF HelperState
    <3> QED BY <1>1, <1>9, <3>1 DEF PersistReport, Published, g
  <2> QED BY <1>1, <1>9, <2>1, <2>2
<1> QED BY <1>2, <1>7, <1>8, <1>9

LEMMA RecordAnswered ==
    ASSUME BillingInv, AckInv, pass # "removed", NEW h \in HelperState,
           h.gen = helper.gen, h.seq = helper.seq, h.ack = helper.ack,
           \A n \in DOMAIN h.nodes : h.nodes[n].total = h.counter[n].total,
           h.epoch = 0 => h.applied = {} /\ \A n \in Node : h.counter[n].total = 0,
           h.status = "revoked" => h.stopped, h.period <= today,
           core'.serves \subseteq h.applied,
           \A n \in DOMAIN h.nodes : h.nodes[n].state = "removed" =>
               /\ n \notin h.applied
               /\ n \in missed' \/ Gain(h.counter[n], core'.epoch, core'.raw[n]) = 0,
           settled /\ Material(h) = published.material =>
               \A n \in Ended(h, missed') :
                   n \in Ended(helper, missed) /\ h.nodes[n].total = helper.nodes[n].total,
           missed \subseteq missed' \/ disk' = helper',
           RecordAndEnd(h), UNCHANGED <<today, netVars, share>>
    PROVE  AckInv'
<1>1. \/ PersistReport(h, ~settled) /\ pass' = "idle" /\ settled' = TRUE
      \/ PersistReportFails(h) /\ pass' = "failed" /\ settled' = settled
      BY DEF RecordAndEnd
<1>2. PersistReport(h, ~settled) \/ PersistReportFails(h) BY <1>1
<1>3. /\ StatesAreAnswered'
      /\ PersistReport(h, ~settled) => published'.material = Material(h)
      /\ helper' \in HelperState /\ helper'.status = h.status /\ helper'.period = h.period
      /\ helper'.used = h.used /\ helper'.applied = h.applied /\ helper'.stopped = h.stopped
      /\ helper'.counter = h.counter /\ helper'.nodes = h.nodes
      /\ disk' \in {disk, helper'}
      BY <1>2, ReportAnswered
<1>4. PassIsSound' BY <1>1, <1>3 DEF AckInv, PassIsSound
<1>5. RecordIsSound'
  <2>1. CASE pass' = "failed" BY <2>1 DEF RecordIsSound
  <2>2. CASE pass' = "idle"
    <3>1. published'.material = Material(h) BY <1>1, <1>3, <2>2
    <3>2. /\ published'.material[8] = States(h) /\ published'.material[5] = h.period
          /\ published'.material[7] = (h.used >= Limit) /\ published'.material # <<>>
          BY <3>1 DEF Material, States
    <3>3. States(helper)' = States(h) BY <1>3 DEF States
    <3>4. h.period \in 0..h.period BY DEF HelperState
    <3>5. \A n \in DOMAIN helper'.nodes : helper'.nodes[n].state = "removed" =>
             n \notin helper'.applied /\ (n \in missed' \/ Still(n)')
          BY <1>3 DEF Still
    <3> QED BY <1>3, <2>2, <3>2, <3>3, <3>4, <3>5 DEF RecordIsSound
  <2> QED BY <1>1, <2>1, <2>2
<1>6. FinalCountersBilled' BY <1>1 DEF FinalCountersBilled
<1>7. LedgerHasReports' BY DEF AckInv, LedgerHasReports
<1> QED BY <1>3, <1>4, <1>5, <1>6, <1>7 DEF AckInv

-----------------------------------------------------------------------------
(* The passes *)

LEMMA StayUnbornAnswered ==
    ASSUME BillingInv, AckInv, StayUnborn
    PROVE  AckInv'
<1>1. /\ pass = "idle" /\ helper.epoch = 0 /\ helper.status = "paused" /\ core' = core
      /\ UNCHANGED <<missed, today, netVars, share>>
      BY DEF StayUnborn, PausedUnborn, coreVars
<1>2. /\ helper \in HelperState /\ Answered(helper, Said, Pending, share.ledger, missed) /\ Rests(helper, core)
      /\ helper.period <= today
      BY <1>1, AckWorld DEF AckInv, PassIsSound
<1> DEFINE p == [helper EXCEPT !.stopped = TRUE]
           h == WithNodes(p)
<1>3. RecordAndEnd(h) BY DEF StayUnborn
<1>4. /\ p \in HelperState /\ p.gen = helper.gen /\ p.seq = helper.seq /\ p.ack = helper.ack
      /\ p.counter = helper.counter /\ p.epoch = 0 /\ p.stopped = TRUE /\ p.applied = helper.applied
      /\ p.status = "paused" /\ p.period = helper.period
      BY <1>1, <1>2 DEF HelperState
<1> HIDE DEF p
<1>5. /\ h \in HelperState /\ h.gen = helper.gen /\ h.seq = helper.seq /\ h.ack = helper.ack
      /\ h.counter = helper.counter /\ h.epoch = 0 /\ h.applied = helper.applied
      /\ h.status = "paused" /\ h.period = helper.period
      /\ \A n \in DOMAIN h.nodes : h.nodes[n].total = h.counter[n].total
      BY <1>4, WithNodesOf, WithNodesFields
<1> HIDE DEF h
<1>6. helper.applied = {} /\ \A n \in Node : helper.counter[n].total = 0 BY <1>1, <1>2 DEF Answered
<1>7. Ended(h, missed) = {} BY <1>5, <1>6, NodeTypes DEF Ended
<1>8. Quiet(core) BY <1>1, <1>2 DEF Rests
<1>9. \A n \in DOMAIN h.nodes : Gain(h.counter[n], core'.epoch, core'.raw[n]) = 0
      BY <1>1, <1>5, <1>8, NodeTypes, CounterTypes, QuietGains
<1>10. core'.serves \subseteq h.applied BY <1>1, <1>8 DEF Quiet
<1> QED BY <1>1, <1>2, <1>3, <1>5, <1>6, <1>7, <1>9, <1>10, RecordAnswered

\* A node whose state a settled pass leaves as it was.
LEMMA SameState ==
    ASSUME NEW h, Material(h) = published.material, published.material[8] = States(helper),
           NEW n \in DOMAIN h.nodes
    PROVE  n \in DOMAIN helper.nodes /\ helper.nodes[n].state = h.nodes[n].state
<1>1. States(h) = States(helper) BY DEF Material, States
<1>2. DOMAIN States(h) = DOMAIN h.nodes /\ DOMAIN States(helper) = DOMAIN helper.nodes BY DEF States
<1>3. States(h)[n] = h.nodes[n].state BY DEF States
<1>4. n \in DOMAIN helper.nodes => States(helper)[n] = helper.nodes[n].state BY DEF States
<1> QED BY <1>1, <1>2, <1>3, <1>4

\* Its counter is sampled without a gain.
LEMMA StillSampled ==
    ASSUME helper \in HelperState, core \in Cores, NEW n \in Node, Still(n),
           NEW h, h.counter = [x \in Node |-> Sample(helper.counter[x], x)]
    PROVE  h.counter[n].total = helper.nodes[n].total
<1>1. core.epoch \in Nat /\ core.raw[n] \in Nat /\ helper.counter[n] \in Counters
      BY CounterTypes DEF Cores
<1>2. h.counter[n] = Sample(helper.counter[n], n) OBVIOUS
<1>3. Sample(helper.counter[n], n).total
        = helper.counter[n].total + Gain(helper.counter[n], core.epoch, core.raw[n])
      BY <1>1, SampleCounter
<1> QED BY <1>1, <1>2, <1>3 DEF Still, Counters

LEMMA SteadyPassAnswered ==
    ASSUME BillingInv, AckInv, SteadyPass
    PROVE  AckInv'
<1>1. UNCHANGED <<missed, today, netVars, share>> BY DEF SteadyPass
<1>2. /\ pass \in {"ready", "idle"} /\ helper.status # "revoked" /\ ~Differs(Current)
      /\ settled => pass = "idle"
      BY DEF SteadyPass, PassRuns, Reconciles, AckInv, PassIsSound
<1>3. /\ TypeInv /\ helper \in HelperState /\ core \in Cores /\ core.epoch > 0
      /\ core'.epoch = core.epoch /\ core'.raw = core.raw /\ core'.serves = core.serves
  <2>1. core' = Limited(Wanted(Current)) BY DEF SteadyPass
  <2> QED BY <2>1, AckWorld, LimitedCore
<1> DEFINE p == Current
           h == WithNodes(p)
<1>4. RecordAndEnd(h) BY DEF SteadyPass
<1>5. /\ p \in HelperState /\ p.gen = helper.gen /\ p.seq = helper.seq
      /\ p.epoch = core.epoch /\ p.stopped = FALSE
      /\ p.counter = [n \in Node |-> Sample(helper.counter[n], n)]
      /\ p.ack = helper.ack /\ p.status = helper.status /\ p.period = today
      /\ helper.epoch = core.epoch => p.applied = helper.applied
      BY <1>3, CurrentType, CurrentFields
<1>6. p.applied = Wanted(p) BY <1>2 DEF Differs
<1>7. core.serves \subseteq p.applied
  <2>1. core.serves = Wanted(p) \/ (settled /\ helper.epoch = core.epoch) BY <1>2 DEF Differs
  <2>2. settled => core.serves \subseteq helper.applied BY <1>2 DEF AckInv, PassIsSound
  <2> QED BY <1>5, <1>6, <2>1, <2>2
<1> HIDE DEF p
<1>8. /\ h \in HelperState /\ h.gen = helper.gen /\ h.seq = helper.seq /\ h.ack = helper.ack
      /\ h.counter = [n \in Node |-> Sample(helper.counter[n], n)]
      /\ h.epoch = core.epoch /\ h.stopped = FALSE /\ h.applied = p.applied
      /\ h.status = helper.status /\ h.period = today
      /\ \A n \in DOMAIN h.nodes : h.nodes[n].total = h.counter[n].total
      /\ \A n \in DOMAIN h.nodes : h.nodes[n].state = "removed" => n \notin h.applied
      BY <1>5, <1>6, WithNodesOf, WithNodesFields
<1> HIDE DEF h
<1>9. \A n \in DOMAIN h.nodes : Gain(h.counter[n], core'.epoch, core'.raw[n]) = 0
      BY <1>1, <1>3, <1>8, NodeTypes, SampledGains
<1>10. ASSUME settled, Material(h) = published.material, NEW n \in Ended(h, missed)
       PROVE  n \in Ended(helper, missed) /\ h.nodes[n].total = helper.nodes[n].total
  <2>1. pass = "idle" /\ published.material[8] = States(helper) BY <1>2, <1>10 DEF AckInv, RecordIsSound
  <2>2. /\ n \in DOMAIN h.nodes /\ h.nodes[n].state = "removed" /\ h.nodes[n].total > 0
        /\ n \in Node /\ n \notin missed
        BY <1>8, NodeTypes DEF Ended
  <2>3. n \in DOMAIN helper.nodes /\ helper.nodes[n].state = "removed" BY <1>10, <2>1, <2>2, SameState
  <2>4. Still(n) BY <1>10, <2>1, <2>2, <2>3 DEF AckInv, RecordIsSound
  <2>5. h.counter[n].total = helper.nodes[n].total BY <1>3, <1>8, <2>2, <2>4, StillSampled
  <2> QED BY <1>8, <2>2, <2>3, <2>5 DEF Ended
<1>11. today <= today /\ core.epoch # 0 BY <1>3 DEF TypeInv, Cores
<1>12. /\ pass # "removed" /\ h.epoch # 0 /\ h.status # "revoked" /\ h.period <= today
       /\ core'.serves \subseteq h.applied
       BY <1>2, <1>3, <1>7, <1>8, <1>11
<1> QED BY <1>1, <1>4, <1>8, <1>9, <1>10, <1>12, RecordAnswered

\* A Helper that never set up a Core finds nothing to count.
LEMMA UnbornCollected ==
    ASSUME BillingInv, AckInv, pass # "removed", helper.epoch = 0, NEW h,
           h.counter = [n \in Node |-> Sample(helper.counter[n], n)]
    PROVE  \A n \in Node : h.counter[n].total = 0
<1>1. /\ helper \in HelperState /\ Rests(helper, core) /\ Answered(helper, Said, Pending, share.ledger, missed)
      BY AckWorld
<1>2. Quiet(core) BY <1>1 DEF Rests
<1> TAKE n \in Node
<1>3. helper.counter[n].total = 0 /\ helper.counter[n] \in Counters BY <1>1, CounterTypes DEF Answered
<1>4. Gain(helper.counter[n], core.epoch, core.raw[n]) = 0 BY <1>2, <1>3, QuietGains
<1>5. Sample(helper.counter[n], n).total = 0
  <2>1. core \in Cores BY AckWorld
  <2> QED BY <1>3, <1>4, <2>1, SampleCounter
<1> QED BY <1>5

LEMMA FinishPassAnswered ==
    ASSUME BillingInv, AckInv, FinishPass
    PROVE  AckInv'
<1>1. /\ pass = "finish" /\ helper.status # "revoked" /\ helper.applied = Wanted(helper)
      /\ core.serves \subseteq helper.applied /\ helper.period <= today
      BY DEF FinishPass, AckInv, PassIsSound
<1>2. /\ TypeInv /\ helper \in HelperState /\ core \in Cores /\ helper.epoch # 0 /\ today \in Nat
      /\ helper.period \in Nat
      BY <1>1, AckWorld DEF BillingInv, HelperIsSound, TypeInv, HelperState
<1> DEFINE c == Collected(helper)
           h == WithNodes(c)
<1>3. /\ c \in HelperState /\ c.gen = helper.gen /\ c.seq = helper.seq
      /\ c.epoch = helper.epoch /\ c.stopped = FALSE /\ c.nodes = helper.nodes
      /\ c.counter = [n \in Node |-> Sample(helper.counter[n], n)]
      /\ c.status = helper.status /\ c.desired = helper.desired /\ c.ack = helper.ack
      /\ c.applied = helper.applied /\ c.period = today
      BY <1>2, CollectedType, CollectedFields
<1>4. \/ /\ c.used < Limit /\ RecordAndEnd(h)
         /\ missed' = IF disk' = helper' THEN missed \ helper.applied ELSE missed
      \/ /\ c.used >= Limit /\ helper' = c /\ pass' = "over"
         /\ UNCHANGED <<missed, disk, published, settled, faults>>
      BY DEF FinishPass
<1>5. UNCHANGED <<core, today, netVars, share>> BY DEF FinishPass
<1> HIDE DEF c
<1>6. \A n \in Node : Gain(c.counter[n], core'.epoch, core'.raw[n]) = 0
      BY <1>2, <1>3, <1>5, SampledGains
<1>7. CASE /\ c.used < Limit /\ RecordAndEnd(h)
           /\ missed' = IF disk' = helper' THEN missed \ helper.applied ELSE missed
  <2>1. c.applied \subseteq Wanted(c) BY <1>1, <1>3, <1>7 DEF Wanted
  <2>2. /\ h \in HelperState /\ h.gen = helper.gen /\ h.seq = helper.seq /\ h.ack = helper.ack
        /\ h.counter = c.counter
        /\ h.epoch # 0 /\ h.stopped = FALSE /\ h.applied = helper.applied
        /\ h.status # "revoked" /\ h.period = today
        /\ \A n \in DOMAIN h.nodes : h.nodes[n].total = h.counter[n].total
        /\ \A n \in DOMAIN h.nodes : h.nodes[n].state = "removed" => n \notin h.applied
        BY <1>1, <1>2, <1>3, <2>1, WithNodesOf, WithNodesFields
  <2> HIDE DEF h
  <2>3. \A n \in DOMAIN h.nodes : Gain(h.counter[n], core'.epoch, core'.raw[n]) = 0
        BY <1>6, <2>2, NodeTypes
  <2>4. ASSUME settled, Material(h) = published.material, NEW n \in Ended(h, missed')
        PROVE  n \in Ended(helper, missed) /\ h.nodes[n].total = helper.nodes[n].total
    <3>1. published.material[8] = States(helper) BY <1>1, <2>4 DEF AckInv, RecordIsSound
    <3>2. /\ n \in DOMAIN h.nodes /\ h.nodes[n].state = "removed" /\ h.nodes[n].total > 0
          /\ n \in Node /\ n \notin helper.applied /\ n \notin missed'
          BY <2>2, NodeTypes DEF Ended
    <3>3. n \in DOMAIN helper.nodes /\ helper.nodes[n].state = "removed"
          BY <2>4, <3>1, <3>2, SameState
    <3>4. n \notin missed BY <1>7, <3>2
    <3>5. Still(n) BY <1>1, <2>4, <3>2, <3>3, <3>4 DEF AckInv, RecordIsSound
    <3>6. h.counter[n].total = helper.nodes[n].total
          BY <1>2, <1>3, <2>2, <3>2, <3>5, StillSampled
    <3> QED BY <2>2, <3>2, <3>3, <3>4, <3>6 DEF Ended
  <2>5. /\ pass # "removed" /\ core'.serves \subseteq h.applied /\ h.period <= today
        /\ missed \subseteq missed' \/ disk' = helper'
        BY <1>1, <1>2, <1>5, <1>7, <2>2
  <2> QED BY <1>5, <1>7, <2>2, <2>3, <2>4, <2>5, RecordAnswered
<1>8. CASE /\ c.used >= Limit /\ helper' = c /\ pass' = "over"
           /\ UNCHANGED <<missed, disk, published, settled, faults>>
  <2>1. StatesAreAnswered' BY <1>1, <1>2, <1>3, <1>5, <1>8, GoesOnAnswered DEF netVars
  <2>2. PassIsSound'
    <3>1. \A n \in Node : Gain(helper.counter[n], core.epoch, core.raw[n])' = 0 BY <1>6, <1>8
    <3>2. disk' # NoState => disk'.period <= today' BY <1>5, <1>8 DEF AckInv, PassIsSound
    <3>3. helper'.period <= today' /\ core'.serves \subseteq helper'.applied
          BY <1>1, <1>2, <1>3, <1>5, <1>8
    <3> QED BY <1>1, <1>3, <1>8, <3>1, <3>2, <3>3 DEF PassIsSound
  <2>3. CASE ~settled
    <3>1. RecordIsSound' BY <1>8, <2>3 DEF RecordIsSound
    <3> QED BY <1>5, <1>8, <2>1, <2>2, <3>1 DEF AckInv, LedgerHasReports, FinalCountersBilled
  <2>4. CASE settled
    <3>1. /\ published.material # <<>> /\ published.material[8] = States(helper)
          /\ published.material[5] \in 0..helper.period
          /\ published.material[5] = helper.period /\ published.material[7] => helper.used >= Limit
          BY <1>1, <2>4 DEF AckInv, RecordIsSound
    <3>2. published.material[5] = today /\ published.material[7] => helper.applied = {}
      <4>1. published.material[5] = today => helper.period = today BY <1>1, <1>2, <3>1
      <4>2. helper.used \in Nat /\ Limit \in Nat BY <1>2, LimitAssumption DEF HelperState
      <4> QED BY <1>1, <3>1, <4>1, <4>2 DEF Wanted
    <3>3. ASSUME NEW n \in DOMAIN c.nodes, c.nodes[n].state = "removed"
          PROVE  IF n \in c.applied
                 THEN ~(published.material[5] = c.period /\ published.material[7])
                 ELSE n \in missed \/ Still(n)'
      <4>1. n \in DOMAIN helper.nodes /\ helper.nodes[n].state = "removed" /\ n \in Node
            BY <1>2, <1>3, <3>3, NodeTypes
      <4>2. CASE n \in c.applied BY <1>3, <3>2, <4>2
      <4>3. CASE n \notin c.applied
        <5>1. n \in missed \/ Still(n) BY <1>1, <1>3, <2>4, <4>1, <4>3 DEF AckInv, RecordIsSound
        <5>2. Still(n) => c.counter[n].total = helper.nodes[n].total
              BY <1>2, <1>3, <4>1, StillSampled
        <5>3. Still(n) => Still(n)' BY <1>3, <1>5, <1>6, <1>8, <4>1, <5>2 DEF Still
        <5> QED BY <4>3, <5>1, <5>3
      <4> QED BY <4>2, <4>3
    <3>4. States(helper)' = States(helper) BY <1>3, <1>8 DEF States
    <3>5. published.material[5] \in 0..c.period BY <1>1, <1>2, <1>3, <3>1
    <3>6. RecordIsSound' BY <1>3, <1>8, <3>1, <3>3, <3>4, <3>5 DEF RecordIsSound
    <3> QED BY <1>5, <1>8, <2>1, <2>2, <3>6 DEF AckInv, LedgerHasReports, FinalCountersBilled
  <2> QED BY <2>3, <2>4
<1> QED BY <1>4, <1>7, <1>8

\* The record while the nodes of a Core beyond the cap are closed.
LEMMA CapIsRecorded ==
    ASSUME AckInv, pass \in {"over", "close"}, settled, NEW n \in DOMAIN helper.nodes,
           helper.nodes[n].state = "removed",
           published.material[5] = helper.period /\ published.material[7]
    PROVE  n \notin helper.applied /\ (n \in missed \/ Still(n))
BY DEF AckInv, RecordIsSound

LEMMA CloseAdmissionsAnswered ==
    ASSUME BillingInv, AckInv, CloseAdmissions
    PROVE  AckInv'
<1>1. /\ pass = "over" /\ core' = Limited({})
      /\ Persisted(helper) \/ PersistFails(helper)
      /\ pass' \in {"close", "failed"}
      /\ UNCHANGED <<missed, today, helper, published, settled, netVars, share>>
      BY DEF CloseAdmissions
<1>2. /\ helper \in HelperState /\ helper.epoch # 0 /\ ~helper.stopped
      BY <1>1, AckWorld DEF BillingInv, HelperIsSound
<1>3. /\ core'.epoch = core.epoch /\ core'.raw = core.raw /\ core'.serves = core.serves
      /\ core'.serves \subseteq core'.blocked
  <2>1. core \in Cores BY AckWorld
  <2>2. /\ core'.epoch = core.epoch /\ core'.raw = core.raw /\ core'.serves = core.serves
        /\ core'.blocked = core.serves \ {}
        BY <1>1, <2>1, LimitedCore
  <2> QED BY <2>2
<1>4. disk' = disk \/ disk' = helper BY <1>1 DEF Persisted, PersistFails
<1>5. StatesAreAnswered' BY <1>1, <1>2, <1>4, GoesOnAnswered DEF netVars
<1>6. PassIsSound' BY <1>1, <1>3, <1>4 DEF AckInv, PassIsSound
<1>7. RecordIsSound'
  <2>1. States(helper)' = States(helper) BY <1>1 DEF States
  <2>2. \A n : Still(n)' = Still(n) BY <1>1, <1>3 DEF Still
  <2> QED BY <1>1, <2>1, <2>2 DEF AckInv, RecordIsSound
<1>8. LedgerHasReports' /\ FinalCountersBilled'
      BY <1>1 DEF AckInv, LedgerHasReports, FinalCountersBilled
<1> QED BY <1>5, <1>6, <1>7, <1>8 DEF AckInv

LEMMA CloseInboundsAnswered ==
    ASSUME BillingInv, AckInv, CloseInbounds
    PROVE  AckInv'
<1>1. /\ pass = "close" /\ core' \in Without(core.serves)
      /\ UNCHANGED <<missed, today, netVars, share>>
      BY DEF CloseInbounds
<1>2. /\ helper \in HelperState /\ core \in Cores /\ core.epoch \in Nat
      /\ helper.epoch # 0 /\ ~helper.stopped
      /\ helper.status # "revoked" /\ helper.period <= today /\ helper.used >= Limit
      /\ \A n \in Node : n \in missed \/ Gain(helper.counter[n], core.epoch, core.raw[n]) = 0
      BY <1>1, AckWorld DEF BillingInv, HelperIsSound, AckInv, PassIsSound, Cores
<1> DEFINE d == [helper EXCEPT !.applied = {}]
           h == WithNodes(d)
<1>3. RecordAndEnd(h) BY DEF CloseInbounds
<1>4. /\ d \in HelperState /\ d.gen = helper.gen /\ d.seq = helper.seq /\ d.counter = helper.counter
      /\ d.epoch = helper.epoch /\ d.stopped = helper.stopped /\ d.status = helper.status
      /\ d.ack = helper.ack /\ d.applied = {} /\ d.period = helper.period /\ d.used = helper.used
      BY <1>2 DEF HelperState
<1> HIDE DEF d
<1>5. /\ h \in HelperState /\ h.gen = helper.gen /\ h.seq = helper.seq /\ h.ack = helper.ack
      /\ h.counter = helper.counter /\ h.epoch # 0 /\ h.stopped = FALSE /\ h.applied = {}
      /\ h.status # "revoked" /\ h.period = helper.period /\ h.used = helper.used
      /\ \A n \in DOMAIN h.nodes : h.nodes[n].total = h.counter[n].total
      BY <1>2, <1>4, WithNodesOf, WithNodesFields
<1> HIDE DEF h
<1>6. /\ core'.serves = {} /\ core'.epoch = core.epoch
      /\ \A n \in Node : core'.raw[n] \in {core.raw[n], 0} /\ core.raw[n] \in Nat
  <2>1. /\ core'.epoch = core.epoch /\ core'.serves = core.serves \ core.serves
        /\ \A n \in Node : core'.raw[n] = core.raw[n] \/ (n \in core.serves /\ core'.raw[n] = 0)
        BY <1>1, <1>2, WithoutCore
  <2> QED BY <1>2, <2>1 DEF Cores
<1>7. \A n \in DOMAIN h.nodes :
         n \in missed' \/ Gain(h.counter[n], core'.epoch, core'.raw[n]) = 0
      BY <1>1, <1>2, <1>5, <1>6, NodeTypes, CounterTypes, CutGains
<1>8. ASSUME settled, Material(h) = published.material, NEW n \in Ended(h, missed')
      PROVE  n \in Ended(helper, missed) /\ h.nodes[n].total = helper.nodes[n].total
  <2>1. published.material[8] = States(helper) BY <1>1, <1>8 DEF AckInv, RecordIsSound
  <2>2. /\ n \in DOMAIN h.nodes /\ h.nodes[n].state = "removed" /\ h.nodes[n].total > 0
        /\ n \notin missed
        BY <1>1, <1>5 DEF Ended
  <2>3. n \in DOMAIN helper.nodes /\ helper.nodes[n].state = "removed"
        BY <1>8, <2>1, <2>2, SameState
  <2>4. published.material[5] = helper.period /\ published.material[7]
    <3>1. published.material[5] = h.period /\ published.material[7] = (h.used >= Limit)
          BY <1>8 DEF Material
    <3> QED BY <1>2, <1>5, <3>1
  <2>5. Still(n) BY <1>1, <1>8, <2>2, <2>3, <2>4, CapIsRecorded
  <2> QED BY <1>5, <2>2, <2>3, <2>5 DEF Ended, Still
<1>9. pass # "removed" /\ core'.serves \subseteq h.applied /\ h.period <= today
      BY <1>1, <1>2, <1>5, <1>6
<1> QED BY <1>1, <1>3, <1>5, <1>7, <1>8, <1>9, RecordAnswered

LEMMA StopRevokedAnswered ==
    ASSUME BillingInv, AckInv, StopRevoked
    PROVE  AckInv'
<1>1. /\ pass = "idle" /\ core' = NewCore /\ UNCHANGED <<missed, today, netVars, share>>
      /\ ~settled
      BY DEF StopRevoked, AckInv, PassIsSound
<1>2. TypeInv /\ helper \in HelperState /\ core \in Cores /\ core.epoch > 0 /\ today \in Nat
      BY AckWorld DEF TypeInv
<1> DEFINE c == Collected(helper)
           d == [c EXCEPT !.applied = {}, !.stopped = TRUE]
           h == WithNodes(d)
<1>3. /\ c \in HelperState /\ c.gen = helper.gen /\ c.seq = helper.seq /\ c.ack = helper.ack
      /\ c.epoch = helper.epoch /\ c.period = today
      /\ c.counter = [n \in Node |-> Sample(helper.counter[n], n)]
      BY <1>2, CollectedType, CollectedFields
<1>4. RecordAndEnd(h) BY DEF StopRevoked
<1> HIDE DEF c
<1>5. /\ d \in HelperState /\ d.gen = c.gen /\ d.seq = c.seq /\ d.counter = c.counter
      /\ d.ack = c.ack /\ d.epoch = c.epoch /\ d.period = c.period /\ d.applied = {} /\ d.stopped = TRUE
      BY <1>3 DEF HelperState
<1> HIDE DEF d
<1>6. /\ h \in HelperState /\ h.gen = helper.gen /\ h.seq = helper.seq /\ h.ack = helper.ack
      /\ h.counter = [n \in Node |-> Sample(helper.counter[n], n)]
      /\ h.epoch = helper.epoch /\ h.period = today /\ h.applied = {} /\ h.stopped = TRUE
      /\ \A n \in DOMAIN h.nodes : h.nodes[n].total = h.counter[n].total
      BY <1>3, <1>5, WithNodesOf, WithNodesFields
<1> HIDE DEF h
<1>7. Quiet(core') /\ core'.serves = {} BY <1>1, <1>2, NewCoreSettles DEF Quiet
<1>8. \A n \in DOMAIN h.nodes : Gain(h.counter[n], core'.epoch, core'.raw[n]) = 0
      BY <1>2, <1>6, <1>7, NodeTypes, SampledGains
<1>9. h.epoch = 0 => \A n \in Node : h.counter[n].total = 0
      BY <1>1, <1>2, <1>6, UnbornCollected
<1>10. today <= today BY <1>2
<1> QED BY <1>1, <1>4, <1>6, <1>7, <1>8, <1>9, <1>10, RecordAnswered

\* What is left to show of a step that ends a pass in failure or goes on without a record.
LEMMA UnsettledAnswered ==
    ASSUME AckInv, StatesAreAnswered', share' = share, PassIsSound',
           ~settled' \/ pass' \in {"failed", "ready"}, pass' # "removed"
    PROVE  AckInv'
<1>1. RecordIsSound' BY DEF RecordIsSound
<1>2. FinalCountersBilled' BY DEF FinalCountersBilled
<1>3. LedgerHasReports' BY DEF AckInv, LedgerHasReports
<1> QED BY <1>1, <1>2, <1>3 DEF AckInv

LEMMA SaveFinalCountersAnswered ==
    ASSUME BillingInv, AckInv, SaveFinalCounters
    PROVE  AckInv'
<1>1. /\ pass = "idle" /\ helper.status # "revoked" /\ ~settled
      /\ UNCHANGED <<coreVars, published, settled, netVars, share>>
      BY DEF SaveFinalCounters, Reconciles
<1>2. TypeInv /\ helper \in HelperState /\ Answered(helper, Said, Pending, share.ledger, missed)
      /\ today \in Nat
      BY <1>1, AckWorld DEF TypeInv
<1> DEFINE g == Collected(helper)
<1>3. /\ g \in HelperState /\ g.gen = helper.gen /\ g.seq = helper.seq /\ g.ack = helper.ack
      /\ g.nodes = helper.nodes /\ g.epoch = helper.epoch /\ g.stopped = FALSE
      /\ g.counter = [n \in Node |-> Sample(helper.counter[n], n)]
      /\ g.applied = helper.applied /\ g.status = helper.status /\ g.period = today
      BY <1>2, CollectedType, CollectedFields
<1>4. helper' = g /\ (Persisted(g) \/ PersistFails(g)) /\ pass' \in {"ready", "failed"}
      BY DEF SaveFinalCounters
<1> HIDE DEF g
<1>5. disk' = disk \/ disk' = g BY <1>4 DEF Persisted, PersistFails
<1>6. g.epoch = 0 => g.applied = {} /\ \A n \in Node : g.counter[n].total = 0
      BY <1>1, <1>2, <1>3, UnbornCollected DEF Answered
<1>7. StatesAreAnswered' BY <1>1, <1>3, <1>4, <1>5, <1>6, GoesOnAnswered DEF coreVars, netVars
<1>8. PassIsSound' BY <1>1, <1>2, <1>3, <1>4, <1>5 DEF AckInv, PassIsSound, coreVars
<1> QED BY <1>1, <1>4, <1>7, <1>8, UnsettledAnswered

\* A step of a pass that does not touch what the record says.
LEMMA RecordKept ==
    ASSUME AckInv, NEW g, helper' = g, g.nodes = helper.nodes,
           pass \in {"idle", "remove", "add"}, settled,
           published' = published, missed' = missed,
           helper.period <= g.period, helper.period \in Nat, g.period \in Nat,
           helper.period = g.period /\ helper.used >= Limit => g.used >= Limit,
           \A n \in DOMAIN g.nodes : g.nodes[n].state = "removed" =>
               IF n \in g.applied THEN pass' = "finish" ELSE n \in missed \/ Still(n)'
    PROVE  RecordIsSound'
<1>1. /\ published.material # <<>> /\ published.material[8] = States(helper)
      /\ published.material[5] \in 0..helper.period
      /\ published.material[5] = helper.period /\ published.material[7] => helper.used >= Limit
      BY DEF AckInv, RecordIsSound
<1>2. States(helper)' = States(helper) BY DEF States
<1>3. published.material[5] \in 0..g.period BY <1>1
<1>4. published.material[5] = g.period => helper.period = g.period BY <1>1
<1> QED BY <1>1, <1>2, <1>3, <1>4 DEF RecordIsSound

LEMMA SaveCursorsAnswered ==
    ASSUME BillingInv, AckInv, SaveCursors
    PROVE  AckInv'
<1>1. /\ pass \in {"ready", "idle"} /\ helper.status # "revoked" /\ (settled => pass = "idle")
      /\ UNCHANGED <<missed, today, published, settled, netVars, share>>
      BY DEF SaveCursors, PassRuns, Reconciles, AckInv, PassIsSound
<1>2. /\ TypeInv /\ helper \in HelperState /\ core \in Cores /\ core.epoch > 0 /\ today \in Nat
      /\ helper.period \in Nat /\ helper.period <= today
      BY <1>1, AckWorld DEF TypeInv, HelperState, AckInv, PassIsSound
<1>11. core'.epoch = core.epoch /\ core'.raw = core.raw /\ core'.serves = core.serves
  <2>1. PICK open : core' = Limited(open) BY DEF SaveCursors
  <2> QED BY <1>2, <2>1, LimitedCore
<1> DEFINE g == Current
<1>3. /\ g \in HelperState /\ g.gen = helper.gen /\ g.seq = helper.seq /\ g.ack = helper.ack
      /\ g.nodes = helper.nodes /\ g.epoch = core.epoch /\ g.stopped = FALSE
      /\ g.counter = [n \in Node |-> Sample(helper.counter[n], n)]
      /\ g.applied \in {helper.applied, {}} /\ g.status = helper.status /\ g.period = today
      /\ helper.period = today => helper.used <= g.used
      BY <1>2, CurrentType, CurrentFields
<1>4. /\ helper' = g /\ (Persisted(g) \/ PersistFails(g))
      /\ pass' \in {"remove", "failed"}
      BY DEF SaveCursors, CursorsSaved
<1> HIDE DEF g
<1>5. disk' = disk \/ disk' = g BY <1>4 DEF Persisted, PersistFails
<1>6. g.epoch # 0 BY <1>2, <1>3 DEF Cores
<1>7. StatesAreAnswered' BY <1>1, <1>3, <1>4, <1>5, <1>6, GoesOnAnswered DEF netVars
<1>8. PassIsSound' BY <1>1, <1>2, <1>3, <1>4, <1>5 DEF AckInv, PassIsSound
<1>9. CASE ~settled \/ pass' = "failed" BY <1>1, <1>4, <1>7, <1>8, <1>9, UnsettledAnswered
<1>10. CASE settled /\ pass' = "remove"
  <2>1. \A n \in DOMAIN g.nodes : g.nodes[n].state = "removed" =>
           n \notin g.applied /\ (n \in missed \/ Still(n)')
    <3> SUFFICES ASSUME NEW n \in DOMAIN helper.nodes, helper.nodes[n].state = "removed"
                 PROVE  n \notin g.applied /\ (n \in missed \/ Still(n)')
        BY <1>3
    <3>1. n \notin helper.applied /\ (n \in missed \/ Still(n))
          BY <1>1, <1>10 DEF AckInv, RecordIsSound
    <3>2. n \in Node BY <1>2, NodeTypes
    <3>4. Still(n) => g.counter[n].total = helper.nodes[n].total
          BY <1>2, <1>3, <3>2, StillSampled
    <3>5. Gain(g.counter[n], core'.epoch, core'.raw[n]) = 0
          BY <1>2, <1>3, <1>11, <3>2, SampledGains
    <3> QED BY <1>3, <1>4, <1>11, <3>1, <3>4, <3>5 DEF Still
  <2>2. g.used \in Nat /\ helper.used \in Nat /\ Limit \in Nat
        BY <1>2, <1>3, LimitAssumption DEF HelperState
  <2>3. helper.period = g.period /\ helper.used >= Limit => g.used >= Limit BY <1>3, <2>2
  <2>4. RecordIsSound' BY <1>1, <1>2, <1>3, <1>4, <1>10, <2>1, <2>3, RecordKept
  <2>5. FinalCountersBilled' BY <1>10 DEF FinalCountersBilled
  <2>6. LedgerHasReports' BY <1>1 DEF AckInv, LedgerHasReports
  <2> QED BY <1>7, <1>8, <2>4, <2>5, <2>6 DEF AckInv
<1> QED BY <1>4, <1>9, <1>10

\* A step that changes what is applied, with its effect on the Core.
LEMMA AppliedAnswered ==
    ASSUME BillingInv, AckInv, pass \in {"remove", "add"}, NEW S \in SUBSET Node,
           NEW g, g = [helper EXCEPT !.applied = S], helper' = g,
           core'.epoch = core.epoch, core'.serves \subseteq S,
           \A n \in Node : core'.raw[n] \in {core.raw[n], 0},
           NEW next, next = (IF pass = "remove" THEN "add" ELSE "finish"),
           \/ Persisted(g) /\ pass' = next
           \/ PersistFails(g) /\ pass' = "failed",
           next = "add" => S \subseteq Wanted(helper) \cap helper.applied,
           next = "finish" => S = Wanted(helper),
           UNCHANGED <<missed, today, published, settled, netVars, share>>
    PROVE  AckInv'
<1>1. /\ helper \in HelperState /\ core \in Cores /\ helper.epoch # 0 /\ ~helper.stopped
      /\ helper.status # "revoked" /\ helper.period <= today
      BY AckWorld DEF BillingInv, HelperIsSound, AckInv, PassIsSound
<1>2. /\ g \in HelperState /\ g.gen = helper.gen /\ g.seq = helper.seq /\ g.ack = helper.ack
      /\ g.nodes = helper.nodes /\ g.epoch = helper.epoch /\ g.stopped = helper.stopped
      /\ g.counter = helper.counter /\ g.applied = S /\ g.status = helper.status
      /\ g.period = helper.period /\ g.used = helper.used /\ g.desired = helper.desired
      BY <1>1 DEF HelperState
<1>3. Wanted(g) = Wanted(helper) BY <1>2 DEF Wanted
<1>4. disk' = disk \/ disk' = g BY DEF Persisted, PersistFails
<1>5. StatesAreAnswered' BY <1>1, <1>2, <1>4, GoesOnAnswered DEF netVars
<1>6. pass' \in {next, "failed"} /\ next \in {"add", "finish"} OBVIOUS
<1>7. Wanted(helper)' = Wanted(helper) BY <1>3 DEF Wanted
<1>8. PassIsSound' BY <1>1, <1>2, <1>4, <1>6, <1>7 DEF AckInv, PassIsSound
<1>9. CASE ~settled \/ pass' = "failed" BY <1>5, <1>6, <1>8, <1>9, UnsettledAnswered
<1>10. CASE settled /\ pass' = next
  <2>1. ASSUME NEW n \in DOMAIN g.nodes, g.nodes[n].state = "removed"
        PROVE  IF n \in g.applied THEN pass' = "finish" ELSE n \in missed \/ Still(n)'
    <3>1. n \notin helper.applied /\ (n \in missed \/ Still(n))
          BY <1>2, <1>10, <2>1 DEF AckInv, RecordIsSound
    <3>2. CASE n \notin S
      <4>1. n \notin core'.serves BY <3>2
      <4>2. n \in Node /\ helper.counter[n] \in Counters /\ core.raw[n] \in Nat
            BY <1>1, <1>2, <2>1, NodeTypes, CounterTypes DEF Cores
      <4>3. Gain(helper.counter[n], core.epoch, core.raw[n]) = 0
              => Gain(helper.counter[n], core.epoch, core'.raw[n]) = 0
            BY <4>2, CutGains
      <4> QED BY <1>2, <3>1, <3>2, <4>1, <4>3 DEF Still
    <3>3. CASE n \in S
      <4>1. next = "finish" BY <1>6, <3>1, <3>3
      <4> QED BY <1>2, <1>10, <3>3, <4>1
    <3> QED BY <3>2, <3>3
  <2>2. helper.period \in Nat /\ helper.period <= helper.period BY <1>1 DEF HelperState
  <2>4. RecordIsSound' BY <1>2, <1>10, <2>1, <2>2, RecordKept
  <2>5. FinalCountersBilled' BY <1>6, <1>10 DEF FinalCountersBilled
  <2>6. LedgerHasReports' BY DEF AckInv, LedgerHasReports
  <2> QED BY <1>5, <1>8, <2>4, <2>5, <2>6 DEF AckInv
<1> QED BY <1>9, <1>10

LEMMA RemoveInboundsAnswered ==
    ASSUME BillingInv, AckInv, RemoveInbounds
    PROVE  AckInv'
<1> DEFINE S == helper.applied \cap Wanted(helper)
           g == [helper EXCEPT !.applied = S]
<1>1. pass = "remove" BY DEF RemoveInbounds
<1>2. helper \in HelperState /\ core \in Cores BY AckWorld
<1>3. S \in SUBSET Node /\ g.applied = S BY <1>2 DEF HelperState
<1>4. /\ helper' = g /\ core' \in Without(core.serves \ g.applied)
      /\ \/ Persisted(g) /\ pass' = "add"
         \/ PersistFails(g) /\ pass' = "failed"
      /\ UNCHANGED <<missed, today, published, settled, netVars, share>>
      BY <1>2 DEF RemoveInbounds, HelperState
<1>5. g = [helper EXCEPT !.applied = S] /\ S \subseteq Wanted(helper) \cap helper.applied OBVIOUS
<1> HIDE DEF g, S
<1>6. /\ core'.epoch = core.epoch /\ core'.serves \subseteq S
      /\ \A n \in Node : core'.raw[n] \in {core.raw[n], 0}
  <2>1. /\ core'.epoch = core.epoch /\ core'.serves = core.serves \ (core.serves \ S)
        /\ \A n \in Node :
              core'.raw[n] = core.raw[n] \/ (n \in core.serves \ S /\ core'.raw[n] = 0)
        BY <1>2, <1>3, <1>4, WithoutCore
  <2> QED BY <2>1
<1> QED BY <1>1, <1>3, <1>4, <1>5, <1>6, AppliedAnswered

LEMMA AddInboundsAnswered ==
    ASSUME BillingInv, AckInv, AddInbounds
    PROVE  AckInv'
<1> DEFINE S == Wanted(helper)
           g == [helper EXCEPT !.applied = S]
<1>1. pass = "add" BY DEF AddInbounds
<1>2. /\ helper \in HelperState /\ core \in Cores
      /\ helper.applied \subseteq S /\ core.serves \subseteq helper.applied
      BY <1>1, AckWorld DEF AckInv, PassIsSound
<1>3. S \in SUBSET Node /\ g.applied = S BY <1>2 DEF HelperState, Wanted
<1>4. /\ helper' = g
      /\ core' = [core EXCEPT !.serves = @ \cup (g.applied \ helper.applied),
                              !.counts = @ \cup (g.applied \ helper.applied)]
      /\ \/ Persisted(g) /\ pass' = "finish"
         \/ PersistFails(g) /\ pass' = "failed"
      /\ UNCHANGED <<missed, today, published, settled, netVars, share>>
      BY DEF AddInbounds
<1>5. g = [helper EXCEPT !.applied = S] /\ S = Wanted(helper) OBVIOUS
<1> HIDE DEF g, S
<1>6. /\ core'.epoch = core.epoch /\ core'.serves \subseteq S
      /\ \A n \in Node : core'.raw[n] \in {core.raw[n], 0}
      BY <1>2, <1>3, <1>4 DEF Cores
<1> QED BY <1>1, <1>3, <1>4, <1>5, <1>6, AppliedAnswered

\* A step that leaves state, reports and answers alone, but perhaps for a file that goes.
LEMMA StatesStayAnswered ==
    ASSUME StatesAreAnswered, UNCHANGED <<missed, helper, published, inbox, request, late>>,
           share'.ledger = share.ledger, share'.gen = share.gen, share'.seq = share.seq,
           disk' \in {disk, NoState}, pass' # "removed" => pass # "removed"
    PROVE  StatesAreAnswered'
<1>1. Said' = Said BY DEF Said, AckOf
<1>2. Pending' = Pending BY DEF Pending
<1> QED BY <1>1, <1>2 DEF StatesAreAnswered

LEMMA CoreCallFailsAnswered ==
    ASSUME BillingInv, AckInv, CoreCallFails
    PROVE  AckInv'
<1>1. /\ pass # "removed" /\ pass' = "failed"
      /\ UNCHANGED <<coreVars, helperVars, netVars, share>>
      BY DEF CoreCallFails
<1>2. StatesAreAnswered' BY <1>1, StatesStayAnswered DEF AckInv, coreVars, helperVars, netVars
<1>3. PassIsSound' BY <1>1 DEF AckInv, PassIsSound, coreVars, helperVars
<1> QED BY <1>1, <1>2, <1>3, UnsettledAnswered

LEMMA FailPassAnswered ==
    ASSUME BillingInv, AckInv, FailPass
    PROVE  AckInv'
<1>1. /\ pass = "failed" /\ pass' = "idle" /\ settled' = FALSE
      /\ UNCHANGED <<missed, today, netVars, share>>
      BY DEF FailPass
<1>2. helper \in HelperState /\ Answered(helper, Said, Pending, share.ledger, missed)
      /\ helper.period <= today
      BY <1>1, AckWorld DEF AckInv, PassIsSound
<1> DEFINE f == [n \in DOMAIN helper.nodes |->
                   [total |-> helper.counter[n].total,
                    state |-> IF helper.nodes[n].state = "removed" THEN "removed" ELSE "error"]]
           h == [helper EXCEPT !.stopped = FALSE, !.nodes = f]
<1>3. PersistReport(h, TRUE) \/ PersistReportFails(h) BY DEF FailPass
<1>4. \A n \in DOMAIN helper.nodes : n \in Node /\ helper.counter[n].total \in Nat
      BY <1>2, NodeTypes, CounterTypes
<1>5. f \in [DOMAIN helper.nodes -> NodeReport] /\ DOMAIN helper.nodes \in SUBSET Node
      BY <1>4 DEF NodeReport
<1>6. f \in NodeReports BY <1>5, NodeReportsOf
<1> HIDE DEF f
<1>7. /\ h \in HelperState /\ h.gen = helper.gen /\ h.seq = helper.seq /\ h.ack = helper.ack
      /\ h.counter = helper.counter /\ h.stopped = FALSE /\ h.applied = helper.applied
      /\ h.epoch = helper.epoch /\ h.period = helper.period
      BY <1>2, <1>6 DEF HelperState
<1> HIDE DEF h
<1>8. h.epoch = 0 => h.applied = {} /\ \A n \in Node : h.counter[n].total = 0
      BY <1>2, <1>7 DEF Answered
<1>9. ~TRUE /\ Material(h) = published.material =>
         \A n \in Ended(h, missed') :
            n \in Ended(helper, missed) /\ h.nodes[n].total = helper.nodes[n].total
      OBVIOUS
<1>10. StatesAreAnswered' /\ helper'.period = h.period /\ disk' \in {disk, helper'}
       BY <1>1, <1>3, <1>7, <1>8, <1>9, ReportAnswered
<1>11. PassIsSound' BY <1>1, <1>2, <1>7, <1>10 DEF AckInv, PassIsSound
<1> QED BY <1>1, <1>10, <1>11, UnsettledAnswered

\* The acknowledgement that removeInstance waits for says that the counters are billed.
LEMMA AcknowledgedIsBilled ==
    ASSUME BillingInv, AckInv, pass # "removed", FinalReportAcknowledged, helper.stopped
    PROVE  \A n \in DOMAIN helper.nodes : share.ledger[n].total >= helper.counter[n].total
<1>1. /\ helper \in HelperState /\ Answered(helper, Said, Pending, share.ledger, missed)
      /\ share.ledger \in [Node -> Counters]
      BY AckWorld
<1>2. Acknowledges(helper.ack, helper, share.ledger, missed) BY <1>1 DEF Answered
<1>3. InLedger(helper, share.ledger, missed)
      BY <1>1, <1>2 DEF Acknowledges, FinalReportAcknowledged, HelperState, Acks
<1> TAKE n \in DOMAIN helper.nodes
<1>4. n \in Node /\ helper.nodes[n].total \in Nat BY <1>1, NodeTypes
<1>5. helper.nodes[n].total = helper.counter[n].total BY <1>1 DEF Answered
<1>6. share.ledger[n].total \in Nat BY <1>1, <1>4 DEF Counters
<1>7. helper.nodes[n].total > 0 => helper.nodes[n].total <= share.ledger[n].total
      BY <1>3 DEF InLedger, Ended
<1> QED BY <1>4, <1>5, <1>6, <1>7

LEMMA RemoveInstanceAnswered ==
    ASSUME BillingInv, AckInv, RemoveInstance
    PROVE  AckInv'
<1>1. /\ pass = "idle" /\ helper.stopped /\ FinalReportAcknowledged
      /\ disk' \in {disk, NoState} /\ pass' \in {"removed", "failed"}
      /\ pass' = "removed" => disk' = NoState
      /\ UNCHANGED <<coreVars, helper, published, settled, netVars, share>>
      BY DEF RemoveInstance
<1>2. StatesAreAnswered' BY <1>1, StatesStayAnswered DEF AckInv, coreVars, netVars
<1>3. PassIsSound' BY <1>1 DEF AckInv, PassIsSound, coreVars
<1>4. RecordIsSound' BY <1>1 DEF RecordIsSound
<1>5. LedgerHasReports' BY <1>1 DEF AckInv, LedgerHasReports
<1>6. FinalCountersBilled' BY <1>1, AcknowledgedIsBilled DEF FinalCountersBilled
<1> QED BY <1>2, <1>3, <1>4, <1>5, <1>6 DEF AckInv

-----------------------------------------------------------------------------
(* The Core, the calendar and the restarts of the Helper *)

\* Fewer reports and answers are on their way, and the ledger has grown.
LEMMA FewerAnswers ==
    ASSUME BillingInv, AckInv, UNCHANGED <<helper, disk, pass>>, missed \subseteq missed',
           share'.ledger \in [Node -> Counters],
           \A n \in Node : share.ledger[n].total <= share'.ledger[n].total,
           Said' \in SUBSET Said, Pending' \in SUBSET Pending
    PROVE  StatesAreAnswered'
<1>1. /\ helper \in HelperState /\ share.ledger \in [Node -> Counters]
      /\ pass # "removed" => Answered(helper, Said, Pending, share.ledger, missed)
      /\ disk # NoState => disk \in HelperState /\ Answered(disk, Said, Pending, share.ledger, missed)
      BY AckWorld
<1>2. /\ pass # "removed" => Answered(helper, Said', Pending', share'.ledger, missed')
      /\ disk # NoState => Answered(disk, Said', Pending', share'.ledger, missed')
      BY <1>1, AnsweredLater
<1> QED BY <1>2 DEF StatesAreAnswered

LEMMA LedgerStays ==
    ASSUME BillingInv, share'.ledger = share.ledger
    PROVE  /\ share'.ledger \in [Node -> Counters]
           /\ \A n \in Node : share.ledger[n].total <= share'.ledger[n].total
<1>1. share.ledger \in [Node -> Counters] BY InvWorld
<1> QED BY <1>1 DEF Counters

\* A Core that moves without the Helper leaves the ended nodes alone.
LEMMA CoreMovesAnswered ==
    ASSUME BillingInv, AckInv, UNCHANGED <<helperVars, pass, netVars, share>>, today <= today',
           today \in Nat, today' \in Nat, helper.period \in Nat, disk # NoState => disk.period \in Nat,
           core'.serves \subseteq core.serves,
           pass = "close" => core'.serves \subseteq core'.blocked,
           pass \in {"over", "close"} => \A n \in Node :
              n \in missed' \/ Gain(helper.counter[n], core'.epoch, core'.raw[n]) = 0,
           missed \subseteq missed',
           \A n \in DOMAIN helper.nodes : Still(n) => Still(n)'
    PROVE  AckInv'
<1>1. StatesAreAnswered'
  <2>1. Said' = Said /\ Pending' = Pending BY DEF Said, AckOf, Pending, helperVars, netVars
  <2>2. share' = share /\ UNCHANGED <<helper, disk, pass>> BY DEF helperVars
  <2> QED BY <2>1, <2>2, LedgerStays, FewerAnswers
<1>2. Wanted(helper)' = Wanted(helper) BY DEF helperVars, Wanted
<1>3. PassIsSound' BY <1>2 DEF AckInv, PassIsSound, helperVars
<1>4. RecordIsSound'
  <2>1. States(helper)' = States(helper) BY DEF States, helperVars
  <2> QED BY <2>1 DEF AckInv, RecordIsSound, helperVars
<1>5. LedgerHasReports' /\ FinalCountersBilled'
      BY DEF AckInv, LedgerHasReports, FinalCountersBilled, helperVars
<1> QED BY <1>1, <1>3, <1>4, <1>5 DEF AckInv

LEMMA PeriodTypes ==
    ASSUME BillingInv
    PROVE  today \in Nat /\ helper.period \in Nat /\ (disk # NoState => disk.period \in Nat)
BY DEF BillingInv, TypeInv, HelperState

LEMMA TrafficAnswered ==
    ASSUME BillingInv, AckInv, NEW x \in Node, Traffic(x)
    PROVE  AckInv'
<1>1. /\ core' = [core EXCEPT !.raw[x] = @ + 1] /\ x \in core.serves \ core.blocked
      /\ missed' = IF pass = "over" THEN missed \cup {x} ELSE missed
      /\ UNCHANGED <<today, helperVars, pass, netVars, share>>
      BY DEF Traffic
<1>2. core \in Cores /\ helper \in HelperState BY AckWorld
<1>3. /\ core'.serves = core.serves /\ core'.epoch = core.epoch /\ core'.blocked = core.blocked
      /\ \A n \in Node \ {x} : core'.raw[n] = core.raw[n]
      BY <1>1, <1>2 DEF Cores
<1>4. ASSUME NEW n \in DOMAIN helper.nodes, Still(n) PROVE Still(n)'
  <2>1. n \in Node /\ n # x BY <1>1, <1>2, <1>4, NodeTypes DEF Still
  <2> QED BY <1>1, <1>3, <1>4, <2>1 DEF Still, helperVars
<1>5. today <= today' /\ missed \subseteq missed' BY <1>1, PeriodTypes
<1>6. pass # "close" BY <1>1 DEF AckInv, PassIsSound
<1>7. ASSUME pass = "over", NEW n \in Node
      PROVE  n \in missed' \/ Gain(helper.counter[n], core'.epoch, core'.raw[n]) = 0
  <2>1. n \in missed \/ Gain(helper.counter[n], core.epoch, core.raw[n]) = 0
        BY <1>7 DEF AckInv, PassIsSound
  <2> QED BY <1>1, <1>3, <1>7, <2>1
<1> QED BY <1>1, <1>3, <1>4, <1>5, <1>6, <1>7, PeriodTypes, CoreMovesAnswered

LEMMA CoreRestartsAnswered ==
    ASSUME BillingInv, AckInv, CoreRestarts
    PROVE  AckInv'
<1>1. core' = NewCore /\ UNCHANGED <<missed, today, helperVars, pass, netVars, share>>
      BY DEF CoreRestarts
<1>2. core \in Cores /\ core.epoch > 0 /\ helper \in HelperState BY AckWorld
<1>3. Quiet(core') /\ core'.serves = {} BY <1>1, <1>2, NewCoreSettles DEF Quiet
<1>4. ASSUME NEW n \in DOMAIN helper.nodes, Still(n) PROVE Still(n)'
  <2>1. n \in Node /\ helper.counter[n] \in Counters BY <1>2, NodeTypes, CounterTypes
  <2>2. Gain(helper.counter[n], core'.epoch, core'.raw[n]) = 0 BY <1>3, <2>1, QuietGains
  <2> QED BY <1>1, <1>3, <1>4, <2>2 DEF Still, helperVars
<1>5. /\ today <= today' /\ core'.serves \subseteq core.serves /\ missed \subseteq missed'
      /\ core'.serves \subseteq core'.blocked
      BY <1>1, <1>3, PeriodTypes
<1>6. \A n \in Node : Gain(helper.counter[n], core'.epoch, core'.raw[n]) = 0
      BY <1>2, <1>3, CounterTypes, QuietGains
<1> QED BY <1>1, <1>4, <1>5, <1>6, PeriodTypes, CoreMovesAnswered

LEMMA PeriodEndsAnswered ==
    ASSUME BillingInv, AckInv, PeriodEnds
    PROVE  AckInv'
<1>1. today' = today + 1 /\ UNCHANGED <<core, missed, helperVars, pass, netVars, share>>
      BY DEF PeriodEnds
<1>2. \A n \in DOMAIN helper.nodes : Still(n) => Still(n)' BY <1>1 DEF Still, helperVars
<1>3. today <= today' /\ today' \in Nat BY <1>1, PeriodTypes
<1>4. /\ pass = "close" => core'.serves \subseteq core'.blocked
      /\ pass \in {"over", "close"} => \A n \in Node :
            n \in missed' \/ Gain(helper.counter[n], core'.epoch, core'.raw[n]) = 0
      BY <1>1 DEF AckInv, PassIsSound
<1> QED BY <1>1, <1>2, <1>3, <1>4, PeriodTypes, CoreMovesAnswered

\* Nobody has ever heard of a generation that is drawn now.
LEMMA DrawnAnswered ==
    ASSUME BillingInv, AckInv, Restarted(NewState(Len(born) + 1)), disk' = NoState,
           UNCHANGED <<missed, today, late, share>>
    PROVE  AckInv'
<1> DEFINE h == NewState(Len(born) + 1)
<1>1. Len(born) \in Nat /\ Pending \in SUBSET Report BY InvWorld, WorldTypes
<1>2. /\ h \in HelperState /\ h.gen = Len(born) + 1 /\ h.version = 0 /\ h.period = 0
      /\ h.ack = NoAck /\ h.stopped = FALSE /\ h.applied = {} /\ h.counter = [n \in Node |-> NoCounter]
      BY <1>1, NewStateType DEF NewState
<1> HIDE DEF h
<1>3. /\ helper' = h /\ published' = Unpublished
      /\ pass' = "idle" /\ settled' = FALSE /\ inbox' = NoEnvelope /\ request' = NoReport
      BY <1>2 DEF Restarted, h
<1>4. Said' = {AckOf(share)} BY <1>3 DEF Said, AckOf
<1>5. Pending' \in SUBSET Pending BY <1>3 DEF Pending, Unpublished
<1>6. share.gen \in 0..Len(born) /\ \A r \in Pending : r.gen \in 1..Len(born)
      BY DEF BillingInv, LedgerIsSound, ReportsAreSound
<1>7. \A a \in Said' \cup {h.ack} : a.gen # h.gen
      BY <1>1, <1>2, <1>4, <1>6 DEF AckOf, NoAck
<1>8. \A r \in Pending' : r.gen # h.gen BY <1>1, <1>2, <1>5, <1>6
<1>9. \A n \in Node : h.counter[n].total = 0 BY <1>2 DEF NoCounter
<1>10. Answered(h, Said', Pending', share.ledger, missed)
       BY <1>2, <1>7, <1>8, <1>9 DEF Answered, Acknowledges
<1>11. StatesAreAnswered' BY <1>3, <1>10 DEF StatesAreAnswered
<1>12. PassIsSound' BY <1>2, <1>3, PeriodTypes DEF PassIsSound
<1> QED BY <1>3, <1>11, <1>12, UnsettledAnswered

LEMMA ReinstalledAnswered ==
    ASSUME BillingInv, AckInv, Reinstalled
    PROVE  AckInv'
BY DrawnAnswered DEF Reinstalled

LEMMA HelperRestartsAnswered ==
    ASSUME BillingInv, AckInv, HelperRestarts
    PROVE  AckInv'
<1>1. /\ Restarted(Loaded) /\ UNCHANGED <<core, missed, today, late, share>>
      /\ disk' = IF disk = NoState THEN NoState ELSE Loaded
      BY DEF HelperRestarts
<1>2. CASE disk = NoState
  <2>1. Loaded = NewState(Len(born) + 1) BY <1>2 DEF Loaded
  <2> QED BY <1>1, <1>2, <2>1, DrawnAnswered
<1>3. CASE disk # NoState
  <2>1. /\ disk \in HelperState /\ Answered(disk, Said, Pending, share.ledger, missed)
        /\ share.ledger \in [Node -> Counters]
        BY <1>3, AckWorld
  <2>2. disk.ack.gen = disk.gen => disk.ack.seq <= disk.seq
        BY <2>1 DEF Answered, Acknowledges
  <2>3. Loaded = disk
    <3>1. disk.ack.gen = disk.gen => Larger(disk.seq, disk.ack.seq) = disk.seq
          BY <2>1, <2>2 DEF Larger, HelperState, Acks
    <3>2. disk.ack.gen = disk.gen => Loaded = [disk EXCEPT !.seq = disk.seq]
          BY <1>3, <3>1 DEF Loaded
    <3>3. [disk EXCEPT !.seq = disk.seq] = disk BY <2>1 DEF HelperState
    <3> QED BY <1>3, <3>2, <3>3 DEF Loaded
  <2>4. /\ helper' = disk /\ disk' = disk
        /\ published' = Published(disk) \/ published' = Unpublished
        /\ pass' = "idle" /\ settled' = FALSE /\ inbox' = NoEnvelope /\ request' = NoReport
        BY <1>1, <1>3, <2>3 DEF Restarted
  <2>5. Said' \in SUBSET Said BY <1>1, <2>4 DEF Said, AckOf
  <2>6. Pending' \in SUBSET (Pending \cup {ReportOf(disk)})
    <3>1. Published(disk).report = ReportOf(disk) BY <2>1, ReportOfType
    <3>2. published'.report = NoReport \/ published'.report = ReportOf(disk)
          BY <2>4, <3>1 DEF Unpublished
    <3> QED BY <1>1, <2>4, <3>2 DEF Pending
  <2>7. Answered(disk, Said, Pending \cup {ReportOf(disk)}, share.ledger, missed)
    <3>1. /\ disk.stopped => \A n \in DOMAIN disk.nodes : disk.nodes[n].total = disk.counter[n].total
          /\ disk.epoch = 0 => disk.applied = {} /\ \A n \in Node : disk.counter[n].total = 0
          BY <2>1 DEF Answered
    <3> QED BY <2>1, <3>1, AnsweredAgain
  <2>8. \A n \in Node : share.ledger[n].total <= share.ledger[n].total BY <2>1 DEF Counters
  <2>9. Answered(disk, Said', Pending', share.ledger, missed)
        BY <2>1, <2>5, <2>6, <2>7, <2>8, AnsweredLater
  <2>10. StatesAreAnswered' BY <1>1, <2>4, <2>9 DEF StatesAreAnswered
  <2>11. PassIsSound' BY <1>1, <1>3, <2>4 DEF AckInv, PassIsSound
  <2> QED BY <1>1, <2>4, <2>10, <2>11, UnsettledAnswered
<1> QED BY <1>2, <1>3

-----------------------------------------------------------------------------
(* Envelopes *)

LEMMA AcceptedFields ==
    ASSUME TypeInv, NEW h \in HelperState, NEW e \in Envelope, NEW g, g = Accepted(h, e)
    PROVE  /\ g.ack = e.ack /\ g.status = e.status /\ g.applied = h.applied
           /\ g.period = today /\ (h.period = today => h.used <= g.used)
<1> DEFINE q == [h EXCEPT !.version = e.version, !.status = e.status,
                          !.desired = e.desired, !.ack = e.ack]
           p == InPeriod(q)
<1>1. /\ q \in HelperState /\ q.ack = e.ack /\ q.status = e.status /\ q.applied = h.applied
      /\ q.period = h.period /\ q.used = h.used
      BY DEF HelperState, Envelope
<1> HIDE DEF q
<1>2. /\ p \in HelperState /\ p.ack = e.ack /\ p.status = e.status /\ p.applied = h.applied
      /\ p.period = today /\ (h.period = today => p.used = h.used)
      BY <1>1, InPeriodType DEF InPeriod, HelperState
<1>3. g = p \/ g = [p EXCEPT !.used = Larger(@, e.used)] BY DEF Accepted, q
<1>4. p.used \in Nat /\ p.used <= p.used /\ p.used <= Larger(p.used, e.used)
      BY <1>2 DEF Larger, HelperState, Envelope
<1> HIDE DEF p
<1> QED BY <1>2, <1>3, <1>4 DEF HelperState

LEMMA AcceptAnswered ==
    ASSUME BillingInv, AckInv, Accept
    PROVE  AckInv'
<1>1. /\ inbox' = NoEnvelope /\ inbox # NoEnvelope /\ inbox \in Envelope
      /\ UNCHANGED <<coreVars, request, late, share>>
      BY DEF Accept, BillingInv, TypeInv
<1>2. LedgerHasReports' BY <1>1 DEF AckInv, LedgerHasReports
<1>3. CASE inbox.version < helper.version \/ pass = "removed"
  <2>1. UNCHANGED <<helper, disk, published, pass, settled, faults>> BY <1>3 DEF Accept
  <2>2. Said' \in SUBSET Said BY <1>1 DEF Said, AckOf
  <2>3. Pending' \in SUBSET Pending BY <1>1, <2>1 DEF Pending
  <2>4. StatesAreAnswered'
    <3>1. missed \subseteq missed' BY <1>1 DEF coreVars
    <3> QED BY <1>1, <2>1, <2>2, <2>3, <3>1, FewerAnswers, LedgerStays
  <2>5. PassIsSound' /\ FinalCountersBilled'
    <3>1. Wanted(helper)' = Wanted(helper) BY <2>1 DEF Wanted
    <3> QED BY <1>1, <2>1, <3>1 DEF AckInv, PassIsSound, FinalCountersBilled, coreVars
  <2>6. RecordIsSound'
    <3>1. States(helper)' = States(helper) BY <2>1 DEF States
    <3>2. \A n : Still(n)' = Still(n) BY <1>1, <2>1 DEF Still, coreVars
    <3>3. missed' = missed BY <1>1 DEF coreVars
    <3> QED BY <2>1, <3>1, <3>2, <3>3 DEF AckInv, RecordIsSound
  <2> QED BY <1>2, <2>4, <2>5, <2>6 DEF AckInv
<1>4. CASE ~(inbox.version < helper.version \/ pass = "removed")
  <2>1. /\ TakeOver(inbox) /\ pass = "idle"
        /\ settled' = (settled /\ inbox.version = helper.version /\ inbox.status = helper.status)
        BY <1>4 DEF Accept
  <2>2. /\ TypeInv /\ helper \in HelperState /\ Answered(helper, Said, Pending, share.ledger, missed)
        /\ today \in Nat /\ helper.period \in Nat /\ helper.period <= today
        BY <2>1, AckWorld DEF TypeInv, HelperState, AckInv, PassIsSound
  <2>3. CASE Absent(inbox)
    <3>1. /\ helper' = AbsentState(helper, inbox) /\ pass' = "removed" /\ disk' = NoState
          BY <2>1, <2>3 DEF TakeOver, Absent
    <3>2. DOMAIN helper'.nodes = {} BY <1>1, <2>2, <3>1, AbsentStateType
    <3>3. helper'.stopped BY <2>2, <3>1 DEF AbsentState, HelperState
    <3> QED BY <1>2, <3>1, <3>2, <3>3
            DEF AckInv, StatesAreAnswered, PassIsSound, RecordIsSound, FinalCountersBilled
  <2>4. CASE ~Absent(inbox)
    <3> DEFINE g == Accepted(helper, inbox)
    <3>1. /\ helper' = g
          /\ \/ Persisted(helper') \/ PersistFails(helper')
             \/ UNCHANGED <<disk, faults>>
          /\ UNCHANGED <<published, pass>>
          BY <2>1, <2>4 DEF TakeOver
    <3>2. /\ g \in HelperState /\ g.gen = helper.gen /\ g.seq = helper.seq
          /\ g.counter = helper.counter /\ g.nodes = helper.nodes
          /\ g.stopped = helper.stopped /\ g.epoch = helper.epoch
          BY <1>1, <2>2, AcceptedType
    <3>3. /\ g.ack = inbox.ack /\ g.status = inbox.status /\ g.applied = helper.applied
          /\ g.period = today /\ (helper.period = today => helper.used <= g.used)
          BY <1>1, <2>2, AcceptedFields
    <3> HIDE DEF g
    <3>4. disk' = disk \/ disk' = g BY <3>1 DEF Persisted, PersistFails
    <3>5. g.ack \in Said BY <1>1, <3>3 DEF Said
    <3>6. g.epoch = 0 => g.applied = {} /\ \A n \in Node : g.counter[n].total = 0
          BY <2>2, <3>2, <3>3 DEF Answered
    <3>7. StatesAreAnswered'
          BY <1>1, <2>1, <3>1, <3>2, <3>4, <3>5, <3>6, GoesOnAnswered DEF coreVars
    <3>8. PassIsSound'
      <4>1. settled' => settled /\ inbox.status = helper.status BY <2>1
      <4>2. settled' /\ g.status = "revoked" => g.stopped
            BY <3>2, <3>3, <4>1 DEF AckInv, PassIsSound
      <4>3. settled' => core'.serves \subseteq g.applied
            BY <1>1, <2>1, <3>3, <4>1 DEF AckInv, PassIsSound, coreVars
      <4>4. pass' = "idle" /\ today' = today /\ g.period <= today BY <1>1, <2>1, <2>2, <3>1, <3>3 DEF coreVars
      <4>5. disk' # NoState => disk'.period <= today BY <3>4, <4>4 DEF AckInv, PassIsSound
      <4> QED BY <3>1, <4>2, <4>3, <4>4, <4>5 DEF PassIsSound
    <3>9. RecordIsSound'
      <4>1. CASE ~settled' BY <4>1 DEF RecordIsSound
      <4>2. CASE settled'
        <5>1. settled BY <2>1, <4>2
        <5>2. ASSUME NEW n \in DOMAIN g.nodes, g.nodes[n].state = "removed"
              PROVE  n \notin g.applied /\ (n \in missed \/ Still(n)')
          <6>1. n \notin helper.applied /\ (n \in missed \/ Still(n))
                BY <2>1, <3>2, <5>1, <5>2 DEF AckInv, RecordIsSound
          <6> QED BY <1>1, <3>1, <3>2, <3>3, <6>1 DEF Still, coreVars
        <5>3. g.used \in Nat /\ helper.used \in Nat /\ Limit \in Nat
              BY <2>2, <3>2, LimitAssumption DEF HelperState
        <5>4. helper.period = g.period /\ helper.used >= Limit => g.used >= Limit BY <3>3, <5>3
        <5>5. missed' = missed BY <1>1 DEF coreVars
        <5> QED BY <2>1, <2>2, <3>1, <3>2, <3>3, <5>1, <5>2, <5>4, <5>5, RecordKept
      <4> QED BY <4>1, <4>2
    <3>10. FinalCountersBilled' BY <2>1, <3>1 DEF FinalCountersBilled
    <3> QED BY <1>2, <3>7, <3>8, <3>9, <3>10 DEF AckInv
  <2> QED BY <2>3, <2>4
<1> QED BY <1>3, <1>4

-----------------------------------------------------------------------------
(* The controller *)

\* A merge only adds, and never leaves less of a node than the report says.
LEMMA MergeGrows ==
    ASSUME NEW s \in Share, NEW r \in Report, NEW t \in Share, Merges(s, r, t), NEW n \in Node,
           s.ledger[n].raw <= s.ledger[n].total
    PROVE  s.ledger[n].total <= t.ledger[n].total /\ t.ledger[n].raw <= t.ledger[n].total
<1>1. s.ledger[n].epoch \in Nat /\ s.ledger[n].raw \in Nat /\ s.ledger[n].total \in Nat BY ShareTypes
<1>2. CASE n \notin DOMAIN r.nodes
  <2>1. t.ledger[n] = s.ledger[n] BY <1>2 DEF Merges
  <2> QED BY <1>1, <2>1
<1>3. CASE n \in DOMAIN r.nodes
  <2>1. r.nodes[n].total \in Nat /\ r.gen \in Nat BY <1>3, ReportTypes
  <2>2. /\ t.ledger[n].raw = r.nodes[n].total
        /\ t.ledger[n].total = s.ledger[n].total + Gain(s.ledger[n], r.gen, r.nodes[n].total)
        BY <1>3, MergesNode
  <2>3. \/ /\ r.nodes[n].total >= s.ledger[n].raw
           /\ Gain(s.ledger[n], r.gen, r.nodes[n].total) = r.nodes[n].total - s.ledger[n].raw
        \/ Gain(s.ledger[n], r.gen, r.nodes[n].total) = r.nodes[n].total
        BY <1>1, <2>1 DEF Gain, Delta
  <2> QED BY <1>1, <2>1, <2>2, <2>3
<1> QED BY <1>2, <1>3

\* The acknowledgement of a merged report is true.
LEMMA MergedIsAcknowledged ==
    ASSUME NEW h \in HelperState, NEW A, NEW P \in SUBSET Report, NEW l, NEW M,
           Answered(h, A, P, l, M), NEW r \in P, Knows(h, r.gen, r.seq, r.nodes),
           NEW s, NEW t \in Share, Merges(s, r, t), \A n \in Node : t.ledger[n].raw <= t.ledger[n].total
    PROVE  Acknowledges(AckOf(t), h, t.ledger, M)
<1>1. t.gen = r.gen /\ t.seq = r.seq BY DEF Merges
<1>2. AckOf(t).gen = r.gen /\ AckOf(t).seq = r.seq BY <1>1 DEF AckOf
<1>3. r.gen = h.gen => r.seq <= h.seq BY DEF Knows
<1>4. ASSUME r.gen = h.gen, r.seq = h.seq, NEW n \in Ended(h, M)
      PROVE  h.nodes[n].total <= t.ledger[n].total
  <2>1. InReport(h, r, M) BY <1>4 DEF Answered
  <2>2. n \in DOMAIN r.nodes /\ h.nodes[n].total <= r.nodes[n].total BY <1>4, <2>1 DEF InReport
  <2>3. n \in Node /\ r.nodes[n].total \in Nat BY <2>2, ReportTypes
  <2>4. t.ledger[n].raw = r.nodes[n].total BY <2>2, MergesNode
  <2>5. t.ledger[n].total \in Nat /\ r.nodes[n].total <= t.ledger[n].total
        BY <2>3, <2>4, ShareTypes
  <2>6. h.nodes[n].total \in Nat BY <1>4, NodeTypes DEF Ended
  <2> QED BY <2>2, <2>3, <2>5, <2>6
<1> QED BY <1>2, <1>3, <1>4 DEF Acknowledges, InLedger

\* One answer more.
LEMMA AnsweredOnce ==
    ASSUME NEW h \in HelperState, NEW A, NEW P, NEW l \in [Node -> Counters], NEW M,
           Answered(h, A, P, l, M),
           NEW m \in [Node -> Counters], \A n \in Node : l[n].total <= m[n].total,
           NEW a, Acknowledges(a, h, m, M), NEW B \in SUBSET (A \cup {a}), NEW Q \in SUBSET P
    PROVE  Answered(h, B, Q, m, M)
<1>1. Answered(h, A, Q, m, M) BY AnsweredLater
<1>2. Answered(h, A \cup {a}, Q, m, M) BY <1>1 DEF Answered
<1>3. \A n \in Node : m[n].total <= m[n].total BY DEF Counters
<1> QED BY <1>2, <1>3, AnsweredLater

\* The controller handles a report, and what it answers is true.
LEMMA HandledAnswered ==
    ASSUME BillingInv, AckInv, FewGenerations, NEW r \in Pending \cup {NoReport},
           share' = AfterReport(r), UNCHANGED <<missed, helper, disk, pass>>,
           Pending' \in SUBSET Pending, Said' \in SUBSET (Said \cup {AckOf(share')})
    PROVE  /\ StatesAreAnswered' /\ LedgerHasReports'
           /\ share'.ledger \in [Node -> Counters]
           /\ \A n \in Node : share.ledger[n].total <= share'.ledger[n].total
<1>1. /\ World(core, carried, born) /\ Pending \in SUBSET Report
      /\ share.ledger \in [Node -> Counters] /\ share \in Share /\ TypeInv
      /\ LedgerIsSound(share, Pending, carried, born)
      /\ ReportsAreSound(Pending, carried, born)
      BY InvWorld DEF BillingInv
<1>2. CASE share' = share \/ share' = ShareInPeriod(share)
  <2>1. share'.ledger = share.ledger /\ share'.gen = share.gen /\ share'.seq = share.seq
        BY <1>1, <1>2, InPeriodShare
  <2>2. Said' \in SUBSET Said
    <3>1. AckOf(share') = AckOf(share) BY <2>1 DEF AckOf
    <3> QED BY <3>1 DEF Said
  <2>3. LedgerHasReports' BY <2>1 DEF AckInv, LedgerHasReports
  <2> QED BY <2>1, <2>2, <2>3, LedgerStays, FewerAnswers
<1>3. CASE Fresh(share, r) /\ share' = MergedShare(share, r)
  <2>1. r \in Pending /\ r \in Report BY <1>1, <1>3 DEF Fresh
  <2>2. r.gen \in 1..Len(born) BY <1>1, <2>1 DEF ReportsAreSound
  <2>3. Retired(share, r) = share.retired \cup ({share.gen} \ {0, r.gen})
        BY <1>1, <1>3, <2>2, AllRetired DEF FewGenerations
  <2>4. share' \in Share /\ Merges(share, r, share') BY <1>1, <1>3, <2>1, <2>3, MergedShareIs
  <2>5. \A n \in Node : /\ share.ledger[n].total <= share'.ledger[n].total
                        /\ share'.ledger[n].raw <= share'.ledger[n].total
    <3> TAKE n \in Node
    <3>1. share.ledger[n].raw <= share.ledger[n].total BY DEF AckInv, LedgerHasReports
    <3> QED BY <1>1, <2>1, <2>4, <3>1, MergeGrows
  <2>6. share'.ledger \in [Node -> Counters] BY <2>4 DEF Share
  <2>7. ASSUME NEW h \in HelperState, Answered(h, Said, Pending, share.ledger, missed),
               Sound(h, core, carried, born, Pending, share.ledger)
        PROVE  Answered(h, Said', Pending', share'.ledger, missed)
    <3>1. Knows(h, r.gen, r.seq, r.nodes) BY <2>1, <2>7 DEF Sound
    <3>2. Acknowledges(AckOf(share'), h, share'.ledger, missed)
          BY <1>1, <2>1, <2>4, <2>5, <2>7, <3>1, MergedIsAcknowledged
    <3> QED BY <1>1, <2>5, <2>6, <2>7, <3>2, AnsweredOnce
  <2>8. StatesAreAnswered'
    <3>1. /\ helper \in HelperState
          /\ pass # "removed" => /\ Answered(helper, Said, Pending, share.ledger, missed)
                                 /\ Sound(helper, core, carried, born, Pending, share.ledger)
          /\ disk # NoState => /\ disk \in HelperState /\ Answered(disk, Said, Pending, share.ledger, missed)
                               /\ Sound(disk, core, carried, born, Pending, share.ledger)
          BY AckWorld DEF BillingInv, HelperIsSound
    <3>2. /\ pass # "removed" => Answered(helper, Said', Pending', share'.ledger, missed)
          /\ disk # NoState => Answered(disk, Said', Pending', share'.ledger, missed)
          BY <2>7, <3>1
    <3> QED BY <3>2 DEF StatesAreAnswered
  <2>9. LedgerHasReports' BY <2>5 DEF LedgerHasReports
  <2> QED BY <2>5, <2>6, <2>8, <2>9
<1> QED BY <1>2, <1>3 DEF AfterReport

\* The Helper stays, and the ledger has grown.
LEMMA ShareAnswered ==
    ASSUME BillingInv, AckInv, UNCHANGED <<coreVars, helperVars, pass>>,
           share'.ledger \in [Node -> Counters],
           \A n \in Node : share.ledger[n].total <= share'.ledger[n].total,
           StatesAreAnswered', LedgerHasReports'
    PROVE  AckInv'
<1>1. PassIsSound'
  <2>1. Wanted(helper)' = Wanted(helper) BY DEF Wanted, helperVars
  <2> QED BY <2>1 DEF AckInv, PassIsSound, coreVars, helperVars
<1>2. RecordIsSound'
  <2>1. States(helper)' = States(helper) BY DEF States, helperVars
  <2>2. \A n : Still(n)' = Still(n) BY DEF Still, coreVars, helperVars
  <2> QED BY <2>1, <2>2 DEF AckInv, RecordIsSound, coreVars, helperVars
<1>3. FinalCountersBilled'
  <2> SUFFICES ASSUME pass = "removed", NEW n \in DOMAIN helper.nodes
               PROVE  share'.ledger[n].total >= helper.counter[n].total
      BY DEF FinalCountersBilled, helperVars
  <2>1. share.ledger[n].total >= helper.counter[n].total BY DEF AckInv, FinalCountersBilled
  <2>2. helper \in HelperState /\ share.ledger \in [Node -> Counters] BY InvWorld
  <2>3. n \in Node /\ helper.counter[n].total \in Nat BY <2>2, NodeTypes, CounterTypes
  <2>4. share.ledger[n].total \in Nat /\ share'.ledger[n].total \in Nat BY <2>2, <2>3 DEF Counters
  <2>5. share.ledger[n].total <= share'.ledger[n].total BY <2>3
  <2> QED BY <2>1, <2>3, <2>4, <2>5
<1> QED BY <1>1, <1>2, <1>3 DEF AckInv

\* Calls move, and nothing is handled.
LEMMA CallsAnswered ==
    ASSUME BillingInv, AckInv, UNCHANGED <<coreVars, helperVars, pass, inbox>>,
           share'.ledger = share.ledger, share'.gen = share.gen, share'.seq = share.seq,
           request' \in {request, published.report, NoReport},
           late' \subseteq late \cup ({request} \ {NoReport})
    PROVE  AckInv'
<1>1. Said' \in SUBSET Said BY DEF Said, AckOf
<1>2. Pending' \in SUBSET Pending BY DEF Pending, helperVars
<1>3. /\ share'.ledger \in [Node -> Counters]
      /\ \A n \in Node : share.ledger[n].total <= share'.ledger[n].total
      BY LedgerStays
<1>4. StatesAreAnswered' BY <1>1, <1>2, <1>3, FewerAnswers DEF coreVars, helperVars
<1>5. LedgerHasReports' BY DEF AckInv, LedgerHasReports
<1> QED BY <1>3, <1>4, <1>5, ShareAnswered

LEMMA UploadAnswered ==
    ASSUME BillingInv, AckInv, Upload
    PROVE  AckInv'
BY CallsAnswered DEF Upload

LEMMA AnswerAnswered ==
    ASSUME BillingInv, AckInv, FewGenerations, Answer
    PROVE  AckInv'
<1>1. /\ share' = AfterReport(request) /\ request' = NoReport
      /\ UNCHANGED <<coreVars, helperVars, pass, late>>
      BY DEF Answer
<1>2. request \in Pending \cup {NoReport} BY DEF Pending
<1>3. Pending' \in SUBSET Pending BY <1>1 DEF Pending, helperVars
<1>4. Said' \in SUBSET (Said \cup {AckOf(share')})
  <2>1. inbox' = inbox \/ inbox'.ack = AckOf(share')
    <3>1. ASSUME NEW portsKnown PROVE EnvelopeOf(share', portsKnown).ack = AckOf(share')
          BY DEF EnvelopeOf, AckOf
    <3> QED BY <3>1 DEF Answer
  <2> QED BY <2>1 DEF Said
<1>5. UNCHANGED <<missed, helper, disk, pass>> BY <1>1 DEF coreVars, helperVars
<1>6. /\ StatesAreAnswered' /\ LedgerHasReports'
      /\ share'.ledger \in [Node -> Counters]
      /\ \A n \in Node : share.ledger[n].total <= share'.ledger[n].total
      BY <1>1, <1>2, <1>3, <1>4, <1>5, HandledAnswered
<1> QED BY <1>1, <1>6, ShareAnswered

\* A report that is handled without an answer.
LEMMA SilentlyAnswered ==
    ASSUME BillingInv, AckInv, FewGenerations, NEW r \in Pending, share' = AfterReport(r),
           UNCHANGED <<coreVars, helperVars, pass, inbox>>, request' \in {request, NoReport},
           late' \subseteq late
    PROVE  AckInv'
<1>1. Pending' \in SUBSET Pending BY DEF Pending, helperVars
<1>2. Said' \in SUBSET (Said \cup {AckOf(share')})
  <2>1. AckOf(share)' = AckOf(share') BY DEF AckOf
  <2> QED BY <2>1 DEF Said
<1>3. UNCHANGED <<missed, helper, disk, pass>> BY DEF coreVars, helperVars
<1>4. /\ StatesAreAnswered' /\ LedgerHasReports'
      /\ share'.ledger \in [Node -> Counters]
      /\ \A n \in Node : share.ledger[n].total <= share'.ledger[n].total
      BY <1>1, <1>2, <1>3, HandledAnswered
<1> QED BY <1>4, ShareAnswered

LEMMA UploadFailsAnswered ==
    ASSUME BillingInv, AckInv, FewGenerations, UploadFails
    PROVE  AckInv'
<1>1. /\ request # NoReport /\ request' = NoReport
      /\ UNCHANGED <<coreVars, helperVars, pass, inbox>>
      /\ \/ UNCHANGED <<share, late>>
         \/ share' = AfterReport(request) /\ UNCHANGED late
         \/ late' = late \cup {request} /\ UNCHANGED share
      BY DEF UploadFails
<1>2. request \in Pending BY <1>1 DEF Pending
<1>3. CASE UNCHANGED <<share, late>> BY <1>1, <1>3, CallsAnswered
<1>4. CASE share' = AfterReport(request) /\ UNCHANGED late BY <1>1, <1>2, <1>4, SilentlyAnswered
<1>5. CASE late' = late \cup {request} /\ UNCHANGED share BY <1>1, <1>5, CallsAnswered
<1> QED BY <1>1, <1>3, <1>4, <1>5

LEMMA HandleLateAnswered ==
    ASSUME BillingInv, AckInv, FewGenerations, NEW r \in late, HandleLate(r)
    PROVE  AckInv'
<1>1. /\ late' = late \ {r} /\ share' = AfterReport(r)
      /\ UNCHANGED <<coreVars, helperVars, pass, inbox, request, faults>>
      BY DEF HandleLate
<1>2. late \subseteq Report BY DEF BillingInv, TypeInv
<1>3. r \in Pending BY <1>2, ReportTypes DEF Pending
<1> QED BY <1>1, <1>3, SilentlyAnswered

LEMMA PutDesiredAnswered ==
    ASSUME BillingInv, AckInv, PutDesired
    PROVE  AckInv'
<1>1. UNCHANGED <<coreVars, helperVars, pass, netVars>> BY DEF PutDesired
<1>2. share \in Share BY InvWorld
<1>3. share'.ledger = share.ledger /\ share'.gen = share.gen /\ share'.seq = share.seq
      BY <1>2 DEF PutDesired, Share
<1> QED BY <1>1, <1>3, CallsAnswered DEF netVars

LEMMA SaveShareAnswered ==
    ASSUME BillingInv, AckInv, SaveShare
    PROVE  AckInv'
<1> DEFINE s == ShareInPeriod(share)
<1>1. UNCHANGED <<coreVars, helperVars, pass, netVars>> BY DEF SaveShare
<1>2. PICK status : share' = [s EXCEPT !.version = @ + 1, !.status = status] BY DEF SaveShare
<1>3. /\ s \in Share /\ s.ledger = share.ledger /\ s.gen = share.gen /\ s.seq = share.seq
      BY InPeriodShare DEF BillingInv
<1> HIDE DEF s
<1>4. share'.ledger = s.ledger /\ share'.gen = s.gen /\ share'.seq = s.seq BY <1>2, <1>3 DEF Share
<1> QED BY <1>1, <1>3, <1>4, CallsAnswered DEF netVars

-----------------------------------------------------------------------------
LEMMA InitAnswered ==
    ASSUME Init
    PROVE  AckInv
<1>1. /\ helper = NewState(1) /\ disk = NoState /\ published = Unpublished /\ today = 1
      /\ pass = "idle" /\ settled = FALSE /\ inbox = NoEnvelope /\ request = NoReport /\ late = {}
      /\ share.gen = 0 /\ share.ledger = [n \in Node |-> NoCounter]
      BY DEF Init
<1>2. /\ helper.gen = 1 /\ helper.ack = NoAck /\ helper.stopped = FALSE /\ helper.applied = {}
      /\ helper.counter = [n \in Node |-> NoCounter] /\ helper.period = 0
      BY <1>1 DEF NewState
<1>3. Pending = {} BY <1>1 DEF Pending, Unpublished
<1>4. \A a \in Said \cup {helper.ack} : a.gen = 0 BY <1>1, <1>2 DEF Said, AckOf, NoAck
<1>5. \A n \in Node : helper.counter[n].total = 0 BY <1>2 DEF NoCounter
<1>6. Answered(helper, Said, Pending, share.ledger, missed)
      BY <1>2, <1>3, <1>4, <1>5 DEF Answered, Acknowledges
<1>7. StatesAreAnswered BY <1>1, <1>6 DEF StatesAreAnswered
<1>8. PassIsSound BY <1>1, <1>2 DEF PassIsSound
<1>9. RecordIsSound /\ FinalCountersBilled BY <1>1 DEF RecordIsSound, FinalCountersBilled
<1>10. LedgerHasReports BY <1>1 DEF LedgerHasReports, NoCounter
<1> QED BY <1>7, <1>8, <1>9, <1>10 DEF AckInv

LEMMA AckStep ==
    ASSUME BillingInv, AckInv, FewGenerations, [Next]_vars
    PROVE  AckInv'
<1>1. CASE UNCHANGED vars BY <1>1, CallsAnswered DEF vars, netVars
<1>2. ASSUME NEW n \in Node, Traffic(n) PROVE AckInv' BY <1>2, TrafficAnswered
<1>3. CASE CoreRestarts BY <1>3, CoreRestartsAnswered
<1>4. CASE PeriodEnds BY <1>4, PeriodEndsAnswered
<1>5. CASE HelperRestarts BY <1>5, HelperRestartsAnswered
<1>6. CASE Reinstalled BY <1>6, ReinstalledAnswered
<1>7. CASE Accept BY <1>7, AcceptAnswered
<1>8. CASE Reconcile
      BY <1>8, StayUnbornAnswered, SaveFinalCountersAnswered, SteadyPassAnswered,
         SaveCursorsAnswered, RemoveInboundsAnswered, AddInboundsAnswered, FinishPassAnswered,
         CloseAdmissionsAnswered, CloseInboundsAnswered,
         CoreCallFailsAnswered, FailPassAnswered, StopRevokedAnswered, RemoveInstanceAnswered
      DEF Reconcile
<1>9. CASE Upload BY <1>9, UploadAnswered
<1>10. CASE Answer BY <1>10, AnswerAnswered
<1>11. CASE UploadFails BY <1>11, UploadFailsAnswered
<1>12. CASE PutDesired BY <1>12, PutDesiredAnswered
<1>13. CASE SaveShare BY <1>13, SaveShareAnswered
<1>14. ASSUME NEW r \in late, HandleLate(r) PROVE AckInv' BY <1>14, HandleLateAnswered
<1> QED BY <1>1, <1>2, <1>3, <1>4, <1>5, <1>6, <1>7, <1>8, <1>9, <1>10, <1>11, <1>12,
           <1>13, <1>14
        DEF Next

\* What the Helper was told is true, after any loss, delay or restart.
THEOREM AnswersAreSound == Spec /\ []FewGenerations => []AckInv
<1>1. Init => AckInv BY InitAnswered
<1>2. BillingInv /\ AckInv /\ FewGenerations /\ [Next]_vars => AckInv' BY AckStep
<1> QED BY <1>1, <1>2, BillingIsSound, PTL DEF Spec

\* A revoked share leaves the machine only after its final counters are in the ledger
\* (reconcile waits for the acknowledgement of its last report), whatever was lost, late or
\* restarted before.
THEOREM FinalCountersAreBilled == Spec /\ []FewGenerations => []FinalCountersBilled
<1>1. AckInv => FinalCountersBilled BY DEF AckInv
<1> QED BY <1>1, AnswersAreSound, PTL

-----------------------------------------------------------------------------
(* Removed nodes leave the reports when they are billed *)

DroppedAreBilled ==
    settled' /\ helper'.gen = helper.gen =>
        \A n \in DOMAIN helper.nodes \ (DOMAIN helper'.nodes \cup missed) :
            share.ledger[n].total >= helper'.counter[n].total

\* The end of a pass drops only nodes whose last bytes were acknowledged.
LEMMA RecordDrops ==
    ASSUME BillingInv, AckInv, pass # "removed", NEW p \in HelperState,
           p.gen = helper.gen, p.seq = helper.seq, p.ack = helper.ack, p.nodes = helper.nodes,
           RecordAndEnd(WithNodes(p))
    PROVE  DroppedAreBilled
<1> DEFINE h == WithNodes(p)
<1>1. /\ h \in HelperState /\ h.counter = p.counter
      /\ DOMAIN p.nodes \ DOMAIN h.nodes \subseteq Dropped(p)
      BY WithNodesOf, WithNodesFields
<1>2. RecordAndEnd(h) OBVIOUS
<1> HIDE DEF h
<1>3. helper'.nodes = h.nodes /\ helper'.counter = h.counter
  <2> DEFINE g == [h EXCEPT !.seq = NextSequence(h)]
  <2>1. g.nodes = h.nodes /\ g.counter = h.counter BY <1>1, SequenceTaken
  <2>2. helper' = h \/ helper' = g BY <1>2 DEF RecordAndEnd, PersistReport, PersistReportFails
  <2> QED BY <2>1, <2>2
<1>4. /\ helper \in HelperState /\ Answered(helper, Said, Pending, share.ledger, missed)
      /\ share.ledger \in [Node -> Counters]
      BY AckWorld
<1> SUFFICES ASSUME NEW n \in DOMAIN helper.nodes \ (DOMAIN helper'.nodes \cup missed)
             PROVE  share.ledger[n].total >= helper'.counter[n].total
    BY DEF DroppedAreBilled
<1>5. n \in Dropped(p) BY <1>1, <1>3
<1>6. /\ helper.ack.gen = helper.gen /\ helper.ack.seq >= helper.seq
      /\ helper.nodes[n].state = "removed" /\ helper'.counter[n].total = helper.nodes[n].total
      BY <1>1, <1>3, <1>5 DEF Dropped
<1>7. n \in Node /\ helper.nodes[n].total \in Nat BY <1>4, NodeTypes
<1>8. Acknowledges(helper.ack, helper, share.ledger, missed) BY <1>4 DEF Answered
<1>9. InLedger(helper, share.ledger, missed)
      BY <1>4, <1>6, <1>8 DEF Acknowledges, HelperState, Acks
<1>10. helper.nodes[n].total > 0 => helper.nodes[n].total <= share.ledger[n].total
       BY <1>6, <1>9 DEF InLedger, Ended
<1>11. share.ledger[n].total \in Nat BY <1>4, <1>7 DEF Counters
<1> QED BY <1>6, <1>7, <1>10, <1>11

\* Nothing to drop.
LEMMA NothingDrops ==
    ASSUME helper'.nodes = helper.nodes \/ ~settled'
    PROVE  DroppedAreBilled
BY DEF DroppedAreBilled

LEMMA ReconcileDrops ==
    ASSUME BillingInv, AckInv, Reconcile
    PROVE  DroppedAreBilled
<1>1. TypeInv /\ helper \in HelperState /\ core \in Cores BY AckWorld
<1> DEFINE c == Collected(helper)
<1>2. /\ c \in HelperState /\ c.gen = helper.gen /\ c.seq = helper.seq /\ c.nodes = helper.nodes
      /\ c.ack = helper.ack
      BY <1>1, CollectedType, CollectedFields
<1>3. /\ Current \in HelperState /\ Current.gen = helper.gen /\ Current.seq = helper.seq
      /\ Current.nodes = helper.nodes /\ Current.ack = helper.ack
      BY <1>1, CurrentType, CurrentFields
<1>4. CASE StayUnborn
  <2> DEFINE p == [helper EXCEPT !.stopped = TRUE]
  <2>1. p \in HelperState /\ p.gen = helper.gen /\ p.seq = helper.seq /\ p.ack = helper.ack
        /\ p.nodes = helper.nodes
        BY <1>1 DEF HelperState
  <2>2. pass # "removed" /\ RecordAndEnd(WithNodes(p)) BY <1>4 DEF StayUnborn
  <2> HIDE DEF p
  <2> QED BY <2>1, <2>2, RecordDrops
<1>5. CASE SteadyPass
  <2>1. pass # "removed" /\ RecordAndEnd(WithNodes(Current)) BY <1>5 DEF SteadyPass, PassRuns
  <2> QED BY <1>3, <2>1, RecordDrops
<1>6. CASE FinishPass
  <2>1. /\ pass # "removed"
        /\ RecordAndEnd(WithNodes(c)) \/ helper' = c
        BY <1>6 DEF FinishPass
  <2> HIDE DEF c
  <2> QED BY <1>2, <2>1, RecordDrops, NothingDrops
<1>12. CASE CloseInbounds
  <2> DEFINE p == [helper EXCEPT !.applied = {}]
  <2>1. p \in HelperState /\ p.gen = helper.gen /\ p.seq = helper.seq /\ p.ack = helper.ack
        /\ p.nodes = helper.nodes
        BY <1>1 DEF HelperState
  <2>2. pass # "removed" /\ RecordAndEnd(WithNodes(p)) BY <1>12 DEF CloseInbounds
  <2> HIDE DEF p
  <2> QED BY <2>1, <2>2, RecordDrops
<1>7. CASE StopRevoked
  <2> DEFINE p == [c EXCEPT !.applied = {}, !.stopped = TRUE]
  <2>1. pass # "removed" /\ RecordAndEnd(WithNodes(p)) BY <1>7 DEF StopRevoked
  <2> HIDE DEF c
  <2>2. p \in HelperState /\ p.gen = c.gen /\ p.seq = c.seq /\ p.ack = c.ack /\ p.nodes = c.nodes
        BY <1>2 DEF HelperState
  <2> HIDE DEF p
  <2> QED BY <1>2, <2>1, <2>2, RecordDrops
<1>8. CASE SaveFinalCounters \/ SaveCursors
  <2>1. helper' = c \/ helper' = Current BY <1>8 DEF SaveFinalCounters, SaveCursors
  <2> QED BY <1>2, <1>3, <2>1, NothingDrops
<1>9. CASE RemoveInbounds \/ AddInbounds
  <2>1. helper'.nodes = helper.nodes
        BY <1>1, <1>9 DEF RemoveInbounds, AddInbounds, HelperState
  <2> QED BY <2>1, NothingDrops
<1>10. CASE CoreCallFails \/ RemoveInstance \/ CloseAdmissions
  <2>1. helper' = helper BY <1>10 DEF CoreCallFails, RemoveInstance, CloseAdmissions, helperVars
  <2> QED BY <2>1, NothingDrops
<1>11. CASE FailPass BY <1>11, NothingDrops DEF FailPass
<1> QED BY <1>4, <1>5, <1>6, <1>7, <1>8, <1>9, <1>10, <1>11, <1>12 DEF Reconcile

LEMMA AcceptDrops ==
    ASSUME BillingInv, AckInv, Accept
    PROVE  DroppedAreBilled
<1>1. TypeInv /\ helper \in HelperState /\ inbox \in Envelope /\ share.ledger \in [Node -> Counters]
      BY AckWorld DEF BillingInv, TypeInv, Accept
<1>2. CASE inbox.version < helper.version \/ pass = "removed"
  <2>1. helper' = helper BY <1>2 DEF Accept
  <2> QED BY <2>1, NothingDrops
<1>3. CASE ~(inbox.version < helper.version \/ pass = "removed") /\ ~Absent(inbox)
  <2> DEFINE g == Accepted(helper, inbox)
  <2>1. helper' = g BY <1>3 DEF Accept, TakeOver
  <2>2. g.nodes = helper.nodes BY <1>1, AcceptedType
  <2> HIDE DEF g
  <2> QED BY <2>1, <2>2, NothingDrops
<1>4. CASE ~(inbox.version < helper.version \/ pass = "removed") /\ Absent(inbox)
  <2>1. helper' = AbsentState(helper, inbox) BY <1>4 DEF Accept, TakeOver
  <2>2. helper'.counter = helper.counter BY <1>1, <2>1 DEF AbsentState, HelperState
  <2>3. \A n \in Node : helper'.counter[n].total = 0 /\ share.ledger[n].total \in Nat
        BY <1>1, <1>4, <2>2 DEF Absent, NoCounter, Counters
  <2>4. \A n \in DOMAIN helper.nodes : n \in Node BY <1>1, NodeTypes
  <2> QED BY <2>3, <2>4 DEF DroppedAreBilled
<1> QED BY <1>2, <1>3, <1>4

LEMMA DropsStep ==
    ASSUME BillingInv, AckInv, [Next]_vars
    PROVE  DroppedAreBilled
<1>1. CASE UNCHANGED helper BY <1>1, NothingDrops
<1>2. CASE ~settled' BY <1>2, NothingDrops
<1>3. CASE Reconcile BY <1>3, ReconcileDrops
<1>4. CASE Accept BY <1>4, AcceptDrops
<1>5. CASE HelperRestarts \/ Reinstalled
  <2>1. ~settled' BY <1>5 DEF HelperRestarts, Reinstalled, Restarted
  <2> QED BY <1>2, <2>1
<1>6. ASSUME NEW n \in Node, Traffic(n) PROVE DroppedAreBilled
      BY <1>1, <1>6 DEF Traffic, helperVars
<1>7. ASSUME NEW r \in late, HandleLate(r) PROVE DroppedAreBilled
      BY <1>1, <1>7 DEF HandleLate, helperVars
<1>8. CASE CoreRestarts \/ PeriodEnds \/ Upload \/ Answer \/ UploadFails \/ PutDesired \/ SaveShare
      BY <1>1, <1>8
      DEF CoreRestarts, PeriodEnds, Upload, Answer, UploadFails, PutDesired, SaveShare, helperVars
<1>9. CASE UNCHANGED vars BY <1>1, <1>9 DEF vars, helperVars
<1> QED BY <1>3, <1>4, <1>5, <1>6, <1>7, <1>8, <1>9 DEF Next

\* A node leaves the reports only when the ledger has its last byte (record drops only
\* acknowledged, unchanged removals): an acknowledgement that the Helper reads late, or after
\* a restart from an older file, is never taken for one of a later report.  It is not claimed
\* for nodes that carried bytes between the last sample of a pass and the block of a Core
\* beyond the cap (missed), whose last bytes may be dropped.
THEOREM DroppedNodesAreBilled == Spec /\ []FewGenerations => DroppedNodesWereBilled
<1>1. BillingInv /\ AckInv /\ [Next]_vars
      => [settled' /\ helper'.gen = helper.gen =>
            \A n \in DOMAIN helper.nodes \ (DOMAIN helper'.nodes \cup missed) :
                share.ledger[n].total >= helper'.counter[n].total]_vars
      BY DropsStep DEF DroppedAreBilled
<1> QED BY <1>1, AnswersAreSound, BillingIsSound, PTL DEF Spec, DroppedNodesWereBilled
=============================================================================

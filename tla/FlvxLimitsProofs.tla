--------------------------- MODULE FlvxLimitsProofs ---------------------------
(***************************************************************************)
(* Theorems about FlvxRate and FlvxGroups, for every number of users, ports, *)
(* devices, classes and failures: no redirect leads into nothing, the kernel *)
(* enforces the rates that are reported, and the connection limit of a user  *)
(* admits nobody beyond his budget.                                         *)
(***************************************************************************)
EXTENDS FlvxRate, FlvxGroups, FiniteSetTheorems, TLAPS

-----------------------------------------------------------------------------
(* The budgets of both limits. *)

Users == [Owners -> Nat \cup {None}]
Limits == [seq: Nat, users: Users, left: Nat]

BudgetTypes == entry \in Limits /\ held \in Limits

LEMMA NoBudgetsType == NoBudgets \in Limits
BY DEF NoBudgets, Limits, Users

\* Ageing keeps the sequence and the users, or drops both.
LEMMA AgedType == \A e \in Limits : Aged(e) \in Limits
<1> TAKE e \in Limits
<1>1. CASE e.left > 1
  <2>1. e.left \in Nat /\ e.left - 1 \in Nat
        BY <1>1 DEF Limits
  <2>2. [e EXCEPT !.left = @ - 1] \in Limits
        BY <2>1 DEF Limits
  <2> QED BY <1>1, <2>2 DEF Aged
<1>2. CASE ~(e.left > 1)
      BY <1>2, NoBudgetsType DEF Aged
<1> QED BY <1>1, <1>2

\* Every change of the budgets keeps their types.
LEMMA BudgetStepTypes ==
    ASSUME BudgetTypes, BudgetStep
    PROVE  BudgetTypes'
<1>1. CASE PutUserLimits
  <2>1. PICK s \in Sequences, users \in Offers : entry' = Accepted(s, users) /\ held' = held
        BY <1>1 DEF PutUserLimits
  <2>2. s \in Nat /\ users \in Users /\ TTL \in Nat
        BY SequencesArePositive, OffersAreNumbers DEF Users
  <2>3. [seq |-> s, users |-> users, left |-> TTL] \in Limits
        BY <2>2 DEF Limits
  <2> QED BY <2>1, <2>3 DEF Accepted, BudgetTypes
<1>2. CASE ForgetUserLimits
      BY <1>2, NoBudgetsType DEF ForgetUserLimits, BudgetTypes
<1>3. CASE Upload
  <2>1. held' \in {entry, NoBudgets, held} /\ entry' = entry
        BY <1>3 DEF Upload, Submitted, HandedOut
  <2> QED BY <2>1, NoBudgetsType DEF BudgetTypes
<1>4. CASE Tick
      BY <1>4, AgedType DEF Tick, BudgetTypes
<1> QED BY <1>1, <1>2, <1>3, <1>4 DEF BudgetStep

-----------------------------------------------------------------------------
(* Types of the rates. *)

SlotOrNone == Slots \cup {0}
FilterTable == [Devs -> [Ports -> SlotOrNone]]
Rates == [rate: [Owners -> Nat], port: [Ports -> Owners \cup {None}]]
Limiter == [known: BOOLEAN, active: BOOLEAN, owners: Rates, slots: [Owners -> SlotOrNone],
            classes: [Slots -> Nat], shaped: SUBSET Devs, filters: FilterTable,
            releasing: [Slots -> {"no", "since", "over"}], due: BOOLEAN,
            failure: {"none", "wait", "due"}, failedOwners: Rates]
Kernel == [ifb: {"none", "half", "up", "cut", "other"}, classes: [Slots -> Nat],
           filters: FilterTable]
Step == {"idle", "filters", "links", "scan", "setup", "devices", "batch"}
Purpose == {"start", "setup", "done", "fail"}
Job == [at: Step, owners: Rates, scan: SUBSET Devs, then: Purpose]

\* Whoever has a port here has a rate.
Funded(o) == \A p \in Ports : o.port[p] # None => o.rate[o.port[p]] # 0

RateTypes ==
    /\ BudgetTypes
    /\ node \in [Ports -> Owners \cup {None}]
    /\ net \in [Devs -> {"plain", "chosen", "taken", "gone"}]
    /\ kernel \in Kernel /\ lim \in Limiter /\ job \in Job
    /\ Funded(job.owners)

-----------------------------------------------------------------------------
(* The inductive invariant of the rates. *)

NoPorts == [p \in Ports |-> 0]

\* The order of a pass: filters only while the IFBs are there.
OrderInv ==
    /\ NoRedirectIntoNothing
    /\ job.at \in {"links", "setup"} => Filtered(kernel.filters) = {}
    /\ lim.known /\ ~lim.active => Filtered(kernel.filters) = {}
    /\ job.at \in {"scan", "setup", "devices", "batch"} => lim.known
    /\ job.at \in {"filters", "links"} /\ job.then = "start" => ~lim.known
    /\ job.at \in {"filters", "links"} /\ job.then \in {"setup", "done"} => lim.active
    /\ At("setup") => ~lim.active
    /\ job.at \in {"devices", "batch"} => lim.active /\ kernel.ifb \notin {"none", "half"}

\* A class belongs to one user, and filters are only where the record says.
SlotsInv ==
    /\ \A o1, o2 \in Owners : lim.slots[o1] = lim.slots[o2] /\ lim.slots[o1] # 0 => o1 = o2
    /\ \A d \in Devs, p \in Ports : lim.filters[d][p] # 0 => d \in lim.shaped

\* The record of the limiter is true, except where a pass has failed.
RecordInv ==
    /\ kernel.ifb = "none" => kernel.classes = NoClasses
    /\ lim.known /\ ~lim.active => lim.classes = NoClasses /\ lim.filters = NoFilters
    /\ lim.known /\ lim.active /\ job.at \in {"idle", "scan", "devices", "batch"} =>
         /\ kernel.ifb = "up" => kernel.classes = lim.classes
         /\ \A d \in Devs :
              kernel.filters[d] = IF net[d] = "gone" THEN NoPorts ELSE lim.filters[d]

\* What the record holds for the users of the last pass.
Enforced(scan, owners, classes, filters) ==
    \A d \in scan, p \in Ports :
      IF owners.port[p] # None
      THEN filters[d][p] # 0 /\ classes[filters[d][p]] = owners.rate[owners.port[p]]
      ELSE filters[d][p] = 0 \/ classes[filters[d][p]] \in {0, Unlimited}

RestInv ==
    At("idle") /\ lim.active /\ lim.failure = "none" =>
      /\ lim.known /\ rates = OwnersOf(lim.owners)
      /\ Enforced(job.scan, lim.owners, lim.classes, lim.filters)

RateInv == RateTypes /\ OrderInv /\ SlotsInv /\ RecordInv /\ RestInv

-----------------------------------------------------------------------------
(* The values the actions are made of. *)

LEMMA EmptyTypes ==
    /\ NoOwners \in Rates /\ Funded(NoOwners) /\ NoFilters \in FilterTable
    /\ NoClasses \in [Slots -> Nat] /\ NoRates \in [Owners -> Nat]
    /\ NoPorts \in [Ports -> SlotOrNone]
    /\ EmptyKernel \in Kernel /\ Idle \in Job
BY DEF NoOwners, NoRates, Rates, Funded, NoFilters, FilterTable, SlotOrNone, NoClasses, NoPorts,
       EmptyKernel, Kernel, Idle, Job, Step, Purpose

\* A fresh record.
LEMMA RecordType ==
    ASSUME NEW known \in BOOLEAN
    PROVE  /\ Record(known) \in Limiter
           /\ Record(known).known = known /\ Record(known).active = FALSE
           /\ Record(known).classes = NoClasses /\ Record(known).filters = NoFilters
           /\ Record(known).slots = NoRates /\ Record(known).shaped = {}
<1>1. NoRates \in [Owners -> SlotOrNone] /\ [s \in Slots |-> "no"] \in [Slots -> {"no", "since", "over"}]
      BY DEF NoRates, SlotOrNone
<1> QED BY <1>1, EmptyTypes DEF Record, Limiter

\* An empty table has no filters, and only the empty one.
LEMMA FilteredEmpty ==
    ASSUME NEW f
    PROVE  Filtered(f) = {} <=> \A d \in Devs, p \in Ports : f[d][p] = 0
BY DEF Filtered

\* The users of a pass have ports and rates.
LEMMA RateOwnersType ==
    ASSUME RateTypes
    PROVE  RateOwners \in Rates /\ Funded(RateOwners)
<1> DEFINE limited == {o \in Owners : held.users[o] \notin {None, 0}}
           runs == {o \in Owners : \E p \in Ports : node[p] = o}
           rate == [o \in Owners |-> IF o \in limited \cap runs THEN held.users[o] ELSE 0]
           port == [p \in Ports |-> IF node[p] \in limited THEN node[p] ELSE None]
<1>1. RateOwners = [rate |-> rate, port |-> port]
      BY DEF RateOwners
<1>2. \A o \in Owners : held.users[o] \in Nat \cup {None}
      BY DEF RateTypes, BudgetTypes, Limits, Users
<1>3. rate \in [Owners -> Nat]
      BY <1>2
<1>4. port \in [Ports -> Owners \cup {None}]
      BY DEF RateTypes
<1>5. ASSUME NEW p \in Ports, port[p] # None
      PROVE  rate[port[p]] # 0
  <2>1. port[p] = node[p] /\ node[p] \in limited
        BY <1>5
  <2>2. node[p] \in runs
        BY <2>1
  <2> QED BY <2>1, <2>2
<1> HIDE DEF rate, port
<1>6. RateOwners \in Rates
      BY <1>1, <1>3, <1>4 DEF Rates
<1>7. Funded(RateOwners)
      BY <1>1, <1>5 DEF Funded
<1> QED BY <1>6, <1>7

-----------------------------------------------------------------------------
(* Ranks: users without a class get the free ones in their order. *)

Rank(x, S) == Cardinality({y \in S : y < x})

\* The rank of a member is below the size of the set, and grows.
LEMMA RankBelow ==
    ASSUME NEW S, IsFiniteSet(S), S \subseteq Nat, NEW x \in S
    PROVE  Rank(x, S) \in Nat /\ Cardinality(S) \in Nat /\ Rank(x, S) < Cardinality(S)
<1> DEFINE below == {y \in S : y < x}
<1>1. below \in SUBSET S /\ x \notin below
      OBVIOUS
<1>2. /\ IsFiniteSet(below) /\ Cardinality(below) <= Cardinality(S)
      /\ Cardinality(S) = Cardinality(below) => S = below
      BY <1>1, FS_Subset
<1>3. Cardinality(below) \in Nat /\ Cardinality(S) \in Nat
      BY <1>2, FS_CardinalityType
<1>4. Cardinality(S) # Cardinality(below)
      BY <1>1, <1>2
<1> QED BY <1>2, <1>3, <1>4 DEF Rank

LEMMA RankGrows ==
    ASSUME NEW S, IsFiniteSet(S), S \subseteq Nat, NEW x \in S, NEW y \in S, x < y
    PROVE  Rank(x, S) < Rank(y, S)
<1> DEFINE below == {z \in S : z < y}
<1>1. below \in SUBSET S /\ x \in below /\ below \subseteq Nat
      OBVIOUS
<1>2. IsFiniteSet(below)
      BY <1>1, FS_Subset
<1>3. Rank(x, below) < Cardinality(below)
      BY <1>1, <1>2, RankBelow
<1>4. {z \in below : z < x} = {z \in S : z < x}
  <2>1. \A z \in S : z < x => z < y
    <3> TAKE z \in S
    <3>1. z \in Nat /\ x \in Nat /\ y \in Nat
          OBVIOUS
    <3> QED BY <3>1
  <2> QED BY <2>1
<1> QED BY <1>3, <1>4 DEF Rank

LEMMA RankDiffers ==
    ASSUME NEW S, IsFiniteSet(S), S \subseteq Nat, NEW x \in S, NEW y \in S, x # y
    PROVE  Rank(x, S) # Rank(y, S)
<1>1. /\ Rank(x, S) \in Nat /\ Rank(y, S) \in Nat
      /\ x \in Nat /\ y \in Nat
      BY RankBelow
<1>2. CASE x < y
  <2>1. Rank(x, S) < Rank(y, S)
        BY <1>2, RankGrows
  <2> QED BY <1>1, <2>1
<1>3. CASE y < x
  <2>1. Rank(y, S) < Rank(x, S)
        BY <1>3, RankGrows
  <2> QED BY <1>1, <2>1
<1> QED BY <1>1, <1>2, <1>3

\* Every number below the size is the rank of a member: otherwise the ranks
\* would put the members into too few holes.
LEMMA RankOnto ==
    ASSUME NEW S, IsFiniteSet(S), S \subseteq Nat, NEW k \in Nat, k < Cardinality(S)
    PROVE  \E x \in S : Rank(x, S) = k
<1> DEFINE n == Cardinality(S)
           holes == (0 .. (n - 1)) \ {k}
           f == [x \in S |-> Rank(x, S)]
<1>1. n \in Nat /\ n > 0
      BY FS_CardinalityType
<1>2. SUFFICES ASSUME \A x \in S : Rank(x, S) # k
               PROVE  FALSE
      OBVIOUS
<1>3. IsFiniteSet(0 .. (n - 1)) /\ Cardinality(0 .. (n - 1)) = n
  <2>1. 0 \in Int /\ n - 1 \in Int /\ ~(0 > n - 1) /\ (n - 1) - 0 + 1 = n
        BY <1>1
  <2> HIDE DEF n
  <2>2. /\ IsFiniteSet(0 .. (n - 1))
        /\ Cardinality(0 .. (n - 1)) = IF 0 > n - 1 THEN 0 ELSE (n - 1) - 0 + 1
        BY <2>1, FS_Interval
  <2> QED BY <2>1, <2>2
<1>4. IsFiniteSet(holes) /\ Cardinality(holes) = n - 1
  <2>1. k \in 0 .. (n - 1)
        BY <1>1
  <2> DEFINE all == 0 .. (n - 1)
  <2>2. IsFiniteSet(all) /\ Cardinality(all) = n /\ k \in all /\ holes = all \ {k}
        BY <2>1, <1>3
  <2> HIDE DEF all, holes, n
  <2>3. IsFiniteSet(all \ {k}) /\ Cardinality(all \ {k}) = Cardinality(all) - 1
        BY <2>2, FS_RemoveElement
  <2> QED BY <2>2, <2>3
<1>5. f \in [S -> holes]
  <2>1. ASSUME NEW x \in S
        PROVE  Rank(x, S) \in holes
    <3>1. Rank(x, S) \in Nat /\ Rank(x, S) < n
          BY RankBelow
    <3>2. Rank(x, S) # k
          BY <1>2
    <3> QED BY <1>1, <3>1, <3>2
  <2> QED BY <2>1
<1>6. Cardinality(holes) < Cardinality(S)
      BY <1>1, <1>4
<1> HIDE DEF n, holes, f
<1>7. PICK x, y \in S : x # y /\ f[x] = f[y]
      BY <1>4, <1>5, <1>6, FS_PigeonHole
<1> QED BY <1>7, RankDiffers DEF f

-----------------------------------------------------------------------------
(* sync: what the batch puts into the kernel and the record. *)

LEMMA OwnersOfType ==
    ASSUME NEW o \in Rates
    PROVE  OwnersOf(o) \subseteq Owners
BY DEF OwnersOf, Rates

\* Free classes and new users are finite sets of numbers.
LEMMA FiniteSlots ==
    /\ FreeSlots \subseteq Slots /\ FreeSlots \subseteq Nat /\ IsFiniteSet(FreeSlots)
    /\ 0 \notin Slots
<1>1. FreeSlots \in SUBSET Slots
      BY DEF FreeSlots
<1> QED BY <1>1, SlotsAreNumbers, FS_Subset

LEMMA FiniteOwners ==
    ASSUME RateTypes
    PROVE  NewOwners \subseteq Owners /\ NewOwners \subseteq Nat /\ IsFiniteSet(NewOwners)
<1>1. NewOwners \in SUBSET Owners
      BY OwnersOfType DEF NewOwners, RateTypes, Job
<1> QED BY <1>1, OwnersAreNumbers, FS_Subset

\* A new user gets a free class of the same rank.
LEMMA NewSlot ==
    ASSUME RateTypes, SlotsSuffice, NEW o \in NewOwners
    PROVE  /\ o \in Owners
           /\ SlotOf[o] \in FreeSlots /\ Rank(SlotOf[o], FreeSlots) = Rank(o, NewOwners)
<1>1. o \in Owners
      BY FiniteOwners
<1>2. /\ Rank(o, NewOwners) \in Nat /\ Cardinality(NewOwners) \in Nat
      /\ Rank(o, NewOwners) < Cardinality(NewOwners)
      BY FiniteOwners, RankBelow
<1>3. Cardinality(FreeSlots) \in Nat
      BY FiniteSlots, FS_CardinalityType
<1>4. Rank(o, NewOwners) < Cardinality(FreeSlots)
      BY <1>2, <1>3 DEF SlotsSuffice
<1>5. \E s \in FreeSlots : Rank(s, FreeSlots) = Rank(o, NewOwners)
      BY <1>2, <1>4, FiniteSlots, RankOnto
<1>6. SlotOf[o] = CHOOSE s \in FreeSlots : Rank(s, FreeSlots) = Rank(o, NewOwners)
      BY <1>1 DEF SlotOf, Rank
<1> QED BY <1>1, <1>5, <1>6

LEMMA OldSlot ==
    ASSUME NEW o \in Owners, o \notin NewOwners
    PROVE  SlotOf[o] = lim.slots[o]
BY DEF SlotOf

\* Every user of the pass has a class of his own.
LEMMA SlotOfFacts ==
    ASSUME RateTypes, SlotsInv, SlotsSuffice
    PROVE  /\ SlotOf = [o \in Owners |-> SlotOf[o]]
           /\ \A o \in Owners : SlotOf[o] \in SlotOrNone
           /\ \A o \in OwnersOf(job.owners) : o \in Owners /\ SlotOf[o] \in Slots
           /\ \A o1, o2 \in Owners : SlotOf[o1] = SlotOf[o2] /\ SlotOf[o1] # 0 => o1 = o2
<1>1. SlotOf = [o \in Owners |-> SlotOf[o]]
      BY DEF SlotOf
<1>2. \A o \in Owners : lim.slots[o] \in SlotOrNone
      BY DEF RateTypes, Limiter
<1>3. ASSUME NEW o \in Owners
      PROVE  SlotOf[o] \in SlotOrNone
      BY <1>2, NewSlot, OldSlot, FiniteSlots DEF SlotOrNone
<1>4. ASSUME NEW o \in OwnersOf(job.owners)
      PROVE  o \in Owners /\ SlotOf[o] \in Slots
  <2>1. o \in Owners
        BY OwnersOfType DEF RateTypes, Job
  <2>2. CASE o \in NewOwners
        BY <2>1, <2>2, NewSlot, FiniteSlots
  <2>3. CASE o \notin NewOwners
        BY <2>1, <2>3, <1>2, OldSlot DEF NewOwners, SlotOrNone
  <2> QED BY <2>1, <2>2, <2>3
<1>5. ASSUME NEW o1 \in Owners, NEW o2 \in Owners, SlotOf[o1] = SlotOf[o2], SlotOf[o1] # 0
      PROVE  o1 = o2
  <2>1. CASE o1 \in NewOwners /\ o2 \in NewOwners
    <3>1. Rank(o1, NewOwners) = Rank(o2, NewOwners)
          BY <1>5, <2>1, NewSlot
    <3> QED BY <3>1, <2>1, FiniteOwners, RankDiffers
  <2>2. CASE o1 \in NewOwners /\ o2 \notin NewOwners
        BY <1>5, <2>2, NewSlot, OldSlot DEF FreeSlots
  <2>3. CASE o1 \notin NewOwners /\ o2 \in NewOwners
        BY <1>5, <2>3, NewSlot, OldSlot DEF FreeSlots
  <2>4. CASE o1 \notin NewOwners /\ o2 \notin NewOwners
        BY <1>5, <2>4, OldSlot DEF SlotsInv
  <2> QED BY <2>1, <2>2, <2>3, <2>4
<1> QED BY <1>1, <1>3, <1>4, <1>5

\* His class is wanted with his rate.
LEMMA WantedFacts ==
    ASSUME RateTypes, SlotsInv, SlotsSuffice
    PROVE  /\ WantedClasses \in [Slots -> Nat] /\ WantedFilters \in [Ports -> SlotOrNone]
           /\ \A o \in OwnersOf(job.owners) : WantedClasses[SlotOf[o]] = job.owners.rate[o]
           /\ \A o \in OwnersOf(job.owners) : job.owners.rate[o] # 0
<1>1. \A o \in Owners : job.owners.rate[o] \in Nat
      BY DEF RateTypes, Job, Rates
<1>2. ASSUME NEW s \in Slots, NEW o \in OwnersOf(job.owners), SlotOf[o] = s
      PROVE  (CHOOSE x \in OwnersOf(job.owners) : SlotOf[x] = s) = o
  <2> DEFINE x == CHOOSE x \in OwnersOf(job.owners) : SlotOf[x] = s
  <2>1. x \in OwnersOf(job.owners) /\ SlotOf[x] = s
        BY <1>2
  <2>2. s # 0
        BY FiniteSlots
  <2> HIDE DEF x
  <2>3. x = o
        BY <1>2, <2>1, <2>2, SlotOfFacts
  <2> QED BY <2>3 DEF x
<1>3. ASSUME NEW s \in Slots, NEW o \in OwnersOf(job.owners), SlotOf[o] = s
      PROVE  WantedClasses[s] = job.owners.rate[o]
  <2>1. WantedClasses[s] = job.owners.rate[CHOOSE x \in OwnersOf(job.owners) : SlotOf[x] = s]
        BY <1>3 DEF WantedClasses
  <2> QED BY <2>1, <1>2, <1>3
<1>4. ASSUME NEW s \in Slots
      PROVE  WantedClasses[s] \in Nat
  <2>1. CASE \E o \in OwnersOf(job.owners) : SlotOf[o] = s
        BY <2>1, <1>1, <1>3, SlotOfFacts
  <2>2. CASE ~\E o \in OwnersOf(job.owners) : SlotOf[o] = s
        BY <2>2 DEF WantedClasses
  <2> QED BY <2>1, <2>2
<1>5. WantedClasses \in [Slots -> Nat]
  <2>1. WantedClasses = [s \in Slots |-> WantedClasses[s]]
        BY DEF WantedClasses
  <2> QED BY <2>1, <1>4
<1>6. WantedFilters \in [Ports -> SlotOrNone]
  <2>1. ASSUME NEW p \in Ports, job.owners.port[p] # None
        PROVE  SlotOf[job.owners.port[p]] \in SlotOrNone
    <3>1. job.owners.port[p] \in Owners
          BY <2>1 DEF RateTypes, Job, Rates
    <3> QED BY <3>1, SlotOfFacts
  <2>2. 0 \in SlotOrNone
        BY DEF SlotOrNone
  <2> QED BY <2>1, <2>2 DEF WantedFilters
<1>7. ASSUME NEW o \in OwnersOf(job.owners)
      PROVE  job.owners.rate[o] # 0
      BY DEF OwnersOf, RateTypes, Funded
<1> QED BY <1>3, <1>5, <1>6, <1>7, SlotOfFacts

\* The tables of a batch.
LEMMA BatchTypes ==
    ASSUME RateTypes, SlotsInv, SlotsSuffice
    PROVE  KeptFilters \in FilterTable /\ NewFilters \in FilterTable /\ NewClasses \in [Slots -> Nat]
<1>1. \A d \in Devs, p \in Ports : lim.filters[d][p] \in SlotOrNone
      BY DEF RateTypes, Limiter, FilterTable
<1>2. 0 \in SlotOrNone
      BY DEF SlotOrNone
<1>3. \A d \in Devs, p \in Ports : KeptFilters[d][p] \in {0, lim.filters[d][p]}
      BY DEF KeptFilters
<1>4. KeptFilters \in FilterTable
  <2>1. KeptFilters = [d \in Devs |-> [p \in Ports |-> KeptFilters[d][p]]]
        BY DEF KeptFilters
  <2> QED BY <2>1, <1>1, <1>2, <1>3 DEF FilterTable
<1>5. \A d \in Devs, p \in Ports : NewFilters[d][p] \in {WantedFilters[p], KeptFilters[d][p]}
      BY DEF NewFilters
<1>6. NewFilters \in FilterTable
  <2>1. NewFilters = [d \in Devs |-> [p \in Ports |-> NewFilters[d][p]]]
        BY DEF NewFilters
  <2>2. \A d \in Devs, p \in Ports : NewFilters[d][p] \in SlotOrNone
        BY <1>4, <1>5, WantedFacts DEF FilterTable
  <2> QED BY <2>1, <2>2 DEF FilterTable
<1>7. NewClasses \in [Slots -> Nat]
  <2>1. \A s \in Slots : NewClasses[s] \in {0, Unlimited, WantedClasses[s]}
        BY DEF NewClasses
  <2>2. \A s \in Slots : NewClasses[s] \in Nat
        BY <2>1, WantedFacts, UnlimitedIsARate
  <2>3. NewClasses = [s \in Slots |-> NewClasses[s]]
        BY DEF NewClasses
  <2> QED BY <2>2, <2>3
<1> QED BY <1>4, <1>6, <1>7

\* The batch enforces the rates of its users, on every device of its scan.
LEMMA BatchEnforces ==
    ASSUME RateTypes, SlotsInv, SlotsSuffice
    PROVE  Enforced(job.scan, job.owners, NewClasses, NewFilters)
<1> SUFFICES ASSUME NEW d \in job.scan, NEW p \in Ports
             PROVE  IF job.owners.port[p] # None
                    THEN /\ NewFilters[d][p] # 0
                         /\ NewClasses[NewFilters[d][p]] = job.owners.rate[job.owners.port[p]]
                    ELSE NewFilters[d][p] = 0 \/ NewClasses[NewFilters[d][p]] \in {0, Unlimited}
    BY DEF Enforced
<1>1. d \in Devs
      BY DEF RateTypes, Job
<1>2. CASE job.owners.port[p] # None
  <2> DEFINE o == job.owners.port[p]
  <2>1. o \in OwnersOf(job.owners) /\ job.owners # NoOwners
        BY <1>2 DEF OwnersOf, NoOwners
  <2>2. d \in lim.shaped \cup NewDevs
        BY <2>1 DEF NewDevs
  <2>3. WantedFilters[p] = SlotOf[o] /\ SlotOf[o] \in Slots /\ SlotOf[o] # 0
        BY <1>2, <2>1, SlotOfFacts, FiniteSlots DEF WantedFilters
  <2>4. NewFilters[d][p] = SlotOf[o]
        BY <1>1, <2>2, <2>3 DEF NewFilters
  <2>5. WantedClasses[SlotOf[o]] = job.owners.rate[o] /\ job.owners.rate[o] # 0
        BY <2>1, WantedFacts
  <2>6. SlotOf[o] \notin Unwanted
        BY <2>5 DEF Unwanted
  <2>7. NewClasses[SlotOf[o]] = WantedClasses[SlotOf[o]]
        BY <2>3, <2>6 DEF NewClasses, Deleted
  <2> QED BY <1>2, <2>3, <2>4, <2>5, <2>7
<1>3. CASE job.owners.port[p] = None
  <2> DEFINE s == lim.filters[d][p]
  <2>1. WantedFilters[p] = 0
        BY <1>3 DEF WantedFilters
  <2>2. NewFilters[d][p] = KeptFilters[d][p]
        BY <1>1, <2>1 DEF NewFilters
  <2>3. s \in SlotOrNone
        BY <1>1 DEF RateTypes, Limiter, FilterTable
  <2>4. CASE s = 0 \/ WantedClasses[s] # 0 \/ lim.releasing[s] = "over"
    <3>1. KeptFilters[d][p] = IF /\ s # 0 /\ WantedFilters[p] = 0
                                 /\ WantedClasses[s] # 0 \/ lim.releasing[s] = "over"
                              THEN 0 ELSE s
          BY <1>1 DEF KeptFilters
    <3>2. KeptFilters[d][p] = 0
          BY <2>1, <2>4, <3>1
    <3> QED BY <1>3, <2>2, <3>2
  <2>5. CASE ~(s = 0 \/ WantedClasses[s] # 0 \/ lim.releasing[s] = "over")
    <3>1. s \in Slots /\ WantedClasses[s] = 0 /\ KeptFilters[d][p] = s
          BY <1>1, <2>3, <2>5 DEF SlotOrNone, KeptFilters
    <3>2. NewClasses[s] \in {0, Unlimited}
      <4>1. CASE s \in Unwanted
            BY <3>1, <4>1 DEF NewClasses
      <4>2. CASE s \notin Unwanted
            BY <3>1, <4>2 DEF NewClasses, Deleted
      <4> QED BY <4>1, <4>2
    <3> QED BY <1>3, <2>2, <3>1, <3>2
  <2> QED BY <1>3, <2>2, <2>4, <2>5
<1> QED BY <1>2, <1>3

-----------------------------------------------------------------------------
(* What the steps do to the records. *)

\* The same kernel state is recorded.
Marked(l, new) ==
    /\ new \in Limiter
    /\ new.known = l.known /\ new.active = l.active /\ new.owners = l.owners
    /\ new.slots = l.slots /\ new.classes = l.classes
    /\ new.shaped = l.shaped /\ new.filters = l.filters

\* The outcome of a pass is marked.
LEMMA OutcomeUpdate ==
    ASSUME NEW l \in Limiter, NEW f \in {"none", "wait", "due"}, NEW o \in Rates
    PROVE  LET new == [l EXCEPT !.failure = f, !.failedOwners = o]
           IN  Marked(l, new) /\ new.failure = f
BY DEF Marked, Limiter

\* A scan is marked.
LEMMA ScanUpdate ==
    ASSUME NEW l \in Limiter
    PROVE  Marked(l, [l EXCEPT !.due = FALSE]) /\ [l EXCEPT !.due = FALSE].failure = l.failure
BY DEF Marked, Limiter

\* A failed teardown makes the record unknown.
LEMMA KnownUpdate ==
    ASSUME NEW l \in Limiter
    PROVE  LET new == [l EXCEPT !.known = FALSE]
           IN  /\ new \in Limiter /\ new.known = FALSE /\ new.active = l.active
               /\ new.slots = l.slots /\ new.classes = l.classes
               /\ new.shaped = l.shaped /\ new.filters = l.filters
BY DEF Limiter

LEMMA SucceedFacts ==
    ASSUME RateTypes, NEW l \in Limiter, NEW scan \in SUBSET Devs, Succeed(l, scan)
    PROVE  /\ Marked(l, lim') /\ lim'.failure = "none" /\ rates' = OwnersOf(job.owners)
           /\ job' \in Job /\ job'.at = "idle" /\ job'.scan = scan /\ Funded(job'.owners)
<1>1. Marked(l, lim') /\ lim'.failure = "none"
      BY OutcomeUpdate, EmptyTypes DEF Succeed
<1>2. job' \in Job /\ job'.at = Idle.at /\ job'.scan = scan /\ job'.owners = Idle.owners
      BY EmptyTypes DEF Succeed, Job
<1>3. Idle.at = "idle" /\ Idle.owners = NoOwners
      BY DEF Idle
<1> QED BY <1>1, <1>2, <1>3, EmptyTypes DEF Succeed

LEMMA FailFacts ==
    ASSUME NEW l \in Limiter, NEW o \in Rates, Fail(l, o)
    PROVE  /\ Marked(l, lim') /\ lim'.failure = "wait"
           /\ job' \in Job /\ job'.at = "idle" /\ Funded(job'.owners)
<1>1. Marked(l, lim') /\ lim'.failure = "wait"
      BY OutcomeUpdate DEF Fail
<1>2. Idle.at = "idle" /\ Idle.owners = NoOwners
      BY DEF Idle
<1> QED BY <1>1, <1>2, EmptyTypes DEF Fail

\* A pass goes to another step.
LEMMA MoveUpdate ==
    ASSUME NEW j \in Job, NEW at \in Step
    PROVE  LET new == [j EXCEPT !.at = at]
           IN  new \in Job /\ new.at = at /\ new.owners = j.owners /\ new.then = j.then
BY DEF Job

\* A new pass.
LEMMA PassType ==
    ASSUME NEW at \in Step, NEW then \in Purpose, NEW o \in Rates
    PROVE  LET new == Pass(at, then, o)
           IN  new \in Job /\ new.at = at /\ new.owners = o /\ new.then = then
BY DEF Pass, Job

LEMMA Names ==
    /\ {"idle", "filters", "links", "scan", "setup", "devices", "batch"} \subseteq Step
    /\ {"start", "setup", "done", "fail"} \subseteq Purpose
BY DEF Step, Purpose

\* An error sends the pass to its teardown.
LEMMA GiveUpFacts ==
    ASSUME RateTypes, GiveUp
    PROVE  /\ lim' = lim
           /\ job' \in Job /\ job'.at = "filters" /\ job'.then = "fail" /\ Funded(job'.owners)
<1>1. job \in Job /\ Funded(job.owners)
      BY DEF RateTypes
<1>2. "filters" \in Step /\ "fail" \in Purpose
      BY Names
<1>3. LET new == [job EXCEPT !.at = "filters", !.then = "fail"]
      IN  new \in Job /\ new.at = "filters" /\ new.owners = job.owners /\ new.then = "fail"
      BY <1>1, <1>2 DEF Job
<1> QED BY <1>1, <1>3 DEF GiveUp

\* Everything is removed: the record is a fresh one.
LEMMA TornDownFacts ==
    ASSUME RateTypes, TornDown
    PROVE  /\ Marked(Record(TRUE), lim')
           /\ job' \in Job /\ job'.at \in {"idle", "scan", "setup"} /\ Funded(job'.owners)
<1>1. /\ job \in Job /\ Funded(job.owners) /\ job.owners \in Rates /\ job.then \in Purpose
      BY DEF RateTypes, Job
<1>2. Record(TRUE) \in Limiter
      BY RecordType
<1>3. Marked(Record(TRUE), Record(TRUE))
      BY <1>2 DEF Marked
<1>4. ASSUME Succeed(Record(TRUE), {})
      PROVE  /\ Marked(Record(TRUE), lim')
             /\ job' \in Job /\ job'.at = "idle" /\ Funded(job'.owners)
      BY <1>2, <1>4, SucceedFacts
<1>5. ASSUME Fail(Record(TRUE), job.owners)
      PROVE  /\ Marked(Record(TRUE), lim')
             /\ job' \in Job /\ job'.at = "idle" /\ Funded(job'.owners)
      BY <1>1, <1>2, <1>5, FailFacts
<1>6. ASSUME NEW at \in {"scan", "setup"}, job' = [job EXCEPT !.at = at]
      PROVE  job' \in Job /\ job'.at = at /\ Funded(job'.owners)
  <2>1. at \in Step
        BY Names
  <2>2. LET new == [job EXCEPT !.at = at]
        IN  new \in Job /\ new.at = at /\ new.owners = job.owners /\ new.then = job.then
        BY <1>1, <2>1, MoveUpdate
  <2> QED BY <1>1, <1>6, <2>2
<1>7. CASE job.then = "start"
      BY <1>3, <1>4, <1>6, <1>7 DEF TornDown
<1>8. CASE job.then = "setup"
      BY <1>3, <1>4, <1>6, <1>8 DEF TornDown
<1>9. CASE job.then = "done"
      BY <1>4, <1>9 DEF TornDown
<1>10. CASE job.then = "fail"
       BY <1>5, <1>10 DEF TornDown
<1> QED BY <1>1, <1>7, <1>8, <1>9, <1>10 DEF Purpose

\* A teardown that fails is repeated once; then the record is not known.
LEMMA NotTornDownFacts ==
    ASSUME RateTypes, OrderInv, job.at \in {"filters", "links"}, NotTornDown
    PROVE  /\ lim' \in Limiter /\ lim'.active = lim.active
           /\ lim'.slots = lim.slots /\ lim'.classes = lim.classes
           /\ lim'.shaped = lim.shaped /\ lim'.filters = lim.filters
           /\ job' \in Job /\ Funded(job'.owners)
           /\ \/ job'.at = "idle" /\ lim'.failure = "wait" /\ lim'.known = FALSE
              \/ job'.at = "filters" /\ job'.then = "fail" /\ lim'.known = lim.known
<1>1. /\ job \in Job /\ lim \in Limiter /\ job.owners \in Rates /\ job.then \in Purpose
      /\ lim.known \in BOOLEAN
      BY DEF RateTypes, Job, Limiter
<1>2. CASE job.then = "start"
  <2>1. Fail(lim, job.owners) /\ lim.known = FALSE
        BY <1>1, <1>2 DEF NotTornDown, OrderInv
  <2> QED BY <1>1, <2>1, FailFacts DEF Marked
<1>3. CASE job.then = "fail"
  <2> DEFINE l == [lim EXCEPT !.known = FALSE]
  <2>1. Fail(l, job.owners)
        BY <1>3 DEF NotTornDown
  <2>2. /\ l \in Limiter /\ l.known = FALSE /\ l.active = lim.active
        /\ l.slots = lim.slots /\ l.classes = lim.classes
        /\ l.shaped = lim.shaped /\ l.filters = lim.filters
        BY <1>1, KnownUpdate
  <2> HIDE DEF l
  <2> QED BY <1>1, <2>1, <2>2, FailFacts DEF Marked
<1>4. CASE job.then \in {"setup", "done"}
  <2>1. GiveUp
        BY <1>4 DEF NotTornDown, GiveUp
  <2> QED BY <1>1, <2>1, GiveUpFacts
<1> QED BY <1>1, <1>2, <1>3, <1>4 DEF Purpose

-----------------------------------------------------------------------------
(* What the steps do to the kernel. *)

LEMMA FiltersUpdate ==
    ASSUME NEW k \in Kernel, NEW f \in FilterTable
    PROVE  LET new == [k EXCEPT !.filters = f]
           IN  new \in Kernel /\ new.ifb = k.ifb /\ new.classes = k.classes /\ new.filters = f
BY DEF Kernel

LEMMA IfbUpdate ==
    ASSUME NEW k \in Kernel, NEW i \in {"none", "half", "up", "cut", "other"}
    PROVE  LET new == [k EXCEPT !.ifb = i]
           IN  new \in Kernel /\ new.ifb = i /\ new.classes = k.classes /\ new.filters = k.filters
BY DEF Kernel

LEMMA LinksUpdate ==
    ASSUME NEW k \in Kernel, NEW i \in {"none", "half", "up", "cut", "other"}
    PROVE  LET new == [k EXCEPT !.ifb = i, !.classes = NoClasses]
           IN  /\ new \in Kernel /\ new.ifb = i /\ new.classes = NoClasses
               /\ new.filters = k.filters
BY EmptyTypes DEF Kernel

\* A removal that misses some devices leaves nothing new.
LEMMA RemovalFacts ==
    ASSUME NEW f \in FilterTable, NEW bad
    PROVE  LET new == [d \in Devs |-> IF d \in bad THEN f[d] ELSE [p \in Ports |-> 0]]
           IN  new \in FilterTable /\ Filtered(new) \subseteq Filtered(f)
<1>1. NoPorts \in [Ports -> SlotOrNone]
      BY EmptyTypes
<1>2. \A d \in Devs : f[d] \in [Ports -> SlotOrNone]
      BY DEF FilterTable
<1> QED BY <1>1, <1>2 DEF FilterTable, Filtered, NoPorts

\* A device without filters.
LEMMA NoPortsUnique ==
    ASSUME NEW row \in [Ports -> SlotOrNone], \A p \in Ports : row[p] = 0
    PROVE  row = NoPorts
BY DEF NoPorts
-----------------------------------------------------------------------------
(* One lemma for every kind of step that several actions share. *)

LEMMA TypesKept ==
    ASSUME RateTypes, UNCHANGED around, kernel' \in Kernel, lim' \in Limiter,
           job' \in Job, Funded(job'.owners)
    PROVE  RateTypes'
BY DEF RateTypes, BudgetTypes, around, budgetVars, Funded

\* The limiter notes something about its passes and stays at the same step.
LEMMA NoteStep ==
    ASSUME RateInv, UNCHANGED <<around, kernel, job>>, Marked(lim, lim'),
           At("idle") /\ lim'.active /\ lim'.failure = "none" =>
             lim.failure = "none" /\ rates' = OwnersOf(lim.owners)
    PROVE  RateInv'
<1>1. RateTypes /\ OrderInv /\ SlotsInv /\ RecordInv /\ RestInv
      BY DEF RateInv
<1>2. /\ lim'.known = lim.known /\ lim'.active = lim.active /\ lim'.owners = lim.owners
      /\ lim'.slots = lim.slots /\ lim'.classes = lim.classes
      /\ lim'.shaped = lim.shaped /\ lim'.filters = lim.filters
      BY DEF Marked
<1>3. RateTypes'
  <2>1. kernel' \in Kernel /\ job' \in Job /\ Funded(job'.owners)
        BY <1>1 DEF RateTypes
  <2> QED BY <1>1, <2>1, TypesKept DEF Marked
<1>4. OrderInv'
      BY <1>1, <1>2 DEF OrderInv, NoRedirectIntoNothing, At, Filtered
<1>5. SlotsInv'
      BY <1>1, <1>2 DEF SlotsInv
<1>6. RecordInv'
      BY <1>1, <1>2 DEF RecordInv, around
<1>7. RestInv'
      BY <1>1, <1>2 DEF RestInv, At, Enforced, OwnersOf
<1> QED BY <1>3, <1>4, <1>5, <1>6, <1>7 DEF RateInv

\* A pass moves to a step where the record has to hold only if it did before.
LEMMA MoveStep ==
    ASSUME RateInv, UNCHANGED <<around, kernel>>, Marked(lim, lim'),
           job' \in Job, Funded(job'.owners), job'.at # "idle",
           job'.at \in {"scan", "devices", "batch"} => job.at \in {"idle", "scan", "devices", "batch"},
           job'.at \in {"links", "setup"} => Filtered(kernel.filters) = {},
           job'.at \in {"scan", "setup", "devices", "batch"} => lim.known,
           job'.at \in {"filters", "links"} /\ job'.then = "start" => ~lim.known,
           job'.at \in {"filters", "links"} /\ job'.then \in {"setup", "done"} => lim.active,
           job'.at = "setup" => ~lim.active,
           job'.at \in {"devices", "batch"} => lim.active /\ kernel.ifb \notin {"none", "half"}
    PROVE  RateInv'
<1>1. RateTypes /\ OrderInv /\ SlotsInv /\ RecordInv
      BY DEF RateInv
<1>2. /\ lim'.known = lim.known /\ lim'.active = lim.active
      /\ lim'.slots = lim.slots /\ lim'.classes = lim.classes
      /\ lim'.shaped = lim.shaped /\ lim'.filters = lim.filters
      BY DEF Marked
<1>3. RateTypes'
  <2>1. kernel' \in Kernel
        BY <1>1 DEF RateTypes
  <2> QED BY <1>1, <2>1, TypesKept DEF Marked
<1>4. OrderInv'
      BY <1>1, <1>2 DEF OrderInv, NoRedirectIntoNothing, At, Filtered
<1>5. SlotsInv'
      BY <1>1, <1>2 DEF SlotsInv
<1>6. RecordInv'
      BY <1>1, <1>2 DEF RecordInv, around
<1>7. RestInv'
      BY DEF RestInv, At
<1> QED BY <1>3, <1>4, <1>5, <1>6, <1>7 DEF RateInv

\* An error of the pass: it begins to remove everything.
LEMMA GiveUpStep ==
    ASSUME RateInv, UNCHANGED around, GiveUp, kernel' \in Kernel,
           Filtered(kernel'.filters) \subseteq Filtered(kernel.filters),
           Filtered(kernel'.filters) # {} => kernel'.ifb \notin {"none", "half"},
           kernel'.ifb = "none" => kernel'.classes = NoClasses
    PROVE  RateInv'
<1>1. RateTypes /\ OrderInv /\ SlotsInv /\ RecordInv
      BY DEF RateInv
<1>2. /\ lim' = lim
      /\ job' \in Job /\ job'.at = "filters" /\ job'.then = "fail" /\ Funded(job'.owners)
      BY <1>1, GiveUpFacts
<1>3. RateTypes'
  <2>1. lim' \in Limiter
        BY <1>1, <1>2 DEF RateTypes
  <2> QED BY <1>1, <1>2, <2>1, TypesKept
<1>4. OrderInv'
  <2>1. lim'.known /\ ~lim'.active => Filtered(kernel'.filters) = {}
        BY <1>1, <1>2 DEF OrderInv
  <2> QED BY <1>2, <2>1 DEF OrderInv, NoRedirectIntoNothing, At, Filtered
<1>5. SlotsInv'
      BY <1>1, <1>2 DEF SlotsInv
<1>6. RecordInv'
      BY <1>1, <1>2 DEF RecordInv
<1>7. RestInv'
      BY <1>2 DEF RestInv, At
<1> QED BY <1>3, <1>4, <1>5, <1>6, <1>7 DEF RateInv

\* A removal failed.
LEMMA NotTornDownStep ==
    ASSUME RateInv, UNCHANGED around, job.at \in {"filters", "links"}, NotTornDown,
           kernel' \in Kernel, kernel'.ifb = kernel.ifb, kernel'.classes = kernel.classes,
           Filtered(kernel'.filters) \subseteq Filtered(kernel.filters)
    PROVE  RateInv'
<1>1. RateTypes /\ OrderInv /\ SlotsInv /\ RecordInv
      BY DEF RateInv
<1>2. /\ lim' \in Limiter /\ lim'.active = lim.active
      /\ lim'.slots = lim.slots /\ lim'.classes = lim.classes
      /\ lim'.shaped = lim.shaped /\ lim'.filters = lim.filters
      /\ job' \in Job /\ Funded(job'.owners)
      /\ \/ job'.at = "idle" /\ lim'.failure = "wait" /\ lim'.known = FALSE
         \/ job'.at = "filters" /\ job'.then = "fail" /\ lim'.known = lim.known
      BY <1>1, NotTornDownFacts
<1>3. RateTypes'
      BY <1>1, <1>2, TypesKept
<1>4. OrderInv'
  <2>1. lim'.known /\ ~lim'.active => Filtered(kernel'.filters) = {}
        BY <1>1, <1>2 DEF OrderInv
  <2>2. Filtered(kernel'.filters) # {} => kernel'.ifb \notin {"none", "half"}
        BY <1>1 DEF OrderInv, NoRedirectIntoNothing
  <2> QED BY <1>2, <2>1, <2>2 DEF OrderInv, NoRedirectIntoNothing, At, Filtered
<1>5. SlotsInv'
      BY <1>1, <1>2 DEF SlotsInv
<1>6. RecordInv'
      BY <1>1, <1>2 DEF RecordInv
<1>7. RestInv'
      BY <1>2 DEF RestInv, At
<1> QED BY <1>3, <1>4, <1>5, <1>6, <1>7 DEF RateInv

-----------------------------------------------------------------------------
(* How a pass begins. *)

LEMMA PassRefusedInv ==
    ASSUME RateInv, PassRefused
    PROVE  RateInv'
<1>1. At("idle") /\ lim.failure = "wait" /\ UNCHANGED <<around, kernel, job, lim>>
      BY DEF PassRefused, Begin, Refused, around, budgetVars
<1>2. Marked(lim, lim')
      BY <1>1 DEF Marked, RateInv, RateTypes
<1> QED BY <1>1, <1>2, NoteStep

LEMMA PassHasNothingInv ==
    ASSUME RateInv, PassHasNothing
    PROVE  RateInv'
<1>1. At("idle") /\ lim.active = FALSE /\ UNCHANGED <<around, kernel, job>>
  <2>1. Begin(~Refused(RateOwners) /\ Nothing(RateOwners)) /\ UNCHANGED job
        BY DEF PassHasNothing
  <2>2. lim.active \in BOOLEAN
        BY DEF RateInv, RateTypes, Limiter
  <2> QED BY <2>1, <2>2 DEF Begin, Nothing, around, budgetVars
<1>2. Marked(lim, lim')
  <2>1. lim \in Limiter
        BY DEF RateInv, RateTypes
  <2> QED BY <2>1, OutcomeUpdate, EmptyTypes DEF PassHasNothing
<1> QED BY <1>1, <1>2, NoteStep DEF Marked

LEMMA PassIsSteadyInv ==
    ASSUME RateInv, PassIsSteady
    PROVE  RateInv'
<1>1. /\ At("idle") /\ lim.failure = "none" /\ RateOwners = lim.owners
      /\ UNCHANGED <<around, kernel, job, lim>>
      BY DEF PassIsSteady, Begin, Steady, around, budgetVars
<1>2. rates' = OwnersOf(lim.owners)
      BY <1>1 DEF PassIsSteady
<1>3. Marked(lim, lim')
      BY <1>1 DEF Marked, RateInv, RateTypes
<1> QED BY <1>1, <1>2, <1>3, NoteStep

\* A pass that works begins with its users.
LEMMA PassBegins ==
    ASSUME RateInv, NEW at \in Step, NEW then \in Purpose, job' = Pass(at, then, RateOwners)
    PROVE  job' \in Job /\ Funded(job'.owners) /\ job'.at = at /\ job'.then = then
<1>1. RateOwners \in Rates /\ Funded(RateOwners)
      BY RateOwnersType DEF RateInv
<1> QED BY <1>1, PassType

LEMMA PassClearsInv ==
    ASSUME RateInv, PassClears
    PROVE  RateInv'
<1>1. /\ ~lim.known /\ UNCHANGED <<around, kernel, lim>>
      /\ job' = Pass("filters", "start", RateOwners)
      BY DEF PassClears, Begin, around, budgetVars
<1>2. "filters" \in Step /\ "start" \in Purpose
      BY Names
<1>3. job' \in Job /\ Funded(job'.owners) /\ job'.at = "filters" /\ job'.then = "start"
      BY <1>1, <1>2, PassBegins
<1>4. Marked(lim, lim')
      BY <1>1 DEF Marked, RateInv, RateTypes
<1> QED BY <1>1, <1>3, <1>4, MoveStep

LEMMA PassReconcilesInv ==
    ASSUME RateInv, PassReconciles
    PROVE  RateInv'
<1>1. /\ job.at = "idle" /\ lim.known /\ UNCHANGED <<around, kernel, lim>>
      /\ job' = Pass("scan", "fail", RateOwners)
      BY DEF PassReconciles, Begin, At, around, budgetVars
<1>2. "scan" \in Step /\ "fail" \in Purpose
      BY Names
<1>3. job' \in Job /\ Funded(job'.owners) /\ job'.at = "scan" /\ job'.then = "fail"
      BY <1>1, <1>2, PassBegins
<1>4. Marked(lim, lim')
      BY <1>1 DEF Marked, RateInv, RateTypes
<1> QED BY <1>1, <1>3, <1>4, MoveStep

-----------------------------------------------------------------------------
(* teardown. *)

LEMMA RemoveFiltersInv ==
    ASSUME RateInv, RemoveFilters
    PROVE  RateInv'
<1>1. RateTypes /\ OrderInv /\ SlotsInv /\ RecordInv /\ job.at = "filters" /\ UNCHANGED around
      BY DEF RateInv, RemoveFilters, At
<1>2. kernel \in Kernel /\ job \in Job /\ lim \in Limiter /\ kernel.filters \in FilterTable
      BY <1>1 DEF RateTypes, Kernel
<1>3. CASE /\ kernel' = [kernel EXCEPT !.filters = NoFilters]
           /\ Goto("links")
           /\ UNCHANGED <<lim, rates, spent>>
  <2>1. "links" \in Step
        BY Names
  <2>2. /\ job' \in Job /\ job'.at = "links" /\ job'.owners = job.owners /\ job'.then = job.then
        BY <1>2, <1>3, <2>1, MoveUpdate DEF Goto
  <2>3. /\ kernel' \in Kernel /\ kernel'.ifb = kernel.ifb /\ kernel'.classes = kernel.classes
        /\ kernel'.filters = NoFilters
        BY <1>2, <1>3, FiltersUpdate, EmptyTypes
  <2>4. Filtered(NoFilters) = {}
        BY DEF Filtered, NoFilters
  <2>5. RateTypes'
    <3>1. Funded(job'.owners) /\ lim' \in Limiter
          BY <1>1, <1>2, <1>3, <2>2 DEF RateTypes
    <3> QED BY <1>1, <2>2, <2>3, <3>1, TypesKept
  <2>6. OrderInv'
        BY <1>1, <1>3, <2>2, <2>3, <2>4 DEF OrderInv, NoRedirectIntoNothing, At, Filtered
  <2>7. SlotsInv'
        BY <1>1, <1>3 DEF SlotsInv
  <2>8. RecordInv'
        BY <1>1, <1>3, <2>2, <2>3 DEF RecordInv
  <2>9. RestInv'
        BY <2>2 DEF RestInv, At
  <2> QED BY <2>5, <2>6, <2>7, <2>8, <2>9 DEF RateInv
<1>4. ASSUME NEW bad \in SUBSET Devs,
             kernel' = [kernel EXCEPT !.filters =
               [d \in Devs |-> IF d \in bad THEN @[d] ELSE [p \in Ports |-> 0]]],
             NotTornDown
      PROVE  RateInv'
  <2> DEFINE f == kernel.filters
             new == [d \in Devs |-> IF d \in bad THEN f[d] ELSE [p \in Ports |-> 0]]
  <2>1. new \in FilterTable /\ Filtered(new) \subseteq Filtered(f)
        BY <1>2, RemovalFacts, Zenon
  <2>2. kernel' = [kernel EXCEPT !.filters = new]
        BY <1>4
  <2> HIDE DEF new
  <2>3. /\ kernel' \in Kernel /\ kernel'.ifb = kernel.ifb /\ kernel'.classes = kernel.classes
        /\ kernel'.filters = new
        BY <1>2, <2>1, <2>2, FiltersUpdate
  <2> QED BY <1>1, <1>4, <2>1, <2>3, NotTornDownStep
<1> QED BY <1>3, <1>4 DEF RemoveFilters

LEMMA RemoveLinksInv ==
    ASSUME RateInv, RemoveLinks
    PROVE  RateInv'
<1>1. RateTypes /\ OrderInv /\ SlotsInv /\ RecordInv /\ job.at = "links" /\ UNCHANGED around
      BY DEF RateInv, RemoveLinks, At
<1>2. kernel \in Kernel
      BY <1>1 DEF RateTypes
<1>3. CASE kernel' = [kernel EXCEPT !.ifb = "none", !.classes = NoClasses] /\ TornDown
  <2>1. /\ kernel' \in Kernel /\ kernel'.ifb = "none" /\ kernel'.classes = NoClasses
        /\ kernel'.filters = kernel.filters
        BY <1>2, <1>3, LinksUpdate, Zenon
  <2>2. /\ Marked(Record(TRUE), lim')
        /\ job' \in Job /\ job'.at \in {"idle", "scan", "setup"} /\ Funded(job'.owners)
        BY <1>1, <1>3, TornDownFacts
  <2>3. /\ lim' \in Limiter /\ lim'.known = TRUE /\ lim'.active = FALSE
        /\ lim'.classes = NoClasses /\ lim'.filters = NoFilters /\ lim'.slots = NoRates
        BY <2>2, RecordType DEF Marked
  <2>4. Filtered(kernel'.filters) = {}
        BY <1>1, <2>1 DEF OrderInv
  <2>5. RateTypes'
        BY <1>1, <2>1, <2>2, <2>3, TypesKept
  <2>6. OrderInv'
        BY <2>2, <2>3, <2>4 DEF OrderInv, NoRedirectIntoNothing, At, Filtered
  <2>7. SlotsInv'
        BY <2>3 DEF SlotsInv, NoRates, NoFilters
  <2>8. RecordInv'
        BY <2>1, <2>3 DEF RecordInv
  <2>9. RestInv'
        BY <2>3 DEF RestInv
  <2> QED BY <2>5, <2>6, <2>7, <2>8, <2>9 DEF RateInv
<1>4. CASE NotTornDown /\ UNCHANGED kernel
      BY <1>1, <1>2, <1>4, NotTornDownStep
<1> QED BY <1>3, <1>4 DEF RemoveLinks

\* A tool fails: a setup leaves its IFBs unfinished, and no filter is there yet.
LEMMA ToolFailsInv ==
    ASSUME RateInv, ToolFails
    PROVE  RateInv'
<1>1. /\ RateTypes /\ OrderInv /\ SlotsInv /\ RecordInv
      /\ UNCHANGED around /\ GiveUp
      BY DEF RateInv, ToolFails
<1>2. kernel \in Kernel
      BY <1>1 DEF RateTypes
<1>3. CASE job.at = "setup"
  <2>1. kernel' = [kernel EXCEPT !.ifb = "half"]
        BY <1>3 DEF ToolFails, At
  <2>2. /\ kernel' \in Kernel /\ kernel'.ifb = "half" /\ kernel'.classes = kernel.classes
        /\ kernel'.filters = kernel.filters
        BY <1>2, <2>1, IfbUpdate
  <2>3. Filtered(kernel'.filters) = {}
        BY <1>1, <1>3, <2>2 DEF OrderInv
  <2> QED BY <1>1, <2>2, <2>3, GiveUpStep
<1>4. CASE job.at # "setup"
  <2>1. kernel' = kernel
        BY <1>4 DEF ToolFails, At
  <2> QED BY <1>1, <1>2, <2>1, GiveUpStep DEF OrderInv, NoRedirectIntoNothing, RecordInv
<1> QED BY <1>3, <1>4

-----------------------------------------------------------------------------
(* reconcile up to the batch. *)

\* A pass without devices to look at.
LEMMA EndInv ==
    ASSUME RateInv, UNCHANGED <<around, kernel>>, lim.known, ~lim.active, NEW l,
           Marked(lim, l), NEW scan \in SUBSET Devs, Succeed(l, scan)
    PROVE  RateInv'
<1>1. RateTypes /\ OrderInv /\ SlotsInv /\ RecordInv
      BY DEF RateInv
<1>2. /\ Marked(l, lim') /\ job' \in Job /\ job'.at = "idle" /\ Funded(job'.owners)
      BY <1>1, SucceedFacts DEF Marked
<1>3. /\ lim' \in Limiter /\ lim'.known = lim.known /\ lim'.active = lim.active
      /\ lim'.slots = lim.slots /\ lim'.classes = lim.classes
      /\ lim'.shaped = lim.shaped /\ lim'.filters = lim.filters
      BY <1>2 DEF Marked
<1>4. RateTypes'
  <2>1. kernel' \in Kernel
        BY <1>1 DEF RateTypes
  <2> QED BY <1>1, <1>2, <1>3, <2>1, TypesKept
<1>5. OrderInv'
      BY <1>1, <1>2, <1>3 DEF OrderInv, NoRedirectIntoNothing, At, Filtered
<1>6. SlotsInv'
      BY <1>1, <1>3 DEF SlotsInv
<1>7. RecordInv'
      BY <1>1, <1>3 DEF RecordInv, around
<1>8. RestInv'
      BY <1>3 DEF RestInv
<1> QED BY <1>4, <1>5, <1>6, <1>7, <1>8 DEF RateInv

LEMMA ScanDevicesInv ==
    ASSUME RateInv, ScanDevices
    PROVE  RateInv'
<1> DEFINE l == [lim EXCEPT !.due = FALSE]
           look(at, then) == job' = [job EXCEPT !.scan = Scan, !.at = at, !.then = then]
<1>1. RateTypes /\ OrderInv /\ job.at = "scan" /\ UNCHANGED <<around, kernel>>
      BY DEF RateInv, ScanDevices, At
<1>2. job \in Job /\ lim \in Limiter /\ Scan \in SUBSET Devs /\ Funded(job.owners)
      BY <1>1 DEF RateTypes, Scan
<1>3. Marked(lim, l)
      BY <1>2, ScanUpdate
<1>4. lim.known /\ lim.active \in BOOLEAN
      BY <1>1, <1>2 DEF OrderInv, Limiter
<1>5. \/ lim.active /\ kernel.ifb # "up" /\ look("filters", "setup") /\ lim' = l
      \/ lim.active /\ kernel.ifb = "up" /\ look("devices", "fail") /\ lim' = l
      \/ ~lim.active /\ look("setup", "fail") /\ lim' = l
      \/ ~lim.active /\ Succeed(l, Scan)
      BY DEF ScanDevices
<1> HIDE DEF l
<1>6. ASSUME NEW at \in Step, NEW then \in Purpose, look(at, then)
      PROVE  job' \in Job /\ Funded(job'.owners) /\ job'.at = at /\ job'.then = then
  <2>1. LET new == [job EXCEPT !.scan = Scan, !.at = at, !.then = then]
        IN  new \in Job /\ new.at = at /\ new.owners = job.owners /\ new.then = then
        BY <1>2 DEF Job
  <2> QED BY <1>2, <1>6, <2>1
<1>7. /\ "filters" \in Step /\ "devices" \in Step /\ "setup" \in Step
      /\ "fail" \in Purpose /\ "setup" \in Purpose
      BY Names
<1> HIDE DEF look
<1>8. CASE lim.active /\ kernel.ifb # "up" /\ look("filters", "setup") /\ lim' = l
  <2>1. job' \in Job /\ Funded(job'.owners) /\ job'.at = "filters" /\ job'.then = "setup"
        BY <1>6, <1>7, <1>8
  <2> QED BY <1>1, <1>3, <1>4, <1>8, <2>1, MoveStep
<1>9. CASE lim.active /\ kernel.ifb = "up" /\ look("devices", "fail") /\ lim' = l
  <2>1. job' \in Job /\ Funded(job'.owners) /\ job'.at = "devices" /\ job'.then = "fail"
        BY <1>6, <1>7, <1>9
  <2> QED BY <1>1, <1>3, <1>4, <1>9, <2>1, MoveStep
<1>10. CASE ~lim.active /\ look("setup", "fail") /\ lim' = l
  <2>1. job' \in Job /\ Funded(job'.owners) /\ job'.at = "setup" /\ job'.then = "fail"
        BY <1>6, <1>7, <1>10
  <2>2. Filtered(kernel.filters) = {}
        BY <1>1, <1>4, <1>10 DEF OrderInv
  <2> QED BY <1>1, <1>3, <1>4, <1>10, <2>1, <2>2, MoveStep
<1>11. CASE ~lim.active /\ Succeed(l, Scan)
       BY <1>1, <1>2, <1>3, <1>4, <1>11, EndInv
<1> QED BY <1>5, <1>8, <1>9, <1>10, <1>11

LEMMA ActiveUpdate ==
    ASSUME NEW l \in Limiter
    PROVE  LET new == [l EXCEPT !.active = TRUE]
           IN  /\ new \in Limiter /\ new.active = TRUE /\ new.known = l.known
               /\ new.slots = l.slots /\ new.classes = l.classes
               /\ new.shaped = l.shaped /\ new.filters = l.filters
BY DEF Limiter

LEMMA SetUpInv ==
    ASSUME RateInv, SetUp
    PROVE  RateInv'
<1>1. /\ RateTypes /\ OrderInv /\ SlotsInv /\ RecordInv
      /\ job.at = "setup" /\ UNCHANGED around
      BY DEF RateInv, SetUp, At
<1>2. /\ kernel \in Kernel /\ job \in Job /\ lim \in Limiter /\ Funded(job.owners)
      /\ kernel.filters \in FilterTable
      BY <1>1 DEF RateTypes, Kernel
<1>3. lim.known /\ ~lim.active /\ Filtered(kernel.filters) = {}
      BY <1>1 DEF OrderInv, At
<1>4. CASE /\ kernel.ifb = "none"
           /\ kernel' = [kernel EXCEPT !.ifb = "up"]
           /\ lim' = [lim EXCEPT !.active = TRUE]
           /\ job' = [job EXCEPT !.at = "batch", !.then = "fail"]
  <2>1. /\ kernel' \in Kernel /\ kernel'.ifb = "up" /\ kernel'.classes = kernel.classes
        /\ kernel'.filters = kernel.filters
        BY <1>2, <1>4, IfbUpdate
  <2>2. /\ lim' \in Limiter /\ lim'.active = TRUE /\ lim'.known = lim.known
        /\ lim'.slots = lim.slots /\ lim'.classes = lim.classes
        /\ lim'.shaped = lim.shaped /\ lim'.filters = lim.filters
        BY <1>2, <1>4, ActiveUpdate
  <2>3. "batch" \in Step /\ "fail" \in Purpose
        BY Names
  <2>4. job' \in Job /\ job'.at = "batch" /\ job'.then = "fail" /\ job'.owners = job.owners
    <3>1. LET new == [job EXCEPT !.at = "batch", !.then = "fail"]
          IN  new \in Job /\ new.at = "batch" /\ new.owners = job.owners /\ new.then = "fail"
          BY <1>2, <2>3 DEF Job
    <3> QED BY <1>4, <3>1
  <2>5. RateTypes'
        BY <1>1, <1>2, <2>1, <2>2, <2>4, TypesKept
  <2>6. OrderInv'
        BY <1>3, <2>1, <2>2, <2>4 DEF OrderInv, NoRedirectIntoNothing, At, Filtered
  <2>7. SlotsInv'
        BY <1>1, <2>2 DEF SlotsInv
  <2>8. RecordInv'
    <3>1. kernel.classes = NoClasses /\ lim.classes = NoClasses /\ lim.filters = NoFilters
          BY <1>1, <1>3, <1>4 DEF RecordInv
    <3>2. ASSUME NEW d \in Devs
          PROVE  kernel.filters[d] = NoPorts /\ lim.filters[d] = NoPorts
      <4>1. kernel.filters[d] \in [Ports -> SlotOrNone] /\ \A p \in Ports : kernel.filters[d][p] = 0
            BY <1>2, <1>3, FilteredEmpty DEF FilterTable
      <4>2. kernel.filters[d] = NoPorts
            BY <4>1, NoPortsUnique
      <4> QED BY <3>1, <4>2 DEF NoFilters, NoPorts
    <3> QED BY <2>1, <2>2, <3>1, <3>2 DEF RecordInv
  <2>9. RestInv'
        BY <2>4 DEF RestInv, At
  <2> QED BY <2>5, <2>6, <2>7, <2>8, <2>9 DEF RateInv
<1>5. CASE kernel.ifb # "none" /\ GiveUp /\ UNCHANGED kernel
      BY <1>1, <1>2, <1>3, <1>5, GiveUpStep
<1> QED BY <1>4, <1>5 DEF SetUp

\* The devices that are not selected any more are cleared in the kernel and in
\* the record; what is not in the record had no filters.
LEMMA ClearDevicesInv ==
    ASSUME RateInv, ClearDevices
    PROVE  RateInv'
<1> DEFINE old == kernel.filters
           f == [d \in Devs |-> IF d \in Unselected(job.scan) THEN [p \in Ports |-> 0] ELSE old[d]]
           g == [d \in Devs |-> IF d \in job.scan THEN lim.filters[d] ELSE [p \in Ports |-> 0]]
           s == lim.shaped \cap job.scan
<1>1. /\ RateTypes /\ OrderInv /\ SlotsInv /\ RecordInv
      /\ job.at = "devices" /\ UNCHANGED around
      BY DEF RateInv, ClearDevices, At
<1>2. /\ kernel \in Kernel /\ job \in Job /\ lim \in Limiter /\ Funded(job.owners)
      /\ kernel.filters \in FilterTable /\ lim.filters \in FilterTable
      /\ lim.shaped \in SUBSET Devs
      BY <1>1 DEF RateTypes, Kernel, Limiter
<1>3. lim.known /\ lim.active /\ kernel.ifb \notin {"none", "half"}
      BY <1>1 DEF OrderInv
<1>4. NoPorts \in [Ports -> SlotOrNone]
      BY EmptyTypes
<1>5. f \in FilterTable /\ g \in FilterTable
      BY <1>2, <1>4 DEF FilterTable, NoPorts
<1>6. /\ kernel' = [kernel EXCEPT !.filters = f]
      /\ lim' = [lim EXCEPT !.shaped = s, !.filters = g]
      /\ job' = [job EXCEPT !.at = "batch"]
      BY DEF ClearDevices, Goto
<1>7. ASSUME NEW d \in Devs
      PROVE  /\ d \in job.scan => f[d] = old[d] /\ g[d] = lim.filters[d]
             /\ d \notin job.scan => g[d] = NoPorts /\ f[d] \in {NoPorts, old[d]}
             /\ d \notin job.scan /\ d \in lim.shaped => f[d] = NoPorts
      BY DEF Unselected, NoPorts
<1>8. ASSUME NEW d \in Devs, d \notin lim.shaped
      PROVE  lim.filters[d] = NoPorts
  <2>1. lim.filters[d] \in [Ports -> SlotOrNone] /\ \A p \in Ports : lim.filters[d][p] = 0
        BY <1>1, <1>2, <1>8 DEF SlotsInv, FilterTable
  <2> QED BY <2>1, NoPortsUnique
<1> HIDE DEF f, g, s
<1>9. /\ kernel' \in Kernel /\ kernel'.ifb = kernel.ifb /\ kernel'.classes = kernel.classes
      /\ kernel'.filters = f
      BY <1>2, <1>5, <1>6, FiltersUpdate
<1>10. /\ lim' \in Limiter /\ lim'.active = lim.active /\ lim'.known = lim.known
       /\ lim'.slots = lim.slots /\ lim'.classes = lim.classes
       /\ lim'.shaped = s /\ lim'.filters = g
  <2>1. s \in SUBSET Devs
        BY <1>2 DEF s
  <2>2. LET new == [lim EXCEPT !.shaped = s, !.filters = g]
        IN  /\ new \in Limiter /\ new.active = lim.active /\ new.known = lim.known
            /\ new.slots = lim.slots /\ new.classes = lim.classes
            /\ new.shaped = s /\ new.filters = g
        BY <1>2, <1>5, <2>1 DEF Limiter
  <2> QED BY <1>6, <2>2
<1>11. job' \in Job /\ job'.at = "batch" /\ job'.owners = job.owners
  <2>1. "batch" \in Step
        BY Names
  <2> QED BY <1>2, <1>6, <2>1, MoveUpdate
<1>12. RateTypes'
       BY <1>1, <1>2, <1>9, <1>10, <1>11, TypesKept
<1>13. OrderInv'
       BY <1>3, <1>9, <1>10, <1>11 DEF OrderInv, NoRedirectIntoNothing, At, Filtered
<1>14. SlotsInv'
  <2>1. ASSUME NEW d \in Devs, NEW p \in Ports, g[d][p] # 0
        PROVE  d \in s
    <3>1. d \in job.scan
          BY <1>7, <2>1 DEF NoPorts
    <3> QED BY <1>1, <1>7, <2>1, <3>1 DEF SlotsInv, s
  <2> QED BY <1>1, <1>10, <2>1 DEF SlotsInv
<1>15. RecordInv'
  <2>1. kernel.ifb = "up" => kernel.classes = lim.classes
        BY <1>1, <1>3 DEF RecordInv
  <2>2. ASSUME NEW d \in Devs
        PROVE  f[d] = IF net[d] = "gone" THEN NoPorts ELSE g[d]
    <3>1. old[d] = IF net[d] = "gone" THEN NoPorts ELSE lim.filters[d]
          BY <1>1, <1>3 DEF RecordInv
    <3>2. CASE d \in job.scan
          BY <1>7, <3>1, <3>2
    <3>3. CASE d \notin job.scan /\ d \in lim.shaped
          BY <1>7, <3>3
    <3>4. CASE d \notin job.scan /\ d \notin lim.shaped
          BY <1>7, <1>8, <3>1, <3>4
    <3> QED BY <3>2, <3>3, <3>4
  <2>3. net' = net
        BY <1>1 DEF around
  <2> QED BY <1>3, <1>9, <1>10, <1>11, <2>1, <2>2, <2>3 DEF RecordInv
<1>16. RestInv'
       BY <1>11 DEF RestInv, At
<1> QED BY <1>12, <1>13, <1>14, <1>15, <1>16 DEF RateInv

LEMMA RefuseBatchInv ==
    ASSUME RateInv, RefuseBatch
    PROVE  RateInv'
<1>1. /\ RateTypes /\ OrderInv /\ job.at = "batch" /\ UNCHANGED <<around, kernel>> /\ GiveUp
      BY DEF RateInv, RefuseBatch, At
<1>2. kernel \in Kernel /\ kernel.ifb \notin {"none", "half"}
      BY <1>1 DEF RateTypes, OrderInv
<1> QED BY <1>1, <1>2, GiveUpStep

-----------------------------------------------------------------------------
(* sync: the batch. *)

\* The record that sync makes.
LEMMA SyncedFacts ==
    ASSUME RateTypes, SlotsInv, SlotsSuffice
    PROVE  /\ Synced \in Limiter /\ Synced.known = lim.known /\ Synced.active = lim.active
           /\ Synced.classes = NewClasses /\ Synced.filters = NewFilters
           /\ \A o1, o2 \in Owners :
                Synced.slots[o1] = Synced.slots[o2] /\ Synced.slots[o1] # 0 => o1 = o2
           /\ \A d \in Devs, p \in Ports : Synced.filters[d][p] # 0 => d \in Synced.shaped
<1> DEFINE slots == [o \in Owners |-> IF SlotOf[o] \in Deleted THEN 0 ELSE SlotOf[o]]
           shaped == lim.shaped \cup NewDevs
           phase == lim.releasing
           releasing == [s \in Slots |->
             CASE s \in Unwanted \ Deleted /\ phase[s] = "no" -> "since"
               [] s \in Unwanted \ Deleted /\ phase[s] # "no" -> phase[s]
               [] OTHER -> "no"]
<1>1. lim \in Limiter /\ job.scan \in SUBSET Devs
      BY DEF RateTypes, Job
<1>2. slots \in [Owners -> SlotOrNone]
  <2>1. 0 \in SlotOrNone
        BY DEF SlotOrNone
  <2> QED BY <2>1, SlotOfFacts
<1>3. shaped \in SUBSET Devs
  <2>1. NewDevs \subseteq Devs
        BY <1>1 DEF NewDevs
  <2> QED BY <1>1, <2>1 DEF Limiter
<1>4. releasing \in [Slots -> {"no", "since", "over"}]
  <2>1. \A s \in Slots : phase[s] \in {"no", "since", "over"}
        BY <1>1 DEF Limiter
  <2>2. \A s \in Slots : releasing[s] \in {"no", "since", phase[s]}
        OBVIOUS
  <2> QED BY <2>1, <2>2
<1>5. NewClasses \in [Slots -> Nat] /\ NewFilters \in FilterTable
      BY BatchTypes
<1>6. ASSUME NEW o1 \in Owners, NEW o2 \in Owners, slots[o1] = slots[o2], slots[o1] # 0
      PROVE  o1 = o2
  <2>1. SlotOf[o1] = SlotOf[o2] /\ SlotOf[o1] # 0
        BY <1>6
  <2> QED BY <2>1, SlotOfFacts
<1>7. ASSUME NEW d \in Devs, NEW p \in Ports, NewFilters[d][p] # 0
      PROVE  d \in shaped
  <2>1. CASE d \notin shaped
    <3>1. NewFilters[d][p] = KeptFilters[d][p] /\ KeptFilters[d][p] \in {0, lim.filters[d][p]}
          BY <2>1 DEF NewFilters, KeptFilters
    <3>2. lim.filters[d][p] # 0
          BY <1>7, <3>1
    <3> QED BY <3>2 DEF SlotsInv
  <2> QED BY <2>1
<1>8. Synced = [lim EXCEPT !.slots = slots, !.classes = NewClasses, !.shaped = shaped,
                           !.filters = NewFilters, !.releasing = releasing]
      BY DEF Synced
<1> HIDE DEF slots, shaped, releasing
<1>9. /\ Synced \in Limiter /\ Synced.known = lim.known /\ Synced.active = lim.active
      /\ Synced.classes = NewClasses /\ Synced.filters = NewFilters
      /\ Synced.slots = slots /\ Synced.shaped = shaped
      BY <1>1, <1>2, <1>3, <1>4, <1>5, <1>8 DEF Limiter
<1> QED BY <1>6, <1>7, <1>9

\* It also names the users of the pass when the batch got through.
LEMMA OwnersUpdate ==
    ASSUME NEW l \in Limiter, NEW o \in Rates
    PROVE  LET new == [l EXCEPT !.owners = o]
           IN  /\ new \in Limiter /\ new.known = l.known /\ new.active = l.active
               /\ new.owners = o /\ new.classes = l.classes /\ new.filters = l.filters
               /\ new.slots = l.slots /\ new.shaped = l.shaped
BY DEF Limiter

LEMMA ExistingType ==
    ASSUME NEW f \in FilterTable
    PROVE  Existing(f) \in FilterTable
BY EmptyTypes DEF Existing, FilterTable, NoPorts

\* A batch that stopped leaves a kernel of its own.
LEMMA StoppedFacts ==
    ASSUME RateTypes, SlotsInv, SlotsSuffice, NEW steps \in 1 .. 3, NEW devs \in SUBSET Devs
    PROVE  Stopped(steps, devs) \in Kernel /\ Stopped(steps, devs).ifb = kernel.ifb
<1> DEFINE old == kernel.filters
           mix(new, prev) ==
             Existing([d \in Devs |-> IF d \in devs THEN new[d] ELSE prev[d]])
           classes == IF steps >= 2 /\ kernel.ifb # "other" THEN NewClasses ELSE kernel.classes
           filters == CASE steps = 1 -> mix(KeptFilters, old)
                        [] steps = 2 -> Existing(KeptFilters)
                        [] steps = 3 -> mix(NewFilters, KeptFilters)
<1>1. kernel \in Kernel /\ kernel.classes \in [Slots -> Nat] /\ old \in FilterTable
      BY DEF RateTypes, Kernel
<1>2. KeptFilters \in FilterTable /\ NewFilters \in FilterTable /\ NewClasses \in [Slots -> Nat]
      BY BatchTypes
<1>3. Stopped(steps, devs) = [kernel EXCEPT !.classes = classes, !.filters = filters]
      BY DEF Stopped
<1>4. ASSUME NEW new \in FilterTable, NEW prev \in FilterTable
      PROVE  mix(new, prev) \in FilterTable
  <2>1. [d \in Devs |-> IF d \in devs THEN new[d] ELSE prev[d]] \in FilterTable
        BY DEF FilterTable
  <2> HIDE DEF FilterTable
  <2> QED BY <2>1, ExistingType
<1>5. classes \in [Slots -> Nat]
      BY <1>1, <1>2
<1> HIDE DEF mix, classes
<1>6. filters \in FilterTable
  <2>1. steps = 1 \/ steps = 2 \/ steps = 3
        OBVIOUS
  <2>2. /\ mix(KeptFilters, old) \in FilterTable /\ Existing(KeptFilters) \in FilterTable
        /\ mix(NewFilters, KeptFilters) \in FilterTable
        BY <1>1, <1>2, <1>4, ExistingType
  <2> QED BY <2>1, <2>2
<1> HIDE DEF filters
<1> QED BY <1>1, <1>3, <1>5, <1>6 DEF Kernel

\* The batch got through: the kernel is as recorded.
LEMMA BatchInv ==
    ASSUME RateInv, UNCHANGED around, job.at = "batch", SlotsSuffice, NEW l, Marked(l, lim'),
           l = [Synced EXCEPT !.owners = job.owners],
           kernel' = [kernel EXCEPT !.classes = NewClasses, !.filters = Existing(NewFilters)],
           job' \in Job, Funded(job'.owners),
           \/ job'.at = "filters" /\ job'.then = "done"
           \/ /\ job'.at = "idle" /\ job'.scan = job.scan
              /\ lim'.failure = "none" /\ rates' = OwnersOf(job.owners)
    PROVE  RateInv'
<1>1. /\ RateTypes /\ OrderInv /\ SlotsInv /\ RecordInv
      BY DEF RateInv
<1>2. /\ lim.known /\ lim.active /\ kernel.ifb \notin {"none", "half"}
      BY <1>1 DEF OrderInv
<1>3. kernel \in Kernel /\ job.owners \in Rates /\ job.scan \in SUBSET Devs /\ net' = net
      BY <1>1 DEF RateTypes, Job, around
<1>4. NewFilters \in FilterTable /\ NewClasses \in [Slots -> Nat]
      BY <1>1, BatchTypes
<1>5. /\ kernel' \in Kernel /\ kernel'.ifb = kernel.ifb /\ kernel'.classes = NewClasses
      /\ kernel'.filters = Existing(NewFilters)
  <2>1. Existing(NewFilters) \in FilterTable
        BY <1>4, ExistingType
  <2>2. LET new == [kernel EXCEPT !.classes = NewClasses, !.filters = Existing(NewFilters)]
        IN  /\ new \in Kernel /\ new.ifb = kernel.ifb /\ new.classes = NewClasses
            /\ new.filters = Existing(NewFilters)
        BY <1>3, <1>4, <2>1 DEF Kernel
  <2> QED BY <2>2
<1>6. /\ lim' \in Limiter /\ lim'.known = lim.known /\ lim'.active = lim.active
      /\ lim'.owners = job.owners /\ lim'.classes = NewClasses /\ lim'.filters = NewFilters
      /\ lim'.slots = Synced.slots /\ lim'.shaped = Synced.shaped
  <2>1. /\ Synced \in Limiter /\ Synced.known = lim.known /\ Synced.active = lim.active
        /\ Synced.classes = NewClasses /\ Synced.filters = NewFilters
        BY <1>1, SyncedFacts
  <2>2. /\ l.known = Synced.known /\ l.active = Synced.active
        /\ l.owners = job.owners /\ l.classes = Synced.classes /\ l.filters = Synced.filters
        /\ l.slots = Synced.slots /\ l.shaped = Synced.shaped
        BY <1>3, <2>1, OwnersUpdate
  <2> QED BY <2>1, <2>2 DEF Marked
<1>7. RateTypes'
      BY <1>1, <1>5, <1>6, TypesKept
<1>8. OrderInv'
      BY <1>2, <1>5, <1>6 DEF OrderInv, NoRedirectIntoNothing, At, Filtered
<1>9. SlotsInv'
  <2>1. /\ \A o1, o2 \in Owners :
             Synced.slots[o1] = Synced.slots[o2] /\ Synced.slots[o1] # 0 => o1 = o2
        /\ \A d \in Devs, p \in Ports : Synced.filters[d][p] # 0 => d \in Synced.shaped
        /\ Synced.filters = NewFilters
        BY <1>1, SyncedFacts
  <2> QED BY <1>6, <2>1 DEF SlotsInv
<1>10. RecordInv'
  <2>1. \A d \in Devs : kernel'.filters[d] = IF net'[d] = "gone" THEN NoPorts ELSE lim'.filters[d]
        BY <1>3, <1>5, <1>6 DEF Existing, NoPorts
  <2> QED BY <1>2, <1>5, <1>6, <2>1 DEF RecordInv
<1>11. RestInv'
  <2>1. Enforced(job.scan, job.owners, NewClasses, NewFilters)
        BY <1>1, BatchEnforces
  <2>2. CASE job'.at = "filters"
        BY <2>2 DEF RestInv, At
  <2>3. CASE /\ job'.at = "idle" /\ job'.scan = job.scan
             /\ lim'.failure = "none" /\ rates' = OwnersOf(job.owners)
    <3>1. Enforced(job'.scan, lim'.owners, lim'.classes, lim'.filters)
          BY <1>6, <2>1, <2>3
    <3>2. lim'.known /\ rates' = OwnersOf(lim'.owners)
          BY <1>2, <1>6, <2>3
    <3> QED BY <3>1, <3>2 DEF RestInv, Enforced, OwnersOf
  <2> QED BY <2>2, <2>3
<1> QED BY <1>7, <1>8, <1>9, <1>10, <1>11 DEF RateInv

\* It stopped: the record is ahead of the kernel, and the pass removes all.
LEMMA StoppedInv ==
    ASSUME RateInv, UNCHANGED around, job.at = "batch", SlotsSuffice, lim' = Synced,
           NEW steps \in 1 .. 3, NEW devs \in SUBSET Devs, kernel' = Stopped(steps, devs),
           job' = [job EXCEPT !.at = "filters", !.then = "fail"]
    PROVE  RateInv'
<1>1. /\ RateTypes /\ OrderInv /\ SlotsInv /\ RecordInv
      BY DEF RateInv
<1>2. /\ lim.known /\ lim.active /\ kernel.ifb \notin {"none", "half"}
      BY <1>1 DEF OrderInv
<1>3. job \in Job /\ Funded(job.owners)
      BY <1>1 DEF RateTypes
<1>4. job' \in Job /\ job'.at = "filters" /\ job'.then = "fail" /\ job'.owners = job.owners
  <2>1. "filters" \in Step /\ "fail" \in Purpose
        BY Names
  <2>2. LET new == [job EXCEPT !.at = "filters", !.then = "fail"]
        IN  new \in Job /\ new.at = "filters" /\ new.owners = job.owners /\ new.then = "fail"
        BY <1>3, <2>1 DEF Job
  <2> QED BY <2>2
<1>5. kernel' \in Kernel /\ kernel'.ifb = kernel.ifb
      BY <1>1, StoppedFacts
<1>6. /\ lim' \in Limiter /\ lim'.known = lim.known /\ lim'.active = lim.active
      BY <1>1, SyncedFacts
<1>7. RateTypes'
      BY <1>1, <1>3, <1>4, <1>5, <1>6, TypesKept
<1>8. OrderInv'
      BY <1>2, <1>4, <1>5, <1>6 DEF OrderInv, NoRedirectIntoNothing, At, Filtered
<1>9. SlotsInv'
  <2>1. /\ \A o1, o2 \in Owners :
             Synced.slots[o1] = Synced.slots[o2] /\ Synced.slots[o1] # 0 => o1 = o2
        /\ \A d \in Devs, p \in Ports : Synced.filters[d][p] # 0 => d \in Synced.shaped
        BY <1>1, SyncedFacts
  <2> QED BY <2>1 DEF SlotsInv
<1>10. RecordInv'
       BY <1>2, <1>4, <1>5, <1>6 DEF RecordInv
<1>11. RestInv'
       BY <1>4 DEF RestInv, At
<1> QED BY <1>7, <1>8, <1>9, <1>10, <1>11 DEF RateInv

LEMMA RunBatchInv ==
    ASSUME RateInv, RunBatch
    PROVE  RateInv'
<1> DEFINE synced == [Synced EXCEPT !.owners = job.owners]
<1>1. RateTypes /\ SlotsInv /\ job.at = "batch" /\ SlotsSuffice /\ UNCHANGED around
      BY DEF RateInv, RunBatch, At, NoPlan
<1>2. /\ job \in Job /\ Funded(job.owners) /\ job.owners \in Rates /\ job.scan \in SUBSET Devs
      BY <1>1 DEF RateTypes, Job
<1>3. synced \in Limiter
  <2>1. Synced \in Limiter
        BY <1>1, SyncedFacts
  <2> QED BY <1>2, <2>1, OwnersUpdate
<1>4. CASE /\ kernel' = [kernel EXCEPT !.classes = NewClasses, !.filters = Existing(NewFilters)]
           /\ lim' = synced
           /\ job' = [job EXCEPT !.at = "filters", !.then = "done"]
  <2>1. "filters" \in Step /\ "done" \in Purpose
        BY Names
  <2>2. LET new == [job EXCEPT !.at = "filters", !.then = "done"]
        IN  new \in Job /\ new.at = "filters" /\ new.owners = job.owners /\ new.then = "done"
        BY <1>2, <2>1 DEF Job
  <2>3. job' \in Job /\ Funded(job'.owners) /\ job'.at = "filters" /\ job'.then = "done"
        BY <1>2, <1>4, <2>2
  <2>4. Marked(synced, lim')
        BY <1>3, <1>4 DEF Marked
  <2> HIDE DEF Marked
  <2> QED BY <1>1, <1>4, <2>3, <2>4, BatchInv
<1>5. CASE /\ kernel' = [kernel EXCEPT !.classes = NewClasses, !.filters = Existing(NewFilters)]
           /\ Succeed(synced, job.scan)
  <2>1. /\ Marked(synced, lim') /\ lim'.failure = "none" /\ rates' = OwnersOf(job.owners)
        /\ job' \in Job /\ job'.at = "idle" /\ job'.scan = job.scan /\ Funded(job'.owners)
        BY <1>1, <1>2, <1>3, <1>5, SucceedFacts
  <2> QED BY <1>1, <1>5, <2>1, BatchInv
<1>6. CASE /\ \E steps \in 1 .. 3, devs \in SUBSET Devs : kernel' = Stopped(steps, devs)
           /\ lim' = Synced
           /\ job' = [job EXCEPT !.at = "filters", !.then = "fail"]
      BY <1>1, <1>6, StoppedInv
<1> QED BY <1>4, <1>5, <1>6 DEF RunBatch

-----------------------------------------------------------------------------
(* Around the limiter. *)

\* The kernel and the limiter stay as they are.
LEMMA AsideStep ==
    ASSUME RateInv, UNCHANGED <<net, kernel, lim, job, rates>>, RateTypes'
    PROVE  RateInv'
<1>1. OrderInv'
      BY DEF RateInv, OrderInv, NoRedirectIntoNothing, At, Filtered
<1>2. SlotsInv'
      BY DEF RateInv, SlotsInv
<1>3. RecordInv'
      BY DEF RateInv, RecordInv
<1>4. RestInv'
      BY DEF RateInv, RestInv, At, Enforced, OwnersOf
<1> QED BY <1>1, <1>2, <1>3, <1>4 DEF RateInv

LEMMA BudgetInv ==
    ASSUME RateInv, Budget
    PROVE  RateInv'
<1>1. RateTypes /\ UNCHANGED <<node, net, kernel, lim, job, rates>>
      BY DEF RateInv, Budget
<1>2. BudgetTypes'
      BY <1>1, BudgetStepTypes DEF Budget, RateTypes
<1>3. RateTypes'
      BY <1>1, <1>2 DEF RateTypes, Funded
<1> QED BY <1>1, <1>3, AsideStep

LEMMA NodeMovesInv ==
    ASSUME RateInv, NodeMoves
    PROVE  RateInv'
<1>1. RateTypes /\ UNCHANGED <<budgetVars, net, kernel, lim, job, rates>>
      BY DEF RateInv, NodeMoves
<1>2. node' \in [Ports -> Owners \cup {None}]
      BY DEF RateInv, RateTypes, NodeMoves
<1>3. RateTypes'
      BY <1>1, <1>2 DEF RateTypes, BudgetTypes, budgetVars, Funded
<1> QED BY <1>1, <1>3, AsideStep

\* A device that is gone takes its filters with it, and stays gone.
LEMMA DeviceChangesInv ==
    ASSUME RateInv, DeviceChanges
    PROVE  RateInv'
<1>1. /\ RateTypes /\ OrderInv /\ SlotsInv /\ RecordInv /\ RestInv
      /\ UNCHANGED <<budgetVars, node, lim, job, rates>>
      BY DEF RateInv, DeviceChanges
<1>2. /\ kernel \in Kernel /\ kernel.filters \in FilterTable
      /\ net \in [Devs -> {"plain", "chosen", "taken", "gone"}]
      BY <1>1 DEF RateTypes, Kernel
<1>3. PICK d0 \in Devs, to \in {"plain", "chosen", "gone"} :
        /\ net[d0] # "gone" /\ net' = [net EXCEPT ![d0] = to]
        /\ kernel' = IF to = "gone"
                     THEN [kernel EXCEPT !.filters[d0] = [p \in Ports |-> 0]] ELSE kernel
      BY DEF DeviceChanges
<1>4. /\ net' \in [Devs -> {"plain", "chosen", "taken", "gone"}]
      /\ net'[d0] = to /\ \A d \in Devs : d # d0 => net'[d] = net[d]
      BY <1>2, <1>3
<1>5. /\ kernel' \in Kernel /\ kernel'.ifb = kernel.ifb /\ kernel'.classes = kernel.classes
      /\ \A d \in Devs : kernel'.filters[d] = IF d = d0 /\ to = "gone" THEN NoPorts
                                              ELSE kernel.filters[d]
  <2> DEFINE f == [kernel.filters EXCEPT ![d0] = NoPorts]
  <2>1. f \in FilterTable
        BY <1>2, EmptyTypes DEF FilterTable
  <2>2. \A d \in Devs : f[d] = IF d = d0 THEN NoPorts ELSE kernel.filters[d]
        BY <1>2 DEF FilterTable
  <2>3. CASE to = "gone"
    <3>1. kernel' = [kernel EXCEPT !.filters = f]
          BY <1>2, <1>3, <2>3 DEF Kernel, NoPorts
    <3> HIDE DEF f
    <3>2. /\ kernel' \in Kernel /\ kernel'.ifb = kernel.ifb /\ kernel'.classes = kernel.classes
          /\ kernel'.filters = f
          BY <1>2, <2>1, <3>1, FiltersUpdate
    <3> QED BY <2>2, <2>3, <3>2
  <2>4. CASE to # "gone"
        BY <1>2, <1>3, <2>4
  <2> QED BY <2>3, <2>4
<1>6. Filtered(kernel'.filters) \subseteq Filtered(kernel.filters)
      BY <1>5 DEF Filtered, NoPorts
<1>7. RateTypes'
      BY <1>1, <1>4, <1>5 DEF RateTypes, BudgetTypes, budgetVars, Funded
<1>8. OrderInv'
  <2>1. Filtered(kernel'.filters) # {} => kernel'.ifb \notin {"none", "half"}
        BY <1>1, <1>5, <1>6 DEF OrderInv, NoRedirectIntoNothing
  <2>2. /\ job'.at \in {"links", "setup"} => Filtered(kernel'.filters) = {}
        /\ lim'.known /\ ~lim'.active => Filtered(kernel'.filters) = {}
        BY <1>1, <1>6 DEF OrderInv
  <2> QED BY <1>1, <1>5, <2>1, <2>2 DEF OrderInv, NoRedirectIntoNothing, At, Filtered
<1>9. SlotsInv'
      BY <1>1 DEF SlotsInv
<1>10. RecordInv'
  <2>1. ASSUME NEW d \in Devs,
               kernel.filters[d] = IF net[d] = "gone" THEN NoPorts ELSE lim.filters[d]
        PROVE  kernel'.filters[d] = IF net'[d] = "gone" THEN NoPorts ELSE lim.filters[d]
        BY <1>3, <1>4, <1>5, <2>1
  <2>2. lim' = lim /\ job' = job
        BY <1>1
  <2> QED BY <1>1, <1>5, <2>1, <2>2 DEF RecordInv
<1>11. RestInv'
       BY <1>1 DEF RestInv, At, Enforced, OwnersOf
<1> QED BY <1>7, <1>8, <1>9, <1>10, <1>11 DEF RateInv

\* An IFB that somebody took down or replaced is still there.
LEMMA SomebodyMeddlesInv ==
    ASSUME RateInv, SomebodyMeddles
    PROVE  RateInv'
<1>1. /\ RateTypes /\ OrderInv /\ SlotsInv /\ RecordInv /\ RestInv
      /\ UNCHANGED <<around, lim, job, rates>>
      BY DEF RateInv, SomebodyMeddles
<1>2. kernel \in Kernel /\ kernel.ifb = "up"
      BY <1>1 DEF RateTypes, SomebodyMeddles
<1>3. kernel' \in Kernel /\ kernel'.ifb \in {"cut", "other"} /\ kernel'.filters = kernel.filters
  <2>1. CASE kernel' = [kernel EXCEPT !.ifb = "cut"]
        BY <1>2, <2>1, IfbUpdate
  <2>2. CASE kernel' = [kernel EXCEPT !.ifb = "other", !.classes = NoClasses]
        BY <1>2, <2>2, LinksUpdate, Zenon
  <2> QED BY <2>1, <2>2 DEF SomebodyMeddles
<1>4. RateTypes'
      BY <1>1, <1>3, TypesKept DEF RateTypes
<1>5. OrderInv'
      BY <1>1, <1>3 DEF OrderInv, NoRedirectIntoNothing, At, Filtered
<1>6. SlotsInv'
      BY <1>1 DEF SlotsInv
<1>7. RecordInv'
      BY <1>1, <1>2, <1>3 DEF RecordInv, around
<1>8. RestInv'
      BY <1>1 DEF RestInv, At, Enforced, OwnersOf
<1> QED BY <1>4, <1>5, <1>6, <1>7, <1>8 DEF RateInv

\* A Helper that starts anew knows nothing.
LEMMA HelperDiesInv ==
    ASSUME RateInv, HelperDies
    PROVE  RateInv'
<1>1. /\ RateTypes /\ OrderInv /\ RecordInv
      /\ lim' = Record(FALSE) /\ job' = Idle /\ held' = NoBudgets
      /\ UNCHANGED <<sent, entry, node, net, kernel>>
      BY DEF RateInv, HelperDies
<1>2. /\ lim' \in Limiter /\ lim'.known = FALSE /\ lim'.active = FALSE
      /\ lim'.slots = NoRates /\ lim'.filters = NoFilters
      BY <1>1, RecordType
<1>3. job' \in Job /\ job'.at = "idle" /\ Funded(job'.owners)
      BY <1>1, EmptyTypes DEF Idle
<1>4. RateTypes'
      BY <1>1, <1>2, <1>3, NoBudgetsType DEF RateTypes, BudgetTypes, Funded
<1>5. OrderInv'
      BY <1>1, <1>2, <1>3 DEF OrderInv, NoRedirectIntoNothing, At, Filtered
<1>6. SlotsInv'
      BY <1>2 DEF SlotsInv, NoRates, NoFilters
<1>7. RecordInv'
      BY <1>1, <1>2 DEF RecordInv
<1>8. RestInv'
      BY <1>2 DEF RestInv
<1> QED BY <1>4, <1>5, <1>6, <1>7, <1>8 DEF RateInv

LEMMA DrainPassesInv ==
    ASSUME RateInv, DrainPasses
    PROVE  RateInv'
<1> DEFINE phase == lim.releasing
           new == [s \in Slots |-> IF phase[s] = "since" THEN "over" ELSE phase[s]]
<1>1. UNCHANGED <<around, kernel, job, rates>> /\ lim \in Limiter
      BY DEF RateInv, RateTypes, DrainPasses
<1>2. lim' = [lim EXCEPT !.releasing = new]
      BY DEF DrainPasses
<1>3. new \in [Slots -> {"no", "since", "over"}]
      BY <1>1 DEF Limiter
<1> HIDE DEF new
<1>4. Marked(lim, lim') /\ lim'.failure = lim.failure
      BY <1>1, <1>2, <1>3 DEF Marked, Limiter
<1> QED BY <1>1, <1>4, NoteStep DEF RateInv, RestInv, Marked

LEMMA MinutePassesInv ==
    ASSUME RateInv, MinutePasses
    PROVE  RateInv'
<1> DEFINE due == lim.due \/ lim.active
           failure == IF lim.failure = "wait" THEN "due" ELSE lim.failure
<1>1. UNCHANGED <<around, kernel, job, rates>> /\ lim \in Limiter
      BY DEF RateInv, RateTypes, MinutePasses
<1>2. lim' = [lim EXCEPT !.due = due, !.failure = failure]
      BY DEF MinutePasses
<1>3. due \in BOOLEAN /\ failure \in {"none", "wait", "due"}
      BY <1>1 DEF Limiter
<1>4. failure = "none" => lim.failure = "none"
      OBVIOUS
<1> HIDE DEF due, failure
<1>5. Marked(lim, lim') /\ lim'.failure = failure
      BY <1>1, <1>2, <1>3 DEF Marked, Limiter
<1> QED BY <1>1, <1>4, <1>5, NoteStep DEF RateInv, RestInv, Marked

-----------------------------------------------------------------------------
(* The theorems about the rates. *)

LEMMA RateInit == Init => RateInv
<1> SUFFICES ASSUME Init PROVE RateInv
    OBVIOUS
<1>1. entry = NoBudgets /\ held = NoBudgets /\ kernel = EmptyKernel
      BY DEF Init, BudgetsInit
<1>2. PICK f \in First : node = f.node /\ net = f.net
      BY DEF Init
<1>3. f \in [node : [Ports -> Owners \cup {None}], net : [Devs -> {"plain", "chosen", "taken"}]]
      BY FirstIsAMachine
<1>4. node \in [Ports -> Owners \cup {None}] /\ net \in [Devs -> {"plain", "chosen", "taken", "gone"}]
      BY <1>2, <1>3
<1>5. /\ lim \in Limiter /\ lim.known = FALSE /\ lim.active = FALSE
      /\ lim.slots = NoRates /\ lim.filters = NoFilters
      BY RecordType DEF Init
<1>6. job \in Job /\ job.at = "idle" /\ Funded(job.owners)
      BY EmptyTypes DEF Init, Idle
<1>7. /\ kernel \in Kernel /\ kernel.classes = NoClasses
      /\ Filtered(kernel.filters) = {}
      BY <1>1, EmptyTypes DEF EmptyKernel, Filtered, NoFilters
<1>8. RateTypes
      BY <1>1, <1>4, <1>5, <1>6, <1>7, NoBudgetsType DEF RateTypes, BudgetTypes
<1>9. OrderInv
      BY <1>5, <1>6, <1>7 DEF OrderInv, NoRedirectIntoNothing, At
<1>10. SlotsInv
       BY <1>5 DEF SlotsInv, NoRates, NoFilters
<1>11. RecordInv
       BY <1>5, <1>7 DEF RecordInv
<1>12. RestInv
       BY <1>5 DEF RestInv
<1> QED BY <1>8, <1>9, <1>10, <1>11, <1>12 DEF RateInv

\* Every step of the limiter, and of what is around it, keeps the invariant.
LEMMA RateStep == RateInv /\ [Next]_vars => RateInv'
<1> SUFFICES ASSUME RateInv, [Next]_vars PROVE RateInv'
    OBVIOUS
<1>1. CASE Budget
      BY <1>1, BudgetInv
<1>2. CASE PassStep
      BY <1>2, PassRefusedInv, PassClearsInv, PassHasNothingInv, PassIsSteadyInv,
         PassReconcilesInv, RemoveFiltersInv, RemoveLinksInv, ToolFailsInv, ScanDevicesInv,
         SetUpInv, ClearDevicesInv, RefuseBatchInv, RunBatchInv DEF PassStep
<1>3. CASE NodeMoves
      BY <1>3, NodeMovesInv
<1>4. CASE DeviceChanges
      BY <1>4, DeviceChangesInv
<1>5. CASE SomebodyMeddles
      BY <1>5, SomebodyMeddlesInv
<1>6. CASE HelperDies
      BY <1>6, HelperDiesInv
<1>7. CASE DrainPasses
      BY <1>7, DrainPassesInv
<1>8. CASE MinutePasses
      BY <1>8, MinutePassesInv
<1>9. CASE UNCHANGED vars
  <2>1. UNCHANGED <<around, net, kernel, lim, job, rates>>
        BY <1>9 DEF vars, around, budgetVars
  <2>2. RateTypes'
        BY <2>1, TypesKept DEF RateInv, RateTypes
  <2> QED BY <2>1, <2>2, AsideStep
<1> QED BY <1>1, <1>2, <1>3, <1>4, <1>5, <1>6, <1>7, <1>8, <1>9 DEF Next

\* The record of the limiter is true of the kernel whenever a pass relies on it,
\* and filters are only there while the IFBs are (flvx_rate.go:385-462, 544-703).
THEOREM RatesAreSound == Spec => []RateInv
BY RateInit, RateStep, PTL DEF Spec

\* No filter ever leads to an IFB that the Helper has removed or not finished
\* (flvx_rate.go:385-462), whatever fails or dies in between.
THEOREM NoRedirect == Spec => []NoRedirectIntoNothing
<1>1. RateInv => NoRedirectIntoNothing
      BY DEF RateInv, OrderInv
<1> QED BY <1>1, RatesAreSound, PTL

\* The kernel enforces the rates that the last pass reported
\* (flvx_rate.go:544-703, 815-840), for every number of users and devices.
THEOREM RatesHold == Spec => []RatesInForce
<1>1. RateInv => RatesInForce
  <2> SUFFICES ASSUME RateInv, At("idle"), lim.active, lim.failure = "none", kernel.ifb = "up",
                      NEW d \in job.scan, NEW p \in Ports
               PROVE  LET slot == kernel.filters[d][p]
                          owner == lim.owners.port[p]
                          rate == IF slot = 0 THEN 0 ELSE kernel.classes[slot]
                      IN  IF owner \in rates
                          THEN net[d] = "gone" \/ rate = lim.owners.rate[owner]
                          ELSE rate \in {0, Unlimited}
      BY DEF RatesInForce
  <2> DEFINE owner == lim.owners.port[p]
             row == lim.filters[d]
  <2>1. d \in Devs /\ lim.known
        BY DEF RateInv, RateTypes, Job, RestInv
  <2>2. /\ kernel.classes = lim.classes
        /\ kernel.filters[d] = IF net[d] = "gone" THEN NoPorts ELSE row
        BY <2>1 DEF RateInv, RecordInv, At
  <2>3. owner \in rates <=> owner # None
        BY DEF RateInv, RestInv, OwnersOf
  <2>4. IF owner # None
        THEN row[p] # 0 /\ lim.classes[row[p]] = lim.owners.rate[owner]
        ELSE row[p] = 0 \/ lim.classes[row[p]] \in {0, Unlimited}
        BY DEF RateInv, RestInv, Enforced
  <2>5. NoPorts[p] = 0
        BY DEF NoPorts
  <2> HIDE DEF owner, row
  <2>6. CASE net[d] = "gone"
    <3>1. kernel.filters[d][p] = 0
          BY <2>2, <2>5, <2>6
    <3> QED BY <2>6, <3>1 DEF owner
  <2>7. CASE net[d] # "gone"
    <3>1. kernel.filters[d][p] = row[p]
          BY <2>2, <2>7
    <3> QED BY <2>2, <2>3, <2>4, <3>1 DEF owner
  <2> QED BY <2>6, <2>7
<1> QED BY <1>1, RatesAreSound, PTL

-----------------------------------------------------------------------------
(* The connection limits. *)

LeaseTable == [Lease -> Nat]
Live == [current: Nat, counted: Nat, relayConns: Nat]
Group == [mapped: BOOLEAN, limit: Nat \cup {None}, blocked: BOOLEAN,
          budget: Nat \cup {None}, relays: Nat, settled: BOOLEAN]

\* The limit of a settled group leaves room for the leases it does not count.
Covers(g, live) ==
    /\ g.settled => g.mapped /\ g.limit \in Nat \ {0} /\ g.budget \in Nat
    /\ g.settled /\ g.limit # 1 => g.limit + Uncounted(live) <= g.budget + g.relays

\* Since the snapshot of a pass no lease was admitted that a group of its time
\* does not count.
Seen(g, live, snap) == g.mapped => Uncounted(live) + snap.counted <= snap.current

GroupsInv ==
    /\ BudgetTypes
    /\ leases \in [Owners -> LeaseTable] /\ group \in [Owners -> Group]
    /\ snapshot # <<>> => snapshot \in [Owners -> Live]
    /\ \A o \in Owners : Covers(group[o], leases[o])
    /\ snapshot # <<>> => \A o \in Owners : Seen(group[o], leases[o], snapshot[o])

LEMMA LeaseKinds ==
    /\ \A from \in {"direct", "relay"}, c \in BOOLEAN : <<from, c>> \in Lease
    /\ <<"direct", TRUE>> \in Lease /\ <<"relay", TRUE>> \in Lease
    /\ <<"direct", FALSE>> \in Lease /\ <<"relay", FALSE>> \in Lease
    /\ \A k \in Lease : k \in {<<"direct", TRUE>>, <<"relay", TRUE>>,
                               <<"direct", FALSE>>, <<"relay", FALSE>>}
<1>1. \A from \in {"direct", "relay"}, c \in BOOLEAN : <<from, c>> \in Lease
      BY DEF Lease
<1>2. TRUE \in BOOLEAN /\ FALSE \in BOOLEAN
      OBVIOUS
<1>3. ASSUME NEW k \in Lease
      PROVE  k \in {<<"direct", TRUE>>, <<"relay", TRUE>>, <<"direct", FALSE>>, <<"relay", FALSE>>}
  <2>1. PICK from \in {"direct", "relay"}, c \in BOOLEAN : k = <<from, c>>
        BY DEF Lease
  <2>2. c = TRUE \/ c = FALSE
        OBVIOUS
  <2> QED BY <2>1, <2>2, Zenon
<1> QED BY <1>1, <1>2, <1>3, Zenon

\* Counts are numbers.
LEMMA LiveTypes ==
    ASSUME NEW live \in LeaseTable
    PROVE  /\ Counted(live) \in Nat /\ Uncounted(live) \in Nat
           /\ Current(live) \in Nat /\ RelayConns(live) \in Nat
           /\ Current(live) = Counted(live) + Uncounted(live)
           /\ Lives(live) \in Live
<1>1. \A k \in Lease : live[k] \in Nat
      BY DEF LeaseTable
<1>2. /\ live[<<"direct", TRUE>>] \in Nat /\ live[<<"relay", TRUE>>] \in Nat
      /\ live[<<"direct", FALSE>>] \in Nat /\ live[<<"relay", FALSE>>] \in Nat
      BY <1>1, LeaseKinds
<1>3. /\ Counted(live) \in Nat /\ Uncounted(live) \in Nat /\ RelayConns(live) \in Nat
      BY <1>2 DEF Counted, Uncounted, RelayConns
<1>4. Current(live) = Counted(live) + Uncounted(live)
      BY DEF Current
<1> QED BY <1>3, <1>4 DEF Lives, Live

LEMMA NoLeasesType ==
    NoLeases \in LeaseTable /\ Uncounted(NoLeases) = 0 /\ Current(NoLeases) = 0
<1>1. \A k \in Lease : NoLeases[k] = 0
      BY DEF NoLeases
<1>2. /\ NoLeases[<<"direct", TRUE>>] = 0 /\ NoLeases[<<"relay", TRUE>>] = 0
      /\ NoLeases[<<"direct", FALSE>>] = 0 /\ NoLeases[<<"relay", FALSE>>] = 0
      BY <1>1, LeaseKinds
<1>3. NoLeases \in LeaseTable
      BY DEF NoLeases, LeaseTable
<1> QED BY <1>2, <1>3 DEF Uncounted, Counted, Current

LEMMA NoGroupType == NoGroup \in Group /\ ~NoGroup.mapped /\ ~NoGroup.settled
BY DEF NoGroup, Group

\* One more lease.
LEMMA OneMore ==
    ASSUME NEW live \in LeaseTable, NEW k \in Lease,
           NEW new, new = [live EXCEPT ![k] = @ + 1]
    PROVE  /\ new \in LeaseTable /\ Current(new) = Current(live) + 1
           /\ k \notin {<<"direct", FALSE>>, <<"relay", FALSE>>} => Uncounted(new) = Uncounted(live)
<1>1. \A x \in Lease : live[x] \in Nat
      BY DEF LeaseTable
<1>2. new \in LeaseTable
  <2>1. live[k] + 1 \in Nat
        BY <1>1
  <2> QED BY <1>1, <2>1 DEF LeaseTable
<1>3. \A x \in Lease : new[x] = IF x = k THEN live[x] + 1 ELSE live[x]
      BY DEF LeaseTable
<1>4. /\ live[<<"direct", TRUE>>] \in Nat /\ live[<<"relay", TRUE>>] \in Nat
      /\ live[<<"direct", FALSE>>] \in Nat /\ live[<<"relay", FALSE>>] \in Nat
      BY <1>1, LeaseKinds
<1>5. /\ new[<<"direct", TRUE>>] = IF <<"direct", TRUE>> = k
                                   THEN live[<<"direct", TRUE>>] + 1 ELSE live[<<"direct", TRUE>>]
      /\ new[<<"relay", TRUE>>] = IF <<"relay", TRUE>> = k
                                  THEN live[<<"relay", TRUE>>] + 1 ELSE live[<<"relay", TRUE>>]
      /\ new[<<"direct", FALSE>>] = IF <<"direct", FALSE>> = k
                                    THEN live[<<"direct", FALSE>>] + 1 ELSE live[<<"direct", FALSE>>]
      /\ new[<<"relay", FALSE>>] = IF <<"relay", FALSE>> = k
                                   THEN live[<<"relay", FALSE>>] + 1 ELSE live[<<"relay", FALSE>>]
      BY <1>3, LeaseKinds
<1>6. k \in {<<"direct", TRUE>>, <<"relay", TRUE>>, <<"direct", FALSE>>, <<"relay", FALSE>>}
      BY LeaseKinds
<1>7. CASE k = <<"direct", TRUE>>
      BY <1>2, <1>4, <1>5, <1>7 DEF Current, Counted, Uncounted
<1>8. CASE k = <<"direct", FALSE>>
      BY <1>2, <1>4, <1>5, <1>8 DEF Current, Counted, Uncounted
<1>9. CASE k = <<"relay", TRUE>>
      BY <1>2, <1>4, <1>5, <1>9 DEF Current, Counted, Uncounted
<1>10. CASE k = <<"relay", FALSE>>
       BY <1>2, <1>4, <1>5, <1>10 DEF Current, Counted, Uncounted
<1> QED BY <1>6, <1>7, <1>8, <1>9, <1>10

\* One less.
LEMMA OneLess ==
    ASSUME NEW live \in LeaseTable, NEW k \in Lease, live[k] > 0,
           NEW new, new = [live EXCEPT ![k] = @ - 1]
    PROVE  /\ new \in LeaseTable /\ Current(new) < Current(live)
           /\ Uncounted(new) <= Uncounted(live)
<1>1. \A x \in Lease : live[x] \in Nat
      BY DEF LeaseTable
<1>2. new \in LeaseTable
  <2>1. live[k] - 1 \in Nat
        BY <1>1
  <2> QED BY <1>1, <2>1 DEF LeaseTable
<1>3. \A x \in Lease : new[x] = IF x = k THEN live[x] - 1 ELSE live[x]
      BY DEF LeaseTable
<1>4. /\ live[<<"direct", TRUE>>] \in Nat /\ live[<<"relay", TRUE>>] \in Nat
      /\ live[<<"direct", FALSE>>] \in Nat /\ live[<<"relay", FALSE>>] \in Nat
      BY <1>1, LeaseKinds
<1>5. /\ new[<<"direct", TRUE>>] = IF <<"direct", TRUE>> = k
                                   THEN live[<<"direct", TRUE>>] - 1 ELSE live[<<"direct", TRUE>>]
      /\ new[<<"relay", TRUE>>] = IF <<"relay", TRUE>> = k
                                  THEN live[<<"relay", TRUE>>] - 1 ELSE live[<<"relay", TRUE>>]
      /\ new[<<"direct", FALSE>>] = IF <<"direct", FALSE>> = k
                                    THEN live[<<"direct", FALSE>>] - 1 ELSE live[<<"direct", FALSE>>]
      /\ new[<<"relay", FALSE>>] = IF <<"relay", FALSE>> = k
                                   THEN live[<<"relay", FALSE>>] - 1 ELSE live[<<"relay", FALSE>>]
      BY <1>3, LeaseKinds
<1>6. k \in {<<"direct", TRUE>>, <<"relay", TRUE>>, <<"direct", FALSE>>, <<"relay", FALSE>>}
      BY LeaseKinds
<1>7. CASE k = <<"direct", TRUE>>
      BY <1>2, <1>4, <1>5, <1>7 DEF Current, Counted, Uncounted
<1>8. CASE k = <<"direct", FALSE>>
      BY <1>2, <1>4, <1>5, <1>8 DEF Current, Counted, Uncounted
<1>9. CASE k = <<"relay", TRUE>>
      BY <1>2, <1>4, <1>5, <1>9 DEF Current, Counted, Uncounted
<1>10. CASE k = <<"relay", FALSE>>
       BY <1>2, <1>4, <1>5, <1>10 DEF Current, Counted, Uncounted
<1> QED BY <1>6, <1>7, <1>8, <1>9, <1>10

\* What a pass makes of a budget: a limit that covers the leases not counted at
\* its snapshot, or the limit of a full user.
LEMMA UserLimitsFacts ==
    ASSUME NEW budget \in Nat \cup {None}, NEW live \in Live, NEW before \in Group,
           NEW g, g = UserLimits(budget, live, before)
    PROVE  /\ g \in Group
           /\ g.settled => /\ before.mapped /\ g.mapped
                           /\ g.limit \in Nat \ {0} /\ g.budget \in Nat
           /\ g.settled /\ g.limit # 1 =>
                /\ ~g.blocked
                /\ g.limit + live.current = g.budget + g.relays + live.counted
<1> DEFINE l == Left(budget, live)
<1>1. /\ live.current \in Nat /\ live.counted \in Nat /\ live.relayConns \in Nat
      /\ before.mapped \in BOOLEAN
      BY DEF Live, Group
<1>2. CASE budget = None
  <2>1. g = NoGroup
        BY <1>2 DEF UserLimits
  <2>2. g \in Group /\ ~g.settled
        BY <2>1, NoGroupType
  <2> QED BY <2>2
<1>3. CASE budget # None
  <2> DEFINE c == ConnLimit(budget, live)
  <2>1. budget \in Nat
        BY <1>3
  <2>2. l \in Int /\ l + live.current = budget + live.relayConns + live.counted
        BY <1>1, <2>1 DEF Left
  <2>3. c = IF l > 0 THEN [limit |-> l, blocked |-> FALSE]
            ELSE [limit |-> 1, blocked |-> live.current = 0]
        BY DEF ConnLimit
  <2> HIDE DEF l
  <2>4. /\ c.limit \in Nat \ {0} /\ c.blocked \in BOOLEAN
        /\ c.limit # 1 => c.limit = l /\ c.blocked = FALSE
    <3>1. CASE l > 0
      <4>1. c = [limit |-> l, blocked |-> FALSE]
            BY <2>3, <3>1
      <4>2. c.limit = l /\ c.blocked = FALSE
            BY <4>1
      <4>3. l \in Nat \ {0}
            BY <2>2, <3>1
      <4> QED BY <4>2, <4>3, Zenon
    <3>2. CASE ~(l > 0)
      <4>1. c = [limit |-> 1, blocked |-> live.current = 0]
            BY <2>3, <3>2
      <4>2. c.limit = 1 /\ c.blocked = (live.current = 0)
            BY <4>1
      <4> QED BY <4>2
    <3> QED BY <3>1, <3>2
  <2>5. g = [mapped |-> TRUE, limit |-> c.limit, blocked |-> c.blocked,
             budget |-> budget, relays |-> live.relayConns, settled |-> before.mapped]
        BY <1>3 DEF UserLimits
  <2> HIDE DEF c
  <2>6. g \in Group
        BY <1>1, <2>1, <2>4, <2>5 DEF Group
  <2>7. /\ g.mapped = TRUE /\ g.limit = c.limit /\ g.blocked = c.blocked
        /\ g.budget = budget /\ g.relays = live.relayConns /\ g.settled = before.mapped
        BY <2>5
  <2>8. g.settled /\ g.limit # 1 =>
          ~g.blocked /\ g.limit + live.current = g.budget + g.relays + live.counted
        BY <2>2, <2>4, <2>7
  <2>9. g.settled => before.mapped /\ g.mapped /\ g.limit \in Nat \ {0} /\ g.budget \in Nat
        BY <2>1, <2>4, <2>7
  <2> QED BY <2>6, <2>8, <2>9
<1> QED BY <1>2, <1>3

LEMMA GroupTypes ==
    ASSUME NEW g \in Group
    PROVE  /\ g.mapped \in BOOLEAN /\ g.settled \in BOOLEAN /\ g.blocked \in BOOLEAN
           /\ g.relays \in Nat
BY DEF Group

LEMMA ApplyLimitsInv ==
    ASSUME GroupsInv, ApplyLimits, UNCHANGED <<budgetVars, spent>>
    PROVE  GroupsInv'
<1>1. /\ BudgetTypes' /\ snapshot' = <<>>
      /\ leases \in [Owners -> LeaseTable] /\ group \in [Owners -> Group]
      /\ snapshot \in [Owners -> Live]
      BY DEF GroupsInv, ApplyLimits, BudgetTypes, budgetVars
<1>2. /\ group' = [o \in Owners |-> UserLimits(held.users[o], snapshot[o], group[o])]
      /\ leases' = [o \in Owners |-> IF group'[o].blocked THEN NoLeases ELSE leases[o]]
      BY DEF ApplyLimits
<1>3. \A o \in Owners : held.users[o] \in Nat \cup {None}
      BY DEF GroupsInv, BudgetTypes, Limits, Users
<1>4. ASSUME NEW o \in Owners
      PROVE  /\ group'[o] \in Group /\ leases'[o] \in LeaseTable
             /\ Covers(group'[o], leases'[o])
  <2> DEFINE g == group'[o]
             snap == snapshot[o]
  <2>1. g = UserLimits(held.users[o], snap, group[o])
        BY <1>2
  <2>2. snap \in Live /\ group[o] \in Group /\ leases[o] \in LeaseTable
        BY <1>1
  <2>3. leases'[o] = IF g.blocked THEN NoLeases ELSE leases[o]
        BY <1>2
  <2> DEFINE budget == held.users[o]
             before == group[o]
  <2>4. budget \in Nat \cup {None} /\ before \in Group
        BY <1>3, <2>2
  <2>5. g = UserLimits(budget, snap, before)
        BY <2>1
  <2> HIDE DEF g, snap, budget, before
  <2>6. /\ g \in Group
        /\ g.settled => /\ before.mapped /\ g.mapped
                        /\ g.limit \in Nat \ {0} /\ g.budget \in Nat
        /\ g.settled /\ g.limit # 1 =>
             ~g.blocked /\ g.limit + snap.current = g.budget + g.relays + snap.counted
        BY <2>2, <2>4, <2>5, UserLimitsFacts
  <2>7. leases'[o] \in LeaseTable
        BY <2>2, <2>3, NoLeasesType
  <2>8. ASSUME g.settled, g.limit # 1
        PROVE  g.limit + Uncounted(leases'[o]) <= g.budget + g.relays
    <3>1. leases'[o] = leases[o]
          BY <2>3, <2>6, <2>8
    <3>2. Uncounted(leases[o]) + snap.counted <= snap.current
          BY <2>6, <2>8 DEF GroupsInv, Seen, ApplyLimits, snap, before
    <3>3. g.limit \in Nat /\ g.budget \in Nat /\ g.relays \in Nat
          BY <2>6, <2>8, GroupTypes
    <3>4. snap.current \in Nat /\ snap.counted \in Nat
          BY <2>2 DEF Live
    <3>5. Uncounted(leases[o]) \in Nat
          BY <2>2, LiveTypes
    <3>6. g.limit + snap.current = g.budget + g.relays + snap.counted
          BY <2>6, <2>8
    <3> QED BY <3>1, <3>2, <3>3, <3>4, <3>5, <3>6
  <2>9. Covers(g, leases'[o])
        BY <2>6, <2>8 DEF Covers
  <2> QED BY <2>6, <2>7, <2>9 DEF g
<1>5. group' \in [Owners -> Group]
  <2>1. group' = [o \in Owners |-> group'[o]]
        BY <1>2
  <2> QED BY <1>4, <2>1
<1>6. leases' \in [Owners -> LeaseTable]
  <2>1. leases' = [o \in Owners |-> leases'[o]]
        BY <1>2
  <2> QED BY <1>4, <2>1
<1> QED BY <1>1, <1>4, <1>5, <1>6 DEF GroupsInv, Covers, Uncounted

\* A change of the leases of one user keeps the invariant when none is added that
\* his group does not count.
LEMMA LeasesChange ==
    ASSUME GroupsInv, UNCHANGED <<budgetVars, group, snapshot>>, NEW o \in Owners,
           NEW new \in LeaseTable, leases' = [leases EXCEPT ![o] = new],
           group[o].mapped => Uncounted(new) <= Uncounted(leases[o])
    PROVE  GroupsInv'
<1>1. /\ BudgetTypes' /\ snapshot' = snapshot /\ group' = group
      /\ leases \in [Owners -> LeaseTable] /\ group \in [Owners -> Group]
      /\ snapshot # <<>> => snapshot \in [Owners -> Live]
      BY DEF GroupsInv, BudgetTypes, budgetVars
<1>2. leases' \in [Owners -> LeaseTable]
      BY <1>1
<1>3. ASSUME NEW x \in Owners
      PROVE  /\ Covers(group[x], leases'[x])
             /\ snapshot # <<>> => Seen(group[x], leases'[x], snapshot[x])
  <2>1. Covers(group[x], leases[x]) /\ (snapshot # <<>> => Seen(group[x], leases[x], snapshot[x]))
        BY DEF GroupsInv
  <2>2. CASE x # o
    <3>1. leases'[x] = leases[x]
          BY <1>1, <2>2
    <3> QED BY <2>1, <3>1
  <2>3. CASE x = o
    <3>1. leases'[x] = new
          BY <1>1, <2>3
    <3>2. Uncounted(new) \in Nat /\ Uncounted(leases[o]) \in Nat
          BY <1>1, LiveTypes
    <3>3. Covers(group[o], new)
      <4>1. Covers(group[o], leases[o]) /\ group[o].relays \in Nat
            BY <1>1, <2>1, <2>3, GroupTypes
      <4> QED BY <3>2, <4>1 DEF Covers
    <3>4. ASSUME snapshot # <<>>
          PROVE  Seen(group[o], new, snapshot[o])
      <4>1. snapshot[o].current \in Nat /\ snapshot[o].counted \in Nat
            BY <1>1, <3>4 DEF Live
      <4> QED BY <2>1, <2>3, <3>2, <3>4, <4>1 DEF Seen
    <3> QED BY <2>3, <3>1, <3>3, <3>4
  <2> QED BY <2>2, <2>3
<1> QED BY <1>1, <1>2, <1>3 DEF GroupsInv, Covers, Seen, Uncounted

\* A lease that the Core admits is counted if the group is there.
LEMMA ConnectsFacts ==
    ASSUME GroupsInv, NEW o \in Owners, NEW from \in {"direct", "relay"}, Connects(o, from)
    PROVE  \E new \in LeaseTable :
             /\ leases' = [leases EXCEPT ![o] = new] /\ leases'[o] = new
             /\ Current(new) = Current(leases[o]) + 1
             /\ group[o].mapped => Uncounted(new) = Uncounted(leases[o])
<1> DEFINE k == <<from, group[o].mapped>>
           live == leases[o]
           new == [live EXCEPT ![k] = @ + 1]
<1>1. live \in LeaseTable /\ group[o] \in Group /\ leases \in [Owners -> LeaseTable]
      BY DEF GroupsInv
<1>2. k \in Lease
      BY <1>1, LeaseKinds, GroupTypes
<1>3. leases' = [leases EXCEPT ![o] = new]
      BY DEF Connects
<1>4. group[o].mapped => k \notin {<<"direct", FALSE>>, <<"relay", FALSE>>}
      BY <1>1, GroupTypes, Zenon
<1> HIDE DEF k, new, live
<1>5. /\ new \in LeaseTable /\ Current(new) = Current(live) + 1
      /\ k \notin {<<"direct", FALSE>>, <<"relay", FALSE>>} => Uncounted(new) = Uncounted(live)
      BY <1>1, <1>2, OneMore DEF new
<1>6. leases'[o] = new
      BY <1>1, <1>3
<1> QED BY <1>3, <1>4, <1>5, <1>6 DEF live

LEMMA EndsFacts ==
    ASSUME GroupsInv, NEW o \in Owners, NEW k \in Lease, Ends(o, k)
    PROVE  \E new \in LeaseTable :
             /\ leases' = [leases EXCEPT ![o] = new] /\ leases'[o] = new
             /\ Current(new) < Current(leases[o]) /\ Uncounted(new) <= Uncounted(leases[o])
<1> DEFINE live == leases[o]
           new == [live EXCEPT ![k] = @ - 1]
<1>1. live \in LeaseTable /\ leases \in [Owners -> LeaseTable] /\ live[k] > 0
      BY DEF GroupsInv, Ends
<1>2. leases' = [leases EXCEPT ![o] = new]
      BY DEF Ends
<1> HIDE DEF new, live
<1>3. new \in LeaseTable /\ Current(new) < Current(live) /\ Uncounted(new) <= Uncounted(live)
      BY <1>1, OneLess DEF new
<1>4. leases'[o] = new
      BY <1>1, <1>2 DEF live
<1> QED BY <1>2, <1>3, <1>4 DEF live

GroupsNext ==
    \/ BudgetStep /\ UNCHANGED groupVars
    \/ GroupStep /\ UNCHANGED <<budgetVars, spent>>

LEMMA GroupsInit == BudgetsInit /\ GroupInit => GroupsInv
<1> SUFFICES ASSUME BudgetsInit, GroupInit PROVE GroupsInv
    OBVIOUS
<1>1. BudgetTypes
      BY NoBudgetsType DEF BudgetTypes, BudgetsInit
<1>2. leases \in [Owners -> LeaseTable] /\ group \in [Owners -> Group] /\ snapshot = <<>>
      BY NoLeasesType, NoGroupType DEF GroupInit
<1>3. ASSUME NEW o \in Owners
      PROVE  Covers(group[o], leases[o])
      BY NoGroupType DEF GroupInit, Covers
<1> QED BY <1>1, <1>2, <1>3 DEF GroupsInv

LEMMA GroupsStep ==
    ASSUME GroupsInv, [GroupsNext]_<<budgetVars, spent, groupVars>>
    PROVE  GroupsInv'
<1>1. ASSUME UNCHANGED groupVars, BudgetTypes'
      PROVE  GroupsInv'
      BY <1>1 DEF GroupsInv, groupVars, Covers, Seen, Uncounted
<1>2. CASE BudgetStep /\ UNCHANGED groupVars
  <2>1. BudgetTypes'
        BY <1>2, BudgetStepTypes DEF GroupsInv
  <2> QED BY <1>1, <1>2, <2>1
<1>3. CASE TakeSnapshot /\ UNCHANGED <<budgetVars, spent>>
  <2>1. /\ BudgetTypes' /\ leases' = leases /\ group' = group
        /\ snapshot' = [o \in Owners |-> Lives(leases[o])]
        /\ leases \in [Owners -> LeaseTable] /\ group \in [Owners -> Group]
        BY <1>3 DEF GroupsInv, BudgetTypes, budgetVars, TakeSnapshot
  <2>2. snapshot' \in [Owners -> Live]
        BY <2>1, LiveTypes
  <2>3. ASSUME NEW o \in Owners
        PROVE  Seen(group[o], leases[o], snapshot'[o])
    <3>1. snapshot'[o] = Lives(leases[o])
          BY <2>1
    <3>2. /\ snapshot'[o].current = Current(leases[o])
          /\ snapshot'[o].counted = Counted(leases[o])
          BY <3>1 DEF Lives
    <3>3. /\ Counted(leases[o]) \in Nat /\ Uncounted(leases[o]) \in Nat
          /\ Current(leases[o]) = Counted(leases[o]) + Uncounted(leases[o])
          BY <2>1, LiveTypes
    <3> QED BY <3>2, <3>3 DEF Seen
  <2> QED BY <2>1, <2>2, <2>3 DEF GroupsInv, Covers, Seen, Uncounted
<1>4. CASE ApplyLimits /\ UNCHANGED <<budgetVars, spent>>
      BY <1>4, ApplyLimitsInv
<1>5. ASSUME NEW o \in Owners, NEW from \in {"direct", "relay"}, Connects(o, from),
             UNCHANGED <<budgetVars, spent>>
      PROVE  GroupsInv'
  <2>1. PICK new \in LeaseTable :
           /\ leases' = [leases EXCEPT ![o] = new]
           /\ group[o].mapped => Uncounted(new) = Uncounted(leases[o])
        BY <1>5, ConnectsFacts
  <2>2. Uncounted(new) \in Nat
        BY LiveTypes
  <2>3. group[o].mapped => Uncounted(new) <= Uncounted(leases[o])
        BY <2>1, <2>2
  <2>4. UNCHANGED <<budgetVars, group, snapshot>>
        BY <1>5 DEF Connects
  <2> QED BY <2>1, <2>3, <2>4, LeasesChange
<1>6. ASSUME NEW o \in Owners, NEW k \in Lease, Ends(o, k), UNCHANGED <<budgetVars, spent>>
      PROVE  GroupsInv'
  <2>1. PICK new \in LeaseTable :
           /\ leases' = [leases EXCEPT ![o] = new]
           /\ Uncounted(new) <= Uncounted(leases[o])
        BY <1>6, EndsFacts
  <2>2. UNCHANGED <<budgetVars, group, snapshot>>
        BY <1>6 DEF Ends
  <2> QED BY <2>1, <2>2, LeasesChange
<1>7. CASE UNCHANGED <<budgetVars, spent, groupVars>>
      BY <1>1, <1>7 DEF GroupsInv, BudgetTypes, budgetVars
<1> QED BY <1>2, <1>3, <1>4, <1>5, <1>6, <1>7 DEF GroupsNext, GroupStep

\* What the property says of a step.
Admission ==
    \A o \in Owners :
       (Current(leases'[o]) > Current(leases[o]) /\ group[o].settled) =>
         \/ Current(leases'[o]) <= group[o].budget + group[o].relays
         \/ Counted(leases[o]) = 0

LEMMA AdmissionStep ==
    ASSUME GroupsInv, [GroupsNext]_<<budgetVars, spent, groupVars>>
    PROVE  [Admission]_groupVars
<1> SUFFICES ASSUME ~UNCHANGED groupVars, NEW o \in Owners,
                    Current(leases'[o]) > Current(leases[o]), group[o].settled
             PROVE  \/ Current(leases'[o]) <= group[o].budget + group[o].relays
                    \/ Counted(leases[o]) = 0
    BY DEF Admission
<1>1. /\ leases[o] \in LeaseTable /\ group[o] \in Group /\ leases \in [Owners -> LeaseTable]
      /\ Covers(group[o], leases[o])
      BY DEF GroupsInv
<1>2. /\ Current(leases[o]) \in Nat /\ Counted(leases[o]) \in Nat /\ Uncounted(leases[o]) \in Nat
      /\ Current(leases[o]) = Counted(leases[o]) + Uncounted(leases[o])
      BY <1>1, LiveTypes
<1>3. GroupStep
      BY DEF GroupsNext, groupVars
<1>4. CASE TakeSnapshot
      BY <1>2, <1>4 DEF TakeSnapshot
<1>5. CASE ApplyLimits
  <2>1. leases'[o] \in {NoLeases, leases[o]}
        BY <1>5 DEF ApplyLimits
  <2> QED BY <1>2, <2>1, NoLeasesType
<1>6. ASSUME NEW x \in Owners, NEW k \in Lease, Ends(x, k)
      PROVE  FALSE
  <2>1. PICK new \in LeaseTable :
           /\ leases' = [leases EXCEPT ![x] = new] /\ leases'[x] = new
           /\ Current(new) < Current(leases[x])
        BY <1>6, EndsFacts
  <2>2. CASE x # o
    <3>1. leases'[o] = leases[o]
          BY <1>1, <2>1, <2>2
    <3> QED BY <1>2, <3>1
  <2>3. CASE x = o
    <3>1. Current(new) \in Nat
          BY LiveTypes
    <3> QED BY <1>2, <2>1, <2>3, <3>1
  <2> QED BY <2>2, <2>3
<1>7. ASSUME NEW x \in Owners, NEW from \in {"direct", "relay"}, Connects(x, from)
      PROVE  \/ Current(leases'[o]) <= group[o].budget + group[o].relays
             \/ Counted(leases[o]) = 0
  <2>1. PICK new \in LeaseTable :
           /\ leases' = [leases EXCEPT ![x] = new] /\ leases'[x] = new
           /\ Current(new) = Current(leases[x]) + 1
        BY <1>7, ConnectsFacts
  <2>2. CASE x # o
    <3>1. leases'[o] = leases[o]
          BY <1>1, <2>1, <2>2
    <3> QED BY <1>2, <3>1
  <2>3. CASE x = o
    <3>1. /\ group[o].limit \in Nat \ {0} /\ group[o].budget \in Nat /\ group[o].relays \in Nat
          BY <1>1, GroupTypes DEF Covers
    <3>2. Counted(leases[o]) < group[o].limit
          BY <1>7, <2>3, <3>1, NoneIsNoNumber DEF Connects, Admits
    <3>3. CASE group[o].limit = 1
          BY <1>2, <3>2, <3>3
    <3>4. CASE group[o].limit # 1
      <4>1. group[o].limit + Uncounted(leases[o]) <= group[o].budget + group[o].relays
            BY <1>1, <3>4 DEF Covers
      <4> QED BY <1>2, <2>1, <2>3, <3>1, <3>2, <4>1
    <3> QED BY <3>3, <3>4
  <2> QED BY <2>2, <2>3
<1> QED BY <1>3, <1>4, <1>5, <1>6, <1>7 DEF GroupStep

\* The limit of a settled group covers the leases that the group does not count
\* (flvxGroupConnLimit, flvx_user_limits.go:235-260).
THEOREM GroupsAreCovered == GroupsSpec => []GroupsInv
<1>1. GroupsInv /\ [GroupsNext]_<<budgetVars, spent, groupVars>> => GroupsInv'
      BY GroupsStep
<1> QED BY <1>1, GroupsInit, PTL DEF GroupsSpec, GroupsNext

\* From its second pass on, a group admits a lease only within the budget of its
\* user and the relays the pass has seen, or while it counts none
\* (flvx_user_limits.go:235-260), for every number of users and leases.
THEOREM ConnectionsHold == GroupsSpec => AdmittedWithinBudget
<1>1. GroupsInv /\ [GroupsNext]_<<budgetVars, spent, groupVars>> => [Admission]_groupVars
      BY AdmissionStep
<1> QED BY <1>1, GroupsAreCovered, PTL DEF GroupsSpec, GroupsNext, AdmittedWithinBudget, Admission


=============================================================================

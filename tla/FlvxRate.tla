------------------------------ MODULE FlvxRate ------------------------------
(* The per-user rates of a FLVX share, which the Helper enforces in the      *)
(* kernel (flvx_rate.go): a pair of IFB devices with one class per limited   *)
(* user, and on every device of the machine a filter per port of such a user *)
(* that sends its packets through the user's class.                          *)
(*                                                                           *)
(* reconcileRates runs at the end of every pass of the FLVX instance. It     *)
(* drives the kernel with ip and tc, keeps a record of what it did, and      *)
(* calls no tool while the record says that nothing has to change. Any       *)
(* failure removes everything. A redirect to an IFB that is missing or down  *)
(* loses the packet, so filters go before the IFBs.                          *)
(*                                                                           *)
(* The two IFBs are one, and so are the filters of a port for both           *)
(* directions, protocols and address families.                               *)
EXTENDS FlvxBudgets

CONSTANTS
  Ports,        \* the ports of the nodes that may run in the FLVX Core
  Devs,         \* the ifindexes of the machine's devices
  Slots,        \* the class numbers, 1 .. flvxRateMaxSlot
  Unlimited,    \* flvxRateUnlimited
  First         \* what "node" and "net" may be at first

ASSUME SlotsAreNumbers == Slots \subseteq Nat \ {0} /\ IsFiniteSet(Slots)
ASSUME UnlimitedIsARate == Unlimited \in Nat \ {0}
ASSUME FirstIsAMachine ==
  First \subseteq [node : [Ports -> Owners \cup {None}], net : [Devs -> {"plain", "chosen", "taken"}]]
ASSUME RateKinds == {"node", "device", "meddle", "fault", "death"} \subseteq Kinds

VARIABLES
  node,     \* port -> the user whose node runs on it
  net,      \* device -> whether scan selects it, or that it is gone
  kernel,   \* the IFBs, their classes and the filters on the devices
  lim,      \* flvxRateLimiter
  job,      \* the pass that is running, or the last one
  rates     \* userLimits.rates: the users reported as limited

vars == <<sent, entry, held, spent, node, net, kernel, lim, job, rates>>
around == <<budgetVars, node, net>>

------------------------------------------------------------------------------
(* The owners of a pass: the users with a rate in force and their ports.     *)
NoRates == [o \in Owners |-> 0]
NoOwners == [rate |-> NoRates, port |-> [p \in Ports |-> None]]

OwnersOf(o) == {o.port[p] : p \in Ports} \ {None}

RateOwners ==
  LET limited == {o \in Owners : held.users[o] \notin {None, 0}}
      runs == {o \in Owners : \E p \in Ports : node[p] = o}
  IN  [rate |-> [o \in Owners |-> IF o \in limited \cap runs THEN held.users[o] ELSE 0],
       port |-> [p \in Ports |-> IF node[p] \in limited THEN node[p] ELSE None]]

(* The kernel. An IFB is "cut" when somebody else took it down, "other" when *)
(* somebody replaced it, "half" when its setup did not get through.          *)
NoFilters == [d \in Devs |-> [p \in Ports |-> 0]]
NoClasses == [s \in Slots |-> 0]
EmptyKernel == [ifb |-> "none", classes |-> NoClasses, filters |-> NoFilters]

Filtered(filters) == {d \in Devs : \E p \in Ports : filters[d][p] # 0}

(* The record of the limiter: what it believes the kernel holds. "known" is  *)
(* that it removed what an earlier process left, "releasing" how far the     *)
(* release of a class is, "due" that the last check is a minute old.         *)
Record(known) ==
  [known |-> known, active |-> FALSE, owners |-> NoOwners,
   slots |-> NoRates, classes |-> NoClasses, shaped |-> {}, filters |-> NoFilters,
   releasing |-> [s \in Slots |-> "no"], due |-> FALSE,
   failure |-> "none", failedOwners |-> NoOwners]

Idle == [at |-> "idle", owners |-> NoOwners, scan |-> {}, then |-> "done"]

Init ==
  /\ BudgetsInit
  /\ \E f \in First : node = f.node /\ net = f.net
  /\ kernel = EmptyKernel
  /\ lim = Record(FALSE)
  /\ job = Idle
  /\ rates = {}

Pass(at, then, owners) == [at |-> at, then |-> then, owners |-> owners, scan |-> {}]
At(at) == job.at = at
Goto(at) == job' = [job EXCEPT !.at = at]
------------------------------------------------------------------------------
(* ensure, and reconcileRates around it: what a pass begins with.            *)

\* The pass ends well: the rates of its owners are reported as applied.
Succeed(l, scan) ==
  /\ lim' = [l EXCEPT !.failure = "none", !.failedOwners = NoOwners]
  /\ job' = [Idle EXCEPT !.scan = scan]
  /\ rates' = OwnersOf(job.owners)

\* It ends with an error: the next ones return it until the owners change or
\* a minute has passed.
Fail(l, owners) ==
  /\ lim' = [l EXCEPT !.failure = "wait", !.failedOwners = owners]
  /\ job' = Idle
  /\ rates' = {}

Begin(cond) == At("idle") /\ cond /\ UNCHANGED <<budgetVars, spent, node, net, kernel>>

Refused(owners) == lim.failure = "wait" /\ owners = lim.failedOwners
Nothing(owners) == lim.known /\ ~lim.active /\ owners = NoOwners
Steady(owners) ==
  /\ lim.known /\ lim.active /\ lim.failure = "none" /\ ~lim.due
  /\ \A s \in Slots : lim.releasing[s] = "no"
  /\ owners = lim.owners

PassRefused ==
  /\ Begin(Refused(RateOwners))
  /\ rates' = {}
  /\ UNCHANGED <<lim, job>>

PassClears ==
  /\ Begin(~Refused(RateOwners) /\ ~lim.known)
  /\ job' = Pass("filters", "start", RateOwners)
  /\ UNCHANGED <<lim, rates>>

PassHasNothing ==
  /\ Begin(~Refused(RateOwners) /\ Nothing(RateOwners))
  /\ lim' = [lim EXCEPT !.failure = "none", !.failedOwners = NoOwners]
  /\ rates' = {}
  /\ UNCHANGED job

PassIsSteady ==
  /\ Begin(Steady(RateOwners))
  /\ rates' = OwnersOf(RateOwners)
  /\ UNCHANGED <<lim, job>>

PassReconciles ==
  LET owners == RateOwners
  IN  /\ Begin(lim.known /\ ~Refused(owners) /\ ~Nothing(owners) /\ ~Steady(owners))
      /\ job' = Pass("scan", "fail", owners)
      /\ UNCHANGED <<lim, rates>>
------------------------------------------------------------------------------
(* teardown: the filters of all devices, then the IFBs when every filter is  *)
(* gone. What follows depends on why it runs: at the start of the process,   *)
(* before a setup, because nothing is limited any more, or after a failure.  *)
TornDown ==
  CASE job.then = "start" /\ job.owners = NoOwners -> Succeed(Record(TRUE), {})
    [] job.then = "start" /\ job.owners # NoOwners ->
         lim' = Record(TRUE) /\ job' = [job EXCEPT !.at = "scan"] /\ UNCHANGED rates
    [] job.then = "setup" /\ job.owners # NoOwners ->
         lim' = Record(TRUE) /\ job' = [job EXCEPT !.at = "setup"] /\ UNCHANGED rates
    [] job.then = "setup" /\ job.owners = NoOwners -> Succeed(Record(TRUE), {})
    [] job.then = "done" -> Succeed(Record(TRUE), {})
    [] job.then = "fail" -> Fail(Record(TRUE), job.owners)

\* A failed teardown is an error of the pass, which tears down once more. When
\* that fails, too, the next pass starts as if the process were new.
NotTornDown ==
  CASE job.then = "start" -> Fail(lim, job.owners)
    [] job.then = "fail" -> Fail([lim EXCEPT !.known = FALSE], job.owners)
    [] job.then \in {"setup", "done"} ->
         job' = [job EXCEPT !.at = "filters", !.then = "fail"] /\ UNCHANGED <<lim, rates>>

LinksGoRegardless ==
  /\ At("filters")
  /\ \E bad \in SUBSET Devs :
       /\ \A d \in bad : net[d] # "gone"
       /\ IF bad = {} THEN UNCHANGED spent ELSE Spend("fault")
       /\ kernel' = [kernel EXCEPT
            !.filters = [d \in Devs |-> IF d \in bad THEN @[d] ELSE [p \in Ports |-> 0]]]
  /\ Goto("links")
  /\ UNCHANGED <<around, lim, rates>>

RemoveFilters ==
  /\ At("filters")
  /\ \/ /\ kernel' = [kernel EXCEPT !.filters = NoFilters]
        /\ Goto("links")
        /\ UNCHANGED <<lim, rates, spent>>
     \/ \E bad \in SUBSET Devs \ {{}} :
          /\ \A d \in bad : net[d] # "gone"
          /\ Spend("fault")
          /\ kernel' = [kernel EXCEPT
               !.filters = [d \in Devs |-> IF d \in bad THEN @[d] ELSE [p \in Ports |-> 0]]]
          /\ NotTornDown
  /\ UNCHANGED around

RemoveLinks ==
  /\ At("links")
  /\ \/ kernel' = [kernel EXCEPT !.ifb = "none", !.classes = NoClasses] /\ TornDown
        /\ UNCHANGED spent
     \/ Spend("fault") /\ NotTornDown /\ UNCHANGED kernel
  /\ UNCHANGED around

\* An error of reconcile.
GiveUp == job' = [job EXCEPT !.at = "filters", !.then = "fail"] /\ UNCHANGED <<lim, rates>>

ToolFails ==
  /\ job.at \in {"scan", "setup", "devices"}
  /\ Spend("fault")
  /\ GiveUp
  /\ kernel' = IF At("setup") THEN [kernel EXCEPT !.ifb = "half"] ELSE kernel
  /\ UNCHANGED around
------------------------------------------------------------------------------
(* reconcile: scan selects devices; an IFB that is not the one the record  *)
(* names, or is down, makes the pass start over, filters first.              *)
Scan == {d \in Devs : net[d] \in {"chosen", "taken"}}

Unselected(scan) == lim.shaped \ scan

ScanDevices ==
  LET look(at, then) ==
        /\ job' = [job EXCEPT !.scan = Scan, !.at = at, !.then = then]
        /\ lim' = [lim EXCEPT !.due = FALSE]
        /\ UNCHANGED rates
  IN  /\ At("scan")
      /\ \/ lim.active /\ kernel.ifb # "up" /\ look("filters", "setup")
         \/ lim.active /\ kernel.ifb = "up" /\ look("devices", "fail")
         \/ ~lim.active /\ job.owners # NoOwners /\ look("setup", "fail")
         \/ ~lim.active /\ job.owners = NoOwners /\ Succeed([lim EXCEPT !.due = FALSE], Scan)
      /\ UNCHANGED <<around, spent, kernel>>

SetUp ==
  /\ At("setup")
  /\ \/ /\ kernel.ifb = "none"
        /\ kernel' = [kernel EXCEPT !.ifb = "up"]
        /\ lim' = [lim EXCEPT !.active = TRUE]
        /\ job' = [job EXCEPT !.at = "batch", !.then = "fail"]
        /\ UNCHANGED rates
     \/ kernel.ifb # "none" /\ GiveUp /\ UNCHANGED kernel
  /\ UNCHANGED <<around, spent>>

\* sync first clears the devices that are not selected any more.
ClearDevices ==
  /\ At("devices")
  /\ kernel' = [kernel EXCEPT
       !.filters = [d \in Devs |-> IF d \in Unselected(job.scan) THEN [p \in Ports |-> 0] ELSE @[d]]]
  /\ lim' = [lim EXCEPT !.shaped = @ \cap job.scan,
       !.filters = [d \in Devs |-> IF d \in job.scan THEN @[d] ELSE [p \in Ports |-> 0]]]
  /\ Goto("batch")
  /\ UNCHANGED <<around, spent, rates>>
------------------------------------------------------------------------------
(* sync: the difference between the record and the owners of the pass, as    *)
(* one batch. "slots" gives every owner its class, "plan" is the record      *)
(* after the batch, with the steps of the batch in their order:              *)
(*   1. filters that go: ports that are not limited any more (those of a     *)
(*      user who is not limited any more stay until the release is over);    *)
(*   2. classes: those not wanted are set unlimited, and deleted once that   *)
(*      was some time ago and no filter leads to them; the rest as wanted;   *)
(*   3. new filters on every selected device.                                *)
FreeSlots == {s \in Slots : lim.classes[s] = 0 /\ \A o \in Owners : lim.slots[o] # s}
NewOwners == {o \in OwnersOf(job.owners) : lim.slots[o] = 0}
SlotsSuffice == Cardinality(NewOwners) <= Cardinality(FreeSlots)

SlotOf ==
  LET rank(x, S) == Cardinality({y \in S : y < x})
  IN  [o \in Owners |->
         IF o \in NewOwners
         THEN CHOOSE s \in FreeSlots : rank(s, FreeSlots) = rank(o, NewOwners)
         ELSE lim.slots[o]]

WantedClasses ==
  [s \in Slots |-> IF \E o \in OwnersOf(job.owners) : SlotOf[o] = s
                   THEN job.owners.rate[CHOOSE o \in OwnersOf(job.owners) : SlotOf[o] = s]
                   ELSE 0]

WantedFilters ==
  [p \in Ports |-> IF job.owners.port[p] = None THEN 0 ELSE SlotOf[job.owners.port[p]]]

\* Step 1.
KeptFilters ==
  [d \in Devs |-> [p \in Ports |->
     LET s == lim.filters[d][p]
     IN  IF s # 0 /\ WantedFilters[p] = 0 /\ (WantedClasses[s] # 0 \/ lim.releasing[s] = "over")
         THEN 0 ELSE s]]

\* Step 2.
Unwanted == {s \in Slots : lim.classes[s] # 0 /\ WantedClasses[s] = 0}
Deleted == {s \in Unwanted :
              lim.releasing[s] = "over" /\ \A d \in Devs, p \in Ports : KeptFilters[d][p] # s}

NewClasses ==
  [s \in Slots |-> CASE s \in Deleted -> 0
                     [] s \in Unwanted \ Deleted -> Unlimited
                     [] OTHER -> WantedClasses[s]]

\* Step 3.
NewDevs == IF job.owners = NoOwners THEN {} ELSE job.scan \ lim.shaped

MovedPortsStay ==
  [d \in Devs |-> [p \in Ports |->
     IF d \in lim.shaped \cup NewDevs /\ KeptFilters[d][p] = 0
     THEN WantedFilters[p] ELSE KeptFilters[d][p]]]

NewFilters ==
  [d \in Devs |-> [p \in Ports |->
     IF d \in lim.shaped \cup NewDevs /\ WantedFilters[p] # 0
     THEN WantedFilters[p] ELSE KeptFilters[d][p]]]

Synced ==
  [lim EXCEPT
     !.slots = [o \in Owners |-> IF SlotOf[o] \in Deleted THEN 0 ELSE SlotOf[o]],
     !.classes = NewClasses,
     !.shaped = @ \cup NewDevs,
     !.filters = NewFilters,
     !.releasing = [s \in Slots |-> CASE s \in Unwanted \ Deleted /\ @[s] = "no" -> "since"
                                      [] s \in Unwanted \ Deleted /\ @[s] # "no" -> @[s]
                                      [] OTHER -> "no"]]

\* sync returns before the batch: too many owners, or a new device that has the
\* ingress qdisc of another program.
Hooked(d) == net[d] = "taken"
NoPlan == ~SlotsSuffice \/ \E d \in NewDevs : Hooked(d)

\* A line of the batch cannot be carried out: its device is gone, or the IFB is
\* not the one with the classes.
Impossible ==
  \/ \E d \in Filtered(lim.filters) \cup Filtered(NewFilters) :
       net[d] = "gone" /\ lim.filters[d] # NewFilters[d]
  \/ kernel.ifb = "other" /\ NewClasses # lim.classes

Existing(filters) ==
  [d \in Devs |-> IF net[d] = "gone" THEN [p \in Ports |-> 0] ELSE filters[d]]

\* The batch stopped: at most the steps before a part of one of them.
Stopped(steps, devs) ==
  LET mix(new, old) == Existing([d \in Devs |-> IF d \in devs THEN new[d] ELSE old[d]])
  IN  [kernel EXCEPT
         !.classes = IF steps >= 2 /\ kernel.ifb # "other" THEN NewClasses ELSE @,
         !.filters = CASE steps = 1 -> mix(KeptFilters, @)
                       [] steps = 2 -> Existing(KeptFilters)
                       [] steps = 3 -> mix(NewFilters, KeptFilters)]

RefuseBatch ==
  /\ At("batch") /\ NoPlan
  /\ GiveUp
  /\ UNCHANGED <<around, spent, kernel>>

\* The record is changed before the batch runs.
RunBatch ==
  /\ At("batch") /\ ~NoPlan
  /\ \/ /\ ~Impossible
        /\ kernel' = [kernel EXCEPT !.classes = NewClasses, !.filters = Existing(NewFilters)]
        /\ UNCHANGED spent
        /\ LET synced == [Synced EXCEPT !.owners = job.owners]
           IN  IF job.owners = NoOwners /\ NewClasses = NoClasses
               THEN /\ lim' = synced
                    /\ job' = [job EXCEPT !.at = "filters", !.then = "done"]
                    /\ UNCHANGED rates
               ELSE Succeed(synced, job.scan)
     \/ /\ IF Impossible THEN UNCHANGED spent ELSE Spend("fault")
        /\ \E steps \in 1 .. 3, devs \in SUBSET Devs : kernel' = Stopped(steps, devs)
        /\ lim' = Synced
        /\ job' = [job EXCEPT !.at = "filters", !.then = "fail"]
        /\ UNCHANGED rates
  /\ UNCHANGED around
------------------------------------------------------------------------------
(* Around the limiter: the nodes of the share (a pass changes them before it *)
(* comes to the rates), the devices of the machine, somebody who changes the *)
(* IFBs, the death of the Helper, time.                                      *)
NodeMoves ==
  /\ At("idle")
  /\ \E p \in Ports, o \in Owners \cup {None} :
       o # node[p] /\ node' = [node EXCEPT ![p] = o]
  /\ Spend("node")
  /\ UNCHANGED <<budgetVars, net, kernel, lim, job, rates>>

DeviceChanges ==
  /\ \E d \in Devs, to \in {"plain", "chosen", "gone"} :
       /\ net[d] # "gone" /\ to # net[d]
       /\ net' = [net EXCEPT ![d] = to]
       /\ kernel' = IF to = "gone"
                    THEN [kernel EXCEPT !.filters[d] = [p \in Ports |-> 0]] ELSE kernel
  /\ Spend("device")
  /\ UNCHANGED <<budgetVars, node, lim, job, rates>>

SomebodyMeddles ==
  /\ kernel.ifb = "up"
  /\ \/ kernel' = [kernel EXCEPT !.ifb = "cut"]
     \/ kernel' = [kernel EXCEPT !.ifb = "other", !.classes = NoClasses]
  /\ Spend("meddle")
  /\ UNCHANGED <<around, lim, job, rates>>

HelperDies ==
  /\ Spend("death")
  /\ lim' = Record(FALSE) /\ job' = Idle /\ rates' = {} /\ held' = NoBudgets
  /\ UNCHANGED <<sent, entry, node, net, kernel>>

\* flvxRateDrain and flvxRateRecheck pass. A pass reads the clock once.
DrainPasses ==
  /\ At("idle") /\ \E s \in Slots : lim.releasing[s] = "since"
  /\ lim' = [lim EXCEPT !.releasing =
       [s \in Slots |-> IF @[s] = "since" THEN "over" ELSE @[s]]]
  /\ UNCHANGED <<around, spent, kernel, job, rates>>

MinutePasses ==
  /\ At("idle")
  /\ (lim.active /\ ~lim.due) \/ lim.failure = "wait"
  /\ lim' = [lim EXCEPT !.due = @ \/ lim.active,
                        !.failure = IF @ = "wait" THEN "due" ELSE @]
  /\ UNCHANGED <<around, spent, kernel, job, rates>>

Budget ==
  /\ BudgetStep
  /\ UNCHANGED <<node, net, kernel, lim, job, rates>>

PassStep ==
  \/ PassRefused \/ PassClears \/ PassHasNothing \/ PassIsSteady \/ PassReconciles
  \/ RemoveFilters \/ RemoveLinks \/ ToolFails
  \/ ScanDevices \/ SetUp \/ ClearDevices \/ RefuseBatch \/ RunBatch

Next ==
  \/ Budget \/ PassStep
  \/ NodeMoves \/ DeviceChanges \/ SomebodyMeddles \/ HelperDies
  \/ DrainPasses \/ MinutePasses

(* A pass runs every five seconds, and each comes to an end: its tools have  *)
(* ten seconds. Time passes, and does not wait for the passes to pause.      *)
(* Nothing else has to happen.                                               *)
Fairness ==
  /\ WF_vars(PassStep)
  /\ SF_vars(DrainPasses) /\ SF_vars(MinutePasses)
  /\ WF_vars(Tick /\ UNCHANGED <<node, net, kernel, lim, job, rates>>)

Spec == Init /\ [][Next]_vars /\ Fairness
------------------------------------------------------------------------------
(* teardown and setup (flvx_rate.go:385-462): no filter ever leads to an IFB *)
(* that the Helper itself has removed or not finished, whatever fails or     *)
(* dies in between. Such a filter would lose every packet of the port.       *)
NoRedirectIntoNothing == Filtered(kernel.filters) # {} => kernel.ifb \notin {"none", "half"}

(* sync and reconcileRates (flvx_rate.go:544-703, 815-840): once a pass has  *)
(* ended well, and until the next one, the kernel does what is reported to   *)
(* FLVX, without asking it: on every device of the last scan that still      *)
(* exists each port of a limited user is sent through a class with his rate, *)
(* and no other port through a class that is limited. It rests on the record *)
(* of the limiter being true, which no step reads back.                      *)
RatesInForce ==
  (At("idle") /\ lim.active /\ lim.failure = "none" /\ kernel.ifb = "up") =>
    \A d \in job.scan, p \in Ports :
      LET slot == kernel.filters[d][p]
          owner == lim.owners.port[p]
          rate == IF slot = 0 THEN 0 ELSE kernel.classes[slot]
      IN  IF owner \in rates THEN net[d] = "gone" \/ rate = lim.owners.rate[owner]
                             ELSE rate \in {0, Unlimited}

(* A lost FLVX limits nobody (flvx_user_limits.go:80-85, budgetView), and    *)
(* nothing that failed is left behind: once no budgets are sent any more,    *)
(* the filters and the IFBs of the Helper are gone for good.                 *)
RatesEnd == <>[](kernel = EmptyKernel)
=============================================================================

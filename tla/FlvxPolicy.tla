----------------------------- MODULE FlvxPolicy -----------------------------
(* One FLVX share on one machine: how the Helper brings the FLVX Core to the *)
(* egress plan, the Reality guards and the nodes FLVX asks for. The module   *)
(* follows one pass of flvxManager.reconcile (flvx_runtime.go) step by step, *)
(* with ensureRouting and applyEgress (flvx_egress.go), refreshRealityPins   *)
(* (flvx_reality_pin.go) and the guards (flvx_guard.go). The Core may        *)
(* restart and the Helper may die between any two steps.                     *)
(*                                                                           *)
(* Counters, reports and the share's life (paused, revoked, removed) are     *)
(* FlvxBilling's: here the share is active.                                  *)
EXTENDS FlvxGuards

CONSTANTS
  Plans,    \* the egress plans FLVX may sign
  Covers,   \* plan -> the nodes its rules are for
  First,    \* the payloads FLVX may send first
  FirstCheck, \* dest -> what its first check finds
  Kinds,    \* the kinds of things that may go wrong or change
  Budgets,  \* kind -> how often it may
  Total     \* how often any of them may, all together

ASSUME PlansAreNamed == None \notin Plans /\ Covers \in [Plans -> SUBSET Nodes]
ASSUME FirstIsLegal ==
  /\ First \subseteq [plan : Plans \cup {None}, guard : BOOLEAN, nodes : SUBSET Nodes, dest : Dests,
                      taken : SUBSET Ports]
  /\ FirstCheck \in [Dests -> Checks]
ASSUME BudgetsAreCounts == Budgets \in [Kinds -> Nat] /\ Total \in Nat

VARIABLES
  wish,   \* the payload FLVX last sent: plan, guard, nodes, dest, and the
          \* ports its range, nodes and official inbounds take from guards
  check,  \* dest -> the last check of that site
  st,     \* the Helper's state in memory
  disk,   \* its state.json
  mem,    \* what the Helper keeps in memory only
  core,   \* the FLVX Core
  pass,   \* the pass under way
  spent   \* kind -> how often it happened

policyVars == <<wish, check, st, disk, mem, core, pass, spent>>

Spend(kind) ==
  /\ spent[kind] < Budgets[kind]
  /\ FoldSet(LAMBDA k, sum : spent[k] + sum, 0, Kinds) < Total
  /\ spent' = [spent EXCEPT ![kind] = @ + 1]

CoveredBy(plan) == IF plan = None THEN {} ELSE Covers[plan]

NoRules == [plan |-> None, ports |-> {}]

\* A Core that just started. Only one started from an older configuration
\* file has no RoutingService. "unheard" is history: the Helper cannot know
\* the rules of this Core, because since its last answered call a call landed
\* without its answer, the answer was lost with the Helper, the Helper erased
\* its record, or the Core started within a pass.
NewCore == [routing |-> TRUE, rules |-> NoRules, outs |-> {}, unheard |-> FALSE,
            nodes |-> [n \in Nodes |-> Off], guards |-> [p \in Ports |-> None]]

NewState == [applied |-> [n \in Nodes |-> Off], guards |-> [p \in Ports |-> None],
             groups |-> [p \in Ports |-> None], rules |-> NoRules, stale |-> FALSE,
             pins |-> [n \in Nodes |-> None], same |-> FALSE, restarted |-> FALSE]

\* "answers": the RoutingService of this epoch answered, or is not there.
NewMemory == [last |-> None, error |-> FALSE, waiting |-> FALSE, avoid |-> {}, answers |-> FALSE]

NoPass == [at |-> "idle", readable |-> TRUE, byTag |-> [n \in Nodes |-> None], ports |-> {},
           withheld |-> {}, present |-> [nodes |-> {}, guards |-> {}], todo |-> {}, up |-> {},
           final |-> [n \in Nodes |-> Off]]

\* Every Core has its own epoch: "same" says that the state's is the Core's.
OfAnotherCore(s) == [s EXCEPT !.same = FALSE]

PolicyInit ==
  /\ wish \in First
  /\ check = FirstCheck
  /\ st = NewState /\ disk = NewState
  /\ mem = NewMemory
  /\ core \in {NewCore, [NewCore EXCEPT !.routing = FALSE]}
  /\ pass = NoPass
  /\ spent = [k \in Kinds |-> 0]

-----------------------------------------------------------------------------
(* FLVX and the sites, between two passes.                                   *)

\* A new payload: another plan, the guard switched, a node more or less,
\* another site, a port taken or given up. The official inventory of the
\* machine has the official ports of the payload.
Ask ==
  /\ pass.at = "idle" /\ Spend("wish")
  /\ \/ \E p \in Plans \cup {None} : wish' = [wish EXCEPT !.plan = p]
     \/ wish' = [wish EXCEPT !.guard = ~@]
     \/ \E n \in Nodes : wish' = [wish EXCEPT !.nodes = IF n \in @ THEN @ \ {n} ELSE @ \cup {n}]
     \/ \E d \in Dests : wish' = [wish EXCEPT !.dest = d]
     \/ \E p \in Ports : wish' = [wish EXCEPT !.taken = IF p \in @ THEN @ \ {p} ELSE @ \cup {p}]
  /\ wish' # wish
  /\ UNCHANGED <<check, st, disk, mem, core, pass>>

\* A check of the payload's site finds something else.
CheckSite ==
  /\ pass.at = "idle" /\ Spend("check")
  /\ \E c \in Checks : c # check[wish.dest] /\ check' = [check EXCEPT ![wish.dest] = c]
  /\ UNCHANGED <<wish, st, disk, mem, core, pass>>

\* The minute before another guard inbound is tried is over.
RetryDue ==
  /\ mem.waiting
  /\ mem' = [mem EXCEPT !.waiting = FALSE]
  /\ UNCHANGED <<wish, check, st, disk, core, pass, spent>>

-----------------------------------------------------------------------------
(* ensureRouting.                                                            *)

NeedsRestart == wish.plan # None /\ ~st.restarted /\ ~core.routing

\* The restart is recorded before it is done, and never repeated. Without
\* the record the pass ends.
SaveRestart ==
  /\ pass.at = "idle" /\ NeedsRestart
  /\ st' = [st EXCEPT !.restarted = TRUE]
  /\ \/ /\ disk' = st'
        /\ pass' = [NoPass EXCEPT !.at = "restart"]
        /\ UNCHANGED spent
     \/ /\ Spend("fault")
        /\ disk' \in {st', disk}
        /\ pass' = [NoPass EXCEPT !.at = "failed"]
  /\ UNCHANGED <<wish, check, mem, core>>

\* The Core does not say whether it has a RoutingService: the pass goes on.
RoutingUnknown ==
  /\ pass.at = "idle" /\ NeedsRestart
  /\ ~(mem.answers /\ st.same) /\ Spend("fault")
  /\ pass' = [NoPass EXCEPT !.at = "begin"]
  /\ UNCHANGED <<wish, check, st, disk, mem, core>>

RestartForRouting ==
  /\ pass.at = "restart"
  /\ core' = NewCore
  /\ st' = OfAnotherCore(st) /\ disk' = OfAnotherCore(disk)
  /\ pass' = [pass EXCEPT !.at = "begin"]
  /\ UNCHANGED <<wish, check, mem, spent>>

-----------------------------------------------------------------------------
(* The epoch, the pins and the plan of the guards: all in the Helper.        *)

\* A new Core lost every inbound, outbound and rule.
InEpoch(s) ==
  IF s.same THEN s
  ELSE [s EXCEPT !.applied = [n \in Nodes |-> Off], !.guards = [p \in Ports |-> None],
                 !.rules = NoRules, !.stale = FALSE, !.same = TRUE]

\* The move of a pin keeps the connections of a node that is not applied, is
\* guarded, or is idle.
PinMoveFree(s, n, idle) ==
  s.applied[n] = Off \/ GuardPortOf(s.applied[n]) # None \/ n \in idle

RefreshPins(s, idle) ==
  [s EXCEPT !.pins = [n \in Nodes |->
     IF n \notin wish.nodes THEN None
     ELSE DecidePin(s.pins[n], wish.dest, check[wish.dest], PinMoveFree(s, n, idle))]]

Pinned(s, n) == RealityPin(s.pins[n], wish.dest)

\* The nodes the guard is for. Without the official inventory there are none.
Candidates(s, readable) ==
  {n \in wish.nodes : wish.guard /\ readable /\ Pinned(s, n)}

\* What a pass keeps of its plan: the ports in use and the guards the nodes get.
PlanIs(allotted, byTag, readable) ==
  LET ports == RulePorts(allotted, byTag)
  IN /\ st' = Freed(allotted, ports)
     /\ pass' = [NoPass EXCEPT !.at = "egress", !.readable = readable,
                               !.byTag = byTag, !.ports = ports]
     /\ mem' = [mem EXCEPT !.waiting = @ /\ \E n \in Nodes : byTag[n] # None,
                           !.error = @ \/ ~st.same,
                           !.answers = @ /\ st.same]

\* The pins, the ports and the rules of the pass, as the connections ("idle":
\* the nodes without any) and the inventory ("readable") are. The values are
\* bound by quantifiers: TLC evaluates a LET again wherever ENABLED meets it.
Planned(idle, readable) ==
  \E pinned \in {RefreshPins(InEpoch(st), idle)} :
  \E candidates \in {Candidates(pinned, readable)} :
  \E retargeted \in {RetargetGuards(pinned, candidates)} :
  \E allocation \in Allocations(retargeted, wish.taken, candidates, mem.avoid) :
  \E allotted \in {Allotted(retargeted, allocation)} :
  \E byTag \in {ByTag(allotted, wish.taken, candidates)} :
    PlanIs(allotted, byTag, readable)

\* History: the record starts anew, on a Core that may have rules.
InNewEpoch == IF st.same THEN core ELSE [core EXCEPT !.unheard = core.rules # NoRules]

PlanPass ==
  /\ pass.at = "begin" \/ (pass.at = "idle" /\ ~NeedsRestart)
  /\ UNCHANGED <<wish, check, disk>>
  /\ core' = InNewEpoch
  /\ \E readable \in BOOLEAN, idle \in SUBSET Nodes :
       /\ IF readable THEN UNCHANGED spent ELSE Spend("fault")
       /\ Planned(idle, readable)

-----------------------------------------------------------------------------
(* applyEgress: outbounds, then the whole rule set, then the stale outbounds.*)

Target == [plan |-> wish.plan, ports |-> pass.ports]

\* Mutant: the nodes of a plan that failed are served without it.
ServedWithoutPlan == {}

\* The nodes only the new plan covers stay offline when it is not applied.
Withheld == CoveredBy(wish.plan) \ CoveredBy(st.rules.plan)

NothingToApply == Target = NoRules /\ st.rules = NoRules /\ ~st.stale

RulesAreLive == Target = st.rules /\ ~st.stale

\* It is asked once in an epoch.
Answered == mem' = [mem EXCEPT !.answers = TRUE]

EgressUnchanged ==
  /\ pass.at = "egress"
  /\ \/ NothingToApply /\ UNCHANGED mem
     \/ ~NothingToApply /\ core.routing /\ RulesAreLive /\ Answered
  /\ pass' = [pass EXCEPT !.at = "compare"]
  /\ UNCHANGED <<wish, check, st, disk, core, spent>>

\* No RoutingService, or one that has not answered yet: a plan fails, and
\* without a plan the record says that the Core has none of our rules.
RoutingUnavailable ==
  /\ pass.at = "egress" /\ ~NothingToApply
  /\ \/ ~core.routing /\ Answered /\ UNCHANGED spent
     \/ ~mem.answers /\ Spend("fault") /\ UNCHANGED mem
  /\ \/ wish.plan # None /\ UNCHANGED <<st, core>>
     \/ /\ wish.plan = None
        /\ st' = [st EXCEPT !.rules = NoRules, !.stale = FALSE]
        /\ core' = [core EXCEPT !.unheard = @ \/ st.rules # NoRules]
  /\ pass' = [pass EXCEPT !.at = "compare", !.withheld = Withheld]
  /\ UNCHANGED <<wish, check, disk>>

Outbounds(plan) == {plan} \ {None}

WithOutbounds == [core EXCEPT !.outs = @ \cup Outbounds(wish.plan)]
\* What removeStale leaves of the outbounds the Core lists.
WithoutStale == [core EXCEPT !.outs = @ \cap Outbounds(wish.plan)]

WithRules == [WithOutbounds EXCEPT !.rules = Target, !.unheard = ~st.same]
UnheardRules == [WithRules EXCEPT !.unheard = TRUE]

Changes == pass.at = "egress" /\ core.routing /\ ~NothingToApply /\ ~RulesAreLive

ReplaceRules ==
  /\ Changes
  /\ core' = IF Target = st.rules THEN core ELSE WithRules
  /\ pass' = [pass EXCEPT !.at = "stale"]
  /\ Answered
  /\ UNCHANGED <<wish, check, st, disk, spent>>

\* A plan that cannot be rendered now: geo data is missing, or a rule is not
\* understood. Rendering is repeated while nothing changes, too.
RenderFails ==
  /\ pass.at = "egress" /\ core.routing /\ ~NothingToApply /\ Spend("fault")
  /\ Answered \/ UNCHANGED mem
  /\ pass' = [pass EXCEPT !.at = "compare", !.withheld = Withheld]
  /\ UNCHANGED <<wish, check, st, disk, core>>

\* There is no memory for the rules, or a call failed, with or without effect.
RulesFail ==
  /\ Changes /\ Spend("fault")
  /\ core' \in {core, WithOutbounds, UnheardRules}
  /\ Answered
  /\ pass' = [pass EXCEPT !.at = "compare", !.withheld = Withheld]
  /\ UNCHANGED <<wish, check, st, disk>>

\* The plan is recorded whether or not its predecessors' outbounds went, and
\* the pass goes on whether or not the record is saved.
RemoveStale ==
  /\ pass.at = "stale"
  /\ \/ /\ core' = WithoutStale
        /\ st' = [st EXCEPT !.rules = Target, !.stale = FALSE]
        /\ \/ disk' = st' /\ UNCHANGED spent
           \/ disk' = disk /\ Spend("fault")
     \/ /\ Spend("fault")
        /\ core' \in {core, WithoutStale}
        /\ st' = [st EXCEPT !.rules = Target, !.stale = TRUE]
        /\ disk' \in {st', disk}
  /\ pass' = [pass EXCEPT !.at = "compare"]
  /\ UNCHANGED <<wish, check, mem>>

-----------------------------------------------------------------------------
(* The nodes and guards this pass wants, and whether anything differs.       *)

\* A node without an address for its site keeps the inbound it has, if an
\* older pin shows what that inbound is.
Retainable(n) == st.applied[n] # Off /\ st.pins[n] # None

Wanted ==
  {n \in wish.nodes \ pass.withheld : pass.readable /\ (Pinned(st, n) \/ Retainable(n))}

Retained == {n \in Wanted : ~Pinned(st, n)}

Need == GuardNeed(st, Wanted, Retained, pass.byTag, mem.waiting)

Final(up) == GuardFinal(st, Wanted, Retained, pass.byTag, up)

CheckInbounds == mem.last # wish \/ mem.error

IsApplied(final, up) ==
  /\ final = st.applied
  /\ {p \in Ports : st.guards[p] # None} = up

\* record: the state is saved, and a node that is not served is an error the
\* next pass tries again.
Recorded(final) ==
  /\ disk' = st'
  /\ mem' = [mem EXCEPT !.last = wish, !.error = \E n \in wish.nodes : final[n] = Off]
  /\ pass' = NoPass

NothingDiffers == /\ ~CheckInbounds /\ ~GuardsMissing(st, Need)
                  /\ IsApplied(Final(GuardsUp(st, Need)), GuardsUp(st, Need))

SteadyPass ==
  /\ pass.at = "compare" /\ NothingDiffers
  /\ st' = st
  /\ Recorded(Final(GuardsUp(st, Need)))
  /\ UNCHANGED <<wish, check, core, spent>>

ListInbounds ==
  /\ pass.at = "compare" /\ ~NothingDiffers
  /\ pass' = [pass EXCEPT !.at = "guards", !.todo = {p \in Need : st.groups[p] # None}, !.up = {},
       !.present = [nodes |-> {n \in Nodes : core.nodes[n] # Off},
                    guards |-> {p \in Ports : core.guards[p] # None}]]
  /\ UNCHANGED <<wish, check, st, disk, mem, core, spent>>

-----------------------------------------------------------------------------
(* addGuards: every needed guard, before any node is pointed at it.          *)

AtGuard(p) == pass.at = "guards" /\ pass.todo # {} /\ p = Min(pass.todo)

Without(p) == [core EXCEPT !.guards[p] = None]
With(p) == [core EXCEPT !.guards[p] = st.groups[p]]

Listens(p) == p \in pass.present.guards /\ st.guards[p] = st.groups[p]

GuardListens(p) ==
  /\ AtGuard(p) /\ Listens(p)
  /\ pass' = [pass EXCEPT !.todo = @ \ {p}, !.up = @ \cup {p}]
  /\ UNCHANGED <<wish, check, st, disk, mem, core, spent>>

RemoveOldGuard(p) ==
  /\ AtGuard(p) /\ ~Listens(p) /\ p \in pass.present.guards
  /\ core.guards[p] # None
  /\ core' = Without(p)
  /\ st' = [st EXCEPT !.guards[p] = None]
  /\ pass' = [pass EXCEPT !.present.guards = @ \ {p}]
  /\ UNCHANGED <<wish, check, disk, mem, spent>>

AddGuard(p) ==
  /\ AtGuard(p) /\ p \notin pass.present.guards
  /\ core.guards[p] = None
  /\ core' = With(p)
  /\ st' = [st EXCEPT !.guards[p] = st.groups[p]]
  /\ disk' = st'
  /\ pass' = [pass EXCEPT !.todo = @ \ {p}, !.up = @ \cup {p}, !.present.guards = @ \cup {p}]
  /\ UNCHANGED <<wish, check, mem, spent>>

\* A call that the Core refuses: it restarted since its inbounds were listed.
GuardCallRefused(p) == p \in pass.present.guards <=> core.guards[p] = None

\* guardFailed: the pass goes on, its nodes keep their real dest.
GuardFails(p) ==
  /\ AtGuard(p) /\ ~Listens(p)
  /\ IF GuardCallRefused(p) THEN core' = core /\ UNCHANGED spent
     ELSE /\ Spend("fault")
          /\ core' \in {core, IF p \in pass.present.guards THEN Without(p) ELSE With(p)}
  /\ st' = GuardDropped(st, p)
  /\ mem' = [mem EXCEPT !.avoid = @ \cup {p}, !.waiting = TRUE]
  /\ pass' = [pass EXCEPT !.todo = @ \ {p}]
  /\ UNCHANGED <<wish, check, disk>>

-----------------------------------------------------------------------------
(* The nodes: first those that go or change are removed, then the wanted     *)
(* ones are added. The state is saved before the first call and after each.  *)

Changing == {n \in pass.present.nodes : pass.final[n] = Off \/ st.applied[n] # pass.final[n]}

Adding == {n \in Nodes : /\ pass.final[n] # Off
                         /\ n \notin pass.present.nodes \/ st.applied[n] # pass.final[n]}

GuardsDone ==
  /\ pass.at = "guards" /\ pass.todo = {}
  /\ pass' = [pass EXCEPT !.at = "nodes", !.final = Final(pass.up)]
  /\ UNCHANGED <<wish, check, st, mem, core, spent>>
  /\ disk' = IF (Changing \cup Adding)' = {} THEN disk ELSE st

RemoveNode(n) ==
  /\ pass.at = "nodes" /\ n \in Changing
  /\ core.nodes[n] # Off
  /\ core' = [core EXCEPT !.nodes[n] = Off]
  /\ st' = [st EXCEPT !.applied[n] = Off]
  /\ disk' = st'
  /\ pass' = [pass EXCEPT !.present.nodes = @ \ {n}]
  /\ UNCHANGED <<wish, check, mem, spent>>

AddNode(n) ==
  /\ pass.at = "nodes" /\ Changing = {} /\ n \in Adding
  /\ core.nodes[n] = Off
  /\ core' = [core EXCEPT !.nodes[n] = pass.final[n]]
  /\ st' = [st EXCEPT !.applied[n] = pass.final[n]]
  /\ disk' = st'
  /\ pass' = [pass EXCEPT !.present.nodes = @ \cup {n}]
  /\ UNCHANGED <<wish, check, mem, spent>>

NodesDone ==
  /\ pass.at = "nodes" /\ Changing = {} /\ Adding = {}
  /\ pass' = [pass EXCEPT !.at = "drop", !.todo = pass.present.guards \ pass.up]
  /\ UNCHANGED <<wish, check, st, disk, mem, core, spent>>

-----------------------------------------------------------------------------
(* removeGuards: those no node points at any more; a failure is skipped.     *)

DropGuard(p) ==
  /\ pass.at = "drop" /\ p \in pass.todo
  /\ core.guards[p] # None
  /\ core' = Without(p)
  /\ st' = [st EXCEPT !.guards[p] = None]
  /\ pass' = [pass EXCEPT !.todo = @ \ {p}, !.present.guards = @ \ {p}]
  /\ UNCHANGED <<wish, check, disk, mem, spent>>

DropFails(p) ==
  /\ pass.at = "drop" /\ p \in pass.todo
  /\ IF core.guards[p] = None THEN core' = core /\ UNCHANGED spent
     ELSE Spend("fault") /\ core' \in {core, Without(p)}
  /\ pass' = [pass EXCEPT !.todo = @ \ {p}]
  /\ UNCHANGED <<wish, check, st, disk, mem>>

EndPass ==
  /\ pass.at = "drop" /\ pass.todo = {}
  /\ st' = [st EXCEPT !.guards = [p \in Ports |->
              IF p \in pass.up \cup pass.present.guards THEN st.guards[p] ELSE None]]
  /\ Recorded(pass.final)
  /\ UNCHANGED <<wish, check, core, spent>>

-----------------------------------------------------------------------------
(* What goes wrong.                                                          *)

\* The Core after the call under way, if it was carried out.
Landed ==
  CASE pass.at = "egress" /\ Changes -> {core, WithOutbounds, UnheardRules}
    [] pass.at = "stale" -> {core, WithoutStale}
    [] pass.at = "guards" /\ pass.todo # {} ->
         LET p == Min(pass.todo)
         IN {core, IF p \in pass.present.guards THEN Without(p) ELSE With(p)}
    [] pass.at = "nodes" /\ Changing # {} ->
         {core} \cup {[core EXCEPT !.nodes[n] = Off] : n \in Changing}
    [] pass.at = "nodes" /\ Changing = {} ->
         {core} \cup {[core EXCEPT !.nodes[n] = pass.final[n]] : n \in {a \in Adding : core.nodes[a] = Off}}
    [] pass.at = "drop" -> {core} \cup {Without(p) : p \in pass.todo}
    [] OTHER -> {core}

\* A node's call the Core refuses, after a restart.
NodeCallRefused ==
  /\ pass.at = "nodes"
  /\ \/ \E n \in Changing : core.nodes[n] = Off
     \/ Changing = {} /\ \E n \in Adding : core.nodes[n] # Off

\* The answer to the rules was heard, but is not in the state that is left.
Forgotten(lost) == {[c EXCEPT !.unheard = @ \/ lost] : c \in Landed}

MustFail == NodeCallRefused \/ pass.at = "failed"

\* An error ends the pass: the instance is stopped and the next pass starts
\* it anew. The stop and the save of the error may fail too.
FailPass ==
  /\ pass.at # "idle"
  /\ \/ /\ IF MustFail THEN UNCHANGED spent ELSE Spend("fault")
        /\ core' = NewCore
        /\ st' = OfAnotherCore(st) /\ disk' = st'
     \/ /\ Spend("stop")
        /\ core' \in Forgotten(pass.at = "stale")
        /\ st' = st /\ disk' \in {st, disk}
  /\ mem' = [mem EXCEPT !.last = None, !.error = TRUE]
  /\ pass' = NoPass
  /\ UNCHANGED <<wish, check>>

HelperDies ==
  /\ Spend("crash")
  /\ core' \in Forgotten(pass.at = "stale" \/ disk.rules # st.rules)
  /\ st' = disk /\ mem' = NewMemory /\ pass' = NoPass
  /\ UNCHANGED <<wish, check, disk>>

\* A Core that starts before the pass has looked at its epoch is a new one.
BeforePlan == {"idle", "restart", "begin", "failed"}

CoreRestarts ==
  /\ Spend("core")
  /\ core' = [NewCore EXCEPT !.unheard = pass.at \notin BeforePlan]
  /\ st' = OfAnotherCore(st) /\ disk' = OfAnotherCore(disk)
  /\ UNCHANGED <<wish, check, mem, pass>>

-----------------------------------------------------------------------------
\* The steps of a pass in which every call succeeds.
Pass ==
  \/ SaveRestart \/ RestartForRouting \/ PlanPass
  \/ EgressUnchanged \/ (~core.routing /\ RoutingUnavailable) \/ ReplaceRules
  \/ (pass.at = "stale" /\ RemoveStale)
  \/ SteadyPass \/ ListInbounds
  \/ \E p \in Ports : GuardListens(p) \/ RemoveOldGuard(p) \/ AddGuard(p) \/ DropGuard(p)
  \/ \E p \in Ports : GuardFails(p) \/ DropFails(p)
  \/ GuardsDone
  \/ \E n \in Nodes : RemoveNode(n) \/ AddNode(n)
  \/ NodesDone \/ EndPass
  \/ (MustFail /\ FailPass)

PolicyNext ==
  \/ Ask \/ CheckSite \/ RetryDue
  \/ SaveRestart \/ RoutingUnknown \/ RestartForRouting \/ PlanPass
  \/ EgressUnchanged \/ RoutingUnavailable \/ ReplaceRules \/ RenderFails \/ RulesFail
  \/ RemoveStale
  \/ SteadyPass \/ ListInbounds
  \/ \E p \in Ports : GuardListens(p) \/ RemoveOldGuard(p) \/ AddGuard(p) \/ GuardFails(p)
  \/ GuardsDone
  \/ \E n \in Nodes : RemoveNode(n) \/ AddNode(n)
  \/ NodesDone
  \/ \E p \in Ports : DropGuard(p) \/ DropFails(p)
  \/ EndPass
  \/ FailPass \/ HelperDies \/ CoreRestarts

\* run calls reconcile for ever, and reconcile ends by its timeout.
PolicySpec ==
  PolicyInit /\ [][PolicyNext]_policyVars /\ WF_policyVars(Pass) /\ WF_policyVars(RetryDue)

-----------------------------------------------------------------------------
\* An inbound is added only behind the rules it needs (flvx_runtime.go,
\* "Outbounds and rules first"): a node the plan covers only while the Core
\* has the rules of a plan that covers it, and a guarded node only while its
\* guard listens behind its own rules. A record that does not follow the
\* answers breaks it; only rules the Helper could not hear of are exempt.
AddsBehindRules ==
  [][\A n \in Nodes :
       core.nodes[n] = Off /\ core'.nodes[n] # Off /\ ~core.unheard =>
         /\ (n \in CoveredBy(wish.plan) => n \in CoveredBy(core.rules.plan))
         /\ GuardPortOf(core'.nodes[n]) # None =>
              /\ GuardPortOf(core'.nodes[n]) \in core.rules.ports
              /\ core.guards[GuardPortOf(core'.nodes[n])] # None]_policyVars

\* After a pass that succeeded every guarded node that the Core has as it is
\* recorded has its guard, and the guard its rules (removeGuards, guardFinal:
\* never "served with a dead dest"), although guards fail, move and change
\* their ports, and the Helper dies between a call and its record.
NodesHaveTheirGuard ==
  pass.at = "idle" /\ mem.last # None /\ ~core.unheard =>
    \A n \in Nodes :
      core.nodes[n] = st.applied[n] /\ GuardPortOf(core.nodes[n]) # None =>
        /\ core.guards[GuardPortOf(core.nodes[n])] # None
        /\ GuardPortOf(core.nodes[n]) \in core.rules.ports

\* The record of the rules is not what the Core has, and nobody told.
Misled == core.unheard /\ core.rules # st.rules

\* The restart for routing was recorded but never done.
NeverRestarted == st.restarted /\ ~core.routing /\ wish.plan # None

GuardFor(n) == wish.guard /\ \E p \in Ports : core.nodes[n] = Guarded(p) /\ core.guards[p] = st.pins[n].ip

NoPortLeft == FreePorts(st, wish.taken, mem.avoid) = {}

Served(n) ==
  IF ~Pinned(st, n) THEN Pinned(st, n) = (check[wish.dest].best # None \/ check[wish.dest].answer # None)
  ELSE \/ GuardFor(n)
       \/ core.nodes[n] = Direct(st.pins[n].ip) /\ (wish.guard => NoPortLeft \/ ~core.routing)

Converged ==
  /\ core.rules.plan = wish.plan
  /\ \A n \in Nodes : IF n \in wish.nodes THEN Served(n) ELSE core.nodes[n] = Off
  /\ {p \in Ports : st.guards[p] # None} \subseteq {GuardPortOf(core.nodes[n]) : n \in Nodes}

\* Once FLVX, the sites, the Core and the Helper are quiet the Core gets to
\* the plan, the nodes and the guards FLVX asked for, whatever failed before:
\* unless the record of the rules is wrong because the Helper could not hear
\* of them, or the restart was only recorded.
PolicyConverges == <>[](Converged \/ Misled \/ NeverRestarted)
=============================================================================

------------------------ MODULE ServerDeletionProofs ------------------------
(***************************************************************************)
(* Proofs about HelperIdentity and ServerDeletion, for any servers, machines *)
(* and official systems: the deletion takes what it announced, empties no    *)
(* selection, leaves nothing behind unannounced, and the server has no Helper *)
(* and no token when it ends.                                               *)
(***************************************************************************)
EXTENDS ServerDeletion, FiniteSetTheorems, WellFoundedInduction, TLAPS

-----------------------------------------------------------------------------
(* The types *)

Name == Nat \cup {FirstToken[s] : s \in Server}
Credentials == [uuid : Name, token : Name]
Outcome == [command : Nat, ok : BOOLEAN]
IdentityRow == [uuid : Name, hash : Name, pend : Name]
InstallRow == [token : Name, server : Server, uuid : Name, preserve : BOOLEAN]
RebindRow == [token : Name, server : Server]
State ==
    [identity : [Server -> IdentityRow], install : SUBSET InstallRow, rebind : SUBSET RebindRow,
     queue : [Server -> Nat], results : [Server -> SUBSET Outcome]]

HelperTypes ==
    /\ mem \in State /\ file \in State /\ issued \in Nat
    /\ script \in [Machine -> Credentials] /\ config \in [Machine -> Credentials]
    /\ outbox \in [Machine -> Outcome]

Planned == Steps(plan.base, plan.gone)

PlanType(p) ==
    p \in [state : {"deleting", "deleted"}, base : {plan.base}, gone : {plan.gone},
           pending : SUBSET Planned, uninstall : BOOLEAN, command : Nat, waited : BOOLEAN,
           outstanding : {p.outstanding}, helpers : {p.helpers}]

\* The step of a call is one of the first that are left.
CallType ==
    /\ call \in [at : {"act", "delete", "retire", "save"}, step : plan.pending, plan : {call.plan},
                 seen : [DOMAIN call.seen -> NodeRow]]
    /\ PlanType(call.plan) /\ plan.outstanding \subseteq call.plan.outstanding
    /\ plan.state = "deleting"
    /\ \A s \in plan.pending : call.step.rank <= s.rank
    /\ call.at # "save" => call.plan.pending = plan.pending /\ call.plan.state = "deleting"
    /\ call.at = "save" => call.plan.pending \in {plan.pending, plan.pending \ {call.step}}

-----------------------------------------------------------------------------
(* The inductive invariant *)

\* Steps are completed in their order.
Ordered(p) ==
    /\ \A s \in Planned \ p.pending, t \in p.pending : s.rank <= t.rank
    /\ IF p.state = "deleted" THEN p.pending = {} ELSE Step(16, "verify", 0, 0) \in p.pending

\* What the call found and still may rely on.
CallSound ==
    /\ call.at = "act" /\ call.step.kind = "node" /\ call.step.id \in DOMAIN call.seen =>
         call.seen[call.step.id] = plan.base.nodes[call.step.id]
    /\ call.at \in {"act", "delete"} /\ call.step.kind = "server" =>
         \A n \in DOMAIN call.seen : call.seen[n].server # Deleted
    /\ call.at = "delete" => call.step.kind = "server"
    /\ call.at = "retire" => call.step.kind \in {"server", "sweep"} /\ Deleted \notin db.servers
    /\ call.at = "act" => call.step.kind \notin {"helper", "verify"}
    /\ call.at = "act" => call.plan = plan

\* The base of the plan: it has all nodes of the server.
BaseSound ==
    /\ Official(plan.base, Nodes(plan.base)) /\ Nodes(plan.base) \subseteq Nat
    /\ plan.gone = Doomed(plan.base)

\* Nodes that are not to go stay, and on their server.
NodesStay ==
    \A n \in Nodes(plan.base) \ plan.gone :
        n \in Nodes(db) /\ db.nodes[n].server = plan.base.nodes[n].server

Narrowed(selection, base) ==
    selection \subseteq base /\ (selection = {} => base = {})

\* Selections lose nodes, and are emptied by nobody.
SelectionsSound ==
    /\ \A k \in DOMAIN db.packs :
         \/ ByHand(<<"package", k>>)
         \/ k \in DOMAIN plan.base.packs /\ Narrowed(db.packs[k], plan.base.packs[k])
    /\ \A f \in DOMAIN db.files :
         \/ ByHand(<<"subscription", f>>)
         \/ f \in DOMAIN plan.base.files /\ Narrowed(db.files[f], plan.base.files[f])

Announced ==
    plan.outstanding \cup lost \cup (IF call = Idle THEN {} ELSE call.plan.outstanding)
ServerByHand == <<"server", Deleted>> \in touched

\* What a step or a part of it may have left behind is announced, or the notice was lost.
Removed(n) == n \in Nodes(db) => db.nodes[n].server # plan.base.nodes[n].server
NoticesSound ==
    /\ \A n \in plan.gone \cap db.routes : plan.base.nodes[n].server # Deleted /\ Removed(n) =>
         <<"route", plan.base.nodes[n].server, n>> \in Announced
    /\ Deleted \notin db.servers /\ db.agent /\ ~ServerByHand => <<"agent", Deleted, 0>> \in Announced
    /\ call # Idle /\ call.at = "delete" /\ db.agent =>
         <<"agent", Deleted, 0>> \in call.plan.outstanding
    /\ ServerByHand => Deleted \notin db.servers

LeftState(st) ==
    /\ st.identity[Deleted] = NoIdentity /\ st.queue[Deleted] = 0 /\ st.results[Deleted] = {}
    /\ \A r \in st.install \cup st.rebind : r.server # Deleted

\* What holds from the completion of a step on.
Settled(s, outstanding) ==
    CASE s.kind = "package" ->
           s.id \in DOMAIN db.packs => ByHand(<<"package", s.id>>) \/ db.packs[s.id] \cap plan.gone = {}
      [] s.kind = "subscription" ->
           s.id \in DOMAIN db.files =>
               ByHand(<<"subscription", s.id>>) \/ db.files[s.id] \cap plan.gone = {}
      [] s.kind = "empty-subscription" ->
           s.id \in DOMAIN db.files => ByHand(<<"subscription", s.id>>)
      [] s.kind = "tunnel" ->
           s.id \in DOMAIN db.tunnels => <<"tunnel", s.server, s.id>> \in outstanding
      [] s.kind = "inbound" ->
           <<s.server, s.id>> \in db.inbounds => <<"inbound", s.server, s.id>> \in outstanding
      [] s.kind = "node" -> plan.base.nodes[s.id].server # Deleted => Removed(s.id)
      [] s.kind = "server" -> Deleted \notin db.servers
      [] s.kind = "sweep" ->
           /\ Deleted \notin db.servers
           /\ <<"token", Deleted>> \in touched \/ (LeftState(mem) /\ LeftState(file))
      [] OTHER -> TRUE

SettledSteps(p) == \A s \in Planned \ p.pending : Settled(s, p.outstanding)

TunnelsStay ==
    \A t \in DOMAIN db.tunnels :
        t \in DOMAIN plan.base.tunnels /\ db.tunnels[t] = plan.base.tunnels[t]

PlanInv == PlanType(plan) /\ Ordered(plan) /\ SettledSteps(plan)
CallInv == call # Idle => CallType /\ CallSound /\ Ordered(call.plan) /\ SettledSteps(call.plan)
SystemInv == BaseSound /\ NodesStay /\ SelectionsSound /\ TunnelsStay

DeletionInv ==
    /\ HelperTypes
    /\ Official(db, Nat) /\ Nodes(db) \subseteq Nat
    /\ plan = NoPlan => call = Idle /\ Official(db, Nodes(db))
    /\ plan # NoPlan => PlanInv /\ CallInv /\ SystemInv /\ NoticesSound

-----------------------------------------------------------------------------
(* The steps of a plan *)

\* What is known of a step by its kind.
StepOf(s, d, gone) ==
    \/ s.kind = "package" /\ s.rank = 1 /\ s.id \in DOMAIN d.packs
    \/ s.kind = "chain" /\ s.rank = 2
    \/ s.kind = "empty-subscription" /\ s.rank = 3
    \/ s.kind = "group" /\ s.rank = 4
    \/ /\ s.kind = "subscription" /\ s.rank = 5
       /\ s.id \in DOMAIN d.files /\ ~d.files[s.id] \subseteq gone
    \/ s.kind = "trim-group" /\ s.rank = 6
    \/ s.kind = "trim-node" /\ s.rank = 7 /\ s.id \in Nodes(d) \ gone
    \/ s.kind = "tunnel" /\ s.rank = 8
    \/ s.kind \in {"certificate", "inbound"} /\ s.rank = 9
    \/ s.kind = "node" /\ s.rank \in {10, 12} /\ s.id \in gone
    \/ s.kind = "helper" /\ s.rank = 13
    \/ s.kind = "server" /\ s.rank = 14
    \/ s.kind = "sweep" /\ s.rank = 15
    \/ s.kind = "verify" /\ s.rank = 16 /\ s = Step(16, "verify", 0, 0)

LEMMA StepKinds ==
    ASSUME NEW d, NEW gone, Direct(d) \subseteq gone, NEW s \in Steps(d, gone)
    PROVE  StepOf(s, d, gone) /\ s.rank \in 1..16
<1>1. CASE \E k \in {x \in DOMAIN d.packs : d.packs[x] \cap gone # {}} : s = Step(PackagesFirst, "package", 0, k)
      BY <1>1 DEF StepOf, Step, PackagesFirst
<1>2. CASE \E c \in BrokenChains(d) : s = Step(2, "chain", 0, c)
      BY <1>2 DEF StepOf, Step
<1>3. CASE \E f \in DOMAIN d.files : s = Step(3, "empty-subscription", 0, f)
      BY <1>3 DEF StepOf, Step
<1>4. CASE \E g \in Emptied(d) : s = Step(4, "group", 0, g)
      BY <1>4 DEF StepOf, Step
<1>5. CASE \E f \in {x \in DOMAIN d.files : ~d.files[x] \subseteq gone} : s = Step(5, "subscription", 0, f)
      BY <1>5 DEF StepOf, Step
<1>6. CASE \E g \in Affected(d) \ Emptied(d) : s = Step(6, "trim-group", 0, g)
      BY <1>6 DEF StepOf, Step
<1>7. CASE \E n \in Nodes(d) \ gone : s = Step(7, "trim-node", 0, n)
      BY <1>7 DEF StepOf, Step
<1>8. CASE \E t \in BrokenTunnels(d) : s = Step(8, "tunnel", d.tunnels[t].server, t)
      BY <1>8 DEF StepOf, Step
<1>9. CASE \E c \in DOMAIN d.certificates : s = Step(9, "certificate", 0, c)
      BY <1>9 DEF StepOf, Step
<1>10. CASE \E i \in DeadInbounds(d, gone) : s = Step(9, "inbound", i[1], i[2])
       BY <1>10 DEF StepOf, Step
<1>11. CASE \E n \in gone : s = Step(10, "node", 0, n) \/ s = Step(12, "node", 0, n)
       BY <1>11 DEF StepOf, Step
<1>12. CASE s = Step(13, "helper", 0, 0) \/ s = Step(14, "server", 0, 0) \/ s = Step(15, "sweep", 0, 0)
            \/ s = Step(16, "verify", 0, 0)
       BY <1>12 DEF StepOf, Step
<1> QED BY <1>1, <1>2, <1>3, <1>4, <1>5, <1>6, <1>7, <1>8, <1>9, <1>10, <1>11, <1>12 DEF Steps

LEMMA PlannedSteps ==
    ASSUME NEW d, NEW gone
    PROVE  /\ \A k \in DOMAIN d.packs : d.packs[k] \cap gone # {} => Step(1, "package", 0, k) \in Steps(d, gone)
           /\ \A f \in DOMAIN d.files : d.files[f] # {} /\ d.files[f] \subseteq gone =>
                Step(3, "empty-subscription", 0, f) \in Steps(d, gone)
           /\ \A f \in DOMAIN d.files : d.files[f] \cap gone # {} /\ ~d.files[f] \subseteq gone =>
                Step(5, "subscription", 0, f) \in Steps(d, gone)
           /\ \A t \in BrokenTunnels(d) : d.tunnels[t].server # Deleted =>
                Step(8, "tunnel", d.tunnels[t].server, t) \in Steps(d, gone)
           /\ \A i \in DeadInbounds(d, gone) : Step(9, "inbound", i[1], i[2]) \in Steps(d, gone)
           /\ \A n \in gone \ Direct(d) : Step(10, "node", 0, n) \in Steps(d, gone)
           /\ Step(14, "server", 0, 0) \in Steps(d, gone) /\ Step(15, "sweep", 0, 0) \in Steps(d, gone)
BY DEF Steps, PackagesFirst

LEMMA LeastNumber ==
    ASSUME NEW S \in SUBSET Nat, S # {}
    PROVE  \E m \in S : \A k \in S : m <= k
<1>1. PICK m \in S : \A k \in S : <<k, m>> \notin OpToRel(<, Nat)
      BY NatLessThanWellFounded, WFMin
<1>2. m \in Nat /\ \A k \in S : k \in Nat OBVIOUS
<1>3. \A k \in S : ~(k < m) BY <1>1, <1>2, Zenon DEF OpToRel
<1> QED BY <1>2, <1>3

\* There is a first step among those that are left.
LEMMA FirstStep ==
    ASSUME plan.pending # {}, \A s \in plan.pending : s.rank \in 1..16
    PROVE  Current \in plan.pending /\ \A s \in plan.pending : Current.rank <= s.rank
<1> DEFINE R == {s.rank : s \in plan.pending}
<1>1. R \in SUBSET Nat /\ R # {} OBVIOUS
<1>2. PICK m \in R : \A k \in R : m <= k BY <1>1, LeastNumber
<1>3. \E s \in plan.pending : \A t \in plan.pending : s.rank <= t.rank BY <1>2
<1> QED BY <1>3 DEF Current

LEMMA DoomedNodes ==
    ASSUME NEW d
    PROVE  Doomed(d) \subseteq Nodes(d) /\ Direct(d) \subseteq Doomed(d)
BY DEF Doomed, DependsOnServer, Direct

-----------------------------------------------------------------------------
(* The official system *)

\* Everything but the nodes and the selections of them only gets less.
Shrinks(d, e) ==
    /\ e.servers \subseteq d.servers /\ e.inbounds \subseteq d.inbounds
    /\ e.routes \subseteq d.routes /\ (e.agent => d.agent)
    /\ \A t \in DOMAIN e.tunnels : t \in DOMAIN d.tunnels /\ e.tunnels[t] = d.tunnels[t]
    /\ \A n \in Nodes(e) : e.nodes[n].server = IF n \in Nodes(d) THEN d.nodes[n].server ELSE Deleted
    /\ DOMAIN e.packs \subseteq DOMAIN d.packs /\ DOMAIN e.files \subseteq DOMAIN d.files

\* The nodes S go, also from the selections.
Loses(d, e, S) ==
    /\ Nodes(e) = Nodes(d) \ S
    /\ \A k \in DOMAIN e.packs : e.packs[k] = d.packs[k] \ S
    /\ \A f \in DOMAIN e.files : e.files[f] = d.files[f] \ S

LEMMA OfficialFields ==
    ASSUME NEW d, NEW nodes, Official(d, nodes)
    PROVE  /\ d.servers \in SUBSET Server /\ d.nodes \in [Nodes(d) -> NodeRow]
           /\ d.packs \in [DOMAIN d.packs -> SUBSET nodes] /\ d.files \in [DOMAIN d.files -> SUBSET nodes]
           /\ d.groups \in [DOMAIN d.groups -> SUBSET Server]
           /\ d.inbounds \in SUBSET (Server \X Nat) /\ d.routes \in SUBSET Nat
           /\ d.certificates \in [DOMAIN d.certificates -> SUBSET {"renew", "deploy"}]
           /\ d.agent \in BOOLEAN
BY DEF Official, Selection, Nodes

LEMMA SetServers ==
    ASSUME NEW d, NEW nodes, Official(d, nodes), NEW S \in SUBSET Server
    PROVE  LET e == [d EXCEPT !.servers = S]
           IN  /\ Official(e, nodes) /\ e.servers = S /\ e.nodes = d.nodes /\ e.packs = d.packs
               /\ e.files = d.files /\ e.inbounds = d.inbounds /\ e.routes = d.routes
               /\ e.tunnels = d.tunnels /\ e.agent = d.agent
BY DEF Official

LEMMA SetNodes ==
    ASSUME NEW d, NEW nodes, Official(d, nodes), NEW f, f \in [DOMAIN f -> NodeRow]
    PROVE  LET e == [d EXCEPT !.nodes = f]
           IN  /\ Official(e, nodes) /\ e.servers = d.servers /\ e.nodes = f /\ e.packs = d.packs
               /\ e.files = d.files /\ e.inbounds = d.inbounds /\ e.routes = d.routes
               /\ e.tunnels = d.tunnels /\ e.agent = d.agent
BY DEF Official

LEMMA SetPacks ==
    ASSUME NEW d, NEW nodes, Official(d, nodes), NEW f, f \in [DOMAIN f -> SUBSET nodes]
    PROVE  LET e == [d EXCEPT !.packs = f]
           IN  /\ Official(e, nodes) /\ e.servers = d.servers /\ e.nodes = d.nodes /\ e.packs = f
               /\ e.files = d.files /\ e.inbounds = d.inbounds /\ e.routes = d.routes
               /\ e.tunnels = d.tunnels /\ e.agent = d.agent
BY DEF Official, Selection

LEMMA SetFiles ==
    ASSUME NEW d, NEW nodes, Official(d, nodes), NEW f, f \in [DOMAIN f -> SUBSET nodes]
    PROVE  LET e == [d EXCEPT !.files = f]
           IN  /\ Official(e, nodes) /\ e.servers = d.servers /\ e.nodes = d.nodes /\ e.packs = d.packs
               /\ e.files = f /\ e.inbounds = d.inbounds /\ e.routes = d.routes
               /\ e.tunnels = d.tunnels /\ e.agent = d.agent
BY DEF Official, Selection

LEMMA SetInbounds ==
    ASSUME NEW d, NEW nodes, Official(d, nodes), NEW S \in SUBSET (Server \X Nat)
    PROVE  LET e == [d EXCEPT !.inbounds = S]
           IN  /\ Official(e, nodes) /\ e.servers = d.servers /\ e.nodes = d.nodes /\ e.packs = d.packs
               /\ e.files = d.files /\ e.inbounds = S /\ e.routes = d.routes
               /\ e.tunnels = d.tunnels /\ e.agent = d.agent
BY DEF Official

LEMMA SetRoutes ==
    ASSUME NEW d, NEW nodes, Official(d, nodes), NEW S \in SUBSET Nat
    PROVE  LET e == [d EXCEPT !.routes = S]
           IN  /\ Official(e, nodes) /\ e.servers = d.servers /\ e.nodes = d.nodes /\ e.packs = d.packs
               /\ e.files = d.files /\ e.inbounds = d.inbounds /\ e.routes = S
               /\ e.tunnels = d.tunnels /\ e.agent = d.agent
BY DEF Official

LEMMA SetTunnels ==
    ASSUME NEW d, NEW nodes, Official(d, nodes), NEW S
    PROVE  LET e == [d EXCEPT !.tunnels = Without(@, S)]
           IN  /\ Official(e, nodes) /\ e.servers = d.servers /\ e.nodes = d.nodes /\ e.packs = d.packs
               /\ e.files = d.files /\ e.inbounds = d.inbounds /\ e.routes = d.routes
               /\ e.tunnels = Without(d.tunnels, S) /\ e.agent = d.agent
BY DEF Official, Without

LEMMA SetAgent ==
    ASSUME NEW d, NEW nodes, Official(d, nodes), NEW b \in BOOLEAN
    PROVE  LET e == [d EXCEPT !.agent = b]
           IN  /\ Official(e, nodes) /\ e.servers = d.servers /\ e.nodes = d.nodes /\ e.packs = d.packs
               /\ e.files = d.files /\ e.inbounds = d.inbounds /\ e.routes = d.routes
               /\ e.tunnels = d.tunnels /\ e.agent = b
BY DEF Official

\* What the deletion does not depend on.
SameSystem(d, e) ==
    /\ e.servers = d.servers /\ e.nodes = d.nodes /\ e.packs = d.packs /\ e.files = d.files
    /\ e.inbounds = d.inbounds /\ e.routes = d.routes /\ e.tunnels = d.tunnels /\ e.agent = d.agent

LEMMA SetChains ==
    ASSUME NEW d, NEW nodes, Official(d, nodes), NEW S, NEW e, e = [d EXCEPT !.chains = Without(@, S)]
    PROVE  Official(e, nodes) /\ SameSystem(d, e)
BY DEF Official, SameSystem, Without

LEMMA SetGroups ==
    ASSUME NEW d, NEW nodes, Official(d, nodes), NEW f, f \in [DOMAIN f -> SUBSET Server],
           NEW e, e = [d EXCEPT !.groups = f]
    PROVE  Official(e, nodes) /\ SameSystem(d, e)
BY DEF Official, SameSystem, Selection

LEMMA SetCertificates ==
    ASSUME NEW d, NEW nodes, Official(d, nodes), NEW f, f \in [DOMAIN f -> SUBSET {"renew", "deploy"}],
           NEW e, e = [d EXCEPT !.certificates = f]
    PROVE  Official(e, nodes) /\ SameSystem(d, e)
BY DEF Official, SameSystem, Selection

LEMMA SetRows ==
    ASSUME NEW d, NEW nodes, Official(d, nodes), NEW r \in {"none", "all", "late"},
           NEW e, e = [d EXCEPT !.rows = r]
    PROVE  Official(e, nodes) /\ SameSystem(d, e)
BY DEF Official, SameSystem

LEMMA SetUp ==
    ASSUME NEW d, NEW nodes, Official(d, nodes), NEW S \in SUBSET Server,
           NEW e, e = [d EXCEPT !.up = S]
    PROVE  Official(e, nodes) /\ SameSystem(d, e)
BY DEF Official, SameSystem

LEMMA SetRenewed ==
    ASSUME NEW d, NEW nodes, Official(d, nodes), NEW e, e = [d EXCEPT !.renewed = TRUE]
    PROVE  Official(e, nodes) /\ SameSystem(d, e)
BY DEF Official, SameSystem

\* The nodes S go with all selections of them.
NodesOnly(d, e) ==
    /\ e.servers = d.servers /\ e.inbounds = d.inbounds /\ e.routes = d.routes
    /\ e.tunnels = d.tunnels /\ e.agent = d.agent
    /\ \A n \in Nodes(e) : n \in Nodes(d) /\ e.nodes[n] = d.nodes[n]

LEMMA NodesGo ==
    ASSUME NEW d, NEW nodes, Official(d, nodes), NEW S, NEW e, e = WithoutNodes(d, S)
    PROVE  Official(e, nodes) /\ NodesOnly(d, e) /\ Shrinks(d, e) /\ Loses(d, e, S)
<1> DEFINE f == [n \in Nodes(d) \ S |-> d.nodes[n]]
           p == [k \in DOMAIN d.packs |-> d.packs[k] \ S]
           q == [k \in DOMAIN d.files |-> d.files[k] \ S]
<1>1. e = [d EXCEPT !.nodes = f, !.packs = p, !.files = q] BY DEF WithoutNodes, Without, Nodes
<1>2. /\ f \in [DOMAIN f -> NodeRow]
      /\ p \in [DOMAIN p -> SUBSET nodes] /\ q \in [DOMAIN q -> SUBSET nodes]
      BY OfficialFields
<1>3. DOMAIN f = Nodes(d) \ S /\ DOMAIN p = DOMAIN d.packs /\ DOMAIN q = DOMAIN d.files OBVIOUS
<1>4. /\ \A n \in Nodes(d) \ S : f[n] = d.nodes[n]
      /\ \A k \in DOMAIN d.packs : p[k] = d.packs[k] \ S
      /\ \A k \in DOMAIN d.files : q[k] = d.files[k] \ S
      OBVIOUS
<1> HIDE DEF f, p, q
<1>6. /\ Official(e, nodes) /\ e.servers = d.servers /\ e.inbounds = d.inbounds
      /\ e.routes = d.routes /\ e.tunnels = d.tunnels /\ e.agent = d.agent
      /\ e.nodes = f /\ e.packs = p /\ e.files = q
  <2>1. PICK c : c = [d EXCEPT !.nodes = f] OBVIOUS
  <2>2. /\ Official(c, nodes) /\ c.servers = d.servers /\ c.nodes = f
        /\ c.inbounds = d.inbounds /\ c.routes = d.routes /\ c.tunnels = d.tunnels /\ c.agent = d.agent
        BY <1>2, <2>1, SetNodes
  <2>3. PICK b : b = [c EXCEPT !.packs = p] OBVIOUS
  <2>4. /\ Official(b, nodes) /\ b.servers = d.servers /\ b.nodes = f /\ b.packs = p
        /\ b.inbounds = d.inbounds /\ b.routes = d.routes /\ b.tunnels = d.tunnels /\ b.agent = d.agent
        BY <1>2, <2>2, <2>3, SetPacks
  <2>5. e = [b EXCEPT !.files = q] BY <1>1, <2>1, <2>3
  <2> QED BY <1>2, <2>4, <2>5, SetFiles
<1>7. Shrinks(d, e) BY <1>3, <1>4, <1>6 DEF Shrinks, Nodes
<1>8. Loses(d, e, S) BY <1>3, <1>4, <1>6 DEF Loses, Nodes
<1>9. NodesOnly(d, e) BY <1>3, <1>4, <1>6 DEF NodesOnly, Nodes
<1> QED BY <1>6, <1>7, <1>8, <1>9

-----------------------------------------------------------------------------
(* What a step does to the official system *)

LostNodes(d, s) ==
    IF s.kind = "node" THEN {s.id} ELSE IF s.kind = "server" THEN Direct(d) ELSE {}

\* The packages and files are those of before, without the nodes that go, but for what
\* the step itself is about.
Trims(d, e, s, p) ==
    /\ Nodes(e) = Nodes(d) \ LostNodes(d, s)
    /\ s.kind # "server" => e.servers = d.servers
    /\ \A k \in DOMAIN e.packs :
         IF s.kind = "package" /\ k = s.id
         THEN e.packs[k] = d.packs[k] \ p.gone /\ e.packs[k] # {}
         ELSE e.packs[k] = d.packs[k] \ LostNodes(d, s)
    /\ \A f \in DOMAIN e.files :
         IF s.kind = "subscription" /\ f = s.id THEN e.files[f] = p.base.files[f] \ p.gone
         ELSE e.files[f] = d.files[f] \ LostNodes(d, s)

\* What the step is for.
Fulfils(e, s) ==
    /\ s.kind = "empty-subscription" => s.id \notin DOMAIN e.files
    /\ s.kind = "tunnel" => s.id \notin DOMAIN e.tunnels
    /\ s.kind = "inbound" => <<s.server, s.id>> \notin e.inbounds
    /\ s.kind = "node" => s.id \notin e.routes
    /\ s.kind = "server" => Deleted \notin e.servers

LEMMA SameTrims ==
    ASSUME NEW d, NEW e, SameSystem(d, e), NEW s, NEW p,
           s.kind \notin {"package", "subscription", "node", "server"}
    PROVE  Shrinks(d, e) /\ Trims(d, e, s, p)
BY DEF SameSystem, Shrinks, Trims, LostNodes, Nodes

LEMMA EffectSound ==
    ASSUME NEW d, Official(d, Nat), NEW p, Official(p.base, Nodes(p.base)), Nodes(p.base) \subseteq Nat,
           NEW s, StepOf(s, p.base, p.gone), s.kind \notin {"helper", "verify"},
           \A n \in Nodes(d) \cap Nodes(p.base) : n \notin p.gone => d.nodes[n].server = p.base.nodes[n].server,
           NEW e, e = Effect(d, s, p)
    PROVE  Official(e, Nat) /\ Shrinks(d, e) /\ Trims(d, e, s, p) /\ Fulfils(e, s) /\ e.agent = d.agent
<1>1. CASE s.kind = "package"
  <2>1. e = Trimmed(d, s.id, p.gone) BY <1>1 DEF Effect
  <2>2. CASE d.packs[s.id] \subseteq p.gone
    <3> DEFINE f == [k \in DOMAIN d.packs \ {s.id} |-> d.packs[k]]
    <3>1. e = [d EXCEPT !.packs = f] BY <2>1, <2>2 DEF Trimmed, Without
    <3>2. f \in [DOMAIN f -> SUBSET Nat] BY OfficialFields
    <3>3. DOMAIN f = DOMAIN d.packs \ {s.id} /\ \A k \in DOMAIN f : f[k] = d.packs[k] OBVIOUS
    <3> HIDE DEF f
    <3>4. /\ Official(e, Nat) /\ e.servers = d.servers /\ e.nodes = d.nodes /\ e.packs = f
          /\ e.files = d.files /\ e.inbounds = d.inbounds /\ e.routes = d.routes
          /\ e.tunnels = d.tunnels /\ e.agent = d.agent
          BY <3>1, <3>2, SetPacks
    <3> QED BY <1>1, <3>3, <3>4 DEF Shrinks, Trims, Fulfils, LostNodes, Nodes
  <2>3. CASE ~d.packs[s.id] \subseteq p.gone
    <3> DEFINE f == [d.packs EXCEPT ![s.id] = d.packs[s.id] \ p.gone]
    <3>1. e = [d EXCEPT !.packs = f] BY <2>1, <2>3 DEF Trimmed
    <3>3. /\ f = [k \in DOMAIN d.packs |-> f[k]] /\ DOMAIN f = DOMAIN d.packs
          /\ \A k \in DOMAIN d.packs : f[k] = IF k = s.id THEN d.packs[k] \ p.gone ELSE d.packs[k]
          OBVIOUS
    <3> HIDE DEF f
    <3>a. \A k \in DOMAIN d.packs : d.packs[k] \in SUBSET Nat BY OfficialFields
    <3>2. f \in [DOMAIN f -> SUBSET Nat] BY <3>3, <3>a
    <3> HIDE DEF f
    <3>4. /\ Official(e, Nat) /\ e.servers = d.servers /\ e.nodes = d.nodes /\ e.packs = f
          /\ e.files = d.files /\ e.inbounds = d.inbounds /\ e.routes = d.routes
          /\ e.tunnels = d.tunnels /\ e.agent = d.agent
          BY <3>1, <3>2, SetPacks
    <3>5. d.packs[s.id] \ p.gone # {} BY <2>3
    <3> QED BY <1>1, <3>3, <3>4, <3>5 DEF Shrinks, Trims, Fulfils, LostNodes, Nodes
  <2> QED BY <2>2, <2>3
<1>2. CASE s.kind \in {"chain", "group", "trim-group", "certificate"}
  <2>1. Official(e, Nat) /\ SameSystem(d, e)
    <3>1. CASE s.kind = "chain"
      <4>1. e = [d EXCEPT !.chains = Without(@, {s.id})] BY <3>1 DEF Effect
      <4> QED BY <4>1, SetChains
    <3>2. CASE s.kind = "group"
      <4> DEFINE f == Without(d.groups, {s.id})
      <4>1. e = [d EXCEPT !.groups = f] BY <3>2 DEF Effect
      <4>2. f \in [DOMAIN f -> SUBSET Server] BY OfficialFields DEF Without
      <4> HIDE DEF f
      <4> QED BY <4>1, <4>2, SetGroups
    <3>3. CASE s.kind = "trim-group"
      <4> DEFINE f == [d.groups EXCEPT ![s.id] = @ \ {Deleted}]
      <4>1. e = [d EXCEPT !.groups = f] BY <3>3 DEF Effect
      <4>3. /\ f = [g \in DOMAIN d.groups |-> f[g]] /\ DOMAIN f = DOMAIN d.groups
            /\ \A g \in DOMAIN d.groups : f[g] \subseteq d.groups[g]
            OBVIOUS
      <4> HIDE DEF f
      <4>4. \A g \in DOMAIN d.groups : d.groups[g] \in SUBSET Server BY OfficialFields
      <4>2. f \in [DOMAIN f -> SUBSET Server] BY <4>3, <4>4
      <4> HIDE DEF f
      <4> QED BY <4>1, <4>2, SetGroups
    <3>4. CASE s.kind = "certificate"
      <4> DEFINE f == [d.certificates EXCEPT ![s.id] = {}]
      <4>1. e = [d EXCEPT !.certificates = f] BY <3>4 DEF Effect
      <4>2. f \in [DOMAIN f -> SUBSET {"renew", "deploy"}] BY OfficialFields
      <4> HIDE DEF f
      <4> QED BY <4>1, <4>2, SetCertificates
    <3> QED BY <1>2, <3>1, <3>2, <3>3, <3>4
  <2> QED BY <1>2, <2>1, SameTrims DEF Fulfils, SameSystem
<1>3. CASE s.kind \in {"empty-subscription", "subscription"}
  <2> DEFINE f == IF s.kind = "subscription"
                  THEN [d.files EXCEPT ![s.id] = Kept(p.base.files[s.id], p)]
                  ELSE Without(d.files, {s.id})
  <2>1. e = [d EXCEPT !.files = f] BY <1>3 DEF Effect
  <2>2. s.kind = "subscription" => Kept(p.base.files[s.id], p) \in SUBSET Nat
        BY OfficialFields DEF StepOf, Kept
  <2>f. f = [k \in DOMAIN f |-> f[k]] BY DEF Without
  <2>4. /\ DOMAIN f \subseteq DOMAIN d.files
        /\ s.kind # "subscription" => s.id \notin DOMAIN f
        /\ \A k \in DOMAIN f : f[k] = IF s.kind = "subscription" /\ k = s.id
                                      THEN p.base.files[k] \ p.gone ELSE d.files[k]
        BY DEF Without, Kept
  <2> HIDE DEF f
  <2>a. \A k \in DOMAIN d.files : d.files[k] \in SUBSET Nat BY OfficialFields
  <2>3. f \in [DOMAIN f -> SUBSET Nat] BY <2>2, <2>4, <2>a, <2>f DEF Kept
  <2>5. /\ Official(e, Nat) /\ e.servers = d.servers /\ e.nodes = d.nodes /\ e.packs = d.packs
        /\ e.files = f /\ e.inbounds = d.inbounds /\ e.routes = d.routes
        /\ e.tunnels = d.tunnels /\ e.agent = d.agent
        BY <2>1, <2>3, SetFiles
  <2> QED BY <1>3, <2>4, <2>5 DEF Shrinks, Trims, Fulfils, LostNodes, Nodes
<1>4. CASE s.kind = "trim-node"
  <2> DEFINE r == [p.base.nodes[s.id] EXCEPT !.relay = Kept(@, p)]
             f == [d.nodes EXCEPT ![s.id] = r]
  <2>1. e = [d EXCEPT !.nodes = f] BY <1>4 DEF Effect
  <2>2. s.id \in Nodes(p.base) \ p.gone BY <1>4 DEF StepOf
  <2>3. p.base.nodes[s.id] \in NodeRow BY <2>2, OfficialFields
  <2>4. r \in NodeRow /\ r.server = p.base.nodes[s.id].server BY <2>3 DEF NodeRow, Kept
  <2>5. f \in [DOMAIN f -> NodeRow] BY <2>4, OfficialFields
  <2>6. DOMAIN f = Nodes(d) /\ \A n \in Nodes(d) : f[n].server = d.nodes[n].server
        BY <2>2, <2>4 DEF Nodes
  <2> HIDE DEF f
  <2>7. /\ Official(e, Nat) /\ e.servers = d.servers /\ e.nodes = f /\ e.packs = d.packs
        /\ e.files = d.files /\ e.inbounds = d.inbounds /\ e.routes = d.routes
        /\ e.tunnels = d.tunnels /\ e.agent = d.agent
        BY <2>1, <2>5, SetNodes
  <2> QED BY <1>4, <2>6, <2>7 DEF Shrinks, Trims, Fulfils, LostNodes, Nodes
<1>5. CASE s.kind = "inbound"
  <2> DEFINE S == d.inbounds \ {<<s.server, s.id>>}
  <2>1. e = [d EXCEPT !.inbounds = S] BY <1>5 DEF Effect
  <2>2. S \in SUBSET (Server \X Nat) BY OfficialFields
  <2>s. S \subseteq d.inbounds /\ <<s.server, s.id>> \notin S OBVIOUS
  <2> HIDE DEF S
  <2>3. /\ Official(e, Nat) /\ e.servers = d.servers /\ e.nodes = d.nodes /\ e.packs = d.packs
        /\ e.files = d.files /\ e.inbounds = S /\ e.routes = d.routes
        /\ e.tunnels = d.tunnels /\ e.agent = d.agent
        BY <2>1, <2>2, SetInbounds
  <2> QED BY <1>5, <2>3, <2>s DEF Shrinks, Trims, Fulfils, LostNodes, Nodes
<1>6. CASE s.kind = "tunnel"
  <2>1. e = [d EXCEPT !.tunnels = Without(@, {s.id})] BY <1>6 DEF Effect
  <2>2. /\ Official(e, Nat) /\ e.servers = d.servers /\ e.nodes = d.nodes /\ e.packs = d.packs
        /\ e.files = d.files /\ e.inbounds = d.inbounds /\ e.routes = d.routes
        /\ e.tunnels = Without(d.tunnels, {s.id}) /\ e.agent = d.agent
        BY <2>1, SetTunnels
  <2> QED BY <1>6, <2>2 DEF Shrinks, Trims, Fulfils, LostNodes, Nodes, Without
<1>7. CASE s.kind = "node"
  <2> DEFINE c == [d EXCEPT !.routes = d.routes \ {s.id}]
  <2>1. e = WithoutNodes(c, {s.id}) BY <1>7 DEF Effect
  <2>2. d.routes \ {s.id} \in SUBSET Nat BY OfficialFields
  <2>3. /\ Official(c, Nat) /\ c.servers = d.servers /\ c.nodes = d.nodes /\ c.packs = d.packs
        /\ c.files = d.files /\ c.inbounds = d.inbounds /\ c.routes = d.routes \ {s.id}
        /\ c.tunnels = d.tunnels /\ c.agent = d.agent
        BY <2>2, SetRoutes
  <2> HIDE DEF c
  <2>o. Official(c, Nat) BY <2>3
  <2>4. Official(e, Nat) /\ NodesOnly(c, e) /\ Shrinks(c, e) /\ Loses(c, e, {s.id})
        BY <2>1, <2>o, NodesGo
  <2>5. Shrinks(d, e) BY <2>3, <2>4 DEF Shrinks, Nodes
  <2>6. Trims(d, e, s, p) BY <1>7, <2>3, <2>4 DEF Loses, NodesOnly, Trims, LostNodes, Nodes
  <2> QED BY <1>7, <2>3, <2>4, <2>5, <2>6 DEF Fulfils, NodesOnly
<1>8. CASE s.kind = "server"
  <2> DEFINE c == WithoutNodes(d, Direct(d))
  <2>1. e = [c EXCEPT !.servers = c.servers \ {Deleted}] BY <1>8 DEF Effect
  <2>c. c = WithoutNodes(d, Direct(d)) OBVIOUS
  <2> HIDE DEF c
  <2>2. Official(c, Nat) /\ NodesOnly(d, c) /\ Shrinks(d, c) /\ Loses(d, c, Direct(d))
        BY <2>c, NodesGo
  <2>3. c.servers \ {Deleted} \in SUBSET Server BY <2>2, OfficialFields
  <2>4. /\ Official(e, Nat) /\ e.servers = c.servers \ {Deleted} /\ e.nodes = c.nodes
        /\ e.packs = c.packs /\ e.files = c.files /\ e.inbounds = c.inbounds
        /\ e.routes = c.routes /\ e.tunnels = c.tunnels /\ e.agent = c.agent
        BY <2>1, <2>2, <2>3, SetServers
  <2>5. Shrinks(d, e) BY <2>2, <2>4 DEF Shrinks, Nodes
  <2>6. Trims(d, e, s, p) BY <1>8, <2>2, <2>4 DEF Loses, Trims, LostNodes, Nodes
  <2> QED BY <1>8, <2>2, <2>4, <2>5, <2>6 DEF Fulfils, NodesOnly
<1>9. CASE s.kind = "sweep"
  <2> DEFINE c == [d EXCEPT !.rows = "none"]
             f == [g \in DOMAIN d.groups |-> d.groups[g] \ {Deleted}]
  <2>1. Official(c, Nat) /\ SameSystem(d, c) BY SetRows
  <2>2. c.groups = d.groups BY DEF Official
  <2>3. e = [d EXCEPT !.rows = "none", !.groups = f] BY <1>9 DEF Effect
  <2>4. e = [c EXCEPT !.groups = f] BY <2>3
  <2>5. f \in [DOMAIN f -> SUBSET Server] BY OfficialFields
  <2> HIDE DEF c, f
  <2>6. Official(e, Nat) /\ SameSystem(c, e) BY <2>1, <2>4, <2>5, SetGroups
  <2>7. SameSystem(d, e) BY <2>1, <2>6 DEF SameSystem
  <2> QED BY <1>9, <2>6, <2>7, SameTrims DEF Fulfils, SameSystem
<1> QED BY <1>1, <1>2, <1>3, <1>4, <1>5, <1>6, <1>7, <1>8, <1>9 DEF StepOf

\* A step that breaks off.
BreaksOff(d, e, s, p) ==
    /\ Official(e, Nat) /\ Shrinks(d, e) /\ e.agent = d.agent
    /\ Trims(d, e, s, p) \/ (Loses(d, e, {}) /\ e.servers = d.servers)
    /\ s.kind = "node" /\ s.id \notin Nodes(e) => s.id \notin Nodes(d) \/ s.id \notin e.routes

LEMMA HalfwaySound ==
    ASSUME NEW d, Official(d, Nat), NEW p, Official(p.base, Nodes(p.base)), Nodes(p.base) \subseteq Nat,
           NEW s, StepOf(s, p.base, p.gone), s.kind \notin {"helper", "verify"},
           \A n \in Nodes(d) \cap Nodes(p.base) : n \notin p.gone => d.nodes[n].server = p.base.nodes[n].server,
           NEW e, e \in Halfway(d, s, p)
    PROVE  BreaksOff(d, e, s, p)
<1>1. CASE e = Effect(d, s, p)
  <2>1. Official(e, Nat) /\ Shrinks(d, e) /\ Trims(d, e, s, p) /\ Fulfils(e, s) /\ e.agent = d.agent
        BY <1>1, EffectSound
  <2> QED BY <2>1 DEF Fulfils, BreaksOff
<1>2. CASE e = d
      BY <1>2 DEF Shrinks, Loses, BreaksOff
<1>3. CASE s.kind = "certificate" /\ e = [d EXCEPT !.certificates[s.id] = @ \ {"renew"}]
  <2> DEFINE f == [d.certificates EXCEPT ![s.id] = @ \ {"renew"}]
  <2>1. e = [d EXCEPT !.certificates = f] BY <1>3
  <2>4. /\ f = [c \in DOMAIN d.certificates |-> f[c]] /\ DOMAIN f = DOMAIN d.certificates
        /\ \A c \in DOMAIN d.certificates : f[c] \subseteq d.certificates[c]
        OBVIOUS
  <2> HIDE DEF f
  <2>5. \A c \in DOMAIN d.certificates : d.certificates[c] \in SUBSET {"renew", "deploy"}
        BY OfficialFields
  <2>2. f \in [DOMAIN f -> SUBSET {"renew", "deploy"}] BY <2>4, <2>5
  <2> HIDE DEF f
  <2>3. Official(e, Nat) /\ SameSystem(d, e) BY <2>1, <2>2, SetCertificates
  <2> QED BY <1>3, <2>3 DEF SameSystem, Shrinks, Loses, Nodes, BreaksOff
<1>4. CASE e = [d EXCEPT !.routes = @ \ {s.id}]
  <2>1. e = [d EXCEPT !.routes = d.routes \ {s.id}] BY <1>4
  <2>2. d.routes \ {s.id} \in SUBSET Nat BY OfficialFields
  <2>3. /\ Official(e, Nat) /\ e.servers = d.servers /\ e.nodes = d.nodes /\ e.packs = d.packs
        /\ e.files = d.files /\ e.inbounds = d.inbounds /\ e.routes = d.routes \ {s.id}
        /\ e.tunnels = d.tunnels /\ e.agent = d.agent
        BY <2>1, <2>2, SetRoutes
  <2> QED BY <2>3 DEF Shrinks, Loses, Nodes, BreaksOff
<1> QED BY <1>1, <1>2, <1>3, <1>4 DEF Halfway

-----------------------------------------------------------------------------
(* What the invariant says of the official system *)

SamePlan == plan' # NoPlan /\ plan'.base = plan.base /\ plan'.gone = plan.gone

\* Selections only lose nodes, and none becomes empty, but by hand.
SelectionsMove ==
    /\ \A k \in DOMAIN db'.packs : ByHand(<<"package", k>>)' \/ Narrowed(db'.packs[k], db.packs[k])
    /\ \A f \in DOMAIN db'.files :
         \/ ByHand(<<"subscription", f>>)'
         \/ Narrowed(db'.files[f], db.files[f])
         \/ /\ f \in DOMAIN plan.base.files /\ Narrowed(db'.files[f], plan.base.files[f])
            /\ db'.files[f] \cap plan.gone = {}

Moves ==
    /\ Official(db', Nat) /\ Nodes(db') \subseteq Nat
    /\ Shrinks(db, db') /\ touched \subseteq touched'
    /\ SelectionsMove

NodesGone ==
    \A n \in Nodes(db) \ Nodes(db') : n \in plan.gone \/ db.nodes[n].server = Deleted

LEMMA SystemKept ==
    ASSUME BaseSound, NodesStay, SelectionsSound, TunnelsStay, SamePlan, Moves, NodesGone
    PROVE  (BaseSound /\ NodesStay /\ SelectionsSound /\ TunnelsStay)'
<1>1. BaseSound' BY DEF BaseSound, SamePlan
<1>2. NodesStay'
  <2> SUFFICES ASSUME NEW n \in Nodes(plan.base) \ plan.gone
               PROVE  n \in Nodes(db') /\ db'.nodes[n].server = plan.base.nodes[n].server
      BY DEF NodesStay, SamePlan
  <2>1. n \in Nodes(db) /\ db.nodes[n].server = plan.base.nodes[n].server BY DEF NodesStay
  <2>2. plan.base.nodes[n].server # Deleted BY DoomedNodes DEF BaseSound, Direct
  <2>3. n \in Nodes(db') BY <2>1, <2>2 DEF NodesGone
  <2> QED BY <2>1, <2>3 DEF Moves, Shrinks
<1>3. SelectionsSound'
  <2>1. ASSUME NEW k \in DOMAIN db'.packs, ~ByHand(<<"package", k>>)'
        PROVE  k \in DOMAIN plan.base.packs /\ Narrowed(db'.packs[k], plan.base.packs[k])
    <3>1. ~ByHand(<<"package", k>>) /\ k \in DOMAIN db.packs BY <2>1 DEF ByHand, Moves, Shrinks
    <3>2. Narrowed(db'.packs[k], db.packs[k]) BY <2>1 DEF Moves, SelectionsMove
    <3> QED BY <3>1, <3>2 DEF SelectionsSound, Narrowed
  <2>2. ASSUME NEW f \in DOMAIN db'.files, ~ByHand(<<"subscription", f>>)'
        PROVE  f \in DOMAIN plan.base.files /\ Narrowed(db'.files[f], plan.base.files[f])
    <3>1. ~ByHand(<<"subscription", f>>) /\ f \in DOMAIN db.files BY <2>2 DEF ByHand, Moves, Shrinks
    <3>2. \/ Narrowed(db'.files[f], db.files[f])
          \/ f \in DOMAIN plan.base.files /\ Narrowed(db'.files[f], plan.base.files[f])
          BY <2>2 DEF Moves, SelectionsMove
    <3> QED BY <3>1, <3>2 DEF SelectionsSound, Narrowed
  <2> QED BY <2>1, <2>2 DEF SelectionsSound, SamePlan
<1>4. TunnelsStay' BY DEF TunnelsStay, SamePlan, Moves, Shrinks
<1> QED BY <1>1, <1>2, <1>3, <1>4

\* The Helper of the server stays retired.
LeftKept ==
    Deleted \notin db.servers /\ LeftState(mem) /\ LeftState(file) =>
        <<"token", Deleted>> \in touched' \/ (LeftState(mem') /\ LeftState(file'))

LEMMA SettledKept ==
    ASSUME NEW s, NEW old, NEW new, old \subseteq new, Settled(s, old), SamePlan, Moves, LeftKept
    PROVE  Settled(s, new)'
<1>1. CASE s.kind = "package"
      BY <1>1 DEF Settled, SamePlan, Moves, Shrinks, SelectionsMove, Narrowed, ByHand
<1>2. CASE s.kind = "subscription"
      BY <1>2 DEF Settled, SamePlan, Moves, Shrinks, SelectionsMove, Narrowed, ByHand
<1>3. CASE s.kind = "empty-subscription"
      BY <1>3 DEF Settled, SamePlan, Moves, Shrinks, ByHand
<1>4. CASE s.kind = "tunnel" BY <1>4 DEF Settled, Moves, Shrinks
<1>5. CASE s.kind = "inbound" BY <1>5 DEF Settled, Moves, Shrinks
<1>6. CASE s.kind = "node" BY <1>6 DEF Settled, SamePlan, Moves, Shrinks, Removed
<1>7. CASE s.kind = "server" BY <1>7 DEF Settled, Moves, Shrinks
<1>8. CASE s.kind = "sweep" BY <1>8 DEF Settled, Moves, Shrinks, LeftKept
<1> QED BY <1>1, <1>2, <1>3, <1>4, <1>5, <1>6, <1>7, <1>8 DEF Settled

\* What a step adds to the notices.
NoticesMove ==
    /\ Announced \subseteq Announced'
    /\ \A n \in plan.gone \cap (Nodes(db) \ Nodes(db')) \cap db'.routes :
         db.nodes[n].server # Deleted => <<"route", db.nodes[n].server, n>> \in Announced'
    /\ \/ Deleted \in db'.servers \/ Deleted \notin db.servers \/ ServerByHand'
       \/ db'.agent => <<"agent", Deleted, 0>> \in Announced'
    /\ call' # Idle /\ call'.at = "delete" /\ db'.agent =>
         <<"agent", Deleted, 0>> \in call'.plan.outstanding
    /\ ServerByHand' => ServerByHand \/ Deleted \notin db'.servers

LEMMA NoticesKept ==
    ASSUME NoticesSound, SamePlan, Moves, NoticesMove
    PROVE  NoticesSound'
<1>1. ASSUME NEW n \in plan.gone \cap db'.routes, plan.base.nodes[n].server # Deleted, Removed(n)'
      PROVE  <<"route", plan.base.nodes[n].server, n>> \in Announced'
  <2>1. CASE Removed(n) BY <1>1, <2>1 DEF NoticesSound, NoticesMove, Moves, Shrinks
  <2>2. CASE ~Removed(n)
    <3>1. n \in Nodes(db) /\ db.nodes[n].server = plan.base.nodes[n].server BY <2>2 DEF Removed
    <3>2. n \notin Nodes(db') BY <1>1, <3>1 DEF Removed, SamePlan, Moves, Shrinks
    <3> QED BY <1>1, <3>1, <3>2 DEF NoticesMove
  <2> QED BY <2>1, <2>2
<1>2. (Deleted \notin db.servers /\ db.agent /\ ~ServerByHand => <<"agent", Deleted, 0>> \in Announced)'
      BY DEF NoticesSound, NoticesMove, Moves, Shrinks, ServerByHand
<1>3. ServerByHand' => Deleted \notin db'.servers
      BY DEF NoticesSound, NoticesMove, Moves, Shrinks
<1> QED BY <1>1, <1>2, <1>3 DEF NoticesSound, NoticesMove, SamePlan

-----------------------------------------------------------------------------
(* What the invariant says of the plan and the call *)

LEMMA PlanFields ==
    ASSUME NEW p, PlanType(p)
    PROVE  /\ p.state \in {"deleting", "deleted"} /\ p.base = plan.base /\ p.gone = plan.gone
           /\ p.pending \subseteq Planned /\ p # NoPlan /\ p.command \in Nat
BY DEF PlanType, NoPlan

\* The plan without a step.
Without1(q, s) ==
    [q EXCEPT !.pending = @ \ {s}, !.state = IF s.kind = "verify" THEN "deleted" ELSE @]

LEMMA WithoutStep ==
    ASSUME NEW q, PlanType(q), q.state = "deleting", NEW s
    PROVE  /\ PlanType(Without1(q, s)) /\ Without1(q, s).pending = q.pending \ {s}
           /\ Without1(q, s).outstanding = q.outstanding
           /\ Without1(q, s).state = IF s.kind = "verify" THEN "deleted" ELSE "deleting"
BY DEF PlanType, Without1

LEMMA PlanTypeKept ==
    ASSUME SamePlan, NEW p, PlanType(p)
    PROVE  PlanType(p)'
BY DEF SamePlan, PlanType, Planned

LEMMA OrderedKept ==
    ASSUME SamePlan, NEW p, Ordered(p)
    PROVE  Ordered(p)'
BY DEF SamePlan, Ordered, Planned

LEMMA SettledStepsKept ==
    ASSUME SamePlan, Moves, LeftKept, NEW p, NEW q, SettledSteps(p), q.pending = p.pending,
           p.outstanding \subseteq q.outstanding
    PROVE  SettledSteps(q)'
<1> SUFFICES ASSUME NEW s \in Planned \ p.pending PROVE Settled(s, q.outstanding)'
    BY DEF SettledSteps, SamePlan, Planned
<1>1. Settled(s, p.outstanding) BY DEF SettledSteps
<1> QED BY <1>1, SettledKept

\* The call ends, and the plan stays.
LEMMA CallGone ==
    ASSUME PlanInv, plan # NoPlan, plan' = plan, call' = Idle, Moves, LeftKept
    PROVE  PlanInv' /\ CallInv' /\ SamePlan
<1>1. SamePlan BY DEF SamePlan
<1> DEFINE p == plan
<1>2. PlanType(p)' /\ Ordered(p)' BY <1>1, PlanTypeKept, OrderedKept DEF PlanInv
<1>3. SettledSteps(plan)' BY <1>1, SettledStepsKept DEF PlanInv
<1> QED BY <1>1, <1>2, <1>3 DEF PlanInv, CallInv

IsFirst(s) == s \in plan.pending /\ \A t \in plan.pending : s.rank <= t.rank

\* A copy of the plan that has announced more.
Copy(q) ==
    /\ PlanType(q) /\ q.pending = plan.pending /\ q.state = "deleting"
    /\ plan.outstanding \subseteq q.outstanding

LEMMA LastStep ==
    ASSUME BaseSound, PlanType(plan), NEW s, IsFirst(s), s.kind = "verify"
    PROVE  plan.pending \ {s} = {}
<1>1. \A t \in plan.pending : StepOf(t, plan.base, plan.gone) /\ t.rank \in 1..16
      BY StepKinds, DoomedNodes, PlanFields DEF BaseSound, Planned
<1>2. s.rank = 16 BY <1>1 DEF IsFirst, StepOf
<1>3. \A t \in plan.pending : t.rank = 16 BY <1>1, <1>2 DEF IsFirst
<1>4. \A t \in plan.pending : t = Step(16, "verify", 0, 0) BY <1>1, <1>3 DEF StepOf
<1> QED BY <1>4 DEF IsFirst

\* The call goes on, or it ends with the step done or not.
LEMMA CallStep ==
    ASSUME PlanInv, BaseSound, plan # NoPlan, plan.state = "deleting", plan' = plan, Moves, LeftKept,
           NEW s, IsFirst(s), NEW q, Copy(q), NEW seen, seen \in [DOMAIN seen -> NodeRow],
           NEW at \in {"act", "delete", "retire", "save"}, NEW r,
           call' = [at |-> at, step |-> s, plan |-> r, seen |-> seen],
           \/ at # "save" /\ r = q /\ CallSound'
           \/ at = "save" /\ r = q
           \/ at = "save" /\ r = Without1(q, s) /\ Settled(s, q.outstanding)'
    PROVE  PlanInv' /\ CallInv' /\ SamePlan
<1>1. SamePlan BY DEF SamePlan
<1>2. PlanType(plan)' /\ Ordered(plan)'
      BY <1>1, PlanTypeKept, OrderedKept DEF PlanInv
<1>3. SettledSteps(plan)' BY <1>1, SettledStepsKept DEF PlanInv
<1>4. PlanType(r) /\ r.outstanding = q.outstanding /\ r.pending \in {plan.pending, plan.pending \ {s}}
      BY WithoutStep DEF Copy
<1>5. PlanType(r)' BY <1>1, <1>4, PlanTypeKept
<1>6. Ordered(r)
  <2>1. CASE r = q BY <2>1 DEF Ordered, Copy, PlanInv
  <2>2. CASE r = Without1(q, s)
    <3>1. r.pending = plan.pending \ {s} /\ (r.state = "deleted" => s.kind = "verify")
          BY <2>2, WithoutStep DEF Copy
    <3>2. r.state = "deleted" => r.pending = {} BY <3>1, LastStep DEF PlanInv
    <3>3. r.state # "deleted" => Step(16, "verify", 0, 0) \in r.pending
      <4>1. r.state # "deleted" => s.kind # "verify" BY <2>2, WithoutStep DEF Copy
      <4>2. Step(16, "verify", 0, 0).kind = "verify" BY DEF Step
      <4>3. Step(16, "verify", 0, 0) \in plan.pending BY DEF Ordered, PlanInv
      <4> QED BY <3>1, <4>1, <4>2, <4>3
    <3> QED BY <3>1, <3>2, <3>3 DEF Ordered, PlanInv, IsFirst
  <2> QED BY <2>1, <2>2
<1>7. SettledSteps(r)'
  <2>1. SettledSteps(q)' BY <1>1, SettledStepsKept DEF PlanInv, Copy
  <2>2. CASE r = q BY <2>1, <2>2
  <2>3. CASE r = Without1(q, s) /\ Settled(s, q.outstanding)'
    <3>1. r.pending = q.pending \ {s} BY <2>3, WithoutStep DEF Copy
    <3> SUFFICES ASSUME NEW t \in Planned' \ r.pending PROVE Settled(t, r.outstanding)'
        BY DEF SettledSteps
    <3>2. CASE t = s BY <1>4, <2>3, <3>2
    <3>3. CASE t # s
      <4>1. t \in Planned' \ q.pending BY <3>1, <3>3
      <4>2. Settled(t, q.outstanding)' BY <2>1, <4>1 DEF SettledSteps
      <4> QED BY <1>4, <4>2
    <3> QED BY <3>2, <3>3
  <2> QED BY <2>2, <2>3
<1>8. call'.at = at /\ call'.step = s /\ call'.plan = r /\ call'.seen = seen OBVIOUS
<1>9. CallType'
  <2>1. call' \in [at : {"act", "delete", "retire", "save"}, step : plan'.pending,
                   plan : {call'.plan}, seen : [DOMAIN call'.seen -> NodeRow]]
        BY <1>8 DEF IsFirst
  <2>2. at # "save" => r.pending = plan.pending /\ r.state = "deleting" BY DEF Copy
  <2> QED BY <1>4, <1>5, <1>8, <2>1, <2>2 DEF CallType, IsFirst, Copy
<1>10. CallSound' BY <1>8 DEF CallSound
<1>11. Ordered(r)' BY <1>1, <1>6, OrderedKept
<1> QED BY <1>1, <1>2, <1>3, <1>7, <1>8, <1>9, <1>10, <1>11 DEF PlanInv, CallInv

\* The call and the plan stay.
LEMMA CallStays ==
    ASSUME PlanInv, CallInv, plan # NoPlan, plan' = plan, call' = call, Moves, LeftKept
    PROVE  PlanInv' /\ CallInv' /\ SamePlan
<1>1. SamePlan BY DEF SamePlan
<1>2. PlanType(plan)' /\ Ordered(plan)' /\ SettledSteps(plan)'
      BY <1>1, PlanTypeKept, OrderedKept, SettledStepsKept DEF PlanInv
<1>3. ASSUME call # Idle PROVE CallType' /\ CallSound' /\ Ordered(call.plan)' /\ SettledSteps(call.plan)'
  <2>1. PlanType(call.plan)' /\ Ordered(call.plan)' /\ SettledSteps(call.plan)'
        BY <1>1, <1>3, PlanTypeKept, OrderedKept, SettledStepsKept DEF CallInv, CallType
  <2>2. CallType' BY <1>3, <2>1 DEF CallInv, CallType
  <2>3. CallSound' BY <1>3 DEF CallInv, CallSound, Moves, Shrinks
  <2> QED BY <2>1, <2>2, <2>3
<1> QED BY <1>1, <1>2, <1>3 DEF PlanInv, CallInv


-----------------------------------------------------------------------------
(* Steps of a deletion *)

LEMMA StepSound ==
    ASSUME DeletionInv, plan # NoPlan, HelperTypes', Moves, NodesGone,
           PlanInv' /\ CallInv' /\ SamePlan, NoticesMove
    PROVE  DeletionInv'
<1>1. BaseSound /\ NodesStay /\ SelectionsSound /\ TunnelsStay /\ NoticesSound
      BY DEF DeletionInv, SystemInv
<1>2. (BaseSound /\ NodesStay /\ SelectionsSound /\ TunnelsStay)' BY <1>1, SystemKept
<1>3. NoticesSound' BY <1>1, NoticesKept
<1>4. plan' # NoPlan /\ Official(db', Nat) /\ Nodes(db') \subseteq Nat BY DEF SamePlan, Moves
<1> QED BY <1>2, <1>3, <1>4 DEF DeletionInv, SystemInv

LEMMA SameMoves ==
    ASSUME DeletionInv, SameSystem(db, db'), Official(db', Nat), touched \subseteq touched'
    PROVE  Moves /\ NodesGone
<1>1. Nodes(db) \subseteq Nat BY DEF DeletionInv
<1> QED BY <1>1 DEF SameSystem, Moves, NodesGone, Shrinks, SelectionsMove, Narrowed, Nodes

\* What the Helpers have does not change.
HelpersSame == UNCHANGED <<mem, file, script, config, outbox, issued>>

LEMMA HelpersStay ==
    ASSUME DeletionInv, HelpersSame
    PROVE  HelperTypes' /\ LeftKept
<1>1. HelperTypes BY DEF DeletionInv
<1> QED BY <1>1 DEF HelpersSame, HelperTypes, LeftKept

LEMMA FirstIsPlanned ==
    ASSUME DeletionInv, plan # NoPlan, NEW s, IsFirst(s)
    PROVE  s \in Planned /\ StepOf(s, plan.base, plan.gone) /\ s.rank \in 1..16
<1>1. PlanType(plan) /\ BaseSound BY DEF DeletionInv, PlanInv, SystemInv
<1>2. s \in Planned BY <1>1, PlanFields DEF IsFirst
<1> QED BY <1>1, <1>2, StepKinds, DoomedNodes DEF BaseSound, Planned

LEMMA CurrentIsFirst ==
    ASSUME DeletionInv, plan # NoPlan, plan.state = "deleting"
    PROVE  IsFirst(Current) /\ Copy(plan)
<1>1. PlanType(plan) /\ Ordered(plan) /\ BaseSound BY DEF DeletionInv, PlanInv, SystemInv
<1>2. plan.pending # {} BY <1>1 DEF Ordered
<1>3. \A s \in plan.pending : s.rank \in 1..16
      BY <1>1, PlanFields, StepKinds, DoomedNodes DEF BaseSound, Planned
<1> QED BY <1>1, <1>2, <1>3, FirstStep DEF IsFirst, Copy

LEMMA StepOfCall ==
    ASSUME DeletionInv, call # Idle
    PROVE  /\ plan # NoPlan /\ plan.state = "deleting" /\ IsFirst(call.step)
           /\ StepOf(call.step, plan.base, plan.gone) /\ call.step \in Planned /\ call.step.rank \in 1..16
           /\ call.at # "save" => Copy(call.plan)
           /\ call.plan.base = plan.base /\ call.plan.gone = plan.gone
           /\ call = [at |-> call.at, step |-> call.step, plan |-> call.plan, seen |-> call.seen]
           /\ call.seen \in [DOMAIN call.seen -> NodeRow]
<1>1. plan # NoPlan /\ CallType BY DEF DeletionInv, CallInv
<1>2. IsFirst(call.step) BY <1>1 DEF CallType, IsFirst
<1>3. PlanType(call.plan) BY <1>1 DEF CallType
<1>4. call.plan.base = plan.base /\ call.plan.gone = plan.gone BY <1>3, PlanFields
<1>5. call.at # "save" => Copy(call.plan) BY <1>1, <1>3 DEF CallType, Copy
<1>6. plan.state = "deleting" BY <1>1 DEF CallType
<1>7. /\ call = [at |-> call.at, step |-> call.step, plan |-> call.plan, seen |-> call.seen]
      /\ call.seen \in [DOMAIN call.seen -> NodeRow]
      BY <1>1 DEF CallType
<1> QED BY <1>1, <1>2, <1>4, <1>5, <1>6, <1>7, FirstIsPlanned

LEMMA AnnounceCopy ==
    ASSUME NEW q, Copy(q), NEW what
    PROVE  /\ Copy(Announce(q, what)) /\ what \in Announce(q, what).outstanding
           /\ q.outstanding \subseteq Announce(q, what).outstanding
BY DEF Copy, Announce, PlanType

\* The notices of a call that has the plan q from now on.
NoticesOf(q) ==
    /\ plan.outstanding \cup (IF call = Idle THEN {} ELSE call.plan.outstanding) \subseteq q.outstanding
    /\ \A n \in plan.gone \cap (Nodes(db) \ Nodes(db')) \cap db'.routes :
         db.nodes[n].server # Deleted => <<"route", db.nodes[n].server, n>> \in q.outstanding
    /\ \/ Deleted \in db'.servers \/ Deleted \notin db.servers
       \/ db'.agent => <<"agent", Deleted, 0>> \in q.outstanding

LEMMA CallGoes ==
    ASSUME DeletionInv, plan # NoPlan, plan.state = "deleting", HelperTypes', LeftKept,
           plan' = plan, touched' = touched, lost' = lost, Moves, NodesGone,
           NEW s, IsFirst(s), NEW q, Copy(q), NoticesOf(q),
           NEW seen, seen \in [DOMAIN seen -> NodeRow], NEW at \in {"act", "delete", "retire"},
           call' = [at |-> at, step |-> s, plan |-> q, seen |-> seen], CallSound',
           at = "delete" /\ db'.agent => <<"agent", Deleted, 0>> \in q.outstanding
    PROVE  DeletionInv'
<1>1. PlanInv /\ BaseSound BY DEF DeletionInv, SystemInv
<1>2. PlanInv' /\ CallInv' /\ SamePlan BY <1>1, CallStep
<1>3. call' # Idle /\ call'.at = at /\ call'.plan = q BY DEF Idle
<1>4. NoticesMove BY <1>3 DEF NoticesMove, NoticesOf, Announced, ServerByHand
<1> QED BY <1>2, <1>4, StepSound

LEMMA CallEnds ==
    ASSUME DeletionInv, plan # NoPlan, plan.state = "deleting", HelperTypes', LeftKept,
           plan' = plan, touched' = touched, lost' = lost, Moves, NodesGone,
           NEW s, IsFirst(s), NEW q, Copy(q), NoticesOf(q),
           call' = Failed(s, q) \/ (call' = Completed(s, q) /\ Settled(s, q.outstanding)')
    PROVE  DeletionInv'
<1>1. PlanInv /\ BaseSound BY DEF DeletionInv, SystemInv
<1>2. db.nodes \in [DOMAIN db.nodes -> NodeRow] BY OfficialFields DEF DeletionInv, Nodes
<1> DEFINE r == IF call' = Failed(s, q) THEN q ELSE Without1(q, s)
<1>3. call' = [at |-> "save", step |-> s, plan |-> r, seen |-> db.nodes]
      BY DEF Failed, Completed, In, Without1
<1>4. r = q \/ (r = Without1(q, s) /\ Settled(s, q.outstanding)') OBVIOUS
<1>5. r.outstanding = q.outstanding BY WithoutStep DEF Copy
<1> HIDE DEF r
<1>6. PlanInv' /\ CallInv' /\ SamePlan
  <2>1. CASE r = q BY <1>1, <1>2, <1>3, <2>1, CallStep
  <2>2. CASE r = Without1(q, s) /\ Settled(s, q.outstanding)' BY <1>1, <1>2, <1>3, <2>2, CallStep
  <2> QED BY <1>4, <2>1, <2>2
<1>7. call' # Idle /\ call'.at = "save" /\ call'.plan.outstanding = q.outstanding BY <1>3, <1>5 DEF Idle
<1>8. NoticesMove BY <1>7 DEF NoticesMove, NoticesOf, Announced, ServerByHand
<1> QED BY <1>6, <1>8, StepSound

\* What a check finds done is done.
LEMMA DoneIsSettled ==
    ASSUME DeletionInv, plan # NoPlan, NEW s, s.kind # "sweep", s.kind # "helper",
           Done(s, plan) \/ s.kind = "verify", NEW outstanding
    PROVE  Settled(s, outstanding)
BY DEF Settled, Done, Kept, Removed

LEMMA CheckSound ==
    ASSUME DeletionInv, Check
    PROVE  DeletionInv'
<1>s. PICK s : s = Current OBVIOUS
<1>1. plan # NoPlan /\ plan.state = "deleting" /\ call = Idle /\ s.kind # "helper"
      BY <1>s DEF Check, NoPlan
<1>2. IsFirst(s) /\ Copy(plan) BY <1>1, <1>s, CurrentIsFirst
<1>3. StepOf(s, plan.base, plan.gone) BY <1>1, <1>2, FirstIsPlanned
<1>4. HelpersSame /\ UNCHANGED <<db, plan, touched, lost>> BY DEF Check, HelpersSame, identityVars
<1>5. HelperTypes' /\ LeftKept BY <1>4, HelpersStay
<1>6. Official(db, Nat) /\ SameSystem(db, db') BY <1>4 DEF DeletionInv, SameSystem
<1>7. Moves /\ NodesGone BY <1>4, <1>6, SameMoves
<1>8. ASSUME NEW q, Copy(q) PROVE NoticesOf(q) BY <1>1, <1>4, <1>8 DEF NoticesOf, Copy
<1>9. call' = IF Done(s, plan) THEN Completed(s, plan)
              ELSE IF Changed(s, plan) THEN Failed(s, plan)
              ELSE IF s.kind \in {"inbound", "tunnel"} /\ ~Online(s.server)
                   THEN Completed(s, LeftBehind(s, plan))
              ELSE IF s.kind = "verify" THEN Completed(s, plan)
              ELSE In("act", s, plan)
      BY <1>s DEF Check
<1>10. CASE call' = Completed(s, plan) /\ (Done(s, plan) \/ s.kind = "verify")
  <2>1. s.kind # "sweep" BY <1>10 DEF Done
  <2>2. Settled(s, plan.outstanding) BY <1>1, <1>10, <2>1, DoneIsSettled
  <2>3. SamePlan BY <1>1, <1>4 DEF SamePlan
  <2>4. PICK q : q = plan OBVIOUS
  <2>5. Settled(s, q.outstanding) /\ Copy(q) BY <1>2, <2>2, <2>4
  <2>6. Settled(s, q.outstanding)' BY <1>5, <1>7, <2>3, <2>5, SettledKept
  <2>7. call' = Completed(s, q) BY <1>10, <2>4
  <2> QED BY <1>1, <1>2, <1>4, <1>5, <1>7, <1>8, <2>5, <2>6, <2>7, CallEnds
<1>11. CASE call' = Failed(s, plan)
       BY <1>1, <1>2, <1>4, <1>5, <1>7, <1>8, <1>11, CallEnds
<1>12. CASE s.kind \in {"inbound", "tunnel"} /\ call' = Completed(s, LeftBehind(s, plan))
  <2>q. PICK q : q = LeftBehind(s, plan) OBVIOUS
  <2>1. Copy(q) /\ <<s.kind, s.server, s.id>> \in q.outstanding
        BY <1>2, <2>q, AnnounceCopy DEF LeftBehind
  <2>2. Settled(s, q.outstanding)' BY <1>12, <2>1 DEF Settled
  <2>3. call' = Completed(s, q) BY <1>12, <2>q
  <2> QED BY <1>1, <1>2, <1>4, <1>5, <1>7, <1>8, <2>1, <2>2, <2>3, CallEnds
<1>13. CASE call' = In("act", s, plan) /\ ~Done(s, plan) /\ ~Changed(s, plan) /\ s.kind # "verify"
  <2>1. call' = [at |-> "act", step |-> s, plan |-> plan, seen |-> db.nodes] BY <1>13 DEF In
  <2>2. s.kind = "node" => db.nodes[s.id] = plan.base.nodes[s.id] BY <1>13 DEF Changed
  <2>3. s.kind = "server" => Direct(db) = {} BY <1>13 DEF Changed
  <2>4. CallSound' BY <1>1, <1>4, <1>13, <2>1, <2>2, <2>3 DEF CallSound, Direct, Nodes
  <2>5. db.nodes \in [DOMAIN db.nodes -> NodeRow] BY <1>6, OfficialFields DEF Nodes
  <2> QED BY <1>1, <1>2, <1>4, <1>5, <1>7, <1>8, <2>1, <2>4, <2>5, CallGoes
<1> QED BY <1>9, <1>10, <1>11, <1>12, <1>13

\* When nodes go, no selection has them any more, but by hand.
LEMMA SelectionsAreTrimmed ==
    ASSUME DeletionInv, plan # NoPlan, NEW s, IsFirst(s), s.rank \in 6..16
    PROVE  /\ \A k \in DOMAIN db.packs : ByHand(<<"package", k>>) \/ db.packs[k] \cap plan.gone = {}
           /\ \A f \in DOMAIN db.files : ByHand(<<"subscription", f>>) \/ db.files[f] \cap plan.gone = {}
<1>1. SelectionsSound /\ SettledSteps(plan) BY DEF DeletionInv, PlanInv, SystemInv
<1>2. ASSUME NEW k \in DOMAIN db.packs, ~ByHand(<<"package", k>>)
      PROVE  db.packs[k] \cap plan.gone = {}
  <2>1. k \in DOMAIN plan.base.packs /\ db.packs[k] \subseteq plan.base.packs[k]
        BY <1>1, <1>2 DEF SelectionsSound, Narrowed
  <2>2. CASE plan.base.packs[k] \cap plan.gone # {}
    <3> DEFINE t == Step(1, "package", 0, k)
    <3>1. t \in Planned BY <2>1, <2>2, PlannedSteps DEF Planned
    <3>2. t.rank = 1 /\ t.kind = "package" /\ t.id = k BY DEF Step
    <3> HIDE DEF t
    <3>3. t \notin plan.pending BY <3>2 DEF IsFirst
    <3>4. Settled(t, plan.outstanding) BY <1>1, <3>1, <3>3 DEF SettledSteps
    <3> QED BY <1>2, <3>2, <3>4 DEF Settled
  <2> QED BY <2>1, <2>2
<1>3. ASSUME NEW f \in DOMAIN db.files, ~ByHand(<<"subscription", f>>)
      PROVE  db.files[f] \cap plan.gone = {}
  <2>1. f \in DOMAIN plan.base.files /\ db.files[f] \subseteq plan.base.files[f]
        BY <1>1, <1>3 DEF SelectionsSound, Narrowed
  <2>2. CASE plan.base.files[f] \cap plan.gone # {} /\ plan.base.files[f] \subseteq plan.gone
    <3> DEFINE t == Step(3, "empty-subscription", 0, f)
    <3>1. t \in Planned BY <2>1, <2>2, PlannedSteps DEF Planned
    <3>2. t.rank = 3 /\ t.kind = "empty-subscription" /\ t.id = f BY DEF Step
    <3> HIDE DEF t
    <3>3. t \notin plan.pending BY <3>2 DEF IsFirst
    <3>4. Settled(t, plan.outstanding) BY <1>1, <3>1, <3>3 DEF SettledSteps
    <3> QED BY <1>3, <3>2, <3>4 DEF Settled
  <2>3. CASE plan.base.files[f] \cap plan.gone # {} /\ ~plan.base.files[f] \subseteq plan.gone
    <3> DEFINE t == Step(5, "subscription", 0, f)
    <3>1. t \in Planned BY <2>1, <2>3, PlannedSteps DEF Planned
    <3>2. t.rank = 5 /\ t.kind = "subscription" /\ t.id = f BY DEF Step
    <3> HIDE DEF t
    <3>3. t \notin plan.pending BY <3>2 DEF IsFirst
    <3>4. Settled(t, plan.outstanding) BY <1>1, <3>1, <3>3 DEF SettledSteps
    <3> QED BY <1>3, <3>2, <3>4 DEF Settled
  <2> QED BY <2>1, <2>2, <2>3
<1> QED BY <1>2, <1>3

\* The nodes that a step takes are planned ones, or new on the server.
LEMMA LostArePlanned ==
    ASSUME DeletionInv, plan # NoPlan, NEW s, StepOf(s, plan.base, plan.gone)
    PROVE  /\ LostNodes(db, s) \cap Nodes(plan.base) \subseteq plan.gone
           /\ \A n \in LostNodes(db, s) : n \in plan.gone \/ (n \in Nodes(db) /\ db.nodes[n].server = Deleted)
<1>1. NodesStay /\ BaseSound BY DEF DeletionInv, SystemInv
<1>2. \A n \in Nodes(plan.base) \ plan.gone : plan.base.nodes[n].server # Deleted
      BY <1>1, DoomedNodes DEF BaseSound, Direct
<1>3. CASE s.kind = "node" BY <1>3 DEF LostNodes, StepOf
<1>4. CASE s.kind = "server" BY <1>1, <1>2, <1>4 DEF LostNodes, NodesStay, Direct
<1> QED BY <1>3, <1>4 DEF LostNodes

LEMMA TrimsMove ==
    ASSUME DeletionInv, plan # NoPlan, NEW s, IsFirst(s), NEW p, p.base = plan.base, p.gone = plan.gone,
           Official(db', Nat), Shrinks(db, db'), Trims(db, db', s, p), touched' = touched
    PROVE  Moves /\ NodesGone
<1>1. StepOf(s, plan.base, plan.gone) BY FirstIsPlanned
<1>2. Nodes(db) \subseteq Nat /\ SelectionsSound /\ BaseSound BY DEF DeletionInv, SystemInv
<1>3. Nodes(db') \subseteq Nat BY <1>2 DEF Trims
<1>4. NodesGone BY <1>1, LostArePlanned DEF NodesGone, Trims
<1>5. ASSUME NEW k \in DOMAIN db'.packs, ~ByHand(<<"package", k>>)
      PROVE  Narrowed(db'.packs[k], db.packs[k])
  <2>1. k \in DOMAIN db.packs BY DEF Shrinks
  <2>2. CASE s.kind = "package" BY <2>1, <2>2 DEF Trims, Narrowed, LostNodes
  <2>3. CASE s.kind \in {"node", "server"}
    <3>1. db.packs[k] \cap plan.gone = {}
          BY <1>1, <1>5, <2>1, <2>3, SelectionsAreTrimmed DEF StepOf
    <3>2. db.packs[k] \subseteq Nodes(plan.base)
          BY <1>2, <1>5, <2>1, OfficialFields DEF SelectionsSound, Narrowed, BaseSound
    <3>3. db.packs[k] \cap LostNodes(db, s) = {} BY <1>1, <3>1, <3>2, LostArePlanned
    <3>4. db'.packs[k] = db.packs[k] \ LostNodes(db, s) BY <2>3 DEF Trims
    <3> QED BY <3>3, <3>4 DEF Narrowed
  <2>4. CASE s.kind \notin {"package", "node", "server"}
        BY <2>1, <2>4 DEF Trims, Narrowed, LostNodes
  <2> QED BY <2>2, <2>3, <2>4
<1>6. ASSUME NEW f \in DOMAIN db'.files, ~ByHand(<<"subscription", f>>)
      PROVE  \/ Narrowed(db'.files[f], db.files[f])
             \/ /\ f \in DOMAIN plan.base.files /\ Narrowed(db'.files[f], plan.base.files[f])
                /\ db'.files[f] \cap plan.gone = {}
  <2>1. f \in DOMAIN db.files BY DEF Shrinks
  <2>2. CASE s.kind = "subscription"
    <3>1. CASE f = s.id
      <4>1. db'.files[f] = plan.base.files[f] \ plan.gone BY <2>2, <3>1 DEF Trims
      <4>2. f \in DOMAIN plan.base.files /\ ~plan.base.files[f] \subseteq plan.gone
            BY <1>1, <2>2, <3>1 DEF StepOf
      <4> QED BY <4>1, <4>2 DEF Narrowed
    <3> QED BY <2>1, <2>2, <3>1 DEF Trims, Narrowed, LostNodes
  <2>3. CASE s.kind \in {"node", "server"}
    <3>1. db.files[f] \cap plan.gone = {}
          BY <1>1, <1>6, <2>1, <2>3, SelectionsAreTrimmed DEF StepOf
    <3>2. db.files[f] \subseteq Nodes(plan.base)
          BY <1>2, <1>6, <2>1, OfficialFields DEF SelectionsSound, Narrowed, BaseSound
    <3>3. db.files[f] \cap LostNodes(db, s) = {} BY <1>1, <3>1, <3>2, LostArePlanned
    <3>4. db'.files[f] = db.files[f] \ LostNodes(db, s) BY <2>3 DEF Trims
    <3> QED BY <3>3, <3>4 DEF Narrowed
  <2>4. CASE s.kind \notin {"subscription", "node", "server"}
        BY <2>1, <2>4 DEF Trims, Narrowed, LostNodes
  <2> QED BY <2>2, <2>3, <2>4
<1>7. SelectionsMove BY <1>5, <1>6 DEF SelectionsMove, ByHand
<1> QED BY <1>3, <1>4, <1>7 DEF Moves

LEMMA NothingMoves ==
    ASSUME DeletionInv, Official(db', Nat), Shrinks(db, db'), Loses(db, db', {}), touched' = touched
    PROVE  Moves /\ NodesGone
<1>1. Nodes(db) \subseteq Nat BY DEF DeletionInv
<1>2. Nodes(db') = Nodes(db) BY DEF Loses
<1>3. SelectionsMove BY DEF Loses, SelectionsMove, Narrowed, Shrinks
<1> QED BY <1>1, <1>2, <1>3 DEF Moves, NodesGone

\* What the step of a call does to the official system.
LEMMA EffectOfCall ==
    ASSUME DeletionInv, call # Idle, NEW s, s = call.step, call.at \in {"act", "delete"},
           db' = Effect(db, s, call.plan), touched' = touched
    PROVE  /\ Moves /\ NodesGone /\ Fulfils(db', s) /\ Trims(db, db', s, call.plan)
           /\ db'.agent = db.agent /\ (s.kind # "server" => db'.servers = db.servers)
<1>1. PICK p : p = call.plan OBVIOUS
<1>2. /\ plan # NoPlan /\ IsFirst(s) /\ StepOf(s, p.base, p.gone)
      /\ p.base = plan.base /\ p.gone = plan.gone
      BY <1>1, StepOfCall
<1>3. s.kind \notin {"helper", "verify"} BY DEF DeletionInv, CallInv, CallSound
<1>4. /\ Official(db, Nat) /\ Official(p.base, Nodes(p.base)) /\ Nodes(p.base) \subseteq Nat
      /\ \A n \in Nodes(db) \cap Nodes(p.base) : n \notin p.gone => db.nodes[n].server = p.base.nodes[n].server
      BY <1>2 DEF DeletionInv, SystemInv, BaseSound, NodesStay
<1>5. PICK e : e = db' OBVIOUS
<1>6. e = Effect(db, s, p) BY <1>1, <1>5
<1>7. Official(e, Nat) /\ Shrinks(db, e) /\ Trims(db, e, s, p) /\ Fulfils(e, s) /\ e.agent = db.agent
      BY <1>2, <1>3, <1>4, <1>6, EffectSound
<1>8. Moves /\ NodesGone BY <1>2, <1>5, <1>7, TrimsMove
<1> QED BY <1>1, <1>5, <1>7, <1>8 DEF Trims

\* A step that is done is settled.
LEMMA EffectSettles ==
    ASSUME DeletionInv, plan # NoPlan, SamePlan, NEW s, StepOf(s, plan.base, plan.gone),
           s.kind \notin {"server", "sweep"}, NEW p, p.base = plan.base, p.gone = plan.gone,
           Trims(db, db', s, p), Fulfils(db', s), NEW outstanding
    PROVE  Settled(s, outstanding)'
<1>1. CASE s.kind = "package" BY <1>1 DEF Settled, SamePlan, Trims
<1>2. CASE s.kind = "subscription" BY <1>2 DEF Settled, SamePlan, Trims
<1>3. CASE s.kind = "node" BY <1>3 DEF Settled, SamePlan, Trims, LostNodes, Removed
<1>4. CASE s.kind \in {"empty-subscription", "tunnel", "inbound"} BY <1>4 DEF Settled, Fulfils
<1> QED BY <1>1, <1>2, <1>3, <1>4 DEF Settled

LEMMA ActSound ==
    ASSUME DeletionInv, Act \/ ActRouted
    PROVE  DeletionInv'
<1>1. PICK s : s = call.step OBVIOUS
<1>2. PICK q : q = call.plan OBVIOUS
<1>3. call.at = "act" /\ s.kind \notin {"server", "sweep"}
      BY <1>1 DEF Act, ActRouted, Acts, Acting
<1>4. call # Idle BY <1>3 DEF Idle
<1>5. /\ db' = Effect(db, call.step, call.plan) /\ call' = Completed(s, q)
      /\ UNCHANGED <<plan, touched, lost>> /\ HelpersSame
      BY <1>1, <1>2 DEF Act, ActRouted, HelpersSame, identityVars
<1>6. /\ plan # NoPlan /\ plan.state = "deleting" /\ IsFirst(s) /\ StepOf(s, plan.base, plan.gone)
      /\ Copy(q) /\ q.base = plan.base /\ q.gone = plan.gone
      BY <1>1, <1>2, <1>3, <1>4, StepOfCall
<1>7. /\ Moves /\ NodesGone /\ Fulfils(db', s) /\ Trims(db, db', s, q)
      /\ db'.servers = db.servers
      BY <1>1, <1>2, <1>3, <1>4, <1>5, EffectOfCall
<1>8. HelperTypes' /\ LeftKept BY <1>5, HelpersStay
<1>9. SamePlan BY <1>5, <1>6 DEF SamePlan
<1>10. Settled(s, q.outstanding)' BY <1>3, <1>6, <1>7, <1>9, EffectSettles
<1>11. NoticesOf(q)
  <2>1. \A n \in Nodes(db) \ Nodes(db') : n \notin db'.routes
        BY <1>3, <1>7 DEF Trims, LostNodes, Fulfils
  <2> QED BY <1>2, <1>4, <1>6, <1>7, <2>1 DEF NoticesOf, Copy
<1> QED BY <1>5, <1>6, <1>7, <1>8, <1>10, <1>11, CallEnds

LEMMA HalfwayOfCall ==
    ASSUME DeletionInv, call.at = "act", NEW s, s = call.step, NEW q, q = call.plan,
           db' \in Halfway(db, s, q)
    PROVE  BreaksOff(db, db', s, q)
<1>1. call # Idle BY DEF Idle
<1>2. plan # NoPlan /\ StepOf(s, q.base, q.gone) /\ q.base = plan.base /\ q.gone = plan.gone
      BY <1>1, StepOfCall
<1>3. s.kind \notin {"helper", "verify"} BY <1>1 DEF DeletionInv, CallInv, CallSound
<1>4. /\ Official(db, Nat) /\ Official(q.base, Nodes(q.base)) /\ Nodes(q.base) \subseteq Nat
      /\ \A n \in Nodes(db) \cap Nodes(q.base) : n \notin q.gone => db.nodes[n].server = q.base.nodes[n].server
      BY <1>2 DEF DeletionInv, SystemInv, BaseSound, NodesStay
<1>5. PICK e : e = db' OBVIOUS
<1>6. e \in Halfway(db, s, q) BY <1>5
<1>7. BreaksOff(db, e, s, q) BY <1>2, <1>3, <1>4, <1>6, HalfwaySound
<1> QED BY <1>5, <1>7

LEMMA ActFailsSound ==
    ASSUME DeletionInv, ActFails
    PROVE  DeletionInv'
<1>1. PICK s : s = call.step OBVIOUS
<1>2. PICK q : q = call.plan OBVIOUS
<1>3. call.at = "act" /\ s.kind # "server" BY <1>1 DEF ActFails, Acts, Acting
<1>4. call # Idle BY <1>3 DEF Idle
<1>5. /\ db' \in Halfway(db, s, q) /\ call' = Failed(s, q)
      /\ UNCHANGED <<plan, touched, lost>> /\ HelpersSame
      BY <1>1, <1>2 DEF ActFails, HelpersSame
<1>6. /\ plan # NoPlan /\ plan.state = "deleting" /\ IsFirst(s)
      /\ Copy(q) /\ q.base = plan.base /\ q.gone = plan.gone
      BY <1>1, <1>2, <1>3, <1>4, StepOfCall
<1>7. BreaksOff(db, db', s, q) BY <1>1, <1>2, <1>3, <1>5, HalfwayOfCall
<1>8. Moves /\ NodesGone
  <2>1. Official(db', Nat) /\ Shrinks(db, db') BY <1>7 DEF BreaksOff
  <2>2. CASE Trims(db, db', s, q) BY <1>5, <1>6, <2>1, <2>2, TrimsMove
  <2>3. CASE Loses(db, db', {}) BY <1>5, <2>1, <2>3, NothingMoves
  <2> QED BY <1>7, <2>2, <2>3 DEF BreaksOff
<1>9. HelperTypes' /\ LeftKept BY <1>5, HelpersStay
<1>10. NoticesOf(q)
  <2>1. db'.servers = db.servers BY <1>3, <1>7 DEF BreaksOff, Trims
  <2>2. \A n \in Nodes(db) \ Nodes(db') : n \notin db'.routes
        BY <1>3, <1>7 DEF BreaksOff, Trims, Loses, LostNodes
  <2> QED BY <1>2, <1>4, <1>6, <2>1, <2>2 DEF NoticesOf, Copy
<1> QED BY <1>5, <1>6, <1>8, <1>9, <1>10, CallEnds

LEMMA FallbackSound ==
    ASSUME DeletionInv, ActRoutedFallback
    PROVE  DeletionInv'
<1>1. PICK s : s = call.step OBVIOUS
<1>2. PICK q : q = call.plan OBVIOUS
<1>3. call.at = "act" /\ s.kind = "node" /\ s.id \in Nodes(db)
      BY <1>1 DEF ActRoutedFallback, Acts, Acting, Routed
<1>4. call # Idle BY <1>3 DEF Idle
<1>5. UNCHANGED <<plan, touched, lost>> /\ HelpersSame BY DEF ActRoutedFallback, HelpersSame
<1>6. /\ plan # NoPlan /\ plan.state = "deleting" /\ IsFirst(s) /\ StepOf(s, plan.base, plan.gone)
      /\ Copy(q) /\ q.base = plan.base /\ q.gone = plan.gone
      BY <1>1, <1>2, <1>3, <1>4, StepOfCall
<1>7. HelperTypes' /\ LeftKept BY <1>5, HelpersStay
<1>8. SamePlan BY <1>5, <1>6 DEF SamePlan
<1>9. Official(db, Nat) BY DEF DeletionInv
<1>10. PICK routes \in {db.routes, db.routes \ {s.id}} :
         LET off == ~Online(Source(s.id))
             node == WithoutNodes([db EXCEPT !.routes = routes], {s.id})
         IN  IF Source(s.id) = Deleted \/ off \/ ~(s.id \in routes)
             THEN /\ db' = node
                  /\ call' = Completed(s, IF off /\ Source(s.id) # Deleted
                                          THEN Announce(q, <<"route", Source(s.id), s.id>>) ELSE q)
             ELSE db' = [db EXCEPT !.routes = routes] /\ call' = Failed(s, q)
       BY <1>1, <1>2 DEF ActRoutedFallback
<1>11. routes \in SUBSET Nat /\ routes \subseteq db.routes BY <1>9, OfficialFields
<1>12. PICK c : c = [db EXCEPT !.routes = routes] OBVIOUS
<1>13. /\ Official(c, Nat) /\ c.servers = db.servers /\ c.nodes = db.nodes /\ c.packs = db.packs
       /\ c.files = db.files /\ c.inbounds = db.inbounds /\ c.routes = routes
       /\ c.tunnels = db.tunnels /\ c.agent = db.agent
       BY <1>9, <1>11, <1>12, SetRoutes
<1>14. PICK e : e = db' OBVIOUS
<1>15. CASE e = WithoutNodes(c, {s.id})
  <2>1. Official(e, Nat) /\ NodesOnly(c, e) /\ Shrinks(c, e) /\ Loses(c, e, {s.id})
        BY <1>13, <1>15, NodesGo
  <2>2. Shrinks(db, e) BY <1>11, <1>13, <2>1 DEF Shrinks, Nodes
  <2>3. Trims(db, e, s, q) BY <1>3, <1>13, <2>1 DEF Loses, NodesOnly, Trims, LostNodes, Nodes
  <2>4. Moves /\ NodesGone BY <1>5, <1>6, <1>14, <2>1, <2>2, <2>3, TrimsMove
  <2>5. db'.servers = db.servers /\ db'.routes = routes /\ Nodes(db') = Nodes(db) \ {s.id}
        BY <1>13, <1>14, <2>1 DEF NodesOnly, Loses, Nodes
  <2>6. PICK r : /\ Copy(r) /\ q.outstanding \subseteq r.outstanding
                 /\ call' = Completed(s, r) \/ call' = Failed(s, r)
                 /\ s.id \in routes /\ Source(s.id) # Deleted => <<"route", Source(s.id), s.id>> \in r.outstanding
    <3>1. CASE Source(s.id) = Deleted \/ s.id \notin routes
      <4>1. PICK o \in BOOLEAN : o = (~Online(Source(s.id)) /\ Source(s.id) # Deleted) OBVIOUS
      <4>2. call' = Completed(s, IF o THEN Announce(q, <<"route", Source(s.id), s.id>>) ELSE q)
            BY <1>10, <3>1, <4>1
      <4>3. CASE o BY <1>6, <3>1, <4>2, <4>3, AnnounceCopy
      <4>4. CASE ~o BY <1>6, <3>1, <4>2, <4>4
      <4> QED BY <4>1, <4>3, <4>4
    <3>2. CASE Source(s.id) # Deleted /\ s.id \in routes /\ ~Online(Source(s.id))
      <4>1. call' = Completed(s, Announce(q, <<"route", Source(s.id), s.id>>)) BY <1>10, <3>2
      <4> QED BY <1>6, <4>1, AnnounceCopy
    <3>3. CASE Source(s.id) # Deleted /\ s.id \in routes /\ Online(Source(s.id))
      <4>1. db' = [db EXCEPT !.routes = routes] BY <1>10, <3>3
      <4>2. Nodes(db') = Nodes(db) BY <1>12, <1>13, <4>1 DEF Nodes
      <4> QED BY <1>3, <2>5, <4>2
    <3> QED BY <3>1, <3>2, <3>3
  <2>7. Settled(s, r.outstanding)'
    <3>1. s.id \notin Nodes(db') BY <2>5
    <3> QED BY <1>3, <3>1 DEF Settled, Removed
  <2>8. NoticesOf(r) BY <1>2, <1>4, <1>6, <2>5, <2>6 DEF NoticesOf, Copy, Source
  <2> QED BY <1>5, <1>6, <1>7, <2>4, <2>6, <2>7, <2>8, CallEnds
<1>16. CASE e = c /\ call' = Failed(s, q)
  <2>1. Shrinks(db, e) /\ Loses(db, e, {}) BY <1>11, <1>13, <1>16 DEF Shrinks, Loses, Nodes
  <2>2. Moves /\ NodesGone BY <1>5, <1>13, <1>14, <1>16, <2>1, NothingMoves
  <2>3. db'.servers = db.servers /\ Nodes(db') = Nodes(db) BY <1>13, <1>14, <1>16 DEF Nodes
  <2>4. NoticesOf(q) BY <1>2, <1>4, <1>6, <2>3 DEF NoticesOf, Copy
  <2> QED BY <1>5, <1>6, <1>7, <1>16, <2>2, <2>4, CallEnds
<1> QED BY <1>10, <1>12, <1>14, <1>15, <1>16

LEMMA StopsCoreSound ==
    ASSUME DeletionInv, StopsCore
    PROVE  DeletionInv'
<1>1. PICK s : s = call.step OBVIOUS
<1>2. call.at = "act" /\ s.kind = "server" BY <1>1 DEF StopsCore, Acts, Acting
<1>3. call # Idle BY <1>2 DEF Idle
<1>4. UNCHANGED <<plan, touched, lost>> /\ HelpersSame BY DEF StopsCore, HelpersSame, identityVars
<1>5. /\ plan # NoPlan /\ plan.state = "deleting" /\ IsFirst(s) /\ Copy(call.plan)
      /\ call = [at |-> call.at, step |-> call.step, plan |-> call.plan, seen |-> call.seen]
      /\ call.seen \in [DOMAIN call.seen -> NodeRow]
      BY <1>1, <1>2, <1>3, StepOfCall
<1>6. HelperTypes' /\ LeftKept BY <1>4, HelpersStay
<1>7. Official(db, Nat) /\ Nodes(db) \subseteq Nat BY DEF DeletionInv
<1>8. PICK stopped \in BOOLEAN :
        /\ db' = [db EXCEPT !.agent = @ /\ ~stopped]
        /\ call' = [call EXCEPT !.at = "delete",
                      !.plan = IF stopped THEN @ ELSE Announce(@, <<"agent", Deleted, 0>>)]
      BY DEF StopsCore
<1>9. PICK q : q = IF stopped THEN call.plan ELSE Announce(call.plan, <<"agent", Deleted, 0>>) OBVIOUS
<1>10. /\ Copy(q) /\ call.plan.outstanding \subseteq q.outstanding
       /\ ~stopped => <<"agent", Deleted, 0>> \in q.outstanding
       BY <1>5, <1>9, AnnounceCopy
<1>11. PICK seen : seen = call.seen OBVIOUS
<1>12. call' = [at |-> "delete", step |-> s, plan |-> q, seen |-> seen]
       BY <1>1, <1>5, <1>8, <1>9, <1>11
<1>13. PICK b \in BOOLEAN : b = (db.agent /\ ~stopped)
       BY <1>7, OfficialFields
<1>14. PICK e : e = db' OBVIOUS
<1>15. e = [db EXCEPT !.agent = b] BY <1>8, <1>13, <1>14
<1>16. /\ Official(e, Nat) /\ e.servers = db.servers /\ e.nodes = db.nodes /\ e.packs = db.packs
       /\ e.files = db.files /\ e.inbounds = db.inbounds /\ e.routes = db.routes
       /\ e.tunnels = db.tunnels /\ e.agent = b
       BY <1>7, <1>15, SetAgent
<1>17. Shrinks(db, e) /\ Loses(db, e, {}) BY <1>13, <1>16 DEF Shrinks, Loses, Nodes
<1>18. Moves /\ NodesGone BY <1>4, <1>14, <1>16, <1>17, NothingMoves
<1>19. \A n \in DOMAIN seen : seen[n].server # Deleted
       BY <1>1, <1>2, <1>3, <1>11 DEF DeletionInv, CallInv, CallSound
<1>20. CallSound' BY <1>2, <1>12, <1>19 DEF CallSound
<1>21. NoticesOf(q) BY <1>3, <1>5, <1>10, <1>14, <1>16 DEF NoticesOf, Nodes, Copy
<1>22. db'.agent => <<"agent", Deleted, 0>> \in q.outstanding BY <1>10, <1>13, <1>14, <1>16
<1> QED BY <1>4, <1>5, <1>6, <1>10, <1>11, <1>12, <1>18, <1>20, <1>21, <1>22, CallGoes

\* The server step deletes, the sweep clears the rows.
LEMMA DeletesServerSound ==
    ASSUME DeletionInv, DeletesServer \/ Sweep
    PROVE  DeletionInv'
<1>1. PICK s : s = call.step OBVIOUS
<1>2. PICK q : q = call.plan OBVIOUS
<1>3. PICK seen : seen = call.seen OBVIOUS
<1>4. call.at \in {"act", "delete"} /\ (call.at = "act" => s.kind = "sweep")
      BY <1>1 DEF DeletesServer, Sweep, Acts, Acting
<1>5. call # Idle BY <1>4 DEF Idle
<1>6. CallSound /\ SettledSteps(plan) /\ NoticesSound
      BY <1>5, StepOfCall DEF DeletionInv, CallInv, PlanInv
<1>7. s.kind \in {"server", "sweep"} /\ (call.at = "delete" => s.kind = "server")
      BY <1>1, <1>4, <1>6 DEF CallSound
<1>8. /\ db' = Effect(db, call.step, call.plan) /\ call' = [call EXCEPT !.at = "retire"]
      /\ UNCHANGED <<plan, touched, lost>> /\ HelpersSame
      BY DEF DeletesServer, Sweep, HelpersSame, identityVars
<1>9. /\ plan # NoPlan /\ plan.state = "deleting" /\ IsFirst(s) /\ StepOf(s, plan.base, plan.gone)
      /\ Copy(q) /\ seen \in [DOMAIN seen -> NodeRow]
      /\ call = [at |-> call.at, step |-> call.step, plan |-> call.plan, seen |-> call.seen]
      BY <1>1, <1>2, <1>3, <1>4, <1>5, StepOfCall
<1>10. call' = [at |-> "retire", step |-> s, plan |-> q, seen |-> seen]
       BY <1>1, <1>2, <1>3, <1>8, <1>9
<1>11. HelperTypes' /\ LeftKept BY <1>8, HelpersStay
<1>12. /\ Moves /\ NodesGone /\ Fulfils(db', s) /\ Trims(db, db', s, q) /\ db'.agent = db.agent
       /\ s.kind # "server" => db'.servers = db.servers
       BY <1>1, <1>2, <1>4, <1>5, <1>8, EffectOfCall
<1>13. Deleted \notin db'.servers
  <2>1. CASE s.kind = "server" BY <1>12, <2>1 DEF Fulfils
  <2>2. CASE s.kind = "sweep"
    <3> DEFINE t == Step(14, "server", 0, 0)
    <3>1. t \in Planned BY PlannedSteps DEF Planned
    <3>2. t.rank = 14 /\ t.kind = "server" BY DEF Step
    <3> HIDE DEF t
    <3>3. s.rank = 15 BY <1>9, <2>2 DEF StepOf
    <3>4. t \notin plan.pending BY <1>9, <3>2, <3>3 DEF IsFirst
    <3>5. Settled(t, plan.outstanding) BY <1>6, <3>1, <3>4 DEF SettledSteps
    <3>6. Deleted \notin db.servers BY <3>2, <3>5 DEF Settled
    <3> QED BY <1>12, <2>2, <3>6
  <2> QED BY <1>7, <2>1, <2>2
<1>14. CallSound' BY <1>7, <1>10, <1>13 DEF CallSound
<1>15. NoticesOf(q)
  <2>1. \A n \in Nodes(db) \ Nodes(db') : db.nodes[n].server = Deleted
        BY <1>7, <1>12 DEF Trims, LostNodes, Direct
  <2>2. s.kind = "server" /\ db.agent => <<"agent", Deleted, 0>> \in q.outstanding
        BY <1>2, <1>4, <1>5, <1>6 DEF NoticesSound
  <2> QED BY <1>2, <1>5, <1>7, <1>9, <1>12, <2>1, <2>2 DEF NoticesOf, Copy
<1> QED BY <1>8, <1>9, <1>10, <1>11, <1>12, <1>14, <1>15, CallGoes

LEMMA DeletesServerFailsSound ==
    ASSUME DeletionInv, DeletesServerFails
    PROVE  DeletionInv'
<1>1. PICK s : s = call.step OBVIOUS
<1>2. PICK q : q = call.plan OBVIOUS
<1>3. call.at = "delete" BY DEF DeletesServerFails
<1>4. call # Idle BY <1>3 DEF Idle
<1>5. s.kind = "server" /\ NoticesSound
      BY <1>1, <1>3, <1>4, StepOfCall DEF DeletionInv, CallInv, CallSound
<1>6. /\ db' \in {db, Effect(db, call.step, call.plan)} /\ call' = Failed(s, q)
      /\ UNCHANGED <<plan, touched, lost>> /\ HelpersSame
      BY <1>1, <1>2 DEF DeletesServerFails, HelpersSame
<1>7. /\ plan # NoPlan /\ plan.state = "deleting" /\ IsFirst(s) /\ Copy(q)
      BY <1>1, <1>2, <1>3, <1>4, StepOfCall
<1>8. HelperTypes' /\ LeftKept BY <1>6, HelpersStay
<1>9. <<"agent", Deleted, 0>> \in q.outstanding \/ ~db.agent BY <1>2, <1>3, <1>4, <1>5 DEF NoticesSound
<1>10. /\ Moves /\ NodesGone /\ db'.agent = db.agent
       /\ \A n \in Nodes(db) \ Nodes(db') : db.nodes[n].server = Deleted
  <2>1. CASE db' = Effect(db, call.step, call.plan)
    <3>1. Moves /\ NodesGone /\ Trims(db, db', s, q) /\ db'.agent = db.agent
          BY <1>1, <1>2, <1>3, <1>4, <1>6, <2>1, EffectOfCall
    <3> QED BY <1>5, <3>1 DEF Trims, LostNodes, Direct
  <2>2. CASE db' = db
    <3>1. Official(db', Nat) /\ SameSystem(db, db') BY <2>2 DEF DeletionInv, SameSystem
    <3> QED BY <1>6, <2>2, <3>1, SameMoves
  <2> QED BY <1>6, <2>1, <2>2
<1>11. NoticesOf(q) BY <1>2, <1>4, <1>7, <1>9, <1>10 DEF NoticesOf, Copy
<1> QED BY <1>6, <1>7, <1>8, <1>10, <1>11, CallEnds

-----------------------------------------------------------------------------
(* The states of the Helpers *)

\* The state with these parts.
Made5(i, n, r, q, o) == [identity |-> i, install |-> n, rebind |-> r, queue |-> q, results |-> o]

Parts(i, n, r, q, o) ==
    /\ i \in [Server -> IdentityRow] /\ n \in SUBSET InstallRow /\ r \in SUBSET RebindRow
    /\ q \in [Server -> Nat] /\ o \in [Server -> SUBSET Outcome]
LeftParts(i, n, r, q, o) ==
    /\ i[Deleted] = NoIdentity /\ q[Deleted] = 0 /\ o[Deleted] = {}
    /\ \A x \in n \cup r : x.server # Deleted

LEMMA MadeState ==
    ASSUME NEW i, NEW n, NEW r, NEW q, NEW o, Parts(i, n, r, q, o)
    PROVE  /\ Made5(i, n, r, q, o) \in State
           /\ LeftState(Made5(i, n, r, q, o)) <=> LeftParts(i, n, r, q, o)
BY DEF Made5, State, LeftState, Parts, LeftParts

LEMMA StateFields ==
    ASSUME NEW st \in State
    PROVE  /\ st.identity \in [Server -> IdentityRow] /\ st.install \in SUBSET InstallRow
           /\ st.rebind \in SUBSET RebindRow /\ st.queue \in [Server -> Nat]
           /\ st.results \in [Server -> SUBSET Outcome]
           /\ Parts(st.identity, st.install, st.rebind, st.queue, st.results)
           /\ st = Made5(st.identity, st.install, st.rebind, st.queue, st.results)
           /\ LeftState(st) <=> LeftParts(st.identity, st.install, st.rebind, st.queue, st.results)
BY DEF State, Made5, Parts, LeftState, LeftParts

LEMMA NoNames ==
    /\ 0 \in Name /\ NoIdentity \in IdentityRow /\ NoConfig \in Credentials /\ NoResult \in Outcome
    /\ NoScript = NoConfig
BY DEF Name, NoIdentity, IdentityRow, NoConfig, NoScript, Credentials, NoResult, Outcome, Nobody

LEMMA RetiredState ==
    ASSUME NEW st \in State
    PROVE  /\ Retired(st, Deleted) \in State /\ LeftState(Retired(st, Deleted))
           /\ LeftState(st) => Retired(st, Deleted) = st
<1> DEFINE i == [st.identity EXCEPT ![Deleted] = NoIdentity]
           n == {x \in st.install : x.server # Deleted}
           r == {x \in st.rebind : x.server # Deleted}
           q == [st.queue EXCEPT ![Deleted] = 0]
           o == [st.results EXCEPT ![Deleted] = {}]
<1>r. Retired(st, Deleted)
        = [st EXCEPT !.identity = i, !.queue = q, !.results = o, !.install = n, !.rebind = r]
      BY DEF Retired
<1>2. /\ i \in [Server -> IdentityRow] /\ n \in SUBSET InstallRow /\ r \in SUBSET RebindRow
      /\ q \in [Server -> Nat] /\ o \in [Server -> SUBSET Outcome]
      BY StateFields, NoNames
<1>3. i[Deleted] = NoIdentity /\ q[Deleted] = 0 /\ o[Deleted] = {} BY StateFields, DeletedAssumption
<1>4. \A x \in n \cup r : x.server # Deleted OBVIOUS
<1>5. LeftState(st) => i = st.identity /\ n = st.install /\ r = st.rebind /\ q = st.queue /\ o = st.results
      BY StateFields DEF LeftState
<1> HIDE DEF i, n, r, q, o
<1>1. Retired(st, Deleted) = Made5(i, n, r, q, o) BY <1>r DEF Made5, State
<1>6. Parts(i, n, r, q, o) /\ LeftParts(i, n, r, q, o) BY <1>2, <1>3, <1>4 DEF Parts, LeftParts
<1>7. Retired(st, Deleted) \in State /\ LeftState(Retired(st, Deleted)) BY <1>1, <1>6, MadeState
<1>8. LeftState(st) => Retired(st, Deleted) = st BY <1>1, <1>5, StateFields
<1> QED BY <1>7, <1>8

LEMMA PrunedState ==
    ASSUME NEW st \in State
    PROVE  /\ Pruned(st) \in State /\ (LeftState(st) => LeftState(Pruned(st)))
           /\ Pruned(st).install \subseteq st.install /\ Pruned(st).rebind \subseteq st.rebind
<1> DEFINE i == [s \in Server |->
                    IF st.identity[s].pend # Nobody /\ age[st.identity[s].pend] = 2
                    THEN [st.identity[s] EXCEPT !.pend = Nobody] ELSE st.identity[s]]
           n == {x \in st.install : age[x.token] = 0}
           r == {x \in st.rebind : age[x.token] = 0}
<1>p. Pruned(st) = [st EXCEPT !.install = n, !.rebind = r, !.identity = i] BY DEF Pruned
<1>2. \A s \in Server : st.identity[s] \in IdentityRow BY StateFields
<1>3. \A id \in IdentityRow : [id EXCEPT !.pend = Nobody] \in IdentityRow
      BY NoNames DEF IdentityRow, Nobody
<1>4. i \in [Server -> IdentityRow] BY <1>2, <1>3
<1>5. n \in SUBSET InstallRow /\ r \in SUBSET RebindRow BY StateFields
<1>6. st.identity[Deleted] = NoIdentity => i[Deleted] = NoIdentity
      BY DeletedAssumption DEF NoIdentity
<1>7. n \subseteq st.install /\ r \subseteq st.rebind OBVIOUS
<1> HIDE DEF i, n, r
<1>1. Pruned(st) = Made5(i, n, r, st.queue, st.results) BY <1>p DEF Made5, State
<1>8. Pruned(st).install = n /\ Pruned(st).rebind = r BY <1>1 DEF Made5
<1>9. Parts(i, n, r, st.queue, st.results) BY <1>4, <1>5, StateFields DEF Parts
<1>10. LeftState(st) => LeftParts(i, n, r, st.queue, st.results)
       BY <1>6, <1>7, StateFields DEF LeftParts
<1> QED BY <1>1, <1>7, <1>8, <1>9, <1>10, MadeState

LEMMA ConsumedState ==
    ASSUME NEW st \in State, NEW r \in st.install
    PROVE  Consumed(st, r) \in State /\ (LeftState(st) => LeftState(Consumed(st, r)))
<1> DEFINE id == st.identity[r.server]
           new == IF r.preserve THEN [id EXCEPT !.uuid = r.uuid, !.pend = r.token]
                  ELSE [id EXCEPT !.uuid = r.uuid, !.hash = r.token]
           i == [st.identity EXCEPT ![r.server] = new]
           b == st.rebind \cup {[token |-> r.token, server |-> r.server]}
           n == st.install \ {r}
<1>c. Consumed(st, r) = [st EXCEPT !.identity = i, !.rebind = b, !.install = n] BY DEF Consumed
<1>2. r \in InstallRow /\ r.server \in Server /\ r.token \in Name /\ r.uuid \in Name
      BY StateFields DEF InstallRow
<1>3. id \in IdentityRow BY <1>2, StateFields
<1>4. new \in IdentityRow BY <1>2, <1>3 DEF IdentityRow
<1>5. i \in [Server -> IdentityRow] /\ (r.server # Deleted => i[Deleted] = st.identity[Deleted])
      BY <1>2, <1>4, StateFields
<1>6. n \in SUBSET InstallRow /\ b \in SUBSET RebindRow BY <1>2, StateFields DEF RebindRow
<1>7. r.server # Deleted /\ (\A x \in st.install \cup st.rebind : x.server # Deleted) =>
        \A x \in n \cup b : x.server # Deleted
      OBVIOUS
<1> HIDE DEF i, b, n, new, id
<1>1. Consumed(st, r) = Made5(i, n, b, st.queue, st.results) BY <1>c DEF Made5, State
<1>8. Parts(i, n, b, st.queue, st.results) BY <1>5, <1>6, StateFields DEF Parts
<1>9. LeftState(st) => LeftParts(i, n, b, st.queue, st.results)
      BY <1>5, <1>7, StateFields DEF LeftParts
<1> QED BY <1>1, <1>8, <1>9, MadeState

LEMMA ReboundState ==
    ASSUME NEW st \in State, NEW r \in st.rebind, NEW s \in Server
    PROVE  Rebound(st, s, r) \in State /\ (LeftState(st) /\ s # Deleted => LeftState(Rebound(st, s, r)))
<1> DEFINE i == [x \in Server |-> IF x = r.server THEN [st.identity[s] EXCEPT !.pend = Nobody]
                                  ELSE IF x = s THEN NoIdentity ELSE st.identity[x]]
           o == [x \in Server |-> IF x = s /\ s # r.server THEN {}
                                  ELSE IF x = r.server /\ st.results[s] # {} THEN st.results[s]
                                  ELSE st.results[x]]
           q == [x \in Server |-> IF x = s /\ s # r.server THEN 0 ELSE st.queue[x]]
           b == st.rebind \ {r}
<1>b. Rebound(st, s, r) = [st EXCEPT !.identity = i, !.results = o, !.queue = q, !.rebind = b]
      BY DEF Rebound
<1>2. \A x \in Server : st.identity[x] \in IdentityRow BY StateFields
<1>3. \A id \in IdentityRow : [id EXCEPT !.pend = Nobody] \in IdentityRow
      BY NoNames DEF IdentityRow, Nobody
<1>4. i \in [Server -> IdentityRow] BY <1>2, <1>3, NoNames
<1>5. o \in [Server -> SUBSET Outcome] /\ q \in [Server -> Nat] /\ b \in SUBSET RebindRow BY StateFields
<1>6. r.server # Deleted /\ s # Deleted =>
        i[Deleted] = st.identity[Deleted] /\ o[Deleted] = st.results[Deleted] /\ q[Deleted] = st.queue[Deleted]
      BY DeletedAssumption
<1>7. b \subseteq st.rebind OBVIOUS
<1> HIDE DEF i, o, q, b
<1>1. Rebound(st, s, r) = Made5(i, st.install, b, q, o) BY <1>b DEF Made5, State
<1>8. Parts(i, st.install, b, q, o) BY <1>4, <1>5, StateFields DEF Parts
<1>9. LeftState(st) /\ s # Deleted => LeftParts(i, st.install, b, q, o)
      BY <1>6, <1>7, StateFields DEF LeftParts
<1> QED BY <1>1, <1>8, <1>9, MadeState

LEMMA ReportedState ==
    ASSUME HelperTypes, NEW s \in Server, NEW m \in Machine
    PROVE  /\ Reported(mem, s, m) \in State
           /\ LeftState(mem) /\ s # Deleted => LeftState(Reported(mem, s, m))
<1> DEFINE c == config[m]
           done == outbox[m].command # 0
           id == mem.identity[s]
           new == IF id.hash = c.token THEN id ELSE [id EXCEPT !.hash = c.token, !.pend = Nobody]
           i == [mem.identity EXCEPT ![s] = new]
           b == IF mem.identity[s].hash = c.token THEN mem.rebind ELSE {r \in mem.rebind : r.server # s}
           o == [mem.results EXCEPT ![s] = IF done THEN @ \cup {outbox[m]} ELSE @]
           q == [mem.queue EXCEPT ![s] = IF done /\ @ = outbox[m].command THEN 0 ELSE @]
<1>r. Reported(mem, s, m) = [mem EXCEPT !.identity = i, !.rebind = b, !.results = o, !.queue = q]
      BY DEF Reported
<1>2. mem \in State /\ c.token \in Name /\ outbox[m] \in Outcome BY DEF HelperTypes, Credentials
<1>3. id \in IdentityRow BY <1>2, StateFields
<1>4. new \in IdentityRow BY <1>2, <1>3, NoNames DEF IdentityRow, Nobody
<1>5. i \in [Server -> IdentityRow] /\ (s # Deleted => i[Deleted] = mem.identity[Deleted])
      BY <1>2, <1>4, StateFields
<1>6. o \in [Server -> SUBSET Outcome] /\ (s # Deleted => o[Deleted] = mem.results[Deleted])
      BY <1>2, StateFields
<1>7. q \in [Server -> Nat] /\ (s # Deleted => q[Deleted] = mem.queue[Deleted])
      BY <1>2, StateFields
<1>8. b \in SUBSET RebindRow /\ b \subseteq mem.rebind BY <1>2, StateFields
<1> HIDE DEF i, b, o, q, new, id
<1>1. Reported(mem, s, m) = Made5(i, mem.install, b, q, o) BY <1>2, <1>r DEF Made5, State
<1>9. Parts(i, mem.install, b, q, o) BY <1>2, <1>5, <1>6, <1>7, <1>8, StateFields DEF Parts
<1>10. LeftState(mem) /\ s # Deleted => LeftParts(i, mem.install, b, q, o)
       BY <1>2, <1>5, <1>6, <1>7, <1>8, StateFields DEF LeftParts
<1> QED BY <1>1, <1>9, <1>10, MadeState

-----------------------------------------------------------------------------
(* The other steps of a call *)

\* The official system stays.
LEMMA SystemStays ==
    ASSUME DeletionInv, db' = db, touched \subseteq touched'
    PROVE  Moves /\ NodesGone
<1>1. Official(db', Nat) /\ SameSystem(db, db') BY DEF DeletionInv, SameSystem
<1> QED BY <1>1, SameMoves

LEMMA RetireSound ==
    ASSUME DeletionInv, NEW ok \in BOOLEAN, Retire(ok)
    PROVE  DeletionInv'
<1>1. PICK s : s = call.step OBVIOUS
<1>2. PICK q : q = call.plan OBVIOUS
<1>3. call.at = "retire" BY DEF Retire
<1>4. call # Idle BY <1>3 DEF Idle
<1>5. s.kind \in {"server", "sweep"} /\ Deleted \notin db.servers
      BY <1>1, <1>3, <1>4, StepOfCall DEF DeletionInv, CallInv, CallSound
<1>6. /\ UNCHANGED <<db, plan, touched, lost, script, config, outbox, issued>>
      /\ call' = IF ok THEN Completed(s, q) ELSE Failed(s, q)
      /\ mem' = Retired(mem, Deleted) /\ (IF ok THEN file' = mem' ELSE file' \in {file, mem'})
      BY <1>1, <1>2 DEF Retire, Saves
<1>7. plan # NoPlan /\ plan.state = "deleting" /\ IsFirst(s) /\ Copy(q)
      BY <1>1, <1>2, <1>3, <1>4, StepOfCall
<1>8. mem \in State /\ file \in State BY DEF DeletionInv, HelperTypes
<1>9. mem' \in State /\ LeftState(mem') BY <1>6, <1>8, RetiredState
<1>10. HelperTypes' BY <1>6, <1>8, <1>9 DEF DeletionInv, HelperTypes
<1>11. LeftKept BY <1>6, <1>9 DEF LeftKept
<1>12. Moves /\ NodesGone BY <1>6, SystemStays
<1>13. ok => Settled(s, q.outstanding)'
  <2>1. ok => LeftState(mem') /\ LeftState(file') BY <1>6, <1>9
  <2> QED BY <1>5, <1>6, <2>1 DEF Settled
<1>14. NoticesOf(q) BY <1>2, <1>4, <1>6, <1>7 DEF NoticesOf, Copy
<1> QED BY <1>6, <1>7, <1>10, <1>11, <1>12, <1>13, <1>14, CallEnds

LEMMA UninstallsSound ==
    ASSUME DeletionInv, Uninstalls
    PROVE  DeletionInv'
<1>1. PICK s : s = Current OBVIOUS
<1>2. plan # NoPlan /\ plan.state = "deleting" /\ call = Idle /\ s.kind = "helper"
      BY <1>1 DEF Uninstalls, NoPlan
<1>3. IsFirst(s) /\ Copy(plan) BY <1>1, <1>2, CurrentIsFirst
<1>4. UNCHANGED <<db, plan, touched, lost, script, config, outbox>> BY DEF Uninstalls
<1>5. HelperTypes BY DEF DeletionInv
<1>6. Moves /\ NodesGone BY <1>4, SystemStays
<1>7. ASSUME NEW q, Copy(q) PROVE NoticesOf(q) BY <1>2, <1>4, <1>7 DEF NoticesOf, Copy
<1>8. ASSUME NEW o PROVE Settled(s, o)' BY <1>2 DEF Settled
<1>9. CASE call' = Completed(s, Announce(plan, <<"helper", Deleted, 0>>)) /\ UNCHANGED <<mem, file, issued>>
  <2>1. PICK q : q = Announce(plan, <<"helper", Deleted, 0>>) OBVIOUS
  <2>2. Copy(q) BY <1>3, <2>1, AnnounceCopy
  <2>3. HelpersSame BY <1>4, <1>9 DEF HelpersSame
  <2>4. HelperTypes' /\ LeftKept BY <2>3, HelpersStay
  <2>5. call' = Completed(s, q) BY <1>9, <2>1
  <2> QED BY <1>2, <1>3, <1>4, <1>6, <1>7, <1>8, <2>2, <2>4, <2>5, CallEnds
<1>10. CASE /\ mem.identity[Deleted].hash # Nobody /\ issued' = issued + 1
            /\ \E ok \in BOOLEAN :
                 LET cleared == [mem EXCEPT !.queue[Deleted] = 0]
                     queued == [mem EXCEPT !.queue[Deleted] = issued + 1]
                 IN  IF ok
                     THEN /\ mem' = queued /\ file' = queued
                          /\ call' = In("save", s, [plan EXCEPT !.command = issued + 1])
                     ELSE /\ mem' = cleared /\ file' \in {file, cleared, queued}
                          /\ call' = Failed(s, plan)
  <2> DEFINE cleared == [mem EXCEPT !.queue[Deleted] = 0]
             queued == [mem EXCEPT !.queue[Deleted] = issued + 1]
  <2>1. ~LeftState(mem) BY <1>10 DEF LeftState, NoIdentity
  <2>2. LeftKept BY <2>1 DEF LeftKept
  <2>3. ASSUME NEW k \in Nat PROVE [mem EXCEPT !.queue[Deleted] = k] \in State
    <3> DEFINE f == [mem.queue EXCEPT ![Deleted] = k]
    <3>1. f \in [Server -> Nat] BY <1>5, StateFields DEF HelperTypes
    <3>2. [mem EXCEPT !.queue[Deleted] = k] = [mem EXCEPT !.queue = f] OBVIOUS
    <3> HIDE DEF f
    <3> QED BY <1>5, <3>1, <3>2 DEF HelperTypes, State
  <2>4. issued + 1 \in Nat BY <1>5 DEF HelperTypes
  <2>5. cleared \in State /\ queued \in State BY <2>3, <2>4
  <2> HIDE DEF cleared, queued
  <2>6. mem' \in {cleared, queued} /\ file' \in {file, cleared, queued} BY <1>10 DEF cleared, queued
  <2>7. HelperTypes' BY <1>4, <1>5, <1>10, <2>4, <2>5, <2>6 DEF HelperTypes
  <2>8. PICK q : Copy(q) /\ call' = Failed(s, q)
    <3>1. Copy([plan EXCEPT !.command = issued + 1]) BY <1>3, <2>4 DEF Copy, PlanType
    <3>2. \A q : In("save", s, q) = Failed(s, q) BY DEF Failed
    <3> QED BY <1>3, <1>10, <3>1, <3>2
  <2> QED BY <1>2, <1>3, <1>4, <1>6, <1>7, <2>2, <2>7, <2>8, CallEnds
<1> QED BY <1>1, <1>9, <1>10 DEF Uninstalls

LEMMA AwaitsUninstallSound ==
    ASSUME DeletionInv, AwaitsUninstall
    PROVE  DeletionInv'
<1>1. PICK s : s = Current OBVIOUS
<1>2. plan # NoPlan /\ plan.state = "deleting" /\ call = Idle /\ s.kind = "helper"
      BY <1>1 DEF AwaitsUninstall, NoPlan
<1>3. IsFirst(s) /\ Copy(plan) BY <1>1, <1>2, CurrentIsFirst
<1>4. UNCHANGED <<db, plan, touched, lost>> /\ HelpersSame
      BY DEF AwaitsUninstall, HelpersSame, identityVars
<1>5. HelperTypes' /\ LeftKept BY <1>4, HelpersStay
<1>6. Moves /\ NodesGone BY <1>4, SystemStays
<1>7. ASSUME NEW o PROVE Settled(s, o)' BY <1>2 DEF Settled
<1>8. PICK q : Copy(q) /\ call' \in {Completed(s, q), Failed(s, q)}
  <2>1. Copy([plan EXCEPT !.helpers = @ \cap Running]) BY <1>3 DEF Copy, PlanType
  <2>2. Copy([plan EXCEPT !.command = 0, !.waited = FALSE]) BY <1>3 DEF Copy, PlanType
  <2>3. Copy(Announce(plan, <<"helper", Deleted, 0>>)) BY <1>3, AnnounceCopy
  <2>4. \/ call' = Completed(s, [plan EXCEPT !.helpers = @ \cap Running])
        \/ call' = Failed(s, [plan EXCEPT !.command = 0, !.waited = FALSE])
        \/ call' = Completed(s, Announce(plan, <<"helper", Deleted, 0>>))
        BY <1>1 DEF AwaitsUninstall
  <2> QED BY <2>1, <2>2, <2>3, <2>4
<1>9. NoticesOf(q) BY <1>2, <1>4, <1>8 DEF NoticesOf, Copy
<1> QED BY <1>2, <1>3, <1>4, <1>5, <1>6, <1>7, <1>8, <1>9, CallEnds

\* The plan is replaced by a copy of it, and there is no call any more.
LEMMA PlanReplaced ==
    ASSUME DeletionInv, plan # NoPlan, UNCHANGED <<db, touched, lost>>, HelpersSame,
           NEW q, PlanType(q), Ordered(q), SettledSteps(q), plan' = q, call' = Idle,
           plan.outstanding \subseteq q.outstanding,
           call # Idle => call.plan.outstanding \subseteq q.outstanding
    PROVE  DeletionInv'
<1>1. SamePlan BY PlanFields DEF SamePlan
<1>2. HelperTypes' /\ LeftKept BY HelpersStay
<1>3. Moves /\ NodesGone BY SystemStays
<1>4. PlanType(q)' /\ Ordered(q)' BY <1>1, PlanTypeKept, OrderedKept
<1>5. SettledSteps(q)' BY <1>1, <1>2, <1>3, SettledStepsKept
<1>6. PlanInv' /\ CallInv' BY <1>4, <1>5 DEF PlanInv, CallInv
<1>7. NoticesMove BY DEF NoticesMove, Announced, ServerByHand
<1> QED BY <1>1, <1>2, <1>3, <1>6, <1>7, StepSound

LEMMA SaveSound ==
    ASSUME DeletionInv, Save
    PROVE  DeletionInv'
<1>1. call.at = "save" /\ plan' = call.plan /\ call' = Idle
      BY DEF Save
<1>2. call # Idle BY <1>1 DEF Idle
<1>3. plan # NoPlan BY <1>2, StepOfCall
<1>4. UNCHANGED <<db, touched, lost>> /\ HelpersSame BY DEF Save, HelpersSame, identityVars
<1>5. PICK q : q = call.plan OBVIOUS
<1>6. /\ PlanType(q) /\ Ordered(q) /\ SettledSteps(q) /\ plan.outstanding \subseteq q.outstanding
      BY <1>2, <1>3, <1>5 DEF DeletionInv, CallInv, CallType
<1> QED BY <1>1, <1>3, <1>4, <1>5, <1>6, PlanReplaced

LEMMA TimePassesSound ==
    ASSUME DeletionInv, TimePasses
    PROVE  DeletionInv'
<1>1. plan # NoPlan /\ call = Idle /\ call' = Idle BY DEF TimePasses, NoPlan
<1>2. UNCHANGED <<db, touched, lost>> /\ HelpersSame BY DEF TimePasses, HelpersSame, identityVars
<1>3. PICK q : q = [plan EXCEPT !.waited = TRUE] OBVIOUS
<1>4. PlanType(plan) /\ Ordered(plan) /\ SettledSteps(plan) BY <1>1 DEF DeletionInv, PlanInv
<1>5. /\ PlanType(q) /\ q.pending = plan.pending /\ q.outstanding = plan.outstanding
      /\ q.state = plan.state
      BY <1>3, <1>4 DEF PlanType
<1>6. Ordered(q) /\ SettledSteps(q) BY <1>4, <1>5 DEF Ordered, SettledSteps
<1>7. plan' = q BY <1>3 DEF TimePasses
<1> QED BY <1>1, <1>2, <1>5, <1>6, <1>7, PlanReplaced

\* A call is lost; what it announced is remembered.
LEMMA CallLost ==
    ASSUME DeletionInv, plan # NoPlan, HelperTypes', LeftKept, UNCHANGED <<db, plan, touched>>,
           call' = Idle, Dropped
    PROVE  DeletionInv'
<1>1. Moves /\ NodesGone BY SystemStays
<1>2. PlanInv BY DEF DeletionInv
<1>3. PlanInv' /\ CallInv' /\ SamePlan BY <1>1, <1>2, CallGone
<1>4. NoticesMove BY DEF NoticesMove, Announced, ServerByHand, Dropped
<1> QED BY <1>1, <1>3, <1>4, StepSound

LEMMA SaveFailsSound ==
    ASSUME DeletionInv, SaveFails
    PROVE  DeletionInv'
<1>1. call.at = "save" /\ UNCHANGED <<db, plan, touched>> /\ call' = Idle /\ Dropped /\ HelpersSame
      BY DEF SaveFails, HelpersSame
<1>2. call # Idle BY <1>1 DEF Idle
<1>3. plan # NoPlan BY <1>2, StepOfCall
<1>4. HelperTypes' /\ LeftKept BY <1>1, HelpersStay
<1> QED BY <1>1, <1>3, <1>4, CallLost

-----------------------------------------------------------------------------
(* Steps of others *)

\* Without a plan there is only the official system.
NoPlanInv == call = Idle /\ Official(db, Nodes(db)) /\ Official(db, Nat) /\ Nodes(db) \subseteq Nat

\* A call in its place, and the plan as it was.
LEMMA OthersSound ==
    ASSUME DeletionInv, HelperTypes', LeftKept, UNCHANGED <<plan, call, lost>>,
           plan = NoPlan => NoPlanInv',
           plan # NoPlan => Moves /\ NodesGone,
           \/ Deleted \in db'.servers \/ Deleted \notin db.servers \/ ServerByHand',
           \A n \in plan.gone \cap (Nodes(db) \ Nodes(db')) \cap db'.routes : db.nodes[n].server = Deleted,
           db'.agent = db.agent, ServerByHand' => ServerByHand \/ Deleted \notin db'.servers
    PROVE  DeletionInv'
<1>1. CASE plan = NoPlan BY <1>1 DEF DeletionInv, NoPlanInv
<1>2. CASE plan # NoPlan
  <2>1. PlanInv /\ CallInv /\ NoticesSound BY <1>2 DEF DeletionInv
  <2>2. PlanInv' /\ CallInv' /\ SamePlan BY <1>2, <2>1, CallStays
  <2>3. NoticesMove BY <2>1 DEF NoticesMove, NoticesSound, Announced
  <2> QED BY <1>2, <2>2, <2>3, StepSound
<1> QED BY <1>1, <1>2

\* What the deletion depends on stays.
LEMMA SameSystemSound ==
    ASSUME DeletionInv, HelperTypes', LeftKept, UNCHANGED <<plan, call, lost>>, touched \subseteq touched',
           SameSystem(db, db'), Official(db', Nat), plan = NoPlan => Official(db', Nodes(db)),
           ServerByHand' => ServerByHand
    PROVE  DeletionInv'
<1>1. Moves /\ NodesGone BY SameMoves
<1>2. Nodes(db') = Nodes(db) /\ db'.servers = db.servers /\ db'.agent = db.agent
      BY DEF SameSystem, Nodes
<1>3. plan = NoPlan => NoPlanInv' BY <1>2 DEF DeletionInv, NoPlanInv
<1> QED BY <1>1, <1>2, <1>3, OthersSound

LEMMA EvaluationSound ==
    ASSUME DeletionInv, EvaluationReads \/ EvaluationWrites
    PROVE  DeletionInv'
<1>1. UNCHANGED <<plan, call, lost, touched>> /\ HelpersSame
      BY DEF EvaluationReads, EvaluationWrites, HelpersSame, identityVars
<1>2. HelperTypes' /\ LeftKept BY <1>1, HelpersStay
<1>3. PICK e : e = db' OBVIOUS
<1>4. Official(db, Nat) /\ (plan = NoPlan => Official(db, Nodes(db))) BY DEF DeletionInv
<1>5. \A nodes : Official(db, nodes) => Official(e, nodes) /\ SameSystem(db, e)
  <2> SUFFICES ASSUME NEW nodes, Official(db, nodes) PROVE Official(e, nodes) /\ SameSystem(db, e)
      OBVIOUS
  <2>1. CASE db' = db BY <1>3, <2>1 DEF SameSystem
  <2>2. CASE EvaluationWrites
    <3>1. PICK r : r = IF evaluation = "all" /\ db.rows = "none" THEN "late"
                       ELSE IF evaluation = "late" /\ db.rows = "late" THEN "none" ELSE db.rows
          OBVIOUS
    <3>2. e = [db EXCEPT !.rows = r] BY <1>3, <2>2, <3>1 DEF EvaluationWrites
    <3>3. db.rows \in {"none", "all", "late"} BY DEF Official
    <3>4. r \in {"none", "all", "late"} BY <3>1, <3>3
    <3> QED BY <3>2, <3>4, SetRows
  <2> QED BY <2>1, <2>2 DEF EvaluationReads
<1>6. SameSystem(db, db') /\ Official(db', Nat) /\ (plan = NoPlan => Official(db', Nodes(db)))
      BY <1>3, <1>4, <1>5
<1> QED BY <1>1, <1>2, <1>6, SameSystemSound DEF ServerByHand

\* Only the states of the Helpers change.
LEMMA HelpersOnly ==
    ASSUME DeletionInv, HelperTypes', LeftKept, UNCHANGED <<db, plan, call, lost>>,
           touched \subseteq touched', ServerByHand' => ServerByHand
    PROVE  DeletionInv'
<1>1. SameSystem(db, db') /\ Official(db', Nat) /\ (plan = NoPlan => Official(db', Nodes(db)))
      BY DEF DeletionInv, SameSystem
<1> QED BY <1>1, SameSystemSound

\* mem and file become one and the same state, or the file stays.
LEMMA SavedState ==
    ASSUME HelperTypes, NEW new \in State,
           Deleted \notin db.servers /\ LeftState(mem) /\ LeftState(file) =>
             LeftState(new) \/ <<"token", Deleted>> \in touched',
           mem' \in {mem, new}, file' \in {file, new}
    PROVE  mem' \in State /\ file' \in State /\ LeftKept
BY DEF HelperTypes, LeftKept

LEMMA CreateTokenSound ==
    ASSUME HelperTypes, NEW s \in Server, NEW ok \in BOOLEAN, CreateToken(s, ok),
           issued' = issued,
           Deleted \notin db.servers /\ LeftState(mem) => s # Deleted \/ <<"token", Deleted>> \in touched'
    PROVE  HelperTypes' /\ LeftKept
<1> DEFINE k == Cardinality(Made) + 1
           st == Pruned(mem)
           id == IF st.identity[s].uuid = Nobody THEN [NoIdentity EXCEPT !.uuid = k] ELSE st.identity[s]
           row == InstallToken(k, s, id, st)
           i == [st.identity EXCEPT ![s] = id]
           n == st.install \cup {row}
           new == [st EXCEPT !.identity[s] = id, !.install = @ \cup {InstallToken(k, s, id, st)}]
<1>1. mem' = new /\ file' \in {file, new} /\ UNCHANGED <<script, config, outbox>>
      BY DEF CreateToken
<1>2. new = [st EXCEPT !.identity = i, !.install = n] OBVIOUS
<1> HIDE DEF new
<1>3. k \in Name
  <2>1. MaxTokens \in Nat BY IdentityAssumption
  <2>2. IsFiniteSet(Token) BY <2>1, FS_Interval DEF Token
  <2>3. Made \subseteq Token BY DEF Made
  <2>4. IsFiniteSet(Made) BY <2>2, <2>3, FS_Subset
  <2>5. Cardinality(Made) \in Nat BY <2>4, FS_CardinalityType
  <2> QED BY <2>5 DEF Name
<1> HIDE DEF k
<1>4. mem \in State /\ file \in State BY DEF HelperTypes
<1>5. st \in State /\ (LeftState(mem) => LeftState(st)) BY <1>4, PrunedState
<1> HIDE DEF st
<1>6. st.identity[s] \in IdentityRow BY <1>5, StateFields
<1>7. id \in IdentityRow BY <1>3, <1>6, NoNames DEF IdentityRow, NoIdentity
<1> HIDE DEF id
<1>8. row \in InstallRow /\ row.server = s
  <2>1. id.uuid \in Name BY <1>7 DEF IdentityRow
  <2>2. (st.identity[s].hash # Nobody) \in BOOLEAN OBVIOUS
  <2> QED BY <1>3, <2>1, <2>2 DEF InstallToken, InstallRow
<1> HIDE DEF row
<1>9. i \in [Server -> IdentityRow] /\ (s # Deleted => i[Deleted] = st.identity[Deleted])
      BY <1>5, <1>7, StateFields
<1>10. n \in SUBSET InstallRow /\ \A x \in n : x \in st.install \/ x.server = s
       BY <1>5, <1>8, StateFields
<1> HIDE DEF i, n
<1>11. Parts(i, n, st.rebind, st.queue, st.results) BY <1>5, <1>9, <1>10, StateFields DEF Parts
<1>12. new = Made5(i, n, st.rebind, st.queue, st.results) BY <1>2, <1>5 DEF Made5, State
<1>13. LeftState(st) /\ s # Deleted => LeftParts(i, n, st.rebind, st.queue, st.results)
       BY <1>5, <1>9, <1>10, StateFields DEF LeftParts
<1>14. new \in State /\ (LeftState(st) /\ s # Deleted => LeftState(new))
       BY <1>11, <1>12, <1>13, MadeState
<1>15. mem' \in State /\ file' \in State /\ LeftKept BY <1>1, <1>5, <1>14, SavedState
<1> QED BY <1>1, <1>15 DEF HelperTypes

LEMMA DownloadSound ==
    ASSUME HelperTypes, NEW m \in Machine, NEW k, NEW ok \in BOOLEAN, Download(m, k, ok), issued' = issued
    PROVE  HelperTypes' /\ LeftKept
<1>1. PICK st : st = Pruned(mem) OBVIOUS
<1>2. PICK r \in st.install :
        /\ Saves(Consumed(st, r), ok) /\ HandsOut(m, r, ok)
      BY <1>1 DEF Download
<1>3. mem \in State BY DEF HelperTypes
<1>4. st \in State /\ (LeftState(mem) => LeftState(st)) BY <1>1, <1>3, PrunedState
<1>5. PICK new : new = Consumed(st, r) OBVIOUS
<1>6. new \in State /\ (LeftState(st) => LeftState(new)) BY <1>4, <1>5, ConsumedState
<1>7. mem' = new /\ file' \in {file, new} BY <1>2, <1>5 DEF Saves
<1>8. mem' \in State /\ file' \in State /\ LeftKept BY <1>4, <1>6, <1>7, SavedState
<1>9. r \in InstallRow BY <1>4, StateFields
<1>10. [uuid |-> r.uuid, token |-> r.token] \in Credentials BY <1>9 DEF InstallRow, Credentials
<1>11. script' \in [Machine -> Credentials] BY <1>2, <1>10 DEF HandsOut, HelperTypes
<1>12. UNCHANGED <<config, outbox>> BY DEF Download
<1> QED BY <1>8, <1>11, <1>12 DEF HelperTypes

LEMMA DownloadsNothingSound ==
    ASSUME HelperTypes, NEW k, DownloadsNothing(k), issued' = issued
    PROVE  HelperTypes' /\ LeftKept
<1>1. mem' = Pruned(mem) /\ UNCHANGED <<file, script, config, outbox>> BY DEF DownloadsNothing
<1>2. mem \in State BY DEF HelperTypes
<1>3. mem' \in State /\ (LeftState(mem) => LeftState(mem')) BY <1>1, <1>2, PrunedState
<1> QED BY <1>1, <1>3 DEF HelperTypes, LeftKept

LEMMA RebindsSound ==
    ASSUME HelperTypes, NEW m \in Machine, NEW ok \in BOOLEAN, Rebinds(m, ok), issued' = issued
    PROVE  HelperTypes' /\ LeftKept
<1>1. PICK st : st = Pruned(mem) OBVIOUS
<1>2. PICK r \in st.rebind, s \in Server :
        /\ st.identity[s].hash = config[m].token /\ st.identity[s].uuid = config[m].uuid
        /\ Saves(Rebound(st, s, r), ok)
      BY <1>1 DEF Rebinds
<1>3. mem \in State /\ config[m] \in Credentials BY DEF HelperTypes
<1>4. st \in State /\ (LeftState(mem) => LeftState(st)) BY <1>1, <1>3, PrunedState
<1>5. PICK new : new = Rebound(st, s, r) OBVIOUS
<1>6. new \in State /\ (LeftState(st) /\ s # Deleted => LeftState(new)) BY <1>4, <1>5, ReboundState
<1>7. LeftState(st) => s # Deleted
  <2> SUFFICES ASSUME LeftState(st), s = Deleted PROVE FALSE OBVIOUS
  <2>1. st.identity[s] = NoIdentity BY DEF LeftState
  <2>2. config[m].uuid = Nobody /\ config[m].token = Nobody BY <1>2, <2>1 DEF NoIdentity
  <2>3. config[m] = NoConfig BY <1>3, <2>2 DEF NoConfig, Credentials
  <2> QED BY <2>3 DEF Rebinds
<1>8. mem' = new /\ file' \in {file, new} BY <1>2, <1>5 DEF Saves
<1>9. mem' \in State /\ file' \in State /\ LeftKept BY <1>4, <1>6, <1>7, <1>8, SavedState
<1>10. script' = [script EXCEPT ![m] = NoScript] /\ UNCHANGED <<config, outbox>> BY DEF Rebinds
<1>11. script' \in [Machine -> Credentials] BY <1>10, NoNames DEF HelperTypes
<1> QED BY <1>9, <1>10, <1>11 DEF HelperTypes

LEMMA ReportSound ==
    ASSUME HelperTypes, NEW m \in Machine, NEW s \in Server, NEW ok \in BOOLEAN, Report(m, s, ok),
           issued' = issued
    PROVE  HelperTypes' /\ LeftKept
<1>1. PICK new : new = Reported(mem, s, m) OBVIOUS
<1>2. new \in State /\ (LeftState(mem) /\ s # Deleted => LeftState(new)) BY <1>1, ReportedState
<1>3. LeftState(mem) => s # Deleted BY DEF Report, Authorises, LeftState, NoIdentity
<1>4. mem' \in {mem, new} /\ file' \in {file, new} BY <1>1 DEF Report, Undone
<1>5. mem' \in State /\ file' \in State /\ LeftKept BY <1>2, <1>3, <1>4, SavedState
<1>6. config' \in [Machine -> Credentials] /\ outbox' \in [Machine -> Outcome] /\ script' = script
      BY NoNames DEF Report, HelperTypes
<1> QED BY <1>5, <1>6 DEF HelperTypes

\* What happens on the machines alone.
LEMMA MachinesSound ==
    ASSUME HelperTypes, NEW m \in Machine, issued' = issued,
           \/ InstallFresh(m) \/ InstallEnds(m) \/ Wipe(m) \/ Refused(m, db.servers)
           \/ \E s \in Server, ok \in BOOLEAN : Uninstall(m, s, ok)
    PROVE  HelperTypes' /\ LeftKept
<1>1. UNCHANGED <<mem, file>> BY DEF InstallFresh, InstallEnds, Wipe, Refused, Uninstall
<1>2. LeftKept BY <1>1 DEF LeftKept
<1>3. script' \in [Machine -> Credentials] /\ config' \in [Machine -> Credentials]
  <2>1. script[m] \in Credentials BY DEF HelperTypes
  <2>2. script' \in {script, [script EXCEPT ![m] = NoConfig]}
        BY NoNames DEF InstallFresh, InstallEnds, Wipe, Refused, Uninstall
  <2>3. config' \in {config, [config EXCEPT ![m] = NoConfig], [config EXCEPT ![m] = script[m]]}
        BY DEF InstallFresh, InstallEnds, Wipe, Refused, Uninstall
  <2> QED BY <2>1, <2>2, <2>3, NoNames DEF HelperTypes
<1>4. outbox' \in [Machine -> Outcome]
  <2>1. PICK o \in Outcome : outbox' \in {outbox, [outbox EXCEPT ![m] = o]}
    <3>1. CASE \E s \in Server, ok \in BOOLEAN : Uninstall(m, s, ok)
      <4>1. PICK s \in Server, ok \in BOOLEAN : Uninstall(m, s, ok) BY <3>1
      <4>2. mem.queue[s] \in Nat BY StateFields DEF HelperTypes
      <4>3. [command |-> mem.queue[s], ok |-> ok] \in Outcome BY <4>2 DEF Outcome
      <4> QED BY <4>1, <4>3 DEF Uninstall
    <3> QED BY <3>1, NoNames DEF InstallFresh, InstallEnds, Wipe, Refused
  <2> QED BY <2>1 DEF HelperTypes
<1> QED BY <1>1, <1>2, <1>3, <1>4 DEF HelperTypes

LEMMA HelpersSound ==
    ASSUME DeletionInv, Helpers
    PROVE  DeletionInv'
<1>1. UNCHANGED <<db, plan, call, lost, touched, issued>> BY DEF Helpers, Identity, deletionVars
<1>2. HelperTypes /\ db.servers \in SUBSET Server BY OfficialFields DEF DeletionInv
<1>3. HelperTypes' /\ LeftKept
  <2>1. CASE (\E s \in db.servers : Ask(s)) \/ (\E k \in Token : Expire(k))
    <3>1. HelpersSame BY <1>1, <2>1 DEF Ask, Expire, HelpersSame
    <3> QED BY <3>1, HelpersStay
  <2>2. CASE \E s \in db.servers, ok \in BOOLEAN : CreateToken(s, ok)
        BY <1>1, <1>2, <2>2, CreateTokenSound
  <2>3. CASE \E m \in Machine, k \in Token, ok \in BOOLEAN : Download(m, k, ok)
        BY <1>1, <1>2, <2>3, DownloadSound
  <2>4. CASE \E k \in Token : DownloadsNothing(k)
        BY <1>1, <1>2, <2>4, DownloadsNothingSound
  <2>5. CASE \E m \in Machine, ok \in BOOLEAN : Rebinds(m, ok)
        BY <1>1, <1>2, <2>5, RebindsSound
  <2>6. CASE \E m \in Machine, s \in Server, ok \in BOOLEAN : Report(m, s, ok)
        BY <1>1, <1>2, <2>6, ReportSound
  <2>7. CASE \E m \in Machine :
               \/ InstallFresh(m) \/ InstallEnds(m) \/ Wipe(m) \/ Refused(m, db.servers)
               \/ \E s \in Server, ok \in BOOLEAN : Uninstall(m, s, ok)
        BY <1>1, <1>2, <2>7, MachinesSound
  <2> QED BY <2>1, <2>2, <2>3, <2>4, <2>5, <2>6, <2>7 DEF Helpers
<1> QED BY <1>1, <1>3, HelpersOnly DEF ServerByHand

LEMMA LateTokenSound ==
    ASSUME DeletionInv, LateToken
    PROVE  DeletionInv'
<1>1. /\ UNCHANGED <<db, plan, call, lost, issued>> /\ touched \subseteq touched'
      /\ touched' \subseteq touched \cup {<<"token", Deleted>>}
      /\ Retired(mem, Deleted) = mem => <<"token", Deleted>> \in touched'
      BY DEF LateToken
<1>2. PICK s \in Server, ok \in BOOLEAN : CreateToken(s, ok) BY DEF LateToken
<1>3. HelperTypes BY DEF DeletionInv
<1>r. LeftState(mem) => <<"token", Deleted>> \in touched'
      BY <1>1, <1>3, RetiredState DEF HelperTypes
<1>4. HelperTypes' /\ LeftKept BY <1>1, <1>2, <1>3, <1>r, CreateTokenSound
<1>5. ServerByHand' => ServerByHand BY <1>1 DEF ServerByHand
<1> QED BY <1>1, <1>4, <1>5, HelpersOnly

LEMMA RestartSound ==
    ASSUME DeletionInv, ControllerRestarts
    PROVE  DeletionInv'
<1>1. /\ mem' = file /\ UNCHANGED <<file, script, config, outbox, issued, db, plan, touched>>
      /\ call' = Idle /\ Dropped
      BY DEF ControllerRestarts, Restart, Loaded
<1>2. HelperTypes' /\ LeftKept BY <1>1 DEF DeletionInv, HelperTypes, LeftKept
<1>3. CASE plan # NoPlan BY <1>1, <1>2, <1>3, CallLost
<1>4. CASE plan = NoPlan
  <2>1. call = Idle /\ lost' = lost BY <1>1, <1>4 DEF DeletionInv, Dropped
  <2> QED BY <1>1, <1>2, <2>1, HelpersOnly DEF ServerByHand
<1> QED BY <1>3, <1>4

-----------------------------------------------------------------------------
(* The administrators *)

LEMMA OfficialNarrow ==
    ASSUME NEW d, NEW nodes, Official(d, nodes), NEW m,
           \A k \in DOMAIN d.packs : d.packs[k] \subseteq m, \A f \in DOMAIN d.files : d.files[f] \subseteq m
    PROVE  Official(d, m)
BY DEF Official, Selection

\* A change of the official system that takes no node and no server.
LEMMA ChangeSound ==
    ASSUME DeletionInv, NEW e, NEW what, what[1] # "server", Administrator(e, what),
           Official(e, Nat), Nodes(e) \subseteq Nat, Nodes(db) \subseteq Nodes(e),
           plan = NoPlan => Official(e, Nodes(e)), e.servers = db.servers, e.agent = db.agent,
           Shrinks(db, e), touched' = touched \cup {what} => SelectionsMove
    PROVE  DeletionInv'
<1>1. /\ db' = e /\ touched' = touched \cup {what} /\ UNCHANGED <<plan, call, lost>> /\ HelpersSame
      BY DEF Administrator, HelpersSame
<1>2. HelperTypes' /\ LeftKept BY <1>1, HelpersStay
<1>3. Moves /\ NodesGone BY <1>1 DEF Moves, NodesGone
<1>4. plan = NoPlan => NoPlanInv' BY <1>1 DEF NoPlanInv, DeletionInv
<1>5. ServerByHand' => ServerByHand
  <2>1. what # <<"server", Deleted>> OBVIOUS
  <2> QED BY <1>1, <2>1 DEF ServerByHand
<1> QED BY <1>1, <1>2, <1>3, <1>4, <1>5, OthersSound

LEMMA NodesChangedSound ==
    ASSUME DeletionInv, NEW f, f \in [DOMAIN f -> NodeRow], NEW what, what[1] # "server",
           Administrator([db EXCEPT !.nodes = f], what), DOMAIN f \subseteq Nat, Nodes(db) \subseteq DOMAIN f,
           \A n \in DOMAIN f : f[n].server = IF n \in Nodes(db) THEN db.nodes[n].server ELSE Deleted
    PROVE  DeletionInv'
<1>1. PICK e : e = [db EXCEPT !.nodes = f] OBVIOUS
<1>2. Official(db, Nat) /\ (plan = NoPlan => Official(db, Nodes(db))) BY DEF DeletionInv
<1>3. /\ Official(e, Nat) /\ e.servers = db.servers /\ e.nodes = f /\ e.packs = db.packs
      /\ e.files = db.files /\ e.inbounds = db.inbounds /\ e.routes = db.routes
      /\ e.tunnels = db.tunnels /\ e.agent = db.agent
      BY <1>1, <1>2, SetNodes
<1>4. plan = NoPlan => Official(e, Nodes(e))
  <2> SUFFICES ASSUME plan = NoPlan PROVE Official(e, Nodes(e)) OBVIOUS
  <2>1. /\ \A k \in DOMAIN db.packs : db.packs[k] \subseteq Nodes(db)
        /\ \A k \in DOMAIN db.files : db.files[k] \subseteq Nodes(db)
        BY <1>2, OfficialFields
  <2>2. Nodes(db) \subseteq Nodes(e) BY <1>3 DEF Nodes
  <2>3. /\ \A k \in DOMAIN e.packs : e.packs[k] \subseteq Nodes(e)
        /\ \A k \in DOMAIN e.files : e.files[k] \subseteq Nodes(e)
        BY <1>3, <2>1, <2>2
  <2> QED BY <1>3, <2>3, OfficialNarrow
<1>5. Shrinks(db, e) BY <1>3 DEF Shrinks, Nodes
<1>6. Administrator(e, what) BY <1>1
<1>7. db' = e BY <1>6 DEF Administrator
<1>8. SelectionsMove BY <1>3, <1>7 DEF SelectionsMove, Narrowed
<1>9. Nodes(e) \subseteq Nat /\ Nodes(db) \subseteq Nodes(e) BY <1>3 DEF Nodes
<1> QED BY <1>3, <1>4, <1>5, <1>6, <1>8, <1>9, ChangeSound

LEMMA AddsNodeSound ==
    ASSUME DeletionInv, AddsNode(9)
    PROVE  DeletionInv'
<1> DEFINE f == [x \in Nodes(db) \cup {9} |-> IF x = 9 THEN NewNode ELSE db.nodes[x]]
<1>1. Administrator([db EXCEPT !.nodes = f], <<"node", 9>>) /\ 9 \notin Nodes(db) BY DEF AddsNode
<1>2. NewNode \in NodeRow /\ NewNode.server = Deleted BY DeletedAssumption DEF NewNode, NodeRow
<1>3. Official(db, Nat) /\ Nodes(db) \subseteq Nat BY DEF DeletionInv
<1>4. \A n \in Nodes(db) : db.nodes[n] \in NodeRow BY <1>3, OfficialFields
<1>5. f \in [DOMAIN f -> NodeRow] BY <1>2, <1>4
<1>6. DOMAIN f = Nodes(db) \cup {9} /\ \A n \in DOMAIN f : f[n] = IF n = 9 THEN NewNode ELSE db.nodes[n]
      OBVIOUS
<1> HIDE DEF f
<1>7. \A n \in DOMAIN f : f[n].server = IF n \in Nodes(db) THEN db.nodes[n].server ELSE Deleted
      BY <1>1, <1>2, <1>6
<1>8. DOMAIN f \subseteq Nat /\ Nodes(db) \subseteq DOMAIN f BY <1>3, <1>6
<1>9. PICK what : what = <<"node", 9>> OBVIOUS
<1>10. what[1] # "server" /\ Administrator([db EXCEPT !.nodes = f], what) BY <1>1, <1>9
<1> QED BY <1>5, <1>7, <1>8, <1>10, NodesChangedSound

LEMMA EditsNodeSound ==
    ASSUME DeletionInv, NEW n, EditsNode(n)
    PROVE  DeletionInv'
<1> DEFINE r == [db.nodes[n] EXCEPT !.edits = @ + 1]
           f == [db.nodes EXCEPT ![n] = r]
<1>1. Administrator([db EXCEPT !.nodes = f], <<"node", n>>) /\ n \in Nodes(db) BY DEF EditsNode
<1>2. Official(db, Nat) /\ Nodes(db) \subseteq Nat BY DEF DeletionInv
<1>3. db.nodes \in [Nodes(db) -> NodeRow] BY <1>2, OfficialFields
<1>4. db.nodes[n] \in NodeRow BY <1>1, <1>3
<1>5. r \in NodeRow /\ r.server = db.nodes[n].server BY <1>4 DEF NodeRow
<1> HIDE DEF r
<1>6. f \in [DOMAIN f -> NodeRow] /\ DOMAIN f = Nodes(db) BY <1>3, <1>5
<1>7. \A x \in Nodes(db) : f[x].server = db.nodes[x].server BY <1>3, <1>5
<1> HIDE DEF f
<1>8. PICK what : what = <<"node", n>> OBVIOUS
<1>9. what[1] # "server" /\ Administrator([db EXCEPT !.nodes = f], what) BY <1>1, <1>8
<1> QED BY <1>2, <1>6, <1>7, <1>9, NodesChangedSound

LEMMA RepacksSound ==
    ASSUME DeletionInv, NEW k, NEW selection, Repacks(k, selection)
    PROVE  DeletionInv'
<1> DEFINE f == [db.packs EXCEPT ![k] = selection]
<1>1. /\ Administrator([db EXCEPT !.packs = f], <<"package", k>>)
      /\ k \in DOMAIN db.packs /\ selection \subseteq Nodes(db)
      BY DEF Repacks
<1>2. /\ Official(db, Nat) /\ Nodes(db) \subseteq Nat /\ (plan = NoPlan => Official(db, Nodes(db)))
      BY DEF DeletionInv
<1>3. /\ DOMAIN f = DOMAIN db.packs
      /\ \A x \in DOMAIN f : f[x] = IF x = k THEN selection ELSE db.packs[x]
      /\ f = [x \in DOMAIN f |-> f[x]]
      OBVIOUS
<1> HIDE DEF f
<1>4. f \in [DOMAIN f -> SUBSET Nat]
  <2>1. \A x \in DOMAIN db.packs : db.packs[x] \in SUBSET Nat BY <1>2, OfficialFields
  <2> QED BY <1>1, <1>2, <1>3, <2>1
<1>5. plan = NoPlan => f \in [DOMAIN f -> SUBSET Nodes(db)]
  <2> SUFFICES ASSUME plan = NoPlan PROVE f \in [DOMAIN f -> SUBSET Nodes(db)] OBVIOUS
  <2>1. \A x \in DOMAIN db.packs : db.packs[x] \in SUBSET Nodes(db) BY <1>2, OfficialFields
  <2> QED BY <1>1, <1>3, <2>1
<1>6. PICK e : e = [db EXCEPT !.packs = f] OBVIOUS
<1>7. /\ Official(e, Nat) /\ e.servers = db.servers /\ e.nodes = db.nodes /\ e.packs = f
      /\ e.files = db.files /\ e.inbounds = db.inbounds /\ e.routes = db.routes
      /\ e.tunnels = db.tunnels /\ e.agent = db.agent
      BY <1>2, <1>4, <1>6, SetPacks
<1>8. plan = NoPlan => Official(e, Nodes(e))
  <2>1. plan = NoPlan => Official(e, Nodes(db)) BY <1>2, <1>5, <1>6, SetPacks
  <2> QED BY <1>7, <2>1 DEF Nodes
<1>9. Shrinks(db, e) BY <1>3, <1>7 DEF Shrinks, Nodes
<1>10. PICK what : what = <<"package", k>> OBVIOUS
<1>11. what[1] # "server" /\ Administrator(e, what) BY <1>1, <1>6, <1>10
<1>12. touched' = touched \cup {what} => SelectionsMove
  <2>1. db' = e BY <1>11 DEF Administrator
  <2> QED BY <1>3, <1>7, <1>10, <2>1 DEF SelectionsMove, Narrowed, ByHand
<1>13. Nodes(e) = Nodes(db) BY <1>7 DEF Nodes
<1> QED BY <1>2, <1>7, <1>8, <1>9, <1>11, <1>12, <1>13, ChangeSound

LEMMA RefilesSound ==
    ASSUME DeletionInv, NEW k, NEW selection, Refiles(k, selection)
    PROVE  DeletionInv'
<1> DEFINE f == [db.files EXCEPT ![k] = selection]
<1>1. /\ Administrator([db EXCEPT !.files = f], <<"subscription", k>>)
      /\ k \in DOMAIN db.files /\ selection \subseteq Nodes(db)
      BY DEF Refiles
<1>2. /\ Official(db, Nat) /\ Nodes(db) \subseteq Nat /\ (plan = NoPlan => Official(db, Nodes(db)))
      BY DEF DeletionInv
<1>3. /\ DOMAIN f = DOMAIN db.files
      /\ \A x \in DOMAIN f : f[x] = IF x = k THEN selection ELSE db.files[x]
      /\ f = [x \in DOMAIN f |-> f[x]]
      OBVIOUS
<1> HIDE DEF f
<1>4. f \in [DOMAIN f -> SUBSET Nat]
  <2>1. \A x \in DOMAIN db.files : db.files[x] \in SUBSET Nat BY <1>2, OfficialFields
  <2> QED BY <1>1, <1>2, <1>3, <2>1
<1>5. plan = NoPlan => f \in [DOMAIN f -> SUBSET Nodes(db)]
  <2> SUFFICES ASSUME plan = NoPlan PROVE f \in [DOMAIN f -> SUBSET Nodes(db)] OBVIOUS
  <2>1. \A x \in DOMAIN db.files : db.files[x] \in SUBSET Nodes(db) BY <1>2, OfficialFields
  <2> QED BY <1>1, <1>3, <2>1
<1>6. PICK e : e = [db EXCEPT !.files = f] OBVIOUS
<1>7. /\ Official(e, Nat) /\ e.servers = db.servers /\ e.nodes = db.nodes /\ e.packs = db.packs
      /\ e.files = f /\ e.inbounds = db.inbounds /\ e.routes = db.routes
      /\ e.tunnels = db.tunnels /\ e.agent = db.agent
      BY <1>2, <1>4, <1>6, SetFiles
<1>8. plan = NoPlan => Official(e, Nodes(e))
  <2>1. plan = NoPlan => Official(e, Nodes(db)) BY <1>2, <1>5, <1>6, SetFiles
  <2> QED BY <1>7, <2>1 DEF Nodes
<1>9. Shrinks(db, e) BY <1>3, <1>7 DEF Shrinks, Nodes
<1>10. PICK what : what = <<"subscription", k>> OBVIOUS
<1>11. what[1] # "server" /\ Administrator(e, what) BY <1>1, <1>6, <1>10
<1>12. touched' = touched \cup {what} => SelectionsMove
  <2>1. db' = e BY <1>11 DEF Administrator
  <2> QED BY <1>3, <1>7, <1>10, <2>1 DEF SelectionsMove, Narrowed, ByHand
<1>13. Nodes(e) = Nodes(db) BY <1>7 DEF Nodes
<1> QED BY <1>2, <1>7, <1>8, <1>9, <1>11, <1>12, <1>13, ChangeSound

LEMMA RemovesServerSound ==
    ASSUME DeletionInv, RemovesServer
    PROVE  DeletionInv'
<1>1. PICK c : c = WithoutNodes(db, Direct(db)) OBVIOUS
<1>2. PICK e : e = db' OBVIOUS
<1>3. /\ e = [c EXCEPT !.servers = c.servers \ {Deleted}] /\ touched' = touched \cup {<<"server", Deleted>>}
      /\ UNCHANGED <<plan, call, lost>> /\ HelpersSame
      BY <1>1, <1>2 DEF RemovesServer, Administrator, HelpersSame
<1>4. /\ Official(db, Nat) /\ Nodes(db) \subseteq Nat /\ (plan = NoPlan => Official(db, Nodes(db)))
      /\ plan = NoPlan => call = Idle
      BY DEF DeletionInv
<1>5. Official(c, Nat) /\ NodesOnly(db, c) /\ Shrinks(db, c) /\ Loses(db, c, Direct(db))
      BY <1>1, <1>4, NodesGo
<1>6. c.servers \ {Deleted} \in SUBSET Server BY <1>5, OfficialFields
<1>7. /\ Official(e, Nat) /\ e.servers = c.servers \ {Deleted} /\ e.nodes = c.nodes
      /\ e.packs = c.packs /\ e.files = c.files /\ e.inbounds = c.inbounds
      /\ e.routes = c.routes /\ e.tunnels = c.tunnels /\ e.agent = c.agent
      BY <1>3, <1>5, <1>6, SetServers
<1>8. Shrinks(db, e) BY <1>5, <1>7 DEF Shrinks, Nodes
<1>9. Loses(db, e, Direct(db)) BY <1>5, <1>7 DEF Loses, Nodes
<1>10. plan = NoPlan => Official(e, Nodes(e))
  <2> SUFFICES ASSUME plan = NoPlan PROVE Official(e, Nodes(e)) OBVIOUS
  <2>1. /\ \A k \in DOMAIN db.packs : db.packs[k] \subseteq Nodes(db)
        /\ \A k \in DOMAIN db.files : db.files[k] \subseteq Nodes(db)
        BY <1>4, OfficialFields
  <2>2. /\ \A k \in DOMAIN e.packs : e.packs[k] \subseteq Nodes(e)
        /\ \A k \in DOMAIN e.files : e.files[k] \subseteq Nodes(e)
        BY <1>8, <1>9, <2>1 DEF Loses, Shrinks
  <2> QED BY <1>7, <2>2, OfficialNarrow
<1>11. Nodes(e) \subseteq Nat BY <1>4, <1>9 DEF Loses
<1>12. SelectionsMove BY <1>3 DEF SelectionsMove, ByHand
<1>13. \A n \in Nodes(db) \ Nodes(db') : db.nodes[n].server = Deleted BY <1>2, <1>9 DEF Loses, Direct
<1>14. Moves /\ NodesGone BY <1>2, <1>3, <1>7, <1>8, <1>11, <1>12, <1>13 DEF Moves, NodesGone
<1>15. plan = NoPlan => NoPlanInv' BY <1>2, <1>3, <1>4, <1>7, <1>10, <1>11 DEF NoPlanInv
<1>16. ServerByHand' /\ Deleted \notin db'.servers BY <1>2, <1>3, <1>7 DEF ServerByHand
<1>17. db'.agent = db.agent BY <1>2, <1>5, <1>7 DEF NodesOnly
<1>18. HelperTypes' /\ LeftKept BY <1>3, HelpersStay
<1> QED BY <1>3, <1>13, <1>14, <1>15, <1>16, <1>17, <1>18, OthersSound

LEMMA RegroupsSound ==
    ASSUME DeletionInv, (\E g : Regroups(g)) \/ (\E s \in Server : Connection(s)) \/ RenewsServer
    PROVE  DeletionInv'
<1>1. PICK e : e = db' OBVIOUS
<1>2. Official(db, Nat) /\ (plan = NoPlan => Official(db, Nodes(db))) BY DEF DeletionInv
<1>3. /\ UNCHANGED <<plan, call, lost>> /\ HelpersSame /\ touched \subseteq touched'
      /\ ServerByHand' => ServerByHand
      BY DEF Regroups, Connection, RenewsServer, Administrator, HelpersSame, ServerByHand
<1>4. HelperTypes' /\ LeftKept BY <1>3, HelpersStay
<1>5. \A nodes : Official(db, nodes) => Official(e, nodes) /\ SameSystem(db, e)
  <2> SUFFICES ASSUME NEW nodes, Official(db, nodes) PROVE Official(e, nodes) /\ SameSystem(db, e)
      OBVIOUS
  <2>1. db.servers \in SUBSET Server /\ db.groups \in [DOMAIN db.groups -> SUBSET Server]
        BY OfficialFields
  <2>2. CASE \E g : Regroups(g)
    <3>1. PICK g : Regroups(g) BY <2>2
    <3>2. PICK s \in db.servers : e = [db EXCEPT !.groups[g] = {s}]
          BY <1>1, <3>1 DEF Regroups, Administrator
    <3> DEFINE f == [db.groups EXCEPT ![g] = {s}]
    <3>3. e = [db EXCEPT !.groups = f] BY <3>2
    <3>4. f \in [DOMAIN f -> SUBSET Server] BY <2>1
    <3> HIDE DEF f
    <3> QED BY <3>3, <3>4, SetGroups
  <2>3. CASE \E s \in Server : Connection(s)
    <3>1. PICK s \in Server : Connection(s) BY <2>3
    <3>2. PICK S : S = IF s \in db.up THEN db.up \ {s} ELSE db.up \cup {s} OBVIOUS
    <3>3. e = [db EXCEPT !.up = S] BY <1>1, <3>1, <3>2 DEF Connection
    <3>4. db.up \in SUBSET Server BY DEF Official
    <3>5. S \in SUBSET Server BY <3>2, <3>4
    <3> QED BY <3>3, <3>5, SetUp
  <2>4. CASE RenewsServer
        BY <1>1, <2>4, SetRenewed DEF RenewsServer, Administrator
  <2> QED BY <2>2, <2>3, <2>4
<1>6. SameSystem(db, db') /\ Official(db', Nat) /\ (plan = NoPlan => Official(db', Nodes(db)))
      BY <1>1, <1>2, <1>5
<1> QED BY <1>3, <1>4, <1>6, SameSystemSound

LEMMA OutsideSound ==
    ASSUME DeletionInv, Outside
    PROVE  DeletionInv'
BY AddsNodeSound, EditsNodeSound, RepacksSound, RefilesSound, RegroupsSound, RemovesServerSound DEF Outside

-----------------------------------------------------------------------------
(* The theorems *)

LEMMA StartSound ==
    ASSUME DeletionInv, Start
    PROVE  DeletionInv'
<1>1. /\ plan = NoPlan /\ Deleted \in db.servers /\ touched' = {} /\ call' = Idle
      /\ UNCHANGED db /\ HelpersSame
      BY DEF Start, HelpersSame, identityVars
<1>2. PICK uninstall \in BOOLEAN : plan' = PlanOf(db, uninstall) BY DEF Start
<1>3. /\ plan'.state = "deleting" /\ plan'.base = db /\ plan'.gone = Doomed(db)
      /\ plan'.pending = Steps(db, Doomed(db)) /\ plan'.outstanding = {} /\ plan' # NoPlan
      BY <1>2 DEF PlanOf, NoPlan
<1>4. /\ Official(db, Nodes(db)) /\ Official(db, Nat) /\ Nodes(db) \subseteq Nat
      BY <1>1 DEF DeletionInv
<1>5. Planned' = plan'.pending BY <1>3 DEF Planned
<1>6. PlanType(plan)' BY <1>2, <1>3, <1>5 DEF PlanType, PlanOf
<1>7. Step(16, "verify", 0, 0) \in plan'.pending BY <1>3 DEF Steps
<1>8. PlanInv' BY <1>3, <1>5, <1>6, <1>7 DEF PlanInv, Ordered, SettledSteps
<1>9. BaseSound' BY <1>1, <1>3, <1>4 DEF BaseSound
<1>10. NodesStay' /\ TunnelsStay' BY <1>1, <1>3 DEF NodesStay, TunnelsStay
<1>11. SelectionsSound' BY <1>1, <1>3 DEF SelectionsSound, Narrowed
<1>12. NoticesSound'
  <2>1. \A n \in plan'.gone : n \in Nodes(db) BY <1>3, DoomedNodes
  <2> QED BY <1>1, <1>3, <2>1 DEF NoticesSound, Removed, ServerByHand
<1>13. HelperTypes' BY <1>1, HelpersStay
<1> QED BY <1>1, <1>3, <1>4, <1>8, <1>9, <1>10, <1>11, <1>12, <1>13 DEF DeletionInv, CallInv, SystemInv

LEMMA InitSound ==
    ASSUME Init
    PROVE  DeletionInv
<1>1. HelperTypes
  <2> DEFINE i == [s \in Server |-> [uuid |-> FirstToken[s], hash |-> FirstToken[s], pend |-> Nobody]]
             q == [s \in Server |-> 0]
             o == [s \in Server |-> {}]
  <2>1. \A s \in Server : FirstToken[s] \in Name BY DEF Name
  <2>2. i \in [Server -> IdentityRow] BY <2>1, NoNames DEF IdentityRow, Nobody
  <2>3. q \in [Server -> Nat] /\ o \in [Server -> SUBSET Outcome] OBVIOUS
  <2>4. InitialState = Made5(i, {}, {}, q, o) BY DEF InitialState, Made5
  <2> HIDE DEF i, q, o
  <2>5. InitialState \in State BY <2>2, <2>3, <2>4, MadeState DEF Parts
  <2>6. mem \in State /\ file \in State /\ issued \in Nat BY <2>5 DEF Init, IdentityInit
  <2>7. \A s \in Server : [uuid |-> FirstToken[s], token |-> FirstToken[s]] \in Credentials
        BY <2>1 DEF Credentials
  <2>8. \A m \in Machine : (\E s \in Server : m \in First[s]) => (CHOOSE x \in Server : m \in First[x]) \in Server
        OBVIOUS
  <2>9. config \in [Machine -> Credentials] BY <2>7, <2>8, NoNames DEF Init, IdentityInit
  <2>10. script \in [Machine -> Credentials] /\ outbox \in [Machine -> Outcome]
         BY NoNames DEF Init, IdentityInit
  <2> QED BY <2>6, <2>9, <2>10 DEF HelperTypes
<1>2. Official(db, Nodes(db)) /\ Nodes(db) \subseteq Nat
      BY InventoryAssumption DEF Init, Nodes
<1>3. Official(db, Nat)
  <2>1. /\ \A k \in DOMAIN db.packs : db.packs[k] \subseteq Nat
        /\ \A f \in DOMAIN db.files : db.files[f] \subseteq Nat
        BY <1>2, OfficialFields
  <2> QED BY <1>2, <2>1, OfficialNarrow
<1> QED BY <1>1, <1>2, <1>3 DEF Init, DeletionInv

LEMMA UnchangedSound ==
    ASSUME DeletionInv, UNCHANGED vars
    PROVE  DeletionInv'
<1>1. UNCHANGED <<db, plan, call, lost, touched>> /\ HelpersSame
      BY DEF vars, identityVars, deletionVars, HelpersSame
<1>2. HelperTypes' /\ LeftKept BY <1>1, HelpersStay
<1> QED BY <1>1, <1>2, HelpersOnly DEF ServerByHand

LEMMA DeletionSteps ==
    ASSUME DeletionInv, [Next]_vars
    PROVE  DeletionInv'
<1>1. CASE Progress
      BY <1>1, CheckSound, ActSound, FallbackSound, StopsCoreSound, DeletesServerSound, RetireSound,
         UninstallsSound, AwaitsUninstallSound, SaveSound DEF Progress
<1>2. CASE TimePasses \/ ActFails \/ DeletesServerFails \/ Retire(FALSE) \/ SaveFails
      BY <1>2, TimePassesSound, ActFailsSound, DeletesServerFailsSound, RetireSound, SaveFailsSound
<1>3. CASE EvaluationReads \/ EvaluationWrites \/ Helpers \/ LateToken \/ ControllerRestarts \/ Outside
      BY <1>3, EvaluationSound, HelpersSound, LateTokenSound, RestartSound, OutsideSound
<1> QED BY <1>1, <1>2, <1>3, StartSound, UnchangedSound DEF Next

\* The deletion is where its plan says it is: its steps in their order, each settled for
\* good once it is completed, whatever Helpers, administrators and faults do meanwhile.
THEOREM DeletionIsSound == Spec => []DeletionInv
<1>1. Init => DeletionInv BY InitSound
<1>2. DeletionInv /\ [Next]_vars => DeletionInv' BY DeletionSteps
<1> QED BY <1>1, <1>2, PTL DEF Spec

\* No selection of a package or a subscription becomes the empty one, which means all nodes
\* (executeDeletionPackage deletes an emptied package, before any node goes).
THEOREM SelectionsAreKept == Spec => []NoSelectionIsEmptied
<1>1. DeletionInv => NoSelectionIsEmptied
      BY DEF DeletionInv, SystemInv, SelectionsSound, Narrowed, NoSelectionIsEmptied
<1> QED BY <1>1, DeletionIsSound, PTL

\* A completed deletion leaves no Helper and no token of the server, in memory and in the
\* file, whatever was asked for, saved or lost meanwhile (retireDeletedServerState).  Not
\* claimed once a token is issued after the retirement whose request was authorised before the
\* deletion: the code does not look again (createHelperInstallTokenHandler).
THEOREM NoHelperIsLeft == Spec => []DeletedIsRetired
<1>1. DeletionInv => DeletedIsRetired
  <2> SUFFICES ASSUME DeletionInv, plan # NoPlan, plan.state = "deleted", <<"token", Deleted>> \notin touched
               PROVE  \A st \in {mem, file} : Retired(st, Deleted) = st
      BY DEF DeletedIsRetired
  <2> DEFINE t == Step(15, "sweep", 0, 0)
  <2>1. t \in Planned BY PlannedSteps DEF Planned
  <2>2. t.kind = "sweep" BY DEF Step
  <2> HIDE DEF t
  <2>3. plan.pending = {} /\ SettledSteps(plan) /\ HelperTypes BY DEF DeletionInv, PlanInv, Ordered
  <2>4. Settled(t, plan.outstanding) BY <2>1, <2>3 DEF SettledSteps
  <2>5. LeftState(mem) /\ LeftState(file) BY <2>2, <2>4 DEF Settled
  <2> QED BY <2>3, <2>5, RetiredState DEF HelperTypes
<1> QED BY <1>1, DeletionIsSound, PTL

\* When a deletion is complete, every tunnel, inbound and route that it leaves on another
\* machine, and the official Agent on the server's own, is listed for the administrator,
\* or was in a plan that was not saved (Machine.Outstanding).
THEOREM LeftoversAreListed == Spec => [](Finished => OfficialLeftovers)
<1>1. DeletionInv => (Finished => OfficialLeftovers)
  <2> SUFFICES ASSUME DeletionInv, Finished PROVE OfficialLeftovers OBVIOUS
  <2>1. plan # NoPlan /\ plan.state = "deleted" /\ ~ServerByHand BY DEF Finished, ServerByHand
  <2>2. call = Idle BY <2>1, StepOfCall
  <2>3. /\ plan.pending = {} /\ SettledSteps(plan) /\ NoticesSound /\ TunnelsStay /\ BaseSound
        BY <2>1 DEF DeletionInv, PlanInv, SystemInv, Ordered
  <2>4. Announced = plan.outstanding \cup lost BY <2>2 DEF Announced
  <2>5. \A s \in Planned : Settled(s, plan.outstanding) BY <2>3 DEF SettledSteps
  <2>6. ASSUME NEW t \in BrokenTunnels(plan.base) \cap DOMAIN db.tunnels, db.tunnels[t].server # Deleted
        PROVE  <<"tunnel", db.tunnels[t].server, t>> \in plan.outstanding
    <3>1. db.tunnels[t] = plan.base.tunnels[t] BY <2>3, <2>6 DEF TunnelsStay
    <3> DEFINE s == Step(8, "tunnel", plan.base.tunnels[t].server, t)
    <3>2. s \in Planned BY <2>6, <3>1, PlannedSteps DEF Planned
    <3>3. s.kind = "tunnel" /\ s.id = t /\ s.server = db.tunnels[t].server BY <3>1 DEF Step
    <3> HIDE DEF s
    <3> QED BY <2>5, <2>6, <3>2, <3>3 DEF Settled
  <2>7. ASSUME NEW i \in DeadInbounds(plan.base, plan.gone) \cap db.inbounds
        PROVE  <<"inbound", i[1], i[2]>> \in plan.outstanding
    <3> DEFINE s == Step(9, "inbound", i[1], i[2])
    <3>1. s \in Planned BY <2>7, PlannedSteps DEF Planned
    <3>2. s.kind = "inbound" /\ s.server = i[1] /\ s.id = i[2] BY DEF Step
    <3> HIDE DEF s
    <3>3. i = <<i[1], i[2]>> BY <2>7 DEF DeadInbounds
    <3> QED BY <2>5, <2>7, <3>1, <3>2, <3>3 DEF Settled
  <2>8. ASSUME NEW n \in plan.gone \cap db.routes, plan.base.nodes[n].server # Deleted
        PROVE  <<"route", plan.base.nodes[n].server, n>> \in plan.outstanding \cup lost
    <3> DEFINE s == Step(10, "node", 0, n)
    <3>1. n \notin Direct(plan.base) BY <2>8 DEF Direct
    <3>2. s \in Planned BY <2>8, <3>1, PlannedSteps DEF Planned
    <3>3. s.kind = "node" /\ s.id = n BY DEF Step
    <3> HIDE DEF s
    <3>4. Removed(n) BY <2>5, <2>8, <3>2, <3>3 DEF Settled
    <3> QED BY <2>3, <2>4, <2>8, <3>4 DEF NoticesSound
  <2>9. db.agent => <<"agent", Deleted, 0>> \in plan.outstanding \cup lost
    <3> DEFINE s == Step(14, "server", 0, 0)
    <3>1. s \in Planned BY PlannedSteps DEF Planned
    <3>2. s.kind = "server" BY DEF Step
    <3> HIDE DEF s
    <3>3. Deleted \notin db.servers BY <2>5, <3>1, <3>2 DEF Settled
    <3> QED BY <2>1, <2>3, <2>4, <3>3 DEF NoticesSound
  <2> QED BY <2>6, <2>7, <2>8, <2>9 DEF OfficialLeftovers
<1> QED BY <1>1, DeletionIsSound, PTL

\* The nodes that a step of a call takes.
LEMMA NodesOfCall ==
    ASSUME DeletionInv, call # Idle, NEW s, s = call.step, call.at \in {"act", "delete"},
           NEW n \in LostNodes(db, s) \cap Nodes(db), n \in DOMAIN call.seen, db.nodes[n] = call.seen[n]
    PROVE  n \in call.plan.gone /\ db.nodes[n] = call.plan.base.nodes[n]
<1>1. StepOf(s, plan.base, plan.gone) /\ call.plan.base = plan.base /\ call.plan.gone = plan.gone
      BY StepOfCall
<1>2. CallSound BY StepOfCall DEF DeletionInv, CallInv
<1>3. CASE s.kind = "server" BY <1>2, <1>3 DEF LostNodes, Direct, CallSound
<1>4. CASE s.kind = "node" BY <1>1, <1>2, <1>4 DEF LostNodes, StepOf, CallSound
<1> QED BY <1>3, <1>4 DEF LostNodes

\* The steps that take no node, and those that do.
LEMMA NodesLost ==
    ASSUME DeletionInv, [Next]_vars, call # Idle, touched' = touched
    PROVE  \/ Nodes(db) \subseteq Nodes(db')
           \/ /\ call.at \in {"act", "delete"}
              /\ Nodes(db) \ Nodes(db') \subseteq LostNodes(db, call.step)
<1>1. PICK s : s = call.step OBVIOUS
<1>2. PICK q : q = call.plan OBVIOUS
<1>3. Official(db, Nat) BY DEF DeletionInv
<1>4. CASE Act \/ ActRouted \/ DeletesServer \/ Sweep
  <2>1. call.at \in {"act", "delete"} /\ db' = Effect(db, call.step, call.plan)
        BY <1>4 DEF Act, ActRouted, DeletesServer, Sweep, Acts, Acting
  <2>2. Trims(db, db', s, call.plan) BY <1>1, <2>1, EffectOfCall
  <2> QED BY <1>1, <2>1, <2>2 DEF Trims
<1>5. CASE ActFails
  <2>1. call.at = "act" /\ db' \in Halfway(db, s, q) BY <1>1, <1>2, <1>5 DEF ActFails, Acting
  <2>2. BreaksOff(db, db', s, q) BY <1>1, <1>2, <2>1, HalfwayOfCall
  <2> QED BY <1>1, <2>1, <2>2 DEF BreaksOff, Trims, Loses
<1>6. CASE DeletesServerFails
  <2>1. call.at = "delete" /\ db' \in {db, Effect(db, call.step, call.plan)} BY <1>6 DEF DeletesServerFails
  <2>2. CASE db' = Effect(db, call.step, call.plan)
    <3>1. Trims(db, db', s, call.plan) BY <1>1, <2>1, <2>2, EffectOfCall
    <3> QED BY <1>1, <2>1, <3>1 DEF Trims
  <2> QED BY <2>1, <2>2
<1>7. CASE ActRoutedFallback
  <2>1. call.at = "act" /\ s.kind = "node" BY <1>1, <1>7 DEF ActRoutedFallback, Acts, Acting
  <2>2. PICK routes \in {db.routes, db.routes \ {s.id}} :
          \/ db' = WithoutNodes([db EXCEPT !.routes = routes], {s.id})
          \/ db' = [db EXCEPT !.routes = routes]
        BY <1>1, <1>7 DEF ActRoutedFallback
  <2>3. PICK c : c = [db EXCEPT !.routes = routes] OBVIOUS
  <2>4. PICK e : e = db' OBVIOUS
  <2>5. routes \in SUBSET Nat BY <1>3, OfficialFields
  <2>6. Official(c, Nat) /\ c.nodes = db.nodes BY <1>3, <2>3, <2>5, SetRoutes
  <2>7. e = WithoutNodes(c, {s.id}) => Loses(c, e, {s.id}) BY <2>6, NodesGo
  <2> QED BY <1>1, <2>1, <2>2, <2>3, <2>4, <2>6, <2>7 DEF Loses, LostNodes, Nodes
<1>8. CASE StopsCore
  <2>1. PICK b : db' = [db EXCEPT !.agent = b] BY <1>8 DEF StopsCore
  <2> QED BY <1>3, <2>1 DEF Official, Nodes
<1>9. CASE EvaluationWrites
  <2>1. PICK b : db' = [db EXCEPT !.rows = b] BY <1>9 DEF EvaluationWrites
  <2> QED BY <1>3, <2>1 DEF Official, Nodes
<1>10. CASE Outside
  <2>1. CASE RemovesServer
    <3>1. Deleted \in db.servers /\ <<"server", Deleted>> \in touched
          BY <2>1 DEF RemovesServer, Administrator
    <3>2. NoticesSound BY StepOfCall DEF DeletionInv
    <3> QED BY <3>1, <3>2 DEF NoticesSound, ServerByHand
  <2>2. CASE \E n : AddsNode(n) \/ EditsNode(n)
    <3>1. PICK n : AddsNode(n) \/ EditsNode(n) BY <2>2
    <3>2. CASE AddsNode(n)
      <4> DEFINE f == [x \in Nodes(db) \cup {n} |-> IF x = n THEN NewNode ELSE db.nodes[x]]
      <4>1. db' = [db EXCEPT !.nodes = f] BY <3>2 DEF AddsNode, Administrator
      <4>2. Nodes(db) \subseteq DOMAIN f OBVIOUS
      <4> HIDE DEF f
      <4> QED BY <1>3, <4>1, <4>2 DEF Official, Nodes
    <3>3. CASE EditsNode(n)
      <4> DEFINE f == [db.nodes EXCEPT ![n].edits = @ + 1]
      <4>1. db' = [db EXCEPT !.nodes = f] BY <3>3 DEF EditsNode, Administrator
      <4>2. DOMAIN f = Nodes(db) BY DEF Nodes
      <4> HIDE DEF f
      <4> QED BY <1>3, <4>1, <4>2 DEF Official, Nodes
    <3> QED BY <3>1, <3>2, <3>3
  <2>3. CASE (\E k, selection : Repacks(k, selection)) \/ (\E f, selection : Refiles(f, selection))
    <3>1. \/ \E f : db' = [db EXCEPT !.packs = f]
          \/ \E f : db' = [db EXCEPT !.files = f]
          BY <2>3 DEF Repacks, Refiles, Administrator
    <3> QED BY <1>3, <3>1 DEF Official, Nodes
  <2>4. CASE (\E g : Regroups(g)) \/ (\E x \in Server : Connection(x)) \/ RenewsServer
    <3>1. \/ \E f : db' = [db EXCEPT !.groups = f]
          \/ \E f : db' = [db EXCEPT !.up = f]
          \/ db' = [db EXCEPT !.renewed = TRUE]
          BY <2>4 DEF Regroups, Connection, RenewsServer, Administrator
    <3> QED BY <1>3, <3>1 DEF Official, Nodes
  <2> QED BY <1>10, <2>1, <2>2, <2>3, <2>4 DEF Outside
<1>11. CASE UNCHANGED db BY <1>11
<1> QED
  <2>1. UNCHANGED vars => UNCHANGED db BY DEF vars, deletionVars
  <2>2. Start \/ Check \/ Uninstalls \/ AwaitsUninstall \/ Save \/ TimePasses \/ SaveFails => UNCHANGED db
        BY DEF Start, Check, Uninstalls, AwaitsUninstall, Save, TimePasses, SaveFails
  <2>3. Retire(TRUE) \/ Retire(FALSE) \/ EvaluationReads \/ LateToken \/ ControllerRestarts => UNCHANGED db
        BY DEF Retire, EvaluationReads, LateToken, ControllerRestarts
  <2>4. Helpers => UNCHANGED db BY DEF Helpers, Identity, deletionVars
  <2> QED BY <1>4, <1>5, <1>6, <1>7, <1>8, <1>9, <1>10, <1>11, <2>1, <2>2, <2>3, <2>4 DEF Next, Progress

\* A node that the deletion takes away was announced in the plan, and is as it was then
\* (performServerDeletionStep compares the hash of the row, and counts the nodes left).
THEOREM OnlyPlannedGo == Spec => OnlyPlannedNodesGo
<1>1. DeletionInv /\ [Next]_vars =>
        (touched' = touched /\ call # Idle =>
            \A n \in Nodes(db) \ Nodes(db)' :
                n \in DOMAIN call.seen /\ db.nodes[n] = call.seen[n]
                    => n \in call.plan.gone /\ db.nodes[n] = call.plan.base.nodes[n])
  <2> SUFFICES ASSUME DeletionInv, [Next]_vars, touched' = touched, call # Idle,
                      NEW n \in Nodes(db) \ Nodes(db)', n \in DOMAIN call.seen, db.nodes[n] = call.seen[n]
               PROVE  n \in call.plan.gone /\ db.nodes[n] = call.plan.base.nodes[n]
      OBVIOUS
  <2>1. call.at \in {"act", "delete"} /\ n \in LostNodes(db, call.step) BY NodesLost
  <2>2. PICK s : s = call.step OBVIOUS
  <2> QED BY <2>1, <2>2, NodesOfCall
<1> QED BY <1>1, DeletionIsSound, PTL DEF OnlyPlannedNodesGo, Spec
=============================================================================

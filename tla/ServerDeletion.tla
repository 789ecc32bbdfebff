--------------------------- MODULE ServerDeletion ---------------------------
(***************************************************************************)
(* The deletion of a server: a plan computed once from the official          *)
(* inventory, saved, and carried out one step per call while Helpers report,  *)
(* administrators edit and calls fail.                                       *)
(*                                                                         *)
(*   server_delete.go, server_delete_dependencies.go, server_delete_routed.go, *)
(*   server_delete_execute.go, server_delete_cleanup.go,                     *)
(*   user_delete_packages.go (executeDeletionPackage)                       *)
(*                                                                         *)
(* The official system is one record.  A node knows the servers it depends on *)
(* (its address, its pinned exit, the outbound of its inbound), the nodes it   *)
(* needs (parent, chain proxy, routed target), its relay group, its forward   *)
(* chain and the tunnel it enters by.  A selection {} of a package or a       *)
(* subscription file means all nodes.                                       *)
(***************************************************************************)
EXTENDS HelperIdentity, Sequences

CONSTANTS
    Deleted,     \* the server that is deleted
    Inventory    \* the official systems and bounds to start from

ASSUME DeletedAssumption == Deleted \in Server

NodeRow == [server : Server, names : SUBSET Server, needs : SUBSET Nat, relay : SUBSET Nat,
            chain : Nat, tunnel : Nat, tag : Nat, routed : BOOLEAN, edits : Nat]

Selection(ids, nodes) == [ids -> SUBSET nodes]

\* Nodes, packages, files, groups, chains, tunnels and certificates are named by their ids.
Official(d, nodes) ==
    d \in [servers : SUBSET Server, nodes : [DOMAIN d.nodes -> NodeRow],
           packs : Selection(DOMAIN d.packs, nodes), files : Selection(DOMAIN d.files, nodes),
           groups : Selection(DOMAIN d.groups, Server), chains : [DOMAIN d.chains -> Seq(Nat)],
           inbounds : SUBSET (Server \X Nat), routes : SUBSET Nat,
           tunnels : [DOMAIN d.tunnels -> [server : Server, target : Server, onto : Nat]],
           certificates : Selection(DOMAIN d.certificates, {"renew", "deploy"}),
           rows : {"none", "all", "late"}, up : SUBSET Server, agent : BOOLEAN,
           renewed : BOOLEAN]

\* Every selection is of nodes there are.
ASSUME InventoryAssumption ==
    \A i \in Inventory : /\ Official(i.db, DOMAIN i.db.nodes)
                         /\ DOMAIN i.db.nodes \subseteq Nat

VARIABLES
    db,          \* the official system and its database
    plan,        \* the row of mmwxc_server_deletions
    call,        \* the step a call of the handler is carrying out, and its copy of the plan
    evaluation,  \* evaluateDisabledUsers: it may have read what a sweep deletes
    issued,      \* uninstall commands so far
    touched,     \* history: what administrators changed since the plan was saved
    lost         \* history: what a call announced in a plan that was not saved

deletionVars == <<db, plan, call, evaluation, issued, touched, lost>>
vars == <<identityVars, deletionVars>>

NoPlan == [state |-> "none"]
Idle == [at |-> "idle"]

-----------------------------------------------------------------------------
(* The plan *)

Nodes(d) == DOMAIN d.nodes
Direct(d) == {n \in Nodes(d) : d.nodes[n].server = Deleted}

Affected(d) == {g \in DOMAIN d.groups : Deleted \in d.groups[g]}
Emptied(d) == {g \in Affected(d) : d.groups[g] \cap d.servers \subseteq {Deleted}}

\* deletionChainHasPath: every hop has a server of its own.
HasPath(d, hops) ==
    \E f \in [DOMAIN hops -> d.servers \ {Deleted}] :
        /\ \A i \in DOMAIN hops : f[i] \in d.groups[hops[i]]
        /\ \A i, j \in DOMAIN hops : i # j => f[i] # f[j]

BrokenChains(d) ==
    {c \in DOMAIN d.chains :
        /\ \E i \in DOMAIN d.chains[c] : d.chains[c][i] \in Affected(d)
        /\ ~HasPath(d, d.chains[c])}

\* The least set of tunnels that end at the server, or run into one that does.
BrokenTunnels(d) ==
    LET Ends(t) == Deleted \in {d.tunnels[t].server, d.tunnels[t].target}
        closed == {T \in SUBSET DOMAIN d.tunnels :
                     \A t \in DOMAIN d.tunnels : Ends(t) \/ d.tunnels[t].onto \in T => t \in T}
    IN  {t \in DOMAIN d.tunnels : \A T \in closed : t \in T}

DependsOnServer(d, n) ==
    \/ n \in Direct(d) \/ Deleted \in d.nodes[n].names
    \/ d.nodes[n].chain \in BrokenChains(d) \/ d.nodes[n].tunnel \in BrokenTunnels(d)

LosesItsNodes(d, n, gone) ==
    \/ d.nodes[n].needs \cap gone # {}
    \/ d.nodes[n].relay \cap gone # {} /\ d.nodes[n].relay \cap Nodes(d) \subseteq gone

\* planServerDeletion: the least set of nodes that go with the server.
Doomed(d) ==
    LET closed == {S \in SUBSET Nodes(d) :
                     \A n \in Nodes(d) : DependsOnServer(d, n) \/ LosesItsNodes(d, n, S) => n \in S}
    IN  {n \in Nodes(d) : \A S \in closed : n \in S}

\* planDeletionIdentities: the inbounds no node is left on.
DeadInbounds(d, gone) ==
    {<<d.nodes[n].server, d.nodes[n].tag>> : n \in
        {x \in gone \ Direct(d) :
            /\ d.nodes[x].tag # 0
            /\ \A y \in Nodes(d) \ gone :
                 d.nodes[y].server # d.nodes[x].server \/ d.nodes[y].tag # d.nodes[x].tag}}

Step(rank, kind, server, id) == [rank |-> rank, kind |-> kind, server |-> server, id |-> id]

\* Mutant: the packages are trimmed after the nodes.
PackagesLast == 13

\* "Save package scope before any upstream node deletion can turn [id] into []."
PackagesFirst == 1

Steps(d, gone) ==
    {Step(PackagesFirst, "package", 0, k) : k \in {x \in DOMAIN d.packs : d.packs[x] \cap gone # {}}}
    \cup {Step(2, "chain", 0, c) : c \in BrokenChains(d)}
    \cup {Step(3, "empty-subscription", 0, f) :
            f \in {x \in DOMAIN d.files : d.files[x] # {} /\ d.files[x] \subseteq gone}}
    \cup {Step(4, "group", 0, g) : g \in Emptied(d)}
    \cup {Step(5, "subscription", 0, f) :
            f \in {x \in DOMAIN d.files : d.files[x] \cap gone # {} /\ ~d.files[x] \subseteq gone}}
    \cup {Step(6, "trim-group", 0, g) : g \in Affected(d) \ Emptied(d)}
    \cup {Step(7, "trim-node", 0, n) : n \in {x \in Nodes(d) \ gone : d.nodes[x].relay \cap gone # {}}}
    \cup {Step(8, "tunnel", d.tunnels[t].server, t) :
            t \in {x \in BrokenTunnels(d) : d.tunnels[x].server # Deleted}}
    \cup {Step(9, "certificate", 0, c) : c \in DOMAIN d.certificates}
    \cup {Step(9, "inbound", i[1], i[2]) : i \in DeadInbounds(d, gone)}
    \cup {Step(10, "node", 0, n) : n \in gone \ Direct(d)}
    \cup {Step(12, "node", 0, n) : n \in Direct(d)}
    \cup {Step(13, "helper", 0, 0), Step(14, "server", 0, 0), Step(15, "sweep", 0, 0), Step(16, "verify", 0, 0)}

\* History: the server's Helper (no pending one), if its Core runs.
Running == {<<m, config[m]>> : m \in {x \in core : /\ config[x].uuid = mem.identity[Deleted].uuid
                                                   /\ config[x].token = mem.identity[Deleted].hash}}

PlanOf(d, uninstall) ==
    LET gone == Doomed(d)
    IN  [state |-> "deleting", base |-> d, gone |-> gone, pending |-> Steps(d, gone),
         uninstall |-> uninstall, command |-> 0, waited |-> FALSE, outstanding |-> {},
         helpers |-> Running]

-----------------------------------------------------------------------------
(* A call of the handler: check, act, retire, save *)

\* serverDeletionHandler previews again and refuses what is not what was confirmed.
Start ==
    /\ plan = NoPlan /\ call = Idle /\ Deleted \in db.servers
    /\ \E uninstall \in BOOLEAN : plan' = PlanOf(db, uninstall)
    /\ touched' = {}
    /\ UNCHANGED <<identityVars, db, call, evaluation, issued, lost>>

\* executeServerDeletionStep takes the first step that is not completed.
Current == CHOOSE s \in plan.pending : \A other \in plan.pending : s.rank <= other.rank

\* A call works on its copy of the plan until it saves that.
In(at, s, p) == [at |-> at, step |-> s, plan |-> p, seen |-> db.nodes]
Completed(s, p) ==
    In("save", s, [p EXCEPT !.pending = @ \ {s}, !.state = IF s.kind = "verify" THEN "deleted" ELSE @])
Failed(s, p) == In("save", s, p)
Announce(p, what) == [p EXCEPT !.outstanding = @ \cup {what}]

Kept(selection, p) == selection \ p.gone
Online(server) == server \in db.up

NewOnInbound(s, p) ==
    {n \in Nodes(db) \ p.gone : db.nodes[n].server = s.server /\ db.nodes[n].tag = s.id}

\* What the step finds done already.
Done(s, p) ==
    CASE s.kind \in {"node", "trim-node"} ->
            \/ s.id \notin Nodes(db)
            \/ s.kind = "trim-node" /\ db.nodes[s.id].relay = Kept(p.base.nodes[s.id].relay, p)
      [] s.kind = "chain" -> s.id \notin DOMAIN db.chains
      [] s.kind = "group" -> s.id \notin DOMAIN db.groups
      [] s.kind = "trim-group" -> s.id \notin DOMAIN db.groups \/ Deleted \notin db.groups[s.id]
      [] s.kind = "subscription" ->
            s.id \notin DOMAIN db.files \/ db.files[s.id] = Kept(p.base.files[s.id], p)
      [] s.kind = "empty-subscription" -> s.id \notin DOMAIN db.files
      [] s.kind = "package" -> s.id \notin DOMAIN db.packs
      [] s.kind = "certificate" -> s.id \notin DOMAIN db.certificates
      [] s.kind = "inbound" -> /\ Online(s.server) /\ NewOnInbound(s, p) = {}
                               /\ <<s.server, s.id>> \notin db.inbounds
      [] s.kind = "tunnel" -> Online(s.server) /\ s.id \notin DOMAIN db.tunnels
      [] s.kind = "server" -> Deleted \notin db.servers
      [] OTHER -> FALSE

\* verifyServerDeletion and the official lists.
Clean(p) ==
    /\ Deleted \notin db.servers /\ db.rows = "none"
    /\ Direct(db) = {} /\ Nodes(db) \cap p.gone = {}
    /\ \A k \in DOMAIN db.packs : db.packs[k] \cap p.gone = {}
    /\ \A k \in DOMAIN db.packs : p.base.packs[k] \cap p.gone # {} => db.packs[k] # {}
    /\ \A n \in Nodes(db) : (db.nodes[n].needs \cup db.nodes[n].relay) \cap p.gone = {}
    /\ \A f \in DOMAIN db.files : db.files[f] \cap p.gone = {}
    /\ \A c \in DOMAIN db.certificates : db.certificates[c] = {}

\* Mutant: an edited node is deleted all the same.
ChangedNever(s, p) == FALSE

\* What has changed since the preview is not touched.
Changed(s, p) ==
    CASE s.kind \in {"node", "trim-node"} -> db.nodes[s.id] # p.base.nodes[s.id]
      [] s.kind = "group" -> ~db.groups[s.id] \subseteq {Deleted}
      [] s.kind = "trim-group" -> db.groups[s.id] \subseteq {Deleted}
      [] s.kind \in {"subscription", "empty-subscription"} -> db.files[s.id] # p.base.files[s.id]
      [] s.kind = "inbound" -> NewOnInbound(s, p) # {}
      [] s.kind = "tunnel" -> Online(s.server) /\ db.tunnels[s.id] # p.base.tunnels[s.id]
      [] s.kind = "server" -> db.renewed # p.base.renewed \/ Direct(db) # {}
      [] s.kind = "verify" -> ~Clean(p)
      [] OTHER -> FALSE

LeftBehind(s, p) == Announce(p, <<s.kind, s.server, s.id>>)

Check ==
    /\ plan.state = "deleting" /\ call = Idle
    /\ LET s == Current IN
         /\ s.kind # "helper"
         /\ call' = IF Done(s, plan) THEN Completed(s, plan)
                    ELSE IF Changed(s, plan) THEN Failed(s, plan)
                    ELSE IF s.kind \in {"inbound", "tunnel"} /\ ~Online(s.server)
                         THEN Completed(s, LeftBehind(s, plan))
                    ELSE IF s.kind = "verify" THEN Completed(s, plan)
                    ELSE In("act", s, plan)
    /\ UNCHANGED <<identityVars, db, plan, evaluation, issued, touched, lost>>

Without(f, S) == [x \in DOMAIN f \ S |-> f[x]]

\* External: the official deletion of nodes takes them out of every selection.
WithoutNodes(d, S) ==
    [d EXCEPT !.nodes = Without(@, S),
              !.packs = [k \in DOMAIN @ |-> @[k] \ S],
              !.files = [f \in DOMAIN @ |-> @[f] \ S]]

\* executeDeletionPackage: an emptied package is deleted, for {} would mean all nodes.
Trimmed(d, k, gone) ==
    IF d.packs[k] \subseteq gone THEN [d EXCEPT !.packs = Without(@, {k})]
    ELSE [d EXCEPT !.packs[k] = @ \ gone]

\* What the step asks of the official system.
Effect(d, s, p) ==
    CASE s.kind = "package" -> Trimmed(d, s.id, p.gone)
      [] s.kind = "chain" -> [d EXCEPT !.chains = Without(@, {s.id})]
      [] s.kind = "group" -> [d EXCEPT !.groups = Without(@, {s.id})]
      [] s.kind = "trim-group" -> [d EXCEPT !.groups[s.id] = @ \ {Deleted}]
      [] s.kind = "empty-subscription" -> [d EXCEPT !.files = Without(@, {s.id})]
      [] s.kind = "subscription" -> [d EXCEPT !.files[s.id] = Kept(p.base.files[s.id], p)]
      [] s.kind = "trim-node" ->
            [d EXCEPT !.nodes[s.id] = [p.base.nodes[s.id] EXCEPT !.relay = Kept(@, p)]]
      [] s.kind = "certificate" -> [d EXCEPT !.certificates[s.id] = {}]
      [] s.kind = "inbound" -> [d EXCEPT !.inbounds = @ \ {<<s.server, s.id>>}]
      [] s.kind = "tunnel" -> [d EXCEPT !.tunnels = Without(@, {s.id})]
      [] s.kind = "node" -> WithoutNodes([d EXCEPT !.routes = @ \ {s.id}], {s.id})
      [] s.kind = "server" -> [WithoutNodes(d, Direct(d)) EXCEPT !.servers = @ \ {Deleted}]
      [] s.kind = "sweep" ->
            [d EXCEPT !.rows = "none", !.groups = [g \in DOMAIN @ |-> @[g] \ {Deleted}]]

\* What a step may have done when it breaks off: of a certificate one task stopped, of a
\* routed node the route on its machine removed.
Halfway(d, s, p) ==
    {d, Effect(d, s, p)}
    \cup (IF s.kind = "certificate" THEN {[d EXCEPT !.certificates[s.id] = @ \ {"renew"}]} ELSE {})
    \cup (IF s.kind = "node" THEN {[d EXCEPT !.routes = @ \ {s.id}]} ELSE {})

Acting == call.at = "act"
Acts(kinds) == Acting /\ call.step.kind \in kinds

Routed(n) == n \in Nodes(db) /\ db.nodes[n].routed
Source(n) == db.nodes[n].server

Act ==
    /\ Acting /\ ~Acts({"server", "sweep"}) /\ (Acts({"node"}) => ~Routed(call.step.id))
    /\ db' = Effect(db, call.step, call.plan)
    /\ call' = Completed(call.step, call.plan)
    /\ UNCHANGED <<identityVars, plan, evaluation, issued, touched, lost>>

ActFails ==
    /\ Acting /\ ~Acts({"server"}) /\ (Acts({"node"}) => ~Routed(call.step.id)) /\ Spend("faults")
    /\ db' \in Halfway(db, call.step, call.plan)
    /\ call' = Failed(call.step, call.plan)
    /\ UNCHANGED <<mem, file, asked, held, age, script, config, core, outbox>>
    /\ UNCHANGED <<plan, evaluation, issued, touched, lost>>

\* A routed node: the official operation, which needs its machine, ...
ActRouted ==
    /\ Acts({"node"}) /\ Routed(call.step.id) /\ Online(Source(call.step.id))
    /\ db' = Effect(db, call.step, call.plan)
    /\ call' = Completed(call.step, call.plan)
    /\ UNCHANGED <<identityVars, plan, evaluation, issued, touched, lost>>

\* ... or, when that fails, finishServerDeletionRoutedNode: the record alone goes if the
\* route is gone, or the machine is offline and noted.
ActRoutedFallback ==
    LET n == call.step.id
        off == ~Online(Source(n))
    IN  /\ Acts({"node"}) /\ Routed(n)
        /\ IF off THEN Free ELSE Spend("faults")
        /\ \E routes \in IF off THEN {db.routes} ELSE {db.routes, db.routes \ {n}} :
             LET kept == n \in routes
                 node == WithoutNodes([db EXCEPT !.routes = routes], {n})
             IN  IF Source(n) = Deleted \/ off \/ ~kept
                 THEN /\ db' = node
                      /\ call' = Completed(call.step, IF off /\ Source(n) # Deleted
                                                       THEN Announce(call.plan, <<"route", Source(n), n>>)
                                                       ELSE call.plan)
                 ELSE db' = [db EXCEPT !.routes = routes] /\ call' = Failed(call.step, call.plan)
    /\ UNCHANGED <<mem, file, asked, held, age, script, config, core, outbox>>
    /\ UNCHANGED <<plan, evaluation, issued, touched, lost>>

\* The server step stops the official Core, which takes up to 8 seconds, ...
StopsCore ==
    /\ Acts({"server"})
    /\ \E stopped \in BOOLEAN :
         /\ stopped => call.plan.uninstall /\ Online(Deleted)
         /\ db' = [db EXCEPT !.agent = @ /\ ~stopped]
         /\ call' = [call EXCEPT !.at = "delete",
                       !.plan = IF stopped THEN @ ELSE Announce(@, <<"agent", Deleted, 0>>)]
    /\ UNCHANGED <<identityVars, plan, evaluation, issued, touched, lost>>

\* ... and deletes the server with its nodes.
DeletesServer ==
    /\ call.at = "delete"
    /\ db' = Effect(db, call.step, call.plan)
    /\ call' = [call EXCEPT !.at = "retire"]
    /\ UNCHANGED <<identityVars, plan, evaluation, issued, touched, lost>>

DeletesServerFails ==
    /\ call.at = "delete" /\ Spend("faults")
    /\ db' \in {db, Effect(db, call.step, call.plan)}
    /\ call' = Failed(call.step, call.plan)
    /\ UNCHANGED <<mem, file, asked, held, age, script, config, core, outbox>>
    /\ UNCHANGED <<plan, evaluation, issued, touched, lost>>

\* sweepServerDeletion, one transaction.
Sweep ==
    /\ Acts({"sweep"})
    /\ db' = Effect(db, call.step, call.plan)
    /\ call' = [call EXCEPT !.at = "retire"]
    /\ UNCHANGED <<identityVars, plan, evaluation, issued, touched, lost>>

\* retireDeletedServerState; it and the refresh wait for the evaluation.
Retire(ok) ==
    /\ call.at = "retire" /\ evaluation = "idle"
    /\ Saves(Retired(mem, Deleted), ok)
    /\ call' = IF ok THEN Completed(call.step, call.plan) ELSE Failed(call.step, call.plan)
    /\ UNCHANGED <<asked, held, age, script, config, core, outbox>>
    /\ UNCHANGED <<db, plan, evaluation, issued, touched, lost>>

\* uninstallDeletedServerHelper: the queue is cleared and the command signed, ...
Uninstalls ==
    /\ plan.state = "deleting" /\ call = Idle /\ Current.kind = "helper" /\ plan.command = 0
    /\ \/ /\ call' = Completed(Current, Announce(plan, <<"helper", Deleted, 0>>))
          /\ UNCHANGED <<mem, file, budget, issued>>
       \/ /\ mem.identity[Deleted].hash # Nobody
          /\ \E ok \in BOOLEAN :
               LET cleared == [mem EXCEPT !.queue[Deleted] = 0]
                   queued == [mem EXCEPT !.queue[Deleted] = issued + 1]
               IN  IF ok
                   THEN /\ mem' = queued /\ file' = queued /\ Free
                        /\ call' = In("save", Current, [plan EXCEPT !.command = issued + 1])
                   ELSE /\ mem' = cleared /\ file' \in {file, cleared, queued} /\ Spend("faults")
                        /\ call' = Failed(Current, plan)
          /\ issued' = issued + 1
    /\ UNCHANGED <<asked, held, age, script, config, core, outbox>>
    /\ UNCHANGED <<db, plan, evaluation, touched, lost>>

\* Mutant: any answer will do.
Answers(p) == {r \in mem.results[Deleted] : r.command = p.command}
\* ... and its result awaited, for 45 seconds.
Stopped(p) == {r \in mem.results[Deleted] : r.command = p.command /\ r.ok}

\* Mutant: a Helper that does not answer is waited for without end.
NeverOverdue == FALSE
Overdue == plan.waited

AwaitsUninstall ==
    /\ plan.state = "deleting" /\ call = Idle /\ Current.kind = "helper" /\ plan.command # 0
    /\ LET answered == \E r \in mem.results[Deleted] : r.command = plan.command
       IN  /\ answered \/ Overdue
           /\ call' = IF Stopped(plan) # {} THEN Completed(Current, [plan EXCEPT !.helpers = @ \cap Running])
                      ELSE IF answered THEN Failed(Current, [plan EXCEPT !.command = 0, !.waited = FALSE])
                      ELSE Completed(Current, Announce(plan, <<"helper", Deleted, 0>>))
    /\ UNCHANGED <<identityVars, db, plan, evaluation, issued, touched, lost>>

TimePasses ==
    /\ plan.state = "deleting" /\ call = Idle /\ plan.command # 0 /\ ~plan.waited
    /\ Current.kind = "helper"
    /\ plan' = [plan EXCEPT !.waited = TRUE]
    /\ UNCHANGED <<identityVars, db, call, evaluation, issued, touched, lost>>

\* The answer of the call comes with the saved plan; if the save fails the step, done
\* or not, is done again.
Save ==
    /\ call.at = "save" /\ plan' = call.plan /\ call' = Idle
    /\ UNCHANGED <<identityVars, db, evaluation, issued, touched, lost>>

Dropped == IF call = Idle THEN UNCHANGED lost ELSE lost' = lost \cup (call.plan.outstanding \ plan.outstanding)

SaveFails ==
    /\ call.at = "save" /\ call' = Idle /\ Dropped /\ Spend("faults")
    /\ UNCHANGED <<mem, file, asked, held, age, script, config, core, outbox>>
    /\ UNCHANGED <<db, plan, evaluation, issued, touched>>

-----------------------------------------------------------------------------
(* Everything else *)

\* evaluateDisabledUsers reads the records of the server, and may write the block list of
\* its users after they are gone; the next evaluation finds nothing to block.
EvaluationReads ==
    /\ evaluation = "idle" /\ db.rows # "none"
    /\ evaluation' = db.rows
    /\ UNCHANGED <<identityVars, db, plan, call, issued, touched, lost>>

EvaluationWrites ==
    /\ evaluation # "idle"
    /\ db' = [db EXCEPT !.rows = IF evaluation = "all" /\ @ = "none" THEN "late"
                                 ELSE IF evaluation = "late" /\ @ = "late" THEN "none" ELSE @]
    /\ evaluation' = "idle"
    /\ UNCHANGED <<identityVars, plan, call, issued, touched, lost>>

Identity == UNCHANGED deletionVars

\* Reports of the deleted server's Helper wait for the call (lockUserLifecycle), and are
\* refused when the official system does not have the server.
MayReport(s) == s \in db.servers /\ (s = Deleted => call = Idle)

Helpers ==
    /\ Identity
    /\ \/ \E s \in db.servers : budget["tokens"] > 0 /\ Ask(s)
       \/ \E s \in db.servers, ok \in BOOLEAN : CreateToken(s, ok)
       \/ \E m \in Machine, k \in Token, ok \in BOOLEAN : Download(m, k, ok)
       \/ \E k \in Token : DownloadsNothing(k) \/ Expire(k)
       \/ \E m \in Machine : InstallFresh(m) \/ InstallEnds(m) \/ Wipe(m) \/ Refused(m, db.servers)
       \/ \E m \in Machine, ok \in BOOLEAN : Rebinds(m, ok)
       \/ \E m \in Machine, s \in Server, ok \in BOOLEAN :
            MayReport(s) /\ (Report(m, s, ok) \/ Uninstall(m, s, ok))

\* A request for a token was authorised before the server was deleted, and gets it after;
\* it matters where the server's Helper is retired already.
LateToken ==
    /\ \E s \in Server \ db.servers, ok \in BOOLEAN : CreateToken(s, ok)
    /\ touched' = touched \cup (IF Retired(mem, Deleted) = mem THEN {<<"token", Deleted>>} ELSE {})
    /\ UNCHANGED <<db, plan, call, evaluation, issued, lost>>

ControllerRestarts ==
    /\ Restart /\ Dropped
    /\ call' = Idle /\ evaluation' = "idle"
    /\ UNCHANGED <<db, plan, issued, touched>>

NewNode == [server |-> Deleted, names |-> {}, needs |-> {}, relay |-> {}, chain |-> 0,
            tunnel |-> 0, tag |-> 0, routed |-> FALSE, edits |-> 0]

Administrator(d, what) ==
    /\ Spend("changes") /\ db' = d /\ touched' = touched \cup {what}
    /\ UNCHANGED <<mem, file, asked, held, age, script, config, core, outbox>>
    /\ UNCHANGED <<plan, call, evaluation, issued, lost>>

AddsNode(n) ==
    /\ Deleted \in db.servers /\ n \notin Nodes(db)
    /\ Administrator([db EXCEPT !.nodes = [x \in Nodes(db) \cup {n} |-> IF x = n THEN NewNode ELSE @[x]]],
                     <<"node", n>>)
EditsNode(n) ==
    n \in Nodes(db) /\ Administrator([db EXCEPT !.nodes[n].edits = @ + 1], <<"node", n>>)
Repacks(k, selection) ==
    /\ k \in DOMAIN db.packs /\ selection \subseteq Nodes(db)
    /\ Administrator([db EXCEPT !.packs[k] = selection], <<"package", k>>)
Refiles(f, selection) ==
    /\ f \in DOMAIN db.files /\ selection \subseteq Nodes(db)
    /\ Administrator([db EXCEPT !.files[f] = selection], <<"subscription", f>>)
Regroups(g) ==
    /\ g \in DOMAIN db.groups
    /\ \E s \in db.servers : Administrator([db EXCEPT !.groups[g] = {s}], <<"group", g>>)
\* The server gets another token, so that it is not the one of the plan (deletionServerHash).
RenewsServer ==
    /\ Deleted \in db.servers /\ ~db.renewed
    /\ Administrator([db EXCEPT !.renewed = TRUE], <<"renewal", Deleted>>)
RemovesServer ==
    /\ Deleted \in db.servers
    /\ Administrator([WithoutNodes(db, Direct(db)) EXCEPT !.servers = @ \ {Deleted}], <<"server", Deleted>>)

\* A machine loses its connection to the official system, or has it again.
Connection(s) ==
    /\ s \in db.servers /\ Spend("changes")
    /\ db' = [db EXCEPT !.up = IF s \in @ THEN @ \ {s} ELSE @ \cup {s}]
    /\ UNCHANGED <<mem, file, asked, held, age, script, config, core, outbox>>
    /\ UNCHANGED <<plan, call, evaluation, issued, touched, lost>>

Outside ==
    \/ \E n \in 1..9 : AddsNode(9) \/ EditsNode(n)
    \/ \E k \in DOMAIN db.packs, selection \in {{}, Nodes(db)} : Repacks(k, selection)
    \/ \E f \in DOMAIN db.files : Refiles(f, Nodes(db))
    \/ \E g \in DOMAIN db.groups : Regroups(g)
    \/ RenewsServer \/ RemovesServer
    \/ \E s \in Server : Connection(s)

Init ==
    /\ IdentityInit
    /\ \E i \in Inventory : db = i.db /\ budget = i.budget
    /\ plan = NoPlan /\ call = Idle /\ evaluation = "idle" /\ issued = 0 /\ touched = {} /\ lost = {}

Progress ==
    \/ Check \/ Act \/ ActRouted \/ ActRoutedFallback \/ StopsCore \/ DeletesServer \/ Sweep
    \/ Retire(TRUE) \/ Uninstalls \/ AwaitsUninstall \/ Save

Next ==
    \/ Start \/ Progress \/ TimePasses
    \/ ActFails \/ DeletesServerFails \/ Retire(FALSE) \/ SaveFails
    \/ EvaluationReads \/ EvaluationWrites \/ Helpers \/ LateToken \/ ControllerRestarts \/ Outside

\* The administrator's page asks again until the plan is done, and the evaluation of
\* disabled users runs for ever; nothing is asked of Helpers.  A Go mutex is handed to
\* who waits for it longest.
Fairness ==
    /\ WF_vars(Progress) /\ SF_vars(Retire(TRUE)) /\ WF_vars(TimePasses)
    /\ WF_vars(EvaluationReads \/ EvaluationWrites)

Spec == Init /\ [][Next]_vars /\ Fairness

-----------------------------------------------------------------------------
(* Properties *)

\* A node that the deletion itself takes away was announced in the plan and is as it was
\* then, except for what is made or edited between the check of a call and its official
\* operation (performServerDeletionStep compares the hashes and counts the nodes left).
OnlyPlannedNodesGo ==
    [][touched' = touched /\ call # Idle =>
        \A n \in Nodes(db) \ Nodes(db)' :
            n \in DOMAIN call.seen /\ db.nodes[n] = call.seen[n]
                => n \in call.plan.gone /\ db.nodes[n] = call.plan.base.nodes[n]]_vars

\* No selection of a package or a subscription becomes the empty one, which means all
\* nodes, unless an administrator chose it or removed the server by hand: not even between
\* two steps, nor when a step is repeated ("Save package scope before any upstream node
\* deletion can turn [id] into []").
ByHand(what) == touched \cap {what, <<"server", Deleted>>} # {}

NoSelectionIsEmptied ==
    plan # NoPlan =>
        /\ \A k \in DOMAIN db.packs :
             db.packs[k] = {} => plan.base.packs[k] = {} \/ ByHand(<<"package", k>>)
        /\ \A f \in DOMAIN db.files :
             db.files[f] = {} => plan.base.files[f] = {} \/ ByHand(<<"subscription", f>>)

\* When a deletion is complete, what still forwards to the server or runs on it is gone or
\* listed for the administrator, whichever machines were offline and whichever steps
\* were repeated (Machine.Outstanding).  What a call announced of a route or the official
\* Agent is lost when its plan is not saved: the repeated step finds nothing to do.
Finished == plan # NoPlan /\ plan.state = "deleted" /\ <<"server", Deleted>> \notin touched

OfficialLeftovers ==
    /\ \A t \in BrokenTunnels(plan.base) \cap DOMAIN db.tunnels :
         db.tunnels[t].server # Deleted => <<"tunnel", db.tunnels[t].server, t>> \in plan.outstanding
    /\ \A i \in DeadInbounds(plan.base, plan.gone) \cap db.inbounds :
         <<"inbound", i[1], i[2]>> \in plan.outstanding
    /\ \A n \in plan.gone \cap db.routes : plan.base.nodes[n].server # Deleted =>
         <<"route", plan.base.nodes[n].server, n>> \in plan.outstanding \cup lost
    /\ db.agent => <<"agent", Deleted, 0>> \in plan.outstanding \cup lost

HelperLeft == \E m \in core : <<m, config[m]>> \in plan.helpers

LeftoversAreAnnounced ==
    Finished => OfficialLeftovers /\ (HelperLeft => <<"helper", Deleted, 0>> \in plan.outstanding)

\* A deleted server has no Helper and no token, also after the next restart: whatever was
\* asked for, installed or rebound meanwhile, and whatever was saved or not
\* (retireDeletedServerState).  The one exception is a token whose request was authorised
\* before the deletion and that is issued after the retirement.
DeletedIsRetired ==
    plan # NoPlan /\ plan.state = "deleted" /\ <<"token", Deleted>> \notin touched =>
        \A st \in {mem, file} : Retired(st, Deleted) = st

\* A confirmed deletion comes to its end, unless an administrator changes its scope.
DeletionEnds ==
    plan # NoPlan /\ plan.state = "deleting" ~> plan.state = "deleted" \/ touched # {}

=============================================================================

----------------------------- MODULE FlvxGuards -----------------------------
(* The Reality guards of one FLVX share: planGuards, guardNeed, guardFinal   *)
(* and their helpers of flvx_guard.go, and retargetGuards. A guard is a      *)
(* loopback inbound of the FLVX Core that forwards to one pinned address;    *)
(* the nodes pinned to that address point at its port instead of at the      *)
(* address. All nodes of the share have the same serverNames, so a group is  *)
(* named by its pinned address.                                              *)
(*                                                                           *)
(* s is the Helper's state (state.json), with the fields                     *)
(*   applied  node -> the inbound it believes the Core has                   *)
(*   guards   port -> the target of the guard inbound it believes is there   *)
(*   groups   port -> the group the port is allotted to (state.Guards)       *)
(*   rules    the plan and the guard ports whose rules the Core was given    *)
(*   pins     node -> its pin                                                *)
EXTENDS FlvxPins, Integers, FiniteSets, FiniteSetsExt

CONSTANTS
  Nodes,  \* the nodes the share may have
  Ports,  \* the loopback ports a guard may get
  Off     \* no inbound

ASSUME PortsAreNumbers == Ports \subseteq Nat \ {0} /\ None \notin Ports

\* An inbound: with its pinned address as dest, or pointed at a guard.
Direct(ip) == [ip |-> ip, port |-> None]
Guarded(port) == [ip |-> None, port |-> port]
GuardPortOf(config) == IF config = Off THEN None ELSE config.port

LiveGuardPorts(s) == {GuardPortOf(s.applied[n]) : n \in Nodes} \ {None}

PointAt(s, p) == {n \in Nodes : GuardPortOf(s.applied[n]) = p}

\* A live group whose nodes all moved to one address keeps its port.
RetargetGuards(s, candidates) ==
  [s EXCEPT !.groups = [p \in Ports |->
     LET moved == {s.pins[n].ip : n \in PointAt(s, p)} IN
     IF /\ s.groups[p] # None
        /\ PointAt(s, p) # {}
        /\ PointAt(s, p) \subseteq candidates
        /\ Cardinality(moved) = 1
     THEN CHOOSE ip \in moved : TRUE
     ELSE s.groups[p]]]

\* The port of a group: one in use before an idle one, then the smallest. A
\* port that conflicts with the payload ("taken") is its port no longer.
PortOf(s, taken, ip) ==
  LET of == {p \in Ports \ taken : s.groups[p] = ip}
      used == of \cap LiveGuardPorts(s)
  IN IF of = {} THEN None ELSE Min(IF used # {} THEN used ELSE of)

\* A node stays on the guard it points at while that is its group's.
StaysOn(s, taken, n) ==
  LET p == GuardPortOf(s.applied[n])
  IN p \notin taken \cup {None} /\ s.groups[p] = s.pins[n].ip

\* The ports the kernel may give a new group: none that conflicts, none
\* allotted, none the Core still has rules or an inbound for, none a guard
\* failed on.
FreePorts(s, taken, avoid) ==
  {p \in Ports \ taken : s.groups[p] = None /\ p \notin s.rules.ports
                          /\ p \notin avoid /\ s.guards[p] = None}

\* The groups that need a port.
Portless(s, taken, candidates) ==
  {s.pins[n].ip : n \in {c \in candidates :
                           ~StaysOn(s, taken, c) /\ PortOf(s, taken, s.pins[c].ip) = None}}

\* The ways to give them one: a port each, as long as there are free ports.
\* The kernel picks any free port; the smallest ones stand for them.
Allocations(s, taken, candidates, avoid) ==
  LET free == FreePorts(s, taken, avoid)
      groups == Portless(s, taken, candidates)
      given == {p \in free : Cardinality({q \in free : q < p}) < Cardinality(groups)}
  IN {f \in [groups -> given \cup {None}] :
        \A p \in given : Cardinality({g \in groups : f[g] = p}) = 1}

Allotted(s, allocation) ==
  [s EXCEPT !.groups = [p \in Ports |->
     IF \E g \in DOMAIN allocation : allocation[g] = p
     THEN CHOOSE g \in DOMAIN allocation : allocation[g] = p
     ELSE s.groups[p]]]

\* The candidates' ports once every group that can have one has it.
ByTag(s, taken, candidates) ==
  [n \in Nodes |->
     IF n \notin candidates THEN None
     ELSE IF StaysOn(s, taken, n) THEN GuardPortOf(s.applied[n])
     ELSE PortOf(s, taken, s.pins[n].ip)]

\* The groups with rules: the candidates', and those inbounds still point at.
RulePorts(s, byTag) ==
  ({byTag[n] : n \in Nodes} \ {None}) \cup {p \in LiveGuardPorts(s) : s.groups[p] # None}

\* The ports of all other groups are given back.
Freed(s, rulePorts) ==
  [s EXCEPT !.groups = [p \in Ports |-> IF p \in rulePorts THEN s.groups[p] ELSE None]]

\* Mutant: the retry delay never ends, so no guard is ever added.
NeedOfOldGuards(s, wanted, retained, byTag, waiting) ==
  ({GuardPortOf(s.applied[n]) : n \in retained} \ {None})
  \cup {p \in s.rules.ports : (\E n \in wanted \ retained : byTag[n] = p) /\ s.guards[p] # None}

\* The guards this pass needs. wanted are the nodes it may serve, retained
\* those of them whose inbound is kept as it is, waiting the retry delay.
GuardNeed(s, wanted, retained, byTag, waiting) ==
  ({GuardPortOf(s.applied[n]) : n \in retained} \ {None})
  \cup {p \in s.rules.ports : /\ \E n \in wanted \ retained : byTag[n] = p
                              /\ s.groups[p] # None
                              /\ waiting => s.guards[p] # None}

GuardsUp(s, need) == {p \in need : s.groups[p] # None /\ s.guards[p] = s.groups[p]}

GuardsMissing(s, need) == \E p \in need : s.groups[p] # None /\ s.guards[p] # s.groups[p]

\* Mutant: a node is pointed at its group's guard whether it listens or not.
FinalWithoutGuards(s, wanted, retained, byTag, up) ==
  [n \in Nodes |->
     CASE n \notin wanted -> Off
       [] n \in retained -> s.applied[n]
       [] n \in wanted \ retained -> IF byTag[n] # None THEN Guarded(byTag[n]) ELSE Direct(s.pins[n].ip)]

\* The inbound of a node once the guards of "up" listen.
GuardFinal(s, wanted, retained, byTag, up) ==
  [n \in Nodes |->
     CASE n \notin wanted -> Off
       [] n \in retained -> IF GuardPortOf(s.applied[n]) \in up \cup {None} THEN s.applied[n] ELSE Off
       [] n \in wanted \ retained -> IF byTag[n] \in up THEN Guarded(byTag[n]) ELSE Direct(s.pins[n].ip)]

\* A guard that failed: its port is free for no new group, and its group gets
\* another unless a node points at it.
GuardDropped(s, p) ==
  IF p \in LiveGuardPorts(s) THEN s ELSE [s EXCEPT !.groups[p] = None]
=============================================================================

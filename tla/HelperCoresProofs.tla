-------------------------- MODULE HelperCoresProofs --------------------------
(***************************************************************************)
(* Theorems about the two Cores of a machine.                               *)
(*                                                                          *)
(* The FLVX Core (FlvxPolicy), for any nodes, plans, sites, ports and       *)
(* numbers of failures: a node is added only behind the rules and the guard *)
(* it needs, and keeps them until it goes.                                  *)
(*                                                                          *)
(* The embedded and the External Core (CoreHandoff), for any number of      *)
(* requests and faults: the machine keeps serving through refusals, no      *)
(* handoff starts a second Core, and a request is given up only for the     *)
(* mode that is really in force.                                            *)
(***************************************************************************)
EXTENDS FlvxPolicy, CoreHandoff, WellFoundedInduction, TLAPS

-----------------------------------------------------------------------------
(* FlvxPolicy: types *)

Inbound == {Off} \cup {Direct(ip) : ip \in IPs} \cup {Guarded(p) : p \in Ports}
AddressOrNone == IPs \cup {None}
Pin == [dest: Dests, ip: IPs, fallback: BOOLEAN]
RuleSet == [plan: Plans \cup {None}, ports: SUBSET Ports]
Payload == [plan: Plans \cup {None}, guard: BOOLEAN, nodes: SUBSET Nodes, dest: Dests,
            taken: SUBSET Ports]

PolicyState == [applied: [Nodes -> Inbound], guards: [Ports -> AddressOrNone],
                groups: [Ports -> AddressOrNone], rules: RuleSet, stale: BOOLEAN,
                pins: [Nodes -> Pin \cup {None}], same: BOOLEAN, restarted: BOOLEAN]
PolicyMemory == [last: Payload \cup {None}, error: BOOLEAN, waiting: BOOLEAN,
                 avoid: SUBSET Ports, answers: BOOLEAN]
PolicyCore == [routing: BOOLEAN, rules: RuleSet, outs: SUBSET Plans, unheard: BOOLEAN,
               nodes: [Nodes -> Inbound], guards: [Ports -> AddressOrNone]]
Stage == {"idle", "restart", "failed", "begin", "egress", "stale", "compare", "guards", "nodes",
          "drop"}
PassRecord == [at: Stage, readable: BOOLEAN, byTag: [Nodes -> Ports \cup {None}],
               ports: SUBSET Ports, withheld: SUBSET Nodes,
               present: [nodes: SUBSET Nodes, guards: SUBSET Ports], todo: SUBSET Ports,
               up: SUBSET Ports, final: [Nodes -> Inbound]]

PolicyTypes ==
  /\ wish \in Payload /\ check \in [Dests -> Checks]
  /\ st \in PolicyState /\ disk \in PolicyState
  /\ mem \in PolicyMemory /\ core \in PolicyCore /\ pass \in PassRecord

-----------------------------------------------------------------------------
(* The inductive invariant. *)

\* A port that a node points at is allotted to a group.
Grouped(s) == \A p \in LiveGuardPorts(s) : s.groups[p] # None

\* The Helper heard of every call that changed the rules of its Core, and has
\* recorded the answers.
Heard == st.same /\ ~core.unheard /\ pass.at # "stale"

\* The ports are behind rules, unless the Helper cannot know.
Behind(ports) == Heard => ports \subseteq st.rules.ports

\* The record follows the answers. A new Core has no rules and no nodes until
\* a pass has looked at it, and one that starts within a pass is not known.
RecordInv ==
  /\ Heard => core.rules = st.rules
  /\ pass.at = "stale" /\ ~core.unheard => core.rules = Target
  /\ ~st.same => core.unheard \/ pass.at \in BeforePlan
  /\ ~st.same /\ ~core.unheard /\ mem.last # None => \A n \in Nodes : core.nodes[n] = Off

\* The state in memory and the one on disk; while they are of one Core they
\* have the same nodes.
StateInv ==
  /\ Grouped(st) /\ Grouped(disk)
  /\ Behind(LiveGuardPorts(st))
  /\ disk.same => st.same /\ disk.applied = st.applied

\* The rules a pass asks for have every port that a node points at.
TargetInv == pass.at \in {"egress", "stale"} => LiveGuardPorts(st) \subseteq pass.ports

\* A node that only the new plan covers is withheld while that is not in force.
WithheldInv ==
  pass.at \in {"compare", "guards", "nodes", "drop"} => Withheld \subseteq pass.withheld

\* The guards that are still to come, and those that listen.
GuardsToDo ==
  pass.at = "guards" =>
    /\ pass.todo \cap pass.up = {}
    /\ Behind(pass.todo)
    /\ \A p \in pass.todo : st.groups[p] # None
    /\ st.same => \A p \in pass.todo : p \in pass.present.guards <=> core.guards[p] # None

GuardsListen ==
  pass.at \in {"guards", "nodes", "drop"} =>
    /\ Behind(pass.up)
    /\ \A p \in pass.up : st.groups[p] # None
    /\ st.same => \A p \in pass.up : core.guards[p] # None
    /\ st.same => pass.present.nodes = {n \in Nodes : core.nodes[n] # Off}

\* What the nodes become, and what they are in the end.
FinalInv ==
  /\ pass.at \in {"nodes", "drop"} =>
       \A n \in Nodes : /\ GuardPortOf(pass.final[n]) \in pass.up \cup {None}
                        /\ pass.final[n] # Off => n \notin pass.withheld
  /\ pass.at = "drop" =>
       /\ \A n \in pass.present.nodes : pass.final[n] = st.applied[n]
       /\ \A n \in Nodes \ pass.present.nodes : pass.final[n] = Off
       /\ pass.todo \cap pass.up = {}

\* Between two passes, and until a pass touches the inbounds, a guarded node
\* has its guard.
RestInv ==
  pass.at \in {"idle", "restart", "failed", "begin", "egress", "stale", "compare"}
  /\ mem.last # None /\ st.same =>
    \A n \in Nodes :
      core.nodes[n] = st.applied[n] /\ GuardPortOf(core.nodes[n]) # None =>
        core.guards[GuardPortOf(core.nodes[n])] # None

PolicyInv ==
  /\ PolicyTypes /\ RecordInv /\ StateInv /\ TargetInv /\ WithheldInv
  /\ GuardsToDo /\ GuardsListen /\ FinalInv /\ RestInv

-----------------------------------------------------------------------------
(* The operators of the guards and the pins. *)

LEMMA LeastPort ==
  ASSUME NEW S \in SUBSET Nat, S # {}
  PROVE  Min(S) \in S
<1>1. PICK m \in S : \A k \in S : <<k, m>> \notin OpToRel(<, Nat)
      BY NatLessThanWellFounded, WFMin
<1>2. m \in Nat /\ \A k \in S : k \in Nat OBVIOUS
<1>3. \A k \in S : ~(k < m) BY <1>1, <1>2, Zenon DEF OpToRel
<1>4. \E x \in S : \A y \in S : x =< y BY <1>2, <1>3
<1> QED BY <1>4 DEF Min

LEMMA PortsAreNat == Ports \subseteq Nat /\ None \notin Ports /\ None \notin IPs /\ None \notin Plans
BY PortsAreNumbers, NoneIsNoAddress, PlansAreNamed

LEMMA GuardPortType ==
  /\ \A c \in Inbound : GuardPortOf(c) \in Ports \cup {None}
  /\ GuardPortOf(Off) = None
  /\ \A ip \in IPs : GuardPortOf(Direct(ip)) = None
  /\ \A p : GuardPortOf(Guarded(p)) \in {p, None}
BY DEF Inbound, GuardPortOf, Direct, Guarded

LEMMA LiveType ==
  ASSUME NEW s \in PolicyState
  PROVE  LiveGuardPorts(s) \subseteq Ports
BY GuardPortType DEF LiveGuardPorts, PolicyState

LEMMA NewTypes ==
  /\ NoRules \in RuleSet /\ NewState \in PolicyState /\ NewMemory \in PolicyMemory
  /\ NewCore \in PolicyCore /\ NoPass \in PassRecord
<1>1. NoRules \in RuleSet BY DEF NoRules, RuleSet
<1>2. Off \in Inbound BY DEF Inbound
<1>3. NewState \in PolicyState
      BY <1>1, <1>2 DEF NewState, PolicyState, AddressOrNone
<1>4. NewMemory \in PolicyMemory BY DEF NewMemory, PolicyMemory
<1>5. NewCore \in PolicyCore
      BY <1>1, <1>2 DEF NewCore, PolicyCore, AddressOrNone
<1>6. NoPass \in PassRecord
      BY <1>2 DEF NoPass, PassRecord, Stage
<1> QED BY <1>1, <1>3, <1>4, <1>5, <1>6

LEMMA CheckTypes ==
  ASSUME NEW c \in Checks
  PROVE  c.best \in AddressOrNone /\ c.answer \in AddressOrNone
BY DEF Checks, AddressOrNone

LEMMA DecidePinType ==
  ASSUME NEW pin \in Pin \cup {None}, NEW dest \in Dests, NEW c \in Checks, NEW free
  PROVE  DecidePin(pin, dest, c, free) \in Pin \cup {None}
<1>1. c.best \in AddressOrNone /\ c.answer \in AddressOrNone BY CheckTypes
<1>2. NewPin(pin, dest, c) \in Pin \cup {None}
  <2>1. CASE c.best # None BY <1>1, <2>1 DEF NewPin, Pin, AddressOrNone
  <2>2. CASE c.best = None /\ c.answer # None BY <1>1, <2>2 DEF NewPin, Pin, AddressOrNone
  <2>3. CASE c.best = None /\ c.answer = None BY <2>3 DEF NewPin
  <2> QED BY <2>1, <2>2, <2>3
<1>3. Leaves(pin, c, free) => [dest |-> dest, ip |-> c.best, fallback |-> FALSE] \in Pin
      BY <1>1 DEF Leaves, Pin, AddressOrNone
<1> QED BY <1>2, <1>3 DEF DecidePin

LEMMA InEpochType ==
  ASSUME NEW s \in PolicyState
  PROVE  /\ InEpoch(s) \in PolicyState /\ InEpoch(s).same
         /\ InEpoch(s).groups = s.groups
         /\ s.same => InEpoch(s) = s
         /\ ~s.same => LiveGuardPorts(InEpoch(s)) = {} /\ \A n \in Nodes : InEpoch(s).applied[n] = Off
<1>1. CASE s.same BY <1>1 DEF InEpoch
<1>2. CASE ~s.same
  <2> DEFINE e == [s EXCEPT !.applied = [n \in Nodes |-> Off], !.guards = [p \in Ports |-> None],
                 !.rules = NoRules, !.stale = FALSE, !.same = TRUE]
  <2>1. InEpoch(s) = e BY <1>2 DEF InEpoch
  <2>2. e \in PolicyState
        BY NewTypes DEF PolicyState, AddressOrNone, Inbound
  <2>3. e.same /\ e.groups = s.groups /\ e.applied = [n \in Nodes |-> Off] BY DEF PolicyState
  <2>4. LiveGuardPorts(e) = {} BY <2>3, GuardPortType DEF LiveGuardPorts
  <2> QED BY <1>2, <2>1, <2>2, <2>3, <2>4
<1> QED BY <1>1, <1>2

\* Only the pins change, and pinned nodes have an address.
LEMMA RefreshedType ==
  ASSUME PolicyTypes, NEW s \in PolicyState, NEW idle
  PROVE  /\ RefreshPins(s, idle) \in PolicyState
         /\ RefreshPins(s, idle) = [s EXCEPT !.pins = RefreshPins(s, idle).pins]
<1> DEFINE pins == [n \in Nodes |->
       IF n \notin wish.nodes THEN None
       ELSE DecidePin(s.pins[n], wish.dest, check[wish.dest], PinMoveFree(s, n, idle))]
<1>1. wish.dest \in Dests /\ check[wish.dest] \in Checks BY DEF PolicyTypes, Payload
<1>2. \A n \in Nodes : s.pins[n] \in Pin \cup {None} BY DEF PolicyState
<1>3. pins \in [Nodes -> Pin \cup {None}] BY <1>1, <1>2, DecidePinType
<1>4. RefreshPins(s, idle) = [s EXCEPT !.pins = pins] BY DEF RefreshPins
<1> HIDE DEF pins
<1>5. [s EXCEPT !.pins = pins] \in PolicyState BY <1>3 DEF PolicyState
<1>6. [s EXCEPT !.pins = pins].pins = pins BY DEF PolicyState
<1> QED BY <1>4, <1>5, <1>6

\* A retargeted group has an address.
LEMMA RetargetedType ==
  ASSUME NEW s \in PolicyState, NEW candidates \in SUBSET Nodes,
         \A n \in candidates : s.pins[n] # None
  PROVE  /\ RetargetGuards(s, candidates) \in PolicyState
         /\ RetargetGuards(s, candidates) = [s EXCEPT !.groups = RetargetGuards(s, candidates).groups]
         /\ \A p \in Ports : s.groups[p] # None => RetargetGuards(s, candidates).groups[p] # None
<1> DEFINE moved(p) == {s.pins[n].ip : n \in PointAt(s, p)}
           moves(p) == /\ s.groups[p] # None
                       /\ PointAt(s, p) # {}
                       /\ PointAt(s, p) \subseteq candidates
                       /\ Cardinality(moved(p)) = 1
           chosen(p) == CHOOSE ip \in moved(p) : TRUE
           groups == [p \in Ports |-> IF moves(p) THEN chosen(p) ELSE s.groups[p]]
<1>1. ASSUME NEW p \in Ports, moves(p)
      PROVE  chosen(p) \in IPs
  <2>1. moved(p) # {} BY <1>1
  <2>2. moved(p) \subseteq IPs BY <1>1 DEF PolicyState, Pin
  <2> HIDE DEF moved
  <2> QED BY <2>1, <2>2
<1>2. RetargetGuards(s, candidates) = [s EXCEPT !.groups = groups] BY DEF RetargetGuards
<1> HIDE DEF moves, chosen
<1>3. groups \in [Ports -> AddressOrNone] BY <1>1 DEF PolicyState, AddressOrNone
<1>4. \A p \in Ports : s.groups[p] # None => groups[p] # None BY <1>1, PortsAreNat
<1> HIDE DEF groups
<1>5. [s EXCEPT !.groups = groups] \in PolicyState BY <1>3 DEF PolicyState
<1>6. [s EXCEPT !.groups = groups].groups = groups BY DEF PolicyState
<1> QED BY <1>2, <1>4, <1>5, <1>6

\* A new port goes to a group with an address.
LEMMA AllocatedType ==
  ASSUME NEW s \in PolicyState, NEW candidates \in SUBSET Nodes,
         \A n \in candidates : s.pins[n] # None,
         NEW taken, NEW avoid, NEW allocation \in Allocations(s, taken, candidates, avoid)
  PROVE  DOMAIN allocation \subseteq IPs
<1>1. Portless(s, taken, candidates) \subseteq IPs BY DEF Portless, PolicyState, Pin
<1>2. DOMAIN allocation = Portless(s, taken, candidates) BY DEF Allocations
<1> QED BY <1>1, <1>2

LEMMA AllottedType ==
  ASSUME NEW s \in PolicyState, NEW allocation, DOMAIN allocation \subseteq IPs
  PROVE  /\ Allotted(s, allocation) \in PolicyState
         /\ Allotted(s, allocation) = [s EXCEPT !.groups = Allotted(s, allocation).groups]
         /\ \A p \in Ports : s.groups[p] # None => Allotted(s, allocation).groups[p] # None
<1> DEFINE given(p) == \E g \in DOMAIN allocation : allocation[g] = p
           chosen(p) == CHOOSE g \in DOMAIN allocation : allocation[g] = p
           groups == [p \in Ports |-> IF given(p) THEN chosen(p) ELSE s.groups[p]]
<1>3. \A p \in Ports : given(p) => chosen(p) \in IPs OBVIOUS
<1>4. Allotted(s, allocation) = [s EXCEPT !.groups = groups] BY DEF Allotted
<1> HIDE DEF given, chosen
<1>5. groups \in [Ports -> AddressOrNone] BY <1>3 DEF PolicyState, AddressOrNone
<1>6. \A p \in Ports : s.groups[p] # None => groups[p] # None BY <1>3, PortsAreNat
<1> HIDE DEF groups
<1>7. [s EXCEPT !.groups = groups] \in PolicyState BY <1>5 DEF PolicyState
<1>8. [s EXCEPT !.groups = groups].groups = groups BY DEF PolicyState
<1> QED BY <1>4, <1>6, <1>7, <1>8

LEMMA ByTagType ==
  ASSUME NEW s \in PolicyState, NEW taken, NEW candidates \in SUBSET Nodes
  PROVE  /\ ByTag(s, taken, candidates) \in [Nodes -> Ports \cup {None}]
         /\ RulePorts(s, ByTag(s, taken, candidates)) \subseteq Ports
<1>1. LiveGuardPorts(s) \subseteq Ports BY LiveType
<1>2. \A n \in Nodes : GuardPortOf(s.applied[n]) \in Ports \cup {None}
      BY GuardPortType DEF PolicyState
<1>3. ASSUME NEW ip
      PROVE  PortOf(s, taken, ip) \in Ports \cup {None}
  <2> DEFINE of == {p \in Ports \ taken : s.groups[p] = ip}
             used == of \cap LiveGuardPorts(s)
  <2>1. of \in SUBSET Nat /\ used \in SUBSET Nat BY PortsAreNat
  <2>2. CASE of = {} BY <2>2 DEF PortOf
  <2>3. CASE of # {} /\ used # {}
    <3>1. Min(used) \in used BY <2>1, <2>3, LeastPort
    <3> QED BY <2>3, <3>1 DEF PortOf
  <2>4. CASE of # {} /\ used = {}
    <3>1. Min(of) \in of BY <2>1, <2>4, LeastPort
    <3> QED BY <2>4, <3>1 DEF PortOf
  <2> QED BY <2>2, <2>3, <2>4
<1>4. \A n \in Nodes : ByTag(s, taken, candidates)[n] \in Ports \cup {None}
      BY <1>2, <1>3 DEF ByTag
<1>5. ByTag(s, taken, candidates) = [n \in Nodes |-> ByTag(s, taken, candidates)[n]] BY DEF ByTag
<1>6. ByTag(s, taken, candidates) \in [Nodes -> Ports \cup {None}] BY <1>4, <1>5
<1> QED BY <1>1, <1>6 DEF RulePorts

\* The groups that lose their port are those without rules.
LEMMA FreedType ==
  ASSUME NEW s \in PolicyState, NEW ports \in SUBSET Ports
  PROVE  /\ Freed(s, ports) \in PolicyState
         /\ Freed(s, ports) = [s EXCEPT !.groups = Freed(s, ports).groups]
         /\ \A p \in ports : Freed(s, ports).groups[p] = s.groups[p]
<1> DEFINE groups == [p \in Ports |-> IF p \in ports THEN s.groups[p] ELSE None]
<1>1. Freed(s, ports) = [s EXCEPT !.groups = groups] BY DEF Freed
<1>2. groups \in [Ports -> AddressOrNone] BY DEF PolicyState, AddressOrNone
<1>3. \A p \in ports : groups[p] = s.groups[p] OBVIOUS
<1> HIDE DEF groups
<1>4. [s EXCEPT !.groups = groups] \in PolicyState BY <1>2 DEF PolicyState
<1>5. [s EXCEPT !.groups = groups].groups = groups BY DEF PolicyState
<1> QED BY <1>1, <1>3, <1>4, <1>5

\* The inbound of a wanted node: its old one, one at a guard that listens, or
\* a pinned address.
LEMMA FinalType ==
  ASSUME PolicyTypes, NEW up \in SUBSET Ports
  PROVE  /\ Final(up) \in [Nodes -> Inbound]
         /\ \A n \in Nodes : GuardPortOf(Final(up)[n]) \in up \cup {None}
         /\ \A n \in Nodes : Final(up)[n] # Off => n \notin pass.withheld
<1>1. ASSUME NEW n \in Nodes
      PROVE  /\ Final(up)[n] \in Inbound
             /\ GuardPortOf(Final(up)[n]) \in up \cup {None}
             /\ Final(up)[n] # Off => n \notin pass.withheld
  <2>1. CASE n \notin Wanted
    <3>1. n \notin Retained BY <2>1 DEF Retained
    <3>2. Final(up)[n] = Off BY <2>1, <3>1 DEF Final, GuardFinal
    <3> QED BY <3>2, GuardPortType DEF Inbound
  <2>2. CASE n \in Retained
    <3>1. n \in Wanted BY <2>2 DEF Retained
    <3>2. Final(up)[n] = IF GuardPortOf(st.applied[n]) \in up \cup {None} THEN st.applied[n] ELSE Off
          BY <2>2, <3>1 DEF Final, GuardFinal
    <3>3. st.applied[n] \in Inbound BY DEF PolicyTypes, PolicyState
    <3>4. n \notin pass.withheld BY <3>1 DEF Wanted
    <3> QED BY <3>2, <3>3, <3>4, GuardPortType DEF Inbound
  <2>3. CASE n \in Wanted \ Retained
    <3>1. Final(up)[n] = IF pass.byTag[n] \in up THEN Guarded(pass.byTag[n]) ELSE Direct(st.pins[n].ip)
          BY <2>3 DEF Final, GuardFinal
    <3>2. st.pins[n] # None BY <2>3 DEF Wanted, Retained, Pinned, RealityPin
    <3>3. st.pins[n].ip \in IPs BY <3>2 DEF PolicyTypes, PolicyState, Pin
    <3>4. n \notin pass.withheld BY <2>3 DEF Wanted
    <3> QED BY <3>1, <3>3, <3>4, GuardPortType DEF Inbound
  <2>4. Retained \subseteq Wanted BY DEF Retained
  <2> QED BY <2>1, <2>2, <2>3
<1>2. Final(up) = [n \in Nodes |-> Final(up)[n]] BY DEF Final, GuardFinal
<1> QED BY <1>1, <1>2

\* A guard that is needed has rules, or a node already points at it.
LEMMA NeedType ==
  ASSUME PolicyTypes
  PROVE  Need \subseteq LiveGuardPorts(st) \cup st.rules.ports /\ Need \subseteq Ports
<1>1. Need \subseteq LiveGuardPorts(st) \cup st.rules.ports
      BY DEF Need, GuardNeed, Retained, Wanted, LiveGuardPorts, PolicyTypes, Payload
<1>2. LiveGuardPorts(st) \subseteq Ports BY LiveType DEF PolicyTypes
<1>3. st.rules.ports \subseteq Ports BY DEF PolicyTypes, PolicyState, RuleSet
<1> QED BY <1>1, <1>2, <1>3

-----------------------------------------------------------------------------
(* The steps of FlvxPolicy. *)

\* What the Helper knows of the rules stays what it is: the rules, their
\* record and the place of the Core in the passes are left alone.
LEMMA RecordKept ==
  ASSUME RecordInv, pass.at # "stale", pass'.at # "stale",
         core'.rules = core.rules, core'.unheard = core.unheard,
         st'.rules = st.rules, st'.same = st.same,
         pass.at \in BeforePlan =>
           pass'.at \in BeforePlan /\ core'.nodes = core.nodes /\ mem'.last = mem.last
  PROVE  RecordInv' /\ (Heard' <=> Heard)
<1>1. Heard' <=> Heard BY DEF Heard
<1>2. (~st.same => core.unheard \/ pass.at \in BeforePlan)' BY DEF RecordInv
<1>3. (~st.same /\ ~core.unheard /\ mem.last # None => \A n \in Nodes : core.nodes[n] = Off)'
      BY DEF RecordInv
<1> QED BY <1>1, <1>2, <1>3 DEF RecordInv

\* Nothing of the two states and the Core changes.
LEMMA StatesKept ==
  ASSUME PolicyInv, UNCHANGED <<st, disk, core>>, pass.at # "stale", pass'.at # "stale",
         pass.at \in BeforePlan => pass'.at \in BeforePlan /\ mem'.last = mem.last
  PROVE  RecordInv' /\ StateInv'
<1>1. RecordInv' /\ (Heard' <=> Heard) BY RecordKept DEF PolicyInv
<1> QED BY <1>1 DEF PolicyInv, StateInv, Grouped, Behind, LiveGuardPorts

\* Between two passes only RestInv speaks of the pass.
LEMMA IdleKept ==
  ASSUME pass'.at = "idle"
  PROVE  TargetInv' /\ WithheldInv' /\ GuardsToDo' /\ GuardsListen' /\ FinalInv'
BY DEF TargetInv, WithheldInv, GuardsToDo, GuardsListen, FinalInv

LEMMA InitHolds ==
  ASSUME PolicyInit
  PROVE  PolicyInv
<1>1. PolicyTypes
  <2>1. core \in PolicyCore
    <3>1. [NewCore EXCEPT !.routing = FALSE] \in PolicyCore BY NewTypes DEF PolicyCore
    <3> QED BY <3>1, NewTypes DEF PolicyInit
  <2>2. wish \in Payload /\ check \in [Dests -> Checks]
        BY FirstIsLegal DEF PolicyInit, Payload
  <2> QED BY <2>1, <2>2, NewTypes DEF PolicyInit, PolicyTypes
<1>2. st = NewState /\ disk = NewState /\ pass = NoPass /\ mem = NewMemory BY DEF PolicyInit
<1>3. RecordInv /\ StateInv
  <2>1. LiveGuardPorts(NewState) = {} BY GuardPortType DEF LiveGuardPorts, NewState
  <2>2. StateInv BY <1>2, <2>1 DEF StateInv, Grouped, Behind, NewState
  <2>3. pass.at = "idle" /\ mem.last = None /\ ~st.same
        BY <1>2 DEF NoPass, NewMemory, NewState
  <2> QED BY <2>2, <2>3 DEF RecordInv, Heard, BeforePlan
<1>4. TargetInv /\ WithheldInv /\ GuardsToDo /\ GuardsListen /\ FinalInv
      BY <1>2 DEF TargetInv, WithheldInv, GuardsToDo, GuardsListen, FinalInv, NoPass
<1>5. RestInv BY <1>2 DEF RestInv, NewMemory
<1> QED BY <1>1, <1>3, <1>4, <1>5 DEF PolicyInv

LEMMA AskHolds ==
  ASSUME PolicyInv, Ask
  PROVE  PolicyInv'
<1>1. UNCHANGED <<check, st, disk, mem, core, pass>> /\ pass.at = "idle" BY DEF Ask
<1>2. wish' \in Payload
  <2> wish \in Payload BY DEF PolicyInv, PolicyTypes
  <2> USE DEF Payload
  <2>1. CASE \E p \in Plans \cup {None} : wish' = [wish EXCEPT !.plan = p] BY <2>1
  <2>2. CASE wish' = [wish EXCEPT !.guard = ~@] BY <2>2
  <2>3. CASE \E n \in Nodes : wish' = [wish EXCEPT !.nodes = IF n \in @ THEN @ \ {n} ELSE @ \cup {n}]
        BY <2>3
  <2>4. CASE \E d \in Dests : wish' = [wish EXCEPT !.dest = d] BY <2>4
  <2>5. CASE \E q \in Ports : wish' = [wish EXCEPT !.taken = IF q \in @ THEN @ \ {q} ELSE @ \cup {q}]
        BY <2>5
  <2> QED BY <2>1, <2>2, <2>3, <2>4, <2>5 DEF Ask
<1>3. PolicyTypes' BY <1>1, <1>2 DEF PolicyInv, PolicyTypes
<1>4. RestInv' BY <1>1 DEF PolicyInv, RestInv
<1>5. RecordInv' /\ StateInv' BY <1>1, StatesKept
<1> QED BY <1>1, <1>3, <1>4, <1>5, IdleKept DEF PolicyInv

LEMMA CheckSiteHolds ==
  ASSUME PolicyInv, CheckSite
  PROVE  PolicyInv'
<1>1. UNCHANGED <<wish, st, disk, mem, core, pass>> /\ pass.at = "idle" BY DEF CheckSite
<1>2. check' \in [Dests -> Checks] BY DEF CheckSite, PolicyInv, PolicyTypes
<1>3. PolicyTypes' BY <1>1, <1>2 DEF PolicyInv, PolicyTypes
<1>4. RestInv' BY <1>1 DEF PolicyInv, RestInv
<1>5. RecordInv' /\ StateInv' BY <1>1, StatesKept
<1> QED BY <1>1, <1>3, <1>4, <1>5, IdleKept DEF PolicyInv

LEMMA RetryDueHolds ==
  ASSUME PolicyInv, RetryDue
  PROVE  PolicyInv'
<1>1. UNCHANGED <<wish, check, st, disk, core, pass>> BY DEF RetryDue
<1>2. mem' \in PolicyMemory /\ mem'.last = mem.last
      BY DEF RetryDue, PolicyInv, PolicyTypes, PolicyMemory
<1>3. PolicyTypes' BY <1>1, <1>2 DEF PolicyInv, PolicyTypes
<1>4. TargetInv' /\ WithheldInv' BY <1>1 DEF PolicyInv, TargetInv, WithheldInv, Withheld, LiveGuardPorts
<1>5. GuardsToDo' /\ GuardsListen' BY <1>1 DEF PolicyInv, GuardsToDo, GuardsListen, Behind, Heard
<1>6. FinalInv' /\ RestInv' BY <1>1, <1>2 DEF PolicyInv, FinalInv, RestInv
<1>7. RecordInv' BY <1>1, <1>2 DEF PolicyInv, RecordInv, Heard, Target
<1>8. StateInv' BY <1>1 DEF PolicyInv, StateInv, Grouped, Behind, Heard, LiveGuardPorts
<1> QED BY <1>1, <1>3, <1>4, <1>5, <1>6, <1>7, <1>8 DEF PolicyInv

LEMMA SaveRestartHolds ==
  ASSUME PolicyInv, SaveRestart
  PROVE  PolicyInv'
<1>1. UNCHANGED <<wish, check, mem, core>> /\ disk' \in {st', disk} /\ pass.at = "idle"
      BY DEF SaveRestart
<1>2. st' \in PolicyState /\ st' = [st EXCEPT !.restarted = TRUE]
      BY DEF SaveRestart, PolicyInv, PolicyTypes, PolicyState
<1>3. /\ st'.applied = st.applied /\ st'.groups = st.groups /\ st'.same = st.same
      /\ st'.rules = st.rules
      BY <1>2 DEF PolicyInv, PolicyTypes, PolicyState
<1>4. pass' \in PassRecord /\ pass'.at \in {"restart", "failed"}
      BY NewTypes DEF SaveRestart, PassRecord, Stage
<1>5. PolicyTypes' BY <1>1, <1>2, <1>4 DEF PolicyInv, PolicyTypes
<1>6. RecordInv' /\ (Heard' <=> Heard) BY <1>1, <1>3, <1>4, RecordKept DEF PolicyInv, BeforePlan
<1>7. StateInv'
  <2>1. LiveGuardPorts(st)' = LiveGuardPorts(st) BY <1>3 DEF LiveGuardPorts
  <2>2. Grouped(st)' /\ Behind(LiveGuardPorts(st))'
        BY <1>3, <1>6, <2>1 DEF PolicyInv, StateInv, Grouped, Behind
  <2>3. CASE disk' = st' BY <2>2, <2>3 DEF StateInv, Grouped, LiveGuardPorts
  <2>4. CASE disk' = disk
        BY <1>3, <2>2, <2>4 DEF PolicyInv, StateInv, Grouped, LiveGuardPorts
  <2> QED BY <1>1, <2>3, <2>4
<1>8. TargetInv' /\ WithheldInv' /\ GuardsToDo' /\ GuardsListen' /\ FinalInv'
      BY <1>4 DEF TargetInv, WithheldInv, GuardsToDo, GuardsListen, FinalInv
<1>9. RestInv' BY <1>1, <1>3 DEF PolicyInv, RestInv
<1> QED BY <1>5, <1>6, <1>7, <1>8, <1>9 DEF PolicyInv

LEMMA RoutingUnknownHolds ==
  ASSUME PolicyInv, RoutingUnknown
  PROVE  PolicyInv'
<1>1. UNCHANGED <<wish, check, st, disk, mem, core>> /\ pass.at = "idle" BY DEF RoutingUnknown
<1>2. pass' \in PassRecord /\ pass'.at = "begin"
      BY NewTypes DEF RoutingUnknown, PassRecord, Stage
<1>3. PolicyTypes' BY <1>1, <1>2 DEF PolicyInv, PolicyTypes
<1>4. RecordInv' /\ StateInv' BY <1>1, <1>2, StatesKept DEF BeforePlan
<1>5. TargetInv' /\ WithheldInv' /\ GuardsToDo' /\ GuardsListen' /\ FinalInv'
      BY <1>2 DEF TargetInv, WithheldInv, GuardsToDo, GuardsListen, FinalInv
<1>6. RestInv' BY <1>1 DEF PolicyInv, RestInv
<1> QED BY <1>3, <1>4, <1>5, <1>6 DEF PolicyInv

\* The states of another Core keep their nodes and groups.
LEMMA OfAnotherCoreType ==
  ASSUME NEW s \in PolicyState
  PROVE  /\ OfAnotherCore(s) \in PolicyState /\ ~OfAnotherCore(s).same
         /\ OfAnotherCore(s).applied = s.applied /\ OfAnotherCore(s).groups = s.groups
         /\ OfAnotherCore(s).rules = s.rules /\ OfAnotherCore(s).stale = s.stale
BY DEF OfAnotherCore, PolicyState

\* A new Core: the records are of the old one.
LEMMA NewCoreStates ==
  ASSUME PolicyInv, st' = OfAnotherCore(st), disk' \in {OfAnotherCore(disk), st'}
  PROVE  st' \in PolicyState /\ disk' \in PolicyState /\ StateInv'
<1>1. st \in PolicyState /\ disk \in PolicyState BY DEF PolicyInv, PolicyTypes
<1>2. ~st'.same /\ st'.applied = st.applied /\ st'.groups = st.groups /\ st' \in PolicyState
      BY <1>1, OfAnotherCoreType
<1>3. /\ ~disk'.same /\ disk' \in PolicyState
      /\ \/ disk'.applied = disk.applied /\ disk'.groups = disk.groups
         \/ disk'.applied = st.applied /\ disk'.groups = st.groups
      BY <1>1, <1>2, OfAnotherCoreType
<1> QED BY <1>2, <1>3 DEF PolicyInv, StateInv, Grouped, Behind, Heard, LiveGuardPorts

\* It has no nodes, and only one that started within a pass is not known.
LEMMA NewCoreRecord ==
  ASSUME ~st'.same, core'.nodes = NewCore.nodes, core'.unheard \/ pass'.at \in BeforePlan
  PROVE  RecordInv'
<1>1. pass'.at = "stale" => core'.unheard BY DEF BeforePlan
<1>2. \A n \in Nodes : core'.nodes[n] = Off BY DEF NewCore
<1> QED BY <1>1, <1>2 DEF RecordInv, Heard

LEMMA RestartForRoutingHolds ==
  ASSUME PolicyInv, RestartForRouting
  PROVE  PolicyInv'
<1>1. UNCHANGED <<wish, check, mem>> /\ core' = NewCore BY DEF RestartForRouting
<1>2. st' \in PolicyState /\ disk' \in PolicyState /\ StateInv'
      BY NewCoreStates DEF RestartForRouting
<1>3. pass' \in PassRecord /\ pass'.at = "begin"
      BY DEF RestartForRouting, PolicyInv, PolicyTypes, PassRecord, Stage
<1>4. ~st'.same BY OfAnotherCoreType DEF RestartForRouting, PolicyInv, PolicyTypes
<1>5. PolicyTypes' BY <1>1, <1>2, <1>3, NewTypes DEF PolicyInv, PolicyTypes
<1>6. TargetInv' /\ WithheldInv' /\ GuardsToDo' /\ GuardsListen' /\ FinalInv'
      BY <1>3 DEF TargetInv, WithheldInv, GuardsToDo, GuardsListen, FinalInv
<1>7. RestInv' BY <1>4 DEF RestInv
<1>8. RecordInv' BY <1>1, <1>3, <1>4, NewCoreRecord DEF BeforePlan
<1> QED BY <1>2, <1>5, <1>6, <1>7, <1>8 DEF PolicyInv

LEMMA CoreRestartsHolds ==
  ASSUME PolicyInv, CoreRestarts
  PROVE  PolicyInv'
<1>1. UNCHANGED <<wish, check, mem, pass>> /\ core' \in PolicyCore
      /\ core'.nodes = NewCore.nodes /\ core'.unheard = (pass.at \notin BeforePlan)
      BY NewTypes DEF CoreRestarts, PolicyCore
<1>2. st' \in PolicyState /\ disk' \in PolicyState /\ StateInv'
      BY NewCoreStates DEF CoreRestarts
<1>3. /\ ~st'.same /\ st'.applied = st.applied /\ st'.groups = st.groups
      /\ st'.rules = st.rules
      BY OfAnotherCoreType DEF CoreRestarts, PolicyInv, PolicyTypes
<1>4. PolicyTypes' BY <1>1, <1>2 DEF PolicyInv, PolicyTypes
<1>5. TargetInv' /\ WithheldInv'
      BY <1>1, <1>3 DEF PolicyInv, TargetInv, WithheldInv, Withheld, LiveGuardPorts
<1>6. GuardsToDo' /\ GuardsListen'
      BY <1>1, <1>3 DEF PolicyInv, GuardsToDo, GuardsListen, Behind, Heard
<1>7. FinalInv' /\ RestInv'
      BY <1>1, <1>3 DEF PolicyInv, FinalInv, RestInv
<1>8. RecordInv' BY <1>1, <1>3, NewCoreRecord
<1> QED BY <1>2, <1>4, <1>5, <1>6, <1>7, <1>8 DEF PolicyInv

\* The plan of a pass: the rules it asks for have every port in use, and the
\* groups of those keep their ports.
LEMMA PlanPassHolds ==
  ASSUME PolicyInv, PlanPass
  PROVE  PolicyInv'
<1>1. st \in PolicyState /\ PolicyTypes /\ RecordInv /\ StateInv BY DEF PolicyInv, PolicyTypes
<1>2. /\ UNCHANGED <<wish, check, disk>> /\ core' \in PolicyCore
      /\ core'.rules = core.rules /\ core'.nodes = core.nodes /\ core'.guards = core.guards
      /\ st.same => core'.unheard = core.unheard
      /\ ~st.same => core'.unheard = (core.rules # NoRules)
      BY <1>1 DEF PlanPass, InNewEpoch, PolicyTypes, PolicyCore
<1>3. PICK readable \in BOOLEAN, idle \in SUBSET Nodes : Planned(idle, readable)
      BY DEF PlanPass
<1> DEFINE fresh == InEpoch(st)
<1>4. PICK pinned, candidates, retargeted, allocation, allotted, byTag :
        /\ pinned = RefreshPins(fresh, idle)
        /\ candidates = Candidates(pinned, readable)
        /\ retargeted = RetargetGuards(pinned, candidates)
        /\ allocation \in Allocations(retargeted, wish.taken, candidates, mem.avoid)
        /\ allotted = Allotted(retargeted, allocation)
        /\ byTag = ByTag(allotted, wish.taken, candidates)
        /\ PlanIs(allotted, byTag, readable)
      BY <1>3 DEF Planned
<1> DEFINE ports == RulePorts(allotted, byTag)
<1>5. /\ fresh \in PolicyState /\ fresh.same /\ fresh.groups = st.groups
      /\ st.same => fresh = st
      /\ ~st.same => LiveGuardPorts(fresh) = {} /\ \A n \in Nodes : fresh.applied[n] = Off
      BY <1>1, InEpochType
<1>6. pinned \in PolicyState /\ pinned = [fresh EXCEPT !.pins = pinned.pins]
      BY <1>1, <1>4, <1>5, RefreshedType
<1>7. candidates \in SUBSET Nodes /\ \A n \in candidates : pinned.pins[n] # None
      BY <1>1, <1>4 DEF Candidates, Pinned, RealityPin, PolicyTypes, Payload
<1>8. /\ retargeted \in PolicyState
      /\ retargeted = [pinned EXCEPT !.groups = retargeted.groups]
      /\ \A p \in Ports : pinned.groups[p] # None => retargeted.groups[p] # None
      BY <1>4, <1>6, <1>7, RetargetedType
<1> HIDE DEF fresh
<1>9. /\ pinned.applied = fresh.applied /\ pinned.groups = fresh.groups /\ pinned.same = fresh.same
      /\ pinned.rules = fresh.rules /\ pinned.stale = fresh.stale
      BY <1>5, <1>6 DEF PolicyState
<1>10. /\ retargeted.applied = pinned.applied /\ retargeted.same = pinned.same
       /\ retargeted.rules = pinned.rules /\ retargeted.stale = pinned.stale
       /\ retargeted.pins = pinned.pins
       BY <1>6, <1>8 DEF PolicyState
<1>11. allocation \in Allocations(retargeted, wish.taken, candidates, mem.avoid) BY <1>4
<1>12. candidates \in SUBSET Nodes /\ \A n \in candidates : retargeted.pins[n] # None BY <1>7, <1>10
<1>13. DOMAIN allocation \subseteq IPs BY <1>8, <1>11, <1>12, AllocatedType
<1>14. /\ allotted \in PolicyState
       /\ allotted = [retargeted EXCEPT !.groups = allotted.groups]
       /\ \A p \in Ports : retargeted.groups[p] # None => allotted.groups[p] # None
       BY <1>4, <1>8, <1>13, AllottedType
<1>15. /\ allotted.applied = retargeted.applied /\ allotted.same = retargeted.same
       /\ allotted.rules = retargeted.rules /\ allotted.stale = retargeted.stale
       BY <1>8, <1>14 DEF PolicyState
<1>16. byTag \in [Nodes -> Ports \cup {None}] /\ ports \subseteq Ports
       BY <1>4, <1>7, <1>14, ByTagType
<1>17. /\ st' = Freed(allotted, ports)
       /\ pass' = [NoPass EXCEPT !.at = "egress", !.readable = readable,
                                 !.byTag = byTag, !.ports = ports]
       /\ mem' = [mem EXCEPT !.waiting = @ /\ \E n \in Nodes : byTag[n] # None,
                             !.error = @ \/ ~st.same,
                             !.answers = @ /\ st.same]
       BY <1>4 DEF PlanIs
<1>18. {p \in LiveGuardPorts(allotted) : allotted.groups[p] # None} \subseteq ports
       BY DEF RulePorts
<1> HIDE DEF ports
<1>19. /\ st' \in PolicyState /\ st' = [allotted EXCEPT !.groups = st'.groups]
       /\ \A p \in ports : st'.groups[p] = allotted.groups[p]
       BY <1>14, <1>16, <1>17, FreedType
<1>20. /\ st'.applied = allotted.applied /\ st'.same = allotted.same
       /\ st'.rules = allotted.rules /\ st'.stale = allotted.stale
       BY <1>14, <1>19 DEF PolicyState
<1>21. /\ st'.applied = fresh.applied /\ st'.same /\ st'.rules = fresh.rules /\ st'.stale = fresh.stale
       BY <1>5, <1>9, <1>10, <1>15, <1>20
<1>22. LiveGuardPorts(st)' = LiveGuardPorts(fresh) /\ LiveGuardPorts(allotted) = LiveGuardPorts(fresh)
       BY <1>20, <1>21 DEF LiveGuardPorts
<1>23. \A p \in LiveGuardPorts(fresh) : p \in Ports /\ fresh.groups[p] # None
       BY <1>1, <1>5, LiveType DEF StateInv, Grouped
<1>24. LiveGuardPorts(fresh) \subseteq ports /\ \A p \in LiveGuardPorts(fresh) : st'.groups[p] # None
       BY <1>8, <1>9, <1>14, <1>18, <1>19, <1>22, <1>23
<1>25. pass' \in PassRecord /\ pass'.at = "egress" /\ pass'.ports = ports
       BY <1>16, <1>17, NewTypes DEF PassRecord, Stage
<1>26. mem' \in PolicyMemory /\ mem'.last = mem.last
  <2>1. mem \in PolicyMemory /\ st.same \in BOOLEAN BY <1>1 DEF PolicyTypes, PolicyState
  <2> QED BY <1>17, <2>1 DEF PolicyMemory
<1>27. PolicyTypes' BY <1>1, <1>2, <1>19, <1>25, <1>26 DEF PolicyTypes
<1>28. StateInv'
  <2>1. Grouped(st)' BY <1>22, <1>24 DEF Grouped
  <2>2. Grouped(disk)' BY <1>1, <1>2 DEF StateInv, Grouped, LiveGuardPorts
  <2>3. Behind(LiveGuardPorts(st))'
    <3>1. CASE st.same
      <4>1. pass.at # "stale" BY DEF PlanPass
      <4> QED BY <1>1, <1>2, <1>5, <1>21, <1>22, <3>1, <4>1 DEF StateInv, Behind, Heard
    <3>2. CASE ~st.same BY <1>5, <1>22, <3>2 DEF Behind
    <3> QED BY <3>1, <3>2
  <2>4. (disk.same => st.same /\ disk.applied = st.applied)'
        BY <1>1, <1>2, <1>5, <1>21 DEF StateInv
  <2> QED BY <2>1, <2>2, <2>3, <2>4 DEF StateInv
<1>32. RecordInv'
  <2>1. pass.at # "stale" /\ pass'.at # "stale" BY <1>25 DEF PlanPass
  <2>2. CASE st.same BY <1>1, <1>2, <1>5, <1>21, <2>1, <2>2 DEF RecordInv, Heard
  <2>3. CASE ~st.same
    <3>1. fresh.rules = NoRules BY <1>1, <2>3 DEF fresh, InEpoch, PolicyState
    <3> QED BY <1>2, <1>21, <2>1, <2>3, <3>1 DEF RecordInv, Heard
  <2> QED BY <2>2, <2>3
<1>29. TargetInv' BY <1>22, <1>24, <1>25 DEF TargetInv
<1>30. WithheldInv' /\ GuardsToDo' /\ GuardsListen' /\ FinalInv'
       BY <1>25 DEF WithheldInv, GuardsToDo, GuardsListen, FinalInv
<1>31. RestInv'
  <2>1. CASE st.same
    <3>1. pass.at \in {"idle", "begin"} BY DEF PlanPass
    <3> QED BY <2>1, <3>1, <1>2, <1>5, <1>21, <1>26 DEF PolicyInv, RestInv
  <2>2. CASE ~st.same
        BY <2>2, <1>2, <1>5, <1>21, GuardPortType DEF RestInv
  <2> QED BY <2>1, <2>2
<1> QED BY <1>27, <1>28, <1>29, <1>30, <1>31, <1>32 DEF PolicyInv

-----------------------------------------------------------------------------
(* The plan and its rules. *)

LEMMA TargetType ==
  ASSUME PolicyTypes
  PROVE  /\ Target \in RuleSet /\ Target.plan = wish.plan /\ Target.ports = pass.ports
         /\ WithOutbounds \in PolicyCore /\ WithRules \in PolicyCore /\ WithoutStale \in PolicyCore
         /\ WithRules.rules = Target /\ WithRules.unheard = ~st.same
         /\ UnheardRules \in PolicyCore /\ UnheardRules.unheard
         /\ \A c \in {WithOutbounds, WithoutStale} : c.rules = core.rules /\ c.unheard = core.unheard
         /\ \A c \in {WithOutbounds, WithoutStale, WithRules, UnheardRules} :
              c.nodes = core.nodes /\ c.guards = core.guards
<1>1. Target \in RuleSet /\ Target.plan = wish.plan /\ Target.ports = pass.ports
      BY DEF PolicyTypes, Target, RuleSet, Payload, PassRecord
<1>2. Outbounds(wish.plan) \subseteq Plans BY DEF Outbounds, PolicyTypes, Payload
<1>3. core \in PolicyCore /\ st.same \in BOOLEAN BY DEF PolicyTypes, PolicyState
<1>4. WithOutbounds \in PolicyCore /\ WithOutbounds = [core EXCEPT !.outs = core.outs \cup Outbounds(wish.plan)]
      BY <1>2, <1>3 DEF WithOutbounds, PolicyCore
<1>5. WithoutStale \in PolicyCore /\ WithoutStale = [core EXCEPT !.outs = core.outs \cap Outbounds(wish.plan)]
      BY <1>2, <1>3 DEF WithoutStale, PolicyCore
<1>6. WithRules \in PolicyCore /\ WithRules = [WithOutbounds EXCEPT !.rules = Target, !.unheard = ~st.same]
      BY <1>1, <1>3, <1>4 DEF WithRules, PolicyCore
<1>7. /\ WithOutbounds.rules = core.rules /\ WithOutbounds.unheard = core.unheard
      /\ WithOutbounds.nodes = core.nodes /\ WithOutbounds.guards = core.guards
      BY <1>3, <1>4 DEF PolicyCore
<1>8. /\ WithoutStale.rules = core.rules /\ WithoutStale.unheard = core.unheard
      /\ WithoutStale.nodes = core.nodes /\ WithoutStale.guards = core.guards
      BY <1>3, <1>5 DEF PolicyCore
<1>9. /\ WithRules.rules = Target /\ WithRules.unheard = ~st.same
      /\ WithRules.nodes = core.nodes /\ WithRules.guards = core.guards
      BY <1>4, <1>6, <1>7 DEF PolicyCore
<1>10. /\ UnheardRules \in PolicyCore /\ UnheardRules.unheard
       /\ UnheardRules.nodes = core.nodes /\ UnheardRules.guards = core.guards
       BY <1>6, <1>9 DEF UnheardRules, PolicyCore
<1> QED BY <1>1, <1>4, <1>5, <1>6, <1>7, <1>8, <1>9, <1>10

\* The plan's part of a pass is over: the rules of the record are the ones of
\* the payload, or the nodes that only those cover are withheld.
LEMMA ComparesNext ==
  ASSUME PolicyInv, pass.at \in {"egress", "stale"}, UNCHANGED wish,
         NEW withheld \in SUBSET Nodes,
         pass' = [pass EXCEPT !.at = "compare", !.withheld = withheld],
         CoveredBy(wish.plan) \ CoveredBy(st'.rules.plan) \subseteq withheld,
         \/ mem'.last = mem.last /\ st'.same = st.same /\ st'.applied = st.applied
            /\ core'.nodes = core.nodes /\ core'.guards = core.guards
  PROVE  /\ pass' \in PassRecord
         /\ TargetInv' /\ WithheldInv' /\ GuardsToDo' /\ GuardsListen' /\ FinalInv' /\ RestInv'
<1>1. pass' \in PassRecord /\ pass'.at = "compare" /\ pass'.withheld = withheld
      BY DEF PolicyInv, PolicyTypes, PassRecord, Stage
<1>2. WithheldInv' BY <1>1 DEF WithheldInv, Withheld
<1>3. RestInv' BY <1>1 DEF PolicyInv, RestInv
<1>4. TargetInv' /\ GuardsToDo' /\ GuardsListen' /\ FinalInv'
      BY <1>1 DEF TargetInv, GuardsToDo, GuardsListen, FinalInv
<1> QED BY <1>1, <1>2, <1>3, <1>4

LEMMA WithheldType ==
  ASSUME PolicyTypes
  PROVE  Withheld \in SUBSET Nodes
BY PlansAreNamed DEF Withheld, CoveredBy, PolicyTypes, Payload

LEMMA AnsweredType ==
  ASSUME PolicyTypes, Answered \/ UNCHANGED mem
  PROVE  mem' \in PolicyMemory /\ mem'.last = mem.last
BY DEF Answered, PolicyTypes, PolicyMemory

LEMMA EgressUnchangedHolds ==
  ASSUME PolicyInv, EgressUnchanged
  PROVE  PolicyInv'
<1>1. UNCHANGED <<wish, check, st, disk, core>> /\ pass.at = "egress"
      BY DEF EgressUnchanged
<1>2. mem' \in PolicyMemory /\ mem'.last = mem.last
      BY AnsweredType DEF EgressUnchanged, PolicyInv
<1>3. pass' = [pass EXCEPT !.at = "compare", !.withheld = pass.withheld]
      BY DEF EgressUnchanged, PolicyInv, PolicyTypes, PassRecord
<1>4. CoveredBy(wish.plan) \ CoveredBy(st.rules.plan) = {}
  <2>1. Target = NoRules => wish.plan = None BY TargetType DEF PolicyInv, NoRules
  <2>2. Target = st.rules => wish.plan = st.rules.plan BY TargetType DEF PolicyInv
  <2>3. Target = NoRules \/ Target = st.rules
        BY DEF EgressUnchanged, NothingToApply, RulesAreLive
  <2> QED BY <2>1, <2>2, <2>3 DEF CoveredBy
<1>5. pass.withheld \in SUBSET Nodes BY DEF PolicyInv, PolicyTypes, PassRecord
<1>6. /\ pass' \in PassRecord
      /\ TargetInv' /\ WithheldInv' /\ GuardsToDo' /\ GuardsListen' /\ FinalInv' /\ RestInv'
      BY <1>1, <1>2, <1>3, <1>4, <1>5, ComparesNext
<1>7. PolicyTypes' BY <1>1, <1>2, <1>6 DEF PolicyInv, PolicyTypes
<1>8. pass'.at = "compare" BY <1>3 DEF PolicyInv, PolicyTypes, PassRecord
<1>9. RecordInv' /\ StateInv' BY <1>1, <1>8, StatesKept DEF BeforePlan
<1> QED BY <1>6, <1>7, <1>9 DEF PolicyInv

LEMMA RenderFailsHolds ==
  ASSUME PolicyInv, RenderFails
  PROVE  PolicyInv'
<1>1. UNCHANGED <<wish, check, st, disk, core>> /\ pass.at = "egress"
      BY DEF RenderFails
<1>2. mem' \in PolicyMemory /\ mem'.last = mem.last
      BY AnsweredType DEF RenderFails, PolicyInv
<1>3. pass' = [pass EXCEPT !.at = "compare", !.withheld = Withheld] BY DEF RenderFails
<1>4. Withheld \in SUBSET Nodes BY WithheldType DEF PolicyInv
<1>5. CoveredBy(wish.plan) \ CoveredBy(st'.rules.plan) \subseteq Withheld BY <1>1 DEF Withheld
<1>6. /\ pass' \in PassRecord
      /\ TargetInv' /\ WithheldInv' /\ GuardsToDo' /\ GuardsListen' /\ FinalInv' /\ RestInv'
      BY <1>1, <1>2, <1>3, <1>4, <1>5, ComparesNext
<1>7. PolicyTypes' BY <1>1, <1>2, <1>6 DEF PolicyInv, PolicyTypes
<1>8. pass'.at = "compare" BY <1>3 DEF PolicyInv, PolicyTypes, PassRecord
<1>9. RecordInv' /\ StateInv' BY <1>1, <1>8, StatesKept DEF BeforePlan
<1> QED BY <1>6, <1>7, <1>9 DEF PolicyInv

LEMMA RulesFailHolds ==
  ASSUME PolicyInv, RulesFail
  PROVE  PolicyInv'
<1>1. UNCHANGED <<wish, check, st, disk>> /\ Changes /\ pass.at = "egress"
      BY DEF RulesFail, Changes
<1>2. mem' \in PolicyMemory /\ mem'.last = mem.last
      BY AnsweredType DEF RulesFail, PolicyInv
<1>3. pass' = [pass EXCEPT !.at = "compare", !.withheld = Withheld] BY DEF RulesFail
<1>4. core' \in {core, WithOutbounds, UnheardRules} BY DEF RulesFail
<1>5. /\ core' \in PolicyCore /\ core'.nodes = core.nodes /\ core'.guards = core.guards
      /\ core'.unheard \/ (core'.rules = core.rules /\ core'.unheard = core.unheard)
      BY <1>4, TargetType DEF PolicyInv, PolicyTypes
<1>6. Withheld \in SUBSET Nodes BY WithheldType DEF PolicyInv
<1>7. CoveredBy(wish.plan) \ CoveredBy(st'.rules.plan) \subseteq Withheld BY <1>1 DEF Withheld
<1>8. /\ pass' \in PassRecord
      /\ TargetInv' /\ WithheldInv' /\ GuardsToDo' /\ GuardsListen' /\ FinalInv' /\ RestInv'
      BY <1>1, <1>2, <1>3, <1>5, <1>6, <1>7, ComparesNext
<1>9. pass'.at = "compare" BY <1>3 DEF PolicyInv, PolicyTypes, PassRecord
<1>10. RecordInv' /\ StateInv'
  <2>1. CASE core'.unheard
        BY <1>1, <1>9, <2>1 DEF PolicyInv, RecordInv, StateInv, Grouped, Behind, Heard, LiveGuardPorts
  <2>2. CASE ~core'.unheard
    <3>1. RecordInv' /\ (Heard' <=> Heard)
          BY <1>1, <1>5, <1>9, <2>2, RecordKept DEF PolicyInv, BeforePlan
    <3> QED BY <1>1, <3>1 DEF PolicyInv, StateInv, Grouped, Behind, LiveGuardPorts
  <2> QED BY <2>1, <2>2
<1>11. PolicyTypes' BY <1>1, <1>2, <1>5, <1>8 DEF PolicyInv, PolicyTypes
<1> QED BY <1>8, <1>10, <1>11 DEF PolicyInv

LEMMA ReplaceRulesHolds ==
  ASSUME PolicyInv, ReplaceRules
  PROVE  PolicyInv'
<1>1. UNCHANGED <<wish, check, st, disk>> /\ Changes /\ pass.at = "egress"
      BY DEF ReplaceRules, Changes
<1>2. mem' \in PolicyMemory /\ mem'.last = mem.last
      BY AnsweredType DEF ReplaceRules, PolicyInv
<1>3. pass' \in PassRecord /\ pass' = [pass EXCEPT !.at = "stale"] /\ pass'.at = "stale"
      /\ pass'.ports = pass.ports
      BY DEF ReplaceRules, PolicyInv, PolicyTypes, PassRecord, Stage
<1>4. core' = (IF Target = st.rules THEN core ELSE WithRules) /\ Target' = Target
      BY <1>1, <1>3 DEF ReplaceRules, Target
<1>5. /\ core' \in PolicyCore /\ core'.nodes = core.nodes /\ core'.guards = core.guards
      /\ \/ Target = st.rules /\ core' = core
         \/ core'.rules = Target /\ core'.unheard = ~st.same
      BY <1>4, TargetType DEF PolicyInv, PolicyTypes
<1>6. RecordInv' /\ StateInv'
  <2>1. ~st.same => core.unheard BY <1>1 DEF PolicyInv, RecordInv, BeforePlan
  <2>2. Heard => core.rules = st.rules BY DEF PolicyInv, RecordInv
  <2>3. RecordInv' BY <1>1, <1>3, <1>4, <1>5, <2>1, <2>2 DEF RecordInv, Heard
  <2>4. StateInv'
        BY <1>1, <1>3 DEF PolicyInv, StateInv, Grouped, Behind, Heard, LiveGuardPorts
  <2> QED BY <2>3, <2>4
<1>7. PolicyTypes' BY <1>1, <1>2, <1>3, <1>5 DEF PolicyInv, PolicyTypes
<1>8. TargetInv' BY <1>1, <1>3 DEF PolicyInv, TargetInv, LiveGuardPorts
<1>9. WithheldInv' /\ GuardsToDo' /\ GuardsListen' /\ FinalInv'
      BY <1>3 DEF WithheldInv, GuardsToDo, GuardsListen, FinalInv
<1>10. RestInv' BY <1>1, <1>2, <1>3, <1>5 DEF PolicyInv, RestInv
<1> QED BY <1>6, <1>7, <1>8, <1>9, <1>10 DEF PolicyInv

\* A record that is unheard says nothing of the rules the Core has.
LEMMA RoutingUnavailableHolds ==
  ASSUME PolicyInv, RoutingUnavailable
  PROVE  PolicyInv'
<1>1. UNCHANGED <<wish, check, disk>> /\ pass.at = "egress"
      BY DEF RoutingUnavailable
<1>6. mem' \in PolicyMemory /\ mem'.last = mem.last
      BY AnsweredType DEF RoutingUnavailable, PolicyInv
<1>7. pass'.at = "compare" BY DEF RoutingUnavailable, PolicyInv, PolicyTypes, PassRecord
<1>2. pass' = [pass EXCEPT !.at = "compare", !.withheld = Withheld] BY DEF RoutingUnavailable
<1>3. Withheld \in SUBSET Nodes BY WithheldType DEF PolicyInv
<1>4. CASE wish.plan # None
  <2>1. UNCHANGED <<st, core>> BY <1>4 DEF RoutingUnavailable
  <2>2. CoveredBy(wish.plan) \ CoveredBy(st'.rules.plan) \subseteq Withheld BY <2>1 DEF Withheld
  <2>3. /\ pass' \in PassRecord
        /\ TargetInv' /\ WithheldInv' /\ GuardsToDo' /\ GuardsListen' /\ FinalInv' /\ RestInv'
        BY <1>1, <1>2, <1>3, <1>6, <2>1, <2>2, ComparesNext
  <2>4. PolicyTypes' BY <1>1, <1>6, <2>1, <2>3 DEF PolicyInv, PolicyTypes
  <2>5. RecordInv' /\ StateInv' BY <1>1, <1>7, <2>1, StatesKept DEF BeforePlan
  <2> QED BY <2>3, <2>4, <2>5 DEF PolicyInv
<1>5. CASE wish.plan = None
  <2>1. /\ st' = [st EXCEPT !.rules = NoRules, !.stale = FALSE]
        /\ core' = [core EXCEPT !.unheard = @ \/ st.rules # NoRules]
        BY <1>5 DEF RoutingUnavailable
  <2>2. /\ st' \in PolicyState /\ st'.rules = NoRules /\ st'.stale = FALSE
        /\ st'.applied = st.applied /\ st'.groups = st.groups /\ st'.same = st.same
        BY <2>1, NewTypes DEF PolicyInv, PolicyTypes, PolicyState
  <2>3. /\ core' \in PolicyCore /\ core'.unheard = (core.unheard \/ st.rules # NoRules)
        /\ core'.rules = core.rules /\ core'.nodes = core.nodes /\ core'.guards = core.guards
        BY <2>1 DEF PolicyInv, PolicyTypes, PolicyCore
  <2>4. CoveredBy(wish.plan) \ CoveredBy(st'.rules.plan) \subseteq Withheld BY <1>5 DEF CoveredBy
  <2>5. /\ pass' \in PassRecord
        /\ TargetInv' /\ WithheldInv' /\ GuardsToDo' /\ GuardsListen' /\ FinalInv' /\ RestInv'
        BY <1>1, <1>2, <1>3, <1>6, <2>2, <2>3, <2>4, ComparesNext
  <2>6. RecordInv' /\ StateInv'
    <3>1. ~st.same => core.unheard BY <1>1 DEF PolicyInv, RecordInv, BeforePlan
    <3>2. Heard' => Heard /\ st.rules = NoRules BY <1>1, <2>2, <2>3 DEF Heard
    <3>3. RecordInv'
          BY <1>7, <2>2, <2>3, <3>1, <3>2 DEF PolicyInv, RecordInv
    <3>4. Grouped(st)' /\ Grouped(disk)'
          BY <1>1, <2>2 DEF PolicyInv, StateInv, Grouped, LiveGuardPorts
    <3>5. LiveGuardPorts(st)' = LiveGuardPorts(st) BY <2>2 DEF LiveGuardPorts
    <3>6. Behind(LiveGuardPorts(st))'
          BY <2>2, <3>2, <3>5 DEF PolicyInv, StateInv, Behind
    <3>7. (disk.same => st.same /\ disk.applied = st.applied)'
          BY <1>1, <2>2 DEF PolicyInv, StateInv
    <3> QED BY <3>3, <3>4, <3>6, <3>7 DEF StateInv
  <2>7. PolicyTypes' BY <1>1, <1>6, <2>2, <2>3, <2>5 DEF PolicyInv, PolicyTypes
  <2> QED BY <2>5, <2>6, <2>7 DEF PolicyInv
<1> QED BY <1>4, <1>5

LEMMA RemoveStaleHolds ==
  ASSUME PolicyInv, RemoveStale
  PROVE  PolicyInv'
<1>1. UNCHANGED <<wish, check, mem>> /\ pass.at = "stale" BY DEF RemoveStale
<1>2. core' \in {core, WithoutStale} BY DEF RemoveStale
<1>3. /\ core' \in PolicyCore /\ core'.nodes = core.nodes /\ core'.guards = core.guards
      /\ core'.rules = core.rules /\ core'.unheard = core.unheard
      BY <1>2, TargetType DEF PolicyInv, PolicyTypes
<1>4. PICK b \in BOOLEAN : st' = [st EXCEPT !.rules = Target, !.stale = b] BY DEF RemoveStale
<1>5. /\ st' \in PolicyState /\ st'.rules = Target
      /\ st'.applied = st.applied /\ st'.groups = st.groups /\ st'.same = st.same
      BY <1>4, TargetType DEF PolicyInv, PolicyTypes, PolicyState
<1>6. disk' \in {st', disk} BY DEF RemoveStale
<1>7. pass' = [pass EXCEPT !.at = "compare", !.withheld = pass.withheld]
      BY DEF RemoveStale, PolicyInv, PolicyTypes, PassRecord
<1>8. pass.withheld \in SUBSET Nodes BY DEF PolicyInv, PolicyTypes, PassRecord
<1>9. Target.plan = wish.plan /\ Target.ports = pass.ports BY TargetType DEF PolicyInv
<1>10. CoveredBy(wish.plan) \ CoveredBy(st'.rules.plan) \subseteq pass.withheld
       BY <1>5, <1>9
<1>11. /\ pass' \in PassRecord
       /\ TargetInv' /\ WithheldInv' /\ GuardsToDo' /\ GuardsListen' /\ FinalInv' /\ RestInv'
       BY <1>1, <1>3, <1>5, <1>7, <1>8, <1>10, ComparesNext
<1>12. RecordInv' /\ StateInv'
  <2>1. LiveGuardPorts(st) \subseteq pass.ports BY <1>1 DEF PolicyInv, TargetInv
  <2>2. LiveGuardPorts(st)' = LiveGuardPorts(st) BY <1>5 DEF LiveGuardPorts
  <2>3. Grouped(st)' /\ Behind(LiveGuardPorts(st))'
        BY <1>5, <1>9, <2>1, <2>2 DEF PolicyInv, StateInv, Grouped, Behind
  <2>4. (~st.same => core.unheard) /\ (~core.unheard => core.rules = Target)
        BY <1>1 DEF PolicyInv, RecordInv, BeforePlan
  <2>5. pass'.at = "compare" BY <1>7 DEF PolicyInv, PolicyTypes, PassRecord
  <2>6. RecordInv' BY <1>3, <1>5, <2>4, <2>5 DEF RecordInv, Heard
  <2>7. CASE disk' = st' BY <2>3, <2>6, <2>7 DEF StateInv, Grouped, LiveGuardPorts
  <2>8. CASE disk' = disk
        BY <1>5, <2>3, <2>6, <2>8 DEF PolicyInv, StateInv, Grouped, LiveGuardPorts
  <2> QED BY <1>6, <2>7, <2>8
<1>13. PolicyTypes' BY <1>1, <1>3, <1>5, <1>6, <1>11 DEF PolicyInv, PolicyTypes
<1> QED BY <1>11, <1>12, <1>13 DEF PolicyInv

-----------------------------------------------------------------------------
(* The guards of a pass. *)

LEMMA SteadyPassHolds ==
  ASSUME PolicyInv, SteadyPass
  PROVE  PolicyInv'
<1>1. UNCHANGED <<wish, check, core, st>> /\ disk' = st' /\ pass' = NoPass
      /\ pass.at = "compare" /\ mem.last = wish
      BY DEF SteadyPass, NothingDiffers, CheckInbounds, Recorded
<1>2. mem' \in PolicyMemory /\ mem'.last = wish
      BY DEF SteadyPass, Recorded, PolicyInv, PolicyTypes, PolicyMemory
<1>3. PolicyTypes' BY <1>1, <1>2, NewTypes DEF PolicyInv, PolicyTypes
<1>4. pass'.at = "idle" BY <1>1 DEF NoPass
<1>7. RecordInv' /\ (Heard' <=> Heard) BY <1>1, <1>4, RecordKept DEF PolicyInv, BeforePlan
<1>8. StateInv' BY <1>1, <1>7 DEF PolicyInv, StateInv, Grouped, Behind, LiveGuardPorts
<1>5. TargetInv' /\ WithheldInv' /\ GuardsToDo' /\ GuardsListen' /\ FinalInv'
      BY <1>1, IdleKept DEF NoPass
<1>6. RestInv' BY <1>1, <1>2 DEF PolicyInv, RestInv
<1> QED BY <1>3, <1>5, <1>6, <1>7, <1>8 DEF PolicyInv

\* A step among the inbounds: it leaves the rules and their record alone.
LEMMA StatesMove ==
  ASSUME PolicyInv, pass.at \in {"guards", "nodes", "drop"}, pass'.at # "stale",
         core'.rules = core.rules, core'.unheard = core.unheard,
         st'.rules = st.rules, st'.same = st.same,
         \A p \in LiveGuardPorts(st)' : st'.groups[p] # None,
         Behind(LiveGuardPorts(st)'),
         disk' = st' \/ (st'.applied = st.applied /\ disk' \in {disk, st})
  PROVE  RecordInv' /\ StateInv' /\ (Heard' <=> Heard)
<1>1. RecordInv' /\ (Heard' <=> Heard) BY RecordKept DEF PolicyInv, BeforePlan
<1>2. Grouped(st)' /\ Behind(LiveGuardPorts(st))' BY <1>1 DEF Grouped, Behind
<1>3. Grouped(disk)' /\ (disk.same => st.same /\ disk.applied = st.applied)'
  <2>1. CASE disk' = st' BY <1>2, <2>1 DEF Grouped, LiveGuardPorts
  <2>2. CASE disk' = disk /\ st'.applied = st.applied
        BY <2>2 DEF PolicyInv, StateInv, Grouped, LiveGuardPorts
  <2>3. CASE disk' = st /\ st'.applied = st.applied
        BY <2>3 DEF PolicyInv, StateInv, Grouped, LiveGuardPorts
  <2> QED BY <2>1, <2>2, <2>3
<1> QED BY <1>1, <1>2, <1>3 DEF StateInv

LEMMA ListInboundsHolds ==
  ASSUME PolicyInv, ListInbounds
  PROVE  PolicyInv'
<1>1. UNCHANGED <<wish, check, st, disk, mem, core>> /\ pass.at = "compare"
      BY DEF ListInbounds
<1> DEFINE todo == {p \in Need : st.groups[p] # None}
           nodes == {n \in Nodes : core.nodes[n] # Off}
           guards == {p \in Ports : core.guards[p] # None}
<1>2. pass' = [pass EXCEPT !.at = "guards", !.todo = todo, !.up = {},
                 !.present = [nodes |-> nodes, guards |-> guards]]
      BY DEF ListInbounds
<1>3. todo \subseteq LiveGuardPorts(st) \cup st.rules.ports /\ todo \subseteq Ports
      /\ \A p \in todo : st.groups[p] # None
      BY NeedType DEF PolicyInv
<1> HIDE DEF todo
<1>4. /\ pass' \in PassRecord /\ pass'.at = "guards" /\ pass'.todo = todo /\ pass'.up = {}
      /\ pass'.present.nodes = nodes /\ pass'.present.guards = guards /\ pass'.withheld = pass.withheld
      BY <1>2, <1>3 DEF PolicyInv, PolicyTypes, PassRecord, Stage
<1>5. PolicyTypes' BY <1>1, <1>4 DEF PolicyInv, PolicyTypes
<1>6. WithheldInv' BY <1>1, <1>4 DEF PolicyInv, WithheldInv, Withheld
<1>7. Behind(todo) BY <1>3 DEF PolicyInv, StateInv, Behind
<1>8. GuardsToDo' BY <1>1, <1>3, <1>4, <1>7 DEF GuardsToDo, Behind, Heard
<1>9. GuardsListen' BY <1>1, <1>4 DEF GuardsListen, Behind
<1>10. TargetInv' /\ FinalInv' /\ RestInv' BY <1>4 DEF TargetInv, FinalInv, RestInv
<1>11. RecordInv' /\ StateInv' BY <1>1, <1>4, StatesKept DEF BeforePlan
<1> QED BY <1>5, <1>6, <1>8, <1>9, <1>10, <1>11 DEF PolicyInv

\* The port whose turn it is.
LEMMA TurnType ==
  ASSUME PolicyInv, NEW p \in Ports, AtGuard(p)
  PROVE  pass.at = "guards" /\ p \in pass.todo /\ p \notin pass.up
<1>1. pass.todo \in SUBSET Nat /\ pass.todo # {} /\ p = Min(pass.todo) /\ pass.at = "guards"
      BY PortsAreNat DEF AtGuard, PolicyInv, PolicyTypes, PassRecord
<1>2. p \in pass.todo BY <1>1, LeastPort
<1> QED BY <1>1, <1>2 DEF PolicyInv, GuardsToDo

\* A guard's step leaves the nodes of the Core and of the state as they are,
\* and the guards of the ports of which it is not the turn.
LEMMA GuardMove ==
  ASSUME PolicyInv, NEW p \in Ports, AtGuard(p), UNCHANGED <<wish, check>>,
         mem' \in PolicyMemory, core' \in PolicyCore, st' \in PolicyState, pass' \in PassRecord,
         core'.nodes = core.nodes, core'.rules = core.rules, core'.unheard = core.unheard,
         \A q \in Ports \ {p} : core'.guards[q] = core.guards[q],
         st'.applied = st.applied, st'.rules = st.rules, st'.stale = st.stale, st'.same = st.same,
         \A q \in Ports : st'.groups[q] = st.groups[q] \/ (q = p /\ p \notin LiveGuardPorts(st)),
         disk' = st' \/ disk' = disk,
         pass'.at = "guards", pass'.withheld = pass.withheld,
         pass'.present.nodes = pass.present.nodes,
         \A q \in Ports \ {p} : q \in pass'.present.guards <=> q \in pass.present.guards,
         pass'.todo \subseteq pass.todo, pass'.up \subseteq pass.up \cup {p},
         pass'.todo \cap pass'.up = {},
         p \in pass'.up => st'.groups[p] # None /\ (st'.same => core'.guards[p] # None),
         p \in pass'.todo => /\ st'.groups = st.groups
                             /\ (st'.same => (p \in pass'.present.guards <=> core'.guards[p] # None))
  PROVE  PolicyInv'
<1>1. pass.at = "guards" /\ p \in pass.todo /\ p \notin pass.up BY TurnType
<1>2. PolicyTypes' BY DEF PolicyInv, PolicyTypes
<1>3. LiveGuardPorts(st)' = LiveGuardPorts(st) BY DEF LiveGuardPorts
<1>4. LiveGuardPorts(st) \subseteq Ports BY LiveType DEF PolicyInv, PolicyTypes
<1>5. RecordInv' /\ StateInv' /\ (Heard' <=> Heard)
  <2>1. \A q \in LiveGuardPorts(st)' : st'.groups[q] # None
        BY <1>3, <1>4 DEF PolicyInv, StateInv, Grouped
  <2>2. Behind(LiveGuardPorts(st)') BY <1>3 DEF PolicyInv, StateInv
  <2> QED BY <1>1, <2>1, <2>2, StatesMove
<1>6. WithheldInv' BY <1>1 DEF PolicyInv, WithheldInv, Withheld
<1>7. pass.todo \subseteq Ports /\ pass.up \subseteq Ports BY DEF PolicyInv, PolicyTypes, PassRecord
<1>8. GuardsToDo'
  <2>1. Behind(pass.todo) BY <1>1 DEF PolicyInv, GuardsToDo
  <2>2. Behind(pass.todo)' BY <1>5, <2>1 DEF Behind
  <2>3. \A q \in pass'.todo : st'.groups[q] # None
        BY <1>1, <1>7 DEF PolicyInv, GuardsToDo
  <2>4. st'.same => \A q \in pass'.todo : q \in pass'.present.guards <=> core'.guards[q] # None
        BY <1>1, <1>7 DEF PolicyInv, GuardsToDo
  <2> QED BY <2>2, <2>3, <2>4 DEF GuardsToDo
<1>9. GuardsListen'
  <2>1. Behind(pass.todo) /\ Behind(pass.up) BY <1>1 DEF PolicyInv, GuardsToDo, GuardsListen
  <2>2. Behind(pass.up)' BY <1>1, <1>5, <2>1 DEF Behind
  <2>3. \A q \in pass'.up : st'.groups[q] # None
        BY <1>1, <1>7 DEF PolicyInv, GuardsListen
  <2>4. st'.same => \A q \in pass'.up : core'.guards[q] # None
        BY <1>1, <1>7 DEF PolicyInv, GuardsListen
  <2>5. st'.same => pass'.present.nodes = {n \in Nodes : core'.nodes[n] # Off}
        BY <1>1 DEF PolicyInv, GuardsListen
  <2> QED BY <2>2, <2>3, <2>4, <2>5 DEF GuardsListen
<1>10. TargetInv' /\ FinalInv' /\ RestInv' BY DEF TargetInv, FinalInv, RestInv
<1> QED BY <1>2, <1>5, <1>6, <1>8, <1>9, <1>10 DEF PolicyInv

LEMMA GuardListensHolds ==
  ASSUME PolicyInv, NEW p \in Ports, GuardListens(p)
  PROVE  PolicyInv'
<1>1. AtGuard(p) /\ UNCHANGED <<wish, check, st, disk, mem, core>> BY DEF GuardListens
<1>2. pass.at = "guards" /\ p \in pass.todo /\ p \notin pass.up BY <1>1, TurnType
<1>3. pass' = [pass EXCEPT !.todo = pass.todo \ {p}, !.up = pass.up \cup {p}] BY DEF GuardListens
<1>4. pass \in PassRecord /\ core \in PolicyCore /\ st \in PolicyState /\ mem \in PolicyMemory
      BY DEF PolicyInv, PolicyTypes
<1>5. /\ pass' \in PassRecord /\ pass'.at = pass.at /\ pass'.withheld = pass.withheld
      /\ pass'.present = pass.present
      /\ pass'.todo = pass.todo \ {p} /\ pass'.up = pass.up \cup {p}
      BY <1>3, <1>4 DEF PassRecord
<1>6. /\ pass.todo \cap pass.up = {} /\ st.groups[p] # None
      /\ st.same => (p \in pass.present.guards <=> core.guards[p] # None)
      BY <1>2 DEF PolicyInv, GuardsToDo
<1>7. p \in pass.present.guards BY DEF GuardListens, Listens
<1> QED BY <1>1, <1>2, <1>4, <1>5, <1>6, <1>7, GuardMove

\* The Core with a guard less or a guard more.
LEMMA GuardCalls ==
  ASSUME PolicyTypes, NEW p \in Ports
  PROVE  /\ Without(p) \in PolicyCore /\ Without(p).guards[p] = None
         /\ With(p) \in PolicyCore /\ With(p).guards[p] = st.groups[p]
         /\ \A c \in {Without(p), With(p)} :
              /\ c.nodes = core.nodes /\ c.rules = core.rules /\ c.unheard = core.unheard
              /\ \A q \in Ports \ {p} : c.guards[q] = core.guards[q]
<1>1. core \in PolicyCore /\ st.groups[p] \in AddressOrNone BY DEF PolicyTypes, PolicyState
<1>2. None \in AddressOrNone BY DEF AddressOrNone
<1>3. Without(p) = [core EXCEPT !.guards[p] = None] BY DEF Without
<1>4. With(p) = [core EXCEPT !.guards[p] = st.groups[p]] BY DEF With
<1>5. /\ Without(p) \in PolicyCore /\ Without(p).guards[p] = None
      /\ Without(p).nodes = core.nodes /\ Without(p).rules = core.rules
      /\ Without(p).unheard = core.unheard
      /\ \A q \in Ports \ {p} : Without(p).guards[q] = core.guards[q]
      BY <1>1, <1>2, <1>3 DEF PolicyCore
<1>6. /\ With(p) \in PolicyCore /\ With(p).guards[p] = st.groups[p]
      /\ With(p).nodes = core.nodes /\ With(p).rules = core.rules
      /\ With(p).unheard = core.unheard
      /\ \A q \in Ports \ {p} : With(p).guards[q] = core.guards[q]
      BY <1>1, <1>4 DEF PolicyCore
<1> QED BY <1>5, <1>6

\* The state with the target of one guard changed.
LEMMA GuardNoted ==
  ASSUME PolicyTypes, NEW p \in Ports, NEW a \in AddressOrNone,
         st' = [st EXCEPT !.guards[p] = a]
  PROVE  /\ st' \in PolicyState
         /\ st'.applied = st.applied /\ st'.rules = st.rules /\ st'.stale = st.stale
         /\ st'.same = st.same /\ st'.groups = st.groups
BY DEF PolicyTypes, PolicyState

LEMMA RemoveOldGuardHolds ==
  ASSUME PolicyInv, NEW p \in Ports, RemoveOldGuard(p)
  PROVE  PolicyInv'
<1>1. AtGuard(p) /\ UNCHANGED <<wish, check, disk, mem>> /\ core' = Without(p)
      BY DEF RemoveOldGuard
<1>2. pass.at = "guards" /\ p \in pass.todo /\ p \notin pass.up BY <1>1, TurnType
<1>3. pass' = [pass EXCEPT !.present.guards = @ \ {p}] BY DEF RemoveOldGuard
<1>4. pass \in PassRecord /\ mem \in PolicyMemory BY DEF PolicyInv, PolicyTypes
<1>5. /\ pass' \in PassRecord /\ pass'.at = pass.at /\ pass'.withheld = pass.withheld
      /\ pass'.present.nodes = pass.present.nodes
      /\ pass'.present.guards = pass.present.guards \ {p}
      /\ pass'.todo = pass.todo /\ pass'.up = pass.up
      BY <1>3, <1>4 DEF PassRecord
<1>6. pass.todo \cap pass.up = {} BY <1>2 DEF PolicyInv, GuardsToDo
<1>7. /\ st' \in PolicyState /\ st'.applied = st.applied /\ st'.rules = st.rules
      /\ st'.stale = st.stale /\ st'.same = st.same /\ st'.groups = st.groups
      BY GuardNoted DEF RemoveOldGuard, PolicyInv, AddressOrNone
<1>8. /\ core' \in PolicyCore /\ core'.guards[p] = None
      /\ core'.nodes = core.nodes /\ core'.rules = core.rules /\ core'.unheard = core.unheard
      /\ \A q \in Ports \ {p} : core'.guards[q] = core.guards[q]
      BY <1>1, GuardCalls DEF PolicyInv
<1> QED BY <1>1, <1>2, <1>4, <1>5, <1>6, <1>7, <1>8, GuardMove

LEMMA AddGuardHolds ==
  ASSUME PolicyInv, NEW p \in Ports, AddGuard(p)
  PROVE  PolicyInv'
<1>1. AtGuard(p) /\ UNCHANGED <<wish, check, mem>> /\ core' = With(p) /\ disk' = st'
      BY DEF AddGuard
<1>2. pass.at = "guards" /\ p \in pass.todo /\ p \notin pass.up BY <1>1, TurnType
<1>3. pass' = [pass EXCEPT !.todo = @ \ {p}, !.up = @ \cup {p}, !.present.guards = @ \cup {p}]
      BY DEF AddGuard
<1>4. pass \in PassRecord /\ mem \in PolicyMemory BY DEF PolicyInv, PolicyTypes
<1>5. /\ pass' \in PassRecord /\ pass'.at = pass.at /\ pass'.withheld = pass.withheld
      /\ pass'.present.nodes = pass.present.nodes
      /\ pass'.present.guards = pass.present.guards \cup {p}
      /\ pass'.todo = pass.todo \ {p} /\ pass'.up = pass.up \cup {p}
      BY <1>3, <1>4 DEF PassRecord
<1>6. pass.todo \cap pass.up = {} /\ st.groups[p] # None BY <1>2 DEF PolicyInv, GuardsToDo
<1>7. /\ st' \in PolicyState /\ st'.applied = st.applied /\ st'.rules = st.rules
      /\ st'.stale = st.stale /\ st'.same = st.same /\ st'.groups = st.groups
  <2>1. st.groups[p] \in AddressOrNone BY DEF PolicyInv, PolicyTypes, PolicyState
  <2> QED BY <2>1, GuardNoted DEF AddGuard, PolicyInv
<1>8. /\ core' \in PolicyCore /\ core'.guards[p] = st.groups[p]
      /\ core'.nodes = core.nodes /\ core'.rules = core.rules /\ core'.unheard = core.unheard
      /\ \A q \in Ports \ {p} : core'.guards[q] = core.guards[q]
      BY <1>1, GuardCalls DEF PolicyInv
<1> QED BY <1>1, <1>2, <1>4, <1>5, <1>6, <1>7, <1>8, GuardMove

LEMMA GuardFailsHolds ==
  ASSUME PolicyInv, NEW p \in Ports, GuardFails(p)
  PROVE  PolicyInv'
<1>1. AtGuard(p) /\ UNCHANGED <<wish, check, disk>> BY DEF GuardFails
<1>2. pass.at = "guards" /\ p \in pass.todo /\ p \notin pass.up BY <1>1, TurnType
<1>3. pass' = [pass EXCEPT !.todo = @ \ {p}] BY DEF GuardFails
<1>4. pass \in PassRecord /\ mem \in PolicyMemory /\ core \in PolicyCore /\ st \in PolicyState
      BY DEF PolicyInv, PolicyTypes
<1>5. /\ pass' \in PassRecord /\ pass'.at = pass.at /\ pass'.withheld = pass.withheld
      /\ pass'.present = pass.present /\ pass'.todo = pass.todo \ {p} /\ pass'.up = pass.up
      BY <1>3, <1>4 DEF PassRecord
<1>6. pass.todo \cap pass.up = {} BY <1>2 DEF PolicyInv, GuardsToDo
<1>7. mem' \in PolicyMemory BY <1>4 DEF GuardFails, PolicyMemory
<1>8. /\ st' \in PolicyState /\ st'.applied = st.applied /\ st'.rules = st.rules
      /\ st'.stale = st.stale /\ st'.same = st.same
      /\ \A q \in Ports : st'.groups[q] = st.groups[q] \/ (q = p /\ p \notin LiveGuardPorts(st))
  <2>1. CASE p \in LiveGuardPorts(st) BY <1>4, <2>1 DEF GuardFails, GuardDropped
  <2>2. CASE p \notin LiveGuardPorts(st)
    <3>1. st' = [st EXCEPT !.groups[p] = None] BY <2>2 DEF GuardFails, GuardDropped
    <3> QED BY <1>4, <2>2, <3>1 DEF PolicyState, AddressOrNone
  <2> QED BY <2>1, <2>2
<1>9. /\ core' \in PolicyCore
      /\ core'.nodes = core.nodes /\ core'.rules = core.rules /\ core'.unheard = core.unheard
      /\ \A q \in Ports \ {p} : core'.guards[q] = core.guards[q]
  <2>1. core' \in {core, Without(p), With(p)} BY DEF GuardFails
  <2> QED BY <1>4, <2>1, GuardCalls DEF PolicyInv
<1> QED BY <1>1, <1>2, <1>5, <1>6, <1>7, <1>8, <1>9, GuardMove

-----------------------------------------------------------------------------
(* The nodes of a pass. *)

LEMMA GuardsDoneHolds ==
  ASSUME PolicyInv, GuardsDone
  PROVE  PolicyInv'
<1>1. UNCHANGED <<wish, check, st, mem, core>> /\ pass.at = "guards" BY DEF GuardsDone
<1>2. pass' = [pass EXCEPT !.at = "nodes", !.final = Final(pass.up)] BY DEF GuardsDone
<1>3. disk' \in {disk, st} BY DEF GuardsDone
<1>4. pass.up \in SUBSET Ports BY DEF PolicyInv, PolicyTypes, PassRecord
<1>5. /\ Final(pass.up) \in [Nodes -> Inbound]
      /\ \A n \in Nodes : /\ GuardPortOf(Final(pass.up)[n]) \in pass.up \cup {None}
                          /\ Final(pass.up)[n] # Off => n \notin pass.withheld
      BY <1>4, FinalType DEF PolicyInv
<1>6. /\ pass' \in PassRecord /\ pass'.at = "nodes" /\ pass'.final = Final(pass.up)
      /\ pass'.up = pass.up /\ pass'.withheld = pass.withheld /\ pass'.present = pass.present
      BY <1>2, <1>5 DEF PolicyInv, PolicyTypes, PassRecord, Stage
<1>7. PolicyTypes' BY <1>1, <1>3, <1>6 DEF PolicyInv, PolicyTypes
<1>8. RecordInv' /\ StateInv' /\ (Heard' <=> Heard)
  <2>1. LiveGuardPorts(st)' = LiveGuardPorts(st) BY <1>1 DEF LiveGuardPorts
  <2> QED BY <1>1, <1>3, <1>6, <2>1, StatesMove DEF PolicyInv, StateInv, Grouped
<1>9. WithheldInv' BY <1>1, <1>6 DEF PolicyInv, WithheldInv, Withheld
<1>10. GuardsListen' BY <1>1, <1>6, <1>8 DEF PolicyInv, GuardsListen, Behind
<1>11. FinalInv' BY <1>5, <1>6 DEF FinalInv
<1>12. TargetInv' /\ GuardsToDo' /\ RestInv' BY <1>6 DEF TargetInv, GuardsToDo, RestInv
<1> QED BY <1>7, <1>8, <1>9, <1>10, <1>11, <1>12 DEF PolicyInv

\* A node's step: one node changes, in the Core and in the state alike.
LEMMA NodeMove ==
  ASSUME PolicyInv, NEW n \in Nodes, NEW c \in Inbound, pass.at = "nodes",
         UNCHANGED <<wish, check, mem>>,
         core' = [core EXCEPT !.nodes[n] = c],
         st' = [st EXCEPT !.applied[n] = c], disk' = st',
         NEW nodes \in SUBSET Nodes, pass' = [pass EXCEPT !.present.nodes = nodes],
         nodes = IF c = Off THEN pass.present.nodes \ {n} ELSE pass.present.nodes \cup {n},
         GuardPortOf(c) \in pass.up \cup {None}
  PROVE  PolicyInv'
<1>1. core \in PolicyCore /\ st \in PolicyState /\ pass \in PassRecord BY DEF PolicyInv, PolicyTypes
<1>2. /\ core' \in PolicyCore /\ core'.nodes = [core.nodes EXCEPT ![n] = c]
      /\ core'.rules = core.rules /\ core'.unheard = core.unheard /\ core'.guards = core.guards
      BY <1>1 DEF PolicyCore
<1>3. /\ st' \in PolicyState /\ st'.applied = [st.applied EXCEPT ![n] = c]
      /\ st'.rules = st.rules /\ st'.stale = st.stale /\ st'.same = st.same
      /\ st'.groups = st.groups
      BY <1>1 DEF PolicyState
<1>4. /\ pass' \in PassRecord /\ pass'.at = "nodes" /\ pass'.up = pass.up
      /\ pass'.withheld = pass.withheld /\ pass'.final = pass.final
      /\ pass'.present.nodes = nodes
      BY <1>1 DEF PassRecord
<1>5. PolicyTypes' BY <1>2, <1>3, <1>4 DEF PolicyInv, PolicyTypes
<1>6. LiveGuardPorts(st)' \subseteq LiveGuardPorts(st) \cup pass.up
      BY <1>1, <1>3 DEF LiveGuardPorts, PolicyState
<1>7. RecordInv' /\ StateInv' /\ (Heard' <=> Heard)
  <2>1. \A p \in LiveGuardPorts(st)' : st'.groups[p] # None
        BY <1>3, <1>6 DEF PolicyInv, StateInv, Grouped, GuardsListen
  <2>2. Behind(LiveGuardPorts(st)')
        BY <1>6 DEF PolicyInv, StateInv, GuardsListen, Behind
  <2> QED BY <1>2, <1>3, <1>4, <2>1, <2>2, StatesMove
<1>8. WithheldInv' BY <1>3, <1>4 DEF PolicyInv, WithheldInv, Withheld
<1>9. GuardsListen'
  <2>1. Behind(pass.up)' BY <1>3, <1>4, <1>7 DEF PolicyInv, GuardsListen, Behind
  <2>2. \A m \in Nodes : core'.nodes[m] = IF m = n THEN c ELSE core.nodes[m]
        BY <1>1, <1>2 DEF PolicyCore
  <2>3. st.same => pass.present.nodes = {m \in Nodes : core.nodes[m] # Off}
        BY DEF PolicyInv, GuardsListen
  <2>4. (st.same => pass.present.nodes = {m \in Nodes : core.nodes[m] # Off})'
        BY <1>3, <1>4, <2>2, <2>3
  <2>5. (\A p \in pass.up : st.groups[p] # None)' /\ (st.same => \A p \in pass.up : core.guards[p] # None)'
        BY <1>2, <1>3, <1>4 DEF PolicyInv, GuardsListen
  <2> QED BY <2>1, <2>4, <2>5 DEF GuardsListen
<1>10. FinalInv' BY <1>4 DEF PolicyInv, FinalInv
<1>11. TargetInv' /\ GuardsToDo' /\ RestInv' BY <1>4 DEF TargetInv, GuardsToDo, RestInv
<1> QED BY <1>5, <1>7, <1>8, <1>9, <1>10, <1>11 DEF PolicyInv

LEMMA RemoveNodeHolds ==
  ASSUME PolicyInv, NEW n \in Nodes, RemoveNode(n)
  PROVE  PolicyInv'
<1>1. /\ pass.at = "nodes" /\ UNCHANGED <<wish, check, mem>>
      /\ core' = [core EXCEPT !.nodes[n] = Off]
      /\ st' = [st EXCEPT !.applied[n] = Off] /\ disk' = st'
      BY DEF RemoveNode
<1>2. pass' = [pass EXCEPT !.present.nodes = pass.present.nodes \ {n}] BY DEF RemoveNode
<1>3. pass.present.nodes \ {n} \in SUBSET Nodes BY DEF PolicyInv, PolicyTypes, PassRecord
<1>4. Off \in Inbound /\ GuardPortOf(Off) = None BY GuardPortType DEF Inbound
<1> QED BY <1>1, <1>2, <1>3, <1>4, NodeMove

LEMMA AddNodeHolds ==
  ASSUME PolicyInv, NEW n \in Nodes, AddNode(n)
  PROVE  PolicyInv'
<1>1. /\ pass.at = "nodes" /\ UNCHANGED <<wish, check, mem>>
      /\ core' = [core EXCEPT !.nodes[n] = pass.final[n]]
      /\ st' = [st EXCEPT !.applied[n] = pass.final[n]] /\ disk' = st'
      BY DEF AddNode
<1>2. pass' = [pass EXCEPT !.present.nodes = pass.present.nodes \cup {n}] BY DEF AddNode
<1>3. pass.present.nodes \cup {n} \in SUBSET Nodes /\ pass.final[n] \in Inbound
      BY DEF PolicyInv, PolicyTypes, PassRecord
<1>4. pass.final[n] # Off BY DEF AddNode, Adding
<1>5. GuardPortOf(pass.final[n]) \in pass.up \cup {None} BY <1>1 DEF PolicyInv, FinalInv
<1> QED BY <1>1, <1>2, <1>3, <1>4, <1>5, NodeMove

\* Every node has become what it was to become.
LEMMA NodesDoneHolds ==
  ASSUME PolicyInv, NodesDone
  PROVE  PolicyInv'
<1>1. UNCHANGED <<wish, check, st, disk, mem, core>> /\ pass.at = "nodes"
      /\ Changing = {} /\ Adding = {}
      BY DEF NodesDone
<1>2. pass' = [pass EXCEPT !.at = "drop", !.todo = pass.present.guards \ pass.up]
      BY DEF NodesDone
<1>3. /\ pass' \in PassRecord /\ pass'.at = "drop" /\ pass'.todo = pass.present.guards \ pass.up
      /\ pass'.up = pass.up /\ pass'.withheld = pass.withheld /\ pass'.present = pass.present
      /\ pass'.final = pass.final
      BY <1>2 DEF PolicyInv, PolicyTypes, PassRecord, Stage
<1>4. PolicyTypes' BY <1>1, <1>3 DEF PolicyInv, PolicyTypes
<1>5. WithheldInv' BY <1>1, <1>3 DEF PolicyInv, WithheldInv, Withheld
<1>9. RecordInv' /\ StateInv' BY <1>1, <1>3, StatesKept DEF BeforePlan
<1>6. GuardsListen' BY <1>1, <1>3 DEF PolicyInv, GuardsListen, Behind, Heard
<1>7. FinalInv'
  <2>1. \A n \in pass.present.nodes : pass.final[n] = st.applied[n] BY <1>1 DEF Changing
  <2>2. \A n \in Nodes \ pass.present.nodes : pass.final[n] = Off BY <1>1 DEF Adding
  <2>3. \A n \in Nodes : /\ GuardPortOf(pass.final[n]) \in pass.up \cup {None}
                         /\ pass.final[n] # Off => n \notin pass.withheld
        BY <1>1 DEF PolicyInv, FinalInv
  <2> QED BY <1>1, <1>3, <2>1, <2>2, <2>3 DEF FinalInv
<1>8. TargetInv' /\ GuardsToDo' /\ RestInv' BY <1>3 DEF TargetInv, GuardsToDo, RestInv
<1> QED BY <1>4, <1>5, <1>6, <1>7, <1>8, <1>9 DEF PolicyInv

-----------------------------------------------------------------------------
(* The end of a pass. *)

LEMMA DropGuardHolds ==
  ASSUME PolicyInv, NEW p \in Ports, DropGuard(p)
  PROVE  PolicyInv'
<1>1. /\ pass.at = "drop" /\ p \in pass.todo /\ UNCHANGED <<wish, check, disk, mem>>
      /\ core' = Without(p)
      BY DEF DropGuard
<1>2. pass' = [pass EXCEPT !.todo = @ \ {p}, !.present.guards = @ \ {p}] BY DEF DropGuard
<1>3. /\ pass' \in PassRecord /\ pass'.at = "drop" /\ pass'.todo = pass.todo \ {p}
      /\ pass'.up = pass.up /\ pass'.withheld = pass.withheld /\ pass'.final = pass.final
      /\ pass'.present.nodes = pass.present.nodes
      BY <1>1, <1>2 DEF PolicyInv, PolicyTypes, PassRecord
<1>4. /\ st' \in PolicyState /\ st'.applied = st.applied /\ st'.rules = st.rules
      /\ st'.stale = st.stale /\ st'.same = st.same /\ st'.groups = st.groups
      BY GuardNoted DEF DropGuard, PolicyInv, AddressOrNone
<1>5. /\ core' \in PolicyCore /\ core'.nodes = core.nodes
      /\ core'.rules = core.rules /\ core'.unheard = core.unheard
      /\ \A q \in Ports \ {p} : core'.guards[q] = core.guards[q]
      BY <1>1, GuardCalls DEF PolicyInv
<1>6. p \notin pass.up /\ pass.up \subseteq Ports
      BY <1>1 DEF PolicyInv, FinalInv, PolicyTypes, PassRecord
<1>7. PolicyTypes' BY <1>1, <1>3, <1>4, <1>5 DEF PolicyInv, PolicyTypes
<1>8. RecordInv' /\ StateInv' /\ (Heard' <=> Heard)
  <2>1. LiveGuardPorts(st)' = LiveGuardPorts(st) BY <1>4 DEF LiveGuardPorts
  <2> QED BY <1>1, <1>3, <1>4, <1>5, <2>1, StatesMove DEF PolicyInv, StateInv, Grouped
<1>9. WithheldInv' BY <1>1, <1>3, <1>4 DEF PolicyInv, WithheldInv, Withheld
<1>10. GuardsListen'
       BY <1>1, <1>3, <1>4, <1>5, <1>6, <1>8 DEF PolicyInv, GuardsListen, Behind
<1>11. FinalInv' BY <1>1, <1>3, <1>4 DEF PolicyInv, FinalInv
<1>12. TargetInv' /\ GuardsToDo' /\ RestInv' BY <1>3 DEF TargetInv, GuardsToDo, RestInv
<1> QED BY <1>7, <1>8, <1>9, <1>10, <1>11, <1>12 DEF PolicyInv

LEMMA DropFailsHolds ==
  ASSUME PolicyInv, NEW p \in Ports, DropFails(p)
  PROVE  PolicyInv'
<1>1. pass.at = "drop" /\ p \in pass.todo /\ UNCHANGED <<wish, check, st, disk, mem>>
      BY DEF DropFails
<1>2. pass' = [pass EXCEPT !.todo = @ \ {p}] BY DEF DropFails
<1>3. /\ pass' \in PassRecord /\ pass'.at = "drop" /\ pass'.todo = pass.todo \ {p}
      /\ pass'.up = pass.up /\ pass'.withheld = pass.withheld /\ pass'.final = pass.final
      /\ pass'.present = pass.present
      BY <1>1, <1>2 DEF PolicyInv, PolicyTypes, PassRecord
<1>4. /\ core' \in PolicyCore /\ core'.nodes = core.nodes
      /\ core'.rules = core.rules /\ core'.unheard = core.unheard
      /\ \A q \in Ports \ {p} : core'.guards[q] = core.guards[q]
  <2>1. core' \in {core, Without(p)} BY DEF DropFails
  <2> QED BY <2>1, GuardCalls DEF PolicyInv, PolicyTypes
<1>5. p \notin pass.up /\ pass.up \subseteq Ports
      BY <1>1 DEF PolicyInv, FinalInv, PolicyTypes, PassRecord
<1>6. PolicyTypes' BY <1>1, <1>3, <1>4 DEF PolicyInv, PolicyTypes
<1>7. RecordInv' /\ StateInv' /\ (Heard' <=> Heard)
  <2>1. LiveGuardPorts(st)' = LiveGuardPorts(st) BY <1>1 DEF LiveGuardPorts
  <2> QED BY <1>1, <1>3, <1>4, <2>1, StatesMove DEF PolicyInv, StateInv, Grouped
<1>8. WithheldInv' BY <1>1, <1>3 DEF PolicyInv, WithheldInv, Withheld
<1>9. GuardsListen' BY <1>1, <1>3, <1>4, <1>5, <1>7 DEF PolicyInv, GuardsListen, Behind
<1>10. FinalInv' BY <1>1, <1>3 DEF PolicyInv, FinalInv
<1>11. TargetInv' /\ GuardsToDo' /\ RestInv' BY <1>3 DEF TargetInv, GuardsToDo, RestInv
<1> QED BY <1>6, <1>7, <1>8, <1>9, <1>10, <1>11 DEF PolicyInv

LEMMA EndPassHolds ==
  ASSUME PolicyInv, EndPass
  PROVE  PolicyInv'
<1>1. pass.at = "drop" /\ UNCHANGED <<wish, check, core>> /\ disk' = st' /\ pass' = NoPass
      BY DEF EndPass, Recorded
<1> DEFINE guards == [p \in Ports |-> IF p \in pass.up \cup pass.present.guards THEN st.guards[p] ELSE None]
<1>2. st' = [st EXCEPT !.guards = guards] BY DEF EndPass
<1>3. guards \in [Ports -> AddressOrNone] BY DEF PolicyInv, PolicyTypes, PolicyState, AddressOrNone
<1> HIDE DEF guards
<1>4. /\ st' \in PolicyState /\ st'.applied = st.applied /\ st'.rules = st.rules
      /\ st'.stale = st.stale /\ st'.same = st.same /\ st'.groups = st.groups
      BY <1>2, <1>3 DEF PolicyInv, PolicyTypes, PolicyState
<1>5. mem' \in PolicyMemory
      BY DEF EndPass, Recorded, PolicyInv, PolicyTypes, PolicyMemory
<1>6. PolicyTypes' BY <1>1, <1>4, <1>5, NewTypes DEF PolicyInv, PolicyTypes
<1>7. RecordInv' /\ StateInv'
  <2>1. LiveGuardPorts(st)' = LiveGuardPorts(st) BY <1>4 DEF LiveGuardPorts
  <2>2. pass'.at = "idle" BY <1>1 DEF NoPass
  <2> QED BY <1>1, <1>4, <2>1, <2>2, StatesMove DEF PolicyInv, StateInv, Grouped
<1>8. TargetInv' /\ WithheldInv' /\ GuardsToDo' /\ GuardsListen' /\ FinalInv'
      BY <1>1, IdleKept DEF NoPass
<1>9. RestInv'
  <2> SUFFICES ASSUME st.same, NEW n \in Nodes,
                      core.nodes[n] = st.applied[n], GuardPortOf(core.nodes[n]) # None
               PROVE  core.guards[GuardPortOf(core.nodes[n])] # None
      BY <1>1, <1>4 DEF RestInv
  <2>1. core.nodes[n] # Off BY GuardPortType
  <2>2. n \in pass.present.nodes BY <1>1, <2>1 DEF PolicyInv, GuardsListen
  <2>3. pass.final[n] = core.nodes[n] BY <1>1, <2>2 DEF PolicyInv, FinalInv
  <2>4. GuardPortOf(core.nodes[n]) \in pass.up BY <1>1, <2>3 DEF PolicyInv, FinalInv
  <2> QED BY <1>1, <2>4 DEF PolicyInv, GuardsListen
<1> QED BY <1>6, <1>7, <1>8, <1>9 DEF PolicyInv

-----------------------------------------------------------------------------
(* What goes wrong. *)

\* A call that was carried out, or not: only the one that replaces the rules
\* touches those.
LEMMA LandedFacts ==
  ASSUME PolicyInv, NEW c \in Landed
  PROVE  /\ c \in PolicyCore
         /\ c.unheard \/ (c.rules = core.rules /\ c.unheard = core.unheard)
<1>1. PolicyTypes /\ core \in PolicyCore BY DEF PolicyInv, PolicyTypes
<1>2. CASE pass.at = "egress" /\ Changes
  <2>1. c \in {core, WithOutbounds, UnheardRules} BY <1>2 DEF Landed
  <2> QED BY <1>1, <1>2, <2>1, TargetType
<1>3. CASE pass.at = "stale"
  <2>1. c \in {core, WithoutStale} BY <1>3 DEF Landed
  <2> QED BY <1>1, <2>1, TargetType
<1>4. CASE pass.at = "guards" /\ pass.todo # {}
  <2> DEFINE p == Min(pass.todo)
  <2>1. p \in Ports
    <3>1. pass.todo \in SUBSET Nat /\ pass.todo \subseteq Ports
          BY PortsAreNat DEF PolicyInv, PolicyTypes, PassRecord
    <3> QED BY <1>4, <3>1, LeastPort
  <2>2. c \in {core, Without(p), With(p)} BY <1>4 DEF Landed
  <2> HIDE DEF p
  <2> QED BY <1>1, <2>1, <2>2, GuardCalls
<1>5. ASSUME NEW n \in Nodes, NEW i \in Inbound, NEW d, d = [core EXCEPT !.nodes[n] = i]
      PROVE  d \in PolicyCore /\ d.rules = core.rules /\ d.unheard = core.unheard
      BY <1>1, <1>5 DEF PolicyCore
<1>6. CASE pass.at = "nodes" /\ Changing # {}
  <2>1. c = core \/ \E n \in Changing : c = [core EXCEPT !.nodes[n] = Off] BY <1>6 DEF Landed
  <2>2. Changing \subseteq Nodes /\ Off \in Inbound
        BY DEF Changing, PolicyInv, PolicyTypes, PassRecord, Inbound
  <2> QED BY <1>1, <1>5, <2>1, <2>2
<1>7. CASE pass.at = "nodes" /\ Changing = {}
  <2>1. c = core \/ \E n \in Adding : c = [core EXCEPT !.nodes[n] = pass.final[n]]
        BY <1>7 DEF Landed
  <2>2. \A n \in Adding : n \in Nodes /\ pass.final[n] \in Inbound
        BY DEF Adding, PolicyInv, PolicyTypes, PassRecord
  <2> QED BY <1>1, <1>5, <2>1, <2>2
<1>8. CASE pass.at = "drop"
  <2>1. c = core \/ \E p \in pass.todo : c = Without(p) BY <1>8 DEF Landed
  <2>2. pass.todo \subseteq Ports BY DEF PolicyInv, PolicyTypes, PassRecord
  <2> QED BY <1>1, <2>1, <2>2, GuardCalls
<1>9. CASE ~(pass.at = "egress" /\ Changes) /\ pass.at # "stale"
           /\ ~(pass.at = "guards" /\ pass.todo # {}) /\ pass.at # "nodes" /\ pass.at # "drop"
  <2>1. c = core BY <1>9 DEF Landed
  <2> QED BY <1>1, <2>1
<1> QED BY <1>2, <1>3, <1>4, <1>6, <1>7, <1>8, <1>9

\* What the Helper forgets of a call it heard of counts as unheard.
LEMMA ForgottenFacts ==
  ASSUME PolicyInv, NEW lost \in BOOLEAN, NEW c \in Forgotten(lost)
  PROVE  /\ c \in PolicyCore
         /\ ~c.unheard => ~lost /\ c.rules = core.rules /\ ~core.unheard
<1>1. PICK b \in Landed : c = [b EXCEPT !.unheard = @ \/ lost] BY DEF Forgotten
<1>2. /\ b \in PolicyCore
      /\ b.unheard \/ (b.rules = core.rules /\ b.unheard = core.unheard)
      BY LandedFacts
<1> QED BY <1>1, <1>2 DEF PolicyCore

LEMMA FailPassHolds ==
  ASSUME PolicyInv, FailPass
  PROVE  PolicyInv'
<1>1. UNCHANGED <<wish, check>> /\ pass' = NoPass BY DEF FailPass
<1>2. mem' \in PolicyMemory /\ mem'.last = None
      BY DEF FailPass, PolicyInv, PolicyTypes, PolicyMemory
<1>3. TargetInv' /\ WithheldInv' /\ GuardsToDo' /\ GuardsListen' /\ FinalInv'
      BY <1>1, IdleKept DEF NoPass
<1>4. RestInv' BY <1>2 DEF RestInv
<1>7. pass'.at = "idle" BY <1>1 DEF NoPass
<1>5. CASE core' = NewCore /\ st' = OfAnotherCore(st) /\ disk' = st'
  <2>1. st' \in PolicyState /\ disk' \in PolicyState /\ StateInv' BY <1>5, NewCoreStates
  <2>2. PolicyTypes' BY <1>1, <1>2, <1>5, <2>1, NewTypes DEF PolicyInv, PolicyTypes
  <2>3. ~st'.same BY <1>5, OfAnotherCoreType DEF PolicyInv, PolicyTypes
  <2>4. RecordInv' BY <1>5, <1>7, <2>3, NewCoreRecord DEF BeforePlan
  <2> QED BY <1>3, <1>4, <2>1, <2>2, <2>4 DEF PolicyInv
<1>6. CASE core' \in Forgotten(pass.at = "stale") /\ st' = st /\ disk' \in {st, disk}
  <2>1. /\ core' \in PolicyCore
        /\ ~core'.unheard => pass.at # "stale" /\ core'.rules = core.rules /\ ~core.unheard
        BY <1>6, ForgottenFacts
  <2>2. Heard' => Heard /\ core'.rules = core.rules BY <1>6, <2>1 DEF Heard
  <2>3. RecordInv' BY <1>2, <1>6, <1>7, <2>2 DEF PolicyInv, RecordInv, BeforePlan
  <2>4. StateInv' BY <1>6, <2>2 DEF PolicyInv, StateInv, Grouped, Behind, LiveGuardPorts
  <2>5. PolicyTypes' BY <1>1, <1>2, <1>6, <2>1, NewTypes DEF PolicyInv, PolicyTypes
  <2> QED BY <1>3, <1>4, <2>3, <2>4, <2>5 DEF PolicyInv
<1> QED BY <1>5, <1>6 DEF FailPass

LEMMA HelperDiesHolds ==
  ASSUME PolicyInv, HelperDies
  PROVE  PolicyInv'
<1>1. UNCHANGED <<wish, check, disk>> /\ st' = disk /\ mem' = NewMemory /\ pass' = NoPass
      /\ core' \in Forgotten(pass.at = "stale" \/ disk.rules # st.rules)
      BY DEF HelperDies
<1>2. /\ core' \in PolicyCore
      /\ ~core'.unheard => /\ pass.at # "stale" /\ disk.rules = st.rules
                           /\ core'.rules = core.rules /\ ~core.unheard
      BY <1>1, ForgottenFacts
<1>3. disk.same => st.same /\ disk.applied = st.applied BY DEF PolicyInv, StateInv
<1>4. Heard' => Heard /\ core'.rules = core.rules /\ st'.rules = st.rules /\ st'.applied = st.applied
      BY <1>1, <1>2, <1>3 DEF Heard
<1>5. pass'.at = "idle" /\ mem'.last = None BY <1>1 DEF NoPass, NewMemory
<1>6. RecordInv' BY <1>4, <1>5 DEF PolicyInv, RecordInv, BeforePlan
<1>7. StateInv' BY <1>1, <1>4 DEF PolicyInv, StateInv, Grouped, Behind, LiveGuardPorts
<1>8. PolicyTypes' BY <1>1, <1>2, NewTypes DEF PolicyInv, PolicyTypes
<1>9. TargetInv' /\ WithheldInv' /\ GuardsToDo' /\ GuardsListen' /\ FinalInv'
      BY <1>5, IdleKept
<1>10. RestInv' BY <1>5 DEF RestInv
<1> QED BY <1>6, <1>7, <1>8, <1>9, <1>10 DEF PolicyInv

LEMMA StutterHolds ==
  ASSUME PolicyInv, UNCHANGED policyVars
  PROVE  PolicyInv'
BY DEF policyVars, PolicyInv, PolicyTypes, RecordInv, Target, StateInv, Grouped, Behind, Heard,
       LiveGuardPorts, TargetInv, WithheldInv, Withheld, GuardsToDo, GuardsListen, FinalInv, RestInv

LEMMA PolicyStepHolds ==
  ASSUME PolicyInv, [PolicyNext]_policyVars
  PROVE  PolicyInv'
<1>1. CASE Ask \/ CheckSite \/ RetryDue \/ SaveRestart \/ RoutingUnknown \/ RestartForRouting
           \/ PlanPass
      BY <1>1, AskHolds, CheckSiteHolds, RetryDueHolds, SaveRestartHolds, RoutingUnknownHolds,
         RestartForRoutingHolds, PlanPassHolds
<1>2. CASE EgressUnchanged \/ RoutingUnavailable \/ ReplaceRules \/ RenderFails \/ RulesFail
           \/ RemoveStale
      BY <1>2, EgressUnchangedHolds, RoutingUnavailableHolds, ReplaceRulesHolds, RenderFailsHolds,
         RulesFailHolds, RemoveStaleHolds
<1>3. CASE SteadyPass \/ ListInbounds
      BY <1>3, SteadyPassHolds, ListInboundsHolds
<1>4. CASE \E p \in Ports : GuardListens(p) \/ RemoveOldGuard(p) \/ AddGuard(p) \/ GuardFails(p)
      BY <1>4, GuardListensHolds, RemoveOldGuardHolds, AddGuardHolds, GuardFailsHolds
<1>5. CASE GuardsDone \/ (\E n \in Nodes : RemoveNode(n) \/ AddNode(n)) \/ NodesDone
      BY <1>5, GuardsDoneHolds, RemoveNodeHolds, AddNodeHolds, NodesDoneHolds
<1>6. CASE (\E p \in Ports : DropGuard(p) \/ DropFails(p)) \/ EndPass
      BY <1>6, DropGuardHolds, DropFailsHolds, EndPassHolds
<1>7. CASE FailPass \/ HelperDies \/ CoreRestarts
      BY <1>7, FailPassHolds, HelperDiesHolds, CoreRestartsHolds
<1>8. CASE UNCHANGED policyVars BY <1>8, StutterHolds
<1> QED BY <1>1, <1>2, <1>3, <1>4, <1>5, <1>6, <1>7, <1>8 DEF PolicyNext

\* The inductive invariant of FlvxPolicy: the records in memory and on disk,
\* the plan, the guards and the nodes of a pass, through restarts of the Core,
\* deaths of the Helper and calls that fail or land unseen.
THEOREM PolicyHolds == PolicySpec => []PolicyInv
<1>1. PolicyInit => PolicyInv BY InitHolds
<1>2. PolicyInv /\ [PolicyNext]_policyVars => PolicyInv' BY PolicyStepHolds
<1> QED BY <1>1, <1>2, PTL DEF PolicySpec

\* Every guarded node that the Core has as recorded has its guard, and the
\* guard its rules, after every pass that succeeded (guardFinal, removeGuards).
THEOREM GuardsOfNodesListen == PolicySpec => []NodesHaveTheirGuard
<1>1. PolicyInv => NodesHaveTheirGuard
  <2> SUFFICES ASSUME PolicyInv, pass.at = "idle", mem.last # None, ~core.unheard, NEW n \in Nodes,
                      core.nodes[n] = st.applied[n], GuardPortOf(core.nodes[n]) # None
               PROVE  /\ core.guards[GuardPortOf(core.nodes[n])] # None
                      /\ GuardPortOf(core.nodes[n]) \in core.rules.ports
      BY DEF NodesHaveTheirGuard
  <2>1. st.same
    <3>1. ~st.same => core.nodes[n] = Off BY DEF PolicyInv, RecordInv
    <3> QED BY <3>1, GuardPortType
  <2>2. Heard /\ core.rules = st.rules BY <2>1 DEF PolicyInv, RecordInv, Heard
  <2>3. core.guards[GuardPortOf(core.nodes[n])] # None BY <2>1 DEF PolicyInv, RestInv
  <2>4. GuardPortOf(core.nodes[n]) \in LiveGuardPorts(st) BY DEF LiveGuardPorts
  <2>5. LiveGuardPorts(st) \subseteq st.rules.ports BY <2>2 DEF PolicyInv, StateInv, Behind
  <2> QED BY <2>2, <2>3, <2>4, <2>5
<1> QED BY <1>1, PolicyHolds, PTL

\* An inbound that appears is one of a pass's wanted nodes, added by it or by
\* its call that landed although the pass failed or the Helper died.
LEMMA NodeAppears ==
  ASSUME PolicyInv, [PolicyNext]_policyVars, NEW n \in Nodes,
         core.nodes[n] = Off, core'.nodes[n] # Off
  PROVE  pass.at = "nodes" /\ core'.nodes[n] = pass.final[n]
<1>1. PolicyTypes /\ core \in PolicyCore BY DEF PolicyInv, PolicyTypes
<1>2. NewCore.nodes[n] = Off BY DEF NewCore
<1>3. \A p \in Ports : Without(p).nodes = core.nodes /\ With(p).nodes = core.nodes
      BY <1>1, GuardCalls
<1>4. /\ WithOutbounds.nodes = core.nodes /\ WithRules.nodes = core.nodes
      /\ WithoutStale.nodes = core.nodes /\ UnheardRules.nodes = core.nodes
      BY <1>1, TargetType
<1>5. core' # core /\ core' # NewCore /\ core'.nodes # core.nodes BY <1>2
<1>6. ASSUME NEW m \in Nodes, core' = [core EXCEPT !.nodes[m] = Off]
      PROVE  FALSE
      BY <1>1, <1>6 DEF PolicyCore
<1>7. ASSUME NEW m \in Nodes, core' = [core EXCEPT !.nodes[m] = pass.final[m]]
      PROVE  core'.nodes[n] = pass.final[n]
      BY <1>1, <1>7 DEF PolicyCore
<1>8. CASE Ask \/ CheckSite \/ RetryDue \/ SaveRestart \/ RoutingUnknown \/ RestartForRouting
           \/ EgressUnchanged \/ RenderFails
      BY <1>5, <1>8 DEF Ask, CheckSite, RetryDue, SaveRestart, RoutingUnknown, RestartForRouting,
         EgressUnchanged, RenderFails
<1>19. CASE PlanPass
       BY <1>1, <1>5, <1>19 DEF PlanPass, InNewEpoch, PolicyCore
<1>9. CASE ReplaceRules \/ RulesFail \/ RemoveStale
      BY <1>4, <1>5, <1>9 DEF ReplaceRules, RulesFail, RemoveStale
<1>10. CASE RoutingUnavailable
  <2>1. [core EXCEPT !.unheard = @ \/ st.rules # NoRules].nodes = core.nodes BY <1>1 DEF PolicyCore
  <2> QED BY <1>5, <1>10, <2>1 DEF RoutingUnavailable
<1>11. CASE SteadyPass \/ ListInbounds \/ GuardsDone \/ NodesDone \/ EndPass
       BY <1>5, <1>11 DEF SteadyPass, ListInbounds, GuardsDone, NodesDone, EndPass
<1>12. CASE \E p \in Ports : GuardListens(p) \/ RemoveOldGuard(p) \/ AddGuard(p) \/ GuardFails(p)
       BY <1>3, <1>5, <1>12 DEF GuardListens, RemoveOldGuard, AddGuard, GuardFails
<1>13. CASE \E m \in Nodes : RemoveNode(m) BY <1>6, <1>13 DEF RemoveNode
<1>14. CASE \E m \in Nodes : AddNode(m) BY <1>7, <1>14 DEF AddNode
<1>15. CASE \E p \in Ports : DropGuard(p) \/ DropFails(p)
       BY <1>3, <1>5, <1>15 DEF DropGuard, DropFails
<1>16. ASSUME NEW lost \in BOOLEAN, core' \in Forgotten(lost)
       PROVE  pass.at = "nodes" /\ core'.nodes[n] = pass.final[n]
  <2> PICK c \in Landed : core' = [c EXCEPT !.unheard = @ \/ lost] BY <1>16 DEF Forgotten
  <2>4. c \in PolicyCore BY LandedFacts
  <2>5. core'.nodes = c.nodes BY <2>4 DEF PolicyCore
  <2>1. CASE pass.at = "nodes" /\ Changing # {}
    <3>1. c = core \/ \E m \in Changing : c = [core EXCEPT !.nodes[m] = Off]
          BY <2>1 DEF Landed
    <3>2. Changing \subseteq Nodes BY DEF Changing, PolicyInv, PolicyTypes, PassRecord
    <3> QED BY <1>1, <1>5, <2>5, <3>1, <3>2 DEF PolicyCore
  <2>2. CASE pass.at = "nodes" /\ Changing = {}
    <3>1. c = core \/ \E m \in Adding : c = [core EXCEPT !.nodes[m] = pass.final[m]]
          BY <2>2 DEF Landed
    <3>2. Adding \subseteq Nodes BY DEF Adding
    <3> QED BY <1>1, <1>5, <2>2, <2>5, <3>1, <3>2 DEF PolicyCore
  <2>3. CASE pass.at # "nodes"
    <3>1. CASE pass.at = "egress" /\ Changes
      <4>1. c \in {core, WithOutbounds, UnheardRules} BY <3>1 DEF Landed
      <4> QED BY <1>4, <1>5, <2>5, <4>1
    <3>2. CASE pass.at = "stale"
      <4>1. c \in {core, WithoutStale} BY <3>2 DEF Landed
      <4> QED BY <1>4, <1>5, <2>5, <4>1
    <3>3. CASE pass.at = "guards" /\ pass.todo # {}
      <4> DEFINE p == Min(pass.todo)
      <4>1. p \in Ports
        <5>1. pass.todo \in SUBSET Nat /\ pass.todo \subseteq Ports
              BY PortsAreNat DEF PolicyInv, PolicyTypes, PassRecord
        <5> QED BY <3>3, <5>1, LeastPort
      <4>2. c \in {core, Without(p), With(p)} BY <3>3 DEF Landed
      <4> HIDE DEF p
      <4> QED BY <1>3, <1>5, <2>5, <4>1, <4>2
    <3>4. CASE pass.at = "drop"
      <4>1. c = core \/ \E p \in pass.todo : c = Without(p) BY <3>4 DEF Landed
      <4>2. pass.todo \subseteq Ports BY DEF PolicyInv, PolicyTypes, PassRecord
      <4> QED BY <1>3, <1>5, <2>5, <4>1, <4>2
    <3>5. CASE ~(pass.at = "egress" /\ Changes) /\ pass.at # "stale"
               /\ ~(pass.at = "guards" /\ pass.todo # {}) /\ pass.at # "drop"
      <4>1. c = core BY <2>3, <3>5 DEF Landed
      <4> QED BY <1>5, <2>5, <4>1
    <3> QED BY <3>1, <3>2, <3>3, <3>4, <3>5
  <2> QED BY <2>1, <2>2, <2>3
<1>17. CASE FailPass \/ HelperDies
       BY <1>5, <1>16, <1>17 DEF FailPass, HelperDies
<1>20. CASE CoreRestarts
  <2>1. core'.nodes = NewCore.nodes BY <1>20 DEF CoreRestarts, NewCore
  <2> QED BY <1>2, <2>1
<1>18. CASE UNCHANGED policyVars BY <1>5, <1>18 DEF policyVars
<1> QED BY <1>8, <1>9, <1>10, <1>11, <1>12, <1>13, <1>14, <1>15, <1>17, <1>18,
           <1>19, <1>20 DEF PolicyNext

\* An inbound is added only behind the rules it needs (flvx_runtime.go,
\* "Outbounds and rules first"), whatever fails or restarts between two steps,
\* unless the Helper could not hear which rules the Core has: the answer of an
\* adrules was lost, the Helper died before it had saved an answer or erased
\* its record, or the Core restarted within the pass. That the record is right
\* otherwise is proved, not assumed (RecordInv).
THEOREM NodesComeBehindRules == PolicySpec => AddsBehindRules
<1>1. ASSUME PolicyInv, [PolicyNext]_policyVars, NEW n \in Nodes,
             core.nodes[n] = Off, core'.nodes[n] # Off, ~core.unheard
      PROVE  /\ n \in CoveredBy(wish.plan) => n \in CoveredBy(core.rules.plan)
             /\ GuardPortOf(core'.nodes[n]) # None =>
                  /\ GuardPortOf(core'.nodes[n]) \in core.rules.ports
                  /\ core.guards[GuardPortOf(core'.nodes[n])] # None
  <2>1. pass.at = "nodes" /\ core'.nodes[n] = pass.final[n] BY <1>1, NodeAppears
  <2>2. Heard /\ st.same /\ core.rules = st.rules
        BY <1>1, <2>1 DEF PolicyInv, RecordInv, Heard, BeforePlan
  <2>3. GuardPortOf(core'.nodes[n]) \in pass.up \cup {None} /\ n \notin pass.withheld
        BY <1>1, <2>1 DEF PolicyInv, FinalInv
  <2>4. n \in CoveredBy(wish.plan) => n \in CoveredBy(core.rules.plan)
        BY <1>1, <2>1, <2>2, <2>3 DEF PolicyInv, WithheldInv, Withheld
  <2>5. pass.up \subseteq st.rules.ports /\ \A p \in pass.up : core.guards[p] # None
        BY <1>1, <2>1, <2>2 DEF PolicyInv, GuardsListen, Behind
  <2> QED BY <2>2, <2>3, <2>4, <2>5
<1>2. PolicyInv /\ [PolicyNext]_policyVars =>
        [\A n \in Nodes :
           core.nodes[n] = Off /\ core'.nodes[n] # Off /\ ~core.unheard =>
             /\ (n \in CoveredBy(wish.plan) => n \in CoveredBy(core.rules.plan))
             /\ GuardPortOf(core'.nodes[n]) # None =>
                  /\ GuardPortOf(core'.nodes[n]) \in core.rules.ports
                  /\ core.guards[GuardPortOf(core'.nodes[n])] # None]_policyVars
      BY <1>1
<1> QED BY <1>2, PolicyHolds, PTL DEF PolicySpec, AddsBehindRules

-----------------------------------------------------------------------------
(* CoreHandoff: types *)

Step == {"idle", "reassert", "check", "setExternal", "writeExternal", "restartExternal",
         "bootstrap", "waitExternal", "controlConfig", "confirmConfig", "request", "files",
         "writeEmbedded", "restartEmbedded", "waitEmbedded", "resume", "resumeMode",
         "resumeServices"}
ExternalSteps == {"reassert", "check", "setExternal", "writeExternal", "restartExternal",
                  "bootstrap", "waitExternal", "controlConfig", "confirmConfig"}
EmbeddedSteps == {"files", "writeEmbedded", "restartEmbedded", "waitEmbedded", "resume",
                  "resumeMode", "resumeServices"}
\* Where the file of the Agent, its process and xray.service may not fit together.
Between == {"writeEmbedded", "resume", "resumeMode"}

Intent == [desired: Mode, pending: BOOLEAN, seen: Mode, backoff: BOOLEAN,
           drift: {"no", "since", "over"}, waiting: BOOLEAN]
Queued == Mode \cup {Nothing}
\* A snapshot knows the mode the Agent's file had.
Ownership == {o \in [enabled: BOOLEAN, backup: {Nothing, "dropin", "clean"},
                     cfg: Mode \cup {Nothing}] : o.backup # Nothing => o.cfg \in Mode}
Job == [mode: Mode \cup {Nothing}, at: Step, recorded: Mode \cup {Nothing}, prev: Ownership,
        prevCfg: Mode \cup {Nothing}]

\* The controller's side has its types, and so has the machine.
ControllerTypes ==
    /\ formal \in Mode /\ session \in BOOLEAN
    /\ intent \in Intent /\ queued \in Queued
    /\ saved \in [intent: Intent, queued: Queued]

MachineTypes ==
    /\ agent \in [cfg: Mode, run: Mode \cup {"down"}]
    /\ xray \in BOOLEAN /\ dropIn \in BOOLEAN
    /\ own \in Ownership /\ ownSaved \in Ownership
    /\ job \in Job
    /\ mishap \in BOOLEAN /\ died \in BOOLEAN /\ torn \in BOOLEAN

-----------------------------------------------------------------------------
(* The inductive invariant.  Its last parts hold as long as the Helper did   *)
(* not die inside a handoff and no failed write tore its files.              *)

\* A command under way belongs to a mode; what is written back was read before.
JobInv ==
    /\ job.at \in ExternalSteps => job.mode = "external" /\ job.recorded \in Mode
    /\ job.at \in EmbeddedSteps => job.prevCfg \in Mode
    /\ At("files") => job.prev = own /\ job.prevCfg = agent.cfg

\* The Agent runs as its file says, except where it was just written.
AgentInv ==
    /\ job.at \in Between \cup {"restartExternal", "restartEmbedded", "resumeServices"}
       \/ agent.run \in {"down", agent.cfg}
    /\ job.at \in {"restartExternal", "bootstrap", "waitExternal", "controlConfig"}
       => agent.cfg = "external"
    /\ job.at \in {"restartEmbedded", "waitEmbedded"} => agent.cfg = "embedded"
    /\ At("resumeServices") => agent.cfg = ResumedMode

\* xray.service runs only where the Agent neither is nor becomes the Core; where its file
\* is being put back, xray.service is what is resumed.
CoreInv ==
    /\ xray => agent.cfg = "external" \/ job.at \in Between
    /\ xray => job.at \notin {"setExternal", "writeExternal", "restartExternal"}
    /\ job.at \in Between /\ xray => ResumedMode = "external"

\* An ownership that is enabled has its drop-in.
DropInInv ==
    /\ own.enabled => dropIn \/ At("resume")
    /\ At("idle") => own = ownSaved

\* Without a mishap there is a running Core, or one that the next steps will start.
ServiceInv ==
    /\ job.at \in {"idle", "reassert", "check", "confirmConfig"} => Serving
    /\ job.at \in {"setExternal", "writeExternal"} => own.enabled /\ agent.run # "down"
    /\ job.at \in {"waitExternal", "controlConfig"} => xray
    /\ At("request") => Serving \/ (IsRollback /\ agent.cfg = "external" /\ own.enabled)
    /\ job.at \in {"waitEmbedded", "resume"} => EmbeddedRuns

HandoffInv ==
    /\ MachineTypes /\ JobInv
    /\ Whole => AgentInv /\ CoreInv /\ DropInInv
    /\ Whole /\ ~mishap => ServiceInv

\* Without a command the Helper is idle.
LEMMA NoJobType == NoJob \in Job /\ NoJob.at = "idle" /\ NoOwnership \in Ownership
BY DEF NoJob, Job, Step, NoOwnership, Ownership, Nothing

USE NoJobType DEF At, Goto, HandoffInv, MachineTypes, JobInv, ExternalSteps, EmbeddedSteps,
        Between, Job, Step, Mode, Nothing, Whole, ResumedMode

\* A snapshot is one of the two kinds, and leaves the rest of the ownership as it is.
LEMMA SnapshotType ==
    ASSUME own \in Ownership, agent.cfg \in Mode
    PROVE  /\ Snapshot \in Ownership /\ Snapshot.enabled = own.enabled
           /\ [Snapshot EXCEPT !.enabled = TRUE] \in Ownership
BY DEF Snapshot, Ownership

\* The session is tried with the mode read before.
LEMMA ReassertStep ==
    ASSUME HandoffInv, ControllerTypes, Reassert, UNCHANGED <<died, torn>>
    PROVE  HandoffInv'
<1>1. MachineTypes'
  <2>1. agent' \in [cfg: Mode, run: Mode \cup {"down"}]
        BY DEF Reassert, Finish, NoOwnership, machineVars
  <2>2. xray' \in BOOLEAN /\ dropIn' \in BOOLEAN
        BY DEF Reassert, Finish, NoOwnership, machineVars
  <2>3. own' \in Ownership /\ ownSaved' \in Ownership
        BY DEF Reassert, Finish, NoOwnership, machineVars, Ownership
  <2>4. job' \in Job
        BY DEF Reassert, Finish, NoOwnership, machineVars, Ownership
  <2>5. mishap' \in BOOLEAN /\ died' \in BOOLEAN /\ torn' \in BOOLEAN
        BY DEF Reassert, Finish, NoOwnership, machineVars
  <2> QED BY <2>1, <2>2, <2>3, <2>4, <2>5
<1>2. JobInv'
      BY DEF Reassert, Finish, NoOwnership, machineVars
<1>3. Whole => AgentInv'
      BY DEF Reassert, Finish, NoOwnership, machineVars, AgentInv
<1>4. Whole => CoreInv'
      BY DEF Reassert, Finish, NoOwnership, machineVars, AgentInv, CoreInv, DropInInv,
             TwoCores, EmbeddedRuns, Ownership
<1>5. Whole => DropInInv'
      BY DEF Reassert, Finish, NoOwnership, machineVars, DropInInv, Ownership
<1>6. Whole /\ ~mishap' => ServiceInv'
      BY DEF Reassert, Finish, NoOwnership, machineVars, AgentInv, CoreInv, DropInInv,
             ServiceInv, Serving, EmbeddedRuns, IsRollback, Ownership
<1> QED BY <1>1, <1>2, <1>3, <1>4, <1>5, <1>6 DEF HandoffInv

\* An External Core that is in order is only confirmed.
LEMMA CheckDoneStep ==
    ASSUME HandoffInv, ControllerTypes, CheckDone, UNCHANGED <<died, torn>>
    PROVE  HandoffInv'
<1>1. MachineTypes'
      BY DEF CheckDone, AlreadyExternal, Owned, EmbeddedRuns, machineVars, Ownership,
             NoOwnership
<1>2. JobInv'
      BY DEF CheckDone, AlreadyExternal, Owned, EmbeddedRuns, machineVars
<1>3. Whole => AgentInv'
      BY DEF CheckDone, AlreadyExternal, Owned, EmbeddedRuns, machineVars, AgentInv
<1>4. Whole => CoreInv'
      BY DEF CheckDone, AlreadyExternal, Owned, EmbeddedRuns, machineVars, AgentInv, CoreInv,
             DropInInv, TwoCores, Ownership
<1>5. Whole => DropInInv'
      BY DEF CheckDone, AlreadyExternal, Owned, EmbeddedRuns, machineVars, DropInInv,
             Ownership, NoOwnership
<1>6. Whole /\ ~mishap' => ServiceInv'
      BY DEF CheckDone, AlreadyExternal, Owned, EmbeddedRuns, machineVars, AgentInv, CoreInv,
             DropInInv, ServiceInv, Serving, IsRollback, Ownership
<1> QED BY <1>1, <1>2, <1>3, <1>4, <1>5, <1>6 DEF HandoffInv

\* As long as nobody died an ownership is complete, and nothing is restored.
LEMMA OwnershipIsComplete ==
    ASSUME HandoffInv, Incomplete, job.at \in {"idle", "check"}
    PROVE  ~Whole
BY DEF Incomplete, DropInInv

\* The completion of an ownership before it is armed anew.
LEMMA CheckOwnershipStep ==
    ASSUME HandoffInv, ControllerTypes, CheckOwnership, UNCHANGED <<died, torn>>
    PROVE  HandoffInv'
<1>1. ~Whole' BY OwnershipIsComplete DEF CheckOwnership
<1>2. xray' \in BOOLEAN /\ dropIn' \in BOOLEAN /\ mishap' \in BOOLEAN
      BY DEF CheckOwnership, Completed, CompletionFails
<1>3. job' \in {job, NoJob} /\ ownSaved' \in {ownSaved, own} /\ UNCHANGED <<agent, own>>
      BY DEF CheckOwnership, Finish
<1>4. MachineTypes' BY <1>2, <1>3
<1>5. JobInv' BY <1>3 DEF CheckOwnership
<1> QED BY <1>1, <1>4, <1>5 DEF HandoffInv

\* A failed check touches nothing.
LEMMA CheckFailsStep ==
    ASSUME HandoffInv, ControllerTypes, CheckFails, UNCHANGED <<died, torn>>
    PROVE  HandoffInv'
<1>1. MachineTypes'
      BY DEF CheckFails, Finish, NoOwnership, NoMachine, machineVars, Arming,
             AlreadyExternal, Owned, EmbeddedRuns, Ownership
<1>2. JobInv'
      BY DEF CheckFails, Finish, NoOwnership, NoMachine, machineVars, Arming,
             AlreadyExternal, Owned, EmbeddedRuns
<1>3. Whole => AgentInv'
      BY DEF CheckFails, Finish, NoOwnership, NoMachine, machineVars, Arming,
             AlreadyExternal, Owned, EmbeddedRuns, AgentInv
<1>4. Whole => CoreInv'
      BY DEF CheckFails, Finish, NoOwnership, NoMachine, machineVars, Arming,
             AlreadyExternal, Owned, EmbeddedRuns, AgentInv, CoreInv, DropInInv, TwoCores,
             Ownership
<1>5. Whole => DropInInv'
      BY DEF CheckFails, Finish, NoOwnership, NoMachine, machineVars, Arming,
             AlreadyExternal, Owned, EmbeddedRuns, DropInInv, Ownership
<1>6. Whole /\ ~mishap' => ServiceInv'
      BY DEF CheckFails, Finish, NoOwnership, NoMachine, machineVars, Arming,
             AlreadyExternal, Owned, EmbeddedRuns, AgentInv, CoreInv, DropInInv, ServiceInv,
             Serving, IsRollback, Ownership
<1> QED BY <1>1, <1>2, <1>3, <1>4, <1>5, <1>6 DEF HandoffInv

\* Arming stops xray.service and keeps the way back.
LEMMA ArmStep ==
    ASSUME HandoffInv, ControllerTypes, Arm, UNCHANGED <<died, torn>>
    PROVE  HandoffInv'
<1>1. MachineTypes'
  <2>1. own' \in Ownership BY SnapshotType DEF Arm
  <2>2. job' \in Job BY DEF Arm
  <2> QED BY <2>1, <2>2 DEF Arm
<1>2. JobInv'
      BY DEF Arm, Arming
<1>3. Whole => AgentInv'
      BY DEF Arm, Arming, AgentInv
<1>4. Whole => CoreInv'
      BY DEF Arm, Arming, AgentInv, CoreInv, DropInInv, TwoCores, EmbeddedRuns, Ownership
<1>5. Whole => DropInInv'
      BY DEF Arm, Arming, DropInInv, Ownership, NoOwnership
<1>6. Whole /\ ~mishap' => ServiceInv'
      BY DEF Arm, Arming, AgentInv, CoreInv, DropInInv, ServiceInv, Serving, EmbeddedRuns,
             IsRollback, Ownership
<1> QED BY <1>1, <1>2, <1>3, <1>4, <1>5, <1>6 DEF HandoffInv

\* A failure while arming is a mishap; the rollback follows.
LEMMA ArmFailsStep ==
    ASSUME HandoffInv, ControllerTypes, ArmFails, UNCHANGED <<died, torn>>
    PROVE  HandoffInv'
<1>1. MachineTypes'
  <2>1. own' \in Ownership BY SnapshotType DEF ArmFails
  <2>2. job' \in Job BY DEF ArmFails
  <2>3. xray' \in BOOLEAN /\ dropIn' \in BOOLEAN BY DEF ArmFails
  <2> QED BY <2>1, <2>2, <2>3 DEF ArmFails
<1>2. JobInv'
      BY DEF ArmFails, Arming
<1>3. Whole => AgentInv'
      BY DEF ArmFails, Arming, AgentInv
<1>4. Whole => CoreInv'
      BY DEF ArmFails, Arming, AgentInv, CoreInv, DropInInv, TwoCores, EmbeddedRuns,
             Ownership
<1>5. Whole => DropInInv'
  <2>1. own'.enabled = own.enabled /\ job'.at = "request" BY SnapshotType DEF ArmFails
  <2>2. dropIn => dropIn' BY DEF ArmFails
  <2>3. Whole => (own.enabled => dropIn) BY DEF ArmFails, Arming, DropInInv
  <2> QED BY <2>1, <2>2, <2>3 DEF DropInInv
<1>6. Whole /\ ~mishap' => ServiceInv'
      BY DEF ArmFails, Arming, AgentInv, CoreInv, DropInInv, ServiceInv, Serving,
             EmbeddedRuns, IsRollback, Ownership
<1> QED BY <1>1, <1>2, <1>3, <1>4, <1>5, <1>6 DEF HandoffInv

\* A refused mode leads to the rollback, with the Core still to be resumed.
LEMMA SetExternalStep ==
    ASSUME HandoffInv, ControllerTypes, SetExternal, UNCHANGED <<died, torn>>
    PROVE  HandoffInv'
<1>1. MachineTypes'
      BY DEF SetExternal, machineVars, Ownership, NoOwnership
<1>2. JobInv'
      BY DEF SetExternal, machineVars
<1>3. Whole => AgentInv'
      BY DEF SetExternal, machineVars, AgentInv
<1>4. Whole => CoreInv'
      BY DEF SetExternal, machineVars, AgentInv, CoreInv, DropInInv, TwoCores, EmbeddedRuns,
             Ownership
<1>5. Whole => DropInInv'
      BY DEF SetExternal, machineVars, DropInInv, Ownership, NoOwnership
<1>6. Whole /\ ~mishap' => ServiceInv'
      BY DEF SetExternal, machineVars, AgentInv, CoreInv, DropInInv, ServiceInv, Serving,
             EmbeddedRuns, IsRollback, Ownership
<1> QED BY <1>1, <1>2, <1>3, <1>4, <1>5, <1>6 DEF HandoffInv

\* The file of the Agent is written before its restart.
LEMMA WriteExternalStep ==
    ASSUME HandoffInv, ControllerTypes, WriteExternal, UNCHANGED <<died, torn>>
    PROVE  HandoffInv'
<1>1. MachineTypes'
      BY DEF WriteExternal, AgentIn, Ownership, NoOwnership
<1>2. JobInv'
      BY DEF WriteExternal, AgentIn
<1>3. Whole => AgentInv'
      BY DEF WriteExternal, AgentIn, AgentInv
<1>4. Whole => CoreInv'
      BY DEF WriteExternal, AgentIn, AgentInv, CoreInv, DropInInv, TwoCores, EmbeddedRuns,
             Ownership
<1>5. Whole => DropInInv'
      BY DEF WriteExternal, AgentIn, DropInInv, Ownership, NoOwnership
<1>6. Whole /\ ~mishap' => ServiceInv'
      BY DEF WriteExternal, AgentIn, AgentInv, CoreInv, DropInInv, ServiceInv, Serving,
             EmbeddedRuns, IsRollback, Ownership
<1> QED BY <1>1, <1>2, <1>3, <1>4, <1>5, <1>6 DEF HandoffInv

\* The Agent ends its embedded Core before xray.service starts.
LEMMA RestartExternalStep ==
    ASSUME HandoffInv, ControllerTypes, RestartExternal, UNCHANGED <<died, torn>>
    PROVE  HandoffInv'
<1>1. MachineTypes'
  <2>1. agent' \in [cfg: Mode, run: Mode \cup {"down"}]
        BY DEF RestartExternal, Restarted, RestartFails
  <2>2. xray' \in BOOLEAN /\ dropIn' \in BOOLEAN
        BY DEF RestartExternal, Restarted, RestartFails
  <2>3. own' \in Ownership /\ ownSaved' \in Ownership
        BY DEF RestartExternal, Restarted, RestartFails, Ownership, NoOwnership
  <2>4. job' \in Job
        BY DEF RestartExternal, Restarted, RestartFails, Ownership, NoOwnership
  <2>5. mishap' \in BOOLEAN /\ died' \in BOOLEAN /\ torn' \in BOOLEAN
        BY DEF RestartExternal, Restarted, RestartFails
  <2> QED BY <2>1, <2>2, <2>3, <2>4, <2>5
<1>2. JobInv'
      BY DEF RestartExternal, Restarted, RestartFails
<1>3. Whole => AgentInv'
      BY DEF RestartExternal, Restarted, RestartFails, AgentInv
<1>4. Whole => CoreInv'
      BY DEF RestartExternal, Restarted, RestartFails, AgentInv, CoreInv, DropInInv,
             TwoCores, EmbeddedRuns, Ownership
<1>5. Whole => DropInInv'
      BY DEF RestartExternal, Restarted, RestartFails, DropInInv, Ownership, NoOwnership
<1>6. Whole /\ ~mishap' => ServiceInv'
      BY DEF RestartExternal, Restarted, RestartFails, AgentInv, CoreInv, DropInInv,
             ServiceInv, Serving, EmbeddedRuns, IsRollback, Ownership
<1> QED BY <1>1, <1>2, <1>3, <1>4, <1>5, <1>6 DEF HandoffInv

\* xray.service starts beside an Agent in external mode.
LEMMA BootstrapStep ==
    ASSUME HandoffInv, ControllerTypes, Bootstrap, UNCHANGED <<died, torn>>
    PROVE  HandoffInv'
<1>1. MachineTypes'
  <2>1. agent' \in [cfg: Mode, run: Mode \cup {"down"}]
        BY DEF Bootstrap, Started, StartFails
  <2>2. xray' \in BOOLEAN /\ dropIn' \in BOOLEAN
        BY DEF Bootstrap, Started, StartFails
  <2>3. own' \in Ownership /\ ownSaved' \in Ownership
        BY DEF Bootstrap, Started, StartFails, Ownership, NoOwnership
  <2>4. job' \in Job
        BY DEF Bootstrap, Started, StartFails, Ownership, NoOwnership
  <2>5. mishap' \in BOOLEAN /\ died' \in BOOLEAN /\ torn' \in BOOLEAN
        BY DEF Bootstrap, Started, StartFails
  <2> QED BY <2>1, <2>2, <2>3, <2>4, <2>5
<1>2. JobInv'
      BY DEF Bootstrap, Started, StartFails
<1>3. Whole => AgentInv'
      BY DEF Bootstrap, Started, StartFails, AgentInv
<1>4. Whole => CoreInv'
      BY DEF Bootstrap, Started, StartFails, AgentInv, CoreInv, DropInInv, TwoCores,
             EmbeddedRuns, Ownership
<1>5. Whole => DropInInv'
      BY DEF Bootstrap, Started, StartFails, DropInInv, Ownership, NoOwnership
<1>6. Whole /\ ~mishap' => ServiceInv'
      BY DEF Bootstrap, Started, StartFails, AgentInv, CoreInv, DropInInv, ServiceInv,
             Serving, EmbeddedRuns, IsRollback, Ownership
<1> QED BY <1>1, <1>2, <1>3, <1>4, <1>5, <1>6 DEF HandoffInv

\* A failed health check rolls back what runs.
LEMMA WaitExternalStep ==
    ASSUME HandoffInv, ControllerTypes, WaitExternal, UNCHANGED <<died, torn>>
    PROVE  HandoffInv'
<1>1. MachineTypes'
      BY DEF WaitExternal, NoMachine, machineVars, Ownership, NoOwnership
<1>2. JobInv'
      BY DEF WaitExternal, NoMachine, machineVars
<1>3. Whole => AgentInv'
      BY DEF WaitExternal, NoMachine, machineVars, AgentInv
<1>4. Whole => CoreInv'
      BY DEF WaitExternal, NoMachine, machineVars, AgentInv, CoreInv, DropInInv, TwoCores,
             EmbeddedRuns, Ownership
<1>5. Whole => DropInInv'
      BY DEF WaitExternal, NoMachine, machineVars, DropInInv, Ownership, NoOwnership
<1>6. Whole /\ ~mishap' => ServiceInv'
      BY DEF WaitExternal, NoMachine, machineVars, AgentInv, CoreInv, DropInInv, ServiceInv,
             Serving, EmbeddedRuns, IsRollback, Ownership
<1> QED BY <1>1, <1>2, <1>3, <1>4, <1>5, <1>6 DEF HandoffInv

\* A Core that was External before keeps running when its configuration fails.
LEMMA ControlConfigStep ==
    ASSUME HandoffInv, ControllerTypes, ControlConfig, UNCHANGED <<died, torn>>
    PROVE  HandoffInv'
<1>1. MachineTypes'
  <2>1. agent' \in [cfg: Mode, run: Mode \cup {"down"}]
        BY DEF ControlConfig, Finish, NoOwnership, NoMachine, machineVars
  <2>2. xray' \in BOOLEAN /\ dropIn' \in BOOLEAN
        BY DEF ControlConfig, Finish, NoOwnership, NoMachine, machineVars
  <2>3. own' \in Ownership /\ ownSaved' \in Ownership
        BY DEF ControlConfig, Finish, NoOwnership, NoMachine, machineVars, Ownership
  <2>4. job' \in Job
        BY DEF ControlConfig, Finish, NoOwnership, NoMachine, machineVars, Ownership
  <2>5. mishap' \in BOOLEAN /\ died' \in BOOLEAN /\ torn' \in BOOLEAN
        BY DEF ControlConfig, Finish, NoOwnership, NoMachine, machineVars
  <2> QED BY <2>1, <2>2, <2>3, <2>4, <2>5
<1>2. JobInv'
      BY DEF ControlConfig, Finish, NoOwnership, NoMachine, machineVars
<1>3. Whole => AgentInv'
      BY DEF ControlConfig, Finish, NoOwnership, NoMachine, machineVars, AgentInv
<1>4. Whole => CoreInv'
      BY DEF ControlConfig, Finish, NoOwnership, NoMachine, machineVars, AgentInv, CoreInv,
             DropInInv, TwoCores, EmbeddedRuns, Ownership
<1>5. Whole => DropInInv'
      BY DEF ControlConfig, Finish, NoOwnership, NoMachine, machineVars, DropInInv,
             Ownership
<1>6. Whole /\ ~mishap' => ServiceInv'
      BY DEF ControlConfig, Finish, NoOwnership, NoMachine, machineVars, AgentInv, CoreInv,
             DropInInv, ServiceInv, Serving, EmbeddedRuns, IsRollback, Ownership
<1> QED BY <1>1, <1>2, <1>3, <1>4, <1>5, <1>6 DEF HandoffInv

\* The embedded Core is only looked at.
LEMMA CheckEmbeddedStep ==
    ASSUME HandoffInv, ControllerTypes, CheckEmbedded, UNCHANGED <<died, torn>>
    PROVE  HandoffInv'
<1>1. MachineTypes'
  <2>1. agent' \in [cfg: Mode, run: Mode \cup {"down"}]
        BY DEF CheckEmbedded, EmbeddedRuns, Finish, NoOwnership, NoMachine, machineVars,
               AlreadyEmbedded, IsRollback
  <2>2. xray' \in BOOLEAN /\ dropIn' \in BOOLEAN
        BY DEF CheckEmbedded, EmbeddedRuns, Finish, NoOwnership, NoMachine, machineVars,
               AlreadyEmbedded, IsRollback
  <2>3. own' \in Ownership /\ ownSaved' \in Ownership
        BY DEF CheckEmbedded, EmbeddedRuns, Finish, NoOwnership, NoMachine, machineVars,
               AlreadyEmbedded, IsRollback, Ownership
  <2>4. job' \in Job
        BY DEF CheckEmbedded, EmbeddedRuns, Finish, NoOwnership, NoMachine, machineVars,
               AlreadyEmbedded, IsRollback, Ownership
  <2>5. mishap' \in BOOLEAN /\ died' \in BOOLEAN /\ torn' \in BOOLEAN
        BY DEF CheckEmbedded, EmbeddedRuns, Finish, NoOwnership, NoMachine, machineVars,
               AlreadyEmbedded, IsRollback
  <2> QED BY <2>1, <2>2, <2>3, <2>4, <2>5
<1>2. JobInv'
      BY DEF CheckEmbedded, EmbeddedRuns, Finish, NoOwnership, NoMachine, machineVars,
             AlreadyEmbedded, IsRollback
<1>3. Whole => AgentInv'
      BY DEF CheckEmbedded, EmbeddedRuns, Finish, NoOwnership, NoMachine, machineVars,
             AlreadyEmbedded, IsRollback, AgentInv
<1>4. Whole => CoreInv'
      BY DEF CheckEmbedded, EmbeddedRuns, Finish, NoOwnership, NoMachine, machineVars,
             AlreadyEmbedded, IsRollback, AgentInv, CoreInv, DropInInv, TwoCores, Ownership
<1>5. Whole => DropInInv'
      BY DEF CheckEmbedded, EmbeddedRuns, Finish, NoOwnership, NoMachine, machineVars,
             AlreadyEmbedded, IsRollback, DropInInv, Ownership
<1>6. Whole /\ ~mishap' => ServiceInv'
      BY DEF CheckEmbedded, EmbeddedRuns, Finish, NoOwnership, NoMachine, machineVars,
             AlreadyEmbedded, IsRollback, AgentInv, CoreInv, DropInInv, ServiceInv, Serving,
             Ownership
<1> QED BY <1>1, <1>2, <1>3, <1>4, <1>5, <1>6 DEF HandoffInv

\* Nothing is touched before the controller agrees; a refused rollback resumes.
LEMMA RequestEmbeddedStep ==
    ASSUME HandoffInv, ControllerTypes, RequestEmbedded, UNCHANGED <<died, torn>>
    PROVE  HandoffInv'
<1>1. CASE /\ job' = [job EXCEPT !.at = "files", !.prev = own, !.prevCfg = agent.cfg]
           /\ UNCHANGED <<machineVars, own, ownSaved, result, mishap>>
  <2>1. MachineTypes' BY <1>1 DEF machineVars
  <2>2. JobInv' BY <1>1 DEF machineVars
  <2>3. Whole => AgentInv' /\ CoreInv' /\ DropInInv'
        BY <1>1 DEF RequestEmbedded, machineVars, AgentInv, CoreInv, DropInInv
  <2>4. Whole /\ ~mishap' => ServiceInv' BY <1>1 DEF ServiceInv
  <2> QED BY <2>1, <2>2, <2>3, <2>4
<1>2. CASE Finish("failed") /\ Resumed /\ UNCHANGED <<agent, dropIn, own>>
  <2>1. /\ job' = NoJob /\ ownSaved' = own /\ UNCHANGED <<agent, dropIn, own>>
        BY <1>2 DEF Finish
  <2>2. \/ IsRollback /\ agent.cfg = "external" /\ own.enabled
           /\ ((xray' = TRUE /\ UNCHANGED mishap) \/ (mishap' = TRUE /\ UNCHANGED xray))
        \/ ~(IsRollback /\ agent.cfg = "external" /\ own.enabled) /\ UNCHANGED <<xray, mishap>>
        BY <1>2 DEF Resumed, Started
  <2>3. MachineTypes'
    <3>1. xray' \in BOOLEAN /\ mishap' \in BOOLEAN BY <2>2
    <3> QED BY <2>1, <3>1
  <2>4. JobInv' BY <2>1
  <2>5. Whole => AgentInv' BY <2>1 DEF RequestEmbedded, AgentInv
  <2>6. Whole => CoreInv' BY <2>1, <2>2 DEF RequestEmbedded, CoreInv
  <2>7. Whole => DropInInv' BY <2>1 DEF RequestEmbedded, DropInInv
  <2>8. Whole /\ ~mishap' => ServiceInv'
        BY <2>1, <2>2
        DEF RequestEmbedded, ServiceInv, Serving, EmbeddedRuns
  <2> QED BY <2>3, <2>4, <2>5, <2>6, <2>7, <2>8
<1> QED BY <1>1, <1>2 DEF RequestEmbedded

\* The files a handoff found are put back, the xray.service they had is stopped.
LEMMA RestoreFilesStep ==
    ASSUME HandoffInv, ControllerTypes, RestoreFiles, UNCHANGED <<died, torn>>
    PROVE  HandoffInv'
<1>1. /\ At("files") /\ own' = NoOwnership /\ job' = [job EXCEPT !.at = "writeEmbedded"]
      /\ UNCHANGED <<ownSaved, mishap>>
      BY DEF RestoreFiles
<1>2. \/ xray' = FALSE /\ dropIn' \in BOOLEAN /\ agent' = [agent EXCEPT !.cfg = own.cfg]
         /\ own.cfg \in Mode
      \/ UNCHANGED <<agent, xray, dropIn>>
      BY DEF RestoreFiles, HasSnapshot, AgentIn, NoMachine, machineVars, Ownership
<1>3. MachineTypes'
  <2>1. agent' \in [cfg: Mode, run: Mode \cup {"down"}] BY <1>2
  <2>2. xray' \in BOOLEAN /\ dropIn' \in BOOLEAN BY <1>2
  <2>3. job' \in Job BY <1>1
  <2> QED BY <1>1, <2>1, <2>2, <2>3
<1>4. JobInv' BY <1>1
<1>5. Whole => AgentInv' BY <1>1 DEF AgentInv
<1>6. Whole => CoreInv' BY <1>1, <1>2 DEF CoreInv
<1>7. Whole => DropInInv' BY <1>1 DEF DropInInv, NoOwnership
<1>8. ServiceInv' BY <1>1 DEF ServiceInv
<1> QED BY <1>3, <1>4, <1>5, <1>6, <1>7, <1>8 DEF HandoffInv

\* A failure on the way back that is made up for.
LEMMA FailedRestorationStep ==
    ASSUME HandoffInv, ControllerTypes, UNCHANGED <<died, torn, own>>,
           RestoreFilesFail \/ WriteEmbeddedFails, CanResume
    PROVE  HandoffInv'
<1>1. /\ job.at \in {"files", "writeEmbedded"} /\ xray' \in {xray, FALSE} /\ mishap' = TRUE
      /\ job' = [job EXCEPT !.at = "resume"] /\ UNCHANGED ownSaved
      BY DEF RestoreFilesFail, WriteEmbeddedFails, FailEmbedded
<1>2. dropIn' \in BOOLEAN BY DEF RestoreFilesFail, WriteEmbeddedFails
<1>3. agent' \in [cfg: Mode, run: Mode \cup {"down"}]
      BY DEF RestoreFilesFail, WriteEmbeddedFails, AgentIn, HasSnapshot, Ownership
<1>4. MachineTypes'
  <2>1. job' \in Job BY <1>1
  <2> QED BY <1>1, <1>2, <1>3, <2>1
<1>5. JobInv' BY <1>1
<1>6. Whole => AgentInv' BY <1>1 DEF AgentInv
<1>7. Whole => CoreInv' BY <1>1 DEF CoreInv
<1>8. Whole => DropInInv' BY <1>1 DEF DropInInv
<1> QED BY <1>1, <1>4, <1>5, <1>6, <1>7, <1>8 DEF HandoffInv

\* xray.service is stopped before the Agent is restarted as the Core.
LEMMA WriteEmbeddedStep ==
    ASSUME HandoffInv, ControllerTypes, WriteEmbedded, UNCHANGED <<died, torn>>
    PROVE  HandoffInv'
<1>1. /\ At("writeEmbedded") /\ agent' = [agent EXCEPT !.cfg = "embedded"] /\ xray' = FALSE
      /\ job' = [job EXCEPT !.at = "restartEmbedded"]
      /\ UNCHANGED <<dropIn, own, ownSaved, mishap>>
      BY DEF WriteEmbedded, AgentIn
<1>2. MachineTypes'
  <2>1. job' \in Job BY <1>1
  <2> QED BY <1>1, <2>1
<1>3. JobInv' BY <1>1
<1>4. Whole => AgentInv' BY <1>1 DEF AgentInv
<1>5. CoreInv' BY <1>1 DEF CoreInv
<1>6. Whole => DropInInv' BY <1>1 DEF DropInInv
<1>7. ServiceInv' BY <1>1 DEF ServiceInv
<1> QED BY <1>2, <1>3, <1>4, <1>5, <1>6, <1>7 DEF HandoffInv

\* After the restart the Agent runs the Core.
LEMMA RestartEmbeddedStep ==
    ASSUME HandoffInv, ControllerTypes, RestartEmbedded, UNCHANGED <<died, torn>>
    PROVE  HandoffInv'
<1>1. MachineTypes'
  <2>1. agent' \in [cfg: Mode, run: Mode \cup {"down"}]
        BY DEF RestartEmbedded, Restarted, RestartFails, FailEmbedded, Finish, NoOwnership,
               CanResume
  <2>2. xray' \in BOOLEAN /\ dropIn' \in BOOLEAN
        BY DEF RestartEmbedded, Restarted, RestartFails, FailEmbedded, Finish, NoOwnership,
               CanResume
  <2>3. own' \in Ownership /\ ownSaved' \in Ownership
        BY DEF RestartEmbedded, Restarted, RestartFails, FailEmbedded, Finish, NoOwnership,
               CanResume, Ownership
  <2>4. job' \in Job
        BY DEF RestartEmbedded, Restarted, RestartFails, FailEmbedded, Finish, NoOwnership,
               CanResume, Ownership
  <2>5. mishap' \in BOOLEAN /\ died' \in BOOLEAN /\ torn' \in BOOLEAN
        BY DEF RestartEmbedded, Restarted, RestartFails, FailEmbedded, Finish, NoOwnership,
               CanResume
  <2> QED BY <2>1, <2>2, <2>3, <2>4, <2>5
<1>2. JobInv'
      BY DEF RestartEmbedded, Restarted, RestartFails, FailEmbedded, Finish, NoOwnership,
             CanResume
<1>3. Whole => AgentInv'
      BY DEF RestartEmbedded, Restarted, RestartFails, FailEmbedded, Finish, NoOwnership,
             CanResume, AgentInv
<1>4. Whole => CoreInv'
      BY DEF RestartEmbedded, Restarted, RestartFails, FailEmbedded, Finish, NoOwnership,
             CanResume, AgentInv, CoreInv, DropInInv, TwoCores, EmbeddedRuns, Ownership
<1>5. Whole => DropInInv'
      BY DEF RestartEmbedded, Restarted, RestartFails, FailEmbedded, Finish, NoOwnership,
             CanResume, DropInInv, Ownership
<1>6. Whole /\ ~mishap' => ServiceInv'
      BY DEF RestartEmbedded, Restarted, RestartFails, FailEmbedded, Finish, NoOwnership,
             CanResume, AgentInv, CoreInv, DropInInv, ServiceInv, Serving, EmbeddedRuns,
             IsRollback, Ownership
<1> QED BY <1>1, <1>2, <1>3, <1>4, <1>5, <1>6 DEF HandoffInv

\* The embedded Core runs while its health is checked.
LEMMA WaitEmbeddedStep ==
    ASSUME HandoffInv, ControllerTypes, WaitEmbedded, UNCHANGED <<died, torn>>
    PROVE  HandoffInv'
<1>1. MachineTypes'
  <2>1. agent' \in [cfg: Mode, run: Mode \cup {"down"}]
        BY DEF WaitEmbedded, EmbeddedRuns, Finish, NoOwnership, NoMachine, machineVars,
               IsRollback, FailEmbedded, CanResume
  <2>2. xray' \in BOOLEAN /\ dropIn' \in BOOLEAN
        BY DEF WaitEmbedded, EmbeddedRuns, Finish, NoOwnership, NoMachine, machineVars,
               IsRollback, FailEmbedded, CanResume
  <2>3. own' \in Ownership /\ ownSaved' \in Ownership
        BY DEF WaitEmbedded, EmbeddedRuns, Finish, NoOwnership, NoMachine, machineVars,
               IsRollback, FailEmbedded, CanResume, Ownership
  <2>4. job' \in Job
        BY DEF WaitEmbedded, EmbeddedRuns, Finish, NoOwnership, NoMachine, machineVars,
               IsRollback, FailEmbedded, CanResume, Ownership
  <2>5. mishap' \in BOOLEAN /\ died' \in BOOLEAN /\ torn' \in BOOLEAN
        BY DEF WaitEmbedded, EmbeddedRuns, Finish, NoOwnership, NoMachine, machineVars,
               IsRollback, FailEmbedded, CanResume
  <2> QED BY <2>1, <2>2, <2>3, <2>4, <2>5
<1>2. JobInv'
      BY DEF WaitEmbedded, EmbeddedRuns, Finish, NoOwnership, NoMachine, machineVars,
             IsRollback, FailEmbedded, CanResume
<1>3. Whole => AgentInv'
      BY DEF WaitEmbedded, EmbeddedRuns, Finish, NoOwnership, NoMachine, machineVars,
             IsRollback, FailEmbedded, CanResume, AgentInv
<1>4. Whole => CoreInv'
      BY DEF WaitEmbedded, EmbeddedRuns, Finish, NoOwnership, NoMachine, machineVars,
             IsRollback, FailEmbedded, CanResume, AgentInv, CoreInv, DropInInv, TwoCores,
             Ownership
<1>5. Whole => DropInInv'
      BY DEF WaitEmbedded, EmbeddedRuns, Finish, NoOwnership, NoMachine, machineVars,
             IsRollback, FailEmbedded, CanResume, DropInInv, Ownership
<1>6. Whole /\ ~mishap' => ServiceInv'
      BY DEF WaitEmbedded, EmbeddedRuns, Finish, NoOwnership, NoMachine, machineVars,
             IsRollback, FailEmbedded, CanResume, AgentInv, CoreInv, DropInInv, ServiceInv,
             Serving, Ownership
<1> QED BY <1>1, <1>2, <1>3, <1>4, <1>5, <1>6 DEF HandoffInv

\* The ownership that is resumed has its drop-in again.
LEMMA ResumeStep ==
    ASSUME HandoffInv, ControllerTypes, Resume, UNCHANGED <<died, torn>>
    PROVE  HandoffInv'
<1>1. /\ At("resume") /\ own' = job.prev /\ dropIn' = (dropIn \/ job.prev.enabled)
      /\ job' = [job EXCEPT !.at = "resumeMode"]
      /\ UNCHANGED <<agent, xray, ownSaved, mishap>>
      BY DEF Resume
<1>2. MachineTypes'
  <2>1. job' \in Job /\ own' \in Ownership BY <1>1
  <2> QED BY <1>1, <2>1
<1>3. JobInv' BY <1>1
<1>4. Whole => AgentInv' BY <1>1 DEF AgentInv
<1>5. Whole => CoreInv' BY <1>1 DEF CoreInv
<1>6. DropInInv' BY <1>1 DEF DropInInv
<1>7. ServiceInv' BY <1>1 DEF ServiceInv
<1> QED BY <1>2, <1>3, <1>4, <1>5, <1>6, <1>7 DEF HandoffInv

\* The mode of the resumed Core goes back into the file.
LEMMA ResumeModeStep ==
    ASSUME HandoffInv, ControllerTypes, ResumeMode, UNCHANGED <<died, torn>>
    PROVE  HandoffInv'
<1>1. /\ At("resumeMode") /\ agent' = [agent EXCEPT !.cfg = ResumedMode]
      /\ job' = [job EXCEPT !.at = "resumeServices"]
      /\ UNCHANGED <<xray, dropIn, own, ownSaved, mishap>>
      BY DEF ResumeMode, AgentIn
<1>2. ResumedMode \in Mode BY <1>1
<1>3. MachineTypes'
  <2>1. job' \in Job BY <1>1
  <2> QED BY <1>1, <1>2, <2>1
<1>4. JobInv' BY <1>1
<1>5. Whole => AgentInv' BY <1>1 DEF AgentInv
<1>6. Whole => CoreInv' BY <1>1 DEF CoreInv
<1>7. Whole => DropInInv' BY <1>1 DEF DropInInv
<1>8. ServiceInv' BY <1>1 DEF ServiceInv
<1> QED BY <1>3, <1>4, <1>5, <1>6, <1>7, <1>8 DEF HandoffInv

\* Where a failed write tears the files only the types are left.
LEMMA TearsStep ==
    ASSUME HandoffInv, ControllerTypes, Tears, torn' = TRUE, UNCHANGED died
    PROVE  HandoffInv'
<1>1. CASE WriteExternalTears
  <2>1. /\ agent' = [agent EXCEPT !.cfg = "external"] /\ job' = [job EXCEPT !.at = "request"]
        /\ UNCHANGED <<xray, dropIn, own, ownSaved, mishap>>
        BY <1>1 DEF WriteExternalTears, AgentIn
  <2>2. MachineTypes'
    <3>1. job' \in Job BY <2>1
    <3> QED BY <2>1, <3>1
  <2>3. JobInv' BY <2>1
  <2> QED BY <2>2, <2>3 DEF HandoffInv
<1>2. ASSUME GiveUp, agent' \in [cfg: Mode, run: Mode \cup {"down"}], dropIn' \in BOOLEAN
      PROVE  HandoffInv'
  <2>1. job' = NoJob /\ own' = job.prev /\ ownSaved' = job.prev /\ mishap' = TRUE
        BY <1>2 DEF GiveUp
  <2>2. xray' \in BOOLEAN BY <1>2 DEF GiveUp
  <2>3. MachineTypes' BY <1>2, <2>1, <2>2
  <2>4. JobInv' BY <2>1
  <2> QED BY <2>3, <2>4 DEF HandoffInv
<1>3. CASE ResumeFails BY <1>2, <1>3 DEF ResumeFails
<1>4. CASE ResumeModeFails
  <2>1. agent' \in [cfg: Mode, run: Mode \cup {"down"}]
    <3>1. ResumedMode \in Mode BY <1>4 DEF ResumeModeFails
    <3> QED BY <1>4, <3>1 DEF ResumeModeFails, AgentIn
  <2>2. CASE ~job.prev.enabled
    <3>1. /\ At("resumeMode") /\ job' = [job EXCEPT !.at = "resumeServices"] /\ mishap' = TRUE
          /\ UNCHANGED <<xray, dropIn, own, ownSaved>>
          BY <1>4, <2>2 DEF ResumeModeFails
    <3>2. MachineTypes'
      <4>1. job' \in Job BY <3>1
      <4> QED BY <2>1, <3>1, <4>1
    <3>3. JobInv' BY <3>1
    <3> QED BY <3>2, <3>3 DEF HandoffInv
  <2> QED BY <1>2, <1>4, <2>1, <2>2 DEF ResumeModeFails
<1>5. CASE (RestoreFilesFail \/ WriteEmbeddedFails) /\ ~CanResume
  <2>1. job' = NoJob /\ ownSaved' = own /\ UNCHANGED own /\ mishap' = TRUE
        BY <1>5 DEF RestoreFilesFail, WriteEmbeddedFails, FailEmbedded, Finish
  <2>2. agent' \in [cfg: Mode, run: Mode \cup {"down"}]
        BY <1>5 DEF RestoreFilesFail, WriteEmbeddedFails, AgentIn, HasSnapshot, Ownership
  <2>3. xray' \in BOOLEAN /\ dropIn' \in BOOLEAN
        BY <1>5 DEF RestoreFilesFail, WriteEmbeddedFails
  <2>4. MachineTypes' BY <2>1, <2>2, <2>3
  <2>5. JobInv' BY <2>1
  <2> QED BY <2>4, <2>5 DEF HandoffInv
<1> QED BY <1>1, <1>3, <1>4, <1>5 DEF Tears

\* The services follow the file.
LEMMA ResumeServicesStep ==
    ASSUME HandoffInv, ControllerTypes, ResumeServices, UNCHANGED <<died, torn>>
    PROVE  HandoffInv'
<1>1. MachineTypes'
  <2>1. agent' \in [cfg: Mode, run: Mode \cup {"down"}]
        BY DEF ResumeServices, Finish, NoOwnership, Restarted, RestartFails, Started,
               StartFails
  <2>2. xray' \in BOOLEAN /\ dropIn' \in BOOLEAN
        BY DEF ResumeServices, Finish, NoOwnership, Restarted, RestartFails, Started,
               StartFails
  <2>3. own' \in Ownership /\ ownSaved' \in Ownership
        BY DEF ResumeServices, Finish, NoOwnership, Restarted, RestartFails, Started,
               StartFails, Ownership
  <2>4. job' \in Job
        BY DEF ResumeServices, Finish, NoOwnership, Restarted, RestartFails, Started,
               StartFails, Ownership
  <2>5. mishap' \in BOOLEAN /\ died' \in BOOLEAN /\ torn' \in BOOLEAN
        BY DEF ResumeServices, Finish, NoOwnership, Restarted, RestartFails, Started,
               StartFails
  <2> QED BY <2>1, <2>2, <2>3, <2>4, <2>5
<1>2. JobInv'
      BY DEF ResumeServices, Finish, NoOwnership, Restarted, RestartFails, Started,
             StartFails
<1>3. Whole => AgentInv'
      BY DEF ResumeServices, Finish, NoOwnership, Restarted, RestartFails, Started,
             StartFails, AgentInv
<1>4. Whole => CoreInv'
      BY DEF ResumeServices, Finish, NoOwnership, Restarted, RestartFails, Started,
             StartFails, AgentInv, CoreInv, DropInInv, TwoCores, EmbeddedRuns, Ownership
<1>5. Whole => DropInInv'
      BY DEF ResumeServices, Finish, NoOwnership, Restarted, RestartFails, Started,
             StartFails, DropInInv, Ownership
<1>6. Whole /\ ~mishap' => ServiceInv'
      BY DEF ResumeServices, Finish, NoOwnership, Restarted, RestartFails, Started,
             StartFails, AgentInv, CoreInv, DropInInv, ServiceInv, Serving, EmbeddedRuns,
             IsRollback, Ownership
<1> QED BY <1>1, <1>2, <1>3, <1>4, <1>5, <1>6 DEF HandoffInv

\* The completion of an ownership at the start of a pass.
LEMMA ReconcileOwnershipStep ==
    ASSUME HandoffInv, ControllerTypes, ReconcileOwnership, UNCHANGED <<died, torn>>
    PROVE  HandoffInv'
<1>1. ~Whole' BY OwnershipIsComplete DEF ReconcileOwnership
<1>2. xray' \in BOOLEAN /\ dropIn' \in BOOLEAN /\ mishap' \in BOOLEAN
      BY DEF ReconcileOwnership, Completed, CompletionFails
<1>3. UNCHANGED <<agent, own, ownSaved, job>> BY DEF ReconcileOwnership
<1>4. MachineTypes' BY <1>2, <1>3
<1>5. JobInv' BY <1>3 DEF ReconcileOwnership
<1> QED BY <1>1, <1>4, <1>5 DEF HandoffInv

\* An upgrade of the Agent brings the embedded Core back and stops the External one.
LEMMA AgentUpgradedStep ==
    ASSUME HandoffInv, ControllerTypes, AgentUpgraded, UNCHANGED <<died, torn>>
    PROVE  HandoffInv'
<1>1. MachineTypes'
  <2>1. agent' \in [cfg: Mode, run: Mode \cup {"down"}]
        BY DEF AgentUpgraded
  <2>2. xray' \in BOOLEAN /\ dropIn' \in BOOLEAN
        BY DEF AgentUpgraded
  <2>3. own' \in Ownership /\ ownSaved' \in Ownership
        BY DEF AgentUpgraded, Ownership, NoOwnership
  <2>4. job' \in Job
        BY DEF AgentUpgraded, Ownership, NoOwnership
  <2>5. mishap' \in BOOLEAN /\ died' \in BOOLEAN /\ torn' \in BOOLEAN
        BY DEF AgentUpgraded
  <2> QED BY <2>1, <2>2, <2>3, <2>4, <2>5
<1>2. JobInv'
      BY DEF AgentUpgraded
<1>3. Whole => AgentInv'
      BY DEF AgentUpgraded, AgentInv
<1>4. Whole => CoreInv'
      BY DEF AgentUpgraded, AgentInv, CoreInv, DropInInv, TwoCores, EmbeddedRuns, Ownership
<1>5. Whole => DropInInv'
      BY DEF AgentUpgraded, DropInInv, Ownership, NoOwnership
<1>6. Whole /\ ~mishap' => ServiceInv'
      BY DEF AgentUpgraded, AgentInv, CoreInv, DropInInv, ServiceInv, Serving, EmbeddedRuns,
             IsRollback, Ownership
<1> QED BY <1>1, <1>2, <1>3, <1>4, <1>5, <1>6 DEF HandoffInv

\* systemd starts the Agent in the mode of its file.
LEMMA AgentRecoversStep ==
    ASSUME HandoffInv, ControllerTypes, AgentRecovers, UNCHANGED <<died, torn>>
    PROVE  HandoffInv'
<1>1. MachineTypes'
      BY DEF AgentRecovers, Restarted, Ownership, NoOwnership
<1>2. JobInv'
      BY DEF AgentRecovers, Restarted
<1>3. Whole => AgentInv'
      BY DEF AgentRecovers, Restarted, AgentInv
<1>4. Whole => CoreInv'
      BY DEF AgentRecovers, Restarted, AgentInv, CoreInv, DropInInv, TwoCores, EmbeddedRuns,
             Ownership
<1>5. Whole => DropInInv'
      BY DEF AgentRecovers, Restarted, DropInInv, Ownership, NoOwnership
<1>6. Whole /\ ~mishap' => ServiceInv'
      BY DEF AgentRecovers, Restarted, AgentInv, CoreInv, DropInInv, ServiceInv, Serving,
             EmbeddedRuns, IsRollback, Ownership
<1> QED BY <1>1, <1>2, <1>3, <1>4, <1>5, <1>6 DEF HandoffInv

\* A report begins the command it brought.
LEMMA ReportStep ==
    ASSUME HandoffInv, ControllerTypes, ControllerTypes', Report, UNCHANGED <<died, torn>>
    PROVE  HandoffInv'
<1>1. UNCHANGED <<agent, xray, dropIn, own, ownSaved>> BY DEF Report, machineVars
<1>2. \/ UNCHANGED <<job, mishap>>
      \/ /\ job' = [NoJob EXCEPT !.mode = queued', !.recorded = formal,
                       !.at = IF queued' = "external" THEN "reassert" ELSE "request"]
         /\ mishap' = ~Serving /\ queued' # Nothing
      BY DEF Report
<1>3. CASE UNCHANGED <<job, mishap>>
  <2>1. MachineTypes' /\ JobInv' BY <1>1, <1>3
  <2>2. Whole => AgentInv' /\ CoreInv' /\ DropInInv'
        BY <1>1, <1>3 DEF AgentInv, CoreInv, DropInInv, TwoCores, EmbeddedRuns
  <2>3. Whole /\ ~mishap' => ServiceInv'
        BY <1>1, <1>3 DEF ServiceInv, Serving, EmbeddedRuns, IsRollback
  <2> QED BY <2>1, <2>2, <2>3
<1>4. CASE /\ job' = [NoJob EXCEPT !.mode = queued', !.recorded = formal,
                         !.at = IF queued' = "external" THEN "reassert" ELSE "request"]
           /\ mishap' = ~Serving /\ queued' # Nothing
  <2>1. queued' \in Mode /\ formal \in Mode BY <1>4 DEF ControllerTypes, Queued
  <2>2. /\ job' \in Job /\ job'.mode = queued' /\ job'.recorded = formal
        /\ job'.at = IF queued' = "external" THEN "reassert" ELSE "request"
        BY <1>4, <2>1
  <2>3. MachineTypes' BY <1>1, <1>4, <2>2 DEF Serving, EmbeddedRuns
  <2>4. JobInv' BY <2>1, <2>2
  <2>5. Whole => AgentInv' /\ CoreInv' /\ DropInInv'
        BY <1>1, <2>2 DEF Report, AgentInv, CoreInv, DropInInv
  <2>6. ~mishap' => ServiceInv'
        BY <1>1, <1>4, <2>2 DEF ServiceInv, Serving, EmbeddedRuns
  <2> QED BY <2>3, <2>4, <2>5, <2>6
<1> QED BY <1>2, <1>3, <1>4

\* A death between the commands loses nothing: what the Helper owns is saved.
LEMMA HelperRestartsStep ==
    ASSUME HandoffInv, HelperRestarts
    PROVE  HandoffInv'
<1>1. /\ own' = ownSaved /\ ownSaved' = ownSaved /\ job' = NoJob
      /\ UNCHANGED <<agent, xray, dropIn>>
      /\ mishap' = (mishap \/ ~At("idle")) /\ died' = (died \/ ~At("idle"))
      /\ UNCHANGED torn
      BY DEF HelperRestarts, NoMachine, machineVars
<1>2. MachineTypes' BY <1>1
<1>3. JobInv' BY <1>1
<1>4. Whole' => Whole /\ job.at = "idle" /\ own' = own BY <1>1 DEF DropInInv
<1>5. Whole' => AgentInv' /\ CoreInv' /\ DropInInv'
      BY <1>1, <1>4 DEF AgentInv, CoreInv, DropInInv
<1>6. Whole' /\ ~mishap' => ServiceInv'
      BY <1>1, <1>4 DEF ServiceInv, Serving, EmbeddedRuns
<1> QED BY <1>2, <1>3, <1>5, <1>6

\* The controller does not touch the machine.
LEMMA MachineStays ==
    ASSUME HandoffInv, UNCHANGED <<machineVars, helperVars>>
    PROVE  HandoffInv'
<1>1. UNCHANGED <<agent, xray, dropIn, own, ownSaved, job, mishap, died, torn>>
      BY DEF machineVars, helperVars
<1>2. MachineTypes' /\ JobInv' BY <1>1
<1>3. Whole => AgentInv' /\ CoreInv' /\ DropInInv'
      BY <1>1 DEF AgentInv, CoreInv, DropInInv, TwoCores, EmbeddedRuns
<1>4. Whole /\ ~mishap => ServiceInv'
      BY <1>1 DEF ServiceInv, Serving, EmbeddedRuns, IsRollback
<1> QED BY <1>1, <1>2, <1>3, <1>4

-----------------------------------------------------------------------------
(* The controller: its types, and how requests end *)

EndsAtTheRealMode ==
    intent.pending /\ ~intent'.pending => intent'.desired = formal' \/ intent' = saved.intent

\* A save writes intents and commands, and one that fails leaves the old file or the new.
LEMMA SaveTypes ==
    ASSUME ControllerTypes, intent' \in Intent, queued' \in Queued,
           Save \/ SaveFails \/ UNCHANGED saved
    PROVE  saved' \in [intent: Intent, queued: Queued]
BY DEF ControllerTypes, Save, SaveFails

\* observeOfficialModeAfterWrite keeps types, and ends a request only for the mode it saw.
LEMMA ObservedTypes ==
    ASSUME intent \in Intent, NEW mode \in Mode
    PROVE  /\ Observed(mode) \in Intent
           /\ intent.pending /\ ~Observed(mode).pending => Observed(mode).desired = mode
BY DEF Observed, Intent

\* Whatever becomes of a write of the official mode.
LEMMA ModeWriteTypes ==
    ASSUME ControllerTypes, NEW mode \in Mode, ModeSet(mode) \/ ModeRefused(mode)
    PROVE  ControllerTypes' /\ EndsAtTheRealMode
<1>1. \/ UNCHANGED <<formal, session, intent, queued, saved>>
      \/ /\ formal' \in Mode /\ UNCHANGED <<session, intent, queued, saved>>
      \/ \E m \in Mode : /\ formal' = m /\ intent' = Observed(m)
                         /\ UNCHANGED <<session, queued>>
                         /\ Save \/ UNCHANGED saved
      BY DEF ModeSet, ModeRefused, ObserveAndSave, controllerVars, ControllerTypes
<1>2. CASE UNCHANGED <<formal, session, intent, queued, saved>>
      BY <1>2 DEF ControllerTypes, EndsAtTheRealMode
<1>3. CASE formal' \in Mode /\ UNCHANGED <<session, intent, queued, saved>>
      BY <1>3 DEF ControllerTypes, EndsAtTheRealMode
<1>4. ASSUME NEW m \in Mode, formal' = m, intent' = Observed(m),
             UNCHANGED <<session, queued>>, Save \/ UNCHANGED saved
      PROVE  ControllerTypes' /\ EndsAtTheRealMode
  <2>1. /\ intent' \in Intent
        /\ intent.pending /\ ~intent'.pending => intent'.desired = formal'
        BY <1>4, ObservedTypes DEF ControllerTypes
  <2>2. queued' \in Queued BY <1>4 DEF ControllerTypes
  <2>3. saved' \in [intent: Intent, queued: Queued] BY <1>4, <2>1, <2>2, SaveTypes
  <2> QED BY <1>4, <2>1, <2>2, <2>3 DEF ControllerTypes, EndsAtTheRealMode
<1> QED BY <1>1, <1>2, <1>3, <1>4

\* reconcileCoreMode ends a request only where its mode is recorded and healthy.
LEMMA ReconcileTypes ==
    ASSUME ControllerTypes, NEW healthy, NEW connected, NEW last, NEW left \in Queued,
           Reconcile(healthy, connected, last, left)
    PROVE  /\ intent' \in Intent /\ queued' \in Queued
           /\ intent.pending /\ ~intent'.pending => intent'.desired = formal
<1> DEFINE i == AfterResult(Adopted, last)
<1>1. i \in Intent /\ i.pending = intent.pending
      BY DEF ControllerTypes, AfterResult, Adopted, Intent
<1>2. \/ formal = i.desired /\ intent' = HealthyNow(i) /\ queued' = left
      \/ intent' = [i EXCEPT !.waiting = FALSE] /\ queued' = left
      \/ intent' = WaitingForOfficial(i) /\ queued' = left
      \/ intent' = [i EXCEPT !.drift = IF @ = "no" THEN "since" ELSE @] /\ queued' = left
      \/ intent' = [i EXCEPT !.waiting = FALSE]
         /\ queued' = IF i.backoff THEN left ELSE i.desired
      BY DEF Reconcile
<1> HIDE DEF i
<1>3. CASE formal = i.desired /\ intent' = HealthyNow(i) /\ queued' = left
      BY <1>1, <1>3 DEF HealthyNow, Intent
<1>4. CASE intent' = [i EXCEPT !.waiting = FALSE] /\ queued' = left
      BY <1>1, <1>4 DEF Intent
<1>5. CASE intent' = WaitingForOfficial(i) /\ queued' = left
  <2>1. \/ intent' = [i EXCEPT !.waiting = TRUE, !.drift = "no"]
        \/ intent' = [i EXCEPT !.drift = IF @ = "no" THEN "since" ELSE @]
        BY <1>5 DEF WaitingForOfficial
  <2> QED BY <1>1, <1>5, <2>1 DEF Intent
<1>6. CASE intent' = [i EXCEPT !.drift = IF @ = "no" THEN "since" ELSE @] /\ queued' = left
      BY <1>1, <1>6 DEF Intent
<1>7. CASE intent' = [i EXCEPT !.waiting = FALSE]
           /\ queued' = IF i.backoff THEN left ELSE i.desired
      BY <1>1, <1>7 DEF Intent, Queued
<1> QED BY <1>2, <1>3, <1>4, <1>5, <1>6, <1>7

\* One report leaves the types as they are and ends a request only for its mode.
LEMMA ReportTypes ==
    ASSUME ControllerTypes, Report
    PROVE  ControllerTypes' /\ EndsAtTheRealMode
<1> DEFINE left == IF result = Nothing THEN queued ELSE Nothing
<1>1. left \in Queued BY DEF ControllerTypes, Queued
<1>2. /\ intent' \in Intent /\ queued' \in Queued
      /\ intent.pending /\ ~intent'.pending => intent'.desired = formal
      BY <1>1, ReconcileTypes DEF Report
<1>3. saved' \in [intent: Intent, queued: Queued] BY <1>2, SaveTypes DEF Report
<1> QED BY <1>2, <1>3 DEF Report, ControllerTypes, EndsAtTheRealMode

\* Administrators, sessions, time, saves and restarts of the controller.
LEMMA ControllerStepTypes ==
    ASSUME ControllerTypes, ControllerStep
    PROVE  ControllerTypes' /\ EndsAtTheRealMode
<1>1. ASSUME NEW mode \in Mode, Request(mode)
      PROVE  ControllerTypes' /\ EndsAtTheRealMode
  <2>1. intent' = Requested(mode) /\ UNCHANGED <<formal, queued>> /\ session' = TRUE
        /\ (Save \/ SaveFails)
        BY <1>1 DEF Request
  <2>2. intent' \in Intent /\ intent'.pending = TRUE
        BY <2>1 DEF Requested, Settled, ControllerTypes, Intent
  <2>3. queued' \in Queued BY <2>1 DEF ControllerTypes
  <2>4. saved' \in [intent: Intent, queued: Queued] BY <2>1, <2>2, <2>3, SaveTypes
  <2> QED BY <2>1, <2>2, <2>3, <2>4 DEF ControllerTypes, EndsAtTheRealMode
<1>2. ASSUME NEW mode \in Mode, OfficialChange(mode)
      PROVE  ControllerTypes' /\ EndsAtTheRealMode
      BY <1>2 DEF OfficialChange, ControllerTypes, EndsAtTheRealMode
<1>3. CASE SessionEnds \/ SessionReturns
      BY <1>3 DEF SessionEnds, SessionReturns, ControllerTypes, EndsAtTheRealMode
<1>4. CASE GraceEnds
  <2>1. intent' \in Intent /\ intent'.pending = intent.pending
        BY <1>4 DEF GraceEnds, ControllerTypes, Intent
  <2> QED BY <1>4, <2>1 DEF GraceEnds, ControllerTypes, EndsAtTheRealMode
<1>5. CASE BackoffEnds
  <2>1. intent' \in Intent /\ intent'.pending = intent.pending
        BY <1>5 DEF BackoffEnds, ControllerTypes, Intent
  <2> QED BY <1>5, <2>1 DEF BackoffEnds, ControllerTypes, EndsAtTheRealMode
<1>6. CASE CommandExpires
      BY <1>6 DEF CommandExpires, ControllerTypes, EndsAtTheRealMode, Queued
<1>7. CASE StateSaved
      BY <1>7 DEF StateSaved, Save, ControllerTypes, EndsAtTheRealMode
<1>8. CASE ControllerRestarts
      BY <1>8 DEF ControllerRestarts, ControllerTypes, EndsAtTheRealMode
<1> QED BY <1>1, <1>2, <1>3, <1>4, <1>5, <1>6, <1>7, <1>8 DEF ControllerStep

\* The steps of the Helper reach the controller only through a report or a takeover request.
LEMMA ControllerSound ==
    ASSUME ControllerTypes, HandoffInv, [Next]_vars
    PROVE  ControllerTypes' /\ EndsAtTheRealMode
<1>1. CASE UNCHANGED controllerVars
      BY <1>1 DEF controllerVars, ControllerTypes, EndsAtTheRealMode
<1>2. CASE Report BY <1>2, ReportTypes
<1>3. CASE \E mode \in Mode : ModeSet(mode) \/ ModeRefused(mode) BY <1>3, ModeWriteTypes
<1>4. CASE External
  <2>1. CASE Reassert
        BY <2>1, <1>3 DEF Reassert
  <2>2. CASE SetExternal BY <2>2, <1>3 DEF SetExternal
  <2> QED BY <1>4, <1>1, <2>1, <2>2
      DEF External, CheckDone, CheckOwnership, CheckFails, Arm, ArmFails, WriteExternal, RestartExternal,
          Bootstrap, WaitExternal, ControlConfig, HelperOnly
<1>5. CASE Embedded
  <2>1. CASE RequestEmbedded BY <2>1, <1>3 DEF RequestEmbedded
  <2>2. CASE Resume
    <3>1. ResumedMode \in Mode BY <2>2 DEF Resume
    <3>2. ModeSet(ResumedMode) \/ ModeRefused(ResumedMode) BY <2>2 DEF Resume
    <3> QED BY <1>3, <3>1, <3>2
  <2> QED BY <1>5, <1>1, <2>1, <2>2
      DEF Embedded, CheckEmbedded, RestoreFiles, RestoreFilesFail, WriteEmbedded,
          WriteEmbeddedFails, RestartEmbedded, WaitEmbedded, ResumeMode, ResumeServices,
          HelperOnly
<1>6. CASE ReconcileOwnership \/ AgentUpgraded \/ AgentRecovers \/ HelperRestarts
      BY <1>6, <1>1 DEF ReconcileOwnership, AgentUpgraded, AgentRecovers, HelperRestarts, HelperOnly
<1>7. CASE Tears
      BY <1>7, <1>1 DEF Tears, WriteExternalTears, ResumeFails, ResumeModeFails,
                        RestoreFilesFail, WriteEmbeddedFails, HelperOnly
<1>8. CASE ControllerStep BY <1>8, ControllerStepTypes
<1>9. CASE UNCHANGED vars BY <1>9, <1>1 DEF vars
<1> QED BY <1>2, <1>4, <1>5, <1>6, <1>7, <1>8, <1>9 DEF Next, HelperLives, Handoff

-----------------------------------------------------------------------------
(* The theorems *)

\* The first state.
LEMMA InitIsSound == Init => HandoffInv /\ ControllerTypes
<1> SUFFICES ASSUME Init PROVE HandoffInv /\ ControllerTypes
    OBVIOUS
<1>1. formal \in Mode /\ job = NoJob /\ own = NoOwnership /\ ownSaved = NoOwnership
      /\ agent = [cfg |-> formal, run |-> formal] /\ xray = (formal = "external")
      /\ dropIn = FALSE /\ mishap = FALSE /\ died = FALSE /\ torn = FALSE
      BY DEF Init
<1>2. intent \in Intent BY DEF Init, Settled, Intent
<1>3. ControllerTypes BY <1>2 DEF Init, ControllerTypes, Queued
<1>4. MachineTypes /\ JobInv BY <1>1
<1>5. AgentInv /\ CoreInv /\ DropInInv
      BY <1>1 DEF AgentInv, CoreInv, DropInInv, NoOwnership
<1>6. ServiceInv BY <1>1 DEF ServiceInv, Serving, EmbeddedRuns
<1> QED BY <1>3, <1>4, <1>5, <1>6

\* Every step keeps the invariant.
LEMMA HandoffStep ==
    ASSUME HandoffInv, ControllerTypes, ControllerTypes', [Next]_vars
    PROVE  HandoffInv'
<1>1. CASE HelperLives
  <2>1. CASE Tears /\ torn' = TRUE BY <1>1, <2>1, TearsStep DEF HelperLives
  <2>2. CASE UNCHANGED <<died, torn>> /\ Report BY <2>2, ReportStep
  <2>3. CASE UNCHANGED <<died, torn>> /\ External
        BY <2>3, ReassertStep, CheckDoneStep, CheckOwnershipStep, CheckFailsStep, ArmStep,
           ArmFailsStep, SetExternalStep, WriteExternalStep, RestartExternalStep,
           BootstrapStep, WaitExternalStep, ControlConfigStep
        DEF External
  <2>4. CASE UNCHANGED <<died, torn>> /\ Embedded
    <3>1. CASE (RestoreFilesFail \/ WriteEmbeddedFails) /\ CanResume
      <4>1. UNCHANGED own BY <3>1 DEF RestoreFilesFail, WriteEmbeddedFails
      <4> QED BY <2>4, <3>1, <4>1, FailedRestorationStep
    <3> QED BY <2>4, <3>1, CheckEmbeddedStep, RequestEmbeddedStep, RestoreFilesStep,
               WriteEmbeddedStep, RestartEmbeddedStep, WaitEmbeddedStep, ResumeStep,
               ResumeModeStep, ResumeServicesStep
        DEF Embedded
  <2>5. CASE UNCHANGED <<died, torn>> /\ (ReconcileOwnership \/ AgentUpgraded \/ AgentRecovers)
        BY <2>5, ReconcileOwnershipStep, AgentUpgradedStep, AgentRecoversStep
  <2> QED BY <1>1, <2>1, <2>2, <2>3, <2>4, <2>5 DEF HelperLives, Handoff
<1>2. CASE HelperRestarts BY <1>2, HelperRestartsStep
<1>3. CASE ControllerStep /\ UNCHANGED <<machineVars, helperVars>> BY <1>3, MachineStays
<1>4. CASE UNCHANGED vars BY <1>4, MachineStays DEF vars
<1> QED BY <1>1, <1>2, <1>3, <1>4 DEF Next

\* In every reachable state of the handoff (takeover.go) the steps find the Agent's file, its
\* process, xray.service and the ownership as the steps before left them.
THEOREM HandoffIsSound == Spec => [](HandoffInv /\ ControllerTypes)
<1>1. HandoffInv /\ ControllerTypes /\ [Next]_vars => (HandoffInv /\ ControllerTypes)'
      BY HandoffStep, ControllerSound
<1> QED BY <1>1, InitIsSound, PTL DEF Spec

\* rollbackTakeover, restoreEmbeddedTakeover: refusals of the controller, ended sessions, lost
\* answers and failed health checks leave a Core running.  Failing
\* service calls, failing writes and a dying Helper are not refusals (mishap, Whole).
THEOREM RefusalsKeepServing == Spec => []ServesThroughRefusals
<1>1. HandoffInv => ServesThroughRefusals BY DEF ServesThroughRefusals, ServiceInv
<1> QED BY <1>1, HandoffIsSound, PTL

\* Where the file and the process of the Agent may not fit together, nothing is started.
LEMMA NothingStartsBetween ==
    ASSUME HandoffInv, [Next]_vars, Whole', TwoCores',
           job'.at \in Between \cup {"resumeServices"}
    PROVE  TwoCores \/ AgentReturns
<1>1. CASE UNCHANGED <<agent, xray>> BY <1>1 DEF TwoCores, EmbeddedRuns
<1>2. ASSUME agent'.run = agent.run, xray' \in {xray, FALSE} PROVE TwoCores
      BY <1>2 DEF TwoCores, EmbeddedRuns
<1>3. CASE Tears /\ torn' = TRUE BY <1>3
<1>4. CASE Report BY <1>4, <1>1 DEF Report, machineVars
<1>5. CASE External
  <2>1. job'.at \notin Between \cup {"resumeServices"}
        BY <1>5 DEF External, Reassert, CheckDone, CheckOwnership, CheckFails, Arm, ArmFails,
           SetExternal, WriteExternal, RestartExternal, Bootstrap, WaitExternal,
           ControlConfig, Finish
  <2> QED BY <2>1
<1>6. CASE Embedded
  <2>1. CASE CheckEmbedded BY <2>1, <1>1 DEF CheckEmbedded, NoMachine, machineVars
  <2>2. CASE RequestEmbedded BY <2>2 DEF RequestEmbedded, Finish
  <2>3. CASE RestoreFiles
        BY <2>3, <1>2 DEF RestoreFiles, AgentIn, NoMachine, machineVars
  <2>4. CASE WriteEmbedded BY <2>4 DEF WriteEmbedded
  <2>5. CASE RestoreFilesFail \/ WriteEmbeddedFails
        BY <2>5, <1>2 DEF RestoreFilesFail, WriteEmbeddedFails, AgentIn
  <2>6. CASE RestartEmbedded
    <3>1. CASE RestartFails
          BY <3>1 DEF RestartFails, TwoCores, EmbeddedRuns
    <3>2. CASE ~RestartFails BY <2>6, <3>2 DEF RestartEmbedded
    <3> QED BY <3>1, <3>2
  <2>7. CASE WaitEmbedded BY <2>7, <1>1 DEF WaitEmbedded, NoMachine, machineVars
  <2>8. CASE Resume BY <2>8, <1>1 DEF Resume
  <2>9. CASE ResumeMode BY <2>9, <1>2 DEF ResumeMode, AgentIn
  <2>10. CASE ResumeServices BY <2>10 DEF ResumeServices, Finish
  <2> QED BY <1>6, <2>1, <2>2, <2>3, <2>4, <2>5, <2>6, <2>7, <2>8, <2>9, <2>10 DEF Embedded
<1>7. CASE ReconcileOwnership BY <1>7 DEF ReconcileOwnership
<1>8. CASE AgentUpgraded BY <1>8 DEF AgentUpgraded
<1>9. CASE AgentRecovers BY <1>9 DEF AgentRecovers, AgentReturns
<1>10. CASE HelperRestarts BY <1>10 DEF HelperRestarts
<1>11. CASE UNCHANGED <<machineVars, helperVars>> \/ UNCHANGED vars
      BY <1>11, <1>1 DEF machineVars, vars
<1> QED BY <1>3, <1>4, <1>5, <1>6, <1>7, <1>8, <1>9, <1>10, <1>11
    DEF Next, HelperLives, Handoff

\* armExternalOwnership, stopExternalServices: the Core that runs is stopped before the
\* other one is started, on every path through success, failure, rollback and resumption.
\* Not claimed for an Agent that systemd starts in the middle (AgentReturns), nor after a
\* death of the Helper or a failed write inside a handoff (Whole).
THEOREM NoSecondCore == Spec => HandoffStartsNoSecondCore
<1>1. HandoffInv /\ HandoffInv' /\ [Next]_vars
      => [Whole' /\ ~At("idle") /\ TwoCores' => TwoCores \/ AgentReturns]_vars
  <2> SUFFICES ASSUME HandoffInv, HandoffInv', [Next]_vars, Whole', TwoCores'
               PROVE  TwoCores \/ AgentReturns
      OBVIOUS
  <2>1. CASE job'.at \in Between \cup {"resumeServices"} BY <2>1, NothingStartsBetween
  <2>2. CASE job'.at \notin Between \cup {"resumeServices"}
    <3>1. xray' /\ agent'.run = "embedded" /\ agent'.cfg = "external"
          BY <2>2 DEF TwoCores, EmbeddedRuns, CoreInv
    <3>2. job'.at \in {"restartExternal", "restartEmbedded"}
          BY <2>2, <3>1 DEF AgentInv
    <3> QED BY <3>1, <3>2 DEF AgentInv, CoreInv
  <2> QED BY <2>1, <2>2
<1> QED BY <1>1, HandoffIsSound, PTL DEF Spec, HandoffStartsNoSecondCore

\* observeOfficialModeAfterWrite, reconcileCoreMode: a request is over only when the mode in
\* force is the one it ends with, or when a controller restarts that could not save it.
THEOREM RequestsEnd == Spec => RequestsEndAtTheRealMode
<1>1. HandoffInv /\ ControllerTypes /\ [Next]_vars
      => [intent.pending /\ ~intent'.pending
          => intent'.desired = formal' \/ intent' = saved.intent]_vars
      BY ControllerSound DEF EndsAtTheRealMode
<1> QED BY <1>1, HandoffIsSound, PTL DEF Spec, RequestsEndAtTheRealMode
=============================================================================

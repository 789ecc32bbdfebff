----------------------------- MODULE FlvxGroups -----------------------------
(* The connection limit of the users of a FLVX share. A pass of the Helper   *)
(* reads a snapshot of the Core, turns the budget of each user into the limit *)
(* of a group of the Core, and applies it with the other settings            *)
(* (flvx_user_limits.go, flvx_runtime.go). A budget is the number of         *)
(* connections left for the user on this machine, without relayed ones.      *)
(*                                                                           *)
(* The Core binds a lease to the group of its user when it admits the lease. *)
(* Those admitted before the group existed never count for it, so the limit  *)
(* has to leave room for relays and to make up for leases not counted.       *)
EXTENDS FlvxBudgets

CONSTANTS MaxLeases    \* how many leases may be open at once

ASSUME LeasesAreCounted == MaxLeases \in Nat

VARIABLES
  leases,    \* user -> kind of lease -> how many are open
  group,     \* user -> its group in the Core, what the limit was made of, and
             \* whether the group existed at the snapshot of that pass
  snapshot   \* what the running pass read of the Core

groupVars == <<leases, group, snapshot>>

\* A lease is direct or relayed, and counted by the group or not.
Lease == {"direct", "relay"} \X BOOLEAN
NoLeases == [k \in Lease |-> 0]
NoGroup == [mapped |-> FALSE, limit |-> None, blocked |-> FALSE,
            budget |-> None, relays |-> 0, settled |-> FALSE]

\* flvxGroupLive: what the limit is made of.
Counted(live) == live[<<"direct", TRUE>>] + live[<<"relay", TRUE>>]
Uncounted(live) == live[<<"direct", FALSE>>] + live[<<"relay", FALSE>>]
Current(live) == Counted(live) + Uncounted(live)
RelayConns(live) == live[<<"relay", TRUE>>] + live[<<"relay", FALSE>>]
Lives(live) ==
  [current |-> Current(live), counted |-> Counted(live), relayConns |-> RelayConns(live)]

GroupInit ==
  /\ leases = [o \in Owners |-> NoLeases]
  /\ group = [o \in Owners |-> NoGroup]
  /\ snapshot = <<>>
------------------------------------------------------------------------------
(* The limit of a group. The Core reads 0 as unlimited: a full user without  *)
(* leases is blocked instead; one with leases gets 1, since a block would    *)
(* close them.                                                               *)
Left(budget, live) == budget + live.relayConns - (live.current - live.counted)

ZeroWhenFull(budget, live) ==
  LET l == Left(budget, live)
  IN  IF l > 0 THEN [limit |-> l, blocked |-> FALSE]
      ELSE [limit |-> 0, blocked |-> live.current = 0]

ConnLimit(budget, live) ==
  LET l == Left(budget, live)
  IN  IF l > 0 THEN [limit |-> l, blocked |-> FALSE]
      ELSE [limit |-> 1, blocked |-> live.current = 0]

UserLimits(budget, live, before) ==
  IF budget = None THEN NoGroup
  ELSE [mapped |-> TRUE, limit |-> ConnLimit(budget, live).limit,
        blocked |-> ConnLimit(budget, live).blocked,
        budget |-> budget, relays |-> live.relayConns, settled |-> before.mapped]

TakeSnapshot ==
  /\ snapshot = <<>>
  /\ snapshot' = [o \in Owners |-> Lives(leases[o])]
  /\ UNCHANGED <<leases, group>>

\* Users without a budget have no group; a block closes the open leases.
ApplyLimits ==
  /\ snapshot # <<>>
  /\ group' = [o \in Owners |-> UserLimits(held.users[o], snapshot[o], group[o])]
  /\ leases' = [o \in Owners |-> IF group'[o].blocked THEN NoLeases ELSE leases[o]]
  /\ snapshot' = <<>>
------------------------------------------------------------------------------
\* The Core: a client or a relay connects, a lease ends.
Admits(o) ==
  /\ ~group[o].blocked
  /\ group[o].limit \notin {None, 0} => Counted(leases[o]) < group[o].limit

Connects(o, from) ==
  /\ Admits(o)
  /\ FoldSet(LAMBDA x, sum : Current(leases[x]) + sum, 0, Owners) < MaxLeases
  /\ leases' = [leases EXCEPT ![o][<<from, group[o].mapped>>] = @ + 1]
  /\ UNCHANGED <<group, snapshot>>

Ends(o, k) ==
  /\ leases[o][k] > 0
  /\ leases' = [leases EXCEPT ![o][k] = @ - 1]
  /\ UNCHANGED <<group, snapshot>>

GroupStep ==
  \/ TakeSnapshot \/ ApplyLimits
  \/ \E o \in Owners : \/ \E from \in {"direct", "relay"} : Connects(o, from)
                       \/ \E k \in Lease : Ends(o, k)

GroupsSpec ==
  /\ BudgetsInit /\ GroupInit
  /\ [][\/ BudgetStep /\ UNCHANGED groupVars
        \/ GroupStep /\ UNCHANGED <<budgetVars, spent>>]_<<budgetVars, spent, groupVars>>
------------------------------------------------------------------------------
(* From the second pass of a group on the Core admits a lease of its user    *)
(* only within the budget plus the relays the pass has seen, whatever opened *)
(* and closed since the snapshot and however many leases the group misses    *)
(* (flvxGroupConnLimit, flvx_user_limits.go:235-260). Two gaps are left: the *)
(* first pass misses what opened since its snapshot, and the limit of 1 of a *)
(* full user none of whose leases are counted lets one more in.              *)
AdmittedWithinBudget ==
  [][\A o \in Owners :
       (Current(leases'[o]) > Current(leases[o]) /\ group[o].settled) =>
         \/ Current(leases'[o]) <= group[o].budget + group[o].relays
         \/ Counted(leases[o]) = 0]_groupVars
=============================================================================

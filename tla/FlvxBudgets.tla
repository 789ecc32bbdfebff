----------------------------- MODULE FlvxBudgets -----------------------------
(* The budgets of the users of one FLVX share, from FLVX to the Helper:      *)
(* flvx_user_limits.go of the controller, submitUserLimits and budgetView of *)
(* the Helper.                                                               *)
(*                                                                           *)
(* FLVX sends all budgets of the share under a sequence it takes from its    *)
(* clock. The controller keeps the newest in memory and hands it to the      *)
(* Helper with the answer to an upload, and the Helper keeps it in memory,   *)
(* too. Whoever holds budgets drops them at the time set when FLVX sent      *)
(* them, so that a lost FLVX limits nobody. A budget is one number here: the *)
(* rate of the user in FlvxRate, its connections in FlvxGroups. Both         *)
(* machines read the same clock.                                             *)
EXTENDS Naturals, FiniteSetsExt

CONSTANTS
  None,         \* no limit, no user
  Owners,       \* the users with nodes on the share
  Offers,       \* the budgets FLVX may send: owner -> what it gets, or None
  Sequences,    \* the sequences it may send them under
  TTL,          \* UserLimitsTTL
  Kinds,        \* the kinds of things that may change or go wrong
  Budgets,      \* kind -> how often it may
  Total         \* how often any of them may, all together

ASSUME NoneIsNoNumber == None \notin Nat
ASSUME OwnersAreNumbers == Owners \subseteq Nat \ {0} /\ IsFiniteSet(Owners)
ASSUME OffersAreNumbers == Offers \subseteq [Owners -> Nat \cup {None}]
ASSUME SequencesArePositive == Sequences \subseteq Nat \ {0} /\ TTL \in Nat \ {0}
ASSUME BudgetsAreCounts ==
  /\ {"put", "forget"} \subseteq Kinds
  /\ Budgets \in [Kinds -> Nat] /\ Total \in Nat

VARIABLES
  sent,    \* the offers FLVX has sent, as pairs <<sequence, offer>>
  entry,   \* flvxLimits of the controller
  held,    \* budgets of the Helper
  spent    \* kind -> how often it happened

budgetVars == <<sent, entry, held>>

\* Budgets in force: their sequence, what they give, and how long they last.
NoBudgets == [seq |-> 0, users |-> [o \in Owners |-> None], left |-> 0]

\* One of the bounded things happens.
Spend(kind) ==
  /\ spent[kind] < Budgets[kind]
  /\ FoldSet(LAMBDA k, sum : spent[k] + sum, 0, Kinds) < Total
  /\ spent' = [spent EXCEPT ![kind] = @ + 1]

BudgetsInit ==
  /\ sent = {}
  /\ entry = NoBudgets
  /\ held = NoBudgets
  /\ spent = [k \in Kinds |-> 0]
------------------------------------------------------------------------------
(* FLVX sends budgets under a sequence it has not used, or an earlier call   *)
(* of its arrives late or a second time. A sequence that is not newer than   *)
(* the stored one changes nothing, and does not move the expiry either. The  *)
(* sequences need not rise: the clock of FLVX may be set back.               *)
Accepted(s, users) ==
  IF s > entry.seq THEN [seq |-> s, users |-> users, left |-> TTL] ELSE entry

PutUserLimits ==
  \E s \in Sequences, users \in Offers :
    /\ \A call \in sent : call[1] = s => call[2] = users
    /\ Spend("put")
    /\ sent' = sent \cup {<<s, users>>}
    /\ entry' = Accepted(s, users)
    /\ UNCHANGED held

(* The controller drops the budgets: it restarts, the share is paused, or    *)
(* its Helper cannot apply them.                                             *)
ForgetUserLimits ==
  /\ entry # NoBudgets
  /\ Spend("forget")
  /\ entry' = NoBudgets
  /\ UNCHANGED <<sent, held>>

(* The Helper uploads what it holds, and gets the budgets with the answer    *)
(* when it does not hold them. The newest sequence wins; an older one only   *)
(* replaces budgets that are over. An answer that gets lost is an upload     *)
(* that did not happen.                                                      *)
HandedOut(seq) == IF entry.seq # seq THEN entry ELSE NoBudgets

Submitted(e) == IF e.left > 0 /\ e.seq >= held.seq THEN e ELSE held

Upload ==
  /\ held' = Submitted(HandedOut(held.seq))
  /\ held' # held
  /\ UNCHANGED <<sent, entry, spent>>

(* Time passes. Budgets that reach their expiry are not in force any more,   *)
(* and their sequence is forgotten with them.                                *)
NeverExpires(e) == IF e.left > 1 THEN [e EXCEPT !.left = @ - 1] ELSE e

Aged(e) == IF e.left > 1 THEN [e EXCEPT !.left = @ - 1] ELSE NoBudgets

Tick ==
  /\ entry # NoBudgets \/ held # NoBudgets
  /\ entry' = Aged(entry)
  /\ held' = Aged(held)
  /\ UNCHANGED <<sent, spent>>

BudgetStep == PutUserLimits \/ ForgetUserLimits \/ Upload \/ Tick
=============================================================================

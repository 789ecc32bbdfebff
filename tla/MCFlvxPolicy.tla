---------------------------- MODULE MCFlvxPolicy ----------------------------
(* A small share for TLC: two nodes, a plan for one and a plan for both, two *)
(* sites with the same two addresses, two ports for guards.                  *)
EXTENDS FlvxPolicy, TLC

CONSTANTS a, b, A, B, x, y, d, e

MCNodes == {a, b}
MCPlans == {A, B}
MCCovers == A :> {a} @@ B :> {a, b}
MCKinds == {"wish", "check", "fault", "stop", "crash", "core"}
MCBudgets == "wish" :> 1 @@ "check" :> 1 @@ "fault" :> 1 @@ "stop" :> 1 @@ "crash" :> 1 @@ "core" :> 1
MCFirst == {[plan |-> A, guard |-> TRUE, nodes |-> Nodes, dest |-> d, taken |-> {}]}
MCFirstCheck == d :> [best |-> x, answer |-> x, why |-> Keep] @@
                e :> [best |-> None, answer |-> None, why |-> Keep]
=============================================================================

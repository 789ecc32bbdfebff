---------------------------- MODULE MCFlvxLimits ----------------------------
(* The two limits of FlvxRate and FlvxGroups on small shares for TLC. They   *)
(* have only the budgets in common, so each is checked on a share of its     *)
(* own: two users on two ports and two devices for the rates, one user for   *)
(* the connections.                                                          *)
EXTENDS FlvxRate, FlvxGroups, TLC

VARIABLE about

MCRates == {<<1, None>>, <<2, 1>>, <<None, 1>>}
MCConnections == {<<0, None>>, <<1, None>>}
MCOffers == MCRates \cup MCConnections
MCFirst == {[node |-> <<1, 2>>, net |-> <<"chosen", n>>] : n \in {"plain", "taken"}}
MCKinds == {"put", "forget", "node", "device", "meddle", "fault", "death"}
MCBudgets == [k \in MCKinds |-> IF k = "put" THEN 2 ELSE 1]

allVars == <<vars, groupVars, about>>

MCInit ==
  /\ Init /\ GroupInit
  /\ \/ about = "rates"
     \/ about = "connections" /\ "taken" \notin {net[d] : d \in Devs}

\* FLVX sends what the share is about, for connections once. The second user
\* has no connections.
Fitting ==
  /\ \A call \in sent : call[2] \in (IF about = "rates" THEN MCRates ELSE MCConnections)
  /\ about = "connections" => spent["put"] + spent["forget"] < 2
  /\ leases[2] = NoLeases

MCNext ==
  /\ UNCHANGED about
  /\ \/ about = "rates" /\ Next /\ UNCHANGED groupVars
     \/ about = "connections" /\ Budget /\ UNCHANGED groupVars
     \/ about = "connections" /\ GroupStep /\ UNCHANGED vars
  /\ Fitting'

MCSpec == MCInit /\ [][MCNext]_allVars /\ (about = "rates" => Fairness)
=============================================================================

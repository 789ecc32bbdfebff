--------------------------- MODULE MCUserDeletion ---------------------------
(* A user alone on two inbounds; two users on one, with a change of the     *)
(* official system or with a fault.                                         *)
EXTENDS UserDeletion

OneUser == [on |-> [x \in User |-> IF x = "u" THEN Inbound ELSE {}], official |-> 0, faults |-> 0]
TwoUsers == [on |-> [x \in User |-> {"i1"}], official |-> MaxOfficial, faults |-> 0]
Accesses == {OneUser, TwoUsers, [TwoUsers EXCEPT !.official = 0, !.faults = MaxFaults]}
=============================================================================

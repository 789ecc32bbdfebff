-------------------------- MODULE MCControlConfig --------------------------
(* Each behaviour has a few events of some kinds: the sets of kinds that     *)
(* meet in one step of the code are together in one budget.                 *)
EXTENDS ControlConfig

Few(kinds) == [k \in Kinds |-> IF k \in kinds THEN 1 ELSE 0]
Budget ==
    {Few({"drift", "fault", "command"}), Few({"crash", "fault", "command"}),
     Few({"write", "drift"}), Few({"write", "crash", "fault"}),
     Few({"write", "edit", "fault"}), Few({"edit", "crash", "fault"}),
     [Few({"fault"}) EXCEPT !["command"] = 3]}
=============================================================================

---------------------------- MODULE TrafficMeter ----------------------------
(* What the billing of a FLVX share promises, without Helper, reports and     *)
(* faults: a meter that is read from time to time. It may lag behind the Core *)
(* and miss bytes for good, but it never runs ahead of it nor backwards, and  *)
(* what it bills counts against the quota of its period.                      *)
EXTENDS Naturals, FiniteSetsExt

CONSTANTS Node

VARIABLES
  carried,   \* node -> bytes the Core has carried
  billed,    \* node -> bytes in the ledger
  period,    \* the quota period of the usage
  used       \* bytes that count against the quota

meterVars == <<carried, billed, period, used>>

MeterInit ==
  /\ carried = [n \in Node |-> 0] /\ billed = [n \in Node |-> 0]
  /\ period \in Nat /\ used = 0

Carries(n) ==
  /\ carried' = [carried EXCEPT ![n] = @ + 1]
  /\ UNCHANGED <<billed, period, used>>

Billed ==
  LET read == [n \in Node |-> billed'[n] - billed[n]]
  IN  MapThenSumSet(LAMBDA n : read[n], Node)

\* A reading bills each node up to what it carried. The usage grows by as much, or by
\* more when the Helper knows of bytes that are not in the ledger; a reading of another
\* period does not count against this one.
Reading(usage) ==
  /\ DOMAIN billed' = Node
  /\ \A n \in Node : billed'[n] \in billed[n]..carried[n]
  /\ used' = usage \/ used' >= usage + Billed
  /\ UNCHANGED carried

NewPeriod == period' > period /\ Reading(0)

MeterNext ==
  \/ \E n \in Node : Carries(n)
  \/ UNCHANGED period /\ Reading(used)
  \/ NewPeriod

MeterSpec == MeterInit /\ [][MeterNext]_meterVars
=============================================================================

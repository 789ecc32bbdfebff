------------------------------ MODULE FlvxPins ------------------------------
(* The pinned Reality destinations of one FLVX share: flvx_reality_pin.go.  *)
(*                                                                           *)
(* Every VLESS node borrows the TLS handshake of a public site. The Helper   *)
(* pins the node to one address of that site. A check of a site is a record  *)
(*   best    the fastest address that answered, or None                      *)
(*   answer  the first address of the last DNS answer, or None               *)
(*   why     address -> what the check says of a pin to it that is not       *)
(*           "best": "failed" (it did not answer), "better" (slower by the   *)
(*           margin, or gone from the answer for 12 hours) or "keep"         *)
(* The times of the checks (6 h, 10 min, 1 min) only delay them: a pass uses *)
(* the last result, and a new result may come before any pass.               *)
CONSTANTS
  IPs,    \* the public addresses a site may have
  Dests,  \* the sites a share may ask for ("host:port")
  None    \* nothing: no pin, no port, no answer, no plan

ASSUME NoneIsNoAddress == None \notin IPs \cup Dests

Keep == [ip \in IPs |-> "keep"]

\* The answer matters while no address answers, "why" while another one does.
Checks ==
  {[best |-> None, answer |-> ip, why |-> Keep] : ip \in IPs \cup {None}} \cup
  UNION {{[best |-> ip, answer |-> ip, why |-> [w EXCEPT ![ip] = "keep"]] :
            w \in [IPs -> {"failed", "better", "keep"}]} : ip \in IPs}

\* The pin belongs to the node's current site.
RealityPin(pin, dest) == pin # None /\ pin.dest = dest

NewPin(pin, dest, check) ==
  CASE check.best # None -> [dest |-> dest, ip |-> check.best, fallback |-> FALSE]
    [] check.best = None /\ check.answer # None -> [dest |-> dest, ip |-> check.answer, fallback |-> TRUE]
    [] OTHER -> pin

\* A pin leaves an address that failed at once, and a slower or fallback one
\* only while the move keeps the node's connections ("free").
Leaves(pin, check, free) ==
  /\ check.best \notin {None, pin.ip}
  /\ \/ check.why[pin.ip] = "failed"
     \/ free /\ (check.why[pin.ip] = "better" \/ pin.fallback)

DecidePin(pin, dest, check, free) ==
  IF ~RealityPin(pin, dest) THEN NewPin(pin, dest, check)
  ELSE IF Leaves(pin, check, free) THEN [dest |-> dest, ip |-> check.best, fallback |-> FALSE]
  ELSE pin
=============================================================================

-------------------------- MODULE MCServerDeletion --------------------------
(* Server 1 is deleted.  A full inventory, and bare ones, with install tokens *)
(* and with users whose block lists an evaluation may write late.             *)
EXTENDS ServerDeletion

Node(server) == [NewNode EXCEPT !.server = server]
Full ==
    [servers |-> {1, 2},
     nodes |-> <<Node(1),
                 [Node(2) EXCEPT !.needs = {1}, !.routed = TRUE, !.tag = 2],
                 [Node(2) EXCEPT !.relay = {1, 4}],
                 [Node(2) EXCEPT !.tag = 4],
                 [Node(2) EXCEPT !.chain = 1]>>,
     packs |-> <<{1, 4}, {1, 2}, {}>>,
     files |-> <<{1, 4}, {2, 5}>>,
     groups |-> <<{1, 2}, {1, 2}, {1}>>,
     chains |-> <<<<1, 2>>>>,
     inbounds |-> {<<2, 2>>, <<2, 4>>}, routes |-> {2},
     tunnels |-> <<[server |-> 2, target |-> 1, onto |-> 0], [server |-> 2, target |-> 2, onto |-> 1]>>,
     certificates |-> <<{"renew", "deploy"}>>,
     rows |-> "none", up |-> {1, 2}, agent |-> TRUE, renewed |-> FALSE]

None == [x \in {} |-> {}]
Bare ==
    [Full EXCEPT !.nodes = <<Node(1)>>, !.packs = None, !.files = None, !.groups = None, !.chains = None,
                 !.inbounds = {}, !.routes = {}, !.tunnels = None, !.certificates = None]

Budget(tokens, changes, faults) == [tokens |-> tokens, changes |-> changes, faults |-> faults]
Inventories ==
    {[db |-> Full, budget |-> Budget(0, 1, 1)], [db |-> Bare, budget |-> Budget(1, 0, 1)],
     [db |-> [Bare EXCEPT !.rows = "all"], budget |-> Budget(0, 1, 1)]}
Helpers1 == [s \in {1, 2} |-> IF s = 1 THEN {"m1"} ELSE {}]
=============================================================================

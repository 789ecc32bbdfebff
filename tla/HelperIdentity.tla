--------------------------- MODULE HelperIdentity ---------------------------
(***************************************************************************)
(* Which Helper speaks for which server.  An administrator's install token  *)
(* becomes, when the install script is downloaded, the credential of a new  *)
(* Helper, or the pending credential of a server that has one; a machine    *)
(* that is already installed moves its identity to the token's server.      *)
(*                                                                         *)
(*   helper_identity.go, agent_management.go (acceptManagementReport),      *)
(*   scripts/install-helper.sh, cmd/mmwxc-helper/main.go (uninstall)        *)
(*                                                                         *)
(* The k-th token stands for the install token, the rebind token, and the   *)
(* Helper credential made with it, and k also names the identity (the      *)
(* CustomServerUUID) it created.  The whole state is one file; a save that  *)
(* fails leaves the change in memory, and the file with or without it.      *)
(* ServerDeletion composes this module with the deletion of servers.        *)
(***************************************************************************)
EXTENDS Integers, FiniteSets

CONSTANTS
    Server, Machine,
    First,      \* the servers with a Helper at the start, and its machine
    MaxTokens   \* bound: the tokens, the first Helpers' included

ASSUME IdentityAssumption ==
    /\ MaxTokens \in Nat /\ First \in [Server -> SUBSET Machine]
    /\ Cardinality({s \in Server : First[s] # {}}) <= MaxTokens
    /\ \A s, r \in Server : Cardinality(First[s]) <= 1 /\ (s # r => First[s] \cap First[r] = {})

Token == 1..MaxTokens
Nobody == 0

VARIABLES
    mem,      \* a.helperState.data
    file,     \* the state file
    asked,    \* requests for a token, authorised when the official system had the server
    held,     \* the install commands administrators hold
    age,      \* age[k]: 1 when install and rebind token are over, 2 the pending credential too
    script,   \* script[m]: the install script that runs on m: the identity and token it carries
    config,   \* config[m]: the Helper configuration of m
    core,     \* the machines whose own Core runs
    outbox,   \* outbox[m]: the uninstall command m has executed, and with what result
    budget    \* bound: what is left of tokens, changes from outside and faults

identityVars == <<mem, file, asked, held, age, script, config, core, outbox, budget>>

NoIdentity == [uuid |-> Nobody, hash |-> Nobody, pend |-> Nobody]
NoConfig == [uuid |-> Nobody, token |-> Nobody]
NoScript == NoConfig
NoResult == [command |-> 0, ok |-> FALSE]

Spend(what) == budget[what] > 0 /\ budget' = [budget EXCEPT ![what] = @ - 1]
Free == UNCHANGED budget

\* saveLocked: the whole state, or an error after which the file may hold it or not.
Saves(new, ok) ==
    /\ mem' = new
    /\ IF ok THEN file' = new /\ Free ELSE file' \in {file, new} /\ Spend("faults")

\* pruneExpiredLocked, run by every operation on tokens.
Pruned(st) ==
    [st EXCEPT !.install = {r \in @ : age[r.token] = 0},
               !.rebind = {r \in @ : age[r.token] = 0},
               !.identity = [s \in Server |->
                   IF @[s].pend # Nobody /\ age[@[s].pend] = 2 THEN [@[s] EXCEPT !.pend = Nobody] ELSE @[s]]]

\* authorizeReporter: the configuration names the identity, and has its credential
\* or its pending one.
Authorises(st, s, c) ==
    /\ c.uuid # Nobody /\ st.identity[s].uuid = c.uuid
    /\ \/ st.identity[s].hash = c.token
       \/ st.identity[s].pend = c.token /\ age[c.token] < 2

Authorised(st, c) == \E s \in Server : Authorises(st, s, c)

-----------------------------------------------------------------------------
(* Tokens *)

\* createHelperInstallTokenHandler reads the official servers before it takes the lock.
Ask(s) ==
    /\ asked' = asked \cup {s}
    /\ UNCHANGED <<mem, file, held, age, script, config, core, outbox, budget>>

Made == {k \in Token : age[k] >= 0}

\* The record of createInstallTokenForMode for server s with the identity id.
InstallToken(k, s, id, st) ==
    [token |-> k, server |-> s, uuid |-> id.uuid, preserve |-> st.identity[s].hash # Nobody]

CreateToken(s, ok) ==
    /\ s \in asked /\ budget["tokens"] > 0
    /\ LET k == Cardinality(Made) + 1
           st == Pruned(mem)
           id == IF st.identity[s].uuid = Nobody THEN [NoIdentity EXCEPT !.uuid = k] ELSE st.identity[s]
           new == [st EXCEPT !.identity[s] = id, !.install = @ \cup {InstallToken(k, s, id, st)}]
       IN  /\ mem' = new
           /\ IF ok THEN file' = new /\ held' = held \cup {k} /\ budget' = [budget EXCEPT !["tokens"] = @ - 1]
              ELSE /\ file' \in {file, new} /\ UNCHANGED held /\ budget["faults"] > 0
                   /\ budget' = [budget EXCEPT !["tokens"] = @ - 1, !["faults"] = @ - 1]
           /\ age' = [age EXCEPT ![k] = 0]
    /\ asked' = asked \ {s}
    /\ UNCHANGED <<script, config, core, outbox>>

\* consumeInstallToken; a server with a Helper gets the credential as a pending one.
Consumed(st, r) ==
    LET id == st.identity[r.server]
    IN  [st EXCEPT
           !.identity[r.server] =
               IF r.preserve THEN [id EXCEPT !.uuid = r.uuid, !.pend = r.token]
               ELSE [id EXCEPT !.uuid = r.uuid, !.hash = r.token],
           !.rebind = @ \cup {[token |-> r.token, server |-> r.server]},
           !.install = @ \ {r}]

\* Mutant: the script is handed out although the state could not be saved.
UnsavedScript(m, r, ok) == script' = [script EXCEPT ![m] = [uuid |-> r.uuid, token |-> r.token]]
HandsOut(m, r, ok) ==
    IF ok THEN script' = [script EXCEPT ![m] = [uuid |-> r.uuid, token |-> r.token]]
    ELSE UNCHANGED script

\* The install command fetches the script.
Download(m, k, ok) ==
    /\ k \in held /\ script[m] = NoScript
    /\ \E r \in Pruned(mem).install :
         /\ r.token = k
         /\ Saves(Consumed(Pruned(mem), r), ok)
         /\ HandsOut(m, r, ok)
    /\ held' = held \ {k}
    /\ UNCHANGED <<asked, age, config, core, outbox>>

\* An expired token is not found.
DownloadsNothing(k) ==
    /\ k \in held /\ ~\E r \in Pruned(mem).install : r.token = k
    /\ mem' = Pruned(mem) /\ held' = held \ {k} /\ Free
    /\ UNCHANGED <<file, asked, age, script, config, core, outbox>>

-----------------------------------------------------------------------------
(* Machines *)

\* The script on a machine without a configuration writes the new one.
InstallFresh(m) ==
    /\ script[m] # NoScript /\ config[m] = NoConfig
    /\ config' = [config EXCEPT ![m] = script[m]]
    /\ core' = core \cup {m} /\ script' = [script EXCEPT ![m] = NoScript]
    /\ UNCHANGED <<mem, file, asked, held, age, outbox, budget>>

\* rebindMachine: the machine's identity moves to the server of its token.
Rebound(st, s, r) ==
    [st EXCEPT
       !.identity = [x \in Server |->
           IF x = r.server THEN [st.identity[s] EXCEPT !.pend = Nobody]
           ELSE IF x = s THEN NoIdentity ELSE @[x]],
       !.results = [x \in Server |-> IF x = s /\ s # r.server THEN {}
                                     ELSE IF x = r.server /\ st.results[s] # {} THEN st.results[s] ELSE @[x]],
       !.queue = [x \in Server |-> IF x = s /\ s # r.server THEN 0 ELSE @[x]],
       !.rebind = @ \ {r}]

\* The script on a machine that has a configuration keeps it, and asks to be moved;
\* it needs the credential itself, a pending one is not enough.
Rebinds(m, ok) ==
    /\ script[m] # NoScript /\ config[m] # NoConfig
    /\ LET st == Pruned(mem) IN
         \E r \in st.rebind, s \in Server :
            /\ r.token = script[m].token
            /\ st.identity[s].hash = config[m].token /\ st.identity[s].uuid = config[m].uuid
            /\ Saves(Rebound(st, s, r), ok)
    /\ script' = [script EXCEPT ![m] = NoScript]
    /\ UNCHANGED <<asked, held, age, config, core, outbox>>

\* The rebind is refused, or the installation breaks off before it.
InstallEnds(m) ==
    /\ script[m] # NoScript /\ config[m] # NoConfig
    /\ script' = [script EXCEPT ![m] = NoScript]
    /\ UNCHANGED <<mem, file, asked, held, age, config, core, outbox, budget>>

\* acceptManagementReport, on the identity and the uninstall command.
Reported(st, s, m) ==
    LET c == config[m]
        done == outbox[m].command # 0
    IN  [st EXCEPT
           !.identity[s] = IF @.hash = c.token THEN @ ELSE [@ EXCEPT !.hash = c.token, !.pend = Nobody],
           !.rebind = IF st.identity[s].hash = c.token THEN @ ELSE {r \in @ : r.server # s},
           !.results[s] = IF done THEN @ \cup {outbox[m]} ELSE @,
           !.queue[s] = IF done /\ @ = outbox[m].command THEN 0 ELSE @]

\* A report that could not be saved is undone in memory.
Undone(new) == UNCHANGED mem

\* The report of a Helper; with the uninstall acknowledged it removes itself.
Report(m, s, ok) ==
    /\ Authorises(mem, s, config[m])
    /\ LET new == Reported(mem, s, m)
       IN  /\ new # mem
           /\ IF ok THEN mem' = new /\ file' = new /\ Free
              ELSE Undone(new) /\ file' \in {file, new} /\ Spend("faults")
    /\ IF ok /\ outbox[m].ok
       THEN config' = [config EXCEPT ![m] = NoConfig] /\ outbox' = [outbox EXCEPT ![m] = NoResult]
       ELSE UNCHANGED config /\ outbox' = (IF ok THEN [outbox EXCEPT ![m] = NoResult] ELSE outbox)
    /\ UNCHANGED <<asked, held, age, script, core>>

\* A Helper that is refused (HTTP 401), by its credential or because its server is
\* gone, and waits for the acknowledgement of its uninstallation, takes that for it.
Refused(m, servers) ==
    /\ outbox[m].ok /\ ~\E s \in servers : Authorises(mem, s, config[m])
    /\ config' = [config EXCEPT ![m] = NoConfig] /\ outbox' = [outbox EXCEPT ![m] = NoResult]
    /\ UNCHANGED <<mem, file, asked, held, age, script, core, budget>>

\* helper.uninstall, handed out in the answer to a report: the own Core is
\* stopped first; the result says so.
Uninstall(m, s, ok) ==
    /\ Authorises(mem, s, config[m]) /\ outbox[m] = NoResult /\ mem.queue[s] # 0
    /\ outbox' = [outbox EXCEPT ![m] = [command |-> mem.queue[s], ok |-> ok]]
    /\ IF ok THEN core' = core \ {m} /\ Free ELSE UNCHANGED core /\ Spend("faults")
    /\ UNCHANGED <<mem, file, asked, held, age, script, config>>

\* uninstall-helper.sh, run by an administrator.
Wipe(m) ==
    /\ config[m] # NoConfig /\ script[m] = NoScript /\ Spend("changes")
    /\ config' = [config EXCEPT ![m] = NoConfig] /\ core' = core \ {m}
    /\ outbox' = [outbox EXCEPT ![m] = NoResult]
    /\ UNCHANGED <<mem, file, asked, held, age, script>>

Expire(k) ==
    /\ age[k] \in {0, 1} /\ age' = [age EXCEPT ![k] = @ + 1]
    /\ UNCHANGED <<mem, file, asked, held, script, config, core, outbox, budget>>

-----------------------------------------------------------------------------
(* The controller as a whole *)

\* At the start every server that has a Helper has a token of its own.
FirstToken == CHOOSE f \in [Server -> 0..MaxTokens] :
                  \A s \in Server : /\ First[s] = {} => f[s] = 0
                                    /\ First[s] # {} => f[s] # 0
                                    /\ \A r \in Server : s # r /\ f[s] = f[r] => f[s] = 0

InitialState ==
    [identity |-> [s \in Server |-> [uuid |-> FirstToken[s], hash |-> FirstToken[s], pend |-> Nobody]],
     install |-> {}, rebind |-> {},
     queue |-> [s \in Server |-> 0], results |-> [s \in Server |-> {}]]

IdentityInit ==
    /\ mem = InitialState /\ file = InitialState
    /\ asked = {} /\ held = {}
    /\ age = [k \in Token |-> IF \E s \in Server : FirstToken[s] = k THEN 2 ELSE -1]
    /\ script = [m \in Machine |-> NoScript]
    /\ config = [m \in Machine |->
                    IF \E s \in Server : m \in First[s]
                    THEN LET s == CHOOSE x \in Server : m \in First[x]
                         IN  [uuid |-> FirstToken[s], token |-> FirstToken[s]]
                    ELSE NoConfig]
    /\ core = UNION {First[s] : s \in Server}
    /\ outbox = [m \in Machine |-> NoResult]

\* load, after a restart.
Loaded == mem' = file

Restart ==
    /\ Loaded /\ asked' = {} /\ Spend("faults")
    /\ UNCHANGED <<file, held, age, script, config, core, outbox>>

\* Mutant: its tokens stay.
TokensKept(st, s) == [st EXCEPT !.identity[s] = NoIdentity, !.queue[s] = 0, !.results[s] = {}]

\* retireDeletedServerState, on the state file.
Retired(st, s) ==
    [st EXCEPT !.identity[s] = NoIdentity, !.queue[s] = 0, !.results[s] = {},
               !.install = {r \in @ : r.server # s}, !.rebind = {r \in @ : r.server # s}]

\* What a restart must not undo: a machine that may report still may after it, or its
\* place was taken by another credential (consumeInstallToken hands nothing out that
\* is not saved, and acceptManagementReport takes a promotion back that is not; a save that
\* failed after the rename leaves the promoted credential in the file).
AuthorizedIsDurable ==
    \A m \in Machine, s \in Server :
        Authorises(mem, s, config[m]) =>
            \/ Authorised(file, config[m])
            \/ \E x \in Server : /\ file.identity[x].uuid = config[m].uuid
                                /\ file.identity[x].hash \notin {Nobody, mem.identity[s].hash}

=============================================================================

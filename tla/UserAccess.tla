----------------------------- MODULE UserAccess -----------------------------
(***************************************************************************)
(* Disabling and enabling users.  On a server that supports blocks the     *)
(* identity of the user is put on a block list, which the Helper enforces;  *)
(* elsewhere the credential in the running inbound is swapped for a random  *)
(* one, and the original kept as a backup.  The official account follows.   *)
(*                                                                         *)
(*   user_access_lifecycle.go, user_persistent_disable.go,                  *)
(*   user_persistent_disable_migration.go, user_management.go               *)
(*                                                                         *)
(* A request of an administrator, and the background migration, is a job of *)
(* the user whose lock it holds; every remote call is a step of its own, and *)
(* calls fail with or without effect.  Credentials are abstracted to         *)
(* original, swapped or absent, one for each user and inbound; "Shared" are  *)
(* the ones another user or the administrator depends on.  UserDeletion      *)
(* composes this module with the deletion of users.                          *)
(***************************************************************************)
EXTENDS Integers

CONSTANTS
    User, Inbound,
    Access,       \* what On may be (a user without an inbound does not exist), with the
                  \* changes and faults that are spent before the start
    Shared,       \* the pairs <<x, i>> whose credential is not x's alone
    MaxRequests,  \* bound: requests of administrators
    MaxOfficial,  \* bound: changes the official system makes by itself
    MaxFaults     \* bound: failed calls, restarts, changes of block support

ASSUME AccessAssumption ==
    /\ \A a \in Access : a.on \in [User -> SUBSET Inbound] /\ a.official \in Nat /\ a.faults \in Nat
    /\ Shared \subseteq User \X Inbound
    /\ MaxRequests \in Nat /\ MaxOfficial \in Nat /\ MaxFaults \in Nat

None == "none"
Credential == {None, "original", "swapped"}

VARIABLES
    On,         \* On[x]: the inbounds the official records name for user x; it never changes
    row,        \* the users that exist in the official database
    active,     \* the users whose official account is active
    here,       \* the inbounds in the running configuration
    client,     \* client[x][i]: the credential of x in the running inbound i
    undone,     \* history: the pairs <<x, i>> whose random credential is back by the
                \* replacement of i for another user, who had read i before it went
    life,       \* mmwxc_user_lifecycle
    backup,     \* mmwxc_user_disabled_credentials
    blockRows,  \* mmwxc_user_disable_blocks
    listed,     \* a.disabledUserBlocks
    ready,      \* a.disabledUsersReady
    eval,       \* the background evaluation under way: {what it has read}, or {}
    job,        \* job[x]: the request or migration that holds the lock of x
    supported,  \* the inbounds whose server supports blocks
    enforced,   \* the blocks the Helpers enforce
    confirmed,  \* the blocks in the last reports of the Helpers
    requests, official, faults  \* bound counters

accounts == <<row, active, here, client, undone>>
database == <<life, backup, blockRows>>
memory == <<listed, ready, eval>>
helpers == <<supported, enforced, confirmed>>
vars == <<On, accounts, database, memory, job, helpers, requests, official, faults>>

Pairs == {p \in User \X Inbound : p[2] \in On[p[1]]}
Of(x) == {p \in Pairs : p[1] = x}

Fault == faults < MaxFaults /\ faults' = faults + 1
NoFault == UNCHANGED faults

-----------------------------------------------------------------------------
(* Jobs *)

\* Of a plan: what is left to do, by which means, with which credential.
Item(status, how, write) == [status |-> status, how |-> how, write |-> write]
Nothing == Item(None, None, None)
Done == Item("done", None, None)
Failed == Item("failed", None, None)
NoPlan == [i \in Inbound |-> Nothing]
NoClients == [x \in User |-> [i \in Inbound |-> None]]

\* "read" is what the job last read of the running configuration.
NoJob == [kind |-> None, at |-> None, plan |-> NoPlan, cur |-> None, read |-> NoClients, failed |-> FALSE]

At(x, step) == job[x].at = step
Goto(x, step) == job' = [job EXCEPT ![x].at = step]
Ends(x) == job' = [job EXCEPT ![x] = NoJob]

\* The result of the item under way; the next one follows.
Settles(x, i, item) ==
    job' = [job EXCEPT ![x].at = "items", ![x].cur = None, ![x].read = NoClients, ![x].plan[i] = item]

Pending(x, i) == job[x].plan[i].status = "pending"
Complete(x) == \A i \in Inbound : job[x].plan[i].status \in {None, "done"}

Present(x, i) == i \in here /\ client[x][i] # None
InBackup(x, i) == <<x, i>> \in backup

\* No row of mmwxc_user_lifecycle.
NoLife == [desired |-> None, effective |-> None, pending |-> FALSE, was |-> None]

-----------------------------------------------------------------------------
(* The official account *)

\* A pair is forgotten with its random credential.
StillUndone(pairs) == {p \in pairs : client'[p[1]][p[2]] = "swapped"}

\* An account that becomes inactive loses its clients; a swapped one is not
\* always recognised.  An active account gets its recorded clients.
Sets(x, on) ==
    /\ active' = IF on THEN active \cup {x} ELSE active \ {x}
    /\ \E kept \in SUBSET {i \in On[x] : ~on /\ client[x][i] = "swapped"} :
         client' = [client EXCEPT ![x] = [i \in Inbound |->
             IF i \in kept THEN "swapped"
             ELSE IF on /\ i \in On[x] \cap here THEN "original" ELSE None]]
    /\ undone' = StillUndone(undone)
    /\ UNCHANGED <<row, here>>

\* applyAccessOfficialState, with its outcome.
OfficialApplied(x, enable, ok) ==
    LET was == life[x].was
        want == enable /\ was = "active"
        right == was = None \/ (x \in active) = want
    IN  IF right THEN (IF ok THEN NoFault ELSE Fault) /\ UNCHANGED accounts
        ELSE IF ok THEN Sets(x, want) /\ NoFault
        ELSE Fault /\ (Sets(x, want) \/ UNCHANGED accounts)

\* The official system or its administrator: a renewal, a change of package or
\* of the account's status puts the recorded clients back, or removes them.
OfficialChange(x) ==
    /\ official < MaxOfficial /\ official' = official + 1
    /\ x \in row
    /\ \E on \in BOOLEAN : Sets(x, on)
    /\ UNCHANGED <<database, memory, job, helpers, requests, faults>>

-----------------------------------------------------------------------------
(* The evaluation of disabled users *)

ToBlock == {x \in row : life[x].desired = "disabled"}

\* persistentAccessIdentities: a shared identity is never blocked; a block that
\* was there is kept on a server that stopped answering.
Wanted(users) ==
    {p \in Pairs \ Shared : p[1] \in users /\ (p[2] \in supported \/ p \in blockRows)}

\* Mutant: what was read decides.
StillAll(users) == users
\* Each user is written only if still to be disabled at that time.
Still(users) == users \cap ToBlock

Found(users, found) == {p \in found : p[1] \in Still(users)}
SavesBlocks(users, found) ==
    blockRows' = {p \in blockRows : p[1] \notin Still(users)} \cup Found(users, found)

\* The lock of evaluations keeps them apart, but not the transactions of jobs:
\* it reads, saves user by user, and publishes the lists.
EvaluationReads ==
    /\ eval = {}
    /\ eval' = {[users |-> ToBlock, found |-> Wanted(ToBlock), saved |-> FALSE]}
    /\ UNCHANGED <<accounts, database, listed, ready, job, helpers, requests, official, faults>>

EvaluationSaves ==
    /\ \E e \in eval :
         /\ ~e.saved
         /\ \/ /\ SavesBlocks(e.users, e.found) /\ NoFault
               /\ eval' = {[e EXCEPT !.found = Found(e.users, e.found), !.saved = TRUE]}
               /\ UNCHANGED ready
            \/ /\ Fault /\ \E some \in SUBSET e.users : SavesBlocks(some, e.found)
               /\ eval' = {} /\ ready' = FALSE
    /\ UNCHANGED <<accounts, life, backup, listed, job, helpers, requests, official>>

EvaluationPublishes ==
    /\ \E e \in eval : e.saved /\ listed' = e.found
    /\ eval' = {} /\ ready' = TRUE
    /\ UNCHANGED <<accounts, database, job, helpers, requests, official, faults>>

\* refreshDisabledUsers in a job, with its outcome.
Refreshed(ok) ==
    /\ eval = {}
    /\ IF ok THEN SavesBlocks(ToBlock, Wanted(ToBlock)) /\ listed' = Found(ToBlock, Wanted(ToBlock)) /\ ready' = TRUE
             ELSE Fault /\ ready' = FALSE /\ UNCHANGED <<listed, blockRows>>
    /\ UNCHANGED eval

-----------------------------------------------------------------------------
(* Plans *)

\* analyzeAccessInbound: the running credential is to become "want".
Analyzed(x, i, how, want) ==
    IF ~Present(x, i) \/ (client[x][i] = "swapped" /\ ~InBackup(x, i)) THEN Failed
    ELSE IF client[x][i] = want THEN Done
    ELSE Item("pending", how, want)

\* The credential also serves another user, a package binding or the administrator.
SharesCredential(x, i) == <<x, i>> \in Shared

\* A block comes first; a credential swapped by an older release is put back
\* behind it.
DisableItem(x, i) ==
    IF SharesCredential(x, i) THEN Failed
    ELSE IF i \notin supported THEN Analyzed(x, i, "replace", "swapped")
    ELSE IF ~InBackup(x, i) THEN Item("pending", "block", None)
    ELSE IF ~Present(x, i) THEN Failed
    ELSE Item("pending", "block", IF client[x][i] = "swapped" THEN "original" ELSE None)

StaysInactive(x) == life[x].was = "inactive" /\ x \notin active

EnableItem(x, i) ==
    IF StaysInactive(x) /\ InBackup(x, i) /\ ~Present(x, i) THEN Done
    ELSE IF i \in supported
    THEN IF InBackup(x, i) THEN Analyzed(x, i, "block", "original") ELSE Item("pending", "block", None)
    ELSE IF InBackup(x, i) THEN Analyzed(x, i, "replace", "original") ELSE Done

\* The configuration of a server that cannot be read.
Unread(x, i) == IF job[x].kind = "enable" /\ ~InBackup(x, i) THEN Done ELSE Failed

RequestAccess(x, kind) ==
    /\ requests < MaxRequests /\ requests' = requests + 1
    /\ job[x] = NoJob /\ x \in row
    /\ life[x].desired # "deleted"
    /\ job' = [job EXCEPT ![x].kind = kind, ![x].at = IF kind = "enable" THEN "preset" ELSE "plan"]
    /\ UNCHANGED <<accounts, database, memory, helpers, official, faults>>

\* Enabling sets the official account first.
Preset(x) ==
    /\ At(x, "preset")
    /\ \/ OfficialApplied(x, TRUE, TRUE) /\ Goto(x, "plan")
       \/ OfficialApplied(x, TRUE, FALSE) /\ Ends(x)
    /\ UNCHANGED <<database, memory, helpers, requests, official>>

BuildAccessPlan(x) ==
    /\ At(x, "plan") /\ job[x].kind \in {"disable", "enable"}
    /\ LET made(i) == IF job[x].kind = "disable" THEN DisableItem(x, i) ELSE EnableItem(x, i)
           planned(unread) == [i \in Inbound |->
               IF i \notin On[x] THEN Nothing ELSE IF i \in unread THEN Unread(x, i) ELSE made(i)]
       IN  \/ job' = [job EXCEPT ![x].at = "save", ![x].plan = planned({})] /\ NoFault
           \/ Fault /\ \E i \in On[x] : job' = [job EXCEPT ![x].at = "save", ![x].plan = planned({i})]
    /\ UNCHANGED <<accounts, database, memory, helpers, requests, official>>

Progress(kind) == IF kind = "enable" THEN "enabling" ELSE "disabling"
Desired(kind) == IF kind = "enable" THEN "enabled" ELSE "disabled"
Partial(kind) == IF kind = "enable" THEN "partially_enabled" ELSE "partially_disabled"

\* Mutant: the originals are not stored before they are replaced.
SavedBackups(x) == backup
\* The originals of the credentials that will be swapped.
Backups(x) == backup \cup {p \in Of(x) : job[x].plan[p[2]].write = "swapped"}

\* One transaction: state, plan, backups, blocks.
SaveAccessPlan(x) ==
    /\ At(x, "save") /\ job[x].kind \in {"disable", "enable"}
    /\ LET kind == job[x].kind
           was == IF kind = "disable" /\ life[x].was = None
                  THEN (IF x \in active THEN "active" ELSE "inactive") ELSE life[x].was
       IN  \/ /\ NoFault
              /\ life' = [life EXCEPT ![x] = [desired |-> Desired(kind), effective |-> Progress(kind),
                                              pending |-> ~Complete(x), was |-> was]]
              /\ backup' = Backups(x)
              /\ blockRows' = IF kind = "enable" THEN blockRows \ Of(x)
                              ELSE blockRows \cup {p \in Of(x) : job[x].plan[p[2]].how = "block"}
              /\ Goto(x, "items")
           \/ Fault /\ Ends(x) /\ UNCHANGED database
    /\ UNCHANGED <<accounts, memory, helpers, requests, official>>

-----------------------------------------------------------------------------
(* Items *)

Reads(x, i) == job' = [job EXCEPT ![x].at = "read", ![x].cur = i]

BehindABlock(p) == p \in confirmed

\* executePersistentAccessItem: the lists are evaluated anew; a credential is
\* put back only behind a block that the Helper has confirmed.  Its backup is
\* then not needed any more; it is gone when the result cannot be saved.
BlockItem(x, i) ==
    /\ At(x, "items") /\ Pending(x, i) /\ job[x].plan[i].how = "block"
    /\ \/ /\ Refreshed(TRUE)
          /\ LET disable == job[x].kind # "enable"
                 write == job[x].plan[i].write
             IN  \/ /\ NoFault
                    /\ IF disable /\ (<<x, i>> \notin listed' \/ (write # None /\ ~BehindABlock(<<x, i>>)))
                       THEN Settles(x, i, Failed) /\ UNCHANGED backup
                       ELSE IF write # None THEN Reads(x, i) /\ UNCHANGED backup
                       ELSE Settles(x, i, Done) /\ backup' = backup \ {<<x, i>>}
                 \/ /\ Fault /\ Settles(x, i, Failed)
                    /\ \/ UNCHANGED backup
                       \/ /\ write = None /\ (disable => <<x, i>> \in listed')
                          /\ backup' = backup \ {<<x, i>>}
       \/ Refreshed(FALSE) /\ Settles(x, i, Failed) /\ UNCHANGED backup
    /\ UNCHANGED <<accounts, life, helpers, requests, official>>

ReplaceItem(x, i) ==
    /\ At(x, "items") /\ Pending(x, i) /\ job[x].plan[i].how = "replace"
    /\ Reads(x, i)
    /\ UNCHANGED <<accounts, database, memory, helpers, requests, official, faults>>

\* Mutant: replacements of different users are not kept apart.
Unlocked(x, i) == TRUE
\* The lock of the inbound: from reading it to having verified the new one.
LockFree(x, i) == \A y \in User : ~(At(y, "write") /\ job[y].cur = i)

\* executeAccessItem: the inbound is read, and the plan adapted to it.
ReadInbound(x) ==
    /\ At(x, "read")
    /\ LET i == job[x].cur
           item == job[x].plan[i]
       IN  /\ LockFree(x, i)
           /\ \/ /\ NoFault
                 /\ IF ~Present(x, i) THEN Settles(x, i, Failed)
                    ELSE IF client[x][i] = item.write THEN Settles(x, i, [item EXCEPT !.status = "done"])
                    ELSE job' = [job EXCEPT ![x].at = "write", ![x].read = client]
              \/ Fault /\ Settles(x, i, Failed)
    /\ UNCHANGED <<accounts, database, memory, helpers, requests, official>>

\* The whole inbound is replaced by what was read, with one credential changed.
Replaced(x, i, write) ==
    /\ client' = [y \in User |-> [client[y] EXCEPT ![i] = IF y = x THEN write ELSE job[x].read[y][i]]]
    /\ undone' = StillUndone((undone \ {<<x, i>>})
                              \cup {<<y, i>> : y \in {z \in User \ {x} : client[z][i] # "swapped"}})

WriteInbound(x) ==
    /\ At(x, "write")
    /\ LET i == job[x].cur
           item == job[x].plan[i]
           unneeded == IF item.how = "block" THEN backup \ {<<x, i>>} ELSE backup
       IN  \/ /\ i \in here /\ NoFault
              /\ Replaced(x, i, item.write)
              /\ Settles(x, i, [item EXCEPT !.status = "done"])
              /\ backup' = unneeded
           \/ /\ Settles(x, i, Failed)
              /\ \/ Fault /\ UNCHANGED <<client, undone, backup>>
                 \/ /\ Fault /\ i \in here /\ Replaced(x, i, item.write)
                    /\ backup' \in {backup, unneeded}
                 \/ i \notin here /\ NoFault /\ UNCHANGED <<client, undone, backup>>
    /\ UNCHANGED <<row, active, here, life, blockRows, memory, helpers, requests, official>>

-----------------------------------------------------------------------------
(* The end of a request *)

NoneLeft(x) == At(x, "items") /\ \A i \in Inbound : ~Pending(x, i)

\* The account is not disabled while a node of it is in doubt.
ApplyOfficial(x) ==
    /\ NoneLeft(x) /\ job[x].kind \in {"disable", "enable"}
    /\ IF job[x].kind = "disable" /\ ~Complete(x)
       THEN Goto(x, "refresh") /\ UNCHANGED <<accounts, faults>>
       ELSE \/ OfficialApplied(x, job[x].kind = "enable", TRUE) /\ Goto(x, "refresh")
            \/ /\ OfficialApplied(x, job[x].kind = "enable", FALSE)
               /\ job' = [job EXCEPT ![x].at = "refresh", ![x].failed = TRUE]
    /\ UNCHANGED <<database, memory, helpers, requests, official>>

RefreshAtEnd(x) ==
    /\ At(x, "refresh")
    /\ \/ Refreshed(TRUE) /\ NoFault /\ Goto(x, "finish")
       \/ Refreshed(FALSE) /\ job' = [job EXCEPT ![x].at = "finish", ![x].failed = TRUE]
    /\ UNCHANGED <<accounts, life, backup, helpers, requests, official>>

FinishAccessAttempt(x) ==
    /\ At(x, "finish")
    /\ Ends(x)
    /\ LET kind == job[x].kind
           pending == job[x].failed \/ ~Complete(x)
           clear == kind = "enable" /\ ~pending
       IN  \/ /\ NoFault
              /\ life' = [life EXCEPT ![x] = [desired |-> Desired(kind),
                            effective |-> IF pending THEN Partial(kind) ELSE Desired(kind),
                            pending |-> pending, was |-> IF clear THEN None ELSE life[x].was]]
              /\ backup' = IF clear THEN backup \ Of(x) ELSE backup
           \/ Fault /\ UNCHANGED <<life, backup>>
    /\ UNCHANGED <<accounts, blockRows, memory, helpers, requests, official>>

-----------------------------------------------------------------------------
(* The migration of disabled users, after an evaluation *)

\* Only what the Helper already blocks is touched.  The backup of a client that
\* the official system has removed is given up: its records restore it.
Migrate(x) ==
    /\ job[x] = NoJob /\ eval = {} /\ ready
    /\ x \in ToBlock
    /\ Of(x) \cap backup # {} \/ life[x].was = None \/ x \in active
    /\ life' = [life EXCEPT ![x].was = IF @ # None THEN @ ELSE IF x \in active THEN "active" ELSE "inactive"]
    /\ LET due == {i \in supported : <<x, i>> \in backup \cap listed \cap confirmed}
           planned == [i \in Inbound |-> IF i \in due THEN DisableItem(x, i) ELSE Nothing]
       IN  /\ job' = [job EXCEPT ![x].kind = "migrate", ![x].at = "items", ![x].plan = planned]
           /\ backup' = {p \in backup : ~(p[1] = x /\ p[2] \in due /\ x \notin active /\ ~Present(x, p[2]))}
    /\ UNCHANGED <<accounts, blockRows, memory, helpers, requests, official, faults>>

MigrateOfficial(x) ==
    /\ NoneLeft(x) /\ job[x].kind = "migrate"
    /\ Ends(x)
    /\ IF Complete(x) /\ ready /\ ~life[x].pending /\ Of(x) \cap Shared = {}
       THEN \E ok \in BOOLEAN : OfficialApplied(x, FALSE, ok)
       ELSE UNCHANGED <<accounts, faults>>
    /\ UNCHANGED <<database, memory, helpers, requests, official>>

-----------------------------------------------------------------------------
(* Helpers and the controller process *)

Served(i, pairs) == {p \in pairs : p[2] = i}

\* Mutant: a list only adds to the blocks.
BlocksAdded(i) == enforced \cup Served(i, listed)
Blocks(i) == (enforced \ Served(i, Pairs)) \cup Served(i, listed)

\* A report and its answer, which waits for an evaluation under way: without a
\* valid list the Helper keeps its own.
Report(i) ==
    /\ i \in supported /\ eval = {}
    /\ confirmed' = (confirmed \ Served(i, Pairs)) \cup Served(i, enforced)
    /\ enforced' = IF ready THEN Blocks(i) ELSE enforced
    /\ UNCHANGED <<accounts, database, memory, job, supported, requests, official, faults>>

\* A Helper goes silent, is upgraded or downgraded.
SupportChanges(i) ==
    /\ Fault /\ \E x \in User : i \in On[x]
    /\ supported' = IF i \in supported THEN supported \ {i} ELSE supported \cup {i}
    /\ UNCHANGED <<accounts, database, memory, job, enforced, confirmed, requests, official>>

ControllerRestarts ==
    /\ Fault
    /\ job' = [x \in User |-> NoJob]
    /\ listed' = {} /\ ready' = FALSE /\ eval' = {}
    /\ UNCHANGED <<accounts, database, helpers, requests, official>>

AccessJob(x) ==
    \/ Preset(x) \/ BuildAccessPlan(x) \/ SaveAccessPlan(x)
    \/ \E i \in Inbound : BlockItem(x, i) \/ ReplaceItem(x, i)
    \/ ReadInbound(x) \/ WriteInbound(x)
    \/ ApplyOfficial(x) \/ RefreshAtEnd(x) \/ FinishAccessAttempt(x)
    \/ MigrateOfficial(x)

AccessInit ==
    /\ \E a \in Access : On = a.on /\ official = a.official /\ faults = a.faults
    /\ row = {x \in User : On[x] # {}}
    /\ undone = {}
    /\ active \in SUBSET row
    /\ here = UNION {On[x] : x \in User}
    /\ client = [x \in User |-> [i \in Inbound |-> IF x \in active /\ i \in On[x] THEN "original" ELSE None]]
    /\ life = [x \in User |-> NoLife]
    /\ backup = {} /\ blockRows = {}
    /\ listed = {} /\ ready = FALSE /\ eval = {}
    /\ job = [x \in User |-> NoJob]
    /\ supported \in SUBSET here
    /\ enforced = {} /\ confirmed = {}
    /\ requests = 0

AccessStep ==
    \/ \E x \in User :
         \/ \E kind \in {"disable", "enable"} : RequestAccess(x, kind)
         \/ AccessJob(x) \/ Migrate(x) \/ OfficialChange(x)
    \/ EvaluationReads \/ EvaluationSaves \/ EvaluationPublishes
    \/ \E i \in Inbound : Report(i) \/ SupportChanges(i)
    \/ ControllerRestarts
=============================================================================

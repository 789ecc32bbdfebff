---------------------------- MODULE UserDeletion ----------------------------
(***************************************************************************)
(* The deletion of a user, composed with disabling and enabling             *)
(* (UserAccess): the clients of the user are taken out of every running     *)
(* inbound, an inbound nobody else uses is removed, and only when all of    *)
(* that has been verified the row of the user goes.                         *)
(*                                                                         *)
(*   user_lifecycle.go, user_delete_snapshot.go, user_management.go         *)
(*                                                                         *)
(* A deletion is a job of the user like a request of UserAccess, under the  *)
(* same lock of the user.  Packages and external nodes are left out; their  *)
(* items would come after those of the inbounds.                            *)
(***************************************************************************)
EXTENDS UserAccess

VARIABLE
    wholes  \* the saved deletion snapshots: inbounds to be removed as a whole

allVars == <<vars, wholes>>

-----------------------------------------------------------------------------
(* The plan *)

Others(x, i) == {y \in row \ {x} : i \in On[y]}

\* A credential of nobody we know of.
Unknown(y, i) == client[y][i] = "swapped" /\ ~InBackup(y, i)

\* analyzeLifecycleInbound, and what a resumed operation had planned.
DeletionItem(x, i) ==
    IF i \notin here THEN Done
    ELSE IF \/ client[x][i] # None /\ <<x, i>> \in Shared
            \/ \E y \in Others(x, i) \cup {x} : Unknown(y, i)
            \/ \E y \in Others(x, i) : client[y][i] = None
         THEN Failed
    ELSE IF client[x][i] = None /\ <<x, i>> \notin wholes THEN Done
    ELSE Item("pending", IF Others(x, i) = {} \/ client[x][i] = None THEN "whole" ELSE "remove", None)

Deleting(x) == life[x].effective \in {"deleting", "delete_partial"}

RequestDelete(x) ==
    /\ requests < MaxRequests /\ requests' = requests + 1
    /\ job[x] = NoJob /\ x \in row
    /\ job' = [job EXCEPT ![x].kind = "delete", ![x].at = "plan"]
    /\ UNCHANGED <<accounts, database, memory, helpers, official, faults, wholes>>

\* A new deletion with a conflict is refused; a resumed one does what it can.
BuildDeletionPlan(x) ==
    /\ At(x, "plan") /\ job[x].kind = "delete"
    /\ \E unread \in SUBSET On[x] :
         /\ IF unread = {} THEN NoFault ELSE Fault
         /\ LET plan == [i \in Inbound |-> IF i \notin On[x] THEN Nothing
                                           ELSE IF i \in unread THEN Failed ELSE DeletionItem(x, i)]
            IN  IF Failed \in {plan[i] : i \in Inbound} /\ ~Deleting(x)
                THEN Ends(x)
                ELSE job' = [job EXCEPT ![x].at = "save", ![x].plan = plan, ![x].read = client]
    /\ UNCHANGED <<accounts, database, memory, helpers, requests, official, wholes>>

SaveDeletePlan(x) ==
    /\ At(x, "save") /\ job[x].kind = "delete"
    /\ \/ /\ NoFault
          /\ life' = [life EXCEPT ![x].desired = "deleted", ![x].effective = "deleting", ![x].pending = ~Complete(x)]
          /\ wholes' = wholes \cup {p \in Of(x) : job[x].plan[p[2]].how = "whole"}
          /\ Goto(x, "items")
       \/ Fault /\ Ends(x) /\ UNCHANGED <<life, wholes>>
    /\ UNCHANGED <<accounts, backup, blockRows, memory, helpers, requests, official>>

-----------------------------------------------------------------------------
(* Items *)

\* Unlike Settles, the clients seen by the plan stay known; a result that cannot
\* be saved is a failed one.
Marks(x, i, status) ==
    job' = [job EXCEPT ![x].at = "items", ![x].cur = None, ![x].plan[i].status = status]
MarksDone(x, i) == (NoFault /\ Marks(x, i, "done")) \/ (Fault /\ Marks(x, i, "failed"))

\* The other credentials must be those of the plan; its own may have gone.
AsPlanned(x, i) == \A y \in User \ {x} : client[y][i] = job[x].read[y][i]

Removed(x, i, how) ==
    /\ here' = IF how = "whole" THEN here \ {i} ELSE here
    /\ client' = [y \in User |-> IF how = "whole" \/ y = x THEN [client[y] EXCEPT ![i] = None] ELSE client[y]]
    /\ undone' = StillUndone(undone)
    /\ UNCHANGED <<row, active>>

\* executeLifecycleDeleteItem, without the lock of the inbound: it is read and
\* compared with the plan ...
DeleteItem(x, i) ==
    /\ At(x, "items") /\ Pending(x, i) /\ job[x].kind = "delete"
    /\ LET gone == i \notin here \/ (job[x].plan[i].how = "remove" /\ client[x][i] = None)
       IN  \/ (i \in here => AsPlanned(x, i)) /\ gone /\ MarksDone(x, i)
           \/ i \in here /\ ~AsPlanned(x, i) /\ Marks(x, i, "failed") /\ NoFault
           \/ AsPlanned(x, i) /\ ~gone /\ NoFault
              /\ job' = [job EXCEPT ![x].at = "remove", ![x].cur = i]
           \/ Fault /\ Marks(x, i, "failed")
    /\ UNCHANGED <<accounts, database, memory, helpers, requests, official, wholes>>

\* ... the client is removed, or the inbound, whatever has changed in it since ...
RemoveItem(x) ==
    /\ At(x, "remove")
    /\ LET i == job[x].cur
           how == job[x].plan[i].how
       IN  \/ i \in here /\ NoFault /\ Removed(x, i, how) /\ Goto(x, "verify")
           \/ i \notin here /\ NoFault /\ Marks(x, i, "failed") /\ UNCHANGED accounts
           \/ /\ Fault /\ Marks(x, i, "failed")
              /\ UNCHANGED accounts \/ (i \in here /\ Removed(x, i, how))
    /\ UNCHANGED <<database, memory, helpers, requests, official, wholes>>

\* ... and read again: the others must still have what the plan had seen.
VerifyItem(x) ==
    /\ At(x, "verify")
    /\ LET i == job[x].cur
           others == \A y \in User \ {x} : job[x].read[y][i] \in {None, client[y][i]}
           right == IF job[x].plan[i].how = "whole" THEN i \notin here
                    ELSE i \in here /\ client[x][i] = None /\ others
       IN  \/ right /\ MarksDone(x, i)
           \/ ~right /\ NoFault /\ Marks(x, i, "failed")
           \/ Fault /\ Marks(x, i, "failed")
    /\ UNCHANGED <<accounts, database, memory, helpers, requests, official, wholes>>

\* What is verified once more, of all items with something to remove.
Gone(x, i) ==
    LET how == job[x].plan[i].how
    IN  \/ how = None \/ i \notin here
        \/ how = "remove" /\ client[x][i] = None

VerifyDeletion(x) ==
    /\ NoneLeft(x) /\ job[x].kind = "delete"
    /\ \E unread \in BOOLEAN :
         /\ IF unread THEN Fault ELSE NoFault
         /\ Goto(x, IF ~unread /\ Complete(x) /\ (\A i \in Inbound : Gone(x, i)) THEN "finalize" ELSE "partial")
    /\ UNCHANGED <<accounts, database, memory, helpers, requests, official, wholes>>

\* Everything about the user goes with the row.
FinalizeDeletion(x) ==
    /\ At(x, "finalize")
    /\ \/ /\ NoFault /\ Ends(x)
          /\ row' = row \ {x} /\ active' = active \ {x}
          /\ life' = [life EXCEPT ![x] = NoLife]
          /\ backup' = backup \ Of(x) /\ blockRows' = blockRows \ Of(x) /\ wholes' = wholes \ Of(x)
       \/ Fault /\ Goto(x, "partial") /\ UNCHANGED <<row, active, database, wholes>>
    /\ UNCHANGED <<here, client, undone, memory, helpers, requests, official>>

FinishDeleteAttempt(x) ==
    /\ At(x, "partial")
    /\ Ends(x)
    /\ \/ NoFault /\ life' = [life EXCEPT ![x].effective = "delete_partial", ![x].pending = TRUE]
       \/ Fault /\ UNCHANGED life
    /\ UNCHANGED <<accounts, backup, blockRows, memory, helpers, requests, official, wholes>>

-----------------------------------------------------------------------------
(* The specification *)

DeleteJob(x) ==
    \/ BuildDeletionPlan(x) \/ SaveDeletePlan(x)
    \/ (\E i \in Inbound : DeleteItem(x, i)) \/ RemoveItem(x) \/ VerifyItem(x)
    \/ VerifyDeletion(x) \/ FinalizeDeletion(x) \/ FinishDeleteAttempt(x)

Init == AccessInit /\ wholes = {}

Next ==
    /\ \/ AccessStep /\ UNCHANGED wholes
       \/ \E x \in User : RequestDelete(x) \/ DeleteJob(x)
    /\ UNCHANGED On

\* The timer of the evaluation ticks, and Helpers report; a mutex of Go is handed
\* to a waiter that starves.
Fairness ==
    /\ WF_allVars((EvaluationReads \/ EvaluationSaves \/ EvaluationPublishes) /\ UNCHANGED <<wholes, On>>)
    /\ \A i \in Inbound : SF_allVars(Report(i) /\ UNCHANGED <<wholes, On>>)

Spec == Init /\ [][Next]_allVars /\ Fairness

-----------------------------------------------------------------------------
(* Properties *)

\* The random credential of x, and not one that a replacement for another user
\* wrote back after it had gone: that user's request read the inbound before the
\* account of x was set, which does not take the lock of the inbound.
Random(x, i) == client[x][i] = "swapped" /\ <<x, i>> \notin undone

\* A user that is reported as enabled is on no block list, and has no random
\* credential left, alone or with others in the inbound (commit of the
\* evaluation, FinishAccessAttempt).
EnabledIsRestored ==
    \A x \in User : life[x].effective = "enabled" =>
        /\ Of(x) \cap (blockRows \cup listed) = {}
        /\ \A i \in Inbound : ~Random(x, i)

\* The original of a random credential is never lost: it is saved before it is
\* replaced, and kept until it has been put back (SaveAccessPlan,
\* executePersistentAccessItem, the migration).
SwappedHasBackup == \A x \in row, i \in Inbound : Random(x, i) => InBackup(x, i)

\* The step of x that replaces inbound i.
ReplacesInbound(x, i) ==
    /\ At(x, "write") /\ job[x].cur = i
    /\ job'[x].at # "write" /\ client' # client

\* Replacing an inbound for one user never brings the original credential of
\* another user back, however their requests interleave (executeAccessItem).
ReplacementsKeepSwaps ==
    [][\A x \in User, i \in Inbound : ReplacesInbound(x, i) =>
         \A y \in User \ {x} : client[y][i] = "swapped" => client'[y][i] # "original"]_allVars

\* Servers whose Helper keeps answering end up blocking exactly the disabled
\* users, whatever failed or was restarted before (evaluateDisabledUsers).
BlocksFollowTheIntent ==
    \A i \in Inbound :
        <>[](i \in supported) =>
        <>[](\A x \in User : <<x, i>> \in Pairs \ Shared => (<<x, i>> \in enforced <=> x \in ToBlock))

\* "Verify the removed runtime credentials again before deleting their source
\* rows" (executeDeletePlan): a deleted user has no credential anywhere.
DeletedUserHasNoClient == \A x \in User \ row, i \in Inbound : client[x][i] = None
=============================================================================

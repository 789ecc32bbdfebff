------------------------- MODULE UserDeletionProofs -------------------------
(***************************************************************************)
(* Proofs about UserAccess and UserDeletion, for any users and inbounds:    *)
(* the original of a swapped credential is kept, an enabled user has its    *)
(* credentials back and is on no list, and replacing an inbound brings no   *)
(* other user's original back.                                              *)
(***************************************************************************)
EXTENDS UserDeletion, TLAPS

-----------------------------------------------------------------------------
(* The types *)

Kind == {None, "disable", "enable", "migrate", "delete"}
Stage == {None, "preset", "plan", "save", "items", "read", "write", "refresh", "finish",
          "remove", "verify", "finalize", "partial"}
PlanItem == [status : {None, "pending", "done", "failed"},
             how : {None, "block", "replace", "whole", "remove"}, write : Credential]
Clients == [User -> [Inbound -> Credential]]
Job == [kind : Kind, at : Stage, plan : [Inbound -> PlanItem], cur : Inbound \cup {None},
        read : Clients, failed : BOOLEAN]
Life == [desired : {None, "enabled", "disabled", "deleted"},
         effective : {None, "enabling", "disabling", "enabled", "disabled", "partially_enabled",
                      "partially_disabled", "deleting", "delete_partial"},
         pending : BOOLEAN, was : {None, "active", "inactive"}]
Evaluation == [users : SUBSET User, found : SUBSET (User \X Inbound), saved : BOOLEAN]

UserTypes ==
    /\ On \in [User -> SUBSET Inbound]
    /\ row \subseteq User /\ here \subseteq Inbound
    /\ client \in Clients
    /\ life \in [User -> Life]
    /\ job \in [User -> Job]
    /\ eval \subseteq Evaluation

-----------------------------------------------------------------------------
(* The inductive invariant *)

\* Clients are only where the records and the running configuration have them.
Placed == \A x \in User, i \in Inbound : client[x][i] # None => i \in On[x] /\ i \in here
ReadPlaced == \A x, y \in User, i \in Inbound : job[x].read[y][i] # None => i \in On[y]

\* The lock of an inbound: what was read is still right about swapped credentials.
Locked ==
    \A x, y \in User : At(x, "write") /\ y # x =>
        /\ At(y, "write") => job[x].cur # job[y].cur
        /\ client[y][job[x].cur] = "swapped" => job[x].read[y][job[x].cur] # "original"

Saved == {"items", "read", "write", "refresh", "finish"}

\* What an item of an access plan may still do.
ItemSound(x, i) ==
    LET item == job[x].plan[i]
    IN  /\ item.status = "pending" =>
             /\ i \in On[x]
             /\ \/ job[x].kind = "delete" /\ item.how \in {None, "whole", "remove"}
                \/ /\ job[x].kind # "delete"
                   /\ \/ item.how = "block" /\ item.write \in {None, "original"}
                      \/ item.how = "replace" /\ item.write \in {"original", "swapped"}
             /\ item.write = "swapped" => job[x].kind = "disable"
             /\ item.write = "swapped" /\ job[x].at \in Saved => <<x, i>> \in backup
             /\ item.how = "block" /\ item.write = None => ~Random(x, i)
        /\ job[x].kind = "enable" /\ job[x].at \in Saved \cup {"save"} =>
             /\ i \in On[x] => item.status # None
             /\ item.status = "done" => ~Random(x, i)

\* The lock of the user: nothing but the job changes what it works on.
JobSound(x) ==
    /\ job[x].at # None => x \in row
    /\ job[x].at \in {"read", "write"} =>
         /\ job[x].cur \in Inbound /\ job[x].kind # "delete"
         /\ job[x].plan[job[x].cur].status = "pending" /\ job[x].plan[job[x].cur].write # None
    /\ job[x].at \in {"remove", "verify"} => job[x].cur \in Inbound /\ job[x].kind = "delete"
    /\ job[x].at \in Saved /\ job[x].kind = "disable" => life[x].effective # "enabled"
    /\ job[x].at \in Saved /\ job[x].kind = "enable" => life[x].desired = "enabled"
    /\ job[x].kind = "migrate" => job[x].at \in Saved /\ life[x].desired = "disabled"
    /\ \A i \in Inbound : ItemSound(x, i)

\* The credentials of x are where its state says.
CredentialsSound(x) ==
    \A i \in Inbound : Random(x, i) =>
        /\ x \in row => <<x, i>> \in backup
        /\ life[x].effective # "enabled"

\* No list that is or will be published names x.
Unlisted(x) ==
    /\ Of(x) \cap listed = {}
    /\ \A e \in eval : e.saved => Of(x) \cap e.found = {}

Refreshing(x) == job[x].kind = "enable" /\ At(x, "finish") /\ ~job[x].failed

ListsSound(x) ==
    /\ life[x].effective = "enabled" => life[x].desired = "enabled"
    /\ life[x].desired = "enabled" => Of(x) \cap blockRows = {}
    /\ life[x].effective = "enabled" \/ Refreshing(x) => Unlisted(x)

UserSound(x) == JobSound(x) /\ CredentialsSound(x)
AccessInv ==
    /\ UserTypes /\ Placed /\ ReadPlaced /\ Locked
    /\ \A x \in User : UserSound(x)

UserInv == AccessInv /\ \A x \in User : ListsSound(x)
-----------------------------------------------------------------------------
(* What the updates of a job leave *)

LEMMA Names ==
    /\ \A k \in {None, "disable", "enable", "migrate", "delete"} : k \in Kind
    /\ \A a \in {None, "preset", "plan", "save", "items", "read", "write", "refresh", "finish",
                 "remove", "verify", "finalize", "partial"} : a \in Stage
BY DEF Kind, Stage

\* job[x] is replaced by j.
Becomes(new, old, x, j) ==
    /\ new \in [User -> Job]
    /\ new[x] = j
    /\ \A y \in User \ {x} : new[y] = old[y]

LEMMA JobSet ==
    ASSUME NEW x \in User, NEW old \in [User -> Job], NEW j \in Job
    PROVE  Becomes([old EXCEPT ![x] = j], old, x, j)
BY DEF Becomes

LEMMA NoPlanTypes ==
    /\ Nothing \in PlanItem /\ Done \in PlanItem /\ Failed \in PlanItem
    /\ NoPlan \in [Inbound -> PlanItem] /\ NoClients \in Clients
BY DEF Nothing, Done, Failed, Item, PlanItem, NoPlan, NoClients, Clients, Credential, None

LEMMA NoJobType == NoJob \in Job
BY NoPlanTypes DEF NoJob, Job, Kind, Stage

LEMMA JobFields ==
    ASSUME NEW j \in Job
    PROVE  /\ j.kind \in Kind /\ j.at \in Stage /\ j.plan \in [Inbound -> PlanItem]
           /\ j.cur \in Inbound \cup {None} /\ j.read \in Clients /\ j.failed \in BOOLEAN
BY DEF Job

LEMMA GotoSets ==
    ASSUME NEW x \in User, NEW old \in [User -> Job], NEW s \in Stage
    PROVE  Becomes([old EXCEPT ![x].at = s], old, x, [old[x] EXCEPT !.at = s])
           /\ [old[x] EXCEPT !.at = s] \in Job
<1> DEFINE j == [old[x] EXCEPT !.at = s]
<1>1. old[x] \in Job OBVIOUS
<1>2. j \in Job BY <1>1 DEF Job
<1>3. [old EXCEPT ![x].at = s] = [old EXCEPT ![x] = j] OBVIOUS
<1> QED BY <1>2, <1>3, JobSet

LEMMA RequestSets ==
    ASSUME NEW x \in User, NEW old \in [User -> Job], NEW k \in Kind, NEW s \in Stage
    PROVE  Becomes([old EXCEPT ![x].kind = k, ![x].at = s], old, x,
                   [old[x] EXCEPT !.kind = k, !.at = s])
<1> DEFINE j == [old[x] EXCEPT !.kind = k, !.at = s]
<1>1. old[x] \in Job OBVIOUS
<1>2. j \in Job BY <1>1 DEF Job
<1>3. [old EXCEPT ![x].kind = k, ![x].at = s] = [old EXCEPT ![x] = j] OBVIOUS
<1> QED BY <1>2, <1>3, JobSet

LEMMA PlanSets ==
    ASSUME NEW x \in User, NEW old \in [User -> Job], NEW s \in Stage,
           NEW p \in [Inbound -> PlanItem]
    PROVE  Becomes([old EXCEPT ![x].at = s, ![x].plan = p], old, x,
                   [old[x] EXCEPT !.at = s, !.plan = p])
<1> DEFINE j == [old[x] EXCEPT !.at = s, !.plan = p]
<1>1. old[x] \in Job OBVIOUS
<1>2. j \in Job BY <1>1 DEF Job
<1>3. [old EXCEPT ![x].at = s, ![x].plan = p] = [old EXCEPT ![x] = j] OBVIOUS
<1> QED BY <1>2, <1>3, JobSet

LEMMA DeletePlanSets ==
    ASSUME NEW x \in User, NEW old \in [User -> Job], NEW s \in Stage,
           NEW p \in [Inbound -> PlanItem], NEW r \in Clients
    PROVE  Becomes([old EXCEPT ![x].at = s, ![x].plan = p, ![x].read = r], old, x,
                   [old[x] EXCEPT !.at = s, !.plan = p, !.read = r])
<1> DEFINE j == [old[x] EXCEPT !.at = s, !.plan = p, !.read = r]
<1>1. old[x] \in Job OBVIOUS
<1>2. j \in Job BY <1>1 DEF Job
<1>3. [old EXCEPT ![x].at = s, ![x].plan = p, ![x].read = r] = [old EXCEPT ![x] = j] OBVIOUS
<1> QED BY <1>2, <1>3, JobSet

LEMMA MigrateSets ==
    ASSUME NEW x \in User, NEW old \in [User -> Job], NEW k \in Kind, NEW s \in Stage,
           NEW p \in [Inbound -> PlanItem]
    PROVE  Becomes([old EXCEPT ![x].kind = k, ![x].at = s, ![x].plan = p], old, x,
                   [old[x] EXCEPT !.kind = k, !.at = s, !.plan = p])
<1> DEFINE j == [old[x] EXCEPT !.kind = k, !.at = s, !.plan = p]
<1>1. old[x] \in Job OBVIOUS
<1>2. j \in Job BY <1>1 DEF Job
<1>3. [old EXCEPT ![x].kind = k, ![x].at = s, ![x].plan = p] = [old EXCEPT ![x] = j] OBVIOUS
<1> QED BY <1>2, <1>3, JobSet

LEMMA CurSets ==
    ASSUME NEW x \in User, NEW old \in [User -> Job], NEW s \in Stage, NEW i \in Inbound
    PROVE  Becomes([old EXCEPT ![x].at = s, ![x].cur = i], old, x,
                   [old[x] EXCEPT !.at = s, !.cur = i])
<1> DEFINE j == [old[x] EXCEPT !.at = s, !.cur = i]
<1>1. old[x] \in Job OBVIOUS
<1>2. j \in Job BY <1>1 DEF Job
<1>3. [old EXCEPT ![x].at = s, ![x].cur = i] = [old EXCEPT ![x] = j] OBVIOUS
<1> QED BY <1>2, <1>3, JobSet

LEMMA ReadSets ==
    ASSUME NEW x \in User, NEW old \in [User -> Job], NEW s \in Stage, NEW r \in Clients
    PROVE  Becomes([old EXCEPT ![x].at = s, ![x].read = r], old, x,
                   [old[x] EXCEPT !.at = s, !.read = r])
<1> DEFINE j == [old[x] EXCEPT !.at = s, !.read = r]
<1>1. old[x] \in Job OBVIOUS
<1>2. j \in Job BY <1>1 DEF Job
<1>3. [old EXCEPT ![x].at = s, ![x].read = r] = [old EXCEPT ![x] = j] OBVIOUS
<1> QED BY <1>2, <1>3, JobSet

LEMMA FailedSets ==
    ASSUME NEW x \in User, NEW old \in [User -> Job], NEW s \in Stage
    PROVE  Becomes([old EXCEPT ![x].at = s, ![x].failed = TRUE], old, x,
                   [old[x] EXCEPT !.at = s, !.failed = TRUE])
<1> DEFINE j == [old[x] EXCEPT !.at = s, !.failed = TRUE]
<1>1. old[x] \in Job OBVIOUS
<1>2. j \in Job BY <1>1 DEF Job
<1>3. [old EXCEPT ![x].at = s, ![x].failed = TRUE] = [old EXCEPT ![x] = j] OBVIOUS
<1> QED BY <1>2, <1>3, JobSet

LEMMA MarkSets ==
    ASSUME NEW x \in User, NEW old \in [User -> Job], NEW i \in Inbound,
           NEW s \in {"done", "failed"}
    PROVE  Becomes([old EXCEPT ![x].at = "items", ![x].cur = None, ![x].plan[i].status = s], old, x,
                   [old[x] EXCEPT !.at = "items", !.cur = None, !.plan[i].status = s])
<1>1. "items" \in Stage /\ None \in Inbound \cup {None}
      BY Names
<1>2. [old[x].plan EXCEPT ![i].status = s] \in [Inbound -> PlanItem]
  <2>1. old[x].plan \in [Inbound -> PlanItem] BY JobFields
  <2>2. [old[x].plan[i] EXCEPT !.status = s] \in PlanItem BY <2>1 DEF PlanItem
  <2> QED BY <2>1, <2>2
<1> DEFINE j == [old[x] EXCEPT !.at = "items", !.cur = None, !.plan[i].status = s]
<1>3. j \in Job BY <1>1, <1>2 DEF Job
<1>4. [old EXCEPT ![x].at = "items", ![x].cur = None, ![x].plan[i].status = s] = [old EXCEPT ![x] = j]
      BY Zenon
<1> HIDE DEF j
<1> QED BY <1>3, <1>4, JobSet DEF j

LEMMA SettleSets ==
    ASSUME NEW x \in User, NEW old \in [User -> Job], NEW i \in Inbound, NEW t \in PlanItem
    PROVE  Becomes([old EXCEPT ![x].at = "items", ![x].cur = None, ![x].read = NoClients,
                               ![x].plan[i] = t], old, x,
                   [old[x] EXCEPT !.at = "items", !.cur = None, !.read = NoClients, !.plan[i] = t])
<1>1. "items" \in Stage /\ NoClients \in Clients /\ None \in Inbound \cup {None}
      BY NoPlanTypes, Names
<1>2. [old[x].plan EXCEPT ![i] = t] \in [Inbound -> PlanItem]
      BY JobFields
<1> DEFINE j == [old[x] EXCEPT !.at = "items", !.cur = None, !.read = NoClients, !.plan[i] = t]
<1>3. j \in Job BY <1>1, <1>2 DEF Job
<1>4. [old EXCEPT ![x].at = "items", ![x].cur = None, ![x].read = NoClients, ![x].plan[i] = t]
        = [old EXCEPT ![x] = j]
      BY Zenon
<1> HIDE DEF j
<1> QED BY <1>3, <1>4, JobSet DEF j

-----------------------------------------------------------------------------
(* Frames: what a step leaves alone *)

\* A step that has nothing to do with user y.
Kept(y) ==
    /\ job'[y] = job[y] /\ life'[y] = life[y]
    /\ y \in row' <=> y \in row
    /\ \A i \in Inbound :
         /\ <<y, i>> \in backup => <<y, i>> \in backup'
         /\ Random(y, i)' => Random(y, i)

LEMMA KeptSound ==
    ASSUME NEW y \in User, UNCHANGED On, UserSound(y), Kept(y)
    PROVE  UserSound(y)'
<1>2. ASSUME NEW i \in Inbound PROVE ItemSound(y, i)'
      BY DEF UserSound, JobSound, ItemSound, Kept
<1>3. JobSound(y)' BY <1>2 DEF UserSound, JobSound, Kept
<1>4. CredentialsSound(y)' BY DEF UserSound, CredentialsSound, Kept
<1> QED BY <1>3, <1>4 DEF UserSound

\* No credential becomes a random one.
Fades ==
    \A y \in User, i \in Inbound :
        /\ client'[y][i] = "swapped" => client[y][i] = "swapped"
        /\ Random(y, i)' => Random(y, i)

LEMMA FadesWith ==
    ASSUME undone' = StillUndone(undone) \/ undone' = undone,
           \A y \in User, i \in Inbound : client'[y][i] = "swapped" => client[y][i] = "swapped"
    PROVE  Fades
BY DEF Fades, Random, StillUndone

\* What a job reads is placed.
PlacedRead(r) == \A y \in User, i \in Inbound : r[y][i] # None => i \in On[y]

LEMMA ReadSound ==
    ASSUME Placed PROVE PlacedRead(client) /\ PlacedRead(NoClients)
BY DEF Placed, PlacedRead, NoClients

\* A step of the job of x that replaces no inbound.
LEMMA JobStep ==
    ASSUME AccessInv, UNCHANGED On, NEW x \in User, NEW j \in Job, Becomes(job', job, x, j),
           Fades, PlacedRead(j.read),
           j.at = "write" => job[x].at = "write" /\ j.cur = job[x].cur /\ j.read = job[x].read,
           \A y \in User \ {x} :
               /\ life'[y] = life[y] /\ (y \in row' <=> y \in row)
               /\ \A i \in Inbound : <<y, i>> \in backup => <<y, i>> \in backup'
    PROVE  ReadPlaced' /\ Locked' /\ \A y \in User \ {x} : UserSound(y)'
<1>1. ReadPlaced'
      BY DEF ReadPlaced, PlacedRead, Becomes, AccessInv
<1>2. ASSUME NEW a \in User, NEW b \in User, At(a, "write")', b # a
      PROVE  /\ At(b, "write")' => job'[a].cur # job'[b].cur
             /\ client'[b][job'[a].cur] = "swapped" => job'[a].read[b][job'[a].cur] # "original"
  <2>1. At(a, "write") /\ job'[a].cur = job[a].cur /\ job'[a].read = job[a].read
        BY <1>2 DEF At, Becomes
  <2>2. At(b, "write")' => At(b, "write") /\ job'[b].cur = job[b].cur
        BY DEF At, Becomes
  <2>3. job[a].cur \in Inbound
        BY <2>1 DEF AccessInv, UserSound, JobSound, At
  <2> QED BY <1>2, <2>1, <2>2, <2>3 DEF Locked, AccessInv, Fades
<1>3. Locked' BY <1>2 DEF Locked
<1>4. ASSUME NEW y \in User \ {x} PROVE UserSound(y)'
  <2>1. Kept(y) BY DEF Kept, Becomes, Fades
  <2> QED BY <2>1, KeptSound DEF AccessInv
<1> QED BY <1>1, <1>3, <1>4

\* A step without a job.
LEMMA IdleStep ==
    ASSUME AccessInv, UNCHANGED <<On, job, life, row, backup>>, Fades
    PROVE  ReadPlaced' /\ Locked' /\ \A y \in User : UserSound(y)'
<1>1. ReadPlaced' BY DEF ReadPlaced, AccessInv
<1>2. ASSUME NEW a \in User, At(a, "write") PROVE job[a].cur \in Inbound
      BY <1>2 DEF AccessInv, UserSound, JobSound, At
<1>3. Locked' BY <1>2 DEF Locked, AccessInv, Fades, At
<1>4. ASSUME NEW y \in User PROVE UserSound(y)'
  <2>1. Kept(y) BY DEF Kept, Fades
  <2> QED BY <2>1, KeptSound DEF AccessInv
<1> QED BY <1>1, <1>3, <1>4

-----------------------------------------------------------------------------
(* The official account *)

\* The clients after a step are still typed and placed, and none is newly swapped.
Faded == client' \in Clients /\ Placed' /\ Fades /\ row' = row /\ here' = here

LEMMA SetsKeeps ==
    ASSUME UserTypes, Placed, UNCHANGED On, NEW x \in User, NEW on \in BOOLEAN, Sets(x, on)
    PROVE  Faded
<1>1. row' = row /\ here' = here BY DEF Sets
<1>2. PICK kept \in SUBSET {i \in On[x] : ~on /\ client[x][i] = "swapped"} :
        client' = [client EXCEPT ![x] = [i \in Inbound |->
             IF i \in kept THEN "swapped"
             ELSE IF on /\ i \in On[x] \cap here THEN "original" ELSE None]]
      BY DEF Sets
<1> DEFINE new == [i \in Inbound |-> IF i \in kept THEN "swapped"
                                     ELSE IF on /\ i \in On[x] \cap here THEN "original" ELSE None]
<1>3. new \in [Inbound -> Credential] BY DEF Credential
<1>4. client \in [User -> [Inbound -> Credential]] BY DEF UserTypes, Clients
<1>5. client' \in Clients BY <1>2, <1>3, <1>4 DEF Clients
<1>6. /\ \A i \in Inbound : client'[x][i] = new[i]
      /\ \A y \in User \ {x} : client'[y] = client[y]
      BY <1>2, <1>4
<1>7. ASSUME NEW i \in Inbound
      PROVE  /\ new[i] = "swapped" => client[x][i] = "swapped"
             /\ new[i] # None => i \in On[x] /\ i \in here
  <2>1. CASE i \in kept
    <3>1. client[x][i] = "swapped" BY <2>1
    <3> QED BY <3>1, <2>1 DEF Placed, None
  <2>2. CASE i \notin kept BY <2>2 DEF None
  <2> QED BY <2>1, <2>2
<1>8. Fades
  <2>1. \A y \in User, i \in Inbound : client'[y][i] = "swapped" => client[y][i] = "swapped"
        BY <1>6, <1>7
  <2> QED BY <2>1, FadesWith DEF Sets
<1>9. Placed' BY <1>1, <1>6, <1>7 DEF Placed
<1> QED BY <1>1, <1>5, <1>8, <1>9 DEF Faded

LEMMA SameFades ==
    ASSUME UserTypes, Placed, UNCHANGED <<On, row, here, client, undone>>
    PROVE  Faded
BY FadesWith DEF Faded, Placed, UserTypes

LEMMA AppliedKeeps ==
    ASSUME UserTypes, Placed, UNCHANGED On, NEW x \in User, NEW enable \in BOOLEAN,
           NEW ok \in BOOLEAN, OfficialApplied(x, enable, ok)
    PROVE  Faded
<1> DEFINE want == enable /\ life[x].was = "active"
<1>1. want \in BOOLEAN OBVIOUS
<1>2. Sets(x, want) \/ UNCHANGED accounts
      BY DEF OfficialApplied
<1>3. CASE Sets(x, want) BY <1>1, <1>3, SetsKeeps
<1>4. CASE UNCHANGED accounts BY <1>4, SameFades DEF accounts
<1> QED BY <1>2, <1>3, <1>4

-----------------------------------------------------------------------------
(* The lists *)

\* What a step adds to the rows, the published list and the next list are users to block.
ListStep ==
    /\ \A p \in blockRows' : p \in blockRows \/ p[1] \in ToBlock
    /\ \A p \in listed' : \/ p \in listed \/ p[1] \in ToBlock
                          \/ \E e \in eval : e.saved /\ p \in e.found
    /\ \A e \in eval' : e.saved =>
         \A p \in e.found : p[1] \in ToBlock \/ \E d \in eval : d.saved /\ p \in d.found

LEMMA OfSame ==
    ASSUME UNCHANGED On, NEW x \in User
    PROVE  Of(x)' = Of(x) /\ \A p \in Of(x) : p[1] = x
BY DEF Of, Pairs

LEMMA NotToBlock ==
    ASSUME NEW x \in User, life[x].desired = "enabled"
    PROVE  x \notin ToBlock
BY DEF ToBlock

LEMMA ListKept ==
    ASSUME UserInv, UNCHANGED On, ListStep, NEW x \in User,
           life'[x].desired = life[x].desired, life'[x].effective = life[x].effective,
           Refreshing(x)' => Refreshing(x)
    PROVE  ListsSound(x)'
<1>1. Of(x)' = Of(x) /\ \A p \in Of(x) : p[1] = x BY OfSame
<1>2. ListsSound(x) BY DEF UserInv
<1>3. Refreshing(x) => life[x].desired = "enabled"
      BY DEF UserInv, AccessInv, UserSound, JobSound, Refreshing, At, Saved
<1>4. ASSUME life[x].desired = "enabled" PROVE Of(x) \cap blockRows' = {}
      BY <1>1, <1>2, <1>4, NotToBlock DEF ListsSound, ListStep
<1>5. ASSUME life[x].effective = "enabled" \/ Refreshing(x) PROVE Unlisted(x)'
  <2>1. life[x].desired = "enabled" BY <1>2, <1>3, <1>5 DEF ListsSound
  <2>2. Unlisted(x) BY <1>2, <1>5 DEF ListsSound
  <2>3. Of(x) \cap listed' = {}
        BY <1>1, <2>1, <2>2, NotToBlock DEF Unlisted, ListStep
  <2>4. ASSUME NEW e \in eval', e.saved PROVE Of(x) \cap e.found = {}
        BY <1>1, <2>1, <2>2, <2>4, NotToBlock DEF Unlisted, ListStep
  <2> QED BY <1>1, <2>3, <2>4 DEF Unlisted
<1> QED BY <1>1, <1>2, <1>4, <1>5 DEF ListsSound

LEMMA SameLists ==
    ASSUME UNCHANGED <<blockRows, listed, eval>>
    PROVE  ListStep
BY DEF ListStep

LEMMA SavedBlocks ==
    ASSUME NEW users, NEW found
    PROVE  /\ \A p \in Found(users, found) : p \in found /\ p[1] \in ToBlock
           /\ SavesBlocks(users, found) => \A p \in blockRows' : p \in blockRows \/ p[1] \in ToBlock
BY DEF SavesBlocks, Found, Still

LEMMA RefreshLists ==
    ASSUME NEW ok \in BOOLEAN, Refreshed(ok)
    PROVE  ListStep /\ eval = {} /\ eval' = {} /\ (ok => \A p \in listed' : p[1] \in ToBlock)
<1>1. eval = {} /\ eval' = {} BY DEF Refreshed
<1>2. CASE ok
  <2>1. SavesBlocks(ToBlock, Wanted(ToBlock)) /\ listed' = Found(ToBlock, Wanted(ToBlock))
        BY <1>2 DEF Refreshed
  <2> QED BY <1>1, <2>1, SavedBlocks DEF ListStep
<1>3. CASE ~ok
  <2>1. UNCHANGED <<blockRows, listed>> BY <1>3 DEF Refreshed
  <2> QED BY <1>1, <1>3, <2>1 DEF ListStep
<1> QED BY <1>2, <1>3

-----------------------------------------------------------------------------
(* The user of the step *)

LEMMA ItemKept ==
    ASSUME UNCHANGED On, Fades, NEW x \in User, NEW i \in Inbound, ItemSound(x, i),
           <<x, i>> \in backup => <<x, i>> \in backup',
           job'[x].plan[i] = job[x].plan[i], job'[x].kind = job[x].kind,
           job'[x].at \in Saved => job[x].at \in Saved,
           job'[x].at \in Saved \cup {"save"} => job[x].at \in Saved \cup {"save"}
    PROVE  ItemSound(x, i)'
BY DEF ItemSound, Fades

LEMMA CredentialsKept ==
    ASSUME UNCHANGED On, Fades, NEW x \in User, CredentialsSound(x), x \in row' => x \in row,
           \A i \in Inbound : <<x, i>> \in backup => <<x, i>> \in backup',
           life'[x].effective = "enabled" => life[x].effective = "enabled"
    PROVE  CredentialsSound(x)'
BY DEF CredentialsSound, Fades

LEMMA EndsSound ==
    ASSUME NEW x \in User, job'[x] = NoJob
    PROVE  JobSound(x)' /\ ~Refreshing(x)'
<1>1. /\ NoJob.at = None /\ NoJob.kind = None
      /\ \A i \in Inbound : NoJob.plan[i].status = None
      BY DEF NoJob, NoPlan, Nothing, Item
<1>2. ASSUME NEW i \in Inbound PROVE ItemSound(x, i)'
      BY <1>1, <1>2 DEF ItemSound, None
<1>3. JobSound(x)' BY <1>1, <1>2 DEF JobSound, Saved, None
<1>4. ~Refreshing(x)' BY <1>1 DEF Refreshing, None
<1> QED BY <1>3, <1>4

\* The job of x goes on without touching an item.
LEMMA MovesSound ==
    ASSUME UserInv, UNCHANGED <<On, life>>, Fades, NEW x \in User, x \in row' <=> x \in row,
           \A i \in Inbound : <<x, i>> \in backup => <<x, i>> \in backup',
           job'[x].plan = job[x].plan, job'[x].kind = job[x].kind, job[x].at # None,
           job'[x].at \in Saved => job[x].at \in Saved,
           job'[x].at \in Saved \cup {"save"} => job[x].at \in Saved \cup {"save"},
           job[x].kind = "migrate" => job'[x].at \in Saved,
           job'[x].at \in {"read", "write"} =>
             /\ job'[x].cur \in Inbound /\ job'[x].kind # "delete"
             /\ job'[x].plan[job'[x].cur].status = "pending" /\ job'[x].plan[job'[x].cur].write # None,
           job'[x].at \notin {"remove", "verify"}
    PROVE  UserSound(x)'
<1>1. UserSound(x) BY DEF UserInv, AccessInv
<1>2. \A i \in Inbound : ItemSound(x, i)'
      BY <1>1, ItemKept DEF UserSound, JobSound
<1>3. CredentialsSound(x)'
      BY <1>1, CredentialsKept DEF UserSound
<1>4. JobSound(x)'
      BY <1>1, <1>2 DEF UserSound, JobSound
<1> QED BY <1>3, <1>4 DEF UserSound

\* A step of the job of x that replaces no inbound, put together.
LEMMA JobStepKeeps ==
    ASSUME UserInv, UNCHANGED On, NEW x \in User, NEW j \in Job, Becomes(job', job, x, j),
           Faded, ListStep, life' \in [User -> Life], eval' \subseteq Evaluation,
           PlacedRead(j.read),
           j.at = "write" => job[x].at = "write" /\ j.cur = job[x].cur /\ j.read = job[x].read,
           \A y \in User \ {x} :
               /\ life'[y] = life[y]
               /\ \A i \in Inbound : <<y, i>> \in backup => <<y, i>> \in backup',
           UserSound(x)', ListsSound(x)'
    PROVE  UserInv'
<1>1. ReadPlaced' /\ Locked' /\ \A y \in User \ {x} : UserSound(y)'
      BY JobStep DEF Faded, UserInv
<1>2. UserTypes'
      BY DEF UserInv, AccessInv, UserTypes, Faded, Becomes
<1>3. ASSUME NEW y \in User \ {x} PROVE ListsSound(y)'
  <2>1. Refreshing(y)' => Refreshing(y) BY DEF Refreshing, At, Becomes
  <2> QED BY <2>1, ListKept
<1> QED BY <1>1, <1>2, <1>3 DEF UserInv, AccessInv, Faded

\* ... and when the lists and states stay, and the job is not about to end.
LEMMA QuietStepKeeps ==
    ASSUME UserInv, UNCHANGED <<On, life>>, NEW x \in User, NEW j \in Job, Becomes(job', job, x, j),
           Faded, ListStep, eval' \subseteq Evaluation,
           PlacedRead(j.read), j.at # "write", j.at # "finish",
           \A y \in User \ {x}, i \in Inbound : <<y, i>> \in backup => <<y, i>> \in backup',
           UserSound(x)'
    PROVE  UserInv'
<1>1. ~Refreshing(x)' BY DEF Refreshing, At, Becomes
<1>2. ListsSound(x)' BY <1>1, ListKept
<1>3. life' \in [User -> Life] BY DEF UserInv, AccessInv, UserTypes
<1> QED BY <1>2, <1>3, JobStepKeeps

LEMMA Typed ==
    ASSUME UserInv
    PROVE  /\ UserTypes /\ Placed
           /\ job \in [User -> Job] /\ life \in [User -> Life] /\ client \in Clients
           /\ eval \subseteq Evaluation
           /\ \A x \in User : /\ PlacedRead(job[x].read) /\ UserSound(x) /\ ListsSound(x)
                              /\ JobSound(x) /\ CredentialsSound(x)
                              /\ \A i \in Inbound : ItemSound(x, i)
BY DEF UserInv, AccessInv, UserTypes, PlacedRead, ReadPlaced, UserSound, JobSound

\* The job of x is over; nothing else has changed for it.
LEMMA EndStepKeeps ==
    ASSUME UserInv, UNCHANGED <<On, life, backup>>, NEW x \in User, job' = [job EXCEPT ![x] = NoJob],
           Faded, ListStep, eval' \subseteq Evaluation
    PROVE  UserInv'
<1>1. Becomes(job', job, x, NoJob) BY Typed, JobSet, NoJobType
<1>2. NoJob.read = NoClients /\ NoJob.at \notin {"write", "finish"} BY DEF NoJob, None
<1>3. PlacedRead(NoClients) BY ReadSound, Typed
<1>4. CredentialsSound(x)' BY Typed, CredentialsKept DEF Faded
<1>5. JobSound(x)' BY <1>1, EndsSound DEF Becomes
<1> QED BY <1>1, <1>2, <1>3, <1>4, <1>5, NoJobType, QuietStepKeeps DEF UserSound

-----------------------------------------------------------------------------
(* Requests *)

LEMMA RequestKeeps ==
    ASSUME UserInv, UNCHANGED <<On, accounts, database, memory>>, NEW x \in User,
           NEW kind \in {"disable", "enable", "delete"}, NEW s \in {"preset", "plan"},
           job[x] = NoJob, x \in row, job' = [job EXCEPT ![x].kind = kind, ![x].at = s]
    PROVE  UserInv'
<1> DEFINE j == [job[x] EXCEPT !.kind = kind, !.at = s]
<1>1. kind \in Kind /\ s \in Stage BY Names
<1>2. Becomes(job', job, x, j) BY <1>1, Typed, RequestSets
<1>3. /\ job[x] \in Job /\ j.kind = kind /\ j.at = s /\ j.read = job[x].read
      /\ j.plan = job[x].plan
      BY Typed DEF Job
<1>4. j \in Job BY <1>2 DEF Becomes
<1>5. \A i \in Inbound : job[x].plan[i].status = None
      BY DEF NoJob, NoPlan, Nothing, Item
<1>6. ASSUME NEW i \in Inbound PROVE ItemSound(x, i)'
      BY <1>2, <1>3, <1>5 DEF ItemSound, Becomes, None, Saved
<1>7. JobSound(x)'
      BY <1>2, <1>3, <1>6 DEF JobSound, Becomes, Saved, accounts
<1>8. Faded BY Typed, SameFades DEF accounts
<1>9. CredentialsSound(x)' BY <1>8, Typed, CredentialsKept DEF Faded, database, accounts
<1>10. ListStep BY SameLists DEF database, memory
<1> QED BY <1>2, <1>3, <1>4, <1>7, <1>8, <1>9, <1>10, Typed, QuietStepKeeps
        DEF UserSound, database, memory

LEMMA RequestAccessKeeps ==
    ASSUME UserInv, UNCHANGED On, NEW x \in User, NEW kind \in {"disable", "enable"},
           RequestAccess(x, kind)
    PROVE  UserInv'
<1>1. (IF kind = "enable" THEN "preset" ELSE "plan") \in {"preset", "plan"} OBVIOUS
<1> QED BY <1>1, RequestKeeps DEF RequestAccess

LEMMA RequestDeleteKeeps ==
    ASSUME UserInv, UNCHANGED On, NEW x \in User, RequestDelete(x)
    PROVE  UserInv'
<1>1. job' = [job EXCEPT ![x].kind = "delete", ![x].at = "plan"] BY DEF RequestDelete
<1> QED BY <1>1, RequestKeeps DEF RequestDelete

LEMMA PresetKeeps ==
    ASSUME UserInv, UNCHANGED On, NEW x \in User, Preset(x)
    PROVE  UserInv'
<1>0. UNCHANGED <<database, memory>> /\ At(x, "preset") BY DEF Preset
<1>1. /\ OfficialApplied(x, TRUE, TRUE) \/ OfficialApplied(x, TRUE, FALSE)
      /\ Goto(x, "plan") \/ Ends(x)
      BY DEF Preset
<1>2. Faded BY <1>1, Typed, AppliedKeeps
<1>3. ListStep BY <1>0, SameLists DEF database, memory
<1>4. CASE Ends(x)
      BY <1>0, <1>2, <1>3, <1>4, Typed, EndStepKeeps DEF Ends, database, memory
<1>5. CASE Goto(x, "plan")
  <2> DEFINE j == [job[x] EXCEPT !.at = "plan"]
  <2>1. "plan" \in Stage BY Names
  <2>2. Becomes(job', job, x, j) /\ j \in Job BY <1>5, <2>1, Typed, GotoSets DEF Goto
  <2>3. /\ job[x] \in Job /\ j.kind = job[x].kind /\ j.at = "plan" /\ j.read = job[x].read
        /\ j.plan = job[x].plan
        BY Typed DEF Job
  <2>4. job[x].kind # "migrate" BY <1>0, Typed DEF JobSound, At, Saved
  <2>5. UserSound(x)'
        BY <1>0, <1>2, <2>2, <2>3, <2>4, MovesSound
        DEF Faded, Becomes, Saved, At, database, None
  <2> QED BY <1>0, <1>2, <1>3, <2>2, <2>3, <2>5, Typed, QuietStepKeeps DEF database, memory
<1> QED BY <1>1, <1>4, <1>5

-----------------------------------------------------------------------------
(* Steps without a job *)

LEMMA IdleStepKeeps ==
    ASSUME UserInv, UNCHANGED <<On, job, life, row, backup>>, Faded, ListStep,
           eval' \subseteq Evaluation
    PROVE  UserInv'
<1>1. ReadPlaced' /\ Locked' /\ \A y \in User : UserSound(y)'
      BY IdleStep DEF Faded, UserInv
<1>2. UserTypes' BY DEF UserInv, AccessInv, UserTypes, Faded
<1>3. ASSUME NEW y \in User PROVE ListsSound(y)'
  <2>1. Refreshing(y)' => Refreshing(y) BY DEF Refreshing, At
  <2> QED BY <2>1, ListKept
<1> QED BY <1>1, <1>2, <1>3 DEF UserInv, AccessInv, Faded

LEMMA OfficialChangeKeeps ==
    ASSUME UserInv, UNCHANGED On, NEW x \in User, OfficialChange(x)
    PROVE  UserInv'
<1>1. PICK on \in BOOLEAN : Sets(x, on) BY DEF OfficialChange
<1>2. Faded BY <1>1, Typed, SetsKeeps
<1>3. ListStep BY SameLists DEF OfficialChange, database, memory
<1> QED BY <1>2, <1>3, Typed, IdleStepKeeps DEF OfficialChange, database, memory, Faded

LEMMA WantedType ==
    ASSUME UserTypes, NEW users \in SUBSET User
    PROVE  Wanted(users) \in SUBSET (User \X Inbound)
BY DEF Wanted, Pairs

LEMMA EvaluationReadsKeeps ==
    ASSUME UserInv, UNCHANGED On, EvaluationReads
    PROVE  UserInv'
<1> DEFINE e == [users |-> ToBlock, found |-> Wanted(ToBlock), saved |-> FALSE]
<1>1. ToBlock \in SUBSET User BY Typed DEF ToBlock, UserTypes
<1>2. Wanted(ToBlock) \in SUBSET (User \X Inbound) BY <1>1, Typed, WantedType
<1>3. e \in Evaluation BY <1>1, <1>2 DEF Evaluation
<1>4. eval' = {e} BY DEF EvaluationReads
<1>5. ListStep BY <1>4 DEF ListStep, EvaluationReads, database
<1>6. Faded BY Typed, SameFades DEF EvaluationReads, accounts
<1> QED BY <1>3, <1>4, <1>5, <1>6, Typed, IdleStepKeeps DEF EvaluationReads, database, accounts

LEMMA EvaluationSavesKeeps ==
    ASSUME UserInv, UNCHANGED On, EvaluationSaves
    PROVE  UserInv'
<1>1. Faded BY Typed, SameFades DEF EvaluationSaves, accounts
<1>2. PICK e \in eval :
        \/ /\ SavesBlocks(e.users, e.found)
           /\ eval' = {[e EXCEPT !.found = Found(e.users, e.found), !.saved = TRUE]}
        \/ eval' = {} /\ \E some \in SUBSET e.users : SavesBlocks(some, e.found)
      BY DEF EvaluationSaves
<1>3. e \in Evaluation BY <1>2, Typed
<1>4. UNCHANGED <<job, life, backup, row, listed>>
      BY DEF EvaluationSaves, accounts
<1>5. CASE eval' = {} /\ \E some \in SUBSET e.users : SavesBlocks(some, e.found)
  <2>1. ListStep BY <1>4, <1>5, SavedBlocks DEF ListStep
  <2> QED BY <1>1, <1>4, <1>5, <2>1, IdleStepKeeps
<1>6. CASE /\ SavesBlocks(e.users, e.found)
           /\ eval' = {[e EXCEPT !.found = Found(e.users, e.found), !.saved = TRUE]}
  <2> DEFINE f == Found(e.users, e.found)
             new == [e EXCEPT !.found = f, !.saved = TRUE]
  <2>1. \A p \in f : p \in e.found /\ p[1] \in ToBlock BY SavedBlocks
  <2>2. e.found \in SUBSET (User \X Inbound) BY <1>3 DEF Evaluation
  <2>3. f \in SUBSET (User \X Inbound) BY <2>1, <2>2
  <2>4. new \in Evaluation /\ new.found = f BY <1>3, <2>3 DEF Evaluation
  <2>5. \A p \in blockRows' : p \in blockRows \/ p[1] \in ToBlock BY <1>6, SavedBlocks
  <2> HIDE DEF new, f
  <2>6. eval' = {new} BY <1>6 DEF new, f
  <2>7. ListStep BY <1>4, <2>1, <2>4, <2>5, <2>6 DEF ListStep
  <2> QED BY <1>1, <1>4, <2>4, <2>6, <2>7, IdleStepKeeps
<1> QED BY <1>2, <1>5, <1>6

LEMMA EvaluationPublishesKeeps ==
    ASSUME UserInv, UNCHANGED On, EvaluationPublishes
    PROVE  UserInv'
<1>1. Faded BY Typed, SameFades DEF EvaluationPublishes, accounts
<1>2. ListStep BY DEF EvaluationPublishes, ListStep, database
<1> QED BY <1>1, <1>2, IdleStepKeeps DEF EvaluationPublishes, database, accounts

LEMMA HelpersKeep ==
    ASSUME UserInv, UNCHANGED On, NEW i \in Inbound, Report(i) \/ SupportChanges(i)
    PROVE  UserInv'
<1>1. UNCHANGED <<accounts, database, memory, job>> BY DEF Report, SupportChanges
<1>2. Faded BY <1>1, Typed, SameFades DEF accounts
<1>3. ListStep BY <1>1, SameLists DEF database, memory
<1> QED BY <1>1, <1>2, <1>3, Typed, IdleStepKeeps DEF database, accounts, memory

LEMMA RestartKeeps ==
    ASSUME UserInv, UNCHANGED On, ControllerRestarts
    PROVE  UserInv'
<1>1. UNCHANGED <<accounts, database>> /\ listed' = {} /\ eval' = {}
      BY DEF ControllerRestarts
<1>2. job' = [y \in User |-> NoJob] BY DEF ControllerRestarts
<1>3. Faded BY <1>1, Typed, SameFades DEF accounts
<1>4. ListStep BY <1>1 DEF ListStep, database
<1>5. \A y \in User : job'[y] = NoJob BY <1>2
<1>6. UserTypes' BY <1>1, <1>2, NoJobType, Typed DEF UserTypes, accounts, database
<1>7. ReadPlaced' BY <1>5 DEF ReadPlaced, NoJob, NoClients
<1>8. Locked' BY <1>5 DEF Locked, NoJob, At, None
<1>9. ASSUME NEW y \in User PROVE UserSound(y)' /\ ListsSound(y)'
  <2>1. JobSound(y)' /\ ~Refreshing(y)' BY <1>5, EndsSound
  <2>2. CredentialsSound(y)'
        BY <1>1, <1>3, Typed, CredentialsKept DEF Faded, accounts, database
  <2>3. ListsSound(y)' BY <1>1, <1>4, <2>1, ListKept DEF database
  <2> QED BY <2>1, <2>2, <2>3 DEF UserSound
<1> QED BY <1>3, <1>6, <1>7, <1>8, <1>9 DEF UserInv, AccessInv, Faded

-----------------------------------------------------------------------------
(* Plans *)

\* An item as a plan of this kind is made with.
Fits(x, i, kind, item) ==
    /\ item \in PlanItem
    /\ item.status = "pending" =>
         /\ \/ item.how = "block" /\ item.write \in {None, "original"}
            \/ item.how = "replace" /\ item.write \in {"original", "swapped"}
         /\ item.write = "swapped" => kind = "disable"
         /\ item.how = "block" /\ item.write = None => ~Random(x, i)
    /\ kind = "enable" =>
         /\ item.status # None
         /\ item.status = "done" => ~Random(x, i)

LEMMA ItemFields ==
    ASSUME NEW s \in {None, "pending", "done", "failed"},
           NEW h \in {None, "block", "replace", "whole", "remove"}, NEW w \in Credential
    PROVE  /\ Item(s, h, w) \in PlanItem
           /\ Item(s, h, w).status = s /\ Item(s, h, w).how = h /\ Item(s, h, w).write = w
BY DEF Item, PlanItem

LEMMA FixedItems ==
    /\ Done \in PlanItem /\ Done.status = "done"
    /\ Failed \in PlanItem /\ Failed.status = "failed"
    /\ Nothing \in PlanItem /\ Nothing.status = None
BY DEF Done, Failed, Nothing, Item, PlanItem, Credential, None

LEMMA FailedFits ==
    ASSUME NEW x, NEW i, NEW kind PROVE Fits(x, i, kind, Failed)
BY FixedItems DEF Fits, None

LEMMA DoneFits ==
    ASSUME NEW x, NEW i, NEW kind,
           kind = "enable" => ~Random(x, i)
    PROVE  Fits(x, i, kind, Done)
BY FixedItems DEF Fits, None

LEMMA BlockFits ==
    ASSUME NEW x, NEW i, NEW kind, NEW w \in {None, "original"},
           w = None => ~Random(x, i)
    PROVE  Fits(x, i, kind, Item("pending", "block", w))
<1>1. w \in Credential BY DEF Credential
<1> QED BY <1>1, ItemFields DEF Fits, None

LEMMA AnalyzedFits ==
    ASSUME UserTypes, NEW x \in User, NEW i \in Inbound, NEW kind,
           NEW how \in {"block", "replace"}, NEW want \in {"original", "swapped"},
           want = "swapped" => how = "replace" /\ kind = "disable"
    PROVE  Fits(x, i, kind, Analyzed(x, i, how, want))
<1>1. CASE ~Present(x, i) \/ (client[x][i] = "swapped" /\ ~InBackup(x, i))
      BY <1>1, FailedFits DEF Analyzed
<1>2. CASE ~(~Present(x, i) \/ (client[x][i] = "swapped" /\ ~InBackup(x, i))) /\ client[x][i] = want
  <2>1. kind = "enable" => ~Random(x, i) BY <1>2 DEF Random
  <2> QED BY <1>2, <2>1, DoneFits DEF Analyzed
<1>3. CASE ~(~Present(x, i) \/ (client[x][i] = "swapped" /\ ~InBackup(x, i))) /\ client[x][i] # want
  <2>1. want \in Credential BY DEF Credential
  <2>2. Analyzed(x, i, how, want) = Item("pending", how, want) BY <1>3 DEF Analyzed
  <2> QED BY <2>1, <2>2, ItemFields DEF Fits, None
<1> QED BY <1>1, <1>2, <1>3

\* Users with a row have the originals of their random credentials.
LEMMA UnsavedNotSwapped ==
    ASSUME UserInv, NEW x \in User, x \in row, NEW i \in Inbound, ~InBackup(x, i)
    PROVE  ~Random(x, i)
BY Typed DEF CredentialsSound, InBackup

LEMMA DisableFits ==
    ASSUME UserInv, NEW x \in User, x \in row, NEW i \in Inbound, NEW kind,
           kind = "disable" \/ (kind = "migrate" /\ i \in supported)
    PROVE  Fits(x, i, kind, DisableItem(x, i)) /\ DisableItem(x, i).status # None
<1>0. UserTypes BY Typed
<1>1. CASE SharesCredential(x, i)
      BY <1>1, FailedFits, FixedItems DEF DisableItem, None
<1>2. CASE ~SharesCredential(x, i) /\ i \notin supported
  <2>1. DisableItem(x, i) = Analyzed(x, i, "replace", "swapped") BY <1>2 DEF DisableItem
  <2>2. DisableItem(x, i).status # None
        BY <2>1, FixedItems DEF Analyzed, Item, None
  <2> QED BY <1>0, <1>2, <2>1, <2>2, AnalyzedFits
<1>3. CASE ~SharesCredential(x, i) /\ i \in supported /\ ~InBackup(x, i)
  <2>1. DisableItem(x, i) = Item("pending", "block", None) BY <1>3 DEF DisableItem
  <2>2. DisableItem(x, i).status # None BY <2>1 DEF Item, None
  <2> QED BY <1>3, <2>1, <2>2, BlockFits, UnsavedNotSwapped
<1>4. CASE ~SharesCredential(x, i) /\ i \in supported /\ InBackup(x, i) /\ ~Present(x, i)
      BY <1>4, FailedFits, FixedItems DEF DisableItem, None
<1>5. CASE ~SharesCredential(x, i) /\ i \in supported /\ InBackup(x, i) /\ Present(x, i)
  <2> DEFINE w == IF client[x][i] = "swapped" THEN "original" ELSE None
  <2>1. DisableItem(x, i) = Item("pending", "block", w) BY <1>5 DEF DisableItem
  <2>2. DisableItem(x, i).status # None BY <2>1 DEF Item, None
  <2>3. w \in {None, "original"} /\ (w = None => ~Random(x, i)) BY DEF None, Random
  <2> QED BY <2>1, <2>2, <2>3, BlockFits
<1> QED BY <1>1, <1>2, <1>3, <1>4, <1>5

LEMMA EnableFits ==
    ASSUME UserInv, NEW x \in User, x \in row, NEW i \in Inbound
    PROVE  Fits(x, i, "enable", EnableItem(x, i))
<1>0. UserTypes BY Typed
<1>1. CASE StaysInactive(x) /\ InBackup(x, i) /\ ~Present(x, i)
  <2>1. ~Random(x, i) BY <1>1, Typed DEF Present, Placed, None, Random
  <2> QED BY <1>1, <2>1, DoneFits DEF EnableItem
<1>2. CASE ~(StaysInactive(x) /\ InBackup(x, i) /\ ~Present(x, i)) /\ InBackup(x, i)
      BY <1>0, <1>2, AnalyzedFits DEF EnableItem
<1>3. CASE ~InBackup(x, i) /\ i \in supported
  <2>1. EnableItem(x, i) = Item("pending", "block", None) BY <1>3 DEF EnableItem
  <2> QED BY <1>3, <2>1, BlockFits, UnsavedNotSwapped
<1>4. CASE ~InBackup(x, i) /\ i \notin supported
      BY <1>4, DoneFits, UnsavedNotSwapped DEF EnableItem
<1> QED BY <1>1, <1>2, <1>3, <1>4

\* A plan whose items fit is sound.
LEMMA FitsSound ==
    ASSUME UNCHANGED <<On, client, undone>>, NEW x \in User, NEW i \in Inbound, i \in On[x],
           Fits(x, i, job'[x].kind, job'[x].plan[i]),
           job'[x].kind # "delete",
           job'[x].plan[i].status = "pending" /\ job'[x].plan[i].write = "swapped" =>
               job'[x].at \notin Saved
    PROVE  ItemSound(x, i)'
BY DEF ItemSound, Fits, Random

LEMMA NothingSound ==
    ASSUME UNCHANGED On, NEW x \in User, NEW i \in Inbound, i \notin On[x] \/ job'[x].kind # "enable",
           job'[x].plan[i] = Nothing
    PROVE  ItemSound(x, i)'
BY FixedItems DEF ItemSound, None

LEMMA BuildAccessPlanKeeps ==
    ASSUME UserInv, UNCHANGED On, NEW x \in User, BuildAccessPlan(x)
    PROVE  UserInv'
<1> DEFINE made(i) == IF job[x].kind = "disable" THEN DisableItem(x, i) ELSE EnableItem(x, i)
           plan(unread) == [i \in Inbound |->
               IF i \notin On[x] THEN Nothing ELSE IF i \in unread THEN Unread(x, i) ELSE made(i)]
<1>0. /\ At(x, "plan") /\ job[x].kind \in {"disable", "enable"}
      /\ UNCHANGED <<accounts, database, memory>>
      BY DEF BuildAccessPlan
<1> DEFINE Built(unread) == job' = [job EXCEPT ![x].at = "save", ![x].plan = plan(unread)]
<1>a. Built({}) \/ \E i \in On[x] : Built({i}) BY DEF BuildAccessPlan
<1> HIDE DEF Built
<1>b. PICK unread : Built(unread) BY <1>a
<1>1. job' = [job EXCEPT ![x].at = "save", ![x].plan = plan(unread)] BY <1>b DEF Built
<1>2. x \in row BY <1>0, Typed DEF JobSound, At, None
<1>3. ASSUME NEW i \in Inbound PROVE Fits(x, i, job[x].kind, made(i))
      BY <1>0, <1>2, DisableFits, EnableFits
<1>4. ASSUME NEW i \in Inbound PROVE Fits(x, i, job[x].kind, Unread(x, i))
  <2>1. CASE job[x].kind = "enable" /\ ~InBackup(x, i)
        BY <1>2, <2>1, DoneFits, UnsavedNotSwapped DEF Unread
  <2>2. CASE ~(job[x].kind = "enable" /\ ~InBackup(x, i))
        BY <2>2, FailedFits DEF Unread
  <2> QED BY <2>1, <2>2
<1> DEFINE p == plan(unread)
<1>5. ASSUME NEW i \in Inbound
      PROVE  /\ p[i] \in PlanItem
             /\ i \notin On[x] => p[i] = Nothing
             /\ i \in On[x] => Fits(x, i, job[x].kind, p[i])
      BY <1>3, <1>4, FixedItems DEF Fits
<1>6. p \in [Inbound -> PlanItem] BY <1>5
<1> HIDE DEF p, plan, made
<1> DEFINE j == [job[x] EXCEPT !.at = "save", !.plan = p]
<1>7. "save" \in Stage BY Names
<1>8. Becomes(job', job, x, j) BY <1>1, <1>6, <1>7, Typed, PlanSets DEF p
<1>9. /\ j.kind = job[x].kind /\ j.at = "save" /\ j.read = job[x].read /\ j.plan = p
      BY Typed DEF Job
<1>10. j \in Job BY <1>8 DEF Becomes
<1> HIDE DEF j
<1>11. job'[x] = j BY <1>8 DEF Becomes
<1>12. ASSUME NEW i \in Inbound PROVE ItemSound(x, i)'
  <2>1. CASE i \in On[x]
        BY <1>0, <1>5, <1>9, <1>11, <2>1, FitsSound DEF Saved, accounts
  <2>2. CASE i \notin On[x] BY <1>5, <1>9, <1>11, <2>2, NothingSound
  <2> QED BY <2>1, <2>2
<1>13. JobSound(x)'
       BY <1>0, <1>2, <1>9, <1>11, <1>12 DEF JobSound, Saved, accounts
<1>14. Faded BY <1>0, Typed, SameFades DEF accounts
<1>15. CredentialsSound(x)' BY <1>0, <1>14, Typed, CredentialsKept DEF Faded, database, accounts
<1>16. ListStep BY <1>0, SameLists DEF database, memory
<1> QED BY <1>0, <1>8, <1>9, <1>10, <1>13, <1>14, <1>15, <1>16, Typed, QuietStepKeeps
        DEF UserSound, database, memory

-----------------------------------------------------------------------------
(* Saving a plan *)

LEMMA LifeSet ==
    ASSUME NEW x \in User, NEW old \in [User -> Life], NEW l \in Life
    PROVE  /\ [old EXCEPT ![x] = l] \in [User -> Life]
           /\ [old EXCEPT ![x] = l][x] = l
           /\ \A y \in User \ {x} : [old EXCEPT ![x] = l][y] = old[y]
OBVIOUS

LEMMA GotoStep ==
    ASSUME UserInv, NEW x \in User, NEW s \in Stage, Goto(x, s)
    PROVE  \E j \in Job : /\ Becomes(job', job, x, j)
                          /\ j.at = s /\ j.kind = job[x].kind /\ j.plan = job[x].plan
                          /\ j.cur = job[x].cur /\ j.read = job[x].read /\ j.failed = job[x].failed
<1> DEFINE j == [job[x] EXCEPT !.at = s]
<1>1. Becomes(job', job, x, j) /\ j \in Job BY Typed, GotoSets DEF Goto
<1>2. /\ j.at = s /\ j.kind = job[x].kind /\ j.plan = job[x].plan
      /\ j.cur = job[x].cur /\ j.read = job[x].read /\ j.failed = job[x].failed
      BY Typed DEF Job
<1> QED BY <1>1, <1>2

LEMMA LifeFields ==
    ASSUME NEW d \in {None, "enabled", "disabled", "deleted"},
           NEW e \in {None, "enabling", "disabling", "enabled", "disabled", "partially_enabled",
                      "partially_disabled", "deleting", "delete_partial"},
           NEW p \in BOOLEAN, NEW w \in {None, "active", "inactive"}
    PROVE  [desired |-> d, effective |-> e, pending |-> p, was |-> w] \in Life
BY DEF Life

LEMMA SaveAccessPlanKeeps ==
    ASSUME UserInv, UNCHANGED On, NEW x \in User, SaveAccessPlan(x)
    PROVE  UserInv'
<1>0. /\ At(x, "save") /\ job[x].kind \in {"disable", "enable"}
      /\ UNCHANGED <<accounts, memory>>
      BY DEF SaveAccessPlan
<1>1. Faded BY <1>0, Typed, SameFades DEF accounts
<1>2. CASE Ends(x) /\ UNCHANGED database
  <2>1. ListStep BY <1>0, <1>2, SameLists DEF database, memory
  <2> QED BY <1>0, <1>1, <1>2, <2>1, Typed, EndStepKeeps DEF Ends, database, memory
<1>3. CASE ~(Ends(x) /\ UNCHANGED database)
  <2> DEFINE kind == job[x].kind
             was == IF kind = "disable" /\ life[x].was = None
                    THEN (IF x \in active THEN "active" ELSE "inactive") ELSE life[x].was
             l == [desired |-> Desired(kind), effective |-> Progress(kind),
                   pending |-> ~Complete(x), was |-> was]
  <2>1. /\ life' = [life EXCEPT ![x] = l] /\ backup' = Backups(x) /\ Goto(x, "items")
        /\ blockRows' = IF kind = "enable" THEN blockRows \ Of(x)
                        ELSE blockRows \cup {p \in Of(x) : job[x].plan[p[2]].how = "block"}
        BY <1>3 DEF SaveAccessPlan
  <2>2. life[x].was \in {None, "active", "inactive"} BY Typed DEF Life
  <2>3. was \in {None, "active", "inactive"} BY <2>2
  <2>4. /\ Desired(kind) = IF kind = "enable" THEN "enabled" ELSE "disabled"
        /\ Progress(kind) \in {"enabling", "disabling"}
        BY DEF Desired, Progress
  <2>5. l \in Life BY <2>3, <2>4 DEF Life
  <2>6. l.desired = Desired(kind) /\ l.effective = Progress(kind) OBVIOUS
  <2> HIDE DEF l, was
  <2>7. /\ life' \in [User -> Life] /\ life'[x] = l
        /\ \A y \in User \ {x} : life'[y] = life[y]
        BY <2>1, <2>5, Typed, LifeSet
  <2>8. "items" \in Stage BY Names
  <2>9. PICK j \in Job : /\ Becomes(job', job, x, j)
                         /\ j.at = "items" /\ j.kind = kind /\ j.plan = job[x].plan
                         /\ j.read = job[x].read
        BY <2>1, <2>8, GotoStep
  <2>10. job'[x] = j BY <2>9 DEF Becomes
  <2>11. \A p \in backup : p \in backup' BY <2>1 DEF Backups
  <2>12. ASSUME NEW i \in Inbound PROVE ItemSound(x, i)'
    <3>1. ItemSound(x, i) BY Typed
    <3>2. ASSUME job[x].plan[i].status = "pending", job[x].plan[i].write = "swapped"
          PROVE  <<x, i>> \in backup'
      <4>1. i \in On[x] BY <3>1, <3>2 DEF ItemSound
      <4>2. <<x, i>> \in Of(x) BY <4>1 DEF Of, Pairs
      <4> QED BY <2>1, <3>2, <4>2 DEF Backups
    <3>3. Random(x, i)' => Random(x, i) BY <1>1 DEF Faded, Fades
    <3> QED BY <1>0, <2>9, <2>10, <3>1, <3>2, <3>3 DEF ItemSound, At, Saved, accounts
  <2>13. JobSound(x)'
    <3>1. x \in row BY <1>0, Typed DEF JobSound, At, None
    <3> QED BY <1>0, <2>4, <2>6, <2>7, <2>9, <2>10, <2>12, <3>1 DEF JobSound, Saved, accounts
  <2>14. life'[x].effective # "enabled" /\ life'[x].desired = Desired(kind)
        BY <2>4, <2>6, <2>7
  <2>15. CredentialsSound(x)'
        BY <1>1, <2>11, <2>14, Typed, CredentialsKept DEF Faded
  <2>17. ASSUME NEW y \in User \ {x} PROVE ListsSound(y)'
    <3>1. Refreshing(y)' => Refreshing(y) BY <2>9 DEF Refreshing, At, Becomes
    <3>2. ListsSound(y) BY Typed
    <3>3. Of(y)' = Of(y) /\ \A p \in Of(y) : p[1] = y BY OfSame
    <3>4. \A p \in blockRows' : p \in blockRows \/ p[1] = x BY <2>1 DEF Of
    <3> QED BY <1>0, <2>7, <3>1, <3>2, <3>3, <3>4 DEF ListsSound, Unlisted, memory
  <2>18. ListsSound(x)'
    <3>1. ~Refreshing(x)' BY <2>9, <2>10 DEF Refreshing, At
    <3>2. Of(x)' = Of(x) BY OfSame
    <3>3. life'[x].desired = "enabled" => Of(x) \cap blockRows' = {}
          BY <2>1, <2>4, <2>14
    <3> QED BY <2>14, <3>1, <3>2, <3>3 DEF ListsSound
  <2>19. PlacedRead(j.read) BY <2>9, Typed
  <2>20. ReadPlaced' /\ Locked' /\ \A y \in User \ {x} : UserSound(y)'
        BY <1>1, <2>7, <2>9, <2>11, <2>19, JobStep DEF UserInv, Faded
  <2>21. UserTypes'
        BY <1>0, <1>1, <2>7, <2>9, Typed DEF UserTypes, Faded, Becomes, memory
  <2> QED BY <1>1, <2>13, <2>15, <2>17, <2>18, <2>20, <2>21
          DEF UserInv, AccessInv, UserSound, Faded
<1> QED BY <1>2, <1>3

-----------------------------------------------------------------------------
(* Items *)

LEMMA SettlesStep ==
    ASSUME UserInv, NEW x \in User, NEW i \in Inbound, NEW t \in PlanItem, Settles(x, i, t)
    PROVE  \E j \in Job : /\ Becomes(job', job, x, j)
                          /\ j.at = "items" /\ j.kind = job[x].kind /\ j.read = NoClients
                          /\ j.plan[i] = t
                          /\ \A k \in Inbound \ {i} : j.plan[k] = job[x].plan[k]
<1> DEFINE j == [job[x] EXCEPT !.at = "items", !.cur = None, !.read = NoClients, !.plan[i] = t]
<1>0. job \in [User -> Job] BY Typed
<1>1. Becomes(job', job, x, j) BY <1>0, SettleSets, Zenon DEF Settles
<1>2. job[x] \in Job /\ job[x].plan \in [Inbound -> PlanItem] BY Typed, JobFields
<1>3. /\ j.at = "items" /\ j.kind = job[x].kind /\ j.read = NoClients
      /\ j.plan = [job[x].plan EXCEPT ![i] = t]
      BY <1>2 DEF Job
<1>4. j \in Job BY <1>1 DEF Becomes
<1>5. j.plan[i] = t /\ \A k \in Inbound \ {i} : j.plan[k] = job[x].plan[k] BY <1>2, <1>3
<1> HIDE DEF j
<1> WITNESS j \in Job
<1> QED BY <1>1, <1>3, <1>5

\* An item that has been settled stays so: it failed, or it is done, and then an enabled
\* user has no random credential there.
Settled(x, i, t) ==
    \/ t.status = "failed"
    \/ t.status = "done" /\ (job[x].kind = "enable" => ~Random(x, i)')

\* The backup of an item is dropped only when it is not needed any more.
BackupOfItem(x, i) ==
    /\ \A p \in backup : p = <<x, i>> \/ p \in backup'
    /\ <<x, i>> \in backup /\ <<x, i>> \notin backup' => ~Random(x, i)'

LEMMA SettlesKeeps ==
    ASSUME UserInv, UNCHANGED <<On, life>>, NEW x \in User, NEW i \in Inbound, NEW t \in PlanItem,
           Settles(x, i, t), Settled(x, i, t), BackupOfItem(x, i),
           job[x].at \in {"items", "read", "write"},
           Faded, ListStep, eval' \subseteq Evaluation
    PROVE  UserInv'
<1>1. PICK j \in Job : /\ Becomes(job', job, x, j)
                       /\ j.at = "items" /\ j.kind = job[x].kind /\ j.read = NoClients
                       /\ j.plan[i] = t
                       /\ \A k \in Inbound \ {i} : j.plan[k] = job[x].plan[k]
      BY SettlesStep
<1>2. job'[x] = j BY <1>1 DEF Becomes
<1>4. ASSUME NEW k \in Inbound \ {i} PROVE ItemSound(x, k)'
  <2>1. <<x, k>> \in backup => <<x, k>> \in backup' BY DEF BackupOfItem
  <2>2. job'[x].plan[k] = job[x].plan[k] BY <1>1, <1>2
  <2>3. job[x].at \in Saved BY DEF Saved
  <2> QED BY <1>1, <1>2, <2>1, <2>2, <2>3, Typed, ItemKept DEF Faded
<1>5. ItemSound(x, i)'
      BY <1>1, <1>2 DEF ItemSound, Settled, None
<1>6. \A k \in Inbound : ItemSound(x, k)' BY <1>4, <1>5
<1>7. JobSound(x)'
  <2>1. JobSound(x) BY Typed
  <2>2. job[x].at \in Saved /\ job[x].at # None BY DEF Saved, None
  <2> QED BY <1>1, <1>2, <1>6, <2>1, <2>2 DEF JobSound, Saved, Faded
<1>8. CredentialsSound(x)'
      BY Typed DEF CredentialsSound, Faded, Fades, BackupOfItem
<1>9. PlacedRead(NoClients) BY ReadSound, Typed
<1>10. \A y \in User \ {x}, k \in Inbound : <<y, k>> \in backup => <<y, k>> \in backup'
       BY DEF BackupOfItem
<1> QED BY <1>1, <1>7, <1>8, <1>9, <1>10, QuietStepKeeps DEF UserSound

LEMMA SameBackup ==
    ASSUME UNCHANGED backup, NEW x, NEW i PROVE BackupOfItem(x, i)
BY DEF BackupOfItem

LEMMA FailedSettled ==
    ASSUME NEW x, NEW i PROVE Settled(x, i, Failed) /\ Failed \in PlanItem
BY FixedItems DEF Settled

\* The inbound of an item is read.
LEMMA ReadsStep ==
    ASSUME UserInv, NEW x \in User, NEW i \in Inbound, Reads(x, i)
    PROVE  \E j \in Job : /\ Becomes(job', job, x, j)
                          /\ j.at = "read" /\ j.kind = job[x].kind /\ j.read = job[x].read
                          /\ j.cur = i /\ j.plan = job[x].plan
<1> DEFINE j == [job[x] EXCEPT !.at = "read", !.cur = i]
<1>1. "read" \in Stage BY Names
<1>2. Becomes(job', job, x, j) BY <1>1, Typed, CurSets DEF Reads
<1>3. /\ j.at = "read" /\ j.kind = job[x].kind /\ j.read = job[x].read
      /\ j.cur = i /\ j.plan = job[x].plan
      BY Typed DEF Job
<1>4. j \in Job BY <1>2 DEF Becomes
<1> QED BY <1>2, <1>3, <1>4

LEMMA ReadsKeeps ==
    ASSUME UserInv, UNCHANGED <<On, life, backup>>, NEW x \in User, NEW i \in Inbound, Reads(x, i),
           At(x, "items"), Pending(x, i), job[x].kind # "delete", job[x].plan[i].write # None,
           Faded, ListStep, eval' \subseteq Evaluation
    PROVE  UserInv'
<1>1. PICK j \in Job : /\ Becomes(job', job, x, j)
                       /\ j.at = "read" /\ j.kind = job[x].kind /\ j.read = job[x].read
                       /\ j.cur = i /\ j.plan = job[x].plan
      BY ReadsStep
<1>2. job'[x] = j BY <1>1 DEF Becomes
<1>3. UserSound(x)'
      BY <1>1, <1>2, MovesSound DEF Faded, Saved, At, Pending, None
<1> QED BY <1>1, <1>3, Typed, QuietStepKeeps

LEMMA AccessItemShape ==
    ASSUME UserInv, NEW x \in User, NEW i \in Inbound, Pending(x, i),
           job[x].plan[i].how \in {"block", "replace"}
    PROVE  /\ i \in On[x] /\ job[x].kind # "delete" /\ job[x].plan[i] \in PlanItem
           /\ \/ job[x].plan[i].how = "block" /\ job[x].plan[i].write \in {None, "original"}
              \/ job[x].plan[i].how = "replace" /\ job[x].plan[i].write \in {"original", "swapped"}
           /\ job[x].plan[i].write = "swapped" => job[x].kind = "disable"
           /\ job[x].plan[i].how = "block" /\ job[x].plan[i].write = None => ~Random(x, i)
<1>1. ItemSound(x, i) BY Typed
<1>2. job[x].plan[i] \in PlanItem BY Typed, JobFields
<1> QED BY <1>1, <1>2 DEF ItemSound, Pending, None

LEMMA BlockItemKeeps ==
    ASSUME UserInv, UNCHANGED On, NEW x \in User, NEW i \in Inbound, BlockItem(x, i)
    PROVE  UserInv'
<1>0. /\ At(x, "items") /\ Pending(x, i) /\ job[x].plan[i].how = "block"
      /\ UNCHANGED <<accounts, life>>
      BY DEF BlockItem
<1>1. Faded BY <1>0, Typed, SameFades DEF accounts
<1>2. Refreshed(TRUE) \/ Refreshed(FALSE) BY DEF BlockItem
<1>3. ListStep /\ eval' = {} BY <1>2, RefreshLists
<1>4. eval' \subseteq Evaluation BY <1>3
<1>5. /\ job[x].kind # "delete" /\ job[x].plan[i].write \in {None, "original"}
      /\ job[x].plan[i].write = None => ~Random(x, i)
      BY <1>0, AccessItemShape
<1>6. \/ Settles(x, i, Failed) /\ UNCHANGED backup
      \/ job[x].plan[i].write = None /\ Settles(x, i, Failed) /\ backup' = backup \ {<<x, i>>}
      \/ job[x].plan[i].write # None /\ Reads(x, i) /\ UNCHANGED backup
      \/ job[x].plan[i].write = None /\ Settles(x, i, Done) /\ backup' = backup \ {<<x, i>>}
      BY DEF BlockItem
<1>7. CASE Settles(x, i, Failed) /\ UNCHANGED backup
      BY <1>0, <1>1, <1>3, <1>4, <1>7, SameBackup, FailedSettled, SettlesKeeps DEF At
<1>8. CASE job[x].plan[i].write # None /\ Reads(x, i) /\ UNCHANGED backup
      BY <1>0, <1>1, <1>3, <1>4, <1>5, <1>8, ReadsKeeps
<1>9. CASE /\ job[x].plan[i].write = None
           /\ Settles(x, i, Done) \/ Settles(x, i, Failed)
           /\ backup' = backup \ {<<x, i>>}
  <2>0. client' = client /\ undone' = undone BY <1>0 DEF accounts
  <2>1. ~Random(x, i)' BY <1>5, <1>9, <2>0 DEF Random
  <2>2. Settled(x, i, Done) /\ Done \in PlanItem BY <2>1, FixedItems DEF Settled
  <2>3. BackupOfItem(x, i) BY <1>9, <2>1 DEF BackupOfItem
  <2>4. CASE Settles(x, i, Done)
        BY <1>0, <1>1, <1>3, <1>4, <2>4, <2>2, <2>3, SettlesKeeps DEF At
  <2>5. CASE Settles(x, i, Failed)
        BY <1>0, <1>1, <1>3, <1>4, <2>5, <2>3, FailedSettled, SettlesKeeps DEF At
  <2> QED BY <1>9, <2>4, <2>5
<1> QED BY <1>6, <1>7, <1>8, <1>9

LEMMA ReplaceItemKeeps ==
    ASSUME UserInv, UNCHANGED On, NEW x \in User, NEW i \in Inbound, ReplaceItem(x, i)
    PROVE  UserInv'
<1>1. Faded BY Typed, SameFades DEF ReplaceItem, accounts
<1>2. /\ At(x, "items") /\ Pending(x, i) /\ job[x].plan[i].how = "replace" /\ Reads(x, i)
      /\ UNCHANGED <<database, memory>>
      BY DEF ReplaceItem
<1>3. job[x].kind # "delete" /\ job[x].plan[i].write # None
      BY <1>2, AccessItemShape DEF None
<1>4. ListStep BY <1>2, SameLists DEF database, memory
<1> QED BY <1>1, <1>2, <1>3, <1>4, Typed, ReadsKeeps DEF database, memory

LEMMA MarkedItem ==
    ASSUME NEW item \in PlanItem, NEW s \in {None, "pending", "done", "failed"}
    PROVE  [item EXCEPT !.status = s] \in PlanItem /\ [item EXCEPT !.status = s].status = s
BY DEF PlanItem

\* The lock: what has been read stays right about swapped credentials.
LEMMA LockedRead ==
    ASSUME UserInv, UNCHANGED <<On, client>>, NEW x \in User, NEW j \in Job, Becomes(job', job, x, j),
           LockFree(x, j.cur), j.read = client, j.cur \in Inbound
    PROVE  Locked'
<1>1. ASSUME NEW a \in User, NEW b \in User, At(a, "write")', b # a
      PROVE  /\ At(b, "write")' => job'[a].cur # job'[b].cur
             /\ client'[b][job'[a].cur] = "swapped" => job'[a].read[b][job'[a].cur] # "original"
  <2>1. CASE a = x
    <3>1. job'[a] = j /\ job'[b] = job[b] BY <1>1, <2>1 DEF Becomes
    <3>2. At(b, "write")' => job'[a].cur # job'[b].cur
          BY <3>1 DEF LockFree, At
    <3> QED BY <3>1, <3>2
  <2>2. CASE a # x
    <3>1. job'[a] = job[a] BY <2>2 DEF Becomes
    <3>2. At(b, "write")' => job'[a].cur # job'[b].cur
      <4>1. CASE b = x BY <1>1, <3>1, <4>1 DEF LockFree, At, Becomes
      <4>2. CASE b # x
        <5>1. job'[b] = job[b] BY <4>2 DEF Becomes
        <5> QED BY <1>1, <3>1, <5>1, Typed DEF Locked, At, UserInv, AccessInv
      <4> QED BY <4>1, <4>2
    <3> QED BY <1>1, <3>1, <3>2 DEF Locked, At, UserInv, AccessInv
  <2> QED BY <2>1, <2>2
<1> QED BY <1>1 DEF Locked

LEMMA ReadInboundKeeps ==
    ASSUME UserInv, UNCHANGED On, NEW x \in User, ReadInbound(x)
    PROVE  UserInv'
<1>a. At(x, "read") BY DEF ReadInbound
<1>b. job[x].cur \in Inbound BY <1>a, Typed DEF JobSound, At
<1>c. PICK i \in Inbound : i = job[x].cur BY <1>b
<1> DEFINE item == job[x].plan[i]
<1>0. /\ At(x, "read") /\ LockFree(x, i)
      /\ UNCHANGED <<accounts, database, memory>>
      BY <1>c DEF ReadInbound
<1>1. Faded BY <1>0, Typed, SameFades DEF accounts
<1>2. /\ i \in Inbound /\ job[x].kind # "delete" /\ item.status = "pending"
      /\ item.write # None
      BY <1>0, <1>c, Typed DEF JobSound, At
<1>3. item \in PlanItem BY <1>2, Typed, JobFields
<1>4. ListStep BY <1>0, SameLists DEF database, memory
<1>5. \/ Settles(x, i, Failed)
      \/ client[x][i] = item.write /\ Settles(x, i, [item EXCEPT !.status = "done"])
      \/ job' = [job EXCEPT ![x].at = "write", ![x].read = client]
      BY <1>c DEF ReadInbound
<1>6. CASE Settles(x, i, Failed)
      BY <1>0, <1>1, <1>2, <1>4, <1>6, Typed, SameBackup, FailedSettled, SettlesKeeps
      DEF At, database, memory
<1>7. CASE client[x][i] = item.write /\ Settles(x, i, [item EXCEPT !.status = "done"])
  <2> DEFINE t == [item EXCEPT !.status = "done"]
  <2>1. t \in PlanItem /\ t.status = "done" BY <1>3, MarkedItem
  <2>2. item.write = "swapped" => job[x].kind = "disable"
        BY <1>2, Typed DEF ItemSound
  <2>4. client' = client BY <1>0 DEF accounts
  <2>5. job[x].kind = "enable" => ~Random(x, i)' BY <1>7, <2>2, <2>4 DEF Random
  <2>3. Settled(x, i, t) BY <2>1, <2>5 DEF Settled
  <2> HIDE DEF t
  <2> QED BY <1>0, <1>1, <1>2, <1>4, <1>7, <2>1, <2>3, Typed, SameBackup, SettlesKeeps
          DEF At, database, memory, t
<1>8. CASE job' = [job EXCEPT ![x].at = "write", ![x].read = client]
  <2> DEFINE j == [job[x] EXCEPT !.at = "write", !.read = client]
  <2>1. "write" \in Stage BY Names
  <2>2. Becomes(job', job, x, j) BY <1>8, <2>1, Typed, ReadSets
  <2>3. /\ j.at = "write" /\ j.kind = job[x].kind /\ j.read = client /\ j.cur = i
        /\ j.plan = job[x].plan
        BY <1>c, Typed DEF Job
  <2>4. j \in Job BY <2>2 DEF Becomes
  <2> HIDE DEF j, item
  <2>5. job'[x] = j BY <2>2 DEF Becomes
  <2>6. Locked' BY <1>0, <1>2, <2>2, <2>3, <2>4, LockedRead DEF accounts
  <2>7. ReadPlaced'
    <3>1. PlacedRead(client) BY Typed, ReadSound
    <3> QED BY <2>2, <2>3, <3>1, Typed DEF ReadPlaced, PlacedRead, Becomes
  <2>8. UserSound(x)'
        BY <1>0, <1>1, <1>2, <2>3, <2>5, MovesSound
        DEF Faded, Saved, At, database, None, item
  <2>9. ASSUME NEW y \in User \ {x} PROVE UserSound(y)'
    <3>1. Kept(y) BY <1>0, <1>1, <2>2 DEF Kept, Becomes, Faded, Fades, database
    <3> QED BY <3>1, Typed, KeptSound
  <2>10. ASSUME NEW y \in User PROVE ListsSound(y)'
    <3>1. Refreshing(y)' => Refreshing(y) BY <2>2, <2>3, <2>5 DEF Refreshing, At, Becomes
    <3> QED BY <1>0, <1>4, <3>1, ListKept DEF database
  <2>11. UserTypes'
        BY <1>0, <2>2, Typed DEF UserTypes, Becomes, accounts, database, memory
  <2> QED BY <1>1, <2>6, <2>7, <2>8, <2>9, <2>10, <2>11 DEF UserInv, AccessInv, Faded
<1> QED BY <1>5, <1>6, <1>7, <1>8

\* The inbound is replaced by what was read, with the credential of x changed.
LEMMA ReplacedClients ==
    ASSUME UserInv, UNCHANGED <<On, here>>, NEW x \in User, NEW i \in Inbound, i \in here, i \in On[x],
           NEW w \in Credential, Replaced(x, i, w)
    PROVE  /\ client' \in Clients /\ Placed'
           /\ client'[x][i] = w
           /\ \A y \in User, k \in Inbound \ {i} : client'[y][k] = client[y][k]
           /\ \A y \in User \ {x} : client'[y][i] = job[x].read[y][i]
           /\ \A y \in User, k \in Inbound : Random(y, k)' => (y = x /\ k = i) \/ Random(y, k)
<1>1. client \in [User -> [Inbound -> Credential]]
      /\ job[x].read \in [User -> [Inbound -> Credential]]
      BY Typed, JobFields DEF Clients
<1>2. client' = [y \in User |-> [client[y] EXCEPT ![i] = IF y = x THEN w ELSE job[x].read[y][i]]]
      BY DEF Replaced
<1>3. client' \in Clients BY <1>1, <1>2 DEF Clients
<1>4. /\ client'[x][i] = w
      /\ \A y \in User, k \in Inbound \ {i} : client'[y][k] = client[y][k]
      /\ \A y \in User \ {x} : client'[y][i] = job[x].read[y][i]
      BY <1>1, <1>2
<1>5. ASSUME NEW y \in User, NEW k \in Inbound, client'[y][k] # None
      PROVE  k \in On[y] /\ k \in here
  <2>1. CASE k # i BY <1>4, <1>5, <2>1, Typed DEF Placed
  <2>2. CASE k = i /\ y = x BY <2>2
  <2>3. CASE k = i /\ y # x BY <1>4, <1>5, <2>3, Typed DEF PlacedRead
  <2> QED BY <2>1, <2>2, <2>3
<1>6. Placed' BY <1>5 DEF Placed
<1>7. undone' = StillUndone((undone \ {<<x, i>>})
                            \cup {<<y, i>> : y \in {z \in User \ {x} : client[z][i] # "swapped"}})
      BY DEF Replaced
<1>8. ASSUME NEW y \in User, NEW k \in Inbound, Random(y, k)', ~(y = x /\ k = i)
      PROVE  Random(y, k)
  <2>1. client'[y][k] = "swapped" /\ <<y, k>> \notin undone' BY <1>8 DEF Random
  <2>2. <<y, k>> \notin undone BY <1>7, <1>8, <2>1 DEF StillUndone
  <2>3. CASE k # i BY <1>4, <2>1, <2>2, <2>3 DEF Random
  <2>4. CASE k = i
    <3>1. y \in User \ {x} BY <1>8, <2>4
    <3>2. client[y][i] = "swapped" BY <1>7, <2>1, <2>4, <3>1 DEF StillUndone
    <3> QED BY <2>2, <2>4, <3>2 DEF Random
  <2> QED BY <2>3, <2>4
<1> QED BY <1>3, <1>4, <1>6, <1>8

LEMMA WriteInboundKeeps ==
    ASSUME UserInv, UNCHANGED On, NEW x \in User, WriteInbound(x)
    PROVE  UserInv'
<1>a. At(x, "write") BY DEF WriteInbound
<1>b. job[x].cur \in Inbound BY <1>a, Typed DEF JobSound, At
<1>c. PICK i \in Inbound : i = job[x].cur BY <1>b
<1> DEFINE item == job[x].plan[i]
           done == [item EXCEPT !.status = "done"]
<1>0. At(x, "write") /\ UNCHANGED <<row, active, here, life, blockRows, memory>>
      BY DEF WriteInbound
<1>1. /\ i \in Inbound /\ job[x].kind # "delete" /\ item.status = "pending"
      /\ item.write # None
      BY <1>0, <1>c, Typed DEF JobSound, At
<1>2. item \in PlanItem /\ job[x].at = "write" BY <1>0, <1>1, Typed, JobFields DEF At
<1>3. /\ i \in On[x]
      /\ \/ item.how = "block" /\ item.write = "original"
         \/ item.how = "replace" /\ item.write \in {"original", "swapped"}
      /\ item.write = "swapped" => job[x].kind = "disable" /\ <<x, i>> \in backup
      BY <1>1, <1>2, Typed DEF ItemSound, None, Saved
<1>4. done \in PlanItem /\ done.status = "done" BY <1>2, MarkedItem
<1>5. \/ /\ i \in here /\ Replaced(x, i, item.write) /\ Settles(x, i, done)
         /\ backup' = IF item.how = "block" THEN backup \ {<<x, i>>} ELSE backup
      \/ /\ i \in here /\ Replaced(x, i, item.write) /\ Settles(x, i, Failed)
         /\ backup' \in {backup, IF item.how = "block" THEN backup \ {<<x, i>>} ELSE backup}
      \/ UNCHANGED <<client, undone>> /\ Settles(x, i, Failed) /\ UNCHANGED backup
      BY <1>c DEF WriteInbound
<1> HIDE DEF item, done
<1>6. ListStep BY <1>0, SameLists DEF memory
<1>7. CASE UNCHANGED <<client, undone>> /\ Settles(x, i, Failed) /\ UNCHANGED backup
  <2>1. Faded BY <1>0, <1>7, Typed, SameFades
  <2> QED BY <1>0, <1>1, <1>2, <1>6, <1>7, <2>1, Typed, SameBackup, FailedSettled, SettlesKeeps
          DEF memory
<1>8. ASSUME i \in here, Replaced(x, i, item.write), NEW t \in {done, Failed}, Settles(x, i, t),
             \A p \in backup : p = <<x, i>> \/ p \in backup',
             item.write = "swapped" => UNCHANGED backup
      PROVE  UserInv'
  <2>1. t \in PlanItem /\ t.status \in {"done", "failed"} BY <1>4, FixedItems
  <2>2. PICK j \in Job : /\ Becomes(job', job, x, j)
                         /\ j.at = "items" /\ j.kind = job[x].kind /\ j.read = NoClients
                         /\ j.plan[i] = t
                         /\ \A k \in Inbound \ {i} : j.plan[k] = job[x].plan[k]
        BY <1>1, <1>8, <2>1, SettlesStep
  <2>3. job'[x] = j /\ \A y \in User \ {x} : job'[y] = job[y] BY <2>2 DEF Becomes
  <2>4. item.write \in Credential BY <1>3 DEF Credential
  <2>5. /\ client' \in Clients /\ Placed'
        /\ client'[x][i] = item.write
        /\ \A y \in User, k \in Inbound \ {i} : client'[y][k] = client[y][k]
        /\ \A y \in User, k \in Inbound : Random(y, k)' => (y = x /\ k = i) \/ Random(y, k)
        BY <1>0, <1>1, <1>3, <1>8, <2>4, ReplacedClients
  <2>6. ReadPlaced'
    <3>1. PlacedRead(NoClients) BY Typed, ReadSound
    <3> QED BY <2>2, <2>3, <3>1, Typed DEF ReadPlaced, PlacedRead
  <2>7. Locked'
    <3>1. ASSUME NEW a \in User, NEW b \in User, At(a, "write")', b # a
          PROVE  /\ At(b, "write")' => job'[a].cur # job'[b].cur
                 /\ client'[b][job'[a].cur] = "swapped" => job'[a].read[b][job'[a].cur] # "original"
      <4>1. a # x /\ job'[a] = job[a] /\ At(a, "write") BY <2>2, <2>3, <3>1 DEF At
      <4>2. At(b, "write")' => b # x /\ job'[b] = job[b] BY <2>2, <2>3 DEF At
      <4>3. job[a].cur \in Inbound BY <4>1, Typed DEF JobSound, At
      <4>4. job[a].cur # i BY <1>0, <1>c, <4>1 DEF UserInv, AccessInv, Locked
      <4>5. client'[b][job[a].cur] = client[b][job[a].cur] BY <2>5, <4>3, <4>4
      <4> QED BY <3>1, <4>1, <4>2, <4>5 DEF UserInv, AccessInv, Locked, At
    <3> QED BY <3>1 DEF Locked
  <2>8. ASSUME NEW y \in User \ {x} PROVE UserSound(y)'
    <3>2. Kept(y) BY <1>0, <1>8, <2>3, <2>5 DEF Kept
    <3> QED BY <3>2, Typed, KeptSound
  <2>9. \A k \in Inbound \ {i} : Random(x, k)' => Random(x, k) BY <2>5
  <2>10. ASSUME NEW k \in Inbound \ {i} PROVE ItemSound(x, k)'
    <3>1. <<x, k>> \in backup => <<x, k>> \in backup' BY <1>8
    <3>2. job'[x].plan[k] = job[x].plan[k] /\ job'[x].kind = job[x].kind
          BY <2>2, <2>3
    <3>3. client'[x][k] = client[x][k] BY <2>5
    <3>4. job[x].at \in Saved BY <1>2 DEF Saved
    <3> QED BY <2>9, <3>1, <3>2, <3>3, <3>4, Typed DEF ItemSound
  <2>11. ItemSound(x, i)'
         BY <1>3, <2>1, <2>2, <2>3, <2>5 DEF ItemSound, None, Random
  <2>12. JobSound(x)'
    <3>1. \A k \in Inbound : ItemSound(x, k)' BY <2>10, <2>11
    <3>2. JobSound(x) /\ job[x].at \in Saved /\ job[x].at # None BY <1>2, Typed DEF Saved, None
    <3> QED BY <1>0, <2>2, <2>3, <3>1, <3>2 DEF JobSound, Saved
  <2>13. CredentialsSound(x)'
    <3>1. ASSUME NEW k \in Inbound, Random(x, k)'
          PROVE  (x \in row => <<x, k>> \in backup') /\ life[x].effective # "enabled"
      <4>1. CASE k # i BY <1>8, <2>9, <3>1, <4>1, Typed DEF CredentialsSound
      <4>2. CASE k = i
        <5>1. item.write = "swapped" BY <2>5, <3>1, <4>2 DEF Random
        <5>2. job[x].at \in Saved BY <1>2 DEF Saved
        <5>3. life[x].effective # "enabled" BY <1>3, <5>1, <5>2, Typed DEF JobSound
        <5> QED BY <1>3, <1>8, <4>2, <5>1, <5>3
      <4> QED BY <4>1, <4>2
    <3> QED BY <1>0, <3>1 DEF CredentialsSound
  <2>14. ASSUME NEW y \in User PROVE ListsSound(y)'
    <3>1. Refreshing(y)' => Refreshing(y) BY <2>2, <2>3 DEF Refreshing, At
    <3> QED BY <1>0, <1>6, <3>1, ListKept
  <2>15. UserTypes' BY <1>0, <2>2, <2>5, Typed DEF UserTypes, Becomes, memory
  <2> QED BY <2>5, <2>6, <2>7, <2>8, <2>12, <2>13, <2>14, <2>15 DEF UserInv, AccessInv, UserSound
<1>9. CASE /\ i \in here /\ Replaced(x, i, item.write) /\ Settles(x, i, done)
           /\ backup' = IF item.how = "block" THEN backup \ {<<x, i>>} ELSE backup
  <2>1. item.write = "swapped" => UNCHANGED backup BY <1>3, <1>9
  <2>2. \A p \in backup : p = <<x, i>> \/ p \in backup' BY <1>9
  <2> QED BY <1>8, <1>9, <2>1, <2>2
<1>10. CASE /\ i \in here /\ Replaced(x, i, item.write) /\ Settles(x, i, Failed)
            /\ backup' \in {backup, IF item.how = "block" THEN backup \ {<<x, i>>} ELSE backup}
  <2>1. item.write = "swapped" => UNCHANGED backup BY <1>3, <1>10
  <2>2. \A p \in backup : p = <<x, i>> \/ p \in backup' BY <1>10
  <2> QED BY <1>8, <1>10, <2>1, <2>2
<1> QED BY <1>5, <1>7, <1>9, <1>10

-----------------------------------------------------------------------------
(* The end of a request *)

LEMMA FailedStep ==
    ASSUME UserInv, NEW x \in User, NEW s \in Stage,
           job' = [job EXCEPT ![x].at = s, ![x].failed = TRUE]
    PROVE  \E j \in Job : /\ Becomes(job', job, x, j)
                          /\ j.at = s /\ j.kind = job[x].kind /\ j.plan = job[x].plan
                          /\ j.read = job[x].read /\ j.failed
<1> DEFINE j == [job[x] EXCEPT !.at = s, !.failed = TRUE]
<1>1. Becomes(job', job, x, j) BY Typed, FailedSets
<1>2. /\ j.at = s /\ j.kind = job[x].kind /\ j.plan = job[x].plan
      /\ j.read = job[x].read /\ j.failed
      BY Typed DEF Job
<1>3. j \in Job BY <1>1 DEF Becomes
<1> QED BY <1>1, <1>2, <1>3

LEMMA ApplyOfficialKeeps ==
    ASSUME UserInv, UNCHANGED On, NEW x \in User, ApplyOfficial(x)
    PROVE  UserInv'
<1>0. /\ At(x, "items") /\ job[x].kind \in {"disable", "enable"}
      /\ UNCHANGED <<database, memory>>
      BY DEF ApplyOfficial, NoneLeft
<1> DEFINE e == job[x].kind = "enable"
<1>1. UNCHANGED accounts \/ OfficialApplied(x, e, TRUE) \/ OfficialApplied(x, e, FALSE)
      BY DEF ApplyOfficial
<1>2. e \in BOOLEAN OBVIOUS
<1>3. Faded
  <2>1. CASE UNCHANGED accounts BY <2>1, Typed, SameFades DEF accounts
  <2>2. CASE OfficialApplied(x, e, TRUE) \/ OfficialApplied(x, e, FALSE)
        BY <1>2, <2>2, Typed, AppliedKeeps
  <2> QED BY <1>1, <2>1, <2>2
<1>4. Goto(x, "refresh") \/ job' = [job EXCEPT ![x].at = "refresh", ![x].failed = TRUE]
      BY DEF ApplyOfficial
<1>5. "refresh" \in Stage BY Names
<1>6. PICK j \in Job : /\ Becomes(job', job, x, j)
                       /\ j.at = "refresh" /\ j.kind = job[x].kind /\ j.plan = job[x].plan
                       /\ j.read = job[x].read
  <2>1. CASE Goto(x, "refresh") BY <1>5, <2>1, GotoStep
  <2>2. CASE job' = [job EXCEPT ![x].at = "refresh", ![x].failed = TRUE]
        BY <1>5, <2>2, FailedStep
  <2> QED BY <1>4, <2>1, <2>2
<1>7. job'[x] = j BY <1>6 DEF Becomes
<1>8. UserSound(x)'
      BY <1>0, <1>3, <1>6, <1>7, MovesSound DEF Faded, Saved, At, database, None
<1>9. ListStep BY <1>0, SameLists DEF database, memory
<1> QED BY <1>0, <1>3, <1>6, <1>8, <1>9, Typed, QuietStepKeeps DEF database, memory

LEMMA RefreshAtEndKeeps ==
    ASSUME UserInv, UNCHANGED On, NEW x \in User, RefreshAtEnd(x)
    PROVE  UserInv'
<1>0. At(x, "refresh") /\ UNCHANGED <<accounts, life, backup>> BY DEF RefreshAtEnd
<1>1. Faded BY <1>0, Typed, SameFades DEF accounts
<1>2. "finish" \in Stage BY Names
<1>3. \/ Refreshed(TRUE) /\ Goto(x, "finish")
      \/ Refreshed(FALSE) /\ job' = [job EXCEPT ![x].at = "finish", ![x].failed = TRUE]
      BY DEF RefreshAtEnd
<1>4. ListStep /\ eval' = {} BY <1>3, RefreshLists
<1>5. PICK j \in Job : /\ Becomes(job', job, x, j)
                       /\ j.at = "finish" /\ j.kind = job[x].kind /\ j.plan = job[x].plan
                       /\ j.read = job[x].read
                       /\ j.failed \/ Refreshed(TRUE)
  <2>1. CASE Refreshed(TRUE) /\ Goto(x, "finish") BY <1>2, <2>1, GotoStep
  <2>2. CASE Refreshed(FALSE) /\ job' = [job EXCEPT ![x].at = "finish", ![x].failed = TRUE]
        BY <1>2, <2>2, FailedStep
  <2> QED BY <1>3, <2>1, <2>2
<1>6. job'[x] = j BY <1>5 DEF Becomes
<1>7. UserSound(x)'
      BY <1>0, <1>1, <1>5, <1>6, MovesSound DEF Faded, Saved, At, None
<1>8. ListsSound(x)'
  <2>1. CASE ~Refreshing(x)' BY <1>0, <1>4, <2>1, ListKept
  <2>2. CASE Refreshing(x)'
    <3>1. Refreshed(TRUE) /\ job[x].kind = "enable"
          BY <1>5, <1>6, <2>2 DEF Refreshing
    <3>2. \A p \in listed' : p[1] \in ToBlock BY <3>1, RefreshLists
    <3>3. life[x].desired = "enabled" BY <1>0, <3>1, Typed DEF JobSound, At, Saved
    <3>4. Of(x)' = Of(x) /\ \A p \in Of(x) : p[1] = x BY OfSame
    <3>5. Of(x) \cap listed' = {} BY <3>2, <3>3, <3>4, NotToBlock
    <3>6. Of(x) \cap blockRows' = {}
      <4>1. \A p \in blockRows' : p \in blockRows \/ p[1] \in ToBlock BY <1>4 DEF ListStep
      <4>2. Of(x) \cap blockRows = {} BY <3>3, Typed DEF ListsSound
      <4> QED BY <3>3, <3>4, <4>1, <4>2, NotToBlock
    <3>7. Unlisted(x)' BY <1>4, <3>4, <3>5 DEF Unlisted
    <3> QED BY <1>0, <3>3, <3>4, <3>6, <3>7 DEF ListsSound
  <2> QED BY <2>1, <2>2
<1>9. eval' \subseteq Evaluation BY <1>4
<1> QED BY <1>0, <1>1, <1>4, <1>5, <1>7, <1>8, <1>9, Typed, JobStepKeeps

LEMMA FinishAccessAttemptKeeps ==
    ASSUME UserInv, UNCHANGED On, NEW x \in User, FinishAccessAttempt(x)
    PROVE  UserInv'
<1>0. /\ At(x, "finish") /\ Ends(x)
      /\ UNCHANGED <<accounts, blockRows, memory>>
      BY DEF FinishAccessAttempt
<1>1. Faded BY <1>0, Typed, SameFades DEF accounts
<1>2. ListStep BY <1>0, SameLists DEF memory
<1>3. CASE UNCHANGED <<life, backup>>
      BY <1>0, <1>1, <1>2, <1>3, Typed, EndStepKeeps DEF Ends, memory
<1>4. CASE ~UNCHANGED <<life, backup>>
  <2> DEFINE kind == job[x].kind
             pending == job[x].failed \/ ~Complete(x)
             clear == kind = "enable" /\ ~pending
             effective == IF pending THEN Partial(kind) ELSE Desired(kind)
             was == IF clear THEN None ELSE life[x].was
             l == [desired |-> Desired(kind), effective |-> effective,
                   pending |-> pending, was |-> was]
  <2>1. life' = [life EXCEPT ![x] = l] /\ backup' = IF clear THEN backup \ Of(x) ELSE backup
        BY <1>4 DEF FinishAccessAttempt
  <2>2. job[x].failed \in BOOLEAN BY Typed, JobFields
  <2>3. pending \in BOOLEAN BY <2>2
  <2>4. life[x].was \in {None, "active", "inactive"} BY Typed DEF Life
  <2>5. /\ Desired(kind) \in {"enabled", "disabled"}
        /\ Desired(kind) = "enabled" <=> kind = "enable"
        /\ Partial(kind) \in {"partially_enabled", "partially_disabled"}
        BY DEF Desired, Partial
  <2>6. l \in Life
    <3>1. effective \in
            {None, "enabling", "disabling", "enabled", "disabled", "partially_enabled",
             "partially_disabled", "deleting", "delete_partial"}
          BY <2>5
    <3>2. Desired(kind) \in {None, "enabled", "disabled", "deleted"} BY <2>5
    <3>3. was \in {None, "active", "inactive"} BY <2>4
    <3> HIDE DEF kind, pending, clear, effective, was
    <3> QED BY <2>3, <3>1, <3>2, <3>3 DEF Life
  <2>7. l.desired = Desired(kind) /\ (l.effective = "enabled" => clear)
        BY <2>5
  <2>8. clear => l.effective = "enabled" BY <2>5
  <2> HIDE DEF l
  <2>9. /\ life' \in [User -> Life] /\ life'[x] = l
        /\ \A y \in User \ {x} : life'[y] = life[y]
        BY <2>1, <2>6, Typed, LifeSet
  <2>10. Becomes(job', job, x, NoJob) BY <1>0, Typed, JobSet, NoJobType DEF Ends
  <2>11. NoJob.read = NoClients /\ NoJob.at \notin {"write", "finish"} BY DEF NoJob, None
  <2>12. JobSound(x)' /\ ~Refreshing(x)' BY <2>10, EndsSound DEF Becomes
  <2>13. ASSUME clear, NEW i \in Inbound PROVE ~Random(x, i)
    <3>1. CASE i \notin On[x] BY <3>1, Typed DEF Placed, None, Random
    <3>2. CASE i \in On[x]
      <4>1. job[x].plan[i].status = "done"
            BY <1>0, <2>13, <3>2, Typed DEF ItemSound, At, Saved, Complete
      <4> QED BY <1>0, <2>13, <4>1, Typed DEF ItemSound, At, Saved
    <3> QED BY <3>1, <3>2
  <2>14. CredentialsSound(x)'
    <3>1. \A i \in Inbound : Random(x, i)' => Random(x, i) BY <1>1 DEF Faded, Fades
    <3>2. CASE clear BY <1>0, <2>13, <3>1, <3>2 DEF CredentialsSound, accounts
    <3>3. CASE ~clear
      <4>1. life'[x].effective # "enabled" BY <2>7, <2>9, <3>3
      <4> QED BY <1>1, <2>1, <3>3, <4>1, Typed, CredentialsKept DEF Faded
    <3> QED BY <3>2, <3>3
  <2>15. \A y \in User \ {x}, i \in Inbound : <<y, i>> \in backup => <<y, i>> \in backup'
         BY <2>1 DEF Of
  <2>16. ListsSound(x)'
    <3>1. Of(x)' = Of(x) BY OfSame
    <3>2. life'[x].effective = "enabled" => clear /\ life'[x].desired = "enabled"
          BY <2>5, <2>7, <2>9
    <3>3. life'[x].desired = "enabled" => life[x].desired = "enabled"
          BY <1>0, <2>5, <2>7, <2>9, Typed DEF JobSound, At, Saved
    <3>4. clear => Refreshing(x) BY <1>0 DEF Refreshing
    <3>5. Unlisted(x)' = Unlisted(x) BY <1>0, <3>1 DEF Unlisted, memory
    <3> QED BY <1>0, <2>12, <3>1, <3>2, <3>3, <3>4, <3>5, Typed DEF ListsSound
  <2>17. PlacedRead(NoClients) BY ReadSound, Typed
  <2>18. eval' \subseteq Evaluation BY <1>0, Typed DEF memory
  <2> QED BY <1>1, <1>2, <2>9, <2>10, <2>11, <2>12, <2>14, <2>15, <2>16, <2>17, <2>18, NoJobType,
          JobStepKeeps DEF UserSound
<1> QED BY <1>3, <1>4

-----------------------------------------------------------------------------
(* The migration *)

LEMMA AbsentFails ==
    ASSUME NEW x \in User, NEW i \in Inbound, i \in supported, InBackup(x, i), ~Present(x, i)
    PROVE  DisableItem(x, i) = Failed
BY DEF DisableItem

LEMMA FailedItemSound ==
    ASSUME UNCHANGED On, NEW x \in User, NEW i \in Inbound, job'[x].plan[i] = Failed
    PROVE  ItemSound(x, i)'
BY FixedItems DEF ItemSound, None

LEMMA MigrateKeeps ==
    ASSUME UserInv, UNCHANGED On, NEW x \in User, Migrate(x)
    PROVE  UserInv'
<1> DEFINE due == {i \in supported : <<x, i>> \in backup \cap listed \cap confirmed}
           p == [i \in Inbound |-> IF i \in due THEN DisableItem(x, i) ELSE Nothing]
           w == IF life[x].was # None THEN life[x].was
                ELSE IF x \in active THEN "active" ELSE "inactive"
<1>0. /\ x \in row /\ life[x].desired = "disabled" /\ job[x] = NoJob
      /\ UNCHANGED <<accounts, blockRows, memory>>
      BY DEF Migrate, ToBlock
<1>1. /\ job' = [job EXCEPT ![x].kind = "migrate", ![x].at = "items", ![x].plan = p]
      /\ backup' = {q \in backup : ~(q[1] = x /\ q[2] \in due /\ x \notin active /\ ~Present(x, q[2]))}
      BY DEF Migrate
<1>2. life' = [life EXCEPT ![x].was = w] BY DEF Migrate
<1>3. life[x].was \in {None, "active", "inactive"} BY Typed DEF Life
<1>4. w \in {None, "active", "inactive"} BY <1>3
<1> HIDE DEF w
<1>5. /\ life' \in [User -> Life] /\ life'[x].desired = life[x].desired
      /\ life'[x].effective = life[x].effective
      /\ \A y \in User \ {x} : life'[y] = life[y]
  <2>1. life \in [User -> Life] BY Typed
  <2>2. /\ [life EXCEPT ![x].was = w] \in [User -> Life]
        /\ [life EXCEPT ![x].was = w][x].desired = life[x].desired
        /\ [life EXCEPT ![x].was = w][x].effective = life[x].effective
        /\ \A y \in User \ {x} : [life EXCEPT ![x].was = w][y] = life[y]
        BY <1>4, <2>1 DEF Life
  <2> QED BY <1>2, <2>2
<1>6. ASSUME NEW i \in Inbound
      PROVE  /\ p[i] \in PlanItem
             /\ i \notin due => p[i] = Nothing
             /\ i \in due => p[i] = DisableItem(x, i)
             /\ i \in due => Fits(x, i, "migrate", p[i])
             /\ i \in due /\ i \notin On[x] => p[i] = Failed
  <2>1. CASE i \notin due BY <2>1, FixedItems
  <2>2. CASE i \in due
    <3>1. i \in supported /\ InBackup(x, i) BY <2>2 DEF InBackup
    <3>2. Fits(x, i, "migrate", DisableItem(x, i)) BY <1>0, <3>1, DisableFits
    <3>3. i \notin On[x] => ~Present(x, i) BY Typed DEF Placed, Present
    <3> QED BY <2>2, <3>1, <3>2, <3>3, AbsentFails DEF Fits
  <2> QED BY <2>1, <2>2
<1>7. p \in [Inbound -> PlanItem] BY <1>6
<1> HIDE DEF p
<1> DEFINE j == [job[x] EXCEPT !.kind = "migrate", !.at = "items", !.plan = p]
<1>8. "items" \in Stage /\ "migrate" \in Kind BY Names
<1>9. Becomes(job', job, x, j) BY <1>1, <1>7, <1>8, Typed, MigrateSets
<1>10. /\ j.kind = "migrate" /\ j.at = "items" /\ j.read = job[x].read /\ j.plan = p
       BY Typed DEF Job
<1>11. j \in Job BY <1>9 DEF Becomes
<1> HIDE DEF j
<1>12. job'[x] = j BY <1>9 DEF Becomes
<1>13. ASSUME NEW i \in Inbound PROVE ItemSound(x, i)'
  <2>1. CASE i \notin due
        BY <1>6, <1>10, <1>12, <2>1, NothingSound
  <2>2. CASE i \in due /\ i \notin On[x]
        BY <1>6, <1>10, <1>12, <2>2, FailedItemSound
  <2>3. CASE i \in due /\ i \in On[x]
    <3>1. Fits(x, i, "migrate", p[i]) BY <1>6, <2>3
    <3>2. p[i].status = "pending" => p[i].write # "swapped" BY <3>1 DEF Fits
    <3> QED BY <1>0, <1>10, <1>12, <2>3, <3>1, <3>2, FitsSound DEF accounts
  <2> QED BY <2>1, <2>2, <2>3
<1>14. JobSound(x)'
       BY <1>0, <1>5, <1>10, <1>12, <1>13 DEF JobSound, Saved, accounts
<1>15. Faded BY <1>0, Typed, SameFades DEF accounts
<1>16. CredentialsSound(x)'
  <2>1. \A i \in Inbound : Random(x, i)' => Random(x, i) BY <1>15 DEF Faded, Fades
  <2>2. ASSUME NEW i \in Inbound, Random(x, i), <<x, i>> \in backup
        PROVE  <<x, i>> \in backup'
    <3>1. Present(x, i) BY <2>2, Typed DEF Placed, Present, None, Random
    <3> QED BY <1>1, <2>2, <3>1
  <2> QED BY <1>0, <1>5, <2>1, <2>2, Typed DEF CredentialsSound, accounts
<1>17. \A y \in User \ {x}, i \in Inbound : <<y, i>> \in backup => <<y, i>> \in backup'
       BY <1>1
<1>18. ListStep BY <1>0, SameLists DEF memory
<1>19. ListsSound(x)'
  <2>1. ~Refreshing(x)' BY <1>10, <1>12 DEF Refreshing, At
  <2> QED BY <1>5, <1>18, <2>1, ListKept
<1>20. eval' \subseteq Evaluation BY <1>0, Typed DEF memory
<1>21. j.at # "write" BY <1>10
<1>22. PlacedRead(j.read) BY <1>10, Typed
<1> QED BY <1>5, <1>9, <1>11, <1>14, <1>15, <1>16, <1>17, <1>18, <1>19, <1>20, <1>21, <1>22,
           JobStepKeeps DEF UserSound

LEMMA MigrateOfficialKeeps ==
    ASSUME UserInv, UNCHANGED On, NEW x \in User, MigrateOfficial(x)
    PROVE  UserInv'
<1>0. Ends(x) /\ UNCHANGED <<database, memory>> BY DEF MigrateOfficial
<1>1. UNCHANGED accounts \/ \E ok \in BOOLEAN : OfficialApplied(x, FALSE, ok)
      BY DEF MigrateOfficial
<1>2. Faded
  <2>1. CASE UNCHANGED accounts BY <2>1, Typed, SameFades DEF accounts
  <2>2. CASE \E ok \in BOOLEAN : OfficialApplied(x, FALSE, ok)
        BY <2>2, Typed, AppliedKeeps
  <2> QED BY <1>1, <2>1, <2>2
<1>3. ListStep BY <1>0, SameLists DEF database, memory
<1> QED BY <1>0, <1>2, <1>3, Typed, EndStepKeeps DEF Ends, database, memory

-----------------------------------------------------------------------------
(* Deletions *)

LEMMA DeletionItemType ==
    ASSUME NEW x \in User, NEW i \in Inbound
    PROVE  /\ DeletionItem(x, i) \in PlanItem
           /\ DeletionItem(x, i).status = "pending" =>
                DeletionItem(x, i).how \in {"whole", "remove"} /\ DeletionItem(x, i).write = None
<1> DEFINE how == IF Others(x, i) = {} \/ client[x][i] = None THEN "whole" ELSE "remove"
<1>1. \/ DeletionItem(x, i) = Done \/ DeletionItem(x, i) = Failed
      \/ DeletionItem(x, i) = Item("pending", how, None)
      BY DEF DeletionItem
<1>2. how \in {"whole", "remove"} OBVIOUS
<1> HIDE DEF how
<1>3. None \in Credential BY DEF Credential
<1>4. CASE DeletionItem(x, i) = Item("pending", how, None)
      BY <1>2, <1>3, <1>4, ItemFields
<1>5. CASE DeletionItem(x, i) \in {Done, Failed} BY <1>5, FixedItems
<1> QED BY <1>1, <1>4, <1>5

LEMMA BuildDeletionPlanKeeps ==
    ASSUME UserInv, UNCHANGED On, NEW x \in User, BuildDeletionPlan(x)
    PROVE  UserInv'
<1>0. /\ At(x, "plan") /\ job[x].kind = "delete"
      /\ UNCHANGED <<accounts, database, memory>>
      BY DEF BuildDeletionPlan
<1>1. Faded BY <1>0, Typed, SameFades DEF accounts
<1>2. ListStep BY <1>0, SameLists DEF database, memory
<1> DEFINE plan(unread) == [i \in Inbound |-> IF i \notin On[x] THEN Nothing
                                ELSE IF i \in unread THEN Failed ELSE DeletionItem(x, i)]
           Built(unread) == job' = [job EXCEPT ![x].at = "save", ![x].plan = plan(unread), ![x].read = client]
<1>3. Ends(x) \/ \E unread \in SUBSET On[x] : Built(unread) BY DEF BuildDeletionPlan
<1> HIDE DEF Built
<1>4. CASE Ends(x)
      BY <1>0, <1>1, <1>2, <1>4, Typed, EndStepKeeps DEF Ends, database, memory
<1>5. ASSUME NEW unread, Built(unread) PROVE UserInv'
  <2> DEFINE p == plan(unread)
             j == [job[x] EXCEPT !.at = "save", !.plan = p, !.read = client]
  <2>1. job' = [job EXCEPT ![x].at = "save", ![x].plan = p, ![x].read = client]
        BY <1>5 DEF Built
  <2>2. ASSUME NEW i \in Inbound
        PROVE  /\ p[i] \in PlanItem
               /\ p[i].status = "pending" =>
                    i \in On[x] /\ p[i].how \in {"whole", "remove"} /\ p[i].write = None
        BY DeletionItemType, FixedItems DEF None
  <2>p. p = [i \in Inbound |-> p[i]] OBVIOUS
  <2> HIDE DEF p
  <2>3. p \in [Inbound -> PlanItem] BY <2>2, <2>p
  <2>4. "save" \in Stage BY Names
  <2>5. Becomes(job', job, x, j) BY <2>1, <2>3, <2>4, Typed, DeletePlanSets
  <2>6. j.kind = "delete" /\ j.at = "save" /\ j.read = client /\ j.plan = p
        BY <1>0, Typed DEF Job
  <2>7. j \in Job BY <2>5 DEF Becomes
  <2> HIDE DEF j
  <2>8. job'[x] = j BY <2>5 DEF Becomes
  <2>9. ASSUME NEW i \in Inbound PROVE ItemSound(x, i)'
        BY <1>0, <2>2, <2>6, <2>8 DEF ItemSound, None
  <2>10. JobSound(x)'
    <3>1. x \in row BY <1>0, Typed DEF JobSound, At, None
    <3> QED BY <1>0, <2>6, <2>8, <2>9, <3>1 DEF JobSound, Saved, accounts
  <2>11. CredentialsSound(x)' BY <1>0, <1>1, Typed, CredentialsKept DEF Faded, database, accounts
  <2>12. PlacedRead(client) BY Typed, ReadSound
  <2> QED BY <1>0, <1>1, <1>2, <2>5, <2>6, <2>7, <2>10, <2>11, <2>12, Typed, QuietStepKeeps
          DEF UserSound, database, memory
<1> QED BY <1>3, <1>4, <1>5

\* Nothing about an item of a deletion depends on the credentials.
LEMMA DeletionItemKept ==
    ASSUME UNCHANGED On, NEW x \in User, NEW i \in Inbound, ItemSound(x, i),
           job[x].kind = "delete", job'[x].kind = "delete", job'[x].plan[i] = job[x].plan[i]
    PROVE  ItemSound(x, i)'
BY DEF ItemSound, None

\* The state of x changes to one that is neither enabled nor to be.
LEMMA LeavesLists ==
    ASSUME UNCHANGED On, NEW x \in User, UserInv, UNCHANGED <<blockRows, memory>>,
           life'[x].effective # "enabled", ~Refreshing(x)',
           life'[x].desired = "enabled" => life[x].desired = "enabled"
    PROVE  ListsSound(x)'
<1>1. Of(x)' = Of(x) BY OfSame
<1> QED BY <1>1, Typed DEF ListsSound

LEMMA SaveDeletePlanKeeps ==
    ASSUME UserInv, UNCHANGED On, NEW x \in User, SaveDeletePlan(x)
    PROVE  UserInv'
<1>0. /\ At(x, "save") /\ job[x].kind = "delete"
      /\ UNCHANGED <<accounts, backup, blockRows, memory>>
      BY DEF SaveDeletePlan
<1>1. Faded BY <1>0, Typed, SameFades DEF accounts
<1>2. ListStep BY <1>0, SameLists DEF memory
<1>3. CASE Ends(x) /\ UNCHANGED life
      BY <1>0, <1>1, <1>2, <1>3, Typed, EndStepKeeps DEF Ends, memory
<1>4. CASE ~(Ends(x) /\ UNCHANGED life)
  <2> DEFINE q == ~Complete(x)
  <2>1. /\ life' = [life EXCEPT ![x].desired = "deleted", ![x].effective = "deleting", ![x].pending = q]
        /\ Goto(x, "items")
        BY <1>4 DEF SaveDeletePlan
  <2>2. q \in BOOLEAN OBVIOUS
  <2> HIDE DEF q
  <2>3. life \in [User -> Life] BY Typed
  <2>4. /\ life' \in [User -> Life] /\ life'[x].desired = "deleted"
        /\ life'[x].effective = "deleting"
        /\ \A y \in User \ {x} : life'[y] = life[y]
    <3> DEFINE l == [life[x] EXCEPT !.desired = "deleted", !.effective = "deleting", !.pending = q]
    <3>1. life[x] \in Life BY <2>3
    <3>2. l \in Life /\ l.desired = "deleted" /\ l.effective = "deleting"
          BY <2>2, <3>1 DEF Life
    <3>3. life' = [life EXCEPT ![x] = l] BY <2>1
    <3> HIDE DEF l
    <3> QED BY <2>3, <3>2, <3>3, LifeSet
  <2>5. "items" \in Stage BY Names
  <2>6. PICK j \in Job : /\ Becomes(job', job, x, j)
                         /\ j.at = "items" /\ j.kind = job[x].kind /\ j.plan = job[x].plan
                         /\ j.read = job[x].read
        BY <2>1, <2>5, GotoStep
  <2>7. job'[x] = j BY <2>6 DEF Becomes
  <2>9. ASSUME NEW i \in Inbound PROVE ItemSound(x, i)'
        BY <1>0, <2>6, <2>7, Typed, DeletionItemKept
  <2>10. JobSound(x)'
    <3>1. x \in row BY <1>0, Typed DEF JobSound, At, None
    <3> QED BY <1>0, <2>6, <2>7, <2>9, <3>1 DEF JobSound, Saved, accounts
  <2>11. CredentialsSound(x)' BY <1>0, <1>1, <2>4, Typed, CredentialsKept DEF Faded
  <2>12. ~Refreshing(x)' BY <2>6, <2>7 DEF Refreshing, At
  <2>13. ListsSound(x)' BY <1>0, <2>4, <2>12, LeavesLists
  <2> QED BY <1>0, <1>1, <1>2, <2>4, <2>6, <2>10, <2>11, <2>13, Typed, JobStepKeeps
          DEF UserSound, memory
<1> QED BY <1>3, <1>4

LEMMA RemovedClients ==
    ASSUME UserInv, UNCHANGED On, NEW x \in User, NEW i \in Inbound, NEW how, Removed(x, i, how)
    PROVE  client' \in Clients /\ Placed' /\ Fades /\ row' = row /\ here' \subseteq Inbound
<1>1. client \in [User -> [Inbound -> Credential]] BY Typed DEF Clients
<1>2. None \in Credential BY DEF Credential
<1>3. client' = [y \in User |-> IF how = "whole" \/ y = x THEN [client[y] EXCEPT ![i] = None] ELSE client[y]]
      BY DEF Removed
<1>4. client' \in Clients BY <1>1, <1>2, <1>3 DEF Clients
<1>5. \A y \in User, k \in Inbound :
        client'[y][k] = IF k = i /\ (how = "whole" \/ y = x) THEN None ELSE client[y][k]
      BY <1>1, <1>3
<1>6. Fades
  <2>1. \A y \in User, k \in Inbound : client'[y][k] = "swapped" => client[y][k] = "swapped"
        BY <1>5 DEF None
  <2> QED BY <2>1, FadesWith DEF Removed
<1>7. here' = IF how = "whole" THEN here \ {i} ELSE here BY DEF Removed
<1>8. Placed' BY <1>5, <1>7, Typed DEF Placed
<1>9. here' \subseteq Inbound BY <1>7, Typed DEF UserTypes
<1> QED BY <1>4, <1>6, <1>8, <1>9 DEF Removed

\* An item of a deletion is settled; its inbound may have been changed by that.
LEMMA MarksKeeps ==
    ASSUME UserInv, UNCHANGED <<On, database, memory>>, NEW x \in User, NEW i \in Inbound,
           NEW s \in {"done", "failed"}, Marks(x, i, s),
           job[x].at # None, job[x].kind = "delete",
           client' \in Clients, Placed', Fades, row' = row, here' \subseteq Inbound
    PROVE  UserInv'
<1> DEFINE j == [job[x] EXCEPT !.at = "items", !.cur = None, !.plan[i].status = s]
<1>1. job \in [User -> Job] BY Typed
<1>2. Becomes(job', job, x, j) BY <1>1, MarkSets, Zenon DEF Marks
<1>3. job[x] \in Job /\ job[x].plan \in [Inbound -> PlanItem] BY <1>1, JobFields
<1>4. /\ j.kind = "delete" /\ j.at = "items" /\ j.read = job[x].read
      /\ j.plan = [job[x].plan EXCEPT ![i].status = s]
      BY <1>3 DEF Job
<1>5. j.plan[i].status = s /\ \A k \in Inbound \ {i} : j.plan[k] = job[x].plan[k]
      BY <1>3, <1>4 DEF PlanItem
<1>6. j \in Job BY <1>2 DEF Becomes
<1> HIDE DEF j
<1>7. job'[x] = j BY <1>2 DEF Becomes
<1>8. ASSUME NEW k \in Inbound \ {i} PROVE ItemSound(x, k)'
      BY <1>4, <1>5, <1>7, Typed, DeletionItemKept
<1>9. ItemSound(x, i)' BY <1>4, <1>5, <1>7 DEF ItemSound
<1>10. JobSound(x)'
  <2>1. x \in row BY Typed DEF JobSound
  <2> QED BY <1>4, <1>7, <1>8, <1>9, <2>1 DEF JobSound, Saved
<1>11. CredentialsSound(x)' BY Typed, CredentialsKept DEF database
<1>12. PlacedRead(j.read) BY <1>4, Typed
<1>13. ReadPlaced' /\ Locked' /\ \A y \in User \ {x} : UserSound(y)'
       BY <1>2, <1>4, <1>6, <1>12, JobStep DEF UserInv, database
<1>14. ListStep BY SameLists DEF database, memory
<1>15. ASSUME NEW y \in User PROVE ListsSound(y)'
  <2>1. Refreshing(y)' => Refreshing(y) BY <1>2, <1>4, <1>7 DEF Refreshing, At, Becomes
  <2> QED BY <1>14, <2>1, ListKept DEF database
<1>16. UserTypes' BY <1>2, Typed DEF UserTypes, Becomes, database, memory
<1> QED BY <1>10, <1>11, <1>13, <1>15, <1>16 DEF UserInv, AccessInv, UserSound

\* A deletion goes on to the next step of its item.
LEMMA DeletionMovesKeeps ==
    ASSUME UserInv, UNCHANGED <<On, database, memory>>, NEW x \in User, NEW j \in Job,
           Becomes(job', job, x, j), j.at \in {"remove", "verify"}, j.cur \in Inbound,
           j.kind = "delete", j.plan = job[x].plan, j.read = job[x].read,
           job[x].at # None, job[x].kind = "delete",
           client' \in Clients, Placed', Fades, row' = row, here' \subseteq Inbound
    PROVE  UserInv'
<1>1. job'[x] = j BY DEF Becomes
<1>2. ASSUME NEW k \in Inbound PROVE ItemSound(x, k)'
      BY <1>1, Typed, DeletionItemKept
<1>3. JobSound(x)'
  <2>1. x \in row BY Typed DEF JobSound
  <2> QED BY <1>1, <1>2, <2>1 DEF JobSound, Saved
<1>4. CredentialsSound(x)' BY Typed, CredentialsKept DEF database
<1>5. PlacedRead(j.read) BY Typed
<1>6. ReadPlaced' /\ Locked' /\ \A y \in User \ {x} : UserSound(y)'
      BY <1>5, JobStep DEF UserInv, database
<1>7. ListStep BY SameLists DEF database, memory
<1>8. ASSUME NEW y \in User PROVE ListsSound(y)'
  <2>1. Refreshing(y)' => Refreshing(y) BY <1>1 DEF Refreshing, At, Becomes
  <2> QED BY <1>7, <2>1, ListKept DEF database
<1>9. UserTypes' BY Typed DEF UserTypes, Becomes, database, memory
<1> QED BY <1>3, <1>4, <1>6, <1>8, <1>9 DEF UserInv, AccessInv, UserSound

LEMMA SameClients ==
    ASSUME UserInv, UNCHANGED <<On, accounts>>
    PROVE  client' \in Clients /\ Placed' /\ Fades /\ row' = row /\ here' \subseteq Inbound
BY Typed, SameFades DEF Faded, accounts, UserTypes

LEMMA DeleteItemKeeps ==
    ASSUME UserInv, UNCHANGED On, NEW x \in User, NEW i \in Inbound, DeleteItem(x, i)
    PROVE  UserInv'
<1>0. /\ job[x].at # None /\ job[x].kind = "delete"
      /\ UNCHANGED <<accounts, database, memory>>
      BY DEF DeleteItem, At, None
<1>1. client' \in Clients /\ Placed' /\ Fades /\ row' = row /\ here' \subseteq Inbound
      BY <1>0, SameClients
<1>2. \/ \E s \in {"done", "failed"} : Marks(x, i, s)
      \/ job' = [job EXCEPT ![x].at = "remove", ![x].cur = i]
      BY DEF DeleteItem, MarksDone
<1>3. ASSUME NEW s \in {"done", "failed"}, Marks(x, i, s) PROVE UserInv'
      BY <1>0, <1>1, <1>3, MarksKeeps
<1>4. CASE job' = [job EXCEPT ![x].at = "remove", ![x].cur = i]
  <2> DEFINE j == [job[x] EXCEPT !.at = "remove", !.cur = i]
  <2>1. "remove" \in Stage BY Names
  <2>2. Becomes(job', job, x, j) BY <1>4, <2>1, Typed, CurSets
  <2>3. /\ j.at = "remove" /\ j.kind = job[x].kind /\ j.read = job[x].read
        /\ j.cur = i /\ j.plan = job[x].plan
        BY Typed DEF Job
  <2>4. j \in Job BY <2>2 DEF Becomes
  <2> HIDE DEF j
  <2> QED BY <1>0, <1>1, <2>2, <2>3, <2>4, DeletionMovesKeeps
<1> QED BY <1>2, <1>3, <1>4

LEMMA RemoveItemKeeps ==
    ASSUME UserInv, UNCHANGED On, NEW x \in User, RemoveItem(x)
    PROVE  UserInv'
<1>0. At(x, "remove") /\ UNCHANGED <<database, memory>> BY DEF RemoveItem
<1>1. job[x].cur \in Inbound /\ job[x].kind = "delete" /\ job[x].at # None
      BY <1>0, Typed DEF JobSound, At, None
<1>2. PICK i \in Inbound : i = job[x].cur BY <1>1
<1>3. /\ UNCHANGED accounts \/ Removed(x, i, job[x].plan[i].how)
      /\ Marks(x, i, "failed") \/ Goto(x, "verify")
      BY <1>2 DEF RemoveItem
<1>4. client' \in Clients /\ Placed' /\ Fades /\ row' = row /\ here' \subseteq Inbound
      BY <1>3, SameClients, RemovedClients
<1>5. CASE Marks(x, i, "failed") BY <1>0, <1>1, <1>4, <1>5, MarksKeeps
<1>6. CASE Goto(x, "verify")
  <2>1. "verify" \in Stage BY Names
  <2>2. PICK j \in Job : /\ Becomes(job', job, x, j)
                         /\ j.at = "verify" /\ j.kind = job[x].kind /\ j.plan = job[x].plan
                         /\ j.cur = job[x].cur /\ j.read = job[x].read
        BY <1>6, <2>1, GotoStep
  <2> QED BY <1>0, <1>1, <1>4, <2>2, DeletionMovesKeeps
<1> QED BY <1>3, <1>5, <1>6

LEMMA VerifyItemKeeps ==
    ASSUME UserInv, UNCHANGED On, NEW x \in User, VerifyItem(x)
    PROVE  UserInv'
<1>0. At(x, "verify") /\ UNCHANGED <<accounts, database, memory>> BY DEF VerifyItem
<1>1. job[x].cur \in Inbound /\ job[x].kind = "delete" /\ job[x].at # None
      BY <1>0, Typed DEF JobSound, At, None
<1>2. PICK s \in {"done", "failed"} : Marks(x, job[x].cur, s)
      BY DEF VerifyItem, MarksDone
<1>3. client' \in Clients /\ Placed' /\ Fades /\ row' = row /\ here' \subseteq Inbound
      BY <1>0, SameClients
<1> QED BY <1>0, <1>1, <1>2, <1>3, MarksKeeps

LEMMA VerifyDeletionKeeps ==
    ASSUME UserInv, UNCHANGED On, NEW x \in User, VerifyDeletion(x)
    PROVE  UserInv'
<1>0. /\ At(x, "items") /\ job[x].kind = "delete"
      /\ UNCHANGED <<accounts, database, memory>>
      BY DEF VerifyDeletion, NoneLeft
<1>1. PICK s \in {"finalize", "partial"} : Goto(x, s) BY DEF VerifyDeletion
<1>2. s \in Stage BY <1>1, Names
<1>3. PICK j \in Job : /\ Becomes(job', job, x, j)
                       /\ j.at = s /\ j.kind = job[x].kind /\ j.plan = job[x].plan
                       /\ j.read = job[x].read
      BY <1>1, <1>2, GotoStep
<1>4. job'[x] = j BY <1>3 DEF Becomes
<1>5. Faded BY <1>0, Typed, SameFades DEF accounts
<1>6. UserSound(x)'
      BY <1>0, <1>1, <1>3, <1>4, <1>5, MovesSound DEF Faded, Saved, At, database, None
<1>7. ListStep BY <1>0, SameLists DEF database, memory
<1> QED BY <1>0, <1>1, <1>3, <1>5, <1>6, <1>7, Typed, QuietStepKeeps DEF database, memory

LEMMA FinalizeDeletionKeeps ==
    ASSUME UserInv, UNCHANGED On, NEW x \in User, FinalizeDeletion(x)
    PROVE  UserInv'
<1>0. At(x, "finalize") /\ UNCHANGED <<here, client, undone, memory>> BY DEF FinalizeDeletion
<1>1. CASE Goto(x, "partial") /\ UNCHANGED <<row, database>>
  <2>1. "partial" \in Stage BY Names
  <2>2. PICK j \in Job : /\ Becomes(job', job, x, j)
                         /\ j.at = "partial" /\ j.kind = job[x].kind /\ j.plan = job[x].plan
                         /\ j.read = job[x].read
        BY <1>1, <2>1, GotoStep
  <2>3. job'[x] = j BY <2>2 DEF Becomes
  <2>4. Faded BY <1>0, <1>1, Typed, SameFades
  <2>5. job[x].kind # "migrate" BY <1>0, Typed DEF JobSound, At, Saved
  <2>6. UserSound(x)'
        BY <1>0, <1>1, <2>2, <2>3, <2>4, <2>5, MovesSound DEF Faded, Saved, At, database, None
  <2>7. ListStep BY <1>0, <1>1, SameLists DEF database, memory
  <2> QED BY <1>0, <1>1, <2>2, <2>4, <2>6, <2>7, Typed, QuietStepKeeps DEF database, memory
<1>2. CASE ~(Goto(x, "partial") /\ UNCHANGED <<row, database>>)
  <2>1. /\ Ends(x) /\ row' = row \ {x} /\ life' = [life EXCEPT ![x] = NoLife]
        /\ backup' = backup \ Of(x) /\ blockRows' = blockRows \ Of(x)
        BY <1>2 DEF FinalizeDeletion
  <2>2. NoLife \in Life /\ NoLife.effective = None /\ NoLife.desired = None
        BY DEF NoLife, Life, None
  <2>3. /\ life' \in [User -> Life] /\ life'[x] = NoLife
        /\ \A y \in User \ {x} : life'[y] = life[y]
        BY <2>1, <2>2, Typed, LifeSet
  <2>4. Becomes(job', job, x, NoJob) BY <2>1, Typed, JobSet, NoJobType DEF Ends
  <2>5. NoJob.read = NoClients /\ NoJob.at \notin {"write", "finish"} BY DEF NoJob, None
  <2>6. JobSound(x)' /\ ~Refreshing(x)' BY <2>4, EndsSound DEF Becomes
  <2>7. Fades /\ Placed' /\ client' \in Clients BY <1>0, Typed, FadesWith DEF Placed
  <2>8. CredentialsSound(x)' BY <2>1, <2>2, <2>3 DEF CredentialsSound, None
  <2>9. \A y \in User \ {x}, i \in Inbound : <<y, i>> \in backup => <<y, i>> \in backup'
        BY <2>1 DEF Of
  <2>10. PlacedRead(NoClients) BY Typed, ReadSound
  <2>11. ReadPlaced' /\ Locked' /\ \A y \in User \ {x} : UserSound(y)'
         BY <2>1, <2>3, <2>4, <2>5, <2>7, <2>9, <2>10, NoJobType, JobStep DEF UserInv
  <2>12. ListStep BY <1>0, <2>1 DEF ListStep, memory
  <2>13. ASSUME NEW y \in User \ {x} PROVE ListsSound(y)'
    <3>1. Refreshing(y)' => Refreshing(y) BY <2>4 DEF Refreshing, At, Becomes
    <3> QED BY <2>3, <2>12, <3>1, ListKept
  <2>14. ListsSound(x)' BY <2>2, <2>3, <2>6 DEF ListsSound, None
  <2>15. UserTypes' BY <1>0, <2>1, <2>3, <2>4, Typed DEF UserTypes, Becomes, memory
  <2> QED BY <2>6, <2>7, <2>8, <2>11, <2>13, <2>14, <2>15 DEF UserInv, AccessInv, UserSound
<1> QED BY <1>1, <1>2

LEMMA FinishDeleteAttemptKeeps ==
    ASSUME UserInv, UNCHANGED On, NEW x \in User, FinishDeleteAttempt(x)
    PROVE  UserInv'
<1>0. At(x, "partial") /\ Ends(x) /\ UNCHANGED <<accounts, backup, blockRows, memory>>
      BY DEF FinishDeleteAttempt
<1>1. Faded BY <1>0, Typed, SameFades DEF accounts
<1>2. ListStep BY <1>0, SameLists DEF memory
<1>3. CASE UNCHANGED life
      BY <1>0, <1>1, <1>2, <1>3, Typed, EndStepKeeps DEF Ends, memory
<1>4. CASE life' = [life EXCEPT ![x].effective = "delete_partial", ![x].pending = TRUE]
  <2>1. life \in [User -> Life] BY Typed
  <2>2. /\ life' \in [User -> Life] /\ life'[x].desired = life[x].desired
        /\ life'[x].effective = "delete_partial"
        /\ \A y \in User \ {x} : life'[y] = life[y]
    <3> DEFINE l == [life[x] EXCEPT !.effective = "delete_partial", !.pending = TRUE]
    <3>1. life[x] \in Life BY <2>1
    <3>2. l \in Life /\ l.desired = life[x].desired /\ l.effective = "delete_partial"
          BY <3>1 DEF Life
    <3>3. life' = [life EXCEPT ![x] = l] BY <1>4
    <3> HIDE DEF l
    <3> QED BY <2>1, <3>2, <3>3, LifeSet
  <2>3. Becomes(job', job, x, NoJob) BY <1>0, Typed, JobSet, NoJobType DEF Ends
  <2>4. NoJob.read = NoClients /\ NoJob.at \notin {"write", "finish"} BY DEF NoJob, None
  <2>5. JobSound(x)' /\ ~Refreshing(x)' BY <2>3, EndsSound DEF Becomes
  <2>6. CredentialsSound(x)' BY <1>0, <1>1, <2>2, Typed, CredentialsKept DEF Faded
  <2>7. ListsSound(x)' BY <1>0, <2>2, <2>5, LeavesLists
  <2>8. PlacedRead(NoClients) BY Typed, ReadSound
  <2> QED BY <1>0, <1>1, <1>2, <2>2, <2>3, <2>4, <2>5, <2>6, <2>7, <2>8, NoJobType, Typed,
             JobStepKeeps DEF UserSound, memory
<1> QED BY <1>3, <1>4 DEF FinishDeleteAttempt

-----------------------------------------------------------------------------
(* The specification *)

LEMMA UserInit == Init => UserInv
<1> SUFFICES ASSUME Init PROVE UserInv
    OBVIOUS
<1>0. /\ \E a \in Access : On = a.on
      /\ row = {x \in User : On[x] # {}} /\ here = UNION {On[x] : x \in User}
      /\ client = [x \in User |-> [i \in Inbound |-> IF x \in active /\ i \in On[x] THEN "original" ELSE None]]
      /\ life = [x \in User |-> NoLife] /\ backup = {} /\ blockRows = {}
      /\ listed = {} /\ eval = {} /\ job = [x \in User |-> NoJob]
      BY DEF Init, AccessInit
<1>1. On \in [User -> SUBSET Inbound] BY <1>0, AccessAssumption
<1>2. NoLife \in Life /\ NoLife.desired = None /\ NoLife.effective = None
      BY DEF NoLife, Life, None
<1>3. \A x \in User, i \in Inbound : client[x][i] \in {"original", None} /\
        (client[x][i] # None => i \in On[x])
      BY <1>0 DEF None
<1>4. client \in Clients BY <1>0 DEF Clients, Credential
<1>5. UserTypes BY <1>0, <1>1, <1>2, <1>4, NoJobType DEF UserTypes
<1>6. Placed BY <1>0, <1>3 DEF Placed
<1>7. ReadPlaced /\ Locked BY <1>0 DEF ReadPlaced, Locked, NoJob, NoClients, At, None
<1>8. /\ NoJob.at = None /\ NoJob.kind = None
      /\ \A i \in Inbound : NoJob.plan[i].status = None
      BY DEF NoJob, NoPlan, Nothing, Item
<1>9. ASSUME NEW x \in User PROVE JobSound(x)
  <2>1. job[x] = NoJob BY <1>0
  <2>2. \A i \in Inbound : ItemSound(x, i) BY <1>8, <2>1 DEF ItemSound, None
  <2> QED BY <1>8, <2>1, <2>2 DEF JobSound, Saved, None
<1>10. ASSUME NEW x \in User PROVE CredentialsSound(x) /\ ListsSound(x)
  <2>1. CredentialsSound(x) BY <1>3 DEF CredentialsSound, None, Random
  <2>2. life[x] = NoLife /\ job[x] = NoJob BY <1>0
  <2>3. ListsSound(x) BY <1>2, <1>8, <2>2 DEF ListsSound, Refreshing, None
  <2> QED BY <2>1, <2>3
<1> QED BY <1>5, <1>6, <1>7, <1>9, <1>10 DEF UserInv, AccessInv, UserSound

LEMMA UserStep == UserInv /\ [Next]_allVars => UserInv'
<1> SUFFICES ASSUME UserInv, [Next]_allVars PROVE UserInv'
    OBVIOUS
<1>1. CASE UNCHANGED allVars
  <2>1. UNCHANGED <<On, accounts, database, memory, job>> BY <1>1 DEF allVars, vars
  <2>2. Faded BY <2>1, Typed, SameFades DEF accounts
  <2>3. ListStep BY <2>1, SameLists DEF database, memory
  <2> QED BY <2>1, <2>2, <2>3, Typed, IdleStepKeeps DEF accounts, database, memory
<1>2. CASE Next
  <2>0. UNCHANGED On BY <1>2 DEF Next
  <2>1. CASE AccessStep
    <3>1. ASSUME NEW x \in User, NEW kind \in {"disable", "enable"}, RequestAccess(x, kind)
          PROVE UserInv' BY <2>0, <3>1, RequestAccessKeeps
    <3>2. ASSUME NEW x \in User, AccessJob(x) PROVE UserInv'
      <4>1. CASE Preset(x) BY <2>0, <4>1, PresetKeeps
      <4>2. CASE BuildAccessPlan(x) BY <2>0, <4>2, BuildAccessPlanKeeps
      <4>3. CASE SaveAccessPlan(x) BY <2>0, <4>3, SaveAccessPlanKeeps
      <4>4. ASSUME NEW i \in Inbound, BlockItem(x, i) PROVE UserInv'
            BY <2>0, <4>4, BlockItemKeeps
      <4>5. ASSUME NEW i \in Inbound, ReplaceItem(x, i) PROVE UserInv'
            BY <2>0, <4>5, ReplaceItemKeeps
      <4>6. CASE ReadInbound(x) BY <2>0, <4>6, ReadInboundKeeps
      <4>7. CASE WriteInbound(x) BY <2>0, <4>7, WriteInboundKeeps
      <4>8. CASE ApplyOfficial(x) BY <2>0, <4>8, ApplyOfficialKeeps
      <4>9. CASE RefreshAtEnd(x) BY <2>0, <4>9, RefreshAtEndKeeps
      <4>10. CASE FinishAccessAttempt(x) BY <2>0, <4>10, FinishAccessAttemptKeeps
      <4>11. CASE MigrateOfficial(x) BY <2>0, <4>11, MigrateOfficialKeeps
      <4> QED BY <3>2, <4>1, <4>2, <4>3, <4>4, <4>5, <4>6, <4>7, <4>8, <4>9, <4>10, <4>11 DEF AccessJob
    <3>3. ASSUME NEW x \in User, Migrate(x) PROVE UserInv' BY <2>0, <3>3, MigrateKeeps
    <3>4. ASSUME NEW x \in User, OfficialChange(x) PROVE UserInv'
          BY <2>0, <3>4, OfficialChangeKeeps
    <3>5. CASE EvaluationReads BY <2>0, <3>5, EvaluationReadsKeeps
    <3>6. CASE EvaluationSaves BY <2>0, <3>6, EvaluationSavesKeeps
    <3>7. CASE EvaluationPublishes BY <2>0, <3>7, EvaluationPublishesKeeps
    <3>8. ASSUME NEW i \in Inbound, Report(i) \/ SupportChanges(i) PROVE UserInv'
          BY <2>0, <3>8, HelpersKeep
    <3>9. CASE ControllerRestarts BY <2>0, <3>9, RestartKeeps
    <3> QED BY <2>1, <3>1, <3>2, <3>3, <3>4, <3>5, <3>6, <3>7, <3>8, <3>9 DEF AccessStep
  <2>2. ASSUME NEW x \in User, RequestDelete(x) PROVE UserInv'
        BY <2>0, <2>2, RequestDeleteKeeps
  <2>3. ASSUME NEW x \in User, DeleteJob(x) PROVE UserInv'
    <3>1. CASE BuildDeletionPlan(x) BY <2>0, <3>1, BuildDeletionPlanKeeps
    <3>2. CASE SaveDeletePlan(x) BY <2>0, <3>2, SaveDeletePlanKeeps
    <3>3. ASSUME NEW i \in Inbound, DeleteItem(x, i) PROVE UserInv'
          BY <2>0, <3>3, DeleteItemKeeps
    <3>7. CASE RemoveItem(x) BY <2>0, <3>7, RemoveItemKeeps
    <3>8. CASE VerifyItem(x) BY <2>0, <3>8, VerifyItemKeeps
    <3>4. CASE VerifyDeletion(x) BY <2>0, <3>4, VerifyDeletionKeeps
    <3>5. CASE FinalizeDeletion(x) BY <2>0, <3>5, FinalizeDeletionKeeps
    <3>6. CASE FinishDeleteAttempt(x) BY <2>0, <3>6, FinishDeleteAttemptKeeps
    <3> QED BY <2>3, <3>1, <3>2, <3>3, <3>4, <3>5, <3>6, <3>7, <3>8 DEF DeleteJob
  <2> QED BY <1>2, <2>1, <2>2, <2>3 DEF Next
<1> QED BY <1>1, <1>2

-----------------------------------------------------------------------------
(* The theorems *)

\* The requests, deletions and evaluations of any number of users keep the invariant:
\* the lock of the user, the lock of the inbound, and what each plan relies on.
THEOREM UsersAreSound == Spec => []UserInv
BY UserInit, UserStep, PTL DEF Spec

\* A random credential of an existing user, in its own inbounds and in shared ones, has its
\* original in mmwxc_user_disabled_credentials (user_access_lifecycle.go,
\* user_persistent_disable.go), whatever fails and restarts between saving, replacing and
\* restoring - unless a replacement for another user wrote it back after it had been restored.
THEOREM OriginalsAreKept == Spec => []SwappedHasBackup
<1>1. UserInv => SwappedHasBackup
  <2> SUFFICES ASSUME UserInv, NEW x \in row, NEW i \in Inbound, Random(x, i)
               PROVE  InBackup(x, i)
      BY DEF SwappedHasBackup
  <2>1. x \in User BY Typed DEF UserTypes
  <2> QED BY <2>1, Typed DEF CredentialsSound, InBackup
<1> QED BY <1>1, UsersAreSound, PTL

\* A user is reported as enabled only when no list names it, nor a list that is about to be
\* published, and no inbound has a random credential of it but one that a replacement for
\* another user wrote back after it had been restored (FinishAccessAttempt).
THEOREM EnabledMeansRestored == Spec => []EnabledIsRestored
<1>1. UserInv => EnabledIsRestored
  <2> SUFFICES ASSUME UserInv, NEW x \in User, life[x].effective = "enabled"
               PROVE  /\ Of(x) \cap (blockRows \cup listed) = {}
                      /\ \A i \in Inbound : ~Random(x, i)
      BY DEF EnabledIsRestored
  <2>1. Of(x) \cap blockRows = {} /\ Of(x) \cap listed = {}
        BY Typed DEF ListsSound, Unlisted
  <2> QED BY <2>1, Typed DEF CredentialsSound
<1> QED BY <1>1, UsersAreSound, PTL

\* While x holds the lock of an inbound, only x's own replacement ends that, unless the
\* clients stay.
LEMMA OnlyOwnReplacement ==
    ASSUME UserInv, Next, NEW x \in User, At(x, "write"), ~At(x, "write")', client' # client
    PROVE  WriteInbound(x)
<1>1. UNCHANGED On /\ job \in [User -> Job] BY Typed DEF Next
<1>2. ASSUME NEW z \in User, z # x, Goto(z, "plan") \/ Goto(z, "refresh") \/ Ends(z)
                                   \/ job' = [job EXCEPT ![z].at = "refresh", ![z].failed = TRUE]
      PROVE  FALSE
      BY <1>1, <1>2 DEF Goto, Ends, At
<1>3. ASSUME NEW z \in User, z # x, NEW i, NEW t,
             Settles(z, i, t) \/ Marks(z, i, t) \/ Goto(z, "verify")
      PROVE  FALSE
      BY <1>1, <1>3 DEF Settles, Marks, Goto, At
<1>4. ASSUME NEW z \in User, Preset(z) PROVE FALSE
  <2>1. z # x BY <1>4 DEF Preset, At
  <2> QED BY <1>2, <1>4, <2>1 DEF Preset
<1>5. ASSUME NEW z \in User, WriteInbound(z) PROVE WriteInbound(x)
  <2>1. CASE z # x
    <3>1. \E i, t : Settles(z, i, t) BY <1>5 DEF WriteInbound
    <3> QED BY <1>3, <2>1, <3>1
  <2>2. CASE z = x BY <1>5, <2>2
  <2> QED BY <2>1, <2>2
<1>6. ASSUME NEW z \in User, ApplyOfficial(z) PROVE FALSE
  <2>1. z # x BY <1>6 DEF ApplyOfficial, NoneLeft, At
  <2>2. Goto(z, "refresh") \/ job' = [job EXCEPT ![z].at = "refresh", ![z].failed = TRUE]
        BY <1>6 DEF ApplyOfficial
  <2> QED BY <1>2, <2>1, <2>2
<1>7. ASSUME NEW z \in User, MigrateOfficial(z) PROVE FALSE
  <2>1. z # x /\ Ends(z) BY <1>7 DEF MigrateOfficial, NoneLeft, At
  <2> QED BY <1>2, <2>1
<1>8. ASSUME NEW z \in User, RemoveItem(z) PROVE FALSE
  <2>1. z # x BY <1>8 DEF RemoveItem, At
  <2>2. Goto(z, "verify") \/ \E i, t : Marks(z, i, t) BY <1>8 DEF RemoveItem
  <2> QED BY <1>3, <2>1, <2>2
<1>9. ASSUME NEW z \in User, OfficialChange(z) PROVE FALSE
      BY <1>9 DEF OfficialChange, At
<1>10. CASE AccessStep
  <2>1. ASSUME NEW z \in User, AccessJob(z) PROVE WriteInbound(x)
    <3>1. \/ Preset(z) \/ WriteInbound(z) \/ ApplyOfficial(z) \/ MigrateOfficial(z)
          BY <2>1 DEF AccessJob, BuildAccessPlan, SaveAccessPlan, BlockItem, ReplaceItem, ReadInbound,
                      RefreshAtEnd, FinishAccessAttempt, accounts
    <3> QED BY <1>4, <1>5, <1>6, <1>7, <3>1
  <2>2. ASSUME NEW z \in User, NEW kind, RequestAccess(z, kind) \/ Migrate(z) PROVE FALSE
        BY <2>2 DEF RequestAccess, Migrate, accounts
  <2>3. ASSUME NEW i, \/ EvaluationReads \/ EvaluationSaves \/ EvaluationPublishes
                     \/ Report(i) \/ SupportChanges(i) \/ ControllerRestarts
        PROVE  FALSE
        BY <2>3 DEF EvaluationReads, EvaluationSaves, EvaluationPublishes, Report, SupportChanges,
                    ControllerRestarts, accounts
  <2> QED BY <1>9, <1>10, <2>1, <2>2, <2>3 DEF AccessStep
<1>11. ASSUME NEW z \in User, RequestDelete(z) PROVE FALSE
       BY <1>11 DEF RequestDelete, accounts
<1>12. ASSUME NEW z \in User, DeleteJob(z) PROVE FALSE
  <2>1. RemoveItem(z)
        BY <1>12 DEF DeleteJob, BuildDeletionPlan, SaveDeletePlan, DeleteItem, VerifyItem,
                    VerifyDeletion, FinalizeDeletion, FinishDeleteAttempt, accounts
  <2> QED BY <1>8, <2>1
<1> QED BY <1>10, <1>11, <1>12 DEF Next

\* Replacing a whole inbound for one user writes back what was read; the lock of the inbound
\* (executeAccessItem) keeps that right for the other users' random credentials.
THEOREM ReplacementsKeepOthers == Spec => ReplacementsKeepSwaps
<1>1. UserInv /\ [Next]_allVars
        => [\A x \in User, i \in Inbound : ReplacesInbound(x, i) =>
              \A y \in User \ {x} : client[y][i] = "swapped" => client'[y][i] # "original"]_allVars
  <2> SUFFICES ASSUME UserInv, Next, NEW x \in User, NEW i \in Inbound, ReplacesInbound(x, i),
                      NEW y \in User \ {x}, client[y][i] = "swapped"
               PROVE  client'[y][i] # "original"
      OBVIOUS
  <2>1. At(x, "write") /\ job[x].cur = i /\ ~At(x, "write")' /\ client' # client
        BY DEF ReplacesInbound, At
  <2>2. WriteInbound(x) BY <2>1, OnlyOwnReplacement
  <2> DEFINE w == job[x].plan[i].write
  <2>3. UNCHANGED <<On, here>> /\ i \in here /\ Replaced(x, i, w)
        BY <2>1, <2>2 DEF WriteInbound, Next
  <2>4. i \in On[x] BY <2>1, Typed DEF JobSound, ItemSound, At
  <2>5. job[x].plan[i] \in PlanItem BY Typed, JobFields
  <2>6. w \in Credential BY <2>5 DEF PlanItem
  <2> HIDE DEF w
  <2>7. client'[y][i] = job[x].read[y][i] BY <2>3, <2>4, <2>6, ReplacedClients
  <2>8. job[x].read[y][i] # "original" BY <2>1 DEF UserInv, AccessInv, Locked
  <2> QED BY <2>7, <2>8
<1> QED BY <1>1, UsersAreSound, PTL DEF Spec, ReplacementsKeepSwaps
=============================================================================

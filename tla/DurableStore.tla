---------------------------- MODULE DurableStore ----------------------------
(***************************************************************************)
(* What a call of durableWriteFile can leave on disk (durable_write.go; the *)
(* controller and the Helper carry the same file).  A store is the pair of  *)
(* files the code keeps under one path: the primary ("main") and the       *)
(* previous contents it publishes first ("bak").                            *)
(*                                                                         *)
(* The write stages a temporary file, replaces <path>.bak by the previous   *)
(* primary, renames the temporary over the primary and syncs the directory. *)
(* It can fail, or the machine can stop, after any of these steps.          *)
(***************************************************************************)

Store(Contents) == [main: Contents, bak: Contents]

\* Both files hold the same contents.
BothHold(d) == [main |-> d, bak |-> d]

\* The write ran to its end: new contents, and the old ones as the backup.
Replaced(store, new) == [main |-> new, bak |-> store.main]

\* The write stopped before its end: before the backup was published, after
\* it but before the rename, or after the rename when only the final directory
\* sync failed.  In the last case the new contents ARE on disk although the
\* caller is told that the save failed.
Interrupted(store, new) ==
    { store, BothHold(store.main), Replaced(store, new) }

\* A load that cannot read the primary restores it from the backup.
RestoredFromBackup(store) == BothHold(store.bak)
=============================================================================

--------------------------- MODULE OwnedCommands ---------------------------
(***************************************************************************)
(* The commands of the Helper that change an owned or a Custom Core, step    *)
(* by step, with what interrupts them: failing service calls, a crash, the   *)
(* worker of a Helper update, a state file that cannot be read any more.     *)
(*                                                                         *)
(*   cmd/mmwxc-helper/external_ownership.go, lifecycle.go, management.go,   *)
(*   state_recovery.go, main.go                                             *)
(***************************************************************************)
EXTENDS OwnedCore

CONSTANT MaxRollbacks  \* Core binaries kept (maxRollbackFiles)

ASSUME OwnedCommandsAssumption == MaxRollbacks \in Nat \ {0}

Commands ==
    {"prepare", "arm", "activate", "takeover", "rollback", "update", "rollbackCore", "restart", "stop", "helper"}

\* First step of a command, by whether the Helper owns the External Core.
FirstStep(cmd) ==
    CASE cmd \in {"prepare", "takeover"} -> "image"
      [] cmd \in {"arm", "activate"} -> "ownFiles"
      [] cmd = "rollback" -> "rollback"
      [] cmd = "update" -> IF own.enabled THEN "updateImage" ELSE "install"
      [] OTHER -> cmd

Uploaded ==
    /\ At("command")
    /\ \/ Goto("save") /\ UNCHANGED left
       \/ /\ Spend("command")
          /\ \E cmd \in Commands :
               job' = [job EXCEPT !.cmd = cmd, !.at = FirstStep(cmd)]
    /\ UNCHANGED <<files, services, configs, own, saved, rest>>

Done == job' = [Idle EXCEPT !.at = "save", !.cmd = job.cmd]

\* validateOwnedCoreAndConfig
Usable == Valid(config) /\ Works(core)
\* An update brings its own Core, and copies the running one first.
Updatable == Valid(config) /\ core # None

CommandFails ==
    /\ job.at \in {"image", "preserve", "ownFiles", "rollback", "restore", "updateImage", "install",
                   "rollbackCore", "restart", "stop", "helper"}
    /\ \/ Spend("fault")
       \/ UNCHANGED left /\ job.at \in {"image", "preserve", "ownFiles"} /\ ~Usable
       \/ UNCHANGED left /\ job.at = "updateImage" /\ ~Updatable
       \/ UNCHANGED left /\ job.at = "image" /\ own.enabled
       \/ UNCHANGED left /\ job.at = "ownFiles" /\ (~own.prepared \/ (job.cmd # "activate" /\ own.enabled))
       \/ UNCHANGED left /\ job.at = "rollback" /\ ~own.snapshot.taken
       \/ UNCHANGED left /\ job.at = "rollbackCore" /\ rolls = <<>>
    /\ Done
    /\ torn' = (torn \/ (job.at = "preserve" /\ image # own.expected))
    /\ UNCHANGED <<files, services, configs, own, saved, helper, worker, newest>>

-----------------------------------------------------------------------------
(* prepareExternalOwnership *)

\* createOwnershipBackup
Snapshot == [taken |-> TRUE, dropIn |-> unit.file, custom |-> custom, official |-> Active]

PrepareImage ==
    /\ At("image") /\ ~own.enabled /\ Usable
    /\ IF own.prepared /\ own.snapshot.taken THEN UNCHANGED <<own, newest>>
       ELSE own' = [own EXCEPT !.snapshot = Snapshot] /\ newest' = Snapshot
    /\ image' = core /\ Goto("preserve")
    /\ UNCHANGED <<core, rolls, unit, link, services, configs, saved, helper, worker, left, torn>>

PreserveConfig ==
    /\ At("preserve") /\ Usable
    /\ backup' = config
    /\ own' = [own EXCEPT !.prepared = TRUE, !.expected = core, !.lastGood = config, !.invalid = "no"]
    /\ IF job.cmd = "takeover" THEN Goto("ownFiles") ELSE Done
    /\ UNCHANGED <<files, services, config, saved, rest, left>>

(* armExternalOwnership and activateExternalOwnership *)
OwnFiles ==
    /\ At("ownFiles") /\ own.prepared /\ Usable
    /\ job.cmd # "activate" => ~own.enabled
    /\ unit' = [file |-> TRUE, loaded |-> TRUE]
    /\ link' = Linked
    /\ own' = [own EXCEPT !.link = Linked = "owned"]
    /\ IF job.cmd = "activate" THEN Goto("start") ELSE Goto("arm")
    /\ UNCHANGED <<core, image, rolls, services, configs, saved, rest, left>>

\* The Core stops; the Agent starts it when it switches.
Arm ==
    /\ At("arm")
    /\ \/ /\ xray' = Stopped /\ custom' = FALSE
          /\ own' = [own EXCEPT !.armed = TRUE, !.enabled = TRUE]
          /\ UNCHANGED left
       \/ Spend("fault") /\ xray' = Stopped /\ UNCHANGED <<own, custom>>
    /\ Done
    /\ UNCHANGED <<files, configs, saved, rest>>

ActivateStart ==
    /\ At("start")
    /\ custom' = FALSE
    /\ \/ xray' = Restarted /\ Goto("verify") /\ UNCHANGED left
       \/ Spend("fault") /\ Goto("undoActivation") /\ UNCHANGED xray
    /\ UNCHANGED <<files, configs, own, saved, rest>>

ActivateVerify ==
    /\ At("verify")
    /\ \/ Healthy /\ own' = [own EXCEPT !.enabled = TRUE, !.armed = FALSE] /\ Done /\ UNCHANGED left
       \/ ~Healthy /\ Goto("undoActivation") /\ UNCHANGED <<own, left>>
       \/ Healthy /\ Spend("fault") /\ Goto("undoActivation") /\ UNCHANGED own
    /\ UNCHANGED <<files, services, configs, saved, rest>>

(* restoreOwnershipBackup: the files first, then the services that ran *)
RestoreFiles ==
    /\ job.at \in {"rollback", "undoActivation"} /\ own.snapshot.taken
    /\ unit' = [file |-> own.snapshot.dropIn, loaded |-> own.snapshot.dropIn]
    /\ xray' = Stopped
    /\ Goto("restore")
    /\ UNCHANGED <<core, image, rolls, link, custom, configs, own, saved, rest, left>>

\* The path link stays where a failed activation made it.
RestoreServices ==
    /\ At("restore")
    /\ xray' = IF own.snapshot.official THEN Restarted ELSE xray
    /\ custom' = (custom \/ own.snapshot.custom)
    /\ link' = IF job.cmd = "rollback" /\ own.link /\ link = "owned" THEN "absent" ELSE link
    /\ own' = NoOwnership /\ torn' = (torn \/ own.sync)
    /\ Done
    /\ UNCHANGED <<core, image, rolls, unit, configs, saved, helper, worker, newest, left>>

Ownership ==
    \/ PrepareImage \/ PreserveConfig \/ OwnFiles \/ Arm \/ ActivateStart \/ ActivateVerify
    \/ RestoreFiles \/ RestoreServices

-----------------------------------------------------------------------------
(* installOrUpdateExternalOwnedCore: image, binary and hash move together *)

\* The copy of the running binary is what a failed update puts back.
UpdateImage ==
    /\ At("updateImage") /\ Updatable
    /\ image' = "v2"
    /\ job' = [job EXCEPT !.at = "updateCore", !.old = core, !.prev = own]
    /\ UNCHANGED <<core, rolls, unit, link, services, configs, own, saved, rest, left>>

UpdateCore ==
    /\ At("updateCore")
    /\ \/ /\ core' = "v2" /\ xray' = Replaced
          /\ own' = [own EXCEPT !.expected = "v2"]
          /\ Goto("updateRestart") /\ UNCHANGED left
       \/ Spend("fault") /\ Goto("undoImage") /\ UNCHANGED <<core, xray, own>>
    /\ UNCHANGED <<image, rolls, unit, link, custom, configs, saved, rest>>

UpdateRestart ==
    /\ At("updateRestart")
    /\ \/ xray' = Restarted /\ Goto("updateVerify") /\ UNCHANGED left
       \/ Spend("fault") /\ Goto("undoImage") /\ UNCHANGED xray
    /\ UNCHANGED <<files, custom, configs, own, saved, rest>>

UpdateVerify ==
    /\ At("updateVerify")
    /\ \/ Healthy /\ Done /\ UNCHANGED left
       \/ ~Healthy /\ Goto("undoImage") /\ UNCHANGED left
       \/ Spend("fault") /\ Goto("undoImage")
    /\ UNCHANGED <<files, services, configs, own, saved, rest>>

\* Mutant: the failed update leaves its image behind.
UndoHashOnly ==
    /\ At("undoImage")
    /\ own' = job.prev /\ Goto("undoCore")
    /\ UNCHANGED <<files, services, configs, saved, rest, left>>

UndoImage ==
    /\ At("undoImage")
    /\ own' = job.prev
    /\ image' = job.old /\ Goto("undoCore")
    /\ torn' = (torn \/ job.old # job.prev.expected)
    /\ UNCHANGED <<core, rolls, unit, link, services, configs, saved, helper, worker, newest, left>>

UndoCore ==
    /\ At("undoCore")
    /\ core' = job.old
    /\ xray' = Replaced /\ Goto("undoRestart")
    /\ UNCHANGED <<image, rolls, unit, link, custom, configs, own, saved, rest, left>>

UndoRestart ==
    /\ At("undoRestart")
    /\ \/ xray' = Restarted /\ UNCHANGED left
       \/ Spend("fault") /\ UNCHANGED xray
    /\ Done
    /\ UNCHANGED <<files, custom, configs, own, saved, rest>>

UpdateOwned == UpdateImage \/ UpdateCore \/ UpdateRestart \/ UpdateVerify \/ UndoImage \/ UndoCore \/ UndoRestart

-----------------------------------------------------------------------------
(* installOrUpdateCore, rollbackCore: the Custom service *)

LatestRollback == Last(rolls)

\* installAtomic: the replaced binary is kept, the oldest dropped.
Kept == IF core = None THEN rolls
        ELSE LET all == Append(rolls, core)
             IN IF Len(all) > MaxRollbacks THEN Tail(all) ELSE all

Install ==
    /\ At("install")
    /\ core' = "v2" /\ rolls' = Kept /\ xray' = Replaced
    /\ IF custom THEN Goto("verifyCustom") ELSE Done
    /\ UNCHANGED <<image, unit, link, custom, configs, own, saved, rest, left>>

\* Fails: the newest kept binary is put back.
VerifyCustom ==
    /\ At("verifyCustom")
    /\ \/ UNCHANGED <<core, xray, left>>
       \/ Spend("fault") /\ rolls # <<>> /\ core' = LatestRollback /\ xray' = Replaced
    /\ Done
    /\ UNCHANGED <<image, rolls, unit, link, custom, configs, own, saved, rest>>

\* rollbackCore, whoever runs the binary.
RollbackCore ==
    /\ At("rollbackCore") /\ rolls # <<>>
    /\ core' = LatestRollback /\ xray' = Replaced
    /\ Done
    /\ UNCHANGED <<image, rolls, unit, link, custom, configs, own, saved, rest, left>>

RestartCore ==
    /\ At("restart")
    /\ IF own.enabled THEN xray' = Restarted /\ UNCHANGED custom ELSE custom' = TRUE /\ UNCHANGED xray
    /\ Done
    /\ UNCHANGED <<files, configs, own, saved, rest, left>>

StopCore ==
    /\ At("stop")
    /\ IF own.enabled THEN xray' = Stopped /\ UNCHANGED custom ELSE custom' = FALSE /\ UNCHANGED xray
    /\ Done
    /\ UNCHANGED <<files, configs, own, saved, rest, left>>

CustomCore == Install \/ VerifyCustom \/ RollbackCore \/ RestartCore \/ StopCore

-----------------------------------------------------------------------------
(* The end of a round, and what ends the Helper *)

\* saveLocalState; a failed save leaves the old file.
Saves ==
    \/ saved' = own /\ UNCHANGED left
    \/ Spend("fault") /\ UNCHANGED saved

Report ==
    /\ At("report")
    /\ Saves /\ Goto("command")
    /\ UNCHANGED <<files, services, configs, own, rest>>

EndRound ==
    /\ At("save")
    /\ Saves
    /\ helper' = [helper EXCEPT !.beat = helper.run]
    /\ job' = Idle
    /\ UNCHANGED <<files, services, configs, own, worker, newest, torn>>

\* The Helper stops with image, binary and hash apart, or with a handoff that
\* only its memory knows.
HalfDone ==
    \/ saved.prepared /\ image # saved.expected
    \/ unit.file /\ ~saved.snapshot.taken

StartsWith(o) == own' = o /\ job' = Idle

HelperDies ==
    /\ job # Idle /\ Spend("crash")
    /\ StartsWith(saved) /\ torn' = (torn \/ HalfDone)
    /\ UNCHANGED <<files, services, configs, saved, helper, worker, newest>>

\* recoverExternalOwnership: only matching evidence on the disk.
Recovered ==
    IF unit.file /\ core = image /\ core # None /\ Valid(backup) /\ newest.taken
    THEN [NoOwnership EXCEPT !.prepared = TRUE, !.enabled = TRUE, !.snapshot = newest,
                             !.expected = core, !.lastGood = backup]
    ELSE NoOwnership

StateLost ==
    /\ Spend("crash") /\ left["fault"] > 0
    /\ StartsWith(Recovered) /\ saved' = Recovered
    /\ torn' = (torn \/ HalfDone \/ own.sync \/ (unit.file /\ ~Recovered.enabled))
    /\ UNCHANGED <<files, services, configs, helper, worker, newest>>

\* scheduleHelperUpdate starts a worker of its own unit; the round goes on.
ScheduleHelperUpdate ==
    /\ At("helper")
    /\ worker' = IF worker = "idle" THEN "installing" ELSE worker
    /\ Done
    /\ UNCHANGED <<files, services, configs, own, saved, helper, newest, left, torn>>

RestartsHelper(binary) ==
    /\ helper' = [helper EXCEPT !.file = binary, !.run = binary]
    /\ StartsWith(saved) /\ torn' = (torn \/ HalfDone)
    /\ UNCHANGED <<files, services, configs, saved, newest, left>>

WorkerInstalls == worker = "installing" /\ worker' = "waiting" /\ RestartsHelper("h2")
WorkerSucceeds ==
    /\ worker = "waiting" /\ helper.beat = "h2" /\ worker' = "done"
    /\ UNCHANGED <<files, services, configs, own, saved, job, helper, newest, left, torn>>
\* 30 s without a saved heartbeat of the new version, its first command included.
WorkerTimesOut == worker = "waiting" /\ helper.beat # "h2" /\ worker' = "restored" /\ RestartsHelper("h1")

Interruptions ==
    \/ HelperDies \/ StateLost \/ WorkerInstalls \/ WorkerSucceeds \/ WorkerTimesOut

-----------------------------------------------------------------------------
(* What others do to the machine *)

AgentWrites ==
    /\ Spend("write")
    /\ \E c \in Configs \ {config} : config' = c
    /\ UNCHANGED <<files, services, backup, own, saved, job, rest>>

\* The official Agent, once it drives xray.service.
AgentRestarts ==
    /\ unit.file /\ xray' = Restarted
    /\ UNCHANGED <<files, custom, configs, own, saved, job, rest, left>>

Drift ==
    /\ Spend("drift")
    /\ \/ /\ \E c \in {"other", None} : core' = c
          /\ xray' = Replaced /\ UNCHANGED <<unit, link, custom>>
       \/ unit.file /\ unit' = [unit EXCEPT !.file = FALSE] /\ UNCHANGED <<core, link, services>>
       \/ unit.file /\ unit' = [file |-> FALSE, loaded |-> FALSE] /\ UNCHANGED <<core, link, services>>
       \/ \E l \in {"absent", "foreign"} : link' = l /\ UNCHANGED <<core, unit, services>>
       \/ custom' = TRUE /\ UNCHANGED <<core, unit, link, xray>>
    /\ UNCHANGED <<image, rolls, configs, own, saved, job, rest>>

Environment == AgentWrites \/ AgentRestarts \/ Drift \/ GraceEnds \/ SystemdRestarts
Commanded == Uploaded \/ CommandFails \/ Ownership \/ UpdateOwned \/ CustomCore \/ ScheduleHelperUpdate \/ Report \/ EndRound
=============================================================================

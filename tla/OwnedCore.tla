----------------------------- MODULE OwnedCore -----------------------------
(***************************************************************************)
(* The External Core the Helper owns: xray.service runs the Custom Core     *)
(* from the official configuration, and every round of the Helper repairs   *)
(* what drifted (binary, unit, path link, duplicate service, configuration). *)
(* Commands prepare, arm, activate and roll back the ownership and install  *)
(* or roll back a Core; the worker of a Helper update restarts the Helper   *)
(* between any two steps, and so may a crash.                               *)
(*                                                                         *)
(*   cmd/mmwxc-helper/external_ownership.go, lifecycle.go, management.go,   *)
(*   state_recovery.go, main.go                                             *)
(*                                                                         *)
(* Abstractions: a file is its content, a Core its version ("other" is a     *)
(* binary somebody else wrote); the grace of 30 s ends at any time; health   *)
(* checks see the current state or time out.  xray.up is the process        *)
(* against the files: "owned" runs the current Core file, "old" a Core file *)
(* replaced since, "stock" what another unit starts; xray.serves is the     *)
(* configuration it loaded.                                                 *)
(***************************************************************************)
EXTENDS Naturals, Sequences, SequencesExt

CONSTANTS
    User,     \* contents of the user part of the official configuration
    Budgets,  \* bound: how often each kind of event may happen in a behaviour
    Starts    \* how the machine starts: "custom", "owned"

Kinds == {"drift", "write", "command", "fault", "crash", "edit"}

ASSUME OwnedCoreAssumption ==
    /\ User # {}
    /\ Budgets \subseteq [Kinds -> Nat]
    /\ Starts \subseteq {"custom", "owned"}

VARIABLES
    core, image,     \* /opt/mmwxc/core/xray and its protected image
    rolls,           \* the Core binaries kept for core.rollback, oldest first
    unit,            \* the ownership drop-in: in its file, and loaded by systemd
    link,            \* the Core path of the official Agent
    xray, custom,    \* xray.service and mmwxc-core.service
    config, backup,  \* the official configuration and config.last-good.json
    own, saved,      \* state.ExternalOwnership in memory and in state.json
    job,             \* the step of the Helper
    helper,          \* the Helper binary: installed, running, last heartbeat saved
    worker,          \* the worker of a Helper update
    newest,          \* the newest rollback snapshot on the disk
    left,            \* events left in this behaviour
    torn             \* history: an update or a handoff ended half done

files == <<core, image, rolls, unit, link>>
services == <<xray, custom>>
configs == <<config, backup>>
rest == <<helper, worker, newest, torn>>

None == "none"
Bad == [user |-> None, ctl |-> FALSE]
Configs == [user: User, ctl: BOOLEAN] \union {Bad}
Valid(c) == c # Bad
Cores == {"v1", "v2", "other", None}
Works(c) == c \in {"v1", "v2"}

Snapshots == [taken: BOOLEAN, dropIn: BOOLEAN, custom: BOOLEAN, official: BOOLEAN]
NoSnapshot == [taken |-> FALSE, dropIn |-> FALSE, custom |-> FALSE, official |-> FALSE]

\* rejected and lastGood are Bad where the code has no hash.
OwnershipType ==
    [prepared: BOOLEAN, enabled: BOOLEAN, armed: BOOLEAN, snapshot: Snapshots, expected: Cores,
     lastGood: Configs, rejected: Configs \union {[user |-> None, ctl |-> TRUE]},
     invalid: {"no", "seen", "long"}, link: BOOLEAN, reload: BOOLEAN, sync: BOOLEAN]
NothingRejected == [user |-> None, ctl |-> TRUE]
NoOwnership ==
    [prepared |-> FALSE, enabled |-> FALSE, armed |-> FALSE, snapshot |-> NoSnapshot, expected |-> None,
     lastGood |-> Bad, rejected |-> NothingRejected, invalid |-> "no", link |-> FALSE,
     reload |-> FALSE, sync |-> FALSE]

Idle == [at |-> "idle", cmd |-> None, need |-> "nothing", seen |-> Bad, prev |-> NoOwnership, old |-> None]
At(step) == job.at = step
Goto(step) == job' = [job EXCEPT !.at = step]
\* The repair of the round is over.
RoundOver == job' = [Idle EXCEPT !.at = "control"]
Spend(kind) == left[kind] > 0 /\ left' = [left EXCEPT ![kind] = @ - 1]

-----------------------------------------------------------------------------
(* systemd *)

\* A process whose Core file was replaced no longer runs the owned Core.
Replaced == [xray EXCEPT !.up = IF @ = "owned" THEN "old" ELSE @]

\* systemctl restart xray.service, given what systemd has loaded.
Restarted ==
    LET up == IF ~unit.loaded THEN "stock" ELSE IF core # None /\ Valid(config) THEN "owned" ELSE "down"
    IN [on |-> TRUE, up |-> up, serves |-> IF up = "owned" THEN config ELSE Bad]
Stopped == [on |-> FALSE, up |-> "down", serves |-> Bad]

\* Restart=on-failure
SystemdRestarts ==
    /\ xray.on /\ xray.up = "down" /\ Restarted.up # "down"
    /\ xray' = Restarted
    /\ UNCHANGED <<files, custom, configs, own, saved, job, rest, left>>

Active == xray.up # "down"
RuntimeOwned == xray.up = "owned"
SingleCore == RuntimeOwned /\ ~custom
CoreReady == RuntimeOwned /\ Works(core)
Healthy == SingleCore /\ CoreReady

-----------------------------------------------------------------------------
(* reconcileExternalOwnershipWith, once a round *)

Round ==
    /\ At("idle")
    /\ job' = [Idle EXCEPT !.at = IF own.enabled THEN "core" ELSE "control"]
    /\ UNCHANGED <<files, services, configs, own, saved, rest, left>>

\* A step of the round returns an error: nothing later of it is done.
RoundFails ==
    /\ job.at \in {"core", "duplicate", "repair"}
    /\ Spend("fault") /\ RoundOver
    /\ UNCHANGED <<files, services, configs, own, saved, rest>>

ReconcileCore ==
    /\ At("core")
    /\ \/ core = own.expected /\ Goto("files") /\ UNCHANGED <<core, xray>>
       \/ core # own.expected /\ image # own.expected /\ RoundOver /\ UNCHANGED <<core, xray>>
       \/ /\ core # own.expected /\ image = own.expected
          /\ core' = image /\ xray' = Replaced
          /\ job' = [job EXCEPT !.at = "files", !.need = "restart"]
    /\ UNCHANGED <<image, rolls, unit, link, custom, configs, own, saved, rest, left>>

Linked == IF link = "absent" THEN "owned" ELSE link

ReconcileFiles ==
    /\ At("files")
    /\ unit' = [unit EXCEPT !.file = TRUE]
    /\ link' = Linked
    /\ own' = [own EXCEPT !.link = Linked = "owned"]
    /\ job' = [job EXCEPT !.at = "duplicate",
                   !.need = IF ~unit.file THEN "restart"
                            ELSE IF @ = "nothing" /\ link = "absent" THEN "reload" ELSE @]
    /\ UNCHANGED <<core, image, rolls, services, configs, saved, rest, left>>

ReconcileDuplicate ==
    /\ At("duplicate")
    /\ custom' = FALSE
    /\ job' = [job EXCEPT !.at = "config", !.need = IF @ = "nothing" /\ custom THEN "reload" ELSE @]
    /\ UNCHANGED <<files, xray, configs, own, saved, rest, left>>

\* The hash of a configuration the Core accepts; Bad stands for an error.
ReadConfig ==
    /\ At("config")
    /\ job' = [job EXCEPT !.at = "settle", !.seen = IF config = own.lastGood \/ core # None THEN config ELSE Bad]
    /\ UNCHANGED <<files, services, configs, own, saved, rest, left>>

AcceptConfig ==
    /\ Valid(job.seen)
    /\ IF job.seen = own.lastGood
         THEN own' = [own EXCEPT !.invalid = "no"] /\ UNCHANGED backup
         ELSE /\ backup' = config
              /\ own' = [own EXCEPT !.invalid = "no", !.lastGood = job.seen, !.rejected = NothingRejected]
    /\ Goto("status") /\ UNCHANGED config

\* A configuration that was replaced once is left alone.
LeaveRejected ==
    /\ ~Valid(job.seen) /\ own.rejected = config
    /\ own' = [own EXCEPT !.invalid = "no"]
    /\ Goto("status") /\ UNCHANGED configs

WaitForGrace ==
    /\ ~Valid(job.seen) /\ own.rejected # config /\ own.invalid # "long"
    /\ own' = [own EXCEPT !.invalid = "seen"]
    /\ Goto("status") /\ UNCHANGED configs

RestoreConfig ==
    /\ ~Valid(job.seen) /\ own.rejected # config /\ own.invalid = "long"
    /\ config' = backup
    /\ own' = [own EXCEPT !.invalid = "no", !.rejected = config]
    /\ job' = [job EXCEPT !.at = "status", !.need = "restart"]
    /\ UNCHANGED backup

SettleConfig ==
    /\ At("settle")
    /\ AcceptConfig \/ LeaveRejected \/ WaitForGrace \/ RestoreConfig
    /\ UNCHANGED <<files, services, saved, rest, left>>

\* InvalidConfigAt is a time, so it ages in the file too.
Aged(o) == [o EXCEPT !.invalid = IF @ = "seen" THEN "long" ELSE @]
GraceEnds ==
    /\ own.invalid = "seen"
    /\ own' = Aged(own) /\ saved' = Aged(saved)
    /\ UNCHANGED <<files, services, configs, job, rest, left>>

\* Mutant: only what the round repaired itself asks for a restart.
StatusOfFiles ==
    /\ At("status")
    /\ IF own.armed /\ Healthy
         THEN own' = [own EXCEPT !.armed = FALSE] /\ RoundOver
         ELSE /\ UNCHANGED own
              /\ IF job.need = "nothing" THEN RoundOver ELSE Goto("repair")
    /\ UNCHANGED <<files, services, configs, saved, rest, left>>

Status ==
    /\ At("status")
    /\ IF own.armed /\ Healthy
         THEN own' = [own EXCEPT !.armed = FALSE] /\ RoundOver
         ELSE /\ UNCHANGED own
              /\ LET need == IF Active /\ ~RuntimeOwned THEN "restart" ELSE job.need
                 IN IF need = "nothing" THEN RoundOver ELSE job' = [Idle EXCEPT !.need = need, !.at = "repair"]
    /\ UNCHANGED <<files, services, configs, saved, rest, left>>

\* daemon-reload, and a restart after ownership drift only.
Repair ==
    /\ At("repair")
    /\ unit' = [unit EXCEPT !.loaded = unit.file]
    /\ IF job.need = "restart" THEN Goto("repairRestart") ELSE RoundOver
    /\ UNCHANGED <<core, image, rolls, link, services, configs, own, saved, rest, left>>

RepairRestart ==
    /\ At("repairRestart")
    /\ \/ xray' = Restarted /\ UNCHANGED left
       \/ Spend("fault") /\ UNCHANGED xray
    /\ RoundOver
    /\ UNCHANGED <<files, custom, configs, own, saved, rest>>

Reconcile ==
    \/ Round \/ RoundFails \/ ReconcileCore \/ ReconcileFiles \/ ReconcileDuplicate \/ ReadConfig
    \/ SettleConfig \/ Status \/ Repair \/ RepairRestart
=============================================================================

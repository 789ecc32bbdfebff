------------------------- MODULE ControlConfigProofs -------------------------
(***************************************************************************)
(* Theorems about ControlConfig, for every configuration and any number of   *)
(* commands, failures and deaths of the Helper: the protected image is the   *)
(* Core the ownership record names whenever the Helper may repair from it.   *)
(***************************************************************************)
EXTENDS ControlConfig, TLAPS

-----------------------------------------------------------------------------
(* Types of the files and of what the Helper keeps. *)

Step ==
    {"idle", "core", "files", "duplicate", "config", "settle", "status", "repair",
     "repairRestart", "control", "prepare", "mark", "post", "activate", "reload", "confirm",
     "recovery", "accept", "converged", "report", "command", "save", "image", "preserve",
     "ownFiles", "arm", "start", "verify", "rollback", "undoActivation", "restore",
     "updateImage", "updateCore", "updateRestart", "updateVerify", "undoImage", "undoCore",
     "undoRestart", "install", "verifyCustom", "rollbackCore", "restart", "stop", "helper"}
Needs == {"nothing", "reload", "restart"}
Job == [at: Step, cmd: Commands \cup {None}, need: Needs,
        seen: Configs, prev: OwnershipType, old: Cores]

HelperTypes ==
    /\ core \in Cores /\ image \in Cores /\ rolls \in Seq(Cores)
    /\ unit \in [file: BOOLEAN, loaded: BOOLEAN] /\ link \in {"absent", "owned", "foreign"}
    /\ custom \in BOOLEAN
    /\ config \in Configs /\ backup \in Configs
    /\ own \in OwnershipType /\ saved \in OwnershipType
    /\ job \in Job /\ newest \in Snapshots /\ torn \in BOOLEAN

-----------------------------------------------------------------------------
(* The inductive invariant. *)

\* Only a prepared ownership is enabled: in memory, in the file, and in what an
\* update would put back.
Sound(o) == o.enabled => o.prepared
\* The steps between which image and record are apart.
Between == {"preserve", "updateCore", "undoImage"}

ImageInv ==
    /\ Sound(own) /\ Sound(saved) /\ Sound(job.prev)
    /\ job.at \in {"arm", "start", "verify"} => own.prepared
    \* What prepared becomes the image: only a Core that works is recorded.
    /\ At("preserve") /\ Works(core) => image = core
    /\ At("updateCore") => image = "v2"
    \* A repair of the configuration has read a valid one.
    /\ job.at \in {"mark", "post", "activate"} => Valid(job.seen)
    /\ ~torn /\ own.prepared /\ job.at \notin Between => image = own.expected

HelperInv == HelperTypes /\ ImageInv

\* Without a command the Helper is idle, and owns nothing by a record of nothing.
LEMMA IdleType ==
    /\ NoOwnership \in OwnershipType /\ ~NoOwnership.enabled /\ ~NoOwnership.prepared
    /\ Idle \in Job /\ Idle.at = "idle" /\ Idle.prev = NoOwnership
    /\ Bad \in Configs
BY DEF Idle, Job, Step, Needs, NoOwnership, OwnershipType, None, NoSnapshot, Snapshots, NothingRejected,
       Cores, Configs, Bad

USE IdleType DEF At, Goto, RoundOver, Done, HelperInv, HelperTypes, None,
        files, services, configs, rest, officialVars

-----------------------------------------------------------------------------
(* What the steps do to the two records. *)

\* An ownership that still owns, or does not own, the same Core.
Keeps(o, new) ==
    /\ new \in OwnershipType
    /\ new.prepared = o.prepared /\ new.enabled = o.enabled /\ new.expected = o.expected

\* An ownership that is enabled now, of the same Core.
Enables(o, new) ==
    /\ new \in OwnershipType
    /\ new.prepared = o.prepared /\ new.expected = o.expected

\* A command at another step, with what it found before.
Moves(j, new, at) ==
    /\ new \in Job
    /\ new.at = at /\ new.seen = j.seen /\ new.prev = j.prev /\ new.old = j.old

\* A command at another step that has read a configuration.
Reads(j, new, at, c) ==
    /\ new \in Job
    /\ new.at = at /\ new.seen = c /\ new.prev = j.prev /\ new.old = j.old

\* An unchanged record is of the same Core.
LEMMA KeepsItself == \A o \in OwnershipType : Keeps(o, o)
BY DEF Keeps

\* Settling the configuration keeps the Core.
LEMMA ConfigUpdates ==
    /\ \A o \in OwnershipType, i \in {"no", "seen", "long"} : Keeps(o, [o EXCEPT !.invalid = i])
    /\ \A o \in OwnershipType, c \in Configs :
         Keeps(o, [o EXCEPT !.invalid = "no", !.rejected = c])
    /\ \A o \in OwnershipType, c \in Configs :
         Keeps(o, [o EXCEPT !.invalid = "no", !.lastGood = c, !.rejected = NothingRejected])
<1>1. \A o \in OwnershipType, i \in {"no", "seen", "long"} : Keeps(o, [o EXCEPT !.invalid = i])
      BY DEF Keeps, OwnershipType
<1>2. \A o \in OwnershipType, c \in Configs :
        Keeps(o, [o EXCEPT !.invalid = "no", !.rejected = c])
      BY DEF Keeps, OwnershipType
<1>3. \A o \in OwnershipType, c \in Configs :
        Keeps(o, [o EXCEPT !.invalid = "no", !.lastGood = c, !.rejected = NothingRejected])
      BY DEF Keeps, OwnershipType, NothingRejected
<1> QED BY <1>1, <1>2, <1>3

\* So does the path link.
LEMMA LinkUpdate == \A o \in OwnershipType, b \in BOOLEAN : Keeps(o, [o EXCEPT !.link = b])
BY DEF Keeps, OwnershipType

\* So do the flags of the control sections.
LEMMA FlagUpdates ==
    /\ \A o \in OwnershipType : Keeps(o, [o EXCEPT !.reload = FALSE])
    /\ \A o \in OwnershipType : Keeps(o, [o EXCEPT !.sync = FALSE])
    /\ \A o \in OwnershipType : Keeps(o, [o EXCEPT !.reload = TRUE, !.sync = TRUE])
BY DEF Keeps, OwnershipType

\* Arming and activating enable the ownership of the same Core.
LEMMA ArmUpdates ==
    /\ \A o \in OwnershipType : Keeps(o, [o EXCEPT !.armed = FALSE])
    /\ \A o \in OwnershipType : Enables(o, [o EXCEPT !.armed = TRUE, !.enabled = TRUE])
    /\ \A o \in OwnershipType : Enables(o, [o EXCEPT !.enabled = TRUE, !.armed = FALSE])
<1>1. \A o \in OwnershipType : Keeps(o, [o EXCEPT !.armed = FALSE])
      BY DEF Keeps, OwnershipType
<1>2. \A o \in OwnershipType : Enables(o, [o EXCEPT !.armed = TRUE, !.enabled = TRUE])
      BY DEF Enables, OwnershipType
<1>3. \A o \in OwnershipType : Enables(o, [o EXCEPT !.enabled = TRUE, !.armed = FALSE])
      BY DEF Enables, OwnershipType
<1> QED BY <1>1, <1>2, <1>3

\* A snapshot of the services keeps the Core.
LEMMA SnapshotUpdate ==
    \A o \in OwnershipType, s \in Snapshots : Keeps(o, [o EXCEPT !.snapshot = s])
BY DEF Keeps, OwnershipType

\* A command goes to another step.
LEMMA MoveUpdate == \A j \in Job, at \in Step : Moves(j, [j EXCEPT !.at = at], at)
BY DEF Moves, Job

\* It does so with another need of a restart.
LEMMA NeedUpdate ==
    /\ \A j \in Job, at \in Step, need \in Needs : Moves(j, [j EXCEPT !.at = at, !.need = need], at)
    /\ \A j \in Job, at \in Step, need \in Needs : Moves(j, [j EXCEPT !.need = need, !.at = at], at)
<1>1. ASSUME NEW j \in Job, NEW at \in Step, NEW need \in Needs
      PROVE  Moves(j, [j EXCEPT !.at = at, !.need = need], at)
      BY DEF Moves, Job
<1>2. ASSUME NEW j \in Job, NEW at \in Step, NEW need \in Needs
      PROVE  Moves(j, [j EXCEPT !.need = need, !.at = at], at)
      BY DEF Moves, Job
<1> QED BY <1>1, <1>2

\* It begins, or the round that had it ends.
LEMMA CmdUpdate ==
    /\ \A j \in Job, at \in Step, cmd \in Commands \cup {None} :
         Moves(j, [j EXCEPT !.at = at, !.cmd = cmd], at)
    /\ \A j \in Job, at \in Step, cmd \in Commands \cup {None} :
         Moves(j, [j EXCEPT !.cmd = cmd, !.at = at], at)
<1>1. ASSUME NEW j \in Job, NEW at \in Step, NEW cmd \in Commands \cup {None}
      PROVE  Moves(j, [j EXCEPT !.at = at, !.cmd = cmd], at)
      BY DEF Moves, Job
<1>2. ASSUME NEW j \in Job, NEW at \in Step, NEW cmd \in Commands \cup {None}
      PROVE  Moves(j, [j EXCEPT !.cmd = cmd, !.at = at], at)
      BY DEF Moves, Job
<1> QED BY <1>1, <1>2

\* It has read a configuration.
LEMMA SeenUpdate ==
    \A j \in Job, at \in Step, c \in Configs : Reads(j, [j EXCEPT !.at = at, !.seen = c], at, c)
BY DEF Reads, Job

\* Steps that are named below.
LEMMA StepNames ==
    /\ {"files", "settle", "status", "control", "repair", "duplicate"} \subseteq Step
    /\ {"preserve", "save", "ownFiles", "start", "arm", "undoActivation"} \subseteq Step
    /\ {"config", "undoImage", "verifyCustom", "mark", "post", "activate", "recovery"} \subseteq Step
    /\ {"reload", "prepare", "confirm", "report"} \subseteq Step
BY DEF Step

\* The fields of a command.
LEMMA JobFields ==
    ASSUME job \in Job
    PROVE  /\ job.seen \in Configs /\ job.prev \in OwnershipType /\ job.old \in Cores
           /\ job.need \in Needs /\ job.cmd \in Commands \cup {None}
BY DEF Job

-----------------------------------------------------------------------------
(* Every step keeps the invariant. *)

\* A round begins with the Core when the Helper owns it.
LEMMA RoundStep ==
    ASSUME HelperInv, Round
    PROVE  HelperInv'
<1>1. UNCHANGED <<core, image, rolls, unit, link, custom, config, backup, own, saved,
                  newest, torn>>
      BY DEF Round
<1>2. job' \in Job
      BY DEF Round, Job, Step, Needs
<1>3. ImageInv'
      BY DEF Round, ImageInv, Sound, Between, Job
<1> QED BY <1>1, <1>2, <1>3

\* A step of the round fails; nothing later of it is done.
LEMMA RoundFailsStep ==
    ASSUME HelperInv, RoundFails
    PROVE  HelperInv'
<1>1. UNCHANGED <<core, image, rolls, unit, link, custom, config, backup, own, saved,
                  newest, torn>>
      BY DEF RoundFails
<1>2. job' \in Job
      BY DEF RoundFails, Spend, Job, Step, Needs
<1>3. ImageInv'
      BY DEF RoundFails, Spend, ImageInv, Sound, Between, Job
<1> QED BY <1>1, <1>2, <1>3

\* The image replaces a Core that drifted.
LEMMA ReconcileCoreStep ==
    ASSUME HelperInv, ReconcileCore
    PROVE  HelperInv'
<1>0. At("core")
      BY DEF ReconcileCore
<1>1. core' \in Cores /\ UNCHANGED <<image, rolls>>
      BY DEF ReconcileCore
<1>2. UNCHANGED <<unit, link, custom, config, backup, own, saved, newest, torn>>
      BY DEF ReconcileCore
<1>3. \/ Moves(job, job', "files")
      \/ Moves(Idle, job', "control")
  <2>1. Moves(job, [job EXCEPT !.at = "files"], "files")
        BY StepNames, MoveUpdate, Zenon
  <2>2. Moves(Idle, [Idle EXCEPT !.at = "control"], "control")
        BY StepNames, MoveUpdate, Zenon
  <2>3. Moves(job, [job EXCEPT !.at = "files", !.need = "restart"], "files")
        BY StepNames, NeedUpdate, Zenon DEF Needs
  <2> QED BY <2>1, <2>2, <2>3 DEF ReconcileCore
<1> QED BY <1>0, <1>1, <1>2, <1>3 DEF Moves, ImageInv, Sound, Between

\* The drop-in and the path link are put back.
LEMMA ReconcileFilesStep ==
    ASSUME HelperInv, ReconcileFiles
    PROVE  HelperInv'
<1>0. At("files")
      BY DEF ReconcileFiles
<1>1. UNCHANGED <<core, image, rolls, custom, config, backup, saved, newest, torn>>
      BY DEF ReconcileFiles
<1>2. unit' \in [file: BOOLEAN, loaded: BOOLEAN] /\ link' \in {"absent", "owned", "foreign"}
      BY DEF ReconcileFiles, Linked
<1>3. Keeps(own, own')
      BY LinkUpdate DEF ReconcileFiles
<1>4. Moves(job, job', "duplicate")
  <2>1. Moves(job, [job EXCEPT !.at = "duplicate", !.need = "restart"], "duplicate")
        BY StepNames, NeedUpdate, Zenon DEF Needs
  <2>2. Moves(job, [job EXCEPT !.at = "duplicate", !.need = "reload"], "duplicate")
        BY StepNames, NeedUpdate, Zenon DEF Needs
  <2>3. Moves(job, [job EXCEPT !.at = "duplicate", !.need = job.need], "duplicate")
        BY StepNames, JobFields, NeedUpdate
  <2> QED BY <2>1, <2>2, <2>3 DEF ReconcileFiles
<1> QED BY <1>0, <1>1, <1>2, <1>3, <1>4 DEF Keeps, Moves, ImageInv, Sound, Between

\* The Custom service is stopped.
LEMMA ReconcileDuplicateStep ==
    ASSUME HelperInv, ReconcileDuplicate
    PROVE  HelperInv'
<1>0. At("duplicate")
      BY DEF ReconcileDuplicate
<1>1. UNCHANGED <<core, image, rolls, unit, link, config, backup, own, saved, newest, torn>>
      BY DEF ReconcileDuplicate
<1>2. custom' = FALSE
      BY DEF ReconcileDuplicate
<1>3. Moves(job, job', "config")
  <2>1. Moves(job, [job EXCEPT !.at = "config", !.need = "reload"], "config")
        BY StepNames, NeedUpdate, Zenon DEF Needs
  <2>2. Moves(job, [job EXCEPT !.at = "config", !.need = job.need], "config")
        BY StepNames, JobFields, NeedUpdate
  <2> QED BY <2>1, <2>2 DEF ReconcileDuplicate
<1> QED BY <1>0, <1>1, <1>2, <1>3 DEF Moves, ImageInv, Sound, Between

\* The round reads the configuration.
LEMMA ReadConfigStep ==
    ASSUME HelperInv, ReadConfig
    PROVE  HelperInv'
<1>0. At("config")
      BY DEF ReadConfig
<1>1. UNCHANGED <<core, image, rolls, unit, link, custom, config, backup, own, saved, newest,
                  torn>>
      BY DEF ReadConfig
<1>2. \E c \in Configs : Reads(job, job', "settle", c)
  <2>1. \E c \in Configs : job' = [job EXCEPT !.at = "settle", !.seen = c]
        BY DEF ReadConfig
  <2>2. \A c \in Configs :
          Reads(job, [job EXCEPT !.at = "settle", !.seen = c], "settle", c)
        BY StepNames, SeenUpdate
  <2> QED BY <2>1, <2>2
<1> QED BY <1>0, <1>1, <1>2 DEF Reads, ImageInv, Sound, Between

\* It accepts, leaves or replaces it; the Core stays the same.
LEMMA SettleConfigStep ==
    ASSUME HelperInv, SettleConfig
    PROVE  HelperInv'
<1>0. At("settle")
      BY DEF SettleConfig
<1>1. UNCHANGED <<core, image, rolls, unit, link, custom, saved, newest, torn>>
      BY DEF SettleConfig
<1>2. config' \in Configs /\ backup' \in Configs
      BY DEF SettleConfig, AcceptConfig, LeaveRejected, WaitForGrace, RestoreConfig
<1>3. Keeps(own, own')
  <2>1. CASE AcceptConfig
        BY <2>1, ConfigUpdates, JobFields DEF AcceptConfig
  <2>2. CASE LeaveRejected \/ WaitForGrace
        BY <2>2, ConfigUpdates DEF LeaveRejected, WaitForGrace
  <2>3. CASE RestoreConfig
    <3>1. Keeps(own, [own EXCEPT !.invalid = "no", !.rejected = config])
          BY ConfigUpdates
    <3> QED BY <2>3, <3>1 DEF RestoreConfig
  <2> QED BY <2>1, <2>2, <2>3 DEF SettleConfig
<1>4. Moves(job, job', "status")
  <2>1. Moves(job, [job EXCEPT !.at = "status"], "status")
        BY StepNames, MoveUpdate, Zenon
  <2>2. Moves(job, [job EXCEPT !.at = "status", !.need = "restart"], "status")
        BY StepNames, NeedUpdate, Zenon DEF Needs
  <2> QED BY <2>1, <2>2 DEF SettleConfig, AcceptConfig, LeaveRejected, WaitForGrace, RestoreConfig
<1> QED BY <1>0, <1>1, <1>2, <1>3, <1>4 DEF Keeps, Moves, ImageInv, Sound, Between

\* An armed ownership is over once the Core is healthy.
LEMMA StatusStep ==
    ASSUME HelperInv, Status
    PROVE  HelperInv'
<1>0. At("status")
      BY DEF Status
<1>1. UNCHANGED <<core, image, rolls, unit, link, custom, config, backup, saved, newest, torn>>
      BY DEF Status
<1>2. Keeps(own, own')
      BY ArmUpdates, KeepsItself DEF Status
<1>3. \/ Moves(Idle, job', "control")
      \/ Moves(Idle, job', "repair")
  <2>1. Moves(Idle, [Idle EXCEPT !.at = "control"], "control")
        BY StepNames, MoveUpdate, Zenon
  <2>2. Moves(Idle, [Idle EXCEPT !.need = "restart", !.at = "repair"], "repair")
        BY StepNames, NeedUpdate, Zenon DEF Needs
  <2>3. Moves(Idle, [Idle EXCEPT !.need = job.need, !.at = "repair"], "repair")
        BY StepNames, JobFields, NeedUpdate
  <2> QED BY <2>1, <2>2, <2>3 DEF Status
<1> QED BY <1>0, <1>1, <1>2, <1>3 DEF Keeps, Moves, ImageInv, Sound, Between

\* systemd loads the unit files.
LEMMA RepairStep ==
    ASSUME HelperInv, Repair
    PROVE  HelperInv'
<1>1. UNCHANGED <<core, image, rolls, link, custom, config, backup, own, saved, newest,
                  torn>>
      BY DEF Repair
<1>2. unit' \in [file: BOOLEAN, loaded: BOOLEAN]
      BY DEF Repair
<1>3. job' \in Job
      BY DEF Repair, Job, Step, Needs
<1>4. ImageInv'
      BY DEF Repair, ImageInv, Sound, Between, Job
<1> QED BY <1>1, <1>2, <1>3, <1>4

\* The External Core is restarted.
LEMMA RepairRestartStep ==
    ASSUME HelperInv, RepairRestart
    PROVE  HelperInv'
<1>1. UNCHANGED <<core, image, rolls, unit, link, custom, config, backup, own, saved,
                  newest, torn>>
      BY DEF RepairRestart
<1>2. job' \in Job
      BY DEF RepairRestart, Job, Step, Needs
<1>3. ImageInv'
      BY DEF RepairRestart, ImageInv, Sound, Between, Job
<1> QED BY <1>1, <1>2, <1>3

\* The running Core becomes the image of an ownership that is not enabled.
LEMMA PrepareImageStep ==
    ASSUME HelperInv, PrepareImage
    PROVE  HelperInv'
<1>0. At("image")
      BY DEF PrepareImage
<1>1. UNCHANGED <<core, rolls, unit, link, custom, config, backup, saved, torn>> /\ image' = core
      BY DEF PrepareImage
<1>2. Snapshot \in Snapshots
      BY DEF Snapshot, Active, Snapshots
<1>3. newest' \in Snapshots /\ Keeps(own, own')
      BY <1>2, SnapshotUpdate, KeepsItself DEF PrepareImage
<1>4. Moves(job, job', "preserve")
      BY StepNames, MoveUpdate, NeedUpdate, CmdUpdate, JobFields DEF PrepareImage
<1> QED BY <1>0, <1>1, <1>3, <1>4 DEF Keeps, Moves, ImageInv, Sound, Between

\* Only the Core that became the image is recorded as expected.
LEMMA PreserveConfigStep ==
    ASSUME HelperInv, PreserveConfig
    PROVE  HelperInv'
<1>1. UNCHANGED <<core, image, rolls, unit, link, custom, config, saved, newest, torn>>
      BY DEF PreserveConfig
<1>2. backup' \in Configs /\ image = core
      BY DEF PreserveConfig, Usable, ImageInv
<1>3. own' \in OwnershipType /\ own'.prepared /\ own'.expected = core
      BY DEF PreserveConfig, OwnershipType
<1>4. \/ Moves(job, job', "ownFiles")
      \/ Moves(Idle, job', "save")
  <2>1. Moves(job, [job EXCEPT !.at = "ownFiles"], "ownFiles")
        BY StepNames, MoveUpdate, Zenon
  <2>2. Moves(Idle, [Idle EXCEPT !.at = "save", !.cmd = job.cmd], "save")
        BY StepNames, JobFields, CmdUpdate
  <2> QED BY <2>1, <2>2 DEF PreserveConfig
<1> QED BY <1>1, <1>2, <1>3, <1>4 DEF Moves, ImageInv, Sound, Between

\* Only a prepared ownership gets its drop-in.
LEMMA OwnFilesStep ==
    ASSUME HelperInv, OwnFiles
    PROVE  HelperInv'
<1>0. At("ownFiles")
      BY DEF OwnFiles
<1>1. UNCHANGED <<core, image, rolls, custom, config, backup, saved, newest, torn>>
      BY DEF OwnFiles
<1>2. unit' \in [file: BOOLEAN, loaded: BOOLEAN] /\ link' \in {"absent", "owned", "foreign"}
      BY DEF OwnFiles, Linked
<1>3. Keeps(own, own') /\ own.prepared
      BY LinkUpdate DEF OwnFiles
<1>4. Moves(job, job', "start") \/ Moves(job, job', "arm")
      BY StepNames, MoveUpdate, NeedUpdate, CmdUpdate, JobFields DEF OwnFiles
<1> QED BY <1>0, <1>1, <1>2, <1>3, <1>4 DEF Keeps, Moves, ImageInv, Sound, Between

\* Only a prepared ownership is armed.
LEMMA ArmStep ==
    ASSUME HelperInv, Arm
    PROVE  HelperInv'
<1>0. At("arm")
      BY DEF Arm
<1>1. UNCHANGED <<core, image, rolls, unit, link, config, backup, saved, newest, torn>>
      BY DEF Arm
<1>2. custom' \in BOOLEAN /\ own.prepared
      BY DEF Arm, ImageInv
<1>3. Enables(own, own')
  <2>1. Enables(own, [own EXCEPT !.armed = TRUE, !.enabled = TRUE])
        BY ArmUpdates
  <2>2. Enables(own, own)
        BY DEF Enables
  <2> QED BY <2>1, <2>2 DEF Arm
<1>4. Moves(Idle, job', "save")
      BY StepNames, MoveUpdate, NeedUpdate, CmdUpdate, JobFields DEF Arm
<1> QED BY <1>0, <1>1, <1>2, <1>3, <1>4 DEF Enables, Moves, ImageInv, Sound, Between

\* The Core starts, or the activation is undone.
LEMMA ActivateStartStep ==
    ASSUME HelperInv, ActivateStart
    PROVE  HelperInv'
<1>1. UNCHANGED <<core, image, rolls, unit, link, config, backup, own, saved, newest, torn>>
      BY DEF ActivateStart
<1>2. custom' \in BOOLEAN
      BY DEF ActivateStart
<1>3. job' \in Job
      BY DEF ActivateStart, Job, Step, Needs
<1>4. ImageInv'
      BY DEF ActivateStart, ImageInv, Sound, Between, Job
<1> QED BY <1>1, <1>2, <1>3, <1>4

\* Only a prepared ownership is enabled.
LEMMA ActivateVerifyStep ==
    ASSUME HelperInv, ActivateVerify
    PROVE  HelperInv'
<1>0. At("verify")
      BY DEF ActivateVerify
<1>1. UNCHANGED <<core, image, rolls, unit, link, custom, config, backup, saved, newest, torn>>
      BY DEF ActivateVerify
<1>2. own.prepared
      BY DEF ActivateVerify, ImageInv
<1>3. Enables(own, own')
      BY ArmUpdates, KeepsItself DEF ActivateVerify, Keeps, Enables
<1>4. \/ Moves(Idle, job', "save")
      \/ Moves(job, job', "undoActivation")
  <2>1. Moves(Idle, [Idle EXCEPT !.at = "save", !.cmd = job.cmd], "save")
        BY StepNames, JobFields, CmdUpdate
  <2>2. Moves(job, [job EXCEPT !.at = "undoActivation"], "undoActivation")
        BY StepNames, MoveUpdate, Zenon
  <2> QED BY <2>1, <2>2 DEF ActivateVerify
<1> QED BY <1>0, <1>1, <1>2, <1>3, <1>4 DEF Enables, Moves, ImageInv, Sound, Between

\* The drop-in goes back to the snapshot.
LEMMA RestoreFilesStep ==
    ASSUME HelperInv, RestoreFiles
    PROVE  HelperInv'
<1>1. UNCHANGED <<core, image, rolls, link, custom, config, backup, own, saved, newest,
                  torn>>
      BY DEF RestoreFiles
<1>2. unit' \in [file: BOOLEAN, loaded: BOOLEAN]
      BY DEF RestoreFiles, Snapshots, OwnershipType
<1>3. job' \in Job
      BY DEF RestoreFiles, Snapshots, Job, Step, Needs
<1>4. ImageInv'
      BY DEF RestoreFiles, Snapshots, ImageInv, Sound, Between, Job
<1> QED BY <1>1, <1>2, <1>3, <1>4

\* Nothing is owned any more.
LEMMA RestoreServicesStep ==
    ASSUME HelperInv, RestoreServices
    PROVE  HelperInv'
<1>1. core' \in Cores /\ image' \in Cores /\ rolls' \in Seq(Cores)
      BY DEF RestoreServices, Job
<1>2. /\ unit' \in [file: BOOLEAN, loaded: BOOLEAN] /\ link' \in {"absent", "owned", "foreign"}
      /\ custom' \in BOOLEAN /\ newest' \in Snapshots /\ torn' \in BOOLEAN
      BY DEF RestoreServices
<1>3. config' \in Configs /\ backup' \in Configs
      BY DEF RestoreServices
<1>4. own' \in OwnershipType /\ saved' \in OwnershipType
      BY DEF RestoreServices, Job
<1>5. job' \in Job
      BY DEF RestoreServices, Job, Step, Needs
<1>6. ImageInv'
      BY DEF RestoreServices, ImageInv, Sound, Between, Job
<1> QED BY <1>1, <1>2, <1>3, <1>4, <1>5, <1>6

\* The image is replaced first; what to put back is remembered.
LEMMA UpdateImageStep ==
    ASSUME HelperInv, UpdateImage
    PROVE  HelperInv'
<1>1. UNCHANGED <<core, rolls, unit, link, custom, config, backup, own, saved, newest,
                  torn>>
      BY DEF UpdateImage
<1>2. image' \in Cores
      BY DEF UpdateImage, Updatable, Cores, Job
<1>3. job' \in Job
      BY DEF UpdateImage, Updatable, Job, Step, Needs
<1>4. ImageInv'
      BY DEF UpdateImage, Updatable, ImageInv, Sound, Between, Job
<1> QED BY <1>1, <1>2, <1>3, <1>4

\* The binary and the record follow the image.
LEMMA UpdateCoreStep ==
    ASSUME HelperInv, UpdateCore
    PROVE  HelperInv'
<1>1. core' \in Cores /\ image' \in Cores /\ rolls' \in Seq(Cores)
      BY DEF UpdateCore, Cores, Job
<1>2. /\ unit' \in [file: BOOLEAN, loaded: BOOLEAN] /\ link' \in {"absent", "owned", "foreign"}
      /\ custom' \in BOOLEAN /\ newest' \in Snapshots /\ torn' \in BOOLEAN
      BY DEF UpdateCore, Cores
<1>3. config' \in Configs /\ backup' \in Configs
      BY DEF UpdateCore, Cores
<1>4. own' \in OwnershipType /\ saved' \in OwnershipType
      BY DEF UpdateCore, OwnershipType, Cores, Job
<1>5. job' \in Job
      BY DEF UpdateCore, Job, Step, Needs
<1>6. ImageInv'
      BY DEF UpdateCore, OwnershipType, ImageInv, Sound, Between, Job
<1> QED BY <1>1, <1>2, <1>3, <1>4, <1>5, <1>6

\* The updated Core is started.
LEMMA UpdateRestartStep ==
    ASSUME HelperInv, UpdateRestart
    PROVE  HelperInv'
<1>1. UNCHANGED <<core, image, rolls, unit, link, custom, config, backup, own, saved,
                  newest, torn>>
      BY DEF UpdateRestart
<1>2. job' \in Job
      BY DEF UpdateRestart, Job, Step, Needs
<1>3. ImageInv'
      BY DEF UpdateRestart, ImageInv, Sound, Between, Job
<1> QED BY <1>1, <1>2, <1>3

\* It is healthy, or the update is undone.
LEMMA UpdateVerifyStep ==
    ASSUME HelperInv, UpdateVerify
    PROVE  HelperInv'
<1>0. At("updateVerify")
      BY DEF UpdateVerify
<1>1. UNCHANGED <<core, image, rolls, unit, link, custom, config, backup, own, saved, newest,
                  torn>>
      BY DEF UpdateVerify
<1>2. \/ Moves(Idle, job', "save")
      \/ Moves(job, job', "undoImage")
  <2>1. Moves(Idle, [Idle EXCEPT !.at = "save", !.cmd = job.cmd], "save")
        BY StepNames, JobFields, CmdUpdate
  <2>2. Moves(job, [job EXCEPT !.at = "undoImage"], "undoImage")
        BY StepNames, MoveUpdate, Zenon
  <2> QED BY <2>1, <2>2 DEF UpdateVerify
<1> QED BY <1>0, <1>1, <1>2 DEF Moves, ImageInv, Sound, Between

\* Image and record go back together; a binary that had drifted is a mishap.
LEMMA UndoImageStep ==
    ASSUME HelperInv, UndoImage
    PROVE  HelperInv'
<1>1. core' \in Cores /\ image' \in Cores /\ rolls' \in Seq(Cores)
      BY DEF UndoImage, Job
<1>2. /\ unit' \in [file: BOOLEAN, loaded: BOOLEAN] /\ link' \in {"absent", "owned", "foreign"}
      /\ custom' \in BOOLEAN /\ newest' \in Snapshots /\ torn' \in BOOLEAN
      BY DEF UndoImage
<1>3. config' \in Configs /\ backup' \in Configs
      BY DEF UndoImage
<1>4. own' \in OwnershipType /\ saved' \in OwnershipType
      BY DEF UndoImage, Job
<1>5. job' \in Job
      BY DEF UndoImage, Job, Step, Needs
<1>6. ImageInv'
      BY DEF UndoImage, ImageInv, Sound, Between, Job
<1> QED BY <1>1, <1>2, <1>3, <1>4, <1>5, <1>6

\* The binary goes back, too.
LEMMA UndoCoreStep ==
    ASSUME HelperInv, UndoCore
    PROVE  HelperInv'
<1>1. UNCHANGED <<image, rolls, unit, link, custom, config, backup, own, saved, newest,
                  torn>>
      BY DEF UndoCore
<1>2. core' \in Cores
      BY DEF UndoCore, Job
<1>3. job' \in Job
      BY DEF UndoCore, Job, Step, Needs
<1>4. ImageInv'
      BY DEF UndoCore, ImageInv, Sound, Between, Job
<1> QED BY <1>1, <1>2, <1>3, <1>4

\* The old Core is started.
LEMMA UndoRestartStep ==
    ASSUME HelperInv, UndoRestart
    PROVE  HelperInv'
<1>1. UNCHANGED <<core, image, rolls, unit, link, custom, config, backup, own, saved,
                  newest, torn>>
      BY DEF UndoRestart
<1>2. job' \in Job
      BY DEF UndoRestart, Job, Step, Needs
<1>3. ImageInv'
      BY DEF UndoRestart, ImageInv, Sound, Between, Job
<1> QED BY <1>1, <1>2, <1>3

\* The Custom Core is replaced, and its binary kept.
LEMMA InstallStep ==
    ASSUME HelperInv, Install
    PROVE  HelperInv'
<1>0. At("install")
      BY DEF Install
<1>1. UNCHANGED <<image, unit, link, custom, config, backup, own, saved, newest, torn>>
      BY DEF Install
<1>2. core' \in Cores
      BY DEF Install, Cores
<1>3. rolls' \in Seq(Cores)
  <2>1. Append(rolls, core) \in Seq(Cores) /\ Append(rolls, core) # <<>>
        OBVIOUS
  <2>2. Tail(Append(rolls, core)) \in Seq(Cores)
        BY <2>1
  <2> QED BY <2>1, <2>2 DEF Install, Kept
<1>4. \/ Moves(Idle, job', "save")
      \/ Moves(job, job', "verifyCustom")
  <2>1. Moves(Idle, [Idle EXCEPT !.at = "save", !.cmd = job.cmd], "save")
        BY StepNames, JobFields, CmdUpdate
  <2>2. Moves(job, [job EXCEPT !.at = "verifyCustom"], "verifyCustom")
        BY StepNames, MoveUpdate, Zenon
  <2> QED BY <2>1, <2>2 DEF Install
<1> QED BY <1>0, <1>1, <1>2, <1>3, <1>4 DEF Moves, ImageInv, Sound, Between

\* A Custom Core that fails is put back.
LEMMA VerifyCustomStep ==
    ASSUME HelperInv, VerifyCustom
    PROVE  HelperInv'
<1>1. UNCHANGED <<image, rolls, unit, link, custom, config, backup, own, saved, newest,
                  torn>>
      BY DEF VerifyCustom
<1>2. core' \in Cores
      BY DEF VerifyCustom, LatestRollback, Last, Cores, Job
<1>3. job' \in Job
      BY DEF VerifyCustom, LatestRollback, Last, Job, Step, Needs
<1>4. ImageInv'
      BY DEF VerifyCustom, LatestRollback, Last, ImageInv, Sound, Between, Job
<1> QED BY <1>1, <1>2, <1>3, <1>4

\* The newest kept binary comes back.
LEMMA RollbackCoreStep ==
    ASSUME HelperInv, RollbackCore
    PROVE  HelperInv'
<1>1. UNCHANGED <<image, rolls, unit, link, custom, config, backup, own, saved, newest,
                  torn>>
      BY DEF RollbackCore
<1>2. core' \in Cores
      BY DEF RollbackCore, LatestRollback, Last, Job
<1>3. job' \in Job
      BY DEF RollbackCore, LatestRollback, Last, Job, Step, Needs
<1>4. ImageInv'
      BY DEF RollbackCore, LatestRollback, Last, ImageInv, Sound, Between, Job
<1> QED BY <1>1, <1>2, <1>3, <1>4

\* A restart leaves files and records alone.
LEMMA RestartCoreStep ==
    ASSUME HelperInv, RestartCore
    PROVE  HelperInv'
<1>1. UNCHANGED <<core, image, rolls, unit, link, config, backup, own, saved, newest, torn>>
      BY DEF RestartCore
<1>2. custom' \in BOOLEAN
      BY DEF RestartCore
<1>3. job' \in Job
      BY DEF RestartCore, Job, Step, Needs
<1>4. ImageInv'
      BY DEF RestartCore, ImageInv, Sound, Between, Job
<1> QED BY <1>1, <1>2, <1>3, <1>4

\* So does a stop.
LEMMA StopCoreStep ==
    ASSUME HelperInv, StopCore
    PROVE  HelperInv'
<1>1. UNCHANGED <<core, image, rolls, unit, link, config, backup, own, saved, newest, torn>>
      BY DEF StopCore
<1>2. custom' \in BOOLEAN
      BY DEF StopCore
<1>3. job' \in Job
      BY DEF StopCore, Job, Step, Needs
<1>4. ImageInv'
      BY DEF StopCore, ImageInv, Sound, Between, Job
<1> QED BY <1>1, <1>2, <1>3, <1>4

\* A command starts at its first step, which is none of the steps in between.
LEMMA UploadedStep ==
    ASSUME HelperInv, Uploaded
    PROVE  HelperInv'
<1>0. At("command")
      BY DEF Uploaded
<1>1. UNCHANGED <<core, image, rolls, unit, link, custom, config, backup, own, saved, newest,
                  torn>>
      BY DEF Uploaded
<1>2. \A cmd \in Commands :
        /\ FirstStep(cmd) \in Step
        /\ FirstStep(cmd) \notin {"preserve", "updateCore", "undoImage", "arm", "start", "verify",
                                  "mark", "post", "activate"}
      BY DEF Commands, FirstStep, Step
<1>3. \/ Moves(job, job', "save")
      \/ \E cmd \in Commands : Moves(job, job', FirstStep(cmd))
  <2>1. Moves(job, [job EXCEPT !.at = "save"], "save")
        BY StepNames, MoveUpdate, Zenon
  <2>2. \A cmd \in Commands :
          Moves(job, [job EXCEPT !.cmd = cmd, !.at = FirstStep(cmd)], FirstStep(cmd))
        BY <1>2, CmdUpdate
  <2> QED BY <2>1, <2>2 DEF Uploaded
<1> QED BY <1>0, <1>1, <1>2, <1>3 DEF Moves, ImageInv, Sound, Between

\* A command that fails leaves the record; at "preserve" the image may differ.
LEMMA CommandFailsStep ==
    ASSUME HelperInv, CommandFails
    PROVE  HelperInv'
<1>1. UNCHANGED <<core, image, rolls, unit, link, custom, config, backup, own, saved,
                  newest>>
      BY DEF CommandFails
<1>2. torn' \in BOOLEAN
      BY DEF CommandFails
<1>3. job' \in Job
      BY DEF CommandFails, Job, Step, Needs
<1>4. ImageInv'
      BY DEF CommandFails, ImageInv, Sound, Between, Job, Works
<1> QED BY <1>1, <1>2, <1>3, <1>4

\* An update of the Helper starts its worker.
LEMMA ScheduleHelperUpdateStep ==
    ASSUME HelperInv, ScheduleHelperUpdate
    PROVE  HelperInv'
<1>1. UNCHANGED <<core, image, rolls, unit, link, custom, config, backup, own, saved,
                  newest, torn>>
      BY DEF ScheduleHelperUpdate
<1>2. job' \in Job
      BY DEF ScheduleHelperUpdate, Job, Step, Needs
<1>3. ImageInv'
      BY DEF ScheduleHelperUpdate, ImageInv, Sound, Between, Job
<1> QED BY <1>1, <1>2, <1>3

\* The state is saved with the report.
LEMMA ReportStep ==
    ASSUME HelperInv, Report
    PROVE  HelperInv'
<1>1. UNCHANGED <<core, image, rolls, unit, link, custom, config, backup, own, newest,
                  torn>>
      BY DEF Report
<1>2. saved' \in OwnershipType
      BY DEF Report, Saves
<1>3. job' \in Job
      BY DEF Report, Saves, Job, Step, Needs
<1>4. ImageInv'
      BY DEF Report, Saves, ImageInv, Sound, Between, Job
<1> QED BY <1>1, <1>2, <1>3, <1>4

\* The state is saved at the end of the round.
LEMMA EndRoundStep ==
    ASSUME HelperInv, EndRound
    PROVE  HelperInv'
<1>1. UNCHANGED <<core, image, rolls, unit, link, custom, config, backup, own, newest,
                  torn>>
      BY DEF EndRound
<1>2. saved' \in OwnershipType
      BY DEF EndRound, Saves
<1>3. job' \in Job
      BY DEF EndRound, Saves, Job, Step, Needs
<1>4. ImageInv'
      BY DEF EndRound, Saves, ImageInv, Sound, Between, Job
<1> QED BY <1>1, <1>2, <1>3, <1>4

\* After a death the record is the saved one, and the image may differ.
LEMMA HelperDiesStep ==
    ASSUME HelperInv, HelperDies
    PROVE  HelperInv'
<1>1. core' \in Cores /\ image' \in Cores /\ rolls' \in Seq(Cores)
      BY DEF HelperDies, StartsWith, HalfDone, Job
<1>2. /\ unit' \in [file: BOOLEAN, loaded: BOOLEAN] /\ link' \in {"absent", "owned", "foreign"}
      /\ custom' \in BOOLEAN /\ newest' \in Snapshots /\ torn' \in BOOLEAN
      BY DEF HelperDies, StartsWith, HalfDone
<1>3. config' \in Configs /\ backup' \in Configs
      BY DEF HelperDies, StartsWith, HalfDone
<1>4. own' \in OwnershipType /\ saved' \in OwnershipType
      BY DEF HelperDies, StartsWith, HalfDone, Job
<1>5. job' \in Job
      BY DEF HelperDies, StartsWith, HalfDone, Job, Step, Needs
<1>6. ImageInv'
      BY DEF HelperDies, StartsWith, HalfDone, ImageInv, Sound, Between, Job
<1> QED BY <1>1, <1>2, <1>3, <1>4, <1>5, <1>6

\* A lost state file is recovered from matching evidence only.
LEMMA StateLostStep ==
    ASSUME HelperInv, StateLost
    PROVE  HelperInv'
<1>1. UNCHANGED <<core, image, rolls, unit, link, custom, config, backup, newest>>
      BY DEF StateLost
<1>2. torn' \in BOOLEAN /\ own' = Recovered /\ saved' = Recovered /\ job' = Idle
      BY DEF StateLost, StartsWith
<1>3. /\ Recovered \in OwnershipType
      /\ Recovered.enabled => Recovered.prepared
      /\ Recovered.prepared => image = Recovered.expected
  <2>1. CASE unit.file /\ core = image /\ core # None /\ Valid(backup) /\ newest.taken
        BY <2>1 DEF Recovered, OwnershipType
  <2>2. CASE ~(unit.file /\ core = image /\ core # None /\ Valid(backup) /\ newest.taken)
        BY <2>2 DEF Recovered
  <2> QED BY <2>1, <2>2
<1> QED BY <1>1, <1>2, <1>3 DEF ImageInv, Sound, Between

\* The worker restarts the Helper.
LEMMA WorkerInstallsStep ==
    ASSUME HelperInv, WorkerInstalls
    PROVE  HelperInv'
<1>1. core' \in Cores /\ image' \in Cores /\ rolls' \in Seq(Cores)
      BY DEF WorkerInstalls, RestartsHelper, StartsWith, HalfDone, Job
<1>2. /\ unit' \in [file: BOOLEAN, loaded: BOOLEAN] /\ link' \in {"absent", "owned", "foreign"}
      /\ custom' \in BOOLEAN /\ newest' \in Snapshots /\ torn' \in BOOLEAN
      BY DEF WorkerInstalls, RestartsHelper, StartsWith, HalfDone
<1>3. config' \in Configs /\ backup' \in Configs
      BY DEF WorkerInstalls, RestartsHelper, StartsWith, HalfDone
<1>4. own' \in OwnershipType /\ saved' \in OwnershipType
      BY DEF WorkerInstalls, RestartsHelper, StartsWith, HalfDone, Job
<1>5. job' \in Job
      BY DEF WorkerInstalls, RestartsHelper, StartsWith, HalfDone, Job, Step, Needs
<1>6. ImageInv'
      BY DEF WorkerInstalls, RestartsHelper, StartsWith, HalfDone, ImageInv, Sound, Between, Job
<1> QED BY <1>1, <1>2, <1>3, <1>4, <1>5, <1>6

\* The new Helper has reported.
LEMMA WorkerSucceedsStep ==
    ASSUME HelperInv, WorkerSucceeds
    PROVE  HelperInv'
<1>1. UNCHANGED <<core, image, rolls, unit, link, custom, config, backup, own, saved,
                  newest, torn, job>>
      BY DEF WorkerSucceeds
<1>2. ImageInv'
      BY DEF WorkerSucceeds, ImageInv, Sound, Between, Job
<1> QED BY <1>1, <1>2

\* The worker puts the old Helper back.
LEMMA WorkerTimesOutStep ==
    ASSUME HelperInv, WorkerTimesOut
    PROVE  HelperInv'
<1>1. core' \in Cores /\ image' \in Cores /\ rolls' \in Seq(Cores)
      BY DEF WorkerTimesOut, RestartsHelper, StartsWith, HalfDone, Job
<1>2. /\ unit' \in [file: BOOLEAN, loaded: BOOLEAN] /\ link' \in {"absent", "owned", "foreign"}
      /\ custom' \in BOOLEAN /\ newest' \in Snapshots /\ torn' \in BOOLEAN
      BY DEF WorkerTimesOut, RestartsHelper, StartsWith, HalfDone
<1>3. config' \in Configs /\ backup' \in Configs
      BY DEF WorkerTimesOut, RestartsHelper, StartsWith, HalfDone
<1>4. own' \in OwnershipType /\ saved' \in OwnershipType
      BY DEF WorkerTimesOut, RestartsHelper, StartsWith, HalfDone, Job
<1>5. job' \in Job
      BY DEF WorkerTimesOut, RestartsHelper, StartsWith, HalfDone, Job, Step, Needs
<1>6. ImageInv'
      BY DEF WorkerTimesOut, RestartsHelper, StartsWith, HalfDone, ImageInv, Sound, Between, Job
<1> QED BY <1>1, <1>2, <1>3, <1>4, <1>5, <1>6

\* The Agent writes the configuration.
LEMMA AgentWritesStep ==
    ASSUME HelperInv, AgentWrites
    PROVE  HelperInv'
<1>1. UNCHANGED <<core, image, rolls, unit, link, custom, backup, own, saved, newest,
                  torn, job>>
      BY DEF AgentWrites
<1>2. config' \in Configs
      BY DEF AgentWrites, Configs
<1>3. ImageInv'
      BY DEF AgentWrites, ImageInv, Sound, Between, Job
<1> QED BY <1>1, <1>2, <1>3

\* The Agent restarts the External Core.
LEMMA AgentRestartsStep ==
    ASSUME HelperInv, AgentRestarts
    PROVE  HelperInv'
<1>1. UNCHANGED <<core, image, rolls, unit, link, custom, config, backup, own, saved,
                  newest, torn, job>>
      BY DEF AgentRestarts
<1>2. ImageInv'
      BY DEF AgentRestarts, ImageInv, Sound, Between, Job
<1> QED BY <1>1, <1>2

\* A drift of the Core is never one to a Core that works.
LEMMA DriftStep ==
    ASSUME HelperInv, Drift
    PROVE  HelperInv'
<1>1. UNCHANGED <<image, rolls, config, backup, own, saved, job, newest, torn>>
      BY DEF Drift
<1>2. core' = core \/ core' = "other" \/ core' = None
      BY DEF Drift
<1>3. unit' \in [file: BOOLEAN, loaded: BOOLEAN]
  <2>1. unit' \in {unit, [unit EXCEPT !.file = FALSE], [file |-> FALSE, loaded |-> FALSE]}
        BY DEF Drift
  <2>2. [unit EXCEPT !.file = FALSE] \in [file: BOOLEAN, loaded: BOOLEAN]
        OBVIOUS
  <2>3. [file |-> FALSE, loaded |-> FALSE] \in [file: BOOLEAN, loaded: BOOLEAN]
        OBVIOUS
  <2> QED BY <2>1, <2>2, <2>3
<1>4. link' \in {"absent", "owned", "foreign"} /\ custom' \in BOOLEAN
      BY DEF Drift
<1> QED BY <1>1, <1>2, <1>3, <1>4 DEF Cores, Works, ImageInv, Sound, Between

\* The grace of an invalid configuration is over, in memory and in the file.
LEMMA GraceEndsStep ==
    ASSUME HelperInv, GraceEnds
    PROVE  HelperInv'
<1>1. UNCHANGED <<core, image, rolls, unit, link, custom, config, backup, job, newest, torn>>
      BY DEF GraceEnds
<1>2. Keeps(own, own') /\ Keeps(saved, saved')
  <2>1. \A o \in OwnershipType : Keeps(o, Aged(o))
    <3> TAKE o \in OwnershipType
    <3>1. o.invalid \in {"no", "seen", "long"}
          BY DEF OwnershipType
    <3> QED BY <3>1, ConfigUpdates DEF Aged
  <2> QED BY <2>1 DEF GraceEnds
<1> QED BY <1>1, <1>2 DEF Keeps, ImageInv, Sound, Between

\* systemd restarts the Core.
LEMMA SystemdRestartsStep ==
    ASSUME HelperInv, SystemdRestarts
    PROVE  HelperInv'
<1>1. UNCHANGED <<core, image, rolls, unit, link, custom, config, backup, own, saved,
                  newest, torn, job>>
      BY DEF SystemdRestarts
<1>2. ImageInv'
      BY DEF SystemdRestarts, ImageInv, Sound, Between, Job
<1> QED BY <1>1, <1>2

\* An incomplete configuration sets both flags.
LEMMA LooksAtConfigStep ==
    ASSUME HelperInv, LooksAtConfig
    PROVE  HelperInv'
<1>0. At("control")
      BY DEF LooksAtConfig
<1>1. UNCHANGED <<core, image, rolls, unit, link, custom, config, backup, newest, torn>>
      BY DEF LooksAtConfig
<1>2. Keeps(own, own') /\ (saved' = own' \/ saved' = saved)
      BY FlagUpdates, KeepsItself DEF LooksAtConfig, Lost
<1>3. \/ Moves(Idle, job', "report")
      \/ Moves(job, job', "reload")
      \/ Moves(job, job', "prepare")
  <2>1. Moves(Idle, [Idle EXCEPT !.at = "report"], "report")
        BY StepNames, MoveUpdate, Zenon
  <2>2. Moves(job, [job EXCEPT !.at = "reload"], "reload")
        BY StepNames, MoveUpdate, Zenon
  <2>3. Moves(job, [job EXCEPT !.at = "prepare"], "prepare")
        BY StepNames, MoveUpdate, Zenon
  <2> QED BY <2>1, <2>2, <2>3 DEF LooksAtConfig, GivesUp, Lost
<1> QED BY <1>0, <1>1, <1>2, <1>3 DEF Keeps, Moves, ImageInv, Sound, Between

\* The controller reads the live configuration.
LEMMA PreparesStep ==
    ASSUME HelperInv, Prepares
    PROVE  HelperInv'
<1>0. At("prepare")
      BY DEF Prepares
<1>1. UNCHANGED <<core, image, rolls, unit, link, custom, config, backup, own, saved, newest,
                  torn>>
      BY DEF Prepares, ReadsLive
<1>2. \/ Moves(Idle, job', "report")
      \/ Reads(job, job', "mark", config) /\ Valid(config)
  <2>1. Moves(Idle, [Idle EXCEPT !.at = "report"], "report")
        BY StepNames, MoveUpdate, Zenon
  <2>2. Reads(job, [job EXCEPT !.at = "mark", !.seen = config], "mark", config)
        BY StepNames, SeenUpdate
  <2> QED BY <2>1, <2>2 DEF Prepares, ReadsLive, GivesUp, Lost
<1> QED BY <1>0, <1>1, <1>2 DEF Moves, Reads, ImageInv, Sound, Between

\* The repair is marked, or given up.
LEMMA MarksStep ==
    ASSUME HelperInv, Marks
    PROVE  HelperInv'
<1>0. At("mark")
      BY DEF Marks
<1>1. UNCHANGED <<core, image, rolls, unit, link, custom, config, backup, own, saved, newest,
                  torn>>
      BY DEF Marks
<1>2. Moves(Idle, job', "reload") \/ Moves(Idle, job', "report") \/ Moves(job, job', "post")
  <2>1. Moves(Idle, [Idle EXCEPT !.at = "reload"], "reload")
        BY StepNames, MoveUpdate, Zenon
  <2>2. Moves(Idle, [Idle EXCEPT !.at = "report"], "report")
        BY StepNames, MoveUpdate, Zenon
  <2>3. Moves(job, [job EXCEPT !.at = "post"], "post")
        BY StepNames, MoveUpdate, Zenon
  <2> QED BY <2>1, <2>2, <2>3 DEF Marks, GivesUp, Lost
<1> QED BY <1>0, <1>1, <1>2 DEF Moves, ImageInv, Sound, Between

\* The repaired configuration is written.
LEMMA PostsStep ==
    ASSUME HelperInv, Posts
    PROVE  HelperInv'
<1>0. At("post")
      BY DEF Posts
<1>1. UNCHANGED <<core, image, rolls, unit, link, custom, backup, own, saved, newest, torn>>
      BY DEF Posts
<1>2. config' \in Configs
  <2>1. job.seen \in [user: User, ctl: BOOLEAN]
        BY JobFields DEF Posts, ImageInv, Valid, Configs
  <2>2. [user |-> job.seen.user, ctl |-> TRUE] \in [user: User, ctl: BOOLEAN]
        BY <2>1
  <2> QED BY <2>2 DEF Posts, Configs
<1>3. Moves(job, job', "activate") \/ Moves(Idle, job', "report")
      BY StepNames, MoveUpdate, NeedUpdate, CmdUpdate, JobFields DEF Posts, GoesOn, GivesUp, Lost
<1> QED BY <1>0, <1>1, <1>2, <1>3 DEF Posts, Moves, ImageInv, Sound, Between

\* The Core is restarted with it.
LEMMA ActivatesStep ==
    ASSUME HelperInv, Activates
    PROVE  HelperInv'
<1>1. UNCHANGED <<core, image, rolls, unit, link, custom, config, backup, own, saved,
                  newest, torn>>
      BY DEF Activates
<1>2. job' \in Job
      BY DEF Activates, Lost, GivesUp, Job, Step, Needs
<1>3. ImageInv'
      BY DEF Activates, Lost, GivesUp, ImageInv, Sound, Between, Job
<1> QED BY <1>1, <1>2, <1>3

\* The Agent is restarted before its flag is cleared.
LEMMA ReloadsAgentStep ==
    ASSUME HelperInv, ReloadsAgent
    PROVE  HelperInv'
<1>0. At("reload")
      BY DEF ReloadsAgent
<1>1. UNCHANGED <<core, image, rolls, unit, link, custom, config, backup, newest, torn>>
      BY DEF ReloadsAgent
<1>2. Keeps(own, own') /\ (saved' = own' \/ saved' = saved)
      BY FlagUpdates, KeepsItself DEF ReloadsAgent
<1>3. Moves(job, job', "confirm") \/ Moves(Idle, job', "report")
      BY StepNames, MoveUpdate, NeedUpdate, CmdUpdate, JobFields DEF ReloadsAgent, GivesUp, Lost
<1> QED BY <1>0, <1>1, <1>2, <1>3 DEF Keeps, Moves, ImageInv, Sound, Between

\* The controller reads the live configuration again.
LEMMA ConfirmsStep ==
    ASSUME HelperInv, Confirms
    PROVE  HelperInv'
<1>0. At("confirm")
      BY DEF Confirms
<1>1. UNCHANGED <<core, image, rolls, unit, link, custom, config, backup, own, saved, newest,
                  torn>>
      BY DEF Confirms, ReadsLive
<1>2. \/ Moves(Idle, job', "report")
      \/ Reads(job, job', "recovery", config) /\ Valid(config)
  <2>1. Moves(Idle, [Idle EXCEPT !.at = "report"], "report")
        BY StepNames, MoveUpdate, Zenon
  <2>2. Reads(job, [job EXCEPT !.at = "recovery", !.seen = config], "recovery", config)
        BY StepNames, SeenUpdate
  <2> QED BY <2>1, <2>2 DEF Confirms, ReadsLive, GivesUp, Lost
<1> QED BY <1>0, <1>1, <1>2 DEF Moves, Reads, ImageInv, Sound, Between

\* The official snapshot has converged, or waits.
LEMMA ChecksRecoveryStep ==
    ASSUME HelperInv, ChecksRecovery
    PROVE  HelperInv'
<1>1. UNCHANGED <<core, image, rolls, unit, link, custom, config, backup, own, saved,
                  newest, torn>>
      BY DEF ChecksRecovery
<1>2. job' \in Job
      BY DEF ChecksRecovery, GivesUp, Job, Step, Needs
<1>3. ImageInv'
      BY DEF ChecksRecovery, GivesUp, ImageInv, Sound, Between, Job
<1> QED BY <1>1, <1>2, <1>3

\* A pending recovery is accepted.
LEMMA AcceptsStep ==
    ASSUME HelperInv, Accepts
    PROVE  HelperInv'
<1>1. UNCHANGED <<core, image, rolls, unit, link, custom, config, backup, own, saved,
                  newest, torn>>
      BY DEF Accepts
<1>2. job' \in Job
      BY DEF Accepts, Lost, GivesUp, GoesOn, Job, Step, Needs
<1>3. ImageInv'
      BY DEF Accepts, Lost, GivesUp, GoesOn, ImageInv, Sound, Between, Job
<1> QED BY <1>1, <1>2, <1>3

\* The flag and the marker are cleared.
LEMMA ConvergesStep ==
    ASSUME HelperInv, Converges
    PROVE  HelperInv'
<1>0. At("converged")
      BY DEF Converges
<1>1. UNCHANGED <<core, image, rolls, unit, link, custom, config, backup, newest, torn>>
      BY DEF Converges
<1>2. Keeps(own, own') /\ (saved' = own' \/ saved' = saved)
      BY FlagUpdates, KeepsItself DEF Converges
<1>3. Moves(Idle, job', "report")
      BY StepNames, MoveUpdate, NeedUpdate, CmdUpdate, JobFields DEF Converges, GivesUp, Lost
<1> QED BY <1>0, <1>1, <1>2, <1>3 DEF Keeps, Moves, ImageInv, Sound, Between

\* The Agent reports to the official system.
LEMMA AgentReportsStep ==
    ASSUME HelperInv, AgentReports
    PROVE  HelperInv'
<1>1. UNCHANGED <<core, image, rolls, unit, link, custom, config, backup, own, saved,
                  newest, torn, job>>
      BY DEF AgentReports
<1>2. ImageInv'
      BY DEF AgentReports, ImageInv, Sound, Between, Job
<1> QED BY <1>1, <1>2

\* An administrator edits the configuration.
LEMMA AdminEditsStep ==
    ASSUME HelperInv, AdminEdits
    PROVE  HelperInv'
<1>1. UNCHANGED <<core, image, rolls, unit, link, custom, backup, own, saved, newest,
                  torn, job>>
      BY DEF AdminEdits
<1>2. config' \in Configs
      BY DEF AdminEdits, Valid, Bad, Configs
<1>3. ImageInv'
      BY DEF AdminEdits, Valid, Bad, ImageInv, Sound, Between, Job
<1> QED BY <1>1, <1>2, <1>3

-----------------------------------------------------------------------------
(* The machine starts with a Custom Core or an owned one. *)
LEMMA HelperInit ==
    ASSUME Init
    PROVE  HelperInv
<1> DEFINE Snap == [taken |-> TRUE, dropIn |-> FALSE, custom |-> TRUE, official |-> FALSE]
<1>1. PICK start \in Starts, c \in {Served, [Served EXCEPT !.ctl = FALSE]} :
        /\ config = c /\ backup = (IF start = "owned" THEN c ELSE Bad)
        /\ core = "v1" /\ image = (IF start = "owned" THEN "v1" ELSE None)
        /\ unit = [file |-> start = "owned", loaded |-> start = "owned"]
        /\ link = (IF start = "owned" THEN "owned" ELSE "absent")
        /\ custom = (start # "owned")
        /\ newest = (IF start = "owned" THEN Snap ELSE NoSnapshot)
        /\ own = IF start = "owned"
                 THEN [NoOwnership EXCEPT !.prepared = TRUE, !.enabled = TRUE, !.snapshot = Snap,
                         !.expected = "v1", !.lastGood = c, !.link = TRUE]
                 ELSE NoOwnership
      BY DEF Init
<1>2. saved = own /\ job = Idle /\ rolls = <<>> /\ torn = FALSE
      BY DEF Init
<1>3. c \in Configs
  <2>1. (CHOOSE u \in User : TRUE) \in User
        BY OwnedCoreAssumption
  <2>2. Served \in [user: User, ctl: BOOLEAN]
        BY <2>1 DEF Served
  <2>3. [Served EXCEPT !.ctl = FALSE] \in [user: User, ctl: BOOLEAN]
        BY <2>2
  <2> QED BY <2>2, <2>3 DEF Configs
<1>4. Snap \in Snapshots /\ NoSnapshot \in Snapshots
      BY DEF NoSnapshot, Snapshots
<1>5. core \in Cores /\ image \in Cores /\ rolls \in Seq(Cores)
      BY <1>1, <1>2 DEF Cores
<1>6. /\ unit \in [file: BOOLEAN, loaded: BOOLEAN] /\ link \in {"absent", "owned", "foreign"}
      /\ custom \in BOOLEAN /\ newest \in Snapshots /\ torn \in BOOLEAN
      BY <1>1, <1>2, <1>4
<1>7. config \in Configs /\ backup \in Configs
      BY <1>1, <1>3
<1>8. /\ own \in OwnershipType
      /\ own.enabled => own.prepared
      /\ own.prepared => image = own.expected
  <2>1. CASE start = "owned"
    <3> HIDE DEF Snap
    <3>1. [NoOwnership EXCEPT !.prepared = TRUE, !.enabled = TRUE, !.snapshot = Snap,
             !.expected = "v1", !.lastGood = c, !.link = TRUE] \in OwnershipType
          BY <1>3, <1>4 DEF OwnershipType, Cores
    <3> QED BY <2>1, <1>1, <3>1 DEF OwnershipType
  <2>2. CASE start # "owned"
        BY <2>2, <1>1
  <2> QED BY <2>1, <2>2
<1> QED BY <1>2, <1>5, <1>6, <1>7, <1>8 DEF ImageInv, Sound, Between

\* Every step keeps the invariant.
LEMMA HelperStepKeeps ==
    ASSUME HelperInv, [Next]_vars
    PROVE  HelperInv'
<1>1. CASE Reconcile
      BY <1>1, RoundStep, RoundFailsStep, ReconcileCoreStep, ReconcileFilesStep,
         ReconcileDuplicateStep, ReadConfigStep, SettleConfigStep, StatusStep, RepairStep,
         RepairRestartStep DEF Reconcile
<1>2. CASE Ownership
      BY <1>2, PrepareImageStep, PreserveConfigStep, OwnFilesStep, ArmStep, ActivateStartStep,
         ActivateVerifyStep, RestoreFilesStep, RestoreServicesStep DEF Ownership
<1>3. CASE UpdateOwned
      BY <1>3, UpdateImageStep, UpdateCoreStep, UpdateRestartStep, UpdateVerifyStep,
         UndoImageStep, UndoCoreStep, UndoRestartStep DEF UpdateOwned
<1>4. CASE CustomCore
      BY <1>4, InstallStep, VerifyCustomStep, RollbackCoreStep, RestartCoreStep, StopCoreStep
         DEF CustomCore
<1>5. CASE Uploaded \/ CommandFails \/ ScheduleHelperUpdate \/ Report \/ EndRound
      BY <1>5, UploadedStep, CommandFailsStep, ScheduleHelperUpdateStep, ReportStep, EndRoundStep
<1>6. CASE Control
      BY <1>6, LooksAtConfigStep, PreparesStep, MarksStep, PostsStep, ActivatesStep,
         ReloadsAgentStep, ConfirmsStep, ChecksRecoveryStep, AcceptsStep, ConvergesStep DEF Control
<1>7. CASE AgentReports \/ AdminEdits
      BY <1>7, AgentReportsStep, AdminEditsStep
<1>8. CASE Environment
      BY <1>8, AgentWritesStep, AgentRestartsStep, DriftStep, GraceEndsStep, SystemdRestartsStep
         DEF Environment
<1>9. CASE Interruptions
      BY <1>9, HelperDiesStep, StateLostStep, WorkerInstallsStep, WorkerSucceedsStep,
         WorkerTimesOutStep DEF Interruptions
<1>10. CASE UNCHANGED vars
       BY <1>10 DEF vars, ImageInv, Sound, Between
<1> QED BY <1>1, <1>2, <1>3, <1>4, <1>5, <1>6, <1>7, <1>8, <1>9, <1>10
        DEF Next, HelperStep, Commanded

(* Files, records and steps of the Helper keep their types, and the image    *)
(* agrees with the record outside the steps that replace both, for any       *)
(* number of commands, drifts, failures and deaths.                          *)
THEOREM OwnedCoreIsSound == Spec => []HelperInv
<1>1. Init => HelperInv
      BY HelperInit
<1>2. HelperInv /\ [Next]_vars => HelperInv'
      BY HelperStepKeeps
<1> QED BY <1>1, <1>2, PTL DEF Spec

(* The Helper repairs the Core only from an image with the hash of the       *)
(* ownership record (reconcileOwnedCore, external_ownership.go:315-319).     *)
THEOREM ImageGuards == Spec => []ImageGuardsTheCore
<1>1. HelperInv => ImageGuardsTheCore
      BY DEF ImageGuardsTheCore, ImageInv, Sound, Between
<1> QED BY <1>1, OwnedCoreIsSound, PTL



=============================================================================

----------------------------- MODULE CoreHandoff -----------------------------
(***************************************************************************)
(* The handoff between the Core embedded in the official Agent and the     *)
(* External Core that the Helper owns, composed with the controller's side *)
(* (CoreMode).  The Helper reports, gets a core.mode.apply command and      *)
(* executes it step by step; every step may fail, the administrator session *)
(* may end, and the Helper may die between any two of them.                 *)
(*                                                                         *)
(*   cmd/mmwxc-helper/takeover.go, external_ownership.go,                   *)
(*   external_config.go, state_recovery.go                                  *)
(*                                                                         *)
(* Abstractions: the embedded Core runs exactly when the Agent runs in      *)
(* embedded mode; "xray" is xray.service; the duplicate Custom service, the *)
(* Core binary and the contents of its configuration are left out; a health *)
(* check is one step that sees the current state or times out.              *)
(***************************************************************************)
EXTENDS CoreMode

VARIABLES
    agent,     \* the Agent: the mode of its file and the mode it runs in
    xray,      \* xray.service is active
    dropIn,    \* the ownership drop-in is in place
    own,       \* state.ExternalOwnership in the memory of the Helper
    ownSaved,  \* ExternalOwnership in the Helper's state.json
    job,       \* the core.mode.apply command under way
    result,    \* state.PendingResult
    mishap,    \* history: a service call or the Helper itself failed in this job
    torn,      \* history: a handoff went on or ended with files that do not fit together
    died       \* history: the Helper died inside a handoff

machineVars == <<agent, xray, dropIn>>
helperVars == <<own, ownSaved, job, result, mishap, torn, died>>
vars == <<controllerVars, requests, faults, machineVars, helperVars>>

\* With its rollback snapshot: was there a drop-in before, and which mode had the Agent's
\* file?
NoOwnership == [enabled |-> FALSE, backup |-> Nothing, cfg |-> Nothing]
NoJob == [mode |-> Nothing, at |-> "idle", recorded |-> Nothing, prev |-> NoOwnership, prevCfg |-> Nothing]

At(step) == job.at = step
Goto(step) == job' = [job EXCEPT !.at = step]

EmbeddedRuns == agent.run = "embedded"
Serving == EmbeddedRuns \/ xray
TwoCores == EmbeddedRuns /\ xray

\* externalOwnershipStatus: what the report says of the owned Core.
Owned == own.enabled /\ dropIn /\ xray /\ ~EmbeddedRuns

LocalHealthy(mode) ==
    IF mode = "embedded" THEN agent.cfg = "embedded" /\ ~own.enabled
                         ELSE agent.cfg = "external" /\ Owned

\* waitExternalTakeoverHealthy, waitEmbeddedTakeoverHealthy
ExternalHealthy == formal = "external" /\ agent.run = "external" /\ xray /\ dropIn
EmbeddedHealthy == formal = "embedded" /\ EmbeddedRuns /\ ~xray

Init ==
    /\ formal \in Mode
    /\ session \in BOOLEAN
    /\ intent = Settled(formal)
    /\ queued = Nothing
    /\ saved = [intent |-> intent, queued |-> Nothing]
    /\ requests = 0 /\ faults = 0
    /\ agent = [cfg |-> formal, run |-> formal]
    /\ xray = (formal = "external")
    /\ dropIn = FALSE
    /\ own = NoOwnership /\ ownSaved = NoOwnership
    /\ job = NoJob /\ result = Nothing /\ mishap = FALSE /\ torn = FALSE /\ died = FALSE

-----------------------------------------------------------------------------
(* Reports *)

\* One report of runOnce and its answer.  A lost answer leaves the result
\* pending and the command in the queue.
Report ==
    /\ At("idle")
    /\ Reconcile({mode \in Mode : LocalHealthy(mode)}, agent.run # "down", result, IF result = Nothing THEN queued ELSE Nothing)
    /\ \/ /\ Save /\ NoFault
          /\ result' = Nothing
          /\ IF queued' = Nothing THEN UNCHANGED <<job, mishap>>
             ELSE /\ job' = [NoJob EXCEPT !.mode = queued', !.recorded = formal,
                               !.at = IF queued' = "external" THEN "reassert" ELSE "request"]
                  /\ mishap' = ~Serving
       \/ Save /\ Fault /\ UNCHANGED <<result, job, mishap>>
       \/ SaveFails /\ UNCHANGED <<result, job, mishap>>
    /\ UNCHANGED <<formal, session, requests, machineVars, own, ownSaved>>

\* The end of execute and the save after it.
Finish(outcome) ==
    /\ result' = outcome
    /\ job' = NoJob
    /\ ownSaved' = own

HelperOnly == UNCHANGED <<controllerVars, requests>>
NoMachine == UNCHANGED machineVars

-----------------------------------------------------------------------------
(* Embedded -> External (ensureExternalDesiredState) *)

\* The session is tried by setting the mode that was read just before.
Reassert ==
    /\ At("reassert")
    /\ \/ ModeSet(job.recorded) /\ Goto("check") /\ UNCHANGED <<result, ownSaved>>
       \/ ModeRefused(job.recorded) /\ Finish("failed")
    /\ UNCHANGED <<machineVars, own, mishap>>

AlreadyExternal == job.recorded = "external" /\ agent.cfg = "external" /\ Owned /\ agent.run = "external"

CheckDone ==
    /\ At("check") /\ AlreadyExternal
    /\ Goto("confirmConfig")
    /\ UNCHANGED <<controllerVars, requests, faults, machineVars, own, ownSaved, result, mishap>>

\* reconcileExternalOwnership: a changed drop-in is restored, and xray.service restarted
\* with it.
Incomplete == own.enabled /\ ~dropIn
Completed == dropIn' = TRUE /\ xray' = TRUE
CompletionFails == Fault /\ dropIn' \in BOOLEAN /\ xray' \in {xray, dropIn'} /\ mishap' = TRUE

\* An ownership that exists is completed before it is found in order or armed anew.
CheckOwnership ==
    /\ At("check") /\ Incomplete
    /\ \/ Completed /\ NoFault /\ UNCHANGED <<job, ownSaved, result, mishap>>
       \/ CompletionFails /\ Finish("failed")
    /\ UNCHANGED <<agent, own>> /\ HelperOnly

\* Ownership has to be taken, or an existing one armed anew.
Arming == At("check") /\ ~AlreadyExternal /\ ~Incomplete

\* Agent not connected, Core or configuration not valid, no space, ...
CheckFails ==
    /\ At("check") /\ ~AlreadyExternal
    /\ (agent.run = "down" /\ NoFault) \/ Fault
    /\ Finish("failed")
    /\ UNCHANGED <<own, mishap>> /\ HelperOnly /\ NoMachine

Snapshot ==
    IF own.backup # Nothing THEN own
    ELSE [own EXCEPT !.backup = IF dropIn THEN "dropin" ELSE "clean", !.cfg = agent.cfg]

\* prepareExternalOwnership and armExternalOwnership, or the new arming of an
\* ownership that exists: the drop-in is placed, xray.service is stopped.
Arm ==
    /\ Arming /\ agent.run # "down"
    /\ dropIn' = TRUE /\ xray' = FALSE
    /\ own' = [Snapshot EXCEPT !.enabled = TRUE]
    /\ Goto("setExternal")
    /\ UNCHANGED <<agent, ownSaved, result, mishap, faults>> /\ HelperOnly

\* A service call fails half way.
ArmFails ==
    /\ Arming /\ agent.run # "down"
    /\ Fault
    /\ dropIn' \in {dropIn, TRUE} /\ xray' \in {xray, FALSE}
    /\ own' = Snapshot
    /\ mishap' = TRUE
    /\ Goto("request")
    /\ UNCHANGED <<agent, ownSaved, result>> /\ HelperOnly

SetExternal ==
    /\ At("setExternal")
    /\ \/ ModeSet("external") /\ Goto("writeExternal")
       \/ ModeRefused("external") /\ Goto("request")
    /\ UNCHANGED <<machineVars, own, ownSaved, result, mishap>>

\* replaceAgentXrayMode changes the one line of the Agent's file; the Agent reads it
\* when it starts.
AgentIn(mode) == [agent EXCEPT !.cfg = mode]

WriteExternal ==
    /\ At("writeExternal")
    /\ \/ agent' = AgentIn("external") /\ NoFault /\ Goto("restartExternal")
       \/ Fault /\ UNCHANGED agent /\ Goto("request")
    /\ UNCHANGED <<xray, dropIn, own, ownSaved, result, mishap>> /\ HelperOnly

\* The write fails after the file was replaced (syncParentDirectory).
WriteExternalTears ==
    /\ At("writeExternal") /\ Fault
    /\ agent' = AgentIn("external")
    /\ Goto("request")
    /\ UNCHANGED <<xray, dropIn, own, ownSaved, result, mishap>> /\ HelperOnly

\* systemctl restart mmw-agent.service
Restarted == agent' = [agent EXCEPT !.run = agent.cfg]
RestartFails == Fault /\ agent' = [agent EXCEPT !.run = "down"] /\ mishap' = TRUE

RestartExternal ==
    /\ At("restartExternal")
    /\ \/ Restarted /\ NoFault /\ Goto("bootstrap") /\ UNCHANGED mishap
       \/ RestartFails /\ Goto("request")
    /\ UNCHANGED <<xray, dropIn, own, ownSaved, result>> /\ HelperOnly

\* bootstrapExternalOwnershipService
Started == xray' = TRUE
StartFails == Fault /\ UNCHANGED xray /\ mishap' = TRUE

Bootstrap ==
    /\ At("bootstrap")
    /\ \/ Started /\ NoFault /\ Goto("waitExternal") /\ UNCHANGED mishap
       \/ StartFails /\ Goto("request")
    /\ UNCHANGED <<agent, dropIn, own, ownSaved, result>> /\ HelperOnly

WaitExternal ==
    /\ At("waitExternal")
    /\ \/ ExternalHealthy /\ NoFault /\ Goto("controlConfig")
       \/ (Fault \/ (~ExternalHealthy /\ NoFault)) /\ Goto("request")
    /\ UNCHANGED <<own, ownSaved, result, mishap>> /\ HelperOnly /\ NoMachine

\* ensureExternalControlConfig: the state is saved before the official request;
\* after a handoff the health is checked again, and its failure rolled back.  A
\* Core that was External before keeps running.
ControlConfig ==
    /\ At("controlConfig") \/ At("confirmConfig")
    /\ \/ ExternalHealthy /\ NoFault /\ Finish("ok")
       \/ /\ Fault \/ (~ExternalHealthy /\ NoFault)
          /\ IF At("confirmConfig") THEN Finish("failed")
             ELSE Goto("request") /\ ownSaved' \in {ownSaved, own} /\ UNCHANGED result
    /\ UNCHANGED <<own, mishap>> /\ HelperOnly /\ NoMachine

-----------------------------------------------------------------------------
(* External -> Embedded (ensureEmbeddedDesiredState, restoreEmbeddedTakeover) *)

IsRollback == job.mode = "external"

\* The runtime is embedded already: only its health is checked.
AlreadyEmbedded ==
    ~IsRollback /\ job.recorded = "embedded" /\ agent.cfg = "embedded" /\ ~own.enabled

CheckEmbedded ==
    /\ At("request") /\ AlreadyEmbedded
    /\ \/ EmbeddedHealthy /\ NoFault /\ Finish("ok")
       \/ (Fault \/ (~EmbeddedHealthy /\ NoFault)) /\ Finish("failed")
    /\ UNCHANGED <<own, mishap>> /\ HelperOnly /\ NoMachine

\* Mutant: a refused rollback only reports the refusal.
NotResumed == UNCHANGED <<xray, mishap>>

\* Nothing is touched before the controller agrees to the embedded mode.  A
\* handoff that was refused its rollback resumes the External service.
Resumed == IF IsRollback /\ agent.cfg = "external" /\ own.enabled
           THEN (Started /\ UNCHANGED mishap) \/ (mishap' = TRUE /\ UNCHANGED xray)
           ELSE UNCHANGED <<xray, mishap>>

RequestEmbedded ==
    /\ At("request") /\ ~AlreadyEmbedded
    /\ \/ ModeSet("embedded")
          /\ job' = [job EXCEPT !.at = "files", !.prev = own, !.prevCfg = agent.cfg]
          /\ UNCHANGED <<machineVars, ownSaved, result, mishap>>
       \/ ModeRefused("embedded") /\ Finish("failed") /\ Resumed /\ UNCHANGED <<agent, dropIn>>
    /\ UNCHANGED own

\* What a failure after this point does: an enabled ownership is resumed, a
\* machine without ownership gets its previous mode back.
CanResume == job.prev.enabled \/ job.prev.backup = Nothing
FailEmbedded ==
    IF CanResume THEN Goto("resume") /\ UNCHANGED <<result, ownSaved>>
                 ELSE Finish("failed")

HasSnapshot == own.backup # Nothing

\* rollbackExternalOwnership stops xray.service and puts the files back, among them the
\* mode of the Agent; the ownership is forgotten.
RestoreFiles ==
    /\ At("files")
    /\ IF HasSnapshot
       THEN xray' = FALSE /\ dropIn' = (own.backup = "dropin") /\ agent' = AgentIn(own.cfg)
       ELSE NoMachine
    /\ own' = NoOwnership
    /\ Goto("writeEmbedded")
    /\ UNCHANGED <<ownSaved, result, mishap, faults>> /\ HelperOnly

\* It fails at one of its steps.
RestoreFilesFail ==
    /\ At("files") /\ HasSnapshot /\ Fault
    /\ xray' \in {xray, FALSE}
    /\ dropIn' \in {dropIn, own.backup = "dropin"}
    /\ agent' \in {agent, AgentIn(own.cfg)}
    /\ mishap' = TRUE
    /\ FailEmbedded
    /\ UNCHANGED own /\ HelperOnly

\* Mutant: xray.service is not stopped before the Agent is restarted.
WriteEmbeddedRunning ==
    /\ At("writeEmbedded")
    /\ agent' = AgentIn("embedded")
    /\ Goto("restartEmbedded")
    /\ UNCHANGED <<xray, dropIn, own, ownSaved, result, mishap, faults>> /\ HelperOnly

\* The mode of the Agent's file becomes embedded, then the External services are stopped.
WriteEmbedded ==
    /\ At("writeEmbedded")
    /\ agent' = AgentIn("embedded")
    /\ xray' = FALSE
    /\ Goto("restartEmbedded")
    /\ UNCHANGED <<dropIn, own, ownSaved, result, mishap, faults>> /\ HelperOnly

\* The write, or the stop of a service that is still active, fails.
WriteEmbeddedFails ==
    /\ At("writeEmbedded") /\ Fault
    /\ agent' \in {agent, AgentIn("embedded")}
    /\ mishap' = TRUE
    /\ FailEmbedded
    /\ UNCHANGED <<xray, dropIn, own>> /\ HelperOnly

RestartEmbedded ==
    /\ At("restartEmbedded")
    /\ \/ Restarted /\ NoFault /\ Goto("waitEmbedded") /\ UNCHANGED <<mishap, result, own, ownSaved>>
       \/ RestartFails /\ UNCHANGED own /\ FailEmbedded
    /\ UNCHANGED <<xray, dropIn>> /\ HelperOnly

WaitEmbedded ==
    /\ At("waitEmbedded")
    /\ UNCHANGED own
    /\ \/ EmbeddedHealthy /\ NoFault /\ Finish(IF IsRollback THEN "failed" ELSE "ok")
       \/ (Fault \/ (~EmbeddedHealthy /\ NoFault)) /\ FailEmbedded
    /\ UNCHANGED mishap /\ HelperOnly /\ NoMachine

\* The working External runtime is the fallback; an answer of the controller
\* is not needed for it.
ResumedMode == IF job.prev.enabled THEN "external" ELSE job.prevCfg

Resume ==
    /\ At("resume")
    /\ ModeSet(ResumedMode) \/ ModeRefused(ResumedMode)
    /\ own' = job.prev
    /\ dropIn' = (dropIn \/ job.prev.enabled)
    /\ Goto("resumeMode")
    /\ UNCHANGED <<agent, xray, ownSaved, result, mishap>>

ResumeMode ==
    /\ At("resumeMode")
    /\ agent' = AgentIn(ResumedMode)
    /\ Goto("resumeServices")
    /\ UNCHANGED <<xray, dropIn, own, ownSaved, result, mishap, faults>> /\ HelperOnly

\* An ownership that cannot be restored is kept all the same; a handoff still starts its
\* service (rollbackTakeover).
GiveUp ==
    /\ own' = job.prev /\ ownSaved' = job.prev
    /\ result' = "failed" /\ job' = NoJob
    /\ mishap' = TRUE
    /\ xray' \in IF IsRollback /\ agent'.cfg = "external" THEN {xray, TRUE} ELSE {xray}

\* Its files, or the reload of their units, fail.
ResumeFails ==
    /\ At("resume") /\ job.prev.enabled /\ Fault
    /\ dropIn' \in {dropIn, TRUE}
    /\ UNCHANGED agent
    /\ GiveUp /\ HelperOnly

\* The mode of the Agent's file cannot be written, or its write fails after that.  A machine
\* without ownership goes on.
ResumeModeFails ==
    /\ At("resumeMode") /\ Fault
    /\ agent' \in {agent, AgentIn(ResumedMode)}
    /\ IF job.prev.enabled THEN GiveUp
       ELSE Goto("resumeServices") /\ mishap' = TRUE /\ UNCHANGED <<xray, own, ownSaved, result>>
    /\ UNCHANGED dropIn /\ HelperOnly

\* The External Core is started even if the Agent cannot be restarted.
ResumeServices ==
    /\ At("resumeServices")
    /\ LET start == IF ResumedMode = "external" THEN Started ELSE UNCHANGED xray
       IN  \/ Restarted /\ start /\ NoFault /\ UNCHANGED mishap
           \/ RestartFails /\ start
           \/ Restarted /\ StartFails
    /\ UNCHANGED own /\ Finish("failed")
    /\ UNCHANGED dropIn /\ HelperOnly

-----------------------------------------------------------------------------
(* Between the commands *)

\* reconcileExternalOwnership at the start of every pass.
ReconcileOwnership ==
    /\ At("idle") /\ Incomplete
    /\ (Completed /\ NoFault /\ UNCHANGED mishap) \/ CompletionFails
    /\ UNCHANGED <<agent, own, ownSaved, job, result>> /\ HelperOnly

\* An upgrade of the Agent restores the embedded Core.
AgentUpgraded ==
    /\ At("idle") /\ agent.run = "external"
    /\ Fault
    /\ agent' = [cfg |-> "embedded", run |-> "embedded"]
    /\ xray' = FALSE
    /\ UNCHANGED <<dropIn, own, ownSaved, job, result, mishap>> /\ HelperOnly

\* systemd starts the Agent again.
AgentRecovers ==
    /\ agent.run = "down"
    /\ Restarted
    /\ UNCHANGED <<xray, dropIn, own, ownSaved, job, result, mishap, faults>> /\ HelperOnly

\* The Helper dies: what it had not saved is gone, and so is the command.
HelperRestarts ==
    /\ Fault
    /\ own' = ownSaved
    /\ job' = NoJob
    /\ mishap' = (mishap \/ ~At("idle"))
    /\ died' = (died \/ ~At("idle"))
    /\ UNCHANGED <<ownSaved, result, torn>> /\ HelperOnly /\ NoMachine

External ==
    \/ Reassert \/ CheckDone \/ CheckOwnership \/ CheckFails \/ Arm \/ ArmFails \/ SetExternal
    \/ WriteExternal \/ RestartExternal \/ Bootstrap \/ WaitExternal \/ ControlConfig

Embedded ==
    \/ CheckEmbedded \/ RequestEmbedded \/ RestoreFiles \/ WriteEmbedded
    \/ (RestoreFilesFail \/ WriteEmbeddedFails) /\ CanResume
    \/ RestartEmbedded \/ WaitEmbedded \/ Resume \/ ResumeMode \/ ResumeServices

Handoff == External \/ Embedded

\* A failed write that nothing makes up for.
Tears ==
    \/ WriteExternalTears \/ ResumeFails \/ ResumeModeFails
    \/ (RestoreFilesFail \/ WriteEmbeddedFails) /\ ~CanResume

HelperLives ==
    /\ \/ (Report \/ Handoff \/ ReconcileOwnership \/ AgentUpgraded \/ AgentRecovers) /\ UNCHANGED torn
       \/ Tears /\ torn' = TRUE
    /\ UNCHANGED died

Next ==
    \/ HelperLives
    \/ HelperRestarts
    \/ ControllerStep /\ UNCHANGED <<machineVars, helperVars>>

Fairness ==
    /\ WF_vars(Report /\ UNCHANGED <<torn, died>>) /\ WF_vars(Handoff /\ UNCHANGED <<torn, died>>)
    /\ WF_vars(AgentRecovers /\ UNCHANGED <<torn, died>>)
    /\ WF_vars(SessionReturns /\ UNCHANGED <<machineVars, helperVars>>)
    /\ WF_vars((GraceEnds \/ BackoffEnds) /\ UNCHANGED <<machineVars, helperVars>>)

Spec == Init /\ [][Next]_vars /\ Fairness

-----------------------------------------------------------------------------
(* Properties *)

\* The Helper never died inside a handoff, and no write failed that nothing made up for.
Whole == ~died /\ ~torn

\* A session that ends during a handoff, a refused or half-committed official
\* write, a lost answer or a failed health check never leaves the machine
\* without a running Core: only a failing service call or write or a dying Helper can.
\* (rollbackTakeover, restoreEmbeddedTakeover)
ServesThroughRefusals == At("idle") /\ ~mishap /\ Whole => Serving

\* systemd starts the Agent again in the middle of a handoff.
AgentReturns == agent.run = "down" /\ job' = job

\* No step of a handoff starts one Core while the other one runs: both would
\* bind the same ports.  The exceptions are an Agent that went down and is started by
\* systemd with the file that was just written, a Helper that died between writing
\* this file and restarting the Agent, and a failed write of it (Whole).
\* (armExternalOwnership, stopExternalServices)
HandoffStartsNoSecondCore == [][Whole' /\ ~At("idle") /\ TwoCores' => TwoCores \/ AgentReturns]_vars

\* A mode the administrator asked for is given up only for the mode that is
\* really in force, never for one nobody asked for; the restart of a
\* controller that could not save the request is the exception.
\* (observeOfficialModeAfterWrite, reconcileCoreMode)
RequestsEndAtTheRealMode ==
    [][intent.pending /\ ~intent'.pending => intent'.desired = formal' \/ intent' = saved.intent]_vars

\* Once sessions return and faults end, the intent, the official record, the
\* Agent and the running Core agree for good, unless the Helper died inside a
\* handoff or left the files of one half written.  (the repair loop of reconcileCoreMode with
\* ensureExternalDesiredState and ensureEmbeddedDesiredState)
Agree ==
    /\ intent.desired = formal /\ ~intent.pending
    /\ LocalHealthy(formal) /\ agent.run = formal /\ ~TwoCores
Converges == []Whole => <>[]Agree
=============================================================================

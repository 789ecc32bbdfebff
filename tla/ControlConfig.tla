--------------------------- MODULE ControlConfig ---------------------------
(***************************************************************************)
(* The repair of the control sections (API, metrics, their route) of the     *)
(* configuration an External Core runs with.  Every round the Helper looks  *)
(* at the file; it asks the controller to complete it through the official  *)
(* API, restarts the Agent, and asks the controller to confirm that the      *)
(* official snapshot has converged.  Calls are lost, administrators edit     *)
(* the same configuration, and both programs stop between any two steps.    *)
(*                                                                         *)
(*   cmd/mmwxc-helper/external_config.go, takeover.go, core_mode_official.go *)
(*                                                                         *)
(* A configuration is its user part (UserConfigHash) and whether its control *)
(* sections are complete (externalconfig.Complete).                         *)
(***************************************************************************)
EXTENDS OwnedCommands

VARIABLES
    master,  \* the official system: its snapshot and a pending recovery
    marker,  \* ExternalConfigRepairs of the controller
    stale    \* the Agent's cached configuration is older than a repair

officialVars == <<master, marker, stale>>
vars == <<files, services, configs, own, saved, job, rest, left, officialVars>>

NoRecovery == Bad
NoMarker == [user |-> None, restart |-> FALSE]

Ours(user) == marker.user \in {None, user}

\* An error of any step: the Helper goes on with its round.
GivesUp == job' = [Idle EXCEPT !.at = "report"]
Lost == Spend("fault") /\ GivesUp
GoesOn(step) == Goto(step) /\ UNCHANGED left

-----------------------------------------------------------------------------
(* repairExternalControlConfig *)

\* Both pending flags are saved before the request.
LooksAtConfig ==
    /\ At("control")
    /\ \/ /\ ~own.enabled \/ ~Valid(config)
          /\ GivesUp /\ UNCHANGED <<own, saved, left>>
       \/ /\ own.enabled /\ Valid(config) /\ config.ctl
          /\ Goto("reload") /\ UNCHANGED <<own, saved, left>>
       \/ /\ own.enabled /\ Valid(config) /\ ~config.ctl
          /\ own' = [own EXCEPT !.reload = TRUE, !.sync = TRUE]
          /\ \/ saved' = own' /\ Goto("prepare") /\ UNCHANGED left
             \/ Lost /\ UNCHANGED saved
    /\ UNCHANGED <<files, services, configs, rest, officialVars>>

\* ensureOfficialExternalConfig, both phases: the live configuration is read
\* and must be the marked one; a restart that was not confirmed is repeated.
ReadsLive(next) ==
    /\ \/ Lost /\ UNCHANGED <<xray, marker>>
       \/ ~Ours(config.user) /\ GivesUp /\ UNCHANGED <<xray, marker, left>>
       \/ /\ Ours(config.user) /\ Valid(config)
          /\ IF config.ctl /\ marker.restart
               THEN xray' = Restarted /\ marker' = [marker EXCEPT !.restart = FALSE]
               ELSE UNCHANGED <<xray, marker>>
          /\ job' = [job EXCEPT !.at = next, !.seen = config]
          /\ UNCHANGED left
       \/ ~Valid(config) /\ GivesUp /\ UNCHANGED <<xray, marker, left>>
    /\ UNCHANGED <<files, custom, configs, own, saved, rest, master, stale>>

Prepares == At("prepare") /\ ReadsLive("mark")

\* The last read before the write, and the marker that survives both programs.
Marks ==
    /\ At("mark")
    /\ \/ job.seen.ctl /\ job' = [Idle EXCEPT !.at = "reload"] /\ UNCHANGED <<marker, left>>
       \/ /\ ~job.seen.ctl
          /\ \/ master.pending # NoRecovery /\ master.cur.user # job.seen.user
             \/ config # job.seen
          /\ GivesUp /\ UNCHANGED <<marker, left>>
       \/ /\ ~job.seen.ctl /\ config = job.seen
          /\ master.pending = NoRecovery \/ master.cur.user = job.seen.user
          /\ marker' = [user |-> job.seen.user, restart |-> TRUE]
          /\ Goto("post") /\ UNCHANGED left
       \/ Lost /\ UNCHANGED marker
    /\ UNCHANGED <<files, services, configs, own, saved, rest, master, stale>>

\* The official config API writes the file; its snapshot follows, or waits
\* for the report of the Agent.  The response may be lost either way.
Posts ==
    /\ At("post")
    /\ \/ /\ config' = [user |-> job.seen.user, ctl |-> TRUE]
          /\ stale' = TRUE
          /\ master' \in {master, [cur |-> config', pending |-> NoRecovery]}
          /\ (GoesOn("activate") \/ Lost)
       \/ Lost /\ UNCHANGED <<config, stale, master>>
    /\ UNCHANGED <<files, services, backup, own, saved, rest, marker>>

Activates ==
    /\ At("activate")
    /\ \/ config # [user |-> job.seen.user, ctl |-> TRUE] /\ GivesUp /\ UNCHANGED <<xray, marker, left>>
       \/ /\ config = [user |-> job.seen.user, ctl |-> TRUE]
          /\ xray' = Restarted
          /\ \/ marker' = [marker EXCEPT !.restart = FALSE] /\ job' = [Idle EXCEPT !.at = "reload"] /\ UNCHANGED left
             \/ UNCHANGED marker /\ Lost
       \/ Lost /\ UNCHANGED <<xray, marker>>
    /\ UNCHANGED <<files, custom, configs, own, saved, rest, master, stale>>

\* Mutant: the flag is cleared whether the Agent was restarted or not.
ReloadsOrForgets ==
    /\ At("reload")
    /\ \/ ~own.reload /\ UNCHANGED <<own, saved, stale>>
       \/ own.reload /\ stale' \in {stale, FALSE} /\ own' = [own EXCEPT !.reload = FALSE] /\ saved' = own'
    /\ Goto("confirm")
    /\ UNCHANGED <<files, services, configs, rest, left, master, marker>>

\* The Agent is restarted before the flag is cleared.
ReloadsAgent ==
    /\ At("reload")
    /\ \/ ~own.reload /\ Goto("confirm") /\ UNCHANGED <<own, saved, stale, left>>
       \/ /\ own.reload /\ stale' = FALSE
          /\ own' = [own EXCEPT !.reload = FALSE]
          /\ \/ saved' = own' /\ Goto("confirm") /\ UNCHANGED left
             \/ Lost /\ UNCHANGED saved
       \/ own.reload /\ Lost /\ UNCHANGED <<own, saved, stale>>
    /\ UNCHANGED <<files, services, configs, rest, master, marker>>

Confirms ==
    /\ At("confirm")
    /\ IF own.sync THEN ReadsLive("recovery")
       ELSE GivesUp /\ UNCHANGED <<files, services, configs, own, saved, rest, left, officialVars>>

\* Only a report of exactly the repaired configuration is accepted.
Acceptable ==
    /\ master.cur.user = job.seen.user
    /\ marker.user # None /\ master.pending = job.seen

ChecksRecovery ==
    /\ At("recovery")
    /\ \/ ~job.seen.ctl /\ GivesUp
       \/ job.seen.ctl /\ master.pending = NoRecovery /\ Goto("converged")
       \/ job.seen.ctl /\ master.pending # NoRecovery /\ Acceptable /\ Goto("accept")
       \/ job.seen.ctl /\ master.pending # NoRecovery /\ ~Acceptable /\ GivesUp
    /\ UNCHANGED <<files, services, configs, own, saved, rest, left, master, marker, stale>>

\* The official call names no configuration: it accepts what is pending now.
Accepts ==
    /\ At("accept")
    /\ \/ /\ master' = IF master.pending = NoRecovery THEN master
                       ELSE [cur |-> master.pending, pending |-> NoRecovery]
          /\ (GoesOn("converged") \/ Lost)
       \/ Lost /\ UNCHANGED master
    /\ UNCHANGED <<files, services, configs, own, saved, rest, marker, stale>>

Converges ==
    /\ At("converged")
    /\ \/ /\ master.pending # NoRecovery \/ master.cur # job.seen
          /\ GivesUp /\ UNCHANGED <<own, saved, marker, left>>
       \/ /\ master.pending = NoRecovery /\ master.cur = job.seen
          /\ marker' = NoMarker
          /\ \/ own' = [own EXCEPT !.sync = FALSE] /\ saved' = own' /\ GivesUp /\ UNCHANGED left
             \/ UNCHANGED <<own, saved>> /\ Lost
    /\ UNCHANGED <<files, services, configs, rest, master, stale>>

Control ==
    \/ LooksAtConfig \/ Prepares \/ Marks \/ Posts \/ Activates \/ ReloadsAgent \/ Confirms
    \/ ChecksRecovery \/ Accepts \/ Converges

-----------------------------------------------------------------------------
(* The official system and the Agent *)

\* The Agent reports its configuration: another than the snapshot is pending.
AgentReports ==
    /\ Valid(config)
    /\ master' = [master EXCEPT !.pending = IF config = master.cur THEN NoRecovery ELSE config]
    /\ UNCHANGED <<files, services, configs, own, saved, job, rest, left, marker, stale>>

\* An edit in the official interface: file, snapshot and Core at once.
AdminEdits ==
    /\ Spend("edit") /\ Valid(config)
    /\ \E u \in User \ {config.user} : config' = [config EXCEPT !.user = u]
    /\ master' = [cur |-> config', pending |-> NoRecovery]
    /\ xray' = IF RuntimeOwned THEN [xray EXCEPT !.serves = config'] ELSE xray
    /\ UNCHANGED <<files, custom, backup, own, saved, job, rest, marker, stale>>

HelperStep == ((Reconcile \/ Commanded) /\ UNCHANGED officialVars) \/ Control

Next ==
    \/ HelperStep \/ AgentReports \/ AdminEdits
    \/ ((Environment \/ Interruptions) /\ UNCHANGED officialVars)

Served == [user |-> CHOOSE u \in User : TRUE, ctl |-> TRUE]

Init ==
    /\ left \in Budgets
    /\ \E start \in Starts, c \in {Served, [Served EXCEPT !.ctl = FALSE]} :
         LET owned == start = "owned"
             snapshot == [taken |-> TRUE, dropIn |-> FALSE, custom |-> TRUE, official |-> FALSE]
         IN /\ config = c /\ backup = IF owned THEN c ELSE Bad
            /\ core = "v1" /\ image = IF owned THEN "v1" ELSE None
            /\ unit = [file |-> owned, loaded |-> owned]
            /\ link = IF owned THEN "owned" ELSE "absent"
            /\ xray = IF owned THEN Restarted ELSE Stopped
            /\ custom = ~owned
            /\ newest = IF owned THEN snapshot ELSE NoSnapshot
            /\ own = IF owned THEN [NoOwnership EXCEPT !.prepared = TRUE, !.enabled = TRUE,
                           !.snapshot = snapshot, !.expected = "v1", !.lastGood = c, !.link = TRUE]
                     ELSE NoOwnership
            /\ master = [cur |-> c, pending |-> NoRecovery]
    /\ saved = own /\ job = Idle /\ rolls = <<>>
    /\ helper = [file |-> "h1", run |-> "h1", beat |-> "h1"] /\ worker = "idle"
    /\ marker = NoMarker /\ stale = FALSE /\ torn = FALSE

Fairness ==
    /\ WF_vars(HelperStep) /\ WF_vars(AgentReports)
    /\ WF_vars((SystemdRestarts \/ GraceEnds) /\ UNCHANGED officialVars)
    /\ WF_vars((WorkerInstalls \/ WorkerSucceeds) /\ UNCHANGED officialVars)

Spec == Init /\ [][Next]_vars
FairSpec == Spec /\ Fairness

-----------------------------------------------------------------------------
(* The Helper repairs the Core from the protected image only while it has    *)
(* the hash of the ownership record; with another one every later round      *)
(* fails (external_ownership.go:315-319).  It has, unless the Helper stopped *)
(* inside an update or a handoff.                                           *)
ImageGuardsTheCore == job.at = "idle" /\ own.enabled /\ ~torn => image = own.expected

(* Whatever drifts, fails or is interrupted, an owned machine ends up with    *)
(* the recorded Core, the unit, no duplicate service, no foreign process and  *)
(* a configuration that is valid or was replaced before.                     *)
OwnedCoreReturns ==
    <>[](own.enabled /\ ~torn =>
            /\ core = own.expected /\ unit.file /\ link # "absent" /\ ~custom
            /\ xray.up \in {"owned", "down"}
            /\ Valid(config) \/ own.rejected = config \/ ~Valid(backup))

(* A lost save, restart or confirmation is retried: in the end the control    *)
(* sections are there, the Agent has reloaded them and the marker is gone,    *)
(* unless the user part was changed under the marker or the recovery of       *)
(* somebody else waits for an administrator.                                *)
RepairIsActivated ==
    <>[](/\ own.enabled /\ ~torn /\ Valid(config)
         /\ Ours(config.user) /\ master.cur.user = config.user
         /\ master.pending # NoRecovery => marker # NoMarker
         => config.ctl /\ ~stale /\ ~own.sync /\ marker = NoMarker)
=============================================================================

------------------------------ MODULE CoreMode ------------------------------
(***************************************************************************)
(* The Core mode of one managed server, as the controller keeps it: the    *)
(* mode recorded in the official database, the intent of the administrator *)
(* and the repair command queued for the Helper.                            *)
(*                                                                         *)
(*   core_mode.go, core_mode_official.go, takeover.go                       *)
(*                                                                         *)
(* The operators that handle a report or a takeover request take what the  *)
(* Helper sent as parameters; CoreHandoff composes them with the Helper.    *)
(* Times are abstracted to "not yet" and "over"; the texts, the count of    *)
(* attempts and the flags that are only shown are left out.                 *)
(***************************************************************************)
EXTENDS Integers

CONSTANTS
    MaxRequests,  \* bound: mode changes asked by administrators
    MaxFaults     \* bound: failed or lost calls, failed saves, crashes, drift

ASSUME CoreModeBounds == MaxRequests \in Nat /\ MaxFaults \in Nat

Nothing == "none"
Mode == {"embedded", "external"}

VARIABLES
    formal,    \* xray_mode in the official database
    session,   \* an active official administrator session exists
    intent,    \* data.CoreModeIntents[server]
    queued,    \* the mode of the unexpired core.mode.apply command, or Nothing
    saved,     \* what helper-state.json holds of intent and queued
    requests,  \* bound counter
    faults     \* bound counter

controllerVars == <<formal, session, intent, queued, saved>>

Fault == faults < MaxFaults /\ faults' = faults + 1
NoFault == UNCHANGED faults

Settled(mode) ==
    [desired |-> mode, pending |-> FALSE, seen |-> mode, backoff |-> FALSE,
     drift |-> "no", waiting |-> FALSE]

\* saveLocked writes the whole state.
Save == saved' = [intent |-> intent', queued |-> queued']

\* A failed save may have replaced the file all the same.
SaveFails == Fault /\ (UNCHANGED saved \/ Save)

-----------------------------------------------------------------------------
(* Administrators *)

\* setCoreModeIntent: the new intent keeps only the mode observed last; the
\* command queued for an earlier intent stays in the queue.
Requested(mode) == [Settled(mode) EXCEPT !.pending = TRUE, !.seen = intent.seen]

Request(mode) ==
    /\ requests < MaxRequests
    /\ requests' = requests + 1
    /\ intent' = Requested(mode)
    /\ session' = TRUE  \* the request brings its session along
    /\ UNCHANGED <<formal, queued>>
    /\ (Save /\ NoFault) \/ SaveFails

\* An administrator changes the mode in the official interface.
OfficialChange(mode) ==
    /\ requests < MaxRequests
    /\ mode # formal
    /\ requests' = requests + 1
    /\ formal' = mode
    /\ UNCHANGED <<session, intent, queued, saved, faults>>

SessionEnds == Fault /\ session /\ session' = FALSE /\ UNCHANGED <<formal, intent, queued, saved, requests>>

SessionReturns ==
    ~session /\ session' = TRUE /\ UNCHANGED <<formal, intent, queued, saved, requests, faults>>

-----------------------------------------------------------------------------
(* A takeover request of the Helper (helperTakeoverHandler) *)

\* Mutant: the request ends, but its mode stays the desired one.
ObservedEnds(mode) == [intent EXCEPT !.pending = FALSE, !.seen = mode]

\* observeOfficialModeAfterWrite: a rejected change or a rollback ends the
\* request that is pending for the other mode.
Observed(mode) ==
    IF intent.pending /\ intent.desired # mode
    THEN [intent EXCEPT !.desired = mode, !.pending = FALSE, !.seen = mode, !.backoff = FALSE]
    ELSE [intent EXCEPT !.seen = mode]

ObserveAndSave(mode) ==
    /\ formal' = mode
    /\ intent' = Observed(mode)
    /\ UNCHANGED <<session, queued, requests>>

\* setOfficialCoreMode: the mode is in force and the Helper knows it.
ModeSet(mode) ==
    /\ session
    /\ IF formal = mode
       THEN UNCHANGED <<controllerVars, requests, faults>>
       ELSE ObserveAndSave(mode) /\ Save /\ NoFault

\* The Helper gets an error: no session; a write the official system rejected
\* or committed only in part, whose outcome was read back, or could not be;
\* a failed save after the write; or an answer that is lost.
ModeRefused(mode) ==
    \/ ~session /\ UNCHANGED <<controllerVars, requests, faults>>
    \/ /\ session /\ formal # mode
       /\ Fault
       /\ \/ ObserveAndSave(formal) /\ Save
          \/ ObserveAndSave(mode) /\ (Save \/ UNCHANGED saved)
          \/ formal' \in Mode /\ UNCHANGED <<session, intent, queued, saved, requests>>
    \/ session /\ formal = mode /\ Fault /\ UNCHANGED <<controllerVars, requests>>

-----------------------------------------------------------------------------
(* A report of the Helper (reconcileCoreMode) *)

\* formalChanged: the recorded mode is another one than observed last, or than
\* the one a settled intent wants.
FormalChanged == intent.seen # formal \/ (~intent.pending /\ intent.desired # formal)

\* Without a pending change the recorded mode is adopted.
Adopted ==
    IF ~intent.pending /\ intent.desired # formal
    THEN [intent EXCEPT !.desired = formal, !.seen = formal, !.backoff = FALSE]
    ELSE [intent EXCEPT !.seen = formal]

\* Every result of a core.mode.apply delays the next one.
AfterResult(i, result) == IF result = Nothing THEN i ELSE [i EXCEPT !.backoff = TRUE]

\* Mutant: the request stays pending when its mode is healthy.
HealthyPending(i) == [i EXCEPT !.backoff = FALSE, !.drift = "no", !.waiting = FALSE]

HealthyNow(i) == [i EXCEPT !.pending = FALSE, !.backoff = FALSE, !.drift = "no", !.waiting = FALSE]

\* The Core is right and only the official runtime is not: no lifecycle work.
WaitingForOfficial(i) ==
    IF i.pending \/ FormalChanged \/ i.waiting \/ i.drift = "over"
    THEN [i EXCEPT !.waiting = TRUE, !.drift = "no"]
    ELSE [i EXCEPT !.drift = IF @ = "no" THEN "since" ELSE @]

InGrace(i) == ~i.pending /\ ~FormalChanged /\ i.drift # "over"

\* One report: healthy has the modes the Helper reports as healthy,
\* connected what the official system says of the Agent; result is the outcome
\* of the last core.mode.apply; "left" is the queue without the command that
\* the result answers.  The command handed out is the one in queued'.
Reconcile(healthy, connected, result, left) ==
    LET i == AfterResult(Adopted, result)
        right == formal = i.desired /\ i.desired \in healthy
    IN  IF right /\ connected
        THEN intent' = HealthyNow(i) /\ queued' = left
        ELSE IF left # Nothing
        THEN intent' = [i EXCEPT !.waiting = FALSE] /\ queued' = left
        ELSE IF right
        THEN intent' = WaitingForOfficial(i) /\ queued' = left
        ELSE IF InGrace(i)
        THEN /\ intent' = [i EXCEPT !.drift = IF @ = "no" THEN "since" ELSE @]
             /\ queued' = left
        ELSE /\ intent' = [i EXCEPT !.waiting = FALSE]
             /\ queued' = IF i.backoff THEN left ELSE i.desired

-----------------------------------------------------------------------------
(* Time and the controller process *)

GraceEnds ==
    /\ intent.drift = "since"
    /\ intent' = [intent EXCEPT !.drift = "over"]
    /\ UNCHANGED <<formal, session, queued, saved, requests, faults>>

BackoffEnds ==
    /\ intent.backoff
    /\ intent' = [intent EXCEPT !.backoff = FALSE]
    /\ UNCHANGED <<formal, session, queued, saved, requests, faults>>

\* Ten minutes after it was queued.
CommandExpires ==
    /\ queued # Nothing
    /\ Fault
    /\ queued' = Nothing
    /\ UNCHANGED <<formal, session, intent, saved, requests>>

\* flushVolatileLocked, or a save for any other reason.
StateSaved ==
    /\ saved # [intent |-> intent, queued |-> queued]
    /\ UNCHANGED <<intent, queued>>
    /\ Save
    /\ UNCHANGED <<formal, session, requests, faults>>

ControllerRestarts ==
    /\ Fault
    /\ intent' = saved.intent
    /\ queued' = saved.queued
    /\ UNCHANGED <<formal, session, saved, requests>>

ControllerStep ==
    \/ \E mode \in Mode : Request(mode) \/ OfficialChange(mode)
    \/ SessionEnds \/ SessionReturns
    \/ GraceEnds \/ BackoffEnds \/ CommandExpires
    \/ StateSaved \/ ControllerRestarts
=============================================================================

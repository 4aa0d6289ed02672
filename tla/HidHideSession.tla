--------------------------- MODULE HidHideSession ---------------------------
(***************************************************************************)
(* GuardedHidHideSession around HidHideSessionTransaction: the host hides  *)
(* devices from other processes by changing HidHide's persistent settings  *)
(* for a while.  The settings as they were, and as they will be, are made  *)
(* durable and a watchdog armed to restore them before they are touched.   *)
(*                                                                         *)
(* Any call of the backend may fail, a write may be left half done, the    *)
(* user may edit the settings at any time, and the host may die between    *)
(* two steps; then the restore executor of the watchdog, or of the reset   *)
(* tool, works from the record alone.                                      *)
(***************************************************************************)
EXTENDS Naturals

CONSTANTS
  UserChoice,        \* what of the settings is the user's own
  MaxSession         \* generations of sessions

ASSUME HidHideAssumption == MaxSession \in Nat \ {0}

VARIABLES
  hid,               \* HidHide's persistent settings
  hidden,            \* entries of this host in the process-lifetime blacklist
  owner,             \* the host's process exists
  hidPhase,          \* phase_
  plan,              \* plan_, a set of at most one
  entries,           \* sessionEntriesActive_
  action,            \* rollbackAction_: its generation, 0 without one
  armed,             \* recoveryArmed_
  hidStep,           \* the place in a call, "idle" outside
  record,            \* the durable record, a set of at most one
  watch,             \* generation of the action registered with the watchdog
  restorer,          \* the executor: "idle", "restore", "verify", an outcome
  wanted,            \* ghost: the user's last choice
  owed,              \* ghost: the plan last applied, a set of at most one
  raced              \* ghost: the user edited between a read and a write

hidWorldVars == <<hid, hidden, owner>>
guardVars == <<action, armed>>
hidHostVars == <<hidPhase, plan, entries, guardVars, hidStep>>
recoveryVars == <<record, watch, restorer>>
hidGhostVars == <<wanted, owed, raced>>
hidVars == <<hidWorldVars, hidHostVars, recoveryVars, hidGhostVars>>

(* "part": a write that was left half done.                                *)
Settings == [hydra : {"no", "part", "yes"}, user : UserChoice]

HidPlan == [generation : 1..MaxSession, before : Settings, applied : Settings]

HidPhase == {"Idle", "Prepared", "Active", "RollingBack", "RecoveryRequired"}

HidStep == {"idle", "persist", "apply", "verify", "blacklist", "clear",
            "inspect", "restore", "verifyRestored", "cleanup"}

(* makeHidHideSessionAppliedState: active, with HydraSeat's programs.      *)
Applied(settings) == [settings EXCEPT !.hydra = "yes"]

HidInit ==
  /\ hid \in [hydra : {"no", "yes"}, user : UserChoice]
  /\ hidden = FALSE /\ owner = TRUE
  /\ hidPhase = "Idle" /\ plan = {} /\ entries = FALSE
  /\ action = 0 /\ armed = FALSE /\ hidStep = "idle"
  /\ record = {} /\ watch = 0 /\ restorer = "idle"
  /\ wanted = hid.user /\ owed = {} /\ raced = FALSE

HidCalling(step) == owner /\ hidStep = step

HidGoes(step) == hidStep' = step /\ UNCHANGED hidPhase

HidEnds(phase) == hidStep' = "idle" /\ hidPhase' = phase

(* A failure of activate() enters the verified cleanup.                    *)
HidUndoes == hidStep' = "clear" /\ hidPhase' = "RollingBack"

(* Nothing is left of the plan.                                            *)
HidClean == plan' = {} /\ hidPhase' = "Idle" /\ hidStep' = "cleanup"

-----------------------------------------------------------------------------
(* prepare(): the guard is disarmed first, whatever comes of the call.  A  *)
(* request or a state that is refused leaves an earlier plan in place.     *)
PrepareHid(g) ==
  /\ HidCalling("idle")
  /\ armed' = FALSE /\ action' = 0
  /\ \/ /\ hidPhase \in {"Idle", "Prepared"}
        /\ plan' = {[generation |-> g, before |-> hid, applied |-> Applied(hid)]}
        /\ hidPhase' = "Prepared" /\ hidStep' = "persist"
     \/ UNCHANGED <<plan, hidPhase, hidStep>>
  /\ UNCHANGED <<hidWorldVars, entries, recoveryVars, hidGhostVars>>

(* Mutant of PersistRecord: the action gets the generation to come.        *)
PersistNextGeneration ==
  /\ HidCalling("persist")
  /\ \E p \in plan :
       record' = {p} /\ action' = p.generation + 1 /\ HidGoes("idle") /\ UNCHANGED plan
  /\ UNCHANGED <<hidWorldVars, entries, armed, watch, restorer, hidGhostVars>>

(* The record is written to a temporary file, flushed and moved in place.  *)
PersistRecord ==
  /\ HidCalling("persist")
  /\ \/ \E p \in plan :
          /\ record' = {p} /\ action' = p.generation
          /\ HidGoes("idle") /\ UNCHANGED plan
     \/ plan' = {} /\ HidEnds("Idle") /\ UNCHANGED <<record, action>>
  /\ UNCHANGED <<hidWorldVars, entries, armed, watch, restorer, hidGhostVars>>

RegisterWatch ==
  /\ HidCalling("idle") /\ action # 0
  /\ watch' = action
  /\ UNCHANGED <<hidWorldVars, hidHostVars, record, restorer, hidGhostVars>>

(* Mutant of ConfirmRecoveryArmed: any registered action will do.          *)
ConfirmAnyAction ==
  /\ HidCalling("idle") /\ action # 0 /\ hidPhase = "Prepared" /\ watch # 0
  /\ armed' = TRUE
  /\ UNCHANGED <<hidWorldVars, hidPhase, plan, entries, action, hidStep,
                 recoveryVars, hidGhostVars>>

ConfirmRecoveryArmed ==
  /\ HidCalling("idle") /\ action # 0 /\ hidPhase = "Prepared" /\ watch = action
  /\ armed' = TRUE
  /\ UNCHANGED <<hidWorldVars, hidPhase, plan, entries, action, hidStep,
                 recoveryVars, hidGhostVars>>

(* activate() up to the first write.  A prepared plan may have expired;    *)
(* evidence, approval or the platform may refuse it and leave it prepared. *)
ActivateHid ==
  /\ HidCalling("idle") /\ armed /\ action # 0 /\ hidPhase = "Prepared"
  /\ \/ HidClean /\ UNCHANGED owed
     \/ HidGoes("apply") /\ owed' = plan /\ UNCHANGED plan
  /\ UNCHANGED <<hidWorldVars, entries, guardVars, recoveryVars, wanted, raced>>

(* writeState: done, half done or not done.                                *)
Written(settings) ==
  hid' \in {settings, [settings EXCEPT !.hydra = "part"], hid}

ApplyHid ==
  /\ HidCalling("apply")
  /\ \E p \in plan : Written(p.applied)
  /\ HidGoes("verify") \/ HidUndoes
  /\ UNCHANGED <<hidden, owner, plan, entries, guardVars, recoveryVars, hidGhostVars>>

VerifyHid ==
  /\ HidCalling("verify")
  /\ \/ (\E p \in plan : hid = p.applied) /\ entries' = TRUE /\ HidGoes("blacklist")
     \/ HidUndoes /\ UNCHANGED entries
  /\ UNCHANGED <<hidWorldVars, plan, guardVars, recoveryVars, hidGhostVars>>

(* addSessionBlacklist may add entries and still report a failure.         *)
AddToBlacklist ==
  /\ HidCalling("blacklist")
  /\ \/ hidden' = TRUE /\ HidEnds("Active")
     \/ hidden' \in BOOLEAN /\ HidUndoes
  /\ UNCHANGED <<hid, owner, plan, entries, guardVars, recoveryVars, hidGhostVars>>

(* rollback(), an expired session, and the destructor.  Without a plan, or *)
(* with one that is only prepared, nothing has to be written.              *)
RollbackHid ==
  /\ HidCalling("idle")
  /\ \/ (plan = {} \/ hidPhase = "Prepared") /\ HidClean
     \/ hidPhase = "Active" /\ HidUndoes /\ UNCHANGED plan
  /\ UNCHANGED <<hidWorldVars, entries, guardVars, recoveryVars, hidGhostVars>>

(* Mutant of ClearBlacklist: a failed clear is taken for done.             *)
ClearBlacklistOnce ==
  /\ HidCalling("clear") /\ HidGoes("inspect")
  /\ entries' = FALSE /\ hidden' \in {hidden, FALSE}
  /\ UNCHANGED <<hid, owner, plan, guardVars, recoveryVars, hidGhostVars>>

ClearBlacklist ==
  /\ HidCalling("clear") /\ HidGoes("inspect")
  /\ \/ entries /\ hidden' = FALSE /\ entries' = FALSE
     \/ UNCHANGED <<hidden, entries>>
  /\ UNCHANGED <<hid, owner, plan, guardVars, recoveryVars, hidGhostVars>>

(* Mutant of Inspect: whatever differs from before is overwritten.         *)
InspectLess ==
  /\ HidCalling("inspect")
  /\ \E p \in plan :
       \/ hid = p.before /\ ~entries /\ HidClean
       \/ hid # p.before /\ HidGoes("restore") /\ UNCHANGED plan
  /\ UNCHANGED <<hidWorldVars, entries, guardVars, recoveryVars, hidGhostVars>>

(* Settings that are neither the ones before nor the ones applied are not  *)
(* overwritten; what cannot be read, restored or cleared stays owned.      *)
Inspect ==
  /\ HidCalling("inspect")
  /\ \E p \in plan :
       \/ hid = p.before /\ ~entries /\ HidClean
       \/ hid = p.applied /\ hid # p.before /\ HidGoes("restore") /\ UNCHANGED plan
       \/ HidEnds("RecoveryRequired") /\ UNCHANGED plan
  /\ UNCHANGED <<hidWorldVars, entries, guardVars, recoveryVars, hidGhostVars>>

RestoreBefore ==
  /\ HidCalling("restore")
  /\ \E p \in plan : Written(p.before)
  /\ HidGoes("verifyRestored") \/ HidEnds("RecoveryRequired")
  /\ UNCHANGED <<hidden, owner, plan, entries, guardVars, recoveryVars, hidGhostVars>>

VerifyBefore ==
  /\ HidCalling("verifyRestored")
  /\ \/ (\E p \in plan : hid = p.before) /\ ~entries /\ HidClean
     \/ HidEnds("RecoveryRequired") /\ UNCHANGED plan
  /\ UNCHANGED <<hidWorldVars, entries, guardVars, recoveryVars, hidGhostVars>>

(* cleanupRecoveryRecordIfSafe: the record of a session that is idle again *)
(* is removed, if the guard still knows of it; the removal may fail.       *)
Cleanup ==
  /\ HidCalling("cleanup") /\ HidGoes("idle")
  /\ \/ action' = 0 /\ armed' = FALSE /\ record' = IF action = 0 THEN record ELSE {}
     \/ action # 0 /\ UNCHANGED <<guardVars, record>>
  /\ UNCHANGED <<hidWorldVars, plan, entries, watch, restorer, hidGhostVars>>

-----------------------------------------------------------------------------
(* With the process its entries in the blacklist go.                       *)
OwnerDies ==
  /\ owner /\ owner' = FALSE /\ hidden' = FALSE
  /\ UNCHANGED <<hid, hidHostVars, recoveryVars, hidGhostVars>>

(* restoreSnapshotState, from the record alone.                            *)
LoadAndCompare ==
  /\ ~owner /\ watch # 0 /\ restorer = "idle"
  /\ LET mine == {r \in record : r.generation = watch}
     IN restorer' = IF \E r \in mine : hid = r.before THEN "AlreadySatisfied"
                    ELSE IF \E r \in mine : hid = r.applied THEN "restore"
                    ELSE "failed"
  /\ UNCHANGED <<hidWorldVars, hidHostVars, record, watch, hidGhostVars>>

(* Mutant of RestoreSnapshot: the write is not read back.                  *)
RestoreUnverified ==
  /\ restorer = "restore"
  /\ \E r \in record : Written(r.before)
  /\ restorer' = "Success"
  /\ UNCHANGED <<hidden, owner, hidHostVars, record, watch, hidGhostVars>>

RestoreSnapshot ==
  /\ \/ /\ restorer = "restore"
        /\ \E r \in record : Written(r.before)
        /\ restorer' \in {"verify", "failed"}
     \/ /\ restorer = "verify" /\ UNCHANGED hid
        /\ \/ (\E r \in record : hid = r.before) /\ restorer' = "Success"
           \/ restorer' = "failed"
  /\ UNCHANGED <<hidden, owner, hidHostVars, record, watch, hidGhostVars>>

(* The user edits the settings.                                            *)
UserEdits ==
  /\ \E choice \in UserChoice \ {wanted} :
        /\ hid' = [hid EXCEPT !.user = choice]
        /\ wanted' = choice
  /\ raced' = (raced \/ hidStep = "restore" \/ restorer = "restore"
                     \/ hidPhase = "Prepared")
  /\ UNCHANGED <<hidden, owner, hidHostVars, recoveryVars, owed>>

HidNext ==
  \/ \E g \in 1..MaxSession : PrepareHid(g)
  \/ PersistRecord \/ RegisterWatch \/ ConfirmRecoveryArmed \/ ActivateHid
  \/ ApplyHid \/ VerifyHid \/ AddToBlacklist
  \/ RollbackHid \/ ClearBlacklist \/ Inspect \/ RestoreBefore \/ VerifyBefore
  \/ Cleanup
  \/ OwnerDies \/ LoadAndCompare \/ RestoreSnapshot \/ UserEdits

HidSpec == HidInit /\ [][HidNext]_hidVars

-----------------------------------------------------------------------------
(* Type invariant of the session.                                          *)
HidTypeOK ==
  /\ hid \in Settings /\ wanted \in UserChoice
  /\ {hidden, owner, entries, armed, raced} \subseteq BOOLEAN
  /\ hidPhase \in HidPhase /\ hidStep \in HidStep
  /\ plan \cup record \cup owed \subseteq HidPlan
  /\ {action, watch} \subseteq 0..MaxSession
  /\ restorer \in {"idle", "restore", "verify", "AlreadySatisfied", "Success", "failed"}

(* As long as the persistent settings differ from what they were before a  *)
(* session began to apply, the record to undo it is durable, and the       *)
(* watchdog is armed with the action that resolves to this very record:    *)
(* the host may die at any step of any call.                               *)
MutationIsRecoverable ==
  \A p \in owed : owner /\ hid.hydra # p.before.hydra =>
                    record = {p} /\ watch = p.generation

(* "Never clobber a third-party/user change that occurred after            *)
(* activation": neither the rollback of the session nor the executor takes *)
(* back an edit, except one made between their read and their write.       *)
UserChangeKept == ~raced => hid.user = wanted

(* A host that ends a session as idle has left neither its settings nor    *)
(* its entries behind.                                                     *)
IdleIsUndone ==
  owner /\ hidPhase = "Idle" =>
    ~hidden /\ \A p \in owed : hid.hydra = p.before.hydra

(* "Verified clean rollback removes the stale durable recovery resource":  *)
(* the end of a session that reports success leaves no record of the plan  *)
(* it had applied.  The code does not keep this: prepare() forgets the     *)
(* action before the request may be refused, and what remains of the       *)
(* session is then ended without removing the record.                      *)
CleanRollbackRemovesRecord ==
  [][hidStep = "cleanup" /\ hidStep' = "idle" /\ action' = 0
       => owed \cap record' = {}]_hidVars

(* After the death of the host the executor says it has restored only what *)
(* is as it was.                                                           *)
RestorerIsRight ==
  restorer \in {"Success", "AlreadySatisfied"} =>
    \A p \in owed : hid.hydra = p.before.hydra

(* The safety of the session: its changes are always recoverable, taken    *)
(* back when it says so, and never at the cost of the user's own.          *)
SettingsAreSafe ==
  MutationIsRecoverable /\ UserChangeKept /\ IdleIsUndone /\ RestorerIsRight
=============================================================================

---------------------------- MODULE EmergencyReset ----------------------------
(***************************************************************************)
(* The recovery protocol: a session owner that changes Windows under the   *)
(* crash journal, the hydra_reset tool that takes the changes back, and    *)
(* the three files they share (journal, safe-mode marker, registration).   *)
(*                                                                         *)
(* The owner is the program that calls GateCRecoveryJournal.  It registers *)
(* itself and its rollback plan, starts the journal, makes each change     *)
(* between the Prepared and the Applied record, and may die at any point.  *)
(* The tool reads the three files one after the other, decides, stops the  *)
(* exact owner, takes the changes back, and repairs the files one by one;  *)
(* it may die between any two steps and may be run again.                  *)
(*                                                                         *)
(* Simplifications: a registration is always attachment-bound (version 2)  *)
(* and stands for its session's whole plan; the final inspection of a      *)
(* reset, which only decides what it prints, is left out.                  *)
(***************************************************************************)
EXTENDS CrashJournal

CONSTANTS
  Serialized,        \* the owner's start and a run of the tool do not overlap
  Corruptible        \* files may be damaged

ASSUME ResetAssumption == Serialized \in BOOLEAN /\ Corruptible \in BOOLEAN

VARIABLES
  registration,      \* session of the reset registration on disk
  nextSession,       \* the generation the next owner takes
  owner,             \* the session owner's process
  effects,           \* changes in effect, as <<session, action>>
  tool,              \* the hydra_reset process and what it has read
  calm               \* no more faults and commands other than the reset

files == <<journal, safeMode, registration>>
recoveryVars == <<files, nextSession, owner, effects, tool, calm>>

OwnerDown == [pc |-> "down", session |-> NONE, state |-> NONE]

ToolIdle ==
  [pc |-> "idle", journal |-> NONE, marker |-> NONE, registration |-> NONE]

OwnerPc == {"down", "assessed", "registered", "running"}
ToolPc == {"idle", "readMarker", "readRegistration", "decide", "mark",
           "preflight", "rollback", "promote", "replace", "clear", "remove",
           "manual"}

Starting == owner.pc \in {"assessed", "registered"}

RecoveryInit ==
  /\ journal = NONE
  /\ safeMode = NONE
  /\ registration = NONE
  /\ nextSession = 1
  /\ owner = OwnerDown
  /\ effects = {}
  /\ tool = ToolIdle
  /\ calm = FALSE

-----------------------------------------------------------------------------
(* The session owner.                                                      *)

(* It goes on only from a clean start, under the next generation.          *)
StartOwner ==
  /\ owner.pc = "down"
  /\ nextSession \in Session
  /\ Serialized => tool.pc = "idle"
  /\ AssessStartup(~calm)
  /\ IF StartsClean
       THEN /\ owner' = [pc |-> "assessed", session |-> nextSession,
                         state |-> NONE]
            /\ nextSession' = nextSession + 1
       ELSE UNCHANGED <<owner, nextSession>>
  /\ UNCHANGED <<registration, effects, tool, calm>>

(* The registration replaces the previous one, in one atomic replacement.  *)
Register ==
  /\ owner.pc = "assessed"
  /\ \/ /\ registration' = owner.session
        /\ owner' = [owner EXCEPT !.pc = "registered"]
     \/ /\ ~calm
        /\ registration' \in {registration, owner.session}
        /\ owner' = OwnerDown
  /\ UNCHANGED <<journal, safeMode, nextSession, effects, tool, calm>>

(* A refused owner exits and leaves its registration to the tool.          *)
Begin ==
  /\ owner.pc = "registered"
  /\ \E ok \in BOOLEAN :
       /\ BeginActivation(owner.session, ok, ~calm)
       /\ owner' = IF ok THEN [owner EXCEPT !.pc = "running",
                                            !.state = Initial(owner.session)]
                         ELSE OwnerDown
  /\ UNCHANGED <<registration, nextSession, effects, tool, calm>>

(* Mutant of AppendAndPersist: the volatile state advances regardless.     *)
AppendAndAdvance(next) ==
  /\ \E ok \in BOOLEAN : PersistTransition(next, ok, ~calm)
  /\ owner' = [owner EXCEPT !.state = next]
  /\ UNCHANGED <<registration, nextSession, effects, tool, calm>>

(* The volatile state advances only with the durable one.                  *)
AppendAndPersist(next) ==
  /\ \E ok \in BOOLEAN :
       /\ PersistTransition(next, ok, ~calm)
       /\ owner' = IF ok THEN [owner EXCEPT !.state = next] ELSE owner
  /\ UNCHANGED <<registration, nextSession, effects, tool, calm>>

Mutation(a) == <<owner.session, a>>

(* The owner records what is true of the change at that moment.            *)
RecordAction(a) ==
  /\ owner.pc = "running"
  /\ \/ /\ MayPrepare(owner.state, a)
        /\ AppendAndPersist(Prepared(owner.state, a))
     \/ /\ MayApply(owner.state, a)
        /\ Mutation(a) \in effects
        /\ AppendAndPersist(Applied(owner.state, a))
     \/ /\ MayVerify(owner.state, a)
        /\ Mutation(a) \in effects
        /\ AppendAndPersist(Verified(owner.state, a))
     \/ /\ MayRollBack(owner.state, a)
        /\ Mutation(a) \notin effects
        /\ AppendAndPersist(RolledBack(owner.state, a))

RecordSession ==
  /\ owner.pc = "running"
  /\ \E next \in SessionRecords(owner.state) : AppendAndPersist(next)

(* The change itself, once its preparation is durable.                     *)
Mutate(a) ==
  /\ owner.pc = "running"
  /\ Activating(owner.state)
  /\ owner.state.progress[a] = "prepared"
  /\ effects' = effects \cup {Mutation(a)}
  /\ UNCHANGED <<files, nextSession, owner, tool, calm>>

(* A change is taken back by the owner or the watchdog, or its process     *)
(* exits by itself.                                                        *)
MutationEnds ==
  /\ \E e \in effects : effects' = effects \ {e}
  /\ UNCHANGED <<files, nextSession, owner, tool, calm>>

(* After a clean stop the owner withdraws its registration and exits.      *)
CloseOwner ==
  /\ owner.pc = "running"
  /\ owner.state.phase = "clean"
  /\ \/ registration' = NONE
     \/ ~calm /\ UNCHANGED registration
  /\ owner' = OwnerDown
  /\ UNCHANGED <<journal, safeMode, nextSession, effects, tool, calm>>

OwnerDies ==
  /\ owner.pc # "down"
  /\ owner' = OwnerDown
  /\ UNCHANGED <<files, nextSession, effects, tool, calm>>

-----------------------------------------------------------------------------
(* The hydra_reset tool.                                                   *)

MayStartTool == tool.pc = "idle" /\ (Serialized => ~Starting)

ReadJournal ==
  /\ MayStartTool
  /\ tool' = [ToolIdle EXCEPT !.pc = "readMarker", !.journal = journal]
  /\ UNCHANGED <<files, nextSession, owner, effects, calm>>

ReadMarker ==
  /\ tool.pc = "readMarker"
  /\ tool' = [tool EXCEPT !.pc = "readRegistration", !.marker = safeMode]
  /\ UNCHANGED <<files, nextSession, owner, effects, calm>>

ReadRegistration ==
  /\ tool.pc = "readRegistration"
  /\ tool' = [tool EXCEPT !.pc = "decide", !.registration = registration]
  /\ UNCHANGED <<files, nextSession, owner, effects, calm>>

Readable(j, m, r) == CORRUPT \notin {j, m, r}

(* Every identity on disk agrees with the journal's.                       *)
Correlated(j, m, r) ==
  /\ m # NONE => MarkerMatches(m, j)
  /\ r # NONE => r = j.session

Inspection(j, m, r) ==
  CASE ~Readable(j, m, r) -> "recoveryRequired"
    [] Readable(j, m, r) /\ j = NONE ->
         IF m # NONE THEN "recoveryRequired"
         ELSE IF r # NONE THEN "recoverable" ELSE "clean"
    [] Readable(j, m, r) /\ j # NONE ->
         IF ~Correlated(j, m, r) THEN "recoveryRequired"
         ELSE IF IsClean(j)
                THEN IF m = NONE /\ r = NONE THEN "clean" ELSE "recoverable"
                ELSE IF r = NONE THEN "recoveryRequired" ELSE "recoverable"

Found == Inspection(tool.journal, tool.marker, tool.registration)

(* Where each finding leads; a session asked for by name that is not the   *)
(* one found fails closed.                                                 *)
Decide ==
  /\ tool.pc = "decide"
  /\ \E expected \in BOOLEAN :
       /\ calm => expected
       /\ tool' =
            IF Found = "clean" THEN ToolIdle
            ELSE IF tool.journal \notin JournalState
              THEN IF Found = "recoverable" /\ expected
                     THEN [tool EXCEPT !.pc = "preflight"] ELSE ToolIdle
            ELSE IF ~expected \/ Found = "recoveryRequired"
              THEN [tool EXCEPT !.pc = "mark"]
            ELSE IF IsClean(tool.journal) THEN [tool EXCEPT !.pc = "clear"]
            ELSE [tool EXCEPT !.pc = "preflight"]
  /\ UNCHANGED <<files, nextSession, owner, effects, calm>>

(* Mutant of AfterFailure: the registration is dropped all the same.       *)
AfterFailureForgets == [tool EXCEPT !.pc = "remove"]

(* Failed work becomes durable evidence: without a journal the             *)
(* registration is promoted to one.                                        *)
AfterFailure ==
  [tool EXCEPT !.pc = IF tool.journal = NONE THEN "promote" ELSE "mark"]

(* All rollback processes are acquired first, then the exact owner is      *)
(* stopped; a failure of either ends the execution.                        *)
StopOwner ==
  /\ tool.pc = "preflight"
  /\ \/ /\ owner' = IF owner.session = tool.registration THEN OwnerDown
                                                         ELSE owner
        /\ tool' = [tool EXCEPT !.pc = "rollback"]
     \/ /\ ~calm
        /\ UNCHANGED owner
        /\ tool' = AfterFailure
  /\ UNCHANGED <<files, nextSession, effects, calm>>

ChangesOf(s) == {e \in effects : e[1] = s}

(* Every action of the plan is tried; one failure fails the whole.         *)
RollBackChanges ==
  /\ tool.pc = "rollback"
  /\ \/ /\ effects' = effects \ ChangesOf(tool.registration)
        /\ tool' = [tool EXCEPT !.pc = IF tool.journal = NONE THEN "remove"
                                                             ELSE "replace"]
     \/ /\ ~calm
        /\ \E undone \in SUBSET ChangesOf(tool.registration) :
             effects' = effects \ undone
        /\ tool' = AfterFailure
  /\ UNCHANGED <<files, nextSession, owner, calm>>

Promote ==
  /\ tool.pc = "promote"
  /\ \E ok \in BOOLEAN :
       /\ BeginActivation(tool.registration, ok, ~calm)
       /\ tool' = IF ok THEN [tool EXCEPT !.pc = "mark",
                                !.journal = Initial(tool.registration)]
                        ELSE ToolIdle
  /\ UNCHANGED <<registration, nextSession, owner, effects, calm>>

WriteRecoveryMarker ==
  /\ tool.pc = "mark"
  /\ TryMarker(MarkerFor(tool.journal.session), ~calm)
  /\ tool' = ToolIdle
  /\ UNCHANGED <<journal, registration, nextSession, owner, effects, calm>>

(* Mutant of ReplaceWithClean: the rollback's result is not awaited.       *)
ReplaceUnverified ==
  /\ tool.pc \in {"replace", "preflight"}
  /\ tool.journal \in JournalState
  /\ journal' = VerifiedClean(tool.journal.session)
  /\ tool' = [tool EXCEPT !.pc = "clear"]
  /\ UNCHANGED <<safeMode, registration, nextSession, owner, effects, calm>>

(* The verified result replaces the whole journal.                         *)
ReplaceWithClean ==
  /\ tool.pc = "replace"
  /\ \E ok \in BOOLEAN :
       /\ ok \/ ~calm
       /\ Persist(VerifiedClean(tool.journal.session), ok)
       /\ tool' = [tool EXCEPT !.pc = IF ok THEN "clear" ELSE "mark"]
  /\ UNCHANGED <<safeMode, registration, nextSession, owner, effects, calm>>

(* The marker goes only if it still belongs to the clean journal on disk.  *)
ClearSafeMode ==
  /\ tool.pc = "clear"
  /\ \/ /\ tool.marker # NONE
        /\ MayClearSafeMode(tool.journal.session)
        /\ safeMode' = NONE
     \/ /\ \/ tool.marker = NONE
           \/ ~MayClearSafeMode(tool.journal.session)
           \/ ~calm
        /\ UNCHANGED safeMode
  /\ tool' = [tool EXCEPT !.pc = "remove"]
  /\ UNCHANGED <<journal, registration, nextSession, owner, effects, calm>>

RemoveRegistration ==
  /\ tool.pc = "remove"
  /\ \/ /\ IsClean(tool.journal) => tool.registration # NONE
        /\ registration' = NONE
     \/ /\ ~calm \/ (IsClean(tool.journal) /\ tool.registration = NONE)
        /\ UNCHANGED registration
  /\ tool' = ToolIdle
  /\ UNCHANGED <<journal, safeMode, nextSession, owner, effects, calm>>

ToolDies ==
  /\ ~calm
  /\ tool.pc # "idle"
  /\ tool' = ToolIdle
  /\ UNCHANGED <<files, nextSession, owner, effects, calm>>

(* "safe-mode on" reads marker and journal, then writes; it never replaces *)
(* a marker it read.                                                       *)
ReadForManual ==
  /\ ~calm
  /\ MayStartTool
  /\ safeMode = NONE
  /\ journal # CORRUPT
  /\ tool' = [ToolIdle EXCEPT !.pc = "manual", !.journal = journal]
  /\ UNCHANGED <<files, nextSession, owner, effects, calm>>

EnableManual ==
  /\ tool.pc = "manual"
  /\ TryMarker([session |-> IF tool.journal = NONE THEN NONE
                            ELSE tool.journal.session, manual |-> TRUE], ~calm)
  /\ tool' = ToolIdle
  /\ UNCHANGED <<journal, registration, nextSession, owner, effects, calm>>

DisableManual ==
  /\ ~calm
  /\ MayStartTool
  /\ safeMode \in Marker
  /\ journal # CORRUPT
  /\ IF journal = NONE THEN safeMode.manual /\ safeMode.session = NONE
                       ELSE MayClearSafeMode(journal.session)
  /\ safeMode' = NONE
  /\ UNCHANGED <<journal, registration, nextSession, owner, effects, tool, calm>>

-----------------------------------------------------------------------------
(* The disk, and the end of faults.  At most one file is damaged at a      *)
(* time, and between two runs of the tool, which works on what it has      *)
(* read: bounds on the disk, not on the program.                           *)
Damage ==
  /\ Corruptible
  /\ ~calm
  /\ tool.pc = "idle"
  /\ CORRUPT \notin {journal, safeMode, registration}
  /\ \/ /\ journal # NONE
        /\ journal' = CORRUPT
        /\ UNCHANGED <<safeMode, registration>>
     \/ /\ safeMode # NONE
        /\ safeMode' = CORRUPT
        /\ UNCHANGED <<journal, registration>>
     \/ /\ registration # NONE
        /\ registration' = CORRUPT
        /\ UNCHANGED <<journal, safeMode>>
  /\ UNCHANGED <<nextSession, owner, effects, tool, calm>>

Calm ==
  /\ ~calm
  /\ calm' = TRUE
  /\ UNCHANGED <<files, nextSession, owner, effects, tool>>

OwnerNext ==
  \/ StartOwner
  \/ Register
  \/ Begin
  \/ \E a \in Action : RecordAction(a) \/ Mutate(a)
  \/ RecordSession
  \/ MutationEnds
  \/ CloseOwner
  \/ OwnerDies

(* One run of "hydra_reset all": inspection, execution, repair.            *)
ToolStep ==
  \/ ReadMarker
  \/ ReadRegistration
  \/ Decide
  \/ StopOwner
  \/ RollBackChanges
  \/ Promote
  \/ WriteRecoveryMarker
  \/ ReplaceWithClean
  \/ ClearSafeMode
  \/ RemoveRegistration
  \/ EnableManual

RecoveryNext ==
  \/ OwnerNext
  \/ ReadJournal
  \/ ToolStep
  \/ ToolDies
  \/ ReadForManual
  \/ DisableManual
  \/ Damage
  \/ Calm

RecoverySpec == RecoveryInit /\ [][RecoveryNext]_recoveryVars

(* A person runs the reset again and again, and each run goes on.          *)
ResetFairness ==
  /\ WF_recoveryVars(Calm)
  /\ WF_recoveryVars(ReadJournal)
  /\ WF_recoveryVars(ToolStep)

FairRecoverySpec == RecoverySpec /\ ResetFairness

-----------------------------------------------------------------------------
(* Type invariant of the recovery protocol.                                *)
RecoveryTypeOK ==
  /\ journal \in JournalState \cup {NONE, CORRUPT}
  /\ safeMode \in Marker \cup {NONE, CORRUPT}
  /\ registration \in Session \cup {NONE, CORRUPT}
  /\ nextSession \in Nat
  /\ owner \in [pc : OwnerPc, session : Session \cup {NONE},
                state : JournalState \cup {NONE}]
  /\ effects \in SUBSET (Session \X Action)
  /\ tool \in [pc : ToolPc, journal : JournalState \cup {NONE, CORRUPT},
               marker : Marker \cup {NONE, CORRUPT},
               registration : Session \cup {NONE, CORRUPT}]
  /\ calm \in BOOLEAN

(* A clean journal, or none, means that no change is in effect, whoever    *)
(* wrote it: the owner's own CleanStop or a reset, retried or interrupted. *)
CleanMeansUndone == journal = NONE \/ IsClean(journal) => effects = {}

(* Every change in effect is prepared in the durable journal of the        *)
(* session that made it, and that session's reset registration is on disk  *)
(* ("recovery authority written before risky activation",                  *)
(* reset_actions.hpp), unless the file itself was damaged.                 *)
EffectsHaveAuthority ==
  \A e \in effects :
    /\ journal # CORRUPT =>
         /\ journal \in JournalState
         /\ journal.session = e[1]
         /\ journal.progress[e[2]] # "none"
    /\ registration \in {e[1], CORRUPT}

(* The owner's volatile journal is the durable one, or at most the one     *)
(* record behind whose write reported failure: GateCRecoveryJournal never  *)
(* acts on a record that is not on disk.                                   *)
VolatileFollowsDurable ==
  owner.pc = "running" /\ journal \in JournalState =>
    journal \in {owner.state} \cup Extensions(owner.state)

(* A registration whose session never started its journal, left by a dead  *)
(* owner, is what reset_actions.cpp calls the narrow window: a later reset *)
(* can still clean up from it.                                             *)
PreJournalCrashIsRecoverable ==
  /\ owner.pc = "down"
  /\ registration \in Session
  /\ safeMode = NONE
  /\ journal \in JournalState => registration > journal.session
  => Inspection(journal, safeMode, registration) = "recoverable"

(* The session whose evidence is not closed.  A damaged journal proves     *)
(* nothing: it stands for the owner that goes on, or for what it left.     *)
OpenSession ==
  IF journal = CORRUPT
    THEN IF owner.pc = "running" THEN owner.session
         ELSE IF effects # {} THEN (CHOOSE e \in effects : TRUE)[1] ELSE NONE
    ELSE IF Incomplete(journal) THEN journal.session ELSE NONE

(* The files and the changes implement the transaction: crashes, retries,  *)
(* refused starts and damaged files included.                              *)
Transaction ==
  INSTANCE SafeTransaction WITH open <- OpenSession, applied <- effects

ImplementsTransaction == Transaction!Spec

(* An incomplete session whose registration is on disk is brought to a     *)
(* verified clean journal without safe mode, so that an activation may     *)
(* start again, once faults stop and the reset is run again; a damaged     *)
(* marker is for a person to remove.                                       *)
ResetReopens ==
  (/\ calm
   /\ Incomplete(journal)
   /\ registration = journal.session
   /\ safeMode # CORRUPT) ~> StartsClean
=============================================================================

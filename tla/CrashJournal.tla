----------------------------- MODULE CrashJournal -----------------------------
(***************************************************************************)
(* CrashJournalStore: the durable evidence of one risky activation.        *)
(*                                                                         *)
(* A journal belongs to one session and is a list of records.  Its state   *)
(* is what replaying them gives: the phase, how far each action of the     *)
(* rollback plan got, and whether the rollback was verified.  The model    *)
(* keeps that state instead of the list; appending a valid record is one   *)
(* of the functions below, guarded by its "May" predicate.                 *)
(*                                                                         *)
(* The store keeps two files, each replaced atomically: the current        *)
(* journal and the safe-mode marker.  A replacement that reports failure   *)
(* may have happened all the same (the POSIX build syncs the directory     *)
(* after the rename), and a marker is written without looking whether that *)
(* worked.  The history copies are never read back and are left out, and   *)
(* so is the record kind FailureRecorded, which ends a journal exactly as  *)
(* RecoveryRequired does.                                                  *)
(***************************************************************************)
EXTENDS Integers

CONSTANTS
  Session,           \* runtime generations; each has its own session id
  Action,            \* activation ordinals of the rollback plan's actions
  NONE,              \* no file, no identity
  CORRUPT            \* a file that cannot be decoded

ASSUME JournalAssumption ==
  /\ Session \subseteq Nat \ {0}
  /\ Action \subseteq Nat \ {0}
  /\ NONE # CORRUPT

VARIABLES
  journal,           \* the Current slot
  safeMode           \* the SafeMode slot

Phase == {"preparing", "applying", "active", "rollingBack", "clean",
          "recoveryRequired"}

Progress == {"none", "prepared", "applied", "verified", "rolledBack"}

JournalState ==
  [session : Session, phase : Phase, progress : [Action -> Progress],
   verified : BOOLEAN]

(* A marker without a session is about no particular journal.              *)
Marker == [session : Session \cup {NONE}, manual : BOOLEAN]

MarkerFor(s) == [session |-> s, manual |-> FALSE]

ASSUME FileAssumption ==
  /\ {NONE, CORRUPT} \cap JournalState = {}
  /\ {NONE, CORRUPT} \cap Marker = {}
  /\ {NONE, CORRUPT} \cap Session = {}

IsClean(j) == j \in JournalState /\ j.phase = "clean"

Incomplete(j) == j \in JournalState /\ j.phase # "clean"

-----------------------------------------------------------------------------
(* The records.                                                            *)

Initial(s) ==
  [session |-> s, phase |-> "preparing",
   progress |-> [a \in Action |-> "none"], verified |-> FALSE]

Marked(j, a, p) == [j EXCEPT !.progress[a] = p]

Activating(j) == j.phase \in {"preparing", "applying"}

MayPrepare(j, a) == Activating(j) /\ j.progress[a] = "none"

Prepared(j, a) == Marked(j, a, "prepared")

MayApply(j, a) == Activating(j) /\ j.progress[a] = "prepared"

(* Mutant of Applied: the phase is stored as the action's progress.        *)
AppliedMisplaced(j, a) == Marked(j, a, "applying")

Applied(j, a) == [Marked(j, a, "applied") EXCEPT !.phase = "applying"]

MayVerify(j, a) == j.phase = "applying" /\ j.progress[a] = "applied"
Verified(j, a) == Marked(j, a, "verified")

(* Rollback markers follow the reverse activation order.                   *)
MayRollBack(j, a) ==
  /\ j.phase = "rollingBack"
  /\ j.progress[a] \notin {"none", "rolledBack"}
  /\ \A b \in Action : j.progress[b] = "rolledBack" => b > a
RolledBack(j, a) == Marked(j, a, "rolledBack")

MayCommit(j) ==
  /\ Activating(j)
  /\ \A a \in Action : j.progress[a] \in {"none", "verified"}
Committed(j) == [j EXCEPT !.phase = "active"]

MayStartRollback(j) == j.phase \in {"preparing", "applying", "active"}
RollbackStarted(j) == [j EXCEPT !.phase = "rollingBack", !.verified = FALSE]

(* Mutant: verification looks only at the actions that were verified.      *)
MayVerifyRollbackEarly(j) ==
  /\ j.phase = "rollingBack"
  /\ \A a \in Action : j.progress[a] # "verified"

MayVerifyRollback(j) ==
  /\ j.phase = "rollingBack"
  /\ \A a \in Action : j.progress[a] \in {"none", "rolledBack"}
RollbackVerified(j) == [j EXCEPT !.verified = TRUE]

MayStop(j) == j.phase = "rollingBack" /\ j.verified
Stopped(j) == [j EXCEPT !.phase = "clean"]

MayRequireRecovery(j) == j.phase \notin {"clean", "recoveryRequired"}
RecoveryRequired(j) == [j EXCEPT !.phase = "recoveryRequired"]

(* The markers about the whole session.                                    *)
SessionRecords(j) ==
       {k \in {Committed(j)} : MayCommit(j)}
  \cup {k \in {RollbackStarted(j)} : MayStartRollback(j)}
  \cup {k \in {RollbackVerified(j)} : MayVerifyRollback(j)}
  \cup {k \in {Stopped(j)} : MayStop(j)}
  \cup {k \in {RecoveryRequired(j)} : MayRequireRecovery(j)}

ActionRecords(j) ==
       {Prepared(j, a) : a \in {b \in Action : MayPrepare(j, b)}}
  \cup {Applied(j, a) : a \in {b \in Action : MayApply(j, b)}}
  \cup {Verified(j, a) : a \in {b \in Action : MayVerify(j, b)}}
  \cup {RolledBack(j, a) : a \in {b \in Action : MayRollBack(j, b)}}

Extensions(j) == SessionRecords(j) \cup ActionRecords(j)

(* The journal an emergency reset writes: every action of the plan         *)
(* prepared and rolled back, the rollback verified, the stop clean.        *)
VerifiedClean(s) ==
  [session |-> s, phase |-> "clean",
   progress |-> [a \in Action |-> "rolledBack"], verified |-> TRUE]

-----------------------------------------------------------------------------
(* The store.  Each operation says what it leaves in the two files; "ok"   *)
(* is the result it reports.                                               *)

(* Best effort: the marker is written, or the failure goes unnoticed.      *)
TryMarker(m, faulty) ==
  \/ safeMode' = m
  \/ faulty /\ safeMode' = safeMode

(* Durable write and atomic replacement of the current journal.            *)
Persist(next, ok) ==
  IF ok THEN journal' = next ELSE journal' \in {journal, next}

MayBegin(s) ==
  /\ safeMode = NONE
  /\ \/ journal = NONE
     \/ IsClean(journal) /\ s > journal.session

BeginActivation(s, ok, faulty) ==
  \/ /\ MayBegin(s)
     /\ ok \/ faulty
     /\ Persist(Initial(s), ok)
     /\ IF ok THEN UNCHANGED safeMode ELSE TryMarker(MarkerFor(s), faulty)
  \/ /\ ~MayBegin(s)
     /\ ~ok
     /\ UNCHANGED journal
     /\ IF safeMode # NONE THEN UNCHANGED safeMode
        ELSE TryMarker(MarkerFor(IF journal = CORRUPT THEN NONE
                                                      ELSE journal.session),
                       faulty)

(* The transition must extend the durable journal by at most one record.   *)
PersistTransition(state, ok, faulty) ==
  \/ /\ journal = state
     /\ ok
     /\ UNCHANGED <<journal, safeMode>>
  \/ /\ journal \in JournalState
     /\ state \in Extensions(journal) \ {journal}
     /\ ok \/ faulty
     /\ Persist(state, ok)
     /\ IF ok THEN UNCHANGED safeMode
              ELSE TryMarker(MarkerFor(state.session), faulty)
  \/ /\ ~(journal \in JournalState
           /\ state \in Extensions(journal) \cup {journal})
     /\ ~ok
     /\ UNCHANGED journal
     /\ TryMarker(MarkerFor(IF journal \in JournalState THEN journal.session
                                                       ELSE state.session),
                  faulty)

(* What a start finds; anything but a clean state leaves a marker behind.  *)
StartsClean == safeMode = NONE /\ (journal = NONE \/ IsClean(journal))

AssessStartup(faulty) ==
  /\ UNCHANGED journal
  /\ IF StartsClean \/ safeMode # NONE THEN UNCHANGED safeMode
     ELSE TryMarker(MarkerFor(IF journal = CORRUPT THEN NONE
                                                   ELSE journal.session),
                    faulty)

MarkerMatches(m, j) == m.session \in {NONE, j.session}

(* Mutant of MayClearSafeMode: only a manual marker may go.                *)
MayClearManualOnly(s) ==
  /\ safeMode \in Marker
  /\ safeMode.manual
  /\ IsClean(journal)
  /\ journal.session = s

MayClearSafeMode(s) ==
  /\ safeMode \in Marker
  /\ safeMode.session \in {NONE, s}
  /\ IsClean(journal)
  /\ journal.session = s
=============================================================================

------------------------ MODULE EmergencyReset_proofs ------------------------
(***************************************************************************)
(* Proofs about the recovery protocol, for any sets of sessions and of     *)
(* activation ordinals.                                                    *)
(*                                                                         *)
(* Types need only that the owner and the tool hold a journal where they   *)
(* use one (ShapeInv).  The safety of the changes rests on two facts that  *)
(* no file shows: the owner knows of every change in effect and of no      *)
(* other session's (OwnerKnowsEffects), and what the tool has read of the  *)
(* journal stays true of the session it is about until it is done          *)
(* (ToolReadsTruth).  The second one fails when an owner may start while   *)
(* the tool works: the tool then removes the registration that the new     *)
(* owner has just written.  Hence these theorems, unlike the one about     *)
(* types, assume Serialized, which crash_journal.hpp asks of its callers.  *)
(***************************************************************************)
EXTENDS EmergencyReset, TLAPS

(* What the owner keeps: the journal of its own session.                   *)
OwnerShape ==
  /\ owner.pc # "down" => owner.session \in Session
  /\ owner.pc = "running" =>
       owner.state \in JournalState /\ owner.state.session = owner.session

(* What the tool must have read to be where it is.                         *)
ToolShape ==
  /\ tool.pc \in {"mark", "replace", "clear"} => tool.journal \in JournalState
  /\ tool.pc \in {"preflight", "rollback", "remove", "manual"} =>
       tool.journal \in JournalState \cup {NONE}
  /\ tool.pc \in {"preflight", "rollback", "promote"} => tool.registration \in Session
  /\ tool.pc = "promote" => tool.journal = NONE

ShapeInv == RecoveryTypeOK /\ OwnerShape /\ ToolShape

(* A rollback is verified, and a session clean, only when every action is  *)
(* rolled back or was never prepared; neither activates any more.          *)
RollbackComplete(j) ==
  j.verified \/ j.phase = "clean" =>
    /\ j.phase \notin {"preparing", "applying", "active"}
    /\ \A a \in Action : j.progress[a] \in {"none", "rolledBack"}

(* The owner knows of every change in effect, and of no other session's.   *)
OwnerKnowsEffects ==
  /\ Starting => effects = {}
  /\ owner.pc = "running" =>
       /\ journal # NONE
       /\ RollbackComplete(owner.state)
       /\ \A e \in effects : /\ e[1] = owner.session
                             /\ owner.state.progress[e[2]] \notin {"none", "rolledBack"}
  /\ \A e, f \in effects : e[1] = f[1]

(* An owner that may still change Windows is registered.                   *)
ActiveOwnerIsRegistered ==
  owner.pc = "registered" \/ (owner.pc = "running" /\ Activating(owner.state)) =>
    registration \in {owner.session, CORRUPT}

(* While the tool runs no owner starts, so that what it has read of the    *)
(* journal stays true of the session it is about.                          *)
ToolReadsTruth ==
  tool.pc # "idle" =>
    /\ ~Starting
    /\ tool.journal = NONE => journal = NONE
    /\ tool.journal \in JournalState =>
         journal \in JournalState /\ journal.session = tool.journal.session
    /\ IsClean(tool.journal) => IsClean(journal)

(* How far the reset has come: the owner is stopped before its changes are *)
(* taken back, and nothing is in effect once the journal is replaced.      *)
ToolProgress ==
  /\ tool.pc \in {"preflight", "rollback"} /\ tool.journal \in JournalState =>
       tool.journal.session = tool.registration
  /\ tool.pc \in {"rollback", "replace"} => owner.pc = "down"
  /\ tool.pc = "replace" => effects = {}
  /\ tool.pc \in {"clear", "remove"} /\ tool.journal \in JournalState => IsClean(journal)

EffectsInv ==
  /\ CleanMeansUndone /\ EffectsHaveAuthority /\ VolatileFollowsDurable
  /\ OwnerKnowsEffects /\ ActiveOwnerIsRegistered

RecoveryInv == ShapeInv /\ EffectsInv /\ ToolReadsTruth /\ ToolProgress

USE JournalAssumption, FileAssumption, ResetAssumption

-----------------------------------------------------------------------------
LEMMA InitialFacts ==
  ASSUME NEW s \in Session
  PROVE  /\ Initial(s) \in JournalState /\ Initial(s).session = s
         /\ Incomplete(Initial(s)) /\ ~IsClean(Initial(s))
         /\ RollbackComplete(Initial(s))
  BY DEF Initial, JournalState, Phase, Progress, Incomplete, IsClean, RollbackComplete

LEMMA VerifiedCleanFacts ==
  ASSUME NEW s \in Session
  PROVE  VerifiedClean(s) \in JournalState /\ VerifiedClean(s).session = s
         /\ IsClean(VerifiedClean(s))
  BY DEF VerifiedClean, JournalState, Phase, Progress, IsClean

(* A record extends a journal of the same session, takes no preparation    *)
(* back, and ends a session only when its rollback is verified.            *)
ExtendsBy(j, k) ==
  /\ k \in JournalState /\ k.session = j.session
  /\ \A a \in Action : j.progress[a] # "none" => k.progress[a] # "none"
  /\ j.phase # "clean"
  /\ k.phase = "clean" => j.verified
  /\ Activating(k) => Activating(j)
  /\ RollbackComplete(j) => RollbackComplete(k)

LEMMA SessionRecordsExtend ==
  ASSUME NEW j \in JournalState, NEW k \in SessionRecords(j)
  PROVE  /\ ExtendsBy(j, k)
         /\ \A a \in Action : k.progress[a] = j.progress[a]
  <1> USE DEF JournalState, Phase, ExtendsBy, RollbackComplete, Activating
  <1>1. CASE k = Committed(j) /\ MayCommit(j)
    BY <1>1 DEF Committed, MayCommit
  <1>2. CASE k = RollbackStarted(j) /\ MayStartRollback(j)
    BY <1>2 DEF RollbackStarted, MayStartRollback
  <1>3. CASE k = RollbackVerified(j) /\ MayVerifyRollback(j)
    BY <1>3 DEF RollbackVerified, MayVerifyRollback
  <1>4. CASE k = Stopped(j) /\ MayStop(j)
    BY <1>4 DEF Stopped, MayStop
  <1>5. CASE k = RecoveryRequired(j) /\ MayRequireRecovery(j)
    BY <1>5 DEF RecoveryRequired, MayRequireRecovery
  <1> QED BY <1>1, <1>2, <1>3, <1>4, <1>5 DEF SessionRecords

LEMMA ActionRecordExtends ==
  ASSUME NEW j \in JournalState, NEW a \in Action, NEW k,
         \/ k = Prepared(j, a) /\ MayPrepare(j, a)
         \/ k = Applied(j, a) /\ MayApply(j, a)
         \/ k = Verified(j, a) /\ MayVerify(j, a)
         \/ k = RolledBack(j, a) /\ MayRollBack(j, a)
  PROVE  /\ ExtendsBy(j, k) /\ k \in Extensions(j)
         /\ \A b \in Action : b # a => k.progress[b] = j.progress[b]
         /\ k.progress[a] = "rolledBack" => k = RolledBack(j, a) /\ MayRollBack(j, a)
         /\ k.progress[a] # "none"
  <1>0. /\ "prepared" \in Progress /\ "applied" \in Progress
        /\ "verified" \in Progress /\ "rolledBack" \in Progress
    BY DEF Progress
  <1>1. CASE k = Prepared(j, a) /\ MayPrepare(j, a)
    <2>1. k \in Extensions(j)
      BY <1>1 DEF Extensions, ActionRecords
    <2> DEFINE m == Marked(j, a, "prepared")
    <2>2. /\ m \in JournalState /\ m.session = j.session
          /\ m.phase = j.phase /\ m.verified = j.verified
          /\ \A b \in Action : m.progress[b] = IF b = a THEN "prepared" ELSE j.progress[b]
      BY <1>0 DEF Marked, JournalState
    <2>3. k = m
      BY <1>1 DEF Prepared
    <2> HIDE DEF m
    <2> QED
      BY <1>1, <2>1, <2>2, <2>3 DEF MayPrepare, ExtendsBy, Activating, RollbackComplete
  <1>2. CASE k = Applied(j, a) /\ MayApply(j, a)
    <2>1. k \in Extensions(j)
      BY <1>2 DEF Extensions, ActionRecords
    <2> DEFINE m == Marked(j, a, "applied")
    <2>2. /\ m \in JournalState /\ m.session = j.session /\ m.verified = j.verified
          /\ \A b \in Action : m.progress[b] = IF b = a THEN "applied" ELSE j.progress[b]
      BY <1>0 DEF Marked, JournalState
    <2>3. k = [m EXCEPT !.phase = "applying"]
      BY <1>2 DEF Applied
    <2> HIDE DEF m
    <2>4. /\ k \in JournalState /\ k.session = j.session /\ k.verified = j.verified
          /\ k.progress = m.progress /\ k.phase = "applying"
      BY <2>2, <2>3 DEF JournalState, Phase
    <2> QED
      BY <1>2, <2>1, <2>2, <2>4 DEF MayApply, ExtendsBy, Activating, RollbackComplete
  <1>3. CASE k = Verified(j, a) /\ MayVerify(j, a)
    <2>1. k \in Extensions(j)
      BY <1>3 DEF Extensions, ActionRecords
    <2> DEFINE m == Marked(j, a, "verified")
    <2>2. /\ m \in JournalState /\ m.session = j.session
          /\ m.phase = j.phase /\ m.verified = j.verified
          /\ \A b \in Action : m.progress[b] = IF b = a THEN "verified" ELSE j.progress[b]
      BY <1>0 DEF Marked, JournalState
    <2>3. k = m
      BY <1>3 DEF Verified
    <2> HIDE DEF m
    <2> QED
      BY <1>3, <2>1, <2>2, <2>3 DEF MayVerify, ExtendsBy, Activating, RollbackComplete
  <1>4. CASE k = RolledBack(j, a) /\ MayRollBack(j, a)
    <2>1. k \in Extensions(j)
      BY <1>4 DEF Extensions, ActionRecords
    <2> DEFINE m == Marked(j, a, "rolledBack")
    <2>2. /\ m \in JournalState /\ m.session = j.session
          /\ m.phase = j.phase /\ m.verified = j.verified
          /\ \A b \in Action : m.progress[b] = IF b = a THEN "rolledBack" ELSE j.progress[b]
      BY <1>0 DEF Marked, JournalState
    <2>3. k = m
      BY <1>4 DEF RolledBack
    <2> HIDE DEF m
    <2> QED
      BY <1>4, <2>1, <2>2, <2>3 DEF MayRollBack, ExtendsBy, Activating, RollbackComplete
  <1> QED BY <1>1, <1>2, <1>3, <1>4

LEMMA RecordsExtend ==
  ASSUME NEW j \in JournalState, NEW k \in Extensions(j)
  PROVE  ExtendsBy(j, k)
  BY SessionRecordsExtend, ActionRecordExtends DEF Extensions, ActionRecords

-----------------------------------------------------------------------------
(* The records an owner asks for extend its own journal, and it records    *)
(* the rollback of a change only when the change is not in effect.         *)
OwnerAsks(next) ==
  /\ owner.pc = "running" /\ next \in Extensions(owner.state)
  /\ AppendAndPersist(next)
  /\ \A a \in Action :
       Mutation(a) \in effects /\ owner.state.progress[a] \notin {"none", "rolledBack"} =>
         next.progress[a] \notin {"none", "rolledBack"}

LEMMA OwnerRecords ==
  ASSUME ShapeInv, RecordSession \/ \E a \in Action : RecordAction(a)
  PROVE  \E next \in Extensions(owner.state) : OwnerAsks(next)
  <1> USE DEF ShapeInv, OwnerShape
  <1>1. CASE RecordSession
    <2>1. owner.pc = "running" /\ owner.state \in JournalState
      BY <1>1 DEF RecordSession
    <2>2. PICK next \in SessionRecords(owner.state) : AppendAndPersist(next)
      BY <1>1 DEF RecordSession
    <2>3. \A a \in Action : next.progress[a] = owner.state.progress[a]
      BY <2>1, SessionRecordsExtend
    <2> QED BY <2>1, <2>2, <2>3 DEF Extensions, OwnerAsks
  <1>2. ASSUME NEW a \in Action, RecordAction(a)
        PROVE  \E next \in Extensions(owner.state) : OwnerAsks(next)
    <2>1. owner.pc = "running" /\ owner.state \in JournalState
      BY <1>2 DEF RecordAction
    <2>2. PICK next :
            /\ AppendAndPersist(next)
            /\ \/ next = Prepared(owner.state, a) /\ MayPrepare(owner.state, a)
               \/ next = Applied(owner.state, a) /\ MayApply(owner.state, a)
               \/ next = Verified(owner.state, a) /\ MayVerify(owner.state, a)
               \/ /\ next = RolledBack(owner.state, a) /\ MayRollBack(owner.state, a)
                  /\ Mutation(a) \notin effects
      BY <1>2 DEF RecordAction
    <2>3. /\ next \in Extensions(owner.state)
          /\ \A b \in Action : b # a => next.progress[b] = owner.state.progress[b]
          /\ next.progress[a] # "none"
      BY <2>1, <2>2, ActionRecordExtends
    <2>4. next.progress[a] = "rolledBack" => Mutation(a) \notin effects
      <3>1. CASE Mutation(a) \notin effects
        BY <3>1
      <3>2. CASE next = Prepared(owner.state, a) \/ next = Verified(owner.state, a)
        BY <3>2, <2>1 DEF Prepared, Verified, Marked, JournalState
      <3>3. CASE next = Applied(owner.state, a)
        BY <3>3, <2>1 DEF Applied, Marked, JournalState
      <3> QED BY <2>2, <3>1, <3>2, <3>3
    <2> QED BY <2>1, <2>2, <2>3, <2>4 DEF OwnerAsks
  <1> QED BY <1>1, <1>2

(* What becomes of a record the owner asks for: it is on disk, or the      *)
(* owner does not count on it.                                             *)
LEMMA RecordOutcome ==
  ASSUME ShapeInv, NEW next \in Extensions(owner.state), OwnerAsks(next)
  PROVE  /\ owner.pc = "running" /\ owner.state \in JournalState
         /\ ExtendsBy(owner.state, next)
         /\ \/ owner' = [owner EXCEPT !.state = next] /\ journal' = next
            \/ owner' = owner /\ journal' \in {journal, next}
         /\ \/ journal' = journal
            \/ journal \in JournalState /\ ExtendsBy(journal, journal')
         /\ safeMode' \in Marker \cup {NONE, CORRUPT}
         /\ UNCHANGED <<registration, nextSession, effects, tool, calm>>
  <1>1. owner.pc = "running" /\ owner.state \in JournalState
    BY DEF ShapeInv, OwnerShape, OwnerAsks
  <1>2. next \in JournalState /\ ExtendsBy(owner.state, next)
    BY <1>1, RecordsExtend DEF ExtendsBy
  <1>3. PICK ok \in BOOLEAN :
          /\ PersistTransition(next, ok, ~calm)
          /\ owner' = IF ok THEN [owner EXCEPT !.state = next] ELSE owner
    BY DEF OwnerAsks, AppendAndPersist
  <1>4. UNCHANGED <<registration, nextSession, effects, tool, calm>>
    BY DEF OwnerAsks, AppendAndPersist
  <1>5. safeMode \in Marker \cup {NONE, CORRUPT}
    BY DEF ShapeInv, RecoveryTypeOK
  <1>6. /\ next.session \in Session
        /\ journal \in JournalState => journal.session \in Session
    BY <1>2 DEF JournalState
  <1>7. \A s \in Session : MarkerFor(s) \in Marker
    BY DEF MarkerFor, Marker
  <1>8. CASE journal = next /\ ok /\ UNCHANGED <<journal, safeMode>>
    BY <1>1, <1>2, <1>3, <1>4, <1>5, <1>8
  <1>9. CASE /\ journal \in JournalState
             /\ next \in Extensions(journal) \ {journal}
             /\ Persist(next, ok)
             /\ IF ok THEN UNCHANGED safeMode
                      ELSE TryMarker(MarkerFor(next.session), ~calm)
    <2>1. ExtendsBy(journal, next)
      BY <1>9, RecordsExtend
    <2> QED
      BY <1>1, <1>2, <1>3, <1>4, <1>5, <1>6, <1>7, <1>9, <2>1 DEF Persist, TryMarker
  <1>10. CASE /\ ~ok
              /\ UNCHANGED journal
              /\ TryMarker(MarkerFor(IF journal \in JournalState THEN journal.session
                                                                 ELSE next.session), ~calm)
    BY <1>1, <1>2, <1>3, <1>4, <1>5, <1>6, <1>7, <1>10 DEF TryMarker
  <1> QED BY <1>3, <1>8, <1>9, <1>10 DEF PersistTransition

(* A start that is refused changes no journal; one that is not follows a   *)
(* clean journal or none.                                                  *)
LEMMA BeginOutcome ==
  ASSUME ShapeInv, NEW s \in Session, NEW ok \in BOOLEAN,
         BeginActivation(s, ok, ~calm)
  PROVE  /\ safeMode' \in Marker \cup {NONE, CORRUPT}
         /\ \/ /\ journal = NONE \/ IsClean(journal)
               /\ ok => journal' = Initial(s)
               /\ journal' \in {journal, Initial(s)}
            \/ ~ok /\ journal' = journal
  <1>1. safeMode \in Marker \cup {NONE, CORRUPT}
        /\ journal \in JournalState \cup {NONE, CORRUPT}
    BY DEF ShapeInv, RecoveryTypeOK
  <1>2. \A x \in Session \cup {NONE} : MarkerFor(x) \in Marker
    BY DEF MarkerFor, Marker
  <1>3. journal \in JournalState => journal.session \in Session
    BY DEF JournalState
  <1>4. CASE /\ MayBegin(s)
             /\ Persist(Initial(s), ok)
             /\ IF ok THEN UNCHANGED safeMode ELSE TryMarker(MarkerFor(s), ~calm)
    BY <1>1, <1>2, <1>4 DEF MayBegin, Persist, TryMarker
  <1>5. CASE /\ ~MayBegin(s) /\ ~ok /\ UNCHANGED journal
             /\ IF safeMode # NONE THEN UNCHANGED safeMode
                ELSE TryMarker(MarkerFor(IF journal = CORRUPT THEN NONE
                                         ELSE journal.session), ~calm)
    BY <1>1, <1>2, <1>3, <1>5 DEF MayBegin, TryMarker
  <1> QED BY <1>4, <1>5 DEF BeginActivation

(* A marker that is tried is a marker.                                     *)
LEMMA MarkersAreTyped ==
  ASSUME safeMode \in Marker \cup {NONE, CORRUPT}, NEW s \in Session \cup {NONE},
         NEW manual \in BOOLEAN, NEW faulty \in BOOLEAN,
         TryMarker([session |-> s, manual |-> manual], faulty)
  PROVE  safeMode' \in Marker \cup {NONE, CORRUPT}
  BY DEF Marker, TryMarker

(* The fresh machine.                                                      *)
LEMMA RecoveryInitEstablishes == RecoveryInit => RecoveryInv
  <1> SUFFICES ASSUME RecoveryInit PROVE RecoveryInv
    OBVIOUS
  <1>1. ShapeInv
    BY DEF RecoveryInit, ShapeInv, RecoveryTypeOK, OwnerShape, ToolShape, OwnerDown,
           ToolIdle, OwnerPc, ToolPc
  <1>2. /\ CleanMeansUndone /\ EffectsHaveAuthority /\ VolatileFollowsDurable
        /\ OwnerKnowsEffects /\ ActiveOwnerIsRegistered
        /\ ToolReadsTruth /\ ToolProgress
    BY DEF RecoveryInit, OwnerDown, ToolIdle, CleanMeansUndone, EffectsHaveAuthority,
           VolatileFollowsDurable, OwnerKnowsEffects, ActiveOwnerIsRegistered,
           ToolReadsTruth, ToolProgress, Starting
  <1> QED BY <1>1, <1>2 DEF RecoveryInv, EffectsInv

(* The owner's steps keep the types and what the owner keeps.              *)
LEMMA OwnerKeepsShape ==
  ASSUME ShapeInv, OwnerNext
  PROVE  ShapeInv'
  <1> USE DEF ShapeInv, RecoveryTypeOK, OwnerShape, ToolShape, files, OwnerPc, OwnerDown
  <1>1. CASE StartOwner
    <2>1. safeMode' \in Marker \cup {NONE, CORRUPT}
      <3>1. CASE journal \in JournalState
        <4>1. journal.session \in Session
          BY <3>1 DEF JournalState
        <4> QED BY <1>1, <4>1, <3>1, MarkersAreTyped DEF StartOwner, AssessStartup, MarkerFor
      <3>2. CASE journal \notin JournalState
        BY <1>1, <3>2, MarkersAreTyped DEF StartOwner, AssessStartup, MarkerFor, StartsClean
      <3> QED BY <3>1, <3>2
    <2> QED BY <1>1, <2>1 DEF StartOwner, AssessStartup
  <1>2. CASE Register
    BY <1>2 DEF Register
  <1>3. CASE Begin
    <2>1. PICK ok \in BOOLEAN :
            /\ BeginActivation(owner.session, ok, ~calm)
            /\ owner' = IF ok THEN [owner EXCEPT !.pc = "running",
                                                 !.state = Initial(owner.session)]
                              ELSE OwnerDown
      BY <1>3 DEF Begin
    <2>2. owner.pc = "registered" /\ owner.session \in Session
          /\ UNCHANGED <<registration, nextSession, effects, tool, calm>>
      BY <1>3 DEF Begin
    <2>3. /\ safeMode' \in Marker \cup {NONE, CORRUPT}
          /\ journal' \in {journal, Initial(owner.session)}
      BY <2>1, <2>2, BeginOutcome
    <2>4. Initial(owner.session) \in JournalState
          /\ Initial(owner.session).session = owner.session
      BY <2>2, InitialFacts
    <2> QED BY <2>1, <2>2, <2>3, <2>4
  <1>4. CASE RecordSession \/ \E a \in Action : RecordAction(a)
    <2>1. PICK next \in Extensions(owner.state) : OwnerAsks(next)
      BY <1>4, OwnerRecords
    <2>2. /\ owner.pc = "running" /\ ExtendsBy(owner.state, next)
          /\ \/ owner' = [owner EXCEPT !.state = next] /\ journal' = next
             \/ owner' = owner /\ journal' \in {journal, next}
          /\ safeMode' \in Marker \cup {NONE, CORRUPT}
          /\ UNCHANGED <<registration, nextSession, effects, tool, calm>>
      BY <2>1, RecordOutcome
    <2>3. next \in JournalState /\ next.session = owner.session
      BY <2>2 DEF ExtendsBy
    <2> QED BY <2>2, <2>3
  <1>5. CASE (\E a \in Action : Mutate(a)) \/ MutationEnds
    BY <1>5 DEF Mutate, MutationEnds, Mutation
  <1>6. CASE CloseOwner \/ OwnerDies
    BY <1>6 DEF CloseOwner, OwnerDies
  <1> QED BY <1>1, <1>2, <1>3, <1>4, <1>5, <1>6 DEF OwnerNext

(* Where a decision leads, and what has been read then.                    *)
LEMMA DecideOutcome ==
  ASSUME ShapeInv, Decide
  PROVE  /\ \/ tool' = ToolIdle
            \/ /\ tool' = [tool EXCEPT !.pc = "preflight"]
               /\ tool.registration \in Session
               /\ \/ tool.journal = NONE
                  \/ /\ tool.journal \in JournalState
                     /\ tool.journal.session = tool.registration
            \/ tool' = [tool EXCEPT !.pc = "mark"] /\ tool.journal \in JournalState
            \/ tool' = [tool EXCEPT !.pc = "clear"] /\ IsClean(tool.journal)
         /\ UNCHANGED <<files, nextSession, owner, effects, calm>>
  <1>1. /\ tool.journal \in JournalState \cup {NONE, CORRUPT}
        /\ tool.registration \in Session \cup {NONE, CORRUPT}
    BY DEF ShapeInv, RecoveryTypeOK
  <1>2. tool.journal \notin JournalState /\ Found = "recoverable" =>
          tool.journal = NONE /\ tool.registration \in Session
    BY <1>1 DEF Found, Inspection, Readable
  <1>3. tool.journal \in JournalState /\ Found \notin {"clean", "recoveryRequired"}
          /\ ~IsClean(tool.journal) =>
          tool.registration \in Session /\ tool.journal.session = tool.registration
    BY <1>1 DEF Found, Inspection, Readable, Correlated
  <1> QED BY <1>1, <1>2, <1>3 DEF Decide, IsClean

(* The tool's steps, and the disk's, keep the types and what must be read. *)
LEMMA ToolKeepsShape ==
  ASSUME ShapeInv, ReadJournal \/ ToolStep \/ ToolDies \/ ReadForManual \/ DisableManual
  PROVE  ShapeInv'
  <1> USE DEF ShapeInv, RecoveryTypeOK, OwnerShape, ToolShape, files, ToolPc, ToolIdle
  <1>1. CASE ReadJournal \/ ReadMarker \/ ReadRegistration
    BY <1>1 DEF ReadJournal, ReadMarker, ReadRegistration
  <1>2. CASE Decide
    BY <1>2, DecideOutcome DEF IsClean
  <1>3. CASE StopOwner
    BY <1>3 DEF StopOwner, AfterFailure, OwnerDown, OwnerPc
  <1>4. CASE RollBackChanges
    <2>1. effects' \subseteq effects
      BY <1>4 DEF RollBackChanges
    <2> QED BY <1>4, <2>1 DEF RollBackChanges, AfterFailure
  <1>5. CASE Promote
    <2>1. PICK ok \in BOOLEAN :
            /\ BeginActivation(tool.registration, ok, ~calm)
            /\ tool' = IF ok THEN [tool EXCEPT !.pc = "mark",
                                     !.journal = Initial(tool.registration)]
                             ELSE ToolIdle
      BY <1>5 DEF Promote
    <2>2. /\ tool.registration \in Session
          /\ UNCHANGED <<registration, nextSession, owner, effects, calm>>
      BY <1>5 DEF Promote
    <2>3. /\ safeMode' \in Marker \cup {NONE, CORRUPT}
          /\ journal' \in {journal, Initial(tool.registration)}
      BY <2>1, <2>2, BeginOutcome
    <2>4. Initial(tool.registration) \in JournalState
      BY <2>2, InitialFacts
    <2> QED BY <2>1, <2>2, <2>3, <2>4
  <1>6. CASE WriteRecoveryMarker
    <2>1. tool.journal.session \in Session
      BY <1>6 DEF WriteRecoveryMarker, JournalState
    <2>2. safeMode' \in Marker \cup {NONE, CORRUPT}
      BY <1>6, <2>1, MarkersAreTyped DEF WriteRecoveryMarker, MarkerFor
    <2> QED BY <1>6, <2>2 DEF WriteRecoveryMarker
  <1>7. CASE ReplaceWithClean
    <2>1. tool.journal.session \in Session
      BY <1>7 DEF ReplaceWithClean, JournalState
    <2>2. journal' \in JournalState \cup {NONE, CORRUPT}
      BY <1>7, <2>1, VerifiedCleanFacts DEF ReplaceWithClean, Persist
    <2> QED BY <1>7, <2>2 DEF ReplaceWithClean
  <1>8. CASE ClearSafeMode \/ RemoveRegistration
    BY <1>8 DEF ClearSafeMode, RemoveRegistration
  <1>9. CASE EnableManual
    <2>1. (IF tool.journal = NONE THEN NONE ELSE tool.journal.session) \in Session \cup {NONE}
      BY <1>9 DEF EnableManual, JournalState
    <2>2. safeMode' \in Marker \cup {NONE, CORRUPT}
      BY <1>9, <2>1, MarkersAreTyped DEF EnableManual
    <2> QED BY <1>9, <2>2 DEF EnableManual
  <1>10. CASE ToolDies
    BY <1>10 DEF ToolDies
  <1>11. CASE ReadForManual
    BY <1>11 DEF ReadForManual
  <1>12. CASE DisableManual
    BY <1>12 DEF DisableManual
  <1> QED
    BY <1>1, <1>2, <1>3, <1>4, <1>5, <1>6, <1>7, <1>8, <1>9, <1>10,
       <1>11, <1>12
    DEF ToolStep

(* No step breaks the types, serialized or not.                            *)
LEMMA ShapeStep ==
  ShapeInv /\ [RecoveryNext]_recoveryVars => ShapeInv'
  <1> SUFFICES ASSUME ShapeInv, [RecoveryNext]_recoveryVars
               PROVE  ShapeInv'
    OBVIOUS
  <1>1. CASE OwnerNext
    BY <1>1, OwnerKeepsShape
  <1>2. CASE ReadJournal \/ ToolStep \/ ToolDies \/ ReadForManual \/ DisableManual
    BY <1>2, ToolKeepsShape
  <1>3. CASE Damage \/ Calm \/ UNCHANGED recoveryVars
    BY <1>3
    DEF Damage, Calm, recoveryVars, files, ShapeInv, RecoveryTypeOK, OwnerShape, ToolShape
  <1> QED BY <1>1, <1>2, <1>3 DEF RecoveryNext

(* The protocol's state is well typed, whether or not starts and resets    *)
(* are serialized.                                                         *)
THEOREM RecoveryTypeCorrect == RecoverySpec => []RecoveryTypeOK
  <1>1. RecoveryInit => ShapeInv
    BY RecoveryInitEstablishes DEF RecoveryInv
  <1>2. ShapeInv => RecoveryTypeOK
    BY DEF ShapeInv
  <1> QED BY <1>1, <1>2, ShapeStep, PTL DEF RecoverySpec

-----------------------------------------------------------------------------
(* Steps that leave the files' evidence, the owner and its changes alone,  *)
(* and steps that leave alone what the tool's knowledge is about.          *)
LEMMA EffectsStay ==
  ASSUME EffectsInv, UNCHANGED <<journal, registration, owner, effects>>
  PROVE  EffectsInv'
  BY DEF EffectsInv, CleanMeansUndone, EffectsHaveAuthority, VolatileFollowsDurable,
     OwnerKnowsEffects, ActiveOwnerIsRegistered, Starting, Mutation, IsClean

LEMMA ToolKnowledgeStays ==
  ASSUME ToolReadsTruth, ToolProgress, UNCHANGED <<journal, tool, owner, effects>>
  PROVE  ToolReadsTruth' /\ ToolProgress'
  BY DEF ToolReadsTruth, ToolProgress, Starting, IsClean

LEMMA IdleToolKnowsNothing ==
  ASSUME tool'.pc = "idle"
  PROVE  ToolReadsTruth' /\ ToolProgress'
  BY DEF ToolReadsTruth, ToolProgress

(* What a running owner holds is about the journal on disk.                *)
LEMMA RunningOwner ==
  ASSUME RecoveryInv, owner.pc = "running"
  PROVE  /\ owner.state \in JournalState /\ owner.state.session = owner.session
         /\ journal # NONE /\ owner.session \in Session
         /\ journal \in JournalState => journal.session = owner.session
         /\ IsClean(journal) => ~Activating(owner.state)
         /\ owner.state.phase = "clean" => effects = {}
         /\ owner.state.verified => effects = {}
  <1> USE DEF RecoveryInv, EffectsInv
  <1>1. /\ owner.state \in JournalState /\ owner.state.session = owner.session
        /\ owner.session \in Session
    BY DEF ShapeInv, OwnerShape
  <1>2. journal # NONE /\ RollbackComplete(owner.state)
    BY DEF OwnerKnowsEffects
  <1>3. journal \in JournalState =>
          journal = owner.state \/ ExtendsBy(owner.state, journal)
    BY <1>1, RecordsExtend DEF VolatileFollowsDurable
  <1>4. owner.state.phase = "clean" \/ owner.state.verified => effects = {}
    <2>1. \A e \in effects : e[2] \in Action
      BY DEF ShapeInv, RecoveryTypeOK
    <2> QED BY <1>2, <2>1 DEF RollbackComplete, OwnerKnowsEffects
  <1>5. journal \in JournalState => journal.session = owner.session
    BY <1>1, <1>3 DEF ExtendsBy
  <1>6. IsClean(journal) => ~Activating(owner.state)
    BY <1>2, <1>3 DEF IsClean, ExtendsBy, RollbackComplete, Activating
  <1> QED BY <1>1, <1>2, <1>4, <1>5, <1>6

-----------------------------------------------------------------------------
LEMMA StartOwnerPreserves ==
  ASSUME RecoveryInv, Serialized, StartOwner
  PROVE  EffectsInv' /\ ToolReadsTruth' /\ ToolProgress'
  <1> USE DEF RecoveryInv
  <1>1. /\ owner.pc = "down" /\ tool.pc = "idle"
        /\ UNCHANGED <<journal, registration, effects, tool>>
    BY DEF StartOwner, AssessStartup
  <1>2. CASE UNCHANGED owner
    BY <1>1, <1>2, EffectsStay, IdleToolKnowsNothing
  <1>3. CASE StartsClean /\ owner' = [pc |-> "assessed", session |-> nextSession, state |-> NONE]
    <2>1. effects = {}
      BY <1>3 DEF StartsClean, EffectsInv, CleanMeansUndone
    <2> QED
      BY <1>1, <1>3, <2>1, IdleToolKnowsNothing
      DEF EffectsInv, CleanMeansUndone, EffectsHaveAuthority, VolatileFollowsDurable,
          OwnerKnowsEffects, ActiveOwnerIsRegistered
  <1> QED BY <1>2, <1>3 DEF StartOwner

(* While an owner starts no change is in effect and no tool runs.          *)
LEMMA StartingIsAlone ==
  ASSUME RecoveryInv, Starting
  PROVE  effects = {} /\ tool.pc = "idle"
  BY DEF RecoveryInv, EffectsInv, OwnerKnowsEffects, ToolReadsTruth

LEMMA RegisterPreserves ==
  ASSUME RecoveryInv, Register
  PROVE  EffectsInv' /\ ToolReadsTruth' /\ ToolProgress'
  <1>1. effects = {} /\ tool.pc = "idle" /\ UNCHANGED <<journal, effects, tool>>
    BY StartingIsAlone DEF Register, Starting
  <1>2. owner.pc = "assessed"
        /\ \/ owner' = [owner EXCEPT !.pc = "registered"] /\ registration' = owner.session
           \/ owner' = OwnerDown
    BY DEF Register
  <1>3. owner \in [pc : OwnerPc, session : Session \cup {NONE}, state : JournalState \cup {NONE}]
    BY DEF RecoveryInv, ShapeInv, RecoveryTypeOK
  <1> QED
    BY <1>1, <1>2, <1>3, IdleToolKnowsNothing
    DEF EffectsInv, CleanMeansUndone, EffectsHaveAuthority, VolatileFollowsDurable,
        OwnerKnowsEffects, ActiveOwnerIsRegistered, OwnerDown

LEMMA BeginPreserves ==
  ASSUME RecoveryInv, Begin
  PROVE  EffectsInv' /\ ToolReadsTruth' /\ ToolProgress'
  <1>1. /\ effects = {} /\ tool.pc = "idle"
        /\ UNCHANGED <<registration, effects, tool>>
        /\ owner.pc = "registered" /\ owner.session \in Session
        /\ registration \in {owner.session, CORRUPT}
    BY StartingIsAlone
    DEF Begin, Starting, RecoveryInv, EffectsInv, ActiveOwnerIsRegistered, ShapeInv, OwnerShape
  <1>2. PICK ok \in BOOLEAN :
          /\ BeginActivation(owner.session, ok, ~calm)
          /\ owner' = IF ok THEN [owner EXCEPT !.pc = "running",
                                               !.state = Initial(owner.session)]
                            ELSE OwnerDown
    BY DEF Begin
  <1>3. ok => journal' = Initial(owner.session)
    BY <1>1, <1>2, BeginOutcome DEF RecoveryInv
  <1>4. Initial(owner.session) \in JournalState /\ RollbackComplete(Initial(owner.session))
    BY <1>1, InitialFacts
  <1>5. owner \in [pc : OwnerPc, session : Session \cup {NONE}, state : JournalState \cup {NONE}]
    BY DEF RecoveryInv, ShapeInv, RecoveryTypeOK
  <1>6. ok => /\ owner'.pc = "running" /\ owner'.session = owner.session
              /\ owner'.state = Initial(owner.session)
    BY <1>2, <1>5
  <1>7. ~ok => owner'.pc = "down"
    BY <1>2 DEF OwnerDown
  <1>8. CleanMeansUndone' /\ EffectsHaveAuthority'
    BY <1>1 DEF CleanMeansUndone, EffectsHaveAuthority
  <1>9. VolatileFollowsDurable' /\ ActiveOwnerIsRegistered'
    BY <1>1, <1>3, <1>6, <1>7 DEF VolatileFollowsDurable, ActiveOwnerIsRegistered
  <1>10. OwnerKnowsEffects'
    BY <1>1, <1>3, <1>4, <1>6, <1>7 DEF OwnerKnowsEffects
  <1> QED BY <1>1, <1>8, <1>9, <1>10, IdleToolKnowsNothing DEF EffectsInv

(* A record of the owner, whether its write succeeds or not.               *)
LEMMA RecordPreserves ==
  ASSUME RecoveryInv, RecordSession \/ \E a \in Action : RecordAction(a)
  PROVE  EffectsInv' /\ ToolReadsTruth' /\ ToolProgress'
  <1>0. ShapeInv
    BY DEF RecoveryInv
  <1>1. PICK next \in Extensions(owner.state) : OwnerAsks(next)
    BY <1>0, OwnerRecords
  <1>2. /\ owner.pc = "running" /\ owner.state \in JournalState
        /\ ExtendsBy(owner.state, next)
        /\ \/ owner' = [owner EXCEPT !.state = next] /\ journal' = next
           \/ owner' = owner /\ journal' \in {journal, next}
        /\ \/ journal' = journal
           \/ journal \in JournalState /\ ExtendsBy(journal, journal')
        /\ UNCHANGED <<registration, effects, tool>>
    BY <1>0, <1>1, RecordOutcome
  <1>3. /\ owner.state.session = owner.session /\ journal # NONE
        /\ owner.state.verified => effects = {}
        /\ IsClean(journal) => ~Activating(owner.state)
    BY <1>2, RunningOwner
  <1>4. owner \in [pc : OwnerPc, session : Session \cup {NONE}, state : JournalState \cup {NONE}]
    BY <1>0 DEF ShapeInv, RecoveryTypeOK
  <1>5. \/ /\ owner'.pc = "running" /\ owner'.session = owner.session
           /\ owner'.state = next /\ journal' = next
        \/ owner' = owner /\ journal' \in {journal, next}
    BY <1>2, <1>4
  <1>6. owner'.pc = "running" /\ owner'.session = owner.session
    BY <1>2, <1>5
  <1>7. /\ next \in JournalState /\ next.session = owner.session
        /\ next.phase = "clean" => effects = {}
        /\ Activating(next) => Activating(owner.state)
        /\ RollbackComplete(owner.state) => RollbackComplete(next)
    BY <1>2, <1>3 DEF ExtendsBy
  <1>8. \A e \in effects : e[1] = owner.session /\ e[2] \in Action /\ e = Mutation(e[2])
    BY <1>0, <1>2 DEF ShapeInv, RecoveryTypeOK, RecoveryInv, EffectsInv, OwnerKnowsEffects, Mutation
  <1>9. \A e \in effects : next.progress[e[2]] \notin {"none", "rolledBack"}
    BY <1>1, <1>2, <1>8 DEF OwnerAsks, RecoveryInv, EffectsInv, OwnerKnowsEffects
  <1>10. CleanMeansUndone'
    BY <1>2, <1>5, <1>7 DEF RecoveryInv, EffectsInv, CleanMeansUndone, IsClean
  <1>11. EffectsHaveAuthority'
    BY <1>2, <1>5, <1>7, <1>8, <1>9 DEF RecoveryInv, EffectsInv, EffectsHaveAuthority
  <1>12. VolatileFollowsDurable'
    <2>1. CASE owner' = owner
      BY <1>1, <1>2, <1>5, <2>1 DEF RecoveryInv, EffectsInv, VolatileFollowsDurable
    <2>2. CASE owner'.state = next /\ journal' = next
      BY <2>2 DEF VolatileFollowsDurable
    <2> QED BY <1>5, <2>1, <2>2
  <1>13. OwnerKnowsEffects'
    <2>1. /\ RollbackComplete(owner.state)
          /\ \A e, f \in effects : e[1] = f[1]
          /\ \A e \in effects : owner.state.progress[e[2]] \notin {"none", "rolledBack"}
      BY <1>2 DEF RecoveryInv, EffectsInv, OwnerKnowsEffects
    <2>2. journal' # NONE /\ ~Starting' /\ effects' = effects
      BY <1>2, <1>3, <1>5, <1>6, <1>7 DEF Starting
    <2>3. owner'.state \in {next, owner.state}
      BY <1>5
    <2>4. RollbackComplete(owner'.state)
      BY <1>7, <2>1, <2>3
    <2>5. RollbackComplete(owner.state)'
      BY <2>4 DEF RollbackComplete
    <2> QED BY <1>6, <1>8, <1>9, <2>1, <2>2, <2>3, <2>5 DEF OwnerKnowsEffects
  <1>14. ActiveOwnerIsRegistered'
    BY <1>2, <1>5, <1>6, <1>7 DEF RecoveryInv, EffectsInv, ActiveOwnerIsRegistered, Activating
  <1>15. ToolReadsTruth'
    BY <1>2, <1>3, <1>6 DEF RecoveryInv, ToolReadsTruth, Starting, ExtendsBy, IsClean
  <1>16. ToolProgress'
    BY <1>2, <1>6 DEF RecoveryInv, ToolProgress, ExtendsBy, IsClean
  <1> QED BY <1>10, <1>11, <1>12, <1>13, <1>14, <1>15, <1>16 DEF EffectsInv

(* A change is made under a durable preparation, by a registered owner.    *)
LEMMA MutatePreserves ==
  ASSUME RecoveryInv, NEW a \in Action, Mutate(a)
  PROVE  EffectsInv' /\ ToolReadsTruth' /\ ToolProgress'
  <1>1. /\ owner.pc = "running" /\ Activating(owner.state)
        /\ owner.state.progress[a] = "prepared"
        /\ effects' = effects \cup {<<owner.session, a>>}
        /\ UNCHANGED <<journal, registration, owner, tool>>
    BY DEF Mutate, Mutation, files
  <1>2. /\ owner.state \in JournalState /\ owner.state.session = owner.session
        /\ journal # NONE /\ ~IsClean(journal)
        /\ journal \in JournalState => journal.session = owner.session
    BY <1>1, RunningOwner
  <1>3. journal \in JournalState => journal.progress[a] # "none"
    <2>1. journal \in JournalState =>
            journal = owner.state \/ ExtendsBy(owner.state, journal)
      BY <1>1, <1>2, RecordsExtend DEF RecoveryInv, EffectsInv, VolatileFollowsDurable
    <2> QED BY <1>1, <2>1 DEF ExtendsBy
  <1>4. journal \in JournalState \cup {CORRUPT}
    BY <1>2 DEF RecoveryInv, ShapeInv, RecoveryTypeOK
  <1>5. registration \in {owner.session, CORRUPT}
    BY <1>1 DEF RecoveryInv, EffectsInv, ActiveOwnerIsRegistered
  <1>6. \A e \in effects' : e \in effects \/ (e[1] = owner.session /\ e[2] = a)
    BY <1>1
  <1>7. CleanMeansUndone'
    BY <1>1, <1>2 DEF CleanMeansUndone, IsClean
  <1>8. EffectsHaveAuthority'
    BY <1>1, <1>2, <1>3, <1>4, <1>5, <1>6 DEF RecoveryInv, EffectsInv, EffectsHaveAuthority
  <1>9. VolatileFollowsDurable' /\ ActiveOwnerIsRegistered'
    BY <1>1 DEF RecoveryInv, EffectsInv, VolatileFollowsDurable, ActiveOwnerIsRegistered
  <1>10. OwnerKnowsEffects'
    BY <1>1, <1>6 DEF RecoveryInv, EffectsInv, OwnerKnowsEffects, Starting
  <1>11. ToolReadsTruth' /\ ToolProgress'
    BY <1>1 DEF RecoveryInv, ToolReadsTruth, ToolProgress, Starting, IsClean
  <1> QED BY <1>7, <1>8, <1>9, <1>10, <1>11 DEF EffectsInv

LEMMA MutationEndsPreserves ==
  ASSUME RecoveryInv, MutationEnds
  PROVE  EffectsInv' /\ ToolReadsTruth' /\ ToolProgress'
  BY DEF MutationEnds, files, RecoveryInv, EffectsInv, CleanMeansUndone, EffectsHaveAuthority,
     VolatileFollowsDurable, OwnerKnowsEffects, ActiveOwnerIsRegistered, ToolReadsTruth,
     ToolProgress, Starting, IsClean

LEMMA OwnerLeavesPreserves ==
  ASSUME RecoveryInv, CloseOwner \/ OwnerDies
  PROVE  EffectsInv' /\ ToolReadsTruth' /\ ToolProgress'
  <1>1. owner'.pc = "down" /\ UNCHANGED <<journal, effects, tool>>
    BY DEF CloseOwner, OwnerDies, OwnerDown, files
  <1>2. registration' = registration \/ effects = {}
    <2>1. CASE CloseOwner
      BY <2>1, RunningOwner DEF CloseOwner
    <2>2. CASE OwnerDies
      BY <2>2 DEF OwnerDies, files
    <2> QED BY <2>1, <2>2
  <1> QED
    BY <1>1, <1>2
    DEF RecoveryInv, EffectsInv, CleanMeansUndone, EffectsHaveAuthority,
        VolatileFollowsDurable, OwnerKnowsEffects, ActiveOwnerIsRegistered, ToolReadsTruth,
        ToolProgress, Starting, IsClean

-----------------------------------------------------------------------------
(* The tool reads, decides, and gives up or dies without a change.         *)
LEMMA ReadPreserves ==
  ASSUME RecoveryInv, Serialized, ReadJournal \/ ReadForManual
  PROVE  EffectsInv' /\ ToolReadsTruth' /\ ToolProgress'
  <1>1. /\ ~Starting
        /\ UNCHANGED <<journal, registration, owner, effects>>
        /\ tool'.pc \in {"readMarker", "manual"} /\ tool'.journal = journal
    BY DEF ReadJournal, ReadForManual, MayStartTool, ToolIdle, files
  <1> QED
    BY <1>1, EffectsStay DEF RecoveryInv, ToolReadsTruth, ToolProgress, Starting, IsClean

LEMMA LookPreserves ==
  ASSUME RecoveryInv, ReadMarker \/ ReadRegistration \/ Decide
  PROVE  EffectsInv' /\ ToolReadsTruth' /\ ToolProgress'
  <1>0. tool \in [pc : ToolPc, journal : JournalState \cup {NONE, CORRUPT},
                  marker : Marker \cup {NONE, CORRUPT},
                  registration : Session \cup {NONE, CORRUPT}]
    BY DEF RecoveryInv, ShapeInv, RecoveryTypeOK
  <1>1. UNCHANGED <<journal, registration, owner, effects>>
    BY DEF ReadMarker, ReadRegistration, Decide, files
  <1>2. EffectsInv'
    BY <1>1, EffectsStay DEF RecoveryInv
  <1>3. CASE ReadMarker \/ ReadRegistration
    <2>1. /\ tool'.pc \in {"readRegistration", "decide"} /\ tool.pc # "idle"
          /\ tool'.journal = tool.journal
      BY <1>0, <1>3 DEF ReadMarker, ReadRegistration
    <2> QED BY <1>1, <1>2, <2>1 DEF RecoveryInv, ToolReadsTruth, ToolProgress, Starting, IsClean
  <1>4. CASE Decide
    <2>1. tool.pc = "decide"
      BY <1>4 DEF Decide
    <2>2. \/ tool'.pc = "idle"
          \/ /\ tool'.journal = tool.journal /\ tool'.registration = tool.registration
             /\ \/ /\ tool'.pc = "preflight"
                   /\ \/ tool.journal = NONE
                      \/ tool.journal.session = tool.registration
                \/ tool'.pc = "mark"
                \/ tool'.pc = "clear" /\ IsClean(tool.journal)
      BY <1>0, <1>4, DecideOutcome DEF RecoveryInv, ToolIdle
    <2>3. ToolReadsTruth'
      BY <1>1, <2>1, <2>2 DEF RecoveryInv, ToolReadsTruth, Starting, IsClean
    <2>4. tool'.pc = "clear" => IsClean(journal)'
      BY <1>1, <2>1, <2>2 DEF RecoveryInv, ToolReadsTruth, IsClean
    <2>5. ToolProgress'
      BY <2>2, <2>4 DEF ToolProgress
    <2> QED BY <1>2, <2>3, <2>5
  <1> QED BY <1>3, <1>4

LEMMA GiveUpPreserves ==
  ASSUME RecoveryInv, WriteRecoveryMarker \/ EnableManual \/ ToolDies
  PROVE  EffectsInv' /\ ToolReadsTruth' /\ ToolProgress'
  BY EffectsStay, IdleToolKnowsNothing
  DEF RecoveryInv, WriteRecoveryMarker, EnableManual, ToolDies, files, ToolIdle

LEMMA ClearPreserves ==
  ASSUME RecoveryInv, ClearSafeMode
  PROVE  EffectsInv' /\ ToolReadsTruth' /\ ToolProgress'
  <1>1. /\ tool.pc = "clear" /\ tool' = [tool EXCEPT !.pc = "remove"]
        /\ UNCHANGED <<journal, registration, owner, effects>>
    BY DEF ClearSafeMode
  <1>2. /\ tool'.pc = "remove" /\ tool'.journal = tool.journal
    BY <1>1 DEF RecoveryInv, ShapeInv, RecoveryTypeOK
  <1>3. EffectsInv'
    BY <1>1, EffectsStay DEF RecoveryInv
  <1> QED
    BY <1>1, <1>2, <1>3 DEF RecoveryInv, ToolReadsTruth, ToolProgress, Starting, IsClean

LEMMA DisableManualPreserves ==
  ASSUME RecoveryInv, DisableManual
  PROVE  EffectsInv' /\ ToolReadsTruth' /\ ToolProgress'
  BY EffectsStay, ToolKnowledgeStays DEF RecoveryInv, DisableManual

(* What has been read of the journal tells the tool whom it may stop.      *)
LEMMA ToolKnowsTheOwner ==
  ASSUME RecoveryInv, tool.pc \in {"preflight", "rollback"}
  PROVE  /\ owner.pc = "running" => owner.session = tool.registration
         /\ owner.pc \in {"running", "down"}
         /\ \A e \in effects : e[1] = tool.registration
  <1>1. tool.journal \in JournalState \cup {NONE} /\ ~Starting
        /\ owner.pc \in OwnerPc
    BY DEF RecoveryInv, ShapeInv, RecoveryTypeOK, ToolShape, ToolReadsTruth
  <1>2. CASE tool.journal = NONE
    <2>1. journal = NONE /\ owner.pc # "running"
      BY <1>2, RunningOwner DEF RecoveryInv, ToolReadsTruth
    <2>2. effects = {}
      BY <2>1 DEF RecoveryInv, EffectsInv, CleanMeansUndone
    <2> QED BY <1>1, <2>1, <2>2 DEF OwnerPc, Starting
  <1>3. CASE tool.journal \in JournalState
    <2>1. journal \in JournalState /\ journal.session = tool.registration
      BY <1>3 DEF RecoveryInv, ToolReadsTruth, ToolProgress
    <2>2. \A e \in effects : e[1] = tool.registration
      BY <2>1, FileAssumption DEF RecoveryInv, EffectsInv, EffectsHaveAuthority
    <2> QED BY <1>1, <2>1, <2>2, RunningOwner DEF OwnerPc, Starting
  <1> QED BY <1>1, <1>2, <1>3

LEMMA StopOwnerPreserves ==
  ASSUME RecoveryInv, StopOwner
  PROVE  EffectsInv' /\ ToolReadsTruth' /\ ToolProgress'
  <1>0. /\ tool.pc = "preflight" /\ UNCHANGED <<journal, registration, effects>>
        /\ tool \in [pc : ToolPc, journal : JournalState \cup {NONE, CORRUPT},
                     marker : Marker \cup {NONE, CORRUPT},
                     registration : Session \cup {NONE, CORRUPT}]
    BY DEF StopOwner, files, RecoveryInv, ShapeInv, RecoveryTypeOK
  <1>1. /\ owner.pc = "running" => owner.session = tool.registration
        /\ owner.pc \in {"running", "down"}
    BY <1>0, ToolKnowsTheOwner
  <1>2. owner' = owner \/ owner'.pc = "down"
    BY DEF StopOwner, OwnerDown
  <1>3. /\ tool'.journal = tool.journal /\ tool'.registration = tool.registration
        /\ \/ tool'.pc = "rollback" /\ owner'.pc = "down"
           \/ tool'.pc \in {"promote", "mark"}
    BY <1>0, <1>1 DEF StopOwner, AfterFailure, OwnerDown
  <1>4. EffectsInv'
    <2>1. CASE owner' = owner
      BY <1>0, <2>1, EffectsStay DEF RecoveryInv
    <2>2. CASE owner'.pc = "down"
      BY <1>0, <2>2
      DEF RecoveryInv, EffectsInv, CleanMeansUndone, EffectsHaveAuthority,
          VolatileFollowsDurable, OwnerKnowsEffects, ActiveOwnerIsRegistered, Starting, IsClean
    <2> QED BY <1>2, <2>1, <2>2
  <1>5. ToolReadsTruth'
    BY <1>0, <1>1, <1>2, <1>3 DEF RecoveryInv, ToolReadsTruth, Starting, IsClean
  <1>6. ToolProgress'
    BY <1>0, <1>3 DEF RecoveryInv, ToolProgress
  <1> QED BY <1>4, <1>5, <1>6

LEMMA RollBackPreserves ==
  ASSUME RecoveryInv, RollBackChanges
  PROVE  EffectsInv' /\ ToolReadsTruth' /\ ToolProgress'
  <1>0. /\ tool.pc = "rollback" /\ UNCHANGED <<journal, registration, owner>>
        /\ tool \in [pc : ToolPc, journal : JournalState \cup {NONE, CORRUPT},
                     marker : Marker \cup {NONE, CORRUPT},
                     registration : Session \cup {NONE, CORRUPT}]
    BY DEF RollBackChanges, files, RecoveryInv, ShapeInv, RecoveryTypeOK
  <1>1. effects' \subseteq effects
    BY DEF RollBackChanges
  <1>2. \A e \in effects : e[1] = tool.registration
    BY <1>0, ToolKnowsTheOwner
  <1>3. owner.pc = "down"
    BY <1>0 DEF RecoveryInv, ToolProgress
  <1>4. /\ tool'.journal = tool.journal /\ tool'.registration = tool.registration
        /\ \/ tool'.pc = "remove" /\ tool.journal = NONE
           \/ tool'.pc = "replace" /\ effects' = {}
           \/ tool'.pc \in {"promote", "mark"}
    BY <1>0, <1>2 DEF RollBackChanges, AfterFailure, ChangesOf
  <1>5. EffectsInv'
    BY <1>0, <1>1, <1>3
    DEF RecoveryInv, EffectsInv, CleanMeansUndone, EffectsHaveAuthority,
        VolatileFollowsDurable, OwnerKnowsEffects, ActiveOwnerIsRegistered, Starting, IsClean
  <1>6. ToolReadsTruth'
    BY <1>0, <1>4 DEF RecoveryInv, ToolReadsTruth, Starting, IsClean
  <1>7. ToolProgress'
    BY <1>0, <1>3, <1>4, FileAssumption DEF RecoveryInv, ToolProgress
  <1> QED BY <1>5, <1>6, <1>7

LEMMA PromotePreserves ==
  ASSUME RecoveryInv, Promote
  PROVE  EffectsInv' /\ ToolReadsTruth' /\ ToolProgress'
  <1>1. /\ tool.pc = "promote" /\ journal = NONE /\ ~Starting
        /\ tool.registration \in Session
        /\ UNCHANGED <<registration, owner, effects>>
    BY DEF Promote, RecoveryInv, ShapeInv, ToolShape, ToolReadsTruth
  <1>2. effects = {} /\ owner.pc # "running"
    BY <1>1, RunningOwner DEF RecoveryInv, EffectsInv, CleanMeansUndone
  <1>3. PICK ok \in BOOLEAN :
          /\ BeginActivation(tool.registration, ok, ~calm)
          /\ tool' = IF ok THEN [tool EXCEPT !.pc = "mark",
                                   !.journal = Initial(tool.registration)]
                           ELSE ToolIdle
    BY DEF Promote
  <1>4. /\ ok => journal' = Initial(tool.registration)
        /\ Initial(tool.registration) \in JournalState
    BY <1>1, <1>3, BeginOutcome, InitialFacts DEF RecoveryInv
  <1>5. \/ tool'.pc = "idle"
        \/ ok /\ tool'.pc = "mark" /\ tool'.journal = journal'
    BY <1>3, <1>4 DEF ToolIdle, RecoveryInv, ShapeInv, RecoveryTypeOK
  <1>6. EffectsInv'
    BY <1>1, <1>2
    DEF RecoveryInv, EffectsInv, CleanMeansUndone, EffectsHaveAuthority,
        VolatileFollowsDurable, OwnerKnowsEffects, ActiveOwnerIsRegistered, Starting
  <1>7. journal' \in JournalState \/ tool'.pc = "idle"
    BY <1>4, <1>5
  <1>8. ToolReadsTruth' /\ ToolProgress'
    BY <1>1, <1>5, <1>7 DEF ToolReadsTruth, ToolProgress, Starting, IsClean
  <1> QED BY <1>6, <1>8

LEMMA ReplacePreserves ==
  ASSUME RecoveryInv, ReplaceWithClean
  PROVE  EffectsInv' /\ ToolReadsTruth' /\ ToolProgress'
  <1>1. /\ tool.pc = "replace" /\ tool.journal \in JournalState
        /\ owner.pc = "down" /\ effects = {}
        /\ UNCHANGED <<registration, owner, effects>>
        /\ tool \in [pc : ToolPc, journal : JournalState \cup {NONE, CORRUPT},
                     marker : Marker \cup {NONE, CORRUPT},
                     registration : Session \cup {NONE, CORRUPT}]
    BY DEF ReplaceWithClean, RecoveryInv, ShapeInv, RecoveryTypeOK, ToolShape, ToolProgress
  <1> DEFINE done == VerifiedClean(tool.journal.session)
  <1>2. IsClean(done) /\ done \in JournalState /\ done.session = tool.journal.session
    BY <1>1, VerifiedCleanFacts DEF JournalState
  <1>3. /\ journal' \in {journal, done} /\ tool'.journal = tool.journal
        /\ \/ tool'.pc = "clear" /\ journal' = done
           \/ tool'.pc = "mark"
    BY <1>1 DEF ReplaceWithClean, Persist
  <1> HIDE DEF done
  <1>4. EffectsInv'
    BY <1>1
    DEF RecoveryInv, EffectsInv, CleanMeansUndone, EffectsHaveAuthority,
        VolatileFollowsDurable, OwnerKnowsEffects, ActiveOwnerIsRegistered, Starting
  <1>5. ToolReadsTruth' /\ ToolProgress'
    BY <1>1, <1>2, <1>3 DEF RecoveryInv, ToolReadsTruth, ToolProgress, Starting, IsClean
  <1> QED BY <1>4, <1>5

LEMMA RemovePreserves ==
  ASSUME RecoveryInv, RemoveRegistration
  PROVE  EffectsInv' /\ ToolReadsTruth' /\ ToolProgress'
  <1>1. /\ tool.pc = "remove" /\ tool.journal \in JournalState \cup {NONE}
        /\ ~Starting /\ tool'.pc = "idle"
        /\ UNCHANGED <<journal, owner, effects>>
    BY DEF RemoveRegistration, ToolIdle, RecoveryInv, ShapeInv, ToolShape, ToolReadsTruth
  <1>2. journal = NONE \/ IsClean(journal)
    BY <1>1 DEF RecoveryInv, ToolReadsTruth, ToolProgress
  <1>3. effects = {}
    BY <1>2 DEF RecoveryInv, EffectsInv, CleanMeansUndone
  <1>4. owner.pc = "running" => ~Activating(owner.state)
    BY <1>2, RunningOwner
  <1>5. EffectsInv'
    BY <1>1, <1>3, <1>4
    DEF RecoveryInv, EffectsInv, CleanMeansUndone, EffectsHaveAuthority,
        VolatileFollowsDurable, OwnerKnowsEffects, ActiveOwnerIsRegistered, Starting
  <1> QED BY <1>1, <1>5, IdleToolKnowsNothing

LEMMA DamagePreserves ==
  ASSUME RecoveryInv, Damage
  PROVE  EffectsInv' /\ ToolReadsTruth' /\ ToolProgress'
  <1>1. /\ tool'.pc = "idle" /\ UNCHANGED <<owner, effects>>
        /\ journal' \in {journal, CORRUPT} /\ registration' \in {registration, CORRUPT}
    BY DEF Damage
  <1>2. EffectsInv'
    BY <1>1, JournalAssumption, FileAssumption
    DEF RecoveryInv, EffectsInv, CleanMeansUndone, EffectsHaveAuthority,
        VolatileFollowsDurable, OwnerKnowsEffects, ActiveOwnerIsRegistered, Starting, IsClean
  <1> QED BY <1>1, <1>2, IdleToolKnowsNothing

-----------------------------------------------------------------------------
(* No step breaks the invariant when starts and resets are serialized.     *)
LEMMA RecoveryStep ==
  ASSUME Serialized
  PROVE  RecoveryInv /\ [RecoveryNext]_recoveryVars => RecoveryInv'
  <1> SUFFICES ASSUME RecoveryInv, [RecoveryNext]_recoveryVars
               PROVE  EffectsInv' /\ ToolReadsTruth' /\ ToolProgress'
    BY ShapeStep DEF RecoveryInv
  <1>1. CASE OwnerNext
    BY <1>1, StartOwnerPreserves, RegisterPreserves, BeginPreserves, RecordPreserves,
       MutatePreserves, MutationEndsPreserves, OwnerLeavesPreserves
    DEF OwnerNext
  <1>2. CASE ReadJournal \/ ReadForManual
    BY <1>2, ReadPreserves
  <1>3. CASE ToolStep
    BY <1>3, LookPreserves, StopOwnerPreserves, RollBackPreserves, PromotePreserves,
       GiveUpPreserves, ReplacePreserves, ClearPreserves, RemovePreserves
    DEF ToolStep
  <1>4. CASE ToolDies
    BY <1>4, GiveUpPreserves
  <1>5. CASE DisableManual
    BY <1>5, DisableManualPreserves
  <1>6. CASE Damage
    BY <1>6, DamagePreserves
  <1>7. CASE Calm \/ UNCHANGED recoveryVars
    BY <1>7, EffectsStay, ToolKnowledgeStays DEF Calm, recoveryVars, files, RecoveryInv
  <1> QED BY <1>1, <1>2, <1>3, <1>4, <1>5, <1>6, <1>7 DEF RecoveryNext

-----------------------------------------------------------------------------
(* A change in effect is covered by the durable journal and by the         *)
(* registration of the session that made it: the reset finds both before   *)
(* anything risky has happened, as reset_actions.hpp requires.             *)
THEOREM EffectsAreAuthorized ==
  ASSUME Serialized PROVE RecoverySpec => []EffectsHaveAuthority
  <1>1. RecoveryInv => EffectsHaveAuthority
    BY DEF RecoveryInv, EffectsInv
  <1> QED
    BY <1>1, RecoveryInitEstablishes, RecoveryStep, PTL DEF RecoverySpec

(* The volatile journal of GateCRecoveryJournal is never ahead of the one  *)
(* on disk.                                                                *)
THEOREM VolatileIsNeverAhead ==
  ASSUME Serialized PROVE RecoverySpec => []VolatileFollowsDurable
  <1>1. RecoveryInv => VolatileFollowsDurable
    BY DEF RecoveryInv, EffectsInv
  <1> QED
    BY <1>1, RecoveryInitEstablishes, RecoveryStep, PTL DEF RecoverySpec

(* A clean journal is never written while a change is still in effect, by  *)
(* a clean stop or by a reset.                                             *)
THEOREM CleanIsUndone ==
  ASSUME Serialized PROVE RecoverySpec => []CleanMeansUndone
  <1>1. RecoveryInv => CleanMeansUndone
    BY DEF RecoveryInv, EffectsInv
  <1> QED
    BY <1>1, RecoveryInitEstablishes, RecoveryStep, PTL DEF RecoverySpec

-----------------------------------------------------------------------------
(* The open session as a function of the three things it depends on.       *)
OpenOf(j, o, done) ==
  IF j = CORRUPT
    THEN IF o.pc = "running" THEN o.session
         ELSE IF done # {} THEN (CHOOSE e \in done : TRUE)[1] ELSE NONE
    ELSE IF Incomplete(j) THEN j.session ELSE NONE

LEMMA OpenSessionIs ==
  /\ OpenSession = OpenOf(journal, owner, effects)
  /\ OpenSession' = OpenOf(journal', owner', effects')
  BY DEF OpenSession, OpenOf, Incomplete

(* While the journal is damaged the open session is the running owner's,   *)
(* or the one that every change left over belongs to.                      *)
LEMMA OpenOfDamaged ==
  ASSUME NEW o, NEW done, o.pc # "running"
  PROVE  \/ done = {} /\ OpenOf(CORRUPT, o, done) = NONE
         \/ \E e \in done : OpenOf(CORRUPT, o, done) = e[1]
  <1>1. CASE done = {}
    BY <1>1 DEF OpenOf
  <1>2. CASE done # {}
    <2> DEFINE e == CHOOSE x \in done : TRUE
    <2>1. e \in done
      BY <1>2
    <2>2. OpenOf(CORRUPT, o, done) = e[1]
      BY <1>2 DEF OpenOf
    <2> QED BY <2>1, <2>2
  <1> QED BY <1>1, <1>2

(* Every change in effect belongs to the open session.                     *)
LEMMA ChangesAreOfTheOpenSession ==
  ASSUME RecoveryInv
  PROVE  /\ OpenSession \in Session \cup {NONE}
         /\ \A e \in effects : OpenSession = e[1]
         /\ effects # {} => OpenSession \in Session
  <1>1. \A e \in effects : e[1] \in Session
    BY DEF RecoveryInv, ShapeInv, RecoveryTypeOK
  <1>2. OpenSession = OpenOf(journal, owner, effects)
    BY OpenSessionIs
  <1>3. CASE journal # CORRUPT
    <2>1. \A e \in effects : journal \in JournalState /\ journal.session = e[1]
      BY <1>3 DEF RecoveryInv, EffectsInv, EffectsHaveAuthority
    <2>2. effects # {} => Incomplete(journal)
      BY <2>1 DEF RecoveryInv, EffectsInv, CleanMeansUndone, IsClean, Incomplete
    <2>3. OpenSession \in Session \cup {NONE}
      BY <1>2, <1>3 DEF OpenOf, Incomplete, JournalState
    <2>4. \A e \in effects : OpenSession = e[1]
      BY <1>2, <1>3, <2>1, <2>2 DEF OpenOf
    <2> QED BY <1>1, <2>3, <2>4
  <1>4. CASE journal = CORRUPT /\ owner.pc = "running"
    <2>1. OpenSession = owner.session
      BY <1>2, <1>4 DEF OpenOf
    <2>2. \A e \in effects : e[1] = owner.session
      BY <1>4 DEF RecoveryInv, EffectsInv, OwnerKnowsEffects
    <2> QED BY <1>1, <1>4, <2>1, <2>2, RunningOwner
  <1>5. CASE journal = CORRUPT /\ owner.pc # "running"
    <2>1. \A e, f \in effects : e[1] = f[1]
      BY DEF RecoveryInv, EffectsInv, OwnerKnowsEffects
    <2> QED BY <1>1, <1>2, <1>5, <2>1, OpenOfDamaged
  <1> QED BY <1>3, <1>4, <1>5

(* The ways a step that makes no change touches the evidence.              *)
EvidenceStep ==
  \/ /\ journal' = journal
     /\ \/ owner'.pc # "running"
        \/ owner'.pc = owner.pc /\ owner'.session = owner.session
  \/ journal = NONE \/ IsClean(journal)
  \/ journal \in JournalState /\ journal' \in JournalState
     /\ journal'.session = journal.session
  \/ IsClean(journal')
  \/ journal' = CORRUPT /\ journal \in JournalState /\ UNCHANGED <<owner, effects>>

LEMMA StepsOfEvidence ==
  ASSUME RecoveryInv, [RecoveryNext]_recoveryVars, ~\E a \in Action : Mutate(a)
  PROVE  effects' \subseteq effects /\ EvidenceStep
  <1>1. CASE StartOwner
    BY <1>1 DEF StartOwner, AssessStartup, EvidenceStep
  <1>9. CASE Register
    BY <1>9 DEF Register, OwnerDown, EvidenceStep, RecoveryInv, ShapeInv, RecoveryTypeOK
  <1>10. CASE CloseOwner \/ OwnerDies
    BY <1>10 DEF CloseOwner, OwnerDies, OwnerDown, files, EvidenceStep
  <1>11. CASE MutationEnds
    BY <1>11 DEF MutationEnds, files, EvidenceStep
  <1>2. CASE Begin
    <2>1. owner.session \in Session /\ UNCHANGED effects
      BY <1>2 DEF Begin, RecoveryInv, ShapeInv, OwnerShape
    <2>2. PICK ok \in BOOLEAN :
            /\ BeginActivation(owner.session, ok, ~calm)
            /\ ~ok => owner' = OwnerDown
      BY <1>2 DEF Begin
    <2>3. \/ journal = NONE \/ IsClean(journal)
          \/ ~ok /\ journal' = journal
      BY <2>1, <2>2, BeginOutcome DEF RecoveryInv
    <2> QED BY <2>1, <2>2, <2>3 DEF EvidenceStep, OwnerDown
  <1>3. CASE RecordSession \/ \E a \in Action : RecordAction(a)
    <2>1. PICK next \in Extensions(owner.state) : OwnerAsks(next)
      BY <1>3, OwnerRecords DEF RecoveryInv
    <2>2. /\ \/ owner' = [owner EXCEPT !.state = next] /\ journal' = next
             \/ owner' = owner /\ journal' \in {journal, next}
          /\ \/ journal' = journal
             \/ journal \in JournalState /\ ExtendsBy(journal, journal')
          /\ UNCHANGED effects
      BY <2>1, RecordOutcome DEF RecoveryInv
    <2>3. owner'.pc = owner.pc /\ owner'.session = owner.session
      BY <2>2 DEF RecoveryInv, ShapeInv, RecoveryTypeOK
    <2> QED BY <2>2, <2>3 DEF EvidenceStep, ExtendsBy
  <1>4. CASE \/ ReadJournal \/ ReadMarker \/ ReadRegistration \/ Decide \/ ToolDies
             \/ ReadForManual \/ WriteRecoveryMarker \/ ClearSafeMode
             \/ RemoveRegistration \/ EnableManual \/ DisableManual \/ Calm
             \/ UNCHANGED recoveryVars
    <2>1. UNCHANGED <<journal, owner, effects>>
      BY <1>4
      DEF ReadJournal, ReadMarker, ReadRegistration, Decide, ToolDies, ReadForManual,
          WriteRecoveryMarker, ClearSafeMode, RemoveRegistration, EnableManual,
          DisableManual, Calm, recoveryVars, files
    <2> QED BY <2>1 DEF EvidenceStep
  <1>5. CASE StopOwner \/ RollBackChanges
    BY <1>5 DEF StopOwner, RollBackChanges, OwnerDown, files, EvidenceStep
  <1>6. CASE Promote
    <2>1. UNCHANGED <<owner, effects>> /\ tool.pc = "promote"
      BY <1>6 DEF Promote
    <2>2. journal = NONE
      BY <2>1 DEF RecoveryInv, ShapeInv, ToolShape, ToolReadsTruth
    <2> QED BY <2>1, <2>2 DEF EvidenceStep
  <1>7. CASE ReplaceWithClean
    <2>1. tool.journal.session \in Session /\ UNCHANGED <<owner, effects>>
      BY <1>7 DEF ReplaceWithClean, RecoveryInv, ShapeInv, ToolShape, JournalState
    <2>2. journal' = journal \/ IsClean(journal')
      BY <1>7, <2>1, VerifiedCleanFacts DEF ReplaceWithClean, Persist
    <2> QED BY <2>1, <2>2 DEF EvidenceStep
  <1>8. CASE Damage
    BY <1>8 DEF Damage, EvidenceStep, RecoveryInv, ShapeInv, RecoveryTypeOK
  <1> QED
    BY <1>1, <1>2, <1>3, <1>4, <1>5, <1>6, <1>7, <1>8, <1>9, <1>10, <1>11
    DEF RecoveryNext, OwnerNext, ToolStep

(* No such step leads from one open session to another.                    *)
LEMMA OneSessionAtATime ==
  ASSUME RecoveryInv, effects' \subseteq effects, EvidenceStep
  PROVE  OpenSession = NONE \/ OpenSession' \in {OpenSession, NONE}
  <1>1. /\ OpenSession = OpenOf(journal, owner, effects)
        /\ OpenSession' = OpenOf(journal', owner', effects')
    BY OpenSessionIs
  <1>2. \A e \in effects : OpenSession = e[1]
    BY ChangesAreOfTheOpenSession
  <1>3. NONE # CORRUPT /\ CORRUPT \notin JournalState
    BY JournalAssumption, FileAssumption
  <1>4. journal' = CORRUPT /\ owner'.pc # "running" =>
          OpenSession' \in {OpenSession, NONE}
    BY <1>1, <1>2, OpenOfDamaged
  <1>5. CASE journal' = journal /\ journal # CORRUPT
    BY <1>1, <1>5 DEF OpenOf
  <1>6. CASE /\ journal' = journal /\ journal = CORRUPT
             /\ \/ owner'.pc # "running"
                \/ owner'.pc = owner.pc /\ owner'.session = owner.session
    BY <1>1, <1>4, <1>6 DEF OpenOf
  <1>7. CASE journal = NONE \/ IsClean(journal)
    BY <1>1, <1>3, <1>7 DEF OpenOf, IsClean, Incomplete
  <1>8. CASE journal \in JournalState /\ journal' \in JournalState
             /\ journal'.session = journal.session
    BY <1>1, <1>3, <1>8 DEF OpenOf, Incomplete
  <1>9. CASE IsClean(journal')
    BY <1>1, <1>3, <1>9 DEF OpenOf, IsClean, Incomplete
  <1>10. CASE journal' = CORRUPT /\ journal \in JournalState /\ UNCHANGED <<owner, effects>>
    <2>1. CASE owner.pc = "running"
      <3>1. journal.session = owner.session
        BY <1>10, <2>1, RunningOwner
      <3> QED BY <1>1, <1>3, <1>10, <2>1, <3>1 DEF OpenOf, Incomplete
    <2>2. CASE owner.pc # "running"
      BY <1>4, <1>10, <2>2
    <2> QED BY <2>1, <2>2
  <1> QED BY <1>5, <1>6, <1>7, <1>8, <1>9, <1>10 DEF EvidenceStep

(* While changes are in effect a session is open.                          *)
OpenWhileChanged ==
  /\ OpenSession \in Session \cup {NONE}
  /\ effects # {} => OpenSession \in Session

LEMMA OpenSessionStays == RecoveryInv' => OpenWhileChanged'
  <1>1. RecoveryInv => OpenWhileChanged
    BY ChangesAreOfTheOpenSession DEF OpenWhileChanged
  <1> QED BY <1>1, PTL

(* Each step is a step of the transaction, or leaves it alone.             *)
LEMMA TransactionStep ==
  ASSUME RecoveryInv, RecoveryInv', [RecoveryNext]_recoveryVars
  PROVE  [Transaction!Next]_(Transaction!vars)
  <1> USE DEF Transaction!Next, Transaction!vars
  <1>1. /\ OpenSession \in Session \cup {NONE}
        /\ effects # {} => OpenSession \in Session
    BY ChangesAreOfTheOpenSession
  <1>2. CASE \E a \in Action : Mutate(a)
    <2>1. PICK a \in Action : Mutate(a)
      BY <1>2
    <2>2. /\ owner.pc = "running" /\ Activating(owner.state)
          /\ effects' = effects \cup {<<owner.session, a>>}
          /\ UNCHANGED <<journal, owner>>
      BY <2>1 DEF Mutate, Mutation, files
    <2>3. /\ owner.session \in Session
          /\ journal # NONE /\ ~IsClean(journal)
          /\ journal \in JournalState => journal.session = owner.session
          /\ journal \in JournalState \cup {NONE, CORRUPT}
      BY <2>2, RunningOwner DEF RecoveryInv, ShapeInv, RecoveryTypeOK
    <2>4. OpenSession = owner.session /\ OpenSession' = owner.session
      BY <2>2, <2>3, OpenSessionIs, FileAssumption DEF OpenOf, IsClean, Incomplete
    <2>5. Transaction!Apply(a)
      BY <2>2, <2>3, <2>4 DEF Transaction!Apply
    <2> QED BY <2>5
  <1>3. CASE ~\E a \in Action : Mutate(a)
    <2>1. /\ effects' \subseteq effects
          /\ OpenSession = NONE \/ OpenSession' \in {OpenSession, NONE}
      BY <1>3, StepsOfEvidence, OneSessionAtATime
    <2>2. /\ OpenSession' \in Session \cup {NONE}
          /\ effects' # {} => OpenSession' \in Session
      BY OpenSessionStays DEF OpenWhileChanged
    <2>3. NONE \notin Session
      BY FileAssumption
    <2>4. CASE OpenSession' = OpenSession
      BY <2>1, <2>4 DEF Transaction!Undo
    <2>5. CASE OpenSession = NONE /\ OpenSession' \in Session
      <3>1. effects = {} /\ effects' = {}
        BY <1>1, <2>1, <2>3, <2>5
      <3>2. Transaction!Open(OpenSession')
        BY <2>5, <3>1 DEF Transaction!Open
      <3> QED BY <2>5, <3>2
    <2>6. CASE OpenSession \in Session /\ OpenSession' = NONE
      BY <2>2, <2>3, <2>6 DEF Transaction!Close
    <2> QED BY <1>1, <2>1, <2>2, <2>4, <2>5, <2>6
  <1> QED BY <1>2, <1>3

(* The recovery protocol implements the transaction that SafeTransaction   *)
(* states: with crashes of owner and tool at any point, failed writes,     *)
(* refused starts and damaged files, changes are made only in an open      *)
(* session, and it closes only when all of them are taken back.            *)
THEOREM RecoveryImplementsTransaction ==
  ASSUME Serialized PROVE RecoverySpec => ImplementsTransaction
  <1>1. RecoveryInit => Transaction!Init
    BY JournalAssumption, FileAssumption
    DEF RecoveryInit, Transaction!Init, OpenSession, Incomplete
  <1>2. RecoveryInv /\ RecoveryInv' /\ [RecoveryNext]_recoveryVars
          => [Transaction!Next]_(Transaction!vars)
    BY TransactionStep
  <1> QED
    BY <1>1, <1>2, RecoveryInitEstablishes, RecoveryStep, PTL
    DEF RecoverySpec, ImplementsTransaction, Transaction!Spec
=============================================================================

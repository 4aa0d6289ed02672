---------------------------- MODULE Effects_proofs ----------------------------
(* That what is done for a Seat has an owner, and what leaves the machine the   *)
(* consent it needs: the recovered processes attached to a Seat, the start of   *)
(* a process, the tree of a game's processes, the activation of the Seats, the  *)
(* check of a game and the history of its results each have an inductive       *)
(* invariant of their own.                                                    *)
EXTENDS RecoveryAttachment, SeatActivation, ProcessGroup, CompatibilityCheck,
        CompatibilityShare, FiniteSetTheorems, WellFoundedInduction, TLAPS

-----------------------------------------------------------------------------
(* Attachments of recovered processes to the Seats.                         *)
AtMostOne(set) == \A x, y \in set : x = y

LEMMA OneIsFew == \A set : AtMostOne(set) => IsFiniteSet(set) /\ Cardinality(set) <= 1
<1> TAKE set
<1> SUFFICES ASSUME AtMostOne(set) PROVE IsFiniteSet(set) /\ Cardinality(set) <= 1
  OBVIOUS
<1>1. CASE set = {}  BY <1>1, FS_EmptySet
<1>2. CASE set # {}
  <2> PICK x : x \in set  BY <1>2
  <2>1. set = {x}  BY DEF AtMostOne
  <2> QED BY <2>1, FS_Singleton
<1> QED BY <1>1, <1>2

(* What was accepted last for a Seat is attached, or was completed last.      *)
LastIsKept ==
  \A s \in AttachedSeat :
    acceptedLast[s] = IF attached[s] # {} THEN attached[s] ELSE disarmed[s]

AttachmentInv ==
  /\ attached \in [AttachedSeat -> SUBSET Registration]
  /\ disarmed \in [AttachedSeat -> SUBSET Registration]
  /\ acceptedLast \in [AttachedSeat -> SUBSET Registration]
  /\ \A s \in AttachedSeat : AtMostOne(attached[s]) /\ AtMostOne(disarmed[s])
  /\ AttachmentsDistinct /\ LastIsKept

LEMMA AttachmentSuffices == AttachmentInv => AttachmentTypeOK /\ AttachmentsDistinct
  BY OneIsFew DEF AttachmentInv, AttachmentTypeOK

LEMMA AttachmentStarts == AttachmentInit => AttachmentInv
  BY DEF AttachmentInit, AttachmentInv, AtMostOne, AttachmentsDistinct, LastIsKept

LEMMA AttachmentSteps == AttachmentInv /\ [AttachmentNext]_attachmentVars => AttachmentInv'
<1> SUFFICES ASSUME AttachmentInv, [AttachmentNext]_attachmentVars PROVE AttachmentInv'
  OBVIOUS
<1>1. ASSUME NEW s \in AttachedSeat, NEW r \in Registration, RegisterAttachment(s, r)
      PROVE  AttachmentInv'
  <2>1. /\ attached' = [attached EXCEPT ![s] = {r}] /\ disarmed' = disarmed
        /\ acceptedLast' = [acceptedLast EXCEPT ![s] = {r}]
        /\ FreeForSeat(s, r) /\ NotCompleted(s, r)
    BY <1>1 DEF RegisterAttachment
  <2>2. AttachmentsDistinct'
    BY <2>1 DEF AttachmentInv, AttachmentsDistinct, FreeForSeat, NotCompleted
  <2> QED BY <2>1, <2>2 DEF AttachmentInv, AtMostOne, LastIsKept
<1>2. ASSUME NEW s \in AttachedSeat, NEW r \in Registration, DisarmAttachment(s, r)
      PROVE  AttachmentInv'
  <2>1. /\ attached[s] = {r} /\ attached' = [attached EXCEPT ![s] = {}]
        /\ disarmed' = [disarmed EXCEPT ![s] = {r}] /\ acceptedLast' = acceptedLast
    BY <1>2 DEF DisarmAttachment
  <2>2. AttachmentsDistinct'
    BY <2>1 DEF AttachmentInv, AttachmentsDistinct
  <2> QED BY <2>1, <2>2 DEF AttachmentInv, AtMostOne, LastIsKept
<1>3. CASE UNCHANGED attachmentVars
  BY <1>3 DEF attachmentVars, AttachmentInv, AttachmentsDistinct, LastIsKept
<1> QED BY <1>1, <1>2, <1>3 DEF AttachmentNext

(* A registration that is accepted is newer than the Seat's last one.         *)
LEMMA AcceptedAreNewer ==
  ASSUME AttachmentInv, AttachmentNext
  PROVE  \A s \in AttachedSeat :
           \A r \in acceptedLast'[s] \ acceptedLast[s], last \in acceptedLast[s] :
             r.session = last.session =>
               \/ r.sessionGen > last.sessionGen
               \/ r.sessionGen = last.sessionGen /\ r.epoch > last.epoch
<1>1. ASSUME NEW s \in AttachedSeat, NEW new \in Registration, RegisterAttachment(s, new),
             NEW t \in AttachedSeat, NEW r \in acceptedLast'[t] \ acceptedLast[t],
             NEW last \in acceptedLast[t], r.session = last.session
      PROVE  \/ r.sessionGen > last.sessionGen
             \/ r.sessionGen = last.sessionGen /\ r.epoch > last.epoch
  <2>1. acceptedLast' = [acceptedLast EXCEPT ![s] = {new}] /\ attached[s] = {}
        /\ \A prior \in disarmed[s] : AdvancesPast(prior, new)
    BY <1>1 DEF RegisterAttachment
  <2>2. t = s /\ r = new /\ last \in disarmed[s]
    BY <1>1, <2>1 DEF AttachmentInv, LastIsKept
  <2> QED BY <1>1, <2>1, <2>2 DEF AdvancesPast
<1>2. ASSUME NEW s \in AttachedSeat, NEW r \in Registration, DisarmAttachment(s, r)
      PROVE  acceptedLast' = acceptedLast
  BY <1>2 DEF DisarmAttachment
<1> QED BY <1>1, <1>2 DEF AttachmentNext

-----------------------------------------------------------------------------
(* The start of a process by the launcher.                                  *)
(* Where a start is tells who holds the process, and in which containment.    *)
WithoutJob == startSpec.containment \in {"RootOnly", "AllowRootOnlyFallback"}

StartInv ==
  /\ ProcessLaunchTypeOK
  /\ startStep \notin {"check", "failed"} => StartAccepted(startSpec)
  /\ startStep \in {"check", "create"} => started = "none"
  /\ startStep \in {"architecture", "contain", "duplicate"} => holder = {"launcher"}
  /\ startStep = "duplicate" => WithoutJob
  /\ startStep = "adopt" => "launcher" \in holder
  /\ startStep \in {"resume", "started"} => "group" \in holder
  /\ startStep \in {"adopt", "resume", "started"} => "job" \in holder \/ WithoutJob
  /\ startStep \in {"abandoned", "failed"} /\ started = "suspended" => WithoutJob
  /\ startStep = "abandoned" => holder = {}
  /\ started = "running" => startStep = "started"

LEMMA StartSuffices == StartInv => ProcessLaunchTypeOK /\ NoStartIsLost
  BY DEF StartInv, ProcessLaunchTypeOK, NoStartIsLost, WithoutJob

LEMMA StartStarts == ProcessLaunchInit => StartInv
  BY DEF ProcessLaunchInit, StartInv, ProcessLaunchTypeOK

LEMMA StartSteps == StartInv /\ [ProcessLaunchNext]_startVars => StartInv'
<1> SUFFICES ASSUME StartInv, [ProcessLaunchNext]_startVars PROVE StartInv'  OBVIOUS
<1> USE DEF StartInv, ProcessLaunchTypeOK, WithoutJob, EndByLauncher, Refuse
<1>1. CASE CheckStart  BY <1>1 DEF CheckStart
<1>2. CASE CreateSuspended  BY <1>2 DEF CreateSuspended
<1>3. CASE CheckArchitecture  BY <1>3 DEF CheckArchitecture
<1>4. CASE Contain  BY <1>4 DEF Contain
<1>5. CASE DuplicateHandle  BY <1>5 DEF DuplicateHandle
<1>6. CASE AdoptRoot  BY <1>6 DEF AdoptRoot
<1>7. CASE Abandoned  BY <1>7 DEF Abandoned
<1>8. CASE ResumeRoot  BY <1>8 DEF ResumeRoot
<1>9. CASE StartedEnds  BY <1>9 DEF StartedEnds
<1>10. CASE UNCHANGED startVars  BY <1>10 DEF startVars, StartAccepted
<1> QED
  BY <1>1, <1>2, <1>3, <1>4, <1>5, <1>6, <1>7, <1>8, <1>9, <1>10 DEF ProcessLaunchNext

-----------------------------------------------------------------------------
(* The processes of a game.                                                 *)
LEMMA LeastOf ==
  ASSUME NEW S \in SUBSET Nat, S # {}
  PROVE  \E x \in S : \A y \in S : x <= y
<1> DEFINE R == {ss \in Nat \X Nat : ss[1] < ss[2]}
<1>1. IsWellFoundedOn(R, Nat)  BY NatLessThanWellFounded DEF OpToRel
<1> HIDE DEF R
<1>2. \E x \in S : \A y \in S : ~(<<y, x>> \in R)  BY <1>1, WFMin
<1>3. PICK x \in S : \A y \in S : ~(y < x)  BY <1>2 DEF R
<1>4. \A y \in S : y \in Nat /\ x \in Nat  OBVIOUS
<1>5. \A y \in S : x <= y  BY <1>3, <1>4
<1> QED  BY <1>5

(* What holds of 0, and of the next number wherever it holds, always holds.  *)
LEMMA OneByOne ==
  ASSUME NEW S, 0 \in S, \A n \in Nat : n \in S => n + 1 \in S
  PROVE  \A n \in Nat : n \in S
<1> SUFFICES ASSUME NEW k \in Nat, k \notin S PROVE FALSE  OBVIOUS
<1> DEFINE bad == { n \in Nat : n \notin S }
<1>1. PICK m \in bad : \A n \in bad : m <= n  BY LeastOf
<1>2. m # 0 /\ m \in Nat  BY <1>1
<1>3. m - 1 \in Nat /\ ~(m <= m - 1) /\ m = (m - 1) + 1  BY <1>2
<1>4. m - 1 \in S  BY <1>1, <1>3
<1> QED  BY <1>1, <1>3, <1>4

-----------------------------------------------------------------------------
NoNamesake(i) == \A j \in Born : i < j => os[j].pid # os[i].pid
BornWell(i) ==
  /\ os[i].end <= born
  /\ os[i].parent # 0 /\ os[os[i].parent].gone => os[os[i].parent].end >= i
  /\ i # First /\ os[i].inJob => os[i].parent # 0 /\ os[os[i].parent].inJob
WorldFits ==
  /\ born \in Birth /\ os \in [Birth -> LiveProcess]
  /\ \A i \in Birth : os[i].parent < i
  /\ \A i \in Born : BornWell(i)
  /\ \A i, j \in Born : i < j /\ os[i].pid = os[j].pid => os[i].gone /\ os[i].end < j
  /\ \A i \in opened : i \in Born /\ os[i].inJob /\ NoNamesake(i)

LEMMA BirthsAre == Birth \subseteq Nat /\ First \in Birth /\ \A i \in Birth : i # 0 /\ i <= MaxBirths
  BY ProcessAssumption DEF Birth, First

LEMMA ParentsAreBorn ==
  ASSUME WorldFits, NEW i \in Born, os[i].parent # 0
  PROVE  os[i].parent \in Born /\ os[i].parent < i
  BY ProcessAssumption DEF WorldFits, Born, Birth, LiveProcess

LEMMA BornTyped ==
  ASSUME WorldFits, NEW i \in Born
  PROVE  /\ i \in Birth /\ os[i] \in LiveProcess /\ os[i].pid \in Pid
         /\ os[i].end \in 0..MaxBirths /\ os[i].end \in Nat
         /\ os[i].parent \in 0..MaxBirths /\ os[i].parent \in Nat
<1>1. i \in Birth  BY ProcessAssumption DEF WorldFits, Born, Birth
<1>2. os[i] \in LiveProcess  BY <1>1 DEF WorldFits
<1> QED  BY <1>1, <1>2 DEF LiveProcess

(* A process in the Job descends from the first one.                        *)
IsDescent(f) ==
  f = [j \in 0..MaxBirths |-> j # 0 /\ (j = First \/ f[os[j].parent])]
DescentTo(f, m) ==
  f = [j \in 0..m |-> j # 0 /\ (j = First \/ f[os[j].parent])]

LEMMA DescentExists ==
  ASSUME WorldFits
  PROVE  \E f : IsDescent(f)
<1> DEFINE S == { m \in Nat : m <= MaxBirths => \E f : DescentTo(f, m) }
<1>1. 0 \in S
  <2>1. DescentTo([j \in 0..0 |-> FALSE], 0)
    <3>1. \A j \in 0..0 : (j # 0 /\ (j = First \/ [k \in 0..0 |-> FALSE][os[j].parent])) = FALSE
      OBVIOUS
    <3>2. [j \in 0..0 |-> FALSE] = [j \in 0..0 |-> j # 0 /\ (j = First \/ [k \in 0..0 |-> FALSE][os[j].parent])]
      BY <3>1, Zenon
    <3> QED  BY <3>2, Zenon DEF DescentTo
  <2> QED  BY <2>1
<1>2. ASSUME NEW m \in Nat, m \in S PROVE m + 1 \in S
  <2>1. SUFFICES ASSUME m + 1 <= MaxBirths PROVE \E f : DescentTo(f, m + 1)
    OBVIOUS
  <2>2. PICK f : DescentTo(f, m)  BY <1>2, <2>1, ProcessAssumption
  <2> DEFINE Body(h, j) == j # 0 /\ (j = First \/ h[os[j].parent])
             more == [j \in 0..(m + 1) |-> IF j = m + 1 THEN Body(f, j) ELSE f[j]]
  <2>3. \A j \in 0..m : f[j] = Body(f, j)  BY <2>2, Zenon DEF DescentTo
  <2>4. \A j \in 0..(m + 1) : j # 0 => os[j].parent \in 0..m /\ os[j].parent # m + 1
    BY <2>1, ProcessAssumption DEF WorldFits, Birth, LiveProcess
  <2>5. \A j \in 0..m : j \in 0..(m + 1) /\ j # m + 1  OBVIOUS
  <2>6. \A j \in 0..m : more[j] = f[j]  BY <2>5
  <2>7. \A j \in 0..(m + 1) : j # 0 => more[os[j].parent] = f[os[j].parent]  BY <2>4, <2>6
  <2>8. \A j \in 0..(m + 1) : Body(more, j) = Body(f, j)
    <3> HIDE DEF more
    <3> QED  BY <2>7, Zenon
  <2>9. \A j \in 0..(m + 1) : j \in 0..m \/ j = m + 1  OBVIOUS
  <2>10. \A j \in 0..(m + 1) : (IF j = m + 1 THEN Body(f, j) ELSE f[j]) = Body(more, j)
    <3> HIDE DEF more, Body
    <3> QED  BY <2>3, <2>5, <2>8, <2>9
  <2>11. more = [j \in 0..(m + 1) |-> Body(more, j)]
    <3>1. \A h : (\A j \in 0..(m + 1) : (IF j = m + 1 THEN Body(f, j) ELSE f[j]) = Body(h, j)) =>
                 [j \in 0..(m + 1) |-> IF j = m + 1 THEN Body(f, j) ELSE f[j]]
                   = [j \in 0..(m + 1) |-> Body(h, j)]
      <4> HIDE DEF Body
      <4> QED  BY Zenon
    <3>2. [j \in 0..(m + 1) |-> IF j = m + 1 THEN Body(f, j) ELSE f[j]] = [j \in 0..(m + 1) |-> Body(more, j)]
      <4> HIDE DEF more, Body
      <4> QED  BY <3>1, <2>10, Zenon
    <3> QED  BY <3>2, Zenon
  <2> QED  BY <2>11, Zenon DEF DescentTo
<1> HIDE DEF S
<1>3. \A m \in Nat : m \in S  BY <1>1, <1>2, OneByOne
<1>4. PICK f : DescentTo(f, MaxBirths)  BY <1>3, ProcessAssumption DEF S
<1> QED  BY <1>4 DEF DescentTo, IsDescent

LEMMA JobDescends ==
  ASSUME WorldFits, NEW i \in Born, os[i].inJob \/ i = First
  PROVE  Descends(i)
<1> DEFINE up == CHOOSE f : IsDescent(f)
<1>1. IsDescent(up)  BY DescentExists, Zenon
<1>2. \A j : Descends(j) = up[j]  BY Zenon DEF Descends, IsDescent
<1> HIDE DEF up
<1>3. \A j \in 0..MaxBirths : up[j] = (j # 0 /\ (j = First \/ up[os[j].parent]))
  BY <1>1, Zenon DEF IsDescent
<1> DEFINE bad == { j \in Born : (os[j].inJob \/ j = First) /\ ~up[j] }
<1>4. bad = {}
  <2> SUFFICES ASSUME bad # {} PROVE FALSE  OBVIOUS
  <2>1. bad \in SUBSET Nat  BY DEF Born
  <2>2. PICK j \in bad : \A k \in bad : j <= k  BY <2>1, LeastOf
  <2>3. j \in Born /\ j \in Nat /\ j \in 0..MaxBirths /\ j # 0
    BY <2>2, ProcessAssumption DEF Born, WorldFits, Birth
  <2>4. j # First /\ ~up[os[j].parent] /\ os[j].inJob  BY <2>2, <2>3, <1>3
  <2>5. os[j].parent \in Born /\ os[j].parent < j /\ os[os[j].parent].inJob
    BY <2>3, <2>4, ParentsAreBorn DEF WorldFits, BornWell
  <2>6. os[j].parent \in bad  BY <2>4, <2>5
  <2>7. os[j].parent \in Nat /\ ~(j <= os[j].parent)  BY <2>3, <2>5 DEF Born
  <2> QED  BY <2>2, <2>6, <2>7
<1>5. up[i]  BY <1>4
<1> QED  BY <1>2, <1>5, Zenon

-----------------------------------------------------------------------------
EntryIsTrue(e, i) ==
  /\ i \in Born /\ e \in Record
  /\ e.exited => os[i].gone /\ e.exitTime = os[i].end
  /\ ~e.exited => NoNamesake(i)
  /\ e.parent \in {0, os[i].parent}
  /\ e.parentPid # 0 => os[i].parent # 0 /\ e.parentPid = os[os[i].parent].pid
  /\ i # First => os[i].inJob
EntriesFit(g) ==
  /\ g.entries = [i \in Tracked(g) |-> g.entries[i]]
  /\ First \in Tracked(g) /\ IsFiniteSet(Tracked(g)) /\ Cardinality(Tracked(g)) <= MaxTracked
  /\ \A i \in Tracked(g) : EntryIsTrue(g.entries[i], i)
AuthorityFits(g) ==
  /\ g.authority \in Tracked(g) /\ g.handoffs \in Nat /\ g.handoffs < g.authority
  /\ g.authority # First => os[g.authority].trusted
  /\ (g.handoffs = 0) <=> (g.authority = First)
IsGroup(g) ==
  g = [mode |-> g.mode, entries |-> g.entries, authority |-> g.authority,
       handoffs |-> g.handoffs, state |-> g.state, pending |-> g.pending, late |-> g.late,
       complete |-> g.complete, configured |-> g.configured]
GroupFits(g) == IsGroup(g) /\ EntriesFit(g) /\ AuthorityFits(g)
TreeSettled(g) ==
  /\ g.state = "TreeExited" => InJob = {}
  /\ g.state \in {"RootActive", "DescendantActive"} =>
       /\ ~g.entries[g.authority].exited
       /\ (g.state = "RootActive") = (g.authority = First)
  /\ ~g.complete => g.state = "Unverifiable"
(* What an operator may make of group g.                                    *)
Follows(g, h) ==
  /\ h.mode = g.mode
  /\ ~g.complete => ~h.complete /\ h.authority = g.authority
  /\ h.handoffs >= g.handoffs /\ h.authority >= g.authority
  /\ h.authority # g.authority =>
       os[g.authority].gone /\ g.authority < h.authority /\ h.handoffs > g.handoffs

LEMMA TrackedAreBorn ==
  ASSUME WorldFits, NEW g, EntriesFit(g), NEW i \in Tracked(g)
  PROVE  i \in Nat /\ i \in Born /\ i \in Birth /\ i # 0 /\ i <= MaxBirths
  BY ProcessAssumption DEF EntriesFit, EntryIsTrue, Born, Birth, WorldFits

LEMMA GroupNumbers ==
  ASSUME WorldFits, NEW g, EntriesFit(g), AuthorityFits(g)
  PROVE  g.authority \in Nat /\ g.handoffs \in Nat /\ g.authority <= MaxBirths /\ g.authority \in Born
  BY TrackedAreBorn DEF AuthorityFits

LEMMA FollowsItself ==
  ASSUME WorldFits, NEW g, EntriesFit(g), AuthorityFits(g)
  PROVE  Follows(g, g)
  BY GroupNumbers DEF Follows

LEMMA FollowsOn ==
  ASSUME WorldFits, NEW g, NEW h, NEW k, EntriesFit(g), AuthorityFits(g), EntriesFit(h),
         AuthorityFits(h), EntriesFit(k), AuthorityFits(k), Follows(g, h), Follows(h, k)
  PROVE  Follows(g, k)
<1>1. /\ g.authority \in Nat /\ g.handoffs \in Nat /\ h.authority \in Nat /\ h.handoffs \in Nat
      /\ k.authority \in Nat /\ k.handoffs \in Nat
  BY GroupNumbers
<1> QED  BY <1>1 DEF Follows

(* A recorded process that had the id of a child's creator and lived when the *)
(* child was created is its creator.                                        *)
LEMMA ParentIsExact ==
  ASSUME WorldFits, NEW g, EntriesFit(g), NEW i \in Tracked(g), NEW p \in Parents(g, i)
  PROVE  p = os[i].parent
<1>1. /\ p \in Tracked(g) /\ os[p].pid = g.entries[i].parentPid /\ p < i
      /\ g.entries[p].exited => g.entries[p].exitTime >= i
  BY DEF Parents, LivedAt
<1>2. EntryIsTrue(g.entries[i], i) /\ EntryIsTrue(g.entries[p], p) /\ i \in Born /\ p \in Born
      /\ i \in Nat /\ p \in Nat
  BY <1>1, TrackedAreBorn DEF EntriesFit
<1>3. os[p].pid \in Pid  BY <1>2, ProcessAssumption DEF WorldFits, Born, Birth, LiveProcess
<1>4. os[p].pid # 0  BY <1>3, ProcessAssumption
<1> DEFINE q == os[i].parent
<1>5. q # 0 /\ os[q].pid = os[p].pid  BY <1>1, <1>2, <1>4 DEF EntryIsTrue
<1>6. q \in Born /\ q < i /\ q \in Nat  BY <1>2, <1>5, ParentsAreBorn DEF Born
<1>7. BornWell(i)  BY <1>2 DEF WorldFits
<1>8. os[q].end \in Nat /\ os[p].end \in Nat
  BY <1>2, <1>6, BornTyped
<1>9. ~(p < q)
  <2> SUFFICES ASSUME p < q PROVE FALSE  OBVIOUS
  <2>1. os[p].gone /\ os[p].end < q  BY <1>2, <1>5, <1>6 DEF WorldFits
  <2>2. CASE g.entries[p].exited
    <3>1. os[p].end >= i  BY <2>2, <1>1, <1>2 DEF EntryIsTrue
    <3> QED  BY <3>1, <2>1, <1>2, <1>6, <1>8
  <2>3. CASE ~g.entries[p].exited
    BY <2>3, <1>2, <1>5, <1>6 DEF EntryIsTrue, NoNamesake
  <2> QED  BY <2>2, <2>3
<1>10. ~(q < p)
  <2> SUFFICES ASSUME q < p PROVE FALSE  OBVIOUS
  <2>1. os[q].gone /\ os[q].end < p  BY <1>2, <1>5, <1>6 DEF WorldFits
  <2>2. os[q].end >= i  BY <2>1, <1>5, <1>7 DEF BornWell
  <2> QED  BY <2>1, <2>2, <1>1, <1>2, <1>6, <1>8
<1> QED  BY <1>2, <1>6, <1>9, <1>10

(* Entries that are changed one by one.                                      *)
LEMMA EntriesChange ==
  ASSUME WorldFits, NEW g, GroupFits(g), NEW h, h = [g EXCEPT !.entries = h.entries],
         Tracked(h) = Tracked(g), h.entries = [i \in Tracked(g) |-> h.entries[i]],
         \A i \in Tracked(g) : EntryIsTrue(h.entries[i], i)
  PROVE  /\ GroupFits(h) /\ Follows(g, h) /\ h.authority = g.authority
         /\ h.state = g.state /\ h.complete = g.complete /\ h.mode = g.mode
<1>1. h = [mode |-> g.mode, entries |-> h.entries, authority |-> g.authority,
           handoffs |-> g.handoffs, state |-> g.state, pending |-> g.pending, late |-> g.late,
           complete |-> g.complete, configured |-> g.configured]
  BY DEF GroupFits, IsGroup
<1>2. /\ IsGroup(h) /\ h.authority = g.authority /\ h.handoffs = g.handoffs
      /\ h.state = g.state /\ h.complete = g.complete /\ h.mode = g.mode
  BY <1>1 DEF IsGroup
<1>3. EntriesFit(h)  BY DEF EntriesFit, GroupFits
<1>4. AuthorityFits(h)  BY <1>2 DEF AuthorityFits, GroupFits
<1>5. Follows(g, h)
  <2>1. Follows(g, g)  BY FollowsItself DEF GroupFits
  <2> QED  BY <1>2, <2>1 DEF Follows
<1> QED  BY <1>2, <1>3, <1>4, <1>5 DEF GroupFits

LEMMA ResolveFits ==
  ASSUME WorldFits, NEW g, GroupFits(g)
  PROVE  /\ GroupFits(ResolveParents(g)) /\ Follows(g, ResolveParents(g))
         /\ ResolveParents(g).complete = g.complete
         /\ TreeSettled(g) => TreeSettled(ResolveParents(g))
<1> DEFINE h == ResolveParents(g)
           TreeEntry(i) == IF i # First /\ g.entries[i].parent = 0 /\ Cardinality(Parents(g, i)) = 1
                       THEN [g.entries[i] EXCEPT !.parent = CHOOSE p \in Parents(g, i) : TRUE]
                       ELSE g.entries[i]
<1>1. h.entries = [i \in Tracked(g) |-> TreeEntry(i)] /\ h = [g EXCEPT !.entries = [i \in Tracked(g) |-> TreeEntry(i)]]
  <2>1. h = [g EXCEPT !.entries = [i \in Tracked(g) |-> TreeEntry(i)]]  BY Zenon DEF ResolveParents
  <2>2. IsGroup(g)  BY DEF GroupFits
  <2> HIDE DEF h, TreeEntry
  <2> QED  BY <2>1, <2>2 DEF IsGroup
<1>2. \A i \in Tracked(g) : EntryIsTrue(TreeEntry(i), i) /\ TreeEntry(i).exited = g.entries[i].exited
  <2> SUFFICES ASSUME NEW i \in Tracked(g)
               PROVE  EntryIsTrue(TreeEntry(i), i) /\ TreeEntry(i).exited = g.entries[i].exited
    OBVIOUS
  <2>1. EntryIsTrue(g.entries[i], i)  BY DEF GroupFits, EntriesFit
  <2>2. CASE i # First /\ g.entries[i].parent = 0 /\ Cardinality(Parents(g, i)) = 1
    <3>1. Parents(g, i) # {}  BY <2>2, FS_EmptySet
    <3>2. (CHOOSE p \in Parents(g, i) : TRUE) \in Parents(g, i)  BY <3>1
    <3>3. (CHOOSE p \in Parents(g, i) : TRUE) = os[i].parent
      BY <3>2, ParentIsExact DEF GroupFits
    <3>4. TreeEntry(i) = [g.entries[i] EXCEPT !.parent = os[i].parent]  BY <2>2, <3>3
    <3>5. os[i].parent \in 0..MaxBirths  BY <2>1, BornTyped DEF EntryIsTrue
    <3> HIDE DEF TreeEntry
    <3>6. /\ TreeEntry(i) \in Record /\ TreeEntry(i).exited = g.entries[i].exited
          /\ TreeEntry(i).exitTime = g.entries[i].exitTime /\ TreeEntry(i).parent = os[i].parent
          /\ TreeEntry(i).parentPid = g.entries[i].parentPid
      BY <2>1, <3>4, <3>5 DEF EntryIsTrue, Record
    <3> QED  BY <2>1, <3>6 DEF EntryIsTrue
  <2>3. CASE ~(i # First /\ g.entries[i].parent = 0 /\ Cardinality(Parents(g, i)) = 1)
    BY <2>1, <2>3
  <2> QED  BY <2>2, <2>3
<1> HIDE DEF h, TreeEntry
<1>3. /\ Tracked(h) = Tracked(g) /\ h.entries = [i \in Tracked(g) |-> h.entries[i]]
      /\ h = [g EXCEPT !.entries = h.entries]
      /\ \A i \in Tracked(g) : h.entries[i] = TreeEntry(i)
  BY <1>1 DEF Tracked
<1>4. /\ GroupFits(h) /\ Follows(g, h) /\ h.authority = g.authority
      /\ h.state = g.state /\ h.complete = g.complete
  BY <1>2, <1>3, EntriesChange
<1>5. h.entries[h.authority].exited = g.entries[g.authority].exited
  BY <1>2, <1>3, <1>4 DEF GroupFits, AuthorityFits
<1>6. TreeSettled(g) => TreeSettled(h)  BY <1>4, <1>5 DEF TreeSettled
<1> QED  BY <1>4, <1>6 DEF h

LEMMA CaptureFits ==
  ASSUME WorldFits, NEW g, GroupFits(g), NEW gone, \A i \in gone : os[i].gone
  PROVE  GroupFits(CaptureExits(g, gone)) /\ Follows(g, CaptureExits(g, gone))
<1> DEFINE h == CaptureExits(g, gone)
           TreeEntry(i) == IF i \in gone THEN [g.entries[i] EXCEPT !.exited = TRUE, !.exitTime = os[i].end]
                       ELSE g.entries[i]
<1>1. h.entries = [i \in Tracked(g) |-> TreeEntry(i)] /\ h = [g EXCEPT !.entries = [i \in Tracked(g) |-> TreeEntry(i)]]
  <2>1. h = [g EXCEPT !.entries = [i \in Tracked(g) |-> TreeEntry(i)]]  BY Zenon DEF CaptureExits
  <2>2. IsGroup(g)  BY DEF GroupFits
  <2> HIDE DEF h, TreeEntry
  <2> QED  BY <2>1, <2>2 DEF IsGroup
<1>2. \A i \in Tracked(g) : EntryIsTrue(TreeEntry(i), i)
  <2> SUFFICES ASSUME NEW i \in Tracked(g) PROVE EntryIsTrue(TreeEntry(i), i)  OBVIOUS
  <2>1. EntryIsTrue(g.entries[i], i)  BY DEF GroupFits, EntriesFit
  <2>2. CASE i \in gone
    <3>1. TreeEntry(i) = [g.entries[i] EXCEPT !.exited = TRUE, !.exitTime = os[i].end]  BY <2>2
    <3>2. os[i].end \in 0..MaxBirths  BY <2>1, BornTyped DEF EntryIsTrue
    <3> HIDE DEF TreeEntry
    <3>3. /\ TreeEntry(i) \in Record /\ TreeEntry(i).exited
          /\ TreeEntry(i).exitTime = os[i].end /\ TreeEntry(i).parent = g.entries[i].parent
          /\ TreeEntry(i).parentPid = g.entries[i].parentPid
      BY <2>1, <3>1, <3>2 DEF EntryIsTrue, Record
    <3> QED  BY <2>1, <2>2, <3>3 DEF EntryIsTrue
  <2>3. CASE i \notin gone  BY <2>1, <2>3
  <2> QED  BY <2>2, <2>3
<1> HIDE DEF h, TreeEntry
<1>3. /\ Tracked(h) = Tracked(g) /\ h.entries = [i \in Tracked(g) |-> h.entries[i]]
      /\ h = [g EXCEPT !.entries = h.entries]
      /\ \A i \in Tracked(g) : h.entries[i] = TreeEntry(i)
  BY <1>1 DEF Tracked
<1>4. GroupFits(h) /\ Follows(g, h)  BY <1>2, <1>3, EntriesChange
<1> QED  BY <1>4 DEF h

(* The verified creators above a process come before it.                     *)
AscentTo(f, m, g, i) ==
  f = [n \in 0..m |-> IF n = 0 THEN {g.entries[i].parent} \ {0}
         ELSE LET below == f[n - 1]
              IN below \cup ({ g.entries[j].parent : j \in below \cap Tracked(g) } \ {0})]

LEMMA AscentExists ==
  ASSUME NEW g, NEW i, NEW k \in Nat
  PROVE  \E f : AscentTo(f, k, g, i)
<1> DEFINE Higher(S) == S \cup ({ g.entries[j].parent : j \in S \cap Tracked(g) } \ {0})
           Start == {g.entries[i].parent} \ {0}
           S == { m \in Nat : \E f : AscentTo(f, m, g, i) }
<1> HIDE DEF Higher, Start
<1>a. \A f, m : AscentTo(f, m, g, i) <=> f = [n \in 0..m |-> IF n = 0 THEN Start ELSE Higher(f[n - 1])]
  BY DEF AscentTo, Higher, Start
<1>1. 0 \in S
  <2> DEFINE f == [n \in 0..0 |-> Start]
  <2>1. \A h : [n \in 0..0 |-> Start] = [n \in 0..0 |-> IF n = 0 THEN Start ELSE Higher(h[n - 1])]
    OBVIOUS
  <2>2. AscentTo(f, 0, g, i)  BY <2>1, <1>a, Zenon
  <2> QED  BY <2>2
<1>2. ASSUME NEW m \in Nat, m \in S PROVE m + 1 \in S
  <2>2. PICK f : f = [n \in 0..m |-> IF n = 0 THEN Start ELSE Higher(f[n - 1])]  BY <1>2, <1>a
  <2> DEFINE more == [n \in 0..(m + 1) |-> IF n = m + 1 THEN Higher(f[m]) ELSE f[n]]
  <2>3. \A n \in 0..m : more[n] = f[n] /\ f[n] = IF n = 0 THEN Start ELSE Higher(f[n - 1])
    BY <2>2
  <2>4. \A n \in 0..(m + 1) :
          (IF n = m + 1 THEN Higher(f[m]) ELSE f[n]) = IF n = 0 THEN Start ELSE Higher(more[n - 1])
    <3> SUFFICES ASSUME NEW n \in 0..(m + 1)
                 PROVE  (IF n = m + 1 THEN Higher(f[m]) ELSE f[n]) = IF n = 0 THEN Start ELSE Higher(more[n - 1])
      OBVIOUS
    <3> HIDE DEF more
    <3>1. CASE n = m + 1
      <4>1. m \in 0..m /\ n - 1 = m /\ n # 0  BY <3>1
      <4>2. more[n - 1] = f[m]  BY <4>1, <2>3
      <4> QED  BY <3>1, <4>1, <4>2
    <3>2. CASE n \in 0..m /\ n # 0
      <4>1. n - 1 \in 0..m /\ n # m + 1  BY <3>2
      <4>2. more[n - 1] = f[n - 1]  BY <4>1, <2>3
      <4> QED  BY <3>2, <4>1, <4>2, <2>3
    <3>3. CASE n = 0  BY <3>3, <2>3
    <3> QED  BY <3>1, <3>2, <3>3
  <2>5. more = [n \in 0..(m + 1) |-> IF n = 0 THEN Start ELSE Higher(more[n - 1])]
    <3>1. \A h : (\A n \in 0..(m + 1) : (IF n = m + 1 THEN Higher(f[m]) ELSE f[n])
                                          = IF n = 0 THEN Start ELSE Higher(h[n - 1])) =>
            [n \in 0..(m + 1) |-> IF n = m + 1 THEN Higher(f[m]) ELSE f[n]]
              = [n \in 0..(m + 1) |-> IF n = 0 THEN Start ELSE Higher(h[n - 1])]
      BY Zenon
    <3>2. [n \in 0..(m + 1) |-> IF n = m + 1 THEN Higher(f[m]) ELSE f[n]]
              = [n \in 0..(m + 1) |-> IF n = 0 THEN Start ELSE Higher(more[n - 1])]
      <4> HIDE DEF more
      <4> QED  BY <3>1, <2>4, Zenon
    <3> QED  BY <3>2, Zenon
  <2>6. AscentTo(more, m + 1, g, i)
    <3> HIDE DEF more
    <3> QED  BY <2>5, <1>a
  <2> QED  BY <2>6
<1> HIDE DEF S
<1>3. \A m \in Nat : m \in S  BY <1>1, <1>2, OneByOne
<1> QED  BY <1>3 DEF S

LEMMA AncestorsBefore ==
  ASSUME WorldFits, NEW g, EntriesFit(g), NEW i \in Tracked(g)
  PROVE  \A a \in Ancestors(g, i) : a \in Nat /\ a < i
<1> DEFINE up == CHOOSE f : AscentTo(f, MaxBirths, g, i)
<1>1. AscentTo(up, MaxBirths, g, i)  BY AscentExists, ProcessAssumption
<1>2. Ancestors(g, i) = up[MaxBirths]  BY DEF Ancestors, AscentTo
<1> HIDE DEF up
<1> DEFINE Before == { a \in Nat : a < i }
           S == { n \in Nat : n <= MaxBirths => up[n] \subseteq Before }
<1>3. i \in Nat /\ \A j \in Tracked(g) : g.entries[j].parent \in Nat
                     /\ (g.entries[j].parent # 0 => g.entries[j].parent < j) /\ j \in Nat
  <2> SUFFICES ASSUME NEW j \in Tracked(g)
               PROVE  g.entries[j].parent \in Nat /\ j \in Nat
                      /\ (g.entries[j].parent # 0 => g.entries[j].parent < j)
    BY TrackedAreBorn
  <2>1. j \in Born /\ j \in Birth /\ j \in Nat  BY TrackedAreBorn
  <2>2. g.entries[j].parent \in {0, os[j].parent}  BY DEF EntriesFit, EntryIsTrue
  <2>3. os[j].parent \in Nat /\ os[j].parent < j  BY <2>1, BornTyped DEF WorldFits
  <2> QED  BY <2>1, <2>2, <2>3
<1>4. 0 \in S
  <2>1. up[0] = {g.entries[i].parent} \ {0}
    BY <1>1, ProcessAssumption DEF AscentTo
  <2> QED  BY <2>1, <1>3
<1>5. ASSUME NEW n \in Nat, n \in S PROVE n + 1 \in S
  <2> SUFFICES ASSUME n + 1 <= MaxBirths PROVE up[n + 1] \subseteq Before  OBVIOUS
  <2>1. up[n] \subseteq Before  BY <1>5, ProcessAssumption
  <2>2. up[n + 1] = up[n] \cup ({ g.entries[j].parent : j \in up[n] \cap Tracked(g) } \ {0})
    <3>1. n + 1 \in 0..MaxBirths /\ n + 1 # 0 /\ (n + 1) - 1 = n  BY ProcessAssumption
    <3>2. up[n + 1] = LET below == up[(n + 1) - 1]
                      IN below \cup ({ g.entries[j].parent : j \in below \cap Tracked(g) } \ {0})
      BY <1>1, <3>1 DEF AscentTo
    <3> QED  BY <3>1, <3>2
  <2>3. \A j \in up[n] \cap Tracked(g) : g.entries[j].parent # 0 => g.entries[j].parent \in Before
    BY <2>1, <1>3
  <2> HIDE DEF Before
  <2> QED  BY <2>1, <2>2, <2>3
<1> HIDE DEF S
<1>6. MaxBirths \in S  BY <1>4, <1>5, OneByOne, ProcessAssumption
<1> QED  BY <1>2, <1>6, ProcessAssumption DEF S

-----------------------------------------------------------------------------
(* A group of which only what is said of the authority's state changes.      *)
LEMMA StateChanges ==
  ASSUME WorldFits, NEW g, GroupFits(g), NEW h, IsGroup(h), h.mode = g.mode,
         h.entries = g.entries, h.authority = g.authority, h.handoffs = g.handoffs,
         g.complete = h.complete \/ ~h.complete
  PROVE  GroupFits(h) /\ Follows(g, h)
<1>1. EntriesFit(h)  BY DEF GroupFits, EntriesFit, Tracked
<1>2. AuthorityFits(h)  BY DEF GroupFits, AuthorityFits, Tracked
<1>3. Follows(g, g)  BY FollowsItself DEF GroupFits
<1>4. Follows(g, h)  BY <1>3 DEF Follows
<1> QED  BY <1>1, <1>2, <1>4 DEF GroupFits

LEMMA UncertainFits ==
  ASSUME WorldFits, NEW g, GroupFits(g)
  PROVE  GroupFits(Uncertain(g)) /\ Follows(g, Uncertain(g)) /\ TreeSettled(Uncertain(g))
<1> DEFINE h == Uncertain(g)
<1>1. h = [mode |-> g.mode, entries |-> g.entries, authority |-> g.authority,
           handoffs |-> g.handoffs, state |-> "Unverifiable", pending |-> g.pending, late |-> g.late,
           complete |-> FALSE, configured |-> g.configured]
  <2>1. h = [g EXCEPT !.complete = FALSE, !.state = "Unverifiable"]  BY Zenon DEF Uncertain
  <2> HIDE DEF h
  <2> QED  BY <2>1 DEF GroupFits, IsGroup
<1> HIDE DEF h
<1>2. /\ IsGroup(h) /\ h.mode = g.mode /\ h.entries = g.entries /\ h.authority = g.authority
      /\ h.handoffs = g.handoffs /\ ~h.complete /\ h.state = "Unverifiable"
  BY <1>1 DEF IsGroup
<1>3. TreeSettled(h)  BY <1>2 DEF TreeSettled
<1>4. GroupFits(h) /\ Follows(g, h)  BY <1>2, StateChanges
<1> QED  BY <1>3, <1>4 DEF h

SettledAs(g, state) == [g EXCEPT !.state = state, !.pending = FALSE]
LEMMA SettledAsFits ==
  ASSUME WorldFits, NEW g, GroupFits(g),
         NEW state \in {"RootActive", "DescendantActive", "UnsupportedContainment", "TreeExited",
                        "Unverifiable"},
         ~g.complete => state = "Unverifiable", state = "TreeExited" => InJob = {},
         state = "RootActive" => ~g.entries[g.authority].exited /\ g.authority = First,
         state = "DescendantActive" => ~g.entries[g.authority].exited /\ g.authority # First
  PROVE  /\ GroupFits(SettledAs(g, state)) /\ Follows(g, SettledAs(g, state))
         /\ TreeSettled(SettledAs(g, state)) /\ SettledAs(g, state).authority = g.authority
<1> DEFINE h == SettledAs(g, state)
<1>1. h = [mode |-> g.mode, entries |-> g.entries, authority |-> g.authority,
           handoffs |-> g.handoffs, state |-> state, pending |-> FALSE, late |-> g.late,
           complete |-> g.complete, configured |-> g.configured]
  <2>1. h = [g EXCEPT !.state = state, !.pending = FALSE]  BY Zenon DEF SettledAs
  <2> HIDE DEF h
  <2> QED  BY <2>1 DEF GroupFits, IsGroup
<1> HIDE DEF h
<1>2. /\ IsGroup(h) /\ h.mode = g.mode /\ h.entries = g.entries /\ h.authority = g.authority
      /\ h.handoffs = g.handoffs /\ h.complete = g.complete /\ h.state = state
  BY <1>1 DEF IsGroup
<1>3. TreeSettled(h)  BY <1>2 DEF TreeSettled
<1>4. GroupFits(h) /\ Follows(g, h)  BY <1>2, StateChanges
<1> QED  BY <1>2, <1>3, <1>4 DEF h

LEMMA PendingFits ==
  ASSUME WorldFits, NEW g, GroupFits(g), g.complete, NEW h,
         \/ h = [g EXCEPT !.pending = TRUE, !.late = FALSE, !.state = "HandoffPending"]
         \/ h = [g EXCEPT !.state = "HandoffPending"]
  PROVE  GroupFits(h) /\ Follows(g, h) /\ TreeSettled(h) /\ h.authority = g.authority
<1>1. \/ h = [mode |-> g.mode, entries |-> g.entries, authority |-> g.authority,
           handoffs |-> g.handoffs, state |-> "HandoffPending", pending |-> TRUE, late |-> FALSE,
           complete |-> g.complete, configured |-> g.configured]
      \/ h = [mode |-> g.mode, entries |-> g.entries, authority |-> g.authority,
           handoffs |-> g.handoffs, state |-> "HandoffPending", pending |-> g.pending, late |-> g.late,
           complete |-> g.complete, configured |-> g.configured]
  BY DEF GroupFits, IsGroup
<1>2. /\ IsGroup(h) /\ h.mode = g.mode /\ h.entries = g.entries /\ h.authority = g.authority
      /\ h.handoffs = g.handoffs /\ h.complete = g.complete /\ h.state = "HandoffPending"
  BY <1>1 DEF IsGroup
<1>3. TreeSettled(h)  BY <1>2 DEF TreeSettled
<1>4. GroupFits(h) /\ Follows(g, h)  BY <1>2, StateChanges
<1> QED  BY <1>2, <1>3, <1>4

LEMMA HandedOnFits ==
  ASSUME WorldFits, NEW g, GroupFits(g), g.complete, g.entries[g.authority].exited,
         NEW i \in Frontier(g), NEW h,
         h = [g EXCEPT !.authority = i, !.handoffs = @ + 1, !.pending = FALSE]
  PROVE  GroupFits(h) /\ Follows(g, h) /\ g.authority < h.authority
<1>1. h = [mode |-> g.mode, entries |-> g.entries, authority |-> i,
           handoffs |-> g.handoffs + 1, state |-> g.state, pending |-> FALSE, late |-> g.late,
           complete |-> g.complete, configured |-> g.configured]
  BY DEF GroupFits, IsGroup
<1>2. /\ IsGroup(h) /\ h.mode = g.mode /\ h.entries = g.entries /\ h.authority = i
      /\ h.handoffs = g.handoffs + 1 /\ h.complete = g.complete
  BY <1>1 DEF IsGroup
<1>3. i \in Tracked(g) /\ os[i].trusted /\ g.authority \in Ancestors(g, i)
  BY DEF Frontier, Trusted, Unended
<1>4. g.authority < i  BY <1>3, AncestorsBefore DEF GroupFits
<1>5. /\ g.authority \in Nat /\ g.handoffs \in Nat /\ g.handoffs < g.authority
      /\ g.authority \in Tracked(g) /\ i \in Nat
  BY <1>3, GroupNumbers, TrackedAreBorn DEF GroupFits, AuthorityFits
<1>6. EntriesFit(h)  BY <1>2 DEF GroupFits, EntriesFit, Tracked
<1>7. i # First  BY <1>4, <1>5 DEF First
<1>8. AuthorityFits(h)  BY <1>2, <1>3, <1>4, <1>5, <1>7 DEF AuthorityFits, Tracked
<1>9. os[g.authority].gone  BY <1>5 DEF GroupFits, EntriesFit, EntryIsTrue
<1>10. Follows(g, h)  BY <1>2, <1>4, <1>5, <1>9 DEF Follows
<1> QED  BY <1>2, <1>4, <1>6, <1>8, <1>10 DEF GroupFits

LEMMA AdvanceFits ==
  ASSUME WorldFits, NEW g, GroupFits(g)
  PROVE  /\ GroupFits(Advance(g)) /\ Follows(g, Advance(g))
         /\ Advance(g).authority = g.authority \/ g.authority < Advance(g).authority
         /\ Advance(g).authority = g.authority => TreeSettled(Advance(g))
<1> DEFINE h == Advance(g)
<1>u. SettledAs(g, "Unverifiable") = Unverified(g)  BY DEF SettledAs, Unverified
<1>1. CASE ~g.complete
  <2>1. h = SettledAs(g, "Unverifiable")  BY <1>1, <1>u DEF Advance
  <2> QED  BY <2>1, <1>1, SettledAsFits
<1>2. CASE g.complete /\ ~g.entries[g.authority].exited
  <2>1. h = SettledAs(g, IF g.handoffs = 0 THEN "RootActive" ELSE "DescendantActive")
    BY <1>2 DEF Advance, SettledAs
  <2>2. (g.handoffs = 0) <=> (g.authority = First)  BY DEF GroupFits, AuthorityFits
  <2>3. CASE g.handoffs = 0
    <3>1. h = SettledAs(g, "RootActive")  BY <2>1, <2>3
    <3> QED  BY <3>1, <2>2, <2>3, <1>2, SettledAsFits
  <2>4. CASE g.handoffs # 0
    <3>1. h = SettledAs(g, "DescendantActive")  BY <2>1, <2>4
    <3> QED  BY <3>1, <2>2, <2>4, <1>2, SettledAsFits
  <2> QED  BY <2>3, <2>4
<1> DEFINE Over == g.complete /\ g.entries[g.authority].exited
<1>3. CASE Over /\ g.mode # "Full"
  <2>1. h = SettledAs(g, "UnsupportedContainment")  BY <1>3 DEF Advance, SettledAs
  <2> QED  BY <2>1, <1>3, SettledAsFits
<1>4. CASE Over /\ g.mode = "Full" /\ (~g.configured \/ Cardinality(Frontier(g)) > 1)
  <2>1. h = SettledAs(g, "Unverifiable")  BY <1>4, <1>u DEF Advance
  <2> QED  BY <2>1, <1>4, SettledAsFits
<1> DEFINE Clear == Over /\ g.mode = "Full" /\ ~(~g.configured \/ Cardinality(Frontier(g)) > 1)
<1>5. CASE Clear /\ Frontier(g) # {}
  <2> DEFINE i == CHOOSE i \in Frontier(g) : TRUE
  <2>1. h = [g EXCEPT !.authority = i, !.handoffs = @ + 1, !.pending = FALSE]
    BY <1>5 DEF Advance
  <2>2. i \in Frontier(g)  BY <1>5
  <2> HIDE DEF i, h
  <2>3. GroupFits(h) /\ Follows(g, h) /\ g.authority < h.authority
    BY <2>1, <2>2, <1>5, HandedOnFits
  <2>4. h.authority # g.authority
    <3>1. g.authority \in Nat /\ h.authority \in Nat  BY <2>3, GroupNumbers DEF GroupFits
    <3> QED  BY <2>3, <3>1
  <2> QED  BY <2>3, <2>4 DEF h
<1>6. CASE Clear /\ Frontier(g) = {} /\ InJob = {}
  <2>1. h = SettledAs(g, "TreeExited")  BY <1>6 DEF Advance, SettledAs
  <2> QED  BY <2>1, <1>6, SettledAsFits
<1>7. CASE Clear /\ Frontier(g) = {} /\ InJob # {} /\ ~g.pending
  <2>1. h = [g EXCEPT !.pending = TRUE, !.late = FALSE, !.state = "HandoffPending"]
    BY <1>7 DEF Advance
  <2> HIDE DEF h
  <2> QED  BY <2>1, <1>7, PendingFits DEF h
<1>8. CASE Clear /\ Frontier(g) = {} /\ InJob # {} /\ g.pending /\ ~g.late
  <2>1. h = [g EXCEPT !.state = "HandoffPending"]  BY <1>8 DEF Advance
  <2> HIDE DEF h
  <2> QED  BY <2>1, <1>8, PendingFits DEF h
<1>9. CASE Clear /\ Frontier(g) = {} /\ InJob # {} /\ g.pending /\ g.late
  <2>1. h = SettledAs(g, "Unverifiable")  BY <1>9, <1>u DEF Advance
  <2> QED  BY <2>1, <1>9, SettledAsFits
<1> QED  BY <1>1, <1>2, <1>3, <1>4, <1>5, <1>6, <1>7, <1>8, <1>9

-----------------------------------------------------------------------------
(* The loop of refreshAuthorityLocked() ends: each round but the last hands   *)
(* authority to a later process, and there are MaxBirths of them.            *)
NextRound(r) == IF r.next.authority = r.last.authority THEN r
                ELSE [last |-> r.next, next |-> Advance(r.next)]
FirstRound(g) == [last |-> g, next |-> Advance(g)]
RoundsTo(f, m, g) ==
  f = [n \in 0..m |-> IF n = 0 THEN FirstRound(g) ELSE NextRound(f[n - 1])]

LEMMA RoundsExist ==
  ASSUME NEW g, NEW k \in Nat
  PROVE  \E f : RoundsTo(f, k, g)
<1> DEFINE Start == FirstRound(g)
           S == { m \in Nat : \E f : RoundsTo(f, m, g) }
<1> HIDE DEF Start
<1>a. \A f, m : RoundsTo(f, m, g) <=> f = [n \in 0..m |-> IF n = 0 THEN Start ELSE NextRound(f[n - 1])]
  BY DEF RoundsTo, Start
<1>1. 0 \in S
  <2> DEFINE f == [n \in 0..0 |-> Start]
  <2>1. \A h : [n \in 0..0 |-> Start] = [n \in 0..0 |-> IF n = 0 THEN Start ELSE NextRound(h[n - 1])]
    OBVIOUS
  <2>2. RoundsTo(f, 0, g)  BY <2>1, <1>a, Zenon
  <2> QED  BY <2>2
<1>2. ASSUME NEW m \in Nat, m \in S PROVE m + 1 \in S
  <2>2. PICK f : f = [n \in 0..m |-> IF n = 0 THEN Start ELSE NextRound(f[n - 1])]  BY <1>2, <1>a
  <2> DEFINE more == [n \in 0..(m + 1) |-> IF n = m + 1 THEN NextRound(f[m]) ELSE f[n]]
  <2>3. \A n \in 0..m : more[n] = f[n] /\ f[n] = IF n = 0 THEN Start ELSE NextRound(f[n - 1])
    BY <2>2
  <2>4. \A n \in 0..(m + 1) :
          (IF n = m + 1 THEN NextRound(f[m]) ELSE f[n]) = IF n = 0 THEN Start ELSE NextRound(more[n - 1])
    <3> SUFFICES ASSUME NEW n \in 0..(m + 1)
                 PROVE  (IF n = m + 1 THEN NextRound(f[m]) ELSE f[n])
                          = IF n = 0 THEN Start ELSE NextRound(more[n - 1])
      OBVIOUS
    <3> HIDE DEF more
    <3>1. CASE n = m + 1
      <4>1. m \in 0..m /\ n - 1 = m /\ n # 0  BY <3>1
      <4>2. more[n - 1] = f[m]  BY <4>1, <2>3
      <4> QED  BY <3>1, <4>1, <4>2
    <3>2. CASE n \in 0..m /\ n # 0
      <4>1. n - 1 \in 0..m /\ n # m + 1  BY <3>2
      <4>2. more[n - 1] = f[n - 1]  BY <4>1, <2>3
      <4> QED  BY <3>2, <4>1, <4>2, <2>3
    <3>3. CASE n = 0  BY <3>3, <2>3
    <3> QED  BY <3>1, <3>2, <3>3
  <2>5. more = [n \in 0..(m + 1) |-> IF n = 0 THEN Start ELSE NextRound(more[n - 1])]
    <3>1. \A h : (\A n \in 0..(m + 1) : (IF n = m + 1 THEN NextRound(f[m]) ELSE f[n])
                                          = IF n = 0 THEN Start ELSE NextRound(h[n - 1])) =>
            [n \in 0..(m + 1) |-> IF n = m + 1 THEN NextRound(f[m]) ELSE f[n]]
              = [n \in 0..(m + 1) |-> IF n = 0 THEN Start ELSE NextRound(h[n - 1])]
      BY Zenon
    <3>2. [n \in 0..(m + 1) |-> IF n = m + 1 THEN NextRound(f[m]) ELSE f[n]]
              = [n \in 0..(m + 1) |-> IF n = 0 THEN Start ELSE NextRound(more[n - 1])]
      <4> HIDE DEF more
      <4> QED  BY <3>1, <2>4, Zenon
    <3> QED  BY <3>2, Zenon
  <2>6. RoundsTo(more, m + 1, g)
    <3> HIDE DEF more
    <3> QED  BY <2>5, <1>a
  <2> QED  BY <2>6
<1> HIDE DEF S
<1>3. \A m \in Nat : m \in S  BY <1>1, <1>2, OneByOne
<1> QED  BY <1>3 DEF S

(* What round n has: it is over, or authority is with a process of a higher   *)
(* number than there were rounds.                                           *)
RoundFits(g, r, n) ==
  /\ GroupFits(r.last) /\ GroupFits(r.next) /\ Follows(g, r.next)
  /\ r.next.authority = r.last.authority => TreeSettled(r.next)
  /\ r.next.authority = r.last.authority \/ r.next.authority > n + 1

LEMMA RoundsFit ==
  ASSUME WorldFits, NEW g, GroupFits(g), NEW n \in Nat, NEW r, RoundFits(g, r, n)
  PROVE  RoundFits(g, NextRound(r), n + 1)
<1>1. CASE r.next.authority = r.last.authority
  BY <1>1 DEF NextRound, RoundFits
<1>2. CASE r.next.authority # r.last.authority
  <2> DEFINE h == Advance(r.next)
  <2>1. GroupFits(r.next) /\ Follows(g, r.next) /\ r.next.authority > n + 1
    BY <1>2 DEF RoundFits
  <2>2. /\ GroupFits(h) /\ Follows(r.next, h)
        /\ h.authority = r.next.authority \/ r.next.authority < h.authority
        /\ h.authority = r.next.authority => TreeSettled(h)
    BY <2>1, AdvanceFits
  <2>3. Follows(g, h)  BY <2>1, <2>2, FollowsOn DEF GroupFits
  <2>4. r.next.authority \in Nat /\ h.authority \in Nat
    BY <2>1, <2>2, GroupNumbers DEF GroupFits
  <2> HIDE DEF h
  <2>5. NextRound(r) = [last |-> r.next, next |-> h]  BY <1>2 DEF NextRound, h
  <2>6. h.authority = r.next.authority \/ h.authority > (n + 1) + 1
    BY <2>1, <2>2, <2>4
  <2>7. NextRound(r).last = r.next /\ NextRound(r).next = h  BY <2>5
  <2> QED  BY <2>1, <2>2, <2>3, <2>6, <2>7, Zenon DEF RoundFits
<1> QED  BY <1>1, <1>2

LEMMA RefreshFits ==
  ASSUME WorldFits, NEW g, GroupFits(g)
  PROVE  GroupFits(RefreshAuthority(g)) /\ Follows(g, RefreshAuthority(g)) /\ TreeSettled(RefreshAuthority(g))
<1> DEFINE round == CHOOSE f : RoundsTo(f, MaxBirths, g)
<1>1. RoundsTo(round, MaxBirths, g)  BY RoundsExist, ProcessAssumption
<1>2. RefreshAuthority(g) = round[MaxBirths].next
  BY DEF RefreshAuthority, RoundsTo, FirstRound, NextRound
<1> HIDE DEF round
<1>3. \A n \in 0..MaxBirths : round[n] = IF n = 0 THEN FirstRound(g) ELSE NextRound(round[n - 1])
  BY <1>1, Zenon DEF RoundsTo
<1> DEFINE S == { n \in Nat : n <= MaxBirths => RoundFits(g, round[n], n) }
<1>4. 0 \in S
  <2>1. 0 \in 0..MaxBirths  BY ProcessAssumption
  <2>2. round[0] = FirstRound(g)  BY <1>3, <2>1
  <2>3. round[0].last = g /\ round[0].next = Advance(g)  BY <2>2 DEF FirstRound
  <2>4. /\ GroupFits(Advance(g)) /\ Follows(g, Advance(g))
        /\ Advance(g).authority = g.authority \/ g.authority < Advance(g).authority
        /\ Advance(g).authority = g.authority => TreeSettled(Advance(g))
    BY AdvanceFits
  <2>5. g.authority \in Nat /\ Advance(g).authority \in Nat /\ g.authority # 0
    BY <2>4, GroupNumbers, TrackedAreBorn DEF GroupFits, AuthorityFits
  <2>6. Advance(g).authority = g.authority \/ Advance(g).authority > 0 + 1  BY <2>4, <2>5
  <2>7. RoundFits(g, round[0], 0)  BY <2>3, <2>4, <2>6, Zenon DEF RoundFits
  <2> QED  BY <2>7
<1>5. ASSUME NEW n \in Nat, n \in S PROVE n + 1 \in S
  <2> SUFFICES ASSUME n + 1 <= MaxBirths PROVE RoundFits(g, round[n + 1], n + 1)  OBVIOUS
  <2>1. RoundFits(g, round[n], n)  BY <1>5, ProcessAssumption
  <2>2. n + 1 \in 0..MaxBirths /\ n + 1 # 0 /\ (n + 1) - 1 = n  BY ProcessAssumption
  <2>3. round[n + 1] = NextRound(round[n])  BY <1>3, <2>2
  <2> QED  BY <2>1, <2>3, RoundsFit
<1> HIDE DEF S
<1>6. MaxBirths \in S  BY <1>4, <1>5, OneByOne, ProcessAssumption
<1> DEFINE r == round[MaxBirths]
<1>7. RoundFits(g, r, MaxBirths)  BY <1>6, ProcessAssumption DEF S
<1> HIDE DEF r
<1>8. r.next.authority \in Nat /\ r.next.authority <= MaxBirths
  BY <1>7, GroupNumbers DEF RoundFits, GroupFits
<1>9. TreeSettled(r.next)  BY <1>7, <1>8, ProcessAssumption DEF RoundFits
<1> QED  BY <1>2, <1>7, <1>9 DEF RoundFits, r

LEMMA CapturedFits ==
  ASSUME WorldFits, NEW g, GroupFits(g), NEW gone, \A i \in gone : os[i].gone, NEW h,
         h = RefreshAuthority(ResolveParents(CaptureExits(g, gone)))
  PROVE  GroupFits(h) /\ Follows(g, h) /\ TreeSettled(h)
<1> DEFINE c == CaptureExits(g, gone)
           d == ResolveParents(c)
<1>1. GroupFits(c) /\ Follows(g, c)  BY CaptureFits
<1>2. GroupFits(d) /\ Follows(c, d)  BY <1>1, ResolveFits
<1>3. GroupFits(h) /\ Follows(d, h) /\ TreeSettled(h)  BY <1>2, RefreshFits
<1>4. Follows(g, d)  BY <1>1, <1>2, FollowsOn DEF GroupFits
<1>5. Follows(g, h)  BY <1>2, <1>3, <1>4, FollowsOn DEF GroupFits
<1> QED  BY <1>3, <1>5

LEMMA ExitedFits ==
  ASSUME WorldFits, NEW g, GroupFits(g)
  PROVE  /\ GroupFits(RefreshExited(g)) /\ Follows(g, RefreshExited(g))
         /\ TreeSettled(g) => TreeSettled(RefreshExited(g))
<1> DEFINE gone == { i \in Unended(g) : os[i].gone }
           h == RefreshExited(g)
<1>1. CASE gone = {}
  <2>1. h = g  BY <1>1 DEF RefreshExited
  <2> QED  BY <2>1, FollowsItself DEF GroupFits
<1>2. CASE gone # {}
  <2>1. h = RefreshAuthority(ResolveParents(CaptureExits(g, gone)))  BY <1>2 DEF RefreshExited
  <2>2. \A i \in gone : os[i].gone  OBVIOUS
  <2> HIDE DEF h, gone
  <2>3. GroupFits(h) /\ Follows(g, h) /\ TreeSettled(h)  BY <2>1, <2>2, CapturedFits
  <2> QED  BY <2>3 DEF h
<1> QED  BY <1>1, <1>2

LEMMA LookedFits ==
  ASSUME WorldFits, NEW g, GroupFits(g)
  PROVE  GroupFits(Looked(g)) /\ Follows(g, Looked(g)) /\ TreeSettled(Looked(g))
<1> DEFINE c == RefreshExited(g)
           d == ResolveParents(c)
           h == RefreshAuthority(d)
<1>1. GroupFits(c) /\ Follows(g, c)  BY ExitedFits
<1>2. GroupFits(d) /\ Follows(c, d)  BY <1>1, ResolveFits
<1>3. GroupFits(h) /\ Follows(d, h) /\ TreeSettled(h)  BY <1>2, RefreshFits
<1>4. Follows(g, d)  BY <1>1, <1>2, FollowsOn DEF GroupFits
<1>5. Follows(g, h)  BY <1>2, <1>3, <1>4, FollowsOn DEF GroupFits
<1>6. Looked(g) = h  BY DEF Looked
<1> QED  BY <1>3, <1>5, <1>6

CreatorIs(i, parentPid) ==
  parentPid = 0 \/ (os[i].parent # 0 /\ parentPid = os[os[i].parent].pid)

LEMMA NewEntries ==
  ASSUME NEW x, NEW e, e = [FirstEntry EXCEPT !.parentPid = x]
  PROVE  e = [parentPid |-> x, parent |-> 0, exited |-> FALSE, exitTime |-> 0]
  BY DEF FirstEntry

LEMMA AddFits ==
  ASSUME WorldFits, NEW g, GroupFits(g), TreeSettled(g), NEW i \in Born, os[i].inJob, NoNamesake(i),
         NEW parentPid, CreatorIs(i, parentPid)
  PROVE  /\ GroupFits(AddEntry(g, i, parentPid)) /\ Follows(g, AddEntry(g, i, parentPid))
         /\ TreeSettled(AddEntry(g, i, parentPid))
<1> DEFINE h == AddEntry(g, i, parentPid)
           New == [FirstEntry EXCEPT !.parentPid = parentPid]
           more == [j \in Tracked(g) \cup {i} |-> IF j = i THEN New ELSE g.entries[j]]
           c == [g EXCEPT !.entries = more]
<1>1. CASE i \in Tracked(g)
  <2>1. h = g  BY <1>1 DEF AddEntry
  <2> QED  BY <2>1, FollowsItself DEF GroupFits
<1>2. CASE i \notin Tracked(g) /\ Cardinality(Tracked(g)) >= MaxTracked
  <2>1. h = Uncertain(g)  BY <1>2 DEF AddEntry
  <2> QED  BY <2>1, UncertainFits
<1>3. CASE i \notin Tracked(g) /\ ~(Cardinality(Tracked(g)) >= MaxTracked)
  <2>1. h = RefreshAuthority(ResolveParents(c))  BY <1>3 DEF AddEntry
  <2>2. New = [parentPid |-> parentPid, parent |-> 0, exited |-> FALSE, exitTime |-> 0]
    BY NewEntries, Zenon
  <2>3. EntryIsTrue(New, i)
    <3>1. parentPid \in Pid \cup {0}
      <4>1. CASE parentPid = 0  BY <4>1
      <4>2. CASE os[i].parent # 0 /\ parentPid = os[os[i].parent].pid
        BY <4>2, ParentsAreBorn, BornTyped
      <4> QED  BY <4>1, <4>2 DEF CreatorIs
    <3>2. 0 \in 0..MaxBirths  BY ProcessAssumption
    <3>3. New \in Record  BY <2>2, <3>1, <3>2 DEF Record
    <3>4. ~New.exited /\ New.parent = 0 /\ New.parentPid = parentPid  BY <2>2
    <3> HIDE DEF New
    <3> QED  BY <3>3, <3>4 DEF EntryIsTrue, CreatorIs
  <2> HIDE DEF New
  <2>4. c = [mode |-> g.mode, entries |-> more, authority |-> g.authority,
             handoffs |-> g.handoffs, state |-> g.state, pending |-> g.pending, late |-> g.late,
             complete |-> g.complete, configured |-> g.configured]
    <3> HIDE DEF more
    <3> QED  BY DEF GroupFits, IsGroup
  <2>5. /\ IsGroup(c) /\ c.mode = g.mode /\ c.entries = more /\ c.authority = g.authority
        /\ c.handoffs = g.handoffs /\ c.complete = g.complete
    <3> HIDE DEF more, c
    <3> QED  BY <2>4 DEF IsGroup
  <2> HIDE DEF c
  <2>6. Tracked(c) = Tracked(g) \cup {i}  BY <2>5 DEF Tracked
  <2>7. c.entries = [j \in Tracked(c) |-> c.entries[j]]
    <3>1. more = [j \in Tracked(g) \cup {i} |-> more[j]]  OBVIOUS
    <3> HIDE DEF more
    <3> QED  BY <3>1, <2>5, <2>6
  <2>8. \A j \in Tracked(c) : EntryIsTrue(c.entries[j], j)
    <3> SUFFICES ASSUME NEW j \in Tracked(g) \cup {i} PROVE EntryIsTrue(more[j], j)
      BY <2>5, <2>6
    <3>1. CASE j = i  BY <3>1, <2>3
    <3>2. CASE j \in Tracked(g) /\ j # i
      <4>1. more[j] = g.entries[j]  BY <3>2
      <4> QED  BY <4>1, <3>2 DEF GroupFits, EntriesFit
    <3> QED  BY <3>1, <3>2
  <2>9. IsFiniteSet(Tracked(c)) /\ Cardinality(Tracked(c)) <= MaxTracked
    <3>1. IsFiniteSet(Tracked(g))  BY DEF GroupFits, EntriesFit
    <3>2. Cardinality(Tracked(g)) \in Nat  BY <3>1, FS_CardinalityType
    <3>3. IsFiniteSet(Tracked(c)) /\ Cardinality(Tracked(c)) = Cardinality(Tracked(g)) + 1
      BY <3>1, <2>6, <1>3, FS_AddElement
    <3> QED  BY <3>2, <3>3, <1>3, ProcessAssumption
  <2>10. First \in Tracked(c)  BY <2>6 DEF GroupFits, EntriesFit
  <2>11. EntriesFit(c)  BY <2>7, <2>8, <2>9, <2>10 DEF EntriesFit
  <2>12. AuthorityFits(c)  BY <2>5, <2>6 DEF GroupFits, AuthorityFits
  <2>13. Follows(g, g)  BY FollowsItself DEF GroupFits
  <2>14. Follows(g, c)  BY <2>5, <2>13 DEF Follows
  <2>15. GroupFits(c)  BY <2>5, <2>11, <2>12 DEF GroupFits
  <2> DEFINE d == ResolveParents(c)
  <2>16. GroupFits(d) /\ Follows(c, d)  BY <2>15, ResolveFits
  <2>17. GroupFits(h) /\ Follows(d, h) /\ TreeSettled(h)  BY <2>1, <2>16, RefreshFits
  <2> HIDE DEF d, h
  <2>18. Follows(g, d)  BY <2>14, <2>15, <2>16, FollowsOn DEF GroupFits
  <2>19. Follows(g, h)  BY <2>16, <2>17, <2>18, FollowsOn DEF GroupFits
  <2> QED  BY <2>17, <2>19 DEF h
<1> QED  BY <1>1, <1>2, <1>3

-----------------------------------------------------------------------------
GroupInv == WorldFits /\ GroupFits(group) /\ TreeSettled(group) /\ StoppedMeansEmpty
GroupStep == GroupInv' /\ Follows(group, group')

LEMMA GroupSuffices == GroupInv => ProcessTypeOK /\ ProcessTreeIsExact
<1> SUFFICES ASSUME GroupInv PROVE ProcessTypeOK /\ ProcessTreeIsExact  OBVIOUS
<1> USE DEF GroupInv
<1>1. EntriesFit(group) /\ AuthorityFits(group)  BY DEF GroupFits
<1>2. \A i \in Tracked(group) : EntryIsTrue(group.entries[i], i)  BY <1>1 DEF EntriesFit
<1>3. ProcessTypeOK
  <2>1. group.handoffs \in 0..MaxBirths
    <3>1. /\ group.authority \in Nat /\ group.handoffs \in Nat /\ group.authority <= MaxBirths
          /\ group.handoffs < group.authority
      BY <1>1, GroupNumbers DEF AuthorityFits
    <3> QED  BY <3>1, ProcessAssumption
  <2>2. Tracked(group) \subseteq Born  BY <1>2 DEF EntryIsTrue
  <2>3. \A i \in Tracked(group) : group.entries[i] \in Record  BY <1>2 DEF EntryIsTrue
  <2> QED  BY <1>1, <2>1, <2>2, <2>3 DEF ProcessTypeOK, WorldFits, EntriesFit, AuthorityFits
<1>4. RecordsAreTrue  BY <1>2 DEF RecordsAreTrue, EntryIsTrue
<1>5. AuthorityIsOwned
  <2>1. group.authority \in Tracked(group)  BY <1>1 DEF AuthorityFits
  <2>2. group.authority # First =>
          group.authority \in Born /\ os[group.authority].inJob /\ os[group.authority].trusted
    BY <1>1, <1>2, <2>1 DEF EntryIsTrue, AuthorityFits
  <2>3. group.authority = First \/ (Descends(group.authority) /\ os[group.authority].trusted)
    BY <2>2, JobDescends
  <2> QED  BY <2>3 DEF TreeSettled, AuthorityIsOwned
<1> QED  BY <1>3, <1>4, <1>5 DEF ProcessTreeIsExact

LEMMA GroupStarts == ProcessGroupInit => GroupInv
<1> SUFFICES ASSUME ProcessGroupInit PROVE GroupInv  OBVIOUS
<1>1. PICK p \in {Max(Pid)}, mode \in {"Full", "Breakaway", "RootOnly"} :
    /\ born = 1
    /\ os = [i \in Birth |->
         [pid |-> p, parent |-> 0, inJob |-> i = 1 /\ Contained(mode),
          trusted |-> i = 1, gone |-> i # 1, end |-> 0]]
    /\ packets = {} /\ opened = {} /\ lookup = Idle
    /\ group = [mode |-> mode, entries |-> [i \in {First} |-> FirstEntry],
                authority |-> First, handoffs |-> 0, state |-> "RootActive",
                pending |-> FALSE, late |-> FALSE, complete |-> TRUE,
                configured |-> FALSE]
    /\ leaving = "no"
  BY DEF ProcessGroupInit
<1>2. p \in Pid
  <2>1. \E x \in Pid : \A y \in Pid : y <= x  BY ProcessAssumption
  <2>2. \E x \in Pid : \A y \in Pid : x >= y  BY <2>1
  <2>3. Max(Pid) \in Pid  BY <2>2 DEF Max
  <2> QED  BY <2>3
<1>3. Born = {1} /\ 1 \in Birth /\ First = 1 /\ 0 \in 0..MaxBirths
  BY <1>1, ProcessAssumption DEF Born, Birth, First
<1>4. \A i \in Birth : /\ os[i].pid = p /\ os[i].parent = 0 /\ os[i].end = 0
                       /\ os[i].gone = (i # 1) /\ os[i] \in LiveProcess
  BY <1>1, <1>2, <1>3 DEF LiveProcess
<1>5. \A i \in Birth : 0 < i  BY BirthsAre
<1>6. WorldFits
  <2>1. \A i \in Born : BornWell(i)  BY <1>1, <1>3, <1>4 DEF BornWell
  <2>2. os \in [Birth -> LiveProcess]  BY <1>1, <1>4
  <2> QED  BY <1>1, <1>3, <1>4, <1>5, <2>1, <2>2 DEF WorldFits
<1>7. /\ IsGroup(group) /\ group.entries = [i \in {First} |-> FirstEntry] /\ group.authority = First
      /\ group.handoffs = 0 /\ group.state = "RootActive" /\ group.complete = TRUE
  BY <1>1 DEF IsGroup
<1>8. Tracked(group) = {First} /\ group.entries[First] = FirstEntry  BY <1>7 DEF Tracked
<1>9. EntryIsTrue(FirstEntry, First)
  BY <1>3 DEF EntryIsTrue, FirstEntry, Record, NoNamesake
<1>10. EntriesFit(group)
  <2>1. IsFiniteSet({First}) /\ Cardinality({First}) = 1  BY FS_Singleton
  <2>2. group.entries = [i \in {First} |-> group.entries[i]]  BY <1>7
  <2> QED  BY <1>8, <1>9, <2>1, <2>2, ProcessAssumption DEF EntriesFit
<1>11. AuthorityFits(group)  BY <1>7, <1>8, <1>3 DEF AuthorityFits
<1>12. TreeSettled(group)  BY <1>7, <1>8 DEF TreeSettled, FirstEntry
<1>13. StoppedMeansEmpty  BY <1>1 DEF StoppedMeansEmpty
<1> QED  BY <1>6, <1>7, <1>10, <1>11, <1>12, <1>13 DEF GroupInv, GroupFits

-----------------------------------------------------------------------------
(* The group in a world where processes were born or ended.                  *)
WorldMoves ==
  /\ Born \subseteq Born'
  /\ \A i \in Born : /\ os'[i].pid = os[i].pid /\ os'[i].parent = os[i].parent
                     /\ os'[i].inJob = os[i].inJob /\ os'[i].trusted = os[i].trusted
                     /\ os[i].gone => os'[i].gone /\ os'[i].end = os[i].end
  /\ \A i \in Pinned, j \in Born' \ Born : os'[j].pid # os[i].pid
  /\ InJob = {} => InJob' = {}

LEMMA GroupStays ==
  ASSUME GroupInv, group' = group, WorldMoves
  PROVE  GroupFits(group)' /\ TreeSettled(group)' /\ Follows(group, group')
<1> USE DEF GroupInv
<1>1. \A i \in Tracked(group) : EntryIsTrue(group.entries[i], i)'
  <2> SUFFICES ASSUME NEW i \in Tracked(group) PROVE EntryIsTrue(group.entries[i], i)'
    OBVIOUS
  <2>1. EntryIsTrue(group.entries[i], i)  BY DEF GroupFits, EntriesFit
  <2>2. i \in Born /\ i \in Born'  BY <2>1 DEF EntryIsTrue, WorldMoves
  <2>3. ~group.entries[i].exited => NoNamesake(i)'
    <3> SUFFICES ASSUME ~group.entries[i].exited, NEW j \in Born', i < j
                 PROVE  os'[j].pid # os'[i].pid
      BY DEF NoNamesake
    <3>1. i \in Pinned  BY DEF Pinned, Unended
    <3>2. CASE j \in Born
      BY <2>1, <2>2, <3>2 DEF EntryIsTrue, NoNamesake, WorldMoves
    <3>3. CASE j \notin Born
      BY <2>2, <3>1, <3>3 DEF WorldMoves
    <3> QED  BY <3>2, <3>3
  <2>4. os'[i].parent = os[i].parent /\ os'[i].inJob = os[i].inJob
        /\ (os[i].gone => os'[i].gone /\ os'[i].end = os[i].end)
    BY <2>2 DEF WorldMoves
  <2>5. os[i].parent # 0 => os'[os[i].parent].pid = os[os[i].parent].pid
    <3> SUFFICES ASSUME os[i].parent # 0 PROVE os'[os[i].parent].pid = os[os[i].parent].pid  OBVIOUS
    <3>1. os[i].parent \in Born  BY <2>2, ParentsAreBorn
    <3> QED  BY <3>1 DEF WorldMoves
  <2>6. /\ group.entries[i].exited => os'[i].gone /\ group.entries[i].exitTime = os'[i].end
        /\ group.entries[i].parent \in {0, os'[i].parent}
        /\ group.entries[i].parentPid # 0 =>
             os'[i].parent # 0 /\ group.entries[i].parentPid = os'[os'[i].parent].pid
        /\ i # First => os'[i].inJob
        /\ group.entries[i] \in Record
    BY <2>1, <2>4, <2>5 DEF EntryIsTrue
  <2> QED  BY <2>2, <2>3, <2>6, Zenon DEF EntryIsTrue
<1>2. EntriesFit(group)'
  <2>1. Tracked(group') = Tracked(group)  OBVIOUS
  <2>2. EntriesFit(group)  BY DEF GroupFits
  <2> QED  BY <1>1, <2>1, <2>2 DEF EntriesFit
<1>3. AuthorityFits(group)'
  <2>1. AuthorityFits(group) /\ EntriesFit(group)  BY DEF GroupFits
  <2>2. group.authority \in Born  BY <2>1, GroupNumbers
  <2>3. os'[group.authority].trusted = os[group.authority].trusted  BY <2>2 DEF WorldMoves
  <2>4. group.authority # First => os'[group.authority].trusted  BY <2>1, <2>3 DEF AuthorityFits
  <2>5. /\ group.authority \in Tracked(group) /\ group.handoffs \in Nat
        /\ group.handoffs < group.authority /\ (group.handoffs = 0 <=> group.authority = First)
    BY <2>1 DEF AuthorityFits
  <2> QED  BY <2>4, <2>5 DEF AuthorityFits, Tracked
<1>4. GroupFits(group)'  BY <1>2, <1>3 DEF GroupFits, IsGroup
<1>5. TreeSettled(group)'  BY DEF TreeSettled, WorldMoves
<1>6. Follows(group, group')  BY FollowsItself DEF GroupFits
<1> QED  BY <1>4, <1>5, <1>6

(* A step of the group's own, in which no process begins or ends.            *)
LEMMA OwnSteps ==
  ASSUME GroupInv, UNCHANGED <<born, os>>, WorldFits', StoppedMeansEmpty',
         GroupFits(group'), TreeSettled(group'), Follows(group, group')
  PROVE  GroupStep
<1>1. \A e, i : EntryIsTrue(e, i) => EntryIsTrue(e, i)'
  BY DEF EntryIsTrue, Born, NoNamesake
<1>2. EntriesFit(group)'  BY <1>1 DEF GroupFits, EntriesFit
<1>3. AuthorityFits(group)'  BY DEF GroupFits, AuthorityFits, Tracked
<1>4. GroupFits(group)'  BY <1>2, <1>3 DEF GroupFits, IsGroup
<1>5. TreeSettled(group)'  BY DEF TreeSettled, InJob, Born
<1> QED  BY <1>4, <1>5 DEF GroupStep, GroupInv

LEMMA WorldStays ==
  ASSUME WorldFits, UNCHANGED <<born, os>>,
         \A i \in opened' : i \in Born /\ os[i].inJob /\ NoNamesake(i)
  PROVE  WorldFits'
  BY DEF WorldFits, BornWell, Born, NoNamesake

LEMMA StopStays ==
  ASSUME GroupInv, UNCHANGED leaving, group'.mode = group.mode,
         InJob = {} => InJob' = {}, os[First].gone => os'[First].gone
  PROVE  StoppedMeansEmpty'
  BY DEF GroupInv, StoppedMeansEmpty

LEMMA OpenedFit ==
  ASSUME GroupInv, NEW p, NEW i \in OpenChild(p)
  PROVE  i \in Born /\ os[i].inJob /\ NoNamesake(i)
<1>1. i \in Born /\ os[i].inJob /\ (~os[i].gone \/ i \in Pinned)  BY DEF OpenChild, CanOpen
<1>2. CASE ~os[i].gone
  BY <1>1, <1>2 DEF NoNamesake, GroupInv, WorldFits
<1>3. CASE i \in opened  BY <1>1, <1>3 DEF GroupInv, WorldFits
<1>4. CASE i \in Unended(group)
  BY <1>1, <1>4 DEF Unended, GroupInv, GroupFits, EntriesFit, EntryIsTrue
<1> QED  BY <1>1, <1>2, <1>3, <1>4 DEF Pinned

LEMMA RecordFits ==
  ASSUME GroupInv, NEW i \in Born, os[i].inJob, NoNamesake(i), RecordChild(i)
  PROVE  GroupFits(group') /\ Follows(group, group') /\ TreeSettled(group')
<1>1. CASE group' = Uncertain(group)  BY <1>1, UncertainFits DEF GroupInv
<1>2. CASE \E parentPid \in {0} \cup { os[j].pid : j \in {os[i].parent} \ {0} } :
             group' = AddEntry(group, i, parentPid)
  <2>1. PICK parentPid \in {0} \cup { os[j].pid : j \in {os[i].parent} \ {0} } :
          group' = AddEntry(group, i, parentPid)
    BY <1>2
  <2>2. CreatorIs(i, parentPid)  BY DEF CreatorIs
  <2> QED  BY <2>1, <2>2, AddFits DEF GroupInv
<1> QED  BY <1>1, <1>2 DEF RecordChild

LEMMA GroupUnmoved ==
  ASSUME GroupInv, UNCHANGED <<born, os, group, leaving>>,
         \A i \in opened' : i \in Born /\ os[i].inJob /\ NoNamesake(i)
  PROVE  GroupStep
<1>1. Follows(group, group')  BY FollowsItself DEF GroupInv, GroupFits
<1>2. WorldFits'  BY WorldStays DEF GroupInv
<1>3. StoppedMeansEmpty'  BY StopStays DEF InJob, Born
<1> QED  BY <1>1, <1>2, <1>3, OwnSteps DEF GroupInv

LEMMA GroupMoves ==
  ASSUME GroupInv, UNCHANGED <<born, os, leaving>>, opened' \subseteq opened,
         GroupFits(group'), Follows(group, group'), TreeSettled(group')
  PROVE  GroupStep
<1>1. \A i \in opened' : i \in Born /\ os[i].inJob /\ NoNamesake(i)
  BY DEF GroupInv, WorldFits
<1>2. WorldFits'  BY <1>1, WorldStays DEF GroupInv
<1>3. StoppedMeansEmpty'  BY StopStays DEF InJob, Born, Follows
<1> QED  BY <1>2, <1>3, OwnSteps

LEMMA PacketSteps ==
  ASSUME GroupInv, RecordOpened \/ TakePacket \/ LookAtMember
  PROVE  GroupStep
<1>1. CASE RecordOpened
  <2>1. PICK i \in opened : RecordChild(i)  BY <1>1 DEF RecordOpened
  <2>2. i \in Born /\ os[i].inJob /\ NoNamesake(i)  BY DEF GroupInv, WorldFits
  <2>3. GroupFits(group') /\ Follows(group, group') /\ TreeSettled(group')
    BY <2>1, <2>2, RecordFits
  <2>4. UNCHANGED <<born, os, leaving>> /\ opened' = {}  BY <1>1 DEF RecordOpened
  <2> QED  BY <2>3, <2>4, GroupMoves
<1>2. CASE TakePacket
  <2>1. UNCHANGED <<born, os, leaving>>  BY <1>2 DEF TakePacket
  <2>2. PICK packet \in packets :
       \/ opened' = OpenChild(packet[2]) /\ UNCHANGED group
       \/ /\ UNCHANGED opened
          /\ group' = LET gone == MeantByExit(packet[2])
                      IN IF gone = {} THEN group
                         ELSE RefreshAuthority(ResolveParents(CaptureExits(group, gone)))
    BY <1>2 DEF TakePacket
  <2>3. CASE opened' = OpenChild(packet[2]) /\ UNCHANGED group
    BY <2>1, <2>3, OpenedFit, GroupUnmoved
  <2>4. CASE UNCHANGED opened /\ MeantByExit(packet[2]) # {}
             /\ group' = RefreshAuthority(ResolveParents(CaptureExits(group, MeantByExit(packet[2]))))
    <3>1. \A i \in MeantByExit(packet[2]) : os[i].gone  BY DEF MeantByExit
    <3>2. GroupFits(group') /\ Follows(group, group') /\ TreeSettled(group')
      BY <2>4, <3>1, CapturedFits DEF GroupInv
    <3> QED  BY <2>1, <2>4, <3>2, GroupMoves
  <2>5. CASE UNCHANGED opened /\ UNCHANGED group
    <3>1. \A i \in opened : i \in Born /\ os[i].inJob /\ NoNamesake(i)  BY DEF GroupInv, WorldFits
    <3> QED  BY <2>1, <2>5, <3>1, GroupUnmoved
  <2> QED  BY <2>2, <2>3, <2>4, <2>5
<1>3. CASE LookAtMember
  <2>1. UNCHANGED <<born, os, opened, leaving>>  BY <1>3 DEF LookAtMember
  <2>2. \/ UNCHANGED group
        \/ \E l \in MembersLeft : \E i \in OpenChild(l.look) : RecordChild(i)
    BY <1>3 DEF LookAtMember
  <2>3. CASE UNCHANGED group
    <3>1. \A i \in opened : i \in Born /\ os[i].inJob /\ NoNamesake(i)  BY DEF GroupInv, WorldFits
    <3> QED  BY <2>1, <2>3, <3>1, GroupUnmoved
  <2>4. CASE \E l \in MembersLeft : \E i \in OpenChild(l.look) : RecordChild(i)
    <3>0. PICK l \in MembersLeft : \E i \in OpenChild(l.look) : RecordChild(i)  BY <2>4
    <3>1. PICK i \in OpenChild(l.look) : RecordChild(i)  BY <3>0
    <3>2. i \in Born /\ os[i].inJob /\ NoNamesake(i)  BY OpenedFit
    <3>3. GroupFits(group') /\ Follows(group, group') /\ TreeSettled(group')
      BY <3>1, <3>2, RecordFits
    <3> QED  BY <2>1, <3>3, GroupMoves
  <2> QED  BY <2>2, <2>3, <2>4
<1> QED  BY <1>1, <1>2, <1>3

LEMMA LookSteps ==
  ASSUME GroupInv,
         WindowEnds \/ NoticeEnd \/ (\E trust \in BOOLEAN : BeginLook(trust)) \/ EndLook \/ LookFails
  PROVE  GroupStep
<1>0. UNCHANGED <<born, os, opened, leaving>>
  BY DEF WindowEnds, NoticeEnd, BeginLook, EndLook, LookFails
<1>g. GroupFits(group) /\ TreeSettled(group) /\ WorldFits /\ Follows(group, group)
  BY FollowsItself DEF GroupInv, GroupFits
<1>1. CASE WindowEnds
  <2>1. group' = [group EXCEPT !.late = TRUE]  BY <1>1 DEF WindowEnds
  <2>2. group' = [mode |-> group.mode, entries |-> group.entries, authority |-> group.authority,
           handoffs |-> group.handoffs, state |-> group.state, pending |-> group.pending, late |-> TRUE,
           complete |-> group.complete, configured |-> group.configured]
    BY <2>1, <1>g DEF GroupFits, IsGroup
  <2>3. /\ IsGroup(group') /\ group'.mode = group.mode /\ group'.entries = group.entries
        /\ group'.authority = group.authority /\ group'.handoffs = group.handoffs
        /\ group'.complete = group.complete /\ group'.state = group.state
    BY <2>2 DEF IsGroup
  <2>4. GroupFits(group') /\ Follows(group, group')  BY <2>3, <1>g, StateChanges
  <2>5. TreeSettled(group')  BY <2>3, <1>g DEF TreeSettled
  <2> QED  BY <2>4, <2>5, <1>0, GroupMoves
<1>2. CASE NoticeEnd
  <2>1. group' = RefreshExited(group)  BY <1>2 DEF NoticeEnd
  <2> QED  BY <2>1, <1>0, <1>g, ExitedFits, GroupMoves
<1>3. CASE \E trust \in BOOLEAN : BeginLook(trust)
  <2>1. group' = group  BY <1>3 DEF BeginLook
  <2> QED  BY <2>1, <1>0, <1>g, GroupMoves
<1>4. CASE EndLook
  <2>1. \/ group' = Looked([group EXCEPT !.configured = TRUE, !.pending = FALSE])
        \/ group' = Looked(group)
    BY <1>4 DEF EndLook
  <2>2. CASE group' = Looked(group)
    BY <2>2, <1>0, <1>g, LookedFits, GroupMoves
  <2>3. CASE group' = Looked([group EXCEPT !.configured = TRUE, !.pending = FALSE])
    <3> DEFINE h == [group EXCEPT !.configured = TRUE, !.pending = FALSE]
    <3>0. h = [group EXCEPT !.configured = TRUE, !.pending = FALSE]  OBVIOUS
    <3> HIDE DEF h
    <3>1. h = [mode |-> group.mode, entries |-> group.entries, authority |-> group.authority,
           handoffs |-> group.handoffs, state |-> group.state, pending |-> FALSE, late |-> group.late,
           complete |-> group.complete, configured |-> TRUE]
      BY <3>0, <1>g DEF GroupFits, IsGroup
    <3>2. /\ IsGroup(h) /\ h.mode = group.mode /\ h.entries = group.entries
          /\ h.authority = group.authority /\ h.handoffs = group.handoffs
          /\ h.complete = group.complete
      BY <3>1 DEF IsGroup
    <3>3. GroupFits(h) /\ Follows(group, h)  BY <3>2, <1>g, StateChanges
    <3>4. group' = Looked(h)  BY <2>3 DEF h
    <3>5. GroupFits(group') /\ Follows(h, group') /\ TreeSettled(group')
      BY <3>3, <3>4, <1>g, LookedFits
    <3>6. Follows(group, group')  BY <3>3, <3>5, <1>g, FollowsOn DEF GroupFits
    <3> QED  BY <3>5, <3>6, <1>0, GroupMoves
  <2> QED  BY <2>1, <2>2, <2>3
<1>5. CASE LookFails
  <2>1. group' = Uncertain(group)  BY <1>5 DEF LookFails
  <2> QED  BY <2>1, <1>0, <1>g, UncertainFits, GroupMoves
<1> QED  BY <1>1, <1>2, <1>3, <1>4, <1>5

LEMMA EmptyMeans ==
  ASSUME WorldFits, NEW g, GroupFits(g), Empty(g)
  PROVE  IF Contained(g.mode) THEN InJob = {} ELSE os[First].gone
<1>1. First \in Tracked(g) /\ First \notin Unended(g)  BY DEF GroupFits, EntriesFit, Empty
<1>2. g.entries[First].exited /\ EntryIsTrue(g.entries[First], First)
  BY <1>1 DEF Unended, GroupFits, EntriesFit
<1> QED  BY <1>2 DEF EntryIsTrue, Empty

LEMMA StopSteps ==
  ASSUME GroupInv, StopGroup \/ WaitForEmpty
  PROVE  GroupStep
<1>1. /\ UNCHANGED <<born, os, opened>> /\ group' = RefreshExited(group)
      /\ leaving' \in {"closing", "remains"} \/ (leaving' = "empty" /\ Empty(group'))
  <2>1. CASE StopGroup
    BY <2>1, Zenon DEF StopGroup
  <2>2. CASE WaitForEmpty
    BY <2>2, Zenon DEF WaitForEmpty
  <2> QED  BY <2>1, <2>2
<1>2. GroupFits(group') /\ Follows(group, group') /\ TreeSettled(group')
  BY <1>1, ExitedFits DEF GroupInv
<1>3. WorldFits'
  <2>1. \A i \in opened' : i \in Born /\ os[i].inJob /\ NoNamesake(i)
    BY <1>1 DEF GroupInv, WorldFits
  <2> QED  BY <1>1, <2>1, WorldStays DEF GroupInv
<1>4. StoppedMeansEmpty'
  <2>1. CASE leaving' \in {"closing", "remains"}  BY <2>1 DEF StoppedMeansEmpty
  <2>2. CASE leaving' = "empty" /\ Empty(group')
    <3>1. IF Contained(group'.mode) THEN InJob = {} ELSE os[First].gone
      BY <1>2, <2>2, EmptyMeans DEF GroupInv
    <3>2. InJob' = InJob /\ os' = os  BY <1>1 DEF InJob, Born
    <3> QED  BY <3>1, <3>2 DEF StoppedMeansEmpty
  <2> QED  BY <1>1, <2>1, <2>2
<1> QED  BY <1>1, <1>2, <1>3, <1>4, OwnSteps

-----------------------------------------------------------------------------
(* Processes end.                                                           *)
LEMMA BirthsInNumbers ==
  ASSUME WorldFits
  PROVE  /\ born \in Nat /\ born >= 1 /\ born <= MaxBirths /\ born \in 0..MaxBirths
         /\ \A i \in Born : i <= born /\ i \in Nat
<1>1. born \in Nat /\ born >= 1 /\ born <= MaxBirths
  BY ProcessAssumption DEF WorldFits, Birth
<1>2. born \in 0..MaxBirths  BY <1>1, ProcessAssumption
<1>3. \A i \in Born : i <= born /\ i \in Nat  BY <1>1 DEF Born
<1> QED  BY <1>1, <1>2, <1>3

LEMMA NoLaterThanNow ==
  ASSUME NEW now \in Nat, NEW then, then <= now, NEW end \in {then, now}
  PROVE  end <= now
  OBVIOUS

LEMMA EndsFit ==
  ASSUME GroupInv, NEW hit, \A i \in hit : i \in Born /\ ~os[i].gone,
         os' = [i \in Birth |-> IF i \in hit THEN [os[i] EXCEPT !.gone = TRUE, !.end = born]
                                             ELSE os[i]],
         UNCHANGED <<born, opened, group>>
  PROVE  /\ WorldFits' /\ WorldMoves /\ \A i \in hit : os'[i].gone
         /\ \A i \in Born : ~os'[i].gone => ~os[i].gone
<1>1. \A i \in Born : i \in Birth /\ os[i] \in LiveProcess  BY BornTyped DEF GroupInv
<1>2. \A i \in Birth : os[i] \in LiveProcess  BY DEF GroupInv, WorldFits
<1>3. /\ born \in Nat /\ born >= 1 /\ born <= MaxBirths /\ born \in 0..MaxBirths
      /\ \A i \in Born : i <= born /\ i \in Nat
  BY BirthsInNumbers, Zenon DEF GroupInv
<1>4. \A i \in Birth :
        /\ os'[i] \in LiveProcess /\ os'[i].pid = os[i].pid /\ os'[i].parent = os[i].parent
        /\ os'[i].inJob = os[i].inJob /\ os'[i].trusted = os[i].trusted
        /\ i \in hit => os'[i].gone /\ os'[i].end = born
        /\ i \notin hit => os'[i] = os[i]
  <2> SUFFICES ASSUME NEW i \in Birth
               PROVE  /\ os'[i] \in LiveProcess /\ os'[i].pid = os[i].pid /\ os'[i].parent = os[i].parent
                      /\ os'[i].inJob = os[i].inJob /\ os'[i].trusted = os[i].trusted
                      /\ i \in hit => os'[i].gone /\ os'[i].end = born
                      /\ i \notin hit => os'[i] = os[i]
    OBVIOUS
  <2>1. CASE i \in hit
    <3>1. os'[i] = [os[i] EXCEPT !.gone = TRUE, !.end = born]  BY <2>1
    <3>2. os[i] = [pid |-> os[i].pid, parent |-> os[i].parent, inJob |-> os[i].inJob,
                   trusted |-> os[i].trusted, gone |-> os[i].gone, end |-> os[i].end]
      BY <1>2 DEF LiveProcess
    <3>3. os'[i] = [pid |-> os[i].pid, parent |-> os[i].parent, inJob |-> os[i].inJob,
                    trusted |-> os[i].trusted, gone |-> TRUE, end |-> born]
      BY <3>1, <3>2
    <3>4. os[i] \in LiveProcess  BY <1>2
    <3> QED  BY <2>1, <3>3, <3>4, <1>3 DEF LiveProcess
  <2>2. CASE i \notin hit  BY <2>2, <1>2
  <2> QED  BY <2>1, <2>2
<1>5. \A i \in Born : os'[i].end \in {os[i].end, born} /\ (os[i].gone => os'[i].gone /\ os'[i].end = os[i].end)
                      /\ (os'[i].gone => os[i].gone \/ os'[i].end = born)
  BY <1>1, <1>4
<1>6. Born' = Born  BY DEF Born
<1>7. \A i \in Born : BornWell(i)'
  <2> SUFFICES ASSUME NEW i \in Born PROVE BornWell(i)'  OBVIOUS
  <2>1. BornWell(i) /\ i \in Birth  BY <1>1 DEF GroupInv, WorldFits
  <2>2. os'[i].end <= born
    <3>1. os[i].end <= born  BY <2>1, Zenon DEF BornWell
    <3>2. os'[i].end \in {os[i].end, born} /\ born \in Nat  BY <1>3, <1>5, Zenon
    <3> QED  BY <3>1, <3>2, NoLaterThanNow, Zenon
  <2>3. os'[i].parent = os[i].parent /\ os'[i].inJob = os[i].inJob  BY <2>1, <1>4
  <2>4. os[i].parent # 0 =>
          /\ os'[os[i].parent].gone => os'[os[i].parent].end >= i
          /\ os'[os[i].parent].inJob = os[os[i].parent].inJob
    <3> SUFFICES ASSUME os[i].parent # 0
                 PROVE  /\ os'[os[i].parent].gone => os'[os[i].parent].end >= i
                        /\ os'[os[i].parent].inJob = os[os[i].parent].inJob
      OBVIOUS
    <3>1. os[i].parent \in Born /\ os[i].parent \in Birth  BY <1>1, ParentsAreBorn DEF GroupInv
    <3>2. CASE os[os[i].parent].gone
      <4>1. os[os[i].parent].end >= i  BY <2>1, <3>2 DEF BornWell
      <4> QED  BY <3>1, <3>2, <4>1, <1>4, <1>5
    <3>3. CASE ~os[os[i].parent].gone
      <4>1. os'[os[i].parent].gone => os'[os[i].parent].end = born  BY <3>1, <3>3, <1>5
      <4>2. born >= i  BY <1>3
      <4> QED  BY <3>1, <4>1, <4>2, <1>4
    <3> QED  BY <3>2, <3>3
  <2>5. i # First /\ os[i].inJob => os[i].parent # 0 /\ os[os[i].parent].inJob
    BY <2>1 DEF BornWell
  <2> QED  BY <2>2, <2>3, <2>4, <2>5 DEF BornWell
<1>8. \A i, j \in Born : i < j /\ os'[i].pid = os'[j].pid => os'[i].gone /\ os'[i].end < j
  <2> SUFFICES ASSUME NEW i \in Born, NEW j \in Born, i < j, os'[i].pid = os'[j].pid
               PROVE  os'[i].gone /\ os'[i].end < j
    OBVIOUS
  <2>1. os[i].pid = os[j].pid  BY <1>1, <1>4
  <2>2. os[i].gone /\ os[i].end < j  BY <2>1 DEF GroupInv, WorldFits
  <2> QED  BY <2>2, <1>5
<1>9. \A i \in opened' : i \in Born /\ os'[i].inJob /\ NoNamesake(i)'
  <2> SUFFICES ASSUME NEW i \in opened PROVE i \in Born /\ os'[i].inJob /\ NoNamesake(i)'  OBVIOUS
  <2>1. i \in Born /\ os[i].inJob /\ NoNamesake(i)  BY DEF GroupInv, WorldFits
  <2>2. os'[i].inJob  BY <2>1, <1>1, <1>4
  <2>3. \A j \in Born : os'[j].pid = os[j].pid  BY <1>1, <1>4
  <2> QED  BY <2>1, <2>2, <2>3, <1>6 DEF NoNamesake
<1>10. WorldFits'
  <2>1. os' \in [Birth -> LiveProcess]  BY <1>4
  <2>2. \A i \in Birth : os'[i].parent < i  BY <1>4 DEF GroupInv, WorldFits
  <2>3. born' \in Birth  BY DEF GroupInv, WorldFits
  <2> QED  BY <2>1, <2>2, <2>3, <1>6, <1>7, <1>8, <1>9 DEF WorldFits
<1>11. InJob' \subseteq InJob  BY <1>1, <1>4, <1>5, <1>6 DEF InJob
<1>12. WorldMoves
  <2>1. \A i \in Born : /\ os'[i].pid = os[i].pid /\ os'[i].parent = os[i].parent
                        /\ os'[i].inJob = os[i].inJob /\ os'[i].trusted = os[i].trusted
                        /\ os[i].gone => os'[i].gone /\ os'[i].end = os[i].end
    BY <1>1, <1>4, <1>5
  <2> QED  BY <2>1, <1>6, <1>11 DEF WorldMoves
<1> QED  BY <1>1, <1>4, <1>5, <1>10, <1>12

LEMMA EndSteps2 ==
  ASSUME GroupInv, NEW i \in Birth, EndProcess(i)
  PROVE  GroupStep
<1>1. /\ i \in Born /\ ~os[i].gone /\ os' = [os EXCEPT ![i].gone = TRUE, ![i].end = born]
      /\ UNCHANGED <<born, opened, group, leaving>>
  BY DEF EndProcess, Alive
<1>2. os' = [k \in Birth |-> IF k \in {i} THEN [os[k] EXCEPT !.gone = TRUE, !.end = born] ELSE os[k]]
  BY <1>1 DEF GroupInv, WorldFits
<1>3. WorldFits' /\ WorldMoves
  <2>1. \A k \in {i} : k \in Born /\ ~os[k].gone  BY <1>1
  <2> QED  BY <1>1, <1>2, <2>1, EndsFit
<1>4. GroupFits(group)' /\ TreeSettled(group)' /\ Follows(group, group')  BY <1>1, <1>3, GroupStays
<1>5. First \in Born  BY BirthsAre DEF GroupInv, WorldFits, Birth, Born, First
<1>6. StoppedMeansEmpty'  BY <1>1, <1>3, <1>5, StopStays DEF WorldMoves
<1> QED  BY <1>3, <1>4, <1>6 DEF GroupStep, GroupInv

LEMMA EndAllSteps ==
  ASSUME GroupInv, Terminate \/ CloseGroup
  PROVE  GroupStep
<1> DEFINE hit == { i \in IF Contained(group.mode) THEN InJob ELSE {First} \cap Unended(group) :
                      ~os[i].gone }
<1>1. /\ UNCHANGED <<born, opened, group>>
      /\ os' = [i \in Birth |-> IF i \in hit THEN [os[i] EXCEPT !.gone = TRUE, !.end = born]
                                             ELSE os[i]]
      /\ leaving' \in {"terminated", "closed"}
  BY DEF Terminate, CloseGroup, EndOwned
<1>2. First \in Born  BY BirthsAre DEF GroupInv, WorldFits, Birth, Born, First
<1>3. \A i \in hit : i \in Born /\ ~os[i].gone  BY <1>2 DEF InJob
<1>d. \A i : i \in hit <=> /\ i \in IF Contained(group.mode) THEN InJob ELSE {First} \cap Unended(group)
                           /\ ~os[i].gone
  OBVIOUS
<1> HIDE DEF hit
<1>4. /\ WorldFits' /\ WorldMoves /\ \A i \in hit : os'[i].gone
      /\ \A i \in Born : ~os'[i].gone => ~os[i].gone
  BY <1>1, <1>3, EndsFit
<1>5. GroupFits(group)' /\ TreeSettled(group)' /\ Follows(group, group')  BY <1>1, <1>4, GroupStays
<1>6. Contained(group.mode) => InJob' = {}
  <2> SUFFICES ASSUME Contained(group.mode), NEW i \in InJob' PROVE FALSE  OBVIOUS
  <2>1. i \in Born /\ os'[i].inJob /\ ~os'[i].gone  BY <1>1 DEF InJob, Born
  <2>2. i \in InJob /\ ~os[i].gone  BY <2>1, <1>4 DEF InJob, WorldMoves
  <2>3. i \in hit  BY <2>2, <1>d
  <2> QED  BY <2>1, <2>3, <1>4
<1>7. ~Contained(group.mode) => os'[First].gone
  <2> SUFFICES ASSUME ~Contained(group.mode) PROVE os'[First].gone  OBVIOUS
  <2>1. First \in Tracked(group) /\ EntryIsTrue(group.entries[First], First)
    BY DEF GroupInv, GroupFits, EntriesFit
  <2>2. CASE os[First].gone  BY <2>2, <1>2, <1>4 DEF WorldMoves
  <2>3. CASE ~os[First].gone
    <3>1. First \in Unended(group)  BY <2>1, <2>3 DEF Unended, EntryIsTrue
    <3>2. First \in hit  BY <2>3, <3>1, <1>d
    <3> QED  BY <3>2, <1>4
  <2> QED  BY <2>2, <2>3
<1>8. IF Contained(group.mode) THEN InJob' = {} ELSE os'[First].gone
  BY <1>6, <1>7, Zenon
<1>9. group' = group /\ leaving' \notin {"no"}  BY <1>1
<1>10. StoppedMeansEmpty'  BY <1>1, <1>8 DEF StoppedMeansEmpty
<1> QED  BY <1>4, <1>5, <1>10 DEF GroupStep, GroupInv

(* A process begins.                                                        *)
LEMMA BeginSteps ==
  ASSUME GroupInv, NEW p \in PidsToTry, NEW trust \in BOOLEAN, NEW stays \in BOOLEAN,
         NEW parent \in 0..MaxBirths, BeginProcess(parent, p, trust, stays)
  PROVE  GroupStep
<1> DEFINE n == born + 1
           joins == parent # 0 /\ os[parent].inJob /\ stays
           new == [pid |-> p, parent |-> parent, inJob |-> joins, trusted |-> trust,
                   gone |-> FALSE, end |-> 0]
<1>1. /\ born < MaxBirths /\ FreePid(p) /\ born' = born + 1
      /\ os' = [os EXCEPT ![n] = new] /\ UNCHANGED <<opened, group, leaving>>
      /\ parent # 0 => Alive(parent)
  BY DEF BeginProcess
<1>2. born \in Nat /\ n \in Birth /\ n \in Nat /\ n # First /\ Born' = Born \cup {n}
      /\ n \notin Born /\ (\A i \in Born : i \in Nat /\ i \in Birth /\ i < n /\ i <= born)
  <2>1. born \in Nat /\ born >= 1 /\ born <= MaxBirths
    BY ProcessAssumption DEF GroupInv, WorldFits, Birth
  <2>2. Born' = 1..(born + 1)  BY <1>1 DEF Born
  <2>3. 1..(born + 1) = 1..born \cup {born + 1}  BY <2>1
  <2> QED  BY <1>1, <2>1, <2>2, <2>3, ProcessAssumption DEF Birth, Born, First
<1>3. joins \in BOOLEAN
  <2>1. CASE parent = 0  BY <2>1
  <2>2. CASE parent # 0
    <3>1. os[parent].inJob \in BOOLEAN
      BY <1>1, <2>2, BornTyped DEF Alive, GroupInv, LiveProcess
    <3> QED  BY <3>1
  <2> QED  BY <2>1, <2>2
<1> HIDE DEF joins
<1>4. p \in Pid
  <2>1. \A i \in Born : os[i].pid \in Pid  BY BornTyped DEF GroupInv
  <2> QED  BY <2>1 DEF PidsToTry
<1>5. new \in LiveProcess /\ new.pid = p /\ new.parent = parent /\ new.inJob = joins
      /\ new.gone = FALSE /\ new.end = 0
  BY <1>3, <1>4, ProcessAssumption DEF LiveProcess
<1> HIDE DEF new
<1>6. /\ os' \in [Birth -> LiveProcess] /\ os'[n] = new
      /\ \A i \in Birth : i # n => os'[i] = os[i]
  BY <1>1, <1>2, <1>5 DEF GroupInv, WorldFits
<1>7. \A i \in Born : os'[i] = os[i] /\ i # n  BY <1>2, <1>6
<1>8. parent # 0 => parent \in Born /\ ~os[parent].gone  BY <1>1 DEF Alive
<1>9. \A i \in Birth : os'[i].parent < i
  <2>1. \A i \in Birth : os[i].parent < i  BY DEF GroupInv, WorldFits
  <2>2. parent < n
    <3>1. CASE parent = 0  BY <3>1, <1>2 DEF Birth
    <3>2. CASE parent # 0  BY <3>2, <1>2, <1>8
    <3> QED  BY <3>1, <3>2
  <2> QED  BY <2>1, <2>2, <1>5, <1>6
<1>10. \A i \in Born' : BornWell(i)'
  <2> SUFFICES ASSUME NEW i \in Born' PROVE BornWell(i)'  OBVIOUS
  <2>1. CASE i = n
    <3>1. os'[i].end = 0 /\ os'[i].parent = parent /\ os'[i].inJob = joins  BY <2>1, <1>5, <1>6
    <3>2. parent # 0 => os'[parent] = os[parent] /\ ~os[parent].gone  BY <1>7, <1>8
    <3>3. joins => parent # 0 /\ os[parent].inJob  BY DEF joins
    <3>4. 0 <= born'  BY <1>1, <1>2
    <3> QED  BY <3>1, <3>2, <3>3, <3>4 DEF BornWell
  <2>2. CASE i \in Born
    <3>1. BornWell(i) /\ os'[i] = os[i] /\ os[i].end \in Nat
      BY <2>2, <1>7, BornTyped DEF GroupInv, WorldFits
    <3>2. os[i].parent # 0 => os'[os[i].parent] = os[os[i].parent]
      BY <2>2, <1>7, ParentsAreBorn DEF GroupInv
    <3>3. os[i].end <= born'  BY <3>1, <1>1, <1>2 DEF BornWell
    <3> QED  BY <3>1, <3>2, <3>3 DEF BornWell
  <2> QED  BY <2>1, <2>2, <1>2
<1>11. \A i \in Born : os[i].pid = p => os[i].gone /\ i \notin Pinned /\ os[i].end < n
  <2> SUFFICES ASSUME NEW i \in Born, os[i].pid = p
               PROVE  os[i].gone /\ i \notin Pinned /\ os[i].end < n
    OBVIOUS
  <2>1. os[i].gone /\ i \notin Pinned  BY <1>1 DEF FreePid
  <2>2. os[i].end <= born /\ os[i].end \in Nat  BY BornTyped DEF GroupInv, WorldFits, BornWell
  <2> QED  BY <2>1, <2>2, <1>2
<1>12. \A i, j \in Born' : i < j /\ os'[i].pid = os'[j].pid => os'[i].gone /\ os'[i].end < j
  <2> SUFFICES ASSUME NEW i \in Born', NEW j \in Born', i < j, os'[i].pid = os'[j].pid
               PROVE  os'[i].gone /\ os'[i].end < j
    OBVIOUS
  <2>1. i \in Born  BY <1>2
  <2>2. os'[i] = os[i]  BY <2>1, <1>7
  <2>3. CASE j = n  BY <2>1, <2>2, <2>3, <1>5, <1>6, <1>11
  <2>4. CASE j \in Born
    <3>1. os'[j] = os[j]  BY <2>4, <1>7
    <3> QED  BY <2>1, <2>2, <2>4, <3>1 DEF GroupInv, WorldFits
  <2> QED  BY <2>3, <2>4, <1>2
<1>13. \A i \in Pinned : i \in Born => os[i].pid # p  BY <1>11
<1>14. \A i \in opened' : i \in Born' /\ os'[i].inJob /\ NoNamesake(i)'
  <2> SUFFICES ASSUME NEW i \in opened PROVE i \in Born' /\ os'[i].inJob /\ NoNamesake(i)'
    BY <1>1
  <2>1. i \in Born /\ os[i].inJob /\ NoNamesake(i) /\ i \in Pinned  BY DEF GroupInv, WorldFits, Pinned
  <2>2. os[i].pid # p /\ os'[i] = os[i]  BY <2>1, <1>7, <1>13
  <2>3. \A j \in Born' : i < j => os'[j].pid # os'[i].pid
    BY <2>1, <2>2, <1>2, <1>5, <1>6, <1>7 DEF NoNamesake
  <2> QED  BY <2>1, <2>2, <2>3, <1>2 DEF NoNamesake
<1>15. WorldFits'
  BY <1>1, <1>2, <1>6, <1>9, <1>10, <1>12, <1>14 DEF WorldFits
<1>16. WorldMoves
  <2>1. \A i \in Pinned : i \in Born
    BY DEF Pinned, Unended, GroupInv, WorldFits, GroupFits, EntriesFit, EntryIsTrue
  <2>2. \A i \in Pinned, j \in Born' \ Born : os'[j].pid # os[i].pid
    BY <2>1, <1>2, <1>5, <1>6, <1>13
  <2>3. InJob = {} => InJob' = {}
    <3> SUFFICES ASSUME NEW i \in InJob' PROVE InJob # {}  OBVIOUS
    <3>1. i \in Born' /\ os'[i].inJob /\ ~os'[i].gone  BY DEF InJob
    <3>2. CASE i \in Born  BY <3>1, <3>2, <1>7 DEF InJob
    <3>3. CASE i = n
      <4>1. joins  BY <3>1, <3>3, <1>5, <1>6
      <4>2. parent \in InJob  BY <4>1, <1>8 DEF joins, InJob
      <4> QED  BY <4>2
    <3> QED  BY <3>1, <3>2, <3>3, <1>2
  <2> QED  BY <2>2, <2>3, <1>2, <1>7 DEF WorldMoves
<1>17. GroupFits(group)' /\ TreeSettled(group)' /\ Follows(group, group')  BY <1>1, <1>16, GroupStays
<1>18. First \in Born  BY BirthsAre DEF GroupInv, WorldFits, Birth, Born, First
<1>19. StoppedMeansEmpty'  BY <1>1, <1>16, <1>18, StopStays DEF WorldMoves
<1> QED  BY <1>15, <1>17, <1>19 DEF GroupStep, GroupInv

LEMMA GroupSteps ==
  GroupInv /\ [ProcessGroupNext]_processVars => GroupInv' /\ (group' # group => Follows(group, group'))
<1> SUFFICES ASSUME GroupInv, [ProcessGroupNext]_processVars PROVE GroupStep  BY DEF GroupStep
<1>1. CASE UNCHANGED processVars
  <2>1. \A i \in opened : i \in Born /\ os[i].inJob /\ NoNamesake(i)  BY DEF GroupInv, WorldFits
  <2> QED  BY <1>1, <2>1, GroupUnmoved DEF processVars
<1>2. CASE ProcessGroupNext
  BY <1>2, BeginSteps, EndSteps2, EndAllSteps, StopSteps, LookSteps, PacketSteps, Zenon
  DEF ProcessGroupNext
<1> QED  BY <1>1, <1>2

-----------------------------------------------------------------------------
(* The activation of the Seats of a launch.                                 *)
Resting == {"Idle", "Planning", "Degraded"}
PreparedOf(n) == {PlanOrder[i] : i \in 1..n}

(* A Seat at rest has no instance; what is active of another one's was         *)
(* prepared by its instance.                                                 *)
SeatHolds(ph, ins, act, files) ==
  /\ ph \in Phase /\ (ph \in Resting <=> ins = {})
  /\ files \in BOOLEAN
  /\ ins = {} => act = {} /\ files = FALSE
  /\ ins # {} => \E i \in Instance : ins = {i} /\ act \subseteq PreparedOf(i.prepared)

(* What the command is about.                                                *)
CommandHolds(c, ins, ph, gs) ==
  /\ c \in Command
  /\ c.op = "none" => c = NoCommand
  /\ c.place = "free" => c.op = "none"
  /\ c.op # "none" => /\ c.place # "free" /\ ins[c.seat] # {} /\ c.seat \notin c.rest
                      /\ \A t \in c.rest : ins[t] # {}
                      /\ c.at <= Len(PlanOrder)
  /\ c.place \in {"hook", "prepare", "activate", "runtime"} =>
       c.op = "start" /\ gs[c.seat] < MaxGames /\ ph[c.seat] = "Starting"
  /\ c.place \in {"activate", "runtime"} =>
       \A i \in ins[c.seat] : i.prepared = Len(PlanOrder)
  /\ c.place = "activate" => c.at # 0

ActivationInv ==
  /\ DOMAIN phase = GameSeat /\ DOMAIN instance = GameSeat
  /\ phase = [s \in GameSeat |-> phase[s]] /\ instance = [s \in GameSeat |-> instance[s]]
  /\ activeNow = [s \in GameSeat |-> activeNow[s]]
  /\ filesChanged = [s \in GameSeat |-> filesChanged[s]]
  /\ games \in [GameSeat -> 0..MaxGames] /\ returnAsked \in BOOLEAN
  /\ \A s \in GameSeat : SeatHolds(phase[s], instance[s], activeNow[s], filesChanged[s])
  /\ CommandHolds(command, instance, phase, games)
  /\ returnAsked => AllIdle(phase)

LEMMA PlanLength ==
  /\ Len(PlanOrder) \in Nat \ {0}
  /\ \A n \in 0..Len(PlanOrder) : PreparedOf(n) \subseteq PreparedOf(Len(PlanOrder))
  /\ \A n \in 0..Len(PlanOrder), m \in 0..Len(PlanOrder) : n <= m => PreparedOf(n) \subseteq PreparedOf(m)
  /\ \A n \in 1..Len(PlanOrder) : PlanOrder[n] \in PreparedOf(Len(PlanOrder))
  /\ PreparedOf(0) = {}
<1>1. Len(PlanOrder) \in Nat /\ Len(PlanOrder) # 0  BY ActivationAssumption
<1> QED BY <1>1 DEF PreparedOf

LEMMA ActivationSuffices == ActivationInv => ActivationTypeOK /\ SeatsAreCleaned
<1> SUFFICES ASSUME ActivationInv PROVE ActivationTypeOK /\ SeatsAreCleaned  OBVIOUS
<1>1. \A s \in GameSeat : /\ phase[s] \in Phase /\ filesChanged[s] \in BOOLEAN
                          /\ instance[s] \subseteq Instance /\ Cardinality(instance[s]) <= 1
                          /\ activeNow[s] \in SUBSET PreparedOf(Len(PlanOrder))
  <2> SUFFICES ASSUME NEW s \in GameSeat
               PROVE  /\ phase[s] \in Phase /\ filesChanged[s] \in BOOLEAN
                      /\ instance[s] \subseteq Instance /\ Cardinality(instance[s]) <= 1
                      /\ activeNow[s] \in SUBSET PreparedOf(Len(PlanOrder))
    OBVIOUS
  <2>1. SeatHolds(phase[s], instance[s], activeNow[s], filesChanged[s])
    BY DEF ActivationInv
  <2>2. CASE instance[s] = {}
    <3>1. Cardinality(instance[s]) = 0  BY <2>2, FS_EmptySet
    <3> QED BY <2>1, <2>2, <3>1 DEF SeatHolds
  <2>3. CASE instance[s] # {}
    <3>1. PICK i \in Instance : instance[s] = {i} /\ activeNow[s] \subseteq PreparedOf(i.prepared)
      BY <2>1, <2>3 DEF SeatHolds
    <3>2. Cardinality(instance[s]) = 1  BY <3>1, FS_Singleton
    <3>3. i.prepared \in 0..Len(PlanOrder)  BY <3>1 DEF Instance
    <3>4. PreparedOf(i.prepared) \subseteq PreparedOf(Len(PlanOrder))  BY <3>3, PlanLength
    <3> QED BY <2>1, <3>1, <3>2, <3>4 DEF SeatHolds
  <2> QED BY <2>2, <2>3
<1>2. ActivationTypeOK
  BY <1>1 DEF ActivationInv, ActivationTypeOK, CommandHolds, PreparedOf
<1>3. RestingSeatIsClean
  BY DEF ActivationInv, SeatHolds, Resting, RestingSeatIsClean
<1>4. ActiveIsHeld
  <2> SUFFICES ASSUME NEW s \in GameSeat, activeNow[s] # {} \/ filesChanged[s]
               PROVE  \E i \in instance[s] :
                        activeNow[s] \subseteq {PlanOrder[k] : k \in 1..i.prepared}
    BY DEF ActiveIsHeld
  <2>1. SeatHolds(phase[s], instance[s], activeNow[s], filesChanged[s])
    BY DEF ActivationInv
  <2> QED BY <2>1 DEF SeatHolds, PreparedOf
<1> QED BY <1>2, <1>3, <1>4 DEF SeatsAreCleaned, ReturnIsSafe, ActivationInv

LEMMA NoCommandHolds ==
  /\ \A ins, ph, gs : CommandHolds(NoCommand, ins, ph, gs)
  /\ NoCommand.op = "none" /\ NoCommand \in Command
<1>1. (CHOOSE s \in GameSeat : TRUE) \in GameSeat  BY ActivationAssumption
<1>2. NoCommand \in Command /\ NoCommand.op = "none" /\ NoCommand.place = "free"
  BY <1>1, PlanLength DEF NoCommand, Command
<1> QED BY <1>2 DEF CommandHolds

LEMMA ActivationStarts == ActivationInit => ActivationInv
<1> SUFFICES ASSUME ActivationInit PROVE ActivationInv  OBVIOUS
<1>1. \A s \in GameSeat : SeatHolds(phase[s], instance[s], activeNow[s], filesChanged[s])
  BY DEF ActivationInit, SeatHolds, Phase, Resting
<1>2. CommandHolds(command, instance, phase, games)
  BY NoCommandHolds DEF ActivationInit
<1>3. games \in [GameSeat -> 0..MaxGames]
  BY ActivationAssumption DEF ActivationInit
<1>4. /\ DOMAIN phase = GameSeat /\ DOMAIN instance = GameSeat
      /\ phase = [s \in GameSeat |-> phase[s]] /\ instance = [s \in GameSeat |-> instance[s]]
      /\ activeNow = [s \in GameSeat |-> activeNow[s]]
      /\ filesChanged = [s \in GameSeat |-> filesChanged[s]]
  BY DEF ActivationInit
<1>5. returnAsked = FALSE /\ returnAsked \in BOOLEAN
  BY DEF ActivationInit
<1> QED BY <1>1, <1>2, <1>3, <1>4, <1>5 DEF ActivationInv

(* The one instance of a Seat that has one.                                  *)
LEMMA TheInstance ==
  ASSUME ActivationInv, NEW s \in GameSeat, instance[s] # {}
  PROVE  /\ instance[s] = {The(s)} /\ The(s) \in Instance
         /\ activeNow[s] \subseteq PreparedOf(The(s).prepared)
<1>1. PICK i \in Instance : instance[s] = {i} /\ activeNow[s] \subseteq PreparedOf(i.prepared)
  BY DEF ActivationInv, SeatHolds
<1>2. The(s) = i  BY <1>1 DEF The
<1> QED BY <1>1, <1>2

LEMMA RollBackHolds ==
  ASSUME ActivationInv, command.op # "none", NEW first \in BOOLEAN, RollBack(first),
         NEW ins, ins[command.seat] # {}, \A t \in command.rest : ins[t] = instance[t],
         NEW ph, NEW gs
  PROVE  CommandHolds(command', ins, ph, gs) /\ command'.op # "none"
<1>1. /\ command \in Command /\ instance[command.seat] # {} /\ command.seat \notin command.rest
      /\ \A t \in command.rest : instance[t] # {}
  BY DEF ActivationInv, CommandHolds
<1>2. command.seat \in GameSeat  BY <1>1 DEF Command
<1>3. The(command.seat).prepared \in 0..Len(PlanOrder)
  BY <1>1, <1>2, TheInstance DEF Instance
<1> DEFINE n == The(command.seat).prepared
<1>4. command' = [command EXCEPT !.place = "rollback", !.undone = TRUE, !.first = first, !.at = n]
  BY DEF RollBack
<1> HIDE DEF n
<1>5. n \in 0..Len(PlanOrder) + 1 /\ n <= Len(PlanOrder)  BY <1>3, PlanLength DEF n
<1>6. command' \in Command  BY <1>1, <1>4, <1>5 DEF Command
<1>7. /\ command'.op = command.op /\ command'.place = "rollback" /\ command'.seat = command.seat
      /\ command'.rest = command.rest /\ command'.at = n
  BY <1>1, <1>4 DEF Command
<1> QED BY <1>1, <1>5, <1>6, <1>7 DEF CommandHolds

LEMMA NextSeatHolds ==
  ASSUME ActivationInv, command.op # "none", NextSeat,
         NEW ins, \A t \in command.rest : ins[t] = instance[t], NEW ph, NEW gs
  PROVE  /\ CommandHolds(command', ins, ph, gs)
         /\ command.rest # {} => command'.op # "none"
<1>1. /\ command \in Command /\ command.seat \notin command.rest
      /\ \A t \in command.rest : instance[t] # {}
  BY DEF ActivationInv, CommandHolds
<1>2. CASE command.rest = {}
  BY <1>2, NoCommandHolds DEF NextSeat
<1>3. CASE command.rest # {}
  <2> DEFINE s == CHOOSE t \in command.rest : TRUE
             n == The(s).prepared
  <2>1. s \in command.rest  BY <1>3
  <2>2. command' = [command EXCEPT !.seat = s, !.rest = @ \ {s}, !.place = "rollback",
                     !.undone = TRUE, !.first = FALSE, !.at = n]
    BY <1>3 DEF NextSeat
  <2> HIDE DEF s
  <2>3. s \in GameSeat /\ instance[s] # {}  BY <1>1, <2>1 DEF Command
  <2>4. n \in 0..Len(PlanOrder)  BY <2>3, TheInstance DEF Instance
  <2> HIDE DEF n
  <2>5. n \in 0..Len(PlanOrder) + 1 /\ n <= Len(PlanOrder)  BY <2>4, PlanLength
  <2>6. command' \in Command  BY <1>1, <2>2, <2>3, <2>5 DEF Command
  <2>7. /\ command'.op = command.op /\ command'.place = "rollback" /\ command'.seat = s
        /\ command'.rest = command.rest \ {s} /\ command'.at = n
    BY <1>1, <2>2 DEF Command
  <2> QED BY <1>1, <2>1, <2>3, <2>5, <2>6, <2>7 DEF CommandHolds
<1> QED BY <1>2, <1>3

LEMMA CleanUpHolds ==
  ASSUME ActivationInv, NEW op \in {"stop", "exit", "crash", "reconcile", "emergency"},
         NEW set \in SUBSET GameSeat, set # {}, \A t \in set : instance[t] # {}, CleanUp(op, set),
         NEW ph, NEW gs
  PROVE  CommandHolds(command', instance, ph, gs) /\ command'.op # "none"
<1> DEFINE s == CHOOSE t \in set : TRUE
           n == The(s).prepared
<1>1. s \in set  OBVIOUS
<1>2. command' = [NoCommand EXCEPT !.op = op, !.place = "rollback", !.seat = s,
                    !.rest = set \ {s}, !.at = n]
  BY DEF CleanUp
<1> HIDE DEF s
<1>3. s \in GameSeat /\ instance[s] # {}  BY <1>1
<1>4. n \in 0..Len(PlanOrder)  BY <1>3, TheInstance DEF Instance
<1> HIDE DEF n
<1>5. n \in 0..Len(PlanOrder) + 1 /\ n <= Len(PlanOrder)  BY <1>4, PlanLength
<1>6. command' = [op |-> op, place |-> "rollback", seat |-> s, rest |-> set \ {s}, at |-> n,
                  undone |-> TRUE, first |-> FALSE]
  BY <1>2 DEF NoCommand
<1>7. command' \in Command  BY <1>3, <1>5, <1>6 DEF Command
<1>8. /\ command'.op = op /\ command'.place = "rollback" /\ command'.seat = s
      /\ command'.rest = set \ {s} /\ command'.at = n
  BY <1>6
<1> QED BY <1>1, <1>3, <1>5, <1>7, <1>8 DEF CommandHolds

(* A step that changes one Seat.                                             *)
Touches(s) ==
  /\ phase' = [phase EXCEPT ![s] = phase'[s]] /\ instance' = [instance EXCEPT ![s] = instance'[s]]
  /\ activeNow' = [activeNow EXCEPT ![s] = activeNow'[s]]
  /\ filesChanged' = [filesChanged EXCEPT ![s] = filesChanged'[s]]
SeatHoldsNext(s) == SeatHolds(phase'[s], instance'[s], activeNow'[s], filesChanged'[s])
ReturnHoldsNext == returnAsked' \in BOOLEAN /\ (returnAsked' => AllIdle(phase'))

LEMMA OneSeatSteps ==
  ASSUME ActivationInv, NEW s \in GameSeat, Touches(s), SeatHoldsNext(s), ReturnHoldsNext,
         games' \in [GameSeat -> 0..MaxGames],
         CommandHolds(command', instance', phase', games')
  PROVE  ActivationInv'
<1>1. \A t \in GameSeat \ {s} :
        /\ phase'[t] = phase[t] /\ instance'[t] = instance[t]
        /\ activeNow'[t] = activeNow[t] /\ filesChanged'[t] = filesChanged[t]
  BY DEF ActivationInv, Touches
<1>2. \A t \in GameSeat : SeatHolds(phase'[t], instance'[t], activeNow'[t], filesChanged'[t])
  <2> SUFFICES ASSUME NEW t \in GameSeat
               PROVE  SeatHolds(phase'[t], instance'[t], activeNow'[t], filesChanged'[t])
    OBVIOUS
  <2>1. CASE t = s  BY <1>1, <2>1 DEF SeatHoldsNext
  <2>2. CASE t # s  BY <1>1, <2>2 DEF ActivationInv
  <2> QED BY <2>1, <2>2
<1>3. /\ DOMAIN phase' = GameSeat /\ DOMAIN instance' = GameSeat
      /\ phase' = [t \in GameSeat |-> phase'[t]] /\ instance' = [t \in GameSeat |-> instance'[t]]
      /\ activeNow' = [t \in GameSeat |-> activeNow'[t]]
      /\ filesChanged' = [t \in GameSeat |-> filesChanged'[t]]
  BY DEF ActivationInv, Touches
<1> QED BY <1>2, <1>3 DEF ActivationInv, ReturnHoldsNext

LEMMA Unchanging ==
  ASSUME ActivationInv, NEW s \in GameSeat
  PROVE  /\ phase = [phase EXCEPT ![s] = phase[s]] /\ instance = [instance EXCEPT ![s] = instance[s]]
         /\ activeNow = [activeNow EXCEPT ![s] = activeNow[s]]
         /\ filesChanged = [filesChanged EXCEPT ![s] = filesChanged[s]]
         /\ SeatHolds(phase[s], instance[s], activeNow[s], filesChanged[s])
BY DEF ActivationInv

(* While a command is under way its Seat has an instance, so no return is      *)
(* asked for.                                                                *)
LEMMA UnderWay ==
  ASSUME ActivationInv, command.place # "free"
  PROVE  /\ command \in Command /\ command.seat \in GameSeat /\ command.op # "none"
         /\ instance[command.seat] # {} /\ phase[command.seat] \in Phase \ Resting
         /\ command.seat \notin command.rest /\ \A t \in command.rest : instance[t] # {}
         /\ command.rest \subseteq GameSeat
         /\ returnAsked = FALSE
<1>0. NoCommand.place = "free"  BY DEF NoCommand
<1>1. command \in Command /\ command.op # "none" /\ instance[command.seat] # {}
      /\ command.seat \notin command.rest /\ \A t \in command.rest : instance[t] # {}
  BY <1>0 DEF ActivationInv, CommandHolds
<1>2. command.seat \in GameSeat /\ command.rest \subseteq GameSeat  BY <1>1 DEF Command
<1>3. phase[command.seat] \in Phase \ Resting
  BY <1>1, <1>2 DEF ActivationInv, SeatHolds
<1>4. ~AllIdle(phase)  BY <1>2, <1>3 DEF AllIdle, Resting
<1>5. returnAsked = FALSE  BY <1>4 DEF ActivationInv
<1> QED BY <1>1, <1>2, <1>3, <1>5

LEMMA SettleHolds ==
  ASSUME ActivationInv, NEW s \in GameSeat, NEW p, Settle(s, p)
  PROVE  phase' = [phase EXCEPT ![s] = p] /\ phase'[s] = p /\ ReturnHoldsNext
<1>1. phase' = [phase EXCEPT ![s] = p] /\ returnAsked' = AllIdle(phase')  BY DEF Settle
<1>2. AllIdle(phase') \in BOOLEAN  BY DEF AllIdle
<1>3. returnAsked' \in BOOLEAN /\ (returnAsked' => AllIdle(phase'))  BY <1>1, <1>2, Zenon
<1>4. phase'[s] = p  BY <1>1 DEF ActivationInv
<1> QED BY <1>1, <1>3, <1>4 DEF ReturnHoldsNext

LEMMA AssignSteps == ASSUME ActivationInv, NEW s \in GameSeat, AssignGame(s) PROVE ActivationInv'
<1>1. /\ Unlocked /\ phase[s] = "Idle" /\ phase' = [phase EXCEPT ![s] = "Planning"]
      /\ returnAsked' = FALSE /\ UNCHANGED <<games, instance, activeNow, filesChanged, command>>
  BY DEF AssignGame
<1>2. Touches(s) /\ phase'[s] = "Planning"  BY <1>1 DEF Touches, ActivationInv
<1>3. SeatHoldsNext(s)
  BY <1>1, <1>2, Unchanging DEF SeatHoldsNext, SeatHolds, Resting, Phase
<1>4. CommandHolds(command', instance', phase', games')
  <2>1. command = NoCommand  BY <1>1 DEF Unlocked, ActivationInv, CommandHolds
  <2> QED BY <1>1, <2>1, NoCommandHolds
<1>5. games' \in [GameSeat -> 0..MaxGames]  BY <1>1 DEF ActivationInv
<1>6. ReturnHoldsNext  BY <1>1, Zenon DEF ReturnHoldsNext
<1> QED BY <1>2, <1>3, <1>4, <1>5, <1>6, OneSeatSteps

LEMMA StartGameSteps == ASSUME ActivationInv, NEW s \in GameSeat, StartGame(s) PROVE ActivationInv'
<1>1. /\ Unlocked /\ phase[s] = "Planning" /\ games[s] < MaxGames
      /\ UNCHANGED <<games, activeNow, filesChanged>>
  BY DEF StartGame
<1>2. command = NoCommand  BY <1>1 DEF Unlocked, ActivationInv, CommandHolds
<1>3. instance[s] = {} /\ activeNow[s] = {} /\ filesChanged[s] = FALSE
  BY <1>1, Unchanging DEF SeatHolds, Resting
<1>4. games' \in [GameSeat -> 0..MaxGames]  BY <1>1 DEF ActivationInv
<1>5. CASE Settle(s, "Idle") /\ UNCHANGED <<instance, command>>
  <2>1. phase' = [phase EXCEPT ![s] = "Idle"] /\ phase'[s] = "Idle" /\ ReturnHoldsNext
    BY <1>5, SettleHolds
  <2>2. Touches(s)  BY <1>1, <1>5, <2>1 DEF Touches, ActivationInv
  <2>3. SeatHoldsNext(s)
    BY <1>1, <1>3, <1>5, <2>1 DEF SeatHoldsNext, SeatHolds, Resting, Phase
  <2>4. CommandHolds(command', instance', phase', games')  BY <1>2, <1>5, NoCommandHolds
  <2> QED BY <1>4, <2>1, <2>2, <2>3, <2>4, OneSeatSteps
<1>6. CASE /\ instance' = [instance EXCEPT ![s] = {Fresh}]
           /\ phase' = [phase EXCEPT ![s] = "Starting"]
           /\ Do("start", "hook", s, {}) /\ UNCHANGED returnAsked
  <2>1. Fresh \in Instance /\ Fresh.prepared = 0  BY PlanLength DEF Fresh, Instance
  <2>2. phase'[s] = "Starting" /\ instance'[s] = {Fresh} /\ Touches(s)
    BY <1>1, <1>6 DEF Touches, ActivationInv
  <2>3. SeatHoldsNext(s)
    BY <1>1, <1>3, <2>1, <2>2 DEF SeatHoldsNext, SeatHolds, Resting, Phase
  <2>4. returnAsked' = FALSE
    BY <1>1, <1>6 DEF ActivationInv, AllIdle
  <2>5. command' = [op |-> "start", place |-> "hook", seat |-> s, rest |-> {}, at |-> 0,
                    undone |-> TRUE, first |-> FALSE]
    BY <1>6 DEF Do, NoCommand
  <2>6. command' \in Command
    BY <2>5, PlanLength DEF Command
  <2>7. /\ command'.op = "start" /\ command'.place = "hook" /\ command'.seat = s
        /\ command'.rest = {} /\ command'.at = 0
    BY <2>5
  <2>8. CommandHolds(command', instance', phase', games')
    <3>1. 0 <= Len(PlanOrder)  BY PlanLength
    <3>2. games'[s] < MaxGames /\ instance'[s] # {}  BY <1>1, <2>2
    <3> QED BY <2>2, <2>6, <2>7, <3>1, <3>2 DEF CommandHolds
  <2>9. ReturnHoldsNext  BY <2>4, Zenon DEF ReturnHoldsNext
  <2> QED BY <1>4, <2>2, <2>3, <2>8, <2>9, OneSeatSteps
<1> QED BY <1>5, <1>6 DEF StartGame

(* While a game starts or is cleaned up, a step of its Seat alone.            *)
LEMMA CommandSteps ==
  ASSUME ActivationInv, command.place # "free", Touches(command.seat),
         SeatHoldsNext(command.seat), UNCHANGED <<games, returnAsked>>,
         CommandHolds(command', instance', phase', games')
  PROVE  ActivationInv'
<1>1. command.seat \in GameSeat /\ returnAsked = FALSE  BY UnderWay
<1>2. ReturnHoldsNext  BY <1>1, Zenon DEF ReturnHoldsNext
<1>3. games' \in [GameSeat -> 0..MaxGames]  BY DEF ActivationInv
<1> QED BY <1>1, <1>2, <1>3, OneSeatSteps

LEMMA PrepareHookSteps == ASSUME ActivationInv, PrepareHook PROVE ActivationInv'
<1> DEFINE s == command.seat
<1>1. /\ command.place = "hook" /\ UNCHANGED <<phase, games, returnAsked, instance, activeNow>>
      /\ filesChanged' \in {filesChanged, [filesChanged EXCEPT ![s] = TRUE]}
  BY DEF PrepareHook
<1>2. /\ command \in Command /\ s \in GameSeat /\ command.op # "none" /\ instance[s] # {}
      /\ phase[s] \in Phase \ Resting
  BY <1>1, UnderWay
<1>3. filesChanged'[s] \in BOOLEAN /\ Touches(s)
  <2>1. CASE filesChanged' = filesChanged
    BY <1>1, <1>2, <2>1, Unchanging DEF SeatHolds, Touches
  <2>2. CASE filesChanged' = [filesChanged EXCEPT ![s] = TRUE]
    <3>1. filesChanged'[s] = TRUE  BY <1>2, <2>2 DEF ActivationInv
    <3>2. Touches(s)  BY <1>1, <1>2, <2>2, <3>1, Unchanging DEF Touches
    <3> QED BY <3>1, <3>2, Zenon
  <2> QED BY <1>1, <2>1, <2>2
<1>4. SeatHoldsNext(s)
  BY <1>1, <1>2, <1>3, Unchanging DEF SeatHolds, SeatHoldsNext
<1>5. CommandHolds(command', instance', phase', games')
  <2>1. CASE command' = [command EXCEPT !.place = "prepare"]
    <3>1. command' \in Command  BY <1>2, <2>1 DEF Command
    <3>2. /\ command'.op = command.op /\ command'.place = "prepare" /\ command'.seat = command.seat
          /\ command'.rest = command.rest /\ command'.at = command.at
      BY <1>2, <2>1 DEF Command
    <3> QED BY <1>1, <1>2, <3>1, <3>2 DEF ActivationInv, CommandHolds
  <2>2. CASE RollBack(FALSE)
    BY <1>1, <1>2, <2>2, RollBackHolds
  <2> QED BY <2>1, <2>2 DEF PrepareHook
<1> QED BY <1>1, <1>3, <1>4, <1>5, CommandSteps

LEMMA PrepareResourceSteps == ASSUME ActivationInv, PrepareResource PROVE ActivationInv'
<1> DEFINE s == command.seat
           n == The(s).prepared
<1>1. command.place = "prepare" /\ UNCHANGED <<phase, games, returnAsked, activeNow, filesChanged>>
  BY DEF PrepareResource
<1>2. /\ command \in Command /\ s \in GameSeat /\ command.op # "none" /\ instance[s] # {}
      /\ \A t \in command.rest : t # s
  BY <1>1, UnderWay
<1>3. /\ instance[s] = {The(s)} /\ The(s) \in Instance /\ n \in 0..Len(PlanOrder)
      /\ activeNow[s] \subseteq PreparedOf(n)
  BY <1>2, TheInstance DEF Instance
<1>4. CASE /\ n < Len(PlanOrder)
           /\ instance' = [instance EXCEPT ![s] = {[The(s) EXCEPT !.prepared = n + 1]}]
           /\ UNCHANGED command
  <2> DEFINE i == [The(s) EXCEPT !.prepared = n + 1]
  <2>1. i \in Instance /\ i.prepared = n + 1  BY <1>3, <1>4, PlanLength DEF Instance
  <2> HIDE DEF i
  <2>2. PreparedOf(n) \subseteq PreparedOf(n + 1)  BY <1>3, <1>4, PlanLength
  <2>3. instance' = [instance EXCEPT ![s] = {i}]  BY <1>4 DEF i
  <2>4. instance'[s] = {i}  BY <1>2, <2>3 DEF ActivationInv
  <2>5. SeatHoldsNext(s)
    BY <1>1, <1>2, <1>3, <2>1, <2>2, <2>4, Unchanging DEF SeatHolds, SeatHoldsNext
  <2>6. \A t \in GameSeat : instance'[t] # {} <=> instance[t] # {}
    BY <1>2, <2>3 DEF ActivationInv
  <2>7. CommandHolds(command', instance', phase', games')
    <3>1. CommandHolds(command, instance, phase, games) /\ command.seat \in GameSeat
          /\ command.rest \subseteq GameSeat
      BY <1>1, UnderWay DEF ActivationInv
    <3> QED BY <1>1, <1>4, <2>6, <3>1 DEF CommandHolds
  <2>8. Touches(s)  BY <1>1, <1>2, <2>3, <2>4, Unchanging DEF Touches
  <2> QED BY <1>1, <2>5, <2>7, <2>8, CommandSteps
<1>5. ASSUME UNCHANGED instance PROVE Touches(s) /\ SeatHoldsNext(s)
  BY <1>1, <1>2, <1>5, Unchanging DEF Touches, SeatHoldsNext
<1>6. CASE RollBack(TRUE) /\ UNCHANGED instance
  <2>1. CommandHolds(command', instance', phase', games')
    BY <1>2, <1>6, RollBackHolds
  <2> QED BY <1>1, <1>5, <1>6, <2>1, CommandSteps
<1>7. CASE /\ n = Len(PlanOrder)
           /\ command' = [command EXCEPT !.place = "activate", !.at = 1]
           /\ UNCHANGED instance
  <2>0. 1 \in 0..Len(PlanOrder) + 1 /\ 1 <= Len(PlanOrder)  BY PlanLength
  <2>1. command' \in Command  BY <1>2, <1>7, <2>0 DEF Command
  <2>2. /\ command'.op = command.op /\ command'.place = "activate" /\ command'.seat = command.seat
        /\ command'.rest = command.rest /\ command'.at = 1
    BY <1>2, <1>7 DEF Command
  <2>3. \A i \in instance'[s] : i.prepared = Len(PlanOrder)
    BY <1>3, <1>7
  <2>4. CommandHolds(command, instance, phase, games)  BY DEF ActivationInv
  <2>5. CommandHolds(command', instance', phase', games')
    BY <1>1, <1>2, <1>7, <2>0, <2>1, <2>2, <2>3, <2>4 DEF CommandHolds
  <2> QED BY <1>1, <1>5, <1>7, <2>5, CommandSteps
<1> QED BY <1>4, <1>6, <1>7 DEF PrepareResource

LEMMA ActivateSteps == ASSUME ActivationInv, ActivateResource PROVE ActivationInv'
<1> DEFINE s == command.seat
           on == [activeNow EXCEPT ![s] = @ \cup {PlanOrder[command.at]}]
<1>1. command.place = "activate" /\ UNCHANGED <<phase, games, returnAsked, instance, filesChanged>>
      /\ activeNow' \in {on, activeNow}
  BY DEF ActivateResource
<1>2. /\ command \in Command /\ s \in GameSeat /\ command.op # "none" /\ instance[s] # {}
  BY <1>1, UnderWay
<1>3. /\ instance[s] = {The(s)} /\ The(s) \in Instance /\ The(s).prepared = Len(PlanOrder)
      /\ activeNow[s] \subseteq PreparedOf(Len(PlanOrder)) /\ command.at \in 1..Len(PlanOrder)
  <2>1. /\ instance[s] = {The(s)} /\ The(s) \in Instance
        /\ activeNow[s] \subseteq PreparedOf(The(s).prepared)
    BY <1>2, TheInstance
  <2>2. command.at \in 0..Len(PlanOrder) + 1 /\ command.at # 0 /\ command.at <= Len(PlanOrder)
        /\ \A i \in instance[s] : i.prepared = Len(PlanOrder)
    BY <1>1, <1>2 DEF ActivationInv, CommandHolds, Command
  <2> QED BY <2>1, <2>2, PlanLength
<1>4. activeNow'[s] \in SUBSET PreparedOf(Len(PlanOrder)) /\ Touches(s)
  <2>1. CASE activeNow' = activeNow  BY <1>1, <1>2, <1>3, <2>1, Unchanging DEF Touches
  <2>2. CASE activeNow' = on
    <3>1. activeNow[s] \cup {PlanOrder[command.at]} \in SUBSET PreparedOf(Len(PlanOrder))
      BY <1>3, PlanLength
    <3>2. activeNow'[s] = activeNow[s] \cup {PlanOrder[command.at]}
      BY <1>2, <2>2 DEF ActivationInv
    <3> QED BY <1>1, <1>2, <2>2, <3>1, <3>2, Unchanging DEF Touches
  <2> QED BY <1>1, <2>1, <2>2
<1>5. SeatHoldsNext(s)
  <2>1. SeatHolds(phase[s], instance[s], activeNow[s], filesChanged[s])  BY <1>2, Unchanging
  <2> QED BY <1>1, <1>2, <1>3, <1>4, <2>1 DEF SeatHolds, SeatHoldsNext
<1>6. CommandHolds(command', instance', phase', games')
  <2>1. CASE RollBack(TRUE)
    BY <1>1, <1>2, <2>1, RollBackHolds
  <2>2. CASE command.at = Len(PlanOrder) /\ command' = [command EXCEPT !.place = "runtime"]
    <3>1. command' \in Command  BY <1>2, <2>2 DEF Command
    <3>2. /\ command'.op = command.op /\ command'.place = "runtime" /\ command'.seat = command.seat
          /\ command'.rest = command.rest /\ command'.at = command.at
      BY <1>2, <2>2 DEF Command
    <3> QED BY <1>1, <1>2, <3>1, <3>2 DEF ActivationInv, CommandHolds
  <2>3. CASE command.at # Len(PlanOrder) /\ command' = [command EXCEPT !.at = @ + 1]
    <3>1. command.at + 1 \in 0..Len(PlanOrder) + 1 /\ command.at + 1 <= Len(PlanOrder)
          /\ command.at + 1 # 0
      BY <1>3, <2>3, PlanLength
    <3>2. command' \in Command  BY <1>2, <2>3, <3>1 DEF Command
    <3>3. /\ command'.op = command.op /\ command'.place = command.place
          /\ command'.seat = command.seat
          /\ command'.rest = command.rest /\ command'.at = command.at + 1
      BY <1>2, <2>3 DEF Command
    <3> QED BY <1>1, <1>2, <3>1, <3>2, <3>3 DEF ActivationInv, CommandHolds
  <2> QED BY <2>1, <2>2, <2>3 DEF ActivateResource
<1> QED BY <1>1, <1>4, <1>5, <1>6, CommandSteps

LEMMA FinishSteps == ASSUME ActivationInv, FinishStart PROVE ActivationInv'
<1> DEFINE s == command.seat
           i == [The(s) EXCEPT !.started = TRUE]
<1>1. command.place = "runtime" /\ UNCHANGED <<activeNow, filesChanged>>
  BY DEF FinishStart
<1>2. /\ command \in Command /\ s \in GameSeat /\ command.op # "none" /\ instance[s] # {}
      /\ phase[s] \in Phase \ Resting /\ \A t \in command.rest : t # s
      /\ games[s] < MaxGames
  BY <1>1, UnderWay DEF ActivationInv, CommandHolds
<1>3. /\ instance[s] = {The(s)} /\ The(s) \in Instance
      /\ activeNow[s] \subseteq PreparedOf(The(s).prepared)
  BY <1>2, TheInstance DEF Instance
<1>4. i \in Instance /\ i.prepared = The(s).prepared  BY <1>3 DEF Instance
<1> HIDE DEF i
<1>5. CASE /\ instance' = [instance EXCEPT ![s] = {i}]
           /\ phase' = [phase EXCEPT ![s] = "Playing"]
           /\ games' = [games EXCEPT ![s] = @ + 1]
           /\ returnAsked' = FALSE /\ command' = NoCommand
  <2>1. phase'[s] = "Playing" /\ instance'[s] = {i} /\ Touches(s)
    BY <1>1, <1>2, <1>5 DEF ActivationInv, Touches
  <2>2. SeatHoldsNext(s)
    BY <1>1, <1>2, <1>3, <1>4, <2>1, Unchanging DEF SeatHolds, SeatHoldsNext, Phase, Resting
  <2>3. games' \in [GameSeat -> 0..MaxGames]
    BY <1>2, <1>5, ActivationAssumption DEF ActivationInv
  <2>4. ReturnHoldsNext  BY <1>5, Zenon DEF ReturnHoldsNext
  <2>5. CommandHolds(command', instance', phase', games')  BY <1>5, NoCommandHolds
  <2> QED BY <1>2, <2>1, <2>2, <2>3, <2>4, <2>5, OneSeatSteps
<1>6. CASE /\ instance' = [instance EXCEPT ![s] = {i}]
           /\ RollBack(FALSE) /\ UNCHANGED <<phase, games, returnAsked>>
  <2>1. instance'[s] = {i} /\ Touches(s)
    BY <1>1, <1>2, <1>6 DEF ActivationInv, Touches
  <2>2. SeatHoldsNext(s)
    BY <1>1, <1>2, <1>3, <1>4, <1>6, <2>1, Unchanging DEF SeatHolds, SeatHoldsNext
  <2>3. \A t \in command.rest : instance'[t] = instance[t]
    BY <1>2, <1>6 DEF ActivationInv, Command
  <2>4. CommandHolds(command', instance', phase', games')
    BY <1>2, <1>6, <2>1, <2>3, RollBackHolds
  <2> QED BY <1>1, <1>6, <2>1, <2>2, <2>4, CommandSteps
<1>7. CASE RollBack(TRUE) /\ UNCHANGED <<phase, games, returnAsked, instance>>
  <2>1. CommandHolds(command', instance', phase', games')
    BY <1>2, <1>7, RollBackHolds
  <2>2. Touches(s) /\ SeatHoldsNext(s)
    BY <1>1, <1>2, <1>7, Unchanging DEF Touches, SeatHoldsNext
  <2> QED BY <1>1, <1>7, <2>1, <2>2, CommandSteps
<1> QED BY <1>5, <1>6, <1>7 DEF FinishStart, i

LEMMA RollbackSteps == ASSUME ActivationInv, RollbackResource PROVE ActivationInv'
<1> DEFINE s == command.seat
           at == command.at
<1>1. command.place = "rollback" /\ UNCHANGED <<phase, games, returnAsked, instance>>
  BY DEF RollbackResource
<1>2. /\ command \in Command /\ s \in GameSeat /\ command.op # "none" /\ instance[s] # {}
      /\ at \in 0..Len(PlanOrder) + 1 /\ at <= Len(PlanOrder)
  BY <1>1, UnderWay DEF ActivationInv, CommandHolds, Command
<1>3. PICK undone \in BOOLEAN, files \in BOOLEAN :
       /\ files => filesChanged[s]
       /\ activeNow' \in {activeNow,
            IF at = 0 THEN activeNow ELSE [activeNow EXCEPT ![s] = @ \ {PlanOrder[at]}]}
       /\ filesChanged' = [filesChanged EXCEPT ![s] = files]
       /\ command' = [command EXCEPT !.undone = @ /\ undone,
                        !.place = IF at = 0 THEN "verify" ELSE "rollback",
                        !.at = IF at = 0 THEN 0 ELSE at - 1]
  BY Zenon DEF RollbackResource
<1>4. filesChanged'[s] = files  BY <1>2, <1>3 DEF ActivationInv
<1>5. activeNow'[s] \subseteq activeNow[s] /\ activeNow' = [activeNow EXCEPT ![s] = activeNow'[s]]
  <2>1. CASE activeNow' = activeNow  BY <1>2, <2>1, Unchanging
  <2>2. CASE activeNow' = [activeNow EXCEPT ![s] = @ \ {PlanOrder[at]}]
    <3>1. activeNow'[s] = activeNow[s] \ {PlanOrder[at]}  BY <1>2, <2>2 DEF ActivationInv
    <3> QED BY <2>2, <3>1
  <2> QED BY <1>3, <2>1, <2>2
<1>6. Touches(s)  BY <1>1, <1>2, <1>3, <1>4, <1>5, Unchanging DEF Touches
<1>7. SeatHoldsNext(s)
  BY <1>1, <1>2, <1>3, <1>4, <1>5, Unchanging DEF SeatHolds, SeatHoldsNext
<1>8. CommandHolds(command', instance', phase', games')
  <2> DEFINE next == IF at = 0 THEN 0 ELSE at - 1
             place == IF at = 0 THEN "verify" ELSE "rollback"
             sofar == command.undone /\ undone
  <2>1. next \in 0..Len(PlanOrder) + 1 /\ next <= Len(PlanOrder)
    BY <1>2, PlanLength
  <2>2. place \in {"verify", "rollback"} /\ sofar \in BOOLEAN  OBVIOUS
  <2>3. command' = [command EXCEPT !.undone = sofar, !.place = place, !.at = next]
    BY <1>3
  <2> HIDE DEF next, place, sofar
  <2>4. command' \in Command  BY <1>2, <2>1, <2>2, <2>3 DEF Command
  <2>5. /\ command'.op = command.op /\ command'.place = place /\ command'.seat = command.seat
        /\ command'.rest = command.rest /\ command'.at = next
    BY <1>2, <2>3 DEF Command
  <2>6. CommandHolds(command, instance, phase, games)  BY DEF ActivationInv
  <2> QED BY <1>1, <1>2, <2>1, <2>2, <2>4, <2>5, <2>6 DEF CommandHolds
<1> QED BY <1>1, <1>6, <1>7, <1>8, CommandSteps

LEMMA VerifySteps == ASSUME ActivationInv, VerifyCleanup PROVE ActivationInv'
<1> DEFINE s == command.seat
           blank == [The(s) EXCEPT !.prepared = 0]
           ended == [The(s) EXCEPT !.started = FALSE]
<1>1. command.place = "verify" /\ UNCHANGED <<games, activeNow, filesChanged>>
  BY DEF VerifyCleanup
<1>2. /\ command \in Command /\ s \in GameSeat /\ command.op # "none" /\ instance[s] # {}
      /\ phase[s] \in Phase \ Resting /\ \A t \in command.rest : t # s
      /\ command.rest \subseteq GameSeat /\ returnAsked = FALSE
  BY <1>1, UnderWay
<1>3. /\ instance[s] = {The(s)} /\ The(s) \in Instance
      /\ activeNow[s] \subseteq PreparedOf(The(s).prepared)
  BY <1>2, TheInstance
<1>4. /\ blank \in Instance /\ blank.prepared = 0
      /\ ended \in Instance /\ ended.prepared = The(s).prepared
  <2>1. 0 \in 0..Len(PlanOrder)  BY PlanLength
  <2> QED BY <1>3, <2>1 DEF Instance
<1> HIDE DEF blank, ended
<1>5. SafeFor(s) => activeNow[s] = {} /\ filesChanged[s] = FALSE
  BY <1>2, <1>3, Unchanging DEF SafeFor, PreparedOf, SeatHolds
<1>6. games' \in [GameSeat -> 0..MaxGames]  BY <1>1 DEF ActivationInv
<1>7. CASE /\ SafeFor(s) /\ instance' = [instance EXCEPT ![s] = {blank}]
           /\ command' = [command EXCEPT !.place = "rollback", !.first = FALSE, !.at = 0]
           /\ UNCHANGED <<phase, returnAsked>>
  <2>1. instance'[s] = {blank} /\ Touches(s)
    BY <1>1, <1>2, <1>7 DEF ActivationInv, Touches
  <2>2. SeatHoldsNext(s)
    BY <1>1, <1>2, <1>4, <1>5, <1>7, <2>1, Unchanging DEF SeatHolds, SeatHoldsNext
  <2>3. 0 \in 0..Len(PlanOrder) + 1 /\ 0 <= Len(PlanOrder)  BY PlanLength
  <2>4. command' \in Command  BY <1>2, <1>7, <2>3 DEF Command
  <2>5. /\ command'.op = command.op /\ command'.place = "rollback" /\ command'.seat = command.seat
        /\ command'.rest = command.rest /\ command'.at = 0
    BY <1>2, <1>7 DEF Command
  <2>6. \A t \in command.rest : instance'[t] # {}
    BY <1>1, <1>2, <1>7, UnderWay DEF ActivationInv
  <2>7. CommandHolds(command', instance', phase', games')
    BY <1>2, <2>1, <2>3, <2>4, <2>5, <2>6 DEF CommandHolds
  <2> QED BY <1>1, <1>7, <2>1, <2>2, <2>7, CommandSteps
<1>8. CASE RollBack(FALSE) /\ UNCHANGED <<phase, returnAsked, instance>>
  <2>1. CommandHolds(command', instance', phase', games')
    BY <1>2, <1>8, RollBackHolds
  <2>2. Touches(s) /\ SeatHoldsNext(s)
    BY <1>1, <1>2, <1>8, Unchanging DEF Touches, SeatHoldsNext
  <2> QED BY <1>1, <1>8, <2>1, <2>2, CommandSteps
<1>9. CASE /\ SafeFor(s) /\ instance' = [instance EXCEPT ![s] = {}]
           /\ Settle(s, Cleaned) /\ NextSeat
  <2>1. phase' = [phase EXCEPT ![s] = Cleaned] /\ phase'[s] = Cleaned /\ ReturnHoldsNext
    BY <1>2, <1>9, SettleHolds
  <2>2. instance'[s] = {} /\ Touches(s)
    BY <1>1, <1>2, <1>9, <2>1 DEF ActivationInv, Touches
  <2>3. Cleaned \in Resting /\ Cleaned \in Phase  BY DEF Cleaned, Resting, Phase
  <2>4. SeatHoldsNext(s)
    BY <1>1, <1>5, <1>9, <2>1, <2>2, <2>3 DEF SeatHolds, SeatHoldsNext
  <2>5. \A t \in command.rest : instance'[t] = instance[t]
    BY <1>2, <1>9 DEF ActivationInv
  <2>6. CommandHolds(command', instance', phase', games')
    BY <1>2, <1>9, <2>5, NextSeatHolds
  <2> QED BY <1>2, <1>6, <2>1, <2>2, <2>4, <2>6, OneSeatSteps
<1>10. CASE /\ instance' = [instance EXCEPT ![s] = {ended}]
            /\ phase' = [phase EXCEPT ![s] = "RecoveryRequired"]
            /\ returnAsked' = (IF command.op = "stop" THEN returnAsked ELSE FALSE)
            /\ NextSeat
  <2>1. phase'[s] = "RecoveryRequired" /\ instance'[s] = {ended} /\ Touches(s)
    BY <1>1, <1>2, <1>10 DEF ActivationInv, Touches
  <2>2. SeatHoldsNext(s)
    BY <1>1, <1>2, <1>3, <1>4, <2>1, Unchanging DEF SeatHolds, SeatHoldsNext, Phase, Resting
  <2>3. returnAsked' = FALSE  BY <1>2, <1>10, Zenon
  <2>4. ReturnHoldsNext  BY <2>3, Zenon DEF ReturnHoldsNext
  <2>5. \A t \in command.rest : instance'[t] = instance[t]
    BY <1>2, <1>10 DEF ActivationInv
  <2>6. CommandHolds(command', instance', phase', games')
    BY <1>2, <1>10, <2>5, NextSeatHolds
  <2> QED BY <1>2, <1>6, <2>1, <2>2, <2>4, <2>6, OneSeatSteps
<1> QED BY <1>7, <1>8, <1>9, <1>10, Zenon DEF VerifyCleanup, blank, ended

LEMMA StopGameSteps == ASSUME ActivationInv, NEW s \in GameSeat, StopGame(s) PROVE ActivationInv'
<1>1. Unlocked /\ UNCHANGED <<games, instance, activeNow, filesChanged>>
  BY DEF StopGame
<1>2. command = NoCommand  BY <1>1 DEF Unlocked, ActivationInv, CommandHolds
<1>3. games' \in [GameSeat -> 0..MaxGames]  BY <1>1 DEF ActivationInv
<1>4. CASE phase[s] \in Resting /\ Settle(s, "Idle") /\ UNCHANGED command
  <2>1. phase' = [phase EXCEPT ![s] = "Idle"] /\ phase'[s] = "Idle" /\ ReturnHoldsNext
    BY <1>4, SettleHolds
  <2>2. Touches(s)  BY <1>1, <2>1, Unchanging DEF Touches
  <2>3. SeatHoldsNext(s)
    BY <1>1, <1>4, <2>1, Unchanging DEF SeatHolds, SeatHoldsNext, Resting, Phase
  <2>4. CommandHolds(command', instance', phase', games')  BY <1>2, <1>4, NoCommandHolds
  <2> QED BY <1>3, <2>1, <2>2, <2>3, <2>4, OneSeatSteps
<1>5. CASE /\ phase[s] \notin Resting /\ instance[s] # {}
           /\ phase' = [phase EXCEPT ![s] = "Stopping"]
           /\ CleanUp("stop", {s}) /\ UNCHANGED returnAsked
  <2>1. phase'[s] = "Stopping" /\ Touches(s)
    BY <1>1, <1>5, Unchanging DEF Touches, ActivationInv
  <2>2. SeatHoldsNext(s)
    BY <1>1, <1>5, <2>1, Unchanging DEF SeatHolds, SeatHoldsNext, Resting, Phase
  <2>3. returnAsked = FALSE
    BY <1>5 DEF ActivationInv, AllIdle, Resting
  <2>4. ReturnHoldsNext  BY <1>5, <2>3, Zenon DEF ReturnHoldsNext
  <2>5. {s} \in SUBSET GameSeat /\ {s} # {} /\ \A t \in {s} : instance[t] # {}  BY <1>5
  <2>6. CommandHolds(command', instance', phase', games')
    BY <1>1, <1>5, <2>5, CleanUpHolds
  <2> QED BY <1>3, <2>1, <2>2, <2>4, <2>6, OneSeatSteps
<1> QED BY <1>4, <1>5 DEF StopGame, Resting

(* A clean-up begins, and no Seat has changed yet.                           *)
LEMMA CleanUpBegins ==
  ASSUME ActivationInv, NEW op \in {"stop", "exit", "crash", "reconcile", "emergency"},
         NEW set \in SUBSET GameSeat, set # {}, \A t \in set : instance[t] # {}, CleanUp(op, set),
         UNCHANGED <<phase, games, returnAsked, instance, activeNow, filesChanged>>
  PROVE  ActivationInv'
<1>1. CommandHolds(command', instance, phase, games)  BY CleanUpHolds
<1> QED BY <1>1 DEF ActivationInv, AllIdle

LEMMA ObserveSteps ==
  ASSUME ActivationInv, NEW s \in GameSeat, ObserveTargetExit(s) PROVE ActivationInv'
<1>1. {s} \in SUBSET GameSeat /\ {s} # {} /\ \A t \in {s} : instance[t] # {}
  BY DEF ObserveTargetExit
<1> QED BY <1>1, CleanUpBegins DEF ObserveTargetExit

LEMMA ReconcileSteps == ASSUME ActivationInv, Reconcile PROVE ActivationInv'
<1> DEFINE exited == {s \in GameSeat : phase[s] = "Playing" /\ instance[s] # {} /\ ~Running(s)}
<1>1. CASE exited = {}
  <2>1. /\ returnAsked' = AllIdle(phase)
        /\ UNCHANGED <<command, phase, games, instance, activeNow, filesChanged>>
    BY <1>1 DEF Reconcile
  <2>2. AllIdle(phase) \in BOOLEAN /\ AllIdle(phase') = AllIdle(phase)  BY <2>1 DEF AllIdle
  <2>3. returnAsked' \in BOOLEAN /\ (returnAsked' => AllIdle(phase'))  BY <2>1, <2>2, Zenon
  <2> QED BY <2>1, <2>3 DEF ActivationInv
<1>2. CASE exited # {}
  <2>1. /\ CleanUp("reconcile", exited)
        /\ UNCHANGED <<phase, games, returnAsked, instance, activeNow, filesChanged>>
    BY <1>2 DEF Reconcile
  <2>2. exited \in SUBSET GameSeat /\ \A t \in exited : instance[t] # {}  OBVIOUS
  <2> HIDE DEF exited
  <2> QED BY <1>2, <2>1, <2>2, CleanUpBegins
<1> QED BY <1>1, <1>2

LEMMA EmergencySteps == ASSUME ActivationInv, EmergencyStopAll PROVE ActivationInv'
<1> DEFINE held == {s \in GameSeat : instance[s] # {}}
<1>1. /\ Unlocked /\ UNCHANGED <<games, instance, activeNow, filesChanged>>
      /\ phase' = [s \in GameSeat |-> IF s \in held THEN phase[s] ELSE "Idle"]
      /\ IF held = {} THEN returnAsked' = TRUE /\ UNCHANGED command
                      ELSE CleanUp("emergency", held) /\ UNCHANGED returnAsked
  BY DEF EmergencyStopAll
<1>2. command = NoCommand  BY <1>1 DEF Unlocked, ActivationInv, CommandHolds
<1>3. held \in SUBSET GameSeat /\ \A t \in GameSeat : t \in held <=> instance[t] # {}  OBVIOUS
<1> HIDE DEF held
<1>4. \A t \in GameSeat : SeatHolds(phase'[t], instance'[t], activeNow'[t], filesChanged'[t])
  <2> SUFFICES ASSUME NEW t \in GameSeat
               PROVE  SeatHolds(phase'[t], instance'[t], activeNow'[t], filesChanged'[t])
    OBVIOUS
  <2> QED BY <1>1, <1>3, Unchanging DEF SeatHolds, Resting, Phase
<1>5. CommandHolds(command', instance', phase', games')
  <2>1. CASE held = {}  BY <1>1, <1>2, <2>1, NoCommandHolds
  <2>2. CASE held # {}  BY <1>1, <1>3, <2>2, CleanUpHolds
  <2> QED BY <2>1, <2>2
<1>6. returnAsked' \in BOOLEAN /\ (returnAsked' => AllIdle(phase'))
  <2>1. CASE held = {}
    <3>1. returnAsked' = TRUE  BY <1>1, <2>1, Zenon
    <3>2. AllIdle(phase')  BY <1>1, <2>1 DEF AllIdle
    <3> QED BY <3>1, <3>2, Zenon
  <2>2. CASE held # {}
    <3>1. returnAsked = FALSE
      <4>1. PICK s \in held : TRUE  BY <2>2
      <4>2. phase[s] \notin Resting  BY <1>3, <4>1, Unchanging DEF SeatHolds
      <4>3. ~AllIdle(phase)  BY <1>3, <4>1, <4>2 DEF AllIdle, Resting
      <4> QED BY <4>3 DEF ActivationInv
    <3> QED BY <1>1, <2>2, <3>1, Zenon
  <2> QED BY <2>1, <2>2
<1>7. /\ DOMAIN phase' = GameSeat /\ phase' = [s \in GameSeat |-> phase'[s]]
  BY <1>1
<1> QED BY <1>1, <1>4, <1>5, <1>6, <1>7 DEF ActivationInv

LEMMA ExitSteps == ASSUME ActivationInv, NEW s \in GameSeat, ProcessExits(s) PROVE ActivationInv'
<1>1. /\ activeNow' = [activeNow EXCEPT ![s] = activeNow[s] \ {"Process"}]
      /\ UNCHANGED <<phase, games, returnAsked, instance, filesChanged, command>>
  BY DEF ProcessExits
<1>2. activeNow'[s] = activeNow[s] \ {"Process"}  BY <1>1 DEF ActivationInv
<1>3. Touches(s)  BY <1>1, <1>2, Unchanging DEF Touches
<1>4. SeatHoldsNext(s)  BY <1>1, <1>2, Unchanging DEF SeatHolds, SeatHoldsNext
<1>5. CommandHolds(command', instance', phase', games') /\ games' \in [GameSeat -> 0..MaxGames]
  BY <1>1 DEF ActivationInv
<1>6. ReturnHoldsNext
  <2>1. AllIdle(phase') = AllIdle(phase) /\ returnAsked' = returnAsked  BY <1>1 DEF AllIdle
  <2> QED BY <2>1, Zenon DEF ReturnHoldsNext, ActivationInv
<1> QED BY <1>3, <1>4, <1>5, <1>6, OneSeatSteps

LEMMA ActivationSteps == ActivationInv /\ [ActivationNext]_activationVars => ActivationInv'
<1> SUFFICES ASSUME ActivationInv, [ActivationNext]_activationVars PROVE ActivationInv'  OBVIOUS
<1>1. CASE UNCHANGED activationVars
  BY <1>1 DEF activationVars, ActivationInv, AllIdle
<1> QED
  BY <1>1, AssignSteps, StartGameSteps, StopGameSteps, ObserveSteps, ExitSteps, PrepareHookSteps,
     PrepareResourceSteps, ActivateSteps, FinishSteps, RollbackSteps, VerifySteps,
     ReconcileSteps, EmergencySteps
     DEF ActivationNext

-----------------------------------------------------------------------------
(* The check of a game.                                                     *)
(* What the run of a check has found so far, by the step it is at.             *)
Launched == {"owned", "window", "watch", "stop", "empty", "count", "report"}
CheckShape ==
  /\ check = [step |-> check.step, request |-> check.request, result |-> check.result,
              facts |-> check.facts, stopped |-> check.stopped, emptied |-> check.emptied,
              observing |-> check.observing, report |-> check.report]
  /\ check.step \in CheckStep /\ check.request \in CheckRequest
  /\ check.facts \in [started : BOOLEAN, window : BOOLEAN, natural : BOOLEAN, cleaned : BOOLEAN]
  /\ checkedGame = [alive |-> checkedGame.alive, started |-> checkedGame.started,
                    tracked |-> checkedGame.tracked, window |-> checkedGame.window]

CheckFacts ==
  /\ check.step \in {"validate", "observe", "launch"} =>
       check.result = "none" /\ checkedGame.started = {}
  /\ check.step \notin {"validate", "done"} \/ checkedGame.started # {} =>
       RequestResult(check.request) = "Success"
  /\ check.step \in Launched => check.facts.started
  /\ check.step \notin {"report", "done"} => ~check.facts.cleaned
  /\ check.step # "done" => check.report = "none"
  /\ check.step = "watch" => check.facts.window
  /\ check.step \in {"owned", "window", "watch"} => check.result = "none"
  /\ check.step \in {"stop", "empty", "count", "report"} /\ check.result = "Success" =>
       check.facts.window
  /\ check.step \in {"stop", "empty", "count", "report"} => check.result # "none"
  /\ check.step = "report" => check.facts.cleaned /\ check.result = "Success"
  /\ check.step = "report" => checkedGame.alive = {}

CheckInv == CheckTypeOK /\ CheckShape /\ CheckFacts /\ CheckLeavesNothing

LEMMA CheckSuffices == CheckInv => CheckTypeOK /\ CheckLeavesNothing
  BY DEF CheckInv

LEMMA CheckStarts == CheckInit => CheckInv
<1> SUFFICES ASSUME CheckInit PROVE CheckInv  OBVIOUS
<1>1. PICK r \in CheckRequest :
        check = [step |-> "validate", request |-> r, result |-> "none",
                 facts |-> Facts, stopped |-> FALSE, emptied |-> FALSE,
                 observing |-> FALSE, report |-> "none"]
  BY DEF CheckInit
<1> QED
  BY <1>1 DEF CheckInit, CheckInv, CheckTypeOK, CheckShape, CheckFacts, CheckLeavesNothing,
     CheckStep, Facts, NoOwner, Launched

LEMMA AllowedRequest ==
  ASSUME NEW r \in CheckRequest, RequestResult(r) = "Success"
  PROVE  r.risk = "Allowed" /\ r.containment = "RequireJobObject"
BY DEF RequestResult, CheckRequest, Risk

(* A check that ends, with its last facts.                                    *)
LEMMA CheckEnded ==
  ASSUME CheckInv, UNCHANGED <<checkedGame, cancelled>>,
         check.step \notin {"validate", "done"},
         check' = [step |-> "done", request |-> check.request, result |-> check'.result,
                   facts |-> check'.facts, stopped |-> check'.stopped,
                   emptied |-> check'.emptied, observing |-> FALSE, report |-> check'.report],
         check'.facts \in [started : BOOLEAN, window : BOOLEAN, natural : BOOLEAN, cleaned : BOOLEAN],
         check'.result # "CleanupFailed" => checkedGame.alive = {},
         check'.facts.cleaned => checkedGame.alive = {} /\ check'.facts.started,
         check'.result = "Success" => /\ check'.facts.window /\ check'.facts.cleaned
                                      /\ check'.report = "InsufficientEvidence",
         check'.result # "Success" => check'.report = "none"
  PROVE  CheckInv'
<1>1. check'.step = "done" /\ check'.request = check.request /\ check'.observing = FALSE
  OBVIOUS
<1>2. check.request.risk = "Allowed" /\ check.request.containment = "RequireJobObject"
      /\ RequestResult(check.request) = "Success" /\ check.request \in CheckRequest
  BY AllowedRequest DEF CheckInv, CheckFacts, CheckShape
<1>3. CheckTypeOK'
  BY <1>1, <1>2 DEF CheckInv, CheckTypeOK, CheckStep
<1>4. CheckShape'
  BY <1>1, <1>2 DEF CheckInv, CheckShape, CheckStep
<1>5. CheckFacts'
  BY <1>1, <1>2 DEF CheckFacts, Launched
<1>6. CheckLeavesNothing'
  BY <1>1, <1>2 DEF CheckLeavesNothing
<1> QED BY <1>3, <1>4, <1>5, <1>6 DEF CheckInv

(* The game while it is checked: none starts once all have ended.            *)
Continues(g) ==
  /\ g = [alive |-> g.alive, started |-> g.started, tracked |-> g.tracked, window |-> g.window]
  /\ g.alive \subseteq g.started /\ g.started \subseteq CheckProcess
  /\ g.window \in CheckProcess \cup {NoOwner}
  /\ checkedGame.alive = {} => g.alive = {} /\ g.started = checkedGame.started
  /\ g.started # {} => checkedGame.started # {}

LEMMA CheckSteps == CheckInv /\ [CheckNext]_checkVars => CheckInv'
<1> SUFFICES ASSUME CheckInv, [CheckNext]_checkVars PROVE CheckInv'  OBVIOUS
<1> USE DEF CheckInv, CheckTypeOK, CheckShape, CheckFacts, CheckLeavesNothing, CheckStep, Launched,
        CheckEnds, StopFor
<1>1. CASE ValidateRequest  BY <1>1 DEF ValidateRequest
<1>2. CASE StartObserver  BY <1>2 DEF StartObserver
<1>3. CASE LaunchChecked
  <2>0. check.step = "launch" /\ cancelled' = cancelled
    BY <1>3 DEF LaunchChecked
  <2>1. CASE check' = CheckEnds(check, "LaunchFailed") /\ UNCHANGED checkedGame
    BY <2>0, <2>1
  <2> DEFINE c == [check EXCEPT !.facts.started = TRUE]
  <2>2. CASE /\ checkedGame' = [checkedGame EXCEPT !.alive = {CheckRoot}, !.started = {CheckRoot}]
             /\ check' = [c EXCEPT !.step = "owned"] \/ check' = StopFor(c, "StartupTimeout")
    <3>1. /\ c = [check EXCEPT !.facts = c.facts]
          /\ c.facts = [started |-> TRUE, window |-> check.facts.window,
                        natural |-> check.facts.natural, cleaned |-> check.facts.cleaned]
      OBVIOUS
    <3> HIDE DEF c
    <3>2. CheckRoot \in CheckProcess
      BY CheckAssumption DEF CheckRoot
    <3>3. \/ check'.step = "owned" /\ check'.result = check.result
          \/ check'.step = "stop" /\ check'.result = "StartupTimeout"
      BY <2>2, <3>1
    <3>4. /\ check'.request = check.request /\ check'.facts = c.facts
          /\ check'.report = check.report /\ check'.observing = check.observing
          /\ check'.stopped = check.stopped /\ check'.emptied = check.emptied
          /\ check' = [step |-> check'.step, request |-> check'.request, result |-> check'.result,
              facts |-> check'.facts, stopped |-> check'.stopped, emptied |-> check'.emptied,
              observing |-> check'.observing, report |-> check'.report]
      BY <2>2, <3>1
    <3>5. /\ checkedGame'.alive = {CheckRoot} /\ checkedGame'.started = {CheckRoot}
          /\ checkedGame'.window = checkedGame.window
          /\ checkedGame' = [alive |-> checkedGame'.alive, started |-> checkedGame'.started,
                    tracked |-> checkedGame'.tracked, window |-> checkedGame'.window]
      BY <2>2
    <3> QED BY <2>0, <3>1, <3>2, <3>3, <3>4, <3>5
  <2> QED BY <1>3, <2>1, <2>2 DEF LaunchChecked
<1>4. CASE CheckOwnership  BY <1>4 DEF CheckOwnership
<1>5. CASE AwaitWindow
  <2>0. check.step = "window" /\ UNCHANGED <<checkedGame, cancelled>>
    BY <1>5 DEF AwaitWindow
  <2>1. ASSUME NEW result \in {"Cancelled", "OwnershipUnavailable", "WindowTimeout"},
               check' = StopFor(check, result)
        PROVE  CheckInv'
    BY <2>0, <2>1
  <2>2. CASE check' = StopFor([check EXCEPT !.facts.natural = TRUE], "EarlyProcessExit")
    BY <2>0, <2>2
  <2>3. CASE check' = [check EXCEPT !.step = "watch", !.facts.window = TRUE]
    BY <2>0, <2>3
  <2>4. CASE check' = check
    BY <2>0, <2>4
  <2> QED BY <1>5, <2>1, <2>2, <2>3, <2>4, Zenon DEF AwaitWindow
<1>6. CASE WatchGame
  <2>0. check.step = "watch" /\ UNCHANGED <<checkedGame, cancelled>>
    BY <1>6 DEF WatchGame
  <2>1. ASSUME NEW result \in {"Success", "Cancelled", "OwnershipUnavailable"},
               check' = StopFor(check, result)
        PROVE  CheckInv'
    BY <2>0, <2>1
  <2>2. CASE check' = StopFor([check EXCEPT !.facts.natural = TRUE], "Success")
    BY <2>0, <2>2
  <2> QED BY <1>6, <2>1, <2>2, Zenon DEF WatchGame
<1>7. CASE StopChecked
  <2> PICK rest \in SUBSET checkedGame.alive, ok \in BOOLEAN :
         /\ checkedGame' = [checkedGame EXCEPT !.alive = rest]
         /\ check' = [check EXCEPT !.step = "empty", !.stopped = ok]
    BY <1>7, Zenon DEF StopChecked
  <2>0. check.step = "stop" /\ cancelled' = cancelled
    BY <1>7 DEF StopChecked
  <2> QED BY <2>0
<1>8. CASE WaitForNone  BY <1>8 DEF WaitForNone
<1>9. CASE CountRemaining
  <2> DEFINE clean == check.stopped /\ check.emptied /\ checkedGame.tracked
                      /\ checkedGame.alive = {}
             c == [check EXCEPT !.facts.cleaned = clean]
  <2>0. check.step = "count" /\ UNCHANGED <<checkedGame, cancelled>>
    BY <1>9 DEF CountRemaining
  <2>1. /\ clean \in BOOLEAN /\ (clean => checkedGame.alive = {})
        /\ c = [check EXCEPT !.facts = c.facts]
        /\ c.facts = [started |-> check.facts.started, window |-> check.facts.window,
                      natural |-> check.facts.natural, cleaned |-> clean]
    OBVIOUS
  <2>2. \/ ~clean /\ check' = CheckEnds(c, "CleanupFailed")
        \/ clean /\ check.result # "Success" /\ check' = CheckEnds(c, check.result)
        \/ clean /\ check.result = "Success" /\ check' = [c EXCEPT !.step = "report"]
    BY <1>9, Zenon DEF CountRemaining
  <2> HIDE DEF c, clean
  <2>6. c.facts.cleaned = clean /\ c.facts.started = TRUE /\ c.facts.window = check.facts.window
        /\ c.facts.natural = check.facts.natural
    BY <2>0, <2>1
  <2>7. c.facts \in [started : BOOLEAN, window : BOOLEAN, natural : BOOLEAN, cleaned : BOOLEAN]
    BY <2>1
  <2>3. CASE ~clean /\ check' = CheckEnds(c, "CleanupFailed")
    <3>1. /\ check' = [step |-> "done", request |-> check.request, result |-> check'.result,
                       facts |-> check'.facts, stopped |-> check'.stopped,
                       emptied |-> check'.emptied, observing |-> FALSE, report |-> check'.report]
          /\ check'.result = "CleanupFailed" /\ check'.facts = c.facts
          /\ check'.report = "none"
      BY <2>0, <2>1, <2>3
    <3>2. ~c.facts.cleaned  BY <2>3, <2>6, Zenon
    <3> QED BY <2>0, <2>7, <3>1, <3>2, CheckEnded
  <2>4. CASE clean /\ check.result # "Success" /\ check' = CheckEnds(c, check.result)
    <3>1. /\ check' = [step |-> "done", request |-> check.request, result |-> check'.result,
                       facts |-> check'.facts, stopped |-> check'.stopped,
                       emptied |-> check'.emptied, observing |-> FALSE, report |-> check'.report]
          /\ check'.result = check.result /\ check'.facts = c.facts
          /\ check'.report = "none"
      BY <2>0, <2>1, <2>4
    <3>2. checkedGame.alive = {} /\ c.facts.started  BY <2>1, <2>4, <2>6, Zenon
    <3> QED BY <2>0, <2>4, <2>7, <3>1, <3>2, CheckEnded
  <2>5. CASE clean /\ check.result = "Success" /\ check' = [c EXCEPT !.step = "report"]
    <3>1. /\ check' = [step |-> "report", request |-> check.request, result |-> check.result,
                       facts |-> c.facts, stopped |-> check'.stopped,
                       emptied |-> check'.emptied, observing |-> check'.observing, report |-> "none"]
      BY <2>0, <2>1, <2>5
    <3>2. c.facts.cleaned /\ checkedGame.alive = {} /\ c.facts.started
          /\ c.facts.window = check.facts.window
      BY <2>1, <2>5, <2>6, Zenon
    <3>3. /\ check'.step = "report" /\ check'.request = check.request
          /\ check'.result = "Success" /\ check'.facts = c.facts /\ check'.report = "none"
      BY <2>5, <3>1
    <3>4. CheckShape'  BY <2>0, <2>7, <3>1, <3>3
    <3>5. CheckFacts'  BY <2>0, <2>5, <3>2, <3>3
    <3> QED BY <2>0, <3>3, <3>4, <3>5
  <2> QED BY <2>2, <2>3, <2>4, <2>5
<1>10. CASE BuildReport
  <2>0. check.step = "report" /\ UNCHANGED <<checkedGame, cancelled>>
    BY <1>10 DEF BuildReport
  <2>1. OverallVerdict(check.facts, FALSE) = "InsufficientEvidence"
    BY <2>0 DEF OverallVerdict, IsolationOf
  <2>2. check' = [CheckEnds(check, "Success") EXCEPT !.report = "InsufficientEvidence"]
    BY <1>10, <2>1 DEF BuildReport
  <2>3. /\ check' = [step |-> "done", request |-> check.request, result |-> check'.result,
                     facts |-> check'.facts, stopped |-> check'.stopped,
                     emptied |-> check'.emptied, observing |-> FALSE, report |-> check'.report]
        /\ check'.result = "Success" /\ check'.facts = check.facts
        /\ check'.report = "InsufficientEvidence"
    BY <2>2
  <2>4. check.facts.cleaned /\ check.facts.window /\ check.facts.started /\ checkedGame.alive = {}
    BY <2>0, Zenon
  <2> QED BY <2>0, <2>3, <2>4, CheckEnded
<1>11. CASE GameGoesOn
  <2>0. check.step # "done" /\ UNCHANGED <<check, cancelled>>
    BY <1>11 DEF GameGoesOn
  <2>1. Continues(checkedGame')
    <3>1. ASSUME NEW p \in checkedGame.alive, checkedGame' = [checkedGame EXCEPT !.alive = @ \ {p}]
          PROVE  Continues(checkedGame')
      <4>1. checkedGame' = [alive |-> checkedGame.alive \ {p}, started |-> checkedGame.started,
                            tracked |-> checkedGame.tracked, window |-> checkedGame.window]
        BY <3>1
      <4> QED BY <4>1, <3>1 DEF Continues
    <3>2. ASSUME NEW p \in CheckProcess \ checkedGame.started, checkedGame.alive # {},
                 checkedGame' = [checkedGame EXCEPT !.alive = @ \cup {p}, !.started = @ \cup {p}]
          PROVE  Continues(checkedGame')
      <4>1. checkedGame' = [alive |-> checkedGame.alive \cup {p}, started |-> checkedGame.started \cup {p},
                            tracked |-> checkedGame.tracked, window |-> checkedGame.window]
        BY <3>2
      <4> QED BY <4>1, <3>2 DEF Continues
    <3>3. ASSUME NEW p \in checkedGame.alive \cup {NoOwner},
                 checkedGame' = [checkedGame EXCEPT !.window = p]
          PROVE  Continues(checkedGame')
      <4>1. checkedGame' = [alive |-> checkedGame.alive, started |-> checkedGame.started,
                            tracked |-> checkedGame.tracked, window |-> p]
        BY <3>3
      <4> QED BY <4>1, <3>3 DEF Continues
    <3>4. ASSUME checkedGame' = [checkedGame EXCEPT !.tracked = FALSE]
          PROVE  Continues(checkedGame')
      <4>1. checkedGame' = [alive |-> checkedGame.alive, started |-> checkedGame.started,
                            tracked |-> FALSE, window |-> checkedGame.window]
        BY <3>4
      <4> QED BY <4>1, <3>4 DEF Continues
    <3> QED BY <1>11, <3>1, <3>2, <3>3, <3>4, Zenon DEF GameGoesOn
  <2>2. check'.step # "done"  BY <2>0
  <2> QED BY <2>0, <2>1, <2>2 DEF Continues
<1>12. CASE CancelCheck  BY <1>12 DEF CancelCheck
<1>13. CASE UNCHANGED checkVars  BY <1>13 DEF checkVars
<1> QED
  BY <1>1, <1>2, <1>3, <1>4, <1>5, <1>6, <1>7, <1>8, <1>9, <1>10, <1>11, <1>12, <1>13 DEF CheckNext

-----------------------------------------------------------------------------
(* The history of results and what leaves it.                               *)
(* What may leave the machine.                                             *)
ShareState == {"LocalResultAvailable", "PreviewReady", "UserDeclined", "SubmitPending",
               "SubmitSucceeded", "SubmitFailed", "Superseded"}
OfferedState == {"PreviewReady", "SubmitPending", "SubmitFailed"}
ShareEntry == [id : 1..MaxResult, state : ShareState, preview : 0..MaxPreview]
Privacy == [sharing : BOOLEAN, retained : Retentions]
Submission == [envelope : 0..MaxResult, approved : BOOLEAN]
Agreed == [submission : 0..MaxResult, export : 0..MaxResult]
LocalExport == [result : 0..MaxResult, generation : 0..MaxPreview, approved : BOOLEAN]

Listed(h) ==
  /\ h \in Seq(ShareEntry)
  /\ \A i, j \in DOMAIN h : h[i].id = h[j].id => i = j
ActiveIsLast(h, a) == a \in 0..MaxResult /\ (a # 0 => h # <<>> /\ a = h[Len(h)].id)
(* The preview of the active result, and the consent when it is to be sent.  *)
OfferFits(e, a, p, s, by) ==
  /\ e.state \in OfferedState => s.envelope = a /\ e.preview # 0
  /\ e.state = "SubmitPending" => p.sharing /\ s.approved /\ by.submission = a
ExportFits(h, x, by) ==
  /\ x.approved => by.export = x.result
  /\ x.result # 0 => Has(h, x.result)

ShareFits(h, a, p, s, x, by) ==
  /\ Listed(h) /\ Len(h) <= p.retained /\ ActiveIsLast(h, a)
  /\ p \in Privacy /\ s \in Submission /\ x \in LocalExport
  /\ a # 0 => OfferFits(h[Len(h)], a, p, s, by)
  /\ ExportFits(h, x, by)

NamesOnce(ids, n) ==
  /\ ids \in Seq(1..MaxResult) /\ \A i, j \in DOMAIN ids : ids[i] = ids[j] => i = j
  /\ \A i \in DOMAIN ids : ids[i] <= n
ShareCounts ==
  /\ recorded \in 0..MaxResult /\ \A i \in DOMAIN results : results[i].id <= recorded
  /\ NamesOnce(historyFile, recorded)
  /\ numbering \in [preview : Nat \ {0}, export : Nat] /\ agreed \in Agreed
ShareInv ==
  /\ ShareFits(results, activeResult, privacy, submission, localExport, agreed)
  /\ ShareCounts

LEMMA OfSequence ==
  ASSUME NEW S, NEW q \in Seq(S)
  PROVE  Len(q) \in Nat /\ DOMAIN q = 1..Len(q) /\ \A k \in 1..Len(q) : q[k] \in S
  OBVIOUS

LEMMA Joined ==
  ASSUME NEW S, NEW q \in Seq(S), NEW t \in Seq(S)
  PROVE  /\ q \o t \in Seq(S) /\ Len(q \o t) = Len(q) + Len(t)
         /\ DOMAIN (q \o t) = 1..(Len(q) + Len(t))
         /\ \A i \in 1..Len(q) : (q \o t)[i] = q[i]
         /\ \A i \in (Len(q) + 1)..(Len(q) + Len(t)) : (q \o t)[i] = t[i - Len(q)]
<1>1. q \o t \in Seq(S)  OBVIOUS
<1>2. Len(q \o t) = Len(q) + Len(t)  OBVIOUS
<1>3. Len(q) \in Nat /\ Len(t) \in Nat  OBVIOUS
<1>4. DOMAIN (q \o t) = 1..(Len(q) + Len(t))  BY <1>1, <1>2
<1>5. \A i \in 1..Len(q) : (q \o t)[i] = q[i]  BY <1>3
<1>6. \A i \in (Len(q) + 1)..(Len(q) + Len(t)) : (q \o t)[i] = t[i - Len(q)]  BY <1>3
<1> QED  BY <1>1, <1>2, <1>4, <1>5, <1>6

LEMMA IndexFound ==
  ASSUME NEW h, Listed(h), NEW i \in DOMAIN h
  PROVE  IndexOf(h, h[i].id) = i /\ Entry(h, h[i].id) = h[i]
<1>1. \E k \in DOMAIN h : h[k].id = h[i].id  OBVIOUS
<1>2. IndexOf(h, h[i].id) \in DOMAIN h /\ h[IndexOf(h, h[i].id)].id = h[i].id
  BY <1>1 DEF IndexOf
<1> QED  BY <1>2 DEF Listed, Entry

LEMMA LastIs ==
  ASSUME NEW h, Listed(h), h # <<>>
  PROVE  /\ Len(h) \in DOMAIN h /\ Len(h) \in Nat /\ Len(h) >= 1 /\ h[Len(h)] \in ShareEntry
         /\ DOMAIN h = 1..Len(h) /\ \A i \in DOMAIN h : h[i] \in ShareEntry
  BY DEF Listed

LEMMA ActiveIs ==
  ASSUME NEW h, NEW a, Listed(h), ActiveIsLast(h, a), a # 0
  PROVE  /\ Entry(h, a) = h[Len(h)] /\ Entry(h, a) \in ShareEntry /\ Entry(h, a).id = a
         /\ h # <<>> /\ Has(h, a) /\ Len(h) \in DOMAIN h
<1>1. h # <<>> /\ a = h[Len(h)].id  BY DEF ActiveIsLast
<1>2. Len(h) \in DOMAIN h /\ h[Len(h)] \in ShareEntry  BY <1>1, LastIs
<1>3. Entry(h, a) = h[Len(h)]  BY <1>1, <1>2, IndexFound
<1> QED  BY <1>1, <1>2, <1>3 DEF Has, Ids

(* The last result changed.                                                *)
LEMMA UpdateHolds ==
  ASSUME NEW h, NEW a, Listed(h), ActiveIsLast(h, a), a # 0, NEW e \in ShareEntry, e.id = a
  PROVE  /\ Listed(Update(h, a, e)) /\ Len(Update(h, a, e)) = Len(h) /\ Update(h, a, e) # <<>>
         /\ Update(h, a, e)[Len(h)] = e /\ ActiveIsLast(Update(h, a, e), a)
         /\ \A i \in DOMAIN h : Update(h, a, e)[i].id = h[i].id
         /\ DOMAIN Update(h, a, e) = DOMAIN h
         /\ \A id : Has(h, id) => Has(Update(h, a, e), id)
<1> DEFINE u == Update(h, a, e)
<1>1. /\ Len(h) \in DOMAIN h /\ Len(h) \in Nat /\ Len(h) >= 1 /\ DOMAIN h = 1..Len(h)
      /\ \A i \in DOMAIN h : h[i] \in ShareEntry
      /\ h # <<>> /\ h[Len(h)].id = a
  BY LastIs DEF ActiveIsLast
<1>2. u = [i \in 1..Len(h) |-> IF h[i].id = a THEN e ELSE h[i]]  BY <1>1 DEF Update
<1> HIDE DEF u
<1>3. u \in Seq(ShareEntry)
  <2>1. \A i \in 1..Len(h) : u[i] \in ShareEntry  BY <1>1, <1>2
  <2> QED  BY <2>1, <1>1, <1>2
<1>4. DOMAIN u = DOMAIN h /\ Len(u) = Len(h)  BY <1>1, <1>2, <1>3
<1>5. \A i \in DOMAIN h : u[i].id = h[i].id  BY <1>1, <1>2
<1>6. u[Len(h)] = e  BY <1>1, <1>2
<1>7. Listed(u)  BY <1>3, <1>4, <1>5 DEF Listed
<1>8. u # <<>>  BY <1>1, <1>4
<1>9. ActiveIsLast(u, a)  BY <1>1, <1>4, <1>6, <1>8 DEF ActiveIsLast
<1>10. \A id : Has(h, id) => Has(u, id)  BY <1>4, <1>5 DEF Has, Ids
<1> QED  BY <1>4, <1>5, <1>6, <1>7, <1>8, <1>9, <1>10 DEF u

(* The newest results.                                                     *)
LEMMA NewestHolds ==
  ASSUME NEW S, NEW q \in Seq(S), NEW n \in Nat \ {0}
  PROVE  /\ Newest(q, n) \in Seq(S) /\ Len(Newest(q, n)) <= n
         /\ Len(q) <= n => Newest(q, n) = q
         /\ Len(Newest(q, n)) <= Len(q)
         /\ Len(q) > n => Len(Newest(q, n)) = n
         /\ \A i \in DOMAIN Newest(q, n) :
              /\ i + (Len(q) - Len(Newest(q, n))) \in DOMAIN q
              /\ Newest(q, n)[i] = q[i + (Len(q) - Len(Newest(q, n)))]
<1>1. CASE Len(q) <= n
  <2>1. 1 + (IF Len(q) > n THEN Len(q) - n ELSE 0) = 1  BY <1>1
  <2>2. Newest(q, n) = SubSeq(q, 1, Len(q))  BY <2>1, Zenon DEF Newest
  <2>3. SubSeq(q, 1, Len(q)) = q  OBVIOUS
  <2>4. Newest(q, n) = q  BY <2>2, <2>3, Zenon
  <2>5. Len(q) \in Nat /\ ~(Len(q) > n) /\ Len(q) - Len(q) = 0  BY <1>1
  <2>6. \A i \in DOMAIN q : i + 0 = i /\ i + (Len(q) - Len(q)) = i  BY <2>5
  <2>7. \A i \in DOMAIN Newest(q, n) :
          /\ i + (Len(q) - Len(Newest(q, n))) \in DOMAIN q
          /\ Newest(q, n)[i] = q[i + (Len(q) - Len(Newest(q, n)))]
    BY <2>4, <2>6, Zenon
  <2>8. Newest(q, n) \in Seq(S) /\ Len(Newest(q, n)) <= n /\ Len(Newest(q, n)) <= Len(q)
    BY <2>4, <2>5, <1>1
  <2> QED  BY <2>4, <2>5, <2>7, <2>8, <1>1, Zenon
<1>2. CASE Len(q) > n
  <2> DEFINE m == Len(q) - n
  <2>1. m \in Nat /\ m >= 1 /\ Len(q) = m + n  BY <1>2
  <2>2. Newest(q, n) = SubSeq(q, 1 + m, Len(q))  BY <1>2 DEF Newest
  <2> HIDE DEF m
  <2>3. /\ SubSeq(q, 1 + m, Len(q)) \in Seq(S) /\ Len(SubSeq(q, 1 + m, Len(q))) = n
        /\ \A i \in 1..n : SubSeq(q, 1 + m, Len(q))[i] = q[i + m] /\ i + m \in DOMAIN q
    BY <2>1
  <2>4. Newest(q, n) \in Seq(S) /\ Len(Newest(q, n)) = n  BY <2>2, <2>3, Zenon
  <2>5. /\ Len(q) - Len(Newest(q, n)) = m /\ Len(Newest(q, n)) <= Len(q)
        /\ DOMAIN Newest(q, n) = 1..n /\ ~(Len(q) <= n) /\ n <= n
    BY <1>2, <2>1, <2>4
  <2>6. \A i \in DOMAIN Newest(q, n) :
          /\ i + (Len(q) - Len(Newest(q, n))) \in DOMAIN q
          /\ Newest(q, n)[i] = q[i + (Len(q) - Len(Newest(q, n)))]
    BY <2>2, <2>3, <2>5, Zenon
  <2> QED  BY <2>4, <2>5, <2>6, Zenon
<1> QED
  <2>1. Len(q) <= n \/ Len(q) > n  OBVIOUS
  <2> QED  BY <2>1, <1>1, <1>2, Zenon

LEMMA RetainedHolds ==
  ASSUME NEW h, NEW a, Listed(h), ActiveIsLast(h, a), NEW p \in Privacy, NEW s, NEW x
  PROVE  LET r == Retained(h, a, p, s, x) IN
         /\ Listed(r.results) /\ Len(r.results) <= p.retained /\ ActiveIsLast(r.results, a)
         /\ r.active = a /\ r.submission = s
         /\ a # 0 => r.results[Len(r.results)] = h[Len(h)]
         /\ Len(h) <= p.retained => r.results = h /\ r.export = x
         /\ Len(h) > p.retained => r.export = NoExport
         /\ \A i \in DOMAIN r.results : r.results[i].id \in Ids(h)
<1> DEFINE stay == Newest(h, p.retained)
           gone == a # 0 /\ ~Has(stay, a)
           back == Len(h) - Len(stay)
<1>1. p.retained \in Nat \ {0}  BY ShareAssumption DEF Privacy
<1>2. /\ stay \in Seq(ShareEntry) /\ Len(stay) <= p.retained /\ Len(stay) <= Len(h)
      /\ Len(h) <= p.retained => stay = h
      /\ Len(h) > p.retained => Len(stay) = p.retained
      /\ \A i \in DOMAIN stay : i + back \in DOMAIN h /\ stay[i] = h[i + back]
  BY <1>1, NewestHolds DEF Listed
<1>3. Retained(h, a, p, s, x) =
        [results |-> stay, active |-> IF gone THEN 0 ELSE a,
         submission |-> IF gone THEN NoSubmission ELSE s,
         export |-> IF Len(stay) < Len(h) THEN NoExport ELSE x]
  BY Zenon DEF Retained
<1>4. Len(h) \in Nat /\ Len(stay) \in Nat /\ back \in Nat /\ DOMAIN stay = 1..Len(stay)
      /\ DOMAIN h = 1..Len(h)
  BY <1>2 DEF Listed
<1> HIDE DEF stay, back
<1>5. Listed(stay)
  <2>1. ASSUME NEW i \in DOMAIN stay, NEW j \in DOMAIN stay, stay[i].id = stay[j].id PROVE i = j
    <3>1. h[i + back].id = h[j + back].id /\ i + back \in DOMAIN h /\ j + back \in DOMAIN h
      BY <2>1, <1>2
    <3>2. i + back = j + back  BY <3>1 DEF Listed
    <3> QED  BY <3>2, <1>4
  <2> QED  BY <2>1, <1>2 DEF Listed
<1>6. a # 0 => Len(h) >= 1 /\ Len(stay) >= 1 /\ stay[Len(stay)] = h[Len(h)] /\ ~gone
               /\ stay # <<>> /\ a = stay[Len(stay)].id
  <2> SUFFICES ASSUME a # 0
               PROVE  Len(h) >= 1 /\ Len(stay) >= 1 /\ stay[Len(stay)] = h[Len(h)] /\ ~gone
                      /\ stay # <<>> /\ a = stay[Len(stay)].id
    OBVIOUS
  <2>1. h # <<>> /\ a = h[Len(h)].id  BY DEF ActiveIsLast
  <2>2. Len(h) >= 1  BY <2>1, LastIs
  <2>3. Len(stay) >= 1  BY <2>2, <1>1, <1>2, <1>4
  <2>4. Len(stay) \in DOMAIN stay /\ Len(stay) + back = Len(h)  BY <2>3, <1>4 DEF back
  <2>5. stay[Len(stay)] = h[Len(h)]  BY <2>4, <1>2
  <2>6. Has(stay, a)  BY <2>1, <2>4, <2>5 DEF Has, Ids
  <2>7. stay # <<>>  BY <2>3
  <2> QED  BY <2>1, <2>2, <2>3, <2>5, <2>6, <2>7
<1> HIDE DEF gone
<1>7. ~gone  BY <1>6 DEF gone
<1>8. Retained(h, a, p, s, x) =
        [results |-> stay, active |-> a, submission |-> s,
         export |-> IF Len(stay) < Len(h) THEN NoExport ELSE x]
  BY <1>3, <1>7, Zenon
<1>9. ActiveIsLast(stay, a)  BY <1>6 DEF ActiveIsLast
<1>10. \A i \in DOMAIN stay : stay[i].id \in Ids(h)  BY <1>2 DEF Ids
<1>11. Len(h) > p.retained => Len(stay) < Len(h)  BY <1>2, <1>1, <1>4
<1>12. Len(h) <= p.retained => ~(Len(stay) < Len(h))  BY <1>2, <1>1, <1>4
<1> QED  BY <1>2, <1>5, <1>6, <1>8, <1>9, <1>10, <1>11, <1>12

LEMMA FewResults ==
  ASSUME NEW h, Listed(h)
  PROVE  Len(h) <= MaxResult
<1> DEFINE f == [i \in 1..Len(h) |-> h[i].id]
<1>1. Len(h) \in Nat /\ DOMAIN h = 1..Len(h) /\ \A i \in 1..Len(h) : h[i].id \in 1..MaxResult
  <2>1. h \in Seq(ShareEntry)  BY DEF Listed
  <2>2. Len(h) \in Nat /\ DOMAIN h = 1..Len(h) /\ \A i \in 1..Len(h) : h[i] \in ShareEntry
    BY <2>1
  <2>3. \A e \in ShareEntry : e.id \in 1..MaxResult  BY DEF ShareEntry
  <2> QED  BY <2>2, <2>3
<1>2. f \in [1..Len(h) -> 1..MaxResult]  BY <1>1
<1>3. \A i, j \in 1..Len(h) : f[i] = f[j] => i = j  BY <1>1 DEF Listed
<1>4. f \in Injection(1..Len(h), 1..MaxResult)  BY <1>2, <1>3 DEF Injection, IsInjective
<1>5. /\ IsFiniteSet(1..MaxResult) /\ Cardinality(1..MaxResult) = MaxResult
      /\ Cardinality(1..Len(h)) = Len(h)
  <2>1. 1 \in Int /\ MaxResult \in Int /\ MaxResult >= 0 /\ Len(h) \in Int /\ Len(h) >= 0
    BY <1>1, ShareAssumption
  <2>2. /\ IsFiniteSet(1..MaxResult)
        /\ Cardinality(1..MaxResult) = IF 1 > MaxResult THEN 0 ELSE MaxResult - 1 + 1
    BY <2>1, FS_Interval
  <2>3. Cardinality(1..Len(h)) = IF 1 > Len(h) THEN 0 ELSE Len(h) - 1 + 1
    BY <2>1, FS_Interval
  <2> QED  BY <2>1, <2>2, <2>3
<1>6. Cardinality(1..Len(h)) <= Cardinality(1..MaxResult)  BY <1>4, <1>5, FS_Injection
<1> QED  BY <1>5, <1>6

(* One more result, the active one.                                         *)
LEMMA AppendHolds ==
  ASSUME NEW h, Listed(h), NEW id \in 1..MaxResult, ~Has(h, id)
  PROVE  /\ Listed(Append(h, NewEntry(id))) /\ ActiveIsLast(Append(h, NewEntry(id)), id)
         /\ Append(h, NewEntry(id))[Len(Append(h, NewEntry(id)))] = NewEntry(id)
         /\ Ids(Append(h, NewEntry(id))) \subseteq Ids(h) \cup {id}
<1> DEFINE more == Append(h, NewEntry(id))
<1>1. NewEntry(id) \in ShareEntry /\ NewEntry(id).id = id
  BY ShareAssumption DEF NewEntry, ShareEntry, ShareState
<1>2. /\ more \in Seq(ShareEntry) /\ Len(more) = Len(h) + 1 /\ Len(h) \in Nat
      /\ \A i \in 1..Len(h) : more[i] = h[i]
      /\ more[Len(h) + 1] = NewEntry(id) /\ DOMAIN more = 1..(Len(h) + 1) /\ DOMAIN h = 1..Len(h)
  BY <1>1 DEF Listed
<1> HIDE DEF more
<1>3. \A i \in 1..Len(h) : h[i].id # id  BY <1>2 DEF Has, Ids
<1>4. \A i \in DOMAIN more : i \in 1..Len(h) \/ i = Len(h) + 1  BY <1>2
<1>5. ASSUME NEW i \in DOMAIN more, NEW j \in DOMAIN more, more[i].id = more[j].id PROVE i = j
  <2>1. CASE i \in 1..Len(h) /\ j \in 1..Len(h)  BY <2>1, <1>2, <1>5 DEF Listed
  <2>2. CASE i \in 1..Len(h) /\ j = Len(h) + 1  BY <2>2, <1>1, <1>2, <1>3, <1>5
  <2>3. CASE i = Len(h) + 1 /\ j \in 1..Len(h)  BY <2>3, <1>1, <1>2, <1>3, <1>5
  <2> QED  BY <2>1, <2>2, <2>3, <1>4
<1>6. Listed(more)  BY <1>2, <1>5 DEF Listed
<1>7. more # <<>>  BY <1>2
<1>8. id \in 0..MaxResult  BY ShareAssumption
<1>9. ActiveIsLast(more, id)  BY <1>1, <1>2, <1>7, <1>8 DEF ActiveIsLast
<1>10. ASSUME NEW i \in DOMAIN more PROVE more[i].id \in Ids(h) \cup {id}
  <2>1. CASE i \in 1..Len(h)  BY <2>1, <1>2 DEF Ids
  <2>2. CASE i = Len(h) + 1  BY <2>2, <1>1, <1>2
  <2> QED  BY <2>1, <2>2, <1>4
<1>11. Ids(more) \subseteq Ids(h) \cup {id}  BY <1>10 DEF Ids
<1> QED  BY <1>2, <1>6, <1>9, <1>11 DEF more

LEMMA RecordedHolds ==
  ASSUME NEW h, NEW a, Listed(h), ActiveIsLast(h, a), NEW p \in Privacy,
         NEW id \in 1..MaxResult, ~Has(h, id)
  PROVE  LET r == Recorded(h, a, id, p) IN
         /\ Listed(r.results) /\ Len(r.results) <= p.retained /\ ActiveIsLast(r.results, id)
         /\ r.active = id /\ r.submission = NoSubmission /\ r.export = NoExport
         /\ r.results[Len(r.results)] = NewEntry(id)
         /\ Ids(r.results) \subseteq Ids(h) \cup {id}
<1> DEFINE older == IF a # 0 /\ Has(h, a)
                    THEN Update(h, a, [Entry(h, a) EXCEPT !.state = "Superseded"]) ELSE h
           more == Append(older, NewEntry(id))
           r == Retained(more, id, p, NoSubmission, NoExport)
<1>1. Recorded(h, a, id, p) = r  BY Zenon DEF Recorded
<1>2. Listed(older) /\ Ids(older) = Ids(h)
  <2>1. CASE a # 0
    <3> DEFINE e == [Entry(h, a) EXCEPT !.state = "Superseded"]
    <3>1. Entry(h, a) \in ShareEntry /\ Entry(h, a).id = a /\ Has(h, a)  BY <2>1, ActiveIs
    <3>2. e \in ShareEntry /\ e.id = a
      <4> HIDE DEF Entry
      <4>1. \A x \in ShareEntry : /\ [x EXCEPT !.state = "Superseded"] \in ShareEntry
                                  /\ [x EXCEPT !.state = "Superseded"].id = x.id
        BY DEF ShareEntry, ShareState
      <4> QED  BY <3>1, <4>1
    <3>3. older = Update(h, a, e)  BY <2>1, <3>1
    <3> HIDE DEF e, older
    <3>4. /\ Listed(Update(h, a, e)) /\ DOMAIN Update(h, a, e) = DOMAIN h
          /\ \A i \in DOMAIN h : Update(h, a, e)[i].id = h[i].id
      BY <2>1, <3>2, UpdateHolds
    <3>5. Ids(Update(h, a, e)) = Ids(h)
      <4>1. \A y : y \in Ids(Update(h, a, e)) <=> y \in Ids(h)  BY <3>4 DEF Ids
      <4> QED  BY <4>1
    <3> QED  BY <3>3, <3>4, <3>5
  <2>2. CASE a = 0  BY <2>2
  <2> QED  BY <2>1, <2>2
<1> HIDE DEF older
<1>3. ~Has(older, id)  BY <1>2 DEF Has
<1>4. /\ Listed(more) /\ ActiveIsLast(more, id) /\ more[Len(more)] = NewEntry(id)
      /\ Ids(more) \subseteq Ids(older) \cup {id}
  BY <1>2, <1>3, AppendHolds
<1> HIDE DEF more
<1>5. /\ Listed(r.results) /\ Len(r.results) <= p.retained /\ ActiveIsLast(r.results, id)
      /\ r.active = id /\ r.submission = NoSubmission
      /\ id # 0 => r.results[Len(r.results)] = more[Len(more)]
      /\ Len(more) <= p.retained => r.export = NoExport
      /\ Len(more) > p.retained => r.export = NoExport
      /\ \A i \in DOMAIN r.results : r.results[i].id \in Ids(more)
  BY <1>4, RetainedHolds
<1>6. r.export = NoExport
  <2>1. Len(more) \in Nat  BY <1>4 DEF Listed
  <2>2. p.retained \in Nat  BY ShareAssumption DEF Privacy
  <2>3. Len(more) <= p.retained \/ Len(more) > p.retained  BY <2>1, <2>2
  <2> QED  BY <1>5, <2>3
<1> HIDE DEF r
<1>7. Ids(r.results) \subseteq Ids(h) \cup {id}  BY <1>2, <1>4, <1>5 DEF Ids
<1> QED  BY <1>1, <1>4, <1>5, <1>6, <1>7

-----------------------------------------------------------------------------
(* The history read from the file.                                         *)
IsRestoring(f, ids, p) ==
  f = [n \in 0..Len(ids) |->
        IF n = 0 THEN [results |-> <<>>, active |-> 0, submission |-> NoSubmission,
                       export |-> NoExport]
        ELSE Recorded(f[n - 1].results, f[n - 1].active, ids[n], p)]
IsRestoringTo(f, ids, p, n) ==
  /\ DOMAIN f = 0..n
  /\ f[0] = [results |-> <<>>, active |-> 0, submission |-> NoSubmission, export |-> NoExport]
  /\ \A k \in 1..n : f[k] = Recorded(f[k - 1].results, f[k - 1].active, ids[k], p)

LEMMA RestoringExists ==
  ASSUME NEW ids, Len(ids) \in Nat, NEW p
  PROVE  \E f : IsRestoring(f, ids, p)
<1> DEFINE S == { n \in Nat : \E f : IsRestoringTo(f, ids, p, n) }
<1>1. 0 \in S
  <2> DEFINE f == [k \in 0..0 |->
                    [results |-> <<>>, active |-> 0, submission |-> NoSubmission, export |-> NoExport]]
  <2>1. DOMAIN f = 0..0 /\ \A k \in 1..0 : FALSE  OBVIOUS
  <2>2. f[0] = [results |-> <<>>, active |-> 0, submission |-> NoSubmission, export |-> NoExport]
    <3>1. 0 \in 0..0  OBVIOUS
    <3> QED  BY <3>1, Zenon
  <2>3. IsRestoringTo(f, ids, p, 0)  BY <2>1, <2>2, Zenon DEF IsRestoringTo
  <2> QED  BY <2>3
<1>2. \A n \in Nat : n \in S => n + 1 \in S
  <2> SUFFICES ASSUME NEW n \in Nat, n \in S PROVE n + 1 \in S  OBVIOUS
  <2>1. PICK f : IsRestoringTo(f, ids, p, n)  OBVIOUS
  <2> DEFINE next == Recorded(f[n].results, f[n].active, ids[n + 1], p)
             g == [k \in 0..(n + 1) |-> IF k = n + 1 THEN next ELSE f[k]]
  <2> HIDE DEF next
  <2>2. DOMAIN g = 0..(n + 1) /\ g[n + 1] = next /\ \A k \in 0..n : g[k] = f[k]  OBVIOUS
  <2> HIDE DEF g
  <2>3. g[0] = f[0]  BY <2>2
  <2>4. \A k \in 1..(n + 1) : g[k] = Recorded(g[k - 1].results, g[k - 1].active, ids[k], p)
    <3> SUFFICES ASSUME NEW k \in 1..(n + 1)
                 PROVE  g[k] = Recorded(g[k - 1].results, g[k - 1].active, ids[k], p)
      OBVIOUS
    <3>1. CASE k = n + 1
      <4>1. k - 1 = n /\ n \in 0..n  BY <3>1
      <4>2. g[k - 1] = f[n] /\ g[k] = next  BY <4>1, <2>2, <3>1
      <4> QED  BY <4>2, <3>1, Zenon DEF next
    <3>2. CASE k # n + 1
      <4>1. k \in 1..n /\ k - 1 \in 0..n /\ k \in 0..n  BY <3>2
      <4>2. g[k] = f[k] /\ g[k - 1] = f[k - 1]  BY <4>1, <2>2
      <4>3. f[k] = Recorded(f[k - 1].results, f[k - 1].active, ids[k], p)
        BY <2>1, <4>1, Zenon DEF IsRestoringTo
      <4> QED  BY <4>2, <4>3, Zenon
    <3> QED  BY <3>1, <3>2
  <2>5. IsRestoringTo(g, ids, p, n + 1)
    BY <2>1, <2>2, <2>3, <2>4, Zenon DEF IsRestoringTo
  <2>6. n + 1 \in Nat  OBVIOUS
  <2> QED  BY <2>5, <2>6
<1>3. \A n \in Nat : n \in S  BY <1>1, <1>2, OneByOne
<1>4. PICK f : IsRestoringTo(f, ids, p, Len(ids))  BY <1>3
<1> DEFINE g == [n \in 0..Len(ids) |->
        IF n = 0 THEN [results |-> <<>>, active |-> 0, submission |-> NoSubmission,
                       export |-> NoExport]
        ELSE Recorded(f[n - 1].results, f[n - 1].active, ids[n], p)]
<1>5. \A n \in 0..Len(ids) : g[n] = f[n]
  <2> SUFFICES ASSUME NEW n \in 0..Len(ids) PROVE g[n] = f[n]  OBVIOUS
  <2>1. CASE n = 0  BY <2>1, <1>4, Zenon DEF IsRestoringTo
  <2>2. CASE n # 0
    <3>1. n \in 1..Len(ids)  BY <2>2
    <3>2. f[n] = Recorded(f[n - 1].results, f[n - 1].active, ids[n], p)
      BY <1>4, <3>1, Zenon DEF IsRestoringTo
    <3> QED  BY <2>2, <3>2, Zenon
  <2> QED  BY <2>1, <2>2
<1>6. \A n \in 0..Len(ids) : n # 0 => n - 1 \in 0..Len(ids)  OBVIOUS
<1>7. g = [n \in 0..Len(ids) |->
        IF n = 0 THEN [results |-> <<>>, active |-> 0, submission |-> NoSubmission,
                       export |-> NoExport]
        ELSE Recorded(g[n - 1].results, g[n - 1].active, ids[n], p)]
  BY <1>5, <1>6, Zenon
<1> QED  BY <1>7, Zenon DEF IsRestoring

(* What has been read of the file.                                         *)
ReadUpTo(r, ids, n, p) ==
  /\ Listed(r.results) /\ Len(r.results) <= p.retained /\ ActiveIsLast(r.results, r.active)
  /\ r.submission = NoSubmission /\ r.export = NoExport
  /\ r.active # 0 => r.results[Len(r.results)].state = "LocalResultAvailable"
  /\ \A i \in DOMAIN r.results : \E k \in 1..n : r.results[i].id = ids[k]

LEMMA RestoredHolds ==
  ASSUME NEW ids, NamesOnce(ids, MaxResult), NEW p \in Privacy
  PROVE  ReadUpTo(Restored(ids, p), ids, Len(ids), p)
<1> DEFINE f == CHOOSE f : IsRestoring(f, ids, p)
<1>1. Len(ids) \in Nat /\ DOMAIN ids = 1..Len(ids) /\ \A k \in 1..Len(ids) : ids[k] \in 1..MaxResult
  <2>1. ids \in Seq(1..MaxResult)  BY DEF NamesOnce
  <2> QED  BY <2>1, OfSequence
<1>2. IsRestoring(f, ids, p)  BY <1>1, RestoringExists, Zenon
<1>3. Restored(ids, p) = f[Len(ids)]  BY DEF Restored, IsRestoring
<1> HIDE DEF f
<1>4. /\ f[0] = [results |-> <<>>, active |-> 0, submission |-> NoSubmission, export |-> NoExport]
      /\ \A k \in 1..Len(ids) : f[k] = Recorded(f[k - 1].results, f[k - 1].active, ids[k], p)
  <2>1. 0 \in 0..Len(ids) /\ \A k \in 1..Len(ids) : k \in 0..Len(ids) /\ k # 0  BY <1>1
  <2>2. f[0] = [results |-> <<>>, active |-> 0, submission |-> NoSubmission, export |-> NoExport]
    BY <1>2, <2>1, Zenon DEF IsRestoring
  <2>3. ASSUME NEW k \in 1..Len(ids)
        PROVE  f[k] = Recorded(f[k - 1].results, f[k - 1].active, ids[k], p)
    BY <1>2, <2>1, Zenon DEF IsRestoring
  <2> QED  BY <2>2, <2>3
<1> DEFINE S == { n \in Nat : n <= Len(ids) => ReadUpTo(f[n], ids, n, p) }
<1>5. 0 \in S
  <2>1. Listed(<<>>)  BY DEF Listed
  <2>2. p.retained \in Nat  BY ShareAssumption DEF Privacy
  <2>3. ActiveIsLast(<<>>, 0)  BY ShareAssumption DEF ActiveIsLast
  <2>4. ReadUpTo(f[0], ids, 0, p)  BY <1>4, <2>1, <2>2, <2>3 DEF ReadUpTo
  <2> QED  BY <2>4
<1>6. \A n \in Nat : n \in S => n + 1 \in S
  <2> SUFFICES ASSUME NEW n \in Nat, ReadUpTo(f[n], ids, n, p), n + 1 <= Len(ids)
               PROVE  ReadUpTo(f[n + 1], ids, n + 1, p)
    BY <1>1
  <2>1. n + 1 \in 1..Len(ids) /\ (n + 1) - 1 = n  BY <1>1
  <2> DEFINE id == ids[n + 1]
             h == f[n].results
             a == f[n].active
  <2>2. f[n + 1] = Recorded(h, a, id, p)  BY <1>4, <2>1
  <2>3. id \in 1..MaxResult  BY <1>1, <2>1
  <2>4. Listed(h) /\ ActiveIsLast(h, a) /\ \A i \in DOMAIN h : \E k \in 1..n : h[i].id = ids[k]
    BY Zenon DEF ReadUpTo
  <2>5. \A k \in 1..n : ids[k] # id
    <3> SUFFICES ASSUME NEW k \in 1..n, ids[k] = ids[n + 1] PROVE FALSE  OBVIOUS
    <3>1. k \in DOMAIN ids /\ n + 1 \in DOMAIN ids /\ k # n + 1  BY <1>1, <2>1
    <3> QED  BY <3>1 DEF NamesOnce
  <2> HIDE DEF id, h, a
  <2>6. ~Has(h, id)  BY <2>4, <2>5 DEF Has, Ids
  <2> DEFINE r == Recorded(h, a, id, p)
  <2>7. /\ Listed(r.results) /\ Len(r.results) <= p.retained /\ ActiveIsLast(r.results, id)
        /\ r.active = id /\ r.submission = NoSubmission /\ r.export = NoExport
        /\ r.results[Len(r.results)] = NewEntry(id)
        /\ Ids(r.results) \subseteq Ids(h) \cup {id}
    BY <2>3, <2>4, <2>6, RecordedHolds
  <2> HIDE DEF r
  <2>8. r.results[Len(r.results)].state = "LocalResultAvailable"  BY <2>7 DEF NewEntry
  <2>9. \A i \in DOMAIN r.results : \E k \in 1..(n + 1) : r.results[i].id = ids[k]
    <3> SUFFICES ASSUME NEW i \in DOMAIN r.results
                 PROVE  \E k \in 1..(n + 1) : r.results[i].id = ids[k]
      OBVIOUS
    <3>1. r.results[i].id \in Ids(h) \cup {id}  BY <2>7 DEF Ids
    <3>2. CASE r.results[i].id = id
      <4>1. n + 1 \in 1..(n + 1)  OBVIOUS
      <4> QED  BY <3>2, <4>1 DEF id
    <3>3. CASE r.results[i].id \in Ids(h)
      <4>1. PICK k \in 1..n : r.results[i].id = ids[k]  BY <3>3, <2>4 DEF Ids
      <4>2. k \in 1..(n + 1)  OBVIOUS
      <4> QED  BY <4>1, <4>2
    <3> QED  BY <3>1, <3>2, <3>3
  <2>10. ReadUpTo(r, ids, n + 1, p)  BY <2>7, <2>8, <2>9 DEF ReadUpTo
  <2> QED  BY <2>2, <2>10 DEF r
<1>7. \A n \in Nat : n \in S  BY <1>5, <1>6, OneByOne
<1> QED  BY <1>1, <1>3, <1>7

-----------------------------------------------------------------------------
LEMMA ShareStarts == ShareInit => ShareInv
<1> SUFFICES ASSUME ShareInit PROVE ShareInv  OBVIOUS
<1>1. Listed(<<>>) /\ NamesOnce(<<>>, 0)  BY DEF Listed, NamesOnce
<1>2. /\ results = <<>> /\ activeResult = 0 /\ submission = NoSubmission /\ localExport = NoExport
      /\ privacy = [sharing |-> FALSE, retained |-> DefaultRetention]
      /\ recorded = 0 /\ historyFile = <<>> /\ numbering = [preview |-> 1, export |-> 1]
      /\ agreed = NobodyAgreed
  BY DEF ShareInit, NoFile
<1>3. /\ privacy \in Privacy /\ privacy.retained \in Nat
      /\ submission \in Submission /\ localExport \in LocalExport
  BY <1>2, ShareAssumption DEF Privacy, Submission, LocalExport, NoSubmission, NoExport
<1>4. ActiveIsLast(<<>>, 0)  BY ShareAssumption DEF ActiveIsLast
<1>5. ExportFits(results, localExport, agreed)  BY <1>2 DEF ExportFits, NoExport
<1>6. ShareFits(results, activeResult, privacy, submission, localExport, agreed)
  BY <1>1, <1>2, <1>3, <1>4, <1>5 DEF ShareFits
<1>7. ShareCounts
  <2>1. agreed \in Agreed  BY <1>2, ShareAssumption DEF Agreed, NobodyAgreed
  <2>2. numbering \in [preview : Nat \ {0}, export : Nat]  BY <1>2
  <2> QED  BY <1>1, <1>2, <2>1, <2>2, ShareAssumption DEF ShareCounts
<1> QED  BY <1>6, <1>7 DEF ShareInv

LEMMA ShareSuffices == ShareInv => ShareTypeOK /\ SharingIsConsented
<1> SUFFICES ASSUME ShareInv PROVE ShareTypeOK /\ SharingIsConsented  OBVIOUS
<1>1. /\ Listed(results) /\ Len(results) <= privacy.retained /\ ActiveIsLast(results, activeResult)
      /\ privacy \in Privacy /\ submission \in Submission /\ localExport \in LocalExport
      /\ activeResult # 0 =>
           OfferFits(results[Len(results)], activeResult, privacy, submission, agreed)
      /\ ExportFits(results, localExport, agreed)
  BY Zenon DEF ShareInv, ShareFits
<1>2. ShareTypeOK
  <2>1. Len(results) <= MaxResult  BY <1>1, FewResults
  <2>2. localExport.generation <= MaxPreview  BY <1>1, ShareAssumption DEF LocalExport
  <2>3. historyFile \in Seq(1..MaxResult)  BY DEF ShareInv, ShareCounts, NamesOnce
  <2> QED  BY <1>1, <2>1, <2>2, <2>3, Zenon DEF ShareTypeOK, Listed, Privacy, Submission
<1>3. HasActive => ActiveEntry = results[Len(results)]
  BY <1>1, ActiveIs DEF HasActive, ActiveEntry
<1>4. SharingIsConsented
  <2>1. ASSUME HasActive, ActiveEntry.state = "SubmitPending"
        PROVE  /\ privacy.sharing /\ submission.approved
               /\ submission.envelope = activeResult /\ agreed.submission = activeResult
    <3>1. OfferFits(ActiveEntry, activeResult, privacy, submission, agreed)
      BY <1>1, <1>3, <2>1 DEF HasActive
    <3>2. "SubmitPending" \in OfferedState  BY DEF OfferedState
    <3> QED  BY <2>1, <3>1, <3>2, Zenon DEF OfferFits
  <2>2. ASSUME HasActive, ActiveEntry.state \in {"PreviewReady", "SubmitFailed"}
        PROVE  submission.envelope = activeResult
    <3>1. OfferFits(ActiveEntry, activeResult, privacy, submission, agreed)
      BY <1>1, <1>3, <2>2 DEF HasActive
    <3>2. ActiveEntry.state \in OfferedState  BY <2>2 DEF OfferedState
    <3> QED  BY <3>1, <3>2, Zenon DEF OfferFits
  <2> QED  BY <1>1, <2>1, <2>2, Zenon DEF SharingIsConsented, ActiveIsLast, ExportFits
<1> QED  BY <1>2, <1>4

(* The result in use with another state or preview.                        *)
LEMMA EntryChanges ==
  ASSUME NEW h, NEW a, Listed(h), ActiveIsLast(h, a), a # 0, NEW e \in ShareEntry, e.id = a,
         NEW p \in Privacy, Len(h) <= p.retained, NEW s \in Submission, NEW x \in LocalExport,
         NEW by, OfferFits(e, a, p, s, by), ExportFits(h, x, by)
  PROVE  /\ ShareFits(Update(h, a, e), a, p, s, x, by)
         /\ DOMAIN Update(h, a, e) = DOMAIN h
         /\ \A i \in DOMAIN h : Update(h, a, e)[i].id = h[i].id
<1> DEFINE u == Update(h, a, e)
<1>1. /\ Listed(u) /\ Len(u) = Len(h) /\ u # <<>>
      /\ u[Len(h)] = e /\ ActiveIsLast(u, a)
      /\ \A i \in DOMAIN h : u[i].id = h[i].id
      /\ DOMAIN u = DOMAIN h
      /\ \A id : Has(h, id) => Has(u, id)
  BY UpdateHolds
<1> HIDE DEF u
<1>2. ExportFits(u, x, by)  BY <1>1 DEF ExportFits
<1>3. OfferFits(u[Len(u)], a, p, s, by)  BY <1>1
<1>4. Len(u) <= p.retained  BY <1>1
<1>5. ShareFits(u, a, p, s, x, by)  BY <1>1, <1>2, <1>3, <1>4 DEF ShareFits
<1> QED  BY <1>1, <1>5 DEF u

LEMMA EntryTyped ==
  ASSUME NEW e \in ShareEntry, NEW state \in ShareState, NEW n \in 0..MaxPreview
  PROVE  /\ [e EXCEPT !.state = state] \in ShareEntry /\ [e EXCEPT !.state = state].id = e.id
         /\ [e EXCEPT !.state = state].state = state
         /\ [e EXCEPT !.state = state].preview = e.preview
         /\ [e EXCEPT !.preview = n, !.state = state] \in ShareEntry
         /\ [e EXCEPT !.preview = n, !.state = state].id = e.id
         /\ [e EXCEPT !.preview = n, !.state = state].state = state
         /\ [e EXCEPT !.preview = n, !.state = state].preview = n
  BY DEF ShareEntry

(* What a step of the active result has to find.                           *)
LEMMA ShareNow ==
  ASSUME ShareInv
  PROVE  /\ Listed(results) /\ Len(results) <= privacy.retained /\ ActiveIsLast(results, activeResult)
         /\ privacy \in Privacy /\ submission \in Submission /\ localExport \in LocalExport
         /\ ExportFits(results, localExport, agreed)
         /\ HasActive =>
              /\ activeResult # 0 /\ ActiveEntry = results[Len(results)]
              /\ ActiveEntry \in ShareEntry /\ ActiveEntry.id = activeResult
              /\ OfferFits(ActiveEntry, activeResult, privacy, submission, agreed)
<1>1. /\ Listed(results) /\ Len(results) <= privacy.retained /\ ActiveIsLast(results, activeResult)
      /\ privacy \in Privacy /\ submission \in Submission /\ localExport \in LocalExport
      /\ activeResult # 0 =>
           OfferFits(results[Len(results)], activeResult, privacy, submission, agreed)
      /\ ExportFits(results, localExport, agreed)
  BY Zenon DEF ShareInv, ShareFits
<1>2. HasActive => /\ activeResult # 0 /\ ActiveEntry = results[Len(results)]
                   /\ ActiveEntry \in ShareEntry /\ ActiveEntry.id = activeResult
  BY <1>1, ActiveIs DEF HasActive, ActiveEntry
<1> QED  BY <1>1, <1>2

LEMMA CountsStay ==
  ASSUME ShareInv, UNCHANGED <<recorded, historyFile>>,
         numbering' \in [preview : Nat \ {0}, export : Nat], agreed' \in Agreed,
         \/ /\ DOMAIN results' = DOMAIN results
            /\ \A i \in DOMAIN results : results'[i].id = results[i].id
         \/ \A i \in DOMAIN results' : results'[i].id \in Ids(results)
  PROVE  ShareCounts'
<1>1. \A i \in DOMAIN results' : results'[i].id <= recorded
  BY DEF ShareInv, ShareCounts, Ids
<1> QED  BY <1>1 DEF ShareInv, ShareCounts

LEMMA PrivacySteps ==
  ASSUME ShareInv, NEW settings \in Privacy, SetPrivacySettings(settings)
  PROVE  ShareInv'
<1> DEFINE changed == settings # privacy
           limitChanged == settings.retained # privacy.retained
           entry1 == IF limitChanged THEN WithdrawPreview(ActiveEntry) ELSE ActiveEntry
           entry2 == IF settings.sharing THEN entry1 ELSE StopPending(entry1)
           h == IF HasActive THEN Update(results, activeResult, entry2) ELSE results
           s == IF limitChanged THEN NoSubmission ELSE submission
           x == IF changed THEN NoExport ELSE localExport
           by == [submission |-> IF ~settings.sharing \/ limitChanged THEN 0
                                  ELSE agreed.submission,
                  export |-> IF changed THEN 0 ELSE agreed.export]
           r == Retained(h, activeResult, settings, s, x)
<1>1. /\ privacy' = settings /\ results' = r.results /\ activeResult' = r.active
      /\ submission' = r.submission /\ localExport' = r.export /\ agreed' = by
      /\ UNCHANGED <<numbering, historyFile, recorded>>
  BY Zenon DEF SetPrivacySettings, Becomes
<1>2. /\ Listed(results) /\ Len(results) <= privacy.retained /\ ActiveIsLast(results, activeResult)
      /\ privacy \in Privacy /\ submission \in Submission /\ localExport \in LocalExport
      /\ ExportFits(results, localExport, agreed)
      /\ HasActive =>
           /\ activeResult # 0 /\ ActiveEntry = results[Len(results)]
           /\ ActiveEntry \in ShareEntry /\ ActiveEntry.id = activeResult
           /\ OfferFits(ActiveEntry, activeResult, privacy, submission, agreed)
  BY ShareNow
<1>3. /\ limitChanged => changed
      /\ ~limitChanged => s = submission /\ by.submission = IF ~settings.sharing THEN 0 ELSE agreed.submission
      /\ s \in Submission /\ x \in LocalExport
  BY <1>2, ShareAssumption DEF NoSubmission, NoExport, Submission, LocalExport
<1>4. HasActive => entry1 \in ShareEntry /\ entry1.id = activeResult /\ entry1.state \in ShareState
                   /\ (limitChanged => entry1.state \notin OfferedState)
                   /\ (~limitChanged => entry1 = ActiveEntry)
  <2> SUFFICES ASSUME HasActive
               PROVE  entry1 \in ShareEntry /\ entry1.id = activeResult /\ entry1.state \in ShareState
                      /\ (limitChanged => entry1.state \notin OfferedState)
                      /\ (~limitChanged => entry1 = ActiveEntry)
    OBVIOUS
  <2>0. \A e \in ShareEntry : e.state \in ShareState  BY DEF ShareEntry
  <2>1. CASE ~limitChanged  BY <2>0, <2>1, <1>2
  <2>2. CASE limitChanged
    <3> DEFINE e == ActiveEntry
               state == IF e.state \in {"PreviewReady", "SubmitPending", "SubmitFailed", "UserDeclined"}
                        THEN "LocalResultAvailable" ELSE e.state
    <3>1. e \in ShareEntry /\ e.id = activeResult /\ e.state \in ShareState  BY <1>2, <2>0
    <3>2. entry1 = WithdrawPreview(e)  BY <2>2
    <3>3. CASE e.preview = 0
      <4>1. entry1 = e  BY <3>2, <3>3, Zenon DEF WithdrawPreview
      <4>2. e.state \notin OfferedState  BY <3>3, <1>2 DEF OfferFits
      <4> QED  BY <2>2, <3>1, <4>1, <4>2
    <3>4. CASE e.preview # 0
      <4>1. entry1 = [id |-> e.id, state |-> state, preview |-> 0]
        <5>1. WithdrawPreview(e) = [e EXCEPT !.preview = 0, !.state = state]
          BY <3>4 DEF WithdrawPreview
        <5>2. entry1 = [e EXCEPT !.preview = 0, !.state = state]  BY <3>2, <5>1
        <5> HIDE DEF state, e, entry1
        <5>3. entry1 = [id |-> e.id, state |-> state, preview |-> 0]
          BY <3>1, <5>2 DEF ShareEntry
        <5> QED  BY <5>3
      <4>2. state \in ShareState /\ state \notin OfferedState  BY <3>1 DEF ShareState, OfferedState
      <4>3. 0 \in 0..MaxPreview  BY ShareAssumption
      <4> HIDE DEF e, state, entry1
      <4>4. entry1 \in ShareEntry /\ entry1.id = e.id /\ entry1.state = state
        BY <3>1, <4>1, <4>2, <4>3 DEF ShareEntry
      <4> QED  BY <2>2, <3>1, <4>2, <4>4
    <3> QED  BY <3>3, <3>4
  <2> QED  BY <2>1, <2>2
<1> HIDE DEF entry1
<1>5. HasActive => entry2 \in ShareEntry /\ entry2.id = activeResult
                   /\ OfferFits(entry2, activeResult, settings, s, by)
  <2> SUFFICES ASSUME HasActive
               PROVE  entry2 \in ShareEntry /\ entry2.id = activeResult
                      /\ OfferFits(entry2, activeResult, settings, s, by)
    OBVIOUS
  <2>1. /\ entry2 \in ShareEntry /\ entry2.id = activeResult /\ entry2.preview = entry1.preview
        /\ (entry2.state \in OfferedState => entry1.state \in OfferedState)
        /\ (settings.sharing => entry2 = entry1)
        /\ (~settings.sharing => entry2.state # "SubmitPending")
    <3>1. CASE settings.sharing  BY <1>4, <3>1
    <3>2. CASE ~settings.sharing
      <4>1. entry2 = StopPending(entry1)  BY <3>2
      <4>2. CASE entry1.state = "SubmitPending"
        <5>1. entry2 = [entry1 EXCEPT !.state = "PreviewReady"]
          BY <4>1, <4>2, Zenon DEF StopPending
        <5>2. "PreviewReady" \in ShareState /\ 0 \in 0..MaxPreview
          BY ShareAssumption DEF ShareState
        <5> HIDE DEF entry2
        <5>3. entry2 \in ShareEntry /\ entry2.id = entry1.id /\ entry2.state = "PreviewReady"
              /\ entry2.preview = entry1.preview
          BY <1>4, <5>1, <5>2, EntryTyped
        <5> QED  BY <1>4, <3>2, <4>2, <5>3 DEF OfferedState
      <4>3. CASE entry1.state # "SubmitPending"
        <5>1. entry2 = entry1  BY <4>1, <4>3, Zenon DEF StopPending
        <5> HIDE DEF entry2
        <5> QED  BY <1>4, <3>2, <4>3, <5>1
      <4> QED  BY <4>2, <4>3
    <3> QED  BY <3>1, <3>2
  <2> HIDE DEF entry2
  <2>2. CASE limitChanged
    <3>1. entry2.state \notin OfferedState  BY <1>4, <2>1, <2>2
    <3> QED  BY <2>1, <3>1 DEF OfferFits, OfferedState
  <2>3. CASE ~limitChanged
    <3>1. entry1 = ActiveEntry /\ s = submission  BY <1>3, <1>4, <2>3
    <3>2. OfferFits(ActiveEntry, activeResult, privacy, submission, agreed)  BY <1>2
    <3>3. entry2.state \in OfferedState => s.envelope = activeResult /\ entry2.preview # 0
      BY <2>1, <3>1, <3>2, Zenon DEF OfferFits
    <3>4. ASSUME entry2.state = "SubmitPending"
          PROVE  settings.sharing /\ s.approved /\ by.submission = activeResult
      <4>1. settings.sharing /\ entry2 = entry1  BY <2>1, <3>4, Zenon
      <4>2. ActiveEntry.state = "SubmitPending"  BY <4>1, <3>1, <3>4, Zenon
      <4>3. submission.approved /\ agreed.submission = activeResult
        BY <4>2, <3>2, Zenon DEF OfferFits
      <4>4. by.submission = agreed.submission  BY <1>3, <2>3, <4>1
      <4>5. s.approved  BY <4>3, <3>1, Zenon
      <4> QED  BY <4>1, <4>3, <4>4, <4>5, Zenon
    <3>5. OfferFits(entry2, activeResult, settings, s, by)  BY <3>3, <3>4, Zenon DEF OfferFits
    <3> QED  BY <2>1, <3>5
  <2> QED  BY <2>2, <2>3
<1> HIDE DEF entry2
<1>6. /\ Listed(h) /\ ActiveIsLast(h, activeResult) /\ Len(h) = Len(results)
      /\ activeResult # 0 => OfferFits(h[Len(h)], activeResult, settings, s, by)
      /\ Ids(h) = Ids(results)
  <2>1. CASE HasActive
    <3>1. h = Update(results, activeResult, entry2)  BY <2>1
    <3>2. /\ Listed(h) /\ Len(h) = Len(results) /\ h[Len(results)] = entry2
          /\ ActiveIsLast(h, activeResult) /\ DOMAIN h = DOMAIN results
          /\ \A i \in DOMAIN results : h[i].id = results[i].id
      <4>1. activeResult # 0 /\ entry2 \in ShareEntry /\ entry2.id = activeResult
        BY <1>5, <2>1 DEF HasActive
      <4> QED  BY <1>2, <3>1, <4>1, UpdateHolds
    <3> HIDE DEF h
    <3>3. Ids(h) = Ids(results)  BY <3>2 DEF Ids
    <3> QED  BY <1>5, <2>1, <3>2, <3>3
  <2>2. CASE ~HasActive
    <3>1. h = results /\ activeResult = 0  BY <2>2 DEF HasActive
    <3> HIDE DEF h
    <3> QED  BY <1>2, <3>1
  <2> QED  BY <2>1, <2>2
<1> HIDE DEF h, s
<1>7. /\ Listed(r.results) /\ Len(r.results) <= settings.retained
      /\ ActiveIsLast(r.results, activeResult) /\ r.active = activeResult /\ r.submission = s
      /\ activeResult # 0 => r.results[Len(r.results)] = h[Len(h)]
      /\ Len(h) <= settings.retained => r.results = h /\ r.export = x
      /\ Len(h) > settings.retained => r.export = NoExport
      /\ \A i \in DOMAIN r.results : r.results[i].id \in Ids(h)
  BY <1>6, RetainedHolds
<1> HIDE DEF r
<1>8. r.export \in LocalExport /\ ExportFits(r.results, r.export, by)
  <2>1. CASE changed
    <3>1. x = NoExport  BY <2>1
    <3>2. Len(h) \in Nat /\ settings.retained \in Nat
      BY <1>6, OfSequence, ShareAssumption DEF Listed, Privacy
    <3>3. r.export = NoExport  BY <3>1, <3>2, <1>7
    <3>4. NoExport \in LocalExport /\ NoExport.result = 0 /\ NoExport.approved = FALSE
      BY ShareAssumption DEF NoExport, LocalExport
    <3> QED  BY <3>3, <3>4 DEF ExportFits
  <2>2. CASE ~changed
    <3>1. x = localExport /\ settings = privacy /\ by.export = agreed.export  BY <2>2
    <3>2. r.results = h /\ r.export = localExport  BY <3>1, <1>2, <1>6, <1>7
    <3>3. \A id : Has(results, id) => Has(h, id)  BY <1>6 DEF Has
    <3> HIDE DEF by
    <3>4. ExportFits(h, localExport, by)
      BY <1>2, <3>1, <3>3, Zenon DEF ExportFits
    <3> QED  BY <1>2, <3>2, <3>4
  <2> QED  BY <2>1, <2>2
<1>9. activeResult # 0 => OfferFits(r.results[Len(r.results)], activeResult, settings, s, by)
  BY <1>6, <1>7
<1> HIDE DEF by
<1>10. ShareFits(r.results, activeResult, settings, s, r.export, by)
  BY <1>3, <1>7, <1>8, <1>9, Zenon DEF ShareFits
<1>11. ShareFits(results, activeResult, privacy, submission, localExport, agreed)'
  BY <1>1, <1>7, <1>10
<1>12. ShareCounts'
  <2>1. \A i \in DOMAIN results' : results'[i].id \in Ids(results)  BY <1>1, <1>6, <1>7
  <2>2. numbering' \in [preview : Nat \ {0}, export : Nat]
    BY <1>1 DEF ShareInv, ShareCounts
  <2>3. agreed' \in Agreed
    <3>1. agreed \in Agreed  BY DEF ShareInv, ShareCounts
    <3> QED  BY <1>1, <3>1, ShareAssumption DEF by, Agreed
  <2> QED  BY <1>1, <2>1, <2>2, <2>3, CountsStay
<1> QED  BY <1>11, <1>12 DEF ShareInv

LEMMA FreshFits ==
  ASSUME NEW h, NEW a, Listed(h), NEW p \in Privacy, Len(h) <= p.retained, ActiveIsLast(h, a),
         a # 0 => h[Len(h)].state = "LocalResultAvailable", NEW by
  PROVE  ShareFits(h, a, p, NoSubmission, NoExport, by)
<1>1. NoSubmission \in Submission /\ NoExport \in LocalExport
  BY ShareAssumption DEF NoSubmission, NoExport, Submission, LocalExport
<1>2. a # 0 => OfferFits(h[Len(h)], a, p, NoSubmission, by)  BY DEF OfferFits, OfferedState
<1>3. ExportFits(h, NoExport, by)  BY DEF ExportFits, NoExport
<1> QED  BY <1>1, <1>2, <1>3 DEF ShareFits

LEMMA NobodyTyped == NobodyAgreed \in Agreed
  BY ShareAssumption DEF NobodyAgreed, Agreed

LEMMA RecordSteps ==
  ASSUME ShareInv, RecordLocalResult
  PROVE  ShareInv'
<1> DEFINE r == Recorded(results, activeResult, recorded + 1, privacy)
<1>1. /\ recorded < MaxResult /\ recorded' = recorded + 1
      /\ results' = r.results /\ activeResult' = r.active
      /\ submission' = r.submission /\ localExport' = r.export
      /\ agreed' = NobodyAgreed /\ UNCHANGED <<privacy, numbering, historyFile>>
  BY DEF RecordLocalResult, Becomes
<1>2. /\ Listed(results) /\ ActiveIsLast(results, activeResult) /\ privacy \in Privacy
  BY ShareNow
<1>3. recorded \in Nat /\ recorded + 1 \in 1..MaxResult /\ \A i \in DOMAIN results : results[i].id <= recorded
  BY <1>1, ShareAssumption DEF ShareInv, ShareCounts
<1>4. ~Has(results, recorded + 1)
  <2> SUFFICES ASSUME NEW i \in DOMAIN results, results[i].id = recorded + 1 PROVE FALSE
    BY DEF Has, Ids
  <2> QED  BY <1>3
<1>5. /\ Listed(r.results) /\ Len(r.results) <= privacy.retained
      /\ ActiveIsLast(r.results, recorded + 1)
      /\ r.active = recorded + 1 /\ r.submission = NoSubmission /\ r.export = NoExport
      /\ r.results[Len(r.results)] = NewEntry(recorded + 1)
      /\ Ids(r.results) \subseteq Ids(results) \cup {recorded + 1}
  BY <1>2, <1>3, <1>4, RecordedHolds
<1> HIDE DEF r
<1>6. r.results[Len(r.results)].state = "LocalResultAvailable"  BY <1>5 DEF NewEntry
<1>7. ShareFits(r.results, recorded + 1, privacy, NoSubmission, NoExport, NobodyAgreed)
  BY <1>2, <1>5, <1>6, FreshFits
<1>8. ShareFits(results, activeResult, privacy, submission, localExport, agreed)'
  BY <1>1, <1>5, <1>7
<1>9. ShareCounts'
  <2>1. \A i \in DOMAIN results' : results'[i].id <= recorded'
    <3> SUFFICES ASSUME NEW i \in DOMAIN r.results PROVE r.results[i].id <= recorded + 1
      BY <1>1
    <3>1. r.results[i].id \in Ids(results) \cup {recorded + 1}  BY <1>5 DEF Ids
    <3>2. \A y \in Ids(results) : y <= recorded /\ y \in Nat
      <4>1. \A k \in DOMAIN results : results[k].id \in Nat
        <5>1. \A k \in DOMAIN results : results[k] \in ShareEntry
          BY <1>2, OfSequence DEF Listed
        <5>2. \A e \in ShareEntry : e.id \in Nat  BY DEF ShareEntry
        <5> QED  BY <5>1, <5>2
      <4> QED  BY <4>1, <1>3 DEF Ids
    <3> QED  BY <3>1, <3>2, <1>3
  <2>2. recorded' \in 0..MaxResult  BY <1>1, <1>3, ShareAssumption
  <2>3. NamesOnce(historyFile, recorded)'
    <3>1. NamesOnce(historyFile, recorded)  BY DEF ShareInv, ShareCounts
    <3>2. \A i \in DOMAIN historyFile : historyFile[i] \in Nat
      BY <3>1, OfSequence, ShareAssumption DEF NamesOnce
    <3> QED  BY <1>1, <1>3, <3>1, <3>2 DEF NamesOnce
  <2>4. numbering' \in [preview : Nat \ {0}, export : Nat]  BY <1>1 DEF ShareInv, ShareCounts
  <2> QED  BY <1>1, <2>1, <2>2, <2>3, <2>4, NobodyTyped DEF ShareCounts
<1> QED  BY <1>8, <1>9 DEF ShareInv

LEMMA LoadSteps ==
  ASSUME ShareInv, LoadHistory
  PROVE  ShareInv'
<1> DEFINE r == Restored(historyFile, privacy)
<1>1. /\ results' = r.results /\ activeResult' = r.active
      /\ submission' = r.submission /\ localExport' = r.export
      /\ agreed' = NobodyAgreed /\ UNCHANGED <<privacy, numbering, historyFile, recorded>>
  BY DEF LoadHistory, Becomes
<1>2. privacy \in Privacy /\ recorded \in 0..MaxResult /\ NamesOnce(historyFile, recorded)
  BY ShareNow DEF ShareInv, ShareCounts
<1>3. NamesOnce(historyFile, MaxResult)
  <2>1. \A i \in DOMAIN historyFile : historyFile[i] \in 1..MaxResult
    BY <1>2, OfSequence DEF NamesOnce
  <2> QED  BY <1>2, <2>1, ShareAssumption DEF NamesOnce
<1>4. ReadUpTo(r, historyFile, Len(historyFile), privacy)  BY <1>2, <1>3, RestoredHolds
<1> HIDE DEF r
<1>5. ShareFits(r.results, r.active, privacy, NoSubmission, NoExport, NobodyAgreed)
  BY <1>2, <1>4, FreshFits DEF ReadUpTo
<1>6. ShareFits(results, activeResult, privacy, submission, localExport, agreed)'
  BY <1>1, <1>4, <1>5 DEF ReadUpTo
<1>7. \A i \in DOMAIN r.results : r.results[i].id <= recorded
  <2> SUFFICES ASSUME NEW i \in DOMAIN r.results PROVE r.results[i].id <= recorded  OBVIOUS
  <2>1. PICK k \in 1..Len(historyFile) : r.results[i].id = historyFile[k]  BY <1>4 DEF ReadUpTo
  <2>2. k \in DOMAIN historyFile  BY <1>2, OfSequence DEF NamesOnce
  <2> QED  BY <1>2, <2>1, <2>2 DEF NamesOnce
<1>8. ShareCounts'  BY <1>1, <1>7, NobodyTyped DEF ShareInv, ShareCounts
<1> QED  BY <1>6, <1>8 DEF ShareInv

(* One result out of the history.                                          *)
LEMMA RemoveHolds ==
  ASSUME NEW h, Listed(h), NEW k \in DOMAIN h
  PROVE  /\ Listed(RemoveAt(h, k)) /\ Len(RemoveAt(h, k)) = Len(h) - 1 /\ Len(h) \in Nat
         /\ k # Len(h) => RemoveAt(h, k) # <<>> /\ RemoveAt(h, k)[Len(RemoveAt(h, k))] = h[Len(h)]
         /\ \A i \in DOMAIN RemoveAt(h, k) : RemoveAt(h, k)[i].id \in Ids(h)
<1> DEFINE q == SubSeq(h, 1, k - 1)
           t == SubSeq(h, k + 1, Len(h))
           u == q \o t
<1>1. Len(h) \in Nat /\ DOMAIN h = 1..Len(h) /\ h \in Seq(ShareEntry)
      /\ k \in Nat /\ 1 <= k /\ k <= Len(h)
  BY DEF Listed
<1>2. /\ q \in Seq(ShareEntry) /\ Len(q) = k - 1
      /\ \A i \in 1..(k - 1) : q[i] = h[i]
  BY <1>1
<1>3. /\ t \in Seq(ShareEntry) /\ Len(t) = Len(h) - k
      /\ \A i \in 1..(Len(h) - k) : t[i] = h[i + k]
  BY <1>1
<1> HIDE DEF q, t
<1>4. /\ u \in Seq(ShareEntry) /\ Len(u) = Len(h) - 1 /\ DOMAIN u = 1..(Len(h) - 1)
      /\ \A i \in 1..(k - 1) : u[i] = q[i]
      /\ \A i \in k..(Len(h) - 1) : u[i] = t[i - (k - 1)]
  <2>1. /\ u \in Seq(ShareEntry) /\ Len(u) = Len(q) + Len(t) /\ DOMAIN u = 1..(Len(q) + Len(t))
        /\ \A i \in 1..Len(q) : u[i] = q[i]
        /\ \A i \in (Len(q) + 1)..(Len(q) + Len(t)) : u[i] = t[i - Len(q)]
    BY <1>2, <1>3, Joined
  <2>2. Len(q) = k - 1 /\ Len(q) + Len(t) = Len(h) - 1 /\ Len(q) + 1 = k
    BY <1>1, <1>2, <1>3
  <2> HIDE DEF u
  <2> QED  BY <2>1, <2>2
<1> DEFINE at(i) == IF i < k THEN i ELSE i + 1
<1> HIDE DEF u
<1>5. \A i \in DOMAIN u : at(i) \in DOMAIN h /\ u[i] = h[at(i)]
  <2> SUFFICES ASSUME NEW i \in 1..(Len(h) - 1) PROVE at(i) \in 1..Len(h) /\ u[i] = h[at(i)]
    BY <1>1, <1>4
  <2>1. CASE i < k
    <3>1. i \in 1..(k - 1) /\ at(i) = i /\ i \in 1..Len(h)  BY <1>1, <2>1
    <3> QED  BY <3>1, <1>2, <1>4
  <2>2. CASE ~(i < k)
    <3>1. /\ i \in k..(Len(h) - 1) /\ at(i) = i + 1 /\ i + 1 \in 1..Len(h)
          /\ i - (k - 1) \in 1..(Len(h) - k) /\ (i - (k - 1)) + k = i + 1
      BY <1>1, <2>2
    <3>2. u[i] = t[i - (k - 1)]  BY <3>1, <1>4
    <3>3. t[i - (k - 1)] = h[i + 1]  BY <3>1, <1>3
    <3> QED  BY <3>1, <3>2, <3>3
  <2> QED  BY <2>1, <2>2
<1>6. \A i, j \in 1..(Len(h) - 1) : at(i) = at(j) => i = j  BY <1>1
<1> HIDE DEF at
<1>7. \A i, j \in DOMAIN u : u[i].id = u[j].id => i = j
  <2> SUFFICES ASSUME NEW i \in DOMAIN u, NEW j \in DOMAIN u, u[i].id = u[j].id PROVE i = j
    OBVIOUS
  <2>1. h[at(i)].id = h[at(j)].id /\ at(i) \in DOMAIN h /\ at(j) \in DOMAIN h  BY <1>5
  <2>2. at(i) = at(j)  BY <2>1 DEF Listed
  <2> QED  BY <2>2, <1>4, <1>6
<1>8. Listed(u)  BY <1>4, <1>7 DEF Listed
<1>9. k # Len(h) => u # <<>> /\ u[Len(u)] = h[Len(h)]
  <2> SUFFICES ASSUME k # Len(h) PROVE u # <<>> /\ u[Len(u)] = h[Len(h)]  OBVIOUS
  <2>1. Len(h) - 1 \in DOMAIN u /\ ~(Len(h) - 1 < k) /\ (Len(h) - 1) + 1 = Len(h)  BY <1>1, <1>4
  <2>2. at(Len(h) - 1) = Len(h)  BY <2>1 DEF at
  <2>3. u[Len(h) - 1] = h[Len(h)]  BY <1>5, <2>1, <2>2
  <2> QED  BY <1>4, <2>1, <2>3
<1>10. \A i \in DOMAIN u : u[i].id \in Ids(h)  BY <1>5 DEF Ids
<1>11. RemoveAt(h, k) = u  BY Zenon DEF RemoveAt, u, q, t
<1> QED  BY <1>1, <1>4, <1>8, <1>9, <1>10, <1>11

LEMMA DeleteSteps ==
  ASSUME ShareInv, NEW id, DeleteLocalResult(id)
  PROVE  ShareInv'
<1> DEFINE k == IndexOf(results, id)
           u == RemoveAt(results, k)
<1>1. /\ Has(results, id) /\ results' = u /\ localExport' = NoExport
      /\ id = activeResult => activeResult' = 0 /\ submission' = NoSubmission /\ agreed' = NobodyAgreed
      /\ id # activeResult => /\ activeResult' = activeResult /\ submission' = submission
                              /\ agreed' = [agreed EXCEPT !.export = 0]
      /\ UNCHANGED <<privacy, numbering, historyFile, recorded>>
  BY DEF DeleteLocalResult
<1>2. /\ Listed(results) /\ Len(results) <= privacy.retained /\ ActiveIsLast(results, activeResult)
      /\ privacy \in Privacy /\ submission \in Submission
  BY ShareNow
<1>3. k \in DOMAIN results /\ results[k].id = id
  <2>1. \E i \in DOMAIN results : results[i].id = id  BY <1>1 DEF Has, Ids
  <2> QED  BY <2>1 DEF IndexOf
<1> HIDE DEF k
<1>4. /\ Listed(u) /\ Len(u) = Len(results) - 1 /\ Len(results) \in Nat
      /\ k # Len(results) => u # <<>> /\ u[Len(u)] = results[Len(results)]
      /\ \A i \in DOMAIN u : u[i].id \in Ids(results)
  BY <1>2, <1>3, RemoveHolds
<1> HIDE DEF u
<1>5. Len(u) <= privacy.retained
  <2>1. privacy.retained \in Nat  BY <1>2, ShareAssumption DEF Privacy
  <2> QED  BY <1>2, <1>4, <2>1
<1>6. CASE id = activeResult
  <2>1. ActiveIsLast(u, 0)  BY ShareAssumption DEF ActiveIsLast
  <2>2. ShareFits(u, 0, privacy, NoSubmission, NoExport, NobodyAgreed)
    BY <1>2, <1>4, <1>5, <2>1, FreshFits
  <2>3. ShareFits(results, activeResult, privacy, submission, localExport, agreed)'
    BY <1>1, <1>6, <2>2
  <2>4. ShareCounts'
    <3>1. agreed' \in Agreed /\ numbering' \in [preview : Nat \ {0}, export : Nat]
      BY <1>1, <1>6, NobodyTyped DEF ShareInv, ShareCounts
    <3> QED  BY <1>1, <1>4, <3>1, CountsStay
  <2> QED  BY <2>3, <2>4 DEF ShareInv
<1>7. CASE id # activeResult
  <2>1. activeResult # 0 => k # Len(results)
    BY <1>2, <1>3, <1>7 DEF ActiveIsLast
  <2>2. ActiveIsLast(u, activeResult)  BY <1>2, <1>4, <2>1 DEF ActiveIsLast
  <2>3. agreed \in Agreed  BY DEF ShareInv, ShareCounts
  <2> DEFINE by == [agreed EXCEPT !.export = 0]
  <2>4. by \in Agreed /\ by.submission = agreed.submission
    BY <2>3, ShareAssumption DEF Agreed
  <2> HIDE DEF by
  <2>5. activeResult # 0 => OfferFits(u[Len(u)], activeResult, privacy, submission, by)
    <3>1. activeResult # 0 => OfferFits(results[Len(results)], activeResult, privacy, submission, agreed)
      BY Zenon DEF ShareInv, ShareFits
    <3> QED  BY <3>1, <2>1, <1>4, <2>4 DEF OfferFits
  <2>6. ExportFits(u, NoExport, by)  BY DEF ExportFits, NoExport
  <2>7. NoExport \in LocalExport  BY ShareAssumption DEF NoExport, LocalExport
  <2>8. ShareFits(u, activeResult, privacy, submission, NoExport, by)
    BY <1>2, <1>4, <1>5, <2>2, <2>5, <2>6, <2>7 DEF ShareFits
  <2>9. ShareFits(results, activeResult, privacy, submission, localExport, agreed)'
    BY <1>1, <1>7, <2>8 DEF by
  <2>10. ShareCounts'
    <3>1. agreed' \in Agreed /\ numbering' \in [preview : Nat \ {0}, export : Nat]
      BY <1>1, <1>7, <2>4 DEF ShareInv, ShareCounts, by
    <3> QED  BY <1>1, <1>4, <3>1, CountsStay
  <2> QED  BY <2>9, <2>10 DEF ShareInv
<1> QED  BY <1>6, <1>7

(* A step that changes the active result alone, and its submission.         *)
LEMMA EntrySteps ==
  ASSUME ShareInv, HasActive, NEW e \in ShareEntry, e.id = activeResult,
         NEW s \in Submission, NEW by \in Agreed, by.export = agreed.export,
         OfferFits(e, activeResult, privacy, s, by),
         results' = Update(results, activeResult, e), submission' = s, agreed' = by,
         numbering' \in [preview : Nat \ {0}, export : Nat],
         UNCHANGED <<activeResult, privacy, localExport, historyFile, recorded>>
  PROVE  ShareInv'
<1>1. /\ Listed(results) /\ Len(results) <= privacy.retained /\ ActiveIsLast(results, activeResult)
      /\ privacy \in Privacy /\ localExport \in LocalExport
      /\ ExportFits(results, localExport, agreed) /\ activeResult # 0
  BY ShareNow
<1>2. ExportFits(results, localExport, by)  BY <1>1, Zenon DEF ExportFits
<1>3. /\ ShareFits(Update(results, activeResult, e), activeResult, privacy, s, localExport, by)
      /\ DOMAIN Update(results, activeResult, e) = DOMAIN results
      /\ \A i \in DOMAIN results : Update(results, activeResult, e)[i].id = results[i].id
  BY <1>1, <1>2, EntryChanges
<1>4. ShareFits(results, activeResult, privacy, submission, localExport, agreed)'  BY <1>3
<1>5. ShareCounts'  BY <1>3, CountsStay
<1> QED  BY <1>4, <1>5 DEF ShareInv

LEMMA AgreedTyped ==
  ASSUME ShareInv
  PROVE  /\ agreed \in Agreed /\ numbering \in [preview : Nat \ {0}, export : Nat]
         /\ \A n \in 0..MaxResult :
              /\ [agreed EXCEPT !.submission = n] \in Agreed
              /\ [agreed EXCEPT !.submission = n].export = agreed.export
              /\ [agreed EXCEPT !.submission = n].submission = n
              /\ [agreed EXCEPT !.export = n] \in Agreed
              /\ [agreed EXCEPT !.export = n].submission = agreed.submission
              /\ [agreed EXCEPT !.export = n].export = n
<1>1. agreed \in Agreed /\ numbering \in [preview : Nat \ {0}, export : Nat]
  BY DEF ShareInv, ShareCounts
<1> QED  BY <1>1 DEF Agreed

LEMMA PreviewSteps ==
  ASSUME ShareInv, PreparePreview
  PROVE  ShareInv'
<1> DEFINE n == numbering.preview
           e == [ActiveEntry EXCEPT !.preview = n, !.state = "PreviewReady"]
           s == [envelope |-> activeResult, approved |-> FALSE]
<1>1. /\ HasActive /\ n <= MaxPreview /\ submission' = s
      /\ results' = Update(results, activeResult, e)
      /\ numbering' = [numbering EXCEPT !.preview = @ + 1]
      /\ UNCHANGED <<activeResult, privacy, localExport, historyFile, recorded, agreed>>
  BY DEF PreparePreview
<1>2. /\ ActiveEntry \in ShareEntry /\ ActiveEntry.id = activeResult /\ activeResult \in 0..MaxResult
  BY <1>1, ShareNow DEF ActiveIsLast
<1>3. agreed \in Agreed /\ numbering \in [preview : Nat \ {0}, export : Nat]  BY AgreedTyped
<1>4. n \in 0..MaxPreview /\ n # 0 /\ numbering' \in [preview : Nat \ {0}, export : Nat]
  BY <1>1, <1>3, ShareAssumption
<1>5. "PreviewReady" \in ShareState  BY DEF ShareState
<1>6. s \in Submission /\ s.envelope = activeResult  BY <1>2 DEF Submission
<1> DEFINE r == [id |-> ActiveEntry.id, state |-> "PreviewReady", preview |-> n]
<1> HIDE DEF e, n, ActiveEntry
<1>7. e = r
  <2>1. e = [ActiveEntry EXCEPT !.preview = n, !.state = "PreviewReady"]  BY DEF e
  <2> QED  BY <1>2, <2>1 DEF ShareEntry
<1>8. e \in ShareEntry /\ e.id = activeResult /\ e.state = "PreviewReady" /\ e.preview = n
  BY <1>2, <1>4, <1>5, <1>7 DEF ShareEntry
<1> HIDE DEF s
<1>9. OfferFits(e, activeResult, privacy, s, agreed)  BY <1>4, <1>6, <1>8 DEF OfferFits
<1> QED  BY <1>1, <1>3, <1>4, <1>6, <1>8, <1>9, EntrySteps

LEMMA DeclineSteps ==
  ASSUME ShareInv, DeclineSharing
  PROVE  ShareInv'
<1> DEFINE e == [ActiveEntry EXCEPT !.state = "UserDeclined"]
           by == [agreed EXCEPT !.submission = 0]
<1>1. /\ HasActive /\ results' = Update(results, activeResult, e) /\ agreed' = by
      /\ UNCHANGED <<activeResult, privacy, submission, localExport, numbering, historyFile, recorded>>
  BY DEF DeclineSharing
<1>2. ActiveEntry \in ShareEntry /\ ActiveEntry.id = activeResult /\ submission \in Submission
  BY <1>1, ShareNow
<1>3. numbering \in [preview : Nat \ {0}, export : Nat] /\ by \in Agreed /\ by.export = agreed.export
  <2>1. 0 \in 0..MaxResult  BY ShareAssumption
  <2> QED  BY <2>1, AgreedTyped
<1>4. e \in ShareEntry /\ e.id = activeResult /\ e.state = "UserDeclined"
  BY <1>2 DEF ShareEntry, ShareState
<1> HIDE DEF e, by
<1>5. OfferFits(e, activeResult, privacy, submission, by)  BY <1>4 DEF OfferFits, OfferedState
<1> QED  BY <1>1, <1>2, <1>3, <1>4, <1>5, EntrySteps

LEMMA SubmitSteps ==
  ASSUME ShareInv, NEW p, BeginSubmission(p)
  PROVE  ShareInv'
<1> DEFINE exact == p.id = submission.envelope
           e == [ActiveEntry EXCEPT !.state = "SubmitPending"]
           s == [submission EXCEPT !.approved = exact]
           by == [agreed EXCEPT !.submission = p.id]
<1>1. /\ privacy.sharing /\ HasActive /\ p.id = activeResult /\ ActiveEntry.preview # 0
      /\ ActiveEntry.state \in {"PreviewReady", "SubmitFailed"}
      /\ submission' = s
      /\ UNCHANGED <<activeResult, privacy, localExport, numbering, historyFile, recorded>>
  BY DEF BeginSubmission, PreviewIsCurrent
<1>2. IF submission'.approved THEN results' = Update(results, activeResult, e) /\ agreed' = by
      ELSE UNCHANGED <<results, agreed>>
  BY Zenon DEF BeginSubmission
<1>3. /\ ActiveEntry \in ShareEntry /\ ActiveEntry.id = activeResult /\ submission \in Submission
      /\ OfferFits(ActiveEntry, activeResult, privacy, submission, agreed)
      /\ ActiveIsLast(results, activeResult)
  BY <1>1, ShareNow
<1>4. submission.envelope = activeResult
  <2>1. ActiveEntry.state \in OfferedState  BY <1>1 DEF OfferedState
  <2> QED  BY <1>3, <2>1, Zenon DEF OfferFits
<1>5. activeResult \in 0..MaxResult  BY <1>3 DEF ActiveIsLast
<1>6. /\ numbering \in [preview : Nat \ {0}, export : Nat] /\ by \in Agreed
      /\ by.export = agreed.export /\ by.submission = activeResult
  BY AgreedTyped, <1>1, <1>5
<1>7. exact  BY <1>1, <1>4
<1>8. s = [envelope |-> submission.envelope, approved |-> TRUE]
  <2>1. s = [submission EXCEPT !.approved = TRUE]
    <3>1. exact = TRUE  BY <1>7
    <3> QED  BY <3>1, Zenon
  <2> HIDE DEF s
  <2> QED  BY <1>3, <2>1 DEF Submission
<1>9. s \in Submission /\ s.envelope = activeResult /\ s.approved
  BY <1>3, <1>4, <1>5, <1>8 DEF Submission
<1>10. e \in ShareEntry /\ e.id = activeResult /\ e.state = "SubmitPending" /\ e.preview = ActiveEntry.preview
  BY <1>3 DEF ShareEntry, ShareState
<1>11. results' = Update(results, activeResult, e) /\ agreed' = by
  BY <1>1, <1>2, <1>9, Zenon
<1> HIDE DEF e, s, by
<1>12. OfferFits(e, activeResult, privacy, s, by)
  <2>1. e.state \in OfferedState => s.envelope = activeResult /\ e.preview # 0
    BY <1>1, <1>9, <1>10
  <2>2. privacy.sharing /\ s.approved /\ by.submission = activeResult
    BY <1>1, <1>6, <1>9, Zenon
  <2> QED  BY <2>1, <2>2, Zenon DEF OfferFits
<1> QED  BY <1>1, <1>6, <1>9, <1>10, <1>11, <1>12, EntrySteps

LEMMA CompleteSteps ==
  ASSUME ShareInv, NEW reached \in BOOLEAN, NEW accepts \in BOOLEAN,
         CompleteSubmission(reached, accepts)
  PROVE  ShareInv'
<1> DEFINE sends == submission.envelope # 0 /\ submission.approved /\ reached
           state == IF ~privacy.sharing THEN "PreviewReady"
                    ELSE IF sends /\ accepts THEN "SubmitSucceeded" ELSE "SubmitFailed"
           e == [ActiveEntry EXCEPT !.state = state]
<1>1. /\ HasActive /\ ActiveEntry.state = "SubmitPending"
      /\ UNCHANGED <<activeResult, privacy, submission, localExport, numbering, historyFile,
                     recorded, agreed>>
  BY DEF CompleteSubmission
<1>2. results' = Update(results, activeResult, e)
  <2>1. CASE ~privacy.sharing
    <3>1. results' = Update(results, activeResult, StopPending(ActiveEntry))
      BY <2>1, Zenon DEF CompleteSubmission
    <3>2. StopPending(ActiveEntry) = [ActiveEntry EXCEPT !.state = "PreviewReady"]
      BY <1>1, Zenon DEF StopPending
    <3>3. state = "PreviewReady"  BY <2>1
    <3> HIDE DEF state
    <3> QED  BY <3>1, <3>2, <3>3, Zenon
  <2>2. CASE privacy.sharing
    <3>1. results' = Update(results, activeResult,
             [ActiveEntry EXCEPT !.state = IF sends /\ accepts THEN "SubmitSucceeded" ELSE "SubmitFailed"])
      BY <2>2, Zenon DEF CompleteSubmission
    <3>2. state = IF sends /\ accepts THEN "SubmitSucceeded" ELSE "SubmitFailed"  BY <2>2
    <3> HIDE DEF state
    <3> QED  BY <3>1, <3>2, Zenon
  <2> QED  BY <2>1, <2>2
<1>3. /\ ActiveEntry \in ShareEntry /\ ActiveEntry.id = activeResult /\ submission \in Submission
      /\ OfferFits(ActiveEntry, activeResult, privacy, submission, agreed)
  BY <1>1, ShareNow
<1>4. submission.envelope = activeResult /\ ActiveEntry.preview # 0
  <2>1. ActiveEntry.state \in OfferedState  BY <1>1 DEF OfferedState
  <2> QED  BY <1>3, <2>1, Zenon DEF OfferFits
<1>5. state \in ShareState /\ state # "SubmitPending"  BY DEF ShareState
<1> HIDE DEF state, sends
<1>6. e \in ShareEntry /\ e.id = activeResult /\ e.state = state /\ e.preview = ActiveEntry.preview
  BY <1>3, <1>5 DEF ShareEntry
<1>7. agreed \in Agreed /\ numbering \in [preview : Nat \ {0}, export : Nat]  BY AgreedTyped
<1> HIDE DEF e
<1>8. OfferFits(e, activeResult, privacy, submission, agreed)
  BY <1>4, <1>5, <1>6 DEF OfferFits
<1> QED  BY <1>1, <1>2, <1>3, <1>6, <1>7, <1>8, EntrySteps

(* A step that changes the export alone.                                   *)
LEMMA ExportSteps ==
  ASSUME ShareInv, NEW x \in LocalExport, NEW by \in Agreed, by.submission = agreed.submission,
         ExportFits(results, x, by), localExport' = x, agreed' = by,
         numbering' \in [preview : Nat \ {0}, export : Nat],
         UNCHANGED <<results, activeResult, privacy, submission, historyFile, recorded>>
  PROVE  ShareInv'
<1>1. /\ Listed(results) /\ Len(results) <= privacy.retained /\ ActiveIsLast(results, activeResult)
      /\ privacy \in Privacy /\ submission \in Submission
      /\ activeResult # 0 => OfferFits(results[Len(results)], activeResult, privacy, submission, agreed)
  BY Zenon DEF ShareInv, ShareFits
<1>2. activeResult # 0 => OfferFits(results[Len(results)], activeResult, privacy, submission, by)
  BY <1>1, Zenon DEF OfferFits
<1>3. ShareFits(results, activeResult, privacy, submission, x, by)
  BY <1>1, <1>2, Zenon DEF ShareFits
<1>4. ShareFits(results, activeResult, privacy, submission, localExport, agreed)'  BY <1>3
<1>5. ShareCounts'  BY CountsStay
<1> QED  BY <1>4, <1>5 DEF ShareInv

LEMMA ZeroTyped == 0 \in 0..MaxResult /\ NoExport \in LocalExport
  BY ShareAssumption DEF NoExport, LocalExport

LEMMA ListedIds ==
  ASSUME NEW h, Listed(h), NEW id, Has(h, id)
  PROVE  id \in 1..MaxResult /\ id \in 0..MaxResult /\ id # 0
<1>1. PICK i \in DOMAIN h : h[i].id = id  BY DEF Has, Ids
<1>2. h[i] \in ShareEntry  BY <1>1, OfSequence DEF Listed
<1> QED  BY <1>1, <1>2, ShareAssumption DEF ShareEntry

LEMMA PrepareExportSteps ==
  ASSUME ShareInv, NEW id, PrepareLocalExport(id)
  PROVE  ShareInv'
<1> DEFINE x == [result |-> id, generation |-> numbering.export, approved |-> FALSE]
           by == [agreed EXCEPT !.export = 0]
<1>1. /\ Has(results, id) /\ numbering.export <= MaxPreview /\ localExport' = x /\ agreed' = by
      /\ numbering' = [numbering EXCEPT !.export = @ + 1]
      /\ UNCHANGED <<results, activeResult, privacy, submission, historyFile, recorded>>
  BY DEF PrepareLocalExport
<1>2. /\ numbering \in [preview : Nat \ {0}, export : Nat] /\ by \in Agreed
      /\ by.submission = agreed.submission
  BY ZeroTyped, AgreedTyped
<1>3. id \in 0..MaxResult  BY <1>1, ShareNow, ListedIds
<1>4. x \in LocalExport  BY <1>1, <1>2, <1>3, ShareAssumption DEF LocalExport
<1>5. numbering' \in [preview : Nat \ {0}, export : Nat]  BY <1>1, <1>2
<1>6. ExportFits(results, x, by)  BY <1>1 DEF ExportFits
<1> HIDE DEF x, by
<1> QED  BY <1>1, <1>2, <1>4, <1>5, <1>6, ExportSteps

LEMMA ApproveSteps ==
  ASSUME ShareInv, NEW p, ApproveLocalExport(p)
  PROVE  ShareInv'
<1> DEFINE exact == p.generation = localExport.generation /\ p.id = localExport.result
           x == [localExport EXCEPT !.approved = exact]
           by == [agreed EXCEPT !.export = IF exact THEN p.id ELSE 0]
<1>1. /\ localExport.result # 0 /\ localExport' = x /\ agreed' = by
      /\ UNCHANGED <<results, activeResult, privacy, submission, numbering, historyFile, recorded>>
  BY DEF ApproveLocalExport
<1>2. localExport \in LocalExport /\ ExportFits(results, localExport, agreed)  BY ShareNow
<1>3. localExport.result \in 0..MaxResult  BY <1>2 DEF LocalExport
<1>4. (IF exact THEN p.id ELSE 0) \in 0..MaxResult  BY <1>3, ZeroTyped
<1>5. /\ numbering \in [preview : Nat \ {0}, export : Nat] /\ by \in Agreed
      /\ by.submission = agreed.submission /\ by.export = IF exact THEN p.id ELSE 0
  BY <1>4, AgreedTyped
<1> DEFINE is == exact
<1>6. is \in BOOLEAN /\ (is => by.export = localExport.result)  BY <1>5
<1>7. x = [localExport EXCEPT !.approved = is]  OBVIOUS
<1> HIDE DEF is, x, by
<1>8. x \in LocalExport /\ x.result = localExport.result /\ x.approved = is
  BY <1>2, <1>6, <1>7 DEF LocalExport
<1>9. x.approved => by.export = x.result  BY <1>6, <1>8
<1>10. x.result # 0 => Has(results, x.result)  BY <1>2, <1>8 DEF ExportFits
<1>11. ExportFits(results, x, by)  BY <1>9, <1>10, Zenon DEF ExportFits
<1> QED  BY <1>1, <1>5, <1>8, <1>11, ExportSteps

LEMMA DeclineExportSteps ==
  ASSUME ShareInv, DeclineLocalExport
  PROVE  ShareInv'
<1> DEFINE by == [agreed EXCEPT !.export = 0]
<1>1. /\ localExport' = NoExport /\ agreed' = by
      /\ UNCHANGED <<results, activeResult, privacy, submission, numbering, historyFile, recorded>>
  BY DEF DeclineLocalExport
<1>2. /\ numbering \in [preview : Nat \ {0}, export : Nat] /\ by \in Agreed
      /\ by.submission = agreed.submission
  BY ZeroTyped, AgreedTyped
<1>3. ExportFits(results, NoExport, by)  BY DEF ExportFits, NoExport
<1> HIDE DEF by
<1> QED  BY <1>1, <1>2, <1>3, ZeroTyped, ExportSteps

LEMMA ClearSteps ==
  ASSUME ShareInv, ClearLocalResults
  PROVE  ShareInv'
<1>1. /\ results' = <<>> /\ activeResult' = 0 /\ submission' = NoSubmission
      /\ localExport' = NoExport /\ agreed' = NobodyAgreed
      /\ UNCHANGED <<privacy, numbering, historyFile, recorded>>
  BY DEF ClearLocalResults
<1>2. privacy \in Privacy  BY ShareNow
<1>3. Listed(<<>>) /\ ActiveIsLast(<<>>, 0) /\ Len(<<>>) = 0  BY ZeroTyped DEF Listed, ActiveIsLast
<1>4. Len(<<>>) <= privacy.retained
  <2>1. privacy.retained \in Nat  BY <1>2, ShareAssumption DEF Privacy
  <2> QED  BY <1>3, <2>1
<1>5. ShareFits(<<>>, 0, privacy, NoSubmission, NoExport, NobodyAgreed)
  BY <1>2, <1>3, <1>4, FreshFits
<1>6. ShareFits(results, activeResult, privacy, submission, localExport, agreed)'  BY <1>1, <1>5
<1>7. ShareCounts'
  <2>1. \A i \in DOMAIN results' : results'[i].id \in Ids(results)  BY <1>1
  <2> QED  BY <1>1, <2>1, AgreedTyped, NobodyTyped, CountsStay
<1> QED  BY <1>6, <1>7 DEF ShareInv

(* The names in the file.                                                  *)
LEMMA NamesNewest ==
  ASSUME NEW q, NEW n, NamesOnce(q, n), NEW k \in Nat \ {0}
  PROVE  NamesOnce(Newest(q, k), n)
<1> DEFINE w == Newest(q, k)
           back == Len(q) - Len(w)
<1>1. q \in Seq(1..MaxResult)  BY DEF NamesOnce
<1>2. /\ w \in Seq(1..MaxResult) /\ Len(w) <= Len(q)
      /\ \A i \in DOMAIN w : i + back \in DOMAIN q /\ w[i] = q[i + back]
  BY <1>1, NewestHolds
<1>3. Len(w) \in Nat /\ Len(q) \in Nat /\ DOMAIN w = 1..Len(w)  BY <1>1, <1>2, OfSequence
<1> HIDE DEF w
<1>4. back \in Int  BY <1>3
<1> HIDE DEF back
<1>5. \A i, j \in DOMAIN w : w[i] = w[j] => i = j
  <2> SUFFICES ASSUME NEW i \in DOMAIN w, NEW j \in DOMAIN w, w[i] = w[j] PROVE i = j  OBVIOUS
  <2>1. q[i + back] = q[j + back] /\ i + back \in DOMAIN q /\ j + back \in DOMAIN q  BY <1>2
  <2>2. i + back = j + back  BY <2>1 DEF NamesOnce
  <2> QED  BY <2>2, <1>3, <1>4
<1>6. \A i \in DOMAIN w : w[i] <= n  BY <1>2 DEF NamesOnce
<1> QED  BY <1>2, <1>5, <1>6 DEF NamesOnce, w

LEMMA FileSteps ==
  ASSUME ShareInv, UNCHANGED <<results, activeResult, privacy, submission, localExport, agreed, numbering>>,
         recorded' \in 0..MaxResult, recorded <= recorded', NamesOnce(historyFile', recorded')
  PROVE  ShareInv'
<1>1. ShareFits(results, activeResult, privacy, submission, localExport, agreed)'
  BY DEF ShareInv
<1>2. \A i \in DOMAIN results : results[i].id \in Nat
  <2>1. \A i \in DOMAIN results : results[i] \in ShareEntry
    BY ShareNow, OfSequence DEF Listed
  <2>2. \A e \in ShareEntry : e.id \in Nat  BY DEF ShareEntry
  <2> QED  BY <2>1, <2>2
<1>3. recorded \in Nat /\ recorded' \in Nat /\ \A i \in DOMAIN results : results[i].id <= recorded
  BY DEF ShareInv, ShareCounts
<1>4. \A i \in DOMAIN results' : results'[i].id <= recorded'  BY <1>2, <1>3
<1>5. ShareCounts'  BY <1>4 DEF ShareInv, ShareCounts
<1> QED  BY <1>1, <1>5 DEF ShareInv

LEMMA SaveSteps ==
  ASSUME ShareInv, NEW published \in BOOLEAN, SaveHistory(published)
  PROVE  ShareInv'
<1> DEFINE file == [i \in DOMAIN results |-> results[i].id]
<1>1. /\ historyFile' \in {file, historyFile}
      /\ UNCHANGED <<results, activeResult, privacy, submission, localExport, numbering,
                     recorded, agreed>>
  BY DEF SaveHistory
<1>2. Listed(results)  BY ShareNow
<1>3. Len(results) \in Nat /\ DOMAIN results = 1..Len(results)
      /\ \A i \in DOMAIN results : results[i] \in ShareEntry
  BY <1>2, OfSequence DEF Listed
<1>4. \A i \in DOMAIN results : results[i].id \in 1..MaxResult  BY <1>3 DEF ShareEntry
<1>5. file \in Seq(1..MaxResult)  BY <1>3, <1>4
<1>6. DOMAIN file = DOMAIN results /\ \A i \in DOMAIN results : file[i] = results[i].id  OBVIOUS
<1> HIDE DEF file
<1>7. \A i, j \in DOMAIN file : file[i] = file[j] => i = j  BY <1>2, <1>6 DEF Listed
<1>8. recorded \in 0..MaxResult /\ recorded <= recorded /\ NamesOnce(historyFile, recorded)
      /\ \A i \in DOMAIN results : results[i].id <= recorded
  BY DEF ShareInv, ShareCounts
<1>9. NamesOnce(file, recorded)  BY <1>5, <1>6, <1>7, <1>8 DEF NamesOnce
<1> QED  BY <1>1, <1>8, <1>9, FileSteps

LEMMA ElsewhereSteps ==
  ASSUME ShareInv, RecordElsewhere
  PROVE  ShareInv'
<1> DEFINE q == Newest(historyFile, DefaultRetention)
           n == recorded + 1
           w == Append(q, n)
<1>1. /\ recorded < MaxResult /\ recorded' = n /\ historyFile' = Newest(w, DefaultRetention)
      /\ UNCHANGED <<results, activeResult, privacy, submission, localExport, numbering, agreed>>
  BY DEF RecordElsewhere
<1>2. recorded \in Nat /\ NamesOnce(historyFile, recorded) /\ DefaultRetention \in Nat \ {0}
      /\ n \in 1..MaxResult /\ n \in 0..MaxResult /\ recorded <= n
  BY <1>1, ShareAssumption DEF ShareInv, ShareCounts
<1>3. NamesOnce(q, recorded)  BY <1>2, NamesNewest
<1> HIDE DEF q
<1>4. q \in Seq(1..MaxResult) /\ \A i \in DOMAIN q : q[i] <= recorded  BY <1>3 DEF NamesOnce
<1>5. /\ w \in Seq(1..MaxResult) /\ DOMAIN w = 1..(Len(q) + 1) /\ Len(q) \in Nat
      /\ DOMAIN q = 1..Len(q) /\ w[Len(q) + 1] = n /\ \A i \in 1..Len(q) : w[i] = q[i]
  <2>1. n \in 1..MaxResult  BY <1>2
  <2> HIDE DEF n
  <2> QED  BY <1>4, <2>1
<1> HIDE DEF w
<1>6. \A i \in 1..Len(q) : q[i] # n /\ q[i] <= n
  <2>1. \A i \in 1..Len(q) : q[i] \in 1..MaxResult  BY <1>4, OfSequence
  <2>2. \A i \in 1..Len(q) : q[i] <= recorded  BY <1>4, <1>5
  <2>3. \A k \in 1..MaxResult : k \in Nat  BY ShareAssumption
  <2>4. recorded \in Nat /\ n \in Nat /\ recorded < n  BY <1>2
  <2> QED  BY <2>1, <2>2, <2>3, <2>4
<1>7. \A i \in DOMAIN w : i \in 1..Len(q) \/ i = Len(q) + 1  BY <1>5
<1>8. \A i, j \in DOMAIN w : w[i] = w[j] => i = j
  <2> SUFFICES ASSUME NEW i \in DOMAIN w, NEW j \in DOMAIN w, w[i] = w[j] PROVE i = j  OBVIOUS
  <2> HIDE DEF n
  <2>1. CASE i \in 1..Len(q) /\ j \in 1..Len(q)  BY <2>1, <1>3, <1>5 DEF NamesOnce
  <2>2. CASE i \in 1..Len(q) /\ j = Len(q) + 1  BY <2>2, <1>5, <1>6
  <2>3. CASE i = Len(q) + 1 /\ j \in 1..Len(q)  BY <2>3, <1>5, <1>6
  <2> QED  BY <2>1, <2>2, <2>3, <1>7
<1>9. \A i \in DOMAIN w : w[i] <= n
  <2>1. n <= n  BY <1>2
  <2> HIDE DEF n
  <2> QED  BY <2>1, <1>5, <1>6, <1>7
<1>10. NamesOnce(w, n)  BY <1>5, <1>8, <1>9 DEF NamesOnce
<1>11. NamesOnce(historyFile', n)  BY <1>1, <1>2, <1>10, NamesNewest
<1> HIDE DEF n
<1> QED  BY <1>1, <1>2, <1>11, FileSteps

LEMMA ForgetSteps ==
  ASSUME ShareInv, RemoveHistory
  PROVE  ShareInv'
<1>1. /\ historyFile' = <<>>
      /\ UNCHANGED <<results, activeResult, privacy, submission, localExport, numbering,
                     recorded, agreed>>
  BY DEF RemoveHistory, NoFile
<1>2. NamesOnce(<<>>, recorded)  BY DEF NamesOnce
<1>3. recorded \in 0..MaxResult /\ recorded <= recorded  BY DEF ShareInv, ShareCounts
<1> QED  BY <1>1, <1>2, <1>3, FileSteps

LEMMA ShareSteps == ShareInv /\ [ShareNext]_shareVars => ShareInv'
<1> SUFFICES ASSUME ShareInv, [ShareNext]_shareVars PROVE ShareInv'  OBVIOUS
<1>1. ASSUME UNCHANGED shareVars \/ \E id : ExportLocalResult(id) PROVE ShareInv'
  <2>1. UNCHANGED <<results, activeResult, privacy, submission, localExport, numbering,
                    historyFile, recorded, agreed>>
    BY <1>1 DEF shareVars, ExportLocalResult
  <2> QED  BY <2>1 DEF ShareInv, ShareCounts
<1>2. ASSUME NEW settings \in Privacy, SetPrivacySettings(settings) PROVE ShareInv'
  BY <1>2, PrivacySteps
<1>3. CASE RecordLocalResult \/ PreparePreview \/ DeclineSharing
  BY <1>3, RecordSteps, PreviewSteps, DeclineSteps
<1>4. ASSUME NEW p, BeginSubmission(p) \/ ApproveLocalExport(p) PROVE ShareInv'
  BY <1>4, SubmitSteps, ApproveSteps
<1>5. ASSUME NEW reached \in BOOLEAN, NEW accepts \in BOOLEAN, CompleteSubmission(reached, accepts)
      PROVE  ShareInv'
  BY <1>5, CompleteSteps
<1>6. ASSUME NEW id, PrepareLocalExport(id) \/ DeleteLocalResult(id) PROVE ShareInv'
  BY <1>6, PrepareExportSteps, DeleteSteps
<1>7. CASE DeclineLocalExport \/ ClearLocalResults  BY <1>7, DeclineExportSteps, ClearSteps
<1>8. ASSUME NEW published \in BOOLEAN, SaveHistory(published) PROVE ShareInv'
  BY <1>8, SaveSteps
<1>9. CASE LoadHistory \/ RecordElsewhere \/ RemoveHistory
  BY <1>9, LoadSteps, ElsewhereSteps, ForgetSteps
<1> QED
  BY <1>1, <1>2, <1>3, <1>4, <1>5, <1>6, <1>7, <1>8, <1>9, Zenon DEF ShareNext, Privacy

(* What leaves.                                                            *)
Leaves ==
  left' # left =>
    \/ left'.kind = "submission" /\ privacy.sharing /\ agreed.submission = left'.id
    \/ left'.kind = "export" /\ agreed.export = left'.id

LEMMA LeavingIsAgreed == ShareInv /\ [ShareNext]_shareVars => Leaves
<1> SUFFICES ASSUME ShareInv, [ShareNext]_shareVars PROVE Leaves  OBVIOUS
<1>1. ASSUME left' = left PROVE Leaves  BY <1>1 DEF Leaves
<1>2. ASSUME NEW reached \in BOOLEAN, NEW accepts \in BOOLEAN, CompleteSubmission(reached, accepts)
      PROVE  Leaves
  <2>1. HasActive /\ ActiveEntry.state = "SubmitPending"  BY <1>2 DEF CompleteSubmission
  <2>2. OfferFits(ActiveEntry, activeResult, privacy, submission, agreed)  BY <2>1, ShareNow
  <2>3. "SubmitPending" \in OfferedState  BY DEF OfferedState
  <2>4. privacy.sharing /\ submission.envelope = activeResult /\ agreed.submission = activeResult
    BY <2>1, <2>2, <2>3, Zenon DEF OfferFits
  <2>5. left' \in {left, [kind |-> "submission", id |-> submission.envelope]}
    BY <1>2, <2>4 DEF CompleteSubmission
  <2> QED  BY <2>4, <2>5 DEF Leaves
<1>3. ASSUME NEW id, ExportLocalResult(id) PROVE Leaves
  <2>1. localExport.approved /\ left' = [kind |-> "export", id |-> localExport.result]
    BY <1>3 DEF ExportLocalResult
  <2>2. agreed.export = localExport.result  BY <2>1, ShareNow, Zenon DEF ExportFits
  <2> QED  BY <2>1, <2>2 DEF Leaves
<1>4. CASE UNCHANGED shareVars  BY <1>1, <1>4 DEF shareVars
<1>5. ASSUME NEW settings, SetPrivacySettings(settings) PROVE left' = left
  BY <1>5, Zenon DEF SetPrivacySettings
<1>6. ASSUME NEW p, BeginSubmission(p) \/ ApproveLocalExport(p) PROVE left' = left
  BY <1>6 DEF BeginSubmission, ApproveLocalExport
<1>7. ASSUME NEW id, PrepareLocalExport(id) \/ DeleteLocalResult(id) PROVE left' = left
  BY <1>7 DEF PrepareLocalExport, DeleteLocalResult
<1>8. ASSUME NEW published, SaveHistory(published) PROVE left' = left
  BY <1>8 DEF SaveHistory
<1>9. CASE RecordLocalResult \/ PreparePreview \/ DeclineSharing \/ DeclineLocalExport
  BY <1>1, <1>9 DEF RecordLocalResult, PreparePreview, DeclineSharing, DeclineLocalExport
<1>10. CASE ClearLocalResults \/ LoadHistory \/ RecordElsewhere \/ RemoveHistory
  BY <1>1, <1>10 DEF ClearLocalResults, LoadHistory, RecordElsewhere, RemoveHistory
<1> QED
  BY <1>1, <1>2, <1>3, <1>4, <1>5, <1>6, <1>7, <1>8, <1>9, <1>10, Zenon DEF ShareNext
=============================================================================

---------------------------- MODULE ProcessGroup ----------------------------
(* The processes of one Seat's game: SeatProcessGroup of process_group.cpp, *)
(* started by process_launcher.cpp.  Windows tells of births and ends by     *)
(* packets that carry a process id and nothing else, may be late or never    *)
(* come, while the id already belongs to another process.                   *)
EXTENDS Naturals, FiniteSets, FiniteSetsExt

CONSTANTS
  Pid,             \* process ids; the first process has one of them
  MaxBirths,       \* processes created, in the game's tree or out of it
  MaxTracked,      \* kMaximumTrackedSeatProcesses
  MaxPackets       \* packets on their way, of the others none is delivered

(* 0 is no process id (it is the System Idle Process), and there is a largest. *)
ASSUME ProcessAssumption ==
  /\ MaxBirths \in Nat \ {0} /\ MaxTracked \in Nat \ {0} /\ MaxPackets \in Nat
  /\ Pid \subseteq Nat \ {0} /\ \E p \in Pid : \A q \in Pid : q <= p

VARIABLES
  born,            \* how many processes there have been; they are numbered
  os,              \* what each process really is
  packets,         \* what Windows has to tell: births and ends by process id
  opened,          \* the process the worker has opened and not recorded yet
  lookup,          \* what a snapshot in progress still has to look at
  group,           \* the Seat's group
  leaving          \* where stop() is

processVars == <<born, os, packets, opened, lookup, group, leaving>>

Birth == 1..MaxBirths
First == 1
Born == 1..born
Idle == {}

Alive(i) == i \in Born /\ ~os[i].gone
InJob == { i \in Born : os[i].inJob /\ ~os[i].gone }
Contained(mode) == mode # "RootOnly"

(* What is recorded of a process: the id its creator had when it was looked  *)
(* up (0: none found), the creator once it is verified (0: not yet), and when *)
(* it ended.  Creation times are the numbers of the processes.              *)
Record == [parentPid : Pid \cup {0}, parent : 0..MaxBirths, exited : BOOLEAN,
          exitTime : 0..MaxBirths]
FirstEntry == [parentPid |-> 0, parent |-> 0, exited |-> FALSE, exitTime |-> 0]
Tracked(g) == DOMAIN g.entries
Unended(g) == { i \in Tracked(g) : ~g.entries[i].exited }

(* While a handle is open its process id is not given to another process.   *)
Pinned == opened \cup Unended(group)
FreePid(p) == \A i \in Born : os[i].pid = p => os[i].gone /\ i \notin Pinned

-----------------------------------------------------------------------------
(* The operators on the group, each under its mutex.                        *)

(* parentLifetimeContainsLocked()                                           *)
LivedAt(g, parent, child) ==
  /\ parent < child
  /\ g.entries[parent].exited => g.entries[parent].exitTime >= child

Parents(g, child) ==
  { i \in Tracked(g) : os[i].pid = g.entries[child].parentPid /\ LivedAt(g, i, child) }

(* resolveParentIdentitiesLocked(): the one process that had the creator's id *)
(* and was alive when the child was created.                                *)
ResolveParents(g) ==
  [g EXCEPT !.entries = [i \in Tracked(g) |->
     IF i # First /\ g.entries[i].parent = 0 /\ Cardinality(Parents(g, i)) = 1
     THEN [g.entries[i] EXCEPT !.parent = CHOOSE p \in Parents(g, i) : TRUE]
     ELSE g.entries[i]]]

(* isExactDescendantLocked(): along the verified creators.                  *)
Ancestors(g, i) ==
  LET up[n \in 0..MaxBirths] ==
        IF n = 0 THEN {g.entries[i].parent} \ {0}
        ELSE LET below == up[n - 1]
             IN below \cup ({ g.entries[j].parent : j \in below \cap Tracked(g) } \ {0})
  IN up[MaxBirths]

(* The running trusted descendants that have no such descendant above them.  *)
Trusted(g) ==
  { i \in Unended(g) : os[i].trusted /\ g.authority \in Ancestors(g, i) }
Frontier(g) ==
  LET trusted == Trusted(g) IN { i \in trusted : Ancestors(g, i) \cap trusted = {} }

Unverified(g) == [g EXCEPT !.state = "Unverifiable", !.pending = FALSE]

(* One round of the loop of refreshAuthorityLocked(): the authority lives, or *)
(* it is handed to the one trusted process, or waits for one for a while.    *)
Advance(g) ==
  LET settled(state) == [g EXCEPT !.state = state, !.pending = FALSE]
  IN IF ~g.complete THEN Unverified(g)
     ELSE IF ~g.entries[g.authority].exited
     THEN settled(IF g.handoffs = 0 THEN "RootActive" ELSE "DescendantActive")
     ELSE IF g.mode # "Full" THEN settled("UnsupportedContainment")
     ELSE IF ~g.configured \/ Cardinality(Frontier(g)) > 1 THEN Unverified(g)
     ELSE IF Frontier(g) # {}
     THEN [g EXCEPT !.authority = CHOOSE i \in Frontier(g) : TRUE,
             !.handoffs = @ + 1, !.pending = FALSE]
     ELSE IF InJob = {} THEN settled("TreeExited")
     ELSE IF ~g.pending
     THEN [g EXCEPT !.pending = TRUE, !.late = FALSE, !.state = "HandoffPending"]
     ELSE IF ~g.late THEN [g EXCEPT !.state = "HandoffPending"]
     ELSE Unverified(g)

RefreshAuthority(g) ==
  LET round[n \in 0..MaxBirths] ==
        IF n = 0 THEN [last |-> g, next |-> Advance(g)]
        ELSE LET r == round[n - 1]
             IN IF r.next.authority = r.last.authority THEN r
                ELSE [last |-> r.next, next |-> Advance(r.next)]
  IN round[MaxBirths].next

Uncertain(g) == [g EXCEPT !.complete = FALSE, !.state = "Unverifiable"]

CaptureExits(g, gone) ==
  [g EXCEPT !.entries = [i \in Tracked(g) |->
     IF i \in gone THEN [g.entries[i] EXCEPT !.exited = TRUE, !.exitTime = os[i].end]
                   ELSE g.entries[i]]]

(* refreshExitedLocked(): every handle that is signalled.                    *)
RefreshExited(g) ==
  LET gone == { i \in Unended(g) : os[i].gone }
  IN IF gone = {} THEN g ELSE RefreshAuthority(ResolveParents(CaptureExits(g, gone)))

Looked(g) == RefreshAuthority(ResolveParents(RefreshExited(g)))

AddEntry(g, i, parentPid) ==
  IF i \in Tracked(g) THEN g
  ELSE IF Cardinality(Tracked(g)) >= MaxTracked THEN Uncertain(g)
  ELSE RefreshAuthority(ResolveParents(
         [g EXCEPT !.entries = [j \in Tracked(g) \cup {i} |->
            IF j = i THEN [FirstEntry EXCEPT !.parentPid = parentPid]
                     ELSE g.entries[j]]]))

(* waitForEmpty(): by the Job's own count where there is one.               *)
Empty(g) == Unended(g) = {} /\ (Contained(g.mode) => InJob = {})

-----------------------------------------------------------------------------
(* The world: processes begin and end, and packets about it may get lost.    *)
Sent(packet) ==
  packets' = IF Cardinality(packets) < MaxPackets THEN packets \cup {packet} ELSE packets

LiveProcess == [pid : Pid, parent : 0..MaxBirths, inJob : BOOLEAN, trusted : BOOLEAN,
            gone : BOOLEAN, end : 0..MaxBirths]

ProcessGroupInit ==
  \E p \in {Max(Pid)}, mode \in {"Full", "Breakaway", "RootOnly"} :
    /\ born = 1
    /\ os = [i \in Birth |->
         [pid |-> p, parent |-> 0, inJob |-> i = 1 /\ Contained(mode),
          trusted |-> i = 1, gone |-> i # 1, end |-> 0]]
    /\ packets = {} /\ opened = {} /\ lookup = Idle
    /\ group = [mode |-> mode, entries |-> [i \in {First} |-> FirstEntry],
                authority |-> First, handoffs |-> 0, state |-> "RootActive",
                pending |-> FALSE, late |-> FALSE, complete |-> TRUE,
                configured |-> FALSE]
    /\ leaving = "no"

(* Ids not used yet are all alike.                                           *)
PidsToTry ==
  LET used == { os[i].pid : i \in Born }
  IN used \cup { p \in Pid \ used : \A q \in Pid \ used : p <= q }

(* A process of the tree starts another; with breakaway it may leave the Job; *)
(* any other process starts one that happens to get a free id.              *)
BeginProcess(parent, p, trusted, stays) ==
  /\ born < MaxBirths /\ FreePid(p) /\ leaving # "closed"
  /\ IF parent = 0 THEN ~trusted /\ ~stays /\ (\E i \in Born : os[i].pid = p)
                   ELSE Alive(parent)
  /\ group.mode # "Full" => ~trusted
  /\ ~stays => parent = 0 \/ group.mode = "Breakaway"
  /\ LET inJob == parent # 0 /\ os[parent].inJob /\ stays
     IN /\ os' = [os EXCEPT ![born + 1] =
                    [pid |-> p, parent |-> parent, inJob |-> inJob,
                     trusted |-> trusted, gone |-> FALSE, end |-> 0]]
        /\ IF inJob THEN Sent(<<"new", p>>) ELSE UNCHANGED packets
  /\ born' = born + 1
  /\ UNCHANGED <<opened, lookup, group, leaving>>

EndProcess(i) ==
  /\ Alive(i)
  /\ os' = [os EXCEPT ![i].gone = TRUE, ![i].end = born]
  /\ IF os[i].inJob THEN Sent(<<"exit", os[i].pid>>) ELSE UNCHANGED packets
  /\ UNCHANGED <<born, opened, lookup, group, leaving>>

(* The ten seconds a handoff may take are over.                              *)
WindowEnds ==
  /\ group.pending /\ ~group.late
  /\ group' = [group EXCEPT !.late = TRUE]
  /\ UNCHANGED <<born, os, packets, opened, lookup, leaving>>

-----------------------------------------------------------------------------
(* addChild(): OpenProcess and IsProcessInJob, then, by another step, the     *)
(* identity and the record.                                                 *)
CanOpen(i, p) == i \in Born /\ os[i].pid = p /\ (~os[i].gone \/ i \in Pinned)

OpenChild(p) == { i \in Born : CanOpen(i, p) /\ os[i].inJob }

(* addOwnedHandle(): of a process that ended in between the path cannot be    *)
(* read, and the tree is not known any more.  The creator's id comes from a   *)
(* list of all processes, which may not be had.                             *)
RecordChild(i) ==
  \/ os[i].gone /\ group' = Uncertain(group)
  \/ \E parentPid \in {0} \cup { os[j].pid : j \in {os[i].parent} \ {0} } :
       group' = AddEntry(group, i, parentPid)

RecordOpened ==
  /\ \E i \in opened : RecordChild(i)
  /\ opened' = {}
  /\ UNCHANGED <<born, os, packets, lookup, leaving>>

(* completionLoop(): one packet.  Of an end only an entry whose own handle is  *)
(* signalled is meant.                                                      *)
MeantByExit(p) == { i \in Unended(group) : os[i].pid = p /\ os[i].gone }

TakePacket ==
  /\ opened = {} /\ leaving # "closed"
  /\ \E packet \in packets :
       /\ packets' = packets \ {packet}
       /\ \/ packet[1] = "new" /\ opened' = OpenChild(packet[2]) /\ UNCHANGED group
          \/ /\ packet[1] = "exit" /\ UNCHANGED opened
             /\ group' = LET gone == MeantByExit(packet[2])
                         IN IF gone = {} THEN group
                            ELSE RefreshAuthority(ResolveParents(CaptureExits(group, gone)))
  /\ UNCHANGED <<born, os, lookup, leaving>>

(* The Job is empty, or, without a Job, the first process has ended.          *)
NoticeEnd ==
  /\ IF Contained(group.mode) THEN InJob = {} ELSE os[First].gone
  /\ group' = RefreshExited(group) /\ group' # group
  /\ UNCHANGED <<born, os, packets, opened, lookup, leaving>>

(* snapshot(), handoffSnapshot(), ownsExactIdentity() and, with `trust', the  *)
(* configuration of the executables a handoff may go to: the Job's members    *)
(* first, one by one, then a look under the mutex.                          *)
BeginLook(trust) ==
  /\ lookup = Idle /\ leaving = "no"
  /\ trust => ~group.configured /\ group.mode = "Full"
  /\ lookup' = { [look |-> 0, trust |-> trust] }
                 \cup { [look |-> os[i].pid, trust |-> trust] : i \in InJob }
  /\ UNCHANGED <<born, os, packets, opened, group, leaving>>

MembersLeft == { l \in lookup : l.look # 0 }

LookAtMember ==
  /\ \E l \in MembersLeft :
       /\ lookup' = lookup \ {l}
       /\ IF OpenChild(l.look) = {} THEN UNCHANGED group
          ELSE \E i \in OpenChild(l.look) : RecordChild(i)
  /\ UNCHANGED <<born, os, packets, opened, leaving>>

EndLook ==
  /\ lookup # Idle /\ MembersLeft = {}
  /\ \E l \in lookup :
       group' = IF l.trust
                THEN Looked([group EXCEPT !.configured = TRUE, !.pending = FALSE])
                ELSE Looked(group)
  /\ lookup' = Idle
  /\ UNCHANGED <<born, os, packets, opened, leaving>>

(* The list of the Job's members cannot be had, or is too long.              *)
LookFails ==
  /\ MembersLeft # {}
  /\ group' = Uncertain(group)
  /\ lookup' = lookup \ MembersLeft
  /\ UNCHANGED <<born, os, packets, opened, leaving>>

-----------------------------------------------------------------------------
(* stop(): close the windows for a while, then terminate, and look again.    *)

StopGroup ==
  /\ leaving = "no" /\ lookup = Idle
  /\ group' = RefreshExited(group)
  /\ leaving' = IF Empty(group') THEN "empty" ELSE "closing"
  /\ UNCHANGED <<born, os, packets, opened, lookup>>

WaitForEmpty ==
  /\ leaving \in {"closing", "terminated"}
  /\ group' = RefreshExited(group)
  /\ \/ Empty(group') /\ leaving' = "empty"
     \/ ~Empty(group') /\ leaving' = "remains"
  /\ UNCHANGED <<born, os, packets, opened, lookup>>

(* TerminateJobObject(), or TerminateProcess() on the first process.          *)
EndOwned ==
  LET hit == { i \in IF Contained(group.mode) THEN InJob ELSE {First} \cap Unended(group) :
                 ~os[i].gone }
  IN os' = [i \in Birth |-> IF i \in hit THEN [os[i] EXCEPT !.gone = TRUE, !.end = born]
                                            ELSE os[i]]

Terminate ==
  /\ leaving = "closing" /\ EndOwned
  /\ leaving' = "terminated"
  /\ UNCHANGED <<born, packets, opened, lookup, group>>

(* ~Impl(): the worker ends before what is left is terminated.                *)
CloseGroup ==
  /\ leaving \in {"no", "empty", "remains"} /\ lookup = Idle /\ opened = {}
  /\ EndOwned
  /\ leaving' = "closed"
  /\ UNCHANGED <<born, packets, opened, lookup, group>>

ProcessGroupNext ==
  \/ \E p \in PidsToTry, trusted, stays \in BOOLEAN, parent \in 0..MaxBirths :
       BeginProcess(parent, p, trusted, stays)
  \/ \E i \in Birth : EndProcess(i)
  \/ WindowEnds \/ TakePacket \/ NoticeEnd
  \/ RecordOpened
  \/ \E trust \in BOOLEAN : BeginLook(trust)
  \/ LookAtMember \/ EndLook \/ LookFails
  \/ StopGroup \/ WaitForEmpty \/ Terminate \/ CloseGroup

ProcessGroupSpec == ProcessGroupInit /\ [][ProcessGroupNext]_processVars

-----------------------------------------------------------------------------
(* Type invariant of the group and the world around it.                     *)
ProcessTypeOK ==
  /\ born \in Birth /\ os \in [Birth -> LiveProcess]
  /\ Tracked(group) \subseteq Born /\ Cardinality(Tracked(group)) <= MaxTracked
  /\ \A i \in Tracked(group) : group.entries[i] \in Record
  /\ group.authority \in Tracked(group) /\ group.handoffs \in 0..MaxBirths
  /\ opened \subseteq Born

(* What the group records is so: who created a process, and that it ended;    *)
(* it records nothing but the game's own processes.                         *)
RecordsAreTrue ==
  \A i \in Tracked(group) :
    LET e == group.entries[i]
    IN /\ e.exited => os[i].gone
       /\ e.parent # 0 => e.parent = os[i].parent
       /\ i # First => os[i].inJob

(* The game's authority is the process that was started or a trusted one that *)
(* descends from it; it is called active, or the tree ended, only if so.      *)
Descends(i) == LET up[j \in 0..MaxBirths] == j # 0 /\ (j = First \/ up[os[j].parent]) IN up[i]

AuthorityIsOwned ==
  /\ group.authority = First \/ (Descends(group.authority) /\ os[group.authority].trusted)
  /\ group.state = "TreeExited" => InJob = {}
  /\ group.state \in {"RootActive", "DescendantActive"} =>
       /\ ~group.entries[group.authority].exited
       /\ (group.state = "RootActive") = (group.authority = First)
  /\ ~group.complete => group.state = "Unverifiable"

(* stop() says that nothing is left only when nothing is, and nothing is left *)
(* after the group.                                                         *)
StoppedMeansEmpty ==
  leaving \in {"empty", "closed"} => IF Contained(group.mode) THEN InJob = {} ELSE os[First].gone

ProcessTreeIsExact == RecordsAreTrue /\ AuthorityIsOwned /\ StoppedMeansEmpty

(* Authority passes only from a process that has ended to one it created, and *)
(* a tree once lost sight of is not trusted again.                          *)
HandoffsMoveDown ==
  [][group' # group =>
       /\ group'.authority # group.authority =>
            /\ os[group.authority].gone
            /\ group.authority < group'.authority
            /\ group'.handoffs > group.handoffs
       /\ ~group.complete => ~group'.complete /\ group'.authority = group.authority
    ]_processVars

-----------------------------------------------------------------------------
(* The start of a Seat's process (process_launcher.cpp) until its group owns *)
(* it (adoptLaunchedProcess() of process_group.cpp): each call may fail, and  *)
(* who then has to end the suspended process depends on how far it came.     *)

VARIABLES
  startSpec,       \* what is to be started
  startStep,       \* the next call of launch()
  started,         \* the process: none, suspended, running, ended
  holder           \* who holds what of it: the launcher's handle, a Job, a group

startVars == <<startSpec, startStep, started, holder>>

Containment == {"RequireJobObject", "AllowBreakawayChildren", "AllowRootOnlyFallback", "RootOnly"}
StartSpec ==
  [seat : {0, 1}, executable : {"file", "absent", "bad name"},
   directory : {"empty", "directory", "absent"}, argumentsClean : BOOLEAN,
   environment : {"none", "sorted", "bad key"},
   architecture : {"Any", "X86", "X64"}, containment : Containment]

(* What launch() looks at before it creates anything.                        *)
StartAccepted(s) ==
  /\ s.seat # 0 /\ s.executable = "file" /\ s.directory # "absent"
  /\ s.argumentsClean /\ s.environment # "bad key"

ProcessLaunchInit ==
  /\ startSpec \in StartSpec
  /\ startStep = "check" /\ started = "none" /\ holder = {}

Refuse == startStep' = "failed" /\ UNCHANGED <<startSpec, started, holder>>

CheckStart ==
  /\ startStep = "check"
  /\ IF StartAccepted(startSpec)
     THEN startStep' = "create" /\ UNCHANGED <<startSpec, started, holder>>
     ELSE Refuse

CreateSuspended ==
  /\ startStep = "create"
  /\ \/ Refuse
     \/ /\ started' = "suspended" /\ holder' = {"launcher"}
        /\ startStep' = "architecture" /\ UNCHANGED startSpec

(* launch() ends the process by its own handle, as long as it has one: the    *)
(* handles the launcher and the Job hold are closed when they are left.       *)
EndByLauncher ==
  /\ startStep' = "failed" /\ holder' = {} /\ UNCHANGED startSpec
  /\ started' = IF holder # {} THEN "ended" ELSE started

(* matchesArchitecture(): nothing is asked for, or the image is of that kind.  *)
CheckArchitecture ==
  /\ startStep = "architecture"
  /\ \/ EndByLauncher /\ startSpec.architecture # "Any"
     \/ startStep' = "contain" /\ UNCHANGED <<startSpec, started, holder>>

(* The completion port, the Job, its limits, its port and the assignment.     *)
Contain ==
  /\ startStep = "contain"
  /\ \/ EndByLauncher         \* the identity cannot be read
     \/ /\ startSpec.containment # "RootOnly"
        /\ startStep' = "adopt" /\ holder' = holder \cup {"job"}
        /\ UNCHANGED <<startSpec, started>>
     \/ /\ startSpec.containment = "RootOnly"
        /\ startStep' = "duplicate" /\ UNCHANGED <<startSpec, started, holder>>
     \/ /\ startSpec.containment = "AllowRootOnlyFallback"
        /\ startStep' = "duplicate" /\ UNCHANGED <<startSpec, started, holder>>
     \/ /\ startSpec.containment \in {"RequireJobObject", "AllowBreakawayChildren"}
        /\ EndByLauncher

DuplicateHandle ==
  /\ startStep = "duplicate"
  /\ \/ EndByLauncher
     \/ startStep' = "adopt" /\ UNCHANGED <<startSpec, started, holder>>

(* addOwnedHandle(): the handle is the group's from here; if the identity     *)
(* cannot be read again the handle is closed, and the group with its Job.     *)
AdoptRoot ==
  /\ startStep = "adopt" /\ UNCHANGED startSpec
  /\ \/ /\ startStep' = "abandoned" /\ holder' = {}
        /\ started' = IF "job" \in holder THEN "ended" ELSE started
     \/ /\ startStep' = "resume" /\ UNCHANGED started
        /\ holder' = (holder \ {"launcher"}) \cup {"group"}

Abandoned ==
  /\ startStep = "abandoned" /\ EndByLauncher

ResumeRoot ==
  /\ startStep = "resume" /\ UNCHANGED startSpec
  /\ \/ /\ startStep' = "failed" /\ started' = "ended" /\ holder' = {}
     \/ /\ startStep' = "started" /\ started' = "running" /\ UNCHANGED holder

(* The process may end by itself, or another program ends it.                 *)
StartedEnds ==
  /\ started \in {"suspended", "running"}
  /\ started' = "ended" /\ UNCHANGED <<startSpec, startStep, holder>>

ProcessLaunchNext ==
  \/ CheckStart \/ CreateSuspended \/ CheckArchitecture \/ Contain
  \/ DuplicateHandle \/ AdoptRoot \/ Abandoned \/ ResumeRoot \/ StartedEnds

-----------------------------------------------------------------------------
(* Type invariant of a start.                                               *)
ProcessLaunchTypeOK ==
  /\ startSpec \in StartSpec
  /\ startStep \in {"check", "create", "architecture", "contain", "duplicate",
                    "adopt", "abandoned", "resume", "started", "failed"}
  /\ started \in {"none", "suspended", "running", "ended"}
  /\ holder \subseteq {"launcher", "job", "group"}

(* No process runs that no group owns, in the containment that was asked for; *)
(* a start that failed leaves none behind, but for the handle lost when the   *)
(* identity of a process without a Job cannot be read a second time.          *)
NoStartIsLost ==
  /\ started = "running" => "group" \in holder /\ StartAccepted(startSpec)
  /\ started = "running" /\ "job" \notin holder =>
       startSpec.containment \in {"RootOnly", "AllowRootOnlyFallback"}
  /\ startStep = "failed" /\ started = "suspended" =>
       startSpec.containment \in {"RootOnly", "AllowRootOnlyFallback"}
  /\ started = "suspended" => holder # {} \/ startStep \in {"abandoned", "failed"}
=============================================================================

------------------------ MODULE InstanceMaterialization ------------------------
(***************************************************************************)
(* The writable copy of a game's files that one Seat gets: its recipe is   *)
(* executed phase by phase, each phase staged beside the instance and      *)
(* renamed into its place, the instance that was there kept until the last *)
(* phase.  Four deterministic directories, one file operation per step,    *)
(* and a crash between any two or in the middle of one.                    *)
(***************************************************************************)
EXTENDS Integers

CONSTANTS
  Recipe,          \* the compiled recipes of the instance, which are numbers
  FilePhase,       \* the phases 0..3 that have files to write
  MaxMaterialization   \* bound of the model: sessions

ASSUME MaterializationAssumption ==
  Recipe \subseteq Nat \ {0} /\ FilePhase \subseteq 0..3 /\ MaxMaterialization \in Nat \ {0}

VARIABLES
  roots,           \* the directories; durable
  recipe,          \* plan_ of the session
  mpc,             \* the next file operation of the session
  recipePhase,           \* completedPhase_ or, in a call, the phase executed
  recovered, originalExisted, originalBackedUp, reusedCurrent,
  sessions,        \* the sessions so far
  kept,            \* the tree the session found in place, for the properties
  torn,            \* a removal or a manifest was cut off in the middle
  blind            \* a session that had not recovered was rolled back

sessionFlags == <<recovered, originalExisted, originalBackedUp, reusedCurrent, blind>>
materialVars == <<roots, recipe, mpc, recipePhase, sessionFlags, sessions, kept, torn>>

Root == {"staging", "instance", "rollback", "previous"}
RuntimePhase == 3

(* readManifest: without a manifest of this Seat and session a directory   *)
(* is foreign.                                                             *)
Tree(owned, of, last, whole) ==
  [exists |-> TRUE, owned |-> owned, recipe |-> of, recipePhase |-> last, whole |-> whole]
NoTree == [exists |-> FALSE, owned |-> FALSE, recipe |-> 0, recipePhase |-> 0, whole |-> FALSE]
ForeignTree == Tree(FALSE, 0, 0, FALSE)

Complete(tree) == tree.owned /\ tree.whole /\ tree.recipePhase = RuntimePhase

(* inspectInstanceMaterialization *)
StateOf(tree) ==
  IF ~tree.exists THEN "Missing"
  ELSE IF ~tree.owned THEN "Unsafe"
  ELSE IF tree.recipe # recipe THEN "Stale"
  ELSE IF tree.recipePhase < RuntimePhase THEN "Partial" ELSE "Current"

-----------------------------------------------------------------------------
NewSession(r) ==
  /\ recipe' = r /\ mpc' = "idle" /\ recipePhase' = -1
  /\ recovered' = FALSE /\ originalExisted' = FALSE
  /\ originalBackedUp' = FALSE /\ reusedCurrent' = FALSE

MaterialInit ==
  /\ recipe \in Recipe /\ mpc = "idle" /\ recipePhase = -1
  /\ recovered = FALSE /\ originalExisted = FALSE
  /\ originalBackedUp = FALSE /\ reusedCurrent = FALSE
  /\ \E tree \in {NoTree, ForeignTree} \cup {Tree(TRUE, r, RuntimePhase, TRUE) : r \in Recipe} :
       /\ roots = [r \in Root |-> IF r = "instance" THEN tree ELSE NoTree]
       /\ kept = IF tree.owned THEN tree ELSE NoTree
  /\ sessions = 1 /\ torn = FALSE /\ blind = FALSE

(* What is left of a tree whose removal stops in the middle. *)
TornOf(tree) == {[tree EXCEPT !.owned = o, !.whole = FALSE] : o \in BOOLEAN}

Goto(next) == mpc' = next /\ UNCHANGED <<recipe, recipePhase, sessionFlags, sessions>>

(* removeOwnedTree: nothing without its manifest is removed.               *)
RemoveTree(r, next, onError) ==
  /\ UNCHANGED kept
  /\ \/ /\ ~roots[r].exists /\ Goto(next) /\ UNCHANGED <<roots, torn>>
     \/ /\ roots[r].owned /\ Goto(next)
        /\ roots' = [roots EXCEPT ![r] = NoTree] /\ UNCHANGED torn
     \/ /\ roots[r].exists /\ Goto(onError) /\ UNCHANGED <<roots, torn>>
     \/ /\ roots[r].owned /\ Goto(onError) /\ torn' = TRUE
        /\ \E rest \in TornOf(roots[r]) : roots' = [roots EXCEPT ![r] = rest]

(* renameNoReplace *)
RenameTree(from, to, next, onError) ==
  /\ UNCHANGED <<kept, torn>>
  /\ \/ /\ roots[from].exists /\ ~roots[to].exists /\ Goto(next)
        /\ roots' = [roots EXCEPT ![from] = NoTree, ![to] = roots[from]]
     \/ Goto(onError) /\ UNCHANGED roots

At(place) == mpc = place
Decide(next) == Goto(next) /\ UNCHANGED <<roots, kept, torn>>

-----------------------------------------------------------------------------
(* executePhase: the call for the next phase.                              *)
ExecutePhase ==
  /\ At("idle") /\ recipePhase < RuntimePhase
  /\ recipePhase' = recipePhase + 1
  /\ mpc' = IF recovered THEN "phase" ELSE "recover staging"
  /\ UNCHANGED <<roots, recipe, sessionFlags, sessions, kept, torn>>

(* recoverInterruptedMaterialization: what to do with the kept trees.      *)
RecoveryBranch ==
  LET final == roots["instance"] IN
  IF roots["rollback"].exists
  THEN IF ~roots["rollback"].owned \/ (final.exists /\ ~final.owned) THEN "failed"
       ELSE IF StateOf(final) = "Current" THEN "recover rollback"
       ELSE "recover partial"
  ELSE IF roots["previous"].exists
  THEN IF ~roots["previous"].owned \/ (final.exists /\ ~final.owned) THEN "failed"
       ELSE IF final.exists THEN "recover advanced" ELSE "recover previous"
  ELSE "recover inspect"

Recover ==
  \/ At("recover staging") /\ RemoveTree("staging", "recover trees", "failed")
  \/ At("recover trees") /\ Decide(RecoveryBranch)
  \/ At("recover rollback") /\ RemoveTree("rollback", "recover rest", "failed")
  \/ At("recover partial") /\ RemoveTree("instance", "recover restore", "failed")
  \/ At("recover restore") /\ RenameTree("rollback", "instance", "recover rest", "failed")
  \/ At("recover rest") /\ RemoveTree("previous", "recovered", "failed")
  \/ At("recover advanced") /\ RemoveTree("previous", "recover inspect", "failed")
  \/ At("recover previous") /\ RenameTree("previous", "instance", "recover inspect", "failed")
  \/ /\ At("recover inspect")
     /\ Decide(CASE StateOf(roots["instance"]) = "Partial" -> "recover debris"
                 [] StateOf(roots["instance"]) = "Unsafe" -> "failed"
                 [] OTHER -> "recovered")
  \/ At("recover debris") /\ RemoveTree("instance", "recovered", "failed")

(* ensureRecovered: an instance that is current is used as it is.          *)
EnsureRecovered ==
  LET state == StateOf(roots["instance"]) IN
  /\ At("recovered") /\ recovered' = TRUE
  /\ reusedCurrent' = (state = "Current")
  /\ originalExisted' = (state \in {"Current", "Stale"})
  /\ mpc' = IF state \in {"Unsafe", "Partial"} THEN "failed" ELSE "phase"
  /\ kept' = IF Complete(roots["instance"]) THEN roots["instance"] ELSE kept
  /\ UNCHANGED <<roots, recipe, recipePhase, originalBackedUp, blind, sessions, torn>>

-----------------------------------------------------------------------------
(* stageCumulativeFiles: the manifest first, then every file, compared and *)
(* its source seen unchanged; what fails is removed again.                 *)
StageFiles ==
  \/ /\ At("phase")
     /\ Decide(IF ~reusedCurrent /\ recipePhase \in FilePhase THEN "stage" ELSE "phase done")
  \/ At("stage") /\ RemoveTree("staging", "stage create", "reverse")
  \/ /\ At("stage create") /\ UNCHANGED <<kept, torn>>
     /\ \/ Goto("stage manifest") /\ roots' = [roots EXCEPT !["staging"] = ForeignTree]
        \/ Goto("reverse") /\ UNCHANGED roots
  \/ /\ At("stage manifest") /\ UNCHANGED <<kept, torn>>
     /\ \/ Goto("stage copy")
           /\ roots' = [roots EXCEPT !["staging"] = Tree(TRUE, recipe, recipePhase, FALSE)]
        \/ Goto("reverse") /\ roots' \in {roots, [roots EXCEPT !["staging"] = NoTree]}
  \/ /\ At("stage copy") /\ UNCHANGED <<kept, torn>>
     /\ \/ Goto("handoff") /\ roots' = [roots EXCEPT !["staging"].whole = TRUE]
        \/ Goto("stage fails") /\ UNCHANGED roots
  \/ At("stage fails") /\ RemoveTree("staging", "reverse", "reverse")

(* materializeThrough: the first phase moves the instance that was there   *)
(* to the rollback, a later phase moves the phase before aside.            *)
HandOff ==
  LET final == roots["instance"] IN
  \/ At("handoff") /\ (final.exists /\ ~final.owned) /\ Decide("stage fails")
  \/ At("handoff") /\ Decide("stage fails")                   \* the hook's veto
  \/ /\ At("handoff") /\ ~originalBackedUp /\ ~final.exists
     /\ originalExisted' = FALSE /\ originalBackedUp' = TRUE /\ mpc' = "commit"
     /\ UNCHANGED <<roots, recipe, recipePhase, recovered, reusedCurrent, blind, sessions, kept, torn>>
  \/ /\ At("handoff") /\ ~originalBackedUp /\ final.owned
     /\ originalExisted' = TRUE
     /\ \/ /\ ~roots["rollback"].exists
           /\ roots' = [roots EXCEPT !["instance"] = NoTree, !["rollback"] = final]
           /\ originalBackedUp' = TRUE /\ mpc' = "commit"
        \/ mpc' = "stage fails" /\ UNCHANGED <<roots, originalBackedUp>>
     /\ UNCHANGED <<recipe, recipePhase, recovered, reusedCurrent, blind, sessions, kept, torn>>
  \/ /\ At("handoff") /\ originalBackedUp
     /\ \/ final.exists /\ RenameTree("instance", "previous", "commit later", "stage fails")
        \/ ~final.exists /\ Decide("stage fails")

(* The hook's veto or a failed rename: what was moved aside comes back.    *)
CommitPhase ==
  \/ At("commit") /\ RenameTree("staging", "instance", "phase done", "commit fails")
  \/ At("commit later") /\ RenameTree("staging", "instance", "advance", "later fails")
  \/ At("advance") /\ RemoveTree("previous", "phase done", "reverse")
  \/ At("later fails") /\ RenameTree("previous", "instance", "reverse", "reverse")
  \/ /\ At("commit fails") /\ UNCHANGED <<kept, torn>>
     /\ \/ /\ originalExisted /\ ~roots["instance"].exists
           /\ roots' = [roots EXCEPT !["rollback"] = NoTree,
                                     !["instance"] = roots["rollback"]]
           /\ originalBackedUp' = FALSE
        \/ ~originalExisted /\ originalBackedUp' = FALSE /\ UNCHANGED roots
        \/ originalExisted /\ UNCHANGED <<roots, originalBackedUp>>
     /\ mpc' = "reverse"
     /\ UNCHANGED <<recipe, recipePhase, recovered, originalExisted, reusedCurrent, blind, sessions>>

(* The last phase marks the instance complete and lets the old one go.     *)
Finalize ==
  \/ /\ At("phase done")
     /\ Decide(IF recipePhase < RuntimePhase THEN "idle"
               ELSE IF reusedCurrent THEN "finalized"
               ELSE IF roots["instance"].exists THEN "complete" ELSE "reverse")
  \/ /\ At("complete") /\ UNCHANGED kept
     /\ \/ /\ Goto("release") /\ UNCHANGED torn
           /\ roots' = [roots EXCEPT !["instance"].owned = TRUE, !["instance"].recipe = recipe,
                                     !["instance"].recipePhase = RuntimePhase]
        \/ Goto("reverse") /\ UNCHANGED <<roots, torn>>
        \/ /\ Goto("reverse") /\ torn' = TRUE
           /\ roots' = [roots EXCEPT !["instance"].owned = FALSE]
  \/ /\ At("release")
     /\ IF originalBackedUp /\ originalExisted
        THEN RemoveTree("rollback", "finalized", "reverse") ELSE Decide("finalized")

-----------------------------------------------------------------------------
(* reverseApplied: the tree of a phase before, then the one before them    *)
(* all comes back; the trees put back are not looked into.                 *)
ReverseApplied ==
  \/ At("reverse") /\ RemoveTree("staging", "reverse phase", "failed")
  \/ /\ At("reverse phase")
     /\ IF roots["previous"].exists
        THEN RemoveTree("instance", "reverse previous", "failed")
        ELSE Decide("reverse all")
  \/ At("reverse previous") /\ RenameTree("previous", "instance", "reverse all", "failed")
  \/ /\ At("reverse all")
     /\ IF originalBackedUp THEN RemoveTree("instance", "reverse original", "failed")
        ELSE Decide("failed")
  \/ /\ At("reverse original")
     /\ \/ /\ originalExisted /\ roots["rollback"].exists
           /\ roots' = [roots EXCEPT !["rollback"] = NoTree,
                                     !["instance"] = roots["rollback"]]
           /\ originalBackedUp' = FALSE /\ UNCHANGED torn
        \/ originalExisted /\ UNCHANGED <<roots, originalBackedUp, torn>>
        \/ /\ ~originalExisted /\ originalBackedUp' = FALSE /\ UNCHANGED torn
           /\ roots["rollback"].exists => roots["rollback"].owned
           /\ roots' = [roots EXCEPT !["rollback"] = NoTree]
        \/ ~originalExisted /\ UNCHANGED <<roots, originalBackedUp, torn>>
     /\ mpc' = "failed" /\ UNCHANGED <<recipe, recipePhase, recovered, originalExisted,
                                       reusedCurrent, blind, sessions, kept>>

(* rollback: at any time before the last phase is through. *)
Rollback ==
  /\ mpc \in {"idle", "failed"}
  /\ mpc' = IF reusedCurrent THEN "failed" ELSE "reverse"
  /\ mpc' # mpc /\ blind' = (blind \/ ~recovered)
  /\ UNCHANGED <<roots, recipe, recipePhase, recovered, originalExisted, originalBackedUp,
                 reusedCurrent, sessions, kept, torn>>

(* cleanupInstanceMaterialization; the instance is not wanted any more.    *)
Cleanup ==
  \/ /\ mpc \in {"idle", "failed", "finalized"} /\ kept' = NoTree
     /\ Goto("clean staging") /\ UNCHANGED <<roots, torn>>
  \/ At("clean staging") /\ RemoveTree("staging", "clean previous", "cleaned")
  \/ At("clean previous") /\ RemoveTree("previous", "clean instance", "cleaned")
  \/ At("clean instance") /\ RemoveTree("instance", "clean rollback", "cleaned")
  \/ At("clean rollback") /\ RemoveTree("rollback", "cleaned", "cleaned")

RemovedAt(place) ==
  CASE place \in {"recover staging", "stage", "stage fails", "reverse", "clean staging"} -> {"staging"}
    [] place \in {"recover rollback", "release", "clean rollback"} -> {"rollback"}
    [] place \in {"recover rest", "recover advanced", "advance", "clean previous"} -> {"previous"}
    [] place \in {"recover partial", "recover debris", "complete", "reverse all",
                  "clean instance"} -> {"instance"}
    [] OTHER -> {}

(* The session ends here, or its process does, and the next one begins.    *)
NextSession ==
  /\ sessions < MaxMaterialization /\ sessions' = sessions + 1
  /\ (\E r \in Recipe : NewSession(r)) /\ UNCHANGED blind
  /\ \/ UNCHANGED <<roots, torn>>
     \/ \E r \in RemovedAt(mpc) : \E rest \in TornOf(roots[r]) :
          /\ roots[r].owned /\ torn' = TRUE /\ roots' = [roots EXCEPT ![r] = rest]
  /\ kept' = IF ~kept.exists \/ kept \in {roots'["instance"], roots'["rollback"]} THEN kept
             ELSE IF Complete(roots'["instance"]) THEN roots'["instance"] ELSE kept

MaterialNext ==
  \/ ExecutePhase \/ Recover \/ EnsureRecovered \/ StageFiles \/ HandOff \/ CommitPhase
  \/ Finalize \/ ReverseApplied \/ Rollback \/ Cleanup \/ NextSession

MaterialSpec == MaterialInit /\ [][MaterialNext]_materialVars

-----------------------------------------------------------------------------
(* Type invariant of the materialization.                                  *)
MaterialTypeOK ==
  /\ roots \in [Root -> [exists : BOOLEAN, owned : BOOLEAN, recipe : Recipe \cup {0},
                         recipePhase : 0..3, whole : BOOLEAN]]
  /\ recipePhase \in -1..3 /\ sessions \in 1..MaxMaterialization /\ torn \in BOOLEAN

(* The instance a session found is kept whole, in its place or aside,      *)
(* until another one is complete in its place, wherever the session fails, *)
(* is rolled back or crashes; and what is taken for current has all of its *)
(* files.  Excepted are a removal or a manifest cut off in the middle, and  *)
(* the roll-back of a session that has not recovered: it puts the tree of  *)
(* an earlier phase in the place of the instance just restored.            *)
InstanceIsKept ==
  ~torn /\ ~blind =>
    /\ kept.exists => \/ kept \in {roots["instance"], roots["rollback"]}
                      \/ StateOf(roots["instance"]) = "Current"
    /\ StateOf(roots["instance"]) = "Current" => roots["instance"].whole
=============================================================================

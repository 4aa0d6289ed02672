---------------------------- MODULE SessionProfile ----------------------------
(* The documents of Seats, players, games and two-player setups, and a         *)
(* selection of who plays what where (profile_schema.cpp): edited and saved,    *)
(* read from files that may say anything, referring to each other by names      *)
(* that may be gone by then; and the plans compiled from them                  *)
(* (provider_launch_plan.cpp, two_seat_launch.cpp, plan_preflight.cpp), which    *)
(* compare device identities each in its own way.                             *)
EXTENDS Naturals, FiniteSets, Sequences

CONSTANTS
  SeatRecipe,      \* the Seats a document may hold: [active, displays, primary, keyboards]
  ProfilePlayer,   \* names of players
  ProfileGame,     \* names of games
  SetupName,       \* names of two-player setups
  MaxProfileEdit   \* bound on documents saved or read

ASSUME ProfileNames == "none" \notin ProfilePlayer \cup ProfileGame \cup SetupName
ASSUME ProfileBounds == ProfileGame # {} /\ MaxProfileEdit \in Nat

VARIABLES
  documents,       \* [seats, management, players, games, setups]
  choice,          \* the selection: a sequence of bindings
  plans,           \* [provider, twoSeat]: what was compiled last
  profileEdits     \* documents saved or read

profileVars == <<documents, choice, plans, profileEdits>>

ProfileSeat == {1, 2}
NoSeat == [kind |-> "no seat"]
Setup == [game : ProfileGame, compatibility : {"none", "current", "old"}, instances : {2, 3}]
NoSetup2 == [game |-> "none"]
Binding == [seat : 1..2, player : ProfilePlayer, game : ProfileGame,
            setup : SetupName \cup {"none"}, instance : 0..2]

(* An identity is a device and how it is spelled.  equivalentDeviceId() folds  *)
(* the letters' case, and so does the two-Seat compiler; the provider-aware    *)
(* one compares as they are spelled.                                         *)
Folded(ids) == { i.device : i \in ids }
DistinctFolded(ids) == Cardinality(Folded(ids)) = Cardinality(ids)

(* validateDeviceList() and the rest of one Seat.                             *)
ValidSeat(s) ==
  /\ DistinctFolded(s.displays) /\ DistinctFolded(s.keyboards)
  /\ \A p \in s.primary : p.device \in Folded(s.displays)

(* validateSeatConfigDocument() and validateTwoPlayerSetupDocument(); players   *)
(* and games need only have names of their own.                              *)
ValidSeats(seats, management) ==
  /\ \E n \in ProfileSeat : seats[n] # NoSeat
  /\ \A n \in ProfileSeat : seats[n] = NoSeat \/ ValidSeat(seats[n])
  /\ management \in ProfileSeat /\ seats[management] # NoSeat
ValidSetups(setups) == \A n \in SetupName : setups[n] = NoSetup2 \/ setups[n].instances = 2
ValidDocuments(d) == ValidSeats(d.seats, d.management) /\ ValidSetups(d.setups)

(* The local check of a selection on its way to or from a file.               *)
BoundedChoice(c) ==
  /\ Len(c) \in {1, 2}
  /\ Len(c) = 2 => c[1].seat # c[2].seat

(* validateRuntimeSessionSelection(): every name in its document.             *)
References(b, d) ==
  /\ d.seats[b.seat] # NoSeat /\ d.seats[b.seat].active
  /\ b.player \in d.players /\ b.game \in d.games
  /\ IF b.setup = "none" THEN b.instance = 0
     ELSE /\ d.setups[b.setup] # NoSetup2 /\ d.setups[b.setup].game = b.game
          /\ b.instance < d.setups[b.setup].instances
ValidChoice(c, d) ==
  /\ ValidDocuments(d) /\ Len(c) \in {1, 2}
  /\ \A i \in DOMAIN c : References(c[i], d)
  /\ Len(c) = 2 =>
       /\ c[1].seat # c[2].seat /\ c[1].player # c[2].player
       /\ c[1].setup = c[2].setup /\ c[1].setup # "none" => c[1].instance # c[2].instance

NoPlans == [provider |-> "none", twoSeat |-> "none", preflight |-> FALSE]

ProfileInit ==
  /\ \E r \in SeatRecipe :
       documents = [seats |-> [n \in ProfileSeat |->
                                 IF n = 1 THEN CHOOSE q \in SeatRecipe : ValidSeat(q) /\ q.active
                                 ELSE r], management |-> 1,
                    players |-> ProfilePlayer, games |-> ProfileGame,
                    setups |-> [n \in SetupName |->
                      [game |-> CHOOSE g \in ProfileGame : TRUE, compatibility |-> "current",
                       instances |-> 2]]]
  /\ ValidDocuments(documents)
  /\ choice = <<>> /\ plans = NoPlans /\ profileEdits = 0

-----------------------------------------------------------------------------
(* A document is saved or read: validated as a whole, and only what is valid   *)
(* replaces what there was (encodeValidated(), decodeValidated()).             *)
Replace(d) ==
  /\ profileEdits < MaxProfileEdit /\ plans = NoPlans /\ profileEdits' = profileEdits + 1
  /\ documents' = IF ValidDocuments(d) THEN d ELSE documents
  /\ UNCHANGED <<choice, plans>>

SaveSeats ==
  \E n \in ProfileSeat, r \in SeatRecipe \cup {NoSeat}, m \in 0..2 :
    Replace([documents EXCEPT !.seats[n] = r, !.management = m])
SavePlayers == \E players \in SUBSET ProfilePlayer : Replace([documents EXCEPT !.players = players])
SaveGames == \E games \in SUBSET ProfileGame : Replace([documents EXCEPT !.games = games])
SaveSetups ==
  \E n \in SetupName, s \in Setup \cup {NoSetup2} : Replace([documents EXCEPT !.setups[n] = s])

(* makeRuntimeSelection(): both instances of a setup, in the order of Seats,   *)
(* looked up nowhere.                                                        *)
SelectSetup ==
  /\ \E n \in SetupName, first, second \in ProfileSeat, p, q \in ProfilePlayer :
       /\ documents.setups[n] # NoSetup2
       /\ LET b == [seat |-> first, player |-> p, game |-> documents.setups[n].game,
                    setup |-> n, instance |-> 0]
              c == [b EXCEPT !.seat = second, !.player = q, !.instance = 1]
          IN choice' = IF second < first THEN <<c, b>> ELSE <<b, c>>
  /\ plans' = NoPlans /\ UNCHANGED <<documents, profileEdits>>

(* decodeRuntimeSessionSelection(): whatever is bounded is taken, in any order *)
(* (the compilers sort it).                                                  *)
ReadSelection ==
  /\ choice = <<>>
  /\ \/ \E b \in Binding : choice' = <<b>>
     \/ \E b \in Binding, c \in Binding : b.seat = 1 /\ c.instance < 2 /\ choice' = <<b, c>>
  /\ BoundedChoice(choice')
  /\ UNCHANGED <<documents, plans, profileEdits>>

-----------------------------------------------------------------------------
(* preflightExclusiveHardware(): compared as they are spelled.                *)
ExclusiveAsSpelled(d) ==
  d.seats[1].displays \cap d.seats[2].displays = {} /\
  d.seats[1].keyboards \cap d.seats[2].keyboards = {}

(* compileProviderAwareLaunchPlan(), as far as the documents decide it.       *)
SameGame(c) == Len(c) = 2 /\ c[1].game = c[2].game
SetupFits(b, d) ==
  b.setup # "none" => d.setups[b.setup].game = b.game
                      /\ d.setups[b.setup].compatibility \in {"none", "current"}
ProviderPlan(c, d) ==
  IF ~ValidChoice(c, d) THEN "InvalidRuntimeSelection"
  ELSE IF SameGame(c) /\ (c[1].setup = "none" \/ c[1].setup # c[2].setup)
  THEN "MissingTwoPlayerSetup"
  ELSE IF Len(c) = 2 /\ ~SameGame(c) /\ \E i \in 1..2 : c[i].setup # "none"
  THEN "InvalidTwoPlayerSetup"
  ELSE IF Len(c) = 2 /\ ~ExclusiveAsSpelled(d) THEN "DuplicateExclusiveHardware"
  ELSE IF \E i \in DOMAIN c : ~(d.seats[c[i].seat].primary \subseteq d.seats[c[i].seat].displays)
  THEN "MissingDisplay"
  ELSE IF \E i \in DOMAIN c : d.seats[c[i].seat].displays = {} THEN "MissingDisplay"
  ELSE IF \E i \in DOMAIN c : ~SetupFits(c[i], d) THEN "StaleCompatibility" ELSE "plan"

(* compileTwoSeatLaunchPlan(): two active Seats, each with its display and the  *)
(* primary one among them, and nothing shared, compared without case.         *)
TwoSeatPlan(c, d) ==
  IF Len(c) # 2 \/ \E i \in DOMAIN c : d.seats[c[i].seat] = NoSeat THEN "ActiveSeatCount"
  ELSE IF /\ c[1].seat # c[2].seat
          /\ \A i \in 1..2 : LET s == d.seats[c[i].seat]
                             IN /\ s.active /\ s.displays # {} /\ s.primary # {}
                                /\ Folded(s.primary) \subseteq Folded(s.displays)
                                /\ DistinctFolded(s.displays)
          /\ Folded(d.seats[1].displays) \cap Folded(d.seats[2].displays) = {}
          /\ Folded(d.seats[1].keyboards) \cap Folded(d.seats[2].keyboards) = {}
       THEN "plan" ELSE "issues"

(* buildSummary(): nothing starts without a plan, or while a change it needs    *)
(* is not approved.                                                          *)
Compile ==
  /\ choice # <<>> /\ plans = NoPlans
  /\ \E approved \in BOOLEAN :
       LET provider == ProviderPlan(choice, documents)
       IN plans' = [provider |-> provider, twoSeat |-> TwoSeatPlan(choice, documents),
                    preflight |-> provider = "plan" /\ approved,
                    of |-> choice, documents |-> documents]
  /\ UNCHANGED <<documents, choice, profileEdits>>

ProfileNext ==
  SaveSeats \/ SavePlayers \/ SaveGames \/ SaveSetups \/ SelectSetup \/ ReadSelection \/ Compile

-----------------------------------------------------------------------------
(* Type invariant of the documents and the selection.                        *)
ProfileTypeOK ==
  /\ ValidDocuments(documents)
  /\ documents.players \subseteq ProfilePlayer /\ documents.games \subseteq ProfileGame
  /\ choice \in UNION { [1..n -> Binding] : n \in 0..2 }
  /\ profileEdits \in 0..MaxProfileEdit

(* Whatever was saved or removed between choosing and compiling: a plan is     *)
(* for players, Seats and games that are there, two players of one game get     *)
(* different instances of one setup made for it, a setup is never split over    *)
(* two games, no device as it is spelled serves both, and a plan for two Seats  *)
(* shares none however it is spelled.                                        *)
ChoicesResolve ==
  plans.provider = "plan" =>
    LET c == plans.of
        d == plans.documents
    IN /\ \A i \in DOMAIN c :
            /\ d.seats[c[i].seat] # NoSeat /\ d.seats[c[i].seat].active
            /\ c[i].player \in d.players /\ c[i].game \in d.games
            /\ c[i].setup # "none" => d.setups[c[i].setup].game = c[i].game
       /\ Len(c) = 2 =>
            /\ c[1].seat # c[2].seat /\ c[1].player # c[2].player
            /\ c[1].game = c[2].game =>
                 c[1].setup = c[2].setup /\ {c[1].instance, c[2].instance} = {0, 1}
            /\ c[1].game # c[2].game => c[1].setup = "none" /\ c[2].setup = "none"
            /\ d.seats[1].displays \cap d.seats[2].displays = {}
            /\ plans.twoSeat = "plan" =>
                 Folded(d.seats[1].displays) \cap Folded(d.seats[2].displays) = {}

-----------------------------------------------------------------------------
(* The migration of a legacy workspace file to a bundle of such documents:     *)
(* the plan, staging beside the destination, the swap of the two directories,  *)
(* and what is done when a step of it fails.  The process may die at any       *)
(* point and the migration may be tried again.                                *)

CONSTANT Resource       \* devices the legacy workspace assigns

LegacySeat == {1, 2}

(* What the plan reads of the legacy file; management is 0 when it is not  *)
(* declared, and 3 is a Seat that is not configured.                       *)
Legacy == [owners : [Resource -> SUBSET LegacySeat],
           shareable : SUBSET Resource, management : {0, 1, 2, 3},
           wellFormed : BOOLEAN]

(* validateSeatConfigDocument: the management Seat is one of the document. *)
ValidSeatDocument(document) == document.management \in LegacySeat

DefaultManagement(legacy) == IF legacy.management = 0 THEN 1 ELSE legacy.management

SeatDocument(legacy) ==
  [owners |-> legacy.owners, management |-> DefaultManagement(legacy)]

(* Mutant of Plannable: sharing is not looked at.                          *)
PlannableShared(legacy) ==
  legacy.wellFormed /\ ValidSeatDocument(SeatDocument(legacy))

(* planLegacyWorkspaceMigration: the file is well formed, a resource of    *)
(* two Seats is declared shareable, and the documents are valid.           *)
Plannable(legacy) ==
  /\ legacy.wellFormed
  /\ \A r \in Resource : Cardinality(legacy.owners[r]) > 1 => r \in legacy.shareable
  /\ ValidSeatDocument(SeatDocument(legacy))

VARIABLES
  legacyFile,        \* the source
  directory,         \* content of the destination and its two siblings
  migration,         \* the place of the migration
  hadPrevious,       \* previousMoved, once the destination was moved aside
  migrated,          \* the answer of the last migration, "none" without one
  before,            \* ghost: the destination when the migration started
  trusted            \* ghost: there has been a whole bundle to keep

ghosts == <<before, trusted>>
migrationVars == <<legacyFile, directory, migration, hadPrevious, migrated, ghosts>>

Path == {"destination", "staging", "rollback"}

(* A torn directory is incomplete, or holds what does not validate.        *)
Content == {"none", "torn", "old", "new"}

MigrationPlace == {"idle", "write", "validate", "moveAside", "moveIn", "moveBack",
                   "check", "remove", "restore", "cleanup", "discard"}

Migrated == {"none", "Refused", "Failed", "RollbackError", "Success"}

MigrationInit ==
  /\ legacyFile \in Legacy
  /\ directory \in [Path -> Content]
  /\ directory["destination"] \in {"none", "old"}
  /\ directory["staging"] = "none" /\ directory["rollback"] = "none"
  /\ migration = "idle" /\ hadPrevious = FALSE /\ migrated = "none"
  /\ before = "none" /\ trusted = (directory["destination"] = "old")

-----------------------------------------------------------------------------
MigrationAt(place) == migration' = place

MigrationAnswers(answer) == migration' = "idle" /\ migrated' = answer

(* movePath: one rename, done or not done.                                 *)
Renamed(from, to) ==
  directory' = [directory EXCEPT ![to] = directory[from], ![from] = "none"]

(* removeTree: done, or stopped half way.                                  *)
Removed(path) == directory' = [directory EXCEPT ![path] = "none"]
RemovedInPart(path) ==
  directory' = [directory EXCEPT ![path] = IF @ = "none" THEN "none" ELSE "torn"]

StartsFrom(content) ==
  /\ before' = IF content = "new" THEN "old" ELSE content
  /\ trusted' = (trusted \/ content \in {"old", "new"})

(* Mutant of BeginMigration: what an earlier one left is taken over.       *)
BeginMigrationAnyway ==
  /\ migration = "idle" /\ Plannable(legacyFile)
  /\ directory' = [directory EXCEPT !["staging"] = "torn",
       !["destination"] = IF @ = "new" THEN "old" ELSE @]
  /\ MigrationAt("write") /\ UNCHANGED migrated
  /\ StartsFrom(directory["destination"])
  /\ hadPrevious' = FALSE /\ UNCHANGED legacyFile

(* Read, plan, encode; nothing may be left of an earlier migration, and an *)
(* existing bundle is replaced only when that was asked for.  The bundle   *)
(* that an earlier migration committed is now an old one.                  *)
BeginMigration ==
  /\ migration = "idle"
  /\ IF /\ Plannable(legacyFile)
        /\ directory["staging"] = "none" /\ directory["rollback"] = "none"
       THEN \/ /\ directory' = [directory EXCEPT !["staging"] = "torn",
                    !["destination"] = IF @ = "new" THEN "old" ELSE @]
               /\ MigrationAt("write") /\ UNCHANGED migrated
               /\ StartsFrom(directory["destination"])
            \/ MigrationAnswers("Refused") /\ UNCHANGED <<directory, ghosts>>
       ELSE MigrationAnswers("Refused") /\ UNCHANGED <<directory, ghosts>>
  /\ hadPrevious' = FALSE /\ UNCHANGED legacyFile

(* The backup and the five documents, and their validation in place.       *)
WriteStaging ==
  /\ migration = "write"
  /\ \/ /\ \E content \in {"new", "torn"} :
             directory' = [directory EXCEPT !["staging"] = content]
        /\ MigrationAt("validate")
     \/ UNCHANGED directory /\ MigrationAt("cleanup")
  /\ UNCHANGED <<legacyFile, hadPrevious, migrated, ghosts>>

ValidateStaging ==
  /\ migration = "validate"
  /\ \/ directory["staging"] = "new"
        /\ MigrationAt(IF directory["destination"] = "none" THEN "moveIn"
                                                            ELSE "moveAside")
     \/ MigrationAt("cleanup")
  /\ UNCHANGED <<legacyFile, directory, hadPrevious, migrated, ghosts>>

MoveAside ==
  /\ migration = "moveAside"
  /\ \/ Renamed("destination", "rollback") /\ hadPrevious' = TRUE /\ MigrationAt("moveIn")
     \/ UNCHANGED <<directory, hadPrevious>> /\ MigrationAt("cleanup")
  /\ UNCHANGED <<legacyFile, migrated, ghosts>>

MoveIn ==
  /\ migration = "moveIn"
  /\ \/ Renamed("staging", "destination") /\ MigrationAt("check")
     \/ /\ UNCHANGED directory
        /\ MigrationAt(IF hadPrevious THEN "moveBack" ELSE "cleanup")
  /\ UNCHANGED <<legacyFile, hadPrevious, migrated, ghosts>>

(* The previous bundle returns before the staging directory is removed.    *)
MoveBack ==
  /\ migration = "moveBack"
  /\ \/ Renamed("rollback", "destination") /\ MigrationAt("cleanup") /\ UNCHANGED migrated
     \/ UNCHANGED directory /\ MigrationAnswers("RollbackError")
  /\ UNCHANGED <<legacyFile, hadPrevious, ghosts>>

(* failBeforeCommit, and the end of a failed move.                         *)
CleanUpStaging ==
  /\ migration = "cleanup"
  /\ Removed("staging") \/ RemovedInPart("staging")
  /\ MigrationAnswers("Failed")
  /\ UNCHANGED <<legacyFile, hadPrevious, ghosts>>

(* The committed bundle is read again; reading it may fail.                *)
CheckCommitted ==
  /\ migration = "check"
  /\ \/ directory["destination"] = "new" /\ MigrationAt("discard") /\ trusted' = TRUE
     \/ MigrationAt("remove") /\ UNCHANGED trusted
  /\ UNCHANGED <<legacyFile, directory, hadPrevious, migrated, before>>

(* restorePreviousBundle                                                   *)
RemoveCommitted ==
  /\ migration = "remove"
  /\ \/ /\ Removed("destination")
        /\ IF hadPrevious THEN MigrationAt("restore") /\ UNCHANGED migrated
                          ELSE MigrationAnswers("Failed")
     \/ RemovedInPart("destination") /\ MigrationAnswers("RollbackError")
  /\ UNCHANGED <<legacyFile, hadPrevious, ghosts>>

RestorePrevious ==
  /\ migration = "restore"
  /\ \/ Renamed("rollback", "destination") /\ MigrationAnswers("Failed")
     \/ UNCHANGED directory /\ MigrationAnswers("RollbackError")
  /\ UNCHANGED <<legacyFile, hadPrevious, ghosts>>

(* What was moved aside is removed; when that fails it is retained.        *)
DiscardPrevious ==
  /\ migration = "discard"
  /\ \/ Removed("rollback")
     \/ hadPrevious /\ RemovedInPart("rollback")
  /\ MigrationAnswers("Success")
  /\ UNCHANGED <<legacyFile, hadPrevious, ghosts>>

MigratorDies ==
  /\ migration # "idle"
  /\ migration' = "idle" /\ migrated' = "none"
  /\ UNCHANGED <<legacyFile, directory, hadPrevious, ghosts>>

MigrationNext ==
  \/ BeginMigration \/ WriteStaging \/ ValidateStaging \/ MoveAside \/ MoveIn
  \/ MoveBack \/ CleanUpStaging \/ CheckCommitted \/ RemoveCommitted
  \/ RestorePrevious \/ DiscardPrevious \/ MigratorDies

MigrationSpec == MigrationInit /\ [][MigrationNext]_migrationVars

-----------------------------------------------------------------------------
(* Type invariant of the migration.                                        *)
MigrationTypeOK ==
  /\ legacyFile \in Legacy /\ directory \in [Path -> Content]
  /\ migration \in MigrationPlace /\ hadPrevious \in BOOLEAN
  /\ migrated \in Migrated /\ before \in Content /\ trusted \in BOOLEAN

(* A bundle that was there is never lost: after any failure, a death and   *)
(* any number of further attempts included, a whole one exists at the      *)
(* destination or beside it.                                               *)
BundleIsKept ==
  trusted =>
    \E p \in {"destination", "rollback"} : directory[p] \in {"old", "new"}

(* Whoever opens the destination finds a whole bundle or none, unless the  *)
(* removal of a rejected one failed; then the answer was RollbackError, or *)
(* the migrator died over it, and a previous bundle is beside it.          *)
DestinationIsWhole ==
  directory["destination"] = "torn" =>
    migrated # "Success" /\ (before = "old" => directory["rollback"] = "old")

(* The answers: a success has committed the new bundle, a failure that was *)
(* undone has left what there was before.                                  *)
MigrationAnswerIsTrue ==
  migration = "idle" =>
    /\ migrated = "Success" => directory["destination"] = "new"
    /\ migrated = "Failed" =>
         directory["destination"] = before

(* A device of two Seats in a committed bundle was declared shareable.     *)
SharingIsDeclared ==
  directory["destination"] = "new" =>
    \A r \in Resource :
      SeatDocument(legacyFile).owners[r] = LegacySeat => r \in legacyFile.shareable

BundlesSurvive ==
  /\ BundleIsKept /\ DestinationIsWhole
  /\ MigrationAnswerIsTrue /\ SharingIsDeclared
=============================================================================

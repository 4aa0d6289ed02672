---------------------------- MODULE MCComponents ----------------------------
(* Small instances of the components that share no state with a session:   *)
(* `part' is the one that runs, the others stay in one initial state.      *)
EXTENDS RequirementAuthority, InstallerTransaction, StartupPolicy,
        SessionProfile, PortableSetup, InstanceMaterialization,
        RecoveryAttachment, SeatActivation,
        ProcessGroup, SeatAuthority, CompatibilityCheck, CompatibilityShare

(* Instances of the constants of the launch's authority.                   *)
Report(seats, input, controllers, origin) ==
  [seats |-> seats, started |-> TRUE, input |-> input, controllers |-> controllers,
   final |-> "ReturnedToWindows", rollback |-> "verified", origin |-> origin]

(* One Seat with everything, two of which one had no controller, two whose  *)
(* input was lost in part, and two that were not physical.                 *)
MCSessionReports ==
  { Report(1, "exact", {"Success"}, "Physical"),
    Report(2, "exact", {"Success", "NotRequired"}, "Physical"),
    Report(2, "lossy", {"Success"}, "Physical"),
    Report(2, "exact", {"Success"}, "ControlledProcess") }

MCNeedChoices == {{"input", "recovery"}, {"input", "controller"}, {"input", "highRisk"}}

MCSelections ==
  { [seats |-> n, hardware |-> {"input", "controller"}, sharedSetup |-> TRUE,
     distinctInstances |-> TRUE, overlap |-> FALSE] : n \in 1..2 }

(* One launch at a time; a second piece of evidence when nothing else       *)
(* changes, and of a game that is not Protected.                           *)
AuthorityBounds ==
  /\ accepted # Nothing => review = Nothing /\ loaded = Nothing
  /\ Cardinality(library) = 2 => changes = 0 /\ ~(\E e \in library : e.protected)

(* Three packages only without entries, for a history that overflows.      *)
PackageBounds ==
  Len(installs) = 3 => /\ policy.sources = Origin
                       /\ \A i \in 1..3 : installs[i].manifest.entries = {}

(* One installer installs, repairs and removes, the others update.          *)
InstallerBounds ==
  \A c \in Installer :
    IF c = (CHOOSE i \in Installer : TRUE) THEN shown[c] = Absent
    ELSE install[c].place = "idle" \/ install[c].cas

(* A third process only with a Job, and once the tree is lost sight of only   *)
(* while nothing ends it; a fourth only in a game that hands nothing over,    *)
(* for one that got the id of another and had a child.                      *)
ProcessBounds ==
  /\ born >= 3 => /\ group.mode # "RootOnly" /\ leaving # "closed"
                  /\ (group.complete \/ (leaving = "no" /\ opened = {}))
  /\ born >= 4 => /\ group.mode = "Full" /\ ~group.configured /\ leaving = "no"
                  /\ \A i \in 2..4 : os[i].parent # 0 /\ ~os[i].trusted
                  /\ lookup = Idle /\ group.complete /\ ~os[4].gone /\ os[4].inJob

VARIABLE part

componentsVars ==
  <<installerVars, migrationVars, startupVars, attachmentVars, activationVars,
    materialVars, requirementVars, shareVars, authorityVars, processVars,
    startVars, bootstrapVars, portableVars, checkVars, storeVars, communityVars,
    profileVars, part>>

Part == {"installer", "setup", "startup", "migration", "profiles", "exchange",
         "materialization", "attachment", "activation", "processes", "start",
         "authority", "check", "sharing", "decisions", "packages", "authorization"}

(* The order of a plan with the outermost resource and two of the others.  *)
MCPlanOrder == <<"Recovery", "Process", "Window">>

Scan(authoritative, connected, count) ==
  [authoritative |-> authoritative,
   sources  |-> [s \in Slot |-> [connected |-> connected, generation |-> 1]],
   physical |-> [c \in Controller |-> count]]

(* Everything present, everything unplugged, every identity ambiguous, and *)
(* a scan that failed.                                                     *)
MCScanResults ==
  { Scan(TRUE, TRUE, 1), Scan(TRUE, FALSE, 0),
    Scan(TRUE, TRUE, 2), Scan(FALSE, TRUE, 1) }

(* Edits of an instance's working directory and data root, decisions of     *)
(* either origin, and one that is not valid.                                *)
EditOf(folder, root) == [f \in PathField |-> IF f = "DataRoot" THEN root ELSE folder]
MCEditRecipes == { EditOf(NoPath, NoPath), EditOf(Local(1), Local(1)),
                   EditOf(NoPath, Local(2)), EditOf(NoPath, Loose) }
MCDecisions ==
  { [origin |-> "LocalApproved", identity |-> 1, valid |-> TRUE],
    [origin |-> "ImportedCommunity", identity |-> 1, valid |-> TRUE],
    [origin |-> "LocalApproved", identity |-> 1, valid |-> FALSE] }

(* Seats of the same or another display, spelled alike or not.              *)
Id(device, spelling) == [device |-> device, spelling |-> spelling]
SeatWith(active, displays, primary, keyboards) ==
  [active |-> active, displays |-> displays, primary |-> primary, keyboards |-> keyboards]
MCSeatRecipes ==
  { SeatWith(TRUE, {Id(1, "a")}, {Id(1, "a")}, {}), SeatWith(TRUE, {Id(2, "a")}, {Id(2, "A")}, {}),
    SeatWith(TRUE, {Id(1, "A")}, {Id(1, "A")}, {}), SeatWith(FALSE, {Id(3, "a")}, {}, {}),
    SeatWith(TRUE, {Id(2, "a")}, {Id(2, "a")}, {Id(3, "a")}),
    SeatWith(TRUE, {Id(1, "a"), Id(1, "A")}, {}, {}) }

PartsStill ==
  /\ UNCHANGED part
  /\ part # "installer" => UNCHANGED installerVars
  /\ part # "migration" => UNCHANGED migrationVars
  /\ part # "startup" => UNCHANGED startupVars
  /\ part # "attachment" => UNCHANGED attachmentVars
  /\ part # "activation" => UNCHANGED activationVars
  /\ part # "materialization" => UNCHANGED materialVars
  /\ part # "authorization" => UNCHANGED requirementVars
  /\ part # "sharing" => UNCHANGED shareVars
  /\ part # "authority" => UNCHANGED authorityVars
  /\ part # "processes" => UNCHANGED processVars
  /\ part # "start" => UNCHANGED startVars
  /\ part # "setup" => UNCHANGED bootstrapVars
  /\ part # "exchange" => UNCHANGED portableVars
  /\ part # "check" => UNCHANGED checkVars
  /\ part # "decisions" => UNCHANGED storeVars
  /\ part # "packages" => UNCHANGED communityVars
  /\ part # "profiles" => UNCHANGED profileVars

(* The component that runs is in an initial state; the Seats are free and    *)
(* nothing is attached for them; the others have nothing.                   *)
ComponentsInit ==
  /\ part \in Part /\ AuthorityInit /\ AttachmentInit
  /\ IF part = "installer" THEN InstallerInit
     ELSE /\ disk = Nothing /\ journal = Nothing /\ mutex = Nothing
          /\ shown = Nothing /\ approved = Nothing /\ install = Nothing
  /\ IF part = "setup" THEN BootstrapInit
     ELSE /\ package = Nothing /\ machine = Nothing /\ setup = Nothing
          /\ operation = Nothing
  /\ IF part = "startup" THEN StartupInit
     ELSE /\ registration = Nothing /\ changing = Nothing /\ desired = Nothing
          /\ priorConfig = Nothing /\ registered = Nothing /\ logon = Nothing
  /\ IF part = "migration" THEN MigrationInit
     ELSE /\ legacyFile = Nothing /\ directory = Nothing /\ migration = Nothing
          /\ hadPrevious = Nothing /\ migrated = Nothing
          /\ before = Nothing /\ trusted = Nothing
  /\ IF part = "profiles" THEN ProfileInit
     ELSE /\ documents = Nothing /\ choice = Nothing /\ plans = Nothing
          /\ profileEdits = Nothing
  /\ IF part = "exchange" THEN PortableInit
     ELSE /\ editor = Nothing /\ gameRecords = Nothing /\ carried = Nothing
          /\ imported = Nothing
  /\ IF part = "materialization" THEN MaterialInit
     ELSE /\ roots = Nothing /\ recipe = Nothing /\ mpc = Nothing
          /\ recipePhase = Nothing /\ recovered = Nothing
          /\ originalExisted = Nothing /\ originalBackedUp = Nothing
          /\ reusedCurrent = Nothing /\ blind = Nothing /\ sessions = Nothing
          /\ kept = Nothing /\ torn = Nothing
  /\ IF part = "activation" THEN ActivationInit
     ELSE /\ phase = Nothing /\ games = Nothing /\ returnAsked = Nothing
          /\ instance = Nothing /\ activeNow = Nothing /\ filesChanged = Nothing
          /\ command = Nothing
  /\ IF part = "processes" THEN ProcessGroupInit
     ELSE /\ born = Nothing /\ os = Nothing /\ packets = Nothing /\ opened = Nothing
          /\ lookup = Nothing /\ group = Nothing /\ leaving = Nothing
  /\ IF part = "start" THEN ProcessLaunchInit
     ELSE /\ startSpec = Nothing /\ startStep = Nothing /\ started = Nothing
          /\ holder = Nothing
  /\ IF part = "check" THEN CheckInit
     ELSE /\ check = Nothing /\ checkedGame = Nothing /\ cancelled = Nothing
  /\ IF part = "sharing" THEN ShareInit
     ELSE /\ results = Nothing /\ activeResult = Nothing /\ privacy = Nothing
          /\ submission = Nothing /\ localExport = Nothing /\ numbering = Nothing
          /\ heldPreviews = Nothing /\ historyFile = Nothing /\ recorded = Nothing
          /\ agreed = Nothing /\ left = Nothing
  /\ IF part = "decisions" THEN StoreInit
     ELSE /\ decisionFile = Nothing /\ stagingFile = Nothing /\ saver = Nothing
          /\ gameIdentity = Nothing /\ granted = Nothing /\ deaths = Nothing
  /\ IF part = "packages" THEN CommunityInit
     ELSE /\ community = Nothing /\ policy = Nothing /\ installs = Nothing
          /\ packageSteps = Nothing
  /\ IF part = "authorization" THEN RequirementInit
     ELSE /\ game = Nothing /\ provider = Nothing /\ month = Nothing
          /\ build = Nothing /\ library = Nothing /\ approvals = Nothing
          /\ requirements = Nothing /\ review = Nothing /\ loaded = Nothing
          /\ projection = Nothing /\ launchPlan = Nothing /\ accepted = Nothing
          /\ changes = Nothing

ComponentsNext ==
  \/ part = "installer" /\ InstallerNext /\ InstallerBounds' /\ PartsStill
  \/ part = "migration" /\ MigrationNext /\ PartsStill
  \/ part = "startup" /\ StartupNext /\ PartsStill
  \/ part = "attachment" /\ AttachmentNext /\ PartsStill
  \/ part = "activation" /\ ActivationNext /\ PartsStill
  \/ part = "materialization" /\ MaterialNext /\ PartsStill
  \/ part = "authorization" /\ RequirementNext /\ AuthorityBounds' /\ PartsStill
  \/ part = "sharing" /\ ShareNext /\ PartsStill
  \/ part = "authority" /\ AuthorityNext /\ PartsStill
  \/ part = "processes" /\ ProcessGroupNext /\ ProcessBounds' /\ PartsStill
  \/ part = "start" /\ ProcessLaunchNext /\ PartsStill
  \/ part = "setup" /\ BootstrapNext /\ PartsStill
  \/ part = "exchange" /\ PortableNext /\ PartsStill
  \/ part = "check" /\ CheckNext /\ PartsStill
  \/ part = "decisions" /\ StoreNext /\ PartsStill
  \/ part = "packages" /\ CommunityNext /\ PackageBounds' /\ PartsStill
  \/ part = "profiles" /\ ProfileNext /\ PartsStill

ComponentsSpec == ComponentsInit /\ [][ComponentsNext]_componentsVars

(* The type invariants of the components; each is looked at where it runs, *)
(* and that of SeatAuthority by itself.                                    *)
ComponentsTypeOK ==
  CASE part = "installer" -> InstallerTypeOK
    [] part = "migration" -> MigrationTypeOK
    [] part = "startup" -> StartupTypeOK
    [] part = "attachment" -> AttachmentTypeOK
    [] part = "activation" -> ActivationTypeOK
    [] part = "materialization" -> MaterialTypeOK
    [] part = "authorization" -> RequirementTypeOK
    [] part = "sharing" -> ShareTypeOK
    [] part = "authority" -> TRUE
    [] part = "processes" -> ProcessTypeOK
    [] part = "start" -> ProcessLaunchTypeOK
    [] part = "setup" -> BootstrapTypeOK
    [] part = "exchange" -> PortableTypeOK
    [] part = "check" -> CheckTypeOK
    [] part = "decisions" -> StoreTypeOK
    [] part = "packages" -> CommunityTypeOK
    [] part = "profiles" -> ProfileTypeOK

(* What has been set up is whole or known not to be, and is what was asked  *)
(* for: the installation and what the bootstrap did for it, the start-up     *)
(* registration, the migrated profiles, the plans compiled from them, a      *)
(* setup from another machine and the writable copies of a game.             *)
SetupAccountedFor ==
  /\ part = "installer" => InstallationAccountedFor
  /\ part = "setup" => SetupDoesAsConfirmed
  /\ part = "exchange" => PortableSetupIsExact
  /\ part = "profiles" => ChoicesResolve
  /\ part = "migration" => BundlesSurvive
  /\ part = "startup" => RegistrationAccountedFor
  /\ part = "materialization" => InstanceIsKept

(* What is attached for a Seat is attached for it alone, a registration that *)
(* comes late takes nothing back, a Seat whose activation ended is cleaned   *)
(* up, the processes taken for a game's are its own until all have ended, a  *)
(* process that was started has an owner, and a check leaves none behind.    *)
EffectsAreOwned ==
  /\ [](part = "attachment" => AttachmentsDistinct) /\ NoLateRegistration
  /\ [](part = "activation" => SeatsAreCleaned)
  /\ [](part = "processes" => ProcessTreeIsExact) /\ HandoffsMoveDown
  /\ [](part = "start" => NoStartIsLost)
  /\ [](part = "check" => CheckLeavesNothing)

(* Nothing without the approval it needs, as it stands at that moment: a    *)
(* launch plan is accepted for evidence on this machine that is current, of *)
(* the results only what the user agreed to leaves the machine, a decision  *)
(* is what a user saved, and a package in use was trusted when it came.     *)
ApprovalsAreExact ==
  /\ AcceptedPlansAuthorized /\ EvidenceStaysBound
  /\ LeavesAsAgreed /\ [](part = "sharing" => SharingIsConsented)
  /\ [](part = "decisions" => DecisionsAreExact) /\ [](part = "packages" => PackagesAreTrusted)
=============================================================================

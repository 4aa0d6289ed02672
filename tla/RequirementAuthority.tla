------------------------ MODULE RequirementAuthority ------------------------
(* What authorises the launch of a game: a session's metrics report becomes *)
(* local evidence, a reviewed piece of evidence is published as the runtime *)
(* requirement of the game, the launcher resolves it and compiles a plan,   *)
(* and the plan is checked once more against a fresh resolution before it   *)
(* is used.  The game is updated, the provider refreshed, HydraSeat         *)
(* upgraded and the store replaced between any two of these steps.          *)
EXTENDS Naturals, FiniteSets

CONSTANTS
  SessionReport,     \* the reports sessions of this game may end with
  NeedChoice,        \* the sets of needs a reviewer may ask for
  LaunchSelection,         \* the selections a user may launch
  StaleAfterMonths,  \* the freshness horizon
  MaxEvidence, MaxChange, MaxPublish   \* bounds of the instance

(* The bounds are numbers; a report says of each thing it measured what the  *)
(* code's enumerations allow, and a plan is for one or two Seats.            *)
ASSUME RequirementAssumption ==
  /\ {MaxEvidence, MaxChange, MaxPublish, StaleAfterMonths} \subseteq Nat
  /\ \A r \in SessionReport :
       /\ r.input \in {"crossed", "lossy", "exact"}
       /\ r.final \in {"ReturnedToWindows", "RecoveryRequired", "Running"}
       /\ r.rollback \in {"verified", "failed", "none"}
  /\ \A s \in LaunchSelection : s.seats \in 1..2

VARIABLES
  game,         \* the catalogue's entry: version string, executable hash
  provider,     \* the provider's descriptor
  month, build, \* the month and HydraSeat's build
  library,      \* the local compatibility evidence
  approvals,    \* the approvals of Protected launches
  requirements, \* the stored requirement of the game
  review,       \* what a reviewer looks at
  loaded,       \* a document read for a resolution that is not finished
  projection,   \* the requirement the launcher holds
  launchPlan,   \* the compiled plan
  accepted,     \* the plan that passed the last check
  changes       \* how often the world changed

requirementVars ==
  <<game, provider, month, build, library, approvals, requirements, review,
    loaded, projection, launchPlan, accepted, changes>>

worldVars == <<game, provider, month, build, approvals>>

NoRecord == [stored |-> "missing"]
CorruptStore == [stored |-> "corrupt"]
Nothing == [held |-> "nothing"]

-----------------------------------------------------------------------------
(* A session's verdicts.                                                   *)

IsolationVerdict(r) ==
  [crossed |-> "Fail", lossy |-> "InsufficientEvidence", exact |-> "Pass"][r.input]

SeatFailed(r) == "Failed" \in r.controllers
SeatComplete(r) == r.started /\ r.controllers \subseteq {"Success", "NotRequired"}

SessionVerdict(r) ==
  IF \/ IsolationVerdict(r) = "Fail"
     \/ r.final = "RecoveryRequired"
     \/ r.rollback = "failed"
     \/ r.final = "ReturnedToWindows" /\ r.rollback # "verified"
     \/ SeatFailed(r)
  THEN "Fail"
  ELSE IF IsolationVerdict(r) = "Pass" /\ SeatComplete(r)
  THEN "Pass" ELSE "InsufficientEvidence"

PhysicalEligible(r) == r.origin = "Physical" /\ SessionVerdict(r) = "Pass"

(* The compatibility result a report is projected to.                      *)
Status(r, what) ==
  CASE what = "launch" -> IF r.started THEN "Pass" ELSE "Fail"
    [] what = "input" -> IF IsolationVerdict(r) = "InsufficientEvidence"
                         THEN "NotMeasured" ELSE IsolationVerdict(r)
    [] what = "controller" -> IF "Failed" \in r.controllers THEN "Fail"
                              ELSE IF "Success" \in r.controllers THEN "Pass"
                              ELSE "NotMeasured"
    [] what = "cleanExit" ->
         [ReturnedToWindows |-> "Pass", RecoveryRequired |-> "Fail",
          Running |-> "NotMeasured"][r.final]
    [] what = "rollback" ->
         [verified |-> "Pass", failed |-> "Fail", none |-> "NotMeasured"][r.rollback]

(* The capabilities a review may claim.                                    *)
DerivedCapabilities(r, descriptor) ==
  IF ~descriptor.launches \/ Status(r, "launch") # "Pass" THEN {}
  ELSE {"process"}
       \cup { c \in {"input", "controller"} :
                Status(r, c) = "Pass" /\ (c = "controller" => r.controllers = {"Success"}) }
       \cup { c \in {"recovery"} :
                Status(r, "cleanExit") = "Pass" /\ Status(r, "rollback") = "Pass" }

CapabilitiesCover(record) ==
  "process" \in record.capabilities
  /\ record.needs \ {"highRisk"} \subseteq record.capabilities

ResultCoversRequirements(record, e) ==
  /\ Status(e.report, "launch") = "Pass"
  /\ \A c \in {"input", "controller"} \cap record.needs : Status(e.report, c) = "Pass"
  /\ "recovery" \in record.needs =>
       Status(e.report, "cleanExit") = "Pass" /\ Status(e.report, "rollback") = "Pass"
  /\ ("highRisk" \in record.needs) <=> e.protected

-----------------------------------------------------------------------------
(* The resolver.                                                           *)

OriginAllowed(trust, origin) ==
  IF trust = "PhysicalOnly" THEN origin = "Physical"
  ELSE origin \in {"Physical", "ControlledProcess"}

ApprovalMatches(a, record) ==
  /\ a.revision = record.revision
  /\ a.metadataRevision = record.metadataRevision
  /\ a.evidenceId = record.evidenceId

(* Why a stored record does not authorise the game now.                    *)
Blocked(record, entry, descriptor, evidence, approved, context) ==
  LET found == { e \in evidence : e.id = record.evidenceId }
      e == CHOOSE x \in found : TRUE
      Reason(code, holds) == IF holds THEN {code} ELSE {}
  IN Reason("StaleCatalogGame", ~entry.current)
     \cup Reason("GameIdentityMismatch",
                 record.version # entry.version \/ record.exe # entry.exe)
     \cup Reason("ProviderUnavailable", ~descriptor.available)
     \cup Reason("StaleProviderRevision", descriptor.revision # record.metadataRevision)
     \cup IF found = {} THEN {"MissingLocalEvidence"} ELSE
          Reason("UntrustedLocalEvidenceOrigin",
                 ~OriginAllowed(context.trust, e.report.origin))
          \cup Reason("EvidenceEnvironmentMismatch",
                      e.version # record.version \/ e.build # context.build)
          \cup Reason("FutureOrStaleLocalEvidence",
                      e.month > context.month \/ context.month - e.month > context.horizon)
          \cup Reason("InsufficientCapabilityEvidence",
                      ~CapabilitiesCover(record) \/ ~ResultCoversRequirements(record, e))
          \cup Reason("ProtectedApprovalRequired",
                      /\ "highRisk" \in record.needs
                      /\ Cardinality({ a \in approved : ApprovalMatches(a, record) }) # 1)

ProductionContext ==
  [month |-> month, horizon |-> StaleAfterMonths, build |-> build, trust |-> "PhysicalOnly"]

RequirementResolves(record) ==
  Blocked(record, game, provider, library, approvals, ProductionContext) = {}

(* What the launcher gets to know of a trusted record.                     *)
Requirement(record) ==
  [revision |-> record.revision, seats |-> record.seats, needs |-> record.needs,
   capabilities |-> record.capabilities,
   approved |-> "highRisk" \in record.needs]

-----------------------------------------------------------------------------
RequirementInit ==
  /\ game = [version |-> 1, exe |-> 1, current |-> TRUE]
  /\ provider = [revision |-> 1, available |-> TRUE, launches |-> TRUE]
  /\ month = 1 /\ build = 1
  /\ library = {} /\ approvals = {}
  /\ requirements \in {NoRecord, CorruptStore}
  /\ review = Nothing /\ loaded = Nothing /\ projection = Nothing
  /\ launchPlan = Nothing /\ accepted = Nothing
  /\ changes = 0

Change == changes < MaxChange /\ changes' = changes + 1

(* The game is updated: another executable, with or without another version *)
(* string.                                                                 *)
UpdateGame ==
  /\ Change /\ game.exe < 2
  /\ \E v \in {game.version, game.version + 1} :
       game' = [game EXCEPT !.exe = 2, !.version = v]
  /\ UNCHANGED <<provider, month, build, library, approvals, requirements, review,
                 loaded, projection, launchPlan, accepted>>

(* The catalogue's entry goes stale or is reconciled.                      *)
ReconcileCatalog ==
  /\ Change /\ game' = [game EXCEPT !.current = ~@]
  /\ UNCHANGED <<provider, month, build, library, approvals, requirements, review,
                 loaded, projection, launchPlan, accepted>>

(* The provider's metadata is read again, or it goes off line.             *)
RefreshProvider ==
  /\ Change
  /\ \E up \in BOOLEAN :
       provider' = [provider EXCEPT !.available = up,
                                    !.revision = IF up THEN @ + 1 ELSE @]
  /\ UNCHANGED <<game, month, build, library, approvals, requirements, review,
                 loaded, projection, launchPlan, accepted>>

Upgrade ==
  /\ Change /\ build' = build + 1
  /\ UNCHANGED <<game, provider, month, library, approvals, requirements, review,
                 loaded, projection, launchPlan, accepted>>

MonthPasses ==
  /\ Change /\ month' = month + 1
  /\ UNCHANGED <<game, provider, build, library, approvals, requirements, review,
                 loaded, projection, launchPlan, accepted>>

(* The user approves the Protected launch of the record that is stored.    *)
Approve ==
  /\ Change /\ requirements \notin {NoRecord, CorruptStore}
  /\ approvals' = approvals \cup
       {[revision |-> requirements.revision,
         metadataRevision |-> requirements.metadataRevision,
         evidenceId |-> requirements.evidenceId]}
  /\ UNCHANGED <<game, provider, month, build, library, requirements, review,
                 loaded, projection, launchPlan, accepted>>

(* GameRuntimeRequirementStore::remove                                     *)
RemoveRequirements ==
  /\ Change /\ requirements # NoRecord /\ requirements' = NoRecord
  /\ UNCHANGED <<worldVars, library, review, loaded, projection, launchPlan, accepted>>

(* A finished session is written to the local history; a synthetic or a     *)
(* running one is not.                                                     *)
RecordEvidence(r, protected) ==
  /\ Cardinality(library) < MaxEvidence
  /\ r.origin # "Synthetic" /\ r.final # "Running"
  /\ library' = library \cup
       {[id |-> Cardinality(library) + 1, version |-> game.version, build |-> build,
         month |-> month, protected |-> protected, report |-> r]}
  /\ UNCHANGED <<worldVars, requirements, review, loaded, projection, launchPlan,
                 accepted, changes>>

(* A reviewer opens a piece of evidence with the entry and the descriptor   *)
(* of the moment.                                                          *)
OpenReview(e, needs) ==
  /\ review = Nothing
  /\ review' = [game |-> game, provider |-> provider, evidence |-> e, needs |-> needs]
  /\ UNCHANGED <<worldVars, library, requirements, loaded, projection, launchPlan,
                 accepted, changes>>

(* The review's subject.                                                   *)
ValidReview ==
  LET e == review.evidence IN
  /\ e.report.origin = "Physical" => PhysicalEligible(e.report)
  /\ review.game.current /\ review.provider.available
  /\ e.version = review.game.version

Rebinds(previous, record) ==
  /\ previous.evidenceId = record.evidenceId
  /\ \/ previous.version # record.version
     \/ previous.exe # record.exe
     \/ previous.metadataRevision # record.metadataRevision

ReviewedRecord(revision) ==
  [stored |-> "record", revision |-> revision,
   version |-> review.game.version, exe |-> review.game.exe,
   metadataRevision |-> review.provider.revision,
   evidenceId |-> review.evidence.id, seats |-> review.evidence.report.seats,
   needs |-> review.needs,
   capabilities |-> DerivedCapabilities(review.evidence.report, review.provider)]

(* The candidate must resolve, in the context of the evidence itself, to    *)
(* one authority, or be held back by nothing but the approval it needs.    *)
CandidateResolves(record) ==
  LET e == review.evidence IN
  Blocked(record, review.game, review.provider, {e}, {},
          [month |-> e.month, horizon |-> 0, build |-> e.build,
           trust |-> IF e.report.origin = "Physical" THEN "PhysicalOnly"
                     ELSE "ControlledOrPhysical"])
    = (IF "highRisk" \in record.needs THEN {"ProtectedApprovalRequired"} ELSE {})

(* publishRuntimeRequirementAuthority; the store is replaced atomically or  *)
(* not at all.                                                             *)
PublishRequirement(saved) ==
  /\ review # Nothing
  /\ review' = Nothing
  /\ LET previous == requirements
         record == ReviewedRecord(IF previous = NoRecord THEN 1 ELSE previous.revision + 1)
     IN IF /\ ValidReview
           /\ previous # CorruptStore
           /\ previous # NoRecord => ~Rebinds(previous, record)
           /\ CandidateResolves(record)
           /\ saved
        THEN record.revision <= MaxPublish /\ requirements' = record
        ELSE UNCHANGED requirements
  /\ UNCHANGED <<worldVars, library, loaded, projection, launchPlan, accepted, changes>>

(* resolveCurrent reads the store, then captures catalogue, providers,      *)
(* evidence and context: for the launcher, or for the check of a plan.     *)
LoadRequirements(reader) ==
  /\ loaded = Nothing
  /\ requirements \notin {NoRecord, CorruptStore}
  /\ reader = "check" => launchPlan # Nothing
  /\ loaded' = [reader |-> reader, record |-> requirements]
  /\ UNCHANGED <<worldVars, library, requirements, review, projection, launchPlan,
                 accepted, changes>>

ResolveForLauncher ==
  /\ loaded # Nothing /\ loaded.reader = "launcher"
  /\ projection' = IF RequirementResolves(loaded.record) THEN Requirement(loaded.record) ELSE Nothing
  /\ loaded' = Nothing
  /\ UNCHANGED <<worldVars, library, requirements, review, launchPlan, accepted, changes>>

(* compileProviderAwareLaunchPlan                                          *)
SelectionIsSound(s) ==
  /\ s.seats = 2 => s.sharedSetup /\ s.distinctInstances
  /\ ~s.overlap

PreflightSeat(s, r) ==
  /\ {"input", "controller"} \cap r.needs \subseteq s.hardware
  /\ "process" \in r.capabilities
  /\ r.needs \ {"highRisk"} \subseteq r.capabilities
  /\ "highRisk" \in r.needs => r.approved

OperationPreflight(descriptor, supported) ==
  descriptor.available /\ supported

(* An adapter may answer from metadata that is not the one described.      *)
LaunchRequestValid(descriptor, expected, answered) ==
  /\ OperationPreflight(descriptor, descriptor.launches)
  /\ descriptor.revision = expected /\ answered = expected

CompilePlan(s, answered) ==
  /\ projection # Nothing /\ accepted = Nothing
  /\ SelectionIsSound(s)
  /\ s.seats <= projection.seats
  /\ PreflightSeat(s, projection)
  /\ LaunchRequestValid(provider, provider.revision, answered)
  /\ launchPlan' = [seats |-> s.seats, requirement |-> projection,
                    metadataRevision |-> answered]
  /\ UNCHANGED <<worldVars, library, requirements, review, loaded, projection,
                 accepted, changes>>

(* Mutant: the requirement in the plan is not compared again.              *)
PlanMatchesProvider(p, record) ==
  p.metadataRevision = record.metadataRevision /\ p.seats <= record.seats

(* validateProviderAwareLaunchPlanAgainstTrustedRequirements, against what  *)
(* was resolved just before.                                               *)
PlanMatches(p, record) ==
  /\ p.metadataRevision = record.metadataRevision
  /\ p.seats <= record.seats
  /\ p.requirement.revision = record.revision
  /\ p.requirement.needs = record.needs
  /\ p.requirement.capabilities = record.capabilities

CheckPlan ==
  /\ loaded # Nothing /\ loaded.reader = "check"
  /\ accepted' = IF RequirementResolves(loaded.record) /\ PlanMatches(launchPlan, loaded.record)
                 THEN launchPlan ELSE Nothing
  /\ launchPlan' = Nothing
  /\ loaded' = Nothing
  /\ UNCHANGED <<worldVars, library, requirements, review, projection, changes>>

(* The session that used the plan is over.                                 *)
FinishLaunch ==
  /\ accepted # Nothing /\ accepted' = Nothing
  /\ UNCHANGED <<worldVars, library, requirements, review, loaded, projection,
                 launchPlan, changes>>

RequirementNext ==
  \/ UpdateGame \/ ReconcileCatalog \/ RefreshProvider \/ Upgrade \/ MonthPasses
  \/ Approve \/ RemoveRequirements
  \/ \E r \in SessionReport, protected \in BOOLEAN : RecordEvidence(r, protected)
  \/ \E e \in library, needs \in NeedChoice : OpenReview(e, needs)
  \/ \E saved \in BOOLEAN : PublishRequirement(saved)
  \/ \E reader \in {"launcher", "check"} : LoadRequirements(reader)
  \/ ResolveForLauncher
  \/ \E s \in LaunchSelection, answered \in 1..provider.revision : CompilePlan(s, answered)
  \/ CheckPlan
  \/ FinishLaunch

-----------------------------------------------------------------------------
RequirementTypeOK ==
  /\ game \in [version : 1..2, exe : 1..2, current : BOOLEAN]
  /\ provider.revision \in 1..(MaxChange + 1) /\ provider.available \in BOOLEAN
  /\ month \in 1..(MaxChange + 1) /\ build \in 1..(MaxChange + 1)
  /\ \A e \in library : e.id \in 1..MaxEvidence /\ e.report \in SessionReport
  /\ \/ requirements \in {NoRecord, CorruptStore}
     \/ requirements.revision \in 1..MaxPublish
  /\ accepted = Nothing \/ accepted.seats \in 1..2

(* A plan is accepted only when evidence on this machine, of this version   *)
(* of the game, this build of HydraSeat and a month that is recent enough,  *)
(* shows at least as many Seats physically doing all the plan needs, the    *)
(* executable and the provider's data are those reviewed, and a Protected   *)
(* game was approved with exactly that evidence.                           *)
PlanIsAuthorized(p, record) ==
  \E e \in library :
    /\ e.id = record.evidenceId
    /\ e.report.origin = "Physical" /\ e.version = game.version /\ e.build = build
    /\ e.month \in (month - StaleAfterMonths)..month
    /\ record.exe = game.exe /\ p.metadataRevision = provider.revision
    /\ p.seats <= e.report.seats
    /\ e.report.started
    /\ "input" \in p.requirement.needs => e.report.input = "exact"
    /\ "controller" \in p.requirement.needs => e.report.controllers = {"Success"}
    /\ "recovery" \in p.requirement.needs =>
         e.report.final = "ReturnedToWindows" /\ e.report.rollback = "verified"
    /\ e.protected =>
         \E a \in approvals :
           a.evidenceId = e.id /\ a.metadataRevision = provider.revision

AcceptedPlansAuthorized ==
  [][accepted' # Nothing => accepted = accepted' \/ PlanIsAuthorized(accepted', loaded.record)]_requirementVars

(* A stored record is replaced by a later one, and evidence that has been   *)
(* bound to an executable and a provider revision is not bound to others.  *)
EvidenceStaysBound ==
  [][(requirements' # requirements /\ requirements # NoRecord /\ requirements' # NoRecord)
      => /\ requirements'.revision > requirements.revision
         /\ requirements'.evidenceId = requirements.evidenceId =>
              requirements'.exe = requirements.exe]_requirementVars
=============================================================================

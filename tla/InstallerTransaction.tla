------------------------ MODULE InstallerTransaction ------------------------
(***************************************************************************)
(* Installing, repairing, updating and removing HydraSeat: the transaction *)
(* over the installed state, and the update that is approved on a preview. *)
(*                                                                         *)
(* The executor is external.  Of it is assumed what its header demands:    *)
(* one transaction holds the mutation lock from capture to destruction; a  *)
(* journal is open from the capture until finish() succeeds; stage()       *)
(* publishes nothing; verify() and verifyRollback() tell the truth when    *)
(* they say yes.  commit() and rollback() may fail half way, and may claim *)
(* more than they did.                                                     *)
(*                                                                         *)
(* The setup window that starts it (installer_bootstrap.cpp) is at the end.*)
(***************************************************************************)
EXTENDS Naturals

CONSTANTS
  Installer,         \* processes that call the transaction
  MaxRevision        \* bound of the model: revisions released

ASSUME InstallerAssumption == MaxRevision \in Nat \ {0}

Mode == {"manual", "background"}

(* Two genuine builds of every revision, and one that was tampered with.   *)
Package == [revision : 1..MaxRevision, build : {"a", "b", "tampered"}]

(* validatePackageInternal: schema, the seven components of the contract,  *)
(* their manifests, and trust in what was observed of each.                *)
ValidPackage(package) == package.build # "tampered"

(* stateFromPackage                                                        *)
StateFrom(package, mode) ==
  [revision |-> package.revision, build |-> package.build, mode |-> mode]

(* validInstalledState                                                     *)
Installed == {StateFrom(package, mode) :
                package \in {p \in Package : ValidPackage(p)}, mode \in Mode}
Absent  == [revision |-> 0, build |-> "absent", mode |-> "manual"]
Partial == [revision |-> 0, build |-> "partial", mode |-> "manual"]

NoPackage == [revision |-> 0, build |-> "none"]

VARIABLES
  disk,              \* the installed state: whole, Absent or Partial
  journal,           \* the executor's journal is unresolved
  mutex,             \* who holds the mutation lock
  shown,             \* installed state each installer previewed an update of
  approved,          \* the package its user approved: the approval identity
  install            \* the call of each installer, see InstallCall

installerVars == <<disk, journal, mutex, shown, approved, install>>

Action == {"Install", "Repair", "Uninstall"}

Receipt == {"none", "Rejected", "Applied", "RolledBack", "RecoveryRequired"}

InstallCall ==
  [place : {"idle", "check", "stage", "commit", "verify", "finish", "rollback",
            "verifyRollback", "finishRollback", "done"},
   action : Action, package : Package \cup {NoPackage}, mode : Mode,
   cas : BOOLEAN, previous : Installed \cup {Absent}, receipt : Receipt]

NoInstall == [place |-> "idle", action |-> "Install", package |-> NoPackage,
              mode |-> "manual", cas |-> FALSE, previous |-> Absent,
              receipt |-> "none"]

InstallerInit ==
  /\ disk \in {Absent, StateFrom([revision |-> 1, build |-> "a"], "manual")}
  /\ journal = FALSE /\ mutex = {}
  /\ shown = [c \in Installer |-> Absent]
  /\ approved = [c \in Installer |-> NoPackage]
  /\ install = [c \in Installer |-> NoInstall]

(* The state the call of c has to arrive at.                               *)
Expected(c) == IF install[c].action = "Uninstall" THEN Absent
               ELSE StateFrom(install[c].package, install[c].mode)

-----------------------------------------------------------------------------
(* beginMutation and the capture under its lock; a state outside of the    *)
(* contract is not worked on, and the transaction aborted.                 *)
Begin(c, action, package, mode, cas) ==
  /\ install[c].place = "idle" /\ mutex = {} /\ ~journal
  /\ disk \in Installed \cup {Absent}
  /\ mutex' = {c} /\ journal' = TRUE
  /\ install' = [install EXCEPT ![c] =
       [place |-> "check", action |-> action, package |-> package, mode |-> mode,
        cas |-> cas, previous |-> disk, receipt |-> "none"]]
  /\ UNCHANGED <<disk, shown, approved>>

(* A call that gets past the checks of the environment and of its package. *)
StartInstall(c) ==
  \E action \in Action, package \in Package \cup {NoPackage}, mode \in Mode :
    /\ (action = "Uninstall") <=> (package = NoPackage)
    /\ action # "Uninstall" => ValidPackage(package)
    /\ Begin(c, action, package, mode, FALSE)

(* Upgrades go up in revision, rollbacks down.                             *)
IsUpdateOf(package, current) ==
  ValidPackage(package) /\ package.revision # current.revision

(* The preview reads the installed state; the user looks at it for as long *)
(* as they like and approves exactly the package shown.                    *)
PreviewUpdate(c) ==
  /\ install[c].place = "idle" /\ disk \in Installed
  /\ \E package \in Package :
       /\ IsUpdateOf(package, disk)
       /\ shown' = [shown EXCEPT ![c] = disk]
       /\ approved' = [approved EXCEPT ![c] = package]
  /\ UNCHANGED <<disk, journal, mutex, install>>

(* The offer may have been replaced since; the startup mode may not.       *)
ApplyUpdate(c) ==
  /\ shown[c] # Absent
  /\ \E package \in Package :
       /\ IsUpdateOf(package, shown[c]) /\ package = approved[c]
       /\ Begin(c, "Repair", package, shown[c].mode, TRUE)

-----------------------------------------------------------------------------
GoesTo(c, place) == install' = [install EXCEPT ![c].place = place]

Answers(c, receipt) ==
  install' = [install EXCEPT ![c].place = "done", ![c].receipt = receipt]

(* abortWithoutMutation                                                    *)
AbortWithoutMutation(c) ==
  \/ journal' = FALSE /\ Answers(c, "Rejected")
  \/ UNCHANGED journal /\ Answers(c, "RecoveryRequired")

(* Mutant of CheckPrevious: an update goes by what was previewed.          *)
CheckPreviousUncompared(c) ==
  LET call == install[c] IN
  /\ call.place = "check"
  /\ IF (call.action = "Install") # (call.previous = Absent)
       THEN AbortWithoutMutation(c)
       ELSE GoesTo(c, "stage") /\ UNCHANGED journal
  /\ UNCHANGED <<disk, mutex, shown, approved>>

(* The comparison with the expected state, and whether there is one.       *)
CheckPrevious(c) ==
  LET call == install[c] IN
  /\ call.place = "check"
  /\ IF \/ call.cas /\ call.previous # shown[c]
        \/ (call.action = "Install") # (call.previous = Absent)
       THEN AbortWithoutMutation(c)
       ELSE GoesTo(c, "stage") /\ UNCHANGED journal
  /\ UNCHANGED <<disk, mutex, shown, approved>>

Stage(c) ==
  /\ install[c].place = "stage"
  /\ \/ GoesTo(c, "commit") /\ UNCHANGED journal
     \/ AbortWithoutMutation(c)
  /\ UNCHANGED <<disk, mutex, shown, approved>>

Commit(c) ==
  /\ install[c].place = "commit"
  /\ disk' \in {disk, Partial, Expected(c)}
  /\ GoesTo(c, "verify") \/ GoesTo(c, "rollback")
  /\ UNCHANGED <<journal, mutex, shown, approved>>

VerifyCommit(c) ==
  /\ install[c].place = "verify"
  /\ \/ disk = Expected(c) /\ GoesTo(c, "finish")
     \/ GoesTo(c, "rollback")
  /\ UNCHANGED <<disk, journal, mutex, shown, approved>>

FinishCommit(c) ==
  /\ install[c].place = "finish"
  /\ \/ journal' = FALSE /\ Answers(c, "Applied")
     \/ UNCHANGED journal /\ GoesTo(c, "rollback")
  /\ UNCHANGED <<disk, mutex, shown, approved>>

(* A rollback that reports failure leaves everything to recovery.          *)
RollbackInstall(c) ==
  /\ install[c].place = "rollback"
  /\ disk' \in {disk, Partial, install[c].previous}
  /\ GoesTo(c, "verifyRollback") \/ Answers(c, "RecoveryRequired")
  /\ UNCHANGED <<journal, mutex, shown, approved>>

(* Mutant of VerifyInstallRollback: the rollback's word is enough.         *)
VerifyRollbackTrusting(c) ==
  /\ install[c].place = "verifyRollback"
  /\ GoesTo(c, "finishRollback")
  /\ UNCHANGED <<disk, journal, mutex, shown, approved>>

VerifyInstallRollback(c) ==
  /\ install[c].place = "verifyRollback"
  /\ \/ disk = install[c].previous /\ GoesTo(c, "finishRollback")
     \/ Answers(c, "RecoveryRequired")
  /\ UNCHANGED <<disk, journal, mutex, shown, approved>>

FinishRollback(c) ==
  /\ install[c].place = "finishRollback"
  /\ \/ journal' = FALSE /\ Answers(c, "RolledBack")
     \/ UNCHANGED journal /\ Answers(c, "RecoveryRequired")
  /\ UNCHANGED <<disk, mutex, shown, approved>>

(* The transaction is destroyed: by the return, or with its process.       *)
EndTransaction(c) ==
  /\ mutex = {c}
  /\ mutex' = {} /\ install' = [install EXCEPT ![c] = NoInstall]
  /\ shown' = [shown EXCEPT ![c] = Absent]
  /\ approved' = [approved EXCEPT ![c] = NoPackage]
  /\ UNCHANGED <<disk, journal>>

InstallerNext ==
  \E c \in Installer :
    \/ StartInstall(c) \/ PreviewUpdate(c) \/ ApplyUpdate(c)
    \/ CheckPrevious(c) \/ Stage(c) \/ Commit(c) \/ VerifyCommit(c)
    \/ FinishCommit(c) \/ RollbackInstall(c) \/ VerifyInstallRollback(c)
    \/ FinishRollback(c) \/ EndTransaction(c)

InstallerSpec == InstallerInit /\ [][InstallerNext]_installerVars

-----------------------------------------------------------------------------
(* Type invariant of the installer.                                        *)
InstallerTypeOK ==
  /\ disk \in Installed \cup {Absent, Partial}
  /\ journal \in BOOLEAN /\ mutex \in SUBSET Installer
  /\ shown \in [Installer -> Installed \cup {Absent}]
  /\ approved \in [Installer -> Package \cup {NoPackage}]
  /\ install \in [Installer -> InstallCall]

(* Whatever fails, and wherever the installer dies: an installation that   *)
(* is not whole has an unresolved journal to recover it from.              *)
InstallIsWhole == ~journal => disk # Partial

(* The receipt tells what is on the disk when the call returns.            *)
ReceiptIsTrue ==
  \A c \in Installer :
    /\ install[c].receipt = "Applied" => disk = Expected(c) /\ ~journal
    /\ install[c].receipt \in {"Rejected", "RolledBack"} =>
         disk = install[c].previous /\ ~journal
    /\ install[c].receipt = "RecoveryRequired" => journal

(* An update replaces the very installation whose preview was approved, by *)
(* the package that was approved, and leaves the startup mode alone.       *)
UpdateIsAsApproved ==
  \A c \in Installer :
    install[c].receipt = "Applied" /\ install[c].cas =>
      /\ install[c].previous = shown[c] /\ install[c].mode = shown[c].mode
      /\ install[c].package = approved[c]

(* What a caller of the installer and its user may rely on.                *)
InstallationAccountedFor ==
  InstallIsWhole /\ ReceiptIsTrue /\ UpdateIsAsApproved

-----------------------------------------------------------------------------
(* HydraSeatSetup.exe (installer_bootstrap.cpp and its window): it looks at   *)
(* the package it was started from, has the signed installer script validate  *)
(* it without elevation, and starts the script elevated for what the user     *)
(* confirms.  Between any two of these the package, the machine and other     *)
(* installers go on; the script (external here) checks everything again.     *)

CONSTANT Release   \* release identities (version and revision)

VARIABLES
  package,         \* the package on disk
  machine,         \* what is installed: files, registration, user data
  setup,           \* what the setup window knows
  operation        \* the operation in progress and how far it is

bootstrapVars == <<package, machine, setup, operation>>

Operation == {"Install", "Repair", "Uninstall", "Validate"}
NoRelease == 0

(* The facts: the name of the directory, the types of the six paths that      *)
(* matter (the worst of them stands for all), whether the names are exactly  *)
(* those expected, the signers of the setup and of the script, the release.  *)
SetupPackage ==
  [directory : {"x64", "Release"}, worst : {"good", "Missing", "ReparsePoint"},
   names : {"exact", "extra", "too many"}, signers : {"same", "differ", "untrusted"},
   provenance : Release \cup {NoRelease}]

(* assessBootstrapPackageFacts() and inspectBootstrapPackageLayout().         *)
Assessment(p) ==
  CASE p.directory # "x64" -> "NotReleaseLayout"
    [] p.directory = "x64" /\ p.names = "too many" -> "UnexpectedLayout"
    [] p.directory = "x64" /\ p.names # "too many" /\ p.worst = "ReparsePoint" ->
         "ReparsePointRejected"
    [] p.directory = "x64" /\ p.names # "too many" /\ p.worst = "Missing" ->
         "MissingRequiredPath"
    [] p.directory = "x64" /\ p.names = "extra" /\ p.worst = "good" -> "UnexpectedLayout"
    [] p.directory = "x64" /\ p.names = "exact" /\ p.worst = "good" ->
         IF p.signers = "same" THEN "Valid" ELSE "SignatureRejected"

(* queryBootstrapInstalledInfo(): registration and files must agree.          *)
InstalledState(m) ==
  IF ~m.registered
  THEN IF m.files = "none" THEN "NotInstalled" ELSE "Inconsistent"
  ELSE IF m.registration = "good" /\ m.files = "whole" THEN "Installed" ELSE "Inconsistent"

Needs(op) == IF op \in {"Install", "Repair", "Validate"} THEN {"package"} ELSE {}
Confirms(op) == op \in {"Install", "Repair"}

(* makeBootstrapPowerShellInvocation(): the exact parameters of each mode.    *)
InvocationOf(op, release, removeUserData) ==
  [mode |-> op, elevated |-> op # "Validate", package |-> Needs(op) # {},
   release |-> release, removeUserData |-> removeUserData]
InvocationAllowed(op, release, removeUserData) ==
  /\ IF Confirms(op) THEN release # NoRelease ELSE release = NoRelease
  /\ removeUserData => op = "Uninstall"

Quiet == [step |-> "none"]
NoSetup == [step |-> "starting", elevated |-> FALSE, validated |-> FALSE,
            release |-> NoRelease, installed |-> "unknown", busy |-> FALSE]

(* Nothing is installed, or a release is, whole, in part or with a            *)
(* registration that cannot be read, or files were left by another one.       *)
Bare == [registered |-> FALSE, registration |-> "good", files |-> "none",
         release |-> NoRelease, userData |-> TRUE]
Machines ==
  { Bare, [Bare EXCEPT !.files = "partial"] } \cup
  [registered : {TRUE}, registration : {"good", "malformed"}, files : {"whole", "partial"},
   release : Release, userData : {TRUE}]

BootstrapInit ==
  /\ package \in SetupPackage
  /\ machine \in Machines
  /\ setup \in { [NoSetup EXCEPT !.elevated = e] : e \in BOOLEAN }
  /\ operation = Quiet

(* wWinMain(): a setup that is elevated already does nothing.                *)
StartSetup ==
  /\ setup.step = "starting"
  /\ setup' = IF setup.elevated THEN [setup EXCEPT !.step = "closed"]
              ELSE [setup EXCEPT !.step = "inspecting", !.installed = InstalledState(machine)]
  /\ UNCHANGED <<package, machine, operation>>

(* validatePackageWithoutElevation(): first by itself ...                     *)
InspectPackage ==
  /\ setup.step = "inspecting"
  /\ setup' = [setup EXCEPT !.step =
                 IF Assessment(package) = "Valid" THEN "validating" ELSE "shown"]
  /\ UNCHANGED <<package, machine, operation>>

(* ... then by the script, whose exit code alone counts, and the release is    *)
(* read after it from the same file.                                        *)
ScriptValidates ==
  /\ setup.step = "validating"
  /\ InvocationAllowed("Validate", NoRelease, FALSE)
  /\ \E accepted \in BOOLEAN :
       /\ accepted => Assessment(package) = "Valid" /\ package.provenance # NoRelease
       /\ setup' = [setup EXCEPT !.step = IF accepted THEN "reading" ELSE "shown"]
  /\ UNCHANGED <<package, machine, operation>>

ReadRelease ==
  /\ setup.step = "reading"
  /\ setup' = IF package.provenance = NoRelease
              THEN [setup EXCEPT !.step = "shown"]
              ELSE [setup EXCEPT !.step = "shown", !.validated = TRUE,
                      !.release = package.provenance]
  /\ UNCHANGED <<package, machine, operation>>

(* The buttons, as refreshInstalledState() left them.                        *)
Offered(op) ==
  /\ setup.validated
  /\ \/ op = "Install" /\ setup.installed = "NotInstalled"
     \/ op = "Repair" /\ setup.installed \in {"Installed", "Inconsistent"}
     \/ op = "Uninstall" /\ setup.installed = "Installed"

(* performOperation(), as far as the user's answers.                          *)
Confirm(op, removeUserData) ==
  /\ setup.step = "shown" /\ operation = Quiet /\ Offered(op)
  /\ LET release == IF Confirms(op) THEN setup.release ELSE NoRelease
     IN /\ InvocationAllowed(op, release, removeUserData)
        /\ operation' = [step |-> "elevating",
                         call |-> InvocationOf(op, release, removeUserData)]
  /\ setup' = [setup EXCEPT !.busy = TRUE]
  /\ UNCHANGED <<package, machine>>

(* runBootstrapPowerShell(): the user refuses the elevation, or it fails.     *)
NotElevated ==
  /\ operation.step = "elevating"
  /\ \E outcome \in {"Cancelled", "Failed"} :
       operation' = [operation EXCEPT !.step = outcome]
  /\ UNCHANGED <<package, machine, setup>>

(* The script, elevated: it validates the package, and holds it to the        *)
(* release confirmed; it may fail half way and then restores what was.       *)
ScriptPermits(call) ==
  /\ call.package => Assessment(package) = "Valid" /\ package.provenance = call.release
  /\ call.mode = "Install" => machine.release = NoRelease
  /\ call.mode \in {"Repair", "Uninstall"} => machine.release # NoRelease

ScriptRuns ==
  /\ operation.step = "elevating" /\ UNCHANGED <<package, setup>>
  /\ \/ operation' = [operation EXCEPT !.step = "Failed"] /\ UNCHANGED machine
     \/ /\ ScriptPermits(operation.call)
        /\ operation' = [operation EXCEPT !.step = "Success"]
        /\ machine' = IF operation.call.mode = "Uninstall"
             THEN [registered |-> FALSE, registration |-> "good", files |-> "none",
                   release |-> NoRelease,
                   userData |-> machine.userData /\ ~operation.call.removeUserData]
             ELSE [machine EXCEPT !.registered = TRUE, !.registration = "good",
                     !.files = "whole", !.release = operation.call.release]

(* mapBootstrapProcessResult(), and the window is shown anew.                 *)
ShowResult ==
  /\ operation.step \in {"Cancelled", "Failed", "Success"}
  /\ setup' = [setup EXCEPT !.busy = FALSE, !.installed = InstalledState(machine)]
  /\ operation' = IF operation.step = "Success" /\ operation.call.mode = "Install"
                  THEN [operation EXCEPT !.step = "offer launch"] ELSE Quiet
  /\ UNCHANGED <<package, machine>>

(* launchInstalledHydraSeatNormally(), by the setup that is not elevated.     *)
LaunchInstalled ==
  /\ operation.step = "offer launch"
  /\ operation' = Quiet
  /\ UNCHANGED <<package, machine, setup>>

CloseSetup ==
  /\ setup.step = "shown" /\ ~setup.busy /\ operation = Quiet
  /\ setup' = [setup EXCEPT !.step = "closed"]
  /\ UNCHANGED <<package, machine, operation>>

(* Others: the package is replaced, files or the registration are damaged.    *)
PackageChanges ==
  /\ setup.step # "closed"
  /\ \E r \in Release \cup {NoRelease} : package' = [package EXCEPT !.provenance = r]
  /\ UNCHANGED <<machine, setup, operation>>

MachineChanges ==
  /\ machine.registered
  /\ machine' \in { [machine EXCEPT !.files = "partial"],
                    [machine EXCEPT !.registration = "malformed"] }
  /\ UNCHANGED <<package, setup, operation>>

BootstrapNext ==
  \/ StartSetup \/ InspectPackage \/ ScriptValidates \/ ReadRelease
  \/ \E op \in Operation, removeUserData \in BOOLEAN : Confirm(op, removeUserData)
  \/ NotElevated \/ ScriptRuns \/ ShowResult \/ LaunchInstalled \/ CloseSetup
  \/ PackageChanges \/ MachineChanges

-----------------------------------------------------------------------------
(* Type invariant of the setup.                                             *)
BootstrapTypeOK ==
  /\ package \in SetupPackage
  /\ setup.step \in {"starting", "inspecting", "validating", "reading", "shown", "closed"}
  /\ setup.installed \in {"unknown", "NotInstalled", "Installed", "Inconsistent"}
  /\ setup.release \in Release \cup {NoRelease}
  /\ operation.step \in {"none", "elevating", "Cancelled", "Failed", "Success", "offer launch"}
  /\ operation # Quiet => operation.call.mode \in Operation

(* The setup asks for elevation only for what the user confirmed on a package *)
(* it validated, with the release it read; what it reports as done is so, and  *)
(* it is asked for nothing else until the result is shown.                   *)
SetupDoesAsConfirmed ==
  /\ operation # Quiet =>
       /\ setup.validated /\ ~setup.elevated /\ operation.call.elevated
       /\ Confirms(operation.call.mode) => operation.call.release = setup.release
       /\ operation.call.removeUserData => operation.call.mode = "Uninstall"
  /\ operation.step = "offer launch" => machine.release = operation.call.release
  /\ setup.busy = (operation.step \in {"elevating", "Cancelled", "Failed", "Success"})
=============================================================================

----------------------------- MODULE Setup_proofs -----------------------------
(* That what has been set up is accounted for: the installer transaction, the  *)
(* bootstrap, the start-up registration, the documents and their migration,    *)
(* a setup from another machine and the writable copies of a game each have    *)
(* an inductive invariant of their own, and a run of the components keeps that *)
(* of the one that runs.                                                       *)
EXTENDS MCComponents, FiniteSetTheorems, TLAPS

-----------------------------------------------------------------------------
(* The installer transaction.                                              *)

(* A package that is worked with is genuine.                               *)
CallIsValid ==
  \A c \in Installer :
    install[c].place # "idle" /\ install[c].action # "Uninstall" =>
      install[c].package \in Package /\ ValidPackage(install[c].package)

(* The lock is held from the capture on, by one installer.                 *)
OneInTransaction ==
  \A c \in Installer :
    /\ install[c].place # "idle" => mutex = {c}
    /\ install[c].place = "idle" => install[c] = NoInstall
    /\ (install[c].receipt # "none") <=> (install[c].place = "done")

(* What the transaction knows of the disk where it is.                     *)
PlaceTellsDisk ==
  \A c \in Installer :
    /\ install[c].place \notin {"idle", "done"} => journal
    /\ install[c].place \in {"check", "stage", "finishRollback"} => disk = install[c].previous
    /\ install[c].place = "finish" => disk = Expected(c)

(* An update is held to the installation that was shown once compared.     *)
UpdateIsHeld ==
  \A c \in Installer :
    install[c].place # "idle" /\ install[c].cas =>
      /\ install[c].mode = shown[c].mode /\ install[c].package = approved[c]
      /\ \/ install[c].place = "check" \/ install[c].previous = shown[c]
         \/ install[c].receipt \in {"Rejected", "RecoveryRequired"}

InstallerInv ==
  /\ InstallerTypeOK /\ CallIsValid /\ OneInTransaction /\ PlaceTellsDisk
  /\ UpdateIsHeld /\ InstallationAccountedFor

(* The state a call has to arrive at.                                      *)
Goal(inquiry) ==
  IF inquiry.action = "Uninstall" THEN Absent ELSE StateFrom(inquiry.package, inquiry.mode)

(* What a call must satisfy for the invariant, the others being idle: on a  *)
(* disk, with a journal, after a preview and its approval.                 *)
CallFits(inquiry, onDisk, open, preview, approval) ==
  /\ inquiry.place # "idle"
  /\ (inquiry.receipt # "none") <=> (inquiry.place = "done")
  /\ inquiry.action # "Uninstall" => inquiry.package \in Package /\ ValidPackage(inquiry.package)
  /\ inquiry.place # "done" => open
  /\ inquiry.place \in {"check", "stage", "finishRollback"} => onDisk = inquiry.previous
  /\ inquiry.place = "finish" => onDisk = Goal(inquiry)
  /\ inquiry.cas =>
       /\ inquiry.mode = preview.mode /\ inquiry.package = approval
       /\ \/ inquiry.place = "check" \/ inquiry.previous = preview
          \/ inquiry.receipt \in {"Rejected", "RecoveryRequired"}
  /\ ~open => onDisk # Partial
  /\ inquiry.receipt = "Applied" => onDisk = Goal(inquiry) /\ ~open
  /\ inquiry.receipt \in {"Rejected", "RolledBack"} => onDisk = inquiry.previous /\ ~open
  /\ inquiry.receipt = "RecoveryRequired" => open

LEMMA CallFitsNow ==
  ASSUME InstallerInv, NEW c \in Installer, install[c].place # "idle"
  PROVE  /\ CallFits(install[c], disk, journal, shown[c], approved[c]) /\ install[c] \in InstallCall /\ mutex = {c}
         /\ \A d \in Installer \ {c} : install[d] = NoInstall
  <1>1. \A d \in Installer \ {c} : install[d] = NoInstall
    BY DEF InstallerInv, OneInTransaction
  <1>2. install[c] \in InstallCall
    BY DEF InstallerInv, InstallerTypeOK
  <1>3. CallFits(install[c], disk, journal, shown[c], approved[c])
    BY DEF InstallerInv, CallFits, CallIsValid, OneInTransaction, PlaceTellsDisk, UpdateIsHeld,
           InstallationAccountedFor, InstallIsWhole, ReceiptIsTrue, UpdateIsAsApproved,
           Expected, Goal
  <1> QED BY <1>1, <1>2, <1>3 DEF InstallerInv, OneInTransaction

(* A step of the one transaction that holds the lock.                      *)
LEMMA CallStep ==
  ASSUME InstallerInv, NEW c \in Installer, NEW inquiry \in InstallCall,
         install' = [install EXCEPT ![c] = inquiry],
         mutex' = {c}, UNCHANGED <<shown, approved>>,
         \A d \in Installer \ {c} : install[d] = NoInstall,
         disk' \in Installed \cup {Absent, Partial}, journal' \in BOOLEAN,
         CallFits(inquiry, disk', journal', shown[c], approved[c])
  PROVE  InstallerInv'
  <1>1. /\ install \in [Installer -> InstallCall]
        /\ install' \in [Installer -> InstallCall] /\ install'[c] = inquiry
        /\ \A d \in Installer \ {c} : install'[d] = NoInstall
    BY DEF InstallerInv, InstallerTypeOK
  <1>2. InstallerTypeOK'
    BY <1>1 DEF InstallerInv, InstallerTypeOK
  <1>3. /\ NoInstall.place = "idle" /\ NoInstall.receipt = "none"
    BY DEF NoInstall
  <1>4. Expected(c)' = Goal(inquiry)
    BY <1>1 DEF Expected, Goal
  <1>5. CallIsValid' /\ OneInTransaction'
    BY <1>1, <1>3 DEF CallIsValid, OneInTransaction, CallFits
  <1>6. PlaceTellsDisk' /\ UpdateIsHeld'
    BY <1>1, <1>3, <1>4 DEF PlaceTellsDisk, UpdateIsHeld, CallFits
  <1>7. InstallationAccountedFor'
    BY <1>1, <1>3, <1>4
    DEF InstallationAccountedFor, InstallIsWhole, ReceiptIsTrue, UpdateIsAsApproved, CallFits
  <1> QED BY <1>2, <1>5, <1>6, <1>7 DEF InstallerInv

(* A transaction begins on a disk that is whole.                           *)
LEMMA BeginStep ==
  ASSUME InstallerInv, NEW c \in Installer, NEW action \in Action,
         NEW pkg \in Package \cup {NoPackage}, NEW mode \in Mode, NEW cas \in BOOLEAN,
         action # "Uninstall" => pkg \in Package /\ ValidPackage(pkg),
         cas => mode = shown[c].mode /\ pkg = approved[c],
         Begin(c, action, pkg, mode, cas)
  PROVE  InstallerInv'
  <1> DEFINE inquiry == [place |-> "check", action |-> action, package |-> pkg,
                         mode |-> mode, cas |-> cas, previous |-> disk, receipt |-> "none"]
  <1>1. inquiry \in InstallCall /\ install' = [install EXCEPT ![c] = inquiry]
    BY DEF Begin, InstallCall, Receipt
  <1>2. \A d \in Installer \ {c} : install[d] = NoInstall
    BY DEF Begin, InstallerInv, OneInTransaction
  <1>3. CallFits(inquiry, disk', journal', shown[c], approved[c])
    BY DEF Begin, CallFits, InstallerInv, InstallationAccountedFor, InstallIsWhole
  <1>4. /\ disk' \in Installed \cup {Absent, Partial} /\ journal' \in BOOLEAN
        /\ mutex' = {c} /\ UNCHANGED <<shown, approved>>
    BY DEF Begin
  <1> HIDE DEF inquiry
  <1> QED BY <1>1, <1>2, <1>3, <1>4, CallStep

LEMMA PartialIsOutside == Partial \notin Installed /\ Absent # Partial
  <1>1. ASSUME NEW state \in Installed PROVE state # Partial
    <2>1. PICK pkg \in Package, mode \in Mode : state = StateFrom(pkg, mode)
      BY DEF Installed
    <2>2. state.revision = pkg.revision /\ pkg.revision \in 1..MaxRevision
      BY <2>1 DEF StateFrom, Package
    <2>3. Partial.revision = 0
      BY DEF Partial
    <2>4. state.revision # 0
      BY <2>2, InstallerAssumption
    <2> QED BY <2>3, <2>4
  <1>2. Absent # Partial
    BY DEF Absent, Partial
  <1> QED BY <1>1, <1>2

(* A step inside of the transaction that goes to another place ...          *)
LEMMA GoesToStep ==
  ASSUME InstallerInv, NEW c \in Installer, install[c].place \notin {"idle", "done"},
         NEW place \in {"stage", "commit", "verify", "finish", "rollback", "verifyRollback",
                        "finishRollback"},
         GoesTo(c, place), UNCHANGED <<journal, mutex, shown, approved>>,
         disk' \in Installed \cup {Absent, Partial},
         place \in {"stage", "finishRollback"} => disk' = install[c].previous,
         place = "finish" => disk' = Expected(c),
         install[c].place = "check" /\ install[c].cas => install[c].previous = shown[c]
  PROVE  InstallerInv'
  <1> DEFINE old == install[c]
             inquiry == [old EXCEPT !.place = place]
  <1>1. /\ CallFits(old, disk, journal, shown[c], approved[c]) /\ old \in InstallCall
        /\ mutex = {c} /\ \A d \in Installer \ {c} : install[d] = NoInstall
    BY CallFitsNow
  <1>2. /\ inquiry \in InstallCall /\ inquiry.place = place
        /\ inquiry.action = old.action /\ inquiry.package = old.package
        /\ inquiry.mode = old.mode /\ inquiry.cas = old.cas
        /\ inquiry.previous = old.previous /\ inquiry.receipt = old.receipt
    BY <1>1 DEF InstallCall
  <1>3. install' = [install EXCEPT ![c] = inquiry]
    BY DEF GoesTo
  <1>4. journal /\ old.receipt = "none"
    BY <1>1 DEF CallFits, InstallCall
  <1>5. Goal(inquiry) = Expected(c)
    BY <1>2 DEF Goal, Expected
  <1> HIDE DEF inquiry
  <1>6. CallFits(inquiry, disk', journal', shown[c], approved[c])
    BY <1>1, <1>2, <1>4, <1>5 DEF CallFits
  <1>7. journal' \in BOOLEAN /\ mutex' = {c}
    BY <1>1 DEF InstallerInv, InstallerTypeOK
  <1> QED BY <1>1, <1>2, <1>3, <1>6, <1>7, CallStep

(* ... and one that ends it with a receipt.                                *)
LEMMA AnswersStep ==
  ASSUME InstallerInv, NEW c \in Installer, install[c].place \notin {"idle", "done"},
         NEW receipt \in Receipt \ {"none"}, Answers(c, receipt),
         UNCHANGED <<mutex, shown, approved>>,
         disk' \in Installed \cup {Absent, Partial}, journal' \in BOOLEAN,
         receipt = "Applied" =>
           disk' = Expected(c) /\ ~journal' /\ install[c].place # "check",
         receipt \in {"Rejected", "RolledBack"} => disk' = install[c].previous /\ ~journal',
         receipt = "RolledBack" => install[c].place # "check",
         receipt = "RecoveryRequired" => journal'
  PROVE  InstallerInv'
  <1> DEFINE old == install[c]
             inquiry == [old EXCEPT !.place = "done", !.receipt = receipt]
  <1>1. /\ CallFits(old, disk, journal, shown[c], approved[c]) /\ old \in InstallCall
        /\ mutex = {c} /\ \A d \in Installer \ {c} : install[d] = NoInstall
    BY CallFitsNow
  <1>2. /\ inquiry \in InstallCall /\ inquiry.place = "done"
        /\ inquiry.action = old.action /\ inquiry.package = old.package
        /\ inquiry.mode = old.mode /\ inquiry.cas = old.cas
        /\ inquiry.previous = old.previous /\ inquiry.receipt = receipt
    BY <1>1 DEF InstallCall
  <1>3. install' = [install EXCEPT ![c] = inquiry]
    BY DEF Answers
  <1>4. old.receipt = "none"
    BY <1>1 DEF CallFits, InstallCall
  <1>5. Goal(inquiry) = Expected(c)
    BY <1>2 DEF Goal, Expected
  <1>6. /\ old.previous # Partial
        /\ Expected(c) \in Installed \cup {Absent} /\ Absent # Partial
        /\ Partial \notin Installed
    <2>3. Expected(c) \in Installed \cup {Absent}
      BY <1>1 DEF Expected, Installed, CallFits, InstallCall
    <2> QED BY <1>1, <2>3, PartialIsOutside DEF InstallCall
  <1> HIDE DEF inquiry
  <1>7. receipt \in {"Rejected", "Applied", "RolledBack", "RecoveryRequired"}
    BY DEF Receipt
  <1>8. CallFits(inquiry, disk', journal', shown[c], approved[c])
    BY <1>1, <1>2, <1>4, <1>5, <1>6, <1>7 DEF CallFits
  <1> QED BY <1>1, <1>2, <1>3, <1>8, CallStep

(* A call that is refused before anything was changed.                     *)
LEMMA AbortStep ==
  ASSUME InstallerInv, NEW c \in Installer, install[c].place \in {"check", "stage"},
         AbortWithoutMutation(c), UNCHANGED <<disk, mutex, shown, approved>>
  PROVE  InstallerInv'
  <1>1. /\ disk = install[c].previous /\ journal
        /\ disk \in Installed \cup {Absent, Partial} /\ journal \in BOOLEAN
    BY DEF InstallerInv, PlaceTellsDisk, InstallerTypeOK
  <1>2. CASE journal' = FALSE /\ Answers(c, "Rejected")
    BY <1>1, <1>2, AnswersStep DEF Receipt
  <1>3. CASE UNCHANGED journal /\ Answers(c, "RecoveryRequired")
    BY <1>1, <1>3, AnswersStep DEF Receipt
  <1> QED BY <1>2, <1>3 DEF AbortWithoutMutation

LEMMA InstallerStep == InstallerInv /\ [InstallerNext]_installerVars => InstallerInv'
  <1> SUFFICES ASSUME InstallerInv, [InstallerNext]_installerVars PROVE InstallerInv'
    OBVIOUS
  <1>1. CASE UNCHANGED installerVars
    BY <1>1 DEF installerVars, InstallerInv, InstallerTypeOK, CallIsValid, OneInTransaction,
       PlaceTellsDisk, UpdateIsHeld, InstallationAccountedFor, InstallIsWhole, ReceiptIsTrue,
       UpdateIsAsApproved, Expected
  <1>2. SUFFICES ASSUME NEW c \in Installer,
                  \/ StartInstall(c) \/ PreviewUpdate(c) \/ ApplyUpdate(c)
                  \/ CheckPrevious(c) \/ Stage(c) \/ Commit(c) \/ VerifyCommit(c)
                  \/ FinishCommit(c) \/ RollbackInstall(c) \/ VerifyInstallRollback(c)
                  \/ FinishRollback(c) \/ EndTransaction(c)
        PROVE InstallerInv'
    BY <1>1 DEF InstallerNext
  <1>3. /\ disk \in Installed \cup {Absent, Partial} /\ journal \in BOOLEAN
        /\ install[c] \in InstallCall
        /\ install[c].place \notin {"idle", "done"} => journal
        /\ install[c].place \in {"check", "stage", "finishRollback"} => disk = install[c].previous
        /\ install[c].place = "finish" => disk = Expected(c)
    BY DEF InstallerInv, InstallerTypeOK, PlaceTellsDisk
  <1>4. Expected(c) \in Installed \cup {Absent} \/ install[c].place = "idle"
    BY <1>3 DEF Expected, Installed, InstallerInv, CallIsValid, InstallCall
  <1>5. CASE StartInstall(c)
    <2>1. PICK action \in Action, pkg \in Package \cup {NoPackage}, mode \in Mode :
            /\ (action = "Uninstall") <=> (pkg = NoPackage)
            /\ action # "Uninstall" => ValidPackage(pkg)
            /\ Begin(c, action, pkg, mode, FALSE)
      BY <1>5 DEF StartInstall
    <2> QED BY <2>1, BeginStep
  <1>6. CASE PreviewUpdate(c)
    <2>1. PICK pkg \in Package :
            /\ shown' = [shown EXCEPT ![c] = disk]
            /\ approved' = [approved EXCEPT ![c] = pkg]
      BY <1>6 DEF PreviewUpdate
    <2>2. /\ install[c].place = "idle" /\ disk \in Installed
          /\ UNCHANGED <<disk, journal, mutex, install>>
      BY <1>6 DEF PreviewUpdate
    <2>3. InstallerTypeOK'
      BY <2>1, <2>2 DEF InstallerInv, InstallerTypeOK
    <2>4. /\ CallIsValid' /\ OneInTransaction' /\ PlaceTellsDisk'
          /\ InstallIsWhole' /\ ReceiptIsTrue'
      BY <2>2 DEF InstallerInv, CallIsValid, OneInTransaction, PlaceTellsDisk,
         InstallationAccountedFor, InstallIsWhole, ReceiptIsTrue, Expected
    <2>5. /\ install[c].receipt = "none"
          /\ \A d \in Installer \ {c} : shown'[d] = shown[d] /\ approved'[d] = approved[d]
      BY <2>1, <2>2 DEF InstallerInv, InstallerTypeOK, OneInTransaction, NoInstall
    <2>6. UpdateIsHeld' /\ UpdateIsAsApproved'
      BY <2>2, <2>5 DEF InstallerInv, UpdateIsHeld, InstallationAccountedFor, UpdateIsAsApproved
    <2> QED BY <2>3, <2>4, <2>6 DEF InstallerInv, InstallationAccountedFor
  <1>7. CASE ApplyUpdate(c)
    <2>1. PICK pkg \in Package :
            /\ IsUpdateOf(pkg, shown[c]) /\ pkg = approved[c]
            /\ Begin(c, "Repair", pkg, shown[c].mode, TRUE)
      BY <1>7 DEF ApplyUpdate
    <2>2. shown[c].mode \in Mode
      BY <1>7 DEF ApplyUpdate, InstallerInv, InstallerTypeOK, Installed, StateFrom
    <2> QED BY <2>1, <2>2, BeginStep DEF IsUpdateOf, Action
  <1>8. CASE CheckPrevious(c)
    <2>1. CASE AbortWithoutMutation(c)
      BY <1>8, <2>1, AbortStep DEF CheckPrevious
    <2>2. CASE GoesTo(c, "stage") /\ UNCHANGED journal /\ ~(install[c].cas /\ install[c].previous # shown[c])
      BY <1>3, <1>8, <2>2, GoesToStep DEF CheckPrevious
    <2> QED BY <1>8, <2>1, <2>2 DEF CheckPrevious
  <1>9. CASE Stage(c)
    <2>1. CASE AbortWithoutMutation(c)
      BY <1>9, <2>1, AbortStep DEF Stage
    <2>2. CASE GoesTo(c, "commit") /\ UNCHANGED journal
      BY <1>3, <1>9, <2>2, GoesToStep DEF Stage
    <2> QED BY <1>9, <2>1, <2>2 DEF Stage
  <1>10. CASE Commit(c)
    BY <1>3, <1>4, <1>10, GoesToStep DEF Commit
  <1>11. CASE VerifyCommit(c)
    BY <1>3, <1>11, GoesToStep DEF VerifyCommit
  <1>12. CASE FinishCommit(c)
    <2>1. CASE journal' = FALSE /\ Answers(c, "Applied")
      BY <1>3, <1>12, <2>1, AnswersStep DEF FinishCommit, Receipt
    <2>2. CASE UNCHANGED journal /\ GoesTo(c, "rollback")
      BY <1>3, <1>12, <2>2, GoesToStep DEF FinishCommit
    <2> QED BY <1>12, <2>1, <2>2 DEF FinishCommit
  <1>13. CASE RollbackInstall(c)
    <2>1. disk' \in Installed \cup {Absent, Partial}
      BY <1>3, <1>13 DEF RollbackInstall, InstallCall
    <2>2. CASE GoesTo(c, "verifyRollback")
      BY <1>3, <1>13, <2>1, <2>2, GoesToStep DEF RollbackInstall
    <2>3. CASE Answers(c, "RecoveryRequired")
      BY <1>3, <1>13, <2>1, <2>3, AnswersStep DEF RollbackInstall, Receipt
    <2> QED BY <1>13, <2>2, <2>3 DEF RollbackInstall
  <1>14. CASE VerifyInstallRollback(c)
    <2>1. CASE disk = install[c].previous /\ GoesTo(c, "finishRollback")
      BY <1>3, <1>14, <2>1, GoesToStep DEF VerifyInstallRollback
    <2>2. CASE Answers(c, "RecoveryRequired")
      BY <1>3, <1>14, <2>2, AnswersStep DEF VerifyInstallRollback, Receipt
    <2> QED BY <1>14, <2>1, <2>2 DEF VerifyInstallRollback
  <1>15. CASE FinishRollback(c)
    <2>1. CASE journal' = FALSE /\ Answers(c, "RolledBack")
      BY <1>3, <1>15, <2>1, AnswersStep DEF FinishRollback, Receipt
    <2>2. CASE UNCHANGED journal /\ Answers(c, "RecoveryRequired")
      BY <1>3, <1>15, <2>2, AnswersStep DEF FinishRollback, Receipt
    <2> QED BY <1>15, <2>1, <2>2 DEF FinishRollback
  <1>16. CASE EndTransaction(c)
    <2>1. /\ \A d \in Installer \ {c} : install[d] = NoInstall
          /\ install \in [Installer -> InstallCall] /\ NoInstall \in InstallCall
      BY <1>16 DEF EndTransaction, InstallerInv, InstallerTypeOK, OneInTransaction, NoInstall,
         InstallCall, Action, Mode, Receipt
    <2>2. \A d \in Installer : install'[d] = NoInstall
      BY <1>16, <2>1 DEF EndTransaction
    <2>3. InstallerTypeOK'
      BY <1>16, <2>1 DEF EndTransaction, InstallerInv, InstallerTypeOK
    <2>4. NoInstall.place = "idle" /\ NoInstall.receipt = "none"
      BY DEF NoInstall
    <2>5. InstallIsWhole'
      BY <1>16 DEF EndTransaction, InstallerInv, InstallationAccountedFor, InstallIsWhole
    <2>6. CallIsValid' /\ OneInTransaction' /\ PlaceTellsDisk' /\ UpdateIsHeld'
      BY <2>2, <2>4 DEF CallIsValid, OneInTransaction, PlaceTellsDisk, UpdateIsHeld
    <2>7. ReceiptIsTrue' /\ UpdateIsAsApproved'
      BY <2>2, <2>4 DEF ReceiptIsTrue, UpdateIsAsApproved
    <2> QED BY <2>3, <2>5, <2>6, <2>7 DEF InstallerInv, InstallationAccountedFor
  <1> QED BY <1>2, <1>5, <1>6, <1>7, <1>8, <1>9, <1>10, <1>11, <1>12, <1>13, <1>14, <1>15, <1>16

LEMMA InstallerStart == InstallerInit => InstallerInv
  <1> SUFFICES ASSUME InstallerInit PROVE InstallerInv
    OBVIOUS
  <1>1. NoInstall \in InstallCall /\ NoInstall.place = "idle" /\ NoInstall.receipt = "none"
    BY DEF NoInstall, InstallCall, Action, Mode, Receipt
  <1>2. disk \in Installed \cup {Absent} /\ disk # Partial
    <2>1. [revision |-> 1, build |-> "a"] \in Package
      BY InstallerAssumption DEF Package
    <2>2. StateFrom([revision |-> 1, build |-> "a"], "manual") \in Installed
      BY <2>1 DEF Installed, ValidPackage, Mode
    <2> QED BY <2>2, PartialIsOutside DEF InstallerInit
  <1>3. InstallerTypeOK
    BY <1>1, <1>2 DEF InstallerInit, InstallerTypeOK
  <1> QED
    BY <1>1, <1>2, <1>3 DEF InstallerInit, InstallerInv, CallIsValid, OneInTransaction,
       PlaceTellsDisk, UpdateIsHeld, InstallationAccountedFor, InstallIsWhole, ReceiptIsTrue,
       UpdateIsAsApproved

(* Whatever step of a transaction fails, and however executor and rollback *)
(* err, an installation is whole or has a journal, the receipt tells which *)
(* it is, and an update is the one that was approved.                      *)
THEOREM InstallerSafe == InstallerSpec => [](InstallerTypeOK /\ InstallationAccountedFor)
  <1>1. InstallerInv => InstallerTypeOK /\ InstallationAccountedFor
    BY DEF InstallerInv
  <1> QED BY <1>1, InstallerStart, InstallerStep, PTL DEF InstallerSpec

-----------------------------------------------------------------------------
(* HydraSeatSetup.exe.                                                      *)

(* An operation is that of a validated setup which is not elevated, and it  *)
(* is busy until the result is shown.                                      *)
SetupShape ==
  /\ setup \in [step : {"starting", "inspecting", "validating", "reading", "shown", "closed"},
                elevated : BOOLEAN, validated : BOOLEAN, release : Release \cup {NoRelease},
                installed : {"unknown", "NotInstalled", "Installed", "Inconsistent"},
                busy : BOOLEAN]
  /\ setup.step \notin {"starting", "closed"} => ~setup.elevated
  /\ setup.validated => setup.release # NoRelease
  /\ operation # Quiet => setup.step = "shown"

OperationShape ==
  operation # Quiet =>
    /\ operation.step \in {"elevating", "Cancelled", "Failed", "Success", "offer launch"}
    /\ operation = [step |-> operation.step, call |-> operation.call]
    /\ operation.call \in [mode : Operation, elevated : BOOLEAN, package : BOOLEAN,
                           release : Release \cup {NoRelease}, removeUserData : BOOLEAN]

MachineShape ==
  machine \in [registered : BOOLEAN, registration : {"good", "malformed"},
               files : {"none", "whole", "partial"}, release : Release \cup {NoRelease},
               userData : BOOLEAN]

(* What is installed is of the release confirmed, from the script's success *)
(* until the offer to launch it is answered.                               *)
InstalledAsConfirmed ==
  operation.step \in {"Success", "offer launch"} /\ operation.call.mode = "Install" =>
    machine.release = operation.call.release

OffersInstallOnly == operation.step = "offer launch" => operation.call.mode = "Install"

BootstrapInv ==
  /\ BootstrapTypeOK /\ SetupShape /\ OperationShape /\ MachineShape
  /\ InstalledAsConfirmed /\ OffersInstallOnly /\ SetupDoesAsConfirmed

LEMMA QuietIsIdle ==
  ASSUME BootstrapInv
  PROVE  /\ operation = Quiet => operation.step = "none"
         /\ operation # Quiet => operation.step # "none"
  <1>1. operation = Quiet => operation.step = "none"
    BY DEF Quiet
  <1>2. operation # Quiet => operation.step # "none"
    BY DEF BootstrapInv, OperationShape
  <1> QED BY <1>1, <1>2

(* What the window, the package and the machine do while the operation     *)
(* stays.                                                                  *)
LEMMA OperationStays ==
  ASSUME BootstrapInv, UNCHANGED <<setup, operation>>, package' \in SetupPackage,
         MachineShape', machine'.release = machine.release
  PROVE  BootstrapInv'
  <1>1. BootstrapTypeOK'
    BY DEF BootstrapInv, BootstrapTypeOK
  <1>2. SetupShape' /\ OperationShape'
    BY DEF BootstrapInv, SetupShape, OperationShape
  <1>3. InstalledAsConfirmed' /\ OffersInstallOnly'
    BY DEF BootstrapInv, InstalledAsConfirmed, OffersInstallOnly
  <1>4. SetupDoesAsConfirmed'
    BY DEF BootstrapInv, SetupDoesAsConfirmed
  <1> QED BY <1>1, <1>2, <1>3, <1>4 DEF BootstrapInv

(* The operation is over.                                                  *)
LEMMA OperationEnds ==
  ASSUME BootstrapInv, UNCHANGED <<package, machine>>, operation' = Quiet,
         SetupShape', ~setup'.busy
  PROVE  BootstrapInv'
  <1>1. operation'.step = "none"
    BY DEF Quiet
  <1>2. BootstrapTypeOK' /\ OperationShape' /\ MachineShape'
    BY <1>1 DEF BootstrapInv, BootstrapTypeOK, SetupShape, OperationShape, MachineShape
  <1>3. InstalledAsConfirmed' /\ OffersInstallOnly'
    BY <1>1 DEF InstalledAsConfirmed, OffersInstallOnly
  <1>4. setup'.busy \in BOOLEAN
    BY DEF SetupShape
  <1>5. SetupDoesAsConfirmed'
    BY <1>1, <1>4 DEF SetupDoesAsConfirmed
  <1> QED BY <1>2, <1>3, <1>5 DEF BootstrapInv

(* Steps of the window, of the package and of the machine around it.       *)
LEMMA SetupFollows ==
  ASSUME BootstrapInv, UNCHANGED <<package, machine, operation>>, operation = Quiet,
         SetupShape', setup'.busy = setup.busy
  PROVE  BootstrapInv'
  <1>1. operation.step = "none"
    BY QuietIsIdle
  <1> QED
    BY <1>1 DEF BootstrapInv, BootstrapTypeOK, SetupShape, OperationShape, MachineShape,
       InstalledAsConfirmed, OffersInstallOnly, SetupDoesAsConfirmed

LEMMA BootstrapStep == BootstrapInv /\ [BootstrapNext]_bootstrapVars => BootstrapInv'
  <1> SUFFICES ASSUME BootstrapInv, [BootstrapNext]_bootstrapVars PROVE BootstrapInv'
    OBVIOUS
  <1>a. /\ operation = Quiet => operation.step = "none"
        /\ operation # Quiet => operation.step # "none"
    BY QuietIsIdle
  <1>b. SetupShape /\ OperationShape /\ MachineShape
    BY DEF BootstrapInv
  <1>c. InstalledState(machine) \in {"NotInstalled", "Installed", "Inconsistent"}
    BY DEF InstalledState
  <1>1. CASE UNCHANGED bootstrapVars
    <2>1. UNCHANGED <<setup, operation>> /\ package' = package /\ machine' = machine
      BY <1>1 DEF bootstrapVars
    <2>2. package' \in SetupPackage /\ MachineShape'
      BY <1>b, <2>1 DEF BootstrapInv, BootstrapTypeOK, MachineShape
    <2> QED BY <2>1, <2>2, OperationStays
  <1>2. CASE StartSetup
    <2>1. operation = Quiet /\ UNCHANGED <<package, machine, operation>>
      BY <1>2, <1>b DEF StartSetup, SetupShape
    <2>2. SetupShape' /\ setup'.busy = setup.busy
      BY <1>2, <1>b, <1>c, <2>1 DEF StartSetup, SetupShape
    <2> QED BY <2>1, <2>2, SetupFollows
  <1>3. CASE InspectPackage
    <2>1. operation = Quiet /\ UNCHANGED <<package, machine, operation>>
      BY <1>3, <1>b DEF InspectPackage, SetupShape
    <2>2. SetupShape' /\ setup'.busy = setup.busy
      BY <1>3, <1>b, <2>1 DEF InspectPackage, SetupShape
    <2> QED BY <2>1, <2>2, SetupFollows
  <1>4. CASE ScriptValidates
    <2>1. operation = Quiet /\ UNCHANGED <<package, machine, operation>>
      BY <1>4, <1>b DEF ScriptValidates, SetupShape
    <2>2. SetupShape' /\ setup'.busy = setup.busy
      BY <1>4, <1>b, <2>1 DEF ScriptValidates, SetupShape
    <2> QED BY <2>1, <2>2, SetupFollows
  <1>5. CASE ReadRelease
    <2>1. operation = Quiet /\ UNCHANGED <<package, machine, operation>>
      BY <1>5, <1>b DEF ReadRelease, SetupShape
    <2>2. package.provenance \in Release \cup {NoRelease}
      BY DEF BootstrapInv, BootstrapTypeOK, SetupPackage
    <2>3. SetupShape' /\ setup'.busy = setup.busy
      BY <1>5, <1>b, <2>1, <2>2 DEF ReadRelease, SetupShape
    <2> QED BY <2>1, <2>3, SetupFollows
  <1>6. CASE CloseSetup
    <2>1. operation = Quiet /\ UNCHANGED <<package, machine, operation>>
      BY <1>6 DEF CloseSetup
    <2>2. SetupShape' /\ setup'.busy = setup.busy
      BY <1>6, <1>b, <2>1 DEF CloseSetup, SetupShape
    <2> QED BY <2>1, <2>2, SetupFollows
  <1>7. ASSUME NEW op \in Operation, NEW removeUserData \in BOOLEAN, Confirm(op, removeUserData)
        PROVE  BootstrapInv'
    <2> DEFINE number == IF Confirms(op) THEN setup.release ELSE NoRelease
               request == InvocationOf(op, number, removeUserData)
    <2>1. /\ setup.step = "shown" /\ operation = Quiet /\ setup.validated
          /\ removeUserData => op = "Uninstall"
          /\ op # "Validate"
          /\ operation' = [step |-> "elevating", call |-> request]
          /\ setup' = [setup EXCEPT !.busy = TRUE] /\ UNCHANGED <<package, machine>>
      BY <1>7 DEF Confirm, Offered, InvocationAllowed
    <2>2. /\ request \in [mode : Operation, elevated : BOOLEAN, package : BOOLEAN,
                          release : Release \cup {NoRelease}, removeUserData : BOOLEAN]
          /\ request.mode = op /\ request.elevated
          /\ request.removeUserData = removeUserData
          /\ Confirms(op) => request.release = setup.release
      BY <1>b, <2>1 DEF InvocationOf, Needs, Confirms, SetupShape
    <2> HIDE DEF request
    <2>3. /\ operation'.step = "elevating" /\ operation'.call = request
          /\ operation' # Quiet
      BY <2>1 DEF Quiet
    <2>4. SetupShape' /\ OperationShape' /\ MachineShape' /\ setup'.busy
          /\ setup'.validated /\ ~setup'.elevated /\ setup'.release = setup.release
      BY <1>b, <2>1, <2>2, <2>3 DEF SetupShape, OperationShape, MachineShape
    <2>5. BootstrapTypeOK'
      BY <2>1, <2>2, <2>3, <2>4 DEF BootstrapInv, BootstrapTypeOK, SetupShape
    <2>6. SetupDoesAsConfirmed' /\ InstalledAsConfirmed' /\ OffersInstallOnly'
      BY <2>1, <2>2, <2>3, <2>4 DEF SetupDoesAsConfirmed, InstalledAsConfirmed, OffersInstallOnly
    <2> QED BY <2>4, <2>5, <2>6 DEF BootstrapInv
  <1>8. ASSUME UNCHANGED <<package, setup>>, operation.step = "elevating",
               NEW outcome \in {"Cancelled", "Failed", "Success"},
               operation' = [operation EXCEPT !.step = outcome], MachineShape',
               outcome = "Success" /\ operation.call.mode = "Install" =>
                 machine'.release = operation.call.release
        PROVE  BootstrapInv'
    <2>1. operation # Quiet
      BY <1>8 DEF Quiet
    <2>2. /\ operation'.step = outcome /\ operation'.call = operation.call
          /\ operation' = [step |-> outcome, call |-> operation.call] /\ operation' # Quiet
      BY <1>8, <1>b, <2>1 DEF OperationShape, Quiet
    <2>3. OperationShape' /\ SetupShape'
      BY <1>8, <1>b, <2>1, <2>2 DEF OperationShape, SetupShape
    <2>4. BootstrapTypeOK'
      BY <1>8, <1>b, <2>1, <2>2 DEF BootstrapInv, BootstrapTypeOK, OperationShape
    <2>5. SetupDoesAsConfirmed'
      BY <1>8, <2>1, <2>2 DEF BootstrapInv, SetupDoesAsConfirmed
    <2>6. InstalledAsConfirmed' /\ OffersInstallOnly'
      BY <1>8, <2>2 DEF InstalledAsConfirmed, OffersInstallOnly
    <2> QED BY <1>8, <2>3, <2>4, <2>5, <2>6 DEF BootstrapInv
  <1>9. CASE NotElevated
    BY <1>9, <1>8, <1>b DEF NotElevated, MachineShape
  <1>10. CASE ScriptRuns
    <2>1. CASE operation' = [operation EXCEPT !.step = "Failed"] /\ UNCHANGED machine
      BY <1>10, <2>1, <1>8, <1>b DEF ScriptRuns, MachineShape
    <2>2. CASE operation' = [operation EXCEPT !.step = "Success"]
               /\ machine' = IF operation.call.mode = "Uninstall"
                    THEN [registered |-> FALSE, registration |-> "good", files |-> "none",
                          release |-> NoRelease,
                          userData |-> machine.userData /\ ~operation.call.removeUserData]
                    ELSE [machine EXCEPT !.registered = TRUE, !.registration = "good",
                            !.files = "whole", !.release = operation.call.release]
      <3>1. operation # Quiet
        BY <1>10 DEF ScriptRuns, Quiet
      <3>2. (machine.userData /\ ~operation.call.removeUserData) \in BOOLEAN
        OBVIOUS
      <3>3. operation.call.release \in Release \cup {NoRelease}
        BY <1>b, <3>1 DEF OperationShape
      <3>4. MachineShape'
        BY <1>b, <2>2, <3>2, <3>3 DEF MachineShape
      <3>5. operation.call.mode = "Install" => machine'.release = operation.call.release
        BY <1>b, <2>2 DEF MachineShape
      <3> QED BY <1>10, <2>2, <3>4, <3>5, <1>8 DEF ScriptRuns
    <2> QED BY <1>10, <2>1, <2>2 DEF ScriptRuns
  <1>11. CASE ShowResult
    <2>1. /\ operation # Quiet /\ UNCHANGED <<package, machine>>
          /\ setup' = [setup EXCEPT !.busy = FALSE, !.installed = InstalledState(machine)]
      BY <1>a, <1>11 DEF ShowResult
    <2>2. SetupShape' /\ ~setup'.busy /\ setup'.validated = setup.validated
          /\ setup'.release = setup.release /\ setup'.elevated = setup.elevated
      <3>1. setup.step = "shown"
        BY <1>b, <2>1 DEF SetupShape
      <3> QED BY <1>b, <1>c, <2>1, <3>1 DEF SetupShape
    <2>3. MachineShape'
      BY <1>b, <2>1 DEF MachineShape
    <2>4. CASE operation.step = "Success" /\ operation.call.mode = "Install"
      <3>1. /\ operation' = [operation EXCEPT !.step = "offer launch"]
            /\ operation'.step = "offer launch" /\ operation'.call = operation.call
            /\ operation' = [step |-> "offer launch", call |-> operation.call]
            /\ operation' # Quiet
        BY <1>11, <1>b, <2>1, <2>4 DEF ShowResult, OperationShape, Quiet
      <3>2. OperationShape'
        BY <1>b, <2>1, <3>1 DEF OperationShape
      <3>3. BootstrapTypeOK'
        BY <2>1, <2>2, <3>1 DEF BootstrapInv, BootstrapTypeOK, SetupShape
      <3>4. machine.release = operation.call.release
        BY <2>4 DEF BootstrapInv, InstalledAsConfirmed
      <3>5. InstalledAsConfirmed' /\ OffersInstallOnly'
        BY <2>1, <2>4, <3>1, <3>4 DEF InstalledAsConfirmed, OffersInstallOnly
      <3>6. setup'.busy \in BOOLEAN
        BY <2>2 DEF SetupShape
      <3>7. /\ setup.validated /\ ~setup.elevated /\ operation.call.elevated
            /\ Confirms(operation.call.mode) => operation.call.release = setup.release
            /\ operation.call.removeUserData => operation.call.mode = "Uninstall"
        BY <2>1 DEF BootstrapInv, SetupDoesAsConfirmed
      <3>8. machine'.release = operation'.call.release
        BY <2>1, <3>1, <3>4
      <3>9. setup'.busy = (operation'.step \in {"elevating", "Cancelled", "Failed", "Success"})
        <4>1. operation'.step = "offer launch"
          BY <3>1
        <4>2. ~setup'.busy
          BY <2>2
        <4>3. operation'.step \notin {"elevating", "Cancelled", "Failed", "Success"}
          BY <4>1
        <4>4. setup'.busy = FALSE
          BY <3>6, <4>2
        <4>5. (operation'.step \in {"elevating", "Cancelled", "Failed", "Success"}) = FALSE
          BY <4>3
        <4> QED BY <4>4, <4>5
      <3>10. /\ setup'.validated /\ ~setup'.elevated /\ operation'.call.elevated
             /\ Confirms(operation'.call.mode) => operation'.call.release = setup'.release
             /\ operation'.call.removeUserData => operation'.call.mode = "Uninstall"
        BY <2>2, <3>1, <3>7
      <3>11. SetupDoesAsConfirmed'
        BY <3>8, <3>9, <3>10 DEF SetupDoesAsConfirmed
      <3> QED BY <2>2, <2>3, <3>2, <3>3, <3>5, <3>11 DEF BootstrapInv
    <2>5. CASE operation' = Quiet
      BY <2>1, <2>2, <2>5, OperationEnds
    <2> QED BY <1>11, <2>4, <2>5 DEF ShowResult
  <1>12. CASE LaunchInstalled
    <2>1. operation' = Quiet /\ UNCHANGED <<package, machine, setup>>
      BY <1>12 DEF LaunchInstalled
    <2>2. ~setup'.busy
      BY <1>12, <2>1 DEF LaunchInstalled, BootstrapInv, SetupDoesAsConfirmed
    <2>3. SetupShape'
      BY <1>b, <2>1 DEF SetupShape
    <2> QED BY <2>1, <2>2, <2>3, OperationEnds
  <1>13. CASE PackageChanges
    <2>1. package' \in SetupPackage /\ UNCHANGED <<machine, setup, operation>>
      BY <1>13 DEF PackageChanges, BootstrapInv, BootstrapTypeOK, SetupPackage
    <2>2. MachineShape'
      BY <1>b, <2>1 DEF MachineShape
    <2> QED BY <2>1, <2>2, OperationStays
  <1>14. CASE MachineChanges
    <2>1. MachineShape' /\ machine'.release = machine.release /\ UNCHANGED <<package, setup, operation>>
      BY <1>14, <1>b DEF MachineChanges, MachineShape
    <2>2. package' \in SetupPackage
      BY <2>1 DEF BootstrapInv, BootstrapTypeOK
    <2> QED BY <2>1, <2>2, OperationStays
  <1> QED BY <1>1, <1>2, <1>3, <1>4, <1>5, <1>6, <1>7, <1>9, <1>10, <1>11, <1>12, <1>13, <1>14
      DEF BootstrapNext

LEMMA BootstrapStart == BootstrapInit => BootstrapInv
  <1> SUFFICES ASSUME BootstrapInit PROVE BootstrapInv
    OBVIOUS
  <1>1. PICK e \in BOOLEAN : setup = [NoSetup EXCEPT !.elevated = e]
    BY DEF BootstrapInit
  <1>2. /\ SetupShape /\ ~setup.busy /\ operation = Quiet /\ operation.step = "none"
    BY <1>1 DEF BootstrapInit, SetupShape, NoSetup, Quiet
  <1>3. MachineShape
    <2>1. Bare \in [registered : BOOLEAN, registration : {"good", "malformed"},
                    files : {"none", "whole", "partial"}, release : Release \cup {NoRelease},
                    userData : BOOLEAN]
      BY DEF Bare
    <2>2. CASE machine \in { Bare, [Bare EXCEPT !.files = "partial"] }
      BY <2>1, <2>2 DEF MachineShape
    <2>3. CASE machine \in
            [registered : {TRUE}, registration : {"good", "malformed"},
             files : {"whole", "partial"}, release : Release, userData : {TRUE}]
      BY <2>3 DEF MachineShape
    <2> QED BY <2>2, <2>3 DEF BootstrapInit, Machines
  <1> QED BY <1>2, <1>3
      DEF BootstrapInit, BootstrapInv, BootstrapTypeOK, SetupShape, OperationShape,
          InstalledAsConfirmed, OffersInstallOnly, SetupDoesAsConfirmed

-----------------------------------------------------------------------------
(* The start-up registration.                                              *)

StartupInv == StartupTypeOK /\ RegistrationAccountedFor

LEMMA DecisionIsLogon ==
  ASSUME NEW config \in StartupConfig, NEW hosts \in 0..2, NEW safe \in BOOLEAN
  PROVE  Decision(config, hosts, safe) \in Logon
  <1>1. /\ [action |-> "AutoActivate", session |-> config.session] \in Logon
        /\ \A a \in {"DoNotStart", "ReuseExistingHost", "StartBackgroundIdle"} :
             [action |-> a, session |-> NoSession] \in Logon
    BY DEF Logon, StartupConfig
  <1> QED BY <1>1 DEF Decision

LEMMA StartupStep == StartupInv /\ [StartupNext]_startupVars => StartupInv'
  <1> USE DEF StartupInv, StartupTypeOK, RegistrationAccountedFor, RegisterAnswers
  <1> SUFFICES ASSUME StartupInv, [StartupNext]_startupVars PROVE StartupInv'
    OBVIOUS
  <1>1. CASE UNCHANGED startupVars
    BY <1>1 DEF startupVars
  <1>2. CASE BeginRegistration
    <2>1. PICK config \in StartupConfig :
            desired' = IF config.mode = "Manual" THEN Unregistered ELSE config
      BY <1>2 DEF BeginRegistration
    <2>2. Unregistered \in StartupConfig
      BY DEF Unregistered, StartupConfig, StartupModes
    <2> QED BY <1>2, <2>1, <2>2 DEF BeginRegistration, Registered
  <1>3. CASE ChangeRegistration
    BY <1>3 DEF ChangeRegistration
  <1>4. CASE VerifyRegistration
    BY <1>4 DEF VerifyRegistration, Registered
  <1>5. CASE RestoreRegistration
    BY <1>5 DEF RestoreRegistration, Registered
  <1>6. CASE VerifyRestored
    BY <1>6 DEF VerifyRestored, Registered
  <1>7. CASE LogOn
    BY <1>7, DecisionIsLogon DEF LogOn
  <1> QED BY <1>1, <1>2, <1>3, <1>4, <1>5, <1>6, <1>7 DEF StartupNext

LEMMA StartupStart == StartupInit => StartupInv
  BY DEF StartupInit, StartupInv, StartupTypeOK, RegistrationAccountedFor, Unregistered,
     StartupConfig, StartupModes, Registered, Logon

(* The answer about a change tells which registration the next logon finds, *)
(* whichever operation of the store fails or claims too much.              *)
THEOREM StartupSafe == StartupSpec => [](StartupTypeOK /\ RegistrationAccountedFor)
  BY StartupStart, StartupStep, PTL DEF StartupSpec, StartupInv

-----------------------------------------------------------------------------
(* The migration of a legacy workspace.                                    *)

(* Where a migration is tells what the three directories hold: the bundle  *)
(* that was there is in its place, or beside it once it was moved, and the *)
(* new one comes from a file that could be planned.                        *)
DirectoriesKnown ==
  /\ migration # "idle" => Plannable(legacyFile) /\ before # "new"
  /\ migration # "idle" /\ before = "torn" => migrated # "Success"
  /\ migration \in {"write", "validate", "moveAside"} =>
       directory["destination"] = before /\ directory["rollback"] = "none" /\ ~hadPrevious
  /\ migration = "cleanup" => directory["destination"] = before
  /\ migration \in {"moveAside", "moveIn"} => directory["staging"] = "new"
  /\ migration \in {"moveIn", "moveBack", "restore"} => directory["destination"] = "none"
  /\ migration \in {"moveIn", "check", "remove"} =>
       IF hadPrevious THEN directory["rollback"] = before ELSE before = "none"
  /\ migration \in {"moveBack", "restore"} => hadPrevious /\ directory["rollback"] = before
  /\ migration \in {"check", "remove", "discard"} => directory["destination"] = "new"

(* There has been a whole bundle only if there was one when this migration  *)
(* started, until the new one has been checked.                            *)
TrustIsOld == migration \notin {"idle", "discard"} /\ trusted => before = "old"

MigrationInv ==
  /\ MigrationTypeOK /\ DirectoriesKnown /\ TrustIsOld
  /\ BundleIsKept /\ DestinationIsWhole /\ MigrationAnswerIsTrue
  /\ (directory["destination"] = "new" => Plannable(legacyFile))

LEMMA TwoLegacySeats == Cardinality(LegacySeat) = 2
  <1>1. Cardinality({}) = 0 /\ IsFiniteSet({})
    BY FS_EmptySet
  <1>2. Cardinality({} \cup {1}) = 1 /\ IsFiniteSet({} \cup {1})
    BY <1>1, FS_AddElement
  <1>3. Cardinality(({} \cup {1}) \cup {2}) = 2
    BY <1>2, FS_AddElement
  <1>4. LegacySeat = ({} \cup {1}) \cup {2}
    BY DEF LegacySeat
  <1> QED BY <1>3, <1>4

(* What could be planned declares what it shares.                          *)
LEMMA PlannedSharingIsDeclared ==
  MigrationInv => SharingIsDeclared
  <1> SUFFICES ASSUME MigrationInv, directory["destination"] = "new", NEW r \in Resource,
                      SeatDocument(legacyFile).owners[r] = LegacySeat
               PROVE  r \in legacyFile.shareable
    BY DEF SharingIsDeclared
  <1>1. Plannable(legacyFile)
    BY DEF MigrationInv
  <1>2. legacyFile.owners[r] = LegacySeat
    BY DEF SeatDocument
  <1> QED BY <1>1, <1>2, TwoLegacySeats DEF Plannable

LEMMA MigrationStep == MigrationInv /\ [MigrationNext]_migrationVars => MigrationInv'
  <1> USE DEF MigrationInv, MigrationTypeOK, DirectoriesKnown, TrustIsOld, BundleIsKept,
          DestinationIsWhole, MigrationAnswerIsTrue, ghosts, Path, Content, MigrationPlace,
          Migrated, MigrationAt, MigrationAnswers, Renamed, Removed, RemovedInPart
  <1> SUFFICES ASSUME MigrationInv, [MigrationNext]_migrationVars PROVE MigrationInv'
    OBVIOUS
  <1>a. legacyFile' = legacyFile /\ (Plannable(legacyFile) => Plannable(legacyFile)')
    <2>1. legacyFile' = legacyFile
      BY DEF MigrationNext, BeginMigration, WriteStaging, ValidateStaging, MoveAside, MoveIn,
         MoveBack, CleanUpStaging, CheckCommitted, RemoveCommitted, RestorePrevious,
         DiscardPrevious, MigratorDies, migrationVars
    <2> QED BY <2>1 DEF Plannable, ValidSeatDocument, SeatDocument, DefaultManagement
  <1>1. CASE UNCHANGED migrationVars
    BY <1>1 DEF migrationVars
  <1>2. CASE BeginMigration
    <2>1. CASE MigrationAnswers("Refused") /\ UNCHANGED <<directory, ghosts>>
      BY <1>2, <2>1 DEF BeginMigration
    <2>2. CASE /\ Plannable(legacyFile)
               /\ directory["staging"] = "none" /\ directory["rollback"] = "none"
               /\ directory' = [directory EXCEPT !["staging"] = "torn",
                      !["destination"] = IF @ = "new" THEN "old" ELSE @]
               /\ MigrationAt("write") /\ UNCHANGED migrated
               /\ StartsFrom(directory["destination"])
      <3>1. /\ directory' \in [Path -> Content] /\ directory'["rollback"] = "none"
            /\ directory'["destination"] =
                 IF directory["destination"] = "new" THEN "old" ELSE directory["destination"]
        BY <2>2
      <3>2. /\ before' = directory'["destination"] /\ before' # "new" /\ before' \in Content
            /\ trusted' = (trusted \/ directory["destination"] \in {"old", "new"})
        BY <2>2, <3>1 DEF StartsFrom
      <3>3. /\ migration = "idle" /\ migration' = "write" /\ hadPrevious' = FALSE
            /\ migrated' = migrated /\ legacyFile' = legacyFile
        BY <1>2, <2>2 DEF BeginMigration
      <3>4. trusted' => before' = "old"
        BY <2>2, <3>1, <3>2, <3>3
      <3>5. trusted' \in BOOLEAN
        BY <3>2
      <3>6. MigrationTypeOK'
        BY <3>1, <3>2, <3>3, <3>5
      <3> QED BY <2>2, <3>1, <3>2, <3>3, <3>4, <3>6
    <2> QED BY <1>2, <2>1, <2>2 DEF BeginMigration
  <1>3. CASE WriteStaging
    BY <1>3 DEF WriteStaging
  <1>4. CASE ValidateStaging
    <2>1. /\ migration = "validate" /\ migration' \in {"moveIn", "moveAside", "cleanup"}
          /\ UNCHANGED <<legacyFile, directory, hadPrevious, migrated, before, trusted>>
          /\ migration' # "cleanup" => directory["staging"] = "new"
          /\ migration' = "moveIn" => directory["destination"] = "none"
      BY <1>4 DEF ValidateStaging
    <2> QED BY <2>1
  <1>5. CASE MoveAside
    BY <1>5 DEF MoveAside
  <1>6. CASE MoveIn
    <2>1. CASE Renamed("staging", "destination") /\ MigrationAt("check")
      <3>1. /\ directory' \in [Path -> Content] /\ directory'["destination"] = "new"
            /\ directory'["rollback"] = directory["rollback"]
        BY <1>6, <2>1 DEF MoveIn
      <3> QED BY <1>6, <2>1, <3>1 DEF MoveIn
    <2>2. CASE UNCHANGED directory /\ MigrationAt(IF hadPrevious THEN "moveBack" ELSE "cleanup")
      <3>1. /\ migration = "moveIn" /\ migration' \in {"moveBack", "cleanup"}
            /\ migration' = "moveBack" => hadPrevious
            /\ migration' = "cleanup" => ~hadPrevious
            /\ UNCHANGED <<directory, legacyFile, hadPrevious, migrated, before, trusted>>
        BY <1>6, <2>2 DEF MoveIn
      <3>2. MigrationTypeOK'
        BY <3>1
      <3>3. DirectoriesKnown' /\ TrustIsOld'
        BY <3>1
      <3>4. BundleIsKept' /\ DestinationIsWhole' /\ MigrationAnswerIsTrue'
        BY <3>1
      <3>5. (directory["destination"] = "new" => Plannable(legacyFile))'
        BY <3>1, <1>a
      <3> QED
        <4> HIDE DEF MigrationTypeOK, DirectoriesKnown, TrustIsOld, BundleIsKept,
                 DestinationIsWhole, MigrationAnswerIsTrue
        <4> QED BY <3>2, <3>3, <3>4, <3>5
    <2> QED BY <1>6, <2>1, <2>2 DEF MoveIn
  <1>7. CASE MoveBack
    <2>1. /\ migration = "moveBack" /\ UNCHANGED <<legacyFile, hadPrevious, before, trusted>>
      BY <1>7 DEF MoveBack
    <2>2. CASE Renamed("rollback", "destination") /\ MigrationAt("cleanup") /\ UNCHANGED migrated
      <3>1. /\ directory' \in [Path -> Content] /\ directory'["destination"] = before
            /\ directory'["rollback"] = "none"
            /\ migration' = "cleanup" /\ migrated' = migrated
        BY <2>1, <2>2
      <3>2. MigrationTypeOK'
        BY <2>1, <3>1
      <3>3. DirectoriesKnown' /\ TrustIsOld'
        BY <2>1, <3>1
      <3>4. BundleIsKept' /\ DestinationIsWhole' /\ MigrationAnswerIsTrue'
        BY <2>1, <3>1
      <3>5. (directory["destination"] = "new" => Plannable(legacyFile))'
        BY <2>1, <3>1, <1>a
      <3> QED
        <4> HIDE DEF MigrationTypeOK, DirectoriesKnown, TrustIsOld, BundleIsKept,
                 DestinationIsWhole, MigrationAnswerIsTrue
        <4> QED BY <3>2, <3>3, <3>4, <3>5
    <2>3. CASE UNCHANGED directory /\ MigrationAnswers("RollbackError")
      <3>1. directory' = directory /\ migration' = "idle" /\ migrated' = "RollbackError"
        BY <2>3
      <3>2. MigrationTypeOK'
        BY <2>1, <3>1
      <3>3. DirectoriesKnown' /\ TrustIsOld'
        BY <2>1, <3>1
      <3>4. BundleIsKept' /\ DestinationIsWhole' /\ MigrationAnswerIsTrue'
        BY <2>1, <3>1
      <3>5. (directory["destination"] = "new" => Plannable(legacyFile))'
        BY <2>1, <3>1, <1>a
      <3> QED
        <4> HIDE DEF MigrationTypeOK, DirectoriesKnown, TrustIsOld, BundleIsKept,
                 DestinationIsWhole, MigrationAnswerIsTrue
        <4> QED BY <3>2, <3>3, <3>4, <3>5
    <2> QED BY <1>7, <2>2, <2>3 DEF MoveBack
  <1>8. CASE CleanUpStaging
    <2>1. /\ directory' \in [Path -> Content]
          /\ directory'["destination"] = directory["destination"]
          /\ directory'["rollback"] = directory["rollback"]
      BY <1>8 DEF CleanUpStaging
    <2>2. /\ migration = "cleanup" /\ migration' = "idle" /\ migrated' = "Failed"
          /\ UNCHANGED <<legacyFile, hadPrevious, before, trusted>>
      BY <1>8 DEF CleanUpStaging
    <2>3. MigrationTypeOK'
      BY <2>1, <2>2
    <2>4. DirectoriesKnown' /\ TrustIsOld'
      BY <2>1, <2>2
    <2>5. BundleIsKept' /\ DestinationIsWhole' /\ MigrationAnswerIsTrue'
      BY <2>1, <2>2
    <2>6. (directory["destination"] = "new" => Plannable(legacyFile))'
      BY <2>1, <2>2, <1>a
    <2> QED
      <3> HIDE DEF MigrationTypeOK, DirectoriesKnown, TrustIsOld, BundleIsKept,
               DestinationIsWhole, MigrationAnswerIsTrue
      <3> QED BY <2>3, <2>4, <2>5, <2>6
  <1>9. CASE CheckCommitted
    <2>1. /\ migration = "check"
          /\ UNCHANGED <<legacyFile, directory, hadPrevious, migrated, before>>
          /\ \/ migration' = "discard" /\ trusted' = TRUE
             \/ migration' = "remove" /\ trusted' = trusted
      BY <1>9 DEF CheckCommitted
    <2>2. MigrationTypeOK'
      BY <2>1
    <2>3. DirectoriesKnown' /\ TrustIsOld'
      BY <2>1
    <2>4. BundleIsKept' /\ DestinationIsWhole' /\ MigrationAnswerIsTrue'
      BY <2>1
    <2>5. (directory["destination"] = "new" => Plannable(legacyFile))'
      BY <2>1, <1>a
    <2> QED
      <3> HIDE DEF MigrationTypeOK, DirectoriesKnown, TrustIsOld, BundleIsKept,
               DestinationIsWhole, MigrationAnswerIsTrue
      <3> QED BY <2>2, <2>3, <2>4, <2>5
  <1>10. CASE RemoveCommitted
    <2>1. migration = "remove" /\ UNCHANGED <<legacyFile, hadPrevious, before, trusted>>
      BY <1>10 DEF RemoveCommitted
    <2>2. CASE Removed("destination")
      <3>1. /\ directory' \in [Path -> Content] /\ directory'["destination"] = "none"
            /\ directory'["rollback"] = directory["rollback"]
        BY <2>2
      <3>2. IF hadPrevious THEN migration' = "restore" /\ migrated' = migrated
            ELSE migration' = "idle" /\ migrated' = "Failed"
        BY <1>10, <2>2 DEF RemoveCommitted
      <3> QED BY <1>a, <2>1, <3>1, <3>2
    <2>3. CASE RemovedInPart("destination") /\ MigrationAnswers("RollbackError")
      <3>1. /\ directory' \in [Path -> Content] /\ directory'["destination"] = "torn"
            /\ directory'["rollback"] = directory["rollback"]
            /\ migration' = "idle" /\ migrated' = "RollbackError"
        BY <2>1, <2>3
      <3> QED BY <1>a, <2>1, <3>1
    <2> QED BY <1>10, <2>2, <2>3 DEF RemoveCommitted
  <1>11. CASE RestorePrevious
    <2>1. migration = "restore" /\ UNCHANGED <<legacyFile, hadPrevious, before, trusted>>
      BY <1>11 DEF RestorePrevious
    <2>2. CASE Renamed("rollback", "destination") /\ MigrationAnswers("Failed")
      <3>1. /\ directory' \in [Path -> Content] /\ directory'["destination"] = before
            /\ migration' = "idle" /\ migrated' = "Failed"
        BY <2>1, <2>2
      <3> QED BY <1>a, <2>1, <3>1
    <2>3. CASE UNCHANGED directory /\ MigrationAnswers("RollbackError")
      BY <1>a, <2>1, <2>3
    <2> QED BY <1>11, <2>2, <2>3 DEF RestorePrevious
  <1>12. CASE DiscardPrevious
    <2>1. /\ migration = "discard" /\ UNCHANGED <<legacyFile, hadPrevious, before, trusted>>
          /\ migration' = "idle" /\ migrated' = "Success"
      BY <1>12 DEF DiscardPrevious
    <2>2. directory' \in [Path -> Content] /\ directory'["destination"] = "new"
      BY <1>12, <2>1 DEF DiscardPrevious
    <2> QED BY <1>a, <2>1, <2>2
  <1>13. CASE MigratorDies
    BY <1>a, <1>13 DEF MigratorDies
  <1> QED BY <1>1, <1>2, <1>3, <1>4, <1>5, <1>6, <1>7, <1>8, <1>9, <1>10, <1>11, <1>12, <1>13
      DEF MigrationNext

LEMMA MigrationStart == MigrationInit => MigrationInv
  BY DEF MigrationInit, MigrationInv, MigrationTypeOK, DirectoriesKnown, TrustIsOld,
     BundleIsKept, DestinationIsWhole, MigrationAnswerIsTrue, Path, Content, MigrationPlace,
     Migrated

(* Wherever a migration fails or its process dies, and however often it is  *)
(* tried again, the bundle that was there is whole in its place or beside   *)
(* it, and the answer says which bundle is in place.                       *)
THEOREM MigrationSafe == MigrationSpec => [](MigrationTypeOK /\ BundlesSurvive)
  <1>1. MigrationInv => MigrationTypeOK /\ BundlesSurvive
    BY PlannedSharingIsDeclared DEF MigrationInv, BundlesSurvive
  <1> QED BY <1>1, MigrationStart, MigrationStep, PTL DEF MigrationSpec

-----------------------------------------------------------------------------
(* The choice of who plays what where, and the plans compiled from it.      *)

(* What the plans rely on: at most two bindings, each with one of the two   *)
(* Seats, and with an instance of a setup that may be there.                *)
ChoiceShaped(c) ==
  /\ Len(c) \in 0..2 /\ DOMAIN c = 1..Len(c)
  /\ \A i \in DOMAIN c : /\ c[i].seat \in ProfileSeat /\ c[i].instance \in Nat
                         /\ c[i].setup \in SetupName \cup {"none"}

(* A plan that was compiled is of the choice and the documents it names.    *)
PlansAsCompiled ==
  plans.provider # "none" =>
    /\ ChoiceShaped(plans.of)
    /\ plans.provider = ProviderPlan(plans.of, plans.documents)
    /\ plans.twoSeat = TwoSeatPlan(plans.of, plans.documents)

ProfileInv == ChoiceShaped(choice) /\ PlansAsCompiled

(* What a provider plan says of the choice it was compiled from.            *)
LEMMA ProviderPlanFits ==
  ASSUME NEW c, NEW d, ProviderPlan(c, d) = "plan"
  PROVE  /\ ValidChoice(c, d)
         /\ ~(SameGame(c) /\ (c[1].setup = "none" \/ c[1].setup # c[2].setup))
         /\ ~(Len(c) = 2 /\ ~SameGame(c) /\ \E i \in 1..2 : c[i].setup # "none")
         /\ ~(Len(c) = 2 /\ ~ExclusiveAsSpelled(d))
         /\ \A i \in DOMAIN c : SetupFits(c[i], d)
  <1>1. ValidChoice(c, d)
    BY DEF ProviderPlan
  <1>2. ~(SameGame(c) /\ (c[1].setup = "none" \/ c[1].setup # c[2].setup))
    BY DEF ProviderPlan
  <1>3. ~(Len(c) = 2 /\ ~SameGame(c) /\ \E i \in 1..2 : c[i].setup # "none")
    BY DEF ProviderPlan
  <1>4. ~(Len(c) = 2 /\ ~ExclusiveAsSpelled(d))
    BY DEF ProviderPlan
  <1>5. \A i \in DOMAIN c : SetupFits(c[i], d)
    BY DEF ProviderPlan
  <1> QED BY <1>1, <1>2, <1>3, <1>4, <1>5

LEMMA TwoSeatPlanFits ==
  ASSUME NEW c, NEW d, TwoSeatPlan(c, d) = "plan"
  PROVE  Folded(d.seats[1].displays) \cap Folded(d.seats[2].displays) = {}
  BY DEF TwoSeatPlan

LEMMA PlansResolve == ProfileInv => ChoicesResolve
  <1> SUFFICES ASSUME ProfileInv, plans.provider = "plan" PROVE ChoicesResolve
    BY DEF ChoicesResolve
  <1> DEFINE c == plans.of
             d == plans.documents
  <1>1. ChoiceShaped(c) /\ ProviderPlan(c, d) = "plan" /\ plans.twoSeat = TwoSeatPlan(c, d)
    BY DEF ProfileInv, PlansAsCompiled
  <1> HIDE DEF c, d
  <1>2. /\ ValidChoice(c, d)
        /\ ~(SameGame(c) /\ (c[1].setup = "none" \/ c[1].setup # c[2].setup))
        /\ ~(Len(c) = 2 /\ ~SameGame(c) /\ \E i \in 1..2 : c[i].setup # "none")
        /\ ~(Len(c) = 2 /\ ~ExclusiveAsSpelled(d))
        /\ \A i \in DOMAIN c : SetupFits(c[i], d)
    BY <1>1, ProviderPlanFits
  <1>3. plans.twoSeat = "plan" =>
          Folded(d.seats[1].displays) \cap Folded(d.seats[2].displays) = {}
    BY <1>1, TwoSeatPlanFits
  <1>4. \A i \in DOMAIN c : References(c[i], d)
    BY <1>2 DEF ValidChoice
  <1>5. ASSUME NEW i \in DOMAIN c
        PROVE  /\ d.seats[c[i].seat] # NoSeat /\ d.seats[c[i].seat].active
               /\ c[i].player \in d.players /\ c[i].game \in d.games
               /\ c[i].setup # "none" => d.setups[c[i].setup].game = c[i].game
    BY <1>2, <1>4 DEF References, SetupFits
  <1>6. ASSUME Len(c) = 2
        PROVE  /\ c[1].seat # c[2].seat /\ c[1].player # c[2].player
               /\ c[1].game = c[2].game =>
                    c[1].setup = c[2].setup /\ {c[1].instance, c[2].instance} = {0, 1}
               /\ c[1].game # c[2].game => c[1].setup = "none" /\ c[2].setup = "none"
               /\ d.seats[1].displays \cap d.seats[2].displays = {}
    <2>1. c[1].seat # c[2].seat /\ c[1].player # c[2].player
      BY <1>2, <1>6 DEF ValidChoice
    <2>2. d.seats[1].displays \cap d.seats[2].displays = {}
      BY <1>2, <1>6 DEF ExclusiveAsSpelled
    <2>3. c[1].game # c[2].game => c[1].setup = "none" /\ c[2].setup = "none"
      BY <1>2, <1>6 DEF SameGame
    <2>4. ASSUME c[1].game = c[2].game
          PROVE  c[1].setup = c[2].setup /\ {c[1].instance, c[2].instance} = {0, 1}
      <3>1. c[1].setup = c[2].setup /\ c[1].setup # "none"
        BY <1>2, <1>6, <2>4 DEF SameGame
      <3>2. c[1].instance # c[2].instance
        BY <1>2, <1>6, <3>1 DEF ValidChoice
      <3>3. DOMAIN c = {1, 2} /\ c[1].instance \in Nat /\ c[2].instance \in Nat
            /\ c[1].setup \in SetupName
        BY <1>1, <1>6, <3>1 DEF ChoiceShaped
      <3>4. d.setups[c[1].setup] # NoSetup2 => d.setups[c[1].setup].instances = 2
        BY <1>2, <3>3 DEF ValidChoice, ValidDocuments, ValidSetups
      <3>5. c[1].instance < 2 /\ c[2].instance < 2
        BY <1>4, <3>1, <3>3, <3>4 DEF References
      <3>6. c[1].instance \in {0, 1} /\ c[2].instance \in {0, 1}
        BY <3>3, <3>5
      <3> QED BY <3>1, <3>2, <3>6
    <2> QED BY <2>1, <2>2, <2>3, <2>4
  <1> QED BY <1>3, <1>5, <1>6 DEF ChoicesResolve, c, d

LEMMA ProfileStart == ProfileInit => ProfileInv
  <1> SUFFICES ASSUME ProfileInit PROVE ProfileInv
    OBVIOUS
  <1>1. choice = <<>> /\ plans.provider = "none"
    BY DEF ProfileInit, NoPlans
  <1>2. ChoiceShaped(choice)
    BY <1>1 DEF ChoiceShaped
  <1>3. PlansAsCompiled
    BY <1>1 DEF PlansAsCompiled
  <1> QED BY <1>2, <1>3 DEF ProfileInv

LEMMA ProfileStep == ProfileInv /\ [ProfileNext]_profileVars => ProfileInv'
  <1> SUFFICES ASSUME ProfileInv, [ProfileNext]_profileVars PROVE ProfileInv'
    OBVIOUS
  <1>1. ASSUME choice' = choice, plans' = plans PROVE ProfileInv'
    BY <1>1 DEF ProfileInv, PlansAsCompiled
  <1>2. CASE SaveSeats \/ SavePlayers \/ SaveGames \/ SaveSetups \/ UNCHANGED profileVars
    BY <1>1, <1>2 DEF SaveSeats, SavePlayers, SaveGames, SaveSetups, Replace, profileVars
  <1>3. CASE SelectSetup
    <2>1. plans'.provider = "none"
      BY <1>3 DEF SelectSetup, NoPlans
    <2>2. PICK n \in SetupName, first, second \in ProfileSeat, p, q \in ProfilePlayer :
            /\ documents.setups[n] # NoSetup2
            /\ LET b == [seat |-> first, player |-> p, game |-> documents.setups[n].game,
                          setup |-> n, instance |-> 0]
                   c == [b EXCEPT !.seat = second, !.player = q, !.instance = 1]
               IN choice' = IF second < first THEN <<c, b>> ELSE <<b, c>>
      BY <1>3 DEF SelectSetup
    <2> DEFINE b == [seat |-> first, player |-> p, game |-> documents.setups[n].game,
                      setup |-> n, instance |-> 0]
               c == [b EXCEPT !.seat = second, !.player = q, !.instance = 1]
    <2>3. choice' = <<b, c>> \/ choice' = <<c, b>>
      BY <2>2
    <2>4. b.seat = first /\ b.setup = n /\ b.instance = 0
      OBVIOUS
    <2>5. c.seat = second /\ c.setup = n /\ c.instance = 1
      OBVIOUS
    <2> HIDE DEF b, c
    <2>6. ChoiceShaped(choice')
      BY <2>3, <2>4, <2>5 DEF ChoiceShaped
    <2>7. PlansAsCompiled'
      BY <2>1 DEF PlansAsCompiled
    <2> QED BY <2>6, <2>7 DEF ProfileInv
  <1>4. CASE ReadSelection
    <2>1. PICK b \in Binding, c \in Binding : choice' = <<b, c>> \/ choice' = <<b>>
      BY <1>4 DEF ReadSelection
    <2>2. /\ b.seat \in ProfileSeat /\ b.instance \in Nat /\ b.setup \in SetupName \cup {"none"}
          /\ c.seat \in ProfileSeat /\ c.instance \in Nat /\ c.setup \in SetupName \cup {"none"}
      BY DEF Binding, ProfileSeat
    <2>3. ChoiceShaped(choice')
      BY <2>1, <2>2 DEF ChoiceShaped
    <2>4. plans' = plans
      BY <1>4 DEF ReadSelection
    <2> QED BY <2>3, <2>4 DEF ProfileInv, PlansAsCompiled
  <1>5. CASE Compile
    <2>1. /\ plans'.provider = ProviderPlan(choice, documents)
          /\ plans'.twoSeat = TwoSeatPlan(choice, documents)
          /\ plans'.of = choice /\ plans'.documents = documents /\ choice' = choice
      <3> HIDE DEF ProviderPlan, TwoSeatPlan
      <3> QED BY <1>5 DEF Compile
    <2> QED BY <2>1 DEF ProfileInv, PlansAsCompiled
  <1> QED BY <1>2, <1>3, <1>4, <1>5 DEF ProfileNext

-----------------------------------------------------------------------------
(* A setup from one machine to another.                                      *)

(* The parts of a package that stay what they are whatever is altered.      *)
PackageShaped(pkg) ==
  /\ DOMAIN pkg = {"version", "sourceRevision", "setup", "variables", "templates"}
  /\ "paths" \in DOMAIN pkg.setup
  /\ pkg.templates \in [InstanceIndex -> Template]

(* A setup that is carried was the committed one when it was exported, and  *)
(* is still what was exported unless it was altered.                        *)
CarriedInv ==
  carried = NoCarried \/
    /\ DOMAIN carried = {"step", "package", "altered", "whole", "untouched"}
    /\ carried.step \in {"encoded", "decoded", "refused"} /\ carried.altered \in BOOLEAN
    /\ PackageShaped(carried.package)
    /\ \A p \in Place : carried.untouched.setup.paths[p].kind \in {"none", "placeholder"}
    /\ carried.step = "decoded" => ValidStructure(carried.package)
    /\ ~carried.altered => /\ carried.package.setup.paths = Redacted(editor.committed).paths
                           /\ carried.package.variables = Variables(editor.committed)

EditorShaped ==
  /\ DOMAIN editor = {"committed", "draft", "edits"}
  /\ "paths" \in DOMAIN editor.committed /\ "paths" \in DOMAIN editor.draft

(* What was imported is exact, and from then on nothing it is from changes. *)
ImportIsExact ==
  /\ carried.step = "decoded"
  /\ \A p \in Place : /\ imported.setup.paths[p].kind \in {"none", "local"}
                      /\ imported.setup.paths[p].of \in {0} \cup TargetPath
  /\ imported.setup.paths[<<0, "DataRoot">>] # NoPath =>
       imported.setup.paths[<<0, "DataRoot">>] # imported.setup.paths[<<1, "DataRoot">>]
  /\ imported.templates = carried.package.templates
  /\ \A i \in InstanceIndex : imported.templates[i] # "shared installation"
  /\ MatchesGame(imported.setup, imported.game)
  /\ ~carried.altered => \A p \in Place : (imported.setup.paths[p] = NoPath)
                                            <=> (editor.committed.paths[p] = NoPath)

PortableInv ==
  EditorShaped /\ CarriedInv /\ (imported = NoImport \/ ImportIsExact)

(* In a valid package every path is the placeholder of a variable of it.    *)
LEMMA PathsArePlaceholders ==
  ASSUME NEW pkg, ValidStructure(pkg), NEW p \in Place
  PROVE  /\ pkg.setup.paths[p] # NoPath => \E v \in pkg.variables : v.place = p
         /\ pkg.setup.paths[p].kind \in {"none", "placeholder"}
  <1>1. pkg.setup.paths[p] # NoPath => \E v \in pkg.variables : v.place = p
    BY DEF ValidStructure
  <1>2. ASSUME NEW v \in pkg.variables
        PROVE  pkg.setup.paths[v.place].kind = "placeholder"
    <2>1. pkg.setup.paths[v.place] = [kind |-> "placeholder", of |-> v.name]
      BY Zenon DEF ValidStructure
    <2> QED BY <2>1
  <1>3. NoPath.kind = "none"
    BY DEF NoPath
  <1> QED BY <1>1, <1>2, <1>3

LEMMA PortableInvSuffices == PortableInv => PortableSetupIsExact
  <1> SUFFICES ASSUME PortableInv PROVE PortableSetupIsExact
    OBVIOUS
  <1>1. ASSUME carried # NoCarried
        PROVE  /\ \A p \in Place : carried.untouched.setup.paths[p].kind \in {"none", "placeholder"}
               /\ carried.step = "decoded" =>
                    \A p \in Place : carried.package.setup.paths[p].kind \in {"none", "placeholder"}
    BY <1>1, PathsArePlaceholders DEF PortableInv, CarriedInv
  <1>2. imported # NoImport => ImportIsExact
    BY DEF PortableInv
  <1> QED BY <1>1, <1>2 DEF PortableSetupIsExact, ImportIsExact

LEMMA PortableStart == PortableInit => PortableInv
  BY DEF PortableInit, PortableInv, EditorShaped, CarriedInv, EmptySetup

(* What an import makes of a package.                                        *)
BoundIsExact(pkg, s, g) ==
  /\ \A p \in Place :
       /\ s.paths[p].kind \in {"none", "local"}
       /\ s.paths[p].of \in {0} \cup TargetPath
       /\ s.paths[p] = NoPath <=> ~(\E v \in pkg.variables : v.place = p)
  /\ s.paths[<<0, "DataRoot">>] # NoPath => s.paths[<<0, "DataRoot">>] # s.paths[<<1, "DataRoot">>]
  /\ MatchesGame(s, g)
  /\ \A i \in InstanceIndex : pkg.templates[i] # "shared installation"

LEMMA BoundPaths ==
  ASSUME NEW pkg, PackageShaped(pkg), NEW b \in Bindings(pkg), NEW g, Importable(pkg, b, g)
  PROVE  BoundIsExact(pkg, Bound(pkg, b), g)
  <1> DEFINE s == Bound(pkg, b)
  <1>1. ValidStructure(pkg) /\ BindingsFit(pkg, b) /\ ValidSetup(s, g) /\ SourceIsSafe(s)
    BY DEF Importable
  <1>2. s.paths = [p \in Place |-> IF \E v \in pkg.variables : v.place = p
                     THEN b[(CHOOSE v \in pkg.variables : v.place = p).name]
                     ELSE pkg.setup.paths[p]]
    BY DEF Bound, PackageShaped
  <1>3. \A n \in DOMAIN b : b[n].kind = "local" /\ b[n].of \in TargetPath /\ b[n] # NoPath
    <2> SUFFICES ASSUME NEW n \in DOMAIN b
                 PROVE  b[n].kind = "local" /\ b[n].of \in TargetPath /\ b[n] # NoPath
      OBVIOUS
    <2>1. b[n].kind = "local"
      BY <1>1 DEF BindingsFit
    <2>2. PICK N : b \in [N -> { Local(k) : k \in TargetPath } \cup {Loose}]
      BY DEF Bindings
    <2>3. b[n] \in { Local(k) : k \in TargetPath } \cup {Loose}
      BY <2>2
    <2>4. b[n] # Loose /\ b[n] # NoPath
      BY <2>1 DEF Loose, NoPath
    <2>5. PICK k \in TargetPath : b[n] = Local(k)
      BY <2>3, <2>4
    <2> QED BY <2>1, <2>4, <2>5 DEF Local
  <1>4. ASSUME NEW p \in Place, \E v \in pkg.variables : v.place = p
        PROVE  s.paths[p] # NoPath /\ s.paths[p].kind = "local" /\ s.paths[p].of \in TargetPath
    <2>1. (CHOOSE v \in pkg.variables : v.place = p) \in pkg.variables
      BY <1>4
    <2>2. (CHOOSE v \in pkg.variables : v.place = p).name \in DOMAIN b
      BY <1>1, <2>1 DEF BindingsFit
    <2>3. s.paths[p] = b[(CHOOSE v \in pkg.variables : v.place = p).name]
      BY <1>2, <1>4
    <2> QED BY <1>3, <2>2, <2>3
  <1>5. ASSUME NEW p \in Place, ~(\E v \in pkg.variables : v.place = p)
        PROVE  s.paths[p] = NoPath
    <2>1. s.paths[p] = pkg.setup.paths[p]
      BY <1>2, <1>5
    <2> QED BY <1>1, <1>5, <2>1, PathsArePlaceholders
  <1>6. NoPath.kind = "none" /\ NoPath.of = 0
    BY DEF NoPath
  <1>7. s.paths[<<0, "DataRoot">>] # NoPath => s.paths[<<0, "DataRoot">>] # s.paths[<<1, "DataRoot">>]
    BY <1>1 DEF ValidSetup
  <1>8. MatchesGame(s, g)
    BY <1>1 DEF ValidSetup
  <1>9. \A i \in InstanceIndex : pkg.templates[i] # "shared installation"
    BY <1>1 DEF ValidStructure, ValidMaterializations
  <1> HIDE DEF s
  <1>10. \A p \in Place : /\ s.paths[p].kind \in {"none", "local"}
                          /\ s.paths[p].of \in {0} \cup TargetPath
                          /\ s.paths[p] = NoPath <=> ~(\E v \in pkg.variables : v.place = p)
    BY <1>4, <1>5, <1>6
  <1> QED BY <1>7, <1>8, <1>9, <1>10 DEF s, BoundIsExact

(* Whatever is altered in a package, it keeps its parts.                     *)
LEMMA AlteredStaysShaped ==
  ASSUME NEW pkg, PackageShaped(pkg), NEW other \in Altered(pkg)
  PROVE  PackageShaped(other)
  <1> DEFINE Versions == { [pkg EXCEPT !.version = v] : v \in {1, 3} }
             Fewer == { [pkg EXCEPT !.variables = @ \ {v}] : v \in pkg.variables }
             Moved == UNION { { [pkg EXCEPT !.variables = (@ \ {v}) \cup {[v EXCEPT !.place = p]}] :
                                  v \in pkg.variables } : p \in Place }
             Paths == UNION { { [pkg EXCEPT !.setup.paths[p] = x] :
                                  x \in {NoPath, Local(1)} \cup { Placeholder(q) : q \in Place } } :
                                p \in Place }
             Templates == UNION { { [pkg EXCEPT !.templates[i] = t] : t \in Template } :
                                    i \in InstanceIndex }
             Fields == { [pkg EXCEPT !.setup.game = "other"], [pkg EXCEPT !.setup.text = FALSE],
                         [pkg EXCEPT !.setup.schema = FALSE], [pkg EXCEPT !.sourceRevision = 0] }
  <1>0. Altered(pkg) = Versions \cup Fewer \cup Moved \cup Paths \cup Templates \cup Fields
    BY DEF Altered
  <1>1. ASSUME other \in Versions PROVE PackageShaped(other)
    BY <1>1 DEF PackageShaped
  <1>2. ASSUME other \in Fewer PROVE PackageShaped(other)
    BY <1>2 DEF PackageShaped
  <1>3. ASSUME other \in Moved PROVE PackageShaped(other)
    BY <1>3 DEF PackageShaped
  <1>4. ASSUME other \in Paths PROVE PackageShaped(other)
    <2>1. PICK p, x : other = [pkg EXCEPT !.setup.paths[p] = x]
      BY <1>4
    <2> QED BY <2>1 DEF PackageShaped
  <1>5. ASSUME other \in Templates PROVE PackageShaped(other)
    <2>1. PICK i \in InstanceIndex, t \in Template : other = [pkg EXCEPT !.templates[i] = t]
      BY <1>5
    <2> QED BY <2>1 DEF PackageShaped
  <1>6. ASSUME other \in Fields PROVE PackageShaped(other)
    <2>1. CASE other = [pkg EXCEPT !.setup.game = "other"]
      BY <2>1 DEF PackageShaped
    <2>2. CASE other = [pkg EXCEPT !.setup.text = FALSE]
      BY <2>2 DEF PackageShaped
    <2>3. CASE other = [pkg EXCEPT !.setup.schema = FALSE]
      BY <2>3 DEF PackageShaped
    <2>4. CASE other = [pkg EXCEPT !.sourceRevision = 0]
      BY <2>4 DEF PackageShaped
    <2> QED BY <1>6, <2>1, <2>2, <2>3, <2>4
  <1> HIDE DEF Versions, Fewer, Moved, Paths, Templates, Fields
  <1> QED BY <1>0, <1>1, <1>2, <1>3, <1>4, <1>5, <1>6

(* A place of an exported setup has a variable just when it has a path.      *)
LEMMA VariablesOfPaths ==
  ASSUME NEW s, NEW p \in Place
  PROVE  /\ (\E v \in Variables(s) : v.place = p) <=> s.paths[p] # NoPath
  <1>1. ASSUME s.paths[p] # NoPath PROVE \E v \in Variables(s) : v.place = p
    <2>1. [name |-> Placeholder(p).of, place |-> p] \in Variables(s)
      BY <1>1 DEF Variables
    <2> QED BY <2>1
  <1>2. ASSUME NEW v \in Variables(s), v.place = p PROVE s.paths[p] # NoPath
    BY <1>2 DEF Variables
  <1> QED BY <1>1, <1>2

LEMMA PortableStep == PortableInv /\ [PortableNext]_portableVars => PortableInv'
  <1> SUFFICES ASSUME PortableInv, [PortableNext]_portableVars PROVE PortableInv'
    OBVIOUS
  <1>a. EditorShaped /\ CarriedInv /\ (imported = NoImport \/ ImportIsExact)
    BY DEF PortableInv
  <1>b. carried.step = "decoded" => carried # NoCarried
    BY DEF NoCarried
  <1>1. ASSUME UNCHANGED <<editor, carried, imported>> PROVE PortableInv'
    BY <1>1, <1>a DEF PortableInv, EditorShaped, CarriedInv, ImportIsExact
  <1>2. CASE GameChanges \/ UNCHANGED portableVars
    BY <1>1, <1>2 DEF GameChanges, portableVars
  <1>3. CASE SetInstance \/ SaveDraft
    <2>1. carried = NoCarried /\ carried' = carried /\ imported' = imported
      BY <1>3 DEF SetInstance, SaveDraft
    <2>2. imported = NoImport
      BY <1>a, <1>b, <2>1 DEF ImportIsExact
    <2>3. EditorShaped'
      <3>1. CASE SaveDraft
        BY <3>1, <1>a DEF SaveDraft, EditorShaped
      <3>2. CASE SetInstance
        <4>1. PICK i \in InstanceIndex, r \in EditRecipe, text \in BOOLEAN :
                editor' = [editor EXCEPT !.edits = @ + 1, !.draft.text = text,
                    !.draft.paths = [p \in Place |-> IF p[1] = i THEN r[p[2]] ELSE @[p]]]
          BY <3>2 DEF SetInstance
        <4> QED BY <4>1, <1>a DEF EditorShaped
      <3> QED BY <1>3, <3>1, <3>2
    <2> QED BY <2>1, <2>2, <2>3 DEF PortableInv, CarriedInv
  <1>4. CASE Export
    <2>1. carried = NoCarried /\ editor' = editor /\ imported' = imported
      BY <1>4 DEF Export
    <2>2. imported = NoImport
      BY <1>a, <1>b, <2>1 DEF ImportIsExact
    <2>3. PICK templates \in [InstanceIndex -> Template], revision \in {0, 1} :
            LET pkg == PackageOf(editor.committed, revision, templates)
            IN carried' = [step |-> "encoded", package |-> pkg, altered |-> FALSE,
                           whole |-> TRUE, untouched |-> pkg]
      BY <1>4 DEF Export
    <2> DEFINE pkg == PackageOf(editor.committed, revision, templates)
               s == Redacted(editor.committed)
    <2>4. /\ DOMAIN pkg = {"version", "sourceRevision", "setup", "variables", "templates"}
          /\ pkg.setup = s /\ pkg.templates = templates
          /\ pkg.variables = Variables(editor.committed)
      BY DEF PackageOf
    <2>5. /\ s.paths = [p \in Place |-> IF editor.committed.paths[p] = NoPath THEN NoPath
                                        ELSE Placeholder(p)]
          /\ "paths" \in DOMAIN s
      BY <1>a DEF Redacted, EditorShaped
    <2>6. \A p \in Place : s.paths[p].kind \in {"none", "placeholder"}
      BY <2>5 DEF NoPath, Placeholder
    <2>7. /\ DOMAIN carried' = {"step", "package", "altered", "whole", "untouched"}
          /\ carried'.step = "encoded" /\ carried'.altered = FALSE
          /\ carried'.package = pkg /\ carried'.untouched = pkg
      BY <2>3
    <2> HIDE DEF pkg, s
    <2>8. PackageShaped(pkg)
      BY <2>4, <2>5 DEF PackageShaped
    <2>9. CarriedInv'
      BY <2>1, <2>4, <2>6, <2>7, <2>8 DEF CarriedInv, s
    <2> QED BY <1>a, <2>1, <2>2, <2>9 DEF PortableInv, EditorShaped
  <1>5. CASE Alter
    <2>1. carried.step = "encoded" /\ editor' = editor /\ imported' = imported
      BY <1>5 DEF Alter
    <2>2. imported = NoImport /\ carried # NoCarried
      BY <1>a, <2>1 DEF ImportIsExact, NoCarried
    <2>3. CASE carried' = [carried EXCEPT !.whole = FALSE]
      <3>1. CarriedInv'
        BY <1>a, <2>1, <2>2, <2>3 DEF CarriedInv
      <3> QED BY <1>a, <2>1, <2>2, <3>1 DEF PortableInv, EditorShaped
    <2>4. ASSUME NEW pkg \in Altered(carried.package),
                 carried' = [carried EXCEPT !.package = pkg, !.altered = TRUE]
          PROVE  PortableInv'
      <3>1. PackageShaped(pkg)
        BY <1>a, <2>2, AlteredStaysShaped DEF CarriedInv
      <3>2. /\ DOMAIN carried' = {"step", "package", "altered", "whole", "untouched"}
            /\ carried'.step = "encoded" /\ carried'.altered = TRUE
            /\ carried'.package = pkg /\ carried'.untouched = carried.untouched
        BY <1>a, <2>1, <2>2, <2>4 DEF CarriedInv
      <3>3. CarriedInv'
        BY <1>a, <2>1, <2>2, <3>1, <3>2 DEF CarriedInv
      <3> QED BY <1>a, <2>1, <2>2, <3>3 DEF PortableInv, EditorShaped
    <2> QED BY <1>5, <2>3, <2>4 DEF Alter
  <1>6. CASE Decode
    <2>1. carried.step = "encoded" /\ editor' = editor /\ imported' = imported
      BY <1>6 DEF Decode
    <2>2. imported = NoImport /\ carried # NoCarried
      BY <1>a, <2>1 DEF ImportIsExact, NoCarried
    <2>3. /\ DOMAIN carried' = DOMAIN carried
          /\ carried'.step \in {"decoded", "refused"}
          /\ carried'.step = "decoded" => ValidStructure(carried.package)
          /\ carried'.package = carried.package /\ carried'.untouched = carried.untouched
          /\ carried'.altered = carried.altered
      BY <1>6, <1>a, <2>2 DEF Decode, CarriedInv
    <2>4. CarriedInv'
      BY <1>a, <2>1, <2>2, <2>3 DEF CarriedInv
    <2> QED BY <1>a, <2>1, <2>2, <2>4 DEF PortableInv, EditorShaped
  <1>7. CASE Import
    <2>1. /\ carried.step = "decoded" /\ carried' = carried /\ editor' = editor
          /\ carried # NoCarried
      BY <1>7, <1>b DEF Import
    <2> DEFINE pkg == carried.package
               g == gameRecords["target"]
    <2>2. PICK b \in Bindings(pkg), typed \in BOOLEAN :
            /\ Importable(pkg, b, g)
            /\ typed \/ \A i \in InstanceIndex : pkg.templates[i] = "none"
            /\ imported' = [result |-> "done", setup |-> Bound(pkg, b), game |-> g,
                            templates |-> IF typed THEN pkg.templates
                                          ELSE [i \in InstanceIndex |-> "none"]]
      BY <1>7 DEF Import
    <2>3. PackageShaped(pkg)
      BY <1>a, <2>1 DEF CarriedInv
    <2>4. /\ imported'.setup = Bound(pkg, b) /\ imported'.game = g
          /\ imported'.templates = pkg.templates
      BY <2>2, <2>3 DEF PackageShaped
    <2>5. ~carried.altered => pkg.variables = Variables(editor.committed)
      BY <1>a, <2>1 DEF CarriedInv
    <2> HIDE DEF pkg, g
    <2>6. BoundIsExact(pkg, Bound(pkg, b), g)
      BY <2>2, <2>3, BoundPaths
    <2> DEFINE s == Bound(pkg, b)
    <2> HIDE DEF s
    <2>7. ASSUME ~carried.altered, NEW p \in Place
          PROVE  (s.paths[p] = NoPath) <=> (editor.committed.paths[p] = NoPath)
      <3>1. (s.paths[p] = NoPath) <=> ~(\E v \in pkg.variables : v.place = p)
        BY <2>6 DEF BoundIsExact, s
      <3>2. pkg.variables = Variables(editor.committed)
        BY <2>5, <2>7
      <3> QED BY <3>1, <3>2, VariablesOfPaths
    <2>8. ImportIsExact'
      <3>1. imported'.setup = s
        BY <2>4 DEF s
      <3>2. BoundIsExact(pkg, s, g)
        BY <2>6 DEF s
      <3>3. \A p \in Place : /\ imported'.setup.paths[p].kind \in {"none", "local"}
                            /\ imported'.setup.paths[p].of \in {0} \cup TargetPath
        BY <3>1, <3>2 DEF BoundIsExact
      <3>4. imported'.setup.paths[<<0, "DataRoot">>] # NoPath =>
              imported'.setup.paths[<<0, "DataRoot">>] # imported'.setup.paths[<<1, "DataRoot">>]
        BY <3>1, <3>2 DEF BoundIsExact
      <3>5. MatchesGame(imported'.setup, imported'.game)
        BY <2>4, <3>1, <3>2 DEF BoundIsExact
      <3>6. \A i \in InstanceIndex : imported'.templates[i] # "shared installation"
        BY <2>4, <3>2 DEF BoundIsExact
      <3> QED BY <2>1, <2>4, <2>7, <3>1, <3>3, <3>4, <3>5, <3>6 DEF ImportIsExact, pkg
    <2> QED BY <1>a, <2>1, <2>8 DEF PortableInv, EditorShaped, CarriedInv
  <1> QED BY <1>2, <1>3, <1>4, <1>5, <1>6, <1>7 DEF PortableNext

-----------------------------------------------------------------------------
(* The writable copy of a game's files.                                      *)

TreeShape ==
  [exists : BOOLEAN, owned : BOOLEAN, recipe : Recipe \cup {0}, recipePhase : 0..3,
   whole : BOOLEAN]

(* Where a session is: it recovers what another one left, works on a phase,  *)
(* reverses what it did.                                                     *)
Recovering == {"recover staging", "recover trees", "recover rollback", "recover partial",
               "recover restore", "recover rest", "recover advanced", "recover previous",
               "recover inspect", "recover debris", "recovered"}
Moving == {"commit", "commit later", "commit fails", "later fails", "advance"}
Staging == {"stage", "stage create", "stage manifest", "stage copy", "stage fails", "handoff"}
Numbered == Recovering \cup Staging \cup {"phase"}
Building == Staging \cup Moving \cup
            {"complete", "release", "reverse", "reverse phase", "reverse previous",
             "reverse all", "reverse original"}
Settled == Staging \cup {"phase", "commit", "commit fails", "phase done", "complete", "release",
                         "finalized", "reverse all", "reverse original"}
Cleaning == {"clean staging", "clean previous", "clean instance", "clean rollback", "cleaned"}

Current == StateOf(roots["instance"]) = "Current"
Keeps(r) == kept.exists => kept = roots[r]

MaterialShape ==
  /\ MaterialTypeOK /\ recipe \in Recipe
  /\ recovered \in BOOLEAN /\ originalExisted \in BOOLEAN /\ originalBackedUp \in BOOLEAN
  /\ reusedCurrent \in BOOLEAN /\ blind \in BOOLEAN
  /\ mpc \in Numbered => recipePhase \in 0..3
  /\ kept \in TreeShape /\ (kept.exists => Complete(kept))

(* Only a tree that is whole gets in the place of the instance.             *)
TreesAreWhole ==
  /\ \A r \in {"instance", "rollback", "previous"} : roots[r].owned => roots[r].whole
  /\ mpc \in {"stage copy", "handoff", "commit", "commit later"} => roots["staging"].owned
  /\ mpc \in {"handoff", "commit", "commit later"} => roots["staging"].whole

(* While a session recovers: what is kept is in its place or the rollback.  *)
RecoveryKeeps ==
  /\ mpc \in Recovering => ~recovered
  /\ ~recovered => ~originalBackedUp /\ ~reusedCurrent
  /\ roots["rollback"].exists => Keeps("rollback")
  /\ kept.exists => kept \in {roots["instance"], roots["rollback"]} \/ Current
  /\ mpc = "recover rollback" => Current
  /\ mpc \in {"recover partial", "recover restore"} =>
       Keeps("rollback") /\ (roots["rollback"].exists => roots["rollback"].owned)
  /\ mpc \in {"recover rest", "recover advanced", "recover previous", "recover inspect",
              "recover debris", "recovered"} => ~roots["rollback"].exists
  /\ mpc \in {"recover inspect", "recover debris", "recovered"} => ~roots["previous"].exists
  /\ mpc = "recover debris" => ~kept.exists
  /\ mpc \in {"recover rest", "recovered"} =>
       (roots["instance"].exists => roots["instance"].owned)

(* After that: until its first hand-off the session leaves the instance in  *)
(* its place, then in the rollback, until the new one is complete.          *)
SessionKeeps ==
  /\ mpc \in Building \cup {"phase", "phase done", "finalized"} => recovered
  /\ recovered => \A r \in {"instance", "rollback", "previous"} : roots[r].exists => roots[r].owned
  /\ recovered /\ ~originalBackedUp => ~roots["rollback"].exists /\ ~roots["previous"].exists
  /\ recovered /\ ~originalBackedUp /\ mpc \notin {"release", "finalized"} => Keeps("instance")
  /\ recovered /\ originalBackedUp /\ mpc # "finalized" /\ kept.exists =>
       originalExisted /\ kept = roots["rollback"]
  /\ recovered /\ originalBackedUp /\ ~originalExisted => ~roots["rollback"].exists
  /\ mpc \in Moving \cup {"reverse original"} => originalBackedUp
  /\ mpc \in Settled \/ (recovered /\ mpc = "idle") => ~roots["previous"].exists
  /\ mpc \in {"release", "finalized"} => Current
  /\ mpc = "complete" => roots["instance"].exists
  /\ reusedCurrent /\ mpc \notin Cleaning => Current
  /\ mpc \in Building => ~reusedCurrent
  /\ mpc \in Cleaning => ~kept.exists

MaterialInv ==
  MaterialShape /\ (~torn /\ ~blind => TreesAreWhole /\ RecoveryKeeps /\ SessionKeeps)

LEMMA CurrentMeans ==
  Current <=> /\ roots["instance"].exists /\ roots["instance"].owned
              /\ roots["instance"].recipe = recipe /\ ~(roots["instance"].recipePhase < RuntimePhase)
  BY DEF Current, StateOf

LEMMA CurrentStays ==
  ASSUME roots'["instance"] = roots["instance"], recipe' = recipe
  PROVE  Current' <=> Current
  BY DEF Current, StateOf

(* What a removal leaves when it is not cut off, and what a renaming does.  *)
Removes(r, next, onError) ==
  /\ UNCHANGED <<kept, torn, recipe, recipePhase, sessionFlags, sessions>>
  /\ \A q \in Root \ {r} : roots'[q] = roots[q]
  /\ \/ /\ mpc' = next /\ ~roots'[r].exists /\ (roots'[r] = NoTree \/ roots'[r] = roots[r])
        /\ IF r = "instance" THEN ~Current' ELSE Current' <=> Current
     \/ mpc' = onError /\ roots' = roots /\ (Current' <=> Current)

LEMMA RemoveTreeRemoves ==
  ASSUME NEW r \in Root, NEW next, NEW onError, roots \in [Root -> TreeShape],
         RemoveTree(r, next, onError), ~torn'
  PROVE  Removes(r, next, onError)
  <1>1. UNCHANGED kept /\ (Goto(next) \/ Goto(onError))
    BY DEF RemoveTree
  <1>2. UNCHANGED <<kept, recipe, recipePhase, sessionFlags, sessions>>
    BY <1>1 DEF Goto
  <1>3. CASE ~roots[r].exists /\ Goto(next) /\ UNCHANGED <<roots, torn>>
    <2>1. Current' <=> Current
      BY <1>2, <1>3, CurrentStays
    <2>2. r = "instance" => ~Current
      BY <1>3 DEF Current, StateOf
    <2> QED BY <1>2, <1>3, <2>1, <2>2 DEF Removes, Goto
  <1>4. CASE roots[r].owned /\ Goto(next) /\ roots' = [roots EXCEPT ![r] = NoTree] /\ UNCHANGED torn
    <2>1. roots'[r] = NoTree /\ ~roots'[r].exists /\ \A q \in Root \ {r} : roots'[q] = roots[q]
      BY <1>4 DEF NoTree
    <2>2. mpc' = next /\ torn' = torn
      BY <1>4 DEF Goto
    <2>3. r # "instance" => (Current' <=> Current)
      BY <1>2, <2>1, CurrentStays DEF Root
    <2>4. r = "instance" => ~Current'
      BY <2>1 DEF Current, StateOf
    <2> QED BY <1>2, <2>1, <2>2, <2>3, <2>4 DEF Removes
  <1>5. CASE roots[r].exists /\ Goto(onError) /\ UNCHANGED <<roots, torn>>
    <2>1. Current' <=> Current
      BY <1>2, <1>5, CurrentStays
    <2> QED BY <1>2, <1>5, <2>1 DEF Removes, Goto
  <1> QED BY <1>3, <1>4, <1>5 DEF RemoveTree

Renames(from, to, next, onError) ==
  /\ UNCHANGED <<kept, torn, recipe, recipePhase, sessionFlags, sessions>>
  /\ \/ /\ mpc' = next /\ roots[from].exists /\ ~roots[to].exists
        /\ roots'[from] = NoTree /\ roots'[to] = roots[from]
        /\ \A q \in Root \ {from, to} : roots'[q] = roots[q]
        /\ from = "instance" => ~Current'
     \/ mpc' = onError /\ roots' = roots /\ (Current' <=> Current)

LEMMA RenameTreeRenames ==
  ASSUME NEW from \in Root, NEW to \in Root, from # to, NEW next, NEW onError,
         roots \in [Root -> TreeShape], RenameTree(from, to, next, onError)
  PROVE  Renames(from, to, next, onError)
  <1>1. CASE /\ roots[from].exists /\ ~roots[to].exists /\ Goto(next)
             /\ roots' = [roots EXCEPT ![from] = NoTree, ![to] = roots[from]]
    <2>1. /\ roots'[from] = NoTree /\ roots'[to] = roots[from]
          /\ \A q \in Root \ {from, to} : roots'[q] = roots[q]
      BY <1>1
    <2>2. from = "instance" => ~Current'
      BY <2>1 DEF Current, StateOf, NoTree
    <2> QED BY <1>1, <2>1, <2>2 DEF RenameTree, Renames, Goto
  <1>2. CASE Goto(onError) /\ UNCHANGED roots
    <2>1. Current' <=> Current
      BY <1>2, CurrentStays DEF Goto
    <2> QED BY <1>2, <2>1 DEF RenameTree, Renames, Goto
  <1> QED BY <1>1, <1>2 DEF RenameTree

LEMMA NoTreeShape == NoTree \in TreeShape /\ ~NoTree.exists /\ ~NoTree.owned /\ ~NoTree.whole
  BY DEF NoTree, TreeShape

LEMMA MaterialStart == MaterialInit => MaterialInv
  <1> SUFFICES ASSUME MaterialInit PROVE MaterialInv
    OBVIOUS
  <1>1. PICK tree \in {NoTree, ForeignTree} \cup {Tree(TRUE, r, RuntimePhase, TRUE) : r \in Recipe} :
          /\ roots = [r \in Root |-> IF r = "instance" THEN tree ELSE NoTree]
          /\ kept = IF tree.owned THEN tree ELSE NoTree
    BY DEF MaterialInit
  <1>2. tree \in TreeShape /\ (tree.owned => Complete(tree))
    <2>1. CASE tree = NoTree
      BY <2>1, NoTreeShape
    <2>2. CASE tree = ForeignTree
      BY <2>2 DEF ForeignTree, Tree, TreeShape
    <2>3. ASSUME NEW r \in Recipe, tree = Tree(TRUE, r, RuntimePhase, TRUE)
          PROVE  tree \in TreeShape /\ (tree.owned => Complete(tree))
      BY <2>3 DEF Tree, TreeShape, Complete, RuntimePhase
    <2> QED BY <1>1, <2>1, <2>2, <2>3
  <1>3. kept \in TreeShape /\ (kept.exists => Complete(kept) /\ kept = tree)
    BY <1>1, <1>2, NoTreeShape
  <1>4. roots \in [Root -> TreeShape] /\ roots["instance"] = tree
        /\ roots["rollback"] = NoTree /\ roots["previous"] = NoTree
    BY <1>1, <1>2, NoTreeShape DEF Root
  <1>5. /\ mpc = "idle" /\ recovered = FALSE /\ originalExisted = FALSE /\ originalBackedUp = FALSE
        /\ reusedCurrent = FALSE /\ blind = FALSE /\ torn = FALSE /\ recipe \in Recipe
        /\ recipePhase = -1 /\ sessions = 1
    BY DEF MaterialInit
  <1>6. MaterialShape
    <2>1. mpc \notin Numbered
      BY <1>5 DEF Numbered, Recovering, Staging
    <2>2. recipePhase \in -1..3 /\ sessions \in 1..MaxMaterialization /\ torn \in BOOLEAN
      <3>1. recipePhase \in -1..3
        BY <1>5
      <3>2. sessions \in 1..MaxMaterialization
        BY <1>5, MaterializationAssumption
      <3>3. torn \in BOOLEAN
        BY <1>5
      <3> QED BY <3>1, <3>2, <3>3
    <2>3. MaterialTypeOK
      BY <1>4, <2>2 DEF MaterialTypeOK, TreeShape
    <2> QED BY <1>3, <1>5, <2>1, <2>3 DEF MaterialShape
  <1>7. TreesAreWhole
    BY <1>2, <1>4, <1>5, NoTreeShape DEF TreesAreWhole, Complete
  <1>8. RecoveryKeeps
    BY <1>3, <1>4, <1>5, NoTreeShape DEF RecoveryKeeps, Recovering
  <1>9. SessionKeeps
    BY <1>3, <1>4, <1>5, NoTreeShape DEF SessionKeeps, Building, Moving, Staging, Settled, Cleaning
  <1> QED BY <1>6, <1>7, <1>8, <1>9 DEF MaterialInv

(* The types: whatever a step does to a directory leaves a directory.       *)
LEMMA RemovalShapes ==
  ASSUME NEW r \in Root, NEW next, NEW onError, MaterialShape, RemoveTree(r, next, onError)
  PROVE  /\ roots' \in [Root -> TreeShape] /\ torn' \in BOOLEAN
         /\ UNCHANGED <<kept, recipe, recipePhase, sessionFlags, sessions>>
         /\ mpc' \in {next, onError}
  <1>1. roots \in [Root -> TreeShape] /\ torn \in BOOLEAN
    BY DEF MaterialShape, MaterialTypeOK, TreeShape
  <1>2. ASSUME NEW rest \in TornOf(roots[r]) PROVE rest \in TreeShape
    BY <1>1 DEF TornOf, TreeShape
  <1>3. roots' \in [Root -> TreeShape] /\ torn' \in BOOLEAN
    BY <1>1, <1>2, NoTreeShape DEF RemoveTree
  <1>4. UNCHANGED <<kept, recipe, recipePhase, sessionFlags, sessions>> /\ mpc' \in {next, onError}
    BY DEF RemoveTree, Goto
  <1> QED BY <1>3, <1>4

LEMMA RenamingShapes ==
  ASSUME NEW from \in Root, NEW to \in Root, NEW next, NEW onError, MaterialShape,
         RenameTree(from, to, next, onError)
  PROVE  /\ roots' \in [Root -> TreeShape] /\ torn' \in BOOLEAN
         /\ UNCHANGED <<kept, recipe, recipePhase, sessionFlags, sessions>>
         /\ mpc' \in {next, onError}
  <1>1. roots \in [Root -> TreeShape] /\ torn \in BOOLEAN
    BY DEF MaterialShape, MaterialTypeOK, TreeShape
  <1> QED BY <1>1, NoTreeShape DEF RenameTree, Goto

(* A step that leaves the plan and the kept tree alone.                     *)
LEMMA SameShape ==
  ASSUME MaterialShape, roots' \in [Root -> TreeShape], torn' \in BOOLEAN,
         UNCHANGED <<kept, recipe, recipePhase, sessions>>,
         recovered' \in BOOLEAN, originalExisted' \in BOOLEAN, originalBackedUp' \in BOOLEAN,
         reusedCurrent' \in BOOLEAN, blind' \in BOOLEAN,
         mpc' \in Numbered => mpc \in Numbered
  PROVE  MaterialShape'
  BY DEF MaterialShape, MaterialTypeOK, TreeShape, Complete

LEMMA MaterialShapeStep == MaterialShape /\ [MaterialNext]_materialVars => MaterialShape'
  <1> SUFFICES ASSUME MaterialShape, [MaterialNext]_materialVars PROVE MaterialShape'
    OBVIOUS
  <1>a. /\ roots \in [Root -> TreeShape] /\ torn \in BOOLEAN /\ recovered \in BOOLEAN
        /\ originalExisted \in BOOLEAN /\ originalBackedUp \in BOOLEAN
        /\ reusedCurrent \in BOOLEAN /\ blind \in BOOLEAN
        /\ recipe \in Recipe /\ recipePhase \in -1..3 /\ kept \in TreeShape
        /\ kept.exists => Complete(kept)
        /\ sessions \in 1..MaxMaterialization
        /\ mpc \in Numbered => recipePhase \in 0..3
    BY DEF MaterialShape, MaterialTypeOK, TreeShape
  <1>b. /\ "staging" \in Root /\ "instance" \in Root /\ "rollback" \in Root /\ "previous" \in Root
    BY DEF Root
  <1>c. ASSUME UNCHANGED <<kept, recipe, recipePhase, sessionFlags, sessions>>,
               roots' \in [Root -> TreeShape], torn' \in BOOLEAN, mpc' \in Numbered => mpc \in Numbered
        PROVE  MaterialShape'
    BY <1>a, <1>c, SameShape DEF sessionFlags
  <1>d. ASSUME NEW r \in Root, NEW next, NEW onError, RemoveTree(r, next, onError),
               mpc \in Numbered \/ (next \notin Numbered /\ onError \notin Numbered)
        PROVE  MaterialShape'
    BY <1>c, <1>d, RemovalShapes
  <1>e. ASSUME NEW from \in Root, NEW to \in Root, NEW next, NEW onError,
               RenameTree(from, to, next, onError),
               mpc \in Numbered \/ (next \notin Numbered /\ onError \notin Numbered)
        PROVE  MaterialShape'
    BY <1>c, <1>e, RenamingShapes
  <1>f. ASSUME NEW next, Decide(next), mpc \in Numbered \/ next \notin Numbered
        PROVE  MaterialShape'
    BY <1>a, <1>c, <1>f DEF Decide, Goto
  <1>1. CASE UNCHANGED materialVars
    BY <1>1, <1>a, <1>c DEF materialVars, sessionFlags
  <1>2. CASE ExecutePhase
    <2>1. /\ recipePhase' = recipePhase + 1 /\ recipePhase < 3
          /\ UNCHANGED <<roots, recipe, recovered, originalExisted, originalBackedUp, reusedCurrent,
                         blind, sessions, kept, torn>>
      BY <1>2 DEF ExecutePhase, RuntimePhase, sessionFlags
    <2>2. recipePhase' \in 0..3 /\ recipePhase' \in -1..3
      BY <2>1, <1>a
    <2>3. MaterialTypeOK'
      BY <2>1, <2>2, <1>a DEF MaterialTypeOK, TreeShape
    <2> QED BY <2>1, <2>2, <2>3, <1>a DEF MaterialShape, Complete
  <1>3. CASE Recover
    <2>1. mpc \in Recovering
      BY <1>3 DEF Recover, At, Recovering
    <2>2. mpc \in Numbered
      BY <2>1 DEF Numbered
    <2>3. \/ \E r \in Root : \E next, onError : RemoveTree(r, next, onError)
          \/ \E from \in Root, to \in Root : \E next, onError : RenameTree(from, to, next, onError)
          \/ \E next : Decide(next)
      BY <1>3, <1>b DEF Recover
    <2> QED BY <2>2, <2>3, <1>d, <1>e, <1>f
  <1>4. CASE EnsureRecovered
    <2>1. /\ mpc = "recovered" /\ mpc' \in {"failed", "phase"}
          /\ recovered' = TRUE /\ reusedCurrent' \in BOOLEAN /\ originalExisted' \in BOOLEAN
          /\ UNCHANGED <<roots, recipe, recipePhase, originalBackedUp, blind, sessions, torn>>
          /\ \/ kept' = roots["instance"] /\ Complete(roots["instance"])
             \/ kept' = kept
      BY <1>4 DEF EnsureRecovered, At
    <2>2. kept' \in TreeShape /\ (kept'.exists => Complete(kept'))
      BY <1>a, <1>b, <2>1
    <2>3. mpc \in Numbered
      BY <2>1 DEF Numbered, Recovering
    <2> QED BY <1>a, <2>1, <2>2, <2>3
          DEF MaterialShape, MaterialTypeOK, TreeShape, Complete
  <1>5. CASE StageFiles
    <2>1. mpc \in Numbered
      BY <1>5 DEF StageFiles, At, Numbered, Staging
    <2>2. CASE \/ At("phase") /\ Decide(IF ~reusedCurrent /\ recipePhase \in FilePhase
                                          THEN "stage" ELSE "phase done")
               \/ At("stage") /\ RemoveTree("staging", "stage create", "reverse")
               \/ At("stage fails") /\ RemoveTree("staging", "reverse", "reverse")
      BY <2>1, <2>2, <1>b, <1>d, <1>f
    <2>3. ASSUME NEW next, Goto(next), UNCHANGED <<kept, torn>>, roots' \in [Root -> TreeShape]
          PROVE  MaterialShape'
      BY <2>1, <2>3, <1>a, <1>c DEF Goto
    <2>4. ForeignTree \in TreeShape /\ Tree(TRUE, recipe, recipePhase, FALSE) \in TreeShape
      BY <1>a, <2>1 DEF ForeignTree, Tree, TreeShape
    <2>5. CASE At("stage create") \/ At("stage manifest") \/ At("stage copy")
      <3>1. UNCHANGED <<kept, torn>> /\ \E next : Goto(next)
        BY <1>5, <2>5 DEF StageFiles, At
      <3>2. roots' \in [Root -> TreeShape]
        <4>1. \/ roots' = [roots EXCEPT !["staging"] = ForeignTree] \/ roots' = roots
              \/ roots' = [roots EXCEPT !["staging"] = Tree(TRUE, recipe, recipePhase, FALSE)]
              \/ roots' = [roots EXCEPT !["staging"] = NoTree]
              \/ roots' = [roots EXCEPT !["staging"].whole = TRUE]
          BY <1>5, <2>5 DEF StageFiles, At
        <4>2. [roots["staging"] EXCEPT !.whole = TRUE] \in TreeShape
          BY <1>a, <1>b DEF TreeShape
        <4> QED BY <4>1, <4>2, <2>4, <1>a, NoTreeShape
      <3> QED BY <2>3, <3>1, <3>2
    <2> QED BY <1>5, <2>2, <2>5 DEF StageFiles
  <1>6. CASE HandOff
    <2>1. mpc = "handoff"
      BY <1>6 DEF HandOff, At
    <2>2. mpc \in Numbered
      BY <2>1 DEF Numbered, Staging
    <2>3. CASE \/ (\E next : Decide(next))
               \/ (\E next, onError : RenameTree("instance", "previous", next, onError))
      BY <2>2, <2>3, <1>b, <1>e, <1>f
    <2>4. CASE /\ roots' = roots \/ roots' = [roots EXCEPT !["instance"] = NoTree,
                                                           !["rollback"] = roots["instance"]]
               /\ originalExisted' \in BOOLEAN /\ originalBackedUp' \in {TRUE, originalBackedUp}
               /\ UNCHANGED <<recipe, recipePhase, recovered, reusedCurrent, blind, sessions, kept, torn>>
      <3>1. roots' \in [Root -> TreeShape]
        BY <2>4, <1>a, <1>b, NoTreeShape
      <3> QED BY <1>a, <2>2, <2>4, <3>1, SameShape
    <2>5. \/ (\E next : Decide(next))
          \/ (\E next, onError : RenameTree("instance", "previous", next, onError))
          \/ /\ roots' = roots \/ roots' = [roots EXCEPT !["instance"] = NoTree,
                                                         !["rollback"] = roots["instance"]]
             /\ originalExisted' \in BOOLEAN /\ originalBackedUp' \in {TRUE, originalBackedUp}
             /\ UNCHANGED <<recipe, recipePhase, recovered, reusedCurrent, blind, sessions, kept, torn>>
      BY <1>6 DEF HandOff
    <2> QED BY <2>3, <2>4, <2>5
  <1>g. ASSUME mpc' \notin Numbered, kept' = kept, torn' \in BOOLEAN,
               roots' \in {roots, [roots EXCEPT !["rollback"] = NoTree,
                                                !["instance"] = roots["rollback"]],
                           [roots EXCEPT !["rollback"] = NoTree]},
               originalBackedUp' \in {FALSE, originalBackedUp},
               UNCHANGED <<recipe, recipePhase, recovered, originalExisted, reusedCurrent, blind, sessions>>
        PROVE  MaterialShape'
    <2>1. roots' \in [Root -> TreeShape]
      BY <1>g, <1>a, <1>b, NoTreeShape
    <2> QED BY <1>a, <1>g, <2>1, SameShape
  <1>7. CASE CommitPhase
    <2>1. /\ "phase done" \notin Numbered /\ "commit fails" \notin Numbered
          /\ "advance" \notin Numbered /\ "later fails" \notin Numbered /\ "reverse" \notin Numbered
      BY DEF Numbered, Recovering, Staging
    <2>2. CASE At("commit fails")
      <3>1. /\ mpc' = "reverse" /\ UNCHANGED <<kept, torn>>
            /\ roots' = roots \/ roots' = [roots EXCEPT !["rollback"] = NoTree,
                                                        !["instance"] = roots["rollback"]]
            /\ originalBackedUp' = FALSE \/ originalBackedUp' = originalBackedUp
            /\ UNCHANGED <<recipe, recipePhase, recovered, originalExisted, reusedCurrent,
                           blind, sessions>>
        BY <1>7, <2>2 DEF CommitPhase, At
      <3> QED BY <3>1, <2>1, <1>a, <1>g
    <2>3. \/ At("commit fails")
          \/ RenameTree("staging", "instance", "phase done", "commit fails")
          \/ RenameTree("staging", "instance", "advance", "later fails")
          \/ RemoveTree("previous", "phase done", "reverse")
          \/ RenameTree("previous", "instance", "reverse", "reverse")
      BY <1>7 DEF CommitPhase
    <2> QED BY <2>1, <2>2, <2>3, <1>b, <1>d, <1>e
  <1>8. CASE Finalize
    <2>1. /\ "idle" \notin Numbered /\ "finalized" \notin Numbered /\ "complete" \notin Numbered
          /\ "release" \notin Numbered /\ "reverse" \notin Numbered
      BY DEF Numbered, Recovering, Staging
    <2>2. CASE At("complete")
      <3>1. /\ kept' = kept /\ torn' \in {TRUE, torn} /\ mpc' \in {"release", "reverse"}
            /\ UNCHANGED <<recipe, recipePhase, sessionFlags, sessions>>
            /\ \/ roots' = roots
               \/ roots' = [roots EXCEPT !["instance"].owned = TRUE, !["instance"].recipe = recipe,
                                         !["instance"].recipePhase = RuntimePhase]
               \/ roots' = [roots EXCEPT !["instance"].owned = FALSE]
        BY <1>8, <2>2 DEF Finalize, At, Goto
      <3>2. roots' \in [Root -> TreeShape]
        <4>1. /\ [roots["instance"] EXCEPT !.owned = FALSE] \in TreeShape
              /\ [roots["instance"] EXCEPT !.owned = TRUE, !.recipe = recipe,
                                           !.recipePhase = RuntimePhase] \in TreeShape
          <5>1. roots["instance"] \in TreeShape /\ 3 \in 0..3 /\ recipe \in Recipe \cup {0}
            BY <1>a, <1>b
          <5>2. [roots["instance"] EXCEPT !.owned = FALSE] \in TreeShape
            BY <5>1 DEF TreeShape
          <5>3. [roots["instance"] EXCEPT !.owned = TRUE, !.recipe = recipe,
                                          !.recipePhase = 3] \in TreeShape
            BY <5>1 DEF TreeShape
          <5> QED BY <5>2, <5>3 DEF RuntimePhase
        <4>2. CASE roots' = [roots EXCEPT !["instance"].owned = TRUE, !["instance"].recipe = recipe,
                                         !["instance"].recipePhase = RuntimePhase]
          <5>1. roots' = [roots EXCEPT !["instance"] =
                  [roots["instance"] EXCEPT !.owned = TRUE, !.recipe = recipe,
                                            !.recipePhase = RuntimePhase]]
            BY <4>2, <1>a, <1>b
          <5> QED BY <1>a, <4>1, <5>1
        <4>3. CASE roots' = [roots EXCEPT !["instance"].owned = FALSE]
          BY <1>a, <4>1, <4>3
        <4> QED BY <3>1, <1>a, <4>2, <4>3
      <3> QED BY <3>1, <3>2, <2>1, <1>a, <1>c
    <2>3. \/ At("complete") \/ RemoveTree("rollback", "finalized", "reverse")
          \/ Decide("finalized")
          \/ Decide(IF recipePhase < RuntimePhase THEN "idle"
               ELSE IF reusedCurrent THEN "finalized"
               ELSE IF roots["instance"].exists THEN "complete" ELSE "reverse")
      BY <1>8 DEF Finalize
    <2> QED BY <2>1, <2>2, <2>3, <1>b, <1>d, <1>f
  <1>9. CASE ReverseApplied
    <2>1. /\ "reverse phase" \notin Numbered /\ "failed" \notin Numbered
          /\ "reverse previous" \notin Numbered /\ "reverse all" \notin Numbered
          /\ "reverse original" \notin Numbered
      BY DEF Numbered, Recovering, Staging
    <2>2. CASE At("reverse original")
      <3>1. /\ mpc' = "failed" /\ kept' = kept /\ torn' = torn
            /\ \/ roots' = roots \/ roots' = [roots EXCEPT !["rollback"] = NoTree]
               \/ roots' = [roots EXCEPT !["rollback"] = NoTree, !["instance"] = roots["rollback"]]
            /\ originalBackedUp' = FALSE \/ originalBackedUp' = originalBackedUp
            /\ UNCHANGED <<recipe, recipePhase, recovered, originalExisted, reusedCurrent,
                           blind, sessions>>
        BY <1>9, <2>2 DEF ReverseApplied, At
      <3> QED BY <3>1, <2>1, <1>a, <1>g
    <2>3. \/ At("reverse original") \/ RemoveTree("staging", "reverse phase", "failed")
          \/ RemoveTree("instance", "reverse previous", "failed") \/ Decide("reverse all")
          \/ RenameTree("previous", "instance", "reverse all", "failed")
          \/ RemoveTree("instance", "reverse original", "failed") \/ Decide("failed")
      BY <1>9 DEF ReverseApplied
    <2> QED BY <2>1, <2>2, <2>3, <1>b, <1>d, <1>e, <1>f
  <1>10. CASE Rollback
    <2>1. mpc' \in {"failed", "reverse"} /\ blind' \in BOOLEAN
      BY <1>10, <1>a DEF Rollback
    <2>2. mpc' \notin Numbered
      BY <2>1 DEF Numbered, Recovering, Staging
    <2> QED BY <1>10, <1>a, <2>1, <2>2, SameShape DEF Rollback
  <1>11. CASE Cleanup
    <2>1. /\ "clean staging" \notin Numbered /\ "clean previous" \notin Numbered
          /\ "clean instance" \notin Numbered /\ "clean rollback" \notin Numbered
          /\ "cleaned" \notin Numbered
      BY DEF Numbered, Recovering, Staging
    <2>2. CASE Goto("clean staging") /\ kept' = NoTree /\ UNCHANGED <<roots, torn>>
      BY <1>a, <2>1, <2>2, NoTreeShape DEF Goto, MaterialShape, MaterialTypeOK, TreeShape, sessionFlags
    <2>3. \/ Goto("clean staging") /\ kept' = NoTree /\ UNCHANGED <<roots, torn>>
          \/ RemoveTree("staging", "clean previous", "cleaned")
          \/ RemoveTree("previous", "clean instance", "cleaned")
          \/ RemoveTree("instance", "clean rollback", "cleaned")
          \/ RemoveTree("rollback", "cleaned", "cleaned")
      BY <1>11 DEF Cleanup
    <2> QED BY <2>1, <2>2, <2>3, <1>b, <1>d
  <1>12. CASE NextSession
    <2>1. PICK r \in Recipe : NewSession(r)
      BY <1>12 DEF NextSession
    <2>2. /\ recipe' \in Recipe /\ mpc' = "idle" /\ recipePhase' = -1 /\ recovered' = FALSE
          /\ originalExisted' = FALSE /\ originalBackedUp' = FALSE /\ reusedCurrent' = FALSE
      BY <2>1 DEF NewSession
    <2>3. blind' = blind /\ sessions' \in 1..MaxMaterialization
      BY <1>12, <1>a, MaterializationAssumption DEF NextSession
    <2>4. roots' \in [Root -> TreeShape] /\ torn' \in BOOLEAN
      <3>1. CASE UNCHANGED <<roots, torn>>
        BY <3>1, <1>a
      <3>2. ASSUME NEW q \in RemovedAt(mpc), NEW rest \in TornOf(roots[q]),
                   torn' = TRUE, roots' = [roots EXCEPT ![q] = rest]
            PROVE  roots' \in [Root -> TreeShape] /\ torn' \in BOOLEAN
        <4>1. q \in Root
          BY <3>2 DEF RemovedAt, Root
        <4>2. rest \in TreeShape
          BY <1>a, <3>2, <4>1 DEF TornOf, TreeShape
        <4> QED BY <1>a, <3>2, <4>1, <4>2
      <3> QED BY <1>12, <3>1, <3>2 DEF NextSession
    <2>5. \/ kept' = kept
          \/ kept' = roots'["instance"] /\ Complete(roots'["instance"])
      BY <1>12 DEF NextSession
    <2>6. kept' \in TreeShape /\ (kept'.exists => Complete(kept'))
      BY <1>a, <1>b, <2>4, <2>5
    <2>7. mpc' \notin Numbered
      BY <2>2 DEF Numbered, Recovering, Staging
    <2>8. MaterialTypeOK'
      BY <2>2, <2>3, <2>4 DEF MaterialTypeOK, TreeShape
    <2> QED BY <1>a, <2>2, <2>3, <2>6, <2>7, <2>8 DEF MaterialShape, Complete
  <1> QED BY <1>1, <1>2, <1>3, <1>4, <1>5, <1>6, <1>7, <1>8, <1>9, <1>10, <1>11, <1>12
        DEF MaterialNext

(* What is kept is complete, so an instance of an earlier phase is not it.  *)
LEMMA KeptIsComplete ==
  ASSUME MaterialShape, kept.exists
  PROVE  kept.owned /\ kept.whole /\ ~(kept.recipePhase < RuntimePhase)
  <1>1. kept.owned /\ kept.whole /\ kept.recipePhase = 3
    BY DEF MaterialShape, Complete, RuntimePhase
  <1>2. ~(3 < 3)
    OBVIOUS
  <1> QED BY <1>1, <1>2 DEF RuntimePhase

LEMMA LastPhase == ~(RuntimePhase < RuntimePhase)
  BY DEF RuntimePhase

Preserved == TreesAreWhole' /\ RecoveryKeeps' /\ SessionKeeps'

LEMMA RecoverKeeps ==
  ASSUME MaterialShape, TreesAreWhole, RecoveryKeeps, SessionKeeps, ~torn', ~blind', Recover
  PROVE  Preserved
  <1> USE DEF TreesAreWhole, RecoveryKeeps, SessionKeeps, Keeps, Recovering, Staging, Moving,
        Building, Settled, Cleaning
  <1>a. roots \in [Root -> TreeShape] /\ (kept.exists => Complete(kept))
    BY DEF MaterialShape, MaterialTypeOK, TreeShape
  <1>b. /\ "staging" \in Root /\ "instance" \in Root /\ "rollback" \in Root /\ "previous" \in Root
    BY DEF Root
  <1>c. roots'["instance"] = roots["instance"] /\ recipe' = recipe => (Current' <=> Current)
    BY DEF Current, StateOf
  <1>d. Current <=> /\ roots["instance"].exists /\ roots["instance"].owned
                    /\ roots["instance"].recipe = recipe /\ ~(roots["instance"].recipePhase < RuntimePhase)
    BY CurrentMeans
  <1>1. CASE At("recover staging") /\ RemoveTree("staging", "recover trees", "failed")
    <2>1. mpc = "recover staging" /\ Removes("staging", "recover trees", "failed")
      BY <1>1, <1>a, <1>b, RemoveTreeRemoves DEF At
    <2> QED BY <1>a, <1>b, <1>d, <2>1, NoTreeShape DEF Removes, sessionFlags, Preserved
  <1>2. CASE At("recover trees") /\ Decide(RecoveryBranch)
    <2>1. /\ mpc = "recover trees" /\ mpc' = RecoveryBranch /\ roots' = roots
          /\ UNCHANGED <<kept, recipe, recovered, originalExisted, originalBackedUp, reusedCurrent>>
      BY <1>2 DEF At, Decide, Goto, sessionFlags
    <2>2. Current' <=> Current
      BY <2>1, <1>c
    <2>3. \/ mpc' = "failed"
          \/ /\ mpc' = "recover rollback" /\ Current
          \/ /\ mpc' = "recover partial" /\ roots["rollback"].exists /\ roots["rollback"].owned
          \/ mpc' \in {"recover advanced", "recover previous"} /\ ~roots["rollback"].exists
          \/ mpc' = "recover inspect" /\ ~roots["rollback"].exists /\ ~roots["previous"].exists
      BY <2>1 DEF RecoveryBranch, Current
    <2> QED BY <1>a, <1>d, <2>1, <2>2, <2>3 DEF Preserved
  <1>3. CASE At("recover rollback") /\ RemoveTree("rollback", "recover rest", "failed")
    <2>1. mpc = "recover rollback" /\ Removes("rollback", "recover rest", "failed")
      BY <1>3, <1>a, <1>b, RemoveTreeRemoves DEF At
    <2> QED BY <1>a, <1>b, <1>d, <2>1, NoTreeShape DEF Removes, sessionFlags, Preserved
  <1>4. CASE At("recover partial") /\ RemoveTree("instance", "recover restore", "failed")
    <2>1. mpc = "recover partial" /\ Removes("instance", "recover restore", "failed")
      BY <1>4, <1>a, <1>b, RemoveTreeRemoves DEF At
    <2> QED BY <1>a, <1>b, <1>d, <2>1, NoTreeShape DEF Removes, sessionFlags, Preserved
  <1>5. CASE /\ At("recover restore") /\ RenameTree("rollback", "instance", "recover rest", "failed")
           
  <2>1. mpc = "recover restore" /\ Renames("rollback", "instance", "recover rest", "failed")
    BY <1>5, <1>a, <1>b, RenameTreeRenames DEF At
  <2> QED BY <1>a, <1>b, <1>d, <2>1, NoTreeShape DEF Renames, sessionFlags, Preserved
  <1>6. CASE At("recover rest") /\ RemoveTree("previous", "recovered", "failed")
    <2>1. mpc = "recover rest" /\ Removes("previous", "recovered", "failed")
      BY <1>6, <1>a, <1>b, RemoveTreeRemoves DEF At
    <2> QED BY <1>a, <1>b, <1>d, <2>1, NoTreeShape DEF Removes, sessionFlags, Preserved
  <1>7. CASE At("recover advanced") /\ RemoveTree("previous", "recover inspect", "failed")
    <2>1. mpc = "recover advanced" /\ Removes("previous", "recover inspect", "failed")
      BY <1>7, <1>a, <1>b, RemoveTreeRemoves DEF At
    <2> QED BY <1>a, <1>b, <1>d, <2>1, NoTreeShape DEF Removes, sessionFlags, Preserved
  <1>8. CASE /\ At("recover previous") /\ RenameTree("previous", "instance", "recover inspect", "failed")
           
  <2>1. mpc = "recover previous" /\ Renames("previous", "instance", "recover inspect", "failed")
    BY <1>8, <1>a, <1>b, RenameTreeRenames DEF At
  <2> QED BY <1>a, <1>b, <1>d, <2>1, NoTreeShape DEF Renames, sessionFlags, Preserved
  <1>9. CASE /\ At("recover inspect")
             /\ Decide(CASE StateOf(roots["instance"]) = "Partial" -> "recover debris"
                         [] StateOf(roots["instance"]) = "Unsafe" -> "failed"
                         [] OTHER -> "recovered")
    <2>1. /\ mpc = "recover inspect" /\ roots' = roots
          /\ UNCHANGED <<kept, recipe, recovered, originalExisted, originalBackedUp, reusedCurrent>>
          /\ mpc' = CASE StateOf(roots["instance"]) = "Partial" -> "recover debris"
                      [] StateOf(roots["instance"]) = "Unsafe" -> "failed"
                      [] OTHER -> "recovered"
      BY <1>9 DEF At, Decide, Goto, sessionFlags
    <2>2. Current' <=> Current
      BY <2>1, <1>c
    <2>3. \/ mpc' = "failed"
          \/ mpc' = "recover debris" /\ roots["instance"].recipePhase < RuntimePhase
          \/ mpc' = "recovered" /\ (roots["instance"].exists => roots["instance"].owned)
      BY <2>1 DEF StateOf
    <2>4. mpc' = "recover debris" => ~kept.exists
      <3>1. ASSUME kept.exists, roots["instance"].recipePhase < RuntimePhase PROVE FALSE
        <4>1. kept = roots["instance"]
          BY <1>d, <2>1, <3>1
        <4> QED BY <3>1, <4>1, KeptIsComplete
      <3> QED BY <2>3, <3>1
    <2> QED BY <1>a, <1>d, <2>1, <2>2, <2>3, <2>4 DEF Preserved
  <1>10. CASE At("recover debris") /\ RemoveTree("instance", "recovered", "failed")
    <2>1. mpc = "recover debris" /\ Removes("instance", "recovered", "failed")
      BY <1>10, <1>a, <1>b, RemoveTreeRemoves DEF At
    <2> QED BY <1>a, <1>b, <1>d, <2>1, NoTreeShape DEF Removes, sessionFlags, Preserved
  <1> QED BY <1>1, <1>2, <1>3, <1>4, <1>5, <1>6, <1>7, <1>8, <1>9, <1>10 DEF Recover

(* A current instance that is whole is complete.                            *)
LEMMA CurrentIsComplete ==
  ASSUME roots \in [Root -> TreeShape], Current, roots["instance"].whole
  PROVE  Complete(roots["instance"])
  <1>1. roots["instance"].recipePhase \in 0..3
    BY DEF TreeShape, Root
  <1>2. roots["instance"].owned /\ ~(roots["instance"].recipePhase < 3)
    BY CurrentMeans DEF RuntimePhase
  <1>3. roots["instance"].recipePhase = 3
    BY <1>1, <1>2
  <1> QED BY <1>2, <1>3 DEF Complete, RuntimePhase

LEMMA PhaseKeeps ==
  ASSUME MaterialShape, TreesAreWhole, RecoveryKeeps, SessionKeeps, ~torn', ~blind', ExecutePhase \/ EnsureRecovered \/ StageFiles
  PROVE  Preserved
  <1> USE DEF TreesAreWhole, RecoveryKeeps, SessionKeeps, Keeps, Recovering, Staging, Moving,
        Building, Settled, Cleaning
  <1>a. roots \in [Root -> TreeShape] /\ (kept.exists => Complete(kept))
    BY DEF MaterialShape, MaterialTypeOK, TreeShape
  <1>b. /\ "staging" \in Root /\ "instance" \in Root /\ "rollback" \in Root /\ "previous" \in Root
    BY DEF Root
  <1>c. roots'["instance"] = roots["instance"] /\ recipe' = recipe => (Current' <=> Current)
    BY DEF Current, StateOf
  <1>d. Current <=> /\ roots["instance"].exists /\ roots["instance"].owned
                    /\ roots["instance"].recipe = recipe /\ ~(roots["instance"].recipePhase < RuntimePhase)
    BY CurrentMeans
  <1>1. CASE ExecutePhase
    <2>1. /\ mpc = "idle" /\ mpc' = (IF recovered THEN "phase" ELSE "recover staging") /\ roots' = roots
          /\ UNCHANGED <<kept, recipe, recovered, originalExisted, originalBackedUp, reusedCurrent>>
      BY <1>1 DEF ExecutePhase, At, sessionFlags
    <2>2. Current' <=> Current
      BY <2>1, <1>c
    <2> QED BY <1>a, <1>d, <2>1, <2>2 DEF Preserved
  <1>2. CASE EnsureRecovered
    <2>1. /\ mpc = "recovered" /\ mpc' \in {"failed", "phase"} /\ roots' = roots /\ recovered' = TRUE
          /\ UNCHANGED <<recipe, originalBackedUp>> /\ (reusedCurrent' => Current)
      BY <1>2 DEF EnsureRecovered, At, Current
    <2>2. kept' = IF Complete(roots["instance"]) THEN roots["instance"] ELSE kept
      BY <1>2 DEF EnsureRecovered
    <2>3. Current' <=> Current
      BY <2>1, <1>c
    <2>4. kept'.exists => kept' = roots'["instance"]
      <3>1. Current => Complete(roots["instance"])
        BY <1>a, <1>d, CurrentIsComplete
      <3> QED BY <2>1, <2>2, <3>1
    <2> QED BY <1>a, <1>d, <2>1, <2>3, <2>4 DEF Preserved
  <1>3. CASE At("phase") /\ Decide(IF ~reusedCurrent /\ recipePhase \in FilePhase
                                 THEN "stage" ELSE "phase done")
    <2>1. /\ mpc = "phase" /\ roots' = roots /\ UNCHANGED <<kept, recipe, recovered, originalExisted, originalBackedUp, reusedCurrent>>
          /\ \/ mpc' = "stage" /\ ~reusedCurrent
             \/ mpc' = "phase done"
      BY <1>3 DEF At, Decide, Goto, sessionFlags
    <2>2. Current' <=> Current
      BY <2>1, <1>c
    <2> QED BY <1>a, <1>d, <2>1, <2>2 DEF Preserved
  <1>4. CASE At("stage") /\ RemoveTree("staging", "stage create", "reverse")
    <2>1. mpc = "stage" /\ Removes("staging", "stage create", "reverse")
      BY <1>4, <1>a, <1>b, RemoveTreeRemoves DEF At
    <2> QED BY <1>a, <1>b, <1>d, <2>1, NoTreeShape DEF Removes, sessionFlags, Preserved
  <1>5. CASE At("stage fails") /\ RemoveTree("staging", "reverse", "reverse")
    <2>1. mpc = "stage fails" /\ Removes("staging", "reverse", "reverse")
      BY <1>5, <1>a, <1>b, RemoveTreeRemoves DEF At
    <2> QED BY <1>a, <1>b, <1>d, <2>1, NoTreeShape DEF Removes, sessionFlags, Preserved
  <1>6. CASE StageFiles /\ (At("stage create") \/ At("stage manifest") \/ At("stage copy"))
    <2>1. /\ mpc \in {"stage create", "stage manifest", "stage copy"}
          /\ UNCHANGED <<kept, recipe, recovered, originalExisted, originalBackedUp, reusedCurrent>>
      BY <1>6 DEF StageFiles, At, Goto, sessionFlags
    <2>2. /\ roots'["instance"] = roots["instance"] /\ roots'["rollback"] = roots["rollback"]
          /\ roots'["previous"] = roots["previous"]
      <3>1. \E x : roots' = roots \/ roots' = [roots EXCEPT !["staging"] = x]
        BY <1>6 DEF StageFiles, At
      <3> QED BY <3>1, <1>a, <1>b
    <2> DEFINE Staged ==
          \/ mpc = "stage create" /\ mpc' = "stage manifest"
          \/ mpc' = "reverse"
          \/ mpc' = "stage copy" /\ roots'["staging"].owned
          \/ mpc = "stage copy" /\ mpc' = "handoff"
             /\ roots'["staging"].owned /\ roots'["staging"].whole
          \/ mpc = "stage copy" /\ mpc' = "stage fails"
    <2>3. Staged
      <3>1. CASE At("stage create")
        BY <1>6, <3>1 DEF StageFiles, At, Goto
      <3>2. CASE At("stage manifest")
        <4>1. \/ mpc' = "reverse"
              \/ mpc' = "stage copy" /\ roots' = [roots EXCEPT !["staging"] = Tree(TRUE, recipe, recipePhase, FALSE)]
          BY <1>6, <3>2 DEF StageFiles, At, Goto
        <4>2. roots' = [roots EXCEPT !["staging"] = Tree(TRUE, recipe, recipePhase, FALSE)] =>
                roots'["staging"].owned
          <5>1. Tree(TRUE, recipe, recipePhase, FALSE).owned = TRUE
            BY DEF Tree
          <5> QED BY <1>a, <1>b, <5>1
        <4> QED BY <4>1, <4>2
      <3>3. CASE At("stage copy")
        <4>1. \/ mpc' = "stage fails"
              \/ mpc' = "handoff" /\ roots' = [roots EXCEPT !["staging"].whole = TRUE]
          BY <1>6, <3>3 DEF StageFiles, At, Goto
        <4>2. mpc = "stage copy" /\ roots["staging"].owned
          BY <3>3 DEF At
        <4>3. roots' = [roots EXCEPT !["staging"].whole = TRUE] =>
                roots'["staging"].owned = roots["staging"].owned /\ roots'["staging"].whole = TRUE
          BY <1>a, <1>b DEF TreeShape
        <4> QED BY <4>1, <4>2, <4>3
      <3> HIDE DEF Staged
      <3> QED BY <1>6, <3>1, <3>2, <3>3
    <2>4. Current' <=> Current
      BY <2>1, <2>2, <1>c
    <2> QED BY <1>a, <1>d, <2>1, <2>2, <2>3, <2>4 DEF Preserved
  <1> QED BY <1>1, <1>2, <1>3, <1>4, <1>5, <1>6 DEF StageFiles

LEMMA CommitKeeps ==
  ASSUME MaterialShape, TreesAreWhole, RecoveryKeeps, SessionKeeps, ~torn', ~blind', HandOff \/ CommitPhase
  PROVE  Preserved
  <1> USE DEF TreesAreWhole, RecoveryKeeps, SessionKeeps, Keeps, Recovering, Staging, Moving,
        Building, Settled, Cleaning
  <1>a. roots \in [Root -> TreeShape] /\ (kept.exists => Complete(kept))
    BY DEF MaterialShape, MaterialTypeOK, TreeShape
  <1>b. /\ "staging" \in Root /\ "instance" \in Root /\ "rollback" \in Root /\ "previous" \in Root
    BY DEF Root
  <1>c. roots'["instance"] = roots["instance"] /\ recipe' = recipe => (Current' <=> Current)
    BY DEF Current, StateOf
  <1>d. Current <=> /\ roots["instance"].exists /\ roots["instance"].owned
                    /\ roots["instance"].recipe = recipe /\ ~(roots["instance"].recipePhase < RuntimePhase)
    BY CurrentMeans
  <1>1. CASE At("handoff") /\ Decide("stage fails")
    <2>1. /\ mpc = "handoff" /\ mpc' = "stage fails" /\ roots' = roots
          /\ UNCHANGED <<kept, recipe, recovered, originalExisted, originalBackedUp, reusedCurrent>>
      BY <1>1 DEF At, Decide, Goto, sessionFlags
    <2>2. Current' <=> Current
      BY <2>1, <1>c
    <2> QED BY <1>a, <1>d, <2>1, <2>2 DEF Preserved
  <1>2. CASE /\ At("handoff") /\ ~originalBackedUp
             /\ \/ /\ ~roots["instance"].exists /\ originalExisted' = FALSE
                   /\ originalBackedUp' = TRUE /\ mpc' = "commit"
                \/ /\ originalExisted' = TRUE /\ mpc' = "stage fails" /\ originalBackedUp' = FALSE
             /\ roots' = roots /\ UNCHANGED <<kept, recipe, recovered, reusedCurrent>>
    <2>1. Current' <=> Current
      BY <1>2, <1>c
    <2> QED BY <1>a, <1>d, <1>2, <2>1 DEF At, Preserved
  <1>3. CASE /\ At("handoff") /\ ~originalBackedUp /\ roots["instance"].owned
             /\ roots' = [roots EXCEPT !["instance"] = NoTree, !["rollback"] = roots["instance"]]
             /\ originalExisted' = TRUE /\ originalBackedUp' = TRUE /\ mpc' = "commit"
             /\ UNCHANGED <<kept, recipe, recovered, reusedCurrent>>
    <2>1. /\ roots'["instance"] = NoTree /\ roots'["rollback"] = roots["instance"]
          /\ roots'["staging"] = roots["staging"] /\ roots'["previous"] = roots["previous"]
      BY <1>3, <1>a, <1>b
    <2>2. /\ mpc = "handoff" /\ ~originalBackedUp /\ originalExisted' = TRUE
          /\ originalBackedUp' = TRUE /\ mpc' = "commit" /\ UNCHANGED <<kept, recipe, recovered, reusedCurrent>>
      BY <1>3 DEF At
    <2>3. ~Current'
      BY <2>1, NoTreeShape DEF Current, StateOf
    <2> QED BY <1>a, <1>d, <2>1, <2>2, <2>3, NoTreeShape DEF Preserved
  <1>4. CASE /\ At("handoff") /\ RenameTree("instance", "previous", "commit later", "stage fails")
             /\ originalBackedUp
    <2>1. mpc = "handoff" /\ Renames("instance", "previous", "commit later", "stage fails")
      BY <1>4, <1>a, <1>b, RenameTreeRenames DEF At
    <2> QED BY <1>a, <1>b, <1>d, <1>4, <2>1, NoTreeShape DEF Renames, sessionFlags, Preserved
  <1>5. CASE HandOff
    <2>1. \/ At("handoff") /\ Decide("stage fails")
          \/ /\ At("handoff") /\ ~originalBackedUp
             /\ \/ /\ ~roots["instance"].exists /\ originalExisted' = FALSE
                   /\ originalBackedUp' = TRUE /\ mpc' = "commit"
                \/ /\ originalExisted' = TRUE /\ mpc' = "stage fails"
                   /\ originalBackedUp' = originalBackedUp
             /\ roots' = roots /\ UNCHANGED <<kept, recipe, recovered, reusedCurrent>>
          \/ /\ At("handoff") /\ ~originalBackedUp /\ roots["instance"].owned
             /\ roots' = [roots EXCEPT !["instance"] = NoTree, !["rollback"] = roots["instance"]]
             /\ originalExisted' = TRUE /\ originalBackedUp' = TRUE /\ mpc' = "commit"
             /\ UNCHANGED <<kept, recipe, recovered, reusedCurrent>>
          \/ /\ At("handoff") /\ RenameTree("instance", "previous", "commit later", "stage fails")
             /\ originalBackedUp
      BY <1>5 DEF HandOff
    <2>2. originalBackedUp \in BOOLEAN
      BY DEF MaterialShape
    <2> QED BY <1>1, <1>2, <1>3, <1>4, <2>1, <2>2
  <1>6. CASE At("commit") /\ RenameTree("staging", "instance", "phase done", "commit fails")
    <2>1. mpc = "commit" /\ Renames("staging", "instance", "phase done", "commit fails")
      BY <1>6, <1>a, <1>b, RenameTreeRenames DEF At
    <2> QED BY <1>a, <1>b, <1>d, <2>1, NoTreeShape DEF Renames, sessionFlags, Preserved
  <1>7. CASE At("commit later") /\ RenameTree("staging", "instance", "advance", "later fails")
    <2>1. mpc = "commit later" /\ Renames("staging", "instance", "advance", "later fails")
      BY <1>7, <1>a, <1>b, RenameTreeRenames DEF At
    <2> QED BY <1>a, <1>b, <1>d, <2>1, NoTreeShape DEF Renames, sessionFlags, Preserved
  <1>8. CASE At("advance") /\ RemoveTree("previous", "phase done", "reverse")
    <2>1. mpc = "advance" /\ Removes("previous", "phase done", "reverse")
      BY <1>8, <1>a, <1>b, RemoveTreeRemoves DEF At
    <2> QED BY <1>a, <1>b, <1>d, <2>1, NoTreeShape DEF Removes, sessionFlags, Preserved
  <1>9. CASE At("later fails") /\ RenameTree("previous", "instance", "reverse", "reverse")
    <2>1. mpc = "later fails" /\ Renames("previous", "instance", "reverse", "reverse")
      BY <1>9, <1>a, <1>b, RenameTreeRenames DEF At
    <2> QED BY <1>a, <1>b, <1>d, <2>1, NoTreeShape DEF Renames, sessionFlags, Preserved
  <1>10. CASE /\ At("commit fails") /\ mpc' = "reverse" /\ UNCHANGED <<kept, originalExisted>>
              /\ originalExisted /\ ~roots["instance"].exists /\ originalBackedUp' = FALSE
              /\ roots' = [roots EXCEPT !["rollback"] = NoTree, !["instance"] = roots["rollback"]]
              /\ UNCHANGED <<kept, recipe, recovered, reusedCurrent>>
    <2>1. /\ roots'["rollback"] = NoTree /\ roots'["instance"] = roots["rollback"]
          /\ roots'["staging"] = roots["staging"] /\ roots'["previous"] = roots["previous"]
      BY <1>10, <1>a, <1>b
    <2>2. /\ mpc = "commit fails" /\ mpc' = "reverse" /\ UNCHANGED originalExisted
          /\ originalBackedUp' = FALSE /\ UNCHANGED <<kept, recipe, recovered, reusedCurrent>>
      BY <1>10 DEF At
    <2>3. kept.exists => kept = roots'["instance"]
      BY <2>1, <2>2
    <2> QED BY <1>a, <1>d, <2>1, <2>2, <2>3, NoTreeShape DEF Preserved
  <1>11. CASE /\ At("commit fails") /\ mpc' = "reverse" /\ roots' = roots
              /\ \/ ~originalExisted /\ originalBackedUp' = FALSE
                 \/ originalBackedUp' = originalBackedUp
              /\ UNCHANGED originalExisted /\ UNCHANGED <<kept, recipe, recovered, reusedCurrent>>
    <2>1. Current' <=> Current
      BY <1>11, <1>c
    <2> QED BY <1>a, <1>d, <1>11, <2>1 DEF At, Preserved
  <1>12. CASE CommitPhase
    <2>1. CASE At("commit fails") /\ mpc' = "reverse"
      BY <1>10, <1>11, <1>12, <2>1 DEF CommitPhase, At
    <2> QED BY <1>6, <1>7, <1>8, <1>9, <1>12, <2>1 DEF CommitPhase
  <1> QED BY <1>5, <1>12

LEMMA ReversalKeeps ==
  ASSUME MaterialShape, TreesAreWhole, RecoveryKeeps, SessionKeeps, ~torn', ~blind', Finalize \/ ReverseApplied
  PROVE  Preserved
  <1> USE DEF TreesAreWhole, RecoveryKeeps, SessionKeeps, Keeps, Recovering, Staging, Moving,
        Building, Settled, Cleaning
  <1>a. roots \in [Root -> TreeShape] /\ (kept.exists => Complete(kept))
    BY DEF MaterialShape, MaterialTypeOK, TreeShape
  <1>b. /\ "staging" \in Root /\ "instance" \in Root /\ "rollback" \in Root /\ "previous" \in Root
    BY DEF Root
  <1>c. roots'["instance"] = roots["instance"] /\ recipe' = recipe => (Current' <=> Current)
    BY DEF Current, StateOf
  <1>d. Current <=> /\ roots["instance"].exists /\ roots["instance"].owned
                    /\ roots["instance"].recipe = recipe /\ ~(roots["instance"].recipePhase < RuntimePhase)
    BY CurrentMeans
  <1>1. CASE /\ At("phase done")
             /\ Decide(IF recipePhase < RuntimePhase THEN "idle"
                       ELSE IF reusedCurrent THEN "finalized"
                       ELSE IF roots["instance"].exists THEN "complete" ELSE "reverse")
    <2>1. /\ mpc = "phase done" /\ roots' = roots /\ UNCHANGED <<kept, recipe, recovered, originalExisted, originalBackedUp, reusedCurrent>>
          /\ \/ mpc' = "idle"
             \/ mpc' = "finalized" /\ reusedCurrent
             \/ mpc' = "complete" /\ ~reusedCurrent /\ roots["instance"].exists
             \/ mpc' = "reverse" /\ ~reusedCurrent
      BY <1>1 DEF At, Decide, Goto, sessionFlags
    <2>2. Current' <=> Current
      BY <2>1, <1>c
    <2> QED BY <1>a, <1>d, <2>1, <2>2 DEF Preserved
  <1>2. CASE /\ At("complete") /\ Goto("release") /\ kept' = kept
             /\ roots' = [roots EXCEPT !["instance"].owned = TRUE, !["instance"].recipe = recipe,
                                       !["instance"].recipePhase = RuntimePhase]
    <2>1. mpc = "complete" /\ mpc' = "release" /\ UNCHANGED <<kept, recipe, recovered, originalExisted, originalBackedUp, reusedCurrent>>
      BY <1>2 DEF At, Goto, sessionFlags
    <2>2. /\ roots'["staging"] = roots["staging"] /\ roots'["rollback"] = roots["rollback"]
          /\ roots'["previous"] = roots["previous"]
      BY <1>2, <1>a, <1>b
    <2>3. /\ roots'["instance"].exists = roots["instance"].exists
          /\ roots'["instance"].owned = TRUE /\ roots'["instance"].recipe = recipe
          /\ roots'["instance"].recipePhase = RuntimePhase
          /\ roots'["instance"].whole = roots["instance"].whole
      BY <1>2, <1>a, <1>b DEF TreeShape
    <2>4. roots["instance"].exists /\ roots["instance"].owned
      BY <2>1
    <2>5. ~(RuntimePhase < RuntimePhase)
      BY LastPhase
    <2>6. Current'
      BY <2>1, <2>3, <2>4, <2>5 DEF Current, StateOf
    <2>7. roots'["instance"].exists /\ roots'["instance"].owned /\ roots'["instance"].whole
      BY <2>3, <2>4
    <2> QED BY <1>a, <1>d, <2>1, <2>2, <2>6, <2>7 DEF Preserved
  <1>3. CASE At("complete") /\ Goto("reverse") /\ UNCHANGED <<roots, kept>>
    <2>1. /\ mpc = "complete" /\ roots' = roots /\ UNCHANGED <<kept, recipe, recovered, originalExisted, originalBackedUp, reusedCurrent>>
          /\ mpc' = "reverse"
      BY <1>3 DEF At, Decide, Goto, sessionFlags
    <2>2. Current' <=> Current
      BY <2>1, <1>c
    <2> QED BY <1>a, <1>d, <2>1, <2>2 DEF Preserved
  <1>4. CASE /\ At("release") /\ RemoveTree("rollback", "finalized", "reverse")
             /\ originalBackedUp /\ originalExisted
    <2>1. mpc = "release" /\ Removes("rollback", "finalized", "reverse")
      BY <1>4, <1>a, <1>b, RemoveTreeRemoves DEF At
    <2> QED BY <1>a, <1>b, <1>d, <1>4, <2>1, NoTreeShape DEF Removes, sessionFlags, Preserved
  <1>5. CASE At("release") /\ Decide("finalized") /\ ~(originalBackedUp /\ originalExisted)
    <2>1. /\ mpc = "release" /\ roots' = roots /\ UNCHANGED <<kept, recipe, recovered, originalExisted, originalBackedUp, reusedCurrent>>
          /\ mpc' = "finalized" /\ ~(originalBackedUp /\ originalExisted)
      BY <1>5 DEF At, Decide, Goto, sessionFlags
    <2>2. Current' <=> Current
      BY <2>1, <1>c
    <2> QED BY <1>a, <1>d, <2>1, <2>2 DEF Preserved
  <1>6. CASE Finalize
    <2>1. CASE At("complete")
      <3>1. \/ /\ Goto("release") /\ kept' = kept
               /\ roots' = [roots EXCEPT !["instance"].owned = TRUE, !["instance"].recipe = recipe,
                                         !["instance"].recipePhase = RuntimePhase]
            \/ Goto("reverse") /\ UNCHANGED <<roots, kept>>
        BY <1>6, <2>1 DEF Finalize, At
      <3> QED BY <2>1, <3>1, <1>2, <1>3
    <2>2. CASE At("release")
      <3>1. IF originalBackedUp /\ originalExisted
            THEN RemoveTree("rollback", "finalized", "reverse") ELSE Decide("finalized")
        BY <1>6, <2>2 DEF Finalize, At
      <3> QED BY <2>2, <3>1, <1>4, <1>5
    <2> QED BY <1>6, <1>1, <2>1, <2>2 DEF Finalize
  <1>7. CASE At("reverse") /\ RemoveTree("staging", "reverse phase", "failed")
    <2>1. mpc = "reverse" /\ Removes("staging", "reverse phase", "failed")
      BY <1>7, <1>a, <1>b, RemoveTreeRemoves DEF At
    <2> QED BY <1>a, <1>b, <1>d, <2>1, NoTreeShape DEF Removes, sessionFlags, Preserved
  <1>8. CASE /\ At("reverse phase") /\ RemoveTree("instance", "reverse previous", "failed")
             /\ roots["previous"].exists
    <2>1. mpc = "reverse phase" /\ Removes("instance", "reverse previous", "failed")
      BY <1>8, <1>a, <1>b, RemoveTreeRemoves DEF At
    <2> QED BY <1>a, <1>b, <1>d, <1>8, <2>1, NoTreeShape DEF Removes, sessionFlags, Preserved
  <1>9. CASE At("reverse phase") /\ Decide("reverse all") /\ ~roots["previous"].exists
    <2>1. /\ mpc = "reverse phase" /\ roots' = roots /\ UNCHANGED <<kept, recipe, recovered, originalExisted, originalBackedUp, reusedCurrent>>
          /\ mpc' = "reverse all" /\ ~roots["previous"].exists
      BY <1>9 DEF At, Decide, Goto, sessionFlags
    <2>2. Current' <=> Current
      BY <2>1, <1>c
    <2> QED BY <1>a, <1>d, <2>1, <2>2 DEF Preserved
  <1>10. CASE /\ At("reverse previous") /\ RenameTree("previous", "instance", "reverse all", "failed")
            
  <2>1. mpc = "reverse previous" /\ Renames("previous", "instance", "reverse all", "failed")
    BY <1>10, <1>a, <1>b, RenameTreeRenames DEF At
  <2> QED BY <1>a, <1>b, <1>d, <2>1, NoTreeShape DEF Renames, sessionFlags, Preserved
  <1>11. CASE /\ At("reverse all") /\ RemoveTree("instance", "reverse original", "failed")
              /\ originalBackedUp
    <2>1. mpc = "reverse all" /\ Removes("instance", "reverse original", "failed")
      BY <1>11, <1>a, <1>b, RemoveTreeRemoves DEF At
    <2> QED BY <1>a, <1>b, <1>d, <1>11, <2>1, NoTreeShape DEF Removes, sessionFlags, Preserved
  <1>12. CASE At("reverse all") /\ Decide("failed")
    <2>1. /\ mpc = "reverse all" /\ roots' = roots /\ UNCHANGED <<kept, recipe, recovered, originalExisted, originalBackedUp, reusedCurrent>>
          /\ mpc' = "failed"
      BY <1>12 DEF At, Decide, Goto, sessionFlags
    <2>2. Current' <=> Current
      BY <2>1, <1>c
    <2> QED BY <1>a, <1>d, <2>1, <2>2 DEF Preserved
  <1>13. CASE /\ At("reverse original") /\ mpc' = "failed" /\ originalExisted
              /\ roots' = [roots EXCEPT !["rollback"] = NoTree, !["instance"] = roots["rollback"]]
              /\ originalBackedUp' = FALSE /\ UNCHANGED <<kept, recipe, recovered, originalExisted, reusedCurrent>>
    <2>1. /\ roots'["rollback"] = NoTree /\ roots'["instance"] = roots["rollback"]
          /\ roots'["staging"] = roots["staging"] /\ roots'["previous"] = roots["previous"]
      BY <1>13, <1>a, <1>b
    <2>2. /\ mpc = "reverse original" /\ mpc' = "failed" /\ originalBackedUp' = FALSE
          /\ UNCHANGED <<kept, recipe, recovered, originalExisted, reusedCurrent>>
      BY <1>13 DEF At
    <2>3. kept.exists => kept = roots'["instance"]
      BY <2>1, <2>2
    <2> QED BY <1>a, <1>d, <2>1, <2>2, <2>3, NoTreeShape DEF Preserved
  <1>14. CASE /\ At("reverse original") /\ mpc' = "failed" /\ ~originalExisted
              /\ roots' = [roots EXCEPT !["rollback"] = NoTree]
              /\ originalBackedUp' = FALSE /\ UNCHANGED <<kept, recipe, recovered, originalExisted, reusedCurrent>>
    <2>1. /\ roots'["rollback"] = NoTree /\ roots'["instance"] = roots["instance"]
          /\ roots'["staging"] = roots["staging"] /\ roots'["previous"] = roots["previous"]
      BY <1>14, <1>a, <1>b
    <2>2. /\ mpc = "reverse original" /\ mpc' = "failed" /\ originalBackedUp' = FALSE
          /\ ~originalExisted /\ UNCHANGED <<kept, recipe, recovered, originalExisted, reusedCurrent>>
      BY <1>14 DEF At
    <2>3. Current' <=> Current
      BY <2>1, <2>2, <1>c
    <2> QED BY <1>a, <1>d, <2>1, <2>2, <2>3, NoTreeShape DEF Preserved
  <1>15. CASE /\ At("reverse original") /\ mpc' = "failed" /\ roots' = roots
              /\ originalBackedUp' = originalBackedUp /\ UNCHANGED <<kept, recipe, recovered, originalExisted, reusedCurrent>>
    <2>1. Current' <=> Current
      BY <1>15, <1>c
    <2> QED BY <1>a, <1>d, <1>15, <2>1 DEF At, Preserved
  <1>16. CASE ReverseApplied
    <2>1. CASE At("reverse original")
      <3>1. /\ mpc' = "failed" /\ UNCHANGED <<kept, recipe, recovered, originalExisted, reusedCurrent>>
            /\ \/ /\ originalExisted /\ originalBackedUp' = FALSE
                  /\ roots' = [roots EXCEPT !["rollback"] = NoTree, !["instance"] = roots["rollback"]]
               \/ /\ ~originalExisted /\ originalBackedUp' = FALSE
                  /\ roots' = [roots EXCEPT !["rollback"] = NoTree]
               \/ roots' = roots /\ originalBackedUp' = originalBackedUp
        BY <1>16, <2>1 DEF ReverseApplied, At
      <3> QED BY <2>1, <3>1, <1>13, <1>14, <1>15
    <2>2. CASE At("reverse phase")
      <3>1. IF roots["previous"].exists THEN RemoveTree("instance", "reverse previous", "failed")
            ELSE Decide("reverse all")
        BY <1>16, <2>2 DEF ReverseApplied, At
      <3> QED BY <2>2, <3>1, <1>8, <1>9
    <2>3. CASE At("reverse all")
      <3>1. IF originalBackedUp THEN RemoveTree("instance", "reverse original", "failed")
            ELSE Decide("failed")
        BY <1>16, <2>3 DEF ReverseApplied, At
      <3> QED BY <2>3, <3>1, <1>11, <1>12
    <2> QED BY <1>16, <1>7, <1>10, <2>1, <2>2, <2>3 DEF ReverseApplied
  <1> QED BY <1>6, <1>16

LEMMA SessionsKeep ==
  ASSUME MaterialShape, TreesAreWhole, RecoveryKeeps, SessionKeeps, ~torn', ~blind', Rollback \/ Cleanup \/ NextSession
  PROVE  Preserved
  <1> USE DEF TreesAreWhole, RecoveryKeeps, SessionKeeps, Keeps, Recovering, Staging, Moving,
        Building, Settled, Cleaning
  <1>a. roots \in [Root -> TreeShape] /\ (kept.exists => Complete(kept))
    BY DEF MaterialShape, MaterialTypeOK, TreeShape
  <1>b. /\ "staging" \in Root /\ "instance" \in Root /\ "rollback" \in Root /\ "previous" \in Root
    BY DEF Root
  <1>c. roots'["instance"] = roots["instance"] /\ recipe' = recipe => (Current' <=> Current)
    BY DEF Current, StateOf
  <1>d. Current <=> /\ roots["instance"].exists /\ roots["instance"].owned
                    /\ roots["instance"].recipe = recipe /\ ~(roots["instance"].recipePhase < RuntimePhase)
    BY CurrentMeans
  <1>1. CASE Rollback
    <2>1. /\ mpc \in {"idle", "failed"} /\ mpc' = (IF reusedCurrent THEN "failed" ELSE "reverse")
          /\ recovered /\ roots' = roots /\ UNCHANGED <<kept, recipe, recovered, originalExisted, originalBackedUp, reusedCurrent>>
      BY <1>1 DEF Rollback
    <2>2. Current' <=> Current
      BY <2>1, <1>c
    <2> QED BY <1>a, <1>d, <2>1, <2>2 DEF Preserved
  <1>2. CASE /\ mpc \in {"idle", "failed", "finalized"} /\ kept' = NoTree
             /\ Goto("clean staging") /\ UNCHANGED <<roots, torn>>
    <2>1. /\ mpc \in {"idle", "failed", "finalized"} /\ mpc' = "clean staging" /\ roots' = roots
          /\ UNCHANGED <<recipe, recovered, originalExisted, originalBackedUp, reusedCurrent>>
          /\ kept' = NoTree
      BY <1>2 DEF Goto, sessionFlags
    <2>2. Current' <=> Current
      BY <2>1, <1>c
    <2> QED BY <1>a, <1>d, <2>1, <2>2, NoTreeShape DEF Preserved
  <1>3. CASE At("clean staging") /\ RemoveTree("staging", "clean previous", "cleaned")
    <2>1. mpc = "clean staging" /\ Removes("staging", "clean previous", "cleaned")
      BY <1>3, <1>a, <1>b, RemoveTreeRemoves DEF At
    <2> QED BY <1>a, <1>b, <1>d, <2>1, NoTreeShape DEF Removes, sessionFlags, Preserved
  <1>4. CASE At("clean previous") /\ RemoveTree("previous", "clean instance", "cleaned")
    <2>1. mpc = "clean previous" /\ Removes("previous", "clean instance", "cleaned")
      BY <1>4, <1>a, <1>b, RemoveTreeRemoves DEF At
    <2> QED BY <1>a, <1>b, <1>d, <2>1, NoTreeShape DEF Removes, sessionFlags, Preserved
  <1>5. CASE At("clean instance") /\ RemoveTree("instance", "clean rollback", "cleaned")
    <2>1. mpc = "clean instance" /\ Removes("instance", "clean rollback", "cleaned")
      BY <1>5, <1>a, <1>b, RemoveTreeRemoves DEF At
    <2> QED BY <1>a, <1>b, <1>d, <2>1, NoTreeShape DEF Removes, sessionFlags, Preserved
  <1>6. CASE At("clean rollback") /\ RemoveTree("rollback", "cleaned", "cleaned")
    <2>1. mpc = "clean rollback" /\ Removes("rollback", "cleaned", "cleaned")
      BY <1>6, <1>a, <1>b, RemoveTreeRemoves DEF At
    <2> QED BY <1>a, <1>b, <1>d, <2>1, NoTreeShape DEF Removes, sessionFlags, Preserved
  <1>7. CASE NextSession
    <2>1. /\ mpc' = "idle" /\ recovered' = FALSE /\ originalExisted' = FALSE
          /\ originalBackedUp' = FALSE /\ reusedCurrent' = FALSE
      BY <1>7 DEF NextSession, NewSession
    <2>2. roots' = roots
      BY <1>7 DEF NextSession
    <2>3. kept' = IF ~kept.exists \/ kept \in {roots["instance"], roots["rollback"]} THEN kept
                  ELSE IF Complete(roots["instance"]) THEN roots["instance"] ELSE kept
      BY <1>7, <2>2 DEF NextSession
    <2>4. Current => Complete(roots["instance"])
      BY <1>a, <1>d, CurrentIsComplete
    <2>5. kept'.exists => /\ kept' \in {roots["instance"], roots["rollback"]}
                          /\ roots["rollback"].exists => kept' = roots["rollback"]
      BY <2>3, <2>4
    <2> QED BY <1>a, <2>1, <2>2, <2>5 DEF Preserved
  <1>8. CASE Cleanup
    BY <1>8, <1>2, <1>3, <1>4, <1>5, <1>6 DEF Cleanup
  <1> QED BY <1>1, <1>7, <1>8

LEMMA MaterialStep == MaterialInv /\ [MaterialNext]_materialVars => MaterialInv'
  <1> SUFFICES ASSUME MaterialInv, [MaterialNext]_materialVars PROVE MaterialInv'
    OBVIOUS
  <1>1. MaterialShape /\ MaterialShape'
    BY MaterialShapeStep DEF MaterialInv
  <1>2. ASSUME ~torn', ~blind' PROVE Preserved
    <2>1. ~torn /\ ~blind
      <3>1. torn => torn'
        <4>1. \A r, next, onError : RemoveTree(r, next, onError) => (torn => torn')
          BY DEF RemoveTree
        <4>2. \A from, to, next, onError : RenameTree(from, to, next, onError) => torn' = torn
          BY DEF RenameTree
        <4>3. \A next : Decide(next) => torn' = torn
          BY DEF Decide
        <4>4. CASE UNCHANGED materialVars \/ ExecutePhase \/ EnsureRecovered \/ Rollback \/ NextSession
          BY <4>4 DEF materialVars, ExecutePhase, EnsureRecovered, Rollback, NextSession
        <4>5. CASE Recover \/ StageFiles \/ HandOff \/ Cleanup
          BY <4>1, <4>2, <4>3, <4>5 DEF Recover, StageFiles, HandOff, Cleanup
        <4>6. CASE CommitPhase \/ Finalize \/ ReverseApplied
          BY <4>1, <4>2, <4>3, <4>6 DEF CommitPhase, Finalize, ReverseApplied
        <4> QED BY <4>4, <4>5, <4>6 DEF MaterialNext
      <3>2. blind => blind'
        <4>1. \A next : Goto(next) => blind' = blind
          BY DEF Goto, sessionFlags
        <4>2. /\ \A r, next, onError : RemoveTree(r, next, onError) => blind' = blind
              /\ \A from, to, next, onError : RenameTree(from, to, next, onError) => blind' = blind
              /\ \A next : Decide(next) => blind' = blind
          BY <4>1 DEF RemoveTree, RenameTree, Decide
        <4>3. CASE UNCHANGED materialVars \/ ExecutePhase \/ EnsureRecovered \/ Rollback \/ NextSession
          BY <4>3 DEF materialVars, sessionFlags, ExecutePhase, EnsureRecovered, Rollback, NextSession
        <4>4. CASE Recover \/ StageFiles \/ HandOff \/ Cleanup
          BY <4>1, <4>2, <4>4 DEF Recover, StageFiles, HandOff, Cleanup
        <4>5. CASE CommitPhase \/ Finalize \/ ReverseApplied
          BY <4>1, <4>2, <4>5 DEF CommitPhase, Finalize, ReverseApplied
        <4> QED BY <4>3, <4>4, <4>5 DEF MaterialNext
      <3> QED BY <1>2, <3>1, <3>2
    <2>2. TreesAreWhole /\ RecoveryKeeps /\ SessionKeeps
      BY <2>1 DEF MaterialInv
    <2>3. CASE UNCHANGED materialVars
      <3>1. UNCHANGED <<roots, recipe, mpc, kept, recovered, originalExisted, originalBackedUp,
                        reusedCurrent>>
        BY <2>3 DEF materialVars, sessionFlags
      <3>2. Current' <=> Current
        BY <3>1, CurrentStays
      <3>3. TreesAreWhole'
        BY <2>2, <3>1 DEF TreesAreWhole
      <3>4. RecoveryKeeps'
        BY <2>2, <3>1, <3>2 DEF RecoveryKeeps, Keeps
      <3>5. SessionKeeps'
        BY <2>2, <3>1, <3>2 DEF SessionKeeps, Keeps
      <3> QED BY <3>3, <3>4, <3>5 DEF Preserved
    <2>4. CASE Recover
      BY <1>1, <1>2, <2>2, <2>4, RecoverKeeps
    <2>5. CASE ExecutePhase \/ EnsureRecovered \/ StageFiles
      BY <1>1, <1>2, <2>2, <2>5, PhaseKeeps
    <2>6. CASE HandOff \/ CommitPhase
      BY <1>1, <1>2, <2>2, <2>6, CommitKeeps
    <2>7. CASE Finalize \/ ReverseApplied
      BY <1>1, <1>2, <2>2, <2>7, ReversalKeeps
    <2>8. CASE Rollback \/ Cleanup \/ NextSession
      BY <1>1, <1>2, <2>2, <2>8, SessionsKeep
    <2> QED BY <2>3, <2>4, <2>5, <2>6, <2>7, <2>8 DEF MaterialNext
  <1> QED BY <1>1, <1>2 DEF MaterialInv, Preserved

LEMMA MaterialInvSuffices == MaterialInv => MaterialTypeOK /\ InstanceIsKept
  BY CurrentMeans
  DEF MaterialInv, MaterialShape, TreesAreWhole, RecoveryKeeps, InstanceIsKept, Current

(* Wherever a materialization fails, is rolled back or crashes, the         *)
(* instance that was there is kept whole until another one is complete in   *)
(* its place (materializeThrough, recoverInterruptedMaterialization,        *)
(* reverseApplied).                                                         *)
THEOREM MaterializationSafe == MaterialSpec => [](MaterialTypeOK /\ InstanceIsKept)
  BY MaterialInvSuffices, MaterialStart, MaterialStep, PTL DEF MaterialSpec

-----------------------------------------------------------------------------
(* The components together: one of them runs, with its invariant, and the    *)
(* others stay as they are.                                                  *)
SetupInv ==
  /\ part = "installer" => InstallerInv
  /\ part = "setup" => BootstrapInv
  /\ part = "exchange" => PortableInv
  /\ part = "profiles" => ProfileInv
  /\ part = "migration" => MigrationInv
  /\ part = "startup" => StartupInv
  /\ part = "materialization" => MaterialInv

LEMMA SetupStarts == ComponentsInit => SetupInv
  <1> SUFFICES ASSUME ComponentsInit PROVE SetupInv
    OBVIOUS
  <1>1. /\ part = "installer" => InstallerInit
        /\ part = "setup" => BootstrapInit
        /\ part = "exchange" => PortableInit
        /\ part = "profiles" => ProfileInit
        /\ part = "migration" => MigrationInit
        /\ part = "startup" => StartupInit
        /\ part = "materialization" => MaterialInit
    BY Zenon DEF ComponentsInit
  <1> QED
    BY <1>1, InstallerStart, BootstrapStart, PortableStart, ProfileStart, MigrationStart,
       StartupStart, MaterialStart DEF SetupInv

(* A step leaves every part what it is, or is one of the part that runs.     *)
LEMMA StepOfThePart ==
  ASSUME [ComponentsNext]_componentsVars
  PROVE  /\ part' = part
         /\ part = "installer" => [InstallerNext]_installerVars
         /\ part = "setup" => [BootstrapNext]_bootstrapVars
         /\ part = "exchange" => [PortableNext]_portableVars
         /\ part = "profiles" => [ProfileNext]_profileVars
         /\ part = "migration" => [MigrationNext]_migrationVars
         /\ part = "startup" => [StartupNext]_startupVars
         /\ part = "materialization" => [MaterialNext]_materialVars
  <1>1. CASE UNCHANGED componentsVars
    <2>1. UNCHANGED <<part, installerVars, bootstrapVars, portableVars, profileVars,
                      migrationVars, startupVars, materialVars>>
      BY <1>1 DEF componentsVars
    <2> QED BY <2>1
  <1>2. CASE ComponentsNext
    <2>1. part' = part
      BY <1>2 DEF ComponentsNext, PartsStill
    <2>2. /\ part = "installer" => InstallerNext
          /\ part = "setup" => BootstrapNext
          /\ part = "exchange" => PortableNext
          /\ part = "profiles" => ProfileNext
      BY <1>2 DEF ComponentsNext
    <2>3. /\ part = "migration" => MigrationNext
          /\ part = "startup" => StartupNext
          /\ part = "materialization" => MaterialNext
      BY <1>2 DEF ComponentsNext
    <2> QED BY <2>1, <2>2, <2>3
  <1> QED BY <1>1, <1>2

LEMMA SetupSteps == SetupInv /\ [ComponentsNext]_componentsVars => SetupInv'
  <1> SUFFICES ASSUME SetupInv, [ComponentsNext]_componentsVars PROVE SetupInv'
    OBVIOUS
  <1>1. part' = part
    BY StepOfThePart
  <1>2. part = "installer" => InstallerInv'
    BY StepOfThePart, InstallerStep DEF SetupInv
  <1>3. part = "setup" => BootstrapInv'
    BY StepOfThePart, BootstrapStep DEF SetupInv
  <1>4. part = "exchange" => PortableInv'
    BY StepOfThePart, PortableStep DEF SetupInv
  <1>5. part = "profiles" => ProfileInv'
    BY StepOfThePart, ProfileStep DEF SetupInv
  <1>6. part = "migration" => MigrationInv'
    BY StepOfThePart, MigrationStep DEF SetupInv
  <1>7. part = "startup" => StartupInv'
    BY StepOfThePart, StartupStep DEF SetupInv
  <1>8. part = "materialization" => MaterialInv'
    BY StepOfThePart, MaterialStep DEF SetupInv
  <1> QED BY <1>1, <1>2, <1>3, <1>4, <1>5, <1>6, <1>7, <1>8 DEF SetupInv

LEMMA SetupInvSuffices == SetupInv => SetupAccountedFor
  <1> SUFFICES ASSUME SetupInv PROVE SetupAccountedFor
    OBVIOUS
  <1>1. /\ InstallerInv => InstallationAccountedFor
        /\ BootstrapInv => SetupDoesAsConfirmed
        /\ StartupInv => RegistrationAccountedFor
    BY DEF InstallerInv, BootstrapInv, StartupInv
  <1>2. MigrationInv => BundlesSurvive
    BY PlannedSharingIsDeclared DEF MigrationInv, BundlesSurvive
  <1> QED
    BY <1>1, <1>2, PortableInvSuffices, PlansResolve, MaterialInvSuffices
    DEF SetupInv, SetupAccountedFor

(* An installation is whole or has a journal, the bootstrap does what was    *)
(* confirmed, the answer about the start-up registration is true, a bundle   *)
(* of documents survives its migration, the choices in it resolve to what     *)
(* the plans were compiled from, a setup from another machine is the one      *)
(* exported, and an instance is kept until another is complete in its place.  *)
THEOREM SetupStaysAccountedFor == ComponentsSpec => []SetupAccountedFor
  BY SetupStarts, SetupSteps, SetupInvSuffices, PTL DEF ComponentsSpec
=============================================================================

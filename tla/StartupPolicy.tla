--------------------------- MODULE StartupPolicy ---------------------------
(***************************************************************************)
(* The start of the host at logon: how the registration of it is changed,  *)
(* and what a logon makes of the registration it finds.  The store is      *)
(* external: a change may have happened although it reports failure, and   *)
(* may not have happened although it reports success; verify() tells the   *)
(* truth when it says yes.                                                 *)
(***************************************************************************)
EXTENDS Naturals

CONSTANT StartupSession      \* sessions that can be validated

StartupModes == {"Manual", "BackgroundIdle", "AutoActivate"}

NoSession == "none"

StartupConfig ==
  [mode : StartupModes, approved : BOOLEAN, session : StartupSession \cup {NoSession}]

(* No registration: nothing starts, as with a manual configuration.        *)
Unregistered == [mode |-> "Manual", approved |-> FALSE, session |-> NoSession]

ValidStartupConfig(config) ==
  IF config.mode = "AutoActivate"
    THEN config.approved /\ config.session # NoSession
    ELSE config.session = NoSession

MayRegister(config) ==
  ValidStartupConfig(config) /\ (config.mode # "Manual" => config.approved)

VARIABLES
  registration,      \* what the store holds
  changing,          \* the place of updateRegistration
  desired, priorConfig,    \* its argument, and what it read first
  registered,        \* its answer
  logon              \* what the last logon did, and for which session

startupVars == <<registration, changing, desired, priorConfig, registered, logon>>

Registered == {"none", "Success", "ReadFailed", "RolledBack", "RollbackFailed"}

Logon == [action : {"DoNotStart", "ReuseExistingHost", "StartBackgroundIdle",
                    "AutoActivate"},
          session : StartupSession \cup {NoSession}]

StartupInit ==
  /\ registration \in {config \in StartupConfig : MayRegister(config)}
  /\ registration.mode = "Manual" => registration = Unregistered
  /\ changing = "idle" /\ desired = Unregistered /\ priorConfig = Unregistered
  /\ registered = "none"
  /\ logon = [action |-> "DoNotStart", session |-> NoSession]

-----------------------------------------------------------------------------
RegisterAnswers(code) == changing' = "idle" /\ registered' = code

BeginRegistration ==
  /\ changing = "idle"
  /\ \E config \in {c \in StartupConfig : MayRegister(c)} :
       desired' = IF config.mode = "Manual" THEN Unregistered ELSE config
  /\ \/ priorConfig' = registration /\ changing' = "change" /\ registered' = "none"
     \/ UNCHANGED priorConfig /\ RegisterAnswers("ReadFailed")
  /\ UNCHANGED <<registration, logon>>

ChangeRegistration ==
  /\ changing = "change"
  /\ registration' \in {registration, desired}
  /\ changing' \in {"verify", "restore"}
  /\ UNCHANGED <<desired, priorConfig, registered, logon>>

VerifyRegistration ==
  /\ changing = "verify"
  /\ \/ registration = desired /\ RegisterAnswers("Success")
     \/ changing' = "restore" /\ UNCHANGED registered
  /\ UNCHANGED <<registration, desired, priorConfig, logon>>

RestoreRegistration ==
  /\ changing = "restore"
  /\ registration' \in {registration, priorConfig}
  /\ \/ changing' = "verifyRestore" /\ UNCHANGED registered
     \/ RegisterAnswers("RollbackFailed")
  /\ UNCHANGED <<desired, priorConfig, logon>>

(* Mutant of VerifyRestored: restoring is not verified.                    *)
VerifyRestoredTrusting ==
  /\ changing = "verifyRestore"
  /\ RegisterAnswers("RolledBack")
  /\ UNCHANGED <<registration, desired, priorConfig, logon>>

VerifyRestored ==
  /\ changing = "verifyRestore"
  /\ \/ registration = priorConfig /\ RegisterAnswers("RolledBack")
     \/ RegisterAnswers("RollbackFailed")
  /\ UNCHANGED <<registration, desired, priorConfig, logon>>

(* evaluateStartup, for any number of hosts that run already; `safe' says  *)
(* that journal, safe mode, topology, capabilities, recovery and the       *)
(* session's own validation all permit it.                                 *)
Decision(config, hosts, safe) ==
  LET Do(action) == [action |-> action, session |-> NoSession] IN
  CASE ~MayRegister(config) \/ config.mode = "Manual" \/ hosts > 1 -> Do("DoNotStart")
    [] MayRegister(config) /\ config.mode # "Manual" /\ hosts = 1 ->
         Do("ReuseExistingHost")
    [] MayRegister(config) /\ hosts = 0
         /\ (config.mode = "BackgroundIdle" \/ ~safe) ->
         Do("StartBackgroundIdle")
    [] OTHER -> [action |-> "AutoActivate", session |-> config.session]

LogOn ==
  /\ \E hosts \in 0..2, safe \in BOOLEAN : logon' = Decision(registration, hosts, safe)
  /\ UNCHANGED <<registration, changing, desired, priorConfig, registered>>

StartupNext ==
  \/ BeginRegistration \/ ChangeRegistration \/ VerifyRegistration
  \/ RestoreRegistration \/ VerifyRestored \/ LogOn

StartupSpec == StartupInit /\ [][StartupNext]_startupVars

-----------------------------------------------------------------------------
(* Type invariant of the startup registration.                             *)
StartupTypeOK ==
  /\ registration \in StartupConfig /\ desired \in StartupConfig
  /\ priorConfig \in StartupConfig /\ registered \in Registered
  /\ changing \in {"idle", "change", "verify", "restore", "verifyRestore"}
  /\ logon \in Logon

(* The answer about a change tells which registration the next logon will  *)
(* find, whichever of the store's operations fail or claim too much.       *)
RegistrationAccountedFor ==
  changing = "idle" =>
    /\ registered = "Success" => registration = desired
    /\ registered = "RolledBack" => registration = priorConfig
=============================================================================

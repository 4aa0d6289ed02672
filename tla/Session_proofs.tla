---------------------------- MODULE Session_proofs ----------------------------
(***************************************************************************)
(* What the host (HostControl) and its launcher (GameLauncher) do with the  *)
(* authority of the Seats, whose own theorems are in SeatAuthority_proofs.  *)
(***************************************************************************)
EXTENDS HostControl, GameLauncher, SeatAuthority_proofs

-----------------------------------------------------------------------------
(***************************************************************************)
(* The host's invariants hold for any number of connections, Seats,        *)
(* devices, controllers, titles and processes, and for every interleaving  *)
(* of handlers, disconnections, launches, reassignments and crashes.       *)
(*                                                                         *)
(* ControlInv is inductive; what the runs check is not, because a handler  *)
(* is two steps with others between them.  Three facts close the gaps:     *)
(* a request is only handled while its connection holds the Seat's UI      *)
(* lease (RequestsAreHeld), which nothing but that connection gives back;  *)
(* at most one launch runs, on a Seat without a game (LaunchInProgress);   *)
(* and so a title still to be shown is that of the connection's own game   *)
(* if one is there at all (PresentsOwnGame).                               *)
(***************************************************************************)


(* A host that is down has no session and no lease.                        *)
DownIsEmpty ==
  hostState = "down" =>
    /\ \A c \in Conn : session[c] = "none"
    /\ \A s \in Seat : leases[s] = {}

(* While a handler runs its session stays, and so does the lease it needs: *)
(* only the session itself gives a lease back, between two frames.         *)
RequestsAreHeld ==
  \A c \in Conn :
    request[c] # NONE => session[c] = "control" /\ held[c][request[c].seat] # 0

(* The launcher's mutex is held by the one launch that is going on, of a   *)
(* Seat without a game; what the launcher records is a game's token.       *)
LaunchInProgress ==
  /\ launching # NONE => Handling(launching, "launch")
  /\ \A c \in Conn :
       Handling(c, "launch") => launching = c /\ game[request[c].seat] = NONE
  /\ \A s \in Seat : game[s] # NONE => game[s].token.class = "game"

(* A title that is still to be shown is that of the Seat's game, if the    *)
(* game is still there: no other connection can launch one on that Seat.   *)
PresentsOwnGame ==
  \A c \in Conn :
    Handling(c, "present") /\ game[request[c].seat] # NONE =>
      game[request[c].seat].title = request[c].title

ControlInv ==
  /\ AuthorityInv /\ ControlTypeOK /\ DownIsEmpty
  /\ RequestsAreHeld /\ LaunchInProgress
  /\ LeaseBelongsToOneConnection /\ LauncherOwnsGameLease
  /\ PresentsOwnGame /\ TitleOfRunningGame
  /\ AssignmentsExclusiveAndDurable
  /\ BindingFollowsAssignment /\ GameHasItsController

USE AuthorityAssumption, BindingAssumption, HostAssumption, AbsentRequest

(* The kind of a request tells its fields.                                 *)
LEMMA RequestFields ==
  ASSUME NEW r \in Request
  PROVE  /\ r # NONE /\ r.seat \in Seat
         /\ r.kind = "configure" => r \in ConfigureRequest
         /\ r.kind = "pair" => r \in PairRequest
         /\ r.kind \in {"launch", "present"} => r \in LaunchRequest
  BY DEF Request, ConfigureRequest, PairRequest, LaunchRequest

LEMMA GameFields ==
  ASSUME NEW g \in Game
  PROVE  g # NONE /\ g.token \in ActivationToken /\ g.title \in Title /\ g.exited \in BOOLEAN
  BY DEF Game

LEMMA ControlInitEstablishes == ControlInit => ControlInv
  <1> SUFFICES ASSUME ControlInit PROVE ControlInv
    OBVIOUS
  <1>1. AuthorityInv
    BY InitEstablishes DEF ControlInit
  <1>2. ControlTypeOK
    <2>1. NoHardware \in Hardware /\ UnseenSlot \in SlotMemory
      BY DEF NoHardware, Hardware, SlotMemory, UnseenSlot, SourceGeneration
    <2>2. /\ revision \in 0..MaxRevision
          /\ held \in [Conn -> [Seat -> 0..MaxGeneration]]
      BY DEF ControlInit
    <2> QED BY <1>1, <2>1, <2>2 DEF ControlInit, ControlTypeOK, AuthorityInv
  <1>3. /\ DownIsEmpty /\ RequestsAreHeld /\ LaunchInProgress
        /\ PresentsOwnGame /\ TitleOfRunningGame
    BY DEF ControlInit, DownIsEmpty, RequestsAreHeld, LaunchInProgress,
       PresentsOwnGame, TitleOfRunningGame, Handling
  <1>4. LeaseBelongsToOneConnection /\ LauncherOwnsGameLease
    BY DEF ControlInit, AuthorityInit, LeaseBelongsToOneConnection,
       LauncherOwnsGameLease
  <1>5. /\ AssignmentsExclusiveAndDurable
        /\ BindingFollowsAssignment /\ GameHasItsController
    BY DEF ControlInit, AuthorityInit, AssignmentsExclusiveAndDurable, Exclusive,
       BindingFollowsAssignment, GameHasItsController, NoHardware
  <1> QED BY <1>1, <1>2, <1>3, <1>4, <1>5 DEF ControlInv

(* What only concerns the hardware, the sessions, or the games stays as    *)
(* long as what it speaks of does.                                         *)
LEMMA AuthorityStays ==
  ASSUME AuthorityInv, UNCHANGED authorityVars
  PROVE  AuthorityInv'
  BY DEF authorityVars, AuthorityInv, AuthorityTypeOK, NoOrphanAuthority,
     ExclusiveOwnership, SameControllerSource, Active

LEMMA AssignmentsStay ==
  ASSUME AssignmentsExclusiveAndDurable, UNCHANGED <<config, disk>>,
         hostState = "down" => hostState' = "down"
  PROVE  AssignmentsExclusiveAndDurable'
  BY DEF AssignmentsExclusiveAndDurable, Exclusive

LEMMA BindingsStay ==
  ASSUME BindingFollowsAssignment, GameHasItsController,
         UNCHANGED <<config, leases, binding>>
  PROVE  BindingFollowsAssignment' /\ GameHasItsController'
  BY DEF BindingFollowsAssignment, GameHasItsController

LEMMA GamesStay ==
  ASSUME LaunchInProgress, PresentsOwnGame, TitleOfRunningGame,
         UNCHANGED <<request, launching, game, presentation>>
  PROVE  LaunchInProgress' /\ PresentsOwnGame' /\ TitleOfRunningGame'
  BY DEF LaunchInProgress, PresentsOwnGame, TitleOfRunningGame, Handling

LEMMA LeasesStay ==
  ASSUME LeaseBelongsToOneConnection, LauncherOwnsGameLease,
         UNCHANGED <<authorityVars, session, held, request, launching, game>>
  PROVE  LeaseBelongsToOneConnection' /\ LauncherOwnsGameLease'
  BY DEF LeaseBelongsToOneConnection, LauncherOwnsGameLease, authorityVars,
     HeldToken, OwnsToken, Handling

-----------------------------------------------------------------------------
LEMMA ConnectPreserves ==
  ASSUME ControlInv, NEW c \in Conn, NEW role \in Role, Connect(c, role)
  PROVE  ControlInv'
  <1> USE DEF ControlInv, hostVars, gameVars, worldVars
  <1>1. AuthorityInv' /\ AssignmentsExclusiveAndDurable'
        /\ BindingFollowsAssignment' /\ GameHasItsController'
    BY AuthorityStays, AssignmentsStay, BindingsStay DEF Connect, authorityVars
  <1>2. ControlTypeOK'
    BY <1>1 DEF Connect, ControlTypeOK, AuthorityInv
  <1>3. LaunchInProgress' /\ PresentsOwnGame' /\ TitleOfRunningGame'
    BY GamesStay DEF Connect
  <1>4. DownIsEmpty' /\ RequestsAreHeld'
    BY DEF Connect, DownIsEmpty, RequestsAreHeld, ControlTypeOK
  <1>5. LeaseBelongsToOneConnection' /\ LauncherOwnsGameLease'
    BY DEF Connect, LeaseBelongsToOneConnection, LauncherOwnsGameLease,
       ControlTypeOK, authorityVars, HeldToken, OwnsToken, Handling
  <1> QED BY <1>1, <1>2, <1>3, <1>4, <1>5

(* Steps of the client's process, of its devices, and the start of a stop. *)
LEMMA ClientDiesPreserves ==
  ASSUME ControlInv, NEW c \in Conn, ClientDies(c)
  PROVE  ControlInv'
  <1> USE DEF ControlInv, hostVars, gameVars, worldVars
  <1>1. AuthorityInv' /\ AssignmentsExclusiveAndDurable'
        /\ BindingFollowsAssignment' /\ GameHasItsController'
    BY AuthorityStays, AssignmentsStay, BindingsStay DEF ClientDies, authorityVars
  <1>2. ControlTypeOK'
    BY <1>1 DEF ClientDies, ControlTypeOK, AuthorityInv
  <1>3. LaunchInProgress' /\ PresentsOwnGame' /\ TitleOfRunningGame'
    BY GamesStay DEF ClientDies
  <1>4. DownIsEmpty' /\ RequestsAreHeld'
    BY DEF ClientDies, DownIsEmpty, RequestsAreHeld, authorityVars
  <1>5. LeaseBelongsToOneConnection' /\ LauncherOwnsGameLease'
    BY LeasesStay DEF ClientDies
  <1> QED BY <1>1, <1>2, <1>3, <1>4, <1>5

-----------------------------------------------------------------------------
(* A Seat with a lease has been given a generation.                        *)
LEMMA OpenEpochIsNumbered ==
  ASSUME ControlInv, NEW s \in Seat, Active(s)
  PROVE  generation[s] \in 1..MaxGeneration
  <1> USE DEF ControlInv
  <1>1. generation[s] \in 0..MaxGeneration /\ leases[s] \subseteq {"ui", "game"}
    BY DEF AuthorityInv, AuthorityTypeOK, LeaseClass
  <1>2. CASE "ui" \in leases[s]
    BY <1>1, <1>2 DEF LeaseBelongsToOneConnection, OwnsToken, HeldToken
  <1>3. CASE "game" \in leases[s] /\ game[s] # NONE
    <2>1. game[s] \in Game
      BY <1>3 DEF ControlTypeOK
    <2>2. game[s].token.generation = generation[s]
      BY <1>3 DEF LauncherOwnsGameLease, OwnsToken
    <2> QED BY <2>1, <2>2, GameFields DEF ActivationToken
  <1>4. CASE "game" \in leases[s] /\ game[s] = NONE
    <2>1. /\ launching \in Conn /\ request[launching] # NONE
          /\ request[launching].seat = s
      BY <1>4 DEF LauncherOwnsGameLease, Handling, ControlTypeOK
    <2>2. held[launching][s] # 0
      BY <2>1 DEF RequestsAreHeld
    <2> QED BY <1>1, <2>1, <2>2 DEF LeaseBelongsToOneConnection, OwnsToken, HeldToken
  <1> QED BY <1>1, <1>2, <1>3, <1>4 DEF Active

(* A held lease is the epoch's, and its token a token.                     *)
LEMMA HeldLease ==
  ASSUME ControlInv, NEW c \in Conn, NEW s \in Seat, held[c][s] # 0
  PROVE  /\ HeldToken(c, s) \in ActivationToken
         /\ HeldToken(c, s).seat = s /\ HeldToken(c, s).class = "ui"
         /\ OwnsToken(HeldToken(c, s)) /\ Active(s) /\ "ui" \in leases[s]
         /\ held[c][s] = generation[s]
         /\ session[c] = "control" /\ hostState # "down"
  <1> USE DEF ControlInv
  <1>1. held[c][s] \in 1..MaxGeneration
    BY DEF ControlTypeOK
  <1>2. session[c] = "control" /\ OwnsToken(HeldToken(c, s))
    BY DEF LeaseBelongsToOneConnection
  <1> QED
    BY <1>1, <1>2
    DEF HeldToken, ActivationToken, LeaseClass, OwnsToken, Active, DownIsEmpty

(* The current token of a recorded game.                                   *)
LEMMA GameLease ==
  ASSUME ControlInv, NEW s \in Seat, game[s] # NONE
  PROVE  /\ game[s] \in Game /\ game[s].token \in ActivationToken
         /\ game[s].token.seat = s /\ game[s].token.class = "game"
         /\ OwnsToken(game[s].token) /\ Active(s) /\ "game" \in leases[s]
         /\ process[s] # NONE /\ hostState # "down"
  <1> USE DEF ControlInv
  <1>1. game[s] \in Game
    BY DEF ControlTypeOK
  <1> QED
    BY <1>1, GameFields
    DEF LauncherOwnsGameLease, LaunchInProgress, OwnsToken, Active, DownIsEmpty

(* What the two steps on leases change of a Seat, its own and the others'. *)
LEMMA AcquireEffects ==
  ASSUME AuthorityTypeOK, NEW s \in Seat, NEW class \in LeaseClass,
         AcquireLease(s, class)
  PROVE  /\ class \notin leases[s]
         /\ \A x \in Seat : leases'[x] = IF x = s THEN leases[s] \cup {class} ELSE leases[x]
         /\ \A x \in Seat : x # s \/ Active(x) =>
              /\ generation'[x] = generation[x] /\ process'[x] = process[x]
              /\ window'[x] = window[x] /\ binding'[x] = binding[x]
         /\ ~Active(s) => generation'[s] = generation[s] + 1 /\ binding'[s] = NONE
         /\ generation' \in [Seat -> 0..MaxGeneration]
  BY DEF AuthorityTypeOK, AcquireLease, Active

LEMMA ReleaseEffects ==
  ASSUME AuthorityTypeOK, NEW t \in ActivationToken, ReleaseLease(t)
  PROVE  /\ generation' = generation /\ OwnsToken(t)
         /\ \A x \in Seat : leases'[x] = IF x = t.seat THEN leases[x] \ {t.class} ELSE leases[x]
         /\ \A x \in Seat : binding'[x] = binding[x] \/ binding'[x] = NONE
         /\ \A x \in Seat : leases'[x] # {} => binding'[x] = binding[x]
         /\ \A x \in Seat : x # t.seat \/ "game" \in leases'[x] => process'[x] = process[x]
         /\ \A x \in Seat : t.class = "ui" /\ "game" \in leases[x] => process'[x] = process[x]
  <1> DEFINE remaining == leases[t.seat] \ {t.class}
  <1>1. /\ leases' = [leases EXCEPT ![t.seat] = remaining]
        /\ generation' = generation /\ OwnsToken(t) /\ t.seat \in Seat
        /\ leases \in [Seat -> SUBSET LeaseClass]
    BY TokenFields DEF ReleaseLease, AuthorityTypeOK
  <1>2. binding' = IF remaining = {} THEN [binding EXCEPT ![t.seat] = NONE] ELSE binding
    BY DEF ReleaseLease
  <1>3. process' = IF t.class = "game" \/ remaining = {}
                   THEN [process EXCEPT ![t.seat] = NONE] ELSE process
    BY DEF ReleaseLease
  <1>4. \A x \in Seat : leases'[x] = IF x = t.seat THEN leases[x] \ {t.class} ELSE leases[x]
    BY <1>1
  <1>5. /\ \A x \in Seat : binding'[x] = binding[x] \/ binding'[x] = NONE
        /\ \A x \in Seat : leases'[x] # {} => binding'[x] = binding[x]
    BY <1>1, <1>2, <1>4 DEF AuthorityTypeOK
  <1>6. \A x \in Seat : x # t.seat \/ "game" \in leases'[x] => process'[x] = process[x]
    BY <1>1, <1>3, <1>4 DEF AuthorityTypeOK
  <1>7. \A x \in Seat : t.class = "ui" /\ "game" \in leases[x] => process'[x] = process[x]
    BY <1>1, <1>6, <1>4
  <1> QED BY <1>1, <1>4, <1>5, <1>6, <1>7

LEMMA AcquireUiPreserves ==
  ASSUME ControlInv, NEW c \in Conn, NEW s \in Seat, HandleAcquireUiLease(c, s)
  PROVE  ControlInv'
  <1> USE DEF ControlInv
  <1>0. AuthorityTypeOK /\ "ui" \in LeaseClass /\ AcquireLease(s, "ui")
        /\ hostState = "running" /\ UNCHANGED <<hostState, config, disk>>
        /\ request[c] = NONE
    BY DEF AuthorityInv, LeaseClass, HandleAcquireUiLease, Accepts
  <1>a. /\ "ui" \notin leases[s]
        /\ \A x \in Seat : leases'[x] = IF x = s THEN leases[s] \cup {"ui"} ELSE leases[x]
        /\ \A x \in Seat : x # s \/ Active(x) =>
             /\ generation'[x] = generation[x] /\ process'[x] = process[x]
             /\ window'[x] = window[x] /\ binding'[x] = binding[x]
        /\ ~Active(s) => generation'[s] = generation[s] + 1 /\ binding'[s] = NONE
        /\ generation' \in [Seat -> 0..MaxGeneration]
    BY <1>0, AcquireEffects
  <1>1. AuthorityInv'
    BY <1>0, AcquirePreserves
  <1>2. generation'[s] \in 1..MaxGeneration
    BY <1>0, OpenEpochIsNumbered, <1>a DEF AuthorityTypeOK
  <1>3. ControlTypeOK'
    BY <1>1, <1>2
    DEF HandleAcquireUiLease, ControlTypeOK, AuthorityInv, NoteMutation, gameVars, worldVars
  <1>4. LaunchInProgress' /\ PresentsOwnGame' /\ TitleOfRunningGame'
    BY GamesStay DEF HandleAcquireUiLease, gameVars
  <1>5. AssignmentsExclusiveAndDurable'
    BY <1>0, AssignmentsStay
  <1>6. DownIsEmpty' /\ RequestsAreHeld'
    BY <1>0 DEF HandleAcquireUiLease, DownIsEmpty, RequestsAreHeld, ControlTypeOK
  <1>7. LeaseBelongsToOneConnection'
    <2>1. \A d \in Conn : held[d][s] = 0
      BY <1>0, <1>a, HeldLease
    <2>2. \A d \in Conn, x \in Seat :
            held'[d][x] = IF d = c /\ x = s THEN generation'[s] ELSE held[d][x]
      BY DEF HandleAcquireUiLease, ControlTypeOK
    <2>3. session' = session /\ session[c] = "control"
      BY DEF HandleAcquireUiLease, Accepts
    <2> QED
      BY <1>0, <1>2, <2>1, <2>2, <2>3, <1>a
      DEF LeaseBelongsToOneConnection, HeldToken, OwnsToken, Active
  <1>8. LauncherOwnsGameLease'
    <2>1. UNCHANGED <<request, launching, game>>
      BY DEF HandleAcquireUiLease, gameVars
    <2>2. \A x \in Seat : "game" \in leases'[x] <=> "game" \in leases[x]
      BY <1>0, <1>a
    <2>3. \A x \in Seat : game[x] # NONE => generation'[x] = generation[x]
                                          /\ process'[x] = process[x]
      BY <1>0, <1>a, GameLease
    <2>4. \A x \in Seat : game[x] # NONE => game[x].token.class = "game"
      BY GameLease
    <2> QED BY <2>1, <2>2, <2>3, <2>4 DEF LauncherOwnsGameLease, OwnsToken, Handling
  <1>9. BindingFollowsAssignment' /\ GameHasItsController'
    BY <1>0, <1>a DEF BindingFollowsAssignment, GameHasItsController, Active
  <1> QED BY <1>1, <1>3, <1>4, <1>5, <1>6, <1>7, <1>8, <1>9

(* A lease given back, by its client or when its session ends.             *)
LEMMA DropLeasePreserves ==
  ASSUME ControlInv, NEW c \in Conn, NEW s \in Seat,
         held[c][s] # 0, request[c] = NONE, DropLease(c, s)
  PROVE  ControlInv'
  <1> USE DEF ControlInv
  <1> DEFINE t == HeldToken(c, s)
  <1>0. /\ AuthorityTypeOK /\ ReleaseLease(t) /\ t \in ActivationToken
        /\ t.seat = s /\ t.class = "ui" /\ hostState # "down"
        /\ UNCHANGED <<hostState, config, disk, session, request, launching, game>>
    BY HeldLease DEF AuthorityInv, DropLease, gameVars
  <1> HIDE DEF t
  <1>1. AuthorityInv'
    BY <1>0, ReleasePreserves
  <1>2. \A d \in Conn, x \in Seat :
          held'[d][x] = IF d = c /\ x = s THEN 0 ELSE held[d][x]
    BY DEF DropLease, ControlTypeOK
  <1>3. ControlTypeOK'
    BY <1>1
    DEF DropLease, ControlTypeOK, AuthorityInv, NoteMutation, gameVars, worldVars
  <1>4. LaunchInProgress' /\ PresentsOwnGame' /\ TitleOfRunningGame'
    BY GamesStay DEF DropLease, gameVars
  <1>5. AssignmentsExclusiveAndDurable'
    BY <1>0, AssignmentsStay
  <1>6. DownIsEmpty' /\ RequestsAreHeld'
    BY <1>0, <1>2, RequestFields DEF DownIsEmpty, RequestsAreHeld, ControlTypeOK
  <1>7. LeaseBelongsToOneConnection'
    <2>1. \A d \in Conn : d # c => held[d][s] = 0
      BY DEF LeaseBelongsToOneConnection
    <2>2. /\ generation' = generation
          /\ \A x \in Seat : leases'[x] = IF x = s THEN leases[x] \ {"ui"} ELSE leases[x]
      BY <1>0, ReleaseEffects
    <2>3. \A x \in Seat : (\E d \in Conn : held'[d][x] # 0) => x # s
      BY <1>2, <2>1
    <2>4. \A x \in Seat : "ui" \in leases'[x] => x # s /\ "ui" \in leases[x]
      BY <2>2
    <2>5. ASSUME NEW x \in Seat, NEW d \in Conn, held'[d][x] # 0
          PROVE  session'[d] = "control" /\ OwnsToken(HeldToken(d, x))'
      <3>1. x # s /\ held'[d][x] = held[d][x]
        BY <2>3, <2>5, <1>2
      <3>2. session[d] = "control" /\ OwnsToken(HeldToken(d, x))
        BY <3>1, <2>5 DEF LeaseBelongsToOneConnection
      <3> QED BY <1>0, <2>2, <3>1, <3>2 DEF HeldToken, OwnsToken
    <2>6. ASSUME NEW x \in Seat, NEW d \in Conn, NEW e \in Conn,
                 held'[d][x] # 0, held'[e][x] # 0
          PROVE  d = e
      <3>1. held[d][x] # 0 /\ held[e][x] # 0
        BY <1>2, <2>3, <2>6
      <3> QED BY <3>1 DEF LeaseBelongsToOneConnection
    <2>7. ASSUME NEW x \in Seat, "ui" \in leases'[x]
          PROVE  \E d \in Conn : held'[d][x] # 0
      BY <1>2, <2>4, <2>7 DEF LeaseBelongsToOneConnection
    <2> QED BY <2>5, <2>6, <2>7 DEF LeaseBelongsToOneConnection
  <1>8. LauncherOwnsGameLease'
    <2>1. \A x \in Seat : "game" \in leases'[x] <=> "game" \in leases[x]
      BY <1>0, ReleaseEffects
    <2>2. \A x \in Seat : game[x] # NONE => process'[x] = process[x]
      BY <1>0, <2>1, ReleaseEffects, GameLease
    <2>3. generation' = generation
      BY <1>0, ReleaseEffects
    <2>4. \A x \in Seat : game[x] # NONE => game[x].token.class = "game"
      BY GameLease
    <2> QED BY <1>0, <2>1, <2>2, <2>3, <2>4 DEF LauncherOwnsGameLease, OwnsToken, Handling
  <1>9. BindingFollowsAssignment' /\ GameHasItsController'
    BY <1>0, ReleaseEffects DEF BindingFollowsAssignment, GameHasItsController
  <1> QED BY <1>1, <1>3, <1>4, <1>5, <1>6, <1>7, <1>8, <1>9

LEMMA CloseSessionPreserves ==
  ASSUME ControlInv, NEW c \in Conn, CloseSession(c)
  PROVE  ControlInv'
  <1> USE DEF ControlInv, hostVars, gameVars, worldVars
  <1>1. AuthorityInv' /\ AssignmentsExclusiveAndDurable'
        /\ BindingFollowsAssignment' /\ GameHasItsController'
    BY AuthorityStays, AssignmentsStay, BindingsStay DEF CloseSession, authorityVars
  <1>2. ControlTypeOK'
    BY <1>1 DEF CloseSession, ControlTypeOK, AuthorityInv
  <1>3. LaunchInProgress' /\ PresentsOwnGame' /\ TitleOfRunningGame'
    BY GamesStay DEF CloseSession
  <1>4. DownIsEmpty' /\ RequestsAreHeld'
    BY DEF CloseSession, Ending, DownIsEmpty, RequestsAreHeld, ControlTypeOK,
       authorityVars
  <1>5. LeaseBelongsToOneConnection'
    <2>1. \A d \in Conn, s \in Seat : held[d][s] # 0 => d # c
      BY DEF CloseSession
    <2> QED
      BY <2>1 DEF CloseSession, LeaseBelongsToOneConnection, ControlTypeOK,
         authorityVars, HeldToken, OwnsToken
  <1>6. LauncherOwnsGameLease'
    BY DEF CloseSession, LauncherOwnsGameLease, authorityVars, OwnsToken, Handling
  <1> QED BY <1>1, <1>2, <1>3, <1>4, <1>5, <1>6

-----------------------------------------------------------------------------
(* The first half of a handler: of what is invariant only what is said of   *)
(* requests can be disturbed, and a request read or given up is no launch.  *)
LEMMA RequestChanges ==
  ASSUME ControlInv, NEW c \in Conn, NEW r \in Request \cup {NONE},
         request' = [request EXCEPT ![c] = r],
         UNCHANGED <<authorityVars, hostState, config, disk, session, held,
                     launching, game, presentation>>,
         request[c] # NONE => request[c].kind # "launch",
         r # NONE => /\ r.kind \in {"configure", "pair"}
                     /\ session[c] = "control" /\ held[c][r.seat] # 0
  PROVE  /\ AuthorityInv' /\ DownIsEmpty' /\ RequestsAreHeld' /\ LaunchInProgress'
         /\ LeaseBelongsToOneConnection' /\ LauncherOwnsGameLease'
         /\ PresentsOwnGame' /\ TitleOfRunningGame'
         /\ AssignmentsExclusiveAndDurable'
         /\ BindingFollowsAssignment' /\ GameHasItsController'
  <1> USE DEF ControlInv
  <1>1. AuthorityInv' /\ AssignmentsExclusiveAndDurable'
        /\ BindingFollowsAssignment' /\ GameHasItsController'
    BY AuthorityStays, AssignmentsStay, BindingsStay DEF authorityVars
  <1>2. \A d \in Conn : request'[d] = IF d = c THEN r ELSE request[d]
    BY DEF ControlTypeOK
  <1>3. DownIsEmpty' /\ RequestsAreHeld'
    BY <1>2 DEF DownIsEmpty, RequestsAreHeld, authorityVars
  <1>4. \A d \in Conn : /\ Handling(d, "launch")' <=> Handling(d, "launch")
                        /\ Handling(d, "launch") => request'[d] = request[d]
                        /\ Handling(d, "present")' => Handling(d, "present")
                                                     /\ request'[d] = request[d]
    BY <1>2 DEF Handling
  <1>5. LaunchInProgress'
    BY <1>4 DEF LaunchInProgress, ControlTypeOK
  <1>6. PresentsOwnGame' /\ TitleOfRunningGame'
    BY <1>4 DEF PresentsOwnGame, TitleOfRunningGame
  <1>7. LeaseBelongsToOneConnection'
    BY DEF LeaseBelongsToOneConnection, authorityVars, HeldToken, OwnsToken
  <1>8. LauncherOwnsGameLease'
    BY <1>4 DEF LauncherOwnsGameLease, authorityVars, OwnsToken, ControlTypeOK
  <1> QED BY <1>1, <1>3, <1>5, <1>6, <1>7, <1>8

LEMMA ReadHardwarePreserves ==
  ASSUME ControlInv, NEW c \in Conn, NEW s \in Seat, NEW hardware \in Hardware,
         ReadHardware(c, s, hardware)
  PROVE  ControlInv'
  <1> DEFINE r == [kind |-> "configure", seat |-> s, hardware |-> hardware,
                   attached |-> attached, pads |-> pads]
  <1>1. r \in Request
    BY DEF ControlInv, ControlTypeOK, Request, ConfigureRequest
  <1>2. /\ request' = [request EXCEPT ![c] = r] /\ request[c] = NONE
        /\ session[c] = "control" /\ held[c][r.seat] # 0
        /\ UNCHANGED <<authorityVars, hostVars, session, held, client, gameVars, worldVars>>
    BY DEF ReadHardware, AcceptsFor, Accepts
  <1>3. r.kind = "configure"
    OBVIOUS
  <1> HIDE DEF r
  <1>4. ControlTypeOK'
    BY <1>1, <1>2, AuthorityStays
    DEF ControlInv, ControlTypeOK, AuthorityInv, hostVars, gameVars, worldVars
  <1> QED
    BY <1>1, <1>2, <1>3, <1>4, RequestChanges DEF ControlInv, hostVars, gameVars

(* What a scan counts stays within the bound, and is one of the snapshots   *)
(* a caller may hold.                                                       *)
LEMMA ScanTypes ==
  ASSUME ControlInv, CanScan
  PROVE  Scanned \in InventorySnapshot
  <1>1. \A slot \in Slot : ScannedSlot(slot).generation \in SourceGeneration
                           /\ ScannedSlot(slot).connected \in BOOLEAN
    BY DEF CanScan, ScannedSlot
  <1> QED BY <1>1 DEF Scanned, InventorySnapshot, Source, MatchCount

LEMMA ScanKeepsTypes ==
  ASSUME ControlInv, Scan
  PROVE  tracker' \in [Slot -> SlotMemory]
  <1>1. \A slot \in Slot : ScannedSlot(slot) \in SlotMemory
    BY DEF Scan, CanScan, ScannedSlot, SlotMemory
  <1> QED BY <1>1 DEF Scan

LEMMA ScanForPairingPreserves ==
  ASSUME ControlInv, NEW c \in Conn, NEW s \in Seat, NEW controller \in Controller,
         NEW slot \in Slot, ScanForPairing(c, s, controller, slot)
  PROVE  ControlInv'
  <1> DEFINE r == [kind |-> "pair", seat |-> s, controller |-> controller,
                   slot |-> slot, scan |-> Scanned]
  <1>1. Scan /\ Scanned \in InventorySnapshot
    BY ScanTypes DEF ScanForPairing, Scan
  <1>2. r \in Request
    BY <1>1 DEF Request, PairRequest
  <1>3. /\ request' = [request EXCEPT ![c] = r] /\ request[c] = NONE
        /\ session[c] = "control" /\ held[c][r.seat] # 0
        /\ UNCHANGED <<authorityVars, hostState, config, disk, confirmed, presentation,
                       revision, session, held, client, gameVars, worldVars>>
    BY DEF ScanForPairing, AcceptsFor, Accepts
  <1>4. r.kind = "pair"
    OBVIOUS
  <1> HIDE DEF r
  <1>5. ControlTypeOK'
    BY <1>1, <1>2, <1>3, AuthorityStays, ScanKeepsTypes
    DEF ControlInv, ControlTypeOK, AuthorityInv, gameVars, worldVars
  <1> QED
    BY <1>2, <1>3, <1>4, <1>5, RequestChanges DEF ControlInv, gameVars

(* An enumeration that fails, and requests refused.                        *)
LEMMA ScanFailsPreserves ==
  ASSUME ControlInv, NEW c \in Conn, NEW s \in Seat, ScanFails(c, s)
  PROVE  ControlInv'
  <1> USE DEF ControlInv
  <1>1. /\ Scan
        /\ UNCHANGED <<authorityVars, hostState, config, disk, confirmed, presentation,
                       revision, sessionVars, gameVars, worldVars>>
    BY DEF ScanFails
  <1>2. ControlTypeOK'
    BY <1>1, AuthorityStays, ScanKeepsTypes
    DEF ControlTypeOK, AuthorityInv, sessionVars, gameVars, worldVars
  <1>3. /\ AuthorityInv' /\ AssignmentsExclusiveAndDurable'
        /\ BindingFollowsAssignment' /\ GameHasItsController'
    BY <1>1, AuthorityStays, AssignmentsStay, BindingsStay DEF authorityVars
  <1>4. /\ LaunchInProgress' /\ PresentsOwnGame' /\ TitleOfRunningGame'
        /\ LeaseBelongsToOneConnection' /\ LauncherOwnsGameLease'
    BY <1>1, GamesStay, LeasesStay DEF sessionVars, gameVars
  <1>5. DownIsEmpty' /\ RequestsAreHeld'
    BY <1>1 DEF DownIsEmpty, RequestsAreHeld, sessionVars, authorityVars
  <1> QED BY <1>2, <1>3, <1>4, <1>5

LEMMA IdlePreserves ==
  ASSUME ControlInv, NEW c \in Conn, Idle(c),
         request[c] # NONE => request[c].kind # "launch",
         UNCHANGED <<authorityVars, hostVars, session, held, client, gameVars, worldVars>>
  PROVE  ControlInv'
  <1>1. request' = [request EXCEPT ![c] = NONE]
    BY DEF Idle
  <1>2. ControlTypeOK'
    BY <1>1, AuthorityStays
    DEF ControlInv, ControlTypeOK, AuthorityInv, hostVars, gameVars, worldVars
  <1> QED BY <1>1, <1>2, RequestChanges DEF ControlInv, hostVars, gameVars

-----------------------------------------------------------------------------
(* The second half of a handler that is no launch: its request is done.    *)
LEMMA FinishesRequest ==
  ASSUME ControlInv, NEW c \in Conn, Idle(c),
         request[c] # NONE, request[c].kind # "launch",
         UNCHANGED <<session, held, launching, game>>
  PROVE  /\ RequestsAreHeld' /\ LaunchInProgress' /\ PresentsOwnGame'
         /\ request' \in [Conn -> Request \cup {NONE}]
         /\ \A d \in Conn : Handling(d, "launch") =>
              Handling(d, "launch")' /\ request'[d] = request[d]
  <1> USE DEF ControlInv
  <1>1. \A d \in Conn : request'[d] = IF d = c THEN NONE ELSE request[d]
    BY DEF Idle, ControlTypeOK
  <1>2. request' \in [Conn -> Request \cup {NONE}]
    BY DEF Idle, ControlTypeOK
  <1>3. RequestsAreHeld'
    BY <1>1 DEF RequestsAreHeld
  <1>4. \A d \in Conn : /\ Handling(d, "launch")' <=> Handling(d, "launch")
                        /\ Handling(d, "launch") => request'[d] = request[d]
                        /\ Handling(d, "present")' => Handling(d, "present")
                                                     /\ request'[d] = request[d]
    BY <1>1 DEF Handling
  <1>5. LaunchInProgress'
    BY <1>4 DEF LaunchInProgress, ControlTypeOK
  <1>6. PresentsOwnGame'
    BY <1>4 DEF PresentsOwnGame
  <1> QED BY <1>2, <1>3, <1>4, <1>5, <1>6

(* The lease invariants speak of epochs, not of what is bound to them.     *)
LEMMA EpochsStay ==
  ASSUME ControlInv,
         UNCHANGED <<generation, leases, process, session, held, launching, game>>,
         \A d \in Conn : Handling(d, "launch") =>
              Handling(d, "launch")' /\ request'[d] = request[d]
  PROVE  LeaseBelongsToOneConnection' /\ LauncherOwnsGameLease'
  <1> USE DEF ControlInv
  <1>1. LeaseBelongsToOneConnection'
    BY DEF LeaseBelongsToOneConnection, HeldToken, OwnsToken
  <1>2. launching # NONE => launching \in Conn
    BY DEF ControlTypeOK
  <1>3. LauncherOwnsGameLease'
    BY <1>2 DEF LauncherOwnsGameLease, OwnsToken
  <1> QED BY <1>1, <1>3

(* What Assignable admits keeps the assignments apart.                     *)
LEMMA AssignableIsExclusive ==
  ASSUME ControlInv, NEW c \in Conn, Handling(c, "configure"), Assignable(c)
  PROVE  /\ [config EXCEPT ![request[c].seat] = request[c].hardware] \in [Seat -> Hardware]
         /\ Exclusive([config EXCEPT ![request[c].seat] = request[c].hardware])
  <1> USE DEF ControlInv
  <1> DEFINE s == request[c].seat
             hardware == request[c].hardware
             new == [config EXCEPT ![s] = hardware]
  <1>1. /\ request[c] \in ConfigureRequest /\ request[c] # NONE
        /\ s \in Seat /\ hardware \in Hardware
    <2>1. request[c] \in Request /\ request[c].kind = "configure" /\ request[c] # NONE
      BY DEF Handling, ControlTypeOK
    <2>2. request[c] \in ConfigureRequest
      BY <2>1, RequestFields
    <2> QED BY <2>1, <2>2 DEF ConfigureRequest
  <1>2. held[c][s] # 0
    BY <1>1 DEF RequestsAreHeld
  <1>3. hostState # "down"
    BY <1>1, <1>2, HeldLease
  <1>4. Exclusive(config) /\ FreeOfOthers(s, hardware)
    BY <1>3 DEF AssignmentsExclusiveAndDurable, Assignable
  <1>5. \A x \in Seat : new[x] = IF x = s THEN hardware ELSE config[x]
    BY DEF ControlTypeOK
  <1>6. new \in [Seat -> Hardware]
    BY <1>1 DEF ControlTypeOK
  <1> HIDE DEF s, hardware, new
  <1>7. Exclusive(new)
    BY <1>1, <1>4, <1>5 DEF Exclusive, FreeOfOthers, Others
  <1> QED BY <1>6, <1>7 DEF new, s, hardware

LEMMA RevisionStaysTyped ==
  ASSUME ControlInv, NoteMutation
  PROVE  revision' \in 0..MaxRevision
  BY DEF ControlInv, ControlTypeOK, NoteMutation

LEMMA AssignHardwarePreserves ==
  ASSUME ControlInv, NEW c \in Conn, AssignHardware(c)
  PROVE  ControlInv'
  <1> USE DEF ControlInv
  <1> DEFINE r == request[c]
             s == r.seat
             hardware == r.hardware
             t == HeldToken(c, s)
             changed == hardware.controller # config[s].controller
  <1>1. /\ r \in ConfigureRequest /\ r \in Request /\ r # NONE /\ r.kind = "configure"
        /\ s \in Seat /\ hardware \in Hardware
    <2>1. r \in Request /\ r.kind = "configure" /\ r # NONE
      BY DEF AssignHardware, Handling, ControlTypeOK
    <2>2. r \in ConfigureRequest
      BY <2>1, RequestFields
    <2> QED BY <2>1, <2>2 DEF ConfigureRequest
  <1>2. held[c][s] # 0
    BY <1>1 DEF RequestsAreHeld
  <1>3. t \in ActivationToken /\ t.seat = s /\ hostState # "down"
    BY <1>1, <1>2, HeldLease
  <1>4. /\ "game" \notin leases[s] /\ FreeOfOthers(s, hardware)
        /\ disk' = [config EXCEPT ![s] = hardware]
        /\ config' = [config EXCEPT ![s] = hardware]
        /\ IF changed THEN ClearController(t) ELSE UNCHANGED authorityVars
        /\ Idle(c)
        /\ UNCHANGED <<hostState, confirmed, tracker, presentation, session, held,
                       client, gameVars, worldVars>>
    BY DEF AssignHardware, Assignable, ConfigurationOpen
  <1> HIDE DEF t
  <1>5. AuthorityInv'
    BY <1>3, <1>4, AuthorityStays, ClearControllerPreserves
  <1>6. /\ UNCHANGED <<generation, leases, process>>
        /\ \A x \in Seat : binding'[x] = IF changed /\ x = s THEN NONE ELSE binding[x]
    BY <1>3, <1>4 DEF ClearController, AuthorityInv, AuthorityTypeOK, authorityVars
  <1>7. /\ RequestsAreHeld' /\ LaunchInProgress' /\ PresentsOwnGame'
        /\ request' \in [Conn -> Request \cup {NONE}]
        /\ LeaseBelongsToOneConnection' /\ LauncherOwnsGameLease'
    BY <1>1, <1>4, <1>6, FinishesRequest, EpochsStay DEF gameVars
  <1>8. \A x \in Seat : config'[x] = IF x = s THEN hardware ELSE config[x]
    BY <1>4 DEF ControlTypeOK
  <1>9. config' \in [Seat -> Hardware] /\ disk' = config' /\ Exclusive(config')
    BY <1>4, AssignableIsExclusive DEF AssignHardware
  <1>10. ControlTypeOK'
    <2>1. AuthorityTypeOK'
      BY <1>5 DEF AuthorityInv
    <2>2. revision' \in 0..MaxRevision
      BY RevisionStaysTyped DEF AssignHardware, ControlTypeOK
    <2>3. /\ UNCHANGED <<hostState, confirmed, tracker, presentation, session, held, client>>
          /\ UNCHANGED <<gameVars, worldVars>>
      BY <1>4
    <2> QED
      BY <2>1, <2>2, <2>3, <1>7, <1>9 DEF ControlTypeOK, gameVars, worldVars
  <1>11. DownIsEmpty'
    BY <1>3, <1>4 DEF DownIsEmpty
  <1>12. TitleOfRunningGame'
    BY <1>4 DEF TitleOfRunningGame, gameVars
  <1>13. AssignmentsExclusiveAndDurable'
    BY <1>9 DEF AssignmentsExclusiveAndDurable
  <1>14. BindingFollowsAssignment' /\ GameHasItsController'
    BY <1>4, <1>6, <1>8 DEF BindingFollowsAssignment, GameHasItsController
  <1> QED BY <1>5, <1>7, <1>10, <1>11, <1>12, <1>13, <1>14

LEMMA CommitPairingPreserves ==
  ASSUME ControlInv, NEW c \in Conn, CommitPairing(c)
  PROVE  ControlInv'
  <1> USE DEF ControlInv
  <1> DEFINE r == request[c]
             t == HeldToken(c, r.seat)
             b == Paired(r)
  <1>1. r \in PairRequest /\ r # NONE /\ r.kind = "pair"
    BY RequestFields DEF CommitPairing, Handling, ControlTypeOK
  <1>2. /\ r.seat \in Seat /\ r.controller \in Controller /\ r.slot \in Slot
        /\ r.scan \in InventorySnapshot
    BY <1>1 DEF PairRequest
  <1>3. b \in SeatBinding /\ b.seat = r.seat /\ b.controller = r.controller
    BY <1>2 DEF Paired, PairedBinding, SeatBinding, InventorySnapshot, Source
  <1>4. held[c][r.seat] # 0
    BY <1>1 DEF RequestsAreHeld
  <1>5. t \in ActivationToken /\ t.seat = r.seat /\ hostState # "down"
    BY <1>2, <1>4, HeldLease
  <1>6. /\ "game" \notin leases[r.seat] /\ config[r.seat].controller = r.controller
        /\ BindController(t, b, r.scan) /\ Idle(c)
        /\ UNCHANGED <<hostState, config, disk, confirmed, tracker, presentation,
                       session, held, client, gameVars, worldVars>>
    BY DEF CommitPairing, Pairs, ConfigurationOpen
  <1> HIDE DEF t, b
  <1>7. AuthorityInv'
    BY <1>2, <1>3, <1>5, <1>6, BindControllerPreserves
  <1>8. /\ UNCHANGED <<generation, leases, process>>
        /\ \A x \in Seat : binding'[x] = IF x = r.seat THEN b ELSE binding[x]
    BY <1>5, <1>6 DEF BindController, AuthorityInv, AuthorityTypeOK
  <1>9. /\ RequestsAreHeld' /\ LaunchInProgress' /\ PresentsOwnGame'
        /\ request' \in [Conn -> Request \cup {NONE}]
        /\ LeaseBelongsToOneConnection' /\ LauncherOwnsGameLease'
    BY <1>1, <1>6, <1>8, FinishesRequest, EpochsStay DEF gameVars
  <1>10. ControlTypeOK'
    BY <1>6, <1>7, <1>9
    DEF ControlTypeOK, AuthorityInv, CommitPairing, NoteMutation, gameVars, worldVars
  <1>11. DownIsEmpty' /\ TitleOfRunningGame'
    BY <1>5, <1>6 DEF DownIsEmpty, TitleOfRunningGame, gameVars
  <1>12. AssignmentsExclusiveAndDurable'
    BY <1>6, AssignmentsStay
  <1>13. BindingFollowsAssignment' /\ GameHasItsController'
    BY <1>2, <1>3, <1>6, <1>8 DEF BindingFollowsAssignment, GameHasItsController
  <1> QED BY <1>7, <1>9, <1>10, <1>11, <1>12, <1>13

(* A launch belongs to a Seat whose UI lease its connection holds.         *)
LEMMA LaunchIsHeld ==
  ASSUME ControlInv, NEW c \in Conn, Handling(c, "launch") \/ Handling(c, "present")
  PROVE  /\ request[c] \in LaunchRequest /\ request[c] # NONE
         /\ request[c].seat \in Seat /\ request[c].title \in Title
         /\ held[c][request[c].seat] # 0
         /\ "ui" \in leases[request[c].seat] /\ Active(request[c].seat)
         /\ GameToken(request[c].seat) \in ActivationToken
         /\ \A d \in Conn : held[d][request[c].seat] # 0 => d = c
         /\ hostState # "down"
  <1> USE DEF ControlInv
  <1>1. request[c] \in LaunchRequest /\ request[c] # NONE
    BY RequestFields DEF Handling, ControlTypeOK
  <1>2. request[c].seat \in Seat /\ request[c].title \in Title
    BY <1>1 DEF LaunchRequest
  <1>3. held[c][request[c].seat] # 0
    BY <1>1 DEF RequestsAreHeld
  <1>4. "ui" \in leases[request[c].seat] /\ Active(request[c].seat) /\ hostState # "down"
    BY <1>2, <1>3, HeldLease
  <1>5. generation[request[c].seat] \in 1..MaxGeneration
    BY <1>2, <1>4, OpenEpochIsNumbered
  <1>6. GameToken(request[c].seat) \in ActivationToken
    BY <1>2, <1>5 DEF GameToken, ActivationToken, LeaseClass
  <1>7. \A d \in Conn : held[d][request[c].seat] # 0 => d = c
    BY <1>2, <1>3 DEF LeaseBelongsToOneConnection
  <1> QED BY <1>1, <1>2, <1>3, <1>4, <1>6, <1>7

(* UI leases do not depend on what becomes of a game lease.                *)
LEMMA UiLeasesStay ==
  ASSUME ControlInv, UNCHANGED <<session, held>>,
         \A x \in Seat : /\ "ui" \in leases'[x] <=> "ui" \in leases[x]
                         /\ generation'[x] = generation[x]
  PROVE  LeaseBelongsToOneConnection'
  BY DEF ControlInv, LeaseBelongsToOneConnection, HeldToken, OwnsToken

LEMMA BeginLaunchPreserves ==
  ASSUME ControlInv, NEW c \in Conn, NEW s \in Seat, NEW title \in Title,
         HandleLaunchGame(c, s, title)
  PROVE  ControlInv'
  <1> USE DEF ControlInv
  <1> DEFINE r == [kind |-> "launch", seat |-> s, title |-> title]
  <1>1. /\ held[c][s] # 0 /\ session[c] = "control" /\ launching = NONE /\ game[s] = NONE
        /\ ControllerReady(s, Scanned) /\ AcquireLease(s, "game") /\ launching' = c
        /\ request' = [request EXCEPT ![c] = r] /\ c # NONE
        /\ UNCHANGED <<hostState, config, disk, confirmed, presentation, session,
                       held, client, game, worldVars>>
    BY DEF HandleLaunchGame, AcceptsFor, Accepts
  <1>2. r \in Request /\ r # NONE /\ r.kind = "launch" /\ r.seat = s /\ r.title = title
    <2>1. r \in LaunchRequest
      BY DEF LaunchRequest
    <2> QED BY <2>1, RequestFields DEF Request
  <1> HIDE DEF r
  <1>3. Active(s) /\ hostState # "down"
    BY <1>1, HeldLease
  <1>4. "game" \in LeaseClass /\ AuthorityTypeOK
    BY DEF LeaseClass, AuthorityInv
  <1>5. /\ \A x \in Seat : leases'[x] = IF x = s THEN leases[s] \cup {"game"} ELSE leases[x]
        /\ \A x \in Seat : /\ generation'[x] = generation[x] /\ process'[x] = process[x]
                           /\ binding'[x] = binding[x]
    BY <1>1, <1>3, <1>4, AcquireEffects
  <1>6. AuthorityInv'
    BY <1>1, <1>4, AcquirePreserves
  <1>7. \A d \in Conn : request'[d] = IF d = c THEN r ELSE request[d]
    BY <1>1 DEF ControlTypeOK
  <1>8. tracker' \in [Slot -> SlotMemory]
    BY ScanKeepsTypes DEF HandleLaunchGame, ControlTypeOK
  <1>9. request' \in [Conn -> Request \cup {NONE}]
    BY <1>1, <1>2 DEF ControlTypeOK
  <1>10. ControlTypeOK'
    <2>1. revision' \in 0..MaxRevision
      BY RevisionStaysTyped DEF HandleLaunchGame
    <2> QED
      BY <1>1, <1>6, <1>8, <1>9, <2>1 DEF ControlTypeOK, AuthorityInv, worldVars
  <1>11. DownIsEmpty' /\ RequestsAreHeld'
    BY <1>1, <1>2, <1>3, <1>7 DEF DownIsEmpty, RequestsAreHeld
  <1>12. \A d \in Conn : ~Handling(d, "launch")
    BY <1>1 DEF LaunchInProgress
  <1>13. \A d \in Conn : Handling(d, "launch")' <=> d = c
    BY <1>2, <1>7, <1>12 DEF Handling
  <1>14. LaunchInProgress'
    BY <1>1, <1>2, <1>7, <1>13 DEF LaunchInProgress
  <1>15. PresentsOwnGame' /\ TitleOfRunningGame'
    BY <1>1, <1>2, <1>7 DEF PresentsOwnGame, TitleOfRunningGame, Handling
  <1>16. LeaseBelongsToOneConnection'
    BY <1>1, <1>5, UiLeasesStay
  <1>17. LauncherOwnsGameLease'
    <2>1. ASSUME NEW x \in Seat, game[x] # NONE
          PROVE  OwnsToken(game[x].token)' /\ game[x].token.seat = x /\ process'[x] # NONE
      BY <2>1, <1>1, <1>5, GameLease DEF OwnsToken
    <2>2. \A x \in Seat : game[x] = NONE /\ "game" \in leases'[x] => x = s
      BY <1>1, <1>5 DEF LauncherOwnsGameLease
    <2> QED BY <1>1, <1>2, <1>7, <1>13, <2>1, <2>2 DEF LauncherOwnsGameLease
  <1>18. AssignmentsExclusiveAndDurable'
    BY <1>1, AssignmentsStay
  <1>19. BindingFollowsAssignment' /\ GameHasItsController'
    BY <1>1, <1>5 DEF BindingFollowsAssignment, GameHasItsController, ControllerReady
  <1> QED BY <1>6, <1>10, <1>11, <1>14, <1>15, <1>16, <1>17, <1>18, <1>19

LEMMA PublishGamePreserves ==
  ASSUME ControlInv, NEW c \in Conn, NEW p \in Process, PublishGame(c, p)
  PROVE  ControlInv'
  <1> USE DEF ControlInv
  <1> DEFINE s == request[c].seat
             t == GameToken(s)
             g == [token |-> t, title |-> request[c].title, exited |-> FALSE]
             r == [request[c] EXCEPT !.kind = "present"]
  <1>1. /\ Handling(c, "launch") /\ PublishProcess(t, p) /\ launching' = NONE
        /\ game' = [game EXCEPT ![s] = g]
        /\ request' = [request EXCEPT ![c] = r]
        /\ UNCHANGED <<hostState, config, disk, confirmed, tracker, presentation,
                       session, held, client, worldVars>>
    BY DEF PublishGame
  <1>2. /\ request[c] \in LaunchRequest /\ s \in Seat /\ request[c].title \in Title
        /\ held[c][s] # 0 /\ t \in ActivationToken /\ hostState # "down"
        /\ \A d \in Conn : held[d][s] # 0 => d = c
    BY <1>1, LaunchIsHeld
  <1>3. g \in Game /\ g # NONE /\ g.token = t /\ g.title = request[c].title
    <2>1. g \in Game
      BY <1>2 DEF Game
    <2> QED BY <2>1, GameFields
  <1>4. /\ r \in Request /\ r # NONE /\ r.kind = "present"
        /\ r.seat = s /\ r.title = request[c].title
    <2>1. r \in LaunchRequest /\ r.kind = "present" /\ r.seat = s
          /\ r.title = request[c].title
      BY <1>2 DEF LaunchRequest
    <2> QED BY <2>1, RequestFields DEF Request
  <1>5. t.seat = s /\ t.class = "game" /\ OwnsToken(t)
    BY <1>1 DEF GameToken, PublishProcess, OwnsGameToken
  <1> HIDE DEF t, g, r
  <1>6. AuthorityInv'
    BY <1>1, <1>2, PublishPreserves
  <1>7. /\ UNCHANGED <<generation, leases, binding>>
        /\ \A x \in Seat : process'[x] = IF x = s THEN p ELSE process[x]
    BY <1>1, <1>2, <1>5 DEF PublishProcess, AuthorityInv, AuthorityTypeOK
  <1>8. p # NONE
    OBVIOUS
  <1>9. /\ \A d \in Conn : request'[d] = IF d = c THEN r ELSE request[d]
        /\ \A x \in Seat : game'[x] = IF x = s THEN g ELSE game[x]
    BY <1>1 DEF ControlTypeOK
  <1>10. launching = c /\ game[s] = NONE
    BY <1>1 DEF LaunchInProgress
  <1>11. /\ request' \in [Conn -> Request \cup {NONE}]
         /\ game' \in [Seat -> Game \cup {NONE}]
    BY <1>1, <1>3, <1>4 DEF ControlTypeOK
  <1>12. ControlTypeOK'
    <2>1. revision' \in 0..MaxRevision
      BY RevisionStaysTyped DEF PublishGame
    <2> QED
      BY <1>1, <1>6, <1>11, <2>1 DEF ControlTypeOK, AuthorityInv, worldVars
  <1>13. DownIsEmpty' /\ RequestsAreHeld'
    BY <1>1, <1>2, <1>4, <1>9 DEF DownIsEmpty, RequestsAreHeld, Handling
  <1>14. \A d \in Conn : ~Handling(d, "launch")'
    BY <1>4, <1>9, <1>10 DEF LaunchInProgress, Handling
  <1>15. LaunchInProgress'
    BY <1>1, <1>3, <1>5, <1>9, <1>14 DEF LaunchInProgress
  <1>16. PresentsOwnGame'
    <2> SUFFICES ASSUME NEW d \in Conn, Handling(d, "present")',
                        game'[request'[d].seat] # NONE
                 PROVE  game'[request'[d].seat].title = request'[d].title
      BY DEF PresentsOwnGame
    <2>1. CASE d = c
      BY <2>1, <1>2, <1>3, <1>4, <1>9
    <2>2. CASE d # c
      <3>1. Handling(d, "present") /\ request'[d] = request[d] /\ request[d].seat \in Seat
        BY <2>2, <1>9, LaunchIsHeld DEF Handling
      <3>2. request[d].seat # s
        BY <3>1, <2>2, <1>2 DEF RequestsAreHeld, Handling
      <3> QED BY <3>1, <3>2, <1>9 DEF PresentsOwnGame
    <2> QED BY <2>1, <2>2
  <1>17. TitleOfRunningGame'
    BY <1>1, <1>9, <1>10 DEF TitleOfRunningGame
  <1>18. LeaseBelongsToOneConnection'
    BY <1>1, <1>7, UiLeasesStay
  <1>19. LauncherOwnsGameLease'
    <2>1. \A x \in Seat : game[x] = NONE /\ "game" \in leases[x] => x = s
      BY <1>10 DEF LauncherOwnsGameLease
    <2> QED
      BY <1>3, <1>5, <1>7, <1>8, <1>9, <2>1 DEF LauncherOwnsGameLease, OwnsToken
  <1>20. AssignmentsExclusiveAndDurable'
    BY <1>1, AssignmentsStay
  <1>21. BindingFollowsAssignment' /\ GameHasItsController'
    BY <1>1, <1>7, BindingsStay
  <1> QED BY <1>6, <1>12, <1>13, <1>15, <1>16, <1>17, <1>18, <1>19, <1>20, <1>21

(* A game lease given back leaves the UI leases and the other Seats alone, *)
(* and no game is recorded for its Seat when none is published.            *)
LEMMA GameReleaseEffects ==
  ASSUME ControlInv, NEW t \in ActivationToken, t.class = "game", ReleaseLease(t)
  PROVE  /\ AuthorityInv' /\ generation' = generation
         /\ \A x \in Seat : leases'[x] = IF x = t.seat THEN leases[x] \ {"game"} ELSE leases[x]
         /\ \A x \in Seat : "ui" \in leases'[x] <=> "ui" \in leases[x]
         /\ \A x \in Seat : "game" \in leases'[x] => x # t.seat /\ "game" \in leases[x]
         /\ \A x \in Seat : x # t.seat => process'[x] = process[x]
         /\ \A x \in Seat : binding'[x] = binding[x] \/ binding'[x] = NONE
         /\ \A x \in Seat : "game" \in leases'[x] => binding'[x] = binding[x]
  <1>1. AuthorityInv' /\ AuthorityTypeOK
    BY ReleasePreserves DEF ControlInv, AuthorityInv
  <1>2. /\ generation' = generation
        /\ \A x \in Seat : leases'[x] = IF x = t.seat THEN leases[x] \ {t.class} ELSE leases[x]
        /\ \A x \in Seat : binding'[x] = binding[x] \/ binding'[x] = NONE
        /\ \A x \in Seat : leases'[x] # {} => binding'[x] = binding[x]
        /\ \A x \in Seat : x # t.seat \/ "game" \in leases'[x] => process'[x] = process[x]
    BY <1>1, ReleaseEffects
  <1>3. \A x \in Seat : /\ "ui" \in leases'[x] <=> "ui" \in leases[x]
                        /\ "game" \in leases'[x] => x # t.seat /\ "game" \in leases[x]
    <2> TAKE x \in Seat
    <2>1. CASE x = t.seat
      <3>1. leases'[x] = leases[x] \ {"game"}
        BY <1>2, <2>1
      <3> QED BY <3>1, <2>1
    <2>2. CASE x # t.seat
      BY <1>2, <2>2
    <2> QED BY <2>1, <2>2
  <1>4. \A x \in Seat : "game" \in leases'[x] => binding'[x] = binding[x]
    BY <1>2
  <1> QED BY <1>1, <1>2, <1>3, <1>4

LEMMA LaunchFailsPreserves ==
  ASSUME ControlInv, NEW c \in Conn, LaunchFails(c)
  PROVE  ControlInv'
  <1> USE DEF ControlInv
  <1> DEFINE s == request[c].seat
             t == GameToken(s)
  <1>1. /\ Handling(c, "launch") /\ ReleaseLease(t) /\ launching' = NONE
        /\ presentation' = [presentation EXCEPT ![s] = NONE] /\ Idle(c)
        /\ UNCHANGED <<hostState, config, disk, confirmed, tracker, session, held,
                       client, game, worldVars>>
    BY DEF LaunchFails
  <1>2. s \in Seat /\ t \in ActivationToken /\ hostState # "down"
    BY <1>1, LaunchIsHeld
  <1>3. t.seat = s /\ t.class = "game"
    BY DEF GameToken
  <1> HIDE DEF t
  <1>4. /\ AuthorityInv' /\ generation' = generation
        /\ \A x \in Seat : "ui" \in leases'[x] <=> "ui" \in leases[x]
        /\ \A x \in Seat : "game" \in leases'[x] => x # s /\ "game" \in leases[x]
        /\ \A x \in Seat : x # s => process'[x] = process[x]
        /\ \A x \in Seat : binding'[x] = binding[x] \/ binding'[x] = NONE
        /\ \A x \in Seat : "game" \in leases'[x] => binding'[x] = binding[x]
    BY <1>1, <1>2, <1>3, GameReleaseEffects
  <1>5. \A d \in Conn : request'[d] = IF d = c THEN NONE ELSE request[d]
    BY <1>1 DEF Idle, ControlTypeOK
  <1>6. launching = c /\ game[s] = NONE
    BY <1>1 DEF LaunchInProgress
  <1>7. ControlTypeOK'
    <2>1. revision' \in 0..MaxRevision
      BY RevisionStaysTyped DEF LaunchFails
    <2>2. /\ request' \in [Conn -> Request \cup {NONE}]
          /\ presentation' \in [Seat -> Title \cup {NONE}]
      BY <1>1 DEF Idle, ControlTypeOK
    <2> QED BY <1>1, <1>4, <2>1, <2>2 DEF ControlTypeOK, AuthorityInv, worldVars
  <1>8. DownIsEmpty' /\ RequestsAreHeld'
    BY <1>1, <1>2, <1>5 DEF DownIsEmpty, RequestsAreHeld
  <1>9. \A d \in Conn : ~Handling(d, "launch")'
    BY <1>5, <1>6 DEF LaunchInProgress, Handling
  <1>10. LaunchInProgress'
    BY <1>1, <1>9 DEF LaunchInProgress
  <1>11. PresentsOwnGame'
    BY <1>1, <1>5 DEF PresentsOwnGame, Handling
  <1>12. TitleOfRunningGame'
    BY <1>1, <1>2 DEF TitleOfRunningGame, ControlTypeOK
  <1>13. LeaseBelongsToOneConnection'
    BY <1>1, <1>4, UiLeasesStay
  <1>14. LauncherOwnsGameLease'
    <2>1. \A x \in Seat : game[x] = NONE /\ "game" \in leases[x] => x = s
      BY <1>6 DEF LauncherOwnsGameLease
    <2>2. ASSUME NEW x \in Seat, game[x] # NONE
          PROVE  OwnsToken(game[x].token)' /\ game[x].token.seat = x /\ process'[x] # NONE
      <3>1. x # s /\ process'[x] = process[x]
        BY <1>4, <1>6, <2>2
      <3>2. leases'[x] = leases[x]
        BY <1>1, <1>2, <1>3, <3>1 DEF ReleaseLease, AuthorityInv, AuthorityTypeOK
      <3> QED BY <1>1, <1>4, <3>1, <3>2, <2>2, GameLease DEF OwnsToken
    <2> QED BY <1>1, <1>4, <2>1, <2>2 DEF LauncherOwnsGameLease
  <1>15. AssignmentsExclusiveAndDurable'
    BY <1>1, AssignmentsStay
  <1>16. BindingFollowsAssignment' /\ GameHasItsController'
    BY <1>1, <1>4 DEF BindingFollowsAssignment, GameHasItsController
  <1> QED BY <1>4, <1>7, <1>8, <1>10, <1>11, <1>12, <1>13, <1>14, <1>15, <1>16

(* The launcher's mutex is free again when the title is set, so the game   *)
(* may be gone, but it cannot be another: the connection still holds the   *)
(* Seat.                                                                   *)
LEMMA SetPresentationPreserves ==
  ASSUME ControlInv, NEW c \in Conn, SetPresentation(c)
  PROVE  ControlInv'
  <1> USE DEF ControlInv
  <1> DEFINE s == request[c].seat
             running == "game" \in leases[s] /\ process[s] # NONE
  <1>1. /\ Handling(c, "present") /\ Idle(c)
        /\ IF running
             THEN NoteMutation /\ presentation' = [presentation EXCEPT ![s] = request[c].title]
             ELSE UNCHANGED <<revision, presentation>>
        /\ UNCHANGED <<authorityVars, hostState, config, disk, confirmed, tracker,
                       session, held, client, gameVars, worldVars>>
    BY DEF SetPresentation
  <1>2. /\ s \in Seat /\ request[c].title \in Title /\ hostState # "down"
        /\ request[c] # NONE /\ request[c].kind = "present"
        /\ \A d \in Conn : held[d][s] # 0 => d = c
    BY <1>1, LaunchIsHeld DEF Handling
  <1>3. /\ RequestsAreHeld' /\ LaunchInProgress' /\ PresentsOwnGame'
        /\ request' \in [Conn -> Request \cup {NONE}]
        /\ LeaseBelongsToOneConnection' /\ LauncherOwnsGameLease'
    BY <1>1, <1>2, FinishesRequest, EpochsStay DEF gameVars, authorityVars
  <1>4. running => game[s] # NONE /\ game[s].title = request[c].title
    <2> SUFFICES ASSUME running PROVE game[s] # NONE
      BY <1>1 DEF PresentsOwnGame
    <2>1. SUFFICES ASSUME game[s] = NONE PROVE FALSE
      OBVIOUS
    <2>2. /\ launching \in Conn /\ Handling(launching, "launch")
          /\ request[launching].seat = s
      BY <1>2, <2>1 DEF LauncherOwnsGameLease, ControlTypeOK
    <2>3. launching = c
      BY <1>2, <2>2, LaunchIsHeld
    <2> QED BY <1>2, <2>2, <2>3 DEF Handling
  <1>5. TitleOfRunningGame'
    BY <1>1, <1>2, <1>4 DEF TitleOfRunningGame, ControlTypeOK, gameVars
  <1>6. AuthorityInv' /\ AssignmentsExclusiveAndDurable'
        /\ BindingFollowsAssignment' /\ GameHasItsController'
    BY <1>1, AuthorityStays, AssignmentsStay, BindingsStay DEF authorityVars
  <1>7. ControlTypeOK'
    <2>1. revision' \in 0..MaxRevision
      BY <1>1, RevisionStaysTyped DEF ControlTypeOK
    <2>2. presentation' \in [Seat -> Title \cup {NONE}]
      BY <1>1, <1>2 DEF ControlTypeOK
    <2> QED BY <1>1, <1>3, <1>6, <2>1, <2>2
        DEF ControlTypeOK, AuthorityInv, gameVars, worldVars
  <1>8. DownIsEmpty'
    BY <1>1, <1>2 DEF DownIsEmpty
  <1> QED BY <1>3, <1>5, <1>6, <1>7, <1>8

(* A stop, or the reaping of a game that exited.                           *)
LEMMA EndGamePreserves ==
  ASSUME ControlInv, NEW s \in Seat, EndGame(s)
  PROVE  ControlInv'
  <1> USE DEF ControlInv
  <1> DEFINE t == game[s].token
  <1>1. /\ launching = NONE /\ game[s] # NONE /\ ReleaseLease(t)
        /\ game' = [game EXCEPT ![s] = NONE]
        /\ presentation' = [presentation EXCEPT ![s] = NONE]
        /\ UNCHANGED <<hostState, config, disk, confirmed, tracker, session, held,
                       request, client, launching, worldVars>>
    BY DEF EndGame, sessionVars
  <1>2. t \in ActivationToken /\ t.seat = s /\ t.class = "game" /\ hostState # "down"
    BY <1>1, GameLease
  <1> HIDE DEF t
  <1>3. /\ AuthorityInv' /\ generation' = generation
        /\ \A x \in Seat : leases'[x] = IF x = s THEN leases[x] \ {"game"} ELSE leases[x]
        /\ \A x \in Seat : "ui" \in leases'[x] <=> "ui" \in leases[x]
        /\ \A x \in Seat : "game" \in leases'[x] => x # s /\ "game" \in leases[x]
        /\ \A x \in Seat : x # s => process'[x] = process[x]
        /\ \A x \in Seat : binding'[x] = binding[x] \/ binding'[x] = NONE
        /\ \A x \in Seat : "game" \in leases'[x] => binding'[x] = binding[x]
    BY <1>1, <1>2, GameReleaseEffects
  <1>4. \A x \in Seat : game'[x] = IF x = s THEN NONE ELSE game[x]
    BY <1>1 DEF ControlTypeOK
  <1>5. ControlTypeOK'
    <2>1. revision' \in 0..MaxRevision
      BY RevisionStaysTyped DEF EndGame
    <2>2. /\ game' \in [Seat -> Game \cup {NONE}]
          /\ presentation' \in [Seat -> Title \cup {NONE}]
      BY <1>1 DEF ControlTypeOK
    <2> QED BY <1>1, <1>3, <2>1, <2>2 DEF ControlTypeOK, AuthorityInv, worldVars
  <1>6. DownIsEmpty' /\ RequestsAreHeld'
    BY <1>1, <1>2 DEF DownIsEmpty, RequestsAreHeld
  <1>7. \A d \in Conn : ~Handling(d, "launch")
    BY <1>1 DEF LaunchInProgress
  <1>8. LaunchInProgress'
    BY <1>1, <1>4, <1>7 DEF LaunchInProgress, Handling
  <1>9. PresentsOwnGame'
    <2>1. \A d \in Conn : Handling(d, "present") => request[d].seat \in Seat
      BY LaunchIsHeld
    <2> QED BY <1>1, <1>4, <2>1 DEF PresentsOwnGame, Handling
  <1>10. TitleOfRunningGame'
    BY <1>1, <1>4 DEF TitleOfRunningGame, ControlTypeOK
  <1>11. LeaseBelongsToOneConnection'
    BY <1>1, <1>3, UiLeasesStay
  <1>12. LauncherOwnsGameLease'
    <2>1. \A x \in Seat : game[x] = NONE => "game" \notin leases[x]
      BY <1>1 DEF LauncherOwnsGameLease
    <2>2. ASSUME NEW x \in Seat, game'[x] # NONE
          PROVE  /\ OwnsToken(game[x].token)' /\ game'[x].token.seat = x
                 /\ process'[x] # NONE
      <3>1. x # s /\ game'[x] = game[x] /\ game[x] # NONE
        BY <1>4, <2>2
      <3>2. /\ OwnsToken(game[x].token) /\ game[x].token.seat = x /\ process[x] # NONE
        BY <3>1, GameLease
      <3>3. leases'[x] = leases[x] /\ process'[x] = process[x] /\ generation' = generation
        BY <1>3, <3>1
      <3> QED BY <3>1, <3>2, <3>3 DEF OwnsToken
    <2> QED BY <1>3, <1>4, <2>1, <2>2 DEF LauncherOwnsGameLease
  <1>13. AssignmentsExclusiveAndDurable'
    BY <1>1, AssignmentsStay
  <1>14. BindingFollowsAssignment' /\ GameHasItsController'
    BY <1>1, <1>3 DEF BindingFollowsAssignment, GameHasItsController
  <1> QED BY <1>3, <1>5, <1>6, <1>8, <1>9, <1>10, <1>11, <1>12, <1>13, <1>14

LEMMA GameExitsPreserves ==
  ASSUME ControlInv, NEW s \in Seat, GameExits(s)
  PROVE  ControlInv'
  <1> USE DEF ControlInv, hostVars, sessionVars, worldVars
  <1>1. /\ game[s] \in Game /\ game' = [game EXCEPT ![s].exited = TRUE]
        /\ UNCHANGED <<authorityVars, hostVars, sessionVars, launching, worldVars>>
    BY GameLease DEF GameExits
  <1>2. \A x \in Seat : /\ game'[x] # NONE <=> game[x] # NONE
                        /\ game[x] # NONE => /\ game'[x] \in Game
                                             /\ game'[x].token = game[x].token
                                             /\ game'[x].title = game[x].title
    <2> DEFINE e == [game[s] EXCEPT !.exited = TRUE]
    <2>1. e \in Game /\ e.token = game[s].token /\ e.title = game[s].title
      BY <1>1 DEF Game
    <2>2. \A x \in Seat : game'[x] = IF x = s THEN e ELSE game[x]
      BY <1>1 DEF ControlTypeOK
    <2>3. e # NONE /\ game[s] # NONE
      BY <1>1, <2>1, GameFields
    <2>4. \A x \in Seat : game[x] # NONE => game[x] \in Game
      BY GameLease
    <2> HIDE DEF e
    <2> QED BY <2>1, <2>2, <2>3, <2>4
  <1>3. /\ AuthorityInv' /\ AssignmentsExclusiveAndDurable'
        /\ BindingFollowsAssignment' /\ GameHasItsController'
    BY <1>1, AuthorityStays, AssignmentsStay, BindingsStay DEF authorityVars
  <1>4. game' \in [Seat -> Game \cup {NONE}]
    <2>1. \A x \in Seat : game'[x] \in Game \cup {NONE}
      BY <1>2
    <2>2. DOMAIN game' = Seat /\ game' = [x \in Seat |-> game'[x]]
      BY <1>1 DEF ControlTypeOK
    <2> QED BY <2>1, <2>2
  <1>5. ControlTypeOK'
    BY <1>1, <1>3, <1>4 DEF ControlTypeOK, AuthorityInv
  <1>6. DownIsEmpty' /\ RequestsAreHeld'
    BY <1>1 DEF DownIsEmpty, RequestsAreHeld, authorityVars
  <1>7. \A d \in Conn : request[d] # NONE => request[d].seat \in Seat
    BY RequestFields DEF ControlTypeOK
  <1>8. LaunchInProgress' /\ PresentsOwnGame' /\ TitleOfRunningGame'
    BY <1>1, <1>2, <1>7 DEF LaunchInProgress, PresentsOwnGame, TitleOfRunningGame, Handling
  <1>9. LeaseBelongsToOneConnection'
    BY <1>1, UiLeasesStay DEF authorityVars
  <1>10. LauncherOwnsGameLease'
    BY <1>1, <1>2 DEF LauncherOwnsGameLease, OwnsToken, Handling, authorityVars
  <1> QED BY <1>3, <1>5, <1>6, <1>8, <1>9, <1>10

-----------------------------------------------------------------------------
(* Steps that concern no connection: input that proves a device, devices   *)
(* that come and go, the request to stop, and stuttering.                  *)
LEMMA OutsideStepPreserves ==
  ASSUME ControlInv, ControlTypeOK',
         UNCHANGED <<authorityVars, config, disk, presentation, sessionVars, gameVars>>,
         hostState' = "down" <=> hostState = "down"
  PROVE  ControlInv'
  <1> USE DEF ControlInv, sessionVars, gameVars
  <1>1. /\ AuthorityInv' /\ AssignmentsExclusiveAndDurable'
        /\ BindingFollowsAssignment' /\ GameHasItsController'
    BY AuthorityStays, AssignmentsStay, BindingsStay DEF authorityVars
  <1>2. /\ LaunchInProgress' /\ PresentsOwnGame' /\ TitleOfRunningGame'
        /\ LeaseBelongsToOneConnection' /\ LauncherOwnsGameLease'
    BY GamesStay, LeasesStay
  <1>3. DownIsEmpty' /\ RequestsAreHeld'
    BY DEF DownIsEmpty, RequestsAreHeld, authorityVars
  <1> QED BY <1>1, <1>2, <1>3

LEMMA AuthorityTypesStay ==
  ASSUME ControlInv, UNCHANGED authorityVars
  PROVE  AuthorityTypeOK'
  BY AuthorityStays DEF ControlInv, AuthorityInv

LEMMA ObserveInputPreserves ==
  ASSUME ControlInv, NEW d \in Device, ObservePhysicalInput(d)
  PROVE  ControlInv'
  <1>1. revision' \in 0..MaxRevision
    BY RevisionStaysTyped DEF ObservePhysicalInput
  <1>2. ControlTypeOK'
    BY <1>1, AuthorityTypesStay
    DEF ObservePhysicalInput, ControlInv, ControlTypeOK, sessionVars, gameVars, worldVars
  <1> QED BY <1>2, OutsideStepPreserves DEF ObservePhysicalInput

LEMMA WorldChangesPreserves ==
  ASSUME ControlInv, WorldChanges
  PROVE  ControlInv'
  <1>1. attached' \subseteq Device /\ pads' \subseteq Controller /\ live' \subseteq Slot
    BY DEF WorldChanges, Toggle, ControlInv, ControlTypeOK
  <1>2. ControlTypeOK'
    BY <1>1, AuthorityTypesStay
    DEF WorldChanges, ControlInv, ControlTypeOK, hostVars, sessionVars, gameVars
  <1> QED BY <1>2, OutsideStepPreserves DEF WorldChanges, hostVars

LEMMA RequestStopPreserves ==
  ASSUME ControlInv, RequestStop
  PROVE  ControlInv'
  <1>1. ControlTypeOK'
    BY AuthorityTypesStay
    DEF RequestStop, ControlInv, ControlTypeOK, sessionVars, gameVars, worldVars
  <1> QED BY <1>1, OutsideStepPreserves DEF RequestStop

LEMMA StutterPreserves ==
  ASSUME ControlInv, UNCHANGED controlVars
  PROVE  ControlInv'
  <1>1. ControlTypeOK'
    BY AuthorityTypesStay
    DEF controlVars, ControlInv, ControlTypeOK, hostVars, sessionVars, gameVars, worldVars
  <1> QED BY <1>1, OutsideStepPreserves DEF controlVars, hostVars

(* A host that crashes or stops leaves the file: what it then holds is     *)
(* what it held, or the assignment a handler had just saved.               *)
LEMMA ForgetPreserves ==
  ASSUME ControlInv, Forget, disk' \in [Seat -> Hardware], Exclusive(disk')
  PROVE  ControlInv'
  <1>1. AuthorityInv'
    BY DEF Forget, AuthorityInv, AuthorityTypeOK, NoOrphanAuthority,
           ExclusiveOwnership, LeaseClass
  <1>2. NoHardware \in Hardware /\ UnseenSlot \in SlotMemory
    BY DEF NoHardware, Hardware, SlotMemory, UnseenSlot, SourceGeneration
  <1>3. held' \in [Conn -> [Seat -> 0..MaxGeneration]] /\ revision' \in 0..MaxRevision
    BY DEF Forget
  <1>4. ControlTypeOK'
    BY <1>1, <1>2, <1>3
    DEF Forget, ControlInv, ControlTypeOK, AuthorityInv, worldVars
  <1>5. /\ DownIsEmpty' /\ RequestsAreHeld' /\ LaunchInProgress'
        /\ PresentsOwnGame' /\ TitleOfRunningGame'
    BY DEF Forget, DownIsEmpty, RequestsAreHeld, LaunchInProgress,
       PresentsOwnGame, TitleOfRunningGame, Handling
  <1>6. LeaseBelongsToOneConnection' /\ LauncherOwnsGameLease'
    BY DEF Forget, LeaseBelongsToOneConnection, LauncherOwnsGameLease
  <1>7. AssignmentsExclusiveAndDurable'
    BY DEF Forget, AssignmentsExclusiveAndDurable
  <1>8. BindingFollowsAssignment' /\ GameHasItsController'
    BY DEF Forget, BindingFollowsAssignment, GameHasItsController
  <1> QED BY <1>1, <1>4, <1>5, <1>6, <1>7, <1>8 DEF ControlInv

LEMMA HostStartsPreserves ==
  ASSUME ControlInv, HostStarts
  PROVE  ControlInv'
  <1> USE DEF ControlInv, sessionVars, gameVars, worldVars
  <1>1. /\ hostState = "down" /\ hostState' = "running"
        /\ config' = disk /\ Exclusive(disk)
        /\ UNCHANGED <<authorityVars, disk, confirmed, tracker, presentation,
                       sessionVars, gameVars, worldVars>>
    BY DEF HostStarts
  <1>2. revision' \in 0..MaxRevision
    BY DEF HostStarts
  <1>3. ControlTypeOK'
    BY <1>1, <1>2, AuthorityTypesStay DEF ControlTypeOK
  <1>4. /\ AuthorityInv' /\ LaunchInProgress' /\ PresentsOwnGame' /\ TitleOfRunningGame'
        /\ LeaseBelongsToOneConnection' /\ LauncherOwnsGameLease'
    BY <1>1, AuthorityStays, GamesStay, LeasesStay
  <1>5. DownIsEmpty' /\ RequestsAreHeld'
    BY <1>1 DEF DownIsEmpty, RequestsAreHeld
  <1>6. AssignmentsExclusiveAndDurable'
    BY <1>1 DEF AssignmentsExclusiveAndDurable
  <1>7. \A s \in Seat : leases'[s] = {} /\ binding'[s] = NONE
    BY <1>1 DEF DownIsEmpty, AuthorityInv, NoOrphanAuthority, Active, authorityVars
  <1>8. BindingFollowsAssignment' /\ GameHasItsController'
    BY <1>7 DEF BindingFollowsAssignment, GameHasItsController
  <1> QED BY <1>3, <1>4, <1>5, <1>6, <1>8

-----------------------------------------------------------------------------
LEMMA ControlStepPreserves ==
  ControlInv /\ [ControlNext]_controlVars => ControlInv'
  <1> SUFFICES ASSUME ControlInv, [ControlNext]_controlVars
               PROVE  ControlInv'
    OBVIOUS
  <1>1. CASE UNCHANGED controlVars
    BY <1>1, StutterPreserves
  <1>2. ASSUME NEW c \in Conn, NEW role \in Role, Connect(c, role)
        PROVE  ControlInv'
    BY <1>2, ConnectPreserves
  <1>3. ASSUME NEW c \in Conn, ClientDies(c)
        PROVE  ControlInv'
    BY <1>3, ClientDiesPreserves
  <1>4. ASSUME NEW c \in Conn, EndConnection(c)
        PROVE  ControlInv'
    BY <1>4, DropLeasePreserves, CloseSessionPreserves
    DEF EndConnection, ReleaseOnDisconnect, Ending
  <1>5. ASSUME NEW c \in Conn, Finish(c)
        PROVE  ControlInv'
    <2>1. CASE AssignNothing(c)
      BY <2>1, IdlePreserves DEF AssignNothing, Handling
    <2>2. CASE RefusePairing(c)
      BY <2>2, IdlePreserves DEF RefusePairing, Handling
    <2>3. CASE AssignHardware(c) \/ CommitPairing(c)
      BY <2>3, AssignHardwarePreserves, CommitPairingPreserves
    <2>4. CASE LaunchFails(c) \/ SetPresentation(c) \/ \E p \in Process : PublishGame(c, p)
      BY <2>4, LaunchFailsPreserves, SetPresentationPreserves, PublishGamePreserves
    <2> QED BY <1>5, <2>1, <2>2, <2>3, <2>4 DEF Finish
  <1>6. ASSUME NEW c \in Conn, HostCrashAfterSave(c)
        PROVE  ControlInv'
    <2>1. /\ Forget
          /\ disk' = [config EXCEPT ![request[c].seat] = request[c].hardware]
          /\ Handling(c, "configure") /\ Assignable(c)
      BY <1>6 DEF HostCrashAfterSave
    <2> QED BY <2>1, AssignableIsExclusive, ForgetPreserves
  <1>7. ASSUME NEW c \in Conn, NEW s \in Seat,
               HandleAcquireUiLease(c, s) \/ HandleReleaseUiLease(c, s)
        PROVE  ControlInv'
    BY <1>7, AcquireUiPreserves, DropLeasePreserves
    DEF HandleReleaseUiLease, AcceptsFor, Accepts
  <1>8. ASSUME NEW c \in Conn, NEW s \in Seat,
               \/ \E hardware \in Hardware : ReadHardware(c, s, hardware)
               \/ \E p \in Controller, slot \in Slot : ScanForPairing(c, s, p, slot)
               \/ ScanFails(c, s)
        PROVE  ControlInv'
    BY <1>8, ReadHardwarePreserves, ScanForPairingPreserves, ScanFailsPreserves
  <1>9. ASSUME NEW c \in Conn, NEW s \in Seat,
               \E title \in Title : HandleLaunchGame(c, s, title)
        PROVE  ControlInv'
    BY <1>9, BeginLaunchPreserves
  <1>10. ASSUME NEW c \in Conn, NEW s \in Seat,
                HandleStopGame(c, s) \/ ReapBeforeRequest(c, s)
         PROVE  ControlInv'
    BY <1>10, EndGamePreserves DEF HandleStopGame, ReapBeforeRequest
  <1>11. ASSUME NEW s \in Seat, GameExits(s)
         PROVE  ControlInv'
    BY <1>11, GameExitsPreserves
  <1>12. ASSUME NEW d \in Device, ObservePhysicalInput(d)
         PROVE  ControlInv'
    BY <1>12, ObserveInputPreserves
  <1>13. CASE WorldChanges \/ RequestStop \/ HostStarts
    BY <1>13, WorldChangesPreserves, RequestStopPreserves, HostStartsPreserves
  <1>14. CASE HostCrash \/ HostStops
    <2>1. Forget /\ disk' = disk
      BY <1>14 DEF HostCrash, HostStops
    <2>2. disk \in [Seat -> Hardware] /\ Exclusive(disk)
      BY DEF ControlInv, ControlTypeOK, AssignmentsExclusiveAndDurable
    <2> QED BY <2>1, <2>2, ForgetPreserves
  <1>15. CASE ControlNext
    BY <1>2, <1>3, <1>4, <1>5, <1>6, <1>7, <1>8, <1>9, <1>10, <1>11, <1>12,
       <1>13, <1>14, <1>15
    DEF ControlNext
  <1> QED BY <1>1, <1>15

LEMMA ControlInvariance == ControlSpec => []ControlInv
  BY ControlInitEstablishes, ControlStepPreserves, PTL DEF ControlSpec

(* Type correctness of the host, its sessions and its launcher.            *)
THEOREM ControlTypeCorrect == ControlSpec => []ControlTypeOK
  <1>1. ControlInv => ControlTypeOK
    BY DEF ControlInv
  <1> QED BY <1>1, ControlInvariance, PTL

(* The host keeps SessionController's authority exclusive and without      *)
(* orphans, although it also forgets it when it crashes.                   *)
THEOREM HostKeepsAuthority ==
  ControlSpec => [](ExclusiveOwnership /\ NoOrphanAuthority)
  <1>1. ControlInv => ExclusiveOwnership /\ NoOrphanAuthority
    BY DEF ControlInv, AuthorityInv
  <1> QED BY <1>1, ControlInvariance, PTL

(* Whatever handlers, disconnections, launches and crashes interleave, a   *)
(* lease is owned by exactly one live connection or by the launcher.       *)
THEOREM LeasesOwned == ControlSpec => []LeasesHaveOneOwner
  <1>1. ControlInv => LeasesHaveOneOwner
    BY DEF ControlInv, LeasesHaveOneOwner
  <1> QED BY <1>1, ControlInvariance, PTL

(* configureSeatHardware never gives a device to two Seats, nor leaves the *)
(* file different from the memory, whenever the host crashes.              *)
THEOREM AssignmentsKept == ControlSpec => []AssignmentsExclusiveAndDurable
  <1>1. ControlInv => AssignmentsExclusiveAndDurable
    BY DEF ControlInv
  <1> QED BY <1>1, ControlInvariance, PTL

(* A pairing that was prepared before a reassignment cannot bind the old   *)
(* controller, and a reassignment drops its binding.                       *)
THEOREM BindingsFollow == ControlSpec => []BindingFollowsAssignment
  <1>1. ControlInv => BindingFollowsAssignment
    BY DEF ControlInv
  <1> QED BY <1>1, ControlInvariance, PTL

(* Between the check of LaunchGame and the end of the game neither the     *)
(* assignment nor the binding of the Seat can be taken away.               *)
THEOREM GamesKeepTheirController == ControlSpec => []GameHasItsController
  <1>1. ControlInv => GameHasItsController
    BY DEF ControlInv
  <1> QED BY <1>1, ControlInvariance, PTL

(* setSeatGamePresentation, although it runs after the launcher's mutex    *)
(* was released, never shows the title of a game that is not there.        *)
THEOREM TitlesAreTrue == ControlSpec => []TitleOfRunningGame
  <1>1. ControlInv => TitleOfRunningGame
    BY DEF ControlInv
  <1> QED BY <1>1, ControlInvariance, PTL

-----------------------------------------------------------------------------
(* What a client that polls the revision relies on, of one step.           *)
ChangesAreNoted ==
  /\ hostState # "down" /\ hostState' # "down"
  /\ revision < MaxRevision
  /\ <<leases, process, window, binding, config, presentation>>'
       # <<leases, process, window, binding, config, presentation>>
  => revision' = revision + 1

(* A step notes its change, leaves what the client sees, or the host is    *)
(* down before or after it.                                                *)
LEMMA StepNotesChanges == ControlInv /\ [ControlNext]_controlVars => ChangesAreNoted
  <1> SUFFICES ASSUME ControlInv, [ControlNext]_controlVars
               PROVE  \/ NoteMutation
                      \/ UNCHANGED <<leases, process, window, binding, config, presentation>>
                      \/ hostState = "down" \/ hostState' = "down"
    BY DEF ChangesAreNoted, NoteMutation, ControlInv, ControlTypeOK
  <1> USE DEF authorityVars, hostVars
  <1>1. CASE UNCHANGED controlVars
    BY <1>1 DEF controlVars
  <1>2. ASSUME NEW c \in Conn,
               \/ \E role \in Role : Connect(c, role)
               \/ ClientDies(c) \/ CloseSession(c)
               \/ AssignNothing(c) \/ RefusePairing(c)
        PROVE  UNCHANGED <<leases, process, window, binding, config, presentation>>
    BY <1>2 DEF Connect, ClientDies, CloseSession, AssignNothing, RefusePairing
  <1>3. ASSUME NEW c \in Conn, NEW s \in Seat,
               HandleAcquireUiLease(c, s) \/ HandleReleaseUiLease(c, s)
                 \/ ReleaseOnDisconnect(c, s)
        PROVE  NoteMutation
    BY <1>3 DEF HandleAcquireUiLease, HandleReleaseUiLease, ReleaseOnDisconnect, DropLease
  <1>4. ASSUME NEW c \in Conn,
               AssignHardware(c) \/ CommitPairing(c) \/ LaunchFails(c)
                 \/ \E p \in Process : PublishGame(c, p)
        PROVE  NoteMutation
    BY <1>4 DEF AssignHardware, CommitPairing, LaunchFails, PublishGame
  <1>5. ASSUME NEW c \in Conn, SetPresentation(c)
        PROVE  \/ NoteMutation
               \/ UNCHANGED <<leases, process, window, binding, config, presentation>>
    BY <1>5 DEF SetPresentation
  <1>6. ASSUME NEW c \in Conn, NEW s \in Seat,
               \/ \E hardware \in Hardware : ReadHardware(c, s, hardware)
               \/ \E p \in Controller, slot \in Slot : ScanForPairing(c, s, p, slot)
               \/ ScanFails(c, s)
        PROVE  UNCHANGED <<leases, process, window, binding, config, presentation>>
    BY <1>6 DEF ReadHardware, ScanForPairing, ScanFails
  <1>7. ASSUME NEW c \in Conn, NEW s \in Seat,
               \/ \E title \in Title : HandleLaunchGame(c, s, title)
               \/ HandleStopGame(c, s) \/ ReapBeforeRequest(c, s)
        PROVE  NoteMutation
    BY <1>7 DEF HandleLaunchGame, HandleStopGame, ReapBeforeRequest, EndGame
  <1>8. ASSUME \/ \E s \in Seat : GameExits(s)
               \/ \E d \in Device : ObservePhysicalInput(d)
               \/ WorldChanges \/ RequestStop
        PROVE  UNCHANGED <<leases, process, window, binding, config, presentation>>
    BY <1>8 DEF GameExits, ObservePhysicalInput, WorldChanges, RequestStop
  <1>9. ASSUME \/ HostCrash \/ HostStops \/ HostStarts
               \/ \E c \in Conn : HostCrashAfterSave(c)
        PROVE  hostState = "down" \/ hostState' = "down"
    BY <1>9 DEF HostCrash, HostStops, HostStarts, HostCrashAfterSave, Forget
  <1>10. CASE ControlNext
    BY <1>10, <1>2, <1>3, <1>4, <1>5, <1>6, <1>7, <1>8, <1>9
    DEF ControlNext, EndConnection, Finish
  <1> QED BY <1>1, <1>10

(* Every path that changes authority, assignment or presentation counts    *)
(* the mutation, so equal revisions mean equal snapshots.                  *)
THEOREM RevisionNotesEveryChange == ControlSpec => RevisionCoversEveryChange
  BY ControlInvariance, StepNotesChanges, PTL
  DEF ControlSpec, RevisionCoversEveryChange, ChangesAreNoted

-----------------------------------------------------------------------------
(***************************************************************************)
(* What runs is owned and isolated, for every set of Seats, processes and  *)
(* scans, and whatever of a stop or a kill may fail.                       *)
(*                                                                         *)
(* RunningTreeIsOwned is not inductive: it does not say that a process     *)
(* that is about to run is in its Job, or that the Seat of a launch has no *)
(* record of another process.  LauncherInv adds what each step of a launch *)
(* may rely on (LaunchHolds) and what a record stands for (RecordHolds).   *)
(***************************************************************************)
USE LauncherAssumption, AbsenceAssumption

(* Every process there is was created for a Seat, and an open epoch has a   *)
(* generation of its own.                                                  *)
EpochNumbered == \A s \in Seat : Active(s) => generation[s] # 0

TreesHaveSeats == \A p \in Process : tree[p].seat = NONE => Empty(tree[p])

(* A record is of a process in the Seat's Job, under the game's lease.      *)
RecordHolds ==
  \A s \in Seat : seatProcess[s] # NONE =>
    LET r == seatProcess[s]
    IN /\ r.token.seat = s /\ OwnsGameToken(r.token)
       /\ tree[r.process].seat = s /\ tree[r.process].inJob

(* The steps of a launch, by what has been done for it.                    *)
BeforeRecord == {"activated", "prepared", "created"}
Suspended == {"created", "recorded", "published", "tracked", "isolated"}

LaunchHolds ==
  launch # NONE =>
    LET r == seatProcess[launch.seat]
    IN /\ launch.token.seat = launch.seat /\ OwnsGameToken(launch.token)
       /\ launch.step = "activated" /\ launch.plan.xinput => binding[launch.seat] # NONE
       /\ launch.step \in BeforeRecord => r = NONE
       /\ launch.step \notin BeforeRecord =>
            r # NONE /\ r.process = launch.process /\ r.plan = launch.plan
       /\ launch.step = "created" =>
            launch.process # NONE /\ tree[launch.process].seat = launch.seat
       /\ launch.step \in Suspended => ~Running(tree[launch.process])
       /\ launch.step \in {"published", "tracked", "isolated"} =>
            process[launch.seat] = launch.process
       /\ launch.step \in {"isolated", "resumed"} /\ WantsIsolation(launch.plan) =>
            r.input # "none"

LauncherInv ==
  /\ AuthorityInv /\ LauncherTypeOK /\ EpochNumbered /\ TreesHaveSeats
  /\ RecordHolds /\ LaunchHolds
  /\ RunningTreeIsOwned /\ RunsIsolated

(* Nothing has been started and no epoch is open.                          *)
LEMMA LauncherInitEstablishes == LauncherInit => LauncherInv
  <1> SUFFICES ASSUME LauncherInit PROVE LauncherInv
    OBVIOUS
  <1> USE DEF LauncherInit
  <1>1. AuthorityInv
    BY InitEstablishes
  <1>2. LauncherTypeOK
    BY <1>1 DEF AuthorityInv, LauncherTypeOK, Tree, NotCreated, Life
  <1>3. EpochNumbered
    BY DEF EpochNumbered, AuthorityInit, Active
  <1>4. TreesHaveSeats /\ RecordHolds /\ LaunchHolds
    BY DEF TreesHaveSeats, RecordHolds, LaunchHolds, NotCreated, Empty
  <1>5. RunningTreeIsOwned /\ RunsIsolated
    BY DEF RunningTreeIsOwned, RunsIsolated, Running, NotCreated
  <1> QED BY <1>1, <1>2, <1>3, <1>4, <1>5 DEF LauncherInv

-----------------------------------------------------------------------------
(* A game's token and its process outlive what is done to another Seat, and *)
(* what UI clients do to the same one.                                     *)
LEMMA OthersKeepTheirs ==
  ASSUME AuthorityTypeOK, NEW u \in ActivationToken, ReleaseLease(u)
  PROVE  \A t \in ActivationToken :
           OwnsGameToken(t) /\ (t.seat # u.seat \/ u.class = "ui") =>
             OwnsGameToken(t)' /\ process'[t.seat] = process[t.seat]
  <1> SUFFICES ASSUME NEW t \in ActivationToken, OwnsGameToken(t),
                      t.seat # u.seat \/ u.class = "ui"
               PROVE  OwnsGameToken(t)' /\ process'[t.seat] = process[t.seat]
    OBVIOUS
  <1>1. t.class = "game" /\ "game" \in leases[t.seat] /\ t.generation = generation[t.seat]
    BY DEF OwnsGameToken, OwnsToken
  <1>2. CASE t.seat # u.seat
    BY <1>1, <1>2, TokenFields DEF AuthorityTypeOK, ReleaseLease, OwnsGameToken, OwnsToken
  <1>3. CASE t.seat = u.seat /\ u.class = "ui"
    <2>1. leases'[t.seat] = leases[t.seat] \ {"ui"} /\ generation' = generation
      BY <1>3, TokenFields DEF AuthorityTypeOK, ReleaseLease
    <2>2. "game" \in leases[t.seat] \ {"ui"}
      BY <1>1
    <2>3. process' = process
      BY <1>3, <2>2 DEF ReleaseLease
    <2> QED BY <1>1, <2>1, <2>2, <2>3 DEF OwnsGameToken, OwnsToken
  <1> QED BY <1>2, <1>3

LEMMA AcquiringKeepsTokens ==
  ASSUME AuthorityTypeOK, NEW s \in Seat, NEW class \in LeaseClass, AcquireLease(s, class)
  PROVE  \A t \in ActivationToken :
           OwnsGameToken(t) => OwnsGameToken(t)' /\ process'[t.seat] = process[t.seat]
  <1> SUFFICES ASSUME NEW t \in ActivationToken, OwnsGameToken(t)
               PROVE  OwnsGameToken(t)' /\ process'[t.seat] = process[t.seat]
    OBVIOUS
  <1>1. t.class = "game" /\ "game" \in leases[t.seat] /\ t.generation = generation[t.seat]
    BY DEF OwnsGameToken, OwnsToken
  <1>2. Active(t.seat)
    BY <1>1 DEF Active
  <1>3. CASE t.seat # s
    BY <1>1, <1>3, TokenFields DEF AuthorityTypeOK, AcquireLease, OwnsGameToken, OwnsToken
  <1>4. CASE t.seat = s
    BY <1>1, <1>2, <1>4, TokenFields DEF AuthorityTypeOK, AcquireLease, OwnsGameToken, OwnsToken
  <1> QED BY <1>3, <1>4

LEMMA BindingKeepsTokens ==
  ASSUME generation' = generation, leases' = leases, process' = process
  PROVE  \A t \in ActivationToken :
           OwnsGameToken(t) => OwnsGameToken(t)' /\ process'[t.seat] = process[t.seat]
  BY DEF OwnsGameToken, OwnsToken

-----------------------------------------------------------------------------
(* Types of the records.                                                   *)
LEMMA RecordFields ==
  ASSUME LauncherTypeOK, NEW s \in Seat, seatProcess[s] # NONE
  PROVE  /\ seatProcess[s] \in SeatProcess
         /\ seatProcess[s].token \in ActivationToken
         /\ seatProcess[s].process \in Process
         /\ seatProcess[s].plan \in Plan
  BY DEF LauncherTypeOK, SeatProcess

LEMMA LaunchFields ==
  ASSUME LauncherTypeOK, launch # NONE
  PROVE  /\ launch \in Launch /\ launch.seat \in Seat
         /\ launch.token \in ActivationToken /\ launch.plan \in Plan
         /\ launch.process \in Process \cup {NONE}
  BY DEF LauncherTypeOK, Launch

(* A tree that runs is one of a Seat.                                       *)
LEMMA RunningHasSeat ==
  ASSUME LauncherTypeOK, TreesHaveSeats, NEW p \in Process, Running(tree[p])
  PROVE  tree[p].seat \in Seat
  BY DEF LauncherTypeOK, TreesHaveSeats, Running, Empty, Tree

(* What is done to a tree as a whole leaves nothing of it running.          *)
LEMMA EndedTrees ==
  ASSUME NEW t \in Tree, NEW u \in {Stopped(t), Terminated(t)}
  PROVE  /\ u \in Tree /\ u.seat = t.seat /\ u.inJob = t.inJob /\ ~Running(u)
         /\ Empty(t) => Empty(u)
         /\ Empty(Stopped(t))
  <1>1. ASSUME NEW a \in Life, NEW b \in Life \ {"suspended"}
        PROVE  LET v == [t EXCEPT !.root = a, !.children = b]
               IN v \in Tree /\ v.seat = t.seat /\ v.inJob = t.inJob /\ v.root = a /\ v.children = b
    <2>1. PICK w : w = [t EXCEPT !.root = a]
      OBVIOUS
    <2>2. w \in Tree /\ w.seat = t.seat /\ w.inJob = t.inJob /\ w.root = a
      BY <2>1 DEF Tree
    <2>3. PICK v : v = [w EXCEPT !.children = b]
      OBVIOUS
    <2>4. v \in Tree /\ v.seat = t.seat /\ v.inJob = t.inJob /\ v.root = a /\ v.children = b
      BY <2>2, <2>3 DEF Tree
    <2>5. v = [t EXCEPT !.root = a, !.children = b]
      BY <2>1, <2>3, Zenon
    <2> QED BY <2>4, <2>5, Zenon
  <1>2. "gone" \in Life \ {"suspended"} /\ Doomed(t.root) \in Life \ {"suspended"}
         /\ Doomed(t.children) \in Life \ {"suspended"}
         /\ Doomed(t.root) # "running" /\ Doomed(t.children) # "running"
    BY DEF Life, Doomed
  <1>3. /\ Stopped(t) \in Tree /\ Stopped(t).seat = t.seat /\ Stopped(t).inJob = t.inJob
        /\ Stopped(t).root = "gone" /\ Stopped(t).children = "gone"
    BY <1>1, <1>2, Zenon DEF Stopped
  <1>4. /\ Terminated(t) \in Tree
        /\ Terminated(t).seat = t.seat /\ Terminated(t).inJob = t.inJob
        /\ Terminated(t).root = Doomed(t.root)
        /\ Terminated(t).children = Doomed(t.children)
    <2>1. PICK a \in Life \ {"suspended"} : a = Doomed(t.root)
      BY <1>2
    <2>2. PICK b \in Life \ {"suspended"} : b = Doomed(t.children)
      BY <1>2
    <2>3. Terminated(t) = [t EXCEPT !.root = a, !.children = b]
      BY <2>1, <2>2, Zenon DEF Terminated
    <2>4. LET v == [t EXCEPT !.root = a, !.children = b]
          IN v \in Tree /\ v.seat = t.seat /\ v.inJob = t.inJob /\ v.root = a /\ v.children = b
      BY <1>1
    <2> QED BY <2>1, <2>2, <2>3, <2>4, Zenon
  <1> QED BY <1>2, <1>3, <1>4 DEF Running, Empty, Doomed

(* A stop that was verified, with or without a launch that ends by it.      *)
LEMMA StopPreserves ==
  ASSUME LauncherInv, NEW s \in Seat, seatProcess[s] # NONE, StopVerified(s),
         launch' = NONE
  PROVE  LauncherInv'
  <1> USE DEF LauncherInv
  <1> DEFINE r == seatProcess[s]
  <1>1. r.token \in ActivationToken /\ r.token.seat = s /\ r.process \in Process
    BY RecordFields DEF RecordHolds
  <1>2. ReleaseLease(r.token)
    BY DEF StopVerified
  <1>3. AuthorityInv'
    BY <1>1, <1>2, ReleasePreserves
  <1>4. LauncherTypeOK'
    BY <1>1, <1>3, EndedTrees DEF AuthorityInv, LauncherTypeOK, StopVerified
  <1>5. EpochNumbered'
    BY <1>1, <1>2 DEF EpochNumbered, ReleaseLease, Active, LauncherTypeOK, AuthorityTypeOK
  <1>6. \A p \in Process : /\ tree'[p].seat = tree[p].seat /\ tree'[p].inJob = tree[p].inJob
                           /\ p # r.process => tree'[p] = tree[p]
                           /\ p = r.process => Empty(tree'[p])
    BY <1>1, EndedTrees DEF StopVerified, LauncherTypeOK
  <1>7. TreesHaveSeats'
    BY <1>6 DEF TreesHaveSeats, Empty
  <1>8. \A o \in Seat : seatProcess'[o] = IF o = s THEN NONE ELSE seatProcess[o]
    BY DEF StopVerified, LauncherTypeOK
  <1>9. \A o \in Seat \ {s} : seatProcess[o] # NONE =>
          /\ OwnsGameToken(seatProcess[o].token)'
          /\ process'[o] = process[o]
    BY <1>1, <1>2, <1>8, RecordFields, OthersKeepTheirs
    DEF RecordHolds, AuthorityInv, StopVerified
  <1>10. RecordHolds' /\ LaunchHolds'
    BY <1>6, <1>8, <1>9, RecordFields DEF RecordHolds, LaunchHolds
  <1>11. \A p \in Process : Running(tree'[p]) =>
           p # r.process /\ tree'[p] = tree[p] /\ tree[p].seat \in Seat \ {s}
    BY <1>6, RunningHasSeat DEF RunningTreeIsOwned, Running, Empty
  <1>12. RunningTreeIsOwned'
    BY <1>8, <1>9, <1>11 DEF RunningTreeIsOwned
  <1>13. RunsIsolated'
    BY <1>6, <1>8, <1>11, RecordFields DEF RunsIsolated
  <1> QED BY <1>3, <1>4, <1>5, <1>7, <1>10, <1>12, <1>13 DEF LauncherInv

(* A stop that gave up: nothing runs that did not, no record changes but    *)
(* for the input that is broken.                                           *)
LEMMA GivingUpPreserves ==
  ASSUME LauncherInv, NEW s \in Seat, seatProcess[s] # NONE, TreeAfterGivingUp(s),
         seatProcess' \in {seatProcess, [seatProcess EXCEPT ![s].input = "broken"]},
         UNCHANGED authorityVars, launch' = NONE
  PROVE  LauncherInv'
  <1> USE DEF LauncherInv
  <1>1. AuthorityInv' /\ EpochNumbered'
    BY DEF authorityVars, AuthorityInv, AuthorityTypeOK, NoOrphanAuthority,
       ExclusiveOwnership, SameControllerSource, Active, EpochNumbered
  <1>2. seatProcess[s].process \in Process
    BY RecordFields
  <1>3. \A p \in Process : /\ tree'[p] \in Tree
                           /\ tree'[p].seat = tree[p].seat /\ tree'[p].inJob = tree[p].inJob
                           /\ Running(tree'[p]) => Running(tree[p])
                           /\ Empty(tree[p]) => Empty(tree'[p])
    BY <1>2, EndedTrees DEF TreeAfterGivingUp, LauncherTypeOK
  <1>4. \A o \in Seat :
          /\ (seatProcess'[o] = NONE) <=> (seatProcess[o] = NONE)
          /\ seatProcess[o] # NONE =>
               /\ seatProcess'[o] \in SeatProcess
               /\ seatProcess'[o].token = seatProcess[o].token
               /\ seatProcess'[o].process = seatProcess[o].process
               /\ seatProcess'[o].plan = seatProcess[o].plan
               /\ seatProcess'[o].input \in {seatProcess[o].input, "broken"}
    BY RecordFields DEF LauncherTypeOK, SeatProcess
  <1>5. tree' \in [Process -> Tree] /\ seatProcess' \in [Seat -> SeatProcess \cup {NONE}]
    <2>1. tree' = [p \in Process |-> tree'[p]]
      BY DEF TreeAfterGivingUp, LauncherTypeOK
    <2>2. seatProcess' = [o \in Seat |-> seatProcess'[o]]
      BY DEF LauncherTypeOK
    <2> QED BY <2>1, <2>2, <1>3, <1>4
  <1>6. LauncherTypeOK' /\ TreesHaveSeats'
    BY <1>1, <1>3, <1>5 DEF AuthorityInv, LauncherTypeOK, TreesHaveSeats
  <1>7. \A t \in ActivationToken : OwnsGameToken(t) => OwnsGameToken(t)'
    BY DEF OwnsGameToken, OwnsToken, authorityVars
  <1>8. RecordHolds' /\ LaunchHolds'
    BY <1>3, <1>4, <1>7, RecordFields DEF RecordHolds, LaunchHolds
  <1>9. RunningTreeIsOwned'
    BY <1>3, <1>4, <1>7, RecordFields, RunningHasSeat DEF RunningTreeIsOwned, authorityVars
  <1>10. RunsIsolated'
    BY <1>3, <1>4, RecordFields DEF RunsIsolated
  <1> QED BY <1>1, <1>6, <1>8, <1>9, <1>10 DEF LauncherInv

LEMMA StopGamePreserves ==
  ASSUME LauncherInv, NEW s \in Seat, StopWorkspaceGame(s)
  PROVE  LauncherInv'
  BY StopPreserves, GivingUpPreserves DEF StopWorkspaceGame, StopGivesUp

LEMMA RoutePreserves ==
  ASSUME LauncherInv, NEW s \in Seat, RoutePhysicalInput(s)
  PROVE  LauncherInv'
  BY StopPreserves, GivingUpPreserves DEF RoutePhysicalInput

LEMMA RollBackPreserves ==
  ASSUME LauncherInv, RollBackLaunch
  PROVE  LauncherInv'
  <1>1. launch # NONE /\ launch.seat \in Seat
    BY LaunchFields DEF LauncherInv, RollBackLaunch, At
  <1>2. seatProcess[launch.seat] # NONE
    BY <1>1 DEF LauncherInv, LaunchHolds, RollBackLaunch, At, BeforeRecord
  <1> QED
    BY <1>1, <1>2, StopPreserves, GivingUpPreserves DEF RollBackLaunch, StopGivesUp

(* A game whose Job is empty was not running.                               *)
LEMMA ReapPreserves ==
  ASSUME LauncherInv, NEW s \in Seat, ReapExitedGame(s)
  PROVE  LauncherInv'
  <1> USE DEF LauncherInv, ReapExitedGame
  <1> DEFINE r == seatProcess[s]
  <1>1. r.token \in ActivationToken /\ r.token.seat = s
    BY RecordFields DEF RecordHolds
  <1>2. AuthorityInv'
    BY <1>1, ReleasePreserves
  <1>3. LauncherTypeOK' /\ TreesHaveSeats'
    BY <1>2 DEF AuthorityInv, LauncherTypeOK, TreesHaveSeats
  <1>4. EpochNumbered'
    BY <1>1 DEF EpochNumbered, ReleaseLease, Active, LauncherTypeOK, AuthorityTypeOK
  <1>5. \A o \in Seat : seatProcess'[o] = IF o = s THEN NONE ELSE seatProcess[o]
    BY DEF LauncherTypeOK
  <1>6. \A o \in Seat \ {s} : seatProcess[o] # NONE =>
          OwnsGameToken(seatProcess[o].token)' /\ process'[o] = process[o]
    BY <1>1, RecordFields, OthersKeepTheirs DEF RecordHolds, AuthorityInv
  <1>7. RecordHolds' /\ LaunchHolds'
    BY <1>5, <1>6 DEF RecordHolds, LaunchHolds
  <1>8. \A p \in Process : Running(tree[p]) => tree[p].seat \in Seat \ {s}
    BY RunningHasSeat DEF RunningTreeIsOwned, Running, Empty
  <1>9. RunningTreeIsOwned' /\ RunsIsolated'
    BY <1>5, <1>6, <1>8 DEF RunningTreeIsOwned, RunsIsolated
  <1> QED BY <1>2, <1>3, <1>4, <1>7, <1>9 DEF LauncherInv

-----------------------------------------------------------------------------
(* The steps of a launch.                                                   *)
LEMMA BeginPreserves ==
  ASSUME LauncherInv, NEW s \in Seat, NEW plan \in Plan, BeginLaunch(s, plan)
  PROVE  LauncherInv'
  <1> USE DEF LauncherInv, BeginLaunch
  <1>0. PICK g : g = generation'[s]
    OBVIOUS
  <1> DEFINE token == [seat |-> s, generation |-> g, class |-> "game"]
  <1>1. AuthorityInv'
    BY AcquirePreserves DEF LeaseClass
  <1>2. EpochNumbered'
    BY DEF EpochNumbered, AcquireLease, Active, AuthorityInv, AuthorityTypeOK
  <1>3. "game" \in leases'[s] /\ g \in 1..MaxGeneration
    BY <1>0, <1>1, <1>2 DEF AcquireLease, EpochNumbered, Active, AuthorityInv, AuthorityTypeOK
  <1>4. token \in ActivationToken /\ OwnsGameToken(token)'
    BY <1>0, <1>3 DEF ActivationToken, LeaseClass, OwnsGameToken, OwnsToken
  <1>5. launch' \in Launch /\ launch'.seat = s /\ launch'.token = token
        /\ launch'.step = "activated" /\ launch'.plan = plan
    BY <1>0, <1>4 DEF Launch
  <1>6. LauncherTypeOK' /\ TreesHaveSeats'
    BY <1>1, <1>5 DEF LauncherTypeOK, AuthorityInv, TreesHaveSeats
  <1>7. \A t \in ActivationToken :
          OwnsGameToken(t) => OwnsGameToken(t)' /\ process'[t.seat] = process[t.seat]
    BY AcquiringKeepsTokens DEF AuthorityInv, LeaseClass
  <1>8. RecordHolds'
    BY <1>7, RecordFields DEF RecordHolds
  <1>9. LaunchHolds'
    <2>1. plan.xinput => binding'[s] # NONE
      BY DEF AcquireLease, AuthorityInv, NoOrphanAuthority
    <2> QED BY <2>1, <1>4, <1>5 DEF LaunchHolds, BeforeRecord, Suspended
  <1>10. RunningTreeIsOwned' /\ RunsIsolated'
    BY <1>7, RecordFields, RunningHasSeat DEF RecordHolds, RunningTreeIsOwned, RunsIsolated
  <1> QED BY <1>1, <1>2, <1>6, <1>8, <1>9, <1>10 DEF LauncherInv

(* A step that binds nothing new and moves on, the trees unchanged.         *)
LEMMA PreparePreserves ==
  ASSUME LauncherInv, PrepareController
  PROVE  LauncherInv'
  <1> USE DEF LauncherInv, PrepareController, At, Advance
  <1>1. launch \in Launch /\ launch.seat \in Seat /\ launch.token \in ActivationToken
        /\ launch.step = "activated"
    BY LaunchFields
  <1>2. launch' \in Launch /\ launch' = [launch EXCEPT !.step = "prepared"]
    BY <1>1 DEF Launch
  <1>3. generation' = generation /\ leases' = leases /\ process' = process
        /\ UNCHANGED <<tree, seatProcess>>
    BY DEF BindController, authorityVars
  <1>4. AuthorityInv'
    <2>1. CASE launch.plan.xinput
      <3>1. PICK inventory \in ScanResults :
              BindController(launch.token, binding[launch.seat], inventory)
        BY <2>1
      <3>2. binding[launch.seat] \in SeatBinding
        BY <2>1, <1>1 DEF LaunchHolds, AuthorityInv, AuthorityTypeOK
      <3> QED BY <3>1, <3>2, <1>1, BindControllerPreserves
    <2>2. CASE ~launch.plan.xinput
      BY <2>2 DEF authorityVars, AuthorityInv, AuthorityTypeOK, NoOrphanAuthority,
                  ExclusiveOwnership, SameControllerSource, Active
    <2> QED BY <2>1, <2>2
  <1>5. LauncherTypeOK' /\ TreesHaveSeats' /\ EpochNumbered'
    BY <1>2, <1>3, <1>4 DEF LauncherTypeOK, AuthorityInv, TreesHaveSeats, EpochNumbered, Active
  <1>6. RecordHolds' /\ RunningTreeIsOwned' /\ RunsIsolated'
    BY <1>3 DEF RecordHolds, RunningTreeIsOwned, RunsIsolated, OwnsGameToken, OwnsToken
  <1>7. LaunchHolds'
    BY <1>1, <1>2, <1>3 DEF Launch, LaunchHolds, BeforeRecord, Suspended, OwnsGameToken, OwnsToken
  <1> QED BY <1>4, <1>5, <1>6, <1>7 DEF LauncherInv

(* A Seat whose launch has no record yet has no tree that runs.             *)
LEMMA NothingRunsBeforeRecord ==
  ASSUME LauncherInv, launch # NONE, launch.step \in BeforeRecord
  PROVE  \A p \in Process : Running(tree[p]) => tree[p].seat \in Seat \ {launch.seat}
  BY RunningHasSeat, LaunchFields DEF LauncherInv, LaunchHolds, RunningTreeIsOwned

(* The lease of such a launch ends, and what was created was killed or not. *)
LEMMA AbandonPreserves ==
  ASSUME LauncherInv, launch # NONE, launch.step \in BeforeRecord,
         ReleaseLease(launch.token), launch' = NONE, UNCHANGED seatProcess,
         tree' \in [Process -> Tree],
         \A p \in Process : /\ tree'[p].seat = tree[p].seat /\ tree'[p].inJob = tree[p].inJob
                            /\ Running(tree'[p]) => Running(tree[p])
                            /\ tree'[p].seat = NONE => Empty(tree'[p])
  PROVE  LauncherInv'
  <1> USE DEF LauncherInv
  <1>1. launch.token \in ActivationToken /\ launch.seat \in Seat
        /\ launch.token.seat = launch.seat
    BY LaunchFields DEF LaunchHolds
  <1>2. AuthorityInv'
    BY <1>1, ReleasePreserves
  <1>3. LauncherTypeOK' /\ TreesHaveSeats'
    BY <1>2 DEF AuthorityInv, LauncherTypeOK, TreesHaveSeats
  <1>4. EpochNumbered'
    BY <1>1 DEF EpochNumbered, ReleaseLease, Active, LauncherTypeOK, AuthorityTypeOK
  <1>5. seatProcess[launch.seat] = NONE
    BY DEF LaunchHolds
  <1>6. \A o \in Seat : seatProcess[o] # NONE =>
          OwnsGameToken(seatProcess[o].token)' /\ process'[o] = process[o]
    BY <1>1, <1>5, RecordFields, OthersKeepTheirs DEF RecordHolds, AuthorityInv
  <1>7. RecordHolds' /\ LaunchHolds'
    BY <1>6, RecordFields DEF RecordHolds, LaunchHolds
  <1>8. RunningTreeIsOwned'
    BY <1>6, NothingRunsBeforeRecord DEF RunningTreeIsOwned
  <1>9. RunsIsolated'
    BY RecordFields DEF RunsIsolated
  <1> QED BY <1>2, <1>3, <1>4, <1>7, <1>8, <1>9 DEF LauncherInv

LEMMA EndActivationPreserves ==
  ASSUME LauncherInv, EndActivation
  PROVE  LauncherInv'
  <1>1. launch # NONE /\ launch.step \in BeforeRecord
    BY DEF EndActivation, At, BeforeRecord
  <1> QED
    BY <1>1, AbandonPreserves
    DEF EndActivation, LauncherInv, LauncherTypeOK, TreesHaveSeats

LEMMA JobFailsPreserves ==
  ASSUME LauncherInv, JobFails
  PROVE  LauncherInv'
  <1> USE DEF LauncherInv
  <1>1. launch # NONE /\ launch.step = "created" /\ launch.process \in Process
        /\ tree[launch.process] \in Tree /\ tree[launch.process].seat \in Seat
    BY LaunchFields DEF JobFails, At, LaunchHolds, LauncherTypeOK
  <1>2. PICK life \in AfterKill(tree[launch.process].root) :
          tree' = [tree EXCEPT ![launch.process].root = life]
    BY DEF JobFails
  <1>3. life \in Life /\ life # "running"
    BY <1>1, <1>2 DEF AfterKill, Doomed, Tree, Life, LaunchHolds, Suspended, Running
  <1>4. tree' \in [Process -> Tree]
    BY <1>1, <1>2, <1>3 DEF LauncherTypeOK, Tree
  <1>5. \A p \in Process : /\ tree'[p].seat = tree[p].seat /\ tree'[p].inJob = tree[p].inJob
                           /\ Running(tree'[p]) => Running(tree[p])
                           /\ tree'[p].seat = NONE => Empty(tree'[p])
    BY <1>1, <1>2, <1>3 DEF LauncherTypeOK, Tree, Running, TreesHaveSeats, Empty
  <1> QED
    BY <1>1, <1>4, <1>5, AbandonPreserves DEF JobFails, BeforeRecord

LEMMA CreatePreserves ==
  ASSUME LauncherInv, NEW p \in Process, CreateSuspended(p)
  PROVE  LauncherInv'
  <1> USE DEF LauncherInv, CreateSuspended, At
  <1>1. launch \in Launch /\ launch.seat \in Seat /\ launch.step = "prepared"
        /\ seatProcess[launch.seat] = NONE
    BY LaunchFields DEF LaunchHolds, BeforeRecord
  <1> DEFINE u == [NotCreated EXCEPT !.seat = launch.seat, !.root = "suspended"]
  <1>2. u \in Tree /\ u.seat = launch.seat /\ ~Running(u)
    <2>1. PICK a : a = [NotCreated EXCEPT !.seat = launch.seat]
      OBVIOUS
    <2>2. a \in Tree /\ a.seat = launch.seat /\ a.children = "gone"
      BY <1>1, <2>1 DEF NotCreated, Tree, Life
    <2>3. PICK b : b = [a EXCEPT !.root = "suspended"]
      OBVIOUS
    <2>4. b \in Tree /\ b.seat = launch.seat /\ ~Running(b)
      BY <2>2, <2>3 DEF Tree, Life, Running
    <2>5. b = u
      BY <2>1, <2>3, Zenon
    <2> QED BY <2>4, <2>5
  <1>3. tree' = [tree EXCEPT ![p] = u]
    BY Zenon
  <1> HIDE DEF u
  <1>4. AuthorityInv' /\ EpochNumbered'
    BY DEF authorityVars, AuthorityInv, AuthorityTypeOK, NoOrphanAuthority,
       ExclusiveOwnership, SameControllerSource, Active, EpochNumbered
  <1>5. launch' \in Launch /\ launch'.seat = launch.seat /\ launch'.token = launch.token
        /\ launch'.step = "created" /\ launch'.process = p
    BY <1>1 DEF Launch
  <1>6. \A q \in Process : tree'[q] = IF q = p THEN u ELSE tree[q]
    BY <1>3 DEF LauncherTypeOK
  <1>7. LauncherTypeOK' /\ TreesHaveSeats'
    BY <1>1, <1>2, <1>3, <1>4, <1>5, <1>6 DEF LauncherTypeOK, AuthorityInv, TreesHaveSeats
  <1>8. \A t \in ActivationToken : OwnsGameToken(t) => OwnsGameToken(t)'
    BY DEF OwnsGameToken, OwnsToken, authorityVars
  <1>9. \A s \in Seat : seatProcess[s] # NONE => seatProcess[s].process # p
    BY RecordFields DEF RecordHolds
  <1>10. RecordHolds'
    BY <1>6, <1>8, <1>9, RecordFields DEF RecordHolds
  <1>11. LaunchHolds'
    BY <1>1, <1>2, <1>5, <1>6, <1>8, LaunchFields DEF LaunchHolds, BeforeRecord, Suspended
  <1>12. RunningTreeIsOwned'
    BY <1>2, <1>6, <1>8, RecordFields, RunningHasSeat
    DEF RunningTreeIsOwned, authorityVars
  <1>13. RunsIsolated'
    BY <1>6, <1>9, RecordFields DEF RunsIsolated
  <1> QED BY <1>4, <1>7, <1>10, <1>11, <1>12, <1>13 DEF LauncherInv

LEMMA AssignPreserves ==
  ASSUME LauncherInv, AssignToJob
  PROVE  LauncherInv'
  <1> USE DEF LauncherInv, AssignToJob, At, Advance
  <1>1. /\ launch \in Launch /\ launch.step = "created" /\ launch.process \in Process
        /\ launch.seat \in Seat /\ launch.token \in ActivationToken /\ launch.plan \in Plan
        /\ launch.token.seat = launch.seat /\ OwnsGameToken(launch.token)
        /\ seatProcess[launch.seat] = NONE /\ launch # NONE
        /\ tree[launch.process].seat = launch.seat /\ ~Running(tree[launch.process])
    BY LaunchFields DEF LaunchHolds, BeforeRecord, Suspended
  <1>2. launch' \in Launch /\ launch' = [launch EXCEPT !.step = "recorded"]
    BY <1>1 DEF Launch
  <1>3. /\ launch'.seat = launch.seat /\ launch'.token = launch.token /\ launch'.plan = launch.plan
        /\ launch'.process = launch.process /\ launch'.step = "recorded"
    BY <1>1, <1>2 DEF Launch
  <1> DEFINE r == [token |-> launch.token, plan |-> launch.plan,
                   process |-> launch.process, input |-> "none"]
  <1>4. /\ r \in SeatProcess /\ r.token = launch.token /\ r.plan = launch.plan
        /\ r.process = launch.process
        /\ \A s \in Seat :
          seatProcess'[s] = IF s = launch.seat THEN r ELSE seatProcess[s]
    BY <1>1 DEF SeatProcess, LauncherTypeOK
  <1> HIDE DEF r
  <1>5a. PICK u : u = [tree[launch.process] EXCEPT !.inJob = TRUE]
    OBVIOUS
  <1>5b. tree[launch.process] \in Tree
    BY <1>1 DEF LauncherTypeOK
  <1>5c. /\ u \in Tree /\ u.seat = tree[launch.process].seat /\ u.inJob
         /\ u.root = tree[launch.process].root /\ u.children = tree[launch.process].children
    BY <1>5a, <1>5b DEF Tree
  <1>5d. tree' = [tree EXCEPT ![launch.process] = u]
    BY <1>5a, Zenon
  <1>5. \A q \in Process : /\ tree'[q].seat = tree[q].seat
                           /\ q = launch.process \/ tree[q].inJob => tree'[q].inJob
                           /\ Running(tree'[q]) <=> Running(tree[q])
                           /\ Empty(tree'[q]) <=> Empty(tree[q])
    BY <1>1, <1>5c, <1>5d DEF LauncherTypeOK, Running, Empty
  <1>6. tree' \in [Process -> Tree]
    BY <1>1, <1>5c, <1>5d DEF LauncherTypeOK
  <1>7. AuthorityInv' /\ EpochNumbered'
    BY DEF authorityVars, AuthorityInv, AuthorityTypeOK, NoOrphanAuthority,
       ExclusiveOwnership, SameControllerSource, Active, EpochNumbered
  <1>8. LauncherTypeOK' /\ TreesHaveSeats'
    BY <1>1, <1>2, <1>4, <1>5, <1>6, <1>7 DEF LauncherTypeOK, AuthorityInv, TreesHaveSeats
  <1>9. \A t \in ActivationToken : OwnsGameToken(t) => OwnsGameToken(t)'
    BY DEF OwnsGameToken, OwnsToken, authorityVars
  <1>10. RecordHolds'
    <2> SUFFICES ASSUME NEW s \in Seat, seatProcess'[s] # NONE
                 PROVE  /\ seatProcess'[s].token.seat = s
                        /\ OwnsGameToken(seatProcess[s].token)'
                        /\ tree'[seatProcess'[s].process].seat = s
                        /\ tree'[seatProcess'[s].process].inJob
      BY DEF RecordHolds
    <2>1. CASE s = launch.seat
      BY <2>1, <1>1, <1>4, <1>5, <1>9
    <2>2. CASE s # launch.seat
      BY <2>2, <1>4, <1>5, <1>9, RecordFields DEF RecordHolds
    <2> QED BY <2>1, <2>2
  <1>11. LaunchHolds'
    <2>1. OwnsGameToken(launch.token)'
      BY <1>1, <1>3 DEF OwnsGameToken, OwnsToken, authorityVars
    <2>2. /\ launch'.token.seat = launch'.seat
          /\ seatProcess'[launch'.seat] # NONE
          /\ seatProcess'[launch'.seat].process = launch'.process
          /\ seatProcess'[launch'.seat].plan = launch'.plan
      <3> HIDE DEF LauncherInv, AssignToJob
      <3> QED BY <1>1, <1>3, <1>4
    <2>3. ~Running(tree'[launch'.process])
      BY <1>1, <1>3, <1>5
    <2> QED BY <2>1, <2>2, <2>3, <1>3 DEF LaunchHolds, BeforeRecord, Suspended
  <1>12. RunningTreeIsOwned'
    <2>1. /\ RunningTreeIsOwned /\ process' = process /\ launch # NONE
          /\ launch.step \in BeforeRecord /\ LauncherTypeOK
      BY <1>1 DEF authorityVars, BeforeRecord
    <2>2. \A p \in Process : Running(tree[p]) => tree[p].seat \in Seat \ {launch.seat}
      BY <2>1, NothingRunsBeforeRecord
    <2> HIDE DEF LauncherInv, AssignToJob
    <2> SUFFICES ASSUME NEW p \in Process, Running(tree'[p]), NEW s, s = tree[p].seat
                 PROVE  /\ tree'[p].seat = s /\ tree'[p].inJob /\ seatProcess'[s] # NONE
                        /\ seatProcess'[s].process = p
                        /\ OwnsGameToken(seatProcess[s].token)' /\ process'[s] = p
      BY DEF RunningTreeIsOwned
    <2>3. s \in Seat /\ s # launch.seat /\ Running(tree[p])
      BY <2>2, <1>5
    <2>4. /\ tree[p].inJob /\ seatProcess[s] # NONE /\ seatProcess[s].process = p
          /\ OwnsGameToken(seatProcess[s].token) /\ process[s] = p
      BY <2>1, <2>3 DEF RunningTreeIsOwned
    <2>5. seatProcess'[s] = seatProcess[s]
      BY <2>3, <1>4
    <2>6. OwnsGameToken(seatProcess[s].token)'
      BY <2>1, <2>3, <2>4, <1>9, <2>5, RecordFields
    <2> QED BY <2>1, <2>3, <2>4, <2>5, <2>6, <1>5
  <1>13. RunsIsolated'
    <2>1. RunsIsolated /\ LauncherTypeOK
      OBVIOUS
    <2> HIDE DEF LauncherInv, AssignToJob
    <2> SUFFICES ASSUME NEW s \in Seat, seatProcess'[s] # NONE,
                        Running(tree'[seatProcess'[s].process]),
                        WantsIsolation(seatProcess'[s].plan)
                 PROVE  seatProcess'[s].input # "none"
      BY DEF RunsIsolated
    <2>2. CASE s = launch.seat
      BY <2>2, <1>1, <1>4, <1>5
    <2>3. CASE s # launch.seat
      <3>1. seatProcess'[s] = seatProcess[s] /\ seatProcess[s].process \in Process
        BY <2>1, <2>3, <1>4, RecordFields
      <3>2. Running(tree[seatProcess[s].process])
        BY <3>1, <1>5
      <3> QED BY <2>1, <3>1, <3>2 DEF RunsIsolated
    <2> QED BY <2>2, <2>3
  <1> QED BY <1>7, <1>8, <1>10, <1>11, <1>12, <1>13 DEF LauncherInv

LEMMA PublishIdentityPreserves ==
  ASSUME LauncherInv, PublishIdentity
  PROVE  LauncherInv'
  <1> USE DEF LauncherInv, PublishIdentity, At, Advance
  <1>1. /\ launch \in Launch /\ launch.step = "recorded" /\ launch # NONE
        /\ launch.seat \in Seat /\ launch.token \in ActivationToken
        /\ launch.token.seat = launch.seat /\ seatProcess[launch.seat] # NONE
        /\ seatProcess[launch.seat].process = launch.process
        /\ ~Running(tree[launch.process])
    BY LaunchFields DEF LaunchHolds, BeforeRecord, Suspended
  <1>2. launch.process \in Process
    BY <1>1, RecordFields
  <1>3. launch' \in Launch /\ launch' = [launch EXCEPT !.step = "published"]
    BY <1>1 DEF Launch
  <1>4. AuthorityInv'
    BY <1>1, <1>2, PublishPreserves
  <1>5. LauncherTypeOK' /\ TreesHaveSeats'
    BY <1>3, <1>4 DEF LauncherTypeOK, AuthorityInv, TreesHaveSeats
  <1>6. /\ generation' = generation /\ leases' = leases
        /\ process' = [process EXCEPT ![launch.seat] = launch.process]
    BY <1>1 DEF PublishProcess
  <1>7. EpochNumbered' /\ \A t \in ActivationToken : OwnsGameToken(t) => OwnsGameToken(t)'
    BY <1>6 DEF EpochNumbered, Active, OwnsGameToken, OwnsToken
  <1>8. RecordHolds' /\ RunsIsolated'
    BY <1>7, RecordFields DEF RecordHolds, RunsIsolated
  <1>9. process'[launch.seat] = launch.process
    BY <1>1, <1>6 DEF AuthorityInv, AuthorityTypeOK
  <1>10. LaunchHolds'
    BY <1>1, <1>3, <1>7, <1>9, LaunchFields DEF Launch, LaunchHolds, BeforeRecord, Suspended
  <1>11. RunningTreeIsOwned'
    BY <1>1, <1>6, <1>7, RecordFields, RunningHasSeat
    DEF RunningTreeIsOwned, AuthorityInv, AuthorityTypeOK
  <1> QED BY <1>4, <1>5, <1>7, <1>8, <1>10, <1>11 DEF LauncherInv

(* The window tracker changes nothing of the trees, the last step neither.  *)
LEMMA TrackAndFinishPreserve ==
  ASSUME LauncherInv, TrackWindow \/ FinishLaunch
  PROVE  LauncherInv'
  <1> USE DEF LauncherInv, At
  <1>1. launch \in Launch /\ UNCHANGED <<authorityVars, tree, seatProcess>>
    BY LaunchFields DEF TrackWindow, FinishLaunch
  <1>2. /\ AuthorityInv' /\ EpochNumbered' /\ TreesHaveSeats'
        /\ RecordHolds' /\ RunningTreeIsOwned' /\ RunsIsolated'
    BY <1>1 DEF authorityVars, AuthorityInv, AuthorityTypeOK, NoOrphanAuthority,
       ExclusiveOwnership, SameControllerSource, Active, EpochNumbered,
       TreesHaveSeats, RecordHolds, RunningTreeIsOwned, RunsIsolated,
       OwnsGameToken, OwnsToken
  <1>3. CASE TrackWindow
    <2>1. launch' \in Launch /\ launch' = [launch EXCEPT !.step = "tracked"]
      BY <1>1, <1>3 DEF TrackWindow, Advance, Launch
    <2>2. LaunchHolds'
      BY <1>1, <1>3, <2>1 DEF TrackWindow, Launch, LaunchHolds, BeforeRecord, Suspended,
         authorityVars, OwnsGameToken, OwnsToken
    <2> QED BY <1>1, <1>2, <2>1, <2>2 DEF LauncherTypeOK, AuthorityInv
  <1>4. CASE FinishLaunch
    BY <1>1, <1>2, <1>4 DEF FinishLaunch, LauncherTypeOK, LaunchHolds, AuthorityInv
  <1> QED BY <1>3, <1>4

LEMMA IsolatePreserves ==
  ASSUME LauncherInv, IsolateInput
  PROVE  LauncherInv'
  <1> USE DEF LauncherInv, At
  <1>1. /\ launch \in Launch /\ launch.step = "tracked" /\ launch # NONE /\ launch.seat \in Seat
        /\ seatProcess[launch.seat] # NONE /\ seatProcess[launch.seat].plan = launch.plan
        /\ UNCHANGED <<authorityVars, tree>>
    BY LaunchFields DEF IsolateInput, LaunchHolds, BeforeRecord
  <1>2. launch' \in Launch /\ launch' = [launch EXCEPT !.step = "isolated"]
    BY <1>1 DEF IsolateInput, Advance, Launch
  <1>3. \A s \in Seat :
          /\ (seatProcess'[s] = NONE) <=> (seatProcess[s] = NONE)
          /\ seatProcess[s] # NONE =>
               /\ seatProcess'[s] \in SeatProcess
               /\ seatProcess'[s].token = seatProcess[s].token
               /\ seatProcess'[s].process = seatProcess[s].process
               /\ seatProcess'[s].plan = seatProcess[s].plan
               /\ seatProcess'[s].input \in {seatProcess[s].input, "active"}
    BY <1>1, RecordFields DEF IsolateInput, LauncherTypeOK, SeatProcess
  <1>4. seatProcess' \in [Seat -> SeatProcess \cup {NONE}]
    <2>1. seatProcess' = [o \in Seat |-> seatProcess'[o]]
      BY DEF LauncherTypeOK, IsolateInput
    <2> QED BY <2>1, <1>3
  <1>5. WantsIsolation(launch.plan) => seatProcess'[launch.seat].input = "active"
    BY <1>1, RecordFields DEF IsolateInput, LauncherTypeOK, SeatProcess
  <1>6. /\ AuthorityInv' /\ EpochNumbered' /\ TreesHaveSeats'
        /\ \A t \in ActivationToken : OwnsGameToken(t) => OwnsGameToken(t)'
    BY <1>1 DEF authorityVars, AuthorityInv, AuthorityTypeOK, NoOrphanAuthority,
       ExclusiveOwnership, SameControllerSource, Active, EpochNumbered,
       TreesHaveSeats, OwnsGameToken, OwnsToken
  <1>7. LauncherTypeOK'
    BY <1>1, <1>2, <1>4, <1>6 DEF LauncherTypeOK, AuthorityInv
  <1>8. RecordHolds' /\ RunsIsolated'
    BY <1>1, <1>3, <1>6, RecordFields DEF RecordHolds, RunsIsolated
  <1>9. RunningTreeIsOwned'
    BY <1>1, <1>3, <1>6, RecordFields, RunningHasSeat DEF RunningTreeIsOwned, authorityVars
  <1>10. LaunchHolds'
    BY <1>1, <1>2, <1>3, <1>5 DEF Launch, LaunchHolds, BeforeRecord, Suspended,
       authorityVars, OwnsGameToken, OwnsToken
  <1> QED BY <1>6, <1>7, <1>8, <1>9, <1>10 DEF LauncherInv

(* What all steps of the trees alone have in common.                        *)
LEMMA TreeStepKeeps ==
  ASSUME LauncherInv, UNCHANGED <<authorityVars, seatProcess>>,
         NEW p \in Process, NEW u \in Tree, tree' = [tree EXCEPT ![p] = u],
         u.seat = tree[p].seat, u.inJob = tree[p].inJob,
         u.seat = NONE => Empty(u)
  PROVE  /\ AuthorityInv' /\ EpochNumbered' /\ TreesHaveSeats' /\ RecordHolds'
         /\ tree' \in [Process -> Tree]
         /\ \A q \in Process : tree'[q] = IF q = p THEN u ELSE tree[q]
         /\ \A t \in ActivationToken : OwnsGameToken(t) => OwnsGameToken(t)'
  <1> USE DEF LauncherInv
  <1>1. /\ AuthorityInv' /\ EpochNumbered'
        /\ \A t \in ActivationToken : OwnsGameToken(t) => OwnsGameToken(t)'
    BY DEF authorityVars, AuthorityInv, AuthorityTypeOK, NoOrphanAuthority,
       ExclusiveOwnership, SameControllerSource, Active, EpochNumbered,
       OwnsGameToken, OwnsToken
  <1>2. /\ tree' \in [Process -> Tree]
        /\ \A q \in Process : tree'[q] = IF q = p THEN u ELSE tree[q]
    BY DEF LauncherTypeOK
  <1>3. TreesHaveSeats'
    BY <1>2 DEF TreesHaveSeats
  <1>4. RecordHolds'
    BY <1>1, <1>2, RecordFields DEF RecordHolds
  <1> QED BY <1>1, <1>2, <1>3, <1>4

(* A step after which nothing runs that did not run before.                 *)
LEMMA TreeStepPreserves ==
  ASSUME LauncherInv, UNCHANGED <<authorityVars, seatProcess, launch>>,
         NEW p \in Process, NEW u \in Tree, tree' = [tree EXCEPT ![p] = u],
         u.seat = tree[p].seat, u.inJob = tree[p].inJob,
         u.seat = NONE => Empty(u),
         Running(u) => Running(tree[p])
  PROVE  LauncherInv'
  <1> USE DEF LauncherInv
  <1>1. /\ AuthorityInv' /\ EpochNumbered' /\ TreesHaveSeats' /\ RecordHolds'
        /\ tree' \in [Process -> Tree]
        /\ \A q \in Process : tree'[q] = IF q = p THEN u ELSE tree[q]
        /\ \A t \in ActivationToken : OwnsGameToken(t) => OwnsGameToken(t)'
    BY TreeStepKeeps
  <1>2. \A q \in Process : tree'[q].seat = tree[q].seat /\ tree'[q].inJob = tree[q].inJob
                           /\ (Running(tree'[q]) => Running(tree[q]))
    BY <1>1
  <1>3. LauncherTypeOK'
    BY <1>1 DEF LauncherTypeOK, AuthorityInv
  <1>4. RunningTreeIsOwned'
    BY <1>1, <1>2, RecordFields, RunningHasSeat DEF RunningTreeIsOwned, authorityVars
  <1>5. RunsIsolated'
    BY <1>2, RecordFields DEF RunsIsolated
  <1>6. launch # NONE /\ launch.step \in Suspended => launch.process \in Process
    BY LaunchFields, RecordFields DEF LaunchHolds, BeforeRecord, Suspended
  <1>7. LaunchHolds'
    <2> SUFFICES ASSUME launch # NONE PROVE LaunchHolds'
      BY DEF LaunchHolds
    <2>1. launch.step \in Suspended => ~Running(tree'[launch.process])
      BY <1>2, <1>6 DEF LaunchHolds
    <2>2. launch.step = "created" => tree'[launch.process].seat = launch.seat
      BY <1>2, <1>6 DEF LaunchHolds, Suspended
    <2>3. OwnsGameToken(launch.token)' /\ binding' = binding /\ process' = process
      BY DEF LaunchHolds, authorityVars, OwnsGameToken, OwnsToken
    <2> QED BY <2>1, <2>2, <2>3 DEF LaunchHolds
  <1> QED BY <1>1, <1>3, <1>4, <1>5, <1>7 DEF LauncherInv

(* The one step that lets a process run: it is in its Job, on record under  *)
(* the lease and published, and its input is isolated.                      *)
LEMMA ResumePreserves ==
  ASSUME LauncherInv, Resume
  PROVE  LauncherInv'
  <1> USE DEF LauncherInv, At
  <1> DEFINE s == launch.seat
             p == launch.process
             t == tree[p]
             life == IF t.root = "suspended" THEN "running" ELSE t.root
  <1>1. /\ launch \in Launch /\ launch.step = "isolated" /\ launch # NONE /\ s \in Seat
        /\ seatProcess[s] # NONE /\ seatProcess[s].process = p
        /\ seatProcess[s].plan = launch.plan
        /\ WantsIsolation(launch.plan) => seatProcess[s].input # "none"
        /\ process[s] = p
        /\ UNCHANGED <<authorityVars, seatProcess>>
    BY LaunchFields DEF Resume, LaunchHolds, BeforeRecord
  <1>2. /\ p \in Process /\ t \in Tree /\ t.seat = s /\ t.inJob
        /\ OwnsGameToken(seatProcess[s].token)
    BY <1>1, RecordFields DEF RecordHolds, LauncherTypeOK
  <1>3. PICK u : u = [t EXCEPT !.root = life]
    OBVIOUS
  <1>4. u \in Tree /\ u.seat = s /\ u.inJob = t.inJob
    BY <1>2, <1>3 DEF Tree, Life
  <1>5. tree' = [tree EXCEPT ![p] = u]
    BY <1>3, Zenon DEF Resume
  <1> HIDE DEF life
  <1>6. /\ AuthorityInv' /\ EpochNumbered' /\ TreesHaveSeats' /\ RecordHolds'
        /\ tree' \in [Process -> Tree]
        /\ \A q \in Process : tree'[q] = IF q = p THEN u ELSE tree[q]
        /\ \A k \in ActivationToken : OwnsGameToken(k) => OwnsGameToken(k)'
    <2>1. u.seat # NONE
      BY <1>1, <1>4
    <2> QED BY <1>1, <1>2, <1>4, <1>5, <2>1, TreeStepKeeps
  <1>7. launch' \in Launch /\ launch' = [launch EXCEPT !.step = "resumed"]
    BY <1>1 DEF Resume, Advance, Launch
  <1>8. LauncherTypeOK'
    BY <1>1, <1>6, <1>7 DEF LauncherTypeOK, AuthorityInv
  <1>9. RunningTreeIsOwned'
    <2> SUFFICES ASSUME NEW q \in Process, Running(tree'[q])
                 PROVE  /\ tree'[q].inJob
                        /\ seatProcess'[tree'[q].seat] # NONE
                        /\ seatProcess'[tree'[q].seat].process = q
                        /\ OwnsGameToken(seatProcess[tree[q].seat].token)'
                        /\ process'[tree'[q].seat] = q
      BY DEF RunningTreeIsOwned
    <2>1. process' = process /\ seatProcess' = seatProcess
      BY <1>1 DEF authorityVars
    <2>2. CASE q = p
      BY <1>1, <1>2, <1>4, <1>6, <2>1, <2>2, RecordFields
    <2>3. CASE q # p
      BY <1>6, <2>1, <2>3, RecordFields, RunningHasSeat DEF RunningTreeIsOwned
    <2> QED BY <2>2, <2>3
  <1>10. RunsIsolated'
    <2> SUFFICES ASSUME NEW o \in Seat, seatProcess'[o] # NONE,
                        Running(tree'[seatProcess'[o].process]),
                        WantsIsolation(seatProcess'[o].plan)
                 PROVE  seatProcess'[o].input # "none"
      BY DEF RunsIsolated
    <2>1. seatProcess' = seatProcess
      BY <1>1
    <2>2. CASE o = s
      BY <1>1, <2>1, <2>2
    <2>3. CASE o # s
      <3>1. seatProcess[o].process # p
        BY <1>2, <2>1, <2>3, RecordFields DEF RecordHolds
      <3> QED BY <1>6, <2>1, <3>1, RecordFields DEF RunsIsolated
    <2> QED BY <2>2, <2>3
  <1>11. LaunchHolds'
    BY <1>1, <1>7 DEF Launch, LaunchHolds, BeforeRecord, Suspended,
       authorityVars, OwnsGameToken, OwnsToken
  <1> QED BY <1>6, <1>8, <1>9, <1>10, <1>11 DEF LauncherInv

-----------------------------------------------------------------------------
(* The processes themselves, the host's end, and the UI's clients.          *)
LEMMA ProcessEndsPreserves ==
  ASSUME LauncherInv, NEW p \in Process, ProcessEnds(p)
  PROVE  LauncherInv'
  <1> DEFINE t == tree[p]
  <1>1. t \in Tree /\ (t.seat = NONE => Empty(t))
    BY DEF LauncherInv, LauncherTypeOK, TreesHaveSeats
  <1>2. ASSUME NEW u, u \in {[t EXCEPT !.root = "gone"], [t EXCEPT !.children = "gone"]}
        PROVE  /\ u \in Tree /\ u.seat = t.seat /\ u.inJob = t.inJob
               /\ u.seat = NONE => Empty(u)
               /\ Running(u) => Running(t)
    BY <1>1, <1>2 DEF Tree, Life, Empty, Running
  <1>3. PICK u \in {[t EXCEPT !.root = "gone"], [t EXCEPT !.children = "gone"]} :
          tree' = [tree EXCEPT ![p] = u]
    BY Zenon DEF ProcessEnds
  <1>4. UNCHANGED <<authorityVars, seatProcess, launch>>
    BY DEF ProcessEnds
  <1> HIDE DEF t
  <1>5. /\ u \in Tree /\ u.seat = t.seat /\ u.inJob = t.inJob
        /\ u.seat = NONE => Empty(u)
        /\ Running(u) => Running(t)
    BY <1>2
  <1> QED BY <1>3, <1>4, <1>5, TreeStepPreserves DEF t

LEMMA SpawnPreserves ==
  ASSUME LauncherInv, NEW p \in Process, Spawn(p)
  PROVE  LauncherInv'
  <1>1. tree[p] \in Tree /\ (tree[p].seat = NONE => Empty(tree[p]))
    BY DEF LauncherInv, LauncherTypeOK, TreesHaveSeats
  <1>2. PICK u : u = [tree[p] EXCEPT !.children = "running"]
    OBVIOUS
  <1>3. /\ u \in Tree /\ u.seat = tree[p].seat /\ u.inJob = tree[p].inJob
        /\ u.seat # NONE /\ Running(tree[p])
    BY <1>1, <1>2 DEF Spawn, Tree, Life, Empty, Running
  <1>4. tree' = [tree EXCEPT ![p] = u]
    BY <1>2, Zenon DEF Spawn
  <1> QED BY <1>3, <1>4, TreeStepPreserves DEF Spawn

(* What ran was in a strict Job, and does not outlive it.                   *)
LEMMA HostEndsPreserves ==
  ASSUME LauncherInv, HostEnds
  PROVE  LauncherInv'
  <1> USE DEF LauncherInv
  <1>1. AuthorityInv' /\ EpochNumbered'
    BY DEF HostEnds, AuthorityInv, AuthorityTypeOK, NoOrphanAuthority,
       ExclusiveOwnership, EpochNumbered, Active, LeaseClass
  <1>2. \A p \in Process : /\ tree'[p] \in Tree /\ ~Running(tree'[p])
                           /\ tree'[p].seat = NONE => Empty(tree'[p])
    <2> SUFFICES ASSUME NEW p \in Process
                 PROVE  /\ tree'[p] \in Tree /\ ~Running(tree'[p])
                        /\ tree'[p].seat = NONE => Empty(tree'[p])
      OBVIOUS
    <2>1. tree'[p] = KilledOnClose(tree[p]) /\ tree[p] \in Tree
      BY DEF HostEnds, LauncherTypeOK
    <2>2. ~tree[p].inJob => ~Running(tree[p])
      BY DEF RunningTreeIsOwned
    <2> QED BY <2>1, <2>2, EndedTrees DEF KilledOnClose, TreesHaveSeats
  <1>3. LauncherTypeOK' /\ TreesHaveSeats'
    <2>1. tree' = [p \in Process |-> tree'[p]]
      BY DEF HostEnds
    <2> QED BY <1>1, <1>2, <2>1 DEF HostEnds, LauncherTypeOK, AuthorityInv, TreesHaveSeats
  <1>4. RecordHolds' /\ LaunchHolds' /\ RunsIsolated'
    BY DEF HostEnds, RecordHolds, LaunchHolds, RunsIsolated
  <1>5. RunningTreeIsOwned'
    BY <1>2 DEF RunningTreeIsOwned
  <1> QED BY <1>1, <1>3, <1>4, <1>5 DEF LauncherInv

LEMMA ConfigurePreserves ==
  ASSUME LauncherInv, Configure
  PROVE  LauncherInv'
  <1> USE DEF LauncherInv
  <1>1. PICK s \in Seat :
          LET token == [seat |-> s, generation |-> generation[s], class |-> "ui"]
          IN \/ AcquireLease(s, "ui")
             \/ ReleaseLease(token)
             \/ ClearController(token)
             \/ \E b \in SeatBinding, inventory \in ScanResults :
                  BindController(token, b, inventory)
    BY DEF Configure
  <1>2. PICK token : token = [seat |-> s, generation |-> generation[s], class |-> "ui"]
    OBVIOUS
  <1>3. token.seat = s /\ token.class = "ui"
        /\ (OwnsToken(token) => token \in ActivationToken)
    BY <1>2 DEF OwnsToken, ActivationToken, LeaseClass, EpochNumbered, Active,
       AuthorityInv, AuthorityTypeOK
  <1>4. \/ AcquireLease(s, "ui")
        \/ token \in ActivationToken /\
             \/ ReleaseLease(token)
             \/ ClearController(token)
             \/ \E b \in SeatBinding, inventory \in ScanResults :
                  BindController(token, b, inventory)
    BY <1>1, <1>2, <1>3 DEF ReleaseLease, ClearController, BindController, Bindable
  <1>5. AuthorityInv'
    BY <1>4, AcquirePreserves, ReleasePreserves, ClearControllerPreserves,
       BindControllerPreserves DEF LeaseClass
  <1>6. \A t \in ActivationToken :
          OwnsGameToken(t) => OwnsGameToken(t)' /\ process'[t.seat] = process[t.seat]
    <2>1. CASE AcquireLease(s, "ui")
      BY <2>1, AcquiringKeepsTokens DEF LeaseClass, AuthorityInv
    <2>2. CASE token \in ActivationToken /\ ReleaseLease(token)
      BY <2>2, <1>3, OthersKeepTheirs DEF AuthorityInv
    <2>3. CASE \/ ClearController(token)
               \/ \E b \in SeatBinding, inventory \in ScanResults :
                    BindController(token, b, inventory)
      BY <2>3, BindingKeepsTokens DEF ClearController, BindController
    <2> QED BY <1>4, <2>1, <2>2, <2>3
  <1>7. \A o \in Seat : "game" \in leases[o] /\ binding[o] # NONE => binding'[o] # NONE
    <2>1. AuthorityNext
      BY <1>4 DEF AuthorityNext, LeaseClass
    <2>2. KeepsGameObjects
      BY <2>1, StepKeepsGameObjects
    <2>3. \A o \in Seat : "game" \in leases[o] => "game" \in leases'[o]
      BY <1>3, <1>4 DEF AcquireLease, ReleaseLease, ClearController, BindController,
         AuthorityInv, AuthorityTypeOK
    <2> QED BY <2>2, <2>3 DEF KeepsGameObjects
  <1>8. EpochNumbered'
    BY <1>3, <1>4 DEF EpochNumbered, Active, AcquireLease, ReleaseLease, ClearController,
       BindController, AuthorityInv, AuthorityTypeOK
  <1>9. UNCHANGED <<tree, seatProcess, launch>>
    BY DEF Configure
  <1>10. LauncherTypeOK' /\ TreesHaveSeats'
    BY <1>5, <1>9 DEF LauncherTypeOK, AuthorityInv, TreesHaveSeats
  <1>11. RecordHolds' /\ RunsIsolated'
    BY <1>6, <1>9, RecordFields DEF RecordHolds, RunsIsolated
  <1>12. RunningTreeIsOwned'
    BY <1>6, <1>9, RecordFields, RunningHasSeat DEF RecordHolds, RunningTreeIsOwned
  <1>13. LaunchHolds'
    <2> SUFFICES ASSUME launch # NONE PROVE LaunchHolds'
      BY <1>9 DEF LaunchHolds
    <2>1. launch.token \in ActivationToken /\ launch.seat \in Seat
      BY LaunchFields
    <2>2. OwnsGameToken(launch.token)' /\ process'[launch.seat] = process[launch.seat]
      BY <1>6, <1>9, <2>1 DEF LaunchHolds
    <2>3. "game" \in leases[launch.seat]
      BY DEF LaunchHolds, OwnsGameToken, OwnsToken
    <2> QED BY <1>7, <1>9, <2>1, <2>2, <2>3 DEF LaunchHolds
  <1> QED BY <1>5, <1>8, <1>10, <1>11, <1>12, <1>13 DEF LauncherInv

-----------------------------------------------------------------------------
LEMMA LauncherStepPreserves == LauncherInv /\ [LauncherNext]_launcherVars => LauncherInv'
  <1> SUFFICES ASSUME LauncherInv, [LauncherNext]_launcherVars
               PROVE  LauncherInv'
    OBVIOUS
  <1>1. CASE UNCHANGED launcherVars
    BY <1>1 DEF launcherVars, authorityVars, LauncherInv, LauncherTypeOK, AuthorityInv,
       AuthorityTypeOK, NoOrphanAuthority, ExclusiveOwnership, SameControllerSource,
       Active, EpochNumbered, TreesHaveSeats, RecordHolds, LaunchHolds,
       RunningTreeIsOwned, RunsIsolated, OwnsGameToken, OwnsToken
  <1>2. CASE LaunchStep
    BY <1>2, PreparePreserves, EndActivationPreserves, CreatePreserves, JobFailsPreserves,
       AssignPreserves, PublishIdentityPreserves, TrackAndFinishPreserve,
       IsolatePreserves, ResumePreserves, RollBackPreserves
    DEF LaunchStep
  <1>3. CASE LauncherNext /\ ~LaunchStep
    BY <1>3, BeginPreserves, StopGamePreserves, ReapPreserves, RoutePreserves,
       ProcessEndsPreserves, SpawnPreserves, HostEndsPreserves, ConfigurePreserves
    DEF LauncherNext
  <1> QED BY <1>1, <1>2, <1>3

LEMMA LauncherInvariance == LauncherSpec => []LauncherInv
  BY LauncherInitEstablishes, LauncherStepPreserves, PTL DEF LauncherSpec

(* Type correctness of the launcher and the trees it started.               *)
THEOREM LauncherTypeCorrect == LauncherSpec => []LauncherTypeOK
  <1>1. LauncherInv => LauncherTypeOK
    BY DEF LauncherInv
  <1> QED BY <1>1, LauncherInvariance, PTL

(* Whatever fails of a launch, a stop or a kill, and whenever the host ends: *)
(* what runs is in the Job of the Seat whose lease and identity it has.      *)
THEOREM NothingRunsUnowned == LauncherSpec => []RunningTreeIsOwned
  <1>1. LauncherInv => RunningTreeIsOwned
    BY DEF LauncherInv
  <1> QED BY <1>1, LauncherInvariance, PTL

(* A game never runs without the isolation its Seat asks for.               *)
THEOREM NothingRunsUnisolated == LauncherSpec => []RunsIsolated
  <1>1. LauncherInv => RunsIsolated
    BY DEF LauncherInv
  <1> QED BY <1>1, LauncherInvariance, PTL

-----------------------------------------------------------------------------
(* A launch only ever has input that works: no event is routed while it     *)
(* holds the launcher's mutex.                                              *)
LaunchInputWorks ==
  launch # NONE /\ seatProcess[launch.seat] # NONE =>
    seatProcess[launch.seat].input # "broken"

BrokenInv == LaunchInputWorks /\ BrokenInputStopsTree

(* A step that leaves the records as they are and lets nothing run.         *)
LEMMA QuietStepKeepsBroken ==
  ASSUME LauncherInv, BrokenInv, UNCHANGED seatProcess,
         launch' # NONE => launch # NONE /\ launch'.seat = launch.seat,
         \A p \in Process : Running(tree'[p]) => Running(tree[p])
  PROVE  BrokenInv'
  BY RecordFields DEF LauncherInv, BrokenInv, LaunchInputWorks, BrokenInputStopsTree

(* A step that takes away the record of Seat s, and lets nothing run.       *)
LEMMA RemovalKeepsBroken ==
  ASSUME LauncherInv, BrokenInv, NEW s \in Seat,
         seatProcess' = [seatProcess EXCEPT ![s] = NONE], launch' = NONE,
         \A p \in Process : Running(tree'[p]) => Running(tree[p])
  PROVE  BrokenInv'
  <1>1. \A o \in Seat : seatProcess'[o] = IF o = s THEN NONE ELSE seatProcess[o]
    BY DEF LauncherInv, LauncherTypeOK
  <1> QED
    BY <1>1, RecordFields DEF LauncherInv, BrokenInv, LaunchInputWorks, BrokenInputStopsTree

LEMMA StopKeepsBroken ==
  ASSUME LauncherInv, BrokenInv, NEW s \in Seat, seatProcess[s] # NONE,
         StopVerified(s) \/ StopGivesUp(s), launch' = NONE
  PROVE  BrokenInv'
  <1>1. seatProcess[s].process \in Process
    BY RecordFields DEF LauncherInv
  <1>2. \A p \in Process : Running(tree'[p]) => Running(tree[p])
    BY <1>1, EndedTrees DEF StopVerified, StopGivesUp, TreeAfterGivingUp, LauncherInv, LauncherTypeOK
  <1>3. CASE StopVerified(s)
    BY <1>2, <1>3, RemovalKeepsBroken DEF StopVerified
  <1>4. CASE StopGivesUp(s)
    BY <1>2, <1>4, QuietStepKeepsBroken DEF StopGivesUp
  <1> QED BY <1>3, <1>4

(* The input breaks: what could be terminated has been.                     *)
LEMMA RouteKeepsBroken ==
  ASSUME LauncherInv, BrokenInv, NEW s \in Seat, RoutePhysicalInput(s)
  PROVE  BrokenInv'
  <1>1. seatProcess[s] # NONE /\ launch' = NONE
    BY DEF RoutePhysicalInput
  <1>2. CASE StopVerified(s)
    BY <1>1, <1>2, StopKeepsBroken
  <1>3. CASE /\ TreeAfterGivingUp(s)
             /\ seatProcess' = [seatProcess EXCEPT ![s].input = "broken"]
    <2>1. seatProcess[s].process \in Process /\ tree[seatProcess[s].process] \in Tree
      BY <1>1, RecordFields DEF LauncherInv, LauncherTypeOK
    <2>2. \A p \in Process : Running(tree'[p]) => Running(tree[p])
      BY <1>3, <2>1, EndedTrees DEF TreeAfterGivingUp, LauncherInv, LauncherTypeOK
    <2>3. "terminate" \notin StopFails[s] => ~Running(tree'[seatProcess[s].process])
      BY <1>3, <2>1, EndedTrees DEF TreeAfterGivingUp, LauncherInv, LauncherTypeOK
    <2>4. \A o \in Seat : seatProcess[o] # NONE =>
            /\ seatProcess'[o].process = seatProcess[o].process
            /\ o # s => seatProcess'[o] = seatProcess[o]
      BY <1>3, RecordFields DEF LauncherInv, LauncherTypeOK, SeatProcess
    <2>5. \A o \in Seat : seatProcess'[o] # NONE => seatProcess[o] # NONE
      BY <1>1, <1>3 DEF LauncherInv, LauncherTypeOK
    <2> QED
      BY <1>1, <2>2, <2>3, <2>4, <2>5, RecordFields
      DEF BrokenInv, LaunchInputWorks, BrokenInputStopsTree, LauncherInv
  <1> QED BY <1>2, <1>3 DEF RoutePhysicalInput

(* The steps of a launch that give it input or let it run.                  *)
LEMMA RecordKeepsBroken ==
  ASSUME LauncherInv, BrokenInv, AssignToJob \/ IsolateInput
  PROVE  BrokenInv'
  <1> USE DEF LauncherInv, At, Advance
  <1>1. launch # NONE /\ launch \in Launch /\ launch.seat \in Seat /\ launch'.seat = launch.seat
    BY LaunchFields DEF AssignToJob, IsolateInput, Launch
  <1>2. CASE AssignToJob
    <2>1. /\ seatProcess'[launch.seat].input = "none"
          /\ seatProcess'[launch.seat].process = launch.process
          /\ \A o \in Seat \ {launch.seat} : seatProcess'[o] = seatProcess[o]
      BY <1>1, <1>2 DEF AssignToJob, LauncherTypeOK
    <2>2. launch.process \in Process
      BY <1>1, <1>2, LaunchFields DEF AssignToJob, LaunchHolds
    <2>3. \A p \in Process : Running(tree'[p]) => Running(tree[p])
      <3>1. PICK u : u = [tree[launch.process] EXCEPT !.inJob = TRUE]
        OBVIOUS
      <3>2. tree' = [tree EXCEPT ![launch.process] = u]
        BY <1>2, <3>1, Zenon DEF AssignToJob
      <3>3. Running(u) => Running(tree[launch.process])
        BY <2>2, <3>1 DEF LauncherTypeOK, Tree, Running
      <3> QED BY <2>2, <3>2, <3>3 DEF LauncherTypeOK
    <2> QED
      BY <1>1, <2>1, <2>3, RecordFields DEF BrokenInv, LaunchInputWorks, BrokenInputStopsTree
  <1>3. CASE IsolateInput
    <2>1. tree' = tree /\ \A o \in Seat : seatProcess'[o] # NONE =>
            /\ seatProcess[o] # NONE
            /\ seatProcess'[o].process = seatProcess[o].process
            /\ seatProcess'[o].input \in {seatProcess[o].input, "active"}
      <3>1. seatProcess[launch.seat] # NONE
        BY <1>1, <1>3 DEF IsolateInput, LaunchHolds, BeforeRecord
      <3> QED BY <1>1, <1>3, <3>1, RecordFields DEF IsolateInput, LauncherTypeOK, SeatProcess
    <2> QED BY <1>1, <2>1 DEF BrokenInv, LaunchInputWorks, BrokenInputStopsTree
  <1> QED BY <1>2, <1>3

LEMMA ResumeKeepsBroken ==
  ASSUME LauncherInv, BrokenInv, Resume
  PROVE  BrokenInv'
  <1> USE DEF LauncherInv, At, Advance
  <1>1. /\ launch # NONE /\ launch \in Launch /\ launch.seat \in Seat
        /\ launch'.seat = launch.seat /\ seatProcess' = seatProcess
        /\ seatProcess[launch.seat] # NONE
        /\ seatProcess[launch.seat].process = launch.process
    BY LaunchFields DEF Resume, Launch, LaunchHolds, BeforeRecord
  <1>2. \A q \in Process : q # launch.process => tree'[q] = tree[q]
    BY DEF Resume, LauncherTypeOK
  <1>3. \A o \in Seat : seatProcess[o] # NONE /\ o # launch.seat =>
          seatProcess[o].process # launch.process
    BY <1>1, RecordFields DEF RecordHolds
  <1> QED
    BY <1>1, <1>2, <1>3, RecordFields DEF BrokenInv, LaunchInputWorks, BrokenInputStopsTree

LEMMA CreateKeepsBroken ==
  ASSUME LauncherInv, BrokenInv, NEW p \in Process, CreateSuspended(p)
  PROVE  BrokenInv'
  <1> USE DEF LauncherInv, At
  <1>1. launch # NONE /\ launch \in Launch /\ launch'.seat = launch.seat
    BY LaunchFields DEF CreateSuspended, Launch
  <1>2. \A q \in Process : q # p => tree'[q] = tree[q]
    BY DEF CreateSuspended, LauncherTypeOK
  <1>3. \A o \in Seat : seatProcess[o] # NONE => seatProcess[o].process # p
    BY RecordFields DEF RecordHolds, CreateSuspended
  <1> QED
    BY <1>1, <1>2, <1>3, RecordFields
    DEF CreateSuspended, BrokenInv, LaunchInputWorks, BrokenInputStopsTree

LEMMA JobFailsKeepsBroken ==
  ASSUME LauncherInv, BrokenInv, JobFails
  PROVE  BrokenInv'
  <1> USE DEF LauncherInv
  <1>1. launch # NONE /\ launch.step = "created" /\ launch.process \in Process
        /\ tree[launch.process] \in Tree
    BY LaunchFields DEF JobFails, At, LaunchHolds, LauncherTypeOK
  <1>2. PICK life \in AfterKill(tree[launch.process].root) :
          tree' = [tree EXCEPT ![launch.process].root = life]
    BY DEF JobFails
  <1>3. life # "running"
    BY <1>1, <1>2 DEF AfterKill, Doomed, LaunchHolds, Suspended, Running
  <1>4. \A p \in Process : Running(tree'[p]) => Running(tree[p])
    BY <1>1, <1>2, <1>3 DEF LauncherTypeOK, Tree, Running
  <1> QED BY <1>4, QuietStepKeepsBroken DEF JobFails

LEMMA ProcessesKeepBroken ==
  ASSUME LauncherInv, BrokenInv, NEW p \in Process, ProcessEnds(p) \/ Spawn(p)
  PROVE  BrokenInv'
  <1>1. tree[p] \in Tree
    BY DEF LauncherInv, LauncherTypeOK
  <1>2. \A q \in Process : Running(tree'[q]) => Running(tree[q])
    BY <1>1 DEF ProcessEnds, Spawn, LauncherInv, LauncherTypeOK, Tree, Running
  <1> QED BY <1>2, QuietStepKeepsBroken DEF ProcessEnds, Spawn

LEMMA StepKeepsBroken ==
  LauncherInv /\ BrokenInv /\ [LauncherNext]_launcherVars => BrokenInv'
  <1> SUFFICES ASSUME LauncherInv, BrokenInv, [LauncherNext]_launcherVars
               PROVE  BrokenInv'
    OBVIOUS
  <1>1. CASE UNCHANGED launcherVars
    BY <1>1, QuietStepKeepsBroken DEF launcherVars
  <1>2. CASE \/ PrepareController \/ PublishIdentity \/ TrackWindow \/ FinishLaunch
             \/ EndActivation \/ Configure
    <2>1. launch # NONE => launch \in Launch
      BY LaunchFields DEF LauncherInv
    <2>2. UNCHANGED <<tree, seatProcess>>
          /\ (launch' # NONE => launch # NONE /\ launch'.seat = launch.seat)
      BY <1>2, <2>1 DEF PrepareController, PublishIdentity, TrackWindow, FinishLaunch,
         EndActivation, Configure, At, Advance, Launch
    <2> QED BY <2>2, QuietStepKeepsBroken
  <1>3. CASE RollBackLaunch
    <2>1. launch.seat \in Seat /\ seatProcess[launch.seat] # NONE
      BY <1>3, LaunchFields DEF RollBackLaunch, At, LauncherInv, LaunchHolds, BeforeRecord
    <2> QED BY <1>3, <2>1, StopKeepsBroken DEF RollBackLaunch
  <1>4. ASSUME NEW s \in Seat, \/ StopWorkspaceGame(s) \/ ReapExitedGame(s)
                               \/ RoutePhysicalInput(s)
        PROVE  BrokenInv'
    BY <1>4, StopKeepsBroken, RemovalKeepsBroken, RouteKeepsBroken
    DEF StopWorkspaceGame, ReapExitedGame
  <1>5. ASSUME NEW s \in Seat, NEW plan \in Plan, BeginLaunch(s, plan)
        PROVE  BrokenInv'
    BY <1>5 DEF BeginLaunch, BrokenInv, LaunchInputWorks, BrokenInputStopsTree
  <1>6. CASE HostEnds
    BY <1>6 DEF HostEnds, BrokenInv, LaunchInputWorks, BrokenInputStopsTree
  <1> QED
    BY <1>1, <1>2, <1>3, <1>4, <1>5, <1>6, RecordKeepsBroken, ResumeKeepsBroken,
       CreateKeepsBroken, JobFailsKeepsBroken, ProcessesKeepBroken
    DEF LauncherNext, LaunchStep

(* No tree goes on running behind input that broke, unless its Job refuses  *)
(* to be terminated.                                                        *)
THEOREM NothingRunsBehindBrokenInput == LauncherSpec => []BrokenInputStopsTree
  <1>1. LauncherInit => BrokenInv
    BY DEF LauncherInit, BrokenInv, LaunchInputWorks, BrokenInputStopsTree
  <1>2. BrokenInv => BrokenInputStopsTree
    BY DEF BrokenInv
  <1> QED
    BY <1>1, <1>2, LauncherInvariance, StepKeepsBroken, PTL DEF LauncherSpec

-----------------------------------------------------------------------------
(* Until a launch creates its process it has none; then the process has no  *)
(* children as long as it is suspended.                                     *)
LaunchFresh ==
  launch # NONE =>
    /\ launch.step \in {"activated", "prepared"} => launch.process = NONE
    /\ launch.step = "created" => tree[launch.process].children = "gone"

LEMMA StepKeepsFresh ==
  LauncherInv /\ LaunchFresh /\ [LauncherNext]_launcherVars => LaunchFresh'
  <1> SUFFICES ASSUME LauncherInv, LaunchFresh, [LauncherNext]_launcherVars, launch' # NONE
               PROVE  LaunchFresh'
    BY DEF LaunchFresh
  <1> USE DEF LauncherInv
  <1>1. launch # NONE => launch \in Launch
    BY LaunchFields
  <1>2. CASE UNCHANGED <<tree, launch>>
    BY <1>2 DEF LaunchFresh
  <1>3. ASSUME NEW s \in Seat, NEW plan \in Plan, BeginLaunch(s, plan)
        PROVE  LaunchFresh'
    BY <1>3 DEF BeginLaunch, LaunchFresh
  <1>4. CASE PrepareController
    BY <1>1, <1>4 DEF PrepareController, At, Advance, Launch, LaunchFresh
  <1>5. ASSUME NEW p \in Process, CreateSuspended(p)
        PROVE  LaunchFresh'
    <2>1. launch'.step = "created" /\ launch'.process = p
      BY <1>1, <1>5 DEF CreateSuspended, At, Launch
    <2>2. [NotCreated EXCEPT !.seat = launch.seat, !.root = "suspended"].children = "gone"
      <3>1. PICK a : a = [NotCreated EXCEPT !.seat = launch.seat]
        OBVIOUS
      <3>2. PICK b : b = [a EXCEPT !.root = "suspended"]
        OBVIOUS
      <3>3. b.children = "gone"
        BY <3>1, <3>2 DEF NotCreated
      <3> QED BY <3>1, <3>2, <3>3, Zenon
    <2>3. PICK u : u = [NotCreated EXCEPT !.seat = launch.seat, !.root = "suspended"]
      OBVIOUS
    <2>4. tree' = [tree EXCEPT ![p] = u] /\ u.children = "gone"
      BY <1>5, <2>2, <2>3, Zenon DEF CreateSuspended
    <2> QED BY <2>1, <2>4 DEF LaunchFresh, LauncherTypeOK
  <1>6. CASE AssignToJob \/ PublishIdentity \/ TrackWindow \/ IsolateInput \/ Resume
    <2>1. launch'.step \notin {"activated", "prepared", "created"}
      BY <1>1, <1>6 DEF AssignToJob, PublishIdentity, TrackWindow, IsolateInput, Resume,
         At, Advance, Launch
    <2> QED BY <2>1 DEF LaunchFresh
  <1>7. ASSUME NEW p \in Process, ProcessEnds(p) \/ Spawn(p)
        PROVE  LaunchFresh'
    <2>1. launch' = launch
      BY <1>7 DEF ProcessEnds, Spawn
    <2>2. CASE launch.step = "created"
      <3>1. launch.process \in Process /\ ~Running(tree[launch.process])
        BY <2>1, <2>2, LaunchFields DEF LaunchHolds, Suspended
      <3>2. tree'[launch.process].children = "gone"
        BY <1>7, <2>1, <2>2, <3>1 DEF LaunchFresh, ProcessEnds, Spawn, Running,
           LauncherTypeOK, Tree
      <3> QED BY <2>1, <2>2, <3>2 DEF LaunchFresh
    <2>3. CASE launch.step # "created"
      BY <2>1, <2>3 DEF LaunchFresh
    <2> QED BY <2>2, <2>3
  <1>8. CASE HostEnds \/ EndActivation \/ JobFails \/ FinishLaunch \/ RollBackLaunch
    BY <1>8 DEF HostEnds, EndActivation, JobFails, FinishLaunch, RollBackLaunch
  <1>9. ASSUME NEW s \in Seat, StopWorkspaceGame(s) \/ ReapExitedGame(s) \/ RoutePhysicalInput(s)
        PROVE  LaunchFresh'
    BY <1>9 DEF StopWorkspaceGame, ReapExitedGame, RoutePhysicalInput
  <1>10. CASE UNCHANGED launcherVars \/ Configure
    BY <1>2, <1>10 DEF launcherVars, Configure
  <1> QED
    BY <1>3, <1>4, <1>5, <1>6, <1>7, <1>8, <1>9, <1>10 DEF LauncherNext, LaunchStep

(* The lease ends in these steps alone, and then nothing is left of it.     *)
LEMMA GameLeaseEnds ==
  ASSUME LauncherInv, LaunchFresh, ~KillFails, [LauncherNext]_launcherVars,
         NEW s \in Seat, "game" \in leases[s], "game" \notin leases'[s],
         generation'[s] = generation[s], NEW p \in Launched(s)
  PROVE  Empty(tree'[p])
  <1> USE DEF LauncherInv
  <1>1. /\ launch # NONE => launch \in Launch
        /\ seatProcess[s] # NONE => seatProcess[s].process \in Process
    BY LaunchFields, RecordFields
  <1>2. ASSUME NEW o \in Seat, seatProcess[o] # NONE, StopVerified(o),
               launch = NONE \/ (launch.seat = o /\ seatProcess[o].process = launch.process)
        PROVE  Empty(tree'[p])
    <2>1. /\ seatProcess[o].token \in ActivationToken /\ seatProcess[o].token.seat = o
          /\ seatProcess[o].process \in Process
      BY <1>2, RecordFields DEF RecordHolds
    <2>2. s = o
      BY <1>2, <2>1 DEF StopVerified, ReleaseLease, AuthorityInv, AuthorityTypeOK
    <2>3. p = seatProcess[o].process
      BY <1>2, <2>2 DEF Launched
    <2> QED BY <1>2, <2>1, <2>3, EndedTrees DEF StopVerified, LauncherTypeOK
  <1>3. ASSUME NEW o \in Seat, StopWorkspaceGame(o) \/ RoutePhysicalInput(o)
        PROVE  Empty(tree'[p])
    BY <1>2, <1>3 DEF StopWorkspaceGame, RoutePhysicalInput, StopGivesUp, authorityVars
  <1>4. ASSUME NEW o \in Seat, ReapExitedGame(o)
        PROVE  Empty(tree'[p])
    <2>1. seatProcess[o].token \in ActivationToken /\ seatProcess[o].token.seat = o
      BY <1>4, RecordFields DEF ReapExitedGame, RecordHolds
    <2>2. s = o
      BY <1>4, <2>1 DEF ReapExitedGame, ReleaseLease, AuthorityInv, AuthorityTypeOK
    <2> QED BY <1>4, <2>2 DEF ReapExitedGame, Launched
  <1>5. CASE RollBackLaunch
    <2>1. /\ launch # NONE /\ launch.seat \in Seat /\ seatProcess[launch.seat] # NONE
          /\ seatProcess[launch.seat].process = launch.process
      BY <1>5, LaunchFields DEF RollBackLaunch, At, LaunchHolds, BeforeRecord
    <2> QED BY <1>2, <1>5, <2>1 DEF RollBackLaunch, StopGivesUp, authorityVars
  <1>6. ASSUME launch # NONE, ReleaseLease(launch.token), launch.step \in BeforeRecord
        PROVE  s = launch.seat /\ p = launch.process /\ p # NONE
    <2>1. launch.token \in ActivationToken /\ launch.token.seat = launch.seat
          /\ seatProcess[launch.seat] = NONE
      BY <1>6, LaunchFields DEF LaunchHolds
    <2>2. s = launch.seat
      BY <1>6, <2>1 DEF ReleaseLease, AuthorityInv, AuthorityTypeOK
    <2> QED BY <2>1, <2>2 DEF Launched
  <1>7. CASE EndActivation
    <2>1. launch # NONE /\ launch.step \in {"activated", "prepared"}
      BY <1>7 DEF EndActivation, At
    <2> QED BY <1>6, <1>7, <2>1 DEF EndActivation, LaunchFresh, BeforeRecord
  <1>8. CASE JobFails
    <2>1. /\ launch # NONE /\ launch.step = "created" /\ launch.process \in Process
          /\ tree[launch.process] \in Tree /\ tree[launch.process].children = "gone"
      BY <1>8, LaunchFields DEF JobFails, At, LaunchHolds, LaunchFresh, LauncherTypeOK
    <2>2. p = launch.process
      BY <1>6, <1>8, <2>1 DEF JobFails, BeforeRecord
    <2>3. tree' = [tree EXCEPT ![launch.process].root = "gone"]
      BY <1>8 DEF JobFails, AfterKill
    <2> QED BY <2>1, <2>2, <2>3 DEF LauncherTypeOK, Tree, Empty
  <1>9. ~HostEnds
    BY DEF HostEnds, EpochNumbered, Active
  <1>10. ASSUME NEW o \in Seat, NEW plan \in Plan, BeginLaunch(o, plan)
         PROVE  FALSE
    BY <1>10 DEF BeginLaunch, AcquireLease, AuthorityInv, AuthorityTypeOK
  <1>11. ~Configure
    <2> SUFFICES ASSUME Configure PROVE FALSE
      OBVIOUS
    <2>1. PICK o \in Seat :
            LET token == [seat |-> o, generation |-> generation[o], class |-> "ui"]
            IN \/ AcquireLease(o, "ui")
               \/ ReleaseLease(token)
               \/ ClearController(token)
               \/ \E b \in SeatBinding, inventory \in ScanResults :
                    BindController(token, b, inventory)
      BY DEF Configure
    <2>2. PICK token : token = [seat |-> o, generation |-> generation[o], class |-> "ui"]
      OBVIOUS
    <2>3. token.seat = o /\ token.class = "ui"
      BY <2>2
    <2>4. leases' \in {leases, [leases EXCEPT ![o] = @ \cup {"ui"}],
                      [leases EXCEPT ![o] = @ \ {"ui"}]}
      BY <2>1, <2>2, <2>3 DEF AcquireLease, ReleaseLease, ClearController, BindController
    <2> QED BY <2>4 DEF AuthorityInv, AuthorityTypeOK
  <1>12. ~\/ UNCHANGED authorityVars
          \/ PrepareController \/ PublishIdentity
    BY DEF authorityVars, PrepareController, BindController, PublishIdentity, PublishProcess
  <1>13. \/ \E o \in Seat : \/ \E plan \in Plan : BeginLaunch(o, plan)
                            \/ StopWorkspaceGame(o) \/ ReapExitedGame(o) \/ RoutePhysicalInput(o)
         \/ PrepareController \/ EndActivation \/ JobFails \/ PublishIdentity \/ RollBackLaunch
         \/ HostEnds \/ Configure
         \/ UNCHANGED authorityVars
    BY DEF LauncherNext, LaunchStep, launcherVars, CreateSuspended, AssignToJob, TrackWindow,
       IsolateInput, Resume, FinishLaunch, ProcessEnds, Spawn
  <1> QED
    BY <1>3, <1>4, <1>5, <1>7, <1>8, <1>9, <1>10, <1>11, <1>12, <1>13

(* Where killing a process outside of any Job cannot fail, the lease of a   *)
(* game ends only once every process launched under it has ended.           *)
THEOREM LeaseEndsLast ==
  ASSUME KillFails = FALSE
  PROVE  LauncherSpec => LeaseEndsAfterStop
  <1>1. LauncherInit => LaunchFresh
    BY DEF LauncherInit, LaunchFresh
  <1>2. LauncherInv /\ LaunchFresh /\ [LauncherNext]_launcherVars =>
          (\A s \in Seat :
             /\ "game" \in leases[s]
             /\ "game" \notin leases'[s]
             /\ generation'[s] = generation[s]
             => \A p \in Launched(s) : Empty(tree'[p]))
    BY GameLeaseEnds
  <1> QED
    BY <1>1, <1>2, LauncherInvariance, StepKeepsFresh, PTL
    DEF LauncherSpec, LeaseEndsAfterStop
=============================================================================

------------------------- MODULE SeatAuthority_proofs -------------------------
(***************************************************************************)
(* The authority invariants hold for every set of Seats, processes,        *)
(* windows, controllers and slots, and every generation bound.             *)
(*                                                                         *)
(* AuthorityInv is inductive.  Exclusivity alone is not: the cross-Seat    *)
(* checks only look at Seats with a lease, so they are enough only because *)
(* a Seat without leases owns nothing (NoOrphanAuthority).                 *)
(***************************************************************************)
EXTENDS SeatAuthority, TLAPS

AuthorityInv == AuthorityTypeOK /\ NoOrphanAuthority /\ ExclusiveOwnership

USE AuthorityAssumption, BindingAssumption

(* Types of the fields of a token and of a binding.                        *)
LEMMA TokenFields ==
  ASSUME NEW t \in ActivationToken
  PROVE  t.seat \in Seat /\ t.class \in LeaseClass
  BY DEF ActivationToken

LEMMA NoneIsNothing ==
  NONE \notin Process /\ NONE \notin Window /\ NONE \notin SeatBinding
  OBVIOUS

(* SessionController starts with nothing owned and no lease.               *)
LEMMA InitEstablishes == AuthorityInit => AuthorityInv
  BY DEF AuthorityInit, AuthorityInv, AuthorityTypeOK, NoOrphanAuthority,
         ExclusiveOwnership, LeaseClass

(* acquireLease: the only new ownership is the lease itself.               *)
LEMMA AcquirePreserves ==
  ASSUME AuthorityInv, NEW s \in Seat, NEW class \in LeaseClass,
         AcquireLease(s, class)
  PROVE  AuthorityInv'
  <1> USE DEF AuthorityInv
  <1>1. AuthorityTypeOK'
    BY DEF AuthorityTypeOK, AcquireLease
  <1>2. NoOrphanAuthority'
    BY DEF AuthorityTypeOK, AcquireLease, NoOrphanAuthority, Active
  <1>3. ExclusiveOwnership'
    BY DEF AuthorityTypeOK, AcquireLease, ExclusiveOwnership
  <1> QED BY <1>1, <1>2, <1>3

(* publishProcess: another Seat with the same process would be active.     *)
LEMMA PublishPreserves ==
  ASSUME AuthorityInv, NEW t \in ActivationToken, NEW p \in Process,
         PublishProcess(t, p)
  PROVE  AuthorityInv'
  <1> USE DEF AuthorityInv
  <1>1. AuthorityTypeOK'
    BY DEF AuthorityTypeOK, PublishProcess
  <1>2. NoOrphanAuthority'
    BY TokenFields, NoneIsNothing
    DEF AuthorityTypeOK, PublishProcess, NoOrphanAuthority, Active,
        OwnsGameToken, OwnsToken
  <1>3. \A o \in Others(t.seat) : process[o] # p
    BY TokenFields, NoneIsNothing
    DEF NoOrphanAuthority, PublishProcess, Others, Active
  <1>4. ExclusiveOwnership'
    BY <1>3, TokenFields
    DEF AuthorityTypeOK, PublishProcess, ExclusiveOwnership, Others
  <1> QED BY <1>1, <1>2, <1>4

(* bindTargetWindow: likewise for windows.                                 *)
LEMMA BindWindowPreserves ==
  ASSUME AuthorityInv, NEW t \in ActivationToken, NEW p \in Process,
         NEW w \in Window, BindTargetWindow(t, p, w)
  PROVE  AuthorityInv'
  <1> USE DEF AuthorityInv
  <1>1. AuthorityTypeOK'
    BY DEF AuthorityTypeOK, BindTargetWindow
  <1>2. NoOrphanAuthority'
    BY TokenFields, NoneIsNothing
    DEF AuthorityTypeOK, BindTargetWindow, NoOrphanAuthority, Active
  <1>3. \A o \in Others(t.seat) : window[o] # w
    BY TokenFields, NoneIsNothing
    DEF NoOrphanAuthority, BindTargetWindow, Others, Active
  <1>4. ExclusiveOwnership'
    BY <1>3, TokenFields
    DEF AuthorityTypeOK, BindTargetWindow, ExclusiveOwnership, Others
  <1> QED BY <1>1, <1>2, <1>4

LEMMA ClearWindowPreserves ==
  ASSUME AuthorityInv, NEW t \in ActivationToken, NEW p \in Process,
         NEW w \in Window, ClearTargetWindow(t, p, w)
  PROVE  AuthorityInv'
  <1> USE DEF AuthorityInv
  <1>1. AuthorityTypeOK'
    BY DEF AuthorityTypeOK, ClearTargetWindow
  <1>2. NoOrphanAuthority'
    BY DEF AuthorityTypeOK, ClearTargetWindow, NoOrphanAuthority, Active
  <1>3. ExclusiveOwnership'
    BY DEF AuthorityTypeOK, ClearTargetWindow, ExclusiveOwnership
  <1> QED BY <1>1, <1>2, <1>3

(* Competing for a source is a symmetric relation.                         *)
LEMMA SameSourceSymmetric ==
  ASSUME NEW l, NEW r
  PROVE  SameControllerSource(l, r) <=> SameControllerSource(r, l)
  BY DEF SameControllerSource

LEMMA BindControllerPreserves ==
  ASSUME AuthorityInv, NEW t \in ActivationToken, NEW b \in SeatBinding,
         NEW inventory \in ScanResults, BindController(t, b, inventory)
  PROVE  AuthorityInv'
  <1> USE DEF AuthorityInv
  <1>1. AuthorityTypeOK'
    BY DEF AuthorityTypeOK, Bindable, BindController
  <1>2. NoOrphanAuthority'
    BY TokenFields
    DEF AuthorityTypeOK, Bindable, BindController, NoOrphanAuthority, Active, OwnsToken
  <1>3. \A o \in Others(t.seat) :
          binding[o] # NONE => ~SameControllerSource(binding[o], b)
    BY DEF NoOrphanAuthority, Bindable, BindController, Others, Active
  <1>4. \A o \in Others(t.seat) :
          binding[o] # NONE => ~SameControllerSource(b, binding[o])
    BY <1>3, SameSourceSymmetric
  <1>5. ExclusiveOwnership'
    <2> SUFFICES ASSUME NEW s \in Seat, NEW o \in Seat, s # o
                 PROVE  /\ process'[s] # NONE => process'[s] # process'[o]
                        /\ window'[s] # NONE => window'[s] # window'[o]
                        /\ binding'[s] # NONE /\ binding'[o] # NONE =>
                             ~SameControllerSource(binding'[s], binding'[o])
      BY DEF ExclusiveOwnership, SameControllerSource
    <2>1. process' = process /\ window' = window
      BY DEF Bindable, BindController
    <2>2. binding' = [binding EXCEPT ![t.seat] = b]
      BY DEF Bindable, BindController
    <2>3. binding'[s] # NONE /\ binding'[o] # NONE =>
            ~SameControllerSource(binding'[s], binding'[o])
      <3>1. CASE s = t.seat
        BY <3>1, <2>2, <1>4, TokenFields DEF AuthorityTypeOK, Others
      <3>2. CASE o = t.seat
        BY <3>2, <2>2, <1>3, TokenFields DEF AuthorityTypeOK, Others
      <3>3. CASE s # t.seat /\ o # t.seat
        BY <3>3, <2>2, TokenFields DEF AuthorityTypeOK, ExclusiveOwnership
      <3> QED BY <3>1, <3>2, <3>3
    <2> QED BY <2>1, <2>3 DEF ExclusiveOwnership
  <1> QED BY <1>1, <1>2, <1>5

LEMMA ClearControllerPreserves ==
  ASSUME AuthorityInv, NEW t \in ActivationToken, ClearController(t)
  PROVE  AuthorityInv'
  <1> USE DEF AuthorityInv
  <1>1. AuthorityTypeOK'
    BY DEF AuthorityTypeOK, ClearController
  <1>2. NoOrphanAuthority'
    BY DEF AuthorityTypeOK, ClearController, NoOrphanAuthority, Active
  <1>3. ExclusiveOwnership'
    BY DEF AuthorityTypeOK, ClearController, ExclusiveOwnership,
           SameControllerSource
  <1> QED BY <1>1, <1>2, <1>3

(* releaseLease: what the game lease or the epoch owned goes with it.      *)
LEMMA ReleasePreserves ==
  ASSUME AuthorityInv, NEW t \in ActivationToken, ReleaseLease(t)
  PROVE  AuthorityInv'
  <1> USE DEF AuthorityInv
  <1> DEFINE remaining == leases[t.seat] \ {t.class}
  <1>1. AuthorityTypeOK'
    BY TokenFields DEF AuthorityTypeOK, ReleaseLease
  <1>2. NoOrphanAuthority'
    <2> SUFFICES ASSUME NEW s \in Seat
                 PROVE  /\ process'[s] # NONE => "game" \in leases'[s]
                        /\ window'[s] # NONE => process'[s] # NONE
                        /\ binding'[s] # NONE =>
                             leases'[s] # {} /\ binding'[s].seat = s
      BY DEF NoOrphanAuthority, Active
    <2>1. CASE s # t.seat
      BY <2>1, TokenFields
      DEF AuthorityTypeOK, ReleaseLease, NoOrphanAuthority, Active
    <2>2. CASE s = t.seat
      <3>1. leases'[s] = remaining
        BY <2>2, TokenFields DEF AuthorityTypeOK, ReleaseLease
      <3>2. process'[s] # NONE => /\ t.class # "game"
                                  /\ process'[s] = process[s]
        BY <2>2, TokenFields DEF AuthorityTypeOK, ReleaseLease
      <3>3. window'[s] # NONE => /\ window'[s] = window[s]
                                 /\ process'[s] = process[s]
        BY <2>2, TokenFields DEF AuthorityTypeOK, ReleaseLease
      <3>4. binding'[s] # NONE => remaining # {} /\ binding'[s] = binding[s]
        BY <2>2, TokenFields DEF AuthorityTypeOK, ReleaseLease
      <3> QED
        BY <2>2, <3>1, <3>2, <3>3, <3>4 DEF NoOrphanAuthority
    <2> QED BY <2>1, <2>2
  <1>3. ExclusiveOwnership'
    <2> SUFFICES ASSUME NEW s \in Seat, NEW o \in Seat, s # o
                 PROVE  /\ process'[s] # NONE => process'[s] # process'[o]
                        /\ window'[s] # NONE => window'[s] # window'[o]
                        /\ binding'[s] # NONE /\ binding'[o] # NONE =>
                             ~SameControllerSource(binding'[s], binding'[o])
      BY DEF ExclusiveOwnership, SameControllerSource
    <2>1. \A x \in Seat : /\ process'[x] \in {process[x], NONE}
                         /\ window'[x] \in {window[x], NONE}
                         /\ binding'[x] \in {binding[x], NONE}
      BY TokenFields DEF AuthorityTypeOK, ReleaseLease
    <2> QED BY <2>1 DEF ExclusiveOwnership
  <1> QED BY <1>1, <1>2, <1>3

LEMMA StepPreserves == AuthorityInv /\ [AuthorityNext]_authorityVars => AuthorityInv'
  <1> SUFFICES ASSUME AuthorityInv, [AuthorityNext]_authorityVars
               PROVE  AuthorityInv'
    OBVIOUS
  <1>1. CASE UNCHANGED authorityVars
    BY <1>1 DEF authorityVars, AuthorityInv, AuthorityTypeOK,
       NoOrphanAuthority, ExclusiveOwnership, SameControllerSource, Active
  <1>2. CASE AuthorityNext
    BY <1>2, AcquirePreserves, PublishPreserves, BindWindowPreserves,
       ClearWindowPreserves, BindControllerPreserves,
       ClearControllerPreserves, ReleasePreserves
    DEF AuthorityNext
  <1> QED BY <1>1, <1>2

(* The conjunction of the three invariants holds in every reachable state. *)
LEMMA AuthorityInvariance == AuthoritySpec => []AuthorityInv
  BY InitEstablishes, StepPreserves, PTL DEF AuthoritySpec

(* Type correctness of SessionController's state.                          *)
THEOREM TypeCorrect == AuthoritySpec => []AuthorityTypeOK
  <1>1. AuthorityInv => AuthorityTypeOK
    BY DEF AuthorityInv
  <1> QED BY <1>1, AuthorityInvariance, PTL

(* publishProcess, bindTargetWindow and bindController never give two      *)
(* Seats the same process, window or physical controller.                  *)
THEOREM Exclusivity == AuthoritySpec => []ExclusiveOwnership
  <1>1. AuthorityInv => ExclusiveOwnership
    BY DEF AuthorityInv
  <1> QED BY <1>1, AuthorityInvariance, PTL

(* releaseLease leaves no process or window without a game lease and no    *)
(* binding without an open epoch.                                          *)
THEOREM NoOrphans == AuthoritySpec => []NoOrphanAuthority
  <1>1. AuthorityInv => NoOrphanAuthority
    BY DEF AuthorityInv
  <1> QED BY <1>1, AuthorityInvariance, PTL

-----------------------------------------------------------------------------
(* What a step may do to a Seat that keeps its game lease: an owned        *)
(* process and binding stay.                                               *)
KeepsGameObjects ==
  \A s \in Seat :
    "game" \in leases[s] /\ "game" \in leases'[s] =>
      /\ process[s] # NONE => process'[s] = process[s]
      /\ binding[s] # NONE => binding'[s] = binding[s]

LEMMA StepKeepsGameObjects ==
  AuthorityInv /\ [AuthorityNext]_authorityVars => KeepsGameObjects
  <1> SUFFICES ASSUME AuthorityInv, [AuthorityNext]_authorityVars,
                      NEW s \in Seat,
                      "game" \in leases[s], "game" \in leases'[s]
               PROVE  /\ process[s] # NONE => process'[s] = process[s]
                      /\ binding[s] # NONE => binding'[s] = binding[s]
    BY DEF KeepsGameObjects
  <1> USE DEF AuthorityInv, AuthorityTypeOK
  <1>1. CASE UNCHANGED authorityVars
    BY <1>1 DEF authorityVars
  <1>2. ASSUME NEW u \in Seat, NEW class \in LeaseClass, AcquireLease(u, class)
        PROVE  process'[s] = process[s] /\ binding'[s] = binding[s]
    BY <1>2 DEF AcquireLease, Active
  <1>3. ASSUME NEW t \in ActivationToken, NEW p \in Process, PublishProcess(t, p)
        PROVE  /\ process[s] # NONE => process'[s] = process[s]
               /\ binding'[s] = binding[s]
    BY <1>3, TokenFields DEF PublishProcess
  <1>4. ASSUME NEW t \in ActivationToken, NEW p \in Process, NEW w \in Window,
               BindTargetWindow(t, p, w) \/ ClearTargetWindow(t, p, w)
        PROVE  process'[s] = process[s] /\ binding'[s] = binding[s]
    BY <1>4 DEF BindTargetWindow, ClearTargetWindow
  <1>5. ASSUME NEW t \in ActivationToken, NEW b \in SeatBinding,
               NEW inventory \in ScanResults, BindController(t, b, inventory)
        PROVE  /\ process'[s] = process[s]
               /\ binding[s] # NONE => binding'[s] = binding[s]
    BY <1>5, TokenFields DEF Bindable, BindController, MayReplaceBinding
  <1>6. ASSUME NEW t \in ActivationToken, ClearController(t)
        PROVE  process'[s] = process[s] /\ binding'[s] = binding[s]
    BY <1>6, TokenFields DEF ClearController, MayReplaceBinding
  <1>7. ASSUME NEW t \in ActivationToken, ReleaseLease(t)
        PROVE  process'[s] = process[s] /\ binding'[s] = binding[s]
    <2>1. CASE s # t.seat
      BY <1>7, <2>1, TokenFields DEF ReleaseLease
    <2>2. CASE s = t.seat
      <3>1. leases'[s] = leases[s] \ {t.class}
        BY <1>7, <2>2, TokenFields DEF ReleaseLease
      <3>2. t.class # "game" /\ leases[s] \ {t.class} # {}
        BY <3>1
      <3> QED BY <1>7, <2>2, <3>2 DEF ReleaseLease
    <2> QED BY <2>1, <2>2
  <1> QED
    BY <1>1, <1>2, <1>3, <1>4, <1>5, <1>6, <1>7 DEF AuthorityNext

(* The process and the controller binding are frozen while the game lease  *)
(* lasts, whatever tokens other callers present.                           *)
THEOREM GameObjectsFrozen == AuthoritySpec => FrozenDuringGame
  BY AuthorityInvariance, StepKeepsGameObjects, PTL
  DEF AuthoritySpec, FrozenDuringGame, KeepsGameObjects

-----------------------------------------------------------------------------
(* The epoch a step opens, if it opens one.                                *)
OpensCleanEpoch ==
  \A s \in Seat :
    generation'[s] # generation[s] =>
      /\ ~Active(s)
      /\ generation'[s] = generation[s] + 1
      /\ process'[s] = NONE /\ window'[s] = NONE /\ binding'[s] = NONE

LEMMA StepOpensCleanEpoch ==
  AuthorityInv /\ [AuthorityNext]_authorityVars => OpensCleanEpoch
  <1> SUFFICES ASSUME AuthorityInv, [AuthorityNext]_authorityVars,
                      NEW s \in Seat, generation'[s] # generation[s]
               PROVE  /\ ~Active(s)
                      /\ generation'[s] = generation[s] + 1
                      /\ process'[s] = NONE
                      /\ window'[s] = NONE
                      /\ binding'[s] = NONE
    BY DEF OpensCleanEpoch
  <1>1. \E u \in Seat, class \in LeaseClass : AcquireLease(u, class)
    BY DEF AuthorityNext, authorityVars, PublishProcess, BindTargetWindow,
       ClearTargetWindow, Bindable, BindController, ClearController, ReleaseLease
  <1>2. PICK u \in Seat, class \in LeaseClass : AcquireLease(u, class)
    BY <1>1
  <1>3. u = s /\ ~Active(u)
    BY <1>2 DEF AuthorityInv, AuthorityTypeOK, AcquireLease
  <1> QED
    BY <1>2, <1>3 DEF AuthorityInv, AuthorityTypeOK, AcquireLease, Active

(* Every epoch opens clean and under a generation never used before.       *)
THEOREM EpochsAreFresh == AuthoritySpec => FreshEpoch
  BY AuthorityInvariance, StepOpensCleanEpoch, PTL
  DEF AuthoritySpec, FreshEpoch, OpensCleanEpoch
=============================================================================

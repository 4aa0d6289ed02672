---------------------------- MODULE SeatAuthority ----------------------------
(***************************************************************************)
(* Who owns what in a session: the controllers a user paired with the      *)
(* Seats, and the leases of the Seats.                                     *)
(***************************************************************************)
EXTENDS Naturals

(***************************************************************************)
(* The two identities of a game controller and the rules that relate them. *)
(*                                                                         *)
(* A physical controller has a stable (persistent) identity; XInput only   *)
(* knows it by a runtime slot.  Nothing in Windows relates the two, so a   *)
(* Seat binding records the pair the user chose together with the          *)
(* connection generation of the slot, and every later use re-validates it  *)
(* against a fresh scan.                                                    *)
(*                                                                         *)
(* Abstractions: display names, API surfaces other than XInput and the     *)
(* case folding of identifiers are left out; a runtime key and its slot    *)
(* number determine each other, so the slot stands for both.               *)
(***************************************************************************)

CONSTANTS
  Seat,              \* the Seats of the session: exactly two in the code
  Controller,        \* persistent identities of physical controllers
  Slot,              \* XInput runtime slots
  MaxSourceGeneration, \* bound on the connect/disconnect edges of a slot
  NONE               \* an absent optional

ASSUME BindingAssumption ==
  /\ MaxSourceGeneration \in Nat
  /\ NONE \notin Controller

SourceGeneration == 0..MaxSourceGeneration

Source == [connected : BOOLEAN, generation : SourceGeneration]

(* How many physical controllers of a scan carry an identity: 0, 1, or     *)
(* several (2 stands for "more than one", which the code treats alike).    *)
MatchCount == 0..2

InventorySnapshot ==
  [authoritative : BOOLEAN,
   sources       : [Slot -> Source],
   physical      : [Controller -> MatchCount]]

SeatBinding ==
  [seat       : Seat,
   controller : Controller \cup {NONE},
   slot       : Slot,
   generation : SourceGeneration]

(* A binding is usable against a scan when its slot is still connected in  *)
(* the same connection generation and its physical controller is present   *)
(* exactly once.                                                           *)
BindingMatchesInventory(b, inventory) ==
  /\ inventory.authoritative
  /\ inventory.sources[b.slot].connected
  /\ inventory.sources[b.slot].generation = b.generation
  /\ b.controller # NONE => inventory.physical[b.controller] = 1

(* Two bindings compete for one source.  When both carry a persistent      *)
(* identity that identity decides alone; the slot is compared otherwise.   *)
SameControllerSource(l, r) ==
  IF l.controller # NONE /\ r.controller # NONE
    THEN l.controller = r.controller
    ELSE l.slot = r.slot

(* The preconditions of pairing a physical controller with a slot.         *)
Pairable(controller, slot, inventory) ==
  /\ inventory.authoritative
  /\ inventory.physical[controller] = 1
  /\ inventory.sources[slot].connected

(* The binding a successful pairing produces.                              *)
PairedBinding(seat, controller, slot, inventory) ==
  [seat |-> seat, controller |-> controller, slot |-> slot,
   generation |-> inventory.sources[slot].generation]

-----------------------------------------------------------------------------
(***************************************************************************)
(* SessionController and its SeatRuntime objects: who owns what, per Seat. *)
(*                                                                         *)
(* A Seat's activation epoch opens when its first lease is taken and       *)
(* closes when the last one is released; each epoch has its own            *)
(* generation.  Two kinds of lease may be held inside one epoch: the UI    *)
(* lease (configuration) and the game lease (process and window).  Every   *)
(* mutation presents an activation token; the tokens a caller may present  *)
(* here include every stale one, since callers on other threads keep them. *)
(*                                                                         *)
(* One action per method that changes state; each runs under the           *)
(* controller's mutex, so it is one step.  A refused call changes nothing  *)
(* and is not a step.                                                      *)
(***************************************************************************)

CONSTANTS
  Process,           \* exact process identities (pid and creation time)
  Window,            \* window handles
  MaxGeneration,     \* UINT64_MAX in the code: the last generation
  ScanResults        \* the inventory snapshots a caller may hold

ASSUME AuthorityAssumption ==
  /\ MaxGeneration \in Nat
  /\ NONE \notin Process \cup Window \cup SeatBinding
  /\ ScanResults \subseteq InventorySnapshot

VARIABLES
  generation,        \* generation_ of each Seat
  leases,            \* the lease classes active on each Seat
  process,           \* process_
  window,            \* targetHwnd_
  binding            \* controllerBinding_

authorityVars == <<generation, leases, process, window, binding>>

LeaseClass == {"ui", "game"}

ActivationToken ==
  [seat : Seat, generation : 1..MaxGeneration, class : LeaseClass]

Active(s) == leases[s] # {}

Others(s) == Seat \ {s}

(* The token's epoch is the current one and its lease is still held.       *)
OwnsToken(t) ==
  /\ t.generation = generation[t.seat]
  /\ t.class \in leases[t.seat]

OwnsGameToken(t) == OwnsToken(t) /\ t.class = "game"

-----------------------------------------------------------------------------
AuthorityInit ==
  /\ generation = [s \in Seat |-> 0]
  /\ leases = [s \in Seat |-> {}]
  /\ process = [s \in Seat |-> NONE]
  /\ window = [s \in Seat |-> NONE]
  /\ binding = [s \in Seat |-> NONE]

(* Mutants of AcquireLease: the generation wraps past its last value, and  *)
(* a lease that joins an open epoch takes a generation of its own.         *)
AcquireLeaseUnbounded(s, class) ==
  /\ class \notin leases[s]
  /\ leases' = [leases EXCEPT ![s] = @ \cup {class}]
  /\ generation' = IF Active(s) THEN generation
                                ELSE [generation EXCEPT ![s] = @ + 1]
  /\ UNCHANGED <<process, window, binding>>

AcquireLeaseRenumbers(s, class) ==
  /\ class \notin leases[s]
  /\ generation[s] < MaxGeneration
  /\ leases' = [leases EXCEPT ![s] = @ \cup {class}]
  /\ generation' = [generation EXCEPT ![s] = @ + 1]
  /\ UNCHANGED <<process, window, binding>>

(* The first lease of an epoch advances the generation and starts from a   *)
(* clean Seat; a second lease joins the open epoch.  Generations are never *)
(* reused: once the last one is taken no further epoch can open.           *)
AcquireLease(s, class) ==
  /\ class \notin leases[s]
  /\ leases' = [leases EXCEPT ![s] = @ \cup {class}]
  /\ \/ /\ Active(s)
        /\ UNCHANGED <<generation, process, window, binding>>
     \/ /\ ~Active(s)
        /\ generation[s] < MaxGeneration
        /\ generation' = [generation EXCEPT ![s] = @ + 1]
        /\ process' = [process EXCEPT ![s] = NONE]
        /\ window' = [window EXCEPT ![s] = NONE]
        /\ binding' = [binding EXCEPT ![s] = NONE]

(* Mutant of PublishProcess: the other Seat is not consulted.              *)
PublishProcessUnchecked(t, p) ==
  /\ OwnsGameToken(t)
  /\ process[t.seat] \in {NONE, p}
  /\ process' = [process EXCEPT ![t.seat] = p]
  /\ UNCHANGED <<generation, leases, window, binding>>

(* A game publishes its process once per lease, and never one that another *)
(* active Seat already owns.                                               *)
PublishProcess(t, p) ==
  /\ \A o \in Others(t.seat) : ~(Active(o) /\ process[o] = p)
  /\ OwnsGameToken(t)
  /\ process[t.seat] \in {NONE, p}
  /\ process' = [process EXCEPT ![t.seat] = p]
  /\ UNCHANGED <<generation, leases, window, binding>>

(* The target window may move, but stays with the published process.       *)
BindTargetWindow(t, owner, w) ==
  /\ \A o \in Others(t.seat) : ~(Active(o) /\ window[o] = w)
  /\ OwnsGameToken(t)
  /\ process[t.seat] = owner
  /\ window' = [window EXCEPT ![t.seat] = w]
  /\ UNCHANGED <<generation, leases, process, binding>>

(* Clearing names the window it expects, so a late call about an older     *)
(* window does nothing.                                                    *)
ClearTargetWindow(t, owner, expected) ==
  /\ OwnsGameToken(t)
  /\ process[t.seat] = owner
  /\ window[t.seat] = expected
  /\ window' = [window EXCEPT ![t.seat] = NONE]
  /\ UNCHANGED <<generation, leases, process, binding>>

(* Mutant of MayReplaceBinding: the held game lease is forgotten.          *)
MayReplaceAlways(t) == t.class = "ui"

(* Only the UI lease may replace a different binding, and not while a game *)
(* holds the Seat.                                                         *)
MayReplaceBinding(t) == t.class = "ui" /\ "game" \notin leases[t.seat]

Bindable(t, b, inventory) ==
  /\ b.seat = t.seat
  /\ BindingMatchesInventory(b, inventory)
  /\ \A o \in Others(t.seat) :
       ~(Active(o) /\ binding[o] # NONE /\ SameControllerSource(binding[o], b))
  /\ OwnsToken(t)
  /\ binding[t.seat] \in {NONE, b} \/ MayReplaceBinding(t)

BindController(t, b, inventory) ==
  /\ Bindable(t, b, inventory)
  /\ binding' = [binding EXCEPT ![t.seat] = b]
  /\ UNCHANGED <<generation, leases, process, window>>

ClearController(t) ==
  /\ OwnsToken(t)
  /\ MayReplaceBinding(t)
  /\ binding' = [binding EXCEPT ![t.seat] = NONE]
  /\ UNCHANGED <<generation, leases, process, window>>

(* Mutant of ReleaseLease: objects are dropped only with the last lease.   *)
ReleaseLeaseKeepsGame(t) ==
  LET s == t.seat
      remaining == leases[s] \ {t.class}
      Dropped(f) == IF remaining = {} THEN [f EXCEPT ![s] = NONE] ELSE f
  IN /\ OwnsToken(t)
     /\ leases' = [leases EXCEPT ![s] = remaining]
     /\ process' = Dropped(process)
     /\ window' = Dropped(window)
     /\ binding' = Dropped(binding)
     /\ UNCHANGED generation

(* Ending the game lease drops process and window at once, also when the   *)
(* UI lease keeps the epoch open; ending the last lease drops everything.  *)
ReleaseLease(t) ==
  LET s == t.seat
      remaining == leases[s] \ {t.class}
      Dropped(f, drop) == IF drop THEN [f EXCEPT ![s] = NONE] ELSE f
  IN /\ OwnsToken(t)
     /\ leases' = [leases EXCEPT ![s] = remaining]
     /\ process' = Dropped(process, t.class = "game" \/ remaining = {})
     /\ window' = Dropped(window, t.class = "game" \/ remaining = {})
     /\ binding' = Dropped(binding, remaining = {})
     /\ UNCHANGED generation

(* pollController, setControllerVibration and virtualXInputMapping accept  *)
(* a game token of the open epoch; they read the binding, change nothing.  *)
ControllerReadable(t) ==
  /\ t.class = "game"
  /\ Active(t.seat)
  /\ t.generation = generation[t.seat]
  /\ binding[t.seat] # NONE

AuthorityNext ==
  \/ \E s \in Seat, class \in LeaseClass : AcquireLease(s, class)
  \/ \E t \in ActivationToken :
       \/ \E p \in Process : PublishProcess(t, p)
       \/ \E p \in Process, w \in Window : BindTargetWindow(t, p, w)
       \/ \E p \in Process, w \in Window : ClearTargetWindow(t, p, w)
       \/ \E b \in SeatBinding, inventory \in ScanResults :
            BindController(t, b, inventory)
       \/ ClearController(t)
       \/ ReleaseLease(t)

AuthoritySpec == AuthorityInit /\ [][AuthorityNext]_authorityVars

-----------------------------------------------------------------------------
(* Type invariant of the authority state.                                  *)
AuthorityTypeOK ==
  /\ generation \in [Seat -> 0..MaxGeneration]
  /\ leases \in [Seat -> SUBSET LeaseClass]
  /\ process \in [Seat -> Process \cup {NONE}]
  /\ window \in [Seat -> Window \cup {NONE}]
  /\ binding \in [Seat -> SeatBinding \cup {NONE}]

(* No process, no window and no physical controller belongs to two Seats:  *)
(* the cross-Seat checks of publishProcess, bindTargetWindow and           *)
(* bindController, in every interleaving with lease releases.              *)
ExclusiveOwnership ==
  \A s, o \in Seat : s # o =>
    /\ process[s] # NONE => process[s] # process[o]
    /\ window[s] # NONE => window[s] # window[o]
    /\ binding[s] # NONE /\ binding[o] # NONE =>
         ~SameControllerSource(binding[s], binding[o])

(* Ending a game lease removes process and window authority at once, and   *)
(* the end of an epoch leaves nothing behind for the next one.             *)
NoOrphanAuthority ==
  \A s \in Seat :
    /\ process[s] # NONE => "game" \in leases[s]
    /\ window[s] # NONE => process[s] # NONE
    /\ binding[s] # NONE => Active(s) /\ binding[s].seat = s

(* While one game lease is held its process and its controller binding are *)
(* frozen: set at most once, then neither changed nor dropped.             *)
FrozenDuringGame ==
  [][\A s \in Seat :
       "game" \in leases[s] /\ "game" \in leases'[s] =>
         /\ process[s] # NONE => process'[s] = process[s]
         /\ binding[s] # NONE => binding'[s] = binding[s]]_authorityVars

(* A new epoch begins only on a Seat without leases, with the next         *)
(* generation and no owned object: no token of an earlier epoch can match. *)
FreshEpoch ==
  [][\A s \in Seat :
       generation'[s] # generation[s] =>
         /\ ~Active(s)
         /\ generation'[s] = generation[s] + 1
         /\ process'[s] = NONE /\ window'[s] = NONE /\ binding'[s] = NONE
    ]_authorityVars
=============================================================================

------------------------- MODULE RecoveryAttachment -------------------------
(***************************************************************************)
(* Which process the watchdog is to end for each Seat: registrations of    *)
(* exact process identities under a lease, their check and their disarm.   *)
(* Registrations and disarms may be presented late, twice and out of       *)
(* order, and by the hosts of several sessions.                            *)
(***************************************************************************)
EXTENDS Naturals, FiniteSets

CONSTANTS
  HostSession,       \* ids of host sessions
  LeaseSession,      \* ids of watchdog sessions
  MaxEpoch, MaxGame, MaxCreation     \* bounds of the model

ASSUME AttachmentAssumption ==
  MaxEpoch \in Nat \ {0} /\ MaxGame \in Nat \ {0} /\ MaxCreation \in Nat \ {0}

AttachedSeat == {1, 2}      \* kMaximumRecoveryProcessAttachments
Epoch == 1..MaxEpoch

(* An exact process: its id and the time of its creation.                  *)
Identity == [pid : {1, 2}, created : 1..MaxCreation]

(* A registration that passed validation: one exact-process action, of     *)
(* this process; the epoch is the generation of the lease and of every     *)
(* action.                                                                 *)
Registration ==
  [session : HostSession, leaseSession : LeaseSession, sessionGen : Epoch,
   gameGen : 1..MaxGame, epoch : Epoch, process : Identity]

Lease(r) == <<r.leaseSession, r.epoch>>

VARIABLES
  attached,          \* active_: at most one registration of each Seat
  disarmed,          \* lastDisarmed_
  acceptedLast       \* ghost: the registration of each Seat accepted last

attachmentVars == <<attached, disarmed, acceptedLast>>

AttachmentInit ==
  /\ attached = [s \in AttachedSeat |-> {}]
  /\ disarmed = [s \in AttachedSeat |-> {}]
  /\ acceptedLast = [s \in AttachedSeat |-> {}]

-----------------------------------------------------------------------------
(* Mutant of FreeForSeat: two Seats may be guarded under one lease.        *)
FreeForSeatByProcess(s, r) ==
  \A other \in AttachedSeat \ {s} : \A current \in attached[other] :
    current.process.pid # r.process.pid

(* No other Seat has the process, its id or the lease.                     *)
FreeForSeat(s, r) ==
  \A other \in AttachedSeat \ {s} : \A current \in attached[other] :
    current.process.pid # r.process.pid /\ Lease(current) # Lease(r)

(* A later session generation, or the same one with a later epoch.         *)
AdvancesPast(prior, r) ==
  /\ prior # r
  /\ prior.session = r.session =>
       \/ r.sessionGen > prior.sessionGen
       \/ /\ r.sessionGen = prior.sessionGen
           /\ r.gameGen >= prior.gameGen /\ r.epoch > prior.epoch

(* No Seat's last completed registration had this lease.                   *)
NotCompleted(s, r) ==
  \A other \in AttachedSeat : \A completed \in disarmed[other] :
    Lease(completed) # Lease(r)

(* Mutant of RegisterAttachment: the Seat's own attachment is not found.    *)
RegisterAttachmentBeside(s, r) ==
  /\ FreeForSeat(s, r) /\ NotCompleted(s, r)
  /\ attached' = [attached EXCEPT ![s] = @ \cup {r}]
  /\ acceptedLast' = [acceptedLast EXCEPT ![s] = {r}]
  /\ UNCHANGED disarmed

(* registerAttachment; a Seat that has one keeps it, whatever is presented.*)
RegisterAttachment(s, r) ==
  /\ attached[s] = {} /\ FreeForSeat(s, r) /\ NotCompleted(s, r)
  /\ \A prior \in disarmed[s] : AdvancesPast(prior, r)
  /\ attached' = [attached EXCEPT ![s] = {r}]
  /\ acceptedLast' = [acceptedLast EXCEPT ![s] = {r}]
  /\ UNCHANGED disarmed

(* Mutant of DisarmAttachment: nothing is remembered of it.                *)
DisarmAttachmentForgets(s, r) ==
  /\ attached[s] = {r}
  /\ attached' = [attached EXCEPT ![s] = {}]
  /\ UNCHANGED <<disarmed, acceptedLast>>

(* compareAgainstCurrent and disarm: of exactly what is attached.          *)
DisarmAttachment(s, r) ==
  /\ attached[s] = {r}
  /\ disarmed' = [disarmed EXCEPT ![s] = {r}]
  /\ attached' = [attached EXCEPT ![s] = {}]
  /\ UNCHANGED acceptedLast

AttachmentNext ==
  \E s \in AttachedSeat, r \in Registration :
    RegisterAttachment(s, r) \/ DisarmAttachment(s, r)

AttachmentSpec == AttachmentInit /\ [][AttachmentNext]_attachmentVars

-----------------------------------------------------------------------------
(* Type invariant of the attachments.                                      *)
AttachmentTypeOK ==
  \A s \in AttachedSeat :
    /\ attached[s] \subseteq Registration /\ Cardinality(attached[s]) <= 1
    /\ disarmed[s] \subseteq Registration /\ Cardinality(disarmed[s]) <= 1

(* The watchdog can tell what to end: an id or a lease leads to one Seat,  *)
(* also over the registrations that were completed last.                   *)
AttachmentsDistinct ==
  \A s, t \in AttachedSeat : s # t =>
    \A r \in attached[s], q \in attached[t] \cup disarmed[t] :
      /\ Lease(r) # Lease(q)
      /\ q \in attached[t] => r.process.pid # q.process.pid

(* A registration that is accepted is newer than the Seat's last one of    *)
(* the same host session: what was completed does not come back late.      *)
NoLateRegistration ==
  [][\A s \in AttachedSeat :
       \A r \in acceptedLast'[s] \ acceptedLast[s], last \in acceptedLast[s] :
         r.session = last.session =>
           \/ r.sessionGen > last.sessionGen
           \/ r.sessionGen = last.sessionGen /\ r.epoch > last.epoch]_attachmentVars
=============================================================================

--------------------------- MODULE InputEvidence ---------------------------
(* What is recorded of the input on its way to a Seat, by threads that never  *)
(* wait (InputMetricsRecorder), and what the report made of a snapshot says    *)
(* of the isolation of the Seats (buildInputMetricsReport, isolationVerdict,   *)
(* overallVerdict).  Every event is meant for Seat 1.                        *)
EXTENDS Naturals, Sequences, FiniteSets, SequencesExt

CONSTANTS
  EvidenceEvent,      \* events of the input
  EvidenceThread,     \* threads that record
  EvidenceCapacity,   \* samples the ring holds
  MaxHappened         \* bound on what happens to the events

(* The recorder makes room for one sample at least.                          *)
ASSUME EvidenceAssumption == EvidenceCapacity \in Nat \ {0}

VARIABLES
  happened,    \* what became of the events: set of samples
  recording,   \* per thread: what it is about to record, and how far it is
  recorder,    \* the ring, its guard and its counters
  evidence     \* the snapshot and the report

evidenceVars == <<happened, recording, recorder, evidence>>

(* The four stages before a target are one; a receiver that could not be      *)
(* told is 0.                                                               *)
InputStage == <<"routed", "applied", "queried">>
StageNumber(s) == CHOOSE i \in 1..3 : InputStage[i] = s
IntendedSeat == 1
InputSample == [event : EvidenceEvent, stage : Range(InputStage), receiver : 0..2]

NoSample == [pc |-> "idle"]
NoEvidence == [step |-> "none"]

EvidenceInit ==
  /\ happened = {}
  /\ recording = [t \in EvidenceThread |-> NoSample]
  /\ recorder = [ring |-> <<>>, guard |-> "free", rotation |-> 0, contention |-> 0, told |-> {}]
  /\ evidence = NoEvidence

(* An event is routed, reaches a Seat, is asked for by it: in this order.     *)
Happens(t, s) ==
  /\ recording[t] = NoSample /\ s \notin happened
  /\ Cardinality(happened) < MaxHappened /\ evidence.step # "report"
  /\ IF s.stage = "routed" THEN s.receiver = 0
     ELSE \E h \in happened : /\ h.event = s.event
                             /\ StageNumber(h.stage) + 1 = StageNumber(s.stage)
                             /\ s.stage = "queried" => h.receiver = s.receiver
  /\ happened' = happened \cup {s}
  /\ recording' = [recording EXCEPT ![t] = [pc |-> "trying", sample |-> s]]
  /\ UNCHANGED <<recorder, evidence>>

(* tryRecord(): the guard is taken, or the sample is lost and then counted.    *)
TryRecord(t) ==
  /\ recording[t].pc = "trying"
  /\ IF recorder.guard = "free"
     THEN /\ recorder' = [recorder EXCEPT !.guard = "thread"]
          /\ recording' = [recording EXCEPT ![t].pc = "writing"]
     ELSE recording' = [recording EXCEPT ![t].pc = "lost"] /\ UNCHANGED recorder
  /\ UNCHANGED <<happened, evidence>>

CountContention(t) ==
  /\ recording[t].pc = "lost"
  /\ recorder' = [recorder EXCEPT !.contention = 1, !.told = @ \cup {recording[t].sample}]
  /\ recording' = [recording EXCEPT ![t] = NoSample]
  /\ UNCHANGED <<happened, evidence>>

(* The ring is full: the oldest sample makes room, and that is counted.       *)
WriteSample(t) ==
  /\ recording[t].pc = "writing"
  /\ LET full == Len(recorder.ring) = EvidenceCapacity
         kept == IF full THEN Tail(recorder.ring) ELSE recorder.ring
     IN recorder' = [recorder EXCEPT !.ring = Append(kept, recording[t].sample),
                       !.rotation = IF full THEN 1 ELSE @, !.guard = "free",
                       !.told = @ \cup {recording[t].sample}]
  /\ recording' = [recording EXCEPT ![t] = NoSample]
  /\ UNCHANGED <<happened, evidence>>

(* snapshot(): waits for the guard, copies, and lets it go.                   *)
LockForSnapshot ==
  /\ evidence = NoEvidence /\ recorder.guard = "free"
  /\ recorder' = [recorder EXCEPT !.guard = "snapshot"]
  /\ evidence' = [step |-> "locked", told |-> recorder.told]
  /\ UNCHANGED <<happened, recording>>

TakeSnapshot ==
  /\ evidence.step = "locked"
  /\ evidence' = [step |-> "snapshot", told |-> evidence.told,
                  samples |-> Range(recorder.ring),
                  lossFree |-> recorder.rotation = 0 /\ recorder.contention = 0]
  /\ recorder' = [recorder EXCEPT !.guard = "free"]
  /\ UNCHANGED <<happened, recording>>

-----------------------------------------------------------------------------
(* buildInputMetricsReport(): per event, what its samples show.              *)
Received(samples, e, stage) == { s \in samples : s.event = e /\ s.stage = stage }
Told(s) == s.receiver # 0
ReceiverVerified(samples, e) ==
  \A stage \in {"applied", "queried"} : \E s \in Received(samples, e, stage) : Told(s)
CrossSeat(samples, e) ==
  \E s \in samples : s.event = e /\ Told(s) /\ s.receiver # IntendedSeat
Complete(samples, e) == \A i \in 1..3 : Received(samples, e, InputStage[i]) # {}

(* isolationVerdict().                                                      *)
IsolationVerdict(samples, lossFree) ==
  LET events == { s.event : s \in samples }
  IN IF \E e \in events : CrossSeat(samples, e) THEN "Fail"
     ELSE IF /\ lossFree /\ events # {}
             /\ \A e \in events : ReceiverVerified(samples, e) /\ Complete(samples, e)
     THEN "Pass" ELSE "InsufficientEvidence"

(* overallVerdict(): of the session the input belongs to.                    *)
CheckOutcome == {"NotRequired", "Success", "Failed", "MissingEvidence"}
SessionFacts == [final : {"Running", "ReturnedToWindows", "RecoveryRequired"},
                 rollback : {"none", "attempted", "verified"}, seats : BOOLEAN,
                 capability : CheckOutcome]
SessionVerdict(isolation, f) ==
  IF \/ isolation = "Fail" \/ f.final = "RecoveryRequired" \/ f.rollback = "attempted"
     \/ (f.final = "ReturnedToWindows" /\ f.rollback # "verified") \/ f.capability = "Failed"
  THEN "Fail"
  ELSE IF isolation = "Pass" /\ f.seats /\ f.capability \in {"NotRequired", "Success"}
  THEN "Pass" ELSE "InsufficientEvidence"

Report ==
  /\ evidence.step = "snapshot"
  /\ evidence' = [step |-> "report", told |-> evidence.told,
                  isolation |-> IsolationVerdict(evidence.samples, evidence.lossFree)]
  /\ UNCHANGED <<happened, recording, recorder>>

EvidenceNext ==
  \/ \E t \in EvidenceThread :
       (\E s \in InputSample : Happens(t, s)) \/ TryRecord(t) \/ CountContention(t) \/ WriteSample(t)
  \/ LockForSnapshot \/ TakeSnapshot \/ Report

-----------------------------------------------------------------------------
(* Type invariant of the recorder and its report.                           *)
EvidenceTypeOK ==
  /\ happened \subseteq InputSample
  /\ recorder.ring \in BoundedSeq(InputSample, EvidenceCapacity)
  /\ recorder.guard \in {"free", "thread", "snapshot"}
  /\ \A t \in EvidenceThread : recording[t].pc \in {"idle", "trying", "lost", "writing"}
  /\ Cardinality({ t \in EvidenceThread : recording[t].pc = "writing" })
       = (IF recorder.guard = "thread" THEN 1 ELSE 0)

(* The Seats are said to be isolated only when no event that was recorded, or  *)
(* lost in recording, before the snapshot is known to have reached another    *)
(* Seat, and each of them was applied and asked for in its own Seat unless the *)
(* receiver was told by nobody; and a session passes only on top of that.     *)
EvidenceIsNotOverstated ==
  evidence.step = "report" =>
    /\ evidence.isolation = "Pass" =>
         /\ \A s \in evidence.told : s.receiver \in {0, IntendedSeat}
         /\ \A s \in evidence.told : \A stage \in {"applied", "queried"} :
              \E h \in happened : h.event = s.event /\ h.stage = stage /\ h.receiver = IntendedSeat
    /\ \A f \in SessionFacts :
         SessionVerdict(evidence.isolation, f) = "Pass" =>
           /\ evidence.isolation = "Pass" /\ f.seats /\ f.final # "RecoveryRequired"
           /\ (f.final = "ReturnedToWindows" \/ f.rollback # "none") => f.rollback = "verified"
=============================================================================

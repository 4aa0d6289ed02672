---------------------------- MODULE Platform_proofs ----------------------------
EXTENDS MCPlatform, FiniteSetTheorems, WellFoundedInduction, TLAPS

-----------------------------------------------------------------------------
(* The Raw Input stream and the key state of a game.                       *)

LEMMA LeastOf ==
  ASSUME NEW S \in SUBSET Nat, S # {}
  PROVE  \E x \in S : \A y \in S : x <= y
<1> DEFINE R == {ss \in Nat \X Nat : ss[1] < ss[2]}
<1>1. IsWellFoundedOn(R, Nat)  BY NatLessThanWellFounded DEF OpToRel
<1> HIDE DEF R
<1>2. \E x \in S : \A y \in S : ~(<<y, x>> \in R)  BY <1>1, WFMin
<1>3. PICK x \in S : \A y \in S : ~(y < x)  BY <1>2 DEF R
<1>4. \A y \in S : y \in Nat /\ x \in Nat  OBVIOUS
<1>5. \A y \in S : x <= y  BY <1>3, <1>4
<1> QED BY <1>5

(* The places of what is kept are numbered without a gap.                    *)
LEMMA PlacesAreNumbered ==
  ASSUME NEW n \in Nat, NEW places \in SUBSET (1..n)
  PROVE  /\ Cardinality(places) \in Nat
         /\ \A i \in places : PlaceAmong(places, i) \in 1..Cardinality(places)
         /\ \A i, h \in places : PlaceAmong(places, i) = PlaceAmong(places, h) => i = h
         /\ \A k \in 1..Cardinality(places) : \E i \in places : PlaceAmong(places, i) = k
<1> DEFINE upTo(i) == {j \in places : j <= i}
           rank == [i \in places |-> PlaceAmong(places, i)]
<1>1. IsFiniteSet(1..n)  BY FS_Interval
<1>2. IsFiniteSet(places) /\ Cardinality(places) \in Nat
  BY <1>1, FS_Subset, FS_CardinalityType
<1>3. \A i \in places : IsFiniteSet(upTo(i)) /\ Cardinality(upTo(i)) \in 1..Cardinality(places)
  <2>1. ASSUME NEW i \in places
        PROVE IsFiniteSet(upTo(i)) /\ Cardinality(upTo(i)) \in 1..Cardinality(places)
    <3>1. upTo(i) \in SUBSET places /\ i \in upTo(i)  OBVIOUS
    <3>2. IsFiniteSet(upTo(i)) /\ Cardinality(upTo(i)) <= Cardinality(places)
          /\ Cardinality(upTo(i)) \in Nat
      BY <1>2, <3>1, FS_Subset, FS_CardinalityType
    <3>3. Cardinality(upTo(i)) # 0  BY <3>1, <3>2, FS_EmptySet
    <3> QED BY <1>2, <3>2, <3>3
  <2> QED BY <2>1
<1>4. \A i, h \in places : i < h => Cardinality(upTo(i)) # Cardinality(upTo(h))
  <2>1. ASSUME NEW i \in places, NEW h \in places, i < h
        PROVE Cardinality(upTo(i)) # Cardinality(upTo(h))
    <3>0. i \in Int /\ h \in Int /\ places \subseteq Int  OBVIOUS
    <3>1. upTo(i) \in SUBSET upTo(h)
      <4>1. \A j \in upTo(i) : j \in upTo(h)  BY <2>1, <3>0
      <4> HIDE DEF upTo
      <4> QED BY <4>1
    <3>2. h \in upTo(h) /\ h \notin upTo(i)
      BY <2>1, <3>0
    <3> HIDE DEF upTo
    <3> QED BY <1>3, <3>1, <3>2, FS_Subset
  <2> QED BY <2>1
<1>5. \A i \in places : PlaceAmong(places, i) = Cardinality(upTo(i))  BY DEF PlaceAmong
<1> HIDE DEF upTo
<1>6. \A i \in places : PlaceAmong(places, i) \in 1..Cardinality(places)  BY <1>3, <1>5
<1>7. \A i, h \in places : PlaceAmong(places, i) = PlaceAmong(places, h) => i = h
  <2>1. \A i, h \in places : i < h \/ h < i \/ i = h  OBVIOUS
  <2> QED BY <1>4, <1>5, <2>1
<1>8. rank \in Injection(places, 1..Cardinality(places))
  <2>1. rank \in [places -> 1..Cardinality(places)]  BY <1>6
  <2>2. \A i, h \in places : rank[i] = rank[h] => i = h  BY <1>7
  <2> QED BY <2>1, <2>2 DEF Injection, IsInjective
<1>9. IsFiniteSet(1..Cardinality(places)) /\ Cardinality(1..Cardinality(places)) = Cardinality(places)
  BY <1>2, FS_Interval
<1>10. rank \in Surjection(places, 1..Cardinality(places))
  BY <1>8, <1>9, FS_Injection
<1>11. \A k \in 1..Cardinality(places) : \E i \in places : rank[i] = k
  BY <1>10 DEF Surjection
<1> QED BY <1>2, <1>6, <1>7, <1>11

LEMMA KeptHolds ==
  ASSUME NEW S, NEW q \in Seq(S), NEW keep
  PROVE  /\ KeptOf(q, keep) \in Seq(S)
         /\ ToSet(KeptOf(q, keep)) = ToSet(q) \cap keep
         /\ IsInjective(q) => IsInjective(KeptOf(q, keep))
<1> DEFINE places == {i \in 1..Len(q) : q[i] \in keep}
           at(k) == CHOOSE i \in places : PlaceAmong(places, i) = k
           n == Cardinality(places)
           kept == [k \in 1..n |-> q[at(k)]]
<1>1. Len(q) \in Nat /\ DOMAIN q = 1..Len(q) /\ places \in SUBSET (1..Len(q))
      /\ (\A i \in 1..Len(q) : q[i] \in S) /\ \A i \in 1..Len(q) : i \in places <=> q[i] \in keep
  OBVIOUS
<1>2. KeptOf(q, keep) = kept  BY DEF KeptOf
<1> HIDE DEF places
<1>3. /\ n \in Nat
      /\ \A i \in places : PlaceAmong(places, i) \in 1..n
      /\ \A i, h \in places : PlaceAmong(places, i) = PlaceAmong(places, h) => i = h
      /\ \A k \in 1..n : \E i \in places : PlaceAmong(places, i) = k
  BY <1>1, PlacesAreNumbered
<1> HIDE DEF n
<1>4. \A k \in 1..n : at(k) \in places /\ PlaceAmong(places, at(k)) = k  BY <1>3
<1>5. \A i \in places : at(PlaceAmong(places, i)) = i  BY <1>3
<1> HIDE DEF at
<1>6. kept \in Seq(S)
  <2>1. \A k \in 1..n : q[at(k)] \in S  BY <1>1, <1>4
  <2> QED BY <1>3, <2>1
<1>7. DOMAIN kept = 1..n /\ \A k \in 1..n : kept[k] = q[at(k)]  OBVIOUS
<1> HIDE DEF kept
<1>8. ToSet(kept) = ToSet(q) \cap keep
  <2>1. ASSUME NEW x \in ToSet(kept) PROVE x \in ToSet(q) \cap keep
    BY <1>1, <1>4, <1>7, <2>1 DEF ToSet
  <2>2. ASSUME NEW x \in ToSet(q) \cap keep PROVE x \in ToSet(kept)
    <3>1. PICK i \in places : x = q[i]  BY <1>1, <2>2 DEF ToSet
    <3>2. kept[PlaceAmong(places, i)] = x  BY <1>3, <1>5, <1>7, <3>1
    <3> QED BY <1>3, <1>7, <3>2 DEF ToSet
  <2> QED BY <2>1, <2>2
<1>9. ASSUME IsInjective(q) PROVE IsInjective(kept)
  <2>1. ASSUME NEW k \in 1..n, NEW l \in 1..n, kept[k] = kept[l] PROVE k = l
    <3>1. at(k) = at(l)  BY <1>1, <1>4, <1>7, <1>9, <2>1 DEF IsInjective
    <3> QED BY <1>4, <3>1
  <2> QED BY <1>7, <2>1 DEF IsInjective
<1> QED BY <1>2, <1>6, <1>8, <1>9

RawSlot ==
  [state : HandleState, generation : 1..MaxTokenGeneration,
   packet : [input : 0..MaxSequence, usage : Usage, registration : 0..MaxRegistrations]]

(* A token beyond a slot's generation, or of a free slot's own, stands for    *)
(* no input yet; what is queued is what resolves.                            *)
TokensAhead ==
  /\ \A i \in HandleSlot : \A t \in RawToken :
       t.slot = i /\ t.generation > handles[i].generation => tokenInput[t] = 0
  /\ \A i \in HandleSlot : handles[i].state = "Free" => tokenInput[TokenOf(i)] = 0

QueueHolds ==
  /\ \A t \in RawToken : t \in ToSet(rawQueue) <=> Resolves(t)
  /\ IsInjective(rawQueue)

TokensHold == TokensAhead /\ TokensAreNotReused /\ QueueHolds

RawInv == RawTypeOK /\ TokensHold /\ PacketsAreRegistered /\ FocusIsOnTarget

LEMMA HandleSlots ==
  /\ HandleSlot \in SUBSET Nat
  /\ MaxTokenGeneration \in Nat \ {0} /\ MaxQueue \in Nat
  /\ MaxSequence \in Nat /\ MaxRegistrations \in Nat
<1>1. \A i \in 1..Cardinality(HandleSlot) : i \in Nat  OBVIOUS
<1> QED BY <1>1, RawInputAssumption

LEMMA RawStarts == RawInit => RawInv
<1> SUFFICES ASSUME RawInit PROVE RawInv  OBVIOUS
<1>1. FreshSlot \in RawSlot /\ FreshSlot.state = "Free" /\ FreshSlot.generation = 1
  BY HandleSlots DEF FreshSlot, RawSlot, HandleState, NoPacket, Usage
<1>2. \A i \in HandleSlot : handles[i] = FreshSlot  BY DEF RawInit
<1>3. \A i \in HandleSlot : TokenOf(i) \in RawToken
  BY <1>1, <1>2, HandleSlots DEF TokenOf, RawToken
<1>4. RawTypeOK
  <2>1. <<>> \in Seq(RawToken)  OBVIOUS
  <2>2. handles \in [HandleSlot -> RawSlot]  BY <1>1 DEF RawInit
  <2>3. /\ usageWindow \in [Usage -> [generation : 0..MaxRegistrations, window : WindowOrNone]]
        /\ tokenInput \in [RawToken -> 0..MaxSequence] /\ registrations \in 0..MaxRegistrations
        /\ lastInput \in 0..MaxSequence
    BY HandleSlots DEF RawInit, WindowOrNone, Unregistered0
  <2> QED BY <2>1, <2>2, <2>3 DEF RawInit, RawTypeOK, RawSlot, WindowOrNone
<1>5. ToSet(rawQueue) = {} /\ IsInjective(rawQueue)  BY DEF RawInit, ToSet, IsInjective
<1>6. TokensAhead /\ TokensAreNotReused /\ QueueHolds
  BY <1>1, <1>2, <1>3, <1>5
     DEF RawInit, TokensAhead, TokensAreNotReused, QueueHolds, Resolves, LiveSlot, RawToken
<1>7. PacketsAreRegistered  BY <1>1, <1>2 DEF PacketsAreRegistered, LiveSlot
<1> QED BY <1>4, <1>6, <1>7 DEF RawInv, TokensHold, FocusIsOnTarget, RawInit

LEMMA ReleasedHolds ==
  ASSUME NEW slot \in RawSlot, NEW state \in HandleState
  PROVE  /\ Released(slot, state) \in RawSlot
         /\ Released(slot, state).state = state
         /\ Released(slot, state).generation = slot.generation
         /\ Released(slot, state).packet = NoPacket
<1>1. slot = [state |-> slot.state, generation |-> slot.generation, packet |-> slot.packet]
  BY DEF RawSlot
<1>2. Released(slot, state) =
        [state |-> state, generation |-> slot.generation, packet |-> NoPacket]
  <2> DEFINE r == [slot EXCEPT !.state = state, !.packet = NoPacket]
  <2>1. DOMAIN slot = {"state", "generation", "packet"}  BY DEF RawSlot
  <2>2. /\ DOMAIN r = {"state", "generation", "packet"} /\ r = [x \in DOMAIN r |-> r[x]]
        /\ r.state = state /\ r.generation = slot.generation /\ r.packet = NoPacket
    BY <2>1
  <2>3. Released(slot, state) = r  BY DEF Released
  <2> HIDE DEF r
  <2> QED BY <2>2, <2>3
<1>3. NoPacket \in [input : 0..MaxSequence, usage : Usage, registration : 0..MaxRegistrations]
  BY HandleSlots DEF NoPacket, Usage
<1> QED BY <1>2, <1>3 DEF RawSlot

LEMMA ReusedHolds ==
  ASSUME NEW slot \in RawSlot
  PROVE  /\ Reused(slot) \in RawSlot
         /\ slot.state \notin {"Consumed", "Expired"} => Reused(slot) = slot
         /\ slot.state \in {"Consumed", "Expired"} =>
              \/ Reused(slot).state = "Retired" /\ Reused(slot).generation = slot.generation
              \/ Reused(slot).state = "Free" /\ Reused(slot).generation = slot.generation + 1
<1>1. slot = [state |-> slot.state, generation |-> slot.generation, packet |-> slot.packet]
      /\ slot.generation \in Nat
  BY HandleSlots DEF RawSlot
<1>2. CASE slot.state \notin {"Consumed", "Expired"}  BY <1>2 DEF Reused
<1>3. CASE slot.state \in {"Consumed", "Expired"} /\ slot.generation >= MaxTokenGeneration
  <2>1. Reused(slot) = Released(slot, "Retired")  BY <1>3 DEF Reused
  <2>2. "Retired" \in HandleState  BY DEF HandleState
  <2> QED BY <1>3, <2>1, <2>2, ReleasedHolds
<1>4. CASE slot.state \in {"Consumed", "Expired"} /\ ~(slot.generation >= MaxTokenGeneration)
  <2>1. Reused(slot) = [slot EXCEPT !.generation = slot.generation + 1, !.state = "Free"]
    BY <1>4 DEF Reused
  <2>2. Reused(slot) = [state |-> "Free", generation |-> slot.generation + 1, packet |-> slot.packet]
    BY <1>1, <2>1
  <2>3. slot.generation + 1 \in 1..MaxTokenGeneration  BY <1>1, <1>4, HandleSlots
  <2> QED BY <1>4, <2>2, <2>3 DEF RawSlot, HandleState
<1> QED BY <1>2, <1>3, <1>4

(* Slots whose packets are gone, and their tokens from the queue.             *)
LEMMA GoneHolds ==
  ASSUME RawTypeOK, TokensHold, NEW gone \in SUBSET HandleSlot,
         NEW state \in {"Consumed", "Expired"},
         handles' = [i \in HandleSlot |->
                       IF i \in gone THEN Released(handles[i], state) ELSE handles[i]],
         \A t \in RawToken :
           t \in ToSet(rawQueue') <=> t \in ToSet(rawQueue) /\ t.slot \notin gone,
         IsInjective(rawQueue'), UNCHANGED tokenInput
  PROVE  handles' \in [HandleSlot -> RawSlot] /\ TokensHold'
<1>1. \A i \in HandleSlot : handles[i] \in RawSlot /\ state \in HandleState
  BY DEF RawTypeOK, RawSlot, HandleState
<1>2. \A i \in HandleSlot :
        /\ handles'[i] \in RawSlot /\ handles'[i].generation = handles[i].generation
        /\ i \in gone => handles'[i].state = state
        /\ i \notin gone => handles'[i] = handles[i]
  BY <1>1, ReleasedHolds
<1>3. handles' \in [HandleSlot -> RawSlot]  BY <1>2
<1>4. TokensAhead'
  BY <1>2 DEF TokensHold, TokensAhead, TokenOf
<1>5. TokensAreNotReused'
  BY <1>2 DEF TokensHold, TokensAreNotReused, TokenOf, LiveSlot
<1>6. QueueHolds'
  <2>1. \A t \in RawToken : t.slot \in HandleSlot  BY DEF RawToken
  <2> QED BY <1>2, <2>1 DEF TokensHold, QueueHolds, Resolves, LiveSlot
<1> QED BY <1>3, <1>4, <1>5, <1>6 DEF TokensHold

(* Every step that leaves the stream of packets alone.                        *)
LEMMA TokensStay ==
  ASSUME TokensHold, UNCHANGED <<handles, rawQueue, tokenInput>>
  PROVE  TokensHold'
  BY DEF TokensHold, TokensAhead, TokensAreNotReused, QueueHolds, Resolves, LiveSlot, TokenOf

LEMMA PacketsStay ==
  ASSUME PacketsAreRegistered, UNCHANGED <<handles, usageWindow>>
  PROVE  PacketsAreRegistered'
  BY DEF PacketsAreRegistered, LiveSlot

LEMMA RegisterSteps ==
  ASSUME RawInv, NEW usage \in Usage, NEW window \in WindowOrNone, RawRegister(usage, window)
  PROVE  RawInv'
<1>1. /\ UNCHANGED <<keyVars, windowStateVars, rawMode, pending, posting, tokenInput>>
      /\ registrations < MaxRegistrations
  BY DEF RawRegister
<1>2. CASE window = NoWindow /\ usageWindow[usage] = Unregistered0
  <2>1. UNCHANGED <<handles, rawQueue, usageWindow, registrations>>  BY <1>2 DEF RawRegister
  <2> QED
    BY <1>1, <2>1, TokensStay, PacketsStay
       DEF RawInv, RawTypeOK, FocusIsOnTarget, keyVars, windowStateVars
<1>3. CASE ~(window = NoWindow /\ usageWindow[usage] = Unregistered0)
  <2> DEFINE gone == {i \in HandleSlot : LiveSlot(handles[i]) /\ handles[i].packet.usage = usage}
             registered == IF window = NoWindow THEN Unregistered0
                           ELSE [generation |-> registrations + 1, window |-> window]
  <2>1. /\ handles' = Expired(usage) /\ rawQueue' = OtherTokens(usage)
        /\ registrations' = registrations + 1
        /\ usageWindow' = [usageWindow EXCEPT ![usage] = registered]
    BY <1>3 DEF RawRegister, ExpireUsage
  <2>2. handles' = [i \in HandleSlot |->
                      IF i \in gone THEN Released(handles[i], "Expired") ELSE handles[i]]
    BY <2>1 DEF Expired
  <2>3. /\ rawQueue' \in Seq(RawToken) /\ IsInjective(rawQueue')
        /\ ToSet(rawQueue') = ToSet(rawQueue) \cap {t \in RawToken : Packet(t).usage # usage}
    BY <2>1, KeptHolds DEF OtherTokens, RawInv, RawTypeOK, TokensHold, QueueHolds
  <2>4. \A t \in RawToken :
          t \in ToSet(rawQueue') <=> t \in ToSet(rawQueue) /\ t.slot \notin gone
    <3>1. \A t \in RawToken : t.slot \in HandleSlot /\ (t \in ToSet(rawQueue) => Resolves(t))
      BY DEF RawInv, TokensHold, QueueHolds, RawToken
    <3> QED BY <2>3, <3>1 DEF Packet, Resolves
  <2>5. handles' \in [HandleSlot -> RawSlot] /\ TokensHold'
    BY <1>1, <2>2, <2>3, <2>4, GoneHolds DEF RawInv
  <2>6. registrations' \in 0..MaxRegistrations
    BY <1>1, <2>1, HandleSlots DEF RawInv, RawTypeOK
  <2>7. usageWindow' \in [Usage -> [generation : 0..MaxRegistrations, window : WindowOrNone]]
    <3>1. registered \in [generation : 0..MaxRegistrations, window : WindowOrNone]
      BY <2>1, <2>6, HandleSlots DEF WindowOrNone, Unregistered0
    <3> QED BY <2>1, <3>1 DEF RawInv, RawTypeOK
  <2>8. PacketsAreRegistered'
    <3>1. \A i \in HandleSlot : LiveSlot(handles'[i]) => i \notin gone /\ handles'[i] = handles[i]
      <4>1. \A i \in gone : handles'[i].state = "Expired"
        BY <2>2, ReleasedHolds DEF RawInv, RawTypeOK, RawSlot, HandleState
      <4> QED BY <2>2, <4>1 DEF LiveSlot
    <3>2. \A i \in HandleSlot : LiveSlot(handles'[i]) =>
            /\ LiveSlot(handles[i]) /\ handles'[i] = handles[i]
            /\ handles[i].packet.usage \in Usage /\ handles[i].packet.usage # usage
      BY <3>1 DEF RawInv, RawTypeOK, RawSlot
    <3> QED BY <2>1, <3>2 DEF RawInv, RawTypeOK, PacketsAreRegistered
  <2> QED
    BY <1>1, <2>3, <2>5, <2>6, <2>7, <2>8
       DEF RawInv, RawTypeOK, RawSlot, FocusIsOnTarget, keyVars, windowStateVars
<1> QED BY <1>2, <1>3

LEMMA ScannedHolds ==
  ASSUME RawTypeOK, TokensHold, NEW upTo
  PROVE  /\ Scanned(upTo) \in [HandleSlot -> RawSlot]
         /\ \A i \in HandleSlot :
              /\ i <= upTo => Scanned(upTo)[i] = Reused(handles[i])
              /\ LiveSlot(Scanned(upTo)[i]) <=> LiveSlot(handles[i])
              /\ LiveSlot(handles[i]) => Scanned(upTo)[i] = handles[i]
              /\ \A t \in RawToken :
                   t.slot = i /\ t.generation > Scanned(upTo)[i].generation => tokenInput[t] = 0
              /\ Scanned(upTo)[i].state = "Free" =>
                   tokenInput[[slot |-> i, generation |-> Scanned(upTo)[i].generation]] = 0
<1>1. \A i \in HandleSlot :
        /\ handles[i] \in RawSlot /\ Reused(handles[i]) \in RawSlot
        /\ Scanned(upTo)[i] = IF i <= upTo THEN Reused(handles[i]) ELSE handles[i]
  BY ReusedHolds DEF RawTypeOK, RawSlot, Scanned
<1>2. Scanned(upTo) \in [HandleSlot -> RawSlot]  BY <1>1 DEF Scanned
<1>3. ASSUME NEW i \in HandleSlot, NEW slot \in {handles[i], Reused(handles[i])}
      PROVE  /\ LiveSlot(slot) <=> LiveSlot(handles[i])
             /\ LiveSlot(handles[i]) => slot = handles[i]
             /\ \A t \in RawToken : t.slot = i /\ t.generation > slot.generation => tokenInput[t] = 0
             /\ slot.state = "Free" => tokenInput[[slot |-> i, generation |-> slot.generation]] = 0
  <2>1. handles[i].generation \in Nat /\ \A t \in RawToken : t.generation \in Nat
    BY <1>1, HandleSlots DEF RawSlot, RawToken
  <2>2. CASE slot = handles[i]
    BY <2>2 DEF TokensHold, TokensAhead, TokenOf
  <2>3. CASE slot # handles[i]
    <3>1. /\ handles[i].state \in {"Consumed", "Expired"} /\ slot = Reused(handles[i])
          /\ \/ slot.state = "Retired" /\ slot.generation = handles[i].generation
             \/ slot.state = "Free" /\ slot.generation = handles[i].generation + 1
      BY <1>1, <2>3, ReusedHolds
    <3>2. \A t \in RawToken : t.slot = i /\ t.generation > handles[i].generation => tokenInput[t] = 0
      BY DEF TokensHold, TokensAhead
    <3>3. ~LiveSlot(slot) /\ ~LiveSlot(handles[i])  BY <3>1 DEF LiveSlot
    <3>4. \A t \in RawToken : t.slot = i /\ t.generation > slot.generation => tokenInput[t] = 0
      BY <2>1, <3>1, <3>2
    <3>5. slot.state = "Free" => tokenInput[[slot |-> i, generation |-> slot.generation]] = 0
      <4>1. [slot |-> i, generation |-> slot.generation] \in RawToken
        BY <1>1, <3>1 DEF RawSlot, RawToken
      <4> QED BY <2>1, <3>1, <3>2, <4>1
    <3> QED BY <3>3, <3>4, <3>5
  <2> QED BY <2>2, <2>3
<1>4. \A i \in HandleSlot : Scanned(upTo)[i] \in {handles[i], Reused(handles[i])}  BY <1>1
<1>5. \A i \in HandleSlot : i <= upTo => Scanned(upTo)[i] = Reused(handles[i])  BY <1>1
<1> QED BY <1>2, <1>3, <1>4, <1>5

LEMMA FirstFreeHolds ==
  ASSUME RawTypeOK, FreeSlots # {}
  PROVE  FirstFree \in FreeSlots /\ FirstFree \in Nat
<1>1. FreeSlots \in SUBSET Nat  BY HandleSlots DEF FreeSlots
<1>2. \E i \in FreeSlots : \A j \in FreeSlots : i <= j  BY <1>1, LeastOf
<1> QED BY <1>1, <1>2 DEF FirstFree

LEMMA RangeOfAppended ==
  ASSUME NEW S, NEW q \in Seq(S), NEW x \in S
  PROVE  /\ Append(q, x) \in Seq(S) /\ ToSet(Append(q, x)) = ToSet(q) \cup {x}
         /\ IsInjective(q) /\ x \notin ToSet(q) => IsInjective(Append(q, x))
<1>1. Append(q, x) \in Seq(S) /\ Len(Append(q, x)) = Len(q) + 1
      /\ Append(q, x)[Len(q) + 1] = x /\ \A i \in 1..Len(q) : Append(q, x)[i] = q[i]
  OBVIOUS
<1>2. DOMAIN Append(q, x) = 1..(Len(q) + 1) /\ DOMAIN q = 1..Len(q) /\ Len(q) \in Nat
  BY <1>1
<1>3. 1..(Len(q) + 1) = 1..Len(q) \cup {Len(q) + 1}  BY <1>2
<1> HIDE DEF Append
<1> QED BY <1>1, <1>2, <1>3 DEF ToSet, IsInjective

LEMMA EnqueueHolds ==
  ASSUME RawInv, NEW sequence \in 1..MaxSequence, NEW usage \in Usage,
         Enqueue(sequence, usage), UNCHANGED usageWindow
  PROVE  /\ handles' \in [HandleSlot -> RawSlot]
         /\ rawQueue' \in Seq(RawToken) /\ pending' \in Seq(RawToken)
         /\ tokenInput' \in [RawToken -> 0..MaxSequence]
         /\ TokensHold' /\ PacketsAreRegistered'
<1>0. /\ handles \in [HandleSlot -> RawSlot] /\ RawTypeOK /\ TokensHold /\ PacketsAreRegistered
      /\ rawQueue \in Seq(RawToken) /\ pending \in Seq(RawToken)
      /\ tokenInput \in [RawToken -> 0..MaxSequence]
  BY DEF RawInv, RawTypeOK, RawSlot
<1>1. CASE ~rawMode.enabled \/ rawMode.stopping \/ usageWindow[usage] = Unregistered0
  <2>1. UNCHANGED <<handles, rawQueue, pending, tokenInput>>  BY <1>1 DEF Enqueue
  <2> QED BY <1>0, <2>1, TokensStay, PacketsStay
<1> DEFINE taken == rawMode.enabled /\ ~rawMode.stopping /\ usageWindow[usage] # Unregistered0
<1>2. CASE taken /\ FreeSlots = {}
  <2>1. /\ handles' = Scanned(Cardinality(HandleSlot))
        /\ UNCHANGED <<rawQueue, pending, tokenInput>>
    BY <1>2 DEF Enqueue
  <2>2. /\ handles' \in [HandleSlot -> RawSlot]
        /\ \A i \in HandleSlot :
              /\ LiveSlot(handles'[i]) <=> LiveSlot(handles[i])
              /\ LiveSlot(handles[i]) => handles'[i] = handles[i]
              /\ \A t \in RawToken :
                   t.slot = i /\ t.generation > handles'[i].generation => tokenInput[t] = 0
              /\ handles'[i].state = "Free" =>
                   tokenInput[[slot |-> i, generation |-> handles'[i].generation]] = 0
    BY <1>0, <2>1, ScannedHolds
  <2>3. TokensAhead'  BY <2>1, <2>2 DEF TokensAhead, TokenOf
  <2>4. TokensAreNotReused'
    BY <1>0, <2>1, <2>2 DEF TokensHold, TokensAreNotReused, TokenOf
  <2>5. QueueHolds'
    <3>1. \A t \in RawToken : t.slot \in HandleSlot  BY DEF RawToken
    <3>2. \A t \in RawToken : Resolves(t)' <=> Resolves(t)
      BY <2>2, <3>1 DEF Resolves
    <3> QED BY <1>0, <2>1, <3>2 DEF TokensHold, QueueHolds
  <2>6. PacketsAreRegistered'  BY <1>0, <2>2 DEF PacketsAreRegistered
  <2> QED BY <1>0, <2>1, <2>2, <2>3, <2>4, <2>5, <2>6 DEF TokensHold
<1>3. CASE taken /\ FreeSlots # {}
  <2> DEFINE i == FirstFree
             slot == Reused(handles[i])
             token == [slot |-> i, generation |-> slot.generation]
             packet == [input |-> sequence, usage |-> usage,
                        registration |-> usageWindow[usage].generation]
             full == Len(rawQueue) >= MaxQueue \/ Len(pending) >= MaxQueue
             next == IF full THEN Released(slot, "Expired")
                     ELSE [slot EXCEPT !.state = "Allocated", !.packet = packet]
  <2>1. /\ handles' = [Scanned(i) EXCEPT ![i] = next]
        /\ rawQueue' = IF full THEN rawQueue ELSE Append(rawQueue, token)
        /\ pending' = IF full THEN pending ELSE Append(pending, token)
        /\ tokenInput' = [tokenInput EXCEPT ![token] = IF @ = 0 THEN sequence ELSE @]
    BY <1>3 DEF Enqueue
  <2>2. i \in HandleSlot /\ i \in Nat /\ slot.state = "Free" /\ slot \in RawSlot
    <3>1. i \in FreeSlots /\ i \in Nat  BY <1>0, <1>3, FirstFreeHolds
    <3> QED BY <1>0, <3>1, ReusedHolds DEF FreeSlots
  <2>3. packet \in [input : 0..MaxSequence, usage : Usage, registration : 0..MaxRegistrations]
    BY HandleSlots DEF RawInv, RawTypeOK
  <2> HIDE DEF full
  <2>4. /\ next \in RawSlot /\ next.generation = slot.generation
        /\ full => next.state = "Expired"
        /\ ~full => next.state = "Allocated" /\ next.packet = packet
    <3>1. CASE full
      <4>1. "Expired" \in HandleState  BY DEF HandleState
      <4> QED BY <2>2, <3>1, <4>1, ReleasedHolds
    <3>2. CASE ~full
      <4> HIDE DEF slot, packet
      <4>1. slot = [state |-> slot.state, generation |-> slot.generation, packet |-> slot.packet]
        BY <2>2 DEF RawSlot
      <4>2. next = [slot EXCEPT !.state = "Allocated", !.packet = packet]  BY <3>2
      <4>3. next = [state |-> "Allocated", generation |-> slot.generation, packet |-> packet]
        BY <4>1, <4>2
      <4> QED BY <2>2, <2>3, <3>2, <4>3 DEF RawSlot, HandleState
    <3> QED BY <3>1, <3>2
  <2>5. token \in RawToken  BY <2>2 DEF RawSlot, RawToken
  <2>6. Scanned(i)[i] = slot /\ ~LiveSlot(slot)
    <3>1. ~LiveSlot(slot)
      <4> HIDE DEF slot
      <4> QED BY <2>2 DEF LiveSlot
    <3>2. i <= i  BY <2>2
    <3> HIDE DEF i
    <3>3. Scanned(i)[i] = Reused(handles[i])  BY <1>0, <2>2, <3>2, ScannedHolds
    <3> QED BY <3>1, <3>3
  <2>7. ~LiveSlot(handles[i]) /\ tokenInput[token] = 0 /\ ~Resolves(token)
    BY <1>0, <2>2, <2>6, ScannedHolds DEF Resolves
  <2> HIDE DEF i, slot, token, packet, next
  <2>8. /\ token.slot = i /\ token.generation = slot.generation
        /\ packet.input = sequence /\ packet.usage = usage
        /\ packet.registration = usageWindow[usage].generation
    BY DEF token, packet
  <2>9. /\ handles' \in [HandleSlot -> RawSlot] /\ handles'[i] = next
        /\ \A h \in HandleSlot : h # i => handles'[h] = Scanned(i)[h]
    BY <1>0, <2>1, <2>2, <2>4, ScannedHolds
  <2>10. /\ tokenInput' \in [RawToken -> 0..MaxSequence] /\ tokenInput'[token] = sequence
         /\ \A t \in RawToken : t # token => tokenInput'[t] = tokenInput[t]
    BY <1>0, <2>1, <2>5, <2>7, HandleSlots
  <2>11. \A t \in RawToken : t.slot = i /\ t.generation = slot.generation => t = token
    BY <2>8 DEF RawToken, token
  <2>12. \A h \in HandleSlot : h # i =>
              /\ LiveSlot(handles'[h]) <=> LiveSlot(handles[h])
              /\ LiveSlot(handles[h]) => handles'[h] = handles[h]
              /\ \A t \in RawToken :
                   t.slot = h /\ t.generation > handles'[h].generation => tokenInput[t] = 0
              /\ handles'[h].state = "Free" =>
                   tokenInput[[slot |-> h, generation |-> handles'[h].generation]] = 0
    BY <1>0, <2>9, ScannedHolds
  <2>13. \A t \in RawToken : t.slot = i /\ t.generation > slot.generation => tokenInput[t] = 0
    BY <1>0, <2>2, <2>6, ScannedHolds
  <2>14. TokensAhead'
    <3>1. ASSUME NEW h \in HandleSlot, NEW t \in RawToken, t.slot = h,
                 t.generation > handles'[h].generation
          PROVE  tokenInput'[t] = 0
      <4>1. t.generation \in Nat /\ slot.generation \in Nat  BY <2>2, HandleSlots DEF RawToken, RawSlot
      <4>2. CASE h = i
        <5>1. t.generation > slot.generation  BY <2>4, <2>9, <3>1, <4>2
        <5>2. t # token  BY <2>8, <4>1, <5>1
        <5> QED BY <2>10, <2>13, <3>1, <4>2, <5>1, <5>2
      <4>3. CASE h # i
        <5>1. t # token  BY <2>8, <3>1, <4>3
        <5> QED BY <2>10, <2>12, <3>1, <4>3, <5>1
      <4> QED BY <4>2, <4>3
    <3>2. ASSUME NEW h \in HandleSlot, handles'[h].state = "Free"
          PROVE  tokenInput'[[slot |-> h, generation |-> handles'[h].generation]] = 0
      <4>1. h # i  BY <2>4, <2>9, <3>2
      <4>2. [slot |-> h, generation |-> handles'[h].generation] \in RawToken
        BY <2>9 DEF RawSlot, RawToken
      <4>3. [slot |-> h, generation |-> handles'[h].generation] # token  BY <2>8, <4>1
      <4> QED BY <2>10, <2>12, <3>2, <4>1, <4>2, <4>3
    <3> QED BY <3>1, <3>2 DEF TokensAhead, TokenOf
  <2>15. TokensAreNotReused'
    <3>1. ASSUME NEW h \in HandleSlot, LiveSlot(handles'[h])
          PROVE  tokenInput'[[slot |-> h, generation |-> handles'[h].generation]]
                   = handles'[h].packet.input
      <4>1. CASE h = i
        <5>1. ~full  BY <2>4, <2>9, <3>1, <4>1 DEF LiveSlot
        <5> QED BY <2>4, <2>8, <2>9, <2>10, <4>1, <5>1 DEF token
      <4>2. CASE h # i
        <5>1. LiveSlot(handles[h]) /\ handles'[h] = handles[h]  BY <2>12, <3>1, <4>2
        <5>2. [slot |-> h, generation |-> handles[h].generation] \in RawToken
          BY <1>0 DEF RawSlot, RawToken
        <5>3. [slot |-> h, generation |-> handles[h].generation] # token  BY <2>8, <4>2
        <5> QED
          BY <1>0, <2>10, <5>1, <5>2, <5>3 DEF TokensHold, TokensAreNotReused, TokenOf
      <4> QED BY <4>1, <4>2
    <3> QED BY <3>1 DEF TokensAreNotReused, TokenOf
  <2>16. QueueHolds' /\ rawQueue' \in Seq(RawToken) /\ pending' \in Seq(RawToken)
    <3>1. \A t \in RawToken : t.slot \in HandleSlot  BY DEF RawToken
    <3>2. token \notin ToSet(rawQueue)  BY <1>0, <2>5, <2>7 DEF TokensHold, QueueHolds
    <3>3. CASE full
      <4>1. \A t \in RawToken : Resolves(t)' <=> Resolves(t)
        <5>1. ~LiveSlot(handles'[i])  BY <2>4, <2>9, <3>3 DEF LiveSlot
        <5> QED BY <2>7, <2>12, <3>1, <5>1 DEF Resolves
      <4> QED BY <1>0, <2>1, <3>3, <4>1 DEF TokensHold, QueueHolds
    <3>4. CASE ~full
      <4>1. \A t \in RawToken : Resolves(t)' <=> Resolves(t) \/ t = token
        <5>1. LiveSlot(handles'[i]) /\ handles'[i].generation = slot.generation
          BY <2>4, <2>9, <3>4 DEF LiveSlot
        <5> QED BY <2>7, <2>8, <2>11, <2>12, <3>1, <5>1 DEF Resolves
      <4>2. rawQueue' = Append(rawQueue, token) /\ pending' = Append(pending, token)
        BY <2>1, <3>4
      <4> QED
        BY <1>0, <2>5, <3>2, <4>1, <4>2, RangeOfAppended DEF TokensHold, QueueHolds
    <3> QED BY <3>3, <3>4
  <2>17. PacketsAreRegistered'
    <3>1. ASSUME NEW h \in HandleSlot, LiveSlot(handles'[h])
          PROVE  handles'[h].packet.registration = usageWindow[handles'[h].packet.usage].generation
      <4>1. CASE h = i
        <5>1. ~full  BY <2>4, <2>9, <3>1, <4>1 DEF LiveSlot
        <5> QED BY <2>4, <2>8, <2>9, <4>1, <5>1
      <4>2. CASE h # i
        BY <1>0, <2>12, <3>1, <4>2 DEF PacketsAreRegistered
      <4> QED BY <4>1, <4>2
    <3> QED BY <3>1 DEF PacketsAreRegistered
  <2> QED BY <2>9, <2>10, <2>14, <2>15, <2>16, <2>17 DEF TokensHold
<1> QED BY <1>1, <1>2, <1>3

LEMMA ApplyInputSteps ==
  ASSUME RawInv, NEW sequence \in 1..MaxSequence, NEW usage \in Usage, NEW down \in BOOLEAN,
         ApplyInput(sequence, usage, down)
  PROVE  RawInv'
<1>1. /\ lastInput' = sequence /\ Enqueue(sequence, usage)
      /\ keyDown' \in {down, keyDown} /\ keyEdge' \in BOOLEAN
      /\ UNCHANGED <<windowStateVars, rawMode, usageWindow, registrations, posting>>
  BY DEF ApplyInput, RawInv, RawTypeOK
<1>2. /\ handles' \in [HandleSlot -> RawSlot]
      /\ rawQueue' \in Seq(RawToken) /\ pending' \in Seq(RawToken)
      /\ tokenInput' \in [RawToken -> 0..MaxSequence]
      /\ TokensHold' /\ PacketsAreRegistered'
  BY <1>1, EnqueueHolds
<1>3. lastInput' \in 0..MaxSequence /\ keyDown' \in BOOLEAN
  BY <1>1, HandleSlots DEF RawInv, RawTypeOK
<1> QED
  BY <1>1, <1>2, <1>3 DEF RawInv, RawTypeOK, RawSlot, FocusIsOnTarget, windowStateVars

(* One token's packet is gone, and the token from the queue.                  *)
LEMMA TokenGone ==
  ASSUME RawTypeOK, TokensHold, PacketsAreRegistered,
         NEW token \in RawToken, Resolves(token), NEW state \in {"Consumed", "Expired"},
         handles' = [handles EXCEPT ![token.slot] = Released(@, state)],
         rawQueue' = KeptOf(rawQueue, RawToken \ {token}), UNCHANGED <<tokenInput, usageWindow>>
  PROVE  /\ handles' \in [HandleSlot -> RawSlot] /\ rawQueue' \in Seq(RawToken)
         /\ TokensHold' /\ PacketsAreRegistered'
<1>1. token.slot \in HandleSlot /\ handles \in [HandleSlot -> RawSlot]
      /\ state \in HandleState /\ rawQueue \in Seq(RawToken)
  BY DEF RawToken, RawTypeOK, RawSlot, HandleState
<1>2. handles' = [i \in HandleSlot |->
                    IF i \in {token.slot} THEN Released(handles[i], state) ELSE handles[i]]
  BY <1>1
<1>3. /\ rawQueue' \in Seq(RawToken) /\ IsInjective(rawQueue')
      /\ ToSet(rawQueue') = ToSet(rawQueue) \cap (RawToken \ {token})
  BY <1>1, KeptHolds DEF TokensHold, QueueHolds
<1>4. \A t \in RawToken : t \in ToSet(rawQueue) /\ t.slot = token.slot => t = token
  <2>1. \A t \in RawToken : t \in ToSet(rawQueue) => t.generation = handles[t.slot].generation
    BY DEF TokensHold, QueueHolds, Resolves
  <2>2. token.generation = handles[token.slot].generation  BY DEF Resolves
  <2>3. \A t \in RawToken : t = [slot |-> t.slot, generation |-> t.generation]  BY DEF RawToken
  <2> QED BY <2>1, <2>2, <2>3
<1>5. \A t \in RawToken :
        t \in ToSet(rawQueue') <=> t \in ToSet(rawQueue) /\ t.slot \notin {token.slot}
  BY <1>3, <1>4
<1>6. {token.slot} \in SUBSET HandleSlot  BY <1>1
<1>7. handles' \in [HandleSlot -> RawSlot] /\ TokensHold'
  BY <1>2, <1>3, <1>5, <1>6, GoneHolds
<1>8. \A h \in HandleSlot : LiveSlot(handles'[h]) => handles'[h] = handles[h]
  <2>1. handles'[token.slot].state = state  BY <1>1, <1>2, ReleasedHolds
  <2> QED BY <1>2, <2>1 DEF LiveSlot
<1>9. PacketsAreRegistered'  BY <1>8 DEF PacketsAreRegistered
<1> QED BY <1>3, <1>7, <1>9

LEMMA CompleteSteps ==
  ASSUME RawInv, NEW token \in posting, NEW posted \in BOOLEAN, CompleteDelivery(token, posted)
  PROVE  RawInv'
<1> DEFINE current == usageWindow[Packet(token).usage].generation = Packet(token).registration
<1>1. /\ posting' \subseteq posting
      /\ UNCHANGED <<keyVars, windowStateVars, rawMode, usageWindow, registrations,
                     pending, tokenInput>>
  BY DEF CompleteDelivery
<1>2. token \in RawToken /\ token.slot \in HandleSlot  BY DEF RawInv, RawTypeOK, RawToken
<1>3. /\ handles \in [HandleSlot -> RawSlot] /\ RawTypeOK /\ TokensHold /\ PacketsAreRegistered
      /\ rawQueue \in Seq(RawToken)
  BY DEF RawInv, RawTypeOK, RawSlot
<1>4. handles' \in [HandleSlot -> RawSlot] /\ rawQueue' \in Seq(RawToken)
      /\ TokensHold' /\ PacketsAreRegistered'
  <2>1. CASE ~rawMode.enabled \/ ~Resolves(token)
    <3>1. UNCHANGED <<handles, rawQueue>>  BY <2>1 DEF CompleteDelivery
    <3> QED BY <1>1, <1>3, <3>1, TokensStay, PacketsStay
  <2>2. CASE rawMode.enabled /\ Resolves(token) /\ current /\ posted
    <3>1. /\ UNCHANGED rawQueue
          /\ handles' = [handles EXCEPT ![token.slot].state =
                 IF @ = "Allocated" THEN "Delivered" ELSE @]
      BY <2>2 DEF CompleteDelivery
    <3> DEFINE i == token.slot
    <3>2. /\ handles' \in [HandleSlot -> RawSlot]
          /\ \A h \in HandleSlot : h # i => handles'[h] = handles[h]
          /\ handles'[i].state \in {"Allocated", "Delivered"} /\ LiveSlot(handles[i])
          /\ handles'[i].generation = handles[i].generation
          /\ handles'[i].packet = handles[i].packet
      BY <1>2, <1>3, <2>2, <3>1 DEF RawSlot, HandleState, Resolves, LiveSlot
    <3> HIDE DEF i
    <3>3. \A h \in HandleSlot :
            /\ LiveSlot(handles'[h]) <=> LiveSlot(handles[h])
            /\ handles'[h].generation = handles[h].generation
            /\ handles'[h].packet = handles[h].packet
            /\ handles'[h].state = "Free" <=> handles[h].state = "Free"
      BY <3>2 DEF LiveSlot
    <3>4. TokensAhead' /\ TokensAreNotReused' /\ PacketsAreRegistered'
      BY <1>1, <1>3, <3>3
         DEF TokensHold, TokensAhead, TokensAreNotReused, TokenOf, PacketsAreRegistered
    <3>5. QueueHolds'
      <4>1. \A t \in RawToken : t.slot \in HandleSlot  BY DEF RawToken
      <4> QED BY <1>3, <3>1, <3>3, <4>1 DEF TokensHold, QueueHolds, Resolves
    <3> QED BY <1>3, <3>1, <3>2, <3>4, <3>5 DEF TokensHold
  <2>3. CASE rawMode.enabled /\ Resolves(token) /\ ~(current /\ posted)
    <3>1. /\ handles' = [handles EXCEPT ![token.slot] = Released(@, "Expired")]
          /\ rawQueue' = KeptOf(rawQueue, RawToken \ {token})
      BY <2>3 DEF CompleteDelivery
    <3> QED BY <1>1, <1>2, <1>3, <2>3, <3>1, TokenGone
  <2> QED BY <2>1, <2>2, <2>3
<1> QED
  BY <1>1, <1>4 DEF RawInv, RawTypeOK, RawSlot, FocusIsOnTarget, keyVars, windowStateVars

LEMMA ReadSteps ==
  ASSUME RawInv, ReadBuffer \/ \E token \in RawToken : ReadData(token)
  PROVE  RawInv'
<1>1. UNCHANGED <<keyVars, windowStateVars, rawMode, usageWindow, registrations,
                  pending, posting, tokenInput>>
  BY DEF ReadBuffer, ReadData
<1>2. /\ handles \in [HandleSlot -> RawSlot] /\ RawTypeOK /\ TokensHold /\ PacketsAreRegistered
  BY DEF RawInv, RawTypeOK, RawSlot
<1>3. handles' \in [HandleSlot -> RawSlot] /\ rawQueue' \in Seq(RawToken)
      /\ TokensHold' /\ PacketsAreRegistered'
  <2>1. ASSUME NEW token \in RawToken, ReadData(token)
        PROVE  handles' \in [HandleSlot -> RawSlot] /\ rawQueue' \in Seq(RawToken)
               /\ TokensHold' /\ PacketsAreRegistered'
    <3>1. /\ Resolves(token)
          /\ handles' = [handles EXCEPT ![token.slot] = Released(@, "Consumed")]
          /\ rawQueue' = KeptOf(rawQueue, RawToken \ {token})
      BY <2>1 DEF ReadData
    <3> QED BY <1>1, <1>2, <3>1, TokenGone
  <2>2. CASE ReadBuffer
    <3> DEFINE gone == {i \in HandleSlot : TokenOf(i) \in ToSet(rawQueue)}
    <3>1. /\ handles' = [i \in HandleSlot |->
                IF i \in gone THEN Released(handles[i], "Consumed") ELSE handles[i]]
          /\ rawQueue' = <<>>
      BY <2>2 DEF ReadBuffer
    <3>2. rawQueue' \in Seq(RawToken) /\ IsInjective(rawQueue') /\ ToSet(rawQueue') = {}
      BY <3>1 DEF IsInjective, ToSet
    <3>3. \A t \in RawToken : t \in ToSet(rawQueue) => t.slot \in gone
      <4>1. ASSUME NEW t \in RawToken, t \in ToSet(rawQueue) PROVE t.slot \in gone
        <5>1. t.generation = handles[t.slot].generation /\ t.slot \in HandleSlot
          BY <1>2, <4>1 DEF TokensHold, QueueHolds, Resolves, RawToken
        <5>2. t = [slot |-> t.slot, generation |-> t.generation]  BY DEF RawToken
        <5> QED BY <4>1, <5>1, <5>2 DEF TokenOf
      <4> QED BY <4>1
    <3>4. handles' \in [HandleSlot -> RawSlot] /\ TokensHold'
      BY <1>1, <1>2, <3>1, <3>2, <3>3, GoneHolds
    <3>5. \A h \in HandleSlot : ~LiveSlot(handles'[h])
      <4>1. ASSUME NEW h \in HandleSlot, LiveSlot(handles'[h]) PROVE FALSE
        <5>1. [slot |-> h, generation |-> handles'[h].generation] \in RawToken
          BY <3>4 DEF RawSlot, RawToken
        <5> QED BY <3>2, <3>4, <4>1, <5>1 DEF TokensHold, QueueHolds, Resolves
      <4> QED BY <4>1
    <3> QED BY <3>2, <3>4, <3>5 DEF PacketsAreRegistered
  <2> QED BY <2>1, <2>2
<1> QED
  BY <1>1, <1>3 DEF RawInv, RawTypeOK, RawSlot, FocusIsOnTarget, keyVars, windowStateVars

LEMMA ResetHolds ==
  ASSUME RawInv, ResetStream
  PROVE  /\ handles' \in [HandleSlot -> RawSlot] /\ rawQueue' \in Seq(RawToken)
         /\ pending' \in Seq(RawToken) /\ rawMode' \in [enabled : BOOLEAN, stopping : BOOLEAN]
         /\ usageWindow' \in [Usage -> [generation : 0..MaxRegistrations, window : WindowOrNone]]
         /\ registrations' \in 0..MaxRegistrations
         /\ TokensHold' /\ PacketsAreRegistered'
<1>1. /\ rawMode' = [enabled |-> FALSE, stopping |-> TRUE]
      /\ handles' = ResetTable /\ rawQueue' = <<>> /\ pending' = <<>>
      /\ usageWindow' = [u \in Usage |-> Unregistered0] /\ registrations' = 0
      /\ UNCHANGED <<posting, tokenInput>>
  BY DEF ResetStream
<1>2. /\ handles \in [HandleSlot -> RawSlot] /\ TokensHold
  BY DEF RawInv, RawTypeOK, RawSlot
<1>3. ASSUME NEW i \in HandleSlot
      PROVE  /\ handles'[i] \in RawSlot
             /\ \/ handles'[i].state = "Retired" /\ handles'[i].generation = handles[i].generation
                \/ handles'[i].state = "Free" /\ handles'[i].generation = handles[i].generation + 1
  <2> DEFINE slot == handles[i]
             free == Released(slot, "Free")
  <2>1. slot \in RawSlot /\ slot.generation \in Nat  BY <1>2, HandleSlots DEF RawSlot
  <2>2. handles'[i] = IF slot.state = "Retired" THEN slot
                      ELSE IF slot.generation >= MaxTokenGeneration THEN Released(slot, "Retired")
                      ELSE [free EXCEPT !.generation = @ + 1]
    BY <1>1 DEF ResetTable
  <2> HIDE DEF slot
  <2>3. "Free" \in HandleState /\ "Retired" \in HandleState  BY DEF HandleState
  <2>4. CASE slot.state = "Retired"  BY <2>1, <2>2, <2>4 DEF slot
  <2>5. CASE slot.state # "Retired" /\ slot.generation >= MaxTokenGeneration
    BY <2>1, <2>2, <2>3, <2>5, ReleasedHolds DEF slot
  <2>6. CASE slot.state # "Retired" /\ ~(slot.generation >= MaxTokenGeneration)
    <3>1. free \in RawSlot /\ free.state = "Free" /\ free.generation = slot.generation
      BY <2>1, <2>3, ReleasedHolds
    <3>2. handles'[i] = [free EXCEPT !.generation = @ + 1]  BY <2>2, <2>6
    <3> HIDE DEF free
    <3>3. slot.generation + 1 \in 1..MaxTokenGeneration  BY <2>1, <2>6, HandleSlots
    <3>4. /\ handles'[i] \in RawSlot /\ handles'[i].state = "Free"
          /\ handles'[i].generation = slot.generation + 1
      BY <3>1, <3>2, <3>3 DEF RawSlot
    <3> QED BY <3>4 DEF slot
  <2> QED BY <2>4, <2>5, <2>6
<1>4. handles' \in [HandleSlot -> RawSlot]  BY <1>1, <1>3 DEF ResetTable
<1>5. \A i \in HandleSlot : ~LiveSlot(handles'[i])  BY <1>3 DEF LiveSlot
<1>6. TokensAhead'
  <2>1. \A i \in HandleSlot : handles[i].generation \in Nat
    BY <1>2, HandleSlots DEF RawSlot
  <2>2. \A t \in RawToken : t.generation \in Nat  BY HandleSlots DEF RawToken
  <2>3. ASSUME NEW i \in HandleSlot, NEW t \in RawToken, t.slot = i,
               t.generation > handles'[i].generation
        PROVE  tokenInput'[t] = 0
    <3>1. t.generation > handles[i].generation  BY <1>3, <2>1, <2>2, <2>3
    <3> QED BY <1>1, <1>2, <2>3, <3>1 DEF TokensHold, TokensAhead
  <2>4. ASSUME NEW i \in HandleSlot, handles'[i].state = "Free"
        PROVE  tokenInput'[[slot |-> i, generation |-> handles'[i].generation]] = 0
    <3>1. [slot |-> i, generation |-> handles'[i].generation] \in RawToken
      BY <1>3 DEF RawSlot, RawToken
    <3>2. handles'[i].generation > handles[i].generation  BY <1>3, <2>1, <2>4
    <3> QED BY <1>1, <1>2, <3>1, <3>2 DEF TokensHold, TokensAhead
  <2> QED BY <2>3, <2>4 DEF TokensAhead, TokenOf
<1>7. TokensAreNotReused' /\ PacketsAreRegistered'
  BY <1>5 DEF TokensAreNotReused, PacketsAreRegistered
<1>8. QueueHolds'
  <2>1. ToSet(rawQueue') = {} /\ IsInjective(rawQueue')  BY <1>1 DEF ToSet, IsInjective
  <2>2. \A t \in RawToken : t.slot \in HandleSlot  BY DEF RawToken
  <2> QED BY <1>5, <2>1, <2>2 DEF QueueHolds, Resolves
<1>9. /\ Unregistered0 \in [generation : 0..MaxRegistrations, window : WindowOrNone]
      /\ 0 \in 0..MaxRegistrations
  BY HandleSlots DEF Unregistered0, WindowOrNone
<1> QED BY <1>1, <1>4, <1>6, <1>7, <1>8, <1>9 DEF TokensHold

LEMMA RawSteps ==
  ASSUME RawInv, [RawStreamNext \/ KeyAndWindowNext]_rawVars
  PROVE  RawInv'
<1>1. CASE AdapterReset
  <2>1. ResetStream /\ lastInput' = 0 /\ keyDown' = FALSE /\ keyEdge' = FALSE
        /\ targetWindow' = NoWindow /\ logicalFocus' = NoWindow /\ captureWindow' = NoWindow
        /\ UNCHANGED <<posting, tokenInput>>
    BY <1>1 DEF AdapterReset, ResetStream
  <2>2. 0 \in 0..MaxSequence  BY HandleSlots
  <2> QED
    BY <2>1, <2>2, ResetHolds DEF RawInv, RawTypeOK, RawSlot, FocusIsOnTarget, WindowOrNone
<1>2. CASE RawReset
  <2>1. ResetStream /\ UNCHANGED <<posting, tokenInput, keyVars, windowStateVars>>
    BY <1>2 DEF RawReset, ResetStream
  <2> QED
    BY <2>1, ResetHolds
       DEF RawInv, RawTypeOK, RawSlot, FocusIsOnTarget, keyVars, windowStateVars
<1>3. CASE RawConfigure \/ TakeDelivery \/ RawBeginStopping
  <2>1. /\ UNCHANGED <<keyVars, windowStateVars, usageWindow, registrations, handles,
                       rawQueue, tokenInput>>
        /\ rawMode' \in [enabled : BOOLEAN, stopping : BOOLEAN]
    <3>1. rawMode \in [enabled : BOOLEAN, stopping : BOOLEAN]  BY DEF RawInv, RawTypeOK
    <3>2. CASE RawConfigure  BY <3>2 DEF RawConfigure
    <3>3. CASE TakeDelivery  BY <3>1, <3>3 DEF TakeDelivery
    <3>4. CASE RawBeginStopping  BY <3>1, <3>4 DEF RawBeginStopping
    <3> QED BY <1>3, <3>2, <3>3, <3>4
  <2>2. pending' \in Seq(RawToken) /\ posting' \subseteq RawToken
    <3>1. pending \in Seq(RawToken) /\ posting \subseteq RawToken  BY DEF RawInv, RawTypeOK
    <3>2. pending # <<>> => Head(pending) \in RawToken /\ Tail(pending) \in Seq(RawToken)
      BY <3>1
    <3>3. <<>> \in Seq(RawToken)  OBVIOUS
    <3> QED BY <1>3, <3>1, <3>2, <3>3 DEF RawConfigure, TakeDelivery, RawBeginStopping
  <2> QED
    BY <2>1, <2>2, TokensStay, PacketsStay
       DEF RawInv, RawTypeOK, FocusIsOnTarget, keyVars, windowStateVars
<1>4. ASSUME NEW sequence \in 1..MaxSequence, NEW usage \in Usage, NEW down \in BOOLEAN,
             ApplyInput(sequence, usage, down)
      PROVE  RawInv'
  BY <1>4, ApplyInputSteps
<1>5. ASSUME NEW usage \in Usage, NEW window \in WindowOrNone, RawRegister(usage, window)
      PROVE  RawInv'
  BY <1>5, RegisterSteps
<1>6. ASSUME NEW token \in posting, NEW posted \in BOOLEAN, CompleteDelivery(token, posted)
      PROVE  RawInv'
  BY <1>6, CompleteSteps
<1>7. CASE ReadBuffer \/ \E token \in RawToken : ReadData(token)
  BY <1>7, ReadSteps
<1>8. ASSUME UNCHANGED streamVars, keyDown' \in BOOLEAN, keyEdge' \in BOOLEAN,
             lastInput' \in 0..MaxSequence, FocusIsOnTarget',
             {targetWindow', logicalFocus', captureWindow'} \subseteq WindowOrNone
      PROVE  RawInv'
  BY <1>8, TokensStay, PacketsStay DEF streamVars, RawInv, RawTypeOK
<1>9. CASE PollKey
  BY <1>8, <1>9 DEF PollKey, RawInv, RawTypeOK, windowStateVars, FocusIsOnTarget
<1>10. ASSUME NEW sequence \in 1..MaxSequence, NEW foreground \in BOOLEAN, NEW capture \in BOOLEAN,
              ApplyControl(sequence, foreground, capture)
       PROVE  RawInv'
  <2>1. lastInput' \in 0..MaxSequence  BY <1>10, HandleSlots DEF ApplyControl
  <2>2. FocusIsOnTarget'  BY <1>10 DEF ApplyControl, FocusIsOnTarget
  <2>3. {targetWindow', logicalFocus', captureWindow'} \subseteq WindowOrNone
    BY <1>10 DEF ApplyControl, RawInv, RawTypeOK, WindowOrNone
  <2> QED BY <1>8, <1>10, <2>1, <2>2, <2>3 DEF ApplyControl, RawInv, RawTypeOK
<1>11. ASSUME NEW w \in RawWindow, NEW focused \in BOOLEAN, NEW captured \in BOOLEAN,
              ConfigureWindows(w, focused, captured)
       PROVE  RawInv'
  BY <1>8, <1>11 DEF ConfigureWindows, RawInv, RawTypeOK, WindowOrNone, FocusIsOnTarget, keyVars
<1>12. ASSUME NEW w \in RawWindow, InvalidateWindow(w) PROVE RawInv'
  BY <1>8, <1>12 DEF InvalidateWindow, RawInv, RawTypeOK, WindowOrNone, FocusIsOnTarget, keyVars
<1>13. ASSUME NEW w \in WindowOrNone, SetCapture(w) PROVE RawInv'
  BY <1>8, <1>13 DEF SetCapture, RawInv, RawTypeOK, FocusIsOnTarget, keyVars
<1>14. CASE UNCHANGED rawVars
  BY <1>8, <1>14 DEF rawVars, streamVars, RawInv, RawTypeOK, FocusIsOnTarget
<1> QED
  BY <1>1, <1>2, <1>3, <1>4, <1>5, <1>6, <1>7, <1>9, <1>10, <1>11, <1>12, <1>13, <1>14
     DEF RawStreamNext, KeyAndWindowNext, SharedNext

LEMMA RawSuffices == RawInv => RawTypeOK /\ RawInputIsExact
<1> SUFFICES ASSUME RawInv PROVE RawTypeOK /\ RawInputIsExact  OBVIOUS
<1>1. \A i \in HandleSlot : TokenOf(i) \in RawToken /\ handles[i] \in RawSlot
  BY DEF RawInv, RawTypeOK, RawSlot, TokenOf, RawToken
<1>2. rawQueue \in Seq(RawToken) /\ ToSet(rawQueue) \subseteq RawToken
  BY DEF RawInv, RawTypeOK, ToSet
<1>3. ToSet(rawQueue) = {TokenOf(i) : i \in {j \in HandleSlot : LiveSlot(handles[j])}}
  <2>1. ASSUME NEW t \in ToSet(rawQueue)
        PROVE  t \in {TokenOf(i) : i \in {j \in HandleSlot : LiveSlot(handles[j])}}
    <3>1. t \in RawToken /\ Resolves(t)  BY <1>2, <2>1 DEF RawInv, TokensHold, QueueHolds
    <3>2. t.slot \in HandleSlot /\ t = [slot |-> t.slot, generation |-> t.generation]
      BY <3>1 DEF RawToken
    <3>3. LiveSlot(handles[t.slot]) /\ t = TokenOf(t.slot)
      BY <3>1, <3>2 DEF Resolves, TokenOf
    <3> QED BY <3>2, <3>3
  <2>2. ASSUME NEW i \in HandleSlot, LiveSlot(handles[i]) PROVE TokenOf(i) \in ToSet(rawQueue)
    <3>1. Resolves(TokenOf(i))  BY <2>2 DEF Resolves, TokenOf
    <3> QED BY <1>1, <3>1 DEF RawInv, TokensHold, QueueHolds
  <2> QED BY <2>1, <2>2
<1> QED
  BY <1>3 DEF RawInv, TokensHold, QueueHolds, RawInputIsExact, QueueIsReadable

-----------------------------------------------------------------------------
(* The XInput slots of a game.                                             *)

SlotRecord ==
  [mapping : XMapping, connected : BOOLEAN, needsNew : BOOLEAN, pad : Pad,
   packet : 0..MaxXSequence, capable : {"unknown", "vibrates", "still"},
   battery : BOOLEAN, routes : {0, 1}]
ReadRecord == [mapping : XMapping, packet : 0..MaxXSequence, connected : BOOLEAN, pad : Pad]

(* A slot after n commands: only a mapped slot has had a generation, a slot  *)
(* that is not connected shows nothing, and one that has shown something     *)
(* waits for a new connection.                                              *)
SlotHolds(slot, n) ==
  /\ slot \in SlotRecord /\ slot.mapping.generation <= n /\ slot.packet <= n
  /\ slot.mapping.generation = 0 => slot.mapping.source = NoController
  /\ ~slot.connected => slot.pad = "rest" /\ slot.routes = 0
  /\ slot.needsNew => ~slot.connected
  /\ (~slot.connected /\ slot.packet > 0) => slot.needsNew

(* What the game read of a slot is of an earlier generation, or of an earlier *)
(* or the present state of this one.                                         *)
ReadHolds(read, slot) ==
  /\ read \in ReadRecord
  /\ read.mapping.source = NoController => read.mapping.generation = 0 /\ read.packet = 0
  /\ read.mapping.generation <= slot.mapping.generation
  /\ (read.mapping.generation = slot.mapping.generation /\ read.mapping.source # NoController) =>
       /\ read.mapping.source = slot.mapping.source
       /\ read.mapping.connection <= slot.mapping.connection
       /\ read.packet <= slot.packet
       /\ read.packet = slot.packet => read.connected = slot.connected /\ read.pad = slot.pad
       /\ (~read.connected /\ read.packet > 0 /\ read.mapping.connection = slot.mapping.connection)
            => slot.needsNew

XInputInv ==
  /\ xSequence \in 0..MaxXSequence
  /\ xSlots \in [LogicalSlot -> SlotRecord] /\ gameRead \in [LogicalSlot -> ReadRecord]
  /\ lastVibration \in [meant : XController \cup {NoController},
                        reached : XController \cup {NoController}]
  /\ \A l \in LogicalSlot : SlotHolds(xSlots[l], xSequence) /\ ReadHolds(gameRead[l], xSlots[l])
  /\ OneSlotPerController /\ VibrationReachesItsController

(* A slot may become another one: it holds after the next command, and what   *)
(* was read of it is still accounted for.                                   *)
Becomes(slot, next, n) ==
  /\ SlotHolds(next, n + 1)
  /\ \A read \in ReadRecord : ReadHolds(read, slot) => ReadHolds(read, next)

LEMMA EmptySlotHolds ==
  ASSUME NEW g \in 0..MaxXSequence, NEW n \in Nat, g <= n
  PROVE  SlotHolds(EmptySlot(g), n) /\ EmptySlot(g).mapping.generation = g
BY VirtualXInputAssumption DEF EmptySlot, SlotHolds, SlotRecord, XMapping, SourceHint, Pad, NoController

LEMMA NewGeneration ==
  ASSUME NEW n \in Nat, n + 1 <= MaxXSequence, NEW slot, SlotHolds(slot, n),
         NEW next, SlotHolds(next, n + 1),
         next.mapping.generation = slot.mapping.generation + 1
  PROVE  Becomes(slot, next, n)
BY DEF Becomes, ReadHolds, SlotHolds, SlotRecord, ReadRecord, XMapping

LEMMA RemappedHolds ==
  ASSUME NEW n \in Nat, n + 1 <= MaxXSequence, NEW l \in LogicalSlot,
         SlotHolds(xSlots[l], n), NEW c \in XController, NEW hint \in SourceHint,
         NEW connection \in Connection
  PROVE  /\ Becomes(xSlots[l], Remapped(l, c, hint, connection), n)
         /\ Remapped(l, c, hint, connection).mapping.source = c
<1> DEFINE g == xSlots[l].mapping.generation + 1
           next == Remapped(l, c, hint, connection)
<1>1. g \in 0..MaxXSequence /\ g <= n + 1 /\ g # 0
  BY VirtualXInputAssumption DEF SlotHolds, SlotRecord, XMapping
<1>2. /\ next.connected = FALSE /\ next.needsNew = FALSE /\ next.pad = "rest"
      /\ next.packet = 0 /\ next.routes = 0
      /\ next.mapping.source = c /\ next.mapping.generation = g
      /\ next \in SlotRecord
  <2> DEFINE e == EmptySlot(g)
             m1 == [e.mapping EXCEPT !.source = c]
             m2 == [m1 EXCEPT !.hint = hint]
             m3 == [m2 EXCEPT !.connection = connection]
  <2>1. e \in SlotRecord /\ e.connected = FALSE /\ e.needsNew = FALSE /\ e.pad = "rest"
        /\ e.packet = 0 /\ e.routes = 0 /\ e.mapping.generation = g
    BY <1>1, EmptySlotHolds, VirtualXInputAssumption DEF EmptySlot, SlotHolds
  <2>2. next = [e EXCEPT !.mapping.source = c, !.mapping.hint = hint,
                  !.mapping.connection = connection]
    BY DEF Remapped
  <2> HIDE DEF e, next
  <2>3. m3 \in XMapping /\ m3.source = c /\ m3.generation = g
    <3>1. e.mapping \in XMapping  BY <2>1 DEF SlotRecord
    <3>2. m1 \in XMapping /\ m1.source = c /\ m1.generation = g  BY <2>1, <3>1 DEF XMapping
    <3> HIDE DEF m1
    <3>3. m2 \in XMapping /\ m2.source = c /\ m2.generation = g  BY <3>2 DEF XMapping
    <3> HIDE DEF m2
    <3> QED BY <3>3, VirtualXInputAssumption DEF XMapping, Connection
  <2>4. DOMAIN e = {"mapping", "connected", "needsNew", "pad", "packet", "capable", "battery", "routes"}
    BY <2>1 DEF SlotRecord
  <2>5. next = [e EXCEPT !.mapping = m3]
    <3> HIDE DEF m1, m2, m3
    <3>1. [e EXCEPT !.mapping.source = c] = [e EXCEPT !.mapping = m1]  BY DEF m1
    <3> DEFINE e1 == [e EXCEPT !.mapping = m1]
    <3>2. [e1 EXCEPT !.mapping.hint = hint] = [e1 EXCEPT !.mapping = m2]  BY <2>4 DEF m2
    <3> DEFINE e2 == [e1 EXCEPT !.mapping = m2]
    <3>3. [e2 EXCEPT !.mapping.connection = connection] = [e2 EXCEPT !.mapping = m3]  BY <2>4 DEF m3
    <3>4. [e2 EXCEPT !.mapping = m3] = [e EXCEPT !.mapping = m3]  BY <2>4
    <3> QED BY <2>2, <3>1, <3>2, <3>3, <3>4
  <2> HIDE DEF m3
  <2> QED BY <2>1, <2>3, <2>5 DEF SlotRecord
<1> HIDE DEF g, next
<1>3. SlotHolds(next, n + 1)
  BY <1>1, <1>2 DEF SlotHolds
<1>4. next.mapping.generation = xSlots[l].mapping.generation + 1 /\ next.mapping.source = c
  BY <1>2 DEF g
<1>5. Becomes(xSlots[l], next, n)  BY <1>3, <1>4, NewGeneration
<1> QED BY <1>4, <1>5 DEF next

LEMMA UnmappedHolds ==
  ASSUME NEW n \in Nat, n + 1 <= MaxXSequence, NEW slot, SlotHolds(slot, n)
  PROVE  /\ Becomes(slot, EmptySlot(slot.mapping.generation + 1), n)
         /\ EmptySlot(slot.mapping.generation + 1).mapping.source = NoController
<1>1. slot.mapping.generation + 1 \in 0..MaxXSequence /\ slot.mapping.generation + 1 <= n + 1
  BY VirtualXInputAssumption DEF SlotHolds, SlotRecord, XMapping
<1>2. /\ SlotHolds(EmptySlot(slot.mapping.generation + 1), n + 1)
      /\ EmptySlot(slot.mapping.generation + 1).mapping.generation = slot.mapping.generation + 1
  BY <1>1, EmptySlotHolds
<1> QED BY <1>2, NewGeneration DEF EmptySlot

LEMMA ClearedFields ==
  ASSUME NEW slot \in SlotRecord
  PROVE  /\ Cleared(slot) \in SlotRecord /\ ~Cleared(slot).connected
         /\ Cleared(slot).pad = "rest" /\ Cleared(slot).routes = 0
         /\ Cleared(slot).mapping = slot.mapping /\ Cleared(slot).packet = slot.packet
         /\ Cleared(slot).needsNew = slot.needsNew
BY DEF Cleared, SlotRecord, Pad

LEMMA ConnectedFields ==
  ASSUME NEW slot \in SlotRecord, NEW connection \in Connection, NEW pad \in Pad,
         slot.packet < MaxXSequence
  PROVE  LET next == Connected(slot, connection, pad)
             changes == \/ connection # slot.mapping.connection
                        \/ ~slot.connected \/ slot.pad # pad
         IN  /\ next \in SlotRecord /\ next.connected /\ ~next.needsNew /\ next.pad = pad
             /\ next.packet = slot.packet + (IF changes THEN 1 ELSE 0)
             /\ next.mapping.source = slot.mapping.source
             /\ next.mapping.generation = slot.mapping.generation
             /\ next.mapping.connection = connection
<1> DEFINE new == connection # slot.mapping.connection
           base == IF new THEN Cleared(slot) ELSE slot
           more == IF new \/ ~slot.connected \/ slot.pad # pad THEN 1 ELSE 0
           next == Connected(slot, connection, pad)
<1>1. base \in SlotRecord /\ base.mapping = slot.mapping /\ base.packet = slot.packet
  BY ClearedFields
<1>2. next = [base EXCEPT !.mapping.connection = connection, !.connected = TRUE,
                !.needsNew = FALSE, !.pad = pad, !.packet = @ + more]
  BY DEF Connected
<1>3. more \in {0, 1}  OBVIOUS
<1>4. slot.packet + more \in 0..MaxXSequence
  BY <1>3, VirtualXInputAssumption DEF SlotRecord
<1> HIDE DEF base, next
<1>5. /\ next.connected = TRUE /\ next.needsNew = FALSE /\ next.pad = pad
      /\ next.packet = base.packet + more
      /\ next.mapping = [base.mapping EXCEPT !.connection = connection]
      /\ next \in SlotRecord
  <2> HIDE DEF more, new
  <2>1. [base.mapping EXCEPT !.connection = connection] \in XMapping
    BY <1>1 DEF SlotRecord, XMapping, Connection
  <2> QED BY <1>1, <1>2, <1>4, <2>1 DEF SlotRecord
<1>6. /\ next.mapping.source = slot.mapping.source
      /\ next.mapping.generation = slot.mapping.generation
      /\ next.mapping.connection = connection
  BY <1>1, <1>5 DEF SlotRecord, XMapping
<1> QED BY <1>1, <1>5, <1>6 DEF next

LEMMA ConnectedHolds ==
  ASSUME NEW n \in Nat, n + 1 <= MaxXSequence, NEW slot, SlotHolds(slot, n),
         slot.mapping.source # NoController,
         NEW connection \in Connection, NEW pad \in Pad, MayConnect(slot, connection)
  PROVE  /\ Becomes(slot, Connected(slot, connection, pad), n)
         /\ Connected(slot, connection, pad).mapping.source = slot.mapping.source
<1> DEFINE next == Connected(slot, connection, pad)
           changes == connection # slot.mapping.connection \/ ~slot.connected \/ slot.pad # pad
<1>1. slot \in SlotRecord /\ slot.packet < MaxXSequence
  BY VirtualXInputAssumption DEF SlotHolds, SlotRecord
<1>2. /\ next \in SlotRecord /\ next.connected /\ ~next.needsNew /\ next.pad = pad
      /\ next.packet = slot.packet + (IF changes THEN 1 ELSE 0)
      /\ next.mapping.source = slot.mapping.source
      /\ next.mapping.generation = slot.mapping.generation
      /\ next.mapping.connection = connection
  BY <1>1, ConnectedFields
<1> HIDE DEF next
<1>3. SlotHolds(next, n + 1)
  BY <1>1, <1>2 DEF SlotHolds, SlotRecord, XMapping
<1>4. ASSUME NEW read \in ReadRecord, ReadHolds(read, slot) PROVE ReadHolds(read, next)
  <2>1. /\ read.mapping.generation \in Nat /\ slot.mapping.generation \in Nat
        /\ read.mapping.connection \in Nat /\ slot.mapping.connection \in Nat
        /\ connection \in Nat /\ read.packet \in Nat /\ slot.packet \in Nat
        /\ connection >= slot.mapping.connection
        /\ connection = slot.mapping.connection => ~slot.needsNew
    BY <1>1 DEF SlotRecord, ReadRecord, XMapping, Connection, MayConnect
  <2> DEFINE same == read.mapping.generation = slot.mapping.generation
                       /\ read.mapping.source # NoController
  <2>2. ASSUME same PROVE /\ read.mapping.source = next.mapping.source
                          /\ read.mapping.connection <= next.mapping.connection
                          /\ read.packet <= next.packet
    BY <1>2, <1>4, <2>1, <2>2 DEF ReadHolds
  <2>3. ASSUME same, read.packet = next.packet
        PROVE  read.connected = next.connected /\ read.pad = next.pad
    <3>1. read.packet <= slot.packet  BY <1>4, <2>3 DEF ReadHolds
    <3>2. ~changes  BY <1>2, <2>1, <2>3, <3>1
    <3>3. read.connected = slot.connected /\ read.pad = slot.pad
      BY <1>2, <1>4, <2>1, <2>3, <3>2 DEF ReadHolds
    <3> QED BY <1>1, <1>2, <3>2, <3>3 DEF SlotRecord, ReadRecord
  <2>4. ASSUME same, ~read.connected, read.packet > 0,
               read.mapping.connection = next.mapping.connection
        PROVE  FALSE
    BY <1>2, <1>4, <2>1, <2>4 DEF ReadHolds
  <2>5. read.mapping.source = NoController => read.mapping.generation = 0 /\ read.packet = 0
    BY <1>4 DEF ReadHolds
  <2>6. read.mapping.generation <= next.mapping.generation
    BY <1>2, <1>4 DEF ReadHolds
  <2> QED BY <1>2, <2>2, <2>3, <2>4, <2>5, <2>6 DEF ReadHolds
<1> QED BY <1>2, <1>3, <1>4 DEF Becomes, next

(* The slot that a snapshot of its source leaves.                           *)
SnapshotBase(slot, hint) ==
  IF slot.mapping.hint # hint
  THEN [Cleared(slot) EXCEPT !.mapping.generation = @ + 1, !.mapping.hint = hint]
  ELSE slot
SnapshotOf(slot, hint, connection, pad, capable, battery) ==
  [Connected(SnapshotBase(slot, hint), connection, pad)
     EXCEPT !.capable = capable, !.battery = battery,
            !.routes = IF capable = "vibrates" THEN @ ELSE 0]

LEMMA SnapshotHolds ==
  ASSUME NEW n \in Nat, n + 1 <= MaxXSequence, NEW slot, SlotHolds(slot, n),
         slot.mapping.source # NoController,
         NEW hint \in SourceHint, NEW connection \in Connection, NEW pad \in Pad,
         NEW capable \in {"unknown", "vibrates", "still"}, NEW battery \in BOOLEAN,
         MayConnect(slot, connection)
  PROVE  LET last == SnapshotOf(slot, hint, connection, pad, capable, battery)
         IN  Becomes(slot, last, n) /\ last.mapping.source = slot.mapping.source
<1> DEFINE routed == [Cleared(slot) EXCEPT !.mapping.generation = @ + 1, !.mapping.hint = hint]
           base == IF slot.mapping.hint # hint THEN routed ELSE slot
           next == Connected(base, connection, pad)
           last == [next EXCEPT !.capable = capable, !.battery = battery,
                      !.routes = IF capable = "vibrates" THEN @ ELSE 0]
<1>0. SnapshotOf(slot, hint, connection, pad, capable, battery) = last
  BY DEF SnapshotOf, SnapshotBase
<1>1. slot \in SlotRecord /\ slot.packet < MaxXSequence /\ slot.mapping.generation < MaxXSequence
      /\ slot.mapping \in XMapping /\ slot.mapping.generation \in Nat
  BY VirtualXInputAssumption DEF SlotHolds, SlotRecord, XMapping
<1>2. /\ routed \in SlotRecord /\ routed.mapping.source = slot.mapping.source
      /\ routed.mapping.generation = slot.mapping.generation + 1
      /\ routed.packet = slot.packet
  <2> DEFINE e == Cleared(slot)
             m1 == [e.mapping EXCEPT !.generation = @ + 1]
             m2 == [m1 EXCEPT !.hint = hint]
             e1 == [e EXCEPT !.mapping = m1]
  <2>1. e \in SlotRecord /\ e.mapping = slot.mapping /\ e.packet = slot.packet
    BY <1>1, ClearedFields
  <2> HIDE DEF e
  <2>2. m1 \in XMapping /\ m1.source = slot.mapping.source
        /\ m1.generation = slot.mapping.generation + 1
    BY <1>1, <2>1, VirtualXInputAssumption DEF XMapping
  <2> HIDE DEF m1
  <2>3. m2 \in XMapping /\ m2.source = slot.mapping.source
        /\ m2.generation = slot.mapping.generation + 1
    BY <2>2 DEF XMapping
  <2> HIDE DEF m2
  <2>4. "mapping" \in DOMAIN e  BY <2>1 DEF SlotRecord
  <2>5. [e EXCEPT !.mapping.generation = @ + 1] = e1  BY DEF m1
  <2>6. [e1 EXCEPT !.mapping.hint = hint] = [e1 EXCEPT !.mapping = m2]  BY <2>4 DEF m2
  <2>7. [e1 EXCEPT !.mapping = m2] = [e EXCEPT !.mapping = m2]  BY <2>4
  <2>8. routed = [e EXCEPT !.mapping = m2]  BY <2>5, <2>6, <2>7 DEF e
  <2> HIDE DEF e1, routed
  <2> QED BY <2>1, <2>3, <2>8 DEF SlotRecord
<1>3. base \in SlotRecord /\ base.packet = slot.packet /\ base.mapping.source = slot.mapping.source
  BY <1>1, <1>2
<1>4. /\ next \in SlotRecord /\ next.connected /\ ~next.needsNew
      /\ next.packet \in {slot.packet, slot.packet + 1}
      /\ next.mapping.source = slot.mapping.source
      /\ next.mapping.generation = base.mapping.generation
  <2> HIDE DEF base
  <2>1. base.packet < MaxXSequence  BY <1>1, <1>3
  <2>2. /\ next \in SlotRecord /\ next.connected /\ ~next.needsNew
        /\ next.mapping.source = base.mapping.source
        /\ next.mapping.generation = base.mapping.generation
    BY <1>3, <2>1, ConnectedFields
  <2> DEFINE changes == connection # base.mapping.connection \/ ~base.connected \/ base.pad # pad
  <2>3. next.packet = base.packet + (IF changes THEN 1 ELSE 0)
    BY <1>3, <2>1, ConnectedFields
  <2> HIDE DEF next, changes
  <2>4. base.packet \in Nat  BY <1>3, VirtualXInputAssumption DEF SlotRecord
  <2> QED BY <1>3, <2>2, <2>3, <2>4
<1>5. /\ last \in SlotRecord /\ last.connected /\ ~last.needsNew /\ last.packet = next.packet
      /\ last.mapping = next.mapping /\ last.pad = next.pad
  <2> HIDE DEF next
  <2> QED BY <1>4 DEF SlotRecord
<1>6. CASE slot.mapping.hint # hint
  <2>1. base = routed  BY <1>6
  <2> HIDE DEF base, next, last, routed
  <2>2. SlotHolds(last, n + 1)
    BY <1>1, <1>2, <1>4, <1>5, <2>1 DEF SlotHolds, SlotRecord, XMapping
  <2>3. last.mapping.generation = slot.mapping.generation + 1
    BY <1>2, <1>4, <1>5, <2>1
  <2> QED BY <1>0, <1>4, <1>5, <2>2, <2>3, NewGeneration
<1>7. CASE slot.mapping.hint = hint
  <2>1. base = slot  BY <1>7
  <2>2. Becomes(slot, next, n)  BY <2>1, ConnectedHolds
  <2> HIDE DEF base, next, last, routed
  <2>3. SlotHolds(last, n + 1)
    BY <1>4, <1>5, <2>2 DEF Becomes, SlotHolds
  <2>4. ASSUME NEW read \in ReadRecord, ReadHolds(read, slot) PROVE ReadHolds(read, last)
    <3>1. ReadHolds(read, next)  BY <2>2, <2>4 DEF Becomes
    <3> QED BY <1>4, <1>5, <3>1 DEF ReadHolds
  <2> QED BY <1>0, <1>4, <1>5, <2>3, <2>4 DEF Becomes
<1> HIDE DEF last
<1> QED BY <1>0, <1>6, <1>7

(* What the game cannot see may change at any time.                         *)
LEMMA HiddenHolds ==
  ASSUME NEW n \in Nat, n + 1 <= MaxXSequence, NEW slot, SlotHolds(slot, n),
         NEW next \in SlotRecord, next.mapping = slot.mapping,
         next.connected = slot.connected, next.needsNew = slot.needsNew,
         next.pad = slot.pad, next.packet = slot.packet,
         ~slot.connected => next.routes = slot.routes
  PROVE  Becomes(slot, next, n)
BY DEF Becomes, SlotHolds, ReadHolds, SlotRecord, XMapping

LEMMA DisconnectedHolds ==
  ASSUME NEW n \in Nat, n + 1 <= MaxXSequence, NEW slot, SlotHolds(slot, n), slot.connected
  PROVE  Becomes(slot, Disconnected(slot), n) /\ Disconnected(slot).mapping = slot.mapping
<1> DEFINE e == Cleared(slot)
           next == [e EXCEPT !.needsNew = TRUE, !.packet = @ + 1]
<1>1. slot \in SlotRecord /\ slot.packet < MaxXSequence /\ slot.packet \in Nat
  BY VirtualXInputAssumption DEF SlotHolds, SlotRecord
<1>2. /\ e \in SlotRecord /\ ~e.connected /\ e.pad = "rest" /\ e.routes = 0
      /\ e.mapping = slot.mapping /\ e.packet = slot.packet
  BY <1>1, ClearedFields
<1> HIDE DEF e
<1>3. /\ next \in SlotRecord /\ ~next.connected /\ next.pad = "rest" /\ next.routes = 0
      /\ next.mapping = slot.mapping /\ next.packet = slot.packet + 1 /\ next.needsNew
  <2>1. slot.packet + 1 \in 0..MaxXSequence  BY <1>1, VirtualXInputAssumption
  <2> QED BY <1>1, <1>2, <2>1 DEF SlotRecord
<1> HIDE DEF next
<1>4. SlotHolds(next, n + 1)  BY <1>1, <1>3 DEF SlotHolds, SlotRecord, XMapping
<1>5. ASSUME NEW read \in ReadRecord, ReadHolds(read, slot) PROVE ReadHolds(read, next)
  <2>1. read.packet \in Nat /\ slot.packet \in Nat  BY <1>1 DEF ReadRecord
  <2> DEFINE same == read.mapping.generation = slot.mapping.generation
                       /\ read.mapping.source # NoController
  <2>2. ASSUME same PROVE read.packet < next.packet
    <3>1. read.packet <= slot.packet  BY <1>5, <2>2 DEF ReadHolds
    <3>2. next.packet = slot.packet + 1  BY <1>3
    <3> QED BY <2>1, <3>1, <3>2
  <2>3. ASSUME same PROVE read.mapping.source = next.mapping.source
                          /\ read.mapping.connection <= next.mapping.connection
    BY <1>3, <1>5, <2>3 DEF ReadHolds
  <2>4. same => read.packet <= next.packet /\ read.packet # next.packet
    BY <1>1, <1>3, <2>1, <2>2
  <2>5. /\ read.mapping.source = NoController => read.mapping.generation = 0 /\ read.packet = 0
        /\ read.mapping.generation <= next.mapping.generation
    BY <1>3, <1>5 DEF ReadHolds
  <2> QED BY <1>3, <2>3, <2>4, <2>5 DEF ReadHolds
<1> QED BY <1>3, <1>4, <1>5 DEF Becomes, Disconnected, next, e

(* One slot changes with the next command, and no controller comes to play on *)
(* a second slot.                                                           *)
LEMMA SlotSteps ==
  ASSUME XInputInv, xSequence' = xSequence + 1, xSequence' <= MaxXSequence,
         NEW l \in LogicalSlot, NEW next, Becomes(xSlots[l], next, xSequence),
         xSlots' = [xSlots EXCEPT ![l] = next], UNCHANGED gameRead,
         lastVibration' \in [meant : XController \cup {NoController},
                             reached : XController \cup {NoController}],
         lastVibration'.meant = lastVibration'.reached,
         \/ next.mapping.source \in {xSlots[l].mapping.source, NoController}
         \/ \A other \in LogicalSlot \ {l} : xSlots[other].mapping.source # next.mapping.source
  PROVE  XInputInv'
<1>1. next \in SlotRecord  BY DEF Becomes, SlotHolds
<1>2. xSlots' \in [LogicalSlot -> SlotRecord]  BY <1>1 DEF XInputInv
<1>3. xSequence' \in 0..MaxXSequence  BY VirtualXInputAssumption DEF XInputInv
<1>4. ASSUME NEW k \in LogicalSlot
      PROVE  SlotHolds(xSlots'[k], xSequence') /\ ReadHolds(gameRead'[k], xSlots'[k])
  <2>1. CASE k = l
    <3>1. xSlots'[k] = next  BY <2>1 DEF XInputInv
    <3>2. gameRead[k] \in ReadRecord /\ ReadHolds(gameRead[k], xSlots[k])  BY DEF XInputInv
    <3> QED BY <2>1, <3>1, <3>2 DEF Becomes
  <2>2. CASE k # l
    <3>1. xSlots'[k] = xSlots[k]  BY <2>2 DEF XInputInv
    <3>2. SlotHolds(xSlots[k], xSequence) /\ ReadHolds(gameRead[k], xSlots[k])  BY DEF XInputInv
    <3> QED BY <1>3, <3>1, <3>2 DEF SlotHolds, SlotRecord, XMapping, XInputInv
  <2> QED BY <2>1, <2>2
<1>5. OneSlotPerController'
  <2>1. \A k \in LogicalSlot : xSlots'[k] = IF k = l THEN next ELSE xSlots[k]
    BY DEF XInputInv
  <2>2. OneSlotPerController  BY DEF XInputInv
  <2>3. \A k \in LogicalSlot : k # l /\ next.mapping.source # NoController =>
          xSlots[k].mapping.source # next.mapping.source
    BY <2>2 DEF OneSlotPerController, IsMapped
  <2> QED BY <2>1, <2>2, <2>3 DEF OneSlotPerController, IsMapped
<1> QED BY <1>2, <1>3, <1>4, <1>5 DEF XInputInv, VibrationReachesItsController

LEMMA CommandLeavesSlots ==
  ASSUME XInputInv, xSequence' = xSequence + 1, xSequence' <= MaxXSequence,
         UNCHANGED <<xSlots, gameRead, lastVibration>>
  PROVE  XInputInv'
<1>1. xSequence' \in 0..MaxXSequence  BY VirtualXInputAssumption DEF XInputInv
<1>2. ASSUME NEW k \in LogicalSlot PROVE SlotHolds(xSlots[k], xSequence')
  BY <1>1 DEF XInputInv, SlotHolds, SlotRecord, XMapping
<1> QED BY <1>1, <1>2 DEF XInputInv, OneSlotPerController, IsMapped, VibrationReachesItsController

LEMMA XInputStarts == XInputInit => XInputInv
<1> SUFFICES ASSUME XInputInit PROVE XInputInv  OBVIOUS
<1>1. 0 \in 0..MaxXSequence  BY VirtualXInputAssumption
<1>2. SlotHolds(EmptySlot(0), 0)  BY <1>1, EmptySlotHolds
<1>3. NothingRead \in ReadRecord /\ NothingRead.mapping.source = NoController
      /\ NothingRead.mapping.generation = 0 /\ NothingRead.packet = 0
  BY <1>1, VirtualXInputAssumption
     DEF NothingRead, EmptySlot, ReadRecord, XMapping, SourceHint, Pad, NoController
<1>4. EmptySlot(0) \in SlotRecord /\ EmptySlot(0).mapping.generation = 0
      /\ EmptySlot(0).mapping.source = NoController
  BY <1>2 DEF SlotHolds, EmptySlot
<1>5. ReadHolds(NothingRead, EmptySlot(0))  BY <1>3, <1>4 DEF ReadHolds
<1> QED BY <1>1, <1>2, <1>3, <1>4, <1>5
        DEF XInputInit, XInputInv, OneSlotPerController, IsMapped, VibrationReachesItsController

LEMMA ReadSlotSteps ==
  ASSUME XInputInv, NEW l \in LogicalSlot, ReadSlot(l)
  PROVE  XInputInv'
<1> DEFINE read == [mapping |-> xSlots[l].mapping, packet |-> xSlots[l].packet,
                    connected |-> xSlots[l].connected, pad |-> xSlots[l].pad]
<1>1. xSlots[l] \in SlotRecord /\ SlotHolds(xSlots[l], xSequence)
      /\ xSlots[l].mapping.source # NoController
  BY DEF XInputInv, ReadSlot, IsMapped
<1>2. read \in ReadRecord  BY <1>1 DEF SlotRecord, ReadRecord
<1>3. gameRead' = [gameRead EXCEPT ![l] = read]  BY DEF ReadSlot
<1>4. ReadHolds(read, xSlots[l])
  BY <1>1, <1>2 DEF ReadHolds, SlotHolds, SlotRecord, XMapping
<1> HIDE DEF read
<1> QED BY <1>2, <1>3, <1>4 DEF XInputInv, ReadSlot, OneSlotPerController, IsMapped, VibrationReachesItsController

LEMMA VibrationSteps ==
  ASSUME XInputInv, NEW l \in LogicalSlot, xSequence + 1 <= MaxXSequence,
         xSequence' = xSequence + 1, RouteVibration(xSequence + 1, l)
  PROVE  XInputInv'
<1> DEFINE slot == xSlots[l]
           read == gameRead[l].mapping
           next == [slot EXCEPT !.routes = 1]
<1>1. /\ slot \in SlotRecord /\ SlotHolds(slot, xSequence)
      /\ gameRead[l] \in ReadRecord /\ ReadHolds(gameRead[l], slot)
      /\ slot.mapping.source # NoController /\ slot.connected
      /\ read.generation = slot.mapping.generation
  BY DEF XInputInv, RouteVibration, IsMapped
<1>2. read.source = slot.mapping.source
  BY <1>1 DEF ReadHolds, SlotHolds
<1>3. next \in SlotRecord /\ next.mapping = slot.mapping /\ next.connected = slot.connected
      /\ next.needsNew = slot.needsNew /\ next.pad = slot.pad /\ next.packet = slot.packet
  BY <1>1 DEF SlotRecord
<1>4. xSequence \in Nat  BY DEF XInputInv
<1> HIDE DEF next
<1>5. Becomes(slot, next, xSequence)  BY <1>1, <1>3, <1>4, HiddenHolds
<1>6. xSlots' = [xSlots EXCEPT ![l] = next]
  BY DEF RouteVibration, next, XInputInv
<1>7. /\ lastVibration' \in [meant : XController \cup {NoController},
                             reached : XController \cup {NoController}]
      /\ lastVibration'.meant = lastVibration'.reached
  BY <1>1, <1>2 DEF RouteVibration, SlotRecord, XMapping
<1>8. UNCHANGED gameRead  BY DEF RouteVibration
<1> QED BY <1>3, <1>5, <1>6, <1>7, <1>8, SlotSteps

LEMMA SourceSteps ==
  ASSUME XInputInv, xSequence + 1 <= MaxXSequence, xSequence' = xSequence + 1,
         NEW l \in LogicalSlot, xSlots[l].mapping.source # NoController,
         NEW next, Becomes(xSlots[l], next, xSequence),
         next.mapping.source = xSlots[l].mapping.source,
         xSlots' = [xSlots EXCEPT ![l] = next], UNCHANGED <<gameRead, lastVibration>>
  PROVE  XInputInv'
<1>1. /\ lastVibration' \in [meant : XController \cup {NoController},
                             reached : XController \cup {NoController}]
      /\ lastVibration'.meant = lastVibration'.reached
  BY DEF XInputInv, VibrationReachesItsController
<1> QED BY <1>1, SlotSteps

LEMMA XInputSteps == XInputInv /\ [XInputNext]_xinputVars => XInputInv'
<1> SUFFICES ASSUME XInputInv, [XInputNext]_xinputVars PROVE XInputInv'  OBVIOUS
<1>0. xSequence \in Nat /\ \A l \in LogicalSlot :
        xSlots[l] \in SlotRecord /\ SlotHolds(xSlots[l], xSequence)
  BY DEF XInputInv
<1>a. /\ lastVibration \in [meant : XController \cup {NoController},
                            reached : XController \cup {NoController}]
      /\ lastVibration.meant = lastVibration.reached
  BY DEF XInputInv, VibrationReachesItsController
<1>1. CASE XInputReset
  <2>1. 0 \in 0..MaxXSequence  BY VirtualXInputAssumption
  <2>2. XInputInit => XInputInv  BY XInputStarts
  <2>3. SlotHolds(EmptySlot(0), 0)  BY <2>1, EmptySlotHolds
  <2>4. NothingRead \in ReadRecord /\ NothingRead.mapping.source = NoController
        /\ NothingRead.mapping.generation = 0 /\ NothingRead.packet = 0
    BY <2>1, VirtualXInputAssumption
       DEF NothingRead, EmptySlot, ReadRecord, XMapping, SourceHint, Pad, NoController
  <2>5. EmptySlot(0) \in SlotRecord /\ EmptySlot(0).mapping.generation = 0
        /\ EmptySlot(0).mapping.source = NoController
    BY <2>3 DEF SlotHolds, EmptySlot
  <2>6. ReadHolds(NothingRead, EmptySlot(0))  BY <2>4, <2>5 DEF ReadHolds
  <2> QED BY <1>1, <2>1, <2>3, <2>4, <2>5, <2>6
          DEF XInputReset, XInputInv, OneSlotPerController, IsMapped, VibrationReachesItsController
<1>2. ASSUME NEW l \in LogicalSlot, ReadSlot(l) PROVE XInputInv'
  BY <1>2, ReadSlotSteps
<1>3. ASSUME NEW sequence \in {xSequence + 1} \cap 1..MaxXSequence,
             \/ \E l \in LogicalSlot : UnmapSlot(sequence, l) \/ RouteVibration(sequence, l)
             \/ \E c \in XController, connection \in Connection :
                  \/ DisconnectSource(sequence, c, connection)
                  \/ \E hint \in SourceHint :
                       \/ \E l \in LogicalSlot : MapSlot(sequence, l, c, hint, connection)
                       \/ \E pad \in Pad :
                            \/ SourceState(sequence, c, hint, connection, pad)
                            \/ \E capable \in {"unknown", "vibrates"} :
                                 SourceSnapshot(sequence, c, hint, connection, pad, capable,
                                                capable = "vibrates")
                       \/ \E capable \in {"vibrates", "still"} :
                            SourceDetail(sequence, c, hint, connection, capable)
      PROVE  XInputInv'
  <2>0. sequence = xSequence + 1 /\ xSequence + 1 <= MaxXSequence
    BY <1>0, VirtualXInputAssumption
  <2>1. ASSUME NEW l \in LogicalSlot, UnmapSlot(sequence, l) PROVE XInputInv'
    <3> DEFINE next == EmptySlot(xSlots[l].mapping.generation + 1)
    <3>1. Becomes(xSlots[l], next, xSequence) /\ next.mapping.source = NoController
      BY <1>0, <2>0, UnmappedHolds
    <3>2. xSequence' = xSequence + 1 /\ xSlots' = [xSlots EXCEPT ![l] = next]
          /\ UNCHANGED <<gameRead, lastVibration>>
      BY <2>0, <2>1 DEF UnmapSlot, Accepted
    <3> HIDE DEF next
    <3> QED BY <1>a, <2>0, <3>1, <3>2, SlotSteps
  <2>2. ASSUME NEW l \in LogicalSlot, RouteVibration(sequence, l) PROVE XInputInv'
    <3>1. xSequence' = xSequence + 1  BY <2>0, <2>2 DEF RouteVibration, Accepted
    <3> QED BY <2>0, <2>2, <3>1, VibrationSteps
  <2> SUFFICES ASSUME NEW c \in XController, NEW connection \in Connection,
                  \/ DisconnectSource(sequence, c, connection)
                  \/ \E hint \in SourceHint :
                       \/ \E l \in LogicalSlot : MapSlot(sequence, l, c, hint, connection)
                       \/ \E pad \in Pad :
                            \/ SourceState(sequence, c, hint, connection, pad)
                            \/ \E capable \in {"unknown", "vibrates"} :
                                 SourceSnapshot(sequence, c, hint, connection, pad, capable,
                                                capable = "vibrates")
                       \/ \E capable \in {"vibrates", "still"} :
                            SourceDetail(sequence, c, hint, connection, capable)
                PROVE XInputInv'
    BY <1>3, <2>1, <2>2
  <2>3. ASSUME DisconnectSource(sequence, c, connection) PROVE XInputInv'
    <3>1. PICK l \in LogicalSlot :
            /\ HasSource(l, c) /\ xSlots[l].connected
            /\ xSlots' = [xSlots EXCEPT ![l] = Disconnected(xSlots[l])]
      BY <2>3 DEF DisconnectSource
    <3>2. xSequence' = xSequence + 1 /\ UNCHANGED <<gameRead, lastVibration>>
      BY <2>0, <2>3 DEF DisconnectSource, Accepted
    <3> DEFINE next == Disconnected(xSlots[l])
    <3>3. Becomes(xSlots[l], next, xSequence) /\ next.mapping = xSlots[l].mapping
      BY <1>0, <2>0, <3>1, DisconnectedHolds
    <3>4. xSlots' = [xSlots EXCEPT ![l] = next]  BY <3>1
    <3> HIDE DEF next
    <3>5. xSlots[l].mapping.source # NoController  BY <3>1 DEF HasSource, IsMapped
    <3> QED BY <2>0, <3>2, <3>3, <3>4, <3>5, SourceSteps
  <2>4. ASSUME NEW hint \in SourceHint, NEW l \in LogicalSlot, MapSlot(sequence, l, c, hint, connection)
        PROVE  XInputInv'
    <3> DEFINE next == Remapped(l, c, hint, connection)
    <3>1. xSequence' = xSequence + 1 /\ UNCHANGED <<gameRead, lastVibration>>
      BY <2>0, <2>4 DEF MapSlot, Accepted
    <3>2. CASE xSlots' = xSlots
      <4> QED BY <2>0, <3>1, <3>2, CommandLeavesSlots
    <3>3. CASE xSlots' = [xSlots EXCEPT ![l] = next]
      <4>1. Becomes(xSlots[l], next, xSequence) /\ next.mapping.source = c
        BY <1>0, <2>0, RemappedHolds
      <4> HIDE DEF next
      <4>2. \A other \in LogicalSlot \ {l} : ~HasSource(other, c)
        BY <2>4 DEF MapSlot
      <4>3. CASE c = NoController
        BY <1>a, <2>0, <3>1, <3>3, <4>1, <4>3, SlotSteps
      <4>4. CASE c # NoController
        <5>1. \A other \in LogicalSlot \ {l} : xSlots[other].mapping.source # next.mapping.source
          BY <4>1, <4>2, <4>4 DEF HasSource, IsMapped
        <5> QED BY <1>a, <2>0, <3>1, <3>3, <4>1, <5>1, SlotSteps
      <4> QED BY <4>3, <4>4
    <3> QED BY <2>4, <3>2, <3>3 DEF MapSlot
  <2>5. ASSUME NEW hint \in SourceHint, NEW pad \in Pad, SourceState(sequence, c, hint, connection, pad)
        PROVE  XInputInv'
    <3>1. PICK l \in LogicalSlot :
            /\ HasSource(l, c) /\ MayConnect(xSlots[l], connection)
            /\ xSlots' = [xSlots EXCEPT ![l] = Connected(xSlots[l], connection, pad)]
      BY <1>0, <2>5 DEF SourceState, XInputInv
    <3>2. xSequence' = xSequence + 1 /\ UNCHANGED <<gameRead, lastVibration>>
      BY <2>0, <2>5 DEF SourceState, Accepted
    <3>3. xSlots[l].mapping.source # NoController  BY <3>1 DEF HasSource, IsMapped
    <3> DEFINE next == Connected(xSlots[l], connection, pad)
    <3>4. Becomes(xSlots[l], next, xSequence) /\ next.mapping.source = xSlots[l].mapping.source
      BY <1>0, <2>0, <3>1, <3>3, ConnectedHolds
    <3>5. xSlots' = [xSlots EXCEPT ![l] = next]  BY <3>1
    <3> HIDE DEF next
    <3> QED BY <2>0, <3>2, <3>3, <3>4, <3>5, SourceSteps
  <2>6. ASSUME NEW hint \in SourceHint, NEW pad \in Pad, NEW capable \in {"unknown", "vibrates"},
               SourceSnapshot(sequence, c, hint, connection, pad, capable, capable = "vibrates")
        PROVE  XInputInv'
    <3> DEFINE vibrates == capable = "vibrates"
               next(l) == SnapshotOf(xSlots[l], hint, connection, pad, capable, vibrates)
    <3>1. PICK l \in LogicalSlot :
            /\ HasSource(l, c) /\ MayConnect(xSlots[l], connection)
            /\ xSlots' = [xSlots EXCEPT ![l] = next(l)]
      BY <2>6 DEF SourceSnapshot, SnapshotOf, SnapshotBase
    <3>2. xSequence' = xSequence + 1 /\ UNCHANGED <<gameRead, lastVibration>>
      BY <2>0, <2>6 DEF SourceSnapshot, Accepted
    <3>3. xSlots[l].mapping.source # NoController  BY <3>1 DEF HasSource, IsMapped
    <3>4. Becomes(xSlots[l], next(l), xSequence) /\ next(l).mapping.source = xSlots[l].mapping.source
      <4>1. capable \in {"unknown", "vibrates", "still"} /\ vibrates \in BOOLEAN
        OBVIOUS
      <4> HIDE DEF vibrates
      <4> QED BY <1>0, <2>0, <3>1, <3>3, <4>1, SnapshotHolds
    <3> HIDE DEF next
    <3> QED BY <2>0, <3>1, <3>2, <3>3, <3>4, SourceSteps
  <2>7. ASSUME NEW hint \in SourceHint, NEW capable \in {"vibrates", "still"},
               SourceDetail(sequence, c, hint, connection, capable)
        PROVE  XInputInv'
    <3>1. PICK l \in LogicalSlot :
            /\ HasSource(l, c) /\ xSlots[l].connected
            /\ \/ xSlots' = [xSlots EXCEPT ![l].capable = capable]
               \/ xSlots' = [xSlots EXCEPT ![l].battery = TRUE]
      BY <2>7 DEF SourceDetail
    <3>2. xSequence' = xSequence + 1 /\ UNCHANGED <<gameRead, lastVibration>>
      BY <2>0, <2>7 DEF SourceDetail, Accepted
    <3>3. xSlots[l].mapping.source # NoController  BY <3>1 DEF HasSource, IsMapped
    <3>4. PICK next \in {[xSlots[l] EXCEPT !.capable = capable], [xSlots[l] EXCEPT !.battery = TRUE]} :
            xSlots' = [xSlots EXCEPT ![l] = next]
      BY <3>1 DEF XInputInv
    <3>5. /\ next \in SlotRecord /\ next.mapping = xSlots[l].mapping
          /\ next.connected = xSlots[l].connected /\ next.needsNew = xSlots[l].needsNew
          /\ next.pad = xSlots[l].pad /\ next.packet = xSlots[l].packet
          /\ next.routes = xSlots[l].routes
      BY <1>0 DEF SlotRecord
    <3>6. Becomes(xSlots[l], next, xSequence)  BY <1>0, <2>0, <3>5, HiddenHolds
    <3> QED BY <2>0, <3>2, <3>3, <3>4, <3>5, <3>6, SourceSteps
  <2> QED BY <2>3, <2>4, <2>5, <2>6, <2>7
<1>4. CASE UNCHANGED xinputVars
  BY <1>4 DEF xinputVars, XInputInv, OneSlotPerController, IsMapped, VibrationReachesItsController
<1> QED BY <1>1, <1>2, <1>3, <1>4 DEF XInputNext

LEMMA XInputSuffices == XInputInv => XInputTypeOK /\ XInputIsExact
<1> SUFFICES ASSUME XInputInv PROVE XInputTypeOK /\ XInputIsExact  OBVIOUS
<1>1. XInputTypeOK  BY DEF XInputInv, XInputTypeOK, SlotRecord, ReadRecord
<1>2. PacketNumberTellsChanges
  <2> SUFFICES ASSUME NEW l \in LogicalSlot,
                      gameRead[l].mapping.source # NoController,
                      gameRead[l].mapping.generation = xSlots[l].mapping.generation,
                      gameRead[l].packet = xSlots[l].packet
               PROVE  gameRead[l].connected = xSlots[l].connected /\ gameRead[l].pad = xSlots[l].pad
    BY DEF PacketNumberTellsChanges
  <2> QED BY DEF XInputInv, ReadHolds
<1>3. EndedConnectionStaysEnded
  <2> SUFFICES ASSUME NEW l \in LogicalSlot
               PROVE  /\ ~xSlots[l].connected => xSlots[l].pad = "rest" /\ xSlots[l].routes = 0
                      /\ xSlots[l].needsNew => ~xSlots[l].connected
                      /\ (~gameRead[l].connected /\ gameRead[l].packet > 0
                          /\ gameRead[l].mapping = xSlots[l].mapping) => ~xSlots[l].connected
    BY DEF EndedConnectionStaysEnded
  <2>1. SlotHolds(xSlots[l], xSequence) /\ ReadHolds(gameRead[l], xSlots[l])
    BY DEF XInputInv
  <2>2. gameRead[l].packet \in Nat  BY <2>1 DEF ReadHolds, ReadRecord
  <2> QED BY <2>1, <2>2 DEF SlotHolds, ReadHolds
<1> QED BY <1>1, <1>2, <1>3 DEF XInputInv, XInputIsExact

-----------------------------------------------------------------------------
(* The virtual cursor.                                                     *)

(* The cursor is in its clip, and a clip holds at least one point.          *)
CursorInv ==
  /\ CursorTypeOK
  /\ clip.enabled => /\ clip.first < clip.end
                     /\ clip.first <= cursor /\ cursor < clip.end

LEMMA ClampedInside ==
  ASSUME NEW x \in Coordinate, NEW area \in [enabled : BOOLEAN, first : Coordinate, end : Coordinate],
         area.enabled => area.first < area.end
  PROVE  /\ Clamped(x, area) \in Coordinate
         /\ area.enabled => area.first <= Clamped(x, area) /\ Clamped(x, area) < area.end
BY CursorAssumption DEF Clamped, Coordinate

LEMMA SaturatedInside ==
  ASSUME NEW a \in Coordinate, NEW b \in Coordinate
  PROVE  SaturatingAdd(a, b) \in Coordinate
BY CursorAssumption DEF SaturatingAdd, Coordinate

LEMMA ClipsAreTyped ==
  /\ NoClip \in [enabled : BOOLEAN, first : Coordinate, end : Coordinate] /\ ~NoClip.enabled
  /\ \A r \in Rectangle :
       /\ Enabled(r) \in [enabled : BOOLEAN, first : Coordinate, end : Coordinate]
       /\ ValidClip(r) => Enabled(r).first < Enabled(r).end
BY CursorAssumption DEF NoClip, Enabled, ValidClip, Rectangle, Coordinate

LEMMA CursorStarts == CursorInit => CursorInv
BY ClipsAreTyped, CursorAssumption DEF CursorInit, CursorInv, CursorTypeOK, Coordinate, NoClip

LEMMA CursorSteps == CursorInv /\ [CursorNext]_cursorVars => CursorInv'
<1> SUFFICES ASSUME CursorInv, [CursorNext]_cursorVars PROVE CursorInv'  OBVIOUS
<1> USE DEF CursorInv, CursorTypeOK
<1>1. ASSUME NEW s \in 1..MaxCursorSequence, NEW delta \in Coordinate,
             NEW down \in SUBSET Button, NEW up \in SUBSET Button, MouseInput(s, delta, down, up)
      PROVE  CursorInv'
  <2>1. SaturatingAdd(cursor, delta) \in Coordinate  BY SaturatedInside
  <2> QED BY <1>1, <2>1, ClampedInside, CursorAssumption DEF MouseInput
<1>2. ASSUME NEW s \in 1..MaxCursorSequence, NEW x \in Coordinate, NEW rectangle \in Rectangle,
             NEW enabled \in BOOLEAN, ControlFrame(s, x, rectangle, enabled)
      PROVE  CursorInv'
  <2>1. clip' \in [enabled : BOOLEAN, first : Coordinate, end : Coordinate]
        /\ (clip'.enabled => clip'.first < clip'.end)
    BY <1>2, ClipsAreTyped DEF ControlFrame
  <2> QED BY <1>2, <2>1, ClampedInside, CursorAssumption DEF ControlFrame
<1>3. ASSUME NEW x \in Coordinate, SetCursorPos(x) PROVE CursorInv'
  BY <1>3, ClampedInside DEF SetCursorPos
<1>4. ASSUME NEW rectangle \in Rectangle, ClipCursor(rectangle) PROVE CursorInv'
  <2>1. clip' \in [enabled : BOOLEAN, first : Coordinate, end : Coordinate]
        /\ (clip'.enabled => clip'.first < clip'.end)
    BY <1>4, ClipsAreTyped DEF ClipCursor
  <2> QED BY <1>4, <2>1, ClampedInside DEF ClipCursor
<1>5. CASE ReleaseClip  BY <1>5, ClipsAreTyped DEF ReleaseClip
<1>6. CASE ResetCursor
  BY <1>6, ClipsAreTyped, CursorAssumption DEF ResetCursor, Coordinate
<1>7. CASE UNCHANGED cursorVars  BY <1>7 DEF cursorVars
<1> QED BY <1>1, <1>2, <1>3, <1>4, <1>5, <1>6, <1>7 DEF CursorNext

LEMMA CursorSuffices == CursorInv => CursorTypeOK /\ CursorIsExact
<1> SUFFICES ASSUME CursorInv PROVE CursorTypeOK /\ CursorIsExact  OBVIOUS
<1> QED BY CursorAssumption DEF CursorInv, CursorTypeOK, CursorIsExact, CursorRead, ClipRead, Coordinate

-----------------------------------------------------------------------------
(* What is planned to keep input apart, and the routes.                    *)

(* The selected backends stay candidates, share no capability and cover what  *)
(* is covered; what a finished plan is called rests on it.                    *)
Finished ==
  /\ plan.status \in {"none", "Supported", "SupportedWithWarnings", "ObservationOnly",
                      "Unsupported"}
  /\ plan.status \notin {"none", "Unsupported"} =>
       /\ ~PolicyFails(planFor.profile, planFor.environment, plan.selected)
       /\ Needed(planFor.profile) \subseteq plan.covered
  /\ plan.status = "Supported" => ~Warned(planFor.profile, planFor.environment, plan.selected)

PlanInv ==
  /\ planFor.profile \in Templates \cup OwnProfiles
  /\ plan = [optional |-> plan.optional, selected |-> plan.selected, assigned |-> plan.assigned,
             covered |-> plan.covered, status |-> plan.status]
  /\ plan.selected \subseteq Candidates
  /\ plan.assigned \in [BackendId -> SUBSET plan.covered]
  /\ \A b, c \in plan.selected : b # c => plan.assigned[b] \cap plan.assigned[c] = {}
  /\ \A c \in plan.covered : \E b \in plan.selected : c \in plan.assigned[b]
  /\ "PhysicalInputSuppression" \notin plan.covered
  /\ Finished

LEMMA NoBackendSuppresses ==
  \A b \in BackendId : "PhysicalInputSuppression" \notin Backends[b].capabilities
  BY DEF BackendId, Backends, Backend, Observation, ShimSees

LEMMA RequiredRecoveryNeeds ==
  \A p \in Templates \cup OwnProfiles :
    p.recovery = "Required" => ~(Needed(p) \subseteq Observation)
<1> DEFINE beyond == {"RawInputDataVirtualization", "XInputSlotRemapping", "DirectInputVisibility",
                      "ProcessLifecycleTracking"}
<1>0. \A p : p.required \cap beyond # {} => ~(Needed(p) \subseteq Observation)
  BY DEF Needed, Observation
<1>1. \A p \in Templates : p.recovery = "Required" => ~(Needed(p) \subseteq Observation)
  <2>1. ASSUME NEW required, NEW optional, NEW preferred, required \cap beyond # {}
        PROVE  ~(Needed(RawProfile(required, optional, preferred)) \subseteq Observation)
    BY <1>0, <2>1 DEF RawProfile, Profile
  <2>2. /\ RawNeeds \cap beyond # {} /\ \A more : (RawNeeds \cup more) \cap beyond # {}
        /\ {"XInputSlotRemapping", "PhysicalInputSuppression"} \cap beyond # {}
        /\ {"DirectInputVisibility", "DirectInputOrdering", "PhysicalInputSuppression"} \cap beyond # {}
        /\ (ShimSees \cup {"ProcessLifecycleTracking"}) \cap beyond # {}
    BY DEF RawNeeds
  <2>3. /\ ObservationProfile.recovery = "NotApplicable"
        /\ [ObservationProfile EXCEPT !.antiCheat = "ObservationOnly",
                                      !.marks = {"antiCheat"}].recovery = "NotApplicable"
    BY DEF ObservationProfile, Profile
  <2>4. ~(Needed(Profile(ShimSees \cup {"ProcessLifecycleTracking"}, {}, "Required", "Forbidden",
             "DenyInvasiveBackends", "Required", {}, <<"shim">>)) \subseteq Observation)
    BY <1>0, <2>2 DEF Profile
  <2> HIDE DEF beyond
  <2> QED BY <2>1, <2>2, <2>3, <2>4 DEF Templates
<1>2. \A p \in OwnProfiles : ~(Needed(p) \subseteq Observation)
  <2>1. \A p \in OwnProfiles : "XInputSlotRemapping" \in p.required
    BY DEF OwnProfiles, Profile
  <2> QED BY <2>1 DEF Needed, Observation
<1> QED BY <1>1, <1>2

LEMMA PlanStarts == IsolationInit => PlanInv
  BY DEF IsolationInit, PlanInv, PlanStart, Finished

LEMMA SelectSteps == PlanInv /\ SelectBackend => PlanInv'
<1> SUFFICES ASSUME PlanInv, SelectBackend PROVE PlanInv'  OBVIOUS
<1> DEFINE p == planFor.profile
           uncovered == Wished(p, plan.optional) \ plan.covered
<1>1. PICK best \in Helpful(plan.optional, uncovered) :
        plan' = [plan EXCEPT !.selected = @ \cup {best},
                        !.assigned[best] = Backends[best].capabilities
                                           \cap (Requested(p) \ plan.covered),
                        !.covered = @ \cup (Backends[best].capabilities \cap Requested(p))]
  BY DEF SelectBackend
<1>2. best \in Candidates \ plan.selected /\ best \in BackendId
  BY <1>1 DEF Helpful, Candidates
<1>3. plan.status = "none" /\ UNCHANGED planFor  BY DEF SelectBackend
<1> DEFINE added == Backends[best].capabilities \cap Requested(p)
<1>4. /\ plan'.optional = plan.optional /\ plan'.status = "none"
      /\ plan'.selected = plan.selected \cup {best} /\ plan'.covered = plan.covered \cup added
      /\ plan'.assigned = [plan.assigned EXCEPT ![best] = added \ plan.covered]
      /\ plan' = [optional |-> plan'.optional, selected |-> plan'.selected,
                  assigned |-> plan'.assigned, covered |-> plan'.covered, status |-> plan'.status]
  <2> DEFINE assigned == [plan.assigned EXCEPT ![best] = Backends[best].capabilities
                                           \cap (Requested(p) \ plan.covered)]
  <2>1. assigned = [plan.assigned EXCEPT ![best] = added \ plan.covered]
    <3>1. Backends[best].capabilities \cap (Requested(p) \ plan.covered) = added \ plan.covered
      OBVIOUS
    <3> QED BY <3>1
  <2> HIDE DEF assigned
  <2>2. plan' = [plan EXCEPT !.selected = @ \cup {best}, !.assigned = assigned,
                        !.covered = @ \cup added]
    BY <1>1 DEF PlanInv, assigned
  <2> HIDE DEF added
  <2> QED BY <1>3, <2>1, <2>2 DEF PlanInv
<1>5. "PhysicalInputSuppression" \notin added  BY <1>2, NoBackendSuppresses
<1> HIDE DEF added
<1>6. Candidates' = Candidates  BY <1>3 DEF Candidates
<1>7. plan'.assigned \in [BackendId -> SUBSET plan'.covered]
      /\ plan'.assigned[best] = added \ plan.covered
      /\ \A b \in BackendId : b # best => plan'.assigned[b] = plan.assigned[b]
  BY <1>2, <1>4 DEF PlanInv
<1>8. plan.selected \subseteq BackendId  BY DEF PlanInv, Candidates
<1>9. \A b, c \in plan'.selected : b # c => plan'.assigned[b] \cap plan'.assigned[c] = {}
  <2>1. \A b \in plan.selected : plan'.assigned[b] = plan.assigned[b]
                                  /\ plan.assigned[b] \subseteq plan.covered
    BY <1>2, <1>7, <1>8 DEF PlanInv
  <2> QED BY <1>4, <1>7, <2>1 DEF PlanInv
<1>10. \A c \in plan'.covered : \E b \in plan'.selected : c \in plan'.assigned[b]
  BY <1>2, <1>4, <1>7, <1>8 DEF PlanInv
<1> QED BY <1>2, <1>3, <1>4, <1>5, <1>6, <1>7, <1>9, <1>10 DEF PlanInv, Finished

LEMMA FinishSteps == PlanInv /\ FinishPlan => PlanInv'
<1> SUFFICES ASSUME PlanInv, FinishPlan PROVE PlanInv'  OBVIOUS
<1> DEFINE p == planFor.profile
           env == planFor.environment
           status == IF PolicyFails(p, env, plan.selected) \/ ~(Needed(p) \subseteq plan.covered)
                     THEN "Unsupported"
                     ELSE IF p.antiCheat = "ObservationOnly" \/ Needed(p) \subseteq Observation
                     THEN "ObservationOnly"
                     ELSE IF Warned(p, env, plan.selected) THEN "SupportedWithWarnings"
                     ELSE "Supported"
<1>1. UNCHANGED planFor /\ plan' = [plan EXCEPT !.status = status]  BY DEF FinishPlan
<1>2. /\ status \in {"Supported", "SupportedWithWarnings", "ObservationOnly", "Unsupported"}
      /\ status # "Unsupported" =>
           ~PolicyFails(p, env, plan.selected) /\ Needed(p) \subseteq plan.covered
      /\ status = "Supported" => ~Warned(p, env, plan.selected)
  OBVIOUS
<1> HIDE DEF status
<1>3. /\ plan'.status = status /\ plan'.selected = plan.selected /\ plan'.covered = plan.covered
      /\ plan'.assigned = plan.assigned
      /\ plan' = [optional |-> plan'.optional, selected |-> plan'.selected,
                  assigned |-> plan'.assigned, covered |-> plan'.covered, status |-> plan'.status]
  BY <1>1 DEF PlanInv
<1>4. Candidates' = Candidates  BY <1>1 DEF Candidates
<1>5. Finished'  BY <1>1, <1>2, <1>3 DEF Finished
<1> QED BY <1>1, <1>3, <1>4, <1>5 DEF PlanInv

LEMMA PlanSteps == PlanInv /\ [PlanNext]_<<planFor, plan>> => PlanInv'
<1> SUFFICES ASSUME PlanInv, [PlanNext]_<<planFor, plan>> PROVE PlanInv'  OBVIOUS
<1>1. CASE SelectBackend  BY <1>1, SelectSteps
<1>2. CASE SelectOptional
  <2>1. UNCHANGED planFor /\ plan' = [plan EXCEPT !.optional = TRUE] /\ plan.status = "none"
    BY <1>2 DEF SelectOptional
  <2>2. /\ plan'.status = "none" /\ plan'.selected = plan.selected
        /\ plan'.covered = plan.covered /\ plan'.assigned = plan.assigned
        /\ plan' = [optional |-> plan'.optional, selected |-> plan'.selected,
                  assigned |-> plan'.assigned, covered |-> plan'.covered, status |-> plan'.status]
    BY <2>1 DEF PlanInv
  <2>3. Candidates' = Candidates  BY <2>1 DEF Candidates
  <2> QED BY <2>1, <2>2, <2>3 DEF PlanInv, Finished
<1>3. CASE FinishPlan  BY <1>3, FinishSteps
<1>4. CASE UNCHANGED <<planFor, plan>>
  <2>1. Candidates' = Candidates  BY <1>4 DEF Candidates
  <2> QED BY <1>4, <2>1 DEF PlanInv, Finished
<1> QED BY <1>1, <1>2, <1>3, <1>4 DEF PlanNext

LEMMA PlanSuffices == PlanInv => PlansArePermitted
<1> SUFFICES ASSUME PlanInv PROVE PlansArePermitted  OBVIOUS
<1> DEFINE p == planFor.profile
           env == planFor.environment
<1>1. \A b \in plan.selected : ~Rejected(b, p, env)  BY DEF PlanInv, Candidates
<1>2. UNION {plan.assigned[b] : b \in plan.selected} = plan.covered
  <2>1. plan.selected \subseteq BackendId  BY DEF PlanInv, Candidates
  <2> QED BY <2>1 DEF PlanInv
<1>3. p.recovery = "Required" => ~(Needed(p) \subseteq Observation)
  BY RequiredRecoveryNeeds DEF PlanInv
<1>4. plan.status \notin {"none", "Unsupported"} =>
        /\ Needed(p) \subseteq plan.covered
        /\ p.recovery = "Required" => "guard" \in env.approved
  BY <1>3 DEF PlanInv, Finished, PolicyFails
<1>5. "antiCheat" \in p.marks /\ p.antiCheat # "ExplicitExperimentalOverride" =>
        \A b \in plan.selected : ~Invasive(b)
  BY <1>1 DEF Rejected
<1>6. "zeroBleed" \in p.marks => plan.status \in {"none", "Unsupported"}
  BY DEF PlanInv, Finished, Needed
<1>7. plan.status = "Supported" => \A b \in plan.selected : ~Elevated(b)
  BY DEF PlanInv, Finished, Warned
<1> HIDE DEF p, env
<1>8. \A b, c \in plan.selected : b # c => plan.assigned[b] \cap plan.assigned[c] = {}
  BY DEF PlanInv
<1> QED
  BY <1>1, <1>2, <1>4, <1>5, <1>6, <1>7, <1>8 DEF PlansArePermitted, p, env

-----------------------------------------------------------------------------
(* What is recorded of the input.                                          *)

(* What a thread is about to record has happened; the ring holds what was     *)
(* told of, and all of it as long as nothing is counted as lost; so does a     *)
(* snapshot, of what had been told when it was locked.                        *)
Recording ==
  {NoSample} \cup [pc : {"trying", "lost", "writing"}, sample : happened]

RingHolds ==
  /\ recorder.ring \in Seq(InputSample) /\ Len(recorder.ring) <= EvidenceCapacity
  /\ Range(recorder.ring) \subseteq recorder.told /\ recorder.told \subseteq happened
  /\ recorder.rotation \in {0, 1} /\ recorder.contention \in {0, 1}
  /\ recorder.rotation = 0 /\ recorder.contention = 0 =>
       recorder.told \subseteq Range(recorder.ring)

GuardHolds ==
  /\ recorder.guard \in {"free", "thread", "snapshot"}
  /\ recorder.guard = "thread" => \E t \in EvidenceThread : recording[t].pc = "writing"
  /\ \A t \in EvidenceThread : recording[t].pc = "writing" => recorder.guard = "thread"
  /\ \A t, u \in EvidenceThread :
       recording[t].pc = "writing" /\ recording[u].pc = "writing" => t = u
  /\ evidence.step = "locked" => recorder.guard = "snapshot"

EvidenceHolds ==
  \/ evidence = NoEvidence
  \/ evidence = [step |-> "locked", told |-> evidence.told] /\ evidence.told \subseteq recorder.told
  \/ /\ evidence = [step |-> "snapshot", told |-> evidence.told, samples |-> evidence.samples,
                    lossFree |-> evidence.lossFree]
     /\ evidence.samples \subseteq happened /\ evidence.lossFree \in BOOLEAN
     /\ evidence.lossFree => evidence.told \subseteq evidence.samples
  \/ /\ evidence = [step |-> "report", told |-> evidence.told, isolation |-> evidence.isolation]
     /\ evidence.isolation = "Pass" =>
         /\ \A s \in evidence.told : s.receiver \in {0, IntendedSeat}
         /\ \A s \in evidence.told : \A stage \in {"applied", "queried"} :
              \E h \in happened : h.event = s.event /\ h.stage = stage /\ h.receiver = IntendedSeat

EvidenceInv ==
  /\ happened \subseteq InputSample
  /\ recording \in [EvidenceThread -> Recording]
  /\ recorder = [ring |-> recorder.ring, guard |-> recorder.guard, rotation |-> recorder.rotation,
                 contention |-> recorder.contention, told |-> recorder.told]
  /\ RingHolds /\ GuardHolds /\ EvidenceHolds

LEMMA RangeOfAppend ==
  ASSUME NEW S, NEW q \in Seq(S), NEW x \in S
  PROVE  Range(Append(q, x)) = Range(q) \cup {x}
<1>1. Append(q, x) \in Seq(S) /\ Len(Append(q, x)) = Len(q) + 1
      /\ Append(q, x)[Len(q) + 1] = x /\ \A i \in 1..Len(q) : Append(q, x)[i] = q[i]
  OBVIOUS
<1>2. DOMAIN Append(q, x) = 1..(Len(q) + 1) /\ DOMAIN q = 1..Len(q) /\ Len(q) \in Nat
  BY <1>1
<1>3. 1..(Len(q) + 1) = 1..Len(q) \cup {Len(q) + 1}  BY <1>2
<1> HIDE DEF Append
<1> QED BY <1>1, <1>2, <1>3 DEF Range

LEMMA RangeOfTail ==
  ASSUME NEW S, NEW q \in Seq(S), q # <<>>
  PROVE  Range(Tail(q)) \subseteq Range(q) /\ Tail(q) \in Seq(S) /\ Len(Tail(q)) = Len(q) - 1
<1>1. Tail(q) \in Seq(S) /\ Len(Tail(q)) = Len(q) - 1 /\ Len(q) \in Nat
      /\ \A i \in 1..(Len(q) - 1) : Tail(q)[i] = q[i + 1]
  OBVIOUS
<1>2. DOMAIN Tail(q) = 1..(Len(q) - 1) /\ DOMAIN q = 1..Len(q)  BY <1>1
<1> QED BY <1>1, <1>2 DEF Range

LEMMA EvidenceStarts == EvidenceInit => EvidenceInv
<1> SUFFICES ASSUME EvidenceInit PROVE EvidenceInv  OBVIOUS
<1>1. <<>> \in Seq(InputSample) /\ Len(<<>>) = 0 /\ Range(<<>>) = {}  BY DEF Range
<1>2. RingHolds  BY <1>1, EvidenceAssumption DEF EvidenceInit, RingHolds
<1>3. GuardHolds /\ EvidenceHolds
  BY DEF EvidenceInit, GuardHolds, EvidenceHolds, NoSample, NoEvidence
<1> QED BY <1>2, <1>3 DEF EvidenceInit, EvidenceInv, Recording

LEMMA VerdictHolds ==
  ASSUME NEW samples, samples \subseteq InputSample, NEW lossFree \in BOOLEAN,
         IsolationVerdict(samples, lossFree) = "Pass"
  PROVE  /\ lossFree
         /\ \A s \in samples : s.receiver \in {0, IntendedSeat}
         /\ \A s \in samples : \A stage \in {"applied", "queried"} :
              \E h \in samples : h.event = s.event /\ h.stage = stage /\ h.receiver = IntendedSeat
<1> DEFINE events == {s.event : s \in samples}
<1>1. /\ ~\E e \in events : CrossSeat(samples, e)
      /\ lossFree /\ \A e \in events : ReceiverVerified(samples, e)
  BY DEF IsolationVerdict
<1>2. \A s \in samples : s.receiver \in 0..2 /\ s.event \in events
  BY DEF InputSample
<1>3. \A s \in samples : ~CrossSeat(samples, s.event) /\ ReceiverVerified(samples, s.event)
  BY <1>1, <1>2
<1> HIDE DEF events
<1>4. \A s \in samples : s.receiver \in {0, IntendedSeat}
  BY <1>2, <1>3 DEF CrossSeat, Told
<1>5. ASSUME NEW s \in samples, NEW stage \in {"applied", "queried"}
      PROVE  \E h \in samples : h.event = s.event /\ h.stage = stage /\ h.receiver = IntendedSeat
  <2>1. PICK h \in Received(samples, s.event, stage) : Told(h)
    BY <1>3 DEF ReceiverVerified
  <2> QED BY <1>4, <2>1 DEF Received, Told
<1> QED BY <1>1, <1>4, <1>5

LEMMA EvidenceSteps == EvidenceInv /\ [EvidenceNext]_evidenceVars => EvidenceInv'
<1> SUFFICES ASSUME EvidenceInv, [EvidenceNext]_evidenceVars PROVE EvidenceInv'  OBVIOUS
<1>0. \A t \in EvidenceThread : recording[t] \in Recording /\
        (recording[t].pc \in {"trying", "lost", "writing"} =>
           recording[t].sample \in happened
           /\ recording[t] = [pc |-> recording[t].pc, sample |-> recording[t].sample])
  BY DEF EvidenceInv, Recording, NoSample
<1>1. ASSUME NEW t \in EvidenceThread, NEW s \in InputSample, Happens(t, s) PROVE EvidenceInv'
  <2>1. /\ happened' = happened \cup {s} /\ UNCHANGED <<recorder, evidence>>
        /\ recording' = [recording EXCEPT ![t] = [pc |-> "trying", sample |-> s]]
        /\ recording[t].pc = "idle"
    BY <1>1 DEF Happens, NoSample
  <2>2. Recording \subseteq Recording'  BY <2>1 DEF Recording
  <2>3. recording' \in [EvidenceThread -> Recording']
    BY <2>1, <2>2 DEF EvidenceInv, Recording
  <2>4. RingHolds'  BY <2>1 DEF EvidenceInv, RingHolds
  <2>5. GuardHolds'  BY <2>1 DEF EvidenceInv, GuardHolds
  <2>6. EvidenceHolds'  BY <2>1 DEF EvidenceInv, EvidenceHolds
  <2> QED BY <2>1, <2>3, <2>4, <2>5, <2>6 DEF EvidenceInv
<1>2. ASSUME NEW t \in EvidenceThread, TryRecord(t) PROVE EvidenceInv'
  <2>1. UNCHANGED <<happened, evidence>>  BY <1>2 DEF TryRecord
  <2>2. CASE recorder.guard = "free"
    <3>1. /\ recorder' = [recorder EXCEPT !.guard = "thread"]
          /\ recording' = [recording EXCEPT ![t].pc = "writing"]
      BY <1>2, <2>2 DEF TryRecord
    <3>2. /\ recorder'.guard = "thread" /\ recorder'.ring = recorder.ring
          /\ recorder'.told = recorder.told /\ recorder'.rotation = recorder.rotation
          /\ recorder'.contention = recorder.contention
          /\ recorder' = [ring |-> recorder'.ring, guard |-> recorder'.guard,
                 rotation |-> recorder'.rotation, contention |-> recorder'.contention,
                 told |-> recorder'.told]
      BY <3>1 DEF EvidenceInv
    <3>3. recording[t].pc = "trying"  BY <1>2 DEF TryRecord
    <3>4. /\ recording' \in [EvidenceThread -> Recording]
          /\ \A u \in EvidenceThread :
               recording'[u].pc = IF u = t THEN "writing" ELSE recording[u].pc
      BY <1>0, <3>1, <3>3 DEF EvidenceInv, Recording
    <3>5. RingHolds'  BY <2>1, <3>2 DEF EvidenceInv, RingHolds
    <3>6. GuardHolds'  BY <2>1, <2>2, <3>2, <3>4 DEF EvidenceInv, GuardHolds
    <3>7. EvidenceHolds'  BY <2>1, <3>2 DEF EvidenceInv, EvidenceHolds
    <3>8. Recording' = Recording  BY <2>1 DEF Recording
    <3> QED BY <2>1, <3>2, <3>4, <3>5, <3>6, <3>7, <3>8 DEF EvidenceInv
  <2>3. CASE recorder.guard # "free"
    <3>1. recording' = [recording EXCEPT ![t].pc = "lost"] /\ UNCHANGED recorder
      BY <1>2, <2>3 DEF TryRecord
    <3>3. recording[t].pc = "trying"  BY <1>2 DEF TryRecord
    <3>4. /\ recording' \in [EvidenceThread -> Recording]
          /\ \A u \in EvidenceThread :
               recording'[u].pc = IF u = t THEN "lost" ELSE recording[u].pc
      BY <1>0, <3>1, <3>3 DEF EvidenceInv, Recording
    <3>5. GuardHolds'  BY <2>1, <3>1, <3>3, <3>4 DEF EvidenceInv, GuardHolds
    <3>6. Recording' = Recording  BY <2>1 DEF Recording
    <3> QED BY <2>1, <3>1, <3>4, <3>5, <3>6 DEF EvidenceInv, RingHolds, EvidenceHolds
  <2> QED BY <2>2, <2>3
<1>3. ASSUME NEW t \in EvidenceThread, CountContention(t) PROVE EvidenceInv'
  <2>1. /\ UNCHANGED <<happened, evidence>> /\ recording[t].pc = "lost"
        /\ recorder' = [recorder EXCEPT !.contention = 1, !.told = @ \cup {recording[t].sample}]
        /\ recording' = [recording EXCEPT ![t] = NoSample]
    BY <1>3 DEF CountContention
  <2>2. /\ recorder'.guard = recorder.guard /\ recorder'.ring = recorder.ring
        /\ recorder'.told = recorder.told \cup {recording[t].sample}
        /\ recorder'.rotation = recorder.rotation /\ recorder'.contention = 1
        /\ recorder' = [ring |-> recorder'.ring, guard |-> recorder'.guard,
               rotation |-> recorder'.rotation, contention |-> recorder'.contention,
               told |-> recorder'.told]
    BY <2>1 DEF EvidenceInv
  <2>3. Recording' = Recording  BY <2>1 DEF Recording
  <2>4. /\ recording' \in [EvidenceThread -> Recording]
        /\ \A u \in EvidenceThread :
             recording'[u].pc = IF u = t THEN "idle" ELSE recording[u].pc
    BY <2>1 DEF EvidenceInv, Recording, NoSample
  <2>5. RingHolds'  BY <1>0, <2>1, <2>2 DEF EvidenceInv, RingHolds
  <2>6. GuardHolds'  BY <2>1, <2>2, <2>4 DEF EvidenceInv, GuardHolds
  <2>7. EvidenceHolds'  BY <2>1, <2>2 DEF EvidenceInv, EvidenceHolds
  <2> QED BY <2>1, <2>2, <2>3, <2>4, <2>5, <2>6, <2>7 DEF EvidenceInv
<1>4. ASSUME NEW t \in EvidenceThread, WriteSample(t) PROVE EvidenceInv'
  <2> DEFINE full == Len(recorder.ring) = EvidenceCapacity
             kept == IF full THEN Tail(recorder.ring) ELSE recorder.ring
             s == recording[t].sample
  <2>1. /\ UNCHANGED <<happened, evidence>> /\ recording[t].pc = "writing"
        /\ recorder' = [recorder EXCEPT !.ring = Append(kept, s),
                       !.rotation = IF full THEN 1 ELSE @, !.guard = "free",
                       !.told = @ \cup {s}]
        /\ recording' = [recording EXCEPT ![t] = NoSample]
    BY <1>4 DEF WriteSample
  <2>2. s \in happened /\ s \in InputSample  BY <1>0, <2>1 DEF EvidenceInv
  <2>3. recorder.ring \in Seq(InputSample) /\ Len(recorder.ring) <= EvidenceCapacity
        /\ Len(recorder.ring) \in Nat
    BY DEF EvidenceInv, RingHolds
  <2>4. full => recorder.ring # <<>>  BY EvidenceAssumption
  <2>5. /\ kept \in Seq(InputSample) /\ Len(kept) < EvidenceCapacity
        /\ Range(kept) \subseteq Range(recorder.ring)
        /\ ~full => kept = recorder.ring
    BY <2>3, <2>4, RangeOfTail, EvidenceAssumption
  <2> HIDE DEF kept
  <2>6. /\ Append(kept, s) \in Seq(InputSample) /\ Len(Append(kept, s)) <= EvidenceCapacity
        /\ Range(Append(kept, s)) = Range(kept) \cup {s}
    BY <2>2, <2>5, RangeOfAppend, EvidenceAssumption
  <2>7. /\ recorder'.guard = "free" /\ recorder'.ring = Append(kept, s)
        /\ recorder'.told = recorder.told \cup {s}
        /\ recorder'.rotation = (IF full THEN 1 ELSE recorder.rotation)
        /\ recorder'.contention = recorder.contention
        /\ recorder' = [ring |-> recorder'.ring, guard |-> recorder'.guard,
               rotation |-> recorder'.rotation, contention |-> recorder'.contention,
               told |-> recorder'.told]
    BY <2>1 DEF EvidenceInv
  <2> HIDE DEF full, s
  <2>8. Recording' = Recording  BY <2>1 DEF Recording
  <2>9. /\ recording' \in [EvidenceThread -> Recording]
        /\ \A u \in EvidenceThread :
             recording'[u].pc = IF u = t THEN "idle" ELSE recording[u].pc
    BY <2>1 DEF EvidenceInv, Recording, NoSample
  <2>10. RingHolds'
    BY <2>1, <2>2, <2>5, <2>6, <2>7 DEF EvidenceInv, RingHolds
  <2>11. GuardHolds'  BY <2>1, <2>7, <2>9 DEF EvidenceInv, GuardHolds
  <2>12. EvidenceHolds'  BY <2>1, <2>7 DEF EvidenceInv, EvidenceHolds
  <2> QED BY <2>1, <2>7, <2>8, <2>9, <2>10, <2>11, <2>12 DEF EvidenceInv
<1>5. CASE LockForSnapshot
  <2>1. /\ recorder.guard = "free" /\ UNCHANGED <<happened, recording>>
        /\ recorder' = [recorder EXCEPT !.guard = "snapshot"]
        /\ evidence' = [step |-> "locked", told |-> recorder.told]
    BY <1>5 DEF LockForSnapshot
  <2>2. /\ recorder'.guard = "snapshot" /\ recorder'.ring = recorder.ring
        /\ recorder'.told = recorder.told /\ recorder'.rotation = recorder.rotation
        /\ recorder'.contention = recorder.contention
        /\ recorder' = [ring |-> recorder'.ring, guard |-> recorder'.guard,
               rotation |-> recorder'.rotation, contention |-> recorder'.contention,
               told |-> recorder'.told]
    BY <2>1 DEF EvidenceInv
  <2>3. RingHolds'  BY <2>1, <2>2 DEF EvidenceInv, RingHolds
  <2>4. GuardHolds'  BY <2>1, <2>2 DEF EvidenceInv, GuardHolds
  <2>5. EvidenceHolds'  BY <2>1, <2>2 DEF EvidenceHolds
  <2> QED BY <2>1, <2>2, <2>3, <2>4, <2>5 DEF EvidenceInv, Recording
<1>6. CASE TakeSnapshot
  <2>1. /\ evidence.step = "locked" /\ UNCHANGED <<happened, recording>>
        /\ recorder' = [recorder EXCEPT !.guard = "free"]
        /\ evidence' = [step |-> "snapshot", told |-> evidence.told,
                  samples |-> Range(recorder.ring),
                  lossFree |-> recorder.rotation = 0 /\ recorder.contention = 0]
    BY <1>6 DEF TakeSnapshot
  <2>2. /\ recorder'.guard = "free" /\ recorder'.ring = recorder.ring
        /\ recorder'.told = recorder.told /\ recorder'.rotation = recorder.rotation
        /\ recorder'.contention = recorder.contention
        /\ recorder' = [ring |-> recorder'.ring, guard |-> recorder'.guard,
               rotation |-> recorder'.rotation, contention |-> recorder'.contention,
               told |-> recorder'.told]
    BY <2>1 DEF EvidenceInv
  <2>3. evidence.told \subseteq recorder.told
    BY <2>1 DEF EvidenceInv, EvidenceHolds, NoEvidence
  <2>4. RingHolds'  BY <2>1, <2>2 DEF EvidenceInv, RingHolds
  <2>5. GuardHolds'  BY <2>1, <2>2 DEF EvidenceInv, GuardHolds
  <2>6. EvidenceHolds'  BY <2>1, <2>3 DEF EvidenceInv, RingHolds, EvidenceHolds
  <2> QED BY <2>1, <2>2, <2>4, <2>5, <2>6 DEF EvidenceInv, Recording
<1>7. CASE Report
  <2>1. /\ evidence.step = "snapshot" /\ UNCHANGED <<happened, recording, recorder>>
        /\ evidence' = [step |-> "report", told |-> evidence.told,
                  isolation |-> IsolationVerdict(evidence.samples, evidence.lossFree)]
    BY <1>7 DEF Report
  <2>2. /\ evidence.samples \subseteq happened /\ evidence.lossFree \in BOOLEAN
        /\ evidence.lossFree => evidence.told \subseteq evidence.samples
    BY <2>1 DEF EvidenceInv, EvidenceHolds, NoEvidence
  <2>3. EvidenceHolds'
    <3>1. ASSUME IsolationVerdict(evidence.samples, evidence.lossFree) = "Pass"
          PROVE  /\ \A s \in evidence.told : s.receiver \in {0, IntendedSeat}
                 /\ \A s \in evidence.told : \A stage \in {"applied", "queried"} :
                      \E h \in happened : /\ h.event = s.event /\ h.stage = stage
                                          /\ h.receiver = IntendedSeat
      <4>1. evidence.samples \subseteq InputSample  BY <2>2 DEF EvidenceInv
      <4>2. /\ evidence.lossFree
            /\ \A s \in evidence.samples : s.receiver \in {0, IntendedSeat}
            /\ \A s \in evidence.samples : \A stage \in {"applied", "queried"} :
                 \E h \in evidence.samples : /\ h.event = s.event /\ h.stage = stage
                                            /\ h.receiver = IntendedSeat
        BY <2>2, <3>1, <4>1, VerdictHolds
      <4> QED BY <2>2, <4>2
    <3> QED BY <2>1, <3>1 DEF EvidenceHolds
  <2> QED BY <2>1, <2>3 DEF EvidenceInv, Recording, RingHolds, GuardHolds
<1>8. CASE UNCHANGED evidenceVars
  BY <1>8 DEF evidenceVars, EvidenceInv, Recording, RingHolds, GuardHolds, EvidenceHolds
<1> QED BY <1>1, <1>2, <1>3, <1>4, <1>5, <1>6, <1>7, <1>8 DEF EvidenceNext

LEMMA EvidenceSuffices == EvidenceInv => EvidenceTypeOK /\ EvidenceIsNotOverstated
<1> SUFFICES ASSUME EvidenceInv PROVE EvidenceTypeOK /\ EvidenceIsNotOverstated  OBVIOUS
<1>1. recorder.ring \in BoundedSeq(InputSample, EvidenceCapacity)
  <2>1. recorder.ring \in [1..Len(recorder.ring) -> InputSample]
        /\ Len(recorder.ring) \in 0..EvidenceCapacity
    BY EvidenceAssumption DEF EvidenceInv, RingHolds
  <2> QED BY <2>1 DEF BoundedSeq, SeqOf
<1>2. Cardinality({t \in EvidenceThread : recording[t].pc = "writing"})
        = (IF recorder.guard = "thread" THEN 1 ELSE 0)
  <2>1. CASE recorder.guard = "thread"
    <3>1. PICK t \in EvidenceThread : recording[t].pc = "writing"
      BY <2>1 DEF EvidenceInv, GuardHolds
    <3>2. {u \in EvidenceThread : recording[u].pc = "writing"} = {t}
      BY <3>1 DEF EvidenceInv, GuardHolds
    <3> QED BY <2>1, <3>2, FS_Singleton
  <2>2. CASE recorder.guard # "thread"
    <3>1. {u \in EvidenceThread : recording[u].pc = "writing"} = {}
      BY <2>2 DEF EvidenceInv, GuardHolds
    <3> QED BY <2>2, <3>1, FS_EmptySet
  <2> QED BY <2>1, <2>2
<1>3. \A t \in EvidenceThread : recording[t].pc \in {"idle", "trying", "lost", "writing"}
  BY DEF EvidenceInv, Recording, NoSample
<1>4. EvidenceTypeOK  BY <1>1, <1>2, <1>3 DEF EvidenceTypeOK, EvidenceInv, GuardHolds
<1>5. ASSUME evidence.step = "report" PROVE EvidenceIsNotOverstated
  <2>1. evidence.isolation = "Pass" =>
         /\ \A s \in evidence.told : s.receiver \in {0, IntendedSeat}
         /\ \A s \in evidence.told : \A stage \in {"applied", "queried"} :
              \E h \in happened : h.event = s.event /\ h.stage = stage /\ h.receiver = IntendedSeat
    BY <1>5 DEF EvidenceInv, EvidenceHolds, NoEvidence
  <2>2. ASSUME NEW f \in SessionFacts, SessionVerdict(evidence.isolation, f) = "Pass"
        PROVE  /\ evidence.isolation = "Pass" /\ f.seats /\ f.final # "RecoveryRequired"
               /\ (f.final = "ReturnedToWindows" \/ f.rollback # "none") => f.rollback = "verified"
    BY <2>2 DEF SessionVerdict, SessionFacts
  <2> QED BY <2>1, <2>2 DEF EvidenceIsNotOverstated
<1> QED BY <1>4, <1>5 DEF EvidenceIsNotOverstated

-----------------------------------------------------------------------------
(* The windows of the Seats and their targets.                             *)

BindingStatus == {"Unresolved", "Reacquiring", "Bound", "FailedClosed"}

Target == [window : TrackedWindow \cup {"none"}, identity : Nat]
Binding == [status : BindingStatus, desired : Role, target : Target,
            role : Role \cup {"none"}, limit : Nat]

(* A window that is known has a role.                                         *)
WindowsHold(win) ==
  \A w \in TrackedWindow : /\ win[w].identity \in Nat /\ win[w].rank \in Nat
                           /\ win[w].identity # 0 => win[w].role \in Role

(* A binding's target has been a window that had a role.                      *)
BindingHolds(b, desired) ==
  /\ b \in Binding /\ b.desired = desired
  /\ b.status = "Bound" => b.target.window \in TrackedWindow /\ b.role \in Role

BindingOwned(win, auth, s, kind, b) ==
  b.status = "Bound" =>
    /\ OwnedIn(win, auth, s, b.target.window)
    /\ win[b.target.window].identity = b.target.identity
    /\ win[b.target.window].role = b.role
    /\ kind = "input" =>
         TargetCandidates(win, auth, s, b.desired, b.limit) \subseteq {b.target.window}

LEMMA PenaltyHolds ==
  ASSUME NEW role \in Role, NEW desired \in Role
  PROVE  Penalty(role, desired) \in Nat
<1>1. \A r \in Role : OtherRole[r] \in Nat  BY DEF OtherRole, Role
<1> QED BY <1>1 DEF Penalty

LEMMA InitialLimitHolds ==
  ASSUME NEW desired, NEW kind
  PROVE  InitialLimit(desired, kind) \in Nat
BY DEF InitialLimit, Penalty, OtherRole

(* Of some windows one is best: no two have the rank of one handle.           *)
LEMMA BestHolds ==
  ASSUME NEW win, NEW set \in SUBSET TrackedWindow, set # {}, NEW desired \in Role,
         \A w \in set : win[w].role \in Role /\ win[w].rank \in Nat
  PROVE  /\ Best(win, set, desired) \in set
         /\ \A w \in set \ {Best(win, set, desired)} :
              BetterCandidate(win, Best(win, set, desired), w, desired)
<1> DEFINE P(w) == Penalty(win[w].role, desired)
           least == {P(w) : w \in set}
<1>1. \A w \in set : P(w) \in Nat /\ win[w].rank \in Nat /\ TieRank[w] \in Nat
  BY PenaltyHolds, TrackerAssumption
<1>2. PICK p \in least : \A q \in least : p <= q
  <2>1. least \in SUBSET Nat /\ least # {}  BY <1>1
  <2> QED BY <2>1, LeastOf
<1> DEFINE near == {w \in set : P(w) = p}
           ranks == {win[w].rank : w \in near}
<1>3. near # {} /\ \A w \in set \ near : p < P(w)
  BY <1>1, <1>2
<1>4. PICK q \in ranks : \A r \in ranks : q <= r
  <2>1. ranks \in SUBSET Nat /\ ranks # {}  BY <1>1, <1>3
  <2> QED BY <2>1, LeastOf
<1> DEFINE those == {w \in near : win[w].rank = q}
           ties == {TieRank[w] : w \in those}
<1>5. those # {} /\ \A w \in near \ those : q < win[w].rank
  <2>1. \A w \in near : win[w].rank \in Nat /\ win[w].rank \in ranks  BY <1>1
  <2>2. \E w \in near : win[w].rank = q  BY <1>4
  <2>3. q \in Nat  BY <2>1, <2>2
  <2> HIDE DEF near, ranks
  <2>4. \A w \in near : q <= win[w].rank  BY <1>4, <2>1
  <2> QED BY <2>1, <2>2, <2>3, <2>4
<1>6. PICK r \in ties : \A t \in ties : r <= t
  <2>1. ties \in SUBSET Nat /\ ties # {}  BY <1>1, <1>5
  <2> QED BY <2>1, LeastOf
<1>7. PICK v \in those : TieRank[v] = r  OBVIOUS
<1>8. \A w \in those \ {v} : TieRank[v] < TieRank[w]
  <2>1. those \in SUBSET set /\ \A w \in those : TieRank[w] \in ties  OBVIOUS
  <2> HIDE DEF those, ties
  <2>2. \A w \in those \ {v} : TieRank[v] # TieRank[w]  BY <1>7, <2>1, TrackerAssumption
  <2> QED BY <1>1, <1>6, <1>7, <2>1, <2>2
<1>9. ASSUME NEW w \in set \ {v} PROVE BetterCandidate(win, v, w, desired)
  <2>1. v \in set /\ P(v) = p /\ win[v].rank = q  BY <1>7
  <2>2. P(v) < P(w) \/ (P(v) = P(w) /\ (win[v].rank < win[w].rank
          \/ (win[v].rank = win[w].rank /\ TieRank[v] < TieRank[w])))
    BY <1>3, <1>5, <1>8, <1>9, <2>1
  <2> QED BY <2>2 DEF BetterCandidate
<1> QED BY <1>7, <1>9 DEF Best

(* The one candidate of an input target.                                      *)
LEMMA SoleHolds ==
  ASSUME NEW set \in SUBSET TrackedWindow, NEW w \in set, Cardinality(set) <= 1
  PROVE  set = {w}
<1>1. IsFiniteSet(set)  BY TrackerAssumption, FS_Subset
<1>2. {w} \in SUBSET set /\ Cardinality({w}) = 1  BY FS_Singleton
<1>3. Cardinality(set) \in Nat  BY <1>1, FS_CardinalityType
<1> QED BY <1>1, <1>2, <1>3, FS_Subset

LEMMA BoundHolds ==
  ASSUME NEW win, WindowsHold(win), NEW auth, NEW s,
         NEW kind \in Kind, NEW desired \in Role, NEW limit \in Nat,
         NEW set, set = TargetCandidates(win, auth, s, desired, limit), set # {},
         ~Ambiguous(set, kind),
         NEW w, w = Best(win, set, desired)
  PROVE  /\ BindingHolds(BindTo(win, w, desired), desired)
         /\ BindingOwned(win, auth, s, kind, BindTo(win, w, desired))
<1> DEFINE bound == BindTo(win, w, desired)
<1>1. set \in SUBSET TrackedWindow /\ \A v \in set : OwnedIn(win, auth, s, v)
  BY DEF TargetCandidates
<1>2. \A v \in set : win[v].role \in Role /\ win[v].rank \in Nat
  BY <1>1 DEF WindowsHold, OwnedIn
<1>3. w \in set  BY <1>1, <1>2, BestHolds
<1>4. /\ w \in TrackedWindow /\ OwnedIn(win, auth, s, w) /\ win[w].role \in Role
      /\ win[w].identity \in Nat /\ Penalty(win[w].role, desired) <= limit
      /\ Penalty(win[w].role, desired) \in Nat
  BY <1>1, <1>2, <1>3, PenaltyHolds DEF TargetCandidates, WindowsHold
<1>5. bound = [status |-> "Bound", desired |-> desired,
               target |-> [window |-> w, identity |-> win[w].identity],
               role |-> win[w].role, limit |-> Penalty(win[w].role, desired)]
  BY DEF BindTo
<1> HIDE DEF bound
<1>6. BindingHolds(bound, desired)
  BY <1>4, <1>5 DEF BindingHolds, BindingStatus, Binding, Target
<1>7. ASSUME kind = "input"
      PROVE  TargetCandidates(win, auth, s, desired, bound.limit) \subseteq {w}
  <2>1. Cardinality(set) <= 1
    <3>1. Cardinality(set) \in Nat  BY <1>1, TrackerAssumption, FS_Subset, FS_CardinalityType
    <3> QED BY <1>7, <3>1 DEF Ambiguous
  <2>2. set = {w}  BY <1>1, <1>3, <2>1, SoleHolds
  <2>3. bound.limit <= limit /\ bound.limit \in Nat  BY <1>4, <1>5
  <2>4. ASSUME NEW v \in TargetCandidates(win, auth, s, desired, bound.limit)
        PROVE  v \in set
    <3>1. v \in TrackedWindow /\ OwnedIn(win, auth, s, v)
          /\ Penalty(win[v].role, desired) <= bound.limit
      BY <2>4 DEF TargetCandidates
    <3>2. Penalty(win[v].role, desired) \in Nat
      BY <3>1, PenaltyHolds DEF OwnedIn, WindowsHold
    <3> QED BY <2>3, <3>1, <3>2 DEF TargetCandidates
  <2> QED BY <2>2, <2>4
<1>8. BindingOwned(win, auth, s, kind, bound)
  BY <1>4, <1>5, <1>7 DEF BindingOwned
<1> QED BY <1>6, <1>8 DEF bound

LEMMA UnboundHolds ==
  ASSUME NEW win, NEW auth, NEW s, NEW kind \in Kind, NEW desired \in Role, NEW limit \in Nat,
         NEW status \in BindingStatus \ {"Bound"},
         NEW r, r = Unbound(status, desired, limit)
  PROVE  /\ BindingHolds(r, desired) /\ BindingOwned(win, auth, s, kind, r)
         /\ r.status # "Bound"
BY DEF Unbound, BindingHolds, BindingOwned, BindingStatus, NoTarget, Binding, Target

(* The bindings without a window that the code makes.                         *)
LEMMA StartsHold ==
  ASSUME NEW desired \in Role
  PROVE  /\ \A limit \in Nat : /\ BindingHolds(StartReacquisition(desired, limit), desired)
                               /\ StartReacquisition(desired, limit).status # "Bound"
         /\ BindingHolds(SetUnresolved(desired), desired)
         /\ SetUnresolved(desired).status # "Bound"
<1>1. "visual" \in Kind /\ AnyRole \in Nat  BY DEF Kind, AnyRole
<1>2. "Reacquiring" \in BindingStatus \ {"Bound"} /\ "Unresolved" \in BindingStatus \ {"Bound"}
  BY DEF BindingStatus
<1> QED BY <1>1, <1>2, UnboundHolds DEF StartReacquisition, SetUnresolved

LEMMA FailClosedHolds ==
  ASSUME NEW win, NEW auth, NEW s, NEW kind \in Kind, NEW desired \in Role, NEW b,
         BindingHolds(b, desired)
  PROVE  /\ BindingHolds(FailClosedBinding(b), desired)
         /\ BindingOwned(win, auth, s, kind, FailClosedBinding(b))
<1>1. b.limit \in Nat /\ b.desired = desired  BY DEF BindingHolds, Binding
<1>2. "FailedClosed" \in BindingStatus \ {"Bound"}  BY DEF BindingStatus
<1> QED BY <1>1, <1>2, UnboundHolds DEF FailClosedBinding

LEMMA ReacquiredHolds ==
  ASSUME NEW win, WindowsHold(win), NEW auth, NEW s,
         NEW kind \in Kind, NEW desired \in Role, NEW b, BindingHolds(b, desired),
         NEW late \in BOOLEAN, b.status # "Bound"
  PROVE  /\ BindingHolds(Reacquired(win, auth, s, kind, b, late), desired)
         /\ BindingOwned(win, auth, s, kind, Reacquired(win, auth, s, kind, b, late))
<1> DEFINE set == TargetCandidates(win, auth, s, b.desired, b.limit)
<1>1. b.limit \in Nat /\ b.desired = desired  BY DEF BindingHolds, Binding
<1>2. CASE Ambiguous(set, kind)  BY <1>2, FailClosedHolds DEF Reacquired
<1>3. CASE ~Ambiguous(set, kind) /\ set # {}
  <2>1. Reacquired(win, auth, s, kind, b, late) = BindTo(win, Best(win, set, desired), desired)
    BY <1>1, <1>3 DEF Reacquired
  <2> QED BY <1>1, <1>3, <2>1, BoundHolds
<1>4. CASE ~Ambiguous(set, kind) /\ set = {}
  <2>1. Reacquired(win, auth, s, kind, b, late) \in {FailClosedBinding(b), b}
    BY <1>4 DEF Reacquired
  <2>2. BindingOwned(win, auth, s, kind, b)  BY DEF BindingOwned
  <2> QED BY <2>1, <2>2, FailClosedHolds
<1> QED BY <1>2, <1>3, <1>4

(* A window that stays bound for input has no rival: one would be nearer to   *)
(* the role than it is, and would have taken its place.                       *)
LEMMA ReboundHolds ==
  ASSUME NEW win, WindowsHold(win), NEW auth, NEW s,
         NEW kind \in Kind, NEW desired \in Role, NEW b, BindingHolds(b, desired),
         b.status = "Bound"
  PROVE  /\ BindingHolds(Rebound(win, auth, s, kind, b), desired)
         /\ BindingOwned(win, auth, s, kind, Rebound(win, auth, s, kind, b))
<1> DEFINE w == b.target.window
           kept == OwnedIn(win, auth, s, w) /\ win[w].identity = b.target.identity
           limit == IF kind = "input" THEN b.limit ELSE AnyRole
           set == TargetCandidates(win, auth, s, b.desired, limit)
           best == Best(win, set, b.desired)
<1>1. /\ w \in TrackedWindow /\ b.role \in Role /\ b.limit \in Nat /\ b.desired = desired
      /\ limit \in Nat
  BY DEF BindingHolds, AnyRole, Binding
<1>2. CASE ~kept
  <2> DEFINE r == StartReacquisition(b.desired, Penalty(b.role, b.desired))
  <2>1. Rebound(win, auth, s, kind, b) = Reacquired(win, auth, s, kind, r, FALSE)
    BY <1>2 DEF Rebound
  <2>2. BindingHolds(r, desired) /\ r.status # "Bound"
    BY <1>1, PenaltyHolds, StartsHold
  <2> HIDE DEF r
  <2> QED BY <2>1, <2>2, ReacquiredHolds
<1>3. CASE kept /\ Ambiguous(set, kind)
  <2>1. Rebound(win, auth, s, kind, b) = FailClosedBinding(b)  BY <1>3 DEF Rebound
  <2> QED BY <2>1, FailClosedHolds
<1>4. CASE kept /\ ~Ambiguous(set, kind) /\ set # {} /\ best # w
           /\ BetterCandidate(win, best, w, b.desired)
  <2>1. Rebound(win, auth, s, kind, b) = BindTo(win, best, b.desired)
    BY <1>4 DEF Rebound
  <2> QED BY <1>1, <1>4, <2>1, BoundHolds
<1>5. CASE kept /\ ~Ambiguous(set, kind)
           /\ ~(set # {} /\ best # w /\ BetterCandidate(win, best, w, b.desired))
  <2> DEFINE n == [b EXCEPT !.role = win[w].role]
  <2>1. Rebound(win, auth, s, kind, b) = n  BY <1>5 DEF Rebound
  <2>2. win[w].role \in Role  BY <1>1, <1>5 DEF OwnedIn, WindowsHold
  <2>3. n \in Binding /\ n.status = b.status /\ n.desired = b.desired /\ n.target = b.target
        /\ n.limit = b.limit /\ n.role = win[w].role
    BY <2>2 DEF BindingHolds, Binding
  <2>4. ASSUME kind = "input" PROVE set \subseteq {w}
    <3> SUFFICES ASSUME NEW v \in set PROVE v = w  OBVIOUS
    <3>1. set \in SUBSET TrackedWindow /\ \A u \in set : OwnedIn(win, auth, s, u)
      BY DEF TargetCandidates
    <3>2. Cardinality(set) <= 1
      <4>1. Cardinality(set) \in Nat  BY <3>1, TrackerAssumption, FS_Subset, FS_CardinalityType
      <4> QED BY <1>5, <2>4, <4>1 DEF Ambiguous
    <3>3. set = {v}  BY <3>1, <3>2, SoleHolds
    <3>4. \A u \in set : win[u].role \in Role /\ win[u].rank \in Nat
      BY <3>1 DEF WindowsHold, OwnedIn
    <3>5. best = v  BY <1>1, <3>1, <3>3, <3>4, BestHolds
    <3>6. w \in set \/ Penalty(win[w].role, desired) > b.limit
      <4>1. Penalty(win[w].role, desired) \in Nat  BY <2>2, PenaltyHolds
      <4> QED BY <1>1, <1>5, <2>4, <4>1 DEF TargetCandidates
    <3>7. Penalty(win[v].role, desired) \in Nat /\ Penalty(win[v].role, desired) <= b.limit
      BY <1>1, <2>4, <3>4, PenaltyHolds DEF TargetCandidates
    <3>8. CASE w \in set  BY <3>3, <3>8
    <3>9. CASE Penalty(win[w].role, desired) > b.limit
      <4>1. Penalty(win[w].role, desired) \in Nat  BY <2>2, PenaltyHolds
      <4>2. BetterCandidate(win, v, w, desired)
        BY <1>1, <3>7, <3>9, <4>1 DEF BetterCandidate
      <4> QED BY <1>1, <1>5, <3>5, <4>2
    <3> QED BY <3>6, <3>8, <3>9
  <2>5. BindingHolds(n, desired)
    BY <1>1, <2>2, <2>3 DEF BindingHolds
  <2>6. BindingOwned(win, auth, s, kind, n)
    BY <1>5, <2>3, <2>4 DEF BindingOwned
  <2> QED BY <2>1, <2>5, <2>6
<1> QED BY <1>2, <1>3, <1>4, <1>5

LEMMA RefreshHolds ==
  ASSUME NEW win, WindowsHold(win), NEW auth, NEW s,
         NEW kind \in Kind, NEW desired \in Role, NEW b, BindingHolds(b, desired),
         NEW late \in BOOLEAN
  PROVE  /\ BindingHolds(RefreshBinding(win, auth, s, kind, b, late), desired)
         /\ BindingOwned(win, auth, s, kind, RefreshBinding(win, auth, s, kind, b, late))
<1> DEFINE R == RefreshBinding(win, auth, s, kind, b, late)
           initial == StartReacquisition(b.desired, InitialLimit(b.desired, kind))
           none == auth[s].root = "none"
<1>1. ASSUME b.status # "Bound" PROVE BindingOwned(win, auth, s, kind, b)
  BY <1>1 DEF BindingOwned
<1>2. b.desired = desired  BY DEF BindingHolds
<1>3. none => R = (IF b.status = "Unresolved" THEN b ELSE SetUnresolved(b.desired))
  BY Zenon DEF RefreshBinding
<1>4. ~none /\ b.status = "Unresolved" =>
        R = Reacquired(win, auth, s, kind, initial, FALSE)
  BY Zenon DEF RefreshBinding
<1>5. ~none /\ b.status = "Bound" => R = Rebound(win, auth, s, kind, b)
  BY Zenon DEF RefreshBinding
<1>6. ~none /\ b.status = "Reacquiring" => R = Reacquired(win, auth, s, kind, b, late)
  BY Zenon DEF RefreshBinding
<1>7. ~none /\ b.status = "FailedClosed" => R = b
  BY Zenon DEF RefreshBinding
<1> HIDE DEF R, none
<1>8. CASE none
  <2>1. /\ BindingHolds(SetUnresolved(desired), desired)
        /\ BindingOwned(win, auth, s, kind, SetUnresolved(desired))
    BY StartsHold DEF BindingOwned
  <2> QED BY <1>1, <1>2, <1>3, <1>8, <2>1 DEF R
<1>9. CASE ~none /\ b.status = "Unresolved"
  <2>1. BindingHolds(initial, desired) /\ initial.status # "Bound"
    BY <1>2, InitialLimitHolds, StartsHold
  <2> HIDE DEF initial
  <2> QED BY <1>4, <1>9, <2>1, ReacquiredHolds DEF R
<1>10. CASE ~none /\ b.status = "Bound"
  BY <1>5, <1>10, ReboundHolds DEF R
<1>11. CASE ~none /\ b.status = "Reacquiring"
  BY <1>6, <1>11, ReacquiredHolds DEF R
<1>12. CASE ~none /\ b.status = "FailedClosed"
  BY <1>1, <1>7, <1>12 DEF R
<1>13. b.status \in BindingStatus  BY DEF BindingHolds, Binding
<1> QED BY <1>8, <1>9, <1>10, <1>11, <1>12, <1>13 DEF BindingStatus

TargetsHold(bs, rules) ==
  /\ bs \in [TrackedSeat -> [Kind -> Binding]]
  /\ \A s \in TrackedSeat :
       /\ BindingHolds(bs[s]["visual"], rules.visual)
       /\ Distinct(rules) => BindingHolds(bs[s]["input"], rules.input)
       /\ ~Distinct(rules) => bs[s]["input"] = bs[s]["visual"]

TargetsOwned(bs, win, auth, distinct) ==
  \A s \in TrackedSeat :
    /\ BindingOwned(win, auth, s, "visual", bs[s]["visual"])
    /\ distinct => BindingOwned(win, auth, s, "input", bs[s]["input"])

LEMMA RolesHold ==
  ASSUME NEW rules \in TargetRules
  PROVE  /\ rules.visual \in Role /\ (Distinct(rules) => rules.input \in Role)
         /\ \A k \in Kind : Desired(rules, k) \in Role
         /\ Desired(rules, "visual") = rules.visual
         /\ Distinct(rules) => Desired(rules, "input") = rules.input
<1>1. rules \in [visual : Role, input : Role \cup {"none"}]  BY TrackerAssumption
<1> QED BY <1>1 DEF Distinct, Desired, Kind

LEMMA RefreshTargetsHold ==
  ASSUME NEW win, WindowsHold(win), NEW auth, NEW rules \in TargetRules,
         NEW bs, TargetsHold(bs, rules), NEW late \in BOOLEAN
  PROVE  /\ TargetsHold(RefreshTargets(win, auth, bs, Distinct(rules), late), rules)
         /\ TargetsOwned(RefreshTargets(win, auth, bs, Distinct(rules), late), win, auth,
                         Distinct(rules))
<1> DEFINE V(s) == RefreshBinding(win, auth, s, "visual", bs[s]["visual"], late)
           I(s) == RefreshBinding(win, auth, s, "input", bs[s]["input"], late)
           distinct == Distinct(rules)
           new == RefreshTargets(win, auth, bs, distinct, late)
<1>0. "visual" \in Kind /\ "input" \in Kind  BY DEF Kind
<1>1. \A s \in TrackedSeat : /\ BindingHolds(V(s), rules.visual)
                             /\ BindingOwned(win, auth, s, "visual", V(s))
  BY <1>0, RolesHold, RefreshHolds DEF TargetsHold
<1>2. ASSUME distinct
      PROVE  \A s \in TrackedSeat : /\ BindingHolds(I(s), rules.input)
                                    /\ BindingOwned(win, auth, s, "input", I(s))
  BY <1>0, <1>2, RolesHold, RefreshHolds DEF TargetsHold
<1>3. new = [s \in TrackedSeat |->
               [k \in Kind |-> IF k = "visual" \/ ~distinct THEN V(s) ELSE I(s)]]
  BY DEF RefreshTargets
<1> HIDE DEF V, I, new, distinct
<1>4. \A s \in TrackedSeat : /\ new[s]["visual"] = V(s)
                             /\ distinct => new[s]["input"] = I(s)
                             /\ ~distinct => new[s]["input"] = V(s)
  BY <1>3 DEF Kind
<1>5. new \in [TrackedSeat -> [Kind -> Binding]]
  BY <1>1, <1>2, <1>3 DEF BindingHolds
<1> QED BY <1>1, <1>2, <1>4, <1>5 DEF TargetsHold, TargetsOwned, new, distinct

(* What starts over has no target.                                            *)
LEMMA BindingsReset ==
  ASSUME NEW auth, NEW s, NEW begin \in BOOLEAN, NEW rules \in TargetRules
  PROVE  LET r == ResetBindings(auth, s, begin, rules)
         IN  /\ r \in [Kind -> Binding]
             /\ BindingHolds(r["visual"], rules.visual)
             /\ Distinct(rules) => BindingHolds(r["input"], rules.input)
             /\ \A k \in Kind : r[k].status # "Bound"
             /\ ~Distinct(rules) => r["input"] = r["visual"]
<1> DEFINE F(k) == IF begin /\ auth[s].root # "none"
                   THEN StartReacquisition(Desired(rules, k), InitialLimit(Desired(rules, k), k))
                   ELSE SetUnresolved(Desired(rules, k))
           r == ResetBindings(auth, s, begin, rules)
<1>1. \A k \in Kind : BindingHolds(F(k), Desired(rules, k)) /\ F(k).status # "Bound"
  BY RolesHold, InitialLimitHolds, StartsHold
<1>2. r = [k \in Kind |-> IF Distinct(rules) THEN F(k) ELSE F("visual")]
  BY DEF ResetBindings
<1> HIDE DEF F, r
<1>3. \A k \in Kind : r[k] = (IF Distinct(rules) THEN F(k) ELSE F("visual"))
  BY <1>2
<1>4. "visual" \in Kind /\ "input" \in Kind  BY DEF Kind
<1>5. r \in [Kind -> Binding]
  BY <1>1, <1>2, <1>4 DEF BindingHolds
<1>6. BindingHolds(r["visual"], rules.visual)
      /\ (Distinct(rules) => BindingHolds(r["input"], rules.input))
  BY <1>1, <1>3, <1>4, RolesHold
<1> QED BY <1>1, <1>3, <1>4, <1>5, <1>6 DEF r

LEMMA TargetsReset ==
  ASSUME NEW auth, NEW begin \in BOOLEAN, NEW rules \in TargetRules,
         NEW reset, reset = [s \in TrackedSeat |-> ResetBindings(auth, s, begin, rules)]
  PROVE  /\ TargetsHold(reset, rules)
         /\ \A win, other : TargetsOwned(reset, win, other, Distinct(rules))
<1> DEFINE R(s) == ResetBindings(auth, s, begin, rules)
<1>1. \A s \in TrackedSeat : /\ R(s) \in [Kind -> Binding]
                             /\ BindingHolds(R(s)["visual"], rules.visual)
                             /\ Distinct(rules) => BindingHolds(R(s)["input"], rules.input)
                             /\ ~Distinct(rules) => R(s)["input"] = R(s)["visual"]
                             /\ R(s)["visual"].status # "Bound"
                             /\ R(s)["input"].status # "Bound"
  BY BindingsReset DEF Kind
<1>2. reset = [s \in TrackedSeat |-> R(s)]  OBVIOUS
<1> HIDE DEF R
<1>3. \A s \in TrackedSeat : reset[s] = R(s)  BY <1>2
<1>4. reset \in [TrackedSeat -> [Kind -> Binding]]  BY <1>1, <1>2
<1>5. TargetsHold(reset, rules)  BY <1>1, <1>3, <1>4 DEF TargetsHold
<1>6. \A win, other : TargetsOwned(reset, win, other, Distinct(rules))
  BY <1>1, <1>3 DEF TargetsOwned, BindingOwned
<1> QED BY <1>5, <1>6

TrackedEntry == [identity : 0..MaxIdentity, seat : TrackedSeat \cup {0},
                 role : Role \cup {"none"}, rank : Nat]
Inspected == [window : TrackedWindow \cup {"none"}, seat : TrackedSeat \cup {0},
              role : Role \cup {"none"}, rank : Nat]

TrackerInv ==
  /\ TrackerTypeOK
  /\ running \in BOOLEAN
  /\ tracked \in [TrackedWindow -> TrackedEntry] /\ WindowsHold(tracked)
  /\ nextIdentity \in [TrackedWindow -> 1..(MaxIdentity + 1)]
  /\ \A w \in TrackedWindow : tracked[w].identity < nextIdentity[w]
  /\ inspected \in Inspected /\ (inspected.seat # 0 => inspected.role \in Role)
  /\ TargetsHold(targets, targetRoles)
  /\ running => TargetsOwned(targets, tracked, authority, Distinct(targetRoles))

LEMMA TrackerSuffices == TrackerInv => TrackerTypeOK /\ TargetsAreOwned
<1> SUFFICES ASSUME TrackerInv PROVE TrackerTypeOK /\ TargetsAreOwned  OBVIOUS
<1>1. ASSUME running, NEW s \in TrackedSeat, NEW k \in Kind, targets[s][k].status = "Bound"
      PROVE  /\ OwnedIn(tracked, authority, s, targets[s][k].target.window)
             /\ tracked[targets[s][k].target.window].identity = targets[s][k].target.identity
             /\ tracked[targets[s][k].target.window].role = targets[s][k].role
             /\ k = "input" /\ Distinct(targetRoles) =>
                  TargetCandidates(tracked, authority, s, targetRoles.input, targets[s][k].limit)
                    \subseteq {targets[s][k].target.window}
  <2> USE <1>1
  <2>1. /\ BindingOwned(tracked, authority, s, "visual", targets[s]["visual"])
        /\ Distinct(targetRoles) =>
             /\ BindingOwned(tracked, authority, s, "input", targets[s]["input"])
             /\ targets[s]["input"].desired = targetRoles.input
        /\ ~Distinct(targetRoles) => targets[s]["input"] = targets[s]["visual"]
    BY DEF TrackerInv, TargetsHold, TargetsOwned, BindingHolds
  <2>2. CASE k = "visual"  BY <2>1, <2>2 DEF BindingOwned
  <2>3. CASE k = "input" /\ Distinct(targetRoles)  BY <2>1, <2>3 DEF BindingOwned
  <2>4. CASE k = "input" /\ ~Distinct(targetRoles)  BY <2>1, <2>4 DEF BindingOwned
  <2> QED BY <2>2, <2>3, <2>4 DEF Kind
<1> QED BY <1>1 DEF TargetsAreOwned, TrackerInv

LEMMA UnconflictedHolds ==
  ASSUME NEW claims \in [TrackedSeat -> TreeClaim]
  PROVE  Unconflicted(claims) \in [TrackedSeat -> ProcessTree]
<1>1. \A s \in TrackedSeat : claims[s].root \in TrackedProcess \cup {"none"}
                             /\ claims[s].live \in SUBSET TrackedProcess
  BY DEF TreeClaim
<1>2. \A s \in TrackedSeat :
        [root |-> claims[s].root, live |-> claims[s].live] \in ProcessTree
  BY <1>1 DEF ProcessTree
<1>3. NoTree \in ProcessTree  BY DEF NoTree, ProcessTree
<1> QED BY <1>2, <1>3, Zenon DEF Unconflicted

LEMMA PublishableHolds ==
  ASSUME NEW published \in PublishableTrees
  PROVE  published \in [TrackedSeat -> ProcessTree]
BY UnconflictedHolds DEF PublishableTrees

LEMMA UntrackedHolds ==
  ASSUME NEW win, win = [w \in TrackedWindow |-> Untracked]
  PROVE  win \in [TrackedWindow -> TrackedEntry] /\ WindowsHold(win)
         /\ \A w \in TrackedWindow : win[w].identity = 0 /\ win[w].seat = 0
<1>1. MaxIdentity \in Nat  BY TrackerAssumption
<1> QED BY <1>1 DEF Untracked, TrackedEntry, WindowsHold

LEMMA TrackerStarts == TrackerInit => TrackerInv
<1> SUFFICES ASSUME TrackerInit PROVE TrackerInv  OBVIOUS
<1>1. trees \in [TrackedSeat -> ProcessTree] /\ authority = trees /\ targetRoles \in TargetRules
  BY PublishableHolds DEF TrackerInit
<1>2. targets = [s \in TrackedSeat |-> ResetBindings(authority, s, FALSE, targetRoles)]
      /\ running = FALSE
  BY DEF TrackerInit
<1>3. TargetsHold(targets, targetRoles)
  BY <1>1, <1>2, TargetsReset
<1>4. tracked \in [TrackedWindow -> TrackedEntry] /\ WindowsHold(tracked)
      /\ \A w \in TrackedWindow : tracked[w].identity = 0 /\ tracked[w].seat = 0
  BY UntrackedHolds DEF TrackerInit
<1>5. TrackerTypeOK
  BY <1>1, <1>3, <1>4, TrackerAssumption
     DEF TrackerTypeOK, TargetsHold, Binding, BindingStatus
<1>6. /\ nextIdentity \in [TrackedWindow -> 1..(MaxIdentity + 1)]
      /\ \A w \in TrackedWindow : tracked[w].identity < nextIdentity[w]
      /\ inspected \in Inspected /\ inspected.seat = 0
  BY <1>4, TrackerAssumption DEF TrackerInit, NothingSeen, Inspected
<1> QED BY <1>2, <1>3, <1>4, <1>5, <1>6 DEF TrackerInv

LEMMA OwnerHolds ==
  ASSUME NEW w
  PROVE  OwnerFor(w) \in TrackedSeat \cup {0}
<1> DEFINE owners == {s \in TrackedSeat : ProcessOf[w] \in trees[s].live}
<1>1. owners \in SUBSET Nat  BY TrackerAssumption
<1>2. CASE owners = {}  BY <1>2 DEF OwnerFor
<1>3. CASE owners # {}
  <2>1. \E s \in owners : \A t \in owners : s <= t  BY <1>1, <1>3, LeastOf
  <2>2. OwnerFor(w) = CHOOSE s \in owners : \A t \in owners : s <= t  BY <1>3 DEF OwnerFor
  <2>3. OwnerFor(w) \in owners
    <3> HIDE DEF owners
    <3> QED BY <2>1, <2>2
  <2> QED BY <2>3
<1> QED BY <1>2, <1>3

LEMMA InspectHolds ==
  ASSUME NEW w \in TrackedWindow, Inspect(w)
  PROVE  /\ inspected' \in Inspected /\ (inspected'.seat # 0 => inspected'.role \in Role)
         /\ inspected'.seat \in {0, OwnerFor(w)}
<1>1. CASE inspected' = NothingSeen(w)
  BY <1>1 DEF NothingSeen, Inspected
<1>2. CASE \E seen \in Appearance :
             inspected' = [window |-> w, seat |-> OwnerFor(w),
                           role |-> seen.role, rank |-> seen.rank]
  <2>1. PICK seen \in Appearance :
          inspected' = [window |-> w, seat |-> OwnerFor(w),
                        role |-> seen.role, rank |-> seen.rank]
    BY <1>2
  <2>2. seen \in [role : Role, rank : Nat]  BY TrackerAssumption
  <2> QED BY <2>1, <2>2, OwnerHolds DEF Inspected
<1> QED BY <1>1, <1>2 DEF Inspect

(* What no step of the tracker but one that binds has to do with targets.     *)
LEMMA TrackerSteps == TrackerInv /\ [TrackerNext]_trackerVars => TrackerInv'
<1> SUFFICES ASSUME TrackerInv, [TrackerNext]_trackerVars PROVE TrackerInv'  OBVIOUS
<1>0. /\ MaxIdentity \in Nat /\ TrackedSeat \subseteq Nat \ {0}
      /\ \A w \in TrackedWindow : nextIdentity[w] \in 1..(MaxIdentity + 1)
      /\ WindowsHold(tracked) /\ TargetsHold(targets, targetRoles) /\ running \in BOOLEAN
      /\ targetRoles \in TargetRules
  BY TrackerAssumption DEF TrackerInv, TrackerTypeOK
<1>1. ASSUME NEW w \in TrackedWindow, Inspect(w) PROVE TrackerInv'
  <2>1. inspected' \in Inspected /\ (inspected'.seat # 0 => inspected'.role \in Role)
    BY <1>1, InspectHolds
  <2>2. UNCHANGED <<trees, authority, tracked, targets, targetRoles, running, nextIdentity>>
    BY <1>1 DEF Inspect
  <2> QED BY <2>1, <2>2 DEF TrackerInv, TrackerTypeOK
<1>2. ASSUME NEW late \in BOOLEAN, Record(late) PROVE TrackerInv'
  <2> DEFINE v == inspected.window
             new == inspected.seat # 0 /\ tracked[v].identity = 0
             entry == IF inspected.seat = 0 THEN Untracked
                      ELSE [identity |-> IF new THEN nextIdentity[v] ELSE tracked[v].identity,
                            seat |-> inspected.seat, role |-> inspected.role,
                            rank |-> inspected.rank]
  <2>1. /\ v \in TrackedWindow /\ inspected \in Inspected
        /\ inspected.seat # 0 => inspected.role \in Role
        /\ tracked' = [tracked EXCEPT ![v] = entry]
        /\ new => nextIdentity[v] <= MaxIdentity
        /\ nextIdentity' = [nextIdentity EXCEPT ![v] = nextIdentity[v] + (IF new THEN 1 ELSE 0)]
    BY <1>2 DEF Record, TrackerInv
  <2>a. /\ nextIdentity[v] \in Nat /\ nextIdentity[v] >= 1 /\ tracked[v].identity < nextIdentity[v]
        /\ tracked[v].identity \in 0..MaxIdentity
    BY <2>1, <1>0 DEF TrackerInv, TrackedEntry
  <2>2. entry \in TrackedEntry /\ (entry.identity # 0 => entry.role \in Role)
    BY <2>1, <2>a, <1>0 DEF Untracked, TrackedEntry, Inspected
  <2>3. entry.identity < nextIdentity[v] + (IF new THEN 1 ELSE 0)
    BY <2>a DEF Untracked
  <2>4. /\ tracked' \in [TrackedWindow -> TrackedEntry]
        /\ \A w \in TrackedWindow : tracked'[w] = IF w = v THEN entry ELSE tracked[w]
    <3> HIDE DEF entry
    <3> QED BY <2>1, <2>2 DEF TrackerInv
  <2>5. /\ nextIdentity' \in [TrackedWindow -> 1..(MaxIdentity + 1)]
        /\ \A w \in TrackedWindow : nextIdentity'[w] =
             IF w = v THEN nextIdentity[v] + (IF new THEN 1 ELSE 0) ELSE nextIdentity[w]
    <3>1. nextIdentity[v] + (IF new THEN 1 ELSE 0) \in 1..(MaxIdentity + 1)
      BY <2>1, <1>0
    <3> HIDE DEF new
    <3> QED BY <2>1, <3>1 DEF TrackerInv
  <2>6. \A w \in TrackedWindow : tracked'[w].identity < nextIdentity'[w]
    <3> HIDE DEF entry, new
    <3> QED BY <2>3, <2>4, <2>5 DEF TrackerInv
  <2>7. WindowsHold(tracked')
    <3> HIDE DEF entry
    <3>1. entry.identity \in Nat /\ entry.rank \in Nat
      BY <1>0, <2>2 DEF TrackedEntry
    <3> QED BY <1>0, <2>2, <2>4, <3>1 DEF WindowsHold
  <2>8. \A w \in TrackedWindow : /\ tracked'[w].identity \in 0..MaxIdentity
                                 /\ tracked'[w].seat \in TrackedSeat \cup {0}
    BY <2>4 DEF TrackedEntry
  <2>9. targets' = RefreshTargets(tracked', authority, targets, Distinct(targetRoles), late)
    BY <1>2 DEF Record
  <2>10. /\ TargetsHold(targets', targetRoles)
         /\ TargetsOwned(targets', tracked', authority, Distinct(targetRoles))
    BY <1>0, <2>7, <2>9, RefreshTargetsHold
  <2>11. UNCHANGED <<trees, authority, targetRoles, running>>
         /\ inspected' = NothingSeen("none")
    BY <1>2 DEF Record
  <2>12. TrackerTypeOK'
    BY <2>8, <2>10, <2>11 DEF TrackerInv, TrackerTypeOK, TargetsHold, Binding, BindingStatus
  <2>13. inspected' \in Inspected /\ inspected'.seat = 0
    BY <2>11 DEF NothingSeen, Inspected
  <2> QED BY <2>4, <2>5, <2>6, <2>7, <2>10, <2>11, <2>12, <2>13 DEF TrackerInv
<1>3. ASSUME /\ tracked' = [w \in TrackedWindow |-> Untracked]
             /\ TargetsHold(targets', targetRoles)
             /\ running' => TargetsOwned(targets', tracked', authority, Distinct(targetRoles))
             /\ running' \in BOOLEAN
             /\ UNCHANGED <<trees, authority, inspected, targetRoles, nextIdentity>>
      PROVE  TrackerInv'
  <2>1. /\ tracked' \in [TrackedWindow -> TrackedEntry] /\ WindowsHold(tracked')
        /\ \A w \in TrackedWindow : tracked'[w].identity = 0 /\ tracked'[w].seat = 0
    BY <1>3, UntrackedHolds
  <2>2. TrackerTypeOK'
    BY <1>0, <1>3, <2>1 DEF TrackerInv, TrackerTypeOK, TargetsHold, Binding, BindingStatus
  <2>3. \A w \in TrackedWindow : tracked'[w].identity < nextIdentity'[w]
    BY <1>0, <1>3, <2>1
  <2> QED BY <1>3, <2>1, <2>2, <2>3 DEF TrackerInv
<1>4. CASE Overflow
  <2>1. /\ tracked' = [w \in TrackedWindow |-> Untracked]
        /\ targets' = RefreshTargets(tracked', authority, targets, Distinct(targetRoles), FALSE)
        /\ UNCHANGED <<trees, authority, inspected, targetRoles, running, nextIdentity>>
    BY <1>4 DEF Overflow
  <2>2. WindowsHold(tracked')  BY <2>1, UntrackedHolds
  <2>3. /\ TargetsHold(targets', targetRoles)
        /\ TargetsOwned(targets', tracked', authority, Distinct(targetRoles))
    BY <1>0, <2>1, <2>2, RefreshTargetsHold
  <2> QED BY <1>0, <1>3, <2>1, <2>3
<1>5. ASSUME NEW published \in PublishableTrees, PublishTrees(published)
      PROVE  TrackerInv'
  <2>1. trees' \in [TrackedSeat -> ProcessTree]
        /\ UNCHANGED <<authority, tracked, inspected, targets, targetRoles, running,
                       nextIdentity>>
    BY <1>5, PublishableHolds DEF PublishTrees
  <2> QED BY <2>1 DEF TrackerInv, TrackerTypeOK
<1>7. CASE AdoptTrees
  <2> DEFINE starts == {s \in TrackedSeat :
                trees[s] = NoTree \/ trees[s].root # authority[s].root}
             R(s) == ResetBindings(trees, s, running, targetRoles)
             started == [s \in TrackedSeat |-> IF s \in starts THEN R(s) ELSE targets[s]]
  <2>1. targets' = IF running
                   THEN RefreshTargets(tracked, trees, started, Distinct(targetRoles), FALSE)
                   ELSE started
    BY <1>7, Zenon DEF AdoptTrees
  <2>2. TargetsHold(started, targetRoles)
    <3>1. \A s \in TrackedSeat :
            /\ R(s) \in [Kind -> Binding]
            /\ BindingHolds(R(s)["visual"], targetRoles.visual)
            /\ Distinct(targetRoles) => BindingHolds(R(s)["input"], targetRoles.input)
            /\ ~Distinct(targetRoles) => R(s)["input"] = R(s)["visual"]
      BY <1>0, BindingsReset
    <3> HIDE DEF R, starts
    <3>3. \A s \in TrackedSeat : started[s] = IF s \in starts THEN R(s) ELSE targets[s]
      OBVIOUS
    <3>4. started \in [TrackedSeat -> [Kind -> Binding]]
      BY <1>0, <3>1 DEF TargetsHold
    <3> HIDE DEF started
    <3> QED BY <1>0, <3>1, <3>3, <3>4 DEF TargetsHold
  <2> HIDE DEF started, starts, R
  <2>3. /\ TargetsHold(targets', targetRoles)
        /\ running => TargetsOwned(targets', tracked, trees, Distinct(targetRoles))
    BY <1>0, <2>1, <2>2, RefreshTargetsHold
  <2>4. authority' = trees /\ UNCHANGED <<trees, tracked, inspected, targetRoles, running,
                 nextIdentity>>
    BY <1>7 DEF AdoptTrees
  <2>5. TrackerTypeOK'
    BY <2>3, <2>4 DEF TrackerInv, TrackerTypeOK, TargetsHold, Binding, BindingStatus
  <2> QED BY <2>3, <2>4, <2>5 DEF TrackerInv
<1>8. ASSUME NEW rules \in TargetRules, ChangeRules(rules) PROVE TrackerInv'
  <2> DEFINE reset == [s \in TrackedSeat |-> ResetBindings(authority, s, running, rules)]
  <2>1. /\ targetRoles' = rules
        /\ targets' = IF running
             THEN RefreshTargets(tracked, authority, reset, Distinct(rules), FALSE) ELSE reset
        /\ UNCHANGED <<trees, authority, tracked, inspected, running, nextIdentity>>
    BY <1>8 DEF ChangeRules
  <2>2. TargetsHold(reset, rules)  BY <1>0, TargetsReset
  <2> HIDE DEF reset
  <2>3. /\ TargetsHold(targets', rules)
        /\ running => TargetsOwned(targets', tracked, authority, Distinct(rules))
    BY <1>0, <2>1, <2>2, RefreshTargetsHold
  <2>4. TrackerTypeOK'
    <3>1. targets' \in [TrackedSeat -> [Kind -> Binding]]  BY <2>3 DEF TargetsHold
    <3>2. \A s \in TrackedSeat, k \in Kind : targets'[s][k].status
            \in {"Unresolved", "Reacquiring", "Bound", "FailedClosed"}
      BY <3>1 DEF Binding, BindingStatus
    <3>3. trees' = trees /\ authority' = authority /\ tracked' = tracked /\ targetRoles' = rules
      BY <2>1
    <3>4. TrackerTypeOK  BY DEF TrackerInv
    <3> QED BY <3>2, <3>3, <3>4 DEF TrackerTypeOK
  <2> QED BY <2>1, <2>3, <2>4 DEF TrackerInv
<1>10. CASE StartTracker
  BY <1>0, <1>3, <1>10, TargetsReset DEF StartTracker
<1>11. CASE StopTracking
  <2>1. UNCHANGED inspected  BY <1>11 DEF StopTracking
  <2> QED BY <1>0, <1>3, <1>11, <2>1, TargetsReset DEF StopTracking
<1>12. CASE UNCHANGED trackerVars
  <2>1. /\ UNCHANGED <<trees, authority, tracked, inspected, targets>>
        /\ UNCHANGED <<targetRoles, running, nextIdentity>>
    BY <1>12 DEF trackerVars
  <2>2. TrackerTypeOK'  BY <2>1 DEF TrackerInv, TrackerTypeOK
  <2>3. TargetsHold(targets', targetRoles') /\ WindowsHold(tracked')  BY <1>0, <2>1
  <2>4. running' => TargetsOwned(targets', tracked', authority', Distinct(targetRoles'))
    BY <2>1 DEF TrackerInv
  <2> QED BY <2>1, <2>2, <2>3, <2>4 DEF TrackerInv
<1> QED
  BY <1>1, <1>2, <1>4, <1>5, <1>7, <1>8, <1>10, <1>11, <1>12 DEF TrackerNext

-----------------------------------------------------------------------------
(* The placement and its lease.                                            *)

(* The game has all the processes, so a window that is known is the Seat's.   *)
PlacedTracker ==
  /\ trees[PlacedSeat].live = TrackedProcess /\ authority = trees
  /\ \A s \in TrackedSeat \ {PlacedSeat} : trees[s].live = {}
  /\ inspected.seat \in {0, PlacedSeat}
  /\ \A w \in TrackedWindow : tracked[w].identity # 0 => tracked[w].seat = PlacedSeat

LEMMA NothingHeld ==
  /\ NoRestore \in [target : Target, look : 0..MaxIdentity]
  /\ NoRestore.target.window \notin TrackedWindow
<1>1. MaxIdentity \in Nat /\ "none" \notin TrackedWindow  BY TrackerAssumption
<1>2. NoTarget \in Target /\ NoTarget.window = "none"  BY DEF NoTarget, Target
<1> QED BY <1>1, <1>2 DEF NoRestore

LEMMA ValidHolds ==
  ASSUME PlacedTracker, alive \subseteq TrackedWindow, NEW t
  PROVE  Valid(t) <=> /\ t.window \in alive /\ tracked[t.window].identity = t.identity
                      /\ t.identity # 0
<1>1. \A w \in TrackedWindow : ProcessOf[w] \in TrackedProcess  BY TrackerAssumption
<1> QED BY <1>1 DEF Valid, OwnedIn, PlacedTracker

LEMMA PlacedTrackerStarts == PlacementInit => PlacedTracker
<1> SUFFICES ASSUME PlacementInit PROVE PlacedTracker  OBVIOUS
<1>1. PICK claims \in [TrackedSeat -> TreeClaim] : trees = Unconflicted(claims)
  BY DEF PlacementInit, TrackerInit, PublishableTrees
<1>2. \A s \in TrackedSeat \ {PlacedSeat} : trees[s].live = {}
  <2> SUFFICES ASSUME NEW s \in TrackedSeat \ {PlacedSeat}, claims[s].root # "none"
               PROVE  trees[s] = NoTree
    BY <1>1, Zenon DEF Unconflicted, NoTree
  <2>1. PlacedSeat \in TrackedSeat  BY PlacementAssumption
  <2>2. claims[s] \in TreeClaim /\ claims[PlacedSeat] \in TreeClaim  BY <2>1
  <2>3. trees[PlacedSeat] # NoTree  BY DEF PlacementInit, NoTree
  <2>4. /\ claims[PlacedSeat].root # "none"
        /\ trees[PlacedSeat] = [root |-> claims[PlacedSeat].root, live |-> claims[PlacedSeat].live]
    BY <1>1, <2>1, <2>3 DEF Unconflicted
  <2>5. claims[PlacedSeat].live = TrackedProcess  BY <2>4 DEF PlacementInit
  <2>6. claims[s].root \in Claimed(claims[s]) \cap Claimed(claims[PlacedSeat])
    BY <2>2, <2>4, <2>5 DEF Claimed, TreeClaim
  <2> QED BY <1>1, <2>1, <2>6 DEF Unconflicted
<1> QED
  BY <1>2 DEF PlacementInit, TrackerInit, PlacedTracker, Untracked, NothingSeen

LEMMA TrackerMovesHold ==
  TrackerInv /\ PlacedTracker /\ TrackerMoves =>
    /\ TrackerInv' /\ PlacedTracker'
    /\ \A w \in TrackedWindow : /\ nextIdentity'[w] \in Nat /\ nextIdentity'[w] >= nextIdentity[w]
                                /\ tracked'[w].identity
                                     \in {0, tracked[w].identity, nextIdentity[w]}
<1> SUFFICES ASSUME TrackerInv, PlacedTracker, TrackerMoves
             PROVE  /\ TrackerInv' /\ PlacedTracker'
                    /\ \A w \in TrackedWindow :
                         /\ nextIdentity'[w] \in Nat /\ nextIdentity'[w] >= nextIdentity[w]
                         /\ tracked'[w].identity
                              \in {0, tracked[w].identity, nextIdentity[w]}
  OBVIOUS
<1>1. TrackerNext /\ trees' = trees /\ targetRoles' = targetRoles  BY DEF TrackerMoves
<1>2. TrackerInv'  BY <1>1, TrackerSteps
<1>3. \A w \in TrackedWindow : nextIdentity[w] \in Nat /\ nextIdentity[w] # 0
  BY TrackerAssumption DEF TrackerInv
<1>4. /\ \A w \in TrackedWindow : nextIdentity'[w] \in Nat
      /\ PlacedSeat \in TrackedSeat
      /\ \A w \in TrackedWindow : tracked[w].identity \in Nat /\ tracked'[w].identity \in Nat
      /\ inspected.seat \in TrackedSeat \cup {0}
      /\ tracked \in [TrackedWindow -> TrackedEntry]
      /\ nextIdentity \in [TrackedWindow -> 1..(MaxIdentity + 1)]
  <2>1. tracked \in [TrackedWindow -> TrackedEntry] /\ tracked' \in [TrackedWindow -> TrackedEntry]
        /\ inspected \in Inspected /\ nextIdentity \in [TrackedWindow -> 1..(MaxIdentity + 1)]
        /\ nextIdentity' \in [TrackedWindow -> 1..(MaxIdentity + 1)]
    BY <1>2 DEF TrackerInv
  <2>2. MaxIdentity \in Nat /\ PlacedSeat \in TrackedSeat
    BY TrackerAssumption, PlacementAssumption
  <2> QED BY <2>1, <2>2 DEF TrackedEntry, Inspected
<1>5. ASSUME NEW w \in TrackedWindow, Inspect(w)
      PROVE  /\ PlacedTracker' /\ UNCHANGED <<tracked, nextIdentity>>
  <2>1. OwnerFor(w) \in {0, PlacedSeat}
    <3> DEFINE owners == {s \in TrackedSeat : ProcessOf[w] \in trees[s].live}
    <3>1. owners \in SUBSET Nat /\ owners \in SUBSET {PlacedSeat}
      BY TrackerAssumption DEF PlacedTracker
    <3>2. owners = {} \/ owners = {PlacedSeat}  BY <3>1
    <3>3. OwnerFor(w) = IF owners = {} THEN 0 ELSE CHOOSE s \in owners : \A t \in owners : s <= t
      BY DEF OwnerFor
    <3>4. ASSUME owners = {PlacedSeat}
          PROVE  \A s \in owners : s = PlacedSeat /\ \A t \in owners : s <= t
      BY <3>1, <3>4
    <3> HIDE DEF owners
    <3> QED BY <3>2, <3>3, <3>4
  <2>2. inspected'.seat \in {0, PlacedSeat}
    BY <1>5, <2>1, InspectHolds
  <2> QED BY <1>5, <2>2 DEF Inspect, PlacedTracker
<1>6. ASSUME NEW late \in BOOLEAN, Record(late)
      PROVE  /\ PlacedTracker'
             /\ \A w \in TrackedWindow :
                  /\ nextIdentity'[w] >= nextIdentity[w]
                  /\ tracked'[w].identity \in {0, tracked[w].identity, nextIdentity[w]}
  <2> DEFINE v == inspected.window
             new == inspected.seat # 0 /\ tracked[v].identity = 0
             entry == IF inspected.seat = 0 THEN Untracked
                      ELSE [identity |-> IF new THEN nextIdentity[v] ELSE tracked[v].identity,
                            seat |-> inspected.seat, role |-> inspected.role,
                            rank |-> inspected.rank]
  <2>1. /\ v \in TrackedWindow
        /\ tracked' = [tracked EXCEPT ![v] = entry]
        /\ nextIdentity' = [nextIdentity EXCEPT ![v] = nextIdentity[v] + (IF new THEN 1 ELSE 0)]
        /\ inspected'.seat = 0
        /\ UNCHANGED <<trees, authority>>
    BY <1>6 DEF Record, NothingSeen
  <2>2. /\ entry.identity \in {0, tracked[v].identity, nextIdentity[v]}
        /\ entry.identity # 0 => entry.seat = PlacedSeat
    BY DEF Untracked, PlacedTracker
  <2> HIDE DEF entry
  <2>3. \A w \in TrackedWindow : tracked'[w] = IF w = v THEN entry ELSE tracked[w]
    BY <1>4, <2>1
  <2>4. \A w \in TrackedWindow : nextIdentity'[w] >= nextIdentity[w]
    <3> HIDE DEF new
    <3> QED BY <1>3, <1>4, <2>1
  <2> QED BY <2>1, <2>2, <2>3, <2>4 DEF PlacedTracker
<1>7. ASSUME /\ tracked' = [w \in TrackedWindow |-> Untracked]
             /\ UNCHANGED <<trees, authority, inspected, nextIdentity>>
      PROVE  /\ PlacedTracker'
             /\ \A w \in TrackedWindow : /\ nextIdentity'[w] >= nextIdentity[w]
                                         /\ tracked'[w].identity = 0
  BY <1>3, <1>7 DEF PlacedTracker, Untracked
<1>8. \A published : ~PublishTrees(published)  BY <1>1 DEF PublishTrees
<1>9. ~AdoptTrees  BY DEF AdoptTrees, PlacedTracker
<1>10. \A rules : ~ChangeRules(rules)  BY <1>1 DEF ChangeRules
<1>11. CASE Overflow \/ StartTracker \/ StopTracking
  BY <1>2, <1>4, <1>7, <1>11 DEF Overflow, StartTracker, StopTracking
<1>12. CASE \E w \in TrackedWindow : Inspect(w)
  BY <1>2, <1>3, <1>4, <1>5, <1>12
<1>13. CASE \E late \in BOOLEAN : Record(late)
  BY <1>2, <1>4, <1>6, <1>13
<1> QED BY <1>1, <1>8, <1>9, <1>10, <1>11, <1>12, <1>13 DEF TrackerNext

Notice == [generation : Nat, status : BindingStatus, target : Target]

(* A window that was changed and is still the one it was then.                *)
Changed(w) == look[w] # 0 /\ look[w] = tracked[w].identity

LeaseShape ==
  /\ alive \subseteq TrackedWindow /\ look \in [TrackedWindow -> 0..MaxIdentity]
  /\ \A w \in TrackedWindow : look[w] < nextIdentity[w]
  /\ targetGeneration \in 1..MaxNotice
  /\ lease \in {"none", "placed", "failed", "armed", "stopping", "done"}
  /\ unrestored \subseteq TrackedWindow
  /\ lastGeneration \in Nat /\ lastGeneration <= targetGeneration
  /\ notices \subseteq Notice /\ \A n \in notices : n.generation <= targetGeneration
  /\ mailbox \in Notice /\ mailbox.generation <= targetGeneration
  /\ placing \in Target /\ terminalFailure \in BOOLEAN /\ rollbackError \in BOOLEAN

(* What is held is as the game made it, unless that was lost before.          *)
RestoreHolds ==
  /\ restore \in [target : Target, look : 0..MaxIdentity]
  /\ restore.target.window \in TrackedWindow =>
       /\ restore.look < nextIdentity[restore.target.window]
       /\ restore.target.window \notin unrestored =>
            restore.look = 0 \/ restore.look # restore.target.identity

(* Between the two halves of a replacement nothing is changed.                *)
PlacementHolds ==
  /\ lease = "none" => \A w \in TrackedWindow : look[w] = 0
  /\ placing = NoTarget => PlacedWindowsAreHeld
  /\ placing # NoTarget => /\ lease \in {"armed", "stopping"}
                           /\ \A w \in alive \ unrestored : ~Changed(w)

LeaseInv == LeaseShape /\ RestoreHolds /\ PlacementHolds

PlacementInv == TrackerInv /\ PlacedTracker /\ LeaseInv

LEMMA LeaseSuffices ==
  LeaseInv => PlacementTypeOK /\ PlacedWindowsAreHeld
BY DEF LeaseInv, LeaseShape, PlacementHolds, PlacementTypeOK, PlacedWindowsAreHeld, Changed

LEMMA LeaseStarts == TrackerInit /\ LeaseInit => LeaseInv
<1> SUFFICES ASSUME TrackerInit, LeaseInit PROVE LeaseInv  OBVIOUS
<1>1. LeaseShape
  <2>1. NoTarget \in Target /\ NoNotice \in Notice /\ NoNotice.generation = 0
    BY DEF NoNotice, Notice, BindingStatus, NoTarget, Target
  <2>2. /\ look \in [TrackedWindow -> 0..MaxIdentity] /\ targetGeneration \in 1..MaxNotice
        /\ \A w \in TrackedWindow : look[w] < nextIdentity[w]
    BY TrackerAssumption, PlacementAssumption DEF LeaseInit, TrackerInit
  <2>3. /\ lastGeneration = 0 /\ targetGeneration = 1 /\ notices = {} /\ mailbox = NoNotice
        /\ placing = NoTarget /\ alive = TrackedWindow /\ unrestored = {} /\ lease = "none"
        /\ terminalFailure = FALSE /\ rollbackError = FALSE
    BY DEF LeaseInit
  <2>4. lastGeneration \in Nat /\ lastGeneration <= targetGeneration
        /\ mailbox.generation <= targetGeneration
    BY <2>1, <2>3
  <2>5. mailbox \in Notice /\ placing \in Target /\ notices \subseteq Notice
        /\ \A n \in notices : n.generation <= targetGeneration
    BY <2>1, <2>3
  <2>6. alive \subseteq TrackedWindow /\ unrestored \subseteq TrackedWindow
        /\ terminalFailure \in BOOLEAN /\ rollbackError \in BOOLEAN
    BY <2>3
  <2> QED BY <2>2, <2>3, <2>4, <2>5, <2>6 DEF LeaseShape
<1>2. RestoreHolds
  BY TrackerAssumption DEF LeaseInit, RestoreHolds, NoRestore, NoTarget, Target
<1>3. PlacementHolds
  BY DEF LeaseInit, PlacementHolds, PlacedWindowsAreHeld
<1> QED BY <1>1, <1>2, <1>3 DEF LeaseInv

(* What is put back is changed no more.                                       *)
LEMMA PutBackHolds ==
  ASSUME TrackerInv, PlacedTracker, LeaseInv, placing = NoTarget, NEW fails \in BOOLEAN,
         PutBack(restore, fails)
  PROVE  /\ look' \in [TrackedWindow -> 0..MaxIdentity]
         /\ \A w \in TrackedWindow : look'[w] < nextIdentity[w]
         /\ fails => look' = look /\ restore.target.window \in TrackedWindow
                     /\ restore # NoRestore
         /\ ~fails => \A w \in alive \ unrestored :
                        ~(look'[w] # 0 /\ look'[w] = tracked[w].identity)
<1> DEFINE v == restore.target.window
<1>1. alive \subseteq TrackedWindow /\ look \in [TrackedWindow -> 0..MaxIdentity]
      /\ \A w \in TrackedWindow : look[w] < nextIdentity[w]
  BY DEF LeaseInv, LeaseShape
<1>2. restore \in [target : Target, look : 0..MaxIdentity]
  BY DEF LeaseInv, RestoreHolds
<1>3. \A w \in alive \ unrestored : Changed(w) => restore.target = [window |-> w, identity |-> look[w]]
  BY DEF LeaseInv, PlacementHolds, PlacedWindowsAreHeld, Changed
<1>4. Valid(restore.target) <=>
        /\ v \in alive /\ tracked[v].identity = restore.target.identity
        /\ restore.target.identity # 0
  BY <1>1, ValidHolds
<1>5. CASE ~Valid(restore.target)
  <2>1. ~fails /\ look' = look  BY <1>5 DEF PutBack
  <2>2. \A w \in alive \ unrestored : ~Changed(w)
    <3> SUFFICES ASSUME NEW w \in alive \ unrestored, Changed(w) PROVE FALSE  OBVIOUS
    <3>1. restore.target = [window |-> w, identity |-> look[w]]  BY <1>3
    <3>2. v = w /\ restore.target.identity = look[w]  BY <3>1
    <3> QED BY <1>4, <1>5, <3>2 DEF Changed
  <2> QED BY <1>1, <2>1, <2>2 DEF Changed
<1>6. CASE Valid(restore.target) /\ fails
  <2>1. look' = look  BY <1>6 DEF PutBack
  <2>2. v \in TrackedWindow /\ v # "none"  BY <1>1, <1>4, <1>6, TrackerAssumption
  <2> QED BY <1>1, <1>6, <2>1, <2>2 DEF NoRestore, NoTarget
<1>7. CASE Valid(restore.target) /\ ~fails
  <2>1. look' = [look EXCEPT ![v] = restore.look]  BY <1>7 DEF PutBack
  <2>2. v \in TrackedWindow /\ tracked[v].identity = restore.target.identity
    BY <1>1, <1>4, <1>7
  <2>3. \A w \in TrackedWindow : look'[w] = IF w = v THEN restore.look ELSE look[w]
    BY <1>1, <2>1
  <2>4. look' \in [TrackedWindow -> 0..MaxIdentity]  BY <1>1, <1>2, <2>1
  <2>5. /\ restore.look < nextIdentity[v]
        /\ v \notin unrestored => restore.look = 0 \/ restore.look # restore.target.identity
    BY <2>2 DEF LeaseInv, RestoreHolds
  <2>6. \A w \in alive \ unrestored : w # v => ~Changed(w)
    <3> SUFFICES ASSUME NEW w \in alive \ unrestored, Changed(w), w # v PROVE FALSE  OBVIOUS
    <3>1. restore.target = [window |-> w, identity |-> look[w]]  BY <1>3
    <3> QED BY <3>1
  <2>7. \A w \in TrackedWindow : look'[w] < nextIdentity[w]
    BY <1>1, <2>3, <2>5
  <2>8. ASSUME NEW w \in alive \ unrestored
        PROVE  ~(look'[w] # 0 /\ look'[w] = tracked[w].identity)
    <3>1. CASE w = v  BY <2>2, <2>3, <2>5, <3>1
    <3>2. CASE w # v  BY <1>1, <2>3, <2>6, <3>2 DEF Changed
    <3> QED BY <3>1, <3>2
  <2> QED BY <1>7, <2>4, <2>7, <2>8
<1> QED BY <1>5, <1>6, <1>7

(* A placement changes a window that is held, or one nothing can restore.     *)
LEMMA PlaceHolds ==
  ASSUME TrackerInv, PlacedTracker, LeaseInv, NEW target \in Target,
         NEW outcome \in {"placed", "left native", "rejected", "rejected half way"},
         Place(target, outcome),
         \A w \in alive \ unrestored : ~Changed(w)
  PROVE  /\ look' \in [TrackedWindow -> 0..MaxIdentity]
         /\ \A w \in TrackedWindow : look'[w] < nextIdentity[w]
         /\ unrestored' \subseteq TrackedWindow /\ terminalFailure' \in BOOLEAN
         /\ restore' \in [target : Target, look : 0..MaxIdentity]
         /\ restore'.target.window \in TrackedWindow =>
              /\ restore'.look < nextIdentity[restore'.target.window]
              /\ restore'.target.window \notin unrestored' =>
                   restore'.look = 0 \/ restore'.look # restore'.target.identity
         /\ \A w \in alive \ unrestored' :
              look'[w] # 0 /\ look'[w] = tracked[w].identity =>
                restore'.target = [window |-> w, identity |-> look'[w]]
<1> DEFINE v == target.window
<1>1. /\ alive \subseteq TrackedWindow /\ look \in [TrackedWindow -> 0..MaxIdentity]
      /\ \A w \in TrackedWindow : look[w] < nextIdentity[w]
      /\ unrestored \subseteq TrackedWindow /\ terminalFailure \in BOOLEAN
      /\ \A w \in TrackedWindow : /\ tracked[w].identity < nextIdentity[w]
                                  /\ tracked[w].identity \in 0..MaxIdentity
  BY DEF LeaseInv, LeaseShape, TrackerInv, TrackedEntry
<1>2. /\ restore \in [target : Target, look : 0..MaxIdentity]
      /\ restore.target.window \in TrackedWindow =>
           /\ restore.look < nextIdentity[restore.target.window]
           /\ restore.target.window \notin unrestored =>
                restore.look = 0 \/ restore.look # restore.target.identity
  BY DEF LeaseInv, RestoreHolds
<1>3. Valid(target) <=> v \in alive /\ tracked[v].identity = target.identity
                        /\ target.identity # 0
  BY <1>1, ValidHolds
<1>4. /\ outcome = "placed" =>
           /\ Valid(target) /\ look' = [look EXCEPT ![v] = target.identity]
           /\ restore' = Captured(target) /\ currentIdentity' = target
           /\ UNCHANGED <<terminalFailure, unrestored>>
      /\ outcome = "left native" =>
           restore' = NoRestore /\ UNCHANGED <<look, terminalFailure, unrestored>>
      /\ outcome = "rejected" =>
           terminalFailure' = TRUE /\ UNCHANGED <<look, restore, unrestored>>
      /\ outcome = "rejected half way" =>
           /\ Valid(target) /\ look' = [look EXCEPT ![v] = target.identity]
           /\ unrestored' = unrestored \cup {v}
           /\ terminalFailure' = TRUE /\ UNCHANGED restore
  <2>1. CASE outcome = "placed"  BY <2>1, Zenon DEF Place
  <2>2. CASE outcome = "left native"  BY <2>2, Zenon DEF Place
  <2>3. CASE outcome = "rejected"  BY <2>3, Zenon DEF Place
  <2>4. CASE outcome = "rejected half way"  BY <2>4, Zenon DEF Place
  <2> QED BY <2>1, <2>2, <2>3, <2>4
<1>5. ASSUME Valid(target), look' = [look EXCEPT ![v] = target.identity]
      PROVE  /\ look' \in [TrackedWindow -> 0..MaxIdentity]
             /\ \A w \in TrackedWindow : look'[w] = IF w = v THEN target.identity ELSE look[w]
             /\ \A w \in TrackedWindow : look'[w] < nextIdentity[w]
             /\ v \in TrackedWindow /\ v \in alive /\ target.identity \in 0..MaxIdentity
  <2>1. v \in TrackedWindow /\ tracked[v].identity = target.identity  BY <1>1, <1>3, <1>5
  <2> QED BY <1>1, <1>3, <1>5, <2>1
<1>6. CASE outcome = "placed"
  <2>1. /\ restore' = [target |-> target, look |-> look[v]]
        /\ UNCHANGED <<terminalFailure, unrestored>>
    BY <1>4, <1>6 DEF Captured
  <2>2. v \in alive /\ v \in TrackedWindow /\ tracked[v].identity = target.identity
    BY <1>1, <1>3, <1>4, <1>6
  <2>3. v \notin unrestored => look[v] = 0 \/ look[v] # target.identity
    BY <2>2 DEF Changed
  <2>4. target = [window |-> v, identity |-> target.identity]  BY DEF Target
  <2>5. \A w \in alive \ unrestored :
          look'[w] # 0 /\ look'[w] = tracked[w].identity => target = [window |-> w, identity |-> look'[w]]
    BY <1>1, <1>4, <1>5, <1>6, <2>4 DEF Changed
  <2>6. restore' \in [target : Target, look : 0..MaxIdentity]  BY <1>1, <2>1, <2>2
  <2>7. restore'.target = target /\ restore'.look = look[v]  BY <2>1
  <2> QED BY <1>1, <1>4, <1>5, <1>6, <2>1, <2>2, <2>3, <2>5, <2>6, <2>7
<1>7. CASE outcome = "left native"
  <2>1. restore' = NoRestore /\ UNCHANGED <<look, terminalFailure, unrestored>>
    BY <1>4, <1>7
  <2>2. restore' \in [target : Target, look : 0..MaxIdentity]
        /\ restore'.target.window \notin TrackedWindow
    BY <2>1, NothingHeld
  <2> QED BY <1>1, <2>1, <2>2 DEF Changed
<1>8. CASE outcome = "rejected"
  <2>1. terminalFailure' = TRUE /\ UNCHANGED <<look, restore, unrestored>>
    BY <1>4, <1>8
  <2> QED BY <1>1, <1>2, <2>1 DEF Changed
<1>9. CASE outcome = "rejected half way"
  <2>1. /\ unrestored' = unrestored \cup {v} /\ terminalFailure' = TRUE
        /\ restore' = restore
    BY <1>4, <1>9
  <2>2. /\ look' \in [TrackedWindow -> 0..MaxIdentity]
        /\ \A w \in TrackedWindow : look'[w] = IF w = v THEN target.identity ELSE look[w]
        /\ \A w \in TrackedWindow : look'[w] < nextIdentity[w]
        /\ v \in TrackedWindow
    BY <1>4, <1>5, <1>9
  <2>3. \A w \in alive \ unrestored' : ~(look'[w] # 0 /\ look'[w] = tracked[w].identity)
    BY <1>1, <2>1, <2>2 DEF Changed
  <2> QED BY <1>1, <1>2, <2>1, <2>2, <2>3
<1> QED BY <1>6, <1>7, <1>8, <1>9

LEMMA PlacementStarts == PlacementInit => PlacementInv
BY TrackerStarts, PlacedTrackerStarts, LeaseStarts DEF PlacementInit, PlacementInv

LEMMA PlacementSteps == PlacementInv /\ PlacementNext => PlacementInv'
<1> SUFFICES ASSUME PlacementInv, PlacementNext PROVE PlacementInv'  OBVIOUS
<1>0. TrackerInv /\ PlacedTracker /\ LeaseInv  BY DEF PlacementInv
<1>1. ASSUME UNCHANGED trackerVars PROVE TrackerInv' /\ PlacedTracker'
  <2>1. TrackerInv'  BY <1>0, <1>1, TrackerSteps
  <2> QED BY <1>0, <1>1, <2>1 DEF trackerVars, PlacedTracker
<1>2. CASE TrackerMoves
  <2>1. /\ TrackerInv' /\ PlacedTracker'
        /\ \A w \in TrackedWindow : /\ nextIdentity'[w] \in Nat /\ nextIdentity'[w] >= nextIdentity[w]
                                    /\ tracked'[w].identity
                                         \in {0, tracked[w].identity, nextIdentity[w]}
    BY <1>0, <1>2, TrackerMovesHold
  <2>2. UNCHANGED <<alive, look, leaseVars>>  BY <1>2 DEF TrackerMoves
  <2>3. \A w \in TrackedWindow : look[w] < nextIdentity[w] /\ look[w] \in Nat
                                 /\ nextIdentity[w] \in Nat
    BY <1>0, TrackerAssumption DEF LeaseInv, LeaseShape, TrackerInv
  <2>4. \A w \in TrackedWindow : Changed(w)' => Changed(w)
    BY <2>1, <2>2, <2>3 DEF Changed
  <2>5. \A w \in TrackedWindow : look'[w] < nextIdentity'[w]
    BY <2>1, <2>2, <2>3
  <2>6. /\ targetGeneration' \in 1..MaxNotice /\ targetGeneration <= targetGeneration'
        /\ targetGeneration \in Nat /\ targetGeneration' \in Nat
        /\ \/ notices' = notices
           \/ \E b : /\ b = targets'[PlacedSeat]["visual"]
                     /\ notices' = notices \cup {[generation |-> targetGeneration',
                                      status |-> b.status, target |-> b.target]}
    <3>1. targetGeneration \in 1..MaxNotice /\ MaxNotice \in Nat
      BY <1>0, PlacementAssumption DEF LeaseInv, LeaseShape
    <3> DEFINE changed == targets'[PlacedSeat]["visual"].status # Visual.status
                    \/ targets'[PlacedSeat]["visual"].target # Visual.target
               after == targets'[PlacedSeat]["visual"]
               seen == after.status = "Bound"
                       /\ tracked'[after.target.window] # tracked[after.target.window]
    <3>2. /\ targetGeneration' = targetGeneration + (IF changed THEN 1 ELSE 0)
          /\ targetGeneration' <= MaxNotice
          /\ notices' = IF (changed \/ seen) /\ lease = "armed"
              THEN notices \cup {[generation |-> targetGeneration',
                                  status |-> after.status, target |-> after.target]}
              ELSE notices
      BY <1>2, Zenon DEF TrackerMoves
    <3> HIDE DEF changed, seen
    <3> QED BY <3>1, <3>2
  <2>7. targets'[PlacedSeat]["visual"] \in Binding
    BY <2>1, PlacementAssumption DEF TrackerInv, TargetsHold, Kind
  <2>8. notices' \subseteq Notice /\ \A n \in notices' : n.generation <= targetGeneration'
    <3>1. notices \subseteq Notice /\ \A n \in notices : n.generation <= targetGeneration
      BY <1>0 DEF LeaseInv, LeaseShape
    <3>2. \A n \in notices : n.generation \in Nat  BY <3>1 DEF Notice
    <3>3. \A n \in notices : n.generation <= targetGeneration'  BY <2>6, <3>1, <3>2
    <3>4. \A b \in Binding : [generation |-> targetGeneration', status |-> b.status,
                              target |-> b.target] \in Notice
      BY <2>6 DEF Binding, Notice
    <3> QED BY <2>6, <2>7, <3>1, <3>3, <3>4
  <2>9. LeaseShape'
    <3>1. lastGeneration \in Nat /\ lastGeneration <= targetGeneration
          /\ mailbox \in Notice /\ mailbox.generation <= targetGeneration
          /\ mailbox.generation \in Nat
      BY <1>0 DEF LeaseInv, LeaseShape, Notice
    <3>2. lastGeneration <= targetGeneration' /\ mailbox.generation <= targetGeneration'
      BY <2>6, <3>1
    <3> QED BY <1>0, <2>2, <2>5, <2>6, <2>8, <3>2 DEF LeaseInv, LeaseShape, leaseVars
  <2>10. RestoreHolds'
    <3>1. ASSUME restore.target.window \in TrackedWindow
          PROVE  restore.look < nextIdentity'[restore.target.window]
      BY <1>0, <2>1, <2>3, <3>1, TrackerAssumption DEF LeaseInv, RestoreHolds
    <3> QED BY <1>0, <2>2, <3>1 DEF LeaseInv, RestoreHolds, leaseVars
  <2>11. PlacementHolds'
    <3>1. alive \subseteq TrackedWindow  BY <1>0 DEF LeaseInv, LeaseShape
    <3>2. placing = NoTarget => PlacedWindowsAreHeld'
      <4>1. ASSUME placing = NoTarget, NEW w \in alive \ unrestored, Changed(w)'
            PROVE  /\ restore.target = [window |-> w, identity |-> look[w]]
                   /\ lease = "done" => rollbackError
        BY <1>0, <2>4, <3>1, <4>1 DEF LeaseInv, PlacementHolds, PlacedWindowsAreHeld, Changed
      <4> QED BY <2>2, <4>1 DEF PlacedWindowsAreHeld, Changed, leaseVars
    <3>3. placing # NoTarget => \A w \in alive \ unrestored : ~Changed(w)'
      BY <1>0, <2>4, <3>1 DEF LeaseInv, PlacementHolds
    <3> QED BY <1>0, <2>2, <3>2, <3>3 DEF LeaseInv, PlacementHolds, leaseVars
  <2> QED BY <2>1, <2>9, <2>10, <2>11 DEF PlacementInv, LeaseInv
<1>3. ASSUME NEW w \in TrackedWindow, WindowDies(w) PROVE PlacementInv'
  <2>1. alive' \subseteq alive
        /\ UNCHANGED <<trackerVars, look, targetGeneration, notices, leaseVars>>
    BY <1>3 DEF WindowDies
  <2>2. LeaseShape' /\ RestoreHolds'
    BY <1>0, <2>1 DEF LeaseInv, LeaseShape, RestoreHolds, leaseVars, trackerVars
  <2>3. PlacementHolds'
    BY <1>0, <2>1 DEF LeaseInv, PlacementHolds, PlacedWindowsAreHeld, Changed, leaseVars, trackerVars
  <2> QED BY <1>1, <2>1, <2>2, <2>3 DEF PlacementInv, LeaseInv
<1>4. ASSUME NEW target \in Target,
             NEW outcome \in {"placed", "left native", "rejected", "rejected half way"},
             Place(target, outcome), \A w \in alive \ unrestored : ~Changed(w),
             UNCHANGED <<trackerVars, alive, targetGeneration, notices, mailbox, lastGeneration,
                         rollbackError>>,
             placing' = NoTarget, lease' \in {"placed", "armed", "stopping"}
      PROVE  PlacementInv'
  <2>1. /\ look' \in [TrackedWindow -> 0..MaxIdentity]
        /\ \A w \in TrackedWindow : look'[w] < nextIdentity[w]
        /\ unrestored' \subseteq TrackedWindow /\ terminalFailure' \in BOOLEAN
        /\ restore' \in [target : Target, look : 0..MaxIdentity]
        /\ restore'.target.window \in TrackedWindow =>
             /\ restore'.look < nextIdentity[restore'.target.window]
             /\ restore'.target.window \notin unrestored' =>
                  restore'.look = 0 \/ restore'.look # restore'.target.identity
        /\ \A w \in alive \ unrestored' :
             look'[w] # 0 /\ look'[w] = tracked[w].identity =>
               restore'.target = [window |-> w, identity |-> look'[w]]
    BY <1>0, <1>4, PlaceHolds
  <2>2. NoTarget \in Target  BY DEF NoTarget, Target
  <2>3. LeaseShape'
    BY <1>0, <1>4, <2>1, <2>2 DEF LeaseInv, LeaseShape, trackerVars
  <2>4. RestoreHolds'  BY <1>4, <2>1 DEF RestoreHolds, trackerVars
  <2>5. PlacementHolds'
    BY <1>4, <2>1 DEF PlacementHolds, PlacedWindowsAreHeld, trackerVars
  <2> QED BY <1>1, <1>4, <2>3, <2>4, <2>5 DEF PlacementInv, LeaseInv
<1>5. CASE ApplyPlacement
  <2>1. /\ lease = "none" /\ Visual.status = "Bound" /\ Place(Visual.target, "placed")
        /\ lease' = "placed"
        /\ UNCHANGED <<trackerVars, alive, targetGeneration, notices, mailbox, lastGeneration,
                       placing, rollbackError>>
    BY <1>5 DEF ApplyPlacement
  <2>2. placing = NoTarget /\ \A w \in TrackedWindow : look[w] = 0
    BY <1>0, <2>1 DEF LeaseInv, PlacementHolds
  <2>3. \A w \in alive \ unrestored : ~Changed(w)
    BY <1>0, <2>2 DEF LeaseInv, LeaseShape, Changed
  <2>4. Visual.target \in Target
    BY <1>0, PlacementAssumption DEF TrackerInv, TargetsHold, Kind, Binding, Visual
  <2> QED BY <1>4, <2>1, <2>2, <2>3, <2>4
<1>6. CASE PlaceReplacement
  <2>1. /\ placing # NoTarget /\ placing' = NoTarget
        /\ UNCHANGED <<trackerVars, alive, targetGeneration, notices, lease, mailbox,
                       lastGeneration, rollbackError>>
    BY <1>6 DEF PlaceReplacement
  <2>2. PICK outcome \in {"placed", "left native", "rejected", "rejected half way"} :
          Place(placing, outcome)
    BY <1>6 DEF PlaceReplacement
  <2>3. /\ lease \in {"armed", "stopping"} /\ placing \in Target
        /\ \A w \in alive \ unrestored : ~Changed(w)
    BY <1>0, <2>1 DEF LeaseInv, LeaseShape, PlacementHolds
  <2> QED BY <1>4, <2>1, <2>2, <2>3
<1>7. CASE ArmLease
  <2>1. /\ lease = "placed" /\ lease' = "armed" /\ mailbox' = Snapshot
        /\ UNCHANGED <<trackerVars, alive, look, targetGeneration, notices, lastGeneration,
             restore, currentIdentity, terminalFailure, placing, rollbackError, unrestored>>
    BY <1>7 DEF ArmLease
  <2>2. Visual \in Binding
    BY <1>0, PlacementAssumption DEF TrackerInv, TargetsHold, Kind, Visual
  <2>3. targetGeneration \in Nat
    BY <1>0, PlacementAssumption DEF LeaseInv, LeaseShape
  <2>4. Snapshot \in Notice /\ Snapshot.generation <= targetGeneration
    BY <2>2, <2>3 DEF Snapshot, Notice, Binding
  <2>5. LeaseShape'
    BY <1>0, <2>1, <2>4 DEF LeaseInv, LeaseShape, trackerVars
  <2>6. RestoreHolds' /\ PlacementHolds'
    BY <1>0, <2>1 DEF LeaseInv, RestoreHolds, PlacementHolds, PlacedWindowsAreHeld, Changed,
         trackerVars
  <2> QED BY <1>1, <2>1, <2>5, <2>6 DEF PlacementInv, LeaseInv
<1>8. CASE ArmingFails
  <2>1. /\ lease = "placed" /\ lease' = "failed"
        /\ restore' = NoRestore /\ currentIdentity' = NoTarget
        /\ UNCHANGED <<trackerVars, alive, targetGeneration, notices, mailbox, lastGeneration,
                       terminalFailure, placing, rollbackError>>
    BY <1>8 DEF ArmingFails
  <2>2. PICK fails \in BOOLEAN :
          /\ PutBack(restore, fails)
          /\ unrestored' = IF fails THEN unrestored \cup {restore.target.window} ELSE unrestored
    BY <1>8 DEF ArmingFails
  <2>3. placing = NoTarget  BY <1>0, <2>1 DEF LeaseInv, PlacementHolds
  <2>4. /\ look' \in [TrackedWindow -> 0..MaxIdentity]
        /\ \A w \in TrackedWindow : look'[w] < nextIdentity[w]
        /\ fails => look' = look /\ restore.target.window \in TrackedWindow
                    /\ restore # NoRestore
        /\ ~fails => \A w \in alive \ unrestored :
                       ~(look'[w] # 0 /\ look'[w] = tracked[w].identity)
    BY <1>0, <2>2, <2>3, PutBackHolds
  <2>5. \A w \in alive \ unrestored' : ~(look'[w] # 0 /\ look'[w] = tracked[w].identity)
    <3>1. CASE ~fails  BY <2>2, <2>4, <3>1
    <3>2. CASE fails
      <4>1. \A w \in alive \ unrestored : Changed(w) => restore.target.window = w
        <5> SUFFICES ASSUME NEW w \in alive \ unrestored, Changed(w)
                     PROVE  restore.target.window = w
          OBVIOUS
        <5>1. restore.target = [window |-> w, identity |-> look[w]]
          BY <1>0, <2>3 DEF LeaseInv, PlacementHolds, PlacedWindowsAreHeld, Changed
        <5> QED BY <5>1
      <4> QED BY <2>2, <2>4, <3>2, <4>1 DEF Changed
    <3> QED BY <3>1, <3>2
  <2>6. unrestored' \subseteq TrackedWindow
    BY <1>0, <2>2, <2>4 DEF LeaseInv, LeaseShape
  <2>7. LeaseShape'
    BY <1>0, <2>1, <2>4, <2>6 DEF LeaseInv, LeaseShape, trackerVars
  <2>8. RestoreHolds'
    BY <2>1, NothingHeld DEF RestoreHolds
  <2>9. PlacementHolds'
    BY <2>1, <2>3, <2>5 DEF PlacementHolds, PlacedWindowsAreHeld, trackerVars
  <2> QED BY <1>1, <2>1, <2>7, <2>8, <2>9 DEF PlacementInv, LeaseInv
<1>9. ASSUME NEW notice \in notices, Deliver(notice) PROVE PlacementInv'
  <2>1. /\ notices' = notices \ {notice} /\ (mailbox' = notice \/ mailbox' = mailbox)
        /\ UNCHANGED <<trackerVars, alive, look, targetGeneration, lease, lastGeneration, restore,
                 currentIdentity, terminalFailure, placing, rollbackError, unrestored>>
    BY <1>9 DEF Deliver
  <2>2. LeaseShape'
    BY <1>0, <1>9, <2>1 DEF LeaseInv, LeaseShape, trackerVars
  <2>3. RestoreHolds' /\ PlacementHolds'
    BY <1>0, <2>1 DEF LeaseInv, RestoreHolds, PlacementHolds, PlacedWindowsAreHeld, Changed,
         trackerVars
  <2> QED BY <1>1, <2>1, <2>2, <2>3 DEF PlacementInv, LeaseInv
<1>10. ASSUME NEW fails \in BOOLEAN, TakeNotice(fails) PROVE PlacementInv'
  <2> DEFINE old == mailbox.generation < lastGeneration
             heard == ~old /\ ~terminalFailure
             bound == heard /\ mailbox.status = "Bound" /\ Valid(mailbox.target)
                      /\ mailbox.target # currentIdentity
  <2>1. /\ lease = "armed" /\ placing = NoTarget /\ mailbox' = NoNotice
        /\ lastGeneration' = IF old THEN lastGeneration ELSE mailbox.generation
        /\ IF bound THEN HandleBound(mailbox.target, fails)
           ELSE /\ terminalFailure' = (terminalFailure
                     \/ (~old /\ mailbox.status = "FailedClosed"))
                /\ UNCHANGED <<look, placing>>
        /\ UNCHANGED <<trackerVars, alive, targetGeneration, notices, lease, restore,
                       rollbackError, unrestored>>
    BY <1>10 DEF TakeNotice
  <2>2. /\ mailbox \in Notice /\ mailbox.generation <= targetGeneration
        /\ mailbox.generation \in Nat /\ mailbox.target \in Target
        /\ lastGeneration \in Nat /\ lastGeneration <= targetGeneration
        /\ targetGeneration \in Nat /\ alive \subseteq TrackedWindow
    BY <1>0, PlacementAssumption DEF LeaseInv, LeaseShape, Notice
  <2>3. lastGeneration' \in Nat /\ lastGeneration' <= targetGeneration
    BY <2>1, <2>2
  <2>4. mailbox' \in Notice /\ mailbox'.generation <= targetGeneration
    BY <2>1, <2>2 DEF NoNotice, Notice, NoTarget, Target, BindingStatus
  <2>5. ASSUME /\ look' \in [TrackedWindow -> 0..MaxIdentity]
               /\ \A w \in TrackedWindow : look'[w] < nextIdentity[w]
               /\ placing' \in Target /\ terminalFailure' \in BOOLEAN
               /\ PlacementHolds'
        PROVE  PlacementInv'
    <3>1. LeaseShape'
      BY <1>0, <2>1, <2>3, <2>4, <2>5 DEF LeaseInv, LeaseShape, trackerVars
    <3>2. RestoreHolds'  BY <1>0, <2>1 DEF LeaseInv, RestoreHolds, trackerVars
    <3> QED BY <1>1, <2>1, <2>5, <3>1, <3>2 DEF PlacementInv, LeaseInv
  <2>6. CASE ~bound
    <3>1. UNCHANGED <<look, placing>> /\ terminalFailure' \in BOOLEAN
      <4>1. terminalFailure' = (terminalFailure \/ (~old /\ mailbox.status = "FailedClosed"))
            /\ UNCHANGED <<look, placing>>
        BY <2>1, <2>6
      <4> QED BY <4>1
    <3>2. PlacementHolds'
      BY <1>0, <2>1, <3>1 DEF LeaseInv, PlacementHolds, PlacedWindowsAreHeld, Changed, trackerVars
    <3> QED BY <1>0, <2>5, <3>1, <3>2 DEF LeaseInv, LeaseShape
  <2>7. CASE bound
    <3>1. /\ HandleBound(mailbox.target, fails) /\ Valid(mailbox.target)
      BY <2>1, <2>7
    <3>2. /\ PutBack(restore, fails)
          /\ fails => terminalFailure' = TRUE /\ placing' = placing
          /\ ~fails => placing' = mailbox.target /\ UNCHANGED terminalFailure
      BY <3>1 DEF HandleBound
    <3>3. /\ look' \in [TrackedWindow -> 0..MaxIdentity]
          /\ \A w \in TrackedWindow : look'[w] < nextIdentity[w]
          /\ fails => look' = look
          /\ ~fails => \A w \in alive \ unrestored :
                         ~(look'[w] # 0 /\ look'[w] = tracked[w].identity)
      BY <1>0, <2>1, <3>2, PutBackHolds
    <3>4. mailbox.target # NoTarget
      BY <1>0, <2>2, <3>1, ValidHolds DEF NoTarget
    <3>5. placing' \in Target /\ terminalFailure' \in BOOLEAN
      BY <1>0, <2>1, <2>2, <3>2 DEF LeaseInv, LeaseShape
    <3>6. PlacementHolds'
      <4>1. CASE fails
        BY <1>0, <2>1, <3>2, <3>3, <4>1
           DEF LeaseInv, PlacementHolds, PlacedWindowsAreHeld, Changed, trackerVars
      <4>2. CASE ~fails
        BY <2>1, <3>2, <3>3, <3>4, <4>2
           DEF PlacementHolds, PlacedWindowsAreHeld, Changed, trackerVars
      <4> QED BY <4>1, <4>2
    <3> QED BY <2>5, <3>3, <3>5, <3>6
  <2> QED BY <2>6, <2>7
<1>11. CASE StopLease
  <2>1. /\ lease = "armed" /\ lease' = "stopping"
        /\ UNCHANGED <<trackerVars, alive, look, targetGeneration, notices, mailbox,
             lastGeneration, restore, currentIdentity, terminalFailure, placing, rollbackError,
             unrestored>>
    BY <1>11 DEF StopLease
  <2>2. LeaseShape'
    BY <1>0, <2>1 DEF LeaseInv, LeaseShape, trackerVars
  <2>3. RestoreHolds' /\ PlacementHolds'
    BY <1>0, <2>1 DEF LeaseInv, RestoreHolds, PlacementHolds, PlacedWindowsAreHeld, Changed,
         trackerVars
  <2> QED BY <1>1, <2>1, <2>2, <2>3 DEF PlacementInv, LeaseInv
<1>12. CASE FinishLease
  <2>1. /\ lease = "stopping" /\ placing = NoTarget /\ lease' = "done"
        /\ UNCHANGED <<trackerVars, alive, targetGeneration, notices, mailbox, lastGeneration,
                       restore, currentIdentity, terminalFailure, placing, unrestored>>
    BY <1>12 DEF FinishLease
  <2>2. PICK fails \in BOOLEAN :
          /\ IF restore = NoRestore THEN ~fails /\ look' = look ELSE PutBack(restore, fails)
          /\ rollbackError' = fails
    BY <1>12 DEF FinishLease
  <2>3. ASSUME NEW w \in alive \ unrestored, Changed(w)
        PROVE  restore.target = [window |-> w, identity |-> look[w]] /\ restore # NoRestore
    <3>1. restore.target = [window |-> w, identity |-> look[w]]
      BY <1>0, <2>1, <2>3 DEF LeaseInv, PlacementHolds, PlacedWindowsAreHeld, Changed
    <3>2. w \in TrackedWindow  BY <1>0 DEF LeaseInv, LeaseShape
    <3>3. restore.target.window # "none"  BY <3>1, <3>2, TrackerAssumption
    <3> QED BY <3>1, <3>3 DEF NoRestore, NoTarget
  <2>4. /\ look' \in [TrackedWindow -> 0..MaxIdentity]
        /\ \A w \in TrackedWindow : look'[w] < nextIdentity[w]
        /\ fails => look' = look
        /\ ~fails => \A w \in alive \ unrestored :
                       ~(look'[w] # 0 /\ look'[w] = tracked[w].identity)
    <3>1. CASE restore = NoRestore
      BY <1>0, <2>2, <2>3, <3>1 DEF LeaseInv, LeaseShape, Changed
    <3>2. CASE restore # NoRestore
      BY <1>0, <2>1, <2>2, <3>2, PutBackHolds
    <3> QED BY <3>1, <3>2
  <2>5. LeaseShape'
    BY <1>0, <2>1, <2>2, <2>4 DEF LeaseInv, LeaseShape, trackerVars
  <2>6. RestoreHolds'  BY <1>0, <2>1 DEF LeaseInv, RestoreHolds, trackerVars
  <2>7. PlacementHolds'
    <3>1. CASE fails
      BY <1>0, <2>1, <2>2, <2>4, <3>1
         DEF LeaseInv, PlacementHolds, PlacedWindowsAreHeld, Changed, trackerVars
    <3>2. CASE ~fails
      BY <2>1, <2>4, <3>2 DEF PlacementHolds, PlacedWindowsAreHeld, trackerVars
    <3> QED BY <3>1, <3>2
  <2> QED BY <1>1, <2>1, <2>5, <2>6, <2>7 DEF PlacementInv, LeaseInv
<1> QED
  BY <1>2, <1>3, <1>5, <1>6, <1>7, <1>8, <1>9, <1>10, <1>11, <1>12 DEF PlacementNext

LEMMA PlacementStutters ==
  ASSUME UNCHANGED placementVars
  PROVE  /\ LeaseInv => LeaseInv'
         /\ PlacementInv => PlacementInv'
<1>1. UNCHANGED trackerVars /\ UNCHANGED <<alive, look, targetGeneration, notices, leaseVars>>
  BY DEF placementVars, lifeAndLeaseVars
<1>2. LeaseInv => LeaseInv'
  BY <1>1 DEF LeaseInv, LeaseShape, RestoreHolds, PlacementHolds, PlacedWindowsAreHeld, Changed,
       leaseVars, trackerVars
<1>3. PlacedTracker => PlacedTracker'  BY <1>1 DEF PlacedTracker, trackerVars
<1>4. TrackerInv => TrackerInv'  BY <1>1, TrackerSteps
<1> QED BY <1>2, <1>3, <1>4 DEF PlacementInv

-----------------------------------------------------------------------------
(* The displays of the Seats.                                              *)

IntRect == [left : Int, right : Int]

(* An output is active where it is plugged in, and has an area then.          *)
TopologyHolds(t) ==
  \A o \in DisplayOutput :
    /\ t.outputs[o] = [active |-> t.outputs[o].active, bounds |-> t.outputs[o].bounds]
    /\ t.outputs[o].active \in BOOLEAN /\ t.outputs[o].bounds \in IntRect
    /\ t.outputs[o].active => t.outputs[o].bounds.left < t.outputs[o].bounds.right

RequestHolds(r) ==
  /\ \A x \in r.selections : x.output \in DisplayOutput
  /\ \E x \in r.selections : x.output = r.primary

GroupHolds(g) ==
  /\ g.origin \in Int
  /\ \A o \in DOMAIN g.outputs : g.outputs[o] \in IntRect

LEMMA EmptyRectHolds == EmptyRect \in IntRect
BY DEF EmptyRect, IntRect

LEMMA AssembledHolds ==
  ASSUME NEW o \in DisplayOutput, NEW activeFirst \in BOOLEAN,
         plugged \in [DisplayOutput -> OutputBounds \cup {EmptyRect}]
  PROVE  Assembled(o, activeFirst) \in
           {Inactive} \cup {[active |-> TRUE, bounds |-> r] : r \in OutputBounds}
<1> DEFINE r == plugged[o]
           path == [active |-> TRUE, bounds |-> r]
<1>1. CASE r = EmptyRect  BY <1>1 DEF Assembled
<1>2. CASE r # EmptyRect
  <2>1. r \in OutputBounds /\ HasArea(r)  BY <1>2, LayoutAssumption DEF HasArea
  <2>2. MergeObservation(path, Inactive) = path
    BY <2>1 DEF MergeObservation, Inactive
  <2>3. MergeObservation(Inactive, path) = path
    BY <2>1 DEF MergeObservation, Inactive
  <2>4. Assembled(o, activeFirst) = path
    BY <1>2, <2>2, <2>3 DEF Assembled
  <2> QED BY <2>1, <2>4
<1> QED BY <1>1, <1>2

LEMMA AssembledTopology ==
  ASSUME NEW activeFirst \in BOOLEAN,
         plugged \in [DisplayOutput -> OutputBounds \cup {EmptyRect}]
  PROVE  /\ TopologyHolds([succeeded |-> TRUE,
                           outputs |-> [o \in DisplayOutput |-> Assembled(o, activeFirst)]])
         /\ TopologyHolds(FailedTopology)
<1>1. \A a \in {Inactive} \cup {[active |-> TRUE, bounds |-> r] : r \in OutputBounds} :
        /\ a = [active |-> a.active, bounds |-> a.bounds]
        /\ a.active \in BOOLEAN /\ a.bounds \in IntRect
        /\ a.active => a.bounds.left < a.bounds.right
  <2> TAKE a \in {Inactive} \cup {[active |-> TRUE, bounds |-> r] : r \in OutputBounds}
  <2>1. CASE a = Inactive
    <3>1. Inactive.active = FALSE /\ Inactive.bounds = EmptyRect  BY DEF Inactive
    <3> QED BY <2>1, <3>1, EmptyRectHolds DEF Inactive
  <2>2. ASSUME NEW r \in OutputBounds, a = [active |-> TRUE, bounds |-> r]
        PROVE  /\ a = [active |-> a.active, bounds |-> a.bounds]
               /\ a.active \in BOOLEAN /\ a.bounds \in IntRect
               /\ a.active => a.bounds.left < a.bounds.right
    <3>1. r \in IntRect /\ r.left < r.right  BY LayoutAssumption DEF IntRect
    <3>2. a.active = TRUE /\ a.bounds = r  BY <2>2
    <3> QED BY <2>2, <3>1, <3>2
  <2> QED BY <2>1, <2>2
<1>2. \A o \in DisplayOutput : Assembled(o, activeFirst) \in
           {Inactive} \cup {[active |-> TRUE, bounds |-> r] : r \in OutputBounds}
  BY AssembledHolds
<1> QED BY <1>1, <1>2 DEF TopologyHolds, FailedTopology

(* A group shows outputs its Seat asked for, where they are.                  *)
LEMMA SeatGroupHolds ==
  ASSUME NEW t, TopologyHolds(t), NEW seat, NEW request, RequestHolds(request),
         ResolvedOutputs(t, request) # {}
  PROVE  LET g == SeatDisplayGroup(t, seat, request)
         IN  /\ GroupHolds(g)
             /\ \A o \in DOMAIN g.outputs :
                  /\ \E selection \in request.selections : selection.output = o
                  /\ t.outputs[o] = [active |-> TRUE, bounds |-> g.outputs[o]]
             /\ ~(\E s \in request.selections :
                    ~t.outputs[s.output].active /\ s.output = request.primary) =>
                  g.primary = request.primary
<1> DEFINE g == SeatDisplayGroup(t, seat, request)
           selected == ResolvedOutputs(t, request)
           ids == {s.output : s \in selected}
           primary == PrimaryOf(t, request)
<1>1. \A s \in selected : /\ s \in request.selections /\ s.output \in DisplayOutput
                          /\ t.outputs[s.output].active
  BY DEF ResolvedOutputs, RequestHolds
<1>2. ids # {} /\ ids \in SUBSET DisplayOutput  BY <1>1
<1>3. primary \in ids
  <2>1. CASE request.primary \in ids  BY <2>1 DEF PrimaryOf
  <2>2. CASE request.primary \notin ids
    <3> DEFINE orders == {OutputOrder[o] : o \in ids}
    <3>1. orders \in SUBSET Nat /\ orders # {}  BY <1>2, LayoutAssumption
    <3>2. \E x \in orders : \A y \in orders : x <= y  BY <3>1, LeastOf
    <3>3. \E o \in ids : \A p \in ids : OutputOrder[o] <= OutputOrder[p]  BY <3>2
    <3>4. primary = CHOOSE o \in ids : \A p \in ids : OutputOrder[o] <= OutputOrder[p]
      BY <2>2 DEF PrimaryOf
    <3> HIDE DEF ids, primary
    <3> QED BY <3>3, <3>4
  <2> QED BY <2>1, <2>2
<1>4. /\ g.outputs = [o \in ids |-> t.outputs[o].bounds]
      /\ g.primary = primary /\ g.origin = g.outputs[primary].left
  BY DEF SeatDisplayGroup
<1>5. \A o \in ids : /\ t.outputs[o].bounds \in IntRect
                     /\ t.outputs[o] = [active |-> TRUE, bounds |-> t.outputs[o].bounds]
                     /\ \E selection \in request.selections : selection.output = o
  <2> TAKE o \in ids
  <2>1. PICK s \in selected : o = s.output  OBVIOUS
  <2>2. o \in DisplayOutput /\ t.outputs[o].active /\ s \in request.selections
    BY <1>1, <2>1
  <2>3. /\ t.outputs[o] = [active |-> t.outputs[o].active, bounds |-> t.outputs[o].bounds]
        /\ t.outputs[o].active \in BOOLEAN /\ t.outputs[o].bounds \in IntRect
    BY <2>2 DEF TopologyHolds
  <2>4. t.outputs[o].active = TRUE  BY <2>2, <2>3
  <2> QED BY <2>1, <2>2, <2>3, <2>4
<1>6. ASSUME ~(\E s \in request.selections :
                 ~t.outputs[s.output].active /\ s.output = request.primary)
      PROVE  primary = request.primary
  <2>1. PICK s \in request.selections : s.output = request.primary  BY DEF RequestHolds
  <2>2. t.outputs[s.output].active /\ s.output \in DisplayOutput
    BY <1>6, <2>1 DEF RequestHolds
  <2>3. s \in selected  BY <2>2 DEF ResolvedOutputs, TopologyHolds, HasArea
  <2>4. request.primary \in ids  BY <2>1, <2>3
  <2> QED BY <2>4 DEF PrimaryOf
<1> HIDE DEF g, ids, primary
<1>7. GroupHolds(g)
  <2>1. \A o \in ids : g.outputs[o] \in IntRect  BY <1>4, <1>5
  <2>2. DOMAIN g.outputs = ids  BY <1>4
  <2>3. g.origin \in Int  BY <1>3, <1>4, <2>1 DEF IntRect
  <2> QED BY <2>1, <2>2, <2>3 DEF GroupHolds
<1> QED BY <1>4, <1>5, <1>6, <1>7 DEF g

LEMMA LayoutsHold ==
  ASSUME NEW t, TopologyHolds(t), NEW asked, \A s \in DOMAIN asked : RequestHolds(asked[s])
  PROVE  LET built == BuildLayouts(t, asked)
         IN  /\ built.valid \in BOOLEAN
             /\ \A g \in built.groups : GroupHolds(g)
             /\ built.valid => /\ \A g, h \in built.groups : g # h => ~DisplayConflict(g, h)
                               /\ built.groups =
                                    {SeatDisplayGroup(t, s, asked[s]) : s \in DOMAIN asked}
                               /\ \A s \in DOMAIN asked : ResolvedOutputs(t, asked[s]) # {}
<1> DEFINE built == BuildLayouts(t, asked)
           asking == DOMAIN asked
           open == {s \in asking : ~LayoutBlocked(t, asked[s])}
           groups == {SeatDisplayGroup(t, s, asked[s]) : s \in open}
           free == \A g, h \in groups : g # h => ~DisplayConflict(g, h)
<1>1. \A s \in open : ResolvedOutputs(t, asked[s]) # {}  BY DEF LayoutBlocked
<1>2. \A s \in open : GroupHolds(SeatDisplayGroup(t, s, asked[s]))
  BY <1>1, SeatGroupHolds
<1>3. \A g \in groups : GroupHolds(g)  BY <1>2
<1>4. built = NoLayout \/ built = [valid |-> open = asking /\ free, groups |-> groups]
  BY DEF BuildLayouts
<1>5. CASE built = NoLayout  BY <1>5 DEF NoLayout
<1>6. CASE built = [valid |-> open = asking /\ free, groups |-> groups]
  <2>1. /\ built.groups = groups /\ built.valid \in BOOLEAN
        /\ built.valid <=> open = asking /\ free
    <3> HIDE DEF open, asking, groups, free, built
    <3> QED BY <1>6
  <2>2. built.valid => groups = {SeatDisplayGroup(t, s, asked[s]) : s \in DOMAIN asked}
    BY <2>1
  <2> HIDE DEF groups, built
  <2> QED BY <1>1, <1>3, <2>1, <2>2 DEF built
<1> QED BY <1>4, <1>5, <1>6

Recovered(g, t, request) ==
  /\ g.primary = request.primary
  /\ \A o \in DOMAIN g.outputs :
       /\ \E selection \in request.selections : selection.output = o
       /\ t.outputs[o] = [active |-> TRUE, bounds |-> g.outputs[o]]

LEMMA PlanRecoveryHolds ==
  ASSUME NEW t, TopologyHolds(t), NEW previous, NEW s \in LayoutSeat,
         NEW asked \in DisplayRequests
  PROVE  \A g \in PlanRecovery(previous, t, s, asked[s]).group : Recovered(g, t, asked[s])
<1> DEFINE request == asked[s]
           decision == PlanRecovery(previous, t, s, request)
           missing == {x \in request.selections : ~t.outputs[x.output].active}
           lenient == [request EXCEPT !.block = @ /\ ~(\E x \in missing : x.required)]
           alone == [x \in {s} |-> lenient]
           built == BuildLayouts(t, alone)
           group == CHOOSE g \in built.groups : TRUE
<1>1. /\ request \in [selections : SUBSET [output : DisplayOutput, required : BOOLEAN,
                                           shareable : BOOLEAN],
                      primary : DisplayOutput, block : BOOLEAN, pause : BOOLEAN]
      /\ \E selection \in request.selections : selection.output = request.primary
  BY LayoutAssumption
<1>2. lenient.selections = request.selections /\ lenient.primary = request.primary
  BY <1>1
<1>3. RequestHolds(lenient)
  <2> HIDE DEF lenient
  <2>1. \A x \in request.selections : x.output \in DisplayOutput  BY <1>1
  <2> QED BY <1>1, <1>2, <2>1 DEF RequestHolds
<1>4. CASE ~t.succeeded \/ (\E x \in missing : x.output = request.primary) \/ ~built.valid
  <2>1. decision.group = {}  BY <1>4 DEF PlanRecovery
  <2> QED BY <2>1
<1>5. CASE t.succeeded /\ ~(\E x \in missing : x.output = request.primary) /\ built.valid
  <2>1. decision.group = {group}  BY <1>5 DEF PlanRecovery
  <2> HIDE DEF lenient, decision
  <2>2. DOMAIN alone = {s} /\ alone[s] = lenient  OBVIOUS
  <2>3. /\ built.groups = {SeatDisplayGroup(t, x, alone[x]) : x \in {s}}
        /\ ResolvedOutputs(t, lenient) # {}
    <3> HIDE DEF alone
    <3>1. \A x \in DOMAIN alone : RequestHolds(alone[x])  BY <1>3, <2>2
    <3>2. /\ built.groups = {SeatDisplayGroup(t, x, alone[x]) : x \in DOMAIN alone}
          /\ \A x \in DOMAIN alone : ResolvedOutputs(t, alone[x]) # {}
      BY <1>5, <3>1, LayoutsHold
    <3> QED BY <2>2, <3>2
  <2>4. group = SeatDisplayGroup(t, s, lenient)
    <3>1. built.groups = {SeatDisplayGroup(t, s, lenient)}  BY <2>2, <2>3
    <3> HIDE DEF built
    <3> QED BY <3>1
  <2> HIDE DEF group
  <2>5. /\ \A o \in DOMAIN group.outputs :
             /\ \E selection \in lenient.selections : selection.output = o
             /\ t.outputs[o] = [active |-> TRUE, bounds |-> group.outputs[o]]
        /\ ~(\E x \in lenient.selections :
               ~t.outputs[x.output].active /\ x.output = lenient.primary) =>
             group.primary = lenient.primary
    BY <1>3, <2>3, <2>4, SeatGroupHolds
  <2> QED BY <1>2, <1>5, <2>1, <2>5 DEF decision, Recovered
<1> QED BY <1>4, <1>5

Topology ==
  [succeeded : BOOLEAN, outputs : [DisplayOutput -> [active : BOOLEAN, bounds : IntRect]]]

LayoutInv ==
  /\ LayoutTypeOK
  /\ lastAccepted \in Nat /\ lastObserved \in Nat
  /\ topologies \in Seq(Topology)
  /\ \A i \in 1..Len(topologies) : TopologyHolds(topologies[i])
  /\ \A g \in layout.groups : GroupHolds(g)
  /\ layout.valid => \A g, h \in layout.groups : g # h => ~DisplayConflict(g, h)
  /\ RecoveryIsCurrent

(* What one Seat sees of another's display overlaps a display of its own.     *)
LEMMA SeatsSuffice ==
  ASSUME \A g \in layout.groups : GroupHolds(g), layout.valid =>
           \A g, h \in layout.groups : g # h => ~DisplayConflict(g, h)
  PROVE  SeatsSeeTheirOwn
<1> SUFFICES ASSUME layout.valid, NEW g \in layout.groups, NEW h \in layout.groups, g # h,
                    NEW o \in DOMAIN g.outputs, NEW c \in SeenBySeat(h, g.outputs[o])
             PROVE  /\ o \in g.shareable
                    /\ \E p \in h.shareable :
                         /\ SeatToGlobal(h, c.left) >= h.outputs[p].left
                         /\ SeatToGlobal(h, c.right) <= h.outputs[p].right
  BY DEF SeatsSeeTheirOwn
<1>1. ~DisplayConflict(g, h)  OBVIOUS
<1>2. ASSUME NEW a \in Int, NEW b \in Int
      PROVE  /\ Rightmost({a, b}) \in {a, b} /\ Rightmost({a, b}) >= a /\ Rightmost({a, b}) >= b
             /\ Leftmost({a, b}) \in {a, b} /\ Leftmost({a, b}) <= a /\ Leftmost({a, b}) <= b
  <2>1. \E x \in {a, b} : \A y \in {a, b} : x >= y  OBVIOUS
  <2>2. \E x \in {a, b} : \A y \in {a, b} : x <= y  OBVIOUS
  <2> QED BY <2>1, <2>2 DEF Rightmost, Leftmost
<1> DEFINE r == g.outputs[o]
           Clip(p) == [left |-> Rightmost({r.left, h.outputs[p].left}),
                       right |-> Leftmost({r.right, h.outputs[p].right})]
<1>3. PICK p \in DOMAIN h.outputs :
        /\ HasArea(Clip(p))
        /\ c = [left |-> GlobalToSeat(h, Clip(p).left), right |-> GlobalToSeat(h, Clip(p).right)]
  BY DEF SeenBySeat, ClipToOutputs
<1>4. /\ r.left \in Int /\ r.right \in Int /\ h.origin \in Int
      /\ h.outputs[p].left \in Int /\ h.outputs[p].right \in Int
  BY DEF GroupHolds, IntRect
<1> DEFINE l == Rightmost({r.left, h.outputs[p].left})
           m == Leftmost({r.right, h.outputs[p].right})
<1>5. /\ l \in Int /\ l >= r.left /\ l >= h.outputs[p].left
      /\ m \in Int /\ m <= r.right /\ m <= h.outputs[p].right
  BY <1>2, <1>4
<1>6. Clip(p).left = l /\ Clip(p).right = m  OBVIOUS
<1> HIDE DEF l, m, Clip
<1>7. l < m  BY <1>3, <1>5, <1>6 DEF HasArea
<1>8. RectsOverlap(r, h.outputs[p])
  BY <1>4, <1>5, <1>7 DEF RectsOverlap, HasArea
<1>9. o \in g.shareable /\ p \in h.shareable
  BY <1>1, <1>8 DEF DisplayConflict
<1>10. SeatToGlobal(h, c.left) = l /\ SeatToGlobal(h, c.right) = m
  BY <1>3, <1>4, <1>5, <1>6 DEF SeatToGlobal, GlobalToSeat
<1> QED BY <1>5, <1>9, <1>10

LEMMA LayoutSuffices == LayoutInv => LayoutTypeOK /\ SeatsSeeTheirOwn /\ RecoveryIsCurrent
BY SeatsSuffice DEF LayoutInv

LEMMA LayoutStarts == LayoutInit => LayoutInv
<1> SUFFICES ASSUME LayoutInit PROVE LayoutInv  OBVIOUS
<1>1. topologies = <<>> /\ Len(topologies) = 0  BY DEF LayoutInit
<1>2. RecoveryIsCurrent  BY DEF LayoutInit, RecoveryIsCurrent
<1> QED BY <1>1, <1>2 DEF LayoutInit, LayoutInv, LayoutTypeOK, NoLayout

LEMMA LayoutSteps == LayoutInv /\ [LayoutNext]_layoutVars => LayoutInv'
<1> SUFFICES ASSUME LayoutInv, [LayoutNext]_layoutVars PROVE LayoutInv'  OBVIOUS
<1>0. /\ Len(topologies) \in Nat /\ requests \in DisplayRequests
      /\ lastAccepted <= lastObserved /\ lastObserved <= Len(topologies)
      /\ lastAccepted \in Nat /\ lastObserved \in Nat
      /\ plugged \in [DisplayOutput -> OutputBounds \cup {EmptyRect}]
  BY DEF LayoutInv, LayoutTypeOK
<1>1. ASSUME NEW o \in DisplayOutput, NEW bounds \in OutputBounds \cup {EmptyRect},
             DisplayChanges(o, bounds)
      PROVE  LayoutInv'
  BY <1>0, <1>1 DEF DisplayChanges, LayoutInv, LayoutTypeOK, RecoveryIsCurrent
<1>2. ASSUME NEW activeFirst \in BOOLEAN, NEW succeeds \in BOOLEAN,
             RefreshTopology(activeFirst, succeeds)
      PROVE  LayoutInv'
  <2> DEFINE t == IF succeeds THEN [succeeded |-> TRUE,
                         outputs |-> [o \in DisplayOutput |-> Assembled(o, activeFirst)]]
                  ELSE FailedTopology
  <2>1. topologies' = Append(topologies, t)
        /\ UNCHANGED <<plugged, lastObserved, lastAccepted, quiet, requests, layout, recovery>>
    BY <1>2 DEF RefreshTopology
  <2>2. TopologyHolds(t)
    BY <1>0, AssembledTopology
  <2>3. t \in Topology
    <3>1. DOMAIN t = {"succeeded", "outputs"}
          /\ t = [succeeded |-> t.succeeded, outputs |-> t.outputs]
          /\ t.succeeded \in BOOLEAN /\ t.outputs = [o \in DisplayOutput |-> t.outputs[o]]
      BY DEF FailedTopology
    <3> HIDE DEF t
    <3>2. \A o \in DisplayOutput : t.outputs[o] \in [active : BOOLEAN, bounds : IntRect]
      <4> TAKE o \in DisplayOutput
      <4> DEFINE x == t.outputs[o]
      <4>1. /\ x = [active |-> x.active, bounds |-> x.bounds]
            /\ x.active \in BOOLEAN /\ x.bounds \in IntRect
        BY <2>2 DEF TopologyHolds
      <4> HIDE DEF x
      <4>2. x \in [active : BOOLEAN, bounds : IntRect]  BY <4>1
      <4> QED BY <4>2 DEF x
    <3>3. t.outputs \in [DisplayOutput -> [active : BOOLEAN, bounds : IntRect]]
      BY <3>1, <3>2
    <3> QED BY <3>1, <3>3 DEF Topology
  <2> HIDE DEF t
  <2>4. topologies \in Seq(Topology)  BY DEF LayoutInv
  <2>5. /\ topologies' \in Seq(Topology) /\ Len(topologies') = Len(topologies) + 1
        /\ \A i \in 1..Len(topologies) : topologies'[i] = topologies[i]
        /\ topologies'[Len(topologies) + 1] = t
    BY <2>1, <2>3, <2>4
  <2>6. \A i \in 1..Len(topologies') : TopologyHolds(topologies'[i])
    <3> TAKE i \in 1..Len(topologies')
    <3>1. CASE i = Len(topologies) + 1  BY <2>2, <2>5, <3>1
    <3>2. CASE i # Len(topologies) + 1
      <4>1. i \in 1..Len(topologies)  BY <1>0, <2>5, <3>2
      <4> QED BY <2>5, <4>1 DEF LayoutInv
    <3> QED BY <3>1, <3>2
  <2>7. RecoveryIsCurrent'
    <3>1. lastAccepted # 0 => topologies'[lastAccepted] = topologies[lastAccepted]
      BY <1>0, <2>5
    <3>2. RecoveryIsCurrent  BY DEF LayoutInv
    <3> QED BY <2>1, <3>1, <3>2 DEF RecoveryIsCurrent
  <2> QED BY <1>0, <2>1, <2>5, <2>6, <2>7 DEF LayoutInv, LayoutTypeOK
<1>3. CASE BuildForSeats
  <2> DEFINE t == topologies[Len(topologies)]
  <2>1. topologies # <<>> /\ layout' = BuildLayouts(t, requests)
        /\ UNCHANGED <<plugged, topologies, lastObserved, lastAccepted, quiet, requests, recovery>>
    BY <1>3 DEF BuildForSeats
  <2>2. topologies \in Seq(Topology)  BY DEF LayoutInv
  <2>3. Len(topologies) \in 1..Len(topologies)  BY <2>1, <2>2
  <2>4. TopologyHolds(t)  BY <2>3 DEF LayoutInv
  <2>5. \A s \in DOMAIN requests : RequestHolds(requests[s])
    BY <1>0, LayoutAssumption DEF RequestHolds
  <2> HIDE DEF t
  <2>6. /\ layout'.valid \in BOOLEAN
        /\ \A g \in layout'.groups : GroupHolds(g)
        /\ layout'.valid => \A g, h \in layout'.groups : g # h => ~DisplayConflict(g, h)
    BY <2>1, <2>4, <2>5, LayoutsHold
  <2> QED BY <2>1, <2>6 DEF LayoutInv, LayoutTypeOK, RecoveryIsCurrent
<1>4. CASE QuietPeriodEnds
  BY <1>4 DEF QuietPeriodEnds, LayoutInv, LayoutTypeOK, RecoveryIsCurrent
<1>5. CASE AcceptTopology
  <2> DEFINE t == topologies[lastObserved]
  <2>1. /\ lastObserved # 0 /\ lastAccepted' = lastObserved
        /\ recovery' = [s \in LayoutSeat |-> PlanRecovery(recovery[s].group, t, s, requests[s])]
        /\ UNCHANGED <<plugged, topologies, lastObserved, quiet, requests, layout>>
    BY <1>5 DEF AcceptTopology
  <2>2. lastObserved \in 1..Len(topologies)  BY <1>0, <2>1
  <2>3. TopologyHolds(t)  BY <2>2 DEF LayoutInv
  <2> HIDE DEF t
  <2>4. \A s \in LayoutSeat : \A g \in recovery'[s].group :
           /\ g.primary = requests[s].primary
           /\ \A o \in DOMAIN g.outputs :
                /\ \E selection \in requests[s].selections : selection.output = o
                /\ t.outputs[o] = [active |-> TRUE, bounds |-> g.outputs[o]]
    <3> TAKE s \in LayoutSeat
    <3> DEFINE decision == PlanRecovery(recovery[s].group, t, s, requests[s])
    <3>1. recovery'[s] = decision  BY <2>1
    <3>2. \A g \in decision.group : Recovered(g, t, requests[s])
      BY <1>0, <2>3, PlanRecoveryHolds
    <3> HIDE DEF decision
    <3> QED BY <3>1, <3>2 DEF Recovered
  <2>5. RecoveryIsCurrent'
    BY <2>1, <2>4 DEF RecoveryIsCurrent, t
  <2> QED BY <1>0, <2>1, <2>5 DEF LayoutInv, LayoutTypeOK
<1>6. ASSUME NEW generation \in 1..Len(topologies), ObserveTopology(generation)
      PROVE  LayoutInv'
  <2>1. /\ generation > lastObserved /\ lastObserved' = generation
        /\ UNCHANGED <<plugged, topologies, lastAccepted, requests, layout, recovery>>
    BY <1>6 DEF ObserveTopology
  <2>2. generation \in Nat /\ lastAccepted <= generation /\ generation <= Len(topologies)
    BY <1>0, <1>6, <2>1
  <2> QED BY <1>0, <2>1, <2>2 DEF LayoutInv, LayoutTypeOK, RecoveryIsCurrent
<1>7. CASE UNCHANGED layoutVars
  BY <1>7 DEF layoutVars, LayoutInv, LayoutTypeOK, RecoveryIsCurrent
<1> QED BY <1>1, <1>2, <1>3, <1>4, <1>5, <1>6, <1>7 DEF LayoutNext

LEMMA AcceptedRises == LayoutInv /\ LayoutNext => lastAccepted' >= lastAccepted
<1> SUFFICES ASSUME LayoutInv, LayoutNext PROVE lastAccepted' >= lastAccepted  OBVIOUS
<1>1. lastAccepted \in Nat /\ lastObserved \in Nat /\ lastAccepted <= lastObserved
  BY DEF LayoutInv, LayoutTypeOK
<1>2. lastAccepted' = lastAccepted \/ lastAccepted' = lastObserved
  BY DEF LayoutNext, DisplayChanges, RefreshTopology, BuildForSeats, QuietPeriodEnds,
     AcceptTopology, ObserveTopology
<1> QED BY <1>1, <1>2

-----------------------------------------------------------------------------
(* The windows a policy places.                                            *)

(* What the cache says was done last was done to the window there is.         *)
CacheHolds(applied, windows, places) ==
  /\ applied = [h \in Handle |-> applied[h]]
  /\ \A h \in Handle : applied[h] # NoPlan =>
       /\ windows[h] # NoSeatWindow
       /\ places[h] \in {[generation |-> windows[h].generation, plan |-> applied[h]], Nowhere}

(* As HealthySeatIsPlaced, for the policy that was reconciled last, though    *)
(* another one may have been set since and taken back.                        *)
HealthyHolds ==
  policyHealth = "Healthy" /\ reconciled # NoPolicy =>
    \A h \in Handle : seatWindows[h] # NoSeatWindow =>
      LET wanted == ComputePlan(seatWindows[h], seatGroup, reconciled)
      IN  /\ wanted.valid
          /\ wanted.actionable =>
               placedAt[h] \in {[generation |-> seatWindows[h].generation, plan |-> wanted], Nowhere}

PolicyInv == PolicyTypeOK /\ CacheHolds(lastApplied, seatWindows, placedAt) /\ HealthyHolds

LEMMA PolicySuffices == PolicyInv => PolicyTypeOK /\ HealthySeatIsPlaced
BY DEF PolicyInv, HealthyHolds, HealthySeatIsPlaced

LEMMA WindowsTold ==
  \A window \in PolicyWindows \cup {NoSeatWindow} :
    /\ window.generation \in Nat
    /\ window # NoSeatWindow <=> window \in PolicyWindows
    /\ window = NoSeatWindow <=> window.generation = 0
BY PolicyAssumption DEF NoSeatWindow

LEMMA PolicyStarts == PolicyInit => PolicyInv
<1> SUFFICES ASSUME PolicyInit PROVE PolicyInv  OBVIOUS
<1>1. PolicyTypeOK  BY PolicyAssumption DEF PolicyInit, PolicyTypeOK
<1>2. CacheHolds(lastApplied, seatWindows, placedAt)
  BY DEF PolicyInit, CacheHolds
<1>3. HealthyHolds  BY DEF PolicyInit, HealthyHolds
<1> QED BY <1>1, <1>2, <1>3 DEF PolicyInv

LEMMA ReconcileHolds ==
  ASSUME PolicyTypeOK, seatWindows' \in [Handle -> PolicyWindows \cup {NoSeatWindow}],
         NEW applied, CacheHolds(applied, seatWindows', placedAt),
         NEW outcome, ReconcileWindows(applied, outcome)
  PROVE  /\ CacheHolds(lastApplied', seatWindows', placedAt') /\ HealthyHolds'
         /\ policyHealth' \in {"Healthy", "Degraded", "RecoveryRequired"}
<1> DEFINE known == {h \in Handle : seatWindows'[h] # NoSeatWindow}
           wanted == [h \in known |-> ComputePlan(seatWindows'[h], seatGroup', windowPolicy)]
           executes == {h \in known : wanted[h].actionable /\ wanted[h] # applied[h]}
           stops == {h \in known : ~wanted[h].valid
                                   \/ (h \in executes /\ outcome[h] # "succeeded")}
           before == {h \in known : \A s \in stops : h < s}
           last == Leftmost(stops)
           native == \E h \in before : wanted[h].degraded
           fitting == windowPolicy # NoPolicy /\ seatGroup'.resolved
<1>1. HealthOfGroup \in {"Healthy", "Degraded", "RecoveryRequired"}
      /\ (~seatGroup'.resolved => HealthOfGroup = "Degraded")
  BY DEF HealthOfGroup, PolicyTypeOK
<1>2. CASE ~fitting
  <2>1. /\ policyHealth' = HealthOfGroup /\ lastApplied' = applied
        /\ reconciled' = windowPolicy /\ placedAt' = placedAt
    BY <1>2, Zenon DEF ReconcileWindows
  <2>2. HealthyHolds'
    BY <1>1, <1>2, <2>1 DEF HealthyHolds
  <2> QED BY <1>1, <2>1, <2>2
<1>3. CASE fitting
  <2>1. /\ policyHealth' =
             IF stops # {}
             THEN IF wanted[last].valid /\ outcome[last] = "retryable" THEN "Degraded"
                  ELSE "RecoveryRequired"
             ELSE IF native /\ HealthOfGroup = "Healthy" THEN "Degraded"
             ELSE HealthOfGroup
        /\ lastApplied' = [h \in Handle |-> IF h \in before \cap executes THEN wanted[h]
                                            ELSE applied[h]]
        /\ placedAt' = [h \in Handle |->
             IF h \in before \cap executes
             THEN [generation |-> seatWindows'[h].generation, plan |-> wanted[h]]
             ELSE IF stops # {} /\ h = last /\ h \in executes THEN Nowhere
             ELSE placedAt[h]]
        /\ reconciled' = windowPolicy
    BY <1>3, Zenon DEF ReconcileWindows
  <2>2. \A h \in known : /\ h \in Handle /\ seatWindows'[h] # NoSeatWindow
                         /\ wanted[h] = ComputePlan(seatWindows'[h], seatGroup', windowPolicy)
    OBVIOUS
  <2>3. \A h \in executes : h \in known /\ wanted[h].actionable
    OBVIOUS
  <2>4. stops = {} => /\ before = known
                      /\ \A h \in known : /\ wanted[h].valid
                                          /\ wanted[h].actionable => \/ h \in executes
                                                                   \/ wanted[h] = applied[h]
    OBVIOUS
  <2>5. policyHealth' \in {"Healthy", "Degraded", "RecoveryRequired"}
        /\ (policyHealth' = "Healthy" => stops = {})
    BY <1>1, <2>1
  <2>6. \A h \in Handle : seatWindows'[h] # NoSeatWindow => h \in known  OBVIOUS
  <2> HIDE DEF known, wanted, executes, stops, before, last, native
  <2>7. CacheHolds(lastApplied', seatWindows', placedAt')
    <3>1. lastApplied' = [h \in Handle |-> lastApplied'[h]]  BY <2>1
    <3>2. ASSUME NEW h \in Handle, lastApplied'[h] # NoPlan
          PROVE  /\ seatWindows'[h] # NoSeatWindow
                 /\ placedAt'[h] \in {[generation |-> seatWindows'[h].generation,
                                       plan |-> lastApplied'[h]], Nowhere}
      <4>1. CASE h \in before \cap executes  BY <2>1, <2>2, <2>3, <4>1
      <4>2. CASE h \notin before \cap executes
        <5>1. lastApplied'[h] = applied[h] /\ placedAt'[h] \in {placedAt[h], Nowhere}
          BY <2>1, <4>2
        <5>2. /\ seatWindows'[h] # NoSeatWindow
              /\ placedAt[h] \in {[generation |-> seatWindows'[h].generation,
                                   plan |-> applied[h]], Nowhere}
          BY <3>2, <5>1 DEF CacheHolds
        <5> QED BY <5>1, <5>2
      <4> QED BY <4>1, <4>2
    <3> QED BY <3>1, <3>2 DEF CacheHolds
  <2>8. ASSUME policyHealth' = "Healthy", NEW h \in Handle, seatWindows'[h] # NoSeatWindow
        PROVE  /\ wanted[h].valid
               /\ wanted[h].actionable =>
                    placedAt'[h] \in {[generation |-> seatWindows'[h].generation,
                                       plan |-> wanted[h]], Nowhere}
    <3>1. stops = {} /\ h \in known /\ h \in before  BY <2>4, <2>5, <2>6, <2>8
    <3>2. wanted[h].valid /\ (wanted[h].actionable => h \in executes \/ wanted[h] = applied[h])
      BY <2>4, <3>1
    <3>3. CASE h \in executes
      <4>1. placedAt'[h] = [generation |-> seatWindows'[h].generation, plan |-> wanted[h]]
        BY <2>1, <3>1, <3>3
      <4> QED BY <3>2, <4>1
    <3>4. CASE h \notin executes /\ wanted[h].actionable
      <4>1. wanted[h] = applied[h] /\ placedAt'[h] = placedAt[h]  BY <2>1, <3>1, <3>2, <3>4
      <4>2. applied[h] # NoPlan  BY <3>4, <4>1 DEF NoPlan
      <4>3. placedAt[h] \in {[generation |-> seatWindows'[h].generation,
                              plan |-> applied[h]], Nowhere}
        BY <4>2 DEF CacheHolds
      <4> QED BY <3>2, <4>1, <4>3
    <3> QED BY <3>2, <3>3, <3>4
  <2>9. HealthyHolds'
    BY <2>1, <2>2, <2>6, <2>8 DEF HealthyHolds
  <2> QED BY <2>5, <2>7, <2>9
<1> QED BY <1>2, <1>3

LEMMA PolicySteps == PolicyInv /\ [PolicyNext]_policyVars => PolicyInv'
<1> SUFFICES ASSUME PolicyInv, [PolicyNext]_policyVars PROVE PolicyInv'  OBVIOUS
<1>0. /\ PolicyTypeOK /\ CacheHolds(lastApplied, seatWindows, placedAt) /\ HealthyHolds
      /\ seatWindows \in [Handle -> PolicyWindows \cup {NoSeatWindow}]
      /\ lastApplied = [h \in Handle |-> lastApplied[h]]
  BY DEF PolicyInv, PolicyTypeOK, CacheHolds
<1>1. ASSUME NEW policy \in WindowPolicies, SetWindowPolicy(policy) PROVE PolicyInv'
  BY <1>0, <1>1 DEF SetWindowPolicy, PolicyInv, PolicyTypeOK, CacheHolds, HealthyHolds
<1>2. ASSUME NEW sequence \in 1..MaxEvent, RejectEvent(sequence) PROVE PolicyInv'
  BY <1>0, <1>2 DEF RejectEvent, PolicyInv, PolicyTypeOK, CacheHolds, HealthyHolds
<1>3. ASSUME NEW sequence \in 1..MaxEvent, Accept(sequence),
             UNCHANGED <<seatWindows, seatGroup, windowPolicy, lastApplied, policyHealth,
                         placedAt, reconciled>>
      PROVE  PolicyInv'
  <2>1. lastEvent' \in 0..MaxEvent  BY <1>3, PolicyAssumption DEF Accept
  <2> QED BY <1>0, <1>3, <2>1 DEF PolicyInv, PolicyTypeOK, CacheHolds, HealthyHolds
<1>4. ASSUME NEW sequence \in 1..MaxEvent, Accept(sequence), UNCHANGED windowPolicy,
             seatWindows' \in [Handle -> PolicyWindows \cup {NoSeatWindow}],
             NEW applied, CacheHolds(applied, seatWindows', placedAt),
             NEW outcome, ReconcileWindows(applied, outcome)
      PROVE  PolicyInv'
  <2>1. lastEvent' \in 0..MaxEvent  BY <1>4, PolicyAssumption DEF Accept
  <2>2. /\ CacheHolds(lastApplied', seatWindows', placedAt') /\ HealthyHolds'
        /\ policyHealth' \in {"Healthy", "Degraded", "RecoveryRequired"}
    BY <1>0, <1>4, ReconcileHolds
  <2>3. PolicyTypeOK'  BY <1>0, <1>4, <2>1, <2>2 DEF PolicyTypeOK
  <2> QED BY <2>2, <2>3 DEF PolicyInv
<1>5. ASSUME NEW sequence \in 1..MaxEvent, NEW outcome, NEW h \in Handle,
             NEW window \in PolicyWindows, WindowChanged(sequence, h, window, outcome)
      PROVE  PolicyInv'
  <2>1. CASE window.generation < seatWindows[h].generation
             /\ UNCHANGED <<seatWindows, lastApplied, policyHealth, placedAt, reconciled>>
    BY <1>3, <1>5, <2>1 DEF WindowChanged
  <2>2. CASE /\ window.generation >= seatWindows[h].generation
             /\ seatWindows' = [seatWindows EXCEPT ![h] = window]
             /\ ReconcileWindows(ForgetApplied(h, window), outcome)
    <3> DEFINE applied == ForgetApplied(h, window)
    <3>1. seatWindows' \in [Handle -> PolicyWindows \cup {NoSeatWindow}]
          /\ \A i \in Handle : seatWindows'[i] = IF i = h THEN window ELSE seatWindows[i]
      BY <1>0, <2>2
    <3>2. /\ applied = [i \in Handle |-> applied[i]]
          /\ \A i \in Handle : i # h => applied[i] = lastApplied[i]
          /\ applied[h] # NoPlan =>
               /\ applied[h] = lastApplied[h]
               /\ ~(seatWindows[h] # NoSeatWindow /\ seatWindows[h].generation < window.generation)
      <4>1. CASE seatWindows[h] # NoSeatWindow /\ seatWindows[h].generation < window.generation
        <5>1. applied = [lastApplied EXCEPT ![h] = NoPlan]  BY <4>1 DEF ForgetApplied
        <5> HIDE DEF applied
        <5> QED BY <1>0, <5>1
      <4>2. CASE ~(seatWindows[h] # NoSeatWindow /\ seatWindows[h].generation < window.generation)
        <5>1. applied = lastApplied  BY <4>2 DEF ForgetApplied
        <5> QED BY <1>0, <4>2, <5>1
      <4> QED BY <4>1, <4>2
    <3> HIDE DEF applied
    <3>3. ASSUME applied[h] # NoPlan
          PROVE  /\ window # NoSeatWindow
                 /\ placedAt[h] \in {[generation |-> window.generation, plan |-> applied[h]],
                                     Nowhere}
      <4>1. /\ seatWindows[h] # NoSeatWindow
            /\ placedAt[h] \in {[generation |-> seatWindows[h].generation,
                                 plan |-> lastApplied[h]], Nowhere}
        BY <1>0, <3>2, <3>3 DEF CacheHolds
      <4>2. seatWindows[h].generation \in Nat /\ window.generation \in Nat
            /\ window # NoSeatWindow
        BY <1>0, WindowsTold
      <4>3. seatWindows[h].generation = window.generation
        BY <2>2, <3>2, <3>3, <4>1, <4>2
      <4> QED BY <3>2, <3>3, <4>1, <4>2, <4>3
    <3>4. CacheHolds(applied, seatWindows', placedAt)
      BY <1>0, <3>1, <3>2, <3>3 DEF CacheHolds
    <3>5. ReconcileWindows(applied, outcome)  BY <2>2 DEF applied
    <3> QED BY <1>4, <1>5, <3>1, <3>4, <3>5 DEF WindowChanged
  <2> QED BY <1>5, <2>1, <2>2 DEF WindowChanged
<1>6. ASSUME NEW sequence \in 1..MaxEvent, NEW outcome, NEW h \in Handle, NEW generation,
             WindowRemoved(sequence, h, generation, outcome)
      PROVE  PolicyInv'
  <2> DEFINE applied == IF seatWindows[h] = NoSeatWindow THEN lastApplied
                        ELSE [lastApplied EXCEPT ![h] = NoPlan]
  <2>1. CASE UNCHANGED <<seatWindows, lastApplied, policyHealth, placedAt, reconciled>>
    BY <1>3, <1>6, <2>1 DEF WindowRemoved
  <2>2. CASE /\ seatWindows' = [seatWindows EXCEPT ![h] = NoSeatWindow]
             /\ ReconcileWindows(applied, outcome)
    <3>1. seatWindows' \in [Handle -> PolicyWindows \cup {NoSeatWindow}]
          /\ \A i \in Handle : seatWindows'[i] = IF i = h THEN NoSeatWindow ELSE seatWindows[i]
      BY <1>0, <2>2
    <3>2. /\ applied = [i \in Handle |-> applied[i]]
          /\ \A i \in Handle : i # h => applied[i] = lastApplied[i]
          /\ applied[h] = NoPlan
      BY <1>0 DEF CacheHolds
    <3> HIDE DEF applied
    <3>3. CacheHolds(applied, seatWindows', placedAt)
      BY <1>0, <3>1, <3>2 DEF CacheHolds
    <3> QED BY <1>4, <1>6, <2>2, <3>1, <3>3 DEF WindowRemoved
  <2> QED BY <1>6, <2>1, <2>2 DEF WindowRemoved
<1>7. ASSUME NEW sequence \in 1..MaxEvent, NEW outcome, NEW group,
             LayoutChanged(sequence, group, outcome)
      PROVE  PolicyInv'
  BY <1>0, <1>4, <1>7 DEF LayoutChanged
<1>8. ASSUME NEW sequence \in 1..MaxEvent, NEW outcome, ReconcileAgain(sequence, outcome)
      PROVE  PolicyInv'
  BY <1>0, <1>4, <1>8 DEF ReconcileAgain
<1>9. CASE UNCHANGED policyVars
  BY <1>0, <1>9 DEF policyVars, PolicyInv, PolicyTypeOK, CacheHolds, HealthyHolds
<1> QED BY <1>1, <1>2, <1>5, <1>6, <1>7, <1>8, <1>9 DEF PolicyNext

-----------------------------------------------------------------------------
(* Routes, messages and calls.                                             *)

(* What the routing keeps: which Seats there are, who owns a device, where     *)
(* the input of a Seat goes.                                                 *)
RoutingInv ==
  /\ DOMAIN seats \subseteq Workspace
  /\ routes \in [owner : [Device -> Workspace \cup {0}],
                 target : [Workspace -> TargetWindow \cup {0}], listening : BOOLEAN]

LEMMA RoutingStarts == IsolationInit => RoutingInv
  BY DEF IsolationInit, RoutingInv, Workspace

LEMMA RoutingSteps == RoutingInv /\ [RoutingNext]_<<seats, routes>> => RoutingInv'
<1> SUFFICES ASSUME RoutingInv, [RoutingNext]_<<seats, routes>> PROVE RoutingInv'  OBVIOUS
<1> USE DEF RoutingInv
<1>1. CASE CreateWorkspace
  <2>1. \A x \in Workspace : DOMAIN seats \cup {x} \subseteq Workspace  OBVIOUS
  <2>2. Min(Workspace \ DOMAIN seats) \in Workspace
    <3>1. CASE 1 \notin DOMAIN seats
      BY <3>1, <1>1 DEF CreateWorkspace, Min, Workspace
    <3>2. CASE 1 \in DOMAIN seats
      <4>1. Workspace \ DOMAIN seats = {2}
        BY <3>2, <1>1 DEF CreateWorkspace, Workspace
      <4> QED BY <4>1 DEF Min, Workspace
    <3> QED BY <3>1, <3>2
  <2> QED BY <1>1, <2>1, <2>2 DEF CreateWorkspace
<1>2. ASSUME NEW s \in Workspace, RemoveWorkspace(s) PROVE RoutingInv'
  BY <1>2 DEF RemoveWorkspace
<1>3. ASSUME NEW s \in Workspace, ClearSeat(s) PROVE RoutingInv'
  <2> DEFINE owned == [d \in Device |-> IF routes.owner[d] = s THEN 0 ELSE routes.owner[d]]
  <2>1. owned \in [Device -> Workspace \cup {0}]
    OBVIOUS
  <2>2. [routes.target EXCEPT ![s] = 0] \in [Workspace -> TargetWindow \cup {0}]
    OBVIOUS
  <2>3. routes' = [routes EXCEPT !.owner = owned, !.target = [routes.target EXCEPT ![s] = 0]]
    BY <1>3 DEF ClearSeat
  <2> HIDE DEF owned
  <2> QED BY <1>3, <2>1, <2>2, <2>3 DEF ClearSeat
<1>4. ASSUME NEW s \in Workspace, NEW d \in Device, AssignDevice(s, d) PROVE RoutingInv'
  BY <1>4 DEF AssignDevice
<1>5. ASSUME NEW s \in Workspace \cup {0}, NEW d \in Device,
             routes' = [routes EXCEPT !.owner[d] = s], UNCHANGED seats
      PROVE  RoutingInv'
  BY <1>5
<1>6. ASSUME NEW s \in Workspace, NEW w \in TargetWindow \cup {0}, BindTargetWindow(s, w)
      PROVE  RoutingInv'
  BY <1>6 DEF BindTargetWindow
<1>7. CASE StartRouter \/ StopRouter
  BY <1>7 DEF StartRouter, StopRouter
<1>8. CASE NamelessEvent \/ \E d \in Device, isolating \in BOOLEAN : RouteEvent(d, isolating)
  BY <1>8 DEF NamelessEvent, RouteEvent
<1>9. CASE UNCHANGED <<seats, routes>>
  BY <1>9
<1> QED
  BY <1>1, <1>2, <1>3, <1>4, <1>5, <1>6, <1>7, <1>8, <1>9 DEF RoutingNext, BindDevice, UnbindDevice

LEMMA ExchangeStarts == ExchangeInit => ExchangeTypeOK
  BY ExchangeAssumption DEF ExchangeInit, ExchangeTypeOK

LEMMA ExchangeSteps == ExchangeTypeOK /\ [ExchangeNext]_exchangeVars => ExchangeTypeOK'
<1> SUFFICES ASSUME ExchangeTypeOK, [ExchangeNext]_exchangeVars PROVE ExchangeTypeOK'  OBVIOUS
<1> USE DEF ExchangeTypeOK
<1>1. CASE OpenConnection
  <2>1. DOMAIN stream' = Side /\ DOMAIN unsent' = Side
    BY <1>1 DEF OpenConnection
  <2>2. calls' \in Seq({Hi} \cup Requests) /\ Len(calls') <= MaxCalls
    BY <1>1, ExchangeAssumption DEF OpenConnection
  <2> QED BY <1>1, <2>1, <2>2 DEF OpenConnection
<1>2. CASE CallHost
  <2> PICK request \in Requests : BeginCall(request)
    BY <1>2 DEF CallHost
  <2>0. Len(calls) < MaxCalls /\ UNCHANGED <<hostSide, stream>>
    BY <1>2 DEF CallHost
  <2>1. CASE HostEncode(request.type, request.value) = NoCells
    BY <2>0, <2>1 DEF BeginCall
  <2>2. CASE HostEncode(request.type, request.value) # NoCells
    <3>1. calls' = Append(calls, request) /\ clientSide' = "writing"
          /\ DOMAIN unsent' = DOMAIN unsent
      BY <2>2 DEF BeginCall
    <3>2. calls' \in Seq({Hi} \cup Requests) /\ Len(calls') = Len(calls) + 1
      BY <3>1
    <3> QED BY <2>0, <3>1, <3>2, ExchangeAssumption
  <2> QED BY <2>1, <2>2
<1>3. CASE ClientWrites
  BY <1>3 DEF ClientWrites, Write
<1>4. CASE ClientReads
  <2>1. DOMAIN stream' = DOMAIN stream /\ UNCHANGED <<hostSide, calls>>
    BY <1>4, Zenon DEF ClientReads
  <2>2. \/ clientSide' = "ready" /\ UNCHANGED unsent
        \/ Close
    BY <1>4, Zenon DEF ClientReads
  <2> QED BY <2>1, <2>2 DEF Close
<1>5. CASE HostReads
  <2>1. DOMAIN stream' = DOMAIN stream /\ UNCHANGED <<clientSide, calls>>
    BY <1>5, Zenon DEF HostReads
  <2>2. hostSide' \in {"gone", "writing"} /\ DOMAIN unsent' = DOMAIN unsent
    BY <1>5, Zenon DEF HostReads
  <2> QED BY <2>1, <2>2
<1>6. CASE HostWrites \/ HostGivesUp
  BY <1>6 DEF HostWrites, HostGivesUp, Write
<1>7. CASE CallTimesOut \/ ClientCloses
  BY <1>7 DEF CallTimesOut, ClientCloses, GiveUp, Close
<1>8. CASE UNCHANGED exchangeVars
  BY <1>8 DEF exchangeVars
<1> QED BY <1>1, <1>2, <1>3, <1>4, <1>5, <1>6, <1>7, <1>8 DEF ExchangeNext

LEMMA WireStarts == WireInit => WireTypeOK
<1> SUFFICES ASSUME WireInit PROVE WireTypeOK  OBVIOUS
<1>1. wireLink \in WireLink  BY Zenon DEF WireInit
<1>2. wireEdits \in 0..2
  <2>1. wireEdits = 0  BY Zenon DEF WireInit
  <2> QED BY <2>1
<1>3. wireDamaged \in BOOLEAN
  <2>1. wireDamaged = FALSE  BY Zenon DEF WireInit
  <2> QED BY <2>1, Zenon
<1>4. wireStage \in {"composing", "sent", "refused", "received"}
  <2>1. wireStage = "composing"  BY Zenon DEF WireInit
  <2> QED BY <2>1, Zenon
<1> QED BY <1>1, <1>2, <1>3, <1>4, Zenon DEF WireTypeOK

LEMMA WireSteps == WireTypeOK /\ [WireNext]_wireVars => WireTypeOK'
<1> SUFFICES ASSUME WireTypeOK, [WireNext]_wireVars PROVE WireTypeOK'  OBVIOUS
<1> USE DEF WireTypeOK
<1>1. CASE Compose
  <2>1. wireEdits < 2 /\ wireEdits' = wireEdits + 1 /\ UNCHANGED <<wireLink, wireDamaged, wireStage>>
    BY <1>1 DEF Compose
  <2> QED BY <2>1
<1>2. CASE Send
  BY <1>2 DEF Send
<1>3. CASE Damage
  <2>1. wireEdits < 2 /\ wireEdits' = wireEdits + 1 /\ wireDamaged' = TRUE
        /\ UNCHANGED <<wireLink, wireStage>>
    BY <1>3 DEF Damage
  <2> QED BY <2>1
<1>4. CASE Receive
  BY <1>4 DEF Receive
<1>5. CASE UNCHANGED wireVars
  BY <1>5 DEF wireVars
<1> QED BY <1>1, <1>2, <1>3, <1>4, <1>5 DEF WireNext

(* A step of the router keeps what an event went by.                         *)
LEMMA EventsFollowOwners ==
  ASSUME RoutingInv, RoutingNext
  PROVE  decided' # decided =>
           LET s == decided'.seat
           IN IF s = 0 THEN ~decided'.consume
              ELSE s \in DOMAIN seats /\ routes.owner[decided'.device] = s
<1>1. CASE NamelessEvent
  BY <1>1 DEF NamelessEvent, NoDecision
<1>2. ASSUME NEW d \in Device, NEW isolating \in BOOLEAN, RouteEvent(d, isolating)
      PROVE  decided' # decided =>
               LET s == decided'.seat
               IN IF s = 0 THEN ~decided'.consume
                  ELSE s \in DOMAIN seats /\ routes.owner[decided'.device] = s
  <2> DEFINE s == routes.owner[d]
  <2>1. CASE s = 0 \/ s \notin DOMAIN seats
    BY <1>2, <2>1 DEF RouteEvent, NoDecision
  <2>2. CASE ~(s = 0 \/ s \notin DOMAIN seats)
    BY <1>2, <2>2 DEF RouteEvent
  <2> QED BY <2>1, <2>2
<1>3. CASE UNCHANGED decided
  BY <1>3
<1> QED
  BY <1>1, <1>2, <1>3 DEF RoutingNext, CreateWorkspace, StartRouter, StopRouter, RemoveWorkspace,
     ClearSeat, AssignDevice, BindDevice, BindTargetWindow, UnbindDevice

-----------------------------------------------------------------------------
(* Any one of them, as it is checked.                                        *)
PlatformInv ==
  /\ scene \in {"raw", "keys"} => RawInv
  /\ scene \in {"xinput", "one slot"} => XInputInv
  /\ scene = "cursor" => CursorInv
  /\ scene = "wire" => WireTypeOK
  /\ scene = "exchange" => ExchangeTypeOK
  /\ scene \in {"planning", "routing"} => PlanInv /\ RoutingInv
  /\ scene = "evidence" => EvidenceInv
  /\ scene = "tracker" => TrackerInv /\ LeaseInit
  /\ scene = "placement" => PlacementInv
  /\ scene = "displays" => LayoutInv
  /\ scene = "policy" => PolicyInv

LEMMA PlatformStarts == PlatformInit => PlatformInv
  BY RawStarts, XInputStarts, CursorStarts, PlanStarts, EvidenceStarts, TrackerStarts,
     PlacementStarts, LayoutStarts, PolicyStarts, WireStarts, ExchangeStarts, RoutingStarts
     DEF PlatformInit, PlatformInv

LEMMA PlatformSteps == PlatformInv /\ [PlatformNext]_platformVars => PlatformInv'
<1> SUFFICES ASSUME PlatformInv, [PlatformNext]_platformVars PROVE PlatformInv'  OBVIOUS
<1>1. CASE scene = "raw" /\ RawStreamNext /\ ScenesStill
  BY <1>1, RawSteps DEF PlatformInv, ScenesStill
<1>2. CASE scene = "keys" /\ KeyAndWindowNext /\ ScenesStill
  BY <1>2, RawSteps DEF PlatformInv, ScenesStill
<1>3. CASE scene \in {"xinput", "one slot"} /\ XInputNext /\ XInputBounds /\ ScenesStill
  BY <1>3, XInputSteps DEF PlatformInv, ScenesStill
<1>4. CASE scene = "cursor" /\ CursorNext /\ ScenesStill
  BY <1>4, CursorSteps DEF PlatformInv, ScenesStill
<1>5. CASE scene = "tracker" /\ TrackerNext /\ ScenesStill
  <2>1. LeaseInit => LeaseInit'
    BY <1>5 DEF ScenesStill, lifeAndLeaseVars, leaseVars, LeaseInit
  <2> QED BY <1>5, <2>1, TrackerSteps DEF PlatformInv, ScenesStill
<1>6. CASE scene = "placement" /\ PlacementNext /\ ScenesStill
  BY <1>6, PlacementSteps DEF PlatformInv, ScenesStill
<1>7. CASE scene = "displays" /\ LayoutNext /\ DisplayBounds' /\ ScenesStill
  BY <1>7, LayoutSteps DEF PlatformInv, ScenesStill
<1>8. CASE scene = "policy" /\ PolicyNext /\ ScenesStill
  BY <1>8, PolicySteps DEF PlatformInv, ScenesStill
<1>9. CASE scene = "wire" /\ WireNext /\ ScenesStill
  BY <1>9, WireSteps DEF PlatformInv, ScenesStill
<1>10. CASE scene = "exchange" /\ ExchangeNext /\ ScenesStill
  BY <1>10, ExchangeSteps DEF PlatformInv, ScenesStill
<1>11. CASE scene = "planning" /\ PlanNext /\ ScenesStill
  <2>1. UNCHANGED <<seats, routes>>
    BY <1>11 DEF PlanNext, SelectBackend, SelectOptional, FinishPlan
  <2> QED BY <1>11, <2>1, PlanSteps, RoutingSteps DEF PlatformInv, ScenesStill
<1>12. CASE scene = "routing" /\ RoutingNext /\ ScenesStill
  <2>1. UNCHANGED <<planFor, plan>>
    BY <1>12 DEF RoutingNext, CreateWorkspace, StartRouter, StopRouter, NamelessEvent,
         RemoveWorkspace, ClearSeat, AssignDevice, BindDevice, BindTargetWindow, UnbindDevice,
         RouteEvent
  <2> QED BY <1>12, <2>1, PlanSteps, RoutingSteps DEF PlatformInv, ScenesStill
<1>13. CASE scene = "evidence" /\ EvidenceNext /\ ScenesStill
  BY <1>13, EvidenceSteps DEF PlatformInv, ScenesStill
<1>14. CASE UNCHANGED platformVars
  <2>1. UNCHANGED <<rawVars, xinputVars, cursorVars, isolationVars, evidenceVars, scene>>
        /\ UNCHANGED <<placementVars, layoutVars, policyVars, exchangeVars, wireVars>>
    BY <1>14 DEF platformVars
  <2>2. RawInv => RawInv'  BY <2>1, RawSteps
  <2>3. XInputInv => XInputInv'  BY <2>1, XInputSteps
  <2>4. CursorInv => CursorInv'  BY <2>1, CursorSteps
  <2>5. PlanInv => PlanInv'  BY <2>1, PlanSteps DEF isolationVars
  <2>6. EvidenceInv => EvidenceInv'  BY <2>1, EvidenceSteps
  <2>7. TrackerInv /\ LeaseInit => TrackerInv' /\ LeaseInit'
    BY <2>1, TrackerSteps DEF placementVars, lifeAndLeaseVars, leaseVars, LeaseInit
  <2>8. PlacementInv => PlacementInv'  BY <2>1, PlacementStutters
  <2>9. LayoutInv => LayoutInv'  BY <2>1, LayoutSteps
  <2>10. PolicyInv => PolicyInv'  BY <2>1, PolicySteps
  <2>11. RoutingInv => RoutingInv'  BY <2>1, RoutingSteps DEF isolationVars
  <2>12. ExchangeTypeOK => ExchangeTypeOK'  BY <2>1, ExchangeSteps
  <2>13. WireTypeOK => WireTypeOK'  BY <2>1, WireSteps
  <2> QED
    BY <2>1, <2>2, <2>3, <2>4, <2>5, <2>6, <2>7, <2>8, <2>9, <2>10, <2>11, <2>12, <2>13
       DEF PlatformInv
<1> QED
  BY <1>1, <1>2, <1>3, <1>4, <1>5, <1>6, <1>7, <1>8, <1>9, <1>10, <1>11, <1>12, <1>13, <1>14
     DEF PlatformNext

LEMMA PlatformHolds == PlatformSpec => []PlatformInv
  BY PlatformStarts, PlatformSteps, PTL DEF PlatformSpec

(* Every component of the platform keeps its types, with its slots, queues    *)
(* and counters inside of their limits.                                      *)
THEOREM PlatformTypeCorrect == PlatformSpec => []PlatformTypeOK
<1>1. PlanInv /\ RoutingInv => IsolationTypeOK
  BY DEF PlanInv, Finished, RoutingInv, IsolationTypeOK, Candidates
<1>2. LeaseInit => PlacementTypeOK
  BY TrackerAssumption, PlacementAssumption DEF LeaseInit, PlacementTypeOK
<1>3. PlatformInv => PlatformTypeOK
  BY <1>1, <1>2, RawSuffices, XInputSuffices, CursorSuffices, EvidenceSuffices, TrackerSuffices,
     LeaseSuffices, LayoutSuffices, PolicySuffices
     DEF PlatformInv, PlatformTypeOK, PlacementInv
<1> QED BY <1>3, PlatformHolds, PTL

(* A game sees the input of its own Seat and nothing else.                  *)
THEOREM GamesSeeTheirInput == PlatformSpec => []InputIsExact
<1>1. PlatformInv => InputIsExact
  BY RawSuffices, XInputSuffices, CursorSuffices, PlanSuffices, EvidenceSuffices
     DEF PlatformInv, InputIsExact
<1> QED BY <1>1, PlatformHolds, PTL

(* A Seat's windows are its own, what a placement changed is held to be put *)
(* back, and a Seat gets, or gets back, the displays that are its own.      *)
THEOREM SeatsKeepTheirWindows == PlatformSpec => []WindowsAreOwned
<1>1. LeaseInit => PlacedWindowsAreHeld
  BY DEF LeaseInit, PlacedWindowsAreHeld
<1>2. PlatformInv => WindowsAreOwned
  BY <1>1, TrackerSuffices, LeaseSuffices, LayoutSuffices, PolicySuffices
     DEF PlatformInv, WindowsAreOwned, PlacementInv
<1> QED BY <1>2, PlatformHolds, PTL

(* What comes late undoes nothing newer: a display event does not take the    *)
(* accepted topology back, and an event goes to a Seat only while that Seat   *)
(* owns the device.                                                          *)
THEOREM LateEventsUndoNothing == PlatformSpec => AcceptedForward /\ RoutesFollowOwners
<1>1. PlatformInv /\ [PlatformNext]_platformVars => [lastAccepted' >= lastAccepted]_layoutVars
  <2> SUFFICES ASSUME PlatformInv, [PlatformNext]_platformVars, ~UNCHANGED layoutVars
               PROVE  lastAccepted' >= lastAccepted
    OBVIOUS
  <2>1. scene = "displays" /\ LayoutNext
    BY DEF PlatformNext, ScenesStill, platformVars
  <2> QED BY <2>1, AcceptedRises DEF PlatformInv
<1>2. PlatformInv /\ [PlatformNext]_platformVars =>
        [decided' # decided =>
           LET s == decided'.seat
           IN IF s = 0 THEN ~decided'.consume
              ELSE s \in DOMAIN seats /\ routes.owner[decided'.device] = s]_isolationVars
  <2> SUFFICES ASSUME PlatformInv, [PlatformNext]_platformVars, decided' # decided
               PROVE  LET s == decided'.seat
                      IN IF s = 0 THEN ~decided'.consume
                         ELSE s \in DOMAIN seats /\ routes.owner[decided'.device] = s
    OBVIOUS
  <2>1. scene \in {"planning", "routing"} /\ (PlanNext \/ RoutingNext)
    BY DEF PlatformNext, ScenesStill, platformVars, isolationVars
  <2>2. ~PlanNext
    BY DEF PlanNext, SelectBackend, SelectOptional, FinishPlan
  <2> QED BY <2>1, <2>2, EventsFollowOwners DEF PlatformInv
<1> QED
  BY <1>1, <1>2, PlatformHolds, PTL
     DEF PlatformSpec, AcceptedForward, RoutesFollowOwners
=============================================================================

-------------------------- MODULE VirtualRawInput --------------------------
(***************************************************************************)
(* What one game process sees of its Seat's keyboard and mouse: the        *)
(* adapter's context with its key state, its logical windows, the          *)
(* synthetic Raw Input stream and, at the end, the cursor (gate_c_adapter, *)
(* virtual_input_state and virtual_raw_input).  Each call is one step      *)
(* under the context's lock.                                               *)
(*                                                                         *)
(* An input of a registered usage becomes a packet with a token that is    *)
(* posted to the game's window; the game presents the token later, maybe   *)
(* late, twice, or after it registered anew.  The packet's bytes are       *)
(* abstracted to the sequence of the input they carry.                     *)
(***************************************************************************)
EXTENDS Integers, Sequences, FiniteSets, SequencesExt

CONSTANTS
  RawWindow,           \* windows of the game's process
  HandleSlot,          \* slots of the handle table, tried in order from 1
  MaxTokenGeneration,  \* maximumGeneration(), 2047 or 65535 in the code
  MaxQueue,            \* kVirtualRawMaximumPackets
  MaxSequence,         \* bound of the model: inputs of the host
  MaxRegistrations     \* bound of the model: registrations of the game

ASSUME RawInputAssumption ==
  /\ HandleSlot = 1..Cardinality(HandleSlot)
  /\ MaxTokenGeneration \in Nat \ {0} /\ MaxQueue \in Nat
  /\ MaxSequence \in Nat /\ MaxRegistrations \in Nat

VARIABLES
  lastInput,     \* lastAppliedSequence of the key state
  keyDown,       \* whether the probed key is down
  keyEdge,       \* its pressed edge, not polled yet
  rawMode,       \* rawEnabled, configured and stopping
  usageWindow,   \* the registration of each usage: its generation and window
  registrations, \* registrationGeneration
  handles,       \* the slots of the handle table
  rawQueue,      \* the tokens queued for GetRawInputBuffer
  pending,       \* deliveries that are not posted yet
  posting,       \* tokens the shim is posting to a window
  targetWindow, logicalFocus, captureWindow,
  tokenInput     \* history: the input each token was first issued for

rawVars == <<lastInput, keyDown, keyEdge, rawMode, usageWindow, registrations,
             handles, rawQueue, pending, posting, targetWindow, logicalFocus,
             captureWindow, tokenInput>>

Usage == {"keyboard", "mouse"}
NoWindow == "no window"
WindowOrNone == RawWindow \cup {NoWindow}
HandleState == {"Free", "Allocated", "Delivered", "Consumed", "Expired", "Retired"}
RawToken == [slot : HandleSlot, generation : 1..MaxTokenGeneration]
Unregistered0 == [generation |-> 0, window |-> NoWindow]
NoPacket == [input |-> 0, usage |-> "keyboard", registration |-> 0]
FreshSlot == [state |-> "Free", generation |-> 1, packet |-> NoPacket]

RawInit ==
  /\ lastInput = 0 /\ keyDown = FALSE /\ keyEdge = FALSE
  /\ rawMode = [enabled |-> FALSE, stopping |-> FALSE]
  /\ usageWindow = [u \in Usage |-> Unregistered0] /\ registrations = 0
  /\ handles = [i \in HandleSlot |-> FreshSlot]
  /\ rawQueue = <<>> /\ pending = <<>> /\ posting = {}
  /\ targetWindow = NoWindow /\ logicalFocus = NoWindow /\ captureWindow = NoWindow
  /\ tokenInput = [t \in RawToken |-> 0]

keyVars == <<lastInput, keyDown, keyEdge>>
windowStateVars == <<targetWindow, logicalFocus, captureWindow>>
streamVars == <<rawMode, usageWindow, registrations, handles, rawQueue, pending,
                posting, tokenInput>>

-----------------------------------------------------------------------------
(* The handle table.                                                       *)
LiveSlot(slot) == slot.state \in {"Allocated", "Delivered"}
TokenOf(i) == [slot |-> i, generation |-> handles[i].generation]
Resolves(t) == handles[t.slot].generation = t.generation /\ LiveSlot(handles[t.slot])
Packet(t) == handles[t.slot].packet

Released(slot, state) == [slot EXCEPT !.state = state, !.packet = NoPacket]

(* Mutant of Reused: a used slot keeps its generation.                     *)
ReusedSameGeneration(slot) ==
  IF slot.state \in {"Consumed", "Expired"} THEN [slot EXCEPT !.state = "Free"] ELSE slot

(* A slot that was used gets a new generation; one that has had them all   *)
(* is never used again.                                                    *)
Reused(slot) ==
  IF slot.state \notin {"Consumed", "Expired"} THEN slot
  ELSE IF slot.generation >= MaxTokenGeneration THEN Released(slot, "Retired")
  ELSE [slot EXCEPT !.generation = @ + 1, !.state = "Free"]

FreeSlots == {i \in HandleSlot : Reused(handles[i]).state = "Free"}
FirstFree == CHOOSE i \in FreeSlots : \A j \in FreeSlots : i <= j

(* The table after allocate(): the slots before the chosen one that are    *)
(* used up are retired on the way.                                         *)
Scanned(upTo) ==
  [i \in HandleSlot |-> IF i <= upTo THEN Reused(handles[i]) ELSE handles[i]]

(* Mutant of ResetTable: the slots start over.                             *)
ResetTableFresh == [i \in HandleSlot |-> FreshSlot]

ResetTable ==
  [i \in HandleSlot |->
     IF handles[i].state = "Retired" THEN handles[i]
     ELSE IF handles[i].generation >= MaxTokenGeneration THEN Released(handles[i], "Retired")
     ELSE [Released(handles[i], "Free") EXCEPT !.generation = @ + 1]]

-----------------------------------------------------------------------------
(* hydra_gate_c_adapter_raw_configure; a stopped stream goes on with it.   *)
RawConfigure ==
  /\ rawMode' = [enabled |-> TRUE, stopping |-> FALSE] /\ pending' = <<>>
  /\ UNCHANGED <<keyVars, windowStateVars, usageWindow, registrations, handles,
                 rawQueue, posting, tokenInput>>

Expired(usage) ==
  [i \in HandleSlot |-> IF LiveSlot(handles[i]) /\ handles[i].packet.usage = usage
                          THEN Released(handles[i], "Expired") ELSE handles[i]]

(* What is kept of a queue, in its order.                                  *)
PlaceAmong(places, i) == Cardinality({j \in places : j <= i})
KeptOf(q, keep) ==
  LET places == {i \in 1..Len(q) : q[i] \in keep}
  IN [k \in 1..Cardinality(places) |-> q[CHOOSE i \in places : PlaceAmong(places, i) = k]]

OtherTokens(usage) == KeptOf(rawQueue, {t \in RawToken : Packet(t).usage # usage})

(* Mutant of ExpireUsage: what was sent for the old registration stays.    *)
ExpireUsageNot(usage) == UNCHANGED <<handles, rawQueue>>

ExpireUsage(usage) ==
  handles' = Expired(usage) /\ rawQueue' = OtherTokens(usage)

(* registerDevices: a new registration, or the removal of one, expires     *)
(* what was sent for the old one.                                          *)
RawRegister(usage, window) ==
  /\ rawMode.enabled /\ ~rawMode.stopping /\ registrations < MaxRegistrations
  /\ IF window = NoWindow /\ usageWindow[usage] = Unregistered0
       THEN UNCHANGED <<handles, rawQueue, usageWindow, registrations>>
       ELSE /\ ExpireUsage(usage) /\ registrations' = registrations + 1
            /\ usageWindow' = [usageWindow EXCEPT ![usage] =
                 IF window = NoWindow THEN Unregistered0
                 ELSE [generation |-> registrations + 1, window |-> window]]
  /\ UNCHANGED <<keyVars, windowStateVars, rawMode, pending, posting, tokenInput>>

(* enqueueInput                                                            *)
Enqueue(sequence, usage) ==
  IF ~rawMode.enabled \/ rawMode.stopping \/ usageWindow[usage] = Unregistered0
    THEN UNCHANGED <<handles, rawQueue, pending, tokenInput>>
  ELSE IF FreeSlots = {}
    THEN /\ handles' = Scanned(Cardinality(HandleSlot))
         /\ UNCHANGED <<rawQueue, pending, tokenInput>>
  ELSE LET i == FirstFree
           slot == Reused(handles[i])
           token == [slot |-> i, generation |-> slot.generation]
           packet == [input |-> sequence, usage |-> usage,
                      registration |-> usageWindow[usage].generation] IN
       /\ IF Len(rawQueue) >= MaxQueue \/ Len(pending) >= MaxQueue
            THEN /\ handles' = [Scanned(i) EXCEPT ![i] = Released(slot, "Expired")]
                 /\ UNCHANGED <<rawQueue, pending>>
            ELSE /\ handles' = [Scanned(i) EXCEPT ![i] =
                      [slot EXCEPT !.state = "Allocated", !.packet = packet]]
                 /\ rawQueue' = Append(rawQueue, token)
                 /\ pending' = Append(pending, token)
       /\ tokenInput' = [tokenInput EXCEPT ![token] = IF @ = 0 THEN sequence ELSE @]

(* hydra_gate_c_adapter_apply_input: the key state takes the input even if *)
(* the Raw Input stream cannot.                                            *)
ApplyInput(sequence, usage, down) ==
  /\ sequence > lastInput /\ lastInput' = sequence
  /\ IF usage = "keyboard"
       THEN keyDown' = down /\ keyEdge' = (keyEdge \/ (down /\ ~keyDown))
       ELSE UNCHANGED <<keyDown, keyEdge>>
  /\ Enqueue(sequence, usage)
  /\ UNCHANGED <<windowStateVars, rawMode, usageWindow, registrations, posting>>

(* Polling the key's asynchronous state clears its edge.                   *)
PollKey ==
  /\ keyEdge /\ keyEdge' = FALSE
  /\ UNCHANGED <<lastInput, keyDown, windowStateVars, streamVars>>

(* The shim takes a delivery, looks at its window and posts the message:   *)
(* only then is the delivery completed.                                    *)
TakeDelivery ==
  /\ rawMode.enabled /\ pending # <<>>
  /\ posting' = posting \cup {Head(pending)} /\ pending' = Tail(pending)
  /\ UNCHANGED <<keyVars, windowStateVars, rawMode, usageWindow, registrations,
                 handles, rawQueue, tokenInput>>

CompleteDelivery(token, posted) ==
  LET current == usageWindow[Packet(token).usage].generation = Packet(token).registration IN
  /\ token \in posting /\ posting' = posting \ {token}
  /\ IF ~rawMode.enabled \/ ~Resolves(token) THEN UNCHANGED <<handles, rawQueue>>
     ELSE IF current /\ posted
       THEN /\ handles' = [handles EXCEPT ![token.slot].state =
                 IF @ = "Allocated" THEN "Delivered" ELSE @]
            /\ UNCHANGED rawQueue
       ELSE /\ handles' = [handles EXCEPT ![token.slot] = Released(@, "Expired")]
            /\ rawQueue' = KeptOf(rawQueue, RawToken \ {token})
  /\ UNCHANGED <<keyVars, windowStateVars, rawMode, usageWindow, registrations,
                 pending, tokenInput>>

(* GetRawInputData with any token the game may have kept.                  *)
ReadData(token) ==
  /\ rawMode.enabled /\ Resolves(token)
  /\ handles' = [handles EXCEPT ![token.slot] = Released(@, "Consumed")]
  /\ rawQueue' = KeptOf(rawQueue, RawToken \ {token})
  /\ UNCHANGED <<keyVars, windowStateVars, rawMode, usageWindow, registrations,
                 pending, posting, tokenInput>>

(* Mutant of ReadBuffer: the queue is emptied, the handles stay.           *)
ReadBufferQueueOnly ==
  /\ rawMode.enabled /\ rawQueue # <<>> /\ rawQueue' = <<>>
  /\ UNCHANGED <<keyVars, windowStateVars, rawMode, usageWindow, registrations,
                 handles, pending, posting, tokenInput>>

(* GetRawInputBuffer: one token that does not resolve would fail it all.   *)
ReadBuffer ==
  /\ rawMode.enabled /\ rawQueue # <<>>
  /\ \A t \in ToSet(rawQueue) : Resolves(t)
  /\ handles' = [i \in HandleSlot |->
       IF TokenOf(i) \in ToSet(rawQueue) THEN Released(handles[i], "Consumed")
                                         ELSE handles[i]]
  /\ rawQueue' = <<>>
  /\ UNCHANGED <<keyVars, windowStateVars, rawMode, usageWindow, registrations,
                 pending, posting, tokenInput>>

RawBeginStopping ==
  /\ rawMode.enabled /\ rawMode' = [rawMode EXCEPT !.stopping = TRUE]
  /\ UNCHANGED <<keyVars, windowStateVars, usageWindow, registrations, handles,
                 rawQueue, pending, posting, tokenInput>>

ResetStream ==
  /\ rawMode' = [enabled |-> FALSE, stopping |-> TRUE]
  /\ handles' = ResetTable /\ rawQueue' = <<>> /\ pending' = <<>>
  /\ usageWindow' = [u \in Usage |-> Unregistered0] /\ registrations' = 0
  /\ UNCHANGED <<posting, tokenInput>>

RawReset == ResetStream /\ UNCHANGED <<keyVars, windowStateVars>>

(* hydra_gate_c_adapter_reset; the host starts over with its sequences.    *)
AdapterReset ==
  /\ ResetStream /\ lastInput' = 0 /\ keyDown' = FALSE /\ keyEdge' = FALSE
  /\ targetWindow' = NoWindow /\ logicalFocus' = NoWindow /\ captureWindow' = NoWindow

-----------------------------------------------------------------------------
(* Logical windows.  Foreground, active and focus window always move       *)
(* together in the bridge's calls: logicalFocus stands for the three.      *)
ConfigureWindows(window, focused, captured) ==
  /\ targetWindow' = window
  /\ logicalFocus' = (IF focused THEN window ELSE NoWindow)
  /\ captureWindow' = (IF captured THEN window ELSE NoWindow)
  /\ UNCHANGED <<keyVars, streamVars>>

(* Mutant of ApplyControl: the focus comes back to the last window.        *)
ApplyControlAnyWindow(sequence, foreground, capture) ==
  /\ sequence > lastInput /\ lastInput' = sequence
  /\ logicalFocus' \in (IF foreground THEN RawWindow ELSE {NoWindow})
  /\ captureWindow' = (IF capture THEN targetWindow ELSE NoWindow)
  /\ UNCHANGED <<keyDown, keyEdge, targetWindow, streamVars>>

ApplyControl(sequence, foreground, capture) ==
  /\ sequence > lastInput /\ lastInput' = sequence
  /\ logicalFocus' = (IF foreground THEN targetWindow ELSE NoWindow)
  /\ captureWindow' = (IF capture THEN targetWindow ELSE NoWindow)
  /\ UNCHANGED <<keyDown, keyEdge, targetWindow, streamVars>>

(* SetCapture and ReleaseCapture of the game.                              *)
SetCapture(window) ==
  captureWindow' = window /\ UNCHANGED <<keyVars, streamVars, targetWindow, logicalFocus>>

(* A window that is gone is nobody's any more.                             *)
InvalidateWindow(window) ==
  LET without(w) == IF w = window THEN NoWindow ELSE w IN
  /\ targetWindow' = without(targetWindow) /\ logicalFocus' = without(logicalFocus)
  /\ captureWindow' = without(captureWindow) /\ UNCHANGED <<keyVars, streamVars>>

(* The stream, and the key state with the logical windows: they share the  *)
(* inputs and the reset.                                                   *)
SharedNext ==
  \/ AdapterReset
  \/ \E sequence \in 1..MaxSequence, usage \in Usage, down \in BOOLEAN :
       ApplyInput(sequence, usage, down)

RawStreamNext ==
  \/ SharedNext \/ RawConfigure \/ TakeDelivery \/ ReadBuffer \/ RawBeginStopping
  \/ RawReset
  \/ \E usage \in Usage, window \in WindowOrNone : RawRegister(usage, window)
  \/ \E token \in posting, posted \in BOOLEAN : CompleteDelivery(token, posted)
  \/ \E token \in RawToken : ReadData(token)

KeyAndWindowNext ==
  \/ SharedNext \/ PollKey
  \/ \E sequence \in 1..MaxSequence, foreground \in BOOLEAN, capture \in BOOLEAN :
       ApplyControl(sequence, foreground, capture)
  \/ \E w \in RawWindow :
       \/ \E focused \in BOOLEAN, captured \in BOOLEAN : ConfigureWindows(w, focused, captured)
       \/ InvalidateWindow(w)
  \/ \E w \in WindowOrNone : SetCapture(w)

RawNext == RawStreamNext \/ KeyAndWindowNext

RawSpec == RawInit /\ [][RawNext]_rawVars

-----------------------------------------------------------------------------
(* Type invariant of the adapter's context.                                *)
RawTypeOK ==
  /\ lastInput \in 0..MaxSequence /\ keyDown \in BOOLEAN /\ keyEdge \in BOOLEAN
  /\ rawMode \in [enabled : BOOLEAN, stopping : BOOLEAN]
  /\ usageWindow \in [Usage -> [generation : 0..MaxRegistrations, window : WindowOrNone]]
  /\ registrations \in 0..MaxRegistrations
  /\ handles \in [HandleSlot ->
       [state : HandleState, generation : 1..MaxTokenGeneration,
        packet : [input : 0..MaxSequence, usage : Usage,
                  registration : 0..MaxRegistrations]]]
  /\ rawQueue \in Seq(RawToken) /\ pending \in Seq(RawToken) /\ posting \subseteq RawToken
  /\ {targetWindow, logicalFocus, captureWindow} \subseteq WindowOrNone
  /\ tokenInput \in [RawToken -> 0..MaxSequence]

(* A token the game kept never resolves to another input than the one it   *)
(* was posted for, whatever was consumed, registered or reset since.       *)
TokensAreNotReused ==
  \A i \in HandleSlot : LiveSlot(handles[i]) =>
    tokenInput[TokenOf(i)] = handles[i].packet.input

(* What can be read is what is queued: no packet is lost to one way of     *)
(* reading because of the other, and none can fail GetRawInputBuffer.      *)
QueueIsReadable ==
  /\ ToSet(rawQueue) = {TokenOf(i) : i \in {j \in HandleSlot : LiveSlot(handles[j])}}
  /\ IsInjective(rawQueue)

(* Every packet that can be read belongs to the registration of now.       *)
PacketsAreRegistered ==
  \A i \in HandleSlot : LiveSlot(handles[i]) =>
    handles[i].packet.registration = usageWindow[handles[i].packet.usage].generation

(* The game is told of no focus but on the window it was given.            *)
FocusIsOnTarget == logicalFocus \in {targetWindow, NoWindow}

RawInputIsExact ==
  TokensAreNotReused /\ QueueIsReadable /\ PacketsAreRegistered /\ FocusIsOnTarget

-----------------------------------------------------------------------------
(* The virtual cursor, its clip rectangle and the mouse's buttons of the   *)
(* same context: the host's frames change them through the bridge's        *)
(* worker, the game's threads through the cursor functions the shim        *)
(* replaced.  One axis; a rectangle is valid or not on the other one as    *)
(* well.                                                                   *)

CONSTANTS
  MaxCoordinate,     \* the coordinates are -MaxCoordinate..MaxCoordinate
  Button,
  MaxCursorSequence  \* bound of the model: frames

ASSUME CursorAssumption == MaxCoordinate \in Nat /\ MaxCursorSequence \in Nat

VARIABLES
  cursor, clip,
  buttonsDown,
  lastFrame          \* lastAppliedSequence

cursorVars == <<cursor, clip, buttonsDown, lastFrame>>

Coordinate == -MaxCoordinate..MaxCoordinate
NoClip == [enabled |-> FALSE, first |-> 0, end |-> 0]
Rectangle == [first : Coordinate, end : Coordinate, otherAxis : BOOLEAN]

CursorInit ==
  /\ cursor = 0 /\ clip = NoClip /\ buttonsDown = {} /\ lastFrame = 0

(* saturatingAdd. *)
SaturatingAdd(a, b) ==
  IF a + b > MaxCoordinate THEN MaxCoordinate
  ELSE IF a + b < -MaxCoordinate THEN -MaxCoordinate ELSE a + b

(* validCursorClipRect. *)
ValidClip(rectangle) == rectangle.end > rectangle.first /\ rectangle.otherAxis

(* clampCursor; the end of a rectangle is outside of it. *)
Clamped(x, area) ==
  IF ~area.enabled THEN x
  ELSE IF x < area.first THEN area.first
  ELSE IF x > area.end - 1 THEN area.end - 1 ELSE x

Enabled(rectangle) == [enabled |-> TRUE, first |-> rectangle.first, end |-> rectangle.end]

(* VirtualInputState::applyInput for a mouse's event: a flag of a button   *)
(* that goes down and up in one event leaves it up.                        *)
MouseInput(sequence, delta, down, up) ==
  /\ sequence > lastFrame /\ lastFrame' = sequence
  /\ cursor' = Clamped(SaturatingAdd(cursor, delta), clip)
  /\ buttonsDown' = (buttonsDown \cup down) \ up
  /\ UNCHANGED clip

(* Mutant of ControlFrame: the cursor is placed before the new clip.       *)
ControlFrameUnclamped(sequence, x, rectangle, enabled) ==
  /\ sequence > lastFrame /\ (enabled => ValidClip(rectangle))
  /\ lastFrame' = sequence /\ cursor' = Clamped(x, clip)
  /\ clip' = IF enabled THEN Enabled(rectangle) ELSE NoClip
  /\ UNCHANGED buttonsDown

(* VirtualInputState::applyControl: cursor and clip are the host's.        *)
ControlFrame(sequence, x, rectangle, enabled) ==
  /\ sequence > lastFrame /\ (enabled => ValidClip(rectangle))
  /\ lastFrame' = sequence
  /\ clip' = IF enabled THEN Enabled(rectangle) ELSE NoClip
  /\ cursor' = Clamped(x, clip')
  /\ UNCHANGED buttonsDown

(* shimSetCursorPos. *)
SetCursorPos(x) ==
  /\ cursor' = Clamped(x, clip) /\ UNCHANGED <<clip, buttonsDown, lastFrame>>

(* shimClipCursor: a rectangle that is not valid is refused, and none ends *)
(* the clip.                                                               *)
ClipCursor(rectangle) ==
  /\ ValidClip(rectangle)
  /\ clip' = Enabled(rectangle) /\ cursor' = Clamped(cursor, clip')
  /\ UNCHANGED <<buttonsDown, lastFrame>>

ReleaseClip == clip' = NoClip /\ UNCHANGED <<cursor, buttonsDown, lastFrame>>

(* hydra_gate_c_adapter_reset. *)
ResetCursor ==
  /\ cursor' = 0 /\ clip' = NoClip /\ buttonsDown' = {} /\ lastFrame' = 0

(* shimGetCursorPos and shimGetClipCursor.                                 *)
CursorRead == cursor
ClipRead ==
  IF clip.enabled THEN clip.first..(clip.end - 1) ELSE Coordinate

CursorNext ==
  \/ \E sequence \in 1..MaxCursorSequence :
       \/ \E delta \in Coordinate, down \in SUBSET Button, up \in SUBSET Button :
            MouseInput(sequence, delta, down, up)
       \/ \E x \in Coordinate, rectangle \in Rectangle, enabled \in BOOLEAN :
            ControlFrame(sequence, x, rectangle, enabled)
  \/ \E x \in Coordinate : SetCursorPos(x)
  \/ \E rectangle \in Rectangle : ClipCursor(rectangle)
  \/ ReleaseClip \/ ResetCursor

CursorSpec == CursorInit /\ [][CursorNext]_cursorVars

-----------------------------------------------------------------------------
(* Type invariant of the cursor.                                           *)
CursorTypeOK ==
  /\ cursor \in Coordinate /\ buttonsDown \subseteq Button
  /\ clip \in [enabled : BOOLEAN, first : Coordinate, end : Coordinate]
  /\ lastFrame \in 0..MaxCursorSequence

(* A game reads a cursor inside the clip it reads, whichever of the game   *)
(* and the host changed either last.                                       *)
CursorIsExact == CursorRead \in ClipRead
=============================================================================

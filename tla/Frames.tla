------------------------------- MODULE Frames -------------------------------
(* The messages of HydraSeat's protocols: how a message is written and read  *)
(* back, the layouts of host_protocol.cpp, gate_c_protocol.cpp,              *)
(* virtual_xinput_protocol.cpp and watchdog_protocol.cpp, and the frames     *)
(* around them.                                                             *)
EXTENDS Naturals, Sequences, SequencesExt, FiniteSets

(* A message's fields are appended in a fixed order and read in that order.  *)
(* An integer of any width, and a run of reserved bytes, is one cell here; a *)
(* text is a length cell and a cell for each character.  A value is a        *)
(* sequence of integers: of length one for an integer field, the characters  *)
(* for a text.                                                              *)

CONSTANTS
  MaxText,        \* the longest text a field may hold, in characters
  MaxElements,    \* the longest list a message may hold
  MaxPayload      \* the largest payload, in cells

ASSUME CodecAssumption == MaxText \in Nat /\ MaxElements \in Nat /\ MaxPayload \in Nat

Cell == 0..2           \* the integers told apart where any may stand
Flag == 0..1

(* Character 0 is what is not text at all (NUL, broken UTF-8), 2 a character *)
(* outside of 0x21..0x7e.                                                   *)
Texts(empty, characters) ==
  { t \in UNION { [1..n -> characters] : n \in 0..MaxText } : empty \/ t # <<>> }

(* A field: the values a reader accepts, by themselves, and whether the      *)
(* field is a text.                                                         *)
Integer(values) == [text |-> FALSE, holds |-> { <<n>> : n \in values }]
Reserved == Integer({0})
Text(empty) == [text |-> TRUE, holds |-> Texts(empty, {1, 2})]
Number == Integer(Cell)
NonZero == Integer({1, 2})
Bool == Integer(Flag)
Identifier == [text |-> TRUE, holds |-> Texts(FALSE, {1})]
Diagnostic == [text |-> TRUE, holds |-> Texts(TRUE, Cell)]

WellFormed(layout, value) ==
  /\ Len(value) = Len(layout)
  /\ \A i \in DOMAIN layout : value[i] \in layout[i].holds

CellsOf(field, value) == IF field.text THEN <<Len(value)>> \o value ELSE value

Written(layout, value) ==
  FlattenSeq([i \in DOMAIN layout |-> CellsOf(layout[i], value[i])])

NoCells == <<>>

(* One field from what is left of the payload.                              *)
ReadField(state, field) ==
  LET rest == state.rest
      long == IF field.text /\ rest # <<>> THEN rest[1] ELSE 1
      head == IF field.text THEN 1 ELSE 0
      whole == Len(rest) >= head + long
      value == SubSeq(rest, head + 1, head + long)
  IN IF state.ok /\ whole /\ value \in field.holds
     THEN [ok |-> TRUE, rest |-> SubSeq(rest, head + long + 1, Len(rest)),
           value |-> Append(state.value, value)]
     ELSE [ok |-> FALSE, rest |-> <<>>, value |-> <<>>]

ReadFields(layout, cells) ==
  FoldLeft(ReadField, [ok |-> TRUE, rest |-> cells, value |-> <<>>], layout)

(* All of the payload, and nothing after it.                                *)
Read(layout, cells) ==
  LET state == ReadFields(layout, cells)
  IN IF state.ok /\ state.rest = <<>> THEN state.value ELSE NoCells

-----------------------------------------------------------------------------
(* The messages of the host's pipe, host_protocol.cpp: the layout of each    *)
(* payload, what its fields may hold together.                              *)

SeatId == Integer({1, 2})

(* Keyboard 1, mouse 2; a display and a controller are the other kind, 0.    *)
DeviceKind == Integer(Cell)
InputKind == Integer({1, 2})

Hello == <<Integer({1, 2}), Reserved>>                       \* the role
HelloAck == <<Integer({1, 2}), Integer({2}), Integer({1}), Reserved>>
                                     \* role, number of Seats, version
SeatRequest == <<SeatId, Reserved>>

(* Flags 0: no lease; 1: a UI lease only; 2: a game's.  What follows them: the *)
(* process with its creation identity, the window, and the controller's flag. *)
SeatPart(number) ==
  <<Integer({number}), Reserved, Number, Number, Reserved, Number, Reserved,
    Number, Number, Bool>>

SnapshotForm == <<NonZero>> \o SeatPart(1) \o SeatPart(2)

(* A Seat without a lease owns nothing, one with a lease has a generation,   *)
(* only a game's lease has a process and only a process a window.            *)
SeatHolds(seat) ==
  LET generation == seat[3][1]  lease == seat[4][1]  process == seat[6][1]
      created == seat[8][1]  window == seat[9][1]  controller == seat[10][1]
  IN /\ lease # 0 => generation # 0
     /\ lease = 0 => controller = 0
     /\ lease # 2 => process = 0 /\ window = 0
     /\ (process = 0) = (created = 0)
     /\ window # 0 => process # 0

Inventory(n) ==
  <<Integer({n}), Reserved>>
    \o FlattenSeq([i \in 1..n |-> <<DeviceKind, Reserved, Text(FALSE), Text(TRUE)>>])

SeatHardware == <<SeatId, Reserved, Text(TRUE), Text(TRUE), Text(TRUE), Text(TRUE)>>

PairRequest == <<SeatId, Integer(Cell), Reserved, Identifier>>

Catalog(n) ==
  <<Integer({n}), Reserved>>
    \o FlattenSeq([i \in 1..n |->
         <<Text(FALSE), Text(TRUE), Text(FALSE), Text(FALSE), Text(TRUE)>>])

(* What is shown of a running game: both its title and its provider or      *)
(* neither.                                                                  *)
RuntimeInfo == <<SeatId, Reserved, Text(TRUE), Text(TRUE)>>
RuntimeInfoHolds(value) == (value[3] = <<>>) = (value[4] = <<>>)

ActivityRequest == <<InputKind, Reserved>>
Activity == <<InputKind, Reserved, Number, Text(TRUE)>>
ActivityHolds(value) == (value[3] = <<0>>) = (value[4] = <<>>)

LaunchRequest == <<SeatId, Reserved, Text(TRUE), Text(FALSE), Text(TRUE), Text(TRUE)>>

ProcessRequest == <<NonZero, NonZero>>
AudioRoute == <<NonZero, NonZero, Identifier>>
AudioResult == <<Bool, Reserved>>          \* any known status
Ping == <<NonZero>>
ErrorPayload == <<Integer({1}), Reserved, Diagnostic>>   \* any known error

Lists == {"HardwareInventory", "GameCatalog"}
Snapshots ==
  {"Snapshot", "AcquireUiLeaseResult", "ReleaseUiLeaseResult", "PairControllerResult",
   "LaunchGameResult", "StopGameResult"}

(* A layout by type; that of a list also by the number of its elements.      *)
HostLayout(type, n) ==
  CASE type = "Hello" -> Hello
    [] type = "HelloAck" -> HelloAck
    [] type \in {"AcquireUiLease", "ReleaseUiLease", "StopGame", "GetSeatHardware",
                 "GetSeatRuntimeInfo"} -> SeatRequest
    [] type \in Snapshots -> SnapshotForm
    [] type = "HardwareInventory" -> Inventory(n)
    [] type \in {"SeatHardware", "AssignSeatHardware", "AssignSeatHardwareResult"} ->
         SeatHardware
    [] type = "PairController" -> PairRequest
    [] type = "GameCatalog" -> Catalog(n)
    [] type = "SeatRuntimeInfo" -> RuntimeInfo
    [] type = "GetInputActivity" -> ActivityRequest
    [] type = "InputActivity" -> Activity
    [] type = "LaunchGame" -> LaunchRequest
    [] type = "ResetAudio" -> ProcessRequest
    [] type = "RouteAudio" -> AudioRoute
    [] type \in {"RouteAudioResult", "ResetAudioResult"} -> AudioResult
    [] type \in {"Ping", "Pong"} -> Ping
    [] type = "Error" -> ErrorPayload

HostHolds(type, value) ==
  CASE type \in Snapshots -> SeatHolds(SubSeq(value, 2, 11)) /\ SeatHolds(SubSeq(value, 12, 21))
    [] type = "SeatRuntimeInfo" -> RuntimeInfoHolds(value)
    [] type = "InputActivity" -> ActivityHolds(value)
    [] OTHER -> TRUE

(* Both directions refuse what the fields may not hold and a payload that is *)
(* too large; the snapshot's fixed payload always fits.                      *)
Fits(type, cells) == type \in Snapshots \/ Len(cells) <= MaxPayload

HostEncode(type, value) ==
  LET n == IF type \in Lists /\ value # <<>> THEN value[1][1] ELSE 0
      cells == Written(HostLayout(type, n), value)
  IN IF /\ n <= MaxElements /\ WellFormed(HostLayout(type, n), value)
        /\ HostHolds(type, value) /\ Fits(type, cells)
     THEN cells ELSE NoCells

HostDecode(type, cells) ==
  LET n == IF type \in Lists /\ cells # <<>> THEN cells[1] ELSE 0
      value == Read(HostLayout(type, n), cells)
  IN IF /\ n <= MaxElements /\ Fits(type, cells)
        /\ value # NoCells /\ HostHolds(type, value)
     THEN value ELSE NoCells

-----------------------------------------------------------------------------
(* The messages between a Seat's session and the game it feeds,              *)
(* gate_c_protocol.cpp, and those of the virtual controller's service,       *)
(* virtual_xinput_protocol.cpp.  A sender writes what it has; it is the      *)
(* reader that refuses what does not belong together.                        *)

SeatField == Number
SlotField == Integer(0..4)                      \* 4: out of range

EdgeHello == <<Number, SeatField, Number, Integer({0, 1, 2}), Reserved, Number>>
                              \* token, Seat, process, word size, window
KnownArchitecture(value) == value[4][1] \in {1, 2}

EdgeHelloAck == <<Bool, Reserved, Number, Number, Number>>

(* Kind 1 is the keyboard, 2 the mouse; a key's transition 1 down, 2 up; the  *)
(* virtual key 2 stands for those from 256 on.                               *)
InputEvent == <<Number, Integer(0..3), Bool, Reserved, Number, Number, Number>>
InputEventHolds(value) ==
  \/ value[1] = <<1>> /\ value[2][1] \in {1, 2} /\ value[6][1] < 2
  \/ value[1] = <<2>> /\ value[2] = <<0>>

(* Cursor, three switches, and the clip's left, top, right and bottom.       *)
ControlState ==
  <<Number, Number, Bool, Bool, Bool, Reserved, Number, Number, Number, Number>>
ClipHolds(enabled, clip) ==
  enabled = <<1>> => clip[1][1] < clip[3][1] /\ clip[2][1] < clip[4][1]
ControlStateHolds(value) == ClipHolds(value[3], SubSeq(value, 7, 10))

(* A probed key: 0 a key, 1 none (0xffff), 2 out of range.                   *)
QuerySnapshot == <<Number, Reserved>>
ProbeHolds(key) == key[1] # 2

StateSnapshot ==
  <<Number, Number, Number, Number, Number, Reserved>> \o ControlState
StateSnapshotHolds(value) ==
  ProbeHolds(value[5]) /\ ControlStateHolds(SubSeq(value, 7, 16))

(* A controller's source: 0 empty, 1 and 2 valid ones, 3 an invalid one.  Of   *)
(* capabilities and batteries 0 is the default one, 1 another, 2 invalid.     *)
SourceField == Integer(0..3)
ValidSource(source) == source[1] \in {1, 2}

(* Map 1, Unmap 2, State 3, Capabilities 4, Battery 5, Disconnect 6.         *)
ControllerUpdate ==
  <<SeatField, Integer(0..7), SlotField, Reserved, SourceField, Number, Number, Number, Number>>

ControllerUpdateHolds(value) ==
  LET kind == value[2][1]  source == value[5]  generation == value[6][1]
      pad == value[7][1]  capabilities == value[8][1]  battery == value[9][1]
  IN /\ value[1] # <<0>> /\ value[3][1] < 4 /\ kind \in 1..6
     /\ IF kind = 2 THEN source = <<0>> /\ generation = 0
                    ELSE ValidSource(source) /\ generation # 0
     /\ kind # 3 => pad = 0
     /\ IF kind = 4 THEN capabilities # 2 ELSE capabilities = 0
     /\ IF kind = 5 THEN battery # 2 ELSE battery = 0

(* Snapshot 1 or vibration 2, with the generations it expects.               *)
ControllerQuery ==
  <<SeatField, Number, SlotField, Reserved, Number, Number, Number, Number, Reserved>>

ControllerQueryHolds(value) ==
  LET expected == {value[5][1], value[6][1]}  motors == {value[7][1], value[8][1]}
  IN /\ value[1] # <<0>> /\ value[3][1] < 4
     /\ \/ value[2] = <<1>> /\ expected \cup motors = {0}
        \/ value[2] = <<2>> /\ 0 \notin expected

(* Results: 0 success, 1 disconnected, 2 not mapped, 3 another, 4 unknown.    *)
ResultField == Integer(0..4)
MappingForm == <<SourceField, Number, Number>>

ControllerSnapshot ==
  <<SeatField, SlotField, Reserved, ResultField, ResultField, ResultField, ResultField>>
    \o MappingForm \o <<Bool, Reserved, Number, Number>>
    \o MappingForm \o <<Number>> \o MappingForm \o <<Number>>
    \o MappingForm \o <<Number, Number, Number, Reserved>>

NoMapping == <<<<0>>, <<0>>, <<0>>>>
ValidMapping(mapping) ==
  ValidSource(mapping[1]) /\ mapping[2] # <<0>> /\ mapping[3] # <<0>>

(* What was found of a slot belongs together: capabilities, battery and      *)
(* vibration are of the connected controller the state names, or empty.      *)
ControllerSnapshotHolds(value) ==
  LET state == value[4][1]
      mapping == SubSeq(value, 8, 10)
      connected == value[11] = <<1>>
      packet == value[13][1]  pad == value[14][1]
      Described(result, of, what) ==
        IF result = <<0>> THEN state = 0 /\ of = mapping /\ what[1] # 2
                          ELSE of = NoMapping /\ what = <<0>>
      route == SubSeq(value, 23, 25)  counts == {value[26][1], value[27][1]}
  IN /\ value[1] # <<0>> /\ value[2][1] < 4
     /\ \A i \in 4..7 : value[i][1] # 4
     /\ \/ state = 0 /\ connected /\ ValidMapping(mapping)
        \/ state = 1 /\ ~connected /\ pad = 0 /\ ValidMapping(mapping)
        \/ state = 2 /\ ~connected /\ packet = 0 /\ pad = 0 /\ mapping = NoMapping
     /\ Described(value[5], SubSeq(value, 15, 17), value[18])
     /\ Described(value[6], SubSeq(value, 19, 21), value[22])
     /\ IF value[7] = <<0>>
        THEN state = 0 /\ route = mapping /\ 0 \notin counts
        ELSE /\ ~ValidSource(route[1]) /\ route[2] = <<0>> /\ route[3] = <<0>>
             /\ counts = {0} /\ value[28] = <<0>>

EdgeTypes ==
  <<"Hello", "HelloAck", "InputEvent", "ControlState", "QuerySnapshot",
    "StateSnapshot", "Shutdown", "Error", "ProbeSnapshot", "ControllerUpdate",
    "ControllerQuery", "ControllerSnapshot">>

EdgeLayout ==
  [ Hello |-> EdgeHello, HelloAck |-> EdgeHelloAck, InputEvent |-> InputEvent,
    ControlState |-> ControlState, QuerySnapshot |-> QuerySnapshot,
    StateSnapshot |-> StateSnapshot, Error |-> <<Number>>,
    ControllerUpdate |-> ControllerUpdate, ControllerQuery |-> ControllerQuery,
    ControllerSnapshot |-> ControllerSnapshot ]

EdgeHolds(type, value) ==
  CASE type = "Hello" -> KnownArchitecture(value)
    [] type = "InputEvent" -> InputEventHolds(value)
    [] type = "ControlState" -> ControlStateHolds(value)
    [] type = "QuerySnapshot" -> ProbeHolds(value[1])
    [] type = "StateSnapshot" -> StateSnapshotHolds(value)
    [] type = "ControllerUpdate" -> ControllerUpdateHolds(value)
    [] type = "ControllerQuery" -> ControllerQueryHolds(value)
    [] type = "ControllerSnapshot" -> ControllerSnapshotHolds(value)
    [] OTHER -> TRUE

(* The service of the virtual controller: version, opcode (ping 1), Seat,     *)
(* generations, slot and motors; and version, status and the pad's state.    *)
ServiceLayout ==
  [ Request |-> <<Integer({1}), Integer({1, 2}), Integer(0..3), Number, Number,
                  Integer(0..4), Number>>,
    Response |-> <<Integer({1}), Number, Bool, Number, Number>> ]

ServiceHolds(type, value) ==
  type = "Request" =>
    value[6][1] < 4 /\ (value[2] # <<1>> => value[3][1] \in {1, 2})

-----------------------------------------------------------------------------
(* What the host tells its watchdog, watchdog_protocol.cpp: the plan to roll *)
(* back by, the lease, the watchdog's status; and the identity under which a *)
(* process is attached to a Seat's recovery.                                 *)

(* 0 is too short for any timeout, 4 too long for any; 3 only for the whole   *)
(* of a rollback.                                                            *)
Timeout == Integer(0..4)

LeaseForm == <<Number, Number, Timeout>>          \* session, generation, timeout
LeaseHolds(value) ==
  value[1] # <<0>> /\ value[2] # <<0>> /\ value[3][1] \in {1, 2}

(* Id, kind, place in the order of activation, timeout, generation, resource,*)
(* process with its creation time.  Kind 1 ends a process; 0 is unknown.      *)
ActionPart ==
  <<Number, Number, Reserved, Number, Timeout, Number, Number, Number, Reserved, Number>>

PlanForm(n) ==
  LeaseForm \o <<Timeout, Integer({n}), Reserved>> \o FlattenSeq([i \in 1..n |-> ActionPart])

ActionsOf(value) ==
  [i \in 1..((Len(value) - 6) \div 10) |-> SubSeq(value, 10 * i - 3, 10 * i + 6)]

ActionHolds(action) ==
  /\ action[1] # <<0>> /\ action[4] # <<0>> /\ action[6] # <<0>>
  /\ action[2] # <<0>> /\ action[5][1] \in {1, 2}
  /\ IF action[2] = <<1>>
     THEN action[7] = <<0>> /\ action[8] # <<0>> /\ action[10] # <<0>>
     ELSE action[7] # <<0>> /\ action[8] = <<0>> /\ action[10] = <<0>>

(* validateRollbackPlan(): every action is whole, none has the id or the      *)
(* place of another, and the rollback has the time of its longest action.    *)
PlanHolds(value) ==
  LET actions == ActionsOf(value)
  IN /\ LeaseHolds(SubSeq(value, 1, 3))
     /\ value[4][1] \in 1..3
     /\ actions # <<>> /\ Len(actions) <= MaxElements
     /\ \A i \in DOMAIN actions :
          /\ ActionHolds(actions[i])
          /\ actions[i][5][1] <= value[4][1]
     /\ \A i, j \in DOMAIN actions :
          i # j => /\ actions[i][1] # actions[j][1]
                   /\ actions[i][4] # actions[j][4]

(* Session, generation, state, reason, actions completed and in total, the   *)
(* failed action and its error.  State and reason 2 are unknown.              *)
StatusForm == <<Number, Number, Number, Number, Number, Number, Number, Number>>
StatusHolds(value) ==
  /\ value[1] # <<0>> /\ value[2] # <<0>>
  /\ value[3] # <<2>> /\ value[4] # <<2>>
  /\ value[5][1] <= value[6][1]

(* Magic, version, Seat, session, three generations, process and creation    *)
(* time.                                                                     *)
AttachmentIdentity ==
  <<Integer({1}), Integer({1}), Reserved, Integer(0..3), Number, Number, Number,
    Number, Reserved, Number, Number>>
AttachmentIdentityHolds(value) ==
  value[4][1] \in {1, 2} /\ \A i \in {5, 6, 7, 8, 10, 11} : value[i] # <<0>>

WatchdogTypes == <<"RegisterPlan", "RenewLease", "Disarm", "Status">>

WatchdogLayout(type, n) ==
  CASE type = "RegisterPlan" -> PlanForm(n)
    [] type \in {"RenewLease", "Disarm"} -> LeaseForm
    [] type = "Status" -> StatusForm
    [] type = "Identity" -> AttachmentIdentity

WatchdogHolds(type, value) ==
  CASE type = "RegisterPlan" -> PlanHolds(value)
    [] type \in {"RenewLease", "Disarm"} -> LeaseHolds(value)
    [] type = "Status" -> StatusHolds(value)
    [] type = "Identity" -> AttachmentIdentityHolds(value)

-----------------------------------------------------------------------------
(* The frames around the messages of HydraSeat's protocols, and how a         *)
(* receiver gets from the bytes of one to a message.                          *)

HostTypes ==
  <<"Hello", "HelloAck", "Snapshot", "Ping", "Error", "AcquireUiLease",
    "PairController", "RouteAudio", "RouteAudioResult", "ResetAudio", "LaunchGame",
    "HardwareInventory", "SeatHardware", "GameCatalog", "SeatRuntimeInfo",
    "GetInputActivity", "InputActivity", "Pong", "AcquireUiLeaseResult",
    "ReleaseUiLease", "ReleaseUiLeaseResult", "PairControllerResult",
    "ResetAudioResult", "LaunchGameResult", "StopGame", "StopGameResult",
    "GetSeatHardware", "AssignSeatHardware", "AssignSeatHardwareResult",
    "GetSeatRuntimeInfo">>

TypesOf == [host |-> HostTypes, edge |-> EdgeTypes, watchdog |-> WatchdogTypes]

NumberOf(link, type) == CHOOSE i \in DOMAIN TypesOf[link] : TypesOf[link][i] = type

Layout(link, type, n) ==
  CASE link = "host" -> HostLayout(type, n)
    [] link = "edge" -> IF type \in DOMAIN EdgeLayout THEN EdgeLayout[type] ELSE <<>>
    [] link = "service" -> ServiceLayout[type]
    [] link \in {"watchdog", "identity"} -> WatchdogLayout(type, n)

Holds(link, type, value) ==
  CASE link = "host" -> HostHolds(type, value)
    [] link = "edge" -> EdgeHolds(type, value)
    [] link = "service" -> ServiceHolds(type, value)
    [] link \in {"watchdog", "identity"} -> WatchdogHolds(type, value)

(* Where a payload says how many elements follow.                            *)
CountAt(link, type) ==
  CASE link = "host" /\ type \in Lists -> 1
    [] type = "RegisterPlan" -> 5
    [] OTHER -> 0

(* The game's edge and the controller service write what they are given.     *)
Checked(link) == link \in {"host", "watchdog", "identity"}

Encode(link, type, value) ==
  LET at == CountAt(link, type)
      n == IF at = 0 THEN 0 ELSE value[at][1]
      layout == Layout(link, type, n)
  IN IF link = "host" THEN HostEncode(type, value)
     ELSE IF /\ n <= MaxElements /\ WellFormed(layout, value)
             /\ (Checked(link) => Holds(link, type, value))
          THEN Written(layout, value) ELSE NoCells

Decode(link, type, cells) ==
  LET at == CountAt(link, type)
      n == IF at \in 1..Len(cells) THEN cells[at] ELSE 0
      value == Read(Layout(link, type, n), cells)
  IN IF link = "host" THEN HostDecode(type, cells)
     ELSE IF n <= MaxElements /\ value # NoCells /\ Holds(link, type, value)
          THEN value ELSE NoCells

(* The frame around a payload: magic, version, type, size and the number of  *)
(* the request or of the message, in the order of each protocol.  Identity    *)
(* and service messages have a fixed size and no frame.                       *)
Framed(link) == link \in DOMAIN TypesOf

Frame(link, type, number, cells) ==
  LET t == NumberOf(link, type)
  IN CASE link = "host" -> <<1, 1, t, number, Len(cells), 0>> \o cells
       [] link = "edge" -> <<1, 1, t, Len(cells), number>> \o cells
       [] link = "watchdog" -> <<1, 1, t, Len(cells), 0, number>> \o cells

HeaderLength(link) == IF link = "edge" THEN 5 ELSE 6

Header(link, bytes) ==
  CASE link = "host" ->
         [type |-> bytes[3], number |-> bytes[4], size |-> bytes[5], reserved |-> bytes[6]]
    [] link = "edge" ->
         [type |-> bytes[3], number |-> bytes[5], size |-> bytes[4], reserved |-> 0]
    [] link = "watchdog" ->
         [type |-> bytes[3], number |-> bytes[6], size |-> bytes[4], reserved |-> bytes[5]]

(* decodeFrame(): the magic, the version, a known type, nothing reserved, a   *)
(* number (the game's edge accepts 0) and exactly the payload announced.      *)
GoodFrame(link, bytes) ==
  /\ Len(bytes) >= HeaderLength(link)
  /\ LET header == Header(link, bytes)
     IN /\ bytes[1] = 1 /\ bytes[2] = 1
        /\ header.type \in DOMAIN TypesOf[link]
        /\ header.reserved = 0
        /\ header.number # 0 \/ link = "edge"
        /\ Len(bytes) = HeaderLength(link) + header.size

Refused == [type |-> "none", number |-> 0, value |-> NoCells]

Understood(link, type, bytes) ==
  IF ~Framed(link)
  THEN [type |-> type, number |-> 0, value |-> Decode(link, type, bytes)]
  ELSE IF ~GoodFrame(link, bytes) THEN Refused
  ELSE LET header == Header(link, bytes)
           t == TypesOf[link][header.type]
           payload == SubSeq(bytes, HeaderLength(link) + 1, Len(bytes))
       IN [type |-> t, number |-> header.number, value |-> Decode(link, t, payload)]

Rewritten(link, message) ==
  LET cells == Encode(link, message.type, message.value)
  IN IF cells = NoCells \/ ~Framed(link) THEN cells
     ELSE Frame(link, message.type, message.number, cells)
=============================================================================

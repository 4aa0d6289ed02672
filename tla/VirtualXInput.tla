--------------------------- MODULE VirtualXInput ---------------------------
(***************************************************************************)
(* The logical XInput slots of one game process (VirtualXInputContext).    *)
(* The host's commands carry a sequence number and the generation of the   *)
(* controller's connection; they may arrive late or twice.  The game reads *)
(* a slot and later asks for a vibration with the generations it read.     *)
(* A controller is a key with the runtime slot it was last seen in.        *)
(***************************************************************************)
EXTENDS Naturals, FiniteSets

CONSTANTS
  LogicalSlot,
  XController,          \* source keys
  MaxXSequence,        \* bound of the model: commands in a row
  MaxConnection        \* bound of the model: connections of a controller

ASSUME VirtualXInputAssumption ==
  MaxXSequence \in Nat /\ MaxConnection \in Nat \ {0}

VARIABLES
  xSequence,     \* lastAppliedSequence
  xSlots,        \* the slots
  gameRead,      \* what the game last read of each slot
  lastVibration  \* history: the source the game meant, and the one it reached

xinputVars == <<xSequence, xSlots, gameRead, lastVibration>>

NoController == "none"
Pad == {"rest", "pressed"}
Connection == 1..MaxConnection
SourceHint == {0, 1}

XMapping == [source : XController \cup {NoController}, hint : SourceHint,
             connection : 0..MaxConnection, generation : 0..MaxXSequence]

EmptySlot(generation) ==
  [mapping |-> [source |-> NoController, hint |-> 0, connection |-> 0,
                generation |-> generation],
   connected |-> FALSE, needsNew |-> FALSE, pad |-> "rest", packet |-> 0,
   capable |-> "unknown", battery |-> FALSE, routes |-> 0]

NothingRead == [mapping |-> EmptySlot(0).mapping, packet |-> 0, connected |-> FALSE,
                pad |-> "rest"]

XInputInit ==
  /\ xSequence = 0 /\ xSlots = [l \in LogicalSlot |-> EmptySlot(0)]
  /\ gameRead = [l \in LogicalSlot |-> NothingRead]
  /\ lastVibration = [meant |-> NoController, reached |-> NoController]

-----------------------------------------------------------------------------
IsMapped(l) == xSlots[l].mapping.source # NoController
HasSource(l, c) == IsMapped(l) /\ xSlots[l].mapping.source = c

(* validateGeneration for a call that may bring a new connection.          *)
MayConnect(slot, connection) ==
  /\ connection >= slot.mapping.connection
  /\ connection = slot.mapping.connection => ~slot.needsNew

(* The same, for a call about the connection of now.                       *)
IsCurrent(slot, connection) == connection = slot.mapping.connection /\ ~slot.needsNew

(* clearConnectionState                                                    *)
Cleared(slot) ==
  [slot EXCEPT !.connected = FALSE, !.pad = "rest", !.capable = "unknown",
     !.battery = FALSE, !.routes = 0]

Accepted(sequence) == sequence > xSequence /\ xSequence' = sequence

Remapped(l, c, hint, connection) ==
  [EmptySlot(xSlots[l].mapping.generation + 1) EXCEPT
     !.mapping.source = c, !.mapping.hint = hint, !.mapping.connection = connection]

(* Mutant of MapSlot: a source may be mapped to a second slot.             *)
MapSlotAgain(sequence, l, c, hint, connection) ==
  /\ Accepted(sequence)
  /\ xSlots' = [xSlots EXCEPT ![l] = Remapped(l, c, hint, connection)]
  /\ UNCHANGED <<gameRead, lastVibration>>

MapSlot(sequence, l, c, hint, connection) ==
  LET slot == xSlots[l]
      same == HasSource(l, c)
      unchanged == same /\ slot.mapping.hint = hint
                        /\ slot.mapping.connection = connection IN
  /\ Accepted(sequence)
  /\ \A other \in LogicalSlot \ {l} : ~HasSource(other, c)
  /\ same => MayConnect(slot, connection)
  /\ xSlots' = IF unchanged THEN xSlots
               ELSE [xSlots EXCEPT ![l] = Remapped(l, c, hint, connection)]
  /\ UNCHANGED <<gameRead, lastVibration>>

(* Mutant of UnmapSlot: the generation starts over.                        *)
UnmapSlotForgets(sequence, l) ==
  /\ Accepted(sequence) /\ xSlots' = [xSlots EXCEPT ![l] = EmptySlot(0)]
  /\ UNCHANGED <<gameRead, lastVibration>>

UnmapSlot(sequence, l) ==
  /\ Accepted(sequence)
  /\ xSlots' = [xSlots EXCEPT ![l] = EmptySlot(@.mapping.generation + 1)]
  /\ UNCHANGED <<gameRead, lastVibration>>

(* Mutant of Connected: a late frame revives an ended connection.          *)
ConnectedAgain(slot, connection, pad) ==
  [slot EXCEPT !.mapping.connection = connection, !.connected = TRUE,
     !.needsNew = FALSE, !.pad = pad]

(* Mutant of Connected: the packet number is advanced twice.                *)
ConnectedCountsTwice(slot, connection, pad) ==
  LET new == connection # slot.mapping.connection IN
  [(IF new THEN Cleared(slot) ELSE slot) EXCEPT !.mapping.connection = connection,
     !.connected = TRUE, !.needsNew = FALSE, !.pad = pad,
     !.packet = @ + (IF new \/ ~slot.connected \/ slot.pad # pad THEN 2 ELSE 0)]

(* The slot with a state of the source; the packet number moves with what  *)
(* the game can see.                                                       *)
Connected(slot, connection, pad) ==
  LET new == connection # slot.mapping.connection
      base == IF new THEN Cleared(slot) ELSE slot IN
  [base EXCEPT !.mapping.connection = connection, !.connected = TRUE,
     !.needsNew = FALSE, !.pad = pad,
     !.packet = @ + (IF new \/ ~slot.connected \/ slot.pad # pad THEN 1 ELSE 0)]

SourceState(sequence, c, hint, connection, pad) ==
  /\ Accepted(sequence)
  /\ \E l \in LogicalSlot :
       /\ HasSource(l, c) /\ xSlots[l].mapping.hint = hint
       /\ MayConnect(xSlots[l], connection)
       /\ xSlots' = [xSlots EXCEPT ![l] = Connected(@, connection, pad)]
  /\ UNCHANGED <<gameRead, lastVibration>>

(* applySourceSnapshot: a controller seen in another runtime slot is a new *)
(* route; capabilities and battery are as the snapshot has them.           *)
SourceSnapshot(sequence, c, hint, connection, pad, capable, battery) ==
  /\ Accepted(sequence)
  /\ \E l \in LogicalSlot :
       LET slot == xSlots[l]
           routed == slot.mapping.hint # hint
           base == IF routed THEN [Cleared(slot) EXCEPT !.mapping.generation = @ + 1,
                                     !.mapping.hint = hint]
                             ELSE slot
           next == Connected(base, connection, pad) IN
       /\ HasSource(l, c) /\ MayConnect(slot, connection)
       /\ xSlots' = [xSlots EXCEPT ![l] =
            [next EXCEPT !.capable = capable, !.battery = battery,
               !.routes = IF capable = "vibrates" THEN @ ELSE 0]]
  /\ UNCHANGED <<gameRead, lastVibration>>

(* applySourceCapabilities and applySourceBattery                          *)
SourceDetail(sequence, c, hint, connection, capable) ==
  /\ Accepted(sequence)
  /\ \E l \in LogicalSlot :
       /\ HasSource(l, c) /\ xSlots[l].mapping.hint = hint
       /\ IsCurrent(xSlots[l], connection) /\ xSlots[l].connected
       /\ \/ xSlots' = [xSlots EXCEPT ![l].capable = capable]
          \/ xSlots' = [xSlots EXCEPT ![l].battery = TRUE]
  /\ UNCHANGED <<gameRead, lastVibration>>

(* disconnectSource: only a new connection brings the slot back.           *)
Disconnected(slot) ==
  [Cleared(slot) EXCEPT !.needsNew = TRUE, !.packet = @ + 1]

(* Mutant of DisconnectSource: the connection may come back.               *)
DisconnectSourceOnly(sequence, c, connection) ==
  /\ Accepted(sequence)
  /\ \E l \in LogicalSlot :
       /\ HasSource(l, c) /\ IsCurrent(xSlots[l], connection) /\ xSlots[l].connected
       /\ xSlots' = [xSlots EXCEPT ![l] = Cleared(@)]
  /\ UNCHANGED <<gameRead, lastVibration>>

DisconnectSource(sequence, c, connection) ==
  /\ Accepted(sequence)
  /\ \E l \in LogicalSlot :
       /\ HasSource(l, c) /\ IsCurrent(xSlots[l], connection) /\ xSlots[l].connected
       /\ xSlots' = [xSlots EXCEPT ![l] = Disconnected(@)]
  /\ UNCHANGED <<gameRead, lastVibration>>

-----------------------------------------------------------------------------
(* getState with the mapping.                                              *)
ReadSlot(l) ==
  /\ IsMapped(l)
  /\ gameRead' = [gameRead EXCEPT ![l] =
       [mapping |-> xSlots[l].mapping, packet |-> xSlots[l].packet,
        connected |-> xSlots[l].connected, pad |-> xSlots[l].pad]]
  /\ UNCHANGED <<xSequence, xSlots, lastVibration>>

(* Mutant of RouteVibration: the slot alone decides.                       *)
RouteVibrationBySlot(sequence, l) ==
  /\ Accepted(sequence) /\ xSlots[l].connected /\ xSlots[l].capable = "vibrates"
  /\ gameRead[l].connected
  /\ lastVibration' = [meant |-> gameRead[l].mapping.source,
                       reached |-> xSlots[l].mapping.source]
  /\ UNCHANGED <<xSlots, gameRead>>

RouteVibration(sequence, l) ==
  LET slot == xSlots[l]  read == gameRead[l].mapping IN
  /\ Accepted(sequence) /\ IsMapped(l) /\ slot.connected
  /\ read.generation = slot.mapping.generation
  /\ read.connection = slot.mapping.connection
  /\ slot.capable = "vibrates"
  /\ xSlots' = [xSlots EXCEPT ![l].routes = 1]
  /\ lastVibration' = [meant |-> read.source, reached |-> slot.mapping.source]
  /\ UNCHANGED gameRead

(* The context starts over, generations included; the game reads it anew   *)
(* (a vibration asked with what it read before could find the same         *)
(* generations under another controller).                                  *)
XInputReset ==
  /\ xSequence' = 0 /\ xSlots' = [l \in LogicalSlot |-> EmptySlot(0)]
  /\ gameRead' = [l \in LogicalSlot |-> NothingRead]
  /\ UNCHANGED lastVibration

(* A late or repeated command changes nothing: only the next one is taken. *)
XInputNext ==
  \/ XInputReset
  \/ \E l \in LogicalSlot : ReadSlot(l)
  \/ \E sequence \in {xSequence + 1} \cap 1..MaxXSequence :
       \/ \E l \in LogicalSlot : UnmapSlot(sequence, l) \/ RouteVibration(sequence, l)
       \/ \E c \in XController, connection \in Connection :
            \/ DisconnectSource(sequence, c, connection)
            \/ \E hint \in SourceHint :
                 \/ \E l \in LogicalSlot : MapSlot(sequence, l, c, hint, connection)
                 \/ \E pad \in Pad :
                      \/ SourceState(sequence, c, hint, connection, pad)
                      \/ \E capable \in {"unknown", "vibrates"} :
                           SourceSnapshot(sequence, c, hint, connection, pad, capable,
                                          capable = "vibrates")
                 \/ \E capable \in {"vibrates", "still"} :
                      SourceDetail(sequence, c, hint, connection, capable)

XInputSpec == XInputInit /\ [][XInputNext]_xinputVars

-----------------------------------------------------------------------------
(* Type invariant of the context.                                          *)
XInputTypeOK ==
  /\ xSequence \in 0..MaxXSequence
  /\ xSlots \in [LogicalSlot ->
       [mapping : XMapping, connected : BOOLEAN, needsNew : BOOLEAN, pad : Pad,
        packet : 0..MaxXSequence, capable : {"unknown", "vibrates", "still"},
        battery : BOOLEAN, routes : {0, 1}]]
  /\ gameRead \in [LogicalSlot ->
       [mapping : XMapping, packet : 0..MaxXSequence, connected : BOOLEAN, pad : Pad]]
  /\ lastVibration \in [meant : XController \cup {NoController},
                        reached : XController \cup {NoController}]

(* One controller plays on one slot.                                       *)
OneSlotPerController ==
  \A l, k \in LogicalSlot :
    IsMapped(l) /\ xSlots[l].mapping.source = xSlots[k].mapping.source => l = k

(* A vibration reaches the controller the game had read, or none.          *)
VibrationReachesItsController == lastVibration.meant = lastVibration.reached

(* Games compare packet numbers: under one mapping, the same number means  *)
(* that nothing the game can see has changed.                              *)
PacketNumberTellsChanges ==
  \A l \in LogicalSlot :
    LET read == gameRead[l]  slot == xSlots[l] IN
    read.mapping.source # NoController
      /\ read.mapping.generation = slot.mapping.generation /\ read.packet = slot.packet
    => read.connected = slot.connected /\ read.pad = slot.pad

(* A slot in the disconnected state shows nothing of the last connection,  *)
(* and no frame of that connection brings it back.                         *)
EndedConnectionStaysEnded ==
  \A l \in LogicalSlot :
    /\ ~xSlots[l].connected => xSlots[l].pad = "rest" /\ xSlots[l].routes = 0
    /\ xSlots[l].needsNew => ~xSlots[l].connected
    /\ LET read == gameRead[l].mapping IN
       ~gameRead[l].connected /\ gameRead[l].packet > 0 /\ read = xSlots[l].mapping
         => ~xSlots[l].connected

XInputIsExact ==
  /\ OneSlotPerController /\ VibrationReachesItsController
  /\ PacketNumberTellsChanges /\ EndedConnectionStaysEnded
=============================================================================

---------------------------- MODULE HostExchange ----------------------------
(* The host protocol in use.  One client of the host's pipe and the host's    *)
(* session for it, and at the end one message of any protocol on its way:    *)
(* HostPipeClient::Impl::transact() and the frames of host_transport.cpp.    *)
(* The pipe is a stream: a frame is written and read piece by piece, either   *)
(* side may give up in the middle of one, and what has been written stays in  *)
(* the pipe until the pipe is closed.                                        *)
EXTENDS Frames

CONSTANT MaxCalls          \* calls of one connection

ASSUME ExchangeAssumption == MaxCalls \in Nat \ {0}

VARIABLES
  clientSide,   \* "closed", "ready", "writing" or "waiting"
  hostSide,     \* "reading", "writing" or "gone"
  calls,        \* the requests made on this connection, in order
  handled,      \* those the host acted on, with the answer it gave
  unsent,       \* what each side has still to write
  stream,       \* what lies in the pipe towards each side
  callResult    \* how the last call ended

exchangeVars ==
  <<clientSide, hostSide, calls, handled, unsent, stream, callResult>>

Side == {"client", "host"}

(* A request of each shape: the handshake, a fixed one, one with texts, and   *)
(* what no encoder lets through.                                             *)
Hi == [type |-> "Hello", value |-> <<<<1>>, <<0>>>>]
Requests ==
  { [type |-> "Ping", value |-> <<<<2>>>>],
    [type |-> "RouteAudio", value |-> <<<<1>>, <<1>>, <<1, 1>>>>],
    [type |-> "AcquireUiLease", value |-> <<<<0>>, <<0>>>>] }

(* The answers the host may give: the one that belongs to the request, or an  *)
(* error.                                                                    *)
Failure == [type |-> "Error", value |-> <<<<1>>, <<0>>, <<>>>>]
HostAnswers(request) ==
  CASE request.type = "Hello" -> {[type |-> "HelloAck", value |-> <<<<1>>, <<2>>, <<1>>, <<0>>>>], Failure}
    [] request.type = "RouteAudio" -> {[type |-> "RouteAudioResult", value |-> <<<<s>>, <<0>>>>] : s \in Flag} \cup {Failure}
    [] OTHER -> {[type |-> "Pong", value |-> request.value], Failure}

ExpectedAnswer ==
  [ Hello |-> "HelloAck", Ping |-> "Pong", RouteAudio |-> "RouteAudioResult",
    ResetAudio |-> "ResetAudioResult", LaunchGame |-> "LaunchGameResult",
    StopGame |-> "StopGameResult", PairController |-> "PairControllerResult",
    AcquireUiLease |-> "AcquireUiLeaseResult",
    ReleaseUiLease |-> "ReleaseUiLeaseResult", GetSeatHardware |-> "SeatHardware",
    AssignSeatHardware |-> "AssignSeatHardwareResult",
    GetSeatRuntimeInfo |-> "SeatRuntimeInfo", GetInputActivity |-> "InputActivity" ]

(* What a call makes of its answer: its own type, a payload that can be        *)
(* decoded, and of a ping the number it sent.                                *)
ClientAccepts(request, message) ==
  /\ message.type = ExpectedAnswer[request.type]
  /\ message.value # NoCells
  /\ request.type = "Ping" => message.value = request.value

NoResult == [call |-> 0, answer |-> Failure, given |-> FALSE]

ExchangeTypeOK ==
  /\ clientSide \in {"closed", "ready", "writing", "waiting"}
  /\ hostSide \in {"reading", "writing", "gone"}
  /\ calls \in Seq({Hi} \cup Requests) /\ Len(calls) <= MaxCalls
  /\ DOMAIN stream = Side /\ DOMAIN unsent = Side

ExchangeInit ==
  /\ clientSide = "closed" /\ hostSide = "gone"
  /\ calls = <<>> /\ handled = <<>>
  /\ unsent = [s \in Side |-> NoCells] /\ stream = [s \in Side |-> NoCells]
  /\ callResult = NoResult

(* The client gives the connection up.                                       *)
Close ==
  /\ clientSide' = "closed"
  /\ unsent' = [unsent EXCEPT !["client"] = NoCells]

BeginCall(request) ==
  LET cells == HostEncode(request.type, request.value)
  IN IF cells = NoCells
     THEN /\ callResult' = NoResult
          /\ UNCHANGED <<clientSide, calls, unsent>>
     ELSE /\ calls' = Append(calls, request)
          /\ unsent' = [unsent EXCEPT !["client"] =
                          Frame("host", request.type, Len(calls'), cells)]
          /\ clientSide' = "writing"
          /\ callResult' = NoResult

(* A connection of its own for each connect(), and the handshake on it.       *)
OpenConnection ==
  /\ clientSide = "closed"
  /\ calls' = <<Hi>> /\ handled' = <<>>
  /\ unsent' = [s \in Side |-> IF s = "client"
       THEN Frame("host", Hi.type, 1, HostEncode(Hi.type, Hi.value)) ELSE NoCells]
  /\ stream' = [s \in Side |-> NoCells]
  /\ clientSide' = "writing" /\ hostSide' = "reading"
  /\ callResult' = NoResult

CallHost ==
  /\ clientSide = "ready" /\ Len(calls) < MaxCalls
  /\ \E request \in Requests : BeginCall(request)
  /\ UNCHANGED <<hostSide, handled, stream>>

(* writeExact(): as much at a time as the pipe takes.                         *)
Write(from, to) ==
  \E n \in 1..Len(unsent[from]) :
    /\ stream' = [stream EXCEPT ![to] = @ \o SubSeq(unsent[from], 1, n)]
    /\ unsent' = [unsent EXCEPT ![from] = SubSeq(@, n + 1, Len(@))]

ClientWrites ==
  /\ clientSide = "writing" /\ Write("client", "host")
  /\ clientSide' = IF unsent'["client"] = NoCells THEN "waiting" ELSE "writing"
  /\ UNCHANGED <<hostSide, calls, handled, callResult>>

HostWrites ==
  /\ hostSide = "writing" /\ Write("host", "client")
  /\ hostSide' = IF unsent'["host"] = NoCells THEN "reading" ELSE "writing"
  /\ UNCHANGED <<clientSide, calls, handled, callResult>>

(* readFrame(): the header, then as much as it announces, then decodeFrame(). *)
Announced(bytes) == Header("host", bytes).size
WholeFrame(bytes) ==
  /\ Len(bytes) >= HeaderLength("host")
  /\ \/ Announced(bytes) > MaxPayload
     \/ Len(bytes) >= HeaderLength("host") + Announced(bytes)

FirstFrame(bytes) ==
  LET n == HeaderLength("host") + Announced(bytes)
  IN IF Announced(bytes) <= MaxPayload /\ GoodFrame("host", SubSeq(bytes, 1, n))
     THEN [rest |-> SubSeq(bytes, n + 1, Len(bytes)), frame |-> SubSeq(bytes, 1, n)]
     ELSE [rest |-> NoCells, frame |-> NoCells]

HostReads ==
  /\ hostSide = "reading" /\ WholeFrame(stream["host"])
  /\ LET read == FirstFrame(stream["host"])
     IN /\ stream' = [stream EXCEPT !["host"] = read.rest]
        /\ IF read.frame = NoCells
           THEN hostSide' = "gone" /\ UNCHANGED <<handled, unsent>>
           ELSE LET message == Understood("host", "none", read.frame)
                    request == [type |-> message.type, value |-> message.value]
                IN \E answer \in IF message.value = NoCells THEN {Failure} ELSE HostAnswers(request) :
                     /\ handled' = Append(handled, [request |-> request, answer |-> answer])
                     /\ unsent' = [unsent EXCEPT !["host"] =
                          Frame("host", answer.type, message.number,
                                HostEncode(answer.type, answer.value))]
                     /\ hostSide' = "writing"
  /\ UNCHANGED <<clientSide, calls, callResult>>

(* The host's read or write times out, the client has closed its end in the   *)
(* middle of a frame, or the host is stopped.                                *)
HostGivesUp ==
  /\ hostSide # "gone" /\ hostSide' = "gone"
  /\ unsent' = [unsent EXCEPT !["host"] = NoCells]
  /\ UNCHANGED <<clientSide, calls, handled, stream, callResult>>

(* transact(): the answer must carry the number of the request, or the        *)
(* connection is of no use any more.  An answer of another type, or one that  *)
(* cannot be decoded, fails the call only.                                    *)
NumberMatches(message) == message.number = Len(calls)

ClientReads ==
  /\ clientSide = "waiting" /\ WholeFrame(stream["client"])
  /\ LET read == FirstFrame(stream["client"])
         message == Understood("host", "none", read.frame)
         request == calls[Len(calls)]
         good == ClientAccepts(request, message)
     IN /\ stream' = [stream EXCEPT !["client"] = read.rest]
        /\ IF read.frame = NoCells
           THEN Close /\ callResult' = NoResult
           ELSE IF ~NumberMatches(message) THEN Close /\ callResult' = NoResult
           ELSE /\ callResult' =
                     [call |-> Len(calls), given |-> good,
                      answer |-> [type |-> message.type, value |-> message.value]]
                /\ IF good \/ request.type # "Hello"
                   THEN clientSide' = "ready" /\ UNCHANGED unsent ELSE Close
  /\ UNCHANGED <<hostSide, calls, handled>>

(* A read or a write that does not complete in time ends the connection.      *)
GiveUpKeepsConnection ==
  /\ clientSide' = "ready"
  /\ unsent' = [unsent EXCEPT !["client"] = NoCells]

GiveUp == Close

CallTimesOut ==
  /\ clientSide \in {"writing", "waiting"}
  /\ GiveUp /\ callResult' = NoResult
  /\ UNCHANGED <<hostSide, calls, handled, stream>>

ClientCloses ==
  /\ clientSide = "ready" /\ Close
  /\ UNCHANGED <<hostSide, calls, handled, stream, callResult>>

ExchangeNext ==
  \/ OpenConnection \/ CallHost \/ ClientWrites \/ ClientReads \/ CallTimesOut
  \/ ClientCloses \/ HostWrites \/ HostReads \/ HostGivesUp

(* The host acts on what the client asked, whole and in order and each once,  *)
(* whatever was cut off; a client that gets an answer gets the one the host   *)
(* gave to that very call; and no more than the frames of the calls is ever   *)
(* on its way.                                                               *)
AnswersBelong ==
  /\ \A i \in DOMAIN handled : i \in DOMAIN calls /\ handled[i].request = calls[i]
  /\ callResult.given =>
       /\ callResult.call \in DOMAIN handled
       /\ handled[callResult.call].answer = callResult.answer
  /\ \A s \in Side : Len(stream[s]) + Len(unsent[s]) <= MaxCalls * (6 + MaxPayload)

-----------------------------------------------------------------------------
(* One message on its way, over any of HydraSeat's protocols: the sender     *)
(* writes it, the bytes may arrive otherwise than they were sent (cut off,    *)
(* followed by more, or from a peer that writes something else), and the      *)
(* receiver reads a message or refuses them.                                 *)

VARIABLES
  wireLink,        \* the protocol, and the type of the message sent
  wireValue,       \* what the sender is to say
  wireEdits,       \* how often the value or the bytes were changed so far
  wireBytes,       \* the frame
  wireDamaged,     \* whether the frame is another than the one written
  wireReceived,    \* what the receiver made of it
  wireStage

wireVars == <<wireLink, wireValue, wireEdits, wireBytes, wireDamaged,
              wireReceived, wireStage>>

(* A message of each type, to vary.                                          *)
Sample ==
  [ host |->
      [ Hello |-> <<1, 0>>, HelloAck |-> <<1, 2, 1, 0>>,
        AcquireUiLease |-> <<1, 0>>, Ping |-> <<1>>, RouteAudioResult |-> <<0, 0>>,
        ResetAudio |-> <<1, 1>>, GetInputActivity |-> <<1, 0>>,
        Snapshot |-> <<1, 1, 0, 1, 2, 0, 1, 0, 1, 1, 1, 2, 0, 0, 0, 0, 0, 0, 0, 0, 0>> ],
    edge |->
      [ Hello |-> <<1, 1, 1, 1, 0, 1>>, HelloAck |-> <<1, 0, 1, 1, 0>>,
        InputEvent |-> <<1, 1, 0, 0, 1, 1, 0>>,
        ControlState |-> <<1, 1, 1, 0, 1, 0, 0, 0, 2, 2>>,
        QuerySnapshot |-> <<0, 0>>, Error |-> <<1>>,
        StateSnapshot |-> <<1, 1, 1, 1, 0, 0, 1, 1, 1, 0, 1, 0, 0, 0, 2, 2>>,
        ControllerUpdate |-> <<1, 3, 0, 0, 1, 1, 1, 0, 0>>,
        ControllerQuery |-> <<1, 2, 0, 0, 1, 1, 1, 1, 0>>,
        ControllerSnapshot |-> <<1, 0, 0, 0, 0, 0, 0, 1, 1, 1, 1, 0, 1, 1, 1, 1, 1,
                                 1, 1, 1, 1, 1, 1, 1, 1, 1, 1, 1, 0>> ],
    watchdog |->
      [ RenewLease |-> <<1, 1, 1>>, Status |-> <<1, 1, 1, 1, 1, 2, 0, 0>>,
        RegisterPlan |-> <<1, 1, 1, 2, 2, 0>> \o <<1, 1, 0, 1, 1, 1, 0, 1, 0, 1>>
                           \o <<2, 2, 0, 2, 2, 1, 1, 0, 0, 0>> ],
    service |-> [ Request |-> <<1, 2, 1, 1, 1, 0, 1>>, Response |-> <<1, 0, 1, 1, 1>> ],
    identity |-> [ Identity |-> <<1, 1, 0, 1, 1, 1, 1, 1, 0, 1, 1>> ] ]

TextSample ==
  [ HardwareInventory |-> <<<<2>>, <<0>>, <<1>>, <<0>>, <<1>>, <<>>, <<2>>, <<0>>, <<2>>, <<1>>>>,
    SeatHardware |-> <<<<1>>, <<0>>, <<1>>, <<>>, <<2>>, <<1, 1>>>>,
    PairController |-> <<<<1>>, <<2>>, <<0>>, <<1, 1>>>>,
    GameCatalog |-> <<<<1>>, <<0>>, <<1>>, <<>>, <<2>>, <<1, 1>>, <<>>>>,
    SeatRuntimeInfo |-> <<<<1>>, <<0>>, <<1>>, <<2>>>>,
    InputActivity |-> <<<<1>>, <<0>>, <<1>>, <<1>>>>,
    LaunchGame |-> <<<<1>>, <<0>>, <<1, 1>>, <<1, 1>>, <<>>, <<1, 2>>>>,
    RouteAudio |-> <<<<1>>, <<1>>, <<1, 1>>>>,
    Error |-> <<<<1>>, <<0>>, <<0, 1>>>> ]

WireLink ==
  UNION { {l} \X DOMAIN Sample[l] : l \in DOMAIN Sample } \cup ({"host"} \X DOMAIN TextSample)

WireTypeOK ==
  /\ wireLink \in WireLink
  /\ wireEdits \in 0..2
  /\ wireDamaged \in BOOLEAN
  /\ wireStage \in {"composing", "sent", "refused", "received"}

WireInit ==
  /\ wireLink \in WireLink
  /\ wireValue = IF wireLink[1] = "host" /\ wireLink[2] \in DOMAIN TextSample
                 THEN TextSample[wireLink[2]]
                 ELSE LET s == Sample[wireLink[1]][wireLink[2]]
                      IN [i \in DOMAIN s |-> <<s[i]>>]
  /\ wireEdits = 0 /\ wireBytes = NoCells /\ wireDamaged = FALSE
  /\ wireReceived = Refused /\ wireStage = "composing"

(* Any value of the field's type; what a checked protocol's callers may hand *)
(* over besides: integers out of range and texts that are none.              *)
Offered(link, field) ==
  IF ~Checked(link) THEN field.holds
  ELSE IF field.text THEN Texts(TRUE, Cell) \cup {[i \in 1..(MaxText + 1) |-> 1]}
  ELSE { <<n>> : n \in 0..4 }

Compose ==
  /\ wireStage = "composing" /\ wireEdits < 2
  /\ LET at == CountAt(wireLink[1], wireLink[2])
         n == IF at = 0 THEN 0 ELSE wireValue[at][1]
         layout == Layout(wireLink[1], wireLink[2], n)
     IN \E i \in DOMAIN layout \ {at} : \E v \in Offered(wireLink[1], layout[i]) :
          /\ layout[i] # Reserved /\ v # wireValue[i]
          /\ wireValue' = [wireValue EXCEPT ![i] = v]
  /\ wireEdits' = wireEdits + 1
  /\ UNCHANGED <<wireLink, wireBytes, wireDamaged, wireReceived, wireStage>>

Send ==
  /\ wireStage = "composing"
  /\ wireBytes' = Rewritten(wireLink[1],
                    [type |-> wireLink[2], number |-> 1, value |-> wireValue])
  /\ wireStage' = IF wireBytes' = NoCells THEN "refused" ELSE "sent"
  /\ UNCHANGED <<wireLink, wireValue, wireEdits, wireDamaged, wireReceived>>

Damage ==
  /\ wireStage = "sent" /\ wireEdits < 2
  /\ \/ \E i \in DOMAIN wireBytes, c \in {0, 2} :
          wireBytes[i] # c /\ wireBytes' = [wireBytes EXCEPT ![i] = c]
     \/ \E i \in DOMAIN wireBytes : wireBytes' = SubSeq(wireBytes, 1, i - 1)
     \/ \E c \in Cell : wireBytes' = Append(wireBytes, c)
  /\ wireEdits' = wireEdits + 1 /\ wireDamaged' = TRUE
  /\ UNCHANGED <<wireLink, wireValue, wireReceived, wireStage>>

Receive ==
  /\ wireStage = "sent"
  /\ wireReceived' = Understood(wireLink[1], wireLink[2], wireBytes)
  /\ wireStage' = "received"
  /\ UNCHANGED <<wireLink, wireValue, wireEdits, wireBytes, wireDamaged>>

WireNext == Compose \/ Send \/ Damage \/ Receive

(* What a checked encoder lets through its reader understands as it was      *)
(* meant; the edge's readers refuse only what does not belong together; and  *)
(* bytes from anywhere are read only as the message they are the encoding    *)
(* of, never as a part or a near miss of one.                                *)
WireIsExact ==
  wireStage = "received" =>
    /\ ~wireDamaged =>
         IF Checked(wireLink[1]) \/ Holds(wireLink[1], wireLink[2], wireValue)
         THEN wireReceived.type = wireLink[2] /\ wireReceived.value = wireValue
         ELSE wireReceived.value = NoCells
    /\ wireReceived.value # NoCells =>
         /\ Holds(wireLink[1], wireReceived.type, wireReceived.value)
         /\ Rewritten(wireLink[1], wireReceived) = wireBytes
=============================================================================

------------------------------ MODULE Transport ------------------------------
(***************************************************************************)
(* One transport of daemon/face/, of the kind chosen at the start, and the   *)
(* handlers the io_service holds for it.                                     *)
(*                                                                           *)
(* A handler whose operation has completed waits in `ready`, first in first  *)
(* out, with the outcome the operation had; cancelling an operation that has *)
(* completed no longer changes that outcome.  A timer's handler, close(),    *)
(* send() and setPersistency() are called from handlers of other objects and *)
(* may run between any two.  Packets are counted, not named.                 *)
(***************************************************************************)
EXTENDS Integers, Sequences, FiniteSets, SequencesExt

CONSTANTS
  MaxSendQueue,      \* bound: packets in m_sendQueue or in the socket
  MaxReady,          \* bound: handlers waiting when a new one is started
  MaxFaults          \* bound: errors, closes and changes of persistency or interface

VARIABLES
  t,        \* the transport
  faults    \* how many of the bounded things happened

transportVars == <<t, faults>>

Streams == {"tcp", "unix"}
Datagrams == {"udp", "multicast-udp"}
Ethernets == {"ethernet", "multicast-ethernet"}
Ending == {"CLOSING", "FAILED", "CLOSED"}
Persistencies == {"on-demand", "persistent", "permanent"}

NewTransport(kind, pers) ==
  [kind |-> kind, pers |-> pers, st |-> "UP", sock |-> "open", pcap |-> FALSE,
   queue |-> 0, writes |-> 0, reads |-> 0, connects |-> 0, recent |-> FALSE, timer |-> FALSE,
   peer |-> FALSE, ready |-> <<>>, freed |-> FALSE, status |-> "ok"]

\* The constructors start the first read, and the timer that the transport runs.
TcpTransport(p) == [NewTransport("tcp", p) EXCEPT !.reads = 1]
UnixStreamTransport == [NewTransport("unix", "on-demand") EXCEPT !.reads = 1]

UnicastUdpTransport(p) ==
  [NewTransport("udp", p) EXCEPT !.reads = 1, !.timer = p = "on-demand"]
MulticastUdpTransport == [NewTransport("multicast-udp", "permanent") EXCEPT !.reads = 1]

\* An Ethernet transport starts in the state of its network interface.
EthernetTransport(kind, p, running) ==
  [NewTransport(kind, p) EXCEPT !.reads = 1, !.pcap = TRUE, !.st = IF running THEN "UP" ELSE "DOWN"]
UnicastEthernetTransport(p, running) ==
  [EthernetTransport("ethernet", p, running) EXCEPT !.timer = p = "on-demand"]
MulticastEthernetTransport(running) == EthernetTransport("multicast-ethernet", "permanent", running)

WebSocketTransport == [NewTransport("websocket", "on-demand") EXCEPT !.timer = TRUE]
InternalForwarderTransport == [NewTransport("internal", "permanent") EXCEPT !.peer = TRUE]

Require(x, cond, what) ==
  IF cond \/ x.status # "ok" THEN x ELSE [x EXCEPT !.status = what]

Post(x, h, e) == [x EXCEPT !.ready = Append(@, [h |-> h, e |-> e])]

ValidTransition(old, new) ==
  \/ old \in {"UP", "DOWN"} /\ new \in {"UP", "DOWN", "CLOSING", "FAILED"} \ {old}
  \/ old \in {"CLOSING", "FAILED"} /\ new = "CLOSED"

\* setState, with what follows CLOSED: FaceTable::remove posts the deallocation
\* behind the handlers that are there, and the client leaves an internal transport.
SetState(x, new) ==
  IF x.st = new THEN x
  ELSE LET y == [Require(x, ValidTransition(x.st, new), "invalid state transition") EXCEPT !.st = new]
       IN  IF new = "CLOSED" THEN [Post(y, "free", "ok") EXCEPT !.peer = FALSE] ELSE y

Repeat(h, n) == [i \in 1 .. n |-> [h |-> h, e |-> "aborted"]]

\* cancel() or close() of the socket: what is outstanding completes as aborted.
CancelOperations(x) ==
  [x EXCEPT !.ready = @ \o Repeat("handleSend", x.writes) \o Repeat("handleReceive", x.reads)
                        \o Repeat("handleReconnect", x.connects),
            !.writes = 0, !.reads = 0, !.connects = 0]

\* An operation started on a socket that is no longer open fails at once.
StartWrite(x) == IF x.sock = "open" THEN [x EXCEPT !.writes = @ + 1] ELSE Post(x, "handleSend", "shut")
StartRead(x) == IF x.sock = "open" THEN [x EXCEPT !.reads = @ + 1] ELSE Post(x, "handleReceive", "shut")

\* What starts an operation; a datagram transport does it in doSend and handleReceive.
SendFromQueue(x) == StartWrite(x)
StartReceive(x) == StartRead(Require(x, x.st = "UP", "startReceive while not UP"))
AsyncRead(x) == StartRead(x)

\* A constructor that throws after the base class has started a read: no face is
\* made, and destroying the socket leaves the aborted handler behind.
ConstructorThrows(x) ==
  [CancelOperations(x) EXCEPT !.sock = "closed", !.pcap = FALSE, !.timer = FALSE, !.freed = TRUE]

Made ==
  {TcpTransport(p) : p \in Persistencies} \cup {UnicastUdpTransport(p) : p \in Persistencies}
    \cup {UnicastEthernetTransport(p, up) : p \in Persistencies, up \in BOOLEAN}
    \cup {MulticastEthernetTransport(up) : up \in BOOLEAN}
    \cup {UnixStreamTransport, MulticastUdpTransport, WebSocketTransport, InternalForwarderTransport}

Transports == Made \cup {ConstructorThrows(x) : x \in {y \in Made : y.kind \in Ethernets}}

------------------------------------------------------------------------------
(* Closing.                                                                  *)

\* Stops the reads and writes of a stream; the socket stays until deferredClose.
StreamDoClose(x) ==
  Post(IF x.sock = "open" THEN [CancelOperations(x) EXCEPT !.sock = "shut"] ELSE x, "deferredClose", "ok")

\* The reconnection is cancelled.
TcpDoClose(x) == StreamDoClose([x EXCEPT !.timer = FALSE])

\* Mutation: the state is set before the socket is closed.
DatagramDoCloseAtOnce(x) == [CancelOperations(SetState(x, "CLOSED")) EXCEPT !.sock = "closed"]

\* The idle timer of a datagram or Ethernet transport is left to its destructor.
DatagramDoClose(x) == Post([CancelOperations(x) EXCEPT !.sock = "closed"], "setClosed", "ok")

\* Sends are outstanding on a socket of their own, closed first.
MulticastUdpDoClose(x) ==
  DatagramDoClose([x EXCEPT !.ready = @ \o Repeat("handleSend", x.writes), !.writes = 0])

EthernetDoClose(x) ==
  Post([CancelOperations(x) EXCEPT !.sock = "closed", !.pcap = FALSE], "setClosed", "ok")

WebSocketDoClose(x) == SetState([x EXCEPT !.timer = FALSE, !.sock = "closed"], "CLOSED")

InternalDoClose(x) == SetState(x, "CLOSED")

DoClose(x) ==
  CASE x.kind = "tcp"           -> TcpDoClose(x)
    [] x.kind = "unix"          -> StreamDoClose(x)
    [] x.kind = "udp"           -> DatagramDoClose(x)
    [] x.kind = "multicast-udp" -> MulticastUdpDoClose(x)
    [] x.kind \in Ethernets     -> EthernetDoClose(x)
    [] x.kind = "websocket"     -> WebSocketDoClose(x)
    [] x.kind = "internal"      -> InternalDoClose(x)

\* Mutation: the socket is closed and the state stays CLOSING.
DeferredCloseSilent(x) == [CancelOperations([x EXCEPT !.queue = 0]) EXCEPT !.sock = "closed"]

DeferredClose(x) ==
  SetState([CancelOperations([x EXCEPT !.queue = 0]) EXCEPT !.sock = "closed"], "CLOSED")

CloseTransport(x) ==
  IF x.st \notin {"UP", "DOWN"} THEN x ELSE DoClose(SetState(x, "CLOSING"))

Fail(x) == DoClose(SetState(x, "FAILED"))

StreamHandleError(x, e) ==
  IF e = "eof" THEN DoClose(SetState(x, "CLOSING")) ELSE Fail(x)

TcpHandleError(x, e) ==
  IF x.pers = "permanent" THEN Post(CancelOperations(SetState(x, "DOWN")), "reconnect", "ok")
  ELSE StreamHandleError(x, e)

StreamProcessErrorCode(x, e) ==
  IF x.st \in Ending \/ e \in {"aborted", "shut"} THEN x
  ELSE IF x.kind = "tcp" THEN TcpHandleError(x, e) ELSE StreamHandleError(x, e)

DatagramProcessErrorCode(x, e) ==
  IF x.st \in Ending \/ e = "aborted" \/ x.pers = "permanent" THEN x ELSE Fail(x)

EthernetHandleError(x) == IF x.pers = "permanent" THEN x ELSE Fail(x)

WebSocketProcessErrorCode(x) == IF x.st \in Ending THEN x ELSE Fail(x)

------------------------------------------------------------------------------
(* Sending and receiving.                                                    *)

StreamDoSend(x) ==
  CASE x.st # "UP"  -> x
    [] x.queue = 0  -> SendFromQueue([x EXCEPT !.queue = 1])
    [] OTHER        -> [x EXCEPT !.queue = @ + 1]

DatagramDoSend(x) == StartWrite(x)
MulticastUdpDoSend(x) == StartWrite(x)

\* `works` is whether a frame or message is accepted at once.
EthernetSendPacket(x, works) == IF works THEN x ELSE EthernetHandleError(x)
WebSocketDoSend(x, works) == IF works THEN x ELSE WebSocketProcessErrorCode(x)

\* Transport::send; an internal transport posts the packet to its client.
SendPacket(x, works) ==
  CASE x.st \notin {"UP", "DOWN"} -> x
    [] x.kind \in Streams         -> StreamDoSend(x)
    [] x.kind = "udp"             -> DatagramDoSend(x)
    [] x.kind = "multicast-udp"   -> MulticastUdpDoSend(x)
    [] x.kind \in Ethernets       -> EthernetSendPacket(x, works)
    [] x.kind = "websocket"       -> WebSocketDoSend(x, works)
    [] x.kind = "internal"        -> x

StreamHandleSend(x, e) ==
  IF e # "ok" THEN StreamProcessErrorCode(x, e)
  ELSE LET y == Require(x, x.queue > 0, "handleSend with an empty queue")
           z == [y EXCEPT !.queue = IF @ > 0 THEN @ - 1 ELSE 0]
       IN  IF z.queue > 0 THEN SendFromQueue(z) ELSE z

DatagramHandleSend(x, e) == IF e # "ok" THEN DatagramProcessErrorCode(x, e) ELSE x

HandleSend(x, e) ==
  IF x.kind \in Streams THEN StreamHandleSend(x, e) ELSE DatagramHandleSend(x, e)

\* "full": the receive buffer is full and holds no complete packet.
StreamHandleReceive(x, e) ==
  CASE e = "ok"   -> StartReceive(x)
    [] e = "full" -> Fail(x)
    [] OTHER      -> StreamProcessErrorCode(x, e)

\* "garbled": a datagram that is not one TLV element.
ReceiveDatagram(x, e) ==
  CASE e = "ok"      -> [x EXCEPT !.recent = TRUE]
    [] e = "garbled" -> x
    [] OTHER         -> DatagramProcessErrorCode(x, e)

DatagramHandleReceive(x, e) ==
  LET y == ReceiveDatagram(x, e) IN IF y.sock = "open" THEN StartRead(y) ELSE y

ReceivePayload(x, e) == [x EXCEPT !.recent = @ \/ e = "ok"]

EthernetHandleRead(x, e) ==
  IF e \in {"ok", "garbled"}
  THEN AsyncRead(ReceivePayload(Require(x, x.pcap, "read from a closed pcap handle"), e))
  ELSE IF e = "aborted" \/ x.st \in Ending THEN x ELSE EthernetHandleError(x)

HandleReceive(x, e) ==
  CASE x.kind \in Streams   -> StreamHandleReceive(x, e)
    [] x.kind \in Datagrams -> DatagramHandleReceive(x, e)
    [] x.kind \in Ethernets -> EthernetHandleRead(x, e)

------------------------------------------------------------------------------
(* Reconnection of a permanent TCP transport.                                *)

\* Assigning the new socket destroys the old one, which aborts what it had outstanding.
Reconnect(x) ==
  IF x.st \in Ending THEN x
  ELSE LET y == Require(Require(x, x.pers = "permanent", "reconnect while not permanent"),
                       x.st = "DOWN", "reconnect while not DOWN")
       IN  [CancelOperations(y) EXCEPT !.sock = "open", !.queue = 0, !.timer = TRUE, !.connects = 1]

HandleReconnect(x, e) ==
  IF x.st \in Ending \/ e # "ok" THEN x
  ELSE LET y == Require(x, x.sock = "open", "local_endpoint of a closed socket")
       IN  StartReceive(SetState([y EXCEPT !.timer = FALSE], "UP"))

HandleReconnectTimeout(x) ==
  Post([CancelOperations(x) EXCEPT !.sock = "closed", !.timer = FALSE], "reconnect", "ok")

\* The timers of an on-demand UDP or Ethernet transport and of a WebSocket.
CloseIfIdle(x) ==
  IF x.recent THEN [x EXCEPT !.recent = FALSE] ELSE CloseTransport([x EXCEPT !.timer = FALSE])

EthernetCloseIfIdle(x) ==
  IF x.recent THEN [x EXCEPT !.recent = FALSE] ELSE CloseTransport([x EXCEPT !.timer = FALSE])

SendPing(x, works) == IF works THEN x ELSE WebSocketProcessErrorCode(x)
HandlePongTimeout(x) == Fail(x)

\* afterChangePersistency.
TcpAfterChangePersistency(x, old) ==
  IF old = "permanent" /\ x.st = "DOWN" THEN Fail(x) ELSE x
UdpAfterChangePersistency(x) == [x EXCEPT !.timer = x.pers = "on-demand"]
EthernetAfterChangePersistency(x) == [x EXCEPT !.timer = x.pers = "on-demand"]

ChangePersistency(x, p) ==
  LET y == [x EXCEPT !.pers = p]
  IN  CASE x.kind = "tcp"      -> TcpAfterChangePersistency(y, x.pers)
        [] x.kind = "udp"      -> UdpAfterChangePersistency(y)
        [] x.kind = "ethernet" -> EthernetAfterChangePersistency(y)

------------------------------------------------------------------------------
(* Actions.                                                                  *)

TransportInit ==
  /\ t \in Transports
  /\ faults = 0

Live == ~t.freed /\ t.status = "ok"

Fault == faults < MaxFaults /\ faults' = faults + 1

Dispatch(x, m) ==
  CASE m.h = "handleSend"      -> HandleSend(x, m.e)
    [] m.h = "handleReceive"   -> HandleReceive(x, m.e)
    [] m.h = "deferredClose"   -> DeferredClose(x)
    [] m.h = "setClosed"       -> SetState(x, "CLOSED")
    [] m.h = "reconnect"       -> Reconnect(x)
    [] m.h = "handleReconnect" -> HandleReconnect(x, m.e)
    [] m.h = "receive"         -> x
    [] m.h = "free"            -> [x EXCEPT !.freed = TRUE]

\* handleRead of an Ethernet transport returns on operation_aborted before it looks at
\* its object; the other handlers look at getState() or a member in any case.
Touches(x, m) == ~(x.kind \in Ethernets /\ m.h = "handleReceive" /\ m.e = "aborted")

RunHandler ==
  /\ t.status = "ok" /\ t.ready # <<>>
  /\ LET m == Head(t.ready)
     IN  IF t.freed /\ Touches(t, m) THEN t' = Require(t, FALSE, "handler of a freed transport")
         ELSE t' = Dispatch([t EXCEPT !.ready = Tail(@)], m)
  /\ UNCHANGED faults

\* The operating system completes an operation.
Complete ==
  /\ Live /\ Len(t.ready) < MaxReady
  /\ \/ /\ t.writes > 0
        /\ \/ t' = Post([t EXCEPT !.writes = @ - 1], "handleSend", "ok") /\ UNCHANGED faults
           \/ t' = Post([t EXCEPT !.writes = @ - 1], "handleSend", "error") /\ Fault
     \/ /\ t.reads > 0
        /\ \/ t' = Post([t EXCEPT !.reads = @ - 1], "handleReceive", "ok") /\ UNCHANGED faults
           \/ /\ \E e \in IF t.kind \in Streams THEN {"eof", "error", "full"} ELSE {"garbled", "error"} :
                   t' = Post([t EXCEPT !.reads = @ - 1], "handleReceive", e)
              /\ Fault
     \/ /\ t.connects > 0
        /\ \/ t' = Post([t EXCEPT !.connects = @ - 1], "handleReconnect", "ok") /\ UNCHANGED faults
           \/ t' = Post([t EXCEPT !.connects = @ - 1], "handleReconnect", "error") /\ Fault

Send ==
  /\ Live /\ t.queue + t.writes < MaxSendQueue
  /\ \/ t' = SendPacket(t, TRUE) /\ UNCHANGED faults
     \/ t.kind \in Ethernets \cup {"websocket"} /\ t' = SendPacket(t, FALSE) /\ Fault

\* close() called by the face manager, or by the channel when the peer closes.
Close == Live /\ Fault /\ t' = CloseTransport(t)

\* afterChangePersistency is only reached while the face is known.
SetPersistency ==
  /\ Live /\ t.st # "CLOSED" /\ Fault
  /\ t.kind \in {"tcp", "udp", "ethernet"}
  /\ \E p \in Persistencies \ {t.pers} : t' = ChangePersistency(t, p)

TimerFires ==
  /\ Live /\ t.timer
  /\ t' = CASE t.kind = "tcp"       -> HandleReconnectTimeout(t)
            [] t.kind = "udp"       -> CloseIfIdle(t)
            [] t.kind = "ethernet"  -> EthernetCloseIfIdle(t)
            [] t.kind = "websocket" -> SendPing(t, TRUE)
  /\ UNCHANGED faults

PingFails ==
  Live /\ t.kind = "websocket" /\ t.timer /\ Fault /\ t' = SendPing(t, FALSE)

\* The channel has the face in its map while it is not CLOSED.
PongTimesOut ==
  Live /\ t.kind = "websocket" /\ t.st # "CLOSED" /\ Fault /\ t' = HandlePongTimeout(t)

\* receivePacket of an internal transport, called by its client.
InternalReceive ==
  /\ Live /\ t.peer /\ Len(t.ready) < MaxReady
  /\ t' = Post(t, "receive", "ok") /\ UNCHANGED faults

\* What a channel that received or captured it hands to the face of its sender.
UdpFromChannel ==
  Live /\ t.kind = "udp" /\ t.st # "CLOSED" /\ t' = ReceiveDatagram(t, "ok") /\ UNCHANGED faults

EthernetFromChannel ==
  Live /\ t.kind = "ethernet" /\ t.st # "CLOSED" /\ t' = ReceivePayload(t, "ok") /\ UNCHANGED faults

\* handleNetifStateChange of an Ethernet transport, for both states.
NetifStateChange ==
  /\ Live /\ t.kind \in Ethernets /\ Fault
  /\ \/ t.st = "DOWN" /\ t' = SetState(t, "UP")
     \/ t.st = "UP" /\ t' = SetState(t, "DOWN")

TransportNext ==
  \/ RunHandler \/ Complete \/ Send \/ Close \/ SetPersistency
  \/ TimerFires \/ PingFails \/ PongTimesOut \/ InternalReceive
  \/ UdpFromChannel \/ EthernetFromChannel \/ NetifStateChange

\* The io_service runs the handlers that are ready, and operations that have been
\* cancelled or have failed are ready.
TransportSpec == TransportInit /\ [][TransportNext]_transportVars /\ WF_transportVars(RunHandler)

------------------------------------------------------------------------------
(* Properties.                                                               *)

\* No handler of a deallocated transport is outstanding, and one that still waits
\* does not look at the transport.  A face that is closed leaves none at all: doClose
\* closes the socket, and so gets the aborted handlers queued, before it lets the state
\* become CLOSED, and FaceTable::remove queues the deallocation behind them.  An
\* Ethernet transport whose constructor throws leaves its first read, aborted: the case
\* for which handleRead checks operation_aborted before anything else.
FreedIsNotTouched ==
  t.freed =>
    /\ t.writes + t.reads + t.connects = 0
    /\ \A i \in DOMAIN t.ready : ~Touches(t, t.ready[i])
    /\ t.st = "CLOSED" => t.ready = <<>>

\* A transport that starts to close, or fails, is deallocated, unless an assertion
\* stops the program.
ClosingEnds == (t.st \in Ending) ~> (t.freed \/ t.status # "ok")

==============================================================================

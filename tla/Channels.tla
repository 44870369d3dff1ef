------------------------------ MODULE Channels -------------------------------
(***************************************************************************)
(* The channels of daemon/face/ that create faces, the FaceTable that numbers *)
(* them, and the FaceManager whose create, update and destroy commands act    *)
(* on them.  Faces are numbered in the order they are made; a face's identity *)
(* in the FaceTable is its `id`, 0 while it is in no table.                   *)
(***************************************************************************)
EXTENDS Integers, Sequences, FiniteSets, SequencesExt

CONSTANTS
  ChannelSets,     \* sets of channels to start: of "tcp", "udp", "ether", "unix", "websocket"
  Remotes,         \* remote endpoints
  Loopback,        \* those whose address is a loopback address
  Multicast,       \* those whose address is a multicast address
  LocalScope,      \* those that face_system.tcp.local makes local
  CreateRequests,  \* faces/create commands: records, see FactoryAnswer
  UpdateRequests,  \* faces/update commands: pers, fields, mtu
  MaxFaces,        \* bound: faces made
  MaxCreates,      \* bound: create commands
  MaxChannelFaults \* bound: failures, commands other than create

ASSUME ChannelsAssumption == Loopback \cup Multicast \cup LocalScope \subseteq Remotes

VARIABLES
  c,          \* channels, faces and FaceTable
  channelFaults

channelVars == <<c, channelFaults>>

\* Channels that keep their faces in m_channelFaces; a Unix channel counts them.
Mapped == {"tcp", "udp", "ether", "websocket"}

FaceIdReservedMax == 255

NewChannels(kinds) ==
  [kinds |-> kinds, faces |-> <<>>,
   listening |-> [k \in kinds |-> FALSE],
   waiting |-> [k \in kinds |-> FALSE],
   channelFaces |-> [k \in kinds |-> [r \in Remotes |-> 0]],
   size |-> 0,
   active |-> FALSE,          \* the Ethernet channel's capture
   filter |-> {},             \* peers whose frames it does not capture
   table |-> <<>>,            \* sequence of faces, by id - FaceIdReservedMax; 0 once removed
   followed |-> {},           \* ids in m_faceStateChangeConn
   connects |-> {},
   answers |-> [r \in CreateRequests |-> <<>>],
   asked |-> {},
   events |-> <<>>,           \* of each face, the notifications about it
   status |-> "ok"]

Check(x, cond, what) == IF cond \/ x.status # "ok" THEN x ELSE [x EXCEPT !.status = what]

Notify(x, o, event) == [x EXCEPT !.events[o] = Append(@, event)]

Reply(x, req, code) == [x EXCEPT !.answers[req] = Append(@, code)]

------------------------------------------------------------------------------
(* Faces and the FaceTable.                                                  *)

\* The scope that a transport is given: TCP asks its factory, WebSocket looks at the
\* peer's address, a Unix socket is local, the others never are.
DetermineFaceScopeFromAddresses(r) == IF r \in LocalScope THEN "local" ELSE "non-local"
WebSocketScope(r) == IF r \in Loopback THEN "local" ELSE "non-local"

MakeFace(kind, r, pers, fields, scope) ==
  [kind |-> kind, remote |-> r, pers |-> pers, st |-> "UP", id |-> 0,
   scope |-> scope, fields |-> fields]

NewFace(x, f) ==
  [x EXCEPT !.faces = Append(@, f), !.events = Append(@, <<>>)]

\* A new face that its channel keeps under the remote endpoint.
KeepFace(x, f) ==
  [NewFace(x, f) EXCEPT !.channelFaces[f.kind][f.remote] = Len(x.faces) + 1]

\* A filter is set on a capture that could not be activated.
FilterThrows(x) == "ether" \in x.kinds /\ x.listening["ether"] /\ ~x.active

\* EthernetChannel::updateFilter: frames of peers that have a face are left to it.
UpdateFilter(x) ==
  IF ~x.listening["ether"] \/ FilterThrows(x) THEN x
  ELSE [x EXCEPT !.filter = {r \in Remotes : x.channelFaces["ether"][r] # 0}]

\* Mutation: a connection made while another was being made gets a face of its own.
TcpCreateFaceAnew(x, r, pers, fields) ==
  KeepFace(x, MakeFace("tcp", r, pers, fields, DetermineFaceScopeFromAddresses(r)))

\* createFace of the channels: a face that the endpoint has is reused.
TcpCreateFace(x, r, pers, fields) ==
  IF x.channelFaces["tcp"][r] # 0 THEN x
  ELSE KeepFace(x, MakeFace("tcp", r, pers, fields, DetermineFaceScopeFromAddresses(r)))

UdpCreateFace(x, r, pers) ==
  IF x.channelFaces["udp"][r] # 0 THEN x
  ELSE KeepFace(x, MakeFace("udp", r, pers, FALSE, "non-local"))

EthernetCreateFace(x, r, pers) ==
  IF x.channelFaces["ether"][r] # 0 THEN x
  ELSE UpdateFilter(KeepFace(x, MakeFace("ether", r, pers, FALSE, "non-local")))

TableIds(x) == {FaceIdReservedMax + i : i \in {j \in DOMAIN x.table : x.table[j] # 0}}
FaceOfId(x, id) == x.table[id - FaceIdReservedMax]

\* FaceTable::add, with what the FaceManager connects to afterAdd.
AddFace(x, o) ==
  IF x.faces[o].id # 0 /\ x.faces[o].id \in TableIds(x) THEN x
  ELSE LET id == FaceIdReservedMax + Len(x.table) + 1
           y  == [x EXCEPT !.table = Append(@, o), !.faces[o].id = id]
       IN  Notify([y EXCEPT !.followed = @ \cup {id}], o, "CREATED")

\* FaceTable::remove.
RemoveFace(x, id) ==
  LET o == FaceOfId(x, id)
      y == Notify(Check(x, id \in TableIds(x), "removed face is not in the table"), o, "DESTROYED")
  IN  [y EXCEPT !.table[id - FaceIdReservedMax] = 0, !.faces[o].id = 0]

\* The state of a face becomes CLOSED: the slots of afterStateChange run in the
\* order they were connected, the channel's, the FaceTable's, the FaceManager's.
ConnectFaceClosedSignal(x, f) ==
  CASE f.kind = "unix"  -> [x EXCEPT !.size = @ - 1]
    [] f.kind = "ether" ->
         Check(UpdateFilter([x EXCEPT !.channelFaces[f.kind][f.remote] = 0]), ~FilterThrows(x), "threw")
    [] OTHER            -> [x EXCEPT !.channelFaces[f.kind][f.remote] = 0]

ConnectFaceStateChangeSignal(x, id) == [x EXCEPT !.followed = @ \ {id}]

FaceClosed(x, o) ==
  LET f == x.faces[o]
      y == ConnectFaceClosedSignal([x EXCEPT !.faces[o].st = "CLOSED"], f)
  IN  IF f.id = 0 THEN y ELSE ConnectFaceStateChangeSignal(RemoveFace(y, f.id), f.id)

------------------------------------------------------------------------------
(* FaceManager::createFace and the factories' doCreateFace.                  *)

\* afterCreateFaceSuccess.
AfterCreateFaceSuccess(x, o, req) ==
  IF x.faces[o].id # 0 THEN Reply(x, req, 409)
  ELSE LET y == Check(x, x.faces[o].scope = "local" \/ ~req.fields, "local fields on a non-local face")
       IN  Reply(AddFace(y, o), req, 200)

\* A face of the channel answers the command.
Created(x, kind, req) == AfterCreateFaceSuccess(x, x.channelFaces[kind][req.remote], req)

TcpConnect(x, req) ==
  IF x.channelFaces["tcp"][req.remote] # 0 THEN Created(x, "tcp", req)
  ELSE [x EXCEPT !.connects = @ \cup {[req |-> req, timer |-> TRUE, done |-> "no", open |-> TRUE]}]

\* The face is made at once, or creating its socket fails: 504, or 500 from the
\* FaceManager when the Ethernet transport throws what its channel does not catch.
UdpConnect(x, req, works) ==
  IF works \/ x.channelFaces["udp"][req.remote] # 0
  THEN Created(UdpCreateFace(x, req.remote, req.pers), "udp", req)
  ELSE Reply(x, req, 504)

EthernetConnect(x, req, works) ==
  LET y == EthernetCreateFace(x, req.remote, req.pers)
  IN  CASE x.channelFaces["ether"][req.remote] # 0 -> Created(x, "ether", req)
        [] ~works                                  -> Reply(x, req, 500)
        [] FilterThrows(x)                         -> Reply(y, req, 500)
        [] OTHER                                   -> Created(y, "ether", req)

\* doCreateFace of the factories: 406 for what the protocol does not support, 504
\* when none of its channels is `served`: of the endpoint's address family, or on the
\* device that LocalUri names.
TcpDoCreateFace(x, req) ==
  CASE \/ req.local # "none"
       \/ req.pers = "on-demand"
       \/ req.fields /\ req.remote \notin Loopback
       \/ req.mtu # "none"    -> Reply(x, req, 406)
    [] req.served              -> TcpConnect(x, req)
    [] OTHER                   -> Reply(x, req, 504)

UdpDoCreateFace(x, req, works) ==
  CASE \/ req.local # "none"
       \/ req.pers = "on-demand"
       \/ req.remote \in Multicast
       \/ req.fields
       \/ req.mtu = "small"    -> Reply(x, req, 406)
    [] req.served              -> UdpConnect(x, req, works)
    [] OTHER                   -> Reply(x, req, 504)

EthernetDoCreateFace(x, req, works) ==
  CASE \/ req.local # "dev"
       \/ req.pers = "on-demand"
       \/ req.remote \in Multicast
       \/ req.fields
       \/ req.mtu = "small"    -> Reply(x, req, 406)
    [] req.served              -> EthernetConnect(x, req, works)
    [] OTHER                   -> Reply(x, req, 504)

\* FaceManager::createFace, and the FaceSystem's choice of a factory.
CreateFace(x, req, works) ==
  LET y == [x EXCEPT !.asked = @ \cup {req}]
  IN  CASE req.uri # "canonical"                               -> Reply(y, req, 400)
        [] req.scheme \notin x.kinds \cap {"tcp", "udp", "ether"} -> Reply(y, req, 406)
        [] req.scheme = "tcp"                                  -> TcpDoCreateFace(y, req)
        [] req.scheme = "udp"                                  -> UdpDoCreateFace(y, req, works)
        [] req.scheme = "ether"                                -> EthernetDoCreateFace(y, req, works)

\* Mutation: the socket stays open when the connection times out.
HandleConnectTimeoutOpen(x, k) ==
  Reply([x EXCEPT !.connects = (@ \ {k}) \cup {[k EXCEPT !.timer = FALSE]}], k.req, 504)

\* Closing the socket aborts a connection that is not made; one that is made has
\* its handler ready.
HandleConnectTimeout(x, k) ==
  LET rest == x.connects \ {k}
  IN  Reply([x EXCEPT !.connects =
               IF k.done = "no" THEN rest
               ELSE rest \cup {[k EXCEPT !.timer = FALSE, !.open = FALSE]}],
            k.req, 504)

\* handleConnect; remote_endpoint() of a closed socket fails.
HandleConnect(x, k) ==
  LET y == [x EXCEPT !.connects = @ \ {k}]
  IN  CASE k.done = "error" -> Reply(y, k.req, 504)
        [] ~k.open          -> Reply(y, k.req, 500)
        [] OTHER            ->
             Created(TcpCreateFace(y, k.req.remote, k.req.pers, k.req.fields), "tcp", k.req)

------------------------------------------------------------------------------
(* Listening.                                                                *)

\* listen() of the channels.  An Ethernet channel notes that it listens before it
\* activates the capture, which may throw.  What the other sockets throw ends the
\* configuration and the program: see ListenThrows in FaceSystem.
Waiting(x, kind) == [x EXCEPT !.listening[kind] = TRUE, !.waiting[kind] = TRUE]

TcpListen(x) == Waiting(x, "tcp")
UdpListen(x) == Waiting(x, "udp")
WebSocketListen(x) == Waiting(x, "websocket")

EthernetListen(x, works) ==
  IF works THEN UpdateFilter([Waiting(x, "ether") EXCEPT !.active = TRUE])
  ELSE [x EXCEPT !.listening["ether"] = TRUE]

\* A socket that nobody answers on is removed; one that is answered, or a file that
\* is no socket, is left alone and listening fails.
UnixStreamListen(x, path) ==
  IF path \in {"answered", "other file"} THEN x ELSE Waiting(x, "unix")

\* What the handlers of accept and receive do with a peer.  The channel waits again,
\* unless a UDP face could not be made: then the handler returns before it does.
TcpAccept(x, r) ==
  LET y == TcpCreateFace(x, r, "on-demand", FALSE)
  IN  AddFace(y, y.channelFaces["tcp"][r])

HandleNewPeer(x, r, works) ==
  LET y == UdpCreateFace(x, r, "on-demand")
  IN  CASE x.channelFaces["udp"][r] # 0 -> x
        [] works                        -> AddFace(y, y.channelFaces["udp"][r])
        [] OTHER                        -> [x EXCEPT !.waiting["udp"] = FALSE]

ChannelProcessIncomingPacket(x, r, works) ==
  LET y == EthernetCreateFace(x, r, "on-demand")
  IN  IF x.channelFaces["ether"][r] # 0 \/ ~works THEN x
      ELSE AddFace(y, y.channelFaces["ether"][r])

\* A WebSocket connection has a handle of its own, so it never finds a face.
HandleOpen(x, r) ==
  LET y == KeepFace(x, MakeFace("websocket", r, "on-demand", FALSE, WebSocketScope(r)))
  IN  AddFace(Check(y, x.channelFaces["websocket"][r] = 0, "handle has a face"), Len(y.faces))

UnixStreamAccept(x, r) ==
  LET y == NewFace(x, MakeFace("unix", r, "on-demand", FALSE, "local"))
  IN  AddFace([y EXCEPT !.size = @ + 1], Len(y.faces))

\* An error ends the waiting of a channel for good.
ReceiveFails(x, kind) == [x EXCEPT !.waiting[kind] = FALSE]

------------------------------------------------------------------------------
(* FaceManager::updateFace and destroyFace.                                  *)

MayChangePersistency(f, pers) == f.kind \in {"tcp", "udp", "ether"} \/ f.pers = pers

UpdateIsValid(f, u) ==
  /\ u.fields = "enable" => f.scope = "local"
  /\ u.pers # "none" => MayChangePersistency(f, u.pers)
  /\ u.mtu # "none" => f.kind \in {"udp", "ether"} /\ u.mtu # "small"

UpdateFace(x, id, u) ==
  LET o == FaceOfId(x, id)
  IN  IF ~UpdateIsValid(x.faces[o], u) THEN x
      ELSE [x EXCEPT !.faces[o].pers = IF u.pers = "none" THEN @ ELSE u.pers,
                     !.faces[o].fields = IF u.fields = "none" THEN @ ELSE u.fields = "enable"]

------------------------------------------------------------------------------
(* Actions.                                                                  *)

ChannelsInit == (\E kinds \in ChannelSets : c = NewChannels(kinds)) /\ channelFaults = 0

ChannelFault == channelFaults < MaxChannelFaults /\ channelFaults' = channelFaults + 1

CanMakeFace == Len(c.faces) < MaxFaces

CreateFaceCommand ==
  \E req \in CreateRequests \ c.asked :
    /\ CanMakeFace /\ Cardinality(c.asked) < MaxCreates
    /\ \/ c' = CreateFace(c, req, TRUE) /\ UNCHANGED channelFaults
       \/ req.scheme \in {"udp", "ether"} /\ c' = CreateFace(c, req, FALSE) /\ ChannelFault

UpdateFaceCommand ==
  /\ ChannelFault
  /\ \E id \in TableIds(c), u \in UpdateRequests : c' = UpdateFace(c, id, u)

\* A face is CLOSING until the deferred part of doClose; a WebSocket transport is
\* CLOSED at once.
CloseFace(x, o) ==
  IF x.faces[o].kind = "websocket" THEN FaceClosed(x, o) ELSE [x EXCEPT !.faces[o].st = "CLOSING"]

DestroyFaceCommand ==
  /\ ChannelFault
  /\ \E id \in TableIds(c) :
       c.faces[FaceOfId(c, id)].st = "UP" /\ c' = CloseFace(c, FaceOfId(c, id))

\* The peer closes a WebSocket connection, or a transport fails.
PeerCloses ==
  /\ ChannelFault
  /\ \E o \in DOMAIN c.faces : c.faces[o].st = "UP" /\ c' = CloseFace(c, o)

DeferredCloseFace ==
  /\ \E o \in DOMAIN c.faces : c.faces[o].st = "CLOSING" /\ c' = FaceClosed(c, o)
  /\ UNCHANGED channelFaults

\* The network completes a TCP connection.
ConnectCompletes ==
  \E k \in c.connects :
    /\ k.done = "no"
    /\ \/ c' = [c EXCEPT !.connects = (@ \ {k}) \cup {[k EXCEPT !.done = "ok"]}] /\ UNCHANGED channelFaults
       \/ c' = [c EXCEPT !.connects = (@ \ {k}) \cup {[k EXCEPT !.done = "error"]}] /\ ChannelFault

RunHandleConnect ==
  /\ \E k \in c.connects : k.done # "no" /\ CanMakeFace /\ c' = HandleConnect(c, k)
  /\ UNCHANGED channelFaults

ConnectTimesOut ==
  ChannelFault /\ \E k \in c.connects : k.timer /\ c' = HandleConnectTimeout(c, k)

Listen ==
  /\ \/ "tcp" \in c.kinds /\ ~c.listening["tcp"] /\ c' = TcpListen(c)
     \/ "udp" \in c.kinds /\ ~c.listening["udp"] /\ c' = UdpListen(c)
     \/ "websocket" \in c.kinds /\ ~c.listening["websocket"] /\ c' = WebSocketListen(c)
     \/ "ether" \in c.kinds /\ ~c.listening["ether"] /\ \E works \in BOOLEAN : c' = EthernetListen(c, works)
     \/ /\ "unix" \in c.kinds /\ ~c.listening["unix"]
        /\ \E path \in {"absent", "stale", "answered", "other file"} : c' = UnixStreamListen(c, path)
  /\ UNCHANGED channelFaults

IncomingPeer ==
  /\ CanMakeFace
  /\ \E r \in Remotes \ Multicast :
       \/ "tcp" \in c.kinds /\ c.waiting["tcp"] /\ c' = TcpAccept(c, r)
       \/ "udp" \in c.kinds /\ c.waiting["udp"] /\ c' = HandleNewPeer(c, r, TRUE)
       \/ "ether" \in c.kinds /\ c.waiting["ether"] /\ c' = ChannelProcessIncomingPacket(c, r, TRUE)
       \/ "unix" \in c.kinds /\ c.waiting["unix"] /\ c' = UnixStreamAccept(c, r)
       \/ "websocket" \in c.kinds /\ c.waiting["websocket"] /\ c.channelFaces["websocket"][r] = 0
          /\ c' = HandleOpen(c, r)
  /\ UNCHANGED channelFaults

PeerFaceFails ==
  /\ ChannelFault
  /\ \E r \in Remotes \ Multicast :
       \/ "udp" \in c.kinds /\ c.waiting["udp"] /\ c' = HandleNewPeer(c, r, FALSE)
       \/ "ether" \in c.kinds /\ c.waiting["ether"] /\ c' = ChannelProcessIncomingPacket(c, r, FALSE)

IncomingFails ==
  /\ ChannelFault
  /\ \E kind \in c.kinds \ {"websocket"} : c.waiting[kind] /\ c' = ReceiveFails(c, kind)

ChannelsNext ==
  /\ c.status = "ok"
  /\ \/ CreateFaceCommand \/ UpdateFaceCommand \/ DestroyFaceCommand \/ PeerCloses \/ DeferredCloseFace
     \/ ConnectCompletes \/ RunHandleConnect \/ ConnectTimesOut
     \/ Listen \/ IncomingPeer \/ PeerFaceFails \/ IncomingFails

ChannelsSpec == ChannelsInit /\ [][ChannelsNext]_channelVars

------------------------------------------------------------------------------
(* Properties.                                                               *)

Tabled(x) == {o \in DOMAIN x.faces : x.faces[o].kind = "ether" => ~FilterThrows(x)}

\* A channel's map is exactly its faces that are not CLOSED, one for a remote
\* endpoint, and each is in the FaceTable under its own id: what makes it right to
\* answer 409 with the face the map holds, and to erase by endpoint on closing.  The
\* Ethernet channel that listens leaves to their faces exactly the peers in its map.
\* Each face is announced once when it enters the table and once when it leaves.
\* An Ethernet channel whose capture could not be activated is excepted: it keeps a
\* face that setting the filter stopped it from handing over.
ChannelMapIsItsFaces ==
  \A o \in Tabled(c) :
    LET f == c.faces[o]
    IN  /\ f.st # "CLOSED" => f.id \in TableIds(c) /\ FaceOfId(c, f.id) = o
        /\ f.st = "CLOSED" => f.id = 0
        /\ c.events[o] = IF f.st = "CLOSED" THEN <<"CREATED", "DESTROYED">> ELSE <<"CREATED">>
        /\ f.kind \in Mapped =>
             ((f.st # "CLOSED") <=> (c.channelFaces[f.kind][f.remote] = o))
        /\ (f.kind = "ether" /\ c.waiting["ether"]) =>
             ((f.remote \in c.filter) <=> (c.channelFaces["ether"][f.remote] # 0))

\* A create command that has been answered with a failure is not answered with a
\* face later, though a connection made as it timed out may answer it twice.
NoFaceAfterFailure ==
  \A req \in CreateRequests :
    Len(c.answers[req]) > 1 => \A i \in DOMAIN c.answers[req] : c.answers[req][i] >= 500

==============================================================================

------------------------------ MODULE MCFaces ------------------------------
(***************************************************************************)
(* The parts of daemon/face, one of which runs in each behaviour: a        *)
(* transport, the channels with the FaceTable, the face system's           *)
(* configuration, and the link services of the two ends of a face.  What   *)
(* does not run has one of its initial states.                             *)
(***************************************************************************)
EXTENDS Transport, Channels, FaceSystem, LinkService

CONSTANTS A, B      \* the ends of the link

-----------------------------------------------------------------------------
(* Channels: a create command that meets a face under way, one that is     *)
(* refused for its fields, and one per kind of channel.                    *)

Req(scheme, remote, pers, local, fields, mtu) ==
    [uri |-> "canonical", scheme |-> scheme, remote |-> remote, pers |-> pers,
     local |-> local, fields |-> fields, mtu |-> mtu, served |-> TRUE]

MCCreateRequests ==
    {Req("tcp", "lo", "persistent", "none", TRUE, "none"),
     Req("tcp", "lo", "permanent", "none", FALSE, "none"),
     Req("tcp", "r1", "persistent", "none", TRUE, "none"),
     Req("udp", "r1", "permanent", "none", FALSE, "fine"),
     Req("udp", "lo", "persistent", "none", TRUE, "none"),
     Req("ether", "r1", "persistent", "dev", FALSE, "none"),
     [Req("ether", "r1", "persistent", "dev", FALSE, "none") EXCEPT !.served = FALSE]}

MCUpdateRequests ==
    {[pers |-> "permanent", fields |-> "enable", mtu |-> "none"],
     [pers |-> "none", fields |-> "none", mtu |-> "small"]}

-----------------------------------------------------------------------------
(* Face system: multicast moved, switched off and filtered, sections that  *)
(* come, go and fail.                                                      *)

Netif(addrs, loop) == [up |-> TRUE, loopback |-> loop, multicast |-> TRUE,
                       ethernet |-> ~loop, address |-> TRUE, addrs |-> addrs]

MCStartNetifs == [n \in {"eth0", "lo"} |-> Netif({"4"}, n = "lo")]

Channel(families, port) == [on |-> TRUE, ok |-> TRUE, families |-> families, port |-> port,
                            listen |-> TRUE]

Mcast(group, port, black) == [on |-> TRUE, group |-> group, port |-> port,
                              white |-> {NetifNames}, black |-> black]

Base ==
    [generalOk |-> TRUE, mark |-> TRUE, netdev |-> "none", unknown |-> FALSE,
     tcp |-> Channel({"4", "6"}, "6363") @@ [local |-> "loopback"],
     udp |-> Channel({"4"}, "6363") @@ [mtu |-> 1, mcast |-> Mcast("g1", "7011", {})],
     ether |-> [on |-> TRUE, ok |-> TRUE, listen |-> TRUE, mcast |-> Mcast("e1", "none", {{"eth1"}})],
     unix |-> [on |-> TRUE, ok |-> TRUE, path |-> "p"],
     websocket |-> [Channel({}, "none") EXCEPT !.on = FALSE]]

MCFaceConfigs ==
    {Base,
     [Base EXCEPT !.ether.on = FALSE, !.udp.mcast.on = FALSE],
     [Base EXCEPT !.mark = FALSE, !.udp.mcast.group = "g2", !.udp.mcast.port = "7012",
                  !.ether.mcast.group = "e2"],
     [Base EXCEPT !.udp.ok = FALSE, !.ether.on = FALSE],
     [Base EXCEPT !.netdev = "rules", !.udp.families = {"4", "6"}, !.tcp.local = "none"],
     [Base EXCEPT !.websocket = Channel({"4"}, "9696"), !.tcp.on = FALSE]}

-----------------------------------------------------------------------------
(* Link services: with and without retransmission, with duplicates, with   *)
(* changes of options, MTU and send queue, and with congestion marks.      *)

Plain == [reliable |-> FALSE, marks |-> FALSE, fragments |-> TRUE, reassembles |-> TRUE,
          localFields |-> FALSE, selfLearning |-> FALSE]
Reliable == [Plain EXCEPT !.reliable = TRUE]
Marking == [Plain EXCEPT !.marks = TRUE, !.selfLearning = TRUE]

Long == [type |-> "Interest", size |-> 6, tags |-> {"PitToken"}]
Short == [type |-> "Data", size |-> 2, tags |-> {}]

Wide == [n \in {A, B} |-> IF n = A THEN <<7, 5>> ELSE <<7>>]
Narrow == [n \in {A, B} |-> IF n = A THEN <<7>> ELSE <<3>>]

MCScenarios ==
    {Setting(Reliable, 0, {Long, Short}, Wide, {}, 2, 0, 0, 0),
     Setting(Reliable, 1, {Short}, Wide, {}, 2, 0, 0, 0),
     Setting(Reliable, 1, {Long}, Wide, {}, 1, 0, 0, 1),
     Setting(Reliable, 0, {Long}, Wide, {}, 1, 1, 0, 1),
     Setting(Reliable, 0, {Short}, Wide, {}, 2, 1, 0, 1),
     Setting(Reliable, 1, {Short}, Wide, {"reliable", "mtu", "override"}, 1, 1, 2, 0),
     Setting(Marking, 0, {Long, Short}, Wide, {"mtu", "queue"}, 2, 1, 2, 0),
     Setting([Reliable EXCEPT !.marks = TRUE], 0, {Short}, Narrow, {"queue"}, 2, 0, 2, 0)}

-----------------------------------------------------------------------------

VARIABLE part

MCInit == /\ part \in {"transport", "channels", "system", "link"}
          /\ TransportInit /\ ChannelsInit /\ FaceSystemInit /\ LinkInit
          /\ part # "transport" => t = WebSocketTransport
          /\ part # "channels" => c = NewChannels({"tcp"})
          /\ part # "link" => scn = Setting(Reliable, 1, {Short}, Wide, {}, 2, 0, 0, 0)

MCNext ==
    \/ part = "transport" /\ TransportNext /\ UNCHANGED <<part, channelVars, fsVars, linkVars>>
    \/ part = "channels" /\ ChannelsNext /\ UNCHANGED <<part, transportVars, fsVars, linkVars>>
    \/ part = "system" /\ FaceSystemNext /\ UNCHANGED <<part, transportVars, channelVars, linkVars>>
    \/ part = "link" /\ LinkNext /\ UNCHANGED <<part, transportVars, channelVars, fsVars>>

MCSpec == /\ MCInit /\ [][MCNext]_<<part, transportVars, channelVars, fsVars, linkVars>>
          /\ WF_transportVars(part = "transport" /\ RunHandler)
=============================================================================

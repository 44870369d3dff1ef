----------------------------- MODULE FaceSystem ------------------------------
(***************************************************************************)
(* FaceSystem::processConfig with the protocol factories: the face_system     *)
(* section of the configuration, processed as a dry run or for real, when the *)
(* daemon starts, on SIGHUP and after network changes; and the multicast faces *)
(* the UDP and Ethernet factories keep on the network interfaces.             *)
(*                                                                           *)
(* A configuration is a record with one field for a section; an option that   *)
(* does not parse makes its section not `ok`.  A whitelist or blacklist is the *)
(* set of its rules, a rule the set of interfaces it matches.                 *)
(***************************************************************************)
EXTENDS Integers, Sequences, FiniteSets, FiniteSetsExt, TLC, SequencesExt

CONSTANTS
  NetifNames,     \* names of network interfaces
  StartNetifs,    \* the interfaces at the start: a function, see Eligible
  FaceConfigs,    \* configurations the file may hold
  Contended,      \* ports and paths that other programs may take
  MaxConfigs,     \* bound: configurations processed
  MaxNetChanges   \* bound: changes of the network

VARIABLES
  fs,         \* FaceSystem, factories and network
  fsCount     \* what the bounds bound

fsVars == <<fs, fsCount>>

FactoryOrder == <<"ether", "tcp", "udp", "unix", "websocket">>
Factories == {FactoryOrder[i] : i \in DOMAIN FactoryOrder}

NoMcast == [on |-> FALSE, group |-> "none", port |-> "none", white |-> {}, black |-> {}]

NewFaceSystem ==
  [provided |-> [f \in Factories |-> {}],     \* providedSchemes
   byScheme |-> {},                           \* m_factoryByScheme, as pairs
   channels |-> {}, listening |-> {},
   mark |-> [f \in {"tcp", "udp", "unix"} |-> TRUE],
   mcast |-> [f \in {"udp", "ether"} |-> NoMcast],
   unicast |-> [on |-> FALSE, listen |-> FALSE],
   local |-> "none", unicastMtu |-> 0,        \* m_local of TCP, m_defaultUnicastMtu of UDP
   faces |-> <<>>,                            \* m_mcastFaces of both factories, by key
   watched |-> {},                            \* interfaces whose onAddressAdded is connected
   netifs |-> StartNetifs,
   unusable |-> {},                           \* interfaces whose sockets fail, ports taken by others
   thrown |-> FALSE,
   fresh |-> FALSE]                           \* nothing changed since a configuration was processed

Throw(x) == [x EXCEPT !.thrown = TRUE]

Endpoints(f, s) == {<<f, family, s.port>> : family \in s.families}

\* bind() in listen() of a TCP, UDP or WebSocket channel throws when its port is
\* taken, and that of a Unix channel when its path is.
ListenThrows(x, endpoints) == \E e \in endpoints \ x.listening : e[3] \in x.unusable

\* createChannel, and listen() of those not yet listening.
AddChannels(x, endpoints, wantListen) ==
  LET y == [x EXCEPT !.channels = @ \cup endpoints]
  IN  CASE ~wantListen                -> y
        [] ListenThrows(x, endpoints) -> Throw(y)
        [] OTHER                      -> [y EXCEPT !.listening = @ \cup endpoints]

\* createChannel of UDP refuses an endpoint that a multicast face has.  A channel is on
\* the unspecified address and a face on one of an interface, so neither ever finds
\* the other's endpoint taken.
AddUdpChannels(x, endpoints, wantListen) ==
  IF endpoints \cap DOMAIN x.faces # {} THEN Throw(x) ELSE AddChannels(x, endpoints, wantListen)

------------------------------------------------------------------------------
(* Multicast faces.                                                          *)

\* NetworkInterfacePredicate::operator().
Accepts(m, n) ==
  /\ \E rule \in m.white : n \in rule
  /\ \A rule \in m.black : n \notin rule

\* Multicast faces are kept by key: UDP ones by their local endpoint, Ethernet ones
\* by the interface and the group.
FacesOf(x, f) == {k \in DOMAIN x.faces : k[1] = f}

AddMcastFaces(x, keys, group, mark) ==
  [x EXCEPT !.faces = [k \in keys |-> [group |-> group, st |-> "UP", mark |-> mark]] @@ @]

\* UDP: the conditions of applyMcastConfigToNetif before addresses are looked at,
\* and the endpoints that pickAddress finds.
UdpEligible(x, n) ==
  /\ x.mcast.udp.on /\ n \in DOMAIN x.netifs
  /\ x.netifs[n].up /\ ~x.netifs[n].loopback /\ x.netifs[n].multicast
  /\ Accepts(x.mcast.udp, n)

UdpWanted(x, n) ==
  IF UdpEligible(x, n)
  THEN {<<"udp", n, family, x.mcast.udp.port>> : family \in x.netifs[n].addrs} ELSE {}

\* Those that createMulticastFace finds or makes: an endpoint that is taken by a face
\* of another group or by a channel, or a socket that fails, is an error that is only
\* logged.
UdpCreateMulticastFaces(x, n) ==
  {k \in UdpWanted(x, n) : IF k \in DOMAIN x.faces THEN x.faces[k].group = x.mcast.udp.group
                           ELSE k \notin x.channels /\ n \notin x.unusable}

\* An interface that has no address yet is watched for one.
UdpApplyMcastConfigToNetif(x, n) ==
  LET y == IF UdpEligible(x, n) /\ x.netifs[n].addrs = {} THEN [x EXCEPT !.watched = @ \cup {n}] ELSE x
  IN  AddMcastFaces(y, UdpCreateMulticastFaces(x, n) \ DOMAIN x.faces, x.mcast.udp.group, x.mark.udp)

CloseFaces(x, keys) ==
  [x EXCEPT !.faces = [k \in DOMAIN @ |-> IF k \in keys THEN [@[k] EXCEPT !.st = "CLOSING"] ELSE @[k]]]

\* Mutation: faces that the new configuration does not want are left open.
UdpApplyMcastConfigKeepsOld(x) ==
  FoldLeft(UdpApplyMcastConfigToNetif, x, SetToSeq(DOMAIN x.netifs))

\* Faces for every interface, then the old ones that nobody kept are closed.
UdpApplyMcastConfig(x) ==
  LET kept == UNION {UdpCreateMulticastFaces(x, n) : n \in DOMAIN x.netifs}
      y    == FoldLeft(UdpApplyMcastConfigToNetif, x, SetToSeq(DOMAIN x.netifs))
  IN  CloseFaces(y, FacesOf(x, "udp") \ kept)

\* Ethernet.
EthernetEligible(x, n) ==
  /\ x.mcast.ether.on /\ n \in DOMAIN x.netifs
  /\ x.netifs[n].up /\ x.netifs[n].ethernet /\ x.netifs[n].address /\ x.netifs[n].multicast
  /\ Accepts(x.mcast.ether, n)

\* The face that is there, or a new one unless its transport's constructor throws.
EthernetCreateMulticastFace(x, n) ==
  {k \in {<<"ether", n, x.mcast.ether.group, "none">>} :
     EthernetEligible(x, n) /\ (k \in DOMAIN x.faces \/ n \notin x.unusable)}

EthernetApplyMcastConfigToNetif(x, n) ==
  AddMcastFaces(x, EthernetCreateMulticastFace(x, n) \ DOMAIN x.faces, x.mcast.ether.group, FALSE)

ApplyUnicastConfigToNetif(x, n) ==
  IF x.unicast.on /\ x.netifs[n].up /\ x.netifs[n].ethernet /\ x.netifs[n].address
  THEN AddChannels(x, {<<"ether", n, "none">>}, x.unicast.listen) ELSE x

\* applyConfig of the Ethernet factory: channels and faces, then the old faces.
EthernetApplyConfig(x) ==
  LET kept == UNION {EthernetCreateMulticastFace(x, n) : n \in DOMAIN x.netifs}
      one(y, n) == EthernetApplyMcastConfigToNetif(ApplyUnicastConfigToNetif(y, n), n)
  IN  CloseFaces(FoldLeft(one, x, SetToSeq(DOMAIN x.netifs)), FacesOf(x, "ether") \ kept)

------------------------------------------------------------------------------
(* doProcessConfig of the factories.                                         *)

ProcessTcp(x, cfg, dry) ==
  LET y == [x EXCEPT !.mark.tcp = cfg.mark]
      s == cfg.tcp
  IN  IF ~s.on THEN y
      ELSE IF ~s.ok \/ s.families = {} THEN Throw(y)
      ELSE IF dry THEN y
      ELSE AddChannels([y EXCEPT !.provided.tcp = @ \cup {"tcp"} \cup {"tcp" \o family : family \in s.families},
                                 !.local = s.local],
                       Endpoints("tcp", s), s.listen)

ProcessUdp(x, cfg, dry) ==
  LET y == [x EXCEPT !.mark.udp = cfg.mark]
      s == cfg.udp
      m == IF s.on THEN s.mcast ELSE NoMcast
      channels == IF s.on THEN Endpoints("udp", s) ELSE {}
      schemes  == IF channels = {} THEN {} ELSE {"udp"} \cup {"udp" \o family : family \in s.families}
  IN  IF s.on /\ (~s.ok \/ (s.families = {} /\ ~m.on)) THEN Throw(y)
      ELSE IF dry THEN y
      ELSE LET z == AddUdpChannels([y EXCEPT !.provided.udp = @ \cup schemes,
                                             !.unicastMtu = IF s.on THEN s.mtu ELSE 0],
                                   channels, s.listen)
           IN  IF z.thrown THEN z ELSE UdpApplyMcastConfig([z EXCEPT !.mcast.udp = m])

ProcessEther(x, cfg, dry) ==
  LET s == cfg.ether
      y == [x EXCEPT !.unicast = [on |-> s.on, listen |-> s.on /\ s.listen],
                     !.mcast.ether = IF s.on THEN s.mcast ELSE NoMcast,
                     !.provided.ether = IF s.on THEN {"ether"} ELSE {}]
  IN  IF s.on /\ ~s.ok THEN Throw(x)
      ELSE IF dry THEN x
      ELSE EthernetApplyConfig(y)

ProcessUnix(x, cfg, dry) ==
  LET y == [x EXCEPT !.mark.unix = cfg.mark]
  IN  IF ~cfg.unix.on THEN y
      ELSE IF ~cfg.unix.ok THEN Throw(y)
      ELSE IF dry THEN y
      ELSE AddChannels(y, {<<"unix", "file", cfg.unix.path>>}, TRUE)

ProcessWebSocket(x, cfg, dry) ==
  LET s == cfg.websocket
  IN  IF s.on /\ (~s.ok \/ s.families = {}) THEN Throw(x)
      ELSE IF dry \/ ~s.on \/ ~s.listen THEN x
      ELSE AddChannels(x, Endpoints("websocket", s), TRUE)

DoProcessConfig(x, f, cfg, dry) ==
  CASE f = "ether"     -> ProcessEther(x, cfg, dry)
    [] f = "tcp"       -> ProcessTcp(x, cfg, dry)
    [] f = "udp"       -> ProcessUdp(x, cfg, dry)
    [] f = "unix"      -> ProcessUnix(x, cfg, dry)
    [] f = "websocket" -> ProcessWebSocket(x, cfg, dry)

\* The table of schemes after factory f, which provided the schemes old before.
UpdateSchemes(x, f, old) ==
  LET touched == x.provided[f] \cup old
  IN  [x EXCEPT !.byScheme = {p \in @ : p[1] \notin touched} \cup {<<s, f>> : s \in x.provided[f]}]

\* A factory's part of processConfig; in a dry run it provides what it did.
ProcessFactory(x, f, cfg, dry) ==
  LET after(y) == IF dry \/ y.thrown THEN y ELSE UpdateSchemes(y, f, x.provided[f])
  IN  IF x.thrown THEN x ELSE after(DoProcessConfig(x, f, cfg, dry))

\* NetdevBound::processConfig: rules are parsed in a dry run, and only for real is it
\* found that no factory provides the scheme they need.
ProcessNetdevBound(x, cfg, dry) ==
  CASE x.thrown              -> x
    [] cfg.netdev = "bad"    -> Throw(x)
    [] dry                   -> x
    [] cfg.netdev = "rules"  -> Throw(x)
    [] OTHER                 -> x

ProcessFaceConfig(x, cfg, dry) ==
  IF ~cfg.generalOk THEN Throw(x)
  ELSE LET y == FoldLeft(LAMBDA z, f : ProcessFactory(z, f, cfg, dry), x, FactoryOrder)
           end(w) == IF cfg.unknown THEN Throw(w) ELSE w
       IN  end(ProcessNetdevBound(y, cfg, dry))

------------------------------------------------------------------------------
(* Actions.                                                                  *)

FaceSystemInit == fs = NewFaceSystem /\ fsCount = [configs |-> 0, changes |-> 0]

Configuring == fsCount.configs < MaxConfigs /\ fsCount' = [fsCount EXCEPT !.configs = @ + 1]
Changing == fsCount.changes < MaxNetChanges /\ fsCount' = [fsCount EXCEPT !.changes = @ + 1]

\* A dry run and, if it throws nothing, the real run: how the daemon starts.
Start ==
  /\ ~fs.thrown /\ fs.byScheme = {} /\ Configuring
  /\ \E cfg \in FaceConfigs : \E y \in {ProcessFaceConfig(fs, cfg, TRUE)} :
       fs' = IF y.thrown THEN y
             ELSE [ProcessFaceConfig(y, cfg, FALSE) EXCEPT !.fresh = TRUE]

\* reloadConfigFile on SIGHUP, and reloadConfigFileFaceSection some time after a
\* network change: no dry run.
Reload ==
  /\ ~fs.thrown /\ fs.byScheme # {} /\ Configuring
  /\ \E cfg \in FaceConfigs :
       fs' = [ProcessFaceConfig(fs, cfg, FALSE) EXCEPT !.fresh = TRUE]

\* onInterfaceAdded: the Ethernet and the UDP factory are connected to it.
InterfaceAdded ==
  /\ ~fs.thrown /\ Changing
  /\ \E n \in NetifNames \ DOMAIN fs.netifs, up, address \in BOOLEAN, addrs \in SUBSET {"4", "6"} :
       LET netif == [up |-> up, loopback |-> FALSE, multicast |-> TRUE, ethernet |-> TRUE,
                     address |-> address, addrs |-> addrs]
           x == [fs EXCEPT !.netifs = (n :> netif) @@ @]
           y == EthernetApplyMcastConfigToNetif(ApplyUnicastConfigToNetif(x, n), n)
       IN  fs' = [UdpApplyMcastConfigToNetif(y, n) EXCEPT !.fresh = FALSE]

InterfaceRemoved ==
  /\ ~fs.thrown /\ Changing
  /\ \E n \in DOMAIN fs.netifs :
       fs' = [fs EXCEPT !.netifs = [m \in DOMAIN @ \ {n} |-> @[m]], !.fresh = FALSE]

InterfaceChanges ==
  /\ ~fs.thrown /\ Changing
  /\ \E n \in DOMAIN fs.netifs :
       fs' = [fs EXCEPT !.netifs[n].up = ~@, !.fresh = FALSE]

\* Sockets on an interface begin or cease to fail, or a port or path is taken that
\* nothing of this program listens on.
ResourceChanges ==
  /\ ~fs.thrown /\ Changing
  /\ \E r \in NetifNames \cup Contended :
       /\ \A e \in fs.listening : e[3] # r
       /\ fs' = [fs EXCEPT !.unusable = SymDiff(@, {r})]

\* onAddressAdded, watched only on interfaces that had no address.
AddressAdded ==
  /\ ~fs.thrown /\ Changing
  /\ \E n \in DOMAIN fs.netifs : \E family \in {"4", "6"} \ fs.netifs[n].addrs :
       LET x == [fs EXCEPT !.netifs[n].addrs = @ \cup {family}, !.fresh = FALSE]
       IN  fs' = IF n \in fs.watched THEN UdpApplyMcastConfigToNetif(x, n) ELSE x

\* The transport of a multicast face that was closed becomes CLOSED, which takes the
\* face out of m_mcastFaces; a face may also be closed by command.
McastFaceClosed ==
  /\ \E k \in DOMAIN fs.faces :
       /\ fs.faces[k].st = "CLOSING"
       /\ fs' = [fs EXCEPT !.faces = [j \in DOMAIN @ \ {k} |-> @[j]]]
  /\ UNCHANGED fsCount

McastFaceDestroyed ==
  /\ Changing
  /\ \E k \in DOMAIN fs.faces :
       fs.faces[k].st = "UP" /\ fs' = [fs EXCEPT !.faces[k].st = "CLOSING", !.fresh = FALSE]

FaceSystemNext ==
  \/ Start \/ Reload \/ InterfaceAdded \/ InterfaceRemoved \/ InterfaceChanges \/ ResourceChanges
  \/ AddressAdded \/ McastFaceClosed \/ McastFaceDestroyed

FaceSystemSpec == FaceSystemInit /\ [][FaceSystemNext]_fsVars

------------------------------------------------------------------------------
(* Properties.                                                               *)

\* When a configuration has been processed, a multicast face that stays open is one
\* that configuration asks for, of its group, on an interface that is there.
NoStaleMcastFace ==
  (fs.fresh /\ ~fs.thrown) =>
    \A k \in DOMAIN fs.faces :
      fs.faces[k].st = "UP" =>
        k \in UdpCreateMulticastFaces(fs, k[2]) \cup EthernetCreateMulticastFace(fs, k[2])

==============================================================================

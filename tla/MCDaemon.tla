------------------------------ MODULE MCDaemon ------------------------------
(***************************************************************************)
(* The two threads of the daemon with ten configuration files, and the     *)
(* command-line tools that talk to it: nfdc with 30 command lines and      *)
(* batch files, nfd-autoreg and ndn-autoconfig.  One of the programs runs  *)
(* in each behaviour; the others keep one of their initial states.         *)
(***************************************************************************)
EXTENDS Daemon, Nfdc, Autoreg, Autoconf

-----------------------------------------------------------------------------
(* Configuration files.  The second fails while its privileges are raised, *)
(* the fourth has no local transport, the fifth names no such user, the    *)
(* sixth and seventh fail late, the ninth may not listen, the last is not  *)
(* well-formed.                                                            *)

General(u) == [name |-> "general", user |-> u]
LogAt(l) == [name |-> "log", level |-> l]
Fwd(h) == [name |-> "forwarder", hopLimit |-> h]
Tbl(n, p, u, c) == [name |-> "tables", csMax |-> n, policy |-> p, unsolicited |-> u,
                    choices |-> c, regions |-> {"/r"}]
Choice(st) == <<[prefix |-> 0, strategy |-> st]>>
TwoChoices(p, q) == <<[prefix |-> 1, strategy |-> q], [prefix |-> 0, strategy |-> p]>>
Auth(rules) == [name |-> "authorizations", rules |-> rules]
Rule(c, ms) == [cert |-> c, grants |-> ms]
FaceSys(e, u, l, b) == [name |-> "face_system", ether |-> e, udp |-> u, local |-> l, bad |-> b, denied |-> FALSE]
Denied(s) == [s EXCEPT !.denied = TRUE]
RibSec(h, p, b) == [name |-> "rib", localhop |-> h, propagate |-> p, nlsr |-> TRUE, bad |-> b]

F1 == <<LogAt("INFO"), General("ndn"), Fwd(0), Tbl(3, "lru", "", Choice("multicast")),
        Auth(<<Rule("any", {"fib", "cs"})>>), FaceSys("ok", "none", TRUE, FALSE), RibSec(FALSE, TRUE, FALSE)>>
F2 == <<LogAt("DEBUG"), FaceSys("ok", "throws", TRUE, FALSE), General("nfd"),
        Auth(<<Rule("any", {"cs"}), Rule("k1", {"fib", "cs"}), Rule("k2", {"fib"})>>), RibSec(TRUE, FALSE, FALSE)>>
F3 == <<General(""), Fwd(256), Tbl(0, "priority", "admit-all", Choice("badParameters")), FaceSys("none", "none", TRUE, FALSE)>>
F4 == <<Tbl(2, "priority_fifo", "admit-all", TwoChoices("multicast", "badParameters")), FaceSys("throws", "ok", FALSE, FALSE)>>
F5 == <<General("ghost"), Auth(<<Rule("k2", {"fib"})>>), FaceSys("ok", "ok", TRUE, FALSE), RibSec(TRUE, TRUE, FALSE)>>
F6 == <<Auth(<<Rule("k2", {"fib"}), Rule("missing", {"cs"})>>), Tbl(1, "unknown", "", Choice("unknown")), LogAt("bad")>>
F7 == <<Auth(<<Rule("k2", {"fib"})>>), FaceSys("none", "none", TRUE, FALSE), [name |-> "other"]>>
F8 == <<Auth(<<Rule("k2", {"fib"})>>), FaceSys("none", "none", TRUE, FALSE)>>
F9 == <<Tbl(0, "", "", TwoChoices("multicast", "best-route")), Auth(<<Rule("any", {"fib", "cs"})>>),
        Denied(FaceSys("none", "throws", TRUE, FALSE))>>
F10 == <<>>

MCContents == <<F1, F2, F3, F4, F5, F6, F7, F8, F9, F10>>

-----------------------------------------------------------------------------
(* nfdc.                                                                   *)

OneShot(args) == [args |-> args, file |-> NoArg]
BatchFile(lines) == [args |-> <<"-f", "b">>, file |-> lines]

Local(e) == (e :> e)
MCCanon == [host |-> "u1", u1 |-> "u1", u2 |-> "u2", bad |-> Unresolved, ether |-> "ether", dev |-> Unresolved]
           @@ Local("e1") @@ Local("e2")
MCFaceUris == DOMAIN MCCanon
MCSchemeOf == [u \in MCFaceUris |-> IF u \in {"dev", "ether"} THEN u ELSE "udp"]
MCPeers == {<<"u1", "e1">>, <<"u1", "e2">>, <<"ether", "e1">>}
MCNameOf == "/" :> <<>> @@ "/p" :> <<"p">> @@ "/q" :> <<"q">> @@ "/s1" :> <<"s1">> @@ "/s2" :> <<"s2">>
MCNumberOf == "1" :> 1 @@ "10" :> 10 @@ "-1" :> -1
MCKnownStrategies == {<<"s1">>}

FaceLaunches ==
   {BatchFile(<< <<"face", "create", "host", "permanent", "mtu", "10">>, <<"route", "add", "/p", "u1">> >>),
    BatchFile(<< <<"face", "create", "u1", "local", "e2", "reliability", "on", "default-congestion-threshold", "10">>,
                 <<>>, <<"face", "destroy", "host">> >>),
    OneShot(<<"face", "create", "u1", "mtu", "-1">>),
    OneShot(<<"face", "create", "bad">>),
    OneShot(<<"face", "create", "u1", "ondemand">>),
    OneShot(<<"face">>),
    OneShot(<<"face", "list", "dev">>),
    OneShot(<<"face", "list", "bad", "local", "e1">>),
    OneShot(<<"face", "list", "scheme", "local", "local", "e1">>),
    OneShot(<<"face", "list", "local", "e1", "u1">>),
    OneShot(<<"face", "list", "u1", "u2">>),
    OneShot(<<"face", "show", "1">>)}

RouteLaunches ==
   {BatchFile(<< <<"#">>, <<"route", "add", "/p", "host", "no-inherit", "cost", "10">>,
                 <<"route", "remove", "nexthop", "u1", "prefix", "/p">> >>),
    BatchFile(<< <<"route", "add", "/p", "1", "origin", "client", "capture", "expires", "10">>,
                 <<"route", "list", "u1", "origin", "static">> >>),
    BatchFile(<< <<"route", "add", "/p", "1">>, <<"route">>, <<"route", "show", "/q">> >>),
    OneShot(<<"route", "add", "/p", "ether">>),
    BatchFile(<< <<"route", "show", "/p">>, <<"route", "add", "prefix", "/p", "u1">> >>)}

OtherLaunches ==
   {BatchFile(<< <<"strategy", "set", "/p", "/s1">>, <<"strategy", "set", "/p", "strategy", "/s2">> >>),
    BatchFile(<< <<"strategy", "set", "/p", "/s1">>, <<"strategy", "unset", "/p">>, <<"strategy", "unset", "/">> >>),
    BatchFile(<< <<"strategy">>, <<"strategy", "show", "/p">>, <<"cs", "config", "capacity", "1", "serve", "off">> >>),
    OneShot(<<"status", "report", "xml">>),
    BatchFile(<< <<"status">>, <<"fib">> >>),
    OneShot(<<"strategy", "show">>),
    OneShot(<<"status", "report", "json">>),
    OneShot(<<>>),
    OneShot(<<"--version">>),
    OneShot(<<"help">>),
    OneShot(<<"face", "create", "--help">>),
    OneShot(<<"-f">>),
    OneShot(<<"-f", "missing">>)}

MCLaunches == FaceLaunches \cup RouteLaunches \cup OtherLaunches

-----------------------------------------------------------------------------
(* nfd-autoreg and ndn-autoconfig.                                         *)

Kind(ip, multicast, isLocal, ondemand, net) ==
    [ip |-> ip, multicast |-> multicast, local |-> isLocal, ondemand |-> ondemand, net |-> net]

MCFaceKinds ==
    {Kind(TRUE, FALSE, FALSE, TRUE, "white"), Kind(TRUE, FALSE, FALSE, TRUE, "black"),
     Kind(TRUE, FALSE, FALSE, FALSE, "white"), Kind(TRUE, FALSE, FALSE, TRUE, "other"),
     Kind(TRUE, TRUE, FALSE, FALSE, "white"), Kind(TRUE, FALSE, TRUE, TRUE, "white"),
     Kind(FALSE, FALSE, FALSE, TRUE, "white")}

MCHubPrefixes == <<"root", "localhop">>

-----------------------------------------------------------------------------

VARIABLE part

MCInit == /\ part \in {"daemon", "nfdc", "autoreg", "autoconfig"}
          /\ DaemonInit /\ NfdcInit /\ AutoregInit /\ AutoconfInit
          /\ part # "daemon" => file = 1
          /\ part # "nfdc" => launch.args = <<>>
          /\ part # "autoconfig" => isDaemon

MCNext ==
    \/ part = "daemon" /\ DaemonNext /\ UNCHANGED <<part, nfdcVars, autoregVars, autoconfVars>>
    \/ part = "nfdc" /\ NfdcNext /\ UNCHANGED <<part, daemonVars, autoregVars, autoconfVars>>
    \/ part = "autoreg" /\ AutoregNext /\ UNCHANGED <<part, daemonVars, nfdcVars, autoconfVars>>
    \/ part = "autoconfig" /\ AutoconfNext /\ UNCHANGED <<part, daemonVars, nfdcVars, autoregVars>>

MCSpec == /\ MCInit /\ [][MCNext]_<<part, daemonVars, nfdcVars, autoregVars, autoconfVars>>
          /\ WF_daemonVars(part = "daemon" /\ MainSteps)
          /\ WF_daemonVars(part = "daemon" /\ RibSteps)
=============================================================================

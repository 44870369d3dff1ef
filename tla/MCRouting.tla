----------------------------- MODULE MCRouting -----------------------------
(***************************************************************************)
(* The RIB, Readvertise and the strategies; one of them runs in each       *)
(* behaviour, as part says, and the others keep an initial state.          *)
(*                                                                         *)
(* RIB: routes to /a, /a/b and /a/b/c: entries on one face that inherit    *)
(* from each other, a route that is registered again with another cost,    *)
(* one that expires on a face that comes late and may go, and one that     *)
(* captures.  Readvertise: two routes that share an identity and one with  *)
(* an identity of its own.                                                 *)
(***************************************************************************)
EXTENDS Rib, Readvertise, MCStrategies

RA == <<"a">>
RAB == <<"a", "b">>
RABC == <<"a", "b", "c">>

Request(n, f, origin, cost, capture) == [name |-> n, route |-> Route(f, origin, cost, TRUE, capture, 0)]

MCTimed == {Request(RAB, 2, 0, 10, FALSE)}

MCRequests == {Request(RA, 1, 0, 10, FALSE), Request(RA, 1, 0, 15, FALSE), Request(RAB, 1, 0, 20, FALSE),
               Request(RABC, 1, 0, 10, TRUE)} \cup MCTimed

(* Two origins register a route of the same entry and face.                *)
MCSharedFace == {Request(RAB, 2, 1, 5, FALSE)} \cup MCTimed

MCRvRoutes == {[name |-> RA, origin |-> "client"], [name |-> RAB, origin |-> "app"],
               [name |-> <<"c">>, origin |-> "app"]}

MCIdentities == {<<"a", "nrd">>, RAB, <<"c">>}

VARIABLE part

routingVars == <<part, ribVars, rvVars, stratVars>>

RoutingInit ==
    /\ part \in {"rib", "readvertise", "strategy"}
    /\ RibInit /\ RvInit /\ StratInit
    /\ part # "strategy" => s.sc = CHOOSE sc \in StratScenarios : TRUE

RoutingNext ==
    \/ part = "rib" /\ RibNext /\ UNCHANGED <<part, rvVars, stratVars>>
    \/ part = "readvertise" /\ RvNext /\ UNCHANGED <<part, ribVars, stratVars>>
    \/ part = "strategy" /\ StratNext /\ UNCHANGED <<part, ribVars, rvVars>>

RoutingSpec == RoutingInit /\ [][RoutingNext]_routingVars

RibAloneSpec == RoutingSpec /\ part = "rib"
=============================================================================

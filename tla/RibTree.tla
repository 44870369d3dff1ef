------------------------------ MODULE RibTree ------------------------------
(***************************************************************************)
(* The routing table of NFD's RIB thread as a value, and what FibUpdater   *)
(* computes from it: which next hops of the FIB change, and which entries  *)
(* inherit or lose a route, when a route is registered or unregistered.    *)
(*                                                                         *)
(* A name is a sequence of components.  A RIB is a function from the names *)
(* that have an entry; the children of an entry are those whose parent it  *)
(* is.  Route lists are sequences, because ties are decided by their order.*)
(***************************************************************************)
EXTENDS Integers, Sequences, FiniteSets, SequencesExt

None == <<"none">>     \* a null shared_ptr<RibEntry>

(* ChildInherit and Capture are the route flags; ev is the number of the   *)
(* expiration event, 0 without one.                                        *)
Route(face, origin, cost, ci, cap, ev) ==
    [face |-> face, origin |-> origin, cost |-> cost, ci |-> ci, cap |-> cap, ev |-> ev]

SameRoute(r, s) == r.face = s.face /\ r.origin = s.origin

-----------------------------------------------------------------------------
(* RibEntry                                                                *)

(* listed: the face of every time Rib::m_faceEntries lists the entry.       *)
NewEntry(r, parent) ==
    [routes |-> <<r>>, inh |-> <<>>, nCapture |-> IF r.cap THEN 1 ELSE 0, parent |-> parent,
     listed |-> <<r.face>>]

FindRoute(e, r) == {i \in DOMAIN e.routes : SameRoute(e.routes[i], r)}

HasFaceId(e, f) == \E i \in DOMAIN e.routes : e.routes[i].face = f

HasInheritedRoute(e, f) == \E i \in DOMAIN e.inh : e.inh[i].face = f

HasCapture(e) == e.nCapture # 0

HasChildInheritOnFaceId(e, f) ==
    \E i \in DOMAIN e.routes : e.routes[i].face = f /\ e.routes[i].ci

EraseRoute(e, r) ==
    LET captures == {i \in FindRoute(e, r) : e.routes[i].cap}
    IN  [e EXCEPT !.routes = SelectSeq(@, LAMBDA x : ~SameRoute(x, r)),
                  !.nCapture = @ - Cardinality(captures)]

(* The first of the cheapest routes among the given indices, as a set of at *)
(* most one route.                                                          *)
Cheapest(e, I) ==
    {e.routes[i] : i \in {i \in I : \A j \in I \ {i} :
        \/ e.routes[i].cost < e.routes[j].cost
        \/ e.routes[i].cost = e.routes[j].cost /\ i < j}}

LowestCost(e, f) == Cheapest(e, {i \in DOMAIN e.routes : e.routes[i].face = f})

LowestCostChildInherit(e, f) ==
    Cheapest(e, {i \in DOMAIN e.routes : e.routes[i].face = f /\ e.routes[i].ci})

SecondLowestCost(e, f) ==
    LET I == {i \in DOMAIN e.routes : e.routes[i].face = f}
    IN  Cheapest(e, {i \in I : e.routes[i] \notin LowestCost(e, f)})

-----------------------------------------------------------------------------
(* Rib                                                                     *)

FindParent(rib, n) ==
    LET above == {p \in DOMAIN rib : IsStrictPrefix(p, n)}
    IN  IF above = {} THEN None ELSE CHOOSE p \in above : \A q \in above : Len(q) <= Len(p)

ChildrenOf(rib, n) == {c \in DOMAIN rib : rib[c].parent = n}

(* The entries under a name that has none yet and that it will separate    *)
(* from their parent.                                                      *)
FutureChildren(rib, n) ==
    {c \in DOMAIN rib : IsPrefix(n, c) /\ rib[c].parent = FindParent(rib, n)}

Ancestors(rib) ==
    LET anc[n \in DOMAIN rib] ==
            IF rib[n].parent = None THEN {} ELSE {rib[n].parent} \cup anc[rib[n].parent]
    IN  anc

(* Routes that flow down to a child of p: with ChildInherit, from p and    *)
(* its ancestors up to the first one that captures.  Of one face the       *)
(* nearest entry's first route counts.                                     *)
AncestorRoutes(rib, p) ==
    LET line == IF p = None THEN {} ELSE {p} \cup Ancestors(rib)[p]
        seen == {a \in line : \A b \in line : Len(b) > Len(a) => ~HasCapture(rib[b])}
        down == UNION {{<<a, i>> : i \in {i \in DOMAIN rib[a].routes : rib[a].routes[i].ci}}
                       : a \in seen}
        route(x) == rib[x[1]].routes[x[2]]
        before(x, y) == Len(x[1]) > Len(y[1]) \/ (x[1] = y[1] /\ x[2] < y[2])
    IN  {route(x) : x \in {x \in down :
            \A y \in down : route(y).face = route(x).face => ~before(y, x)}}

(* Mutation: a new entry does not adopt the entries under it.              *)
InsertAdoptsNone(rib, n, r) ==
    IF n \in DOMAIN rib
    THEN [rib EXCEPT ![n].routes = Append(@, r)]
    ELSE [m \in DOMAIN rib \cup {n} |-> IF m = n THEN NewEntry(r, FindParent(rib, n)) ELSE rib[m]]

(* An existing route is overwritten in place: the count of capturing routes *)
(* is kept although the flag may differ.                                    *)
InsertRoute(rib, n, r) ==
    IF n \notin DOMAIN rib
    THEN LET cs == FutureChildren(rib, n)
         IN  [m \in DOMAIN rib \cup {n} |->
                 CASE m = n    -> NewEntry(r, FindParent(rib, n))
                   [] m \in cs -> [rib[m] EXCEPT !.parent = n]
                   [] OTHER    -> rib[m]]
    ELSE IF FindRoute(rib[n], r) # {}
    THEN [rib EXCEPT ![n].routes = [i \in DOMAIN @ |-> IF SameRoute(@[i], r) THEN r ELSE @[i]]]
    ELSE [rib EXCEPT ![n].routes = Append(@, r),
                     ![n].nCapture = IF r.cap THEN @ + 1 ELSE @,
                     ![n].listed = Append(@, r.face)]

(* The children of an erased entry go to its parent.                       *)
EraseEntry(rib, n) ==
    [m \in DOMAIN rib \ {n} |->
        IF rib[m].parent = n THEN [rib[m] EXCEPT !.parent = rib[n].parent] ELSE rib[m]]

(* An entry listed for every route of a face is unlisted once, with the     *)
(* last of them.                                                            *)
Unlist(e, f) ==
    IF HasFaceId(e, f) \/ f \notin Range(e.listed) THEN e
    ELSE [e EXCEPT !.listed = RemoveFirst(@, f)]

(* The entry goes with its last route.                                     *)
EraseFromRib(rib, n, r) ==
    IF n \notin DOMAIN rib \/ FindRoute(rib[n], r) = {}
    THEN rib
    ELSE LET e == Unlist(EraseRoute(rib[n], r), r.face)
         IN  IF e.routes # <<>> THEN [rib EXCEPT ![n] = e] ELSE EraseEntry(rib, n)

-----------------------------------------------------------------------------
(* FibUpdater: u collects the updates for the face of the batch, those for *)
(* other faces, and the changes of inherited routes; null is set where the *)
(* code would follow a null pointer.                                       *)

NoUpdates(face) == [face |-> face, batch |-> <<>>, rest |-> <<>>, inh |-> <<>>,
                    null |-> FALSE]

AddUpdate(n, f, c) == [action |-> "add", name |-> n, face |-> f, cost |-> c]

RemoveUpdate(n, f) == [action |-> "remove", name |-> n, face |-> f, cost |-> 0]

(* One update per name and face: the last one computed.                    *)
AddFibUpdate(u, x) ==
    LET list == IF x.face = u.face THEN "batch" ELSE "rest"
        same(y) == y.name = x.name /\ y.face = x.face
    IN  IF \E i \in DOMAIN u[list] : same(u[list][i])
        THEN [u EXCEPT ![list] = [i \in DOMAIN @ |-> IF same(@[i]) THEN x ELSE @[i]]]
        ELSE [u EXCEPT ![list] = Append(@, x)]

AddFibUpdates(u, list) == FoldLeft(AddFibUpdate, u, list)

Inherit(u, n, r) ==
    AddFibUpdate([u EXCEPT !.inh = Append(@, [action |-> "REGISTER", name |-> n, route |-> r])],
                 AddUpdate(n, r.face, r.cost))

Disinherit(u, n, r) ==
    AddFibUpdate([u EXCEPT !.inh = Append(@, [action |-> "UNREGISTER", name |-> n, route |-> r])],
                 RemoveUpdate(n, r.face))

ByFace(S) == SetToSortSeq(S, LAMBDA r, s : r.face < s.face)

AddInheritedRoutes(u, n, S) == FoldLeft(LAMBDA a, r : Inherit(a, n, r), u, ByFace(S))

RemoveInheritedRoutes(u, n, S) == FoldLeft(LAMBDA a, r : Disinherit(a, n, r), u, ByFace(S))

OfFaces(e, S) == {r \in S : HasInheritedRoute(e, r.face)}

NotOfOwnFaces(e, S) == {r \in S : ~HasFaceId(e, r.face)}

(* The walk over the subtrees of the entries cs.  It does not enter an     *)
(* entry that captures; a route is not passed on by, nor applied to, an    *)
(* entry with a ChildInherit route of the same face.                       *)
ModifyChildrensInheritedRoutes(rib, u, cs, add, rem) ==
    LET anc     == Ancestors(rib)
        tree    == {d \in DOMAIN rib : ({d} \cup anc[d]) \cap cs # {}}
        line(d) == ({d} \cup anc[d]) \cap tree
        visited == {d \in tree : \A e \in line(d) : ~HasCapture(rib[e])}
        at(d, S) == {r \in S : \A e \in line(d) : ~HasChildInheritOnFaceId(rib[e], r.face)}
        visit(a, d) == AddInheritedRoutes(
                           RemoveInheritedRoutes(a, d, OfFaces(rib[d], at(d, rem))),
                           d, NotOfOwnFaces(rib[d], at(d, add)))
    IN  FoldLeft(visit, u, SetToSortSeq(visited, LAMBDA d, e : Len(d) < Len(e)))

(* anc: the routes of the ancestors, getAncestorRoutes of the entry.       *)
NewRibEntryUpdates(rib, u0, n, r, anc) ==
    LET others == IF r.cap THEN {} ELSE {a \in anc : a.face # r.face}
        u      == AddFibUpdate(u0, AddUpdate(n, r.face, r.cost))
    IN  ModifyChildrensInheritedRoutes(rib, AddInheritedRoutes(u, n, others),
            FutureChildren(rib, n),
            IF r.ci THEN {r} \cup others ELSE {}, IF r.cap THEN anc ELSE {})

(* A route of entry n, whose state is e, becomes visible.                  *)
NewRouteUpdates(rib, u, n, e, r, anc, captureOn) ==
    LET passed == r.ci /\ \A p \in LowestCostChildInherit(e, r.face) : r.cost <= p.cost
        lowest == \A o \in LowestCost(e, r.face) : r.cost <= o.cost
        blocked == IF captureOn THEN anc ELSE {}
        v == ModifyChildrensInheritedRoutes(rib,
                 RemoveInheritedRoutes(u, n, OfFaces(e, blocked)),
                 ChildrenOf(rib, n), IF passed THEN {r} ELSE {}, blocked)
    IN  AddFibUpdates(v, IF lowest THEN <<AddUpdate(n, r.face, r.cost)>> ELSE <<>>)

(* A registered route gets a new cost; e is the entry with the new route   *)
(* in place of old.  The cheapest route with ChildInherit takes over from  *)
(* one that was the cheapest.                                              *)
UpdatedCostUpdates(u, n, e, r, old) ==
    LET prev == LowestCostChildInherit(e, r.face)
        low  == (CHOOSE x \in LowestCost(e, r.face) : TRUE).cost
        next == CASE r.cost = old.cost -> {}
                  [] r.cost # old.cost /\ r.cost <= low -> {r}
                  [] r.cost # old.cost /\ r.cost > low /\ old.cost < low -> prev
                  [] OTHER -> {}
        list == SetToSeq({AddUpdate(n, x.face, x.cost) : x \in next})
    IN  AddFibUpdates([u EXCEPT !.null = @ \/ (r.cost # old.cost /\ r.cost > low
                                                /\ old.cost < low /\ prev = {})], list)

(* Its ChildInherit flag, or with the same flags its cost, changes what    *)
(* the children inherit.                                                   *)
UpdatedChildInheritUpdates(rib, u, n, e, r, old, anc) ==
    LET prev == LowestCostChildInherit(e, r.face)
        best == \A p \in prev : r.cost <= p.cost
        on   == r.ci /\ best /\ (~old.ci \/ (r.cap = old.cap /\ r.cost # old.cost))
        off  == old.ci /\ ~r.ci
        blocked == {a \in anc : a.face = r.face}
    IN  ModifyChildrensInheritedRoutes(rib, u, ChildrenOf(rib, n),
            CASE on -> {r} [] off /\ prev # {} -> prev [] off /\ prev = {} -> blocked
              [] OTHER -> {},
            IF off THEN {r} ELSE {})

(* Its Capture flag changes what the entry and its children inherit.       *)
UpdatedCaptureUpdates(rib, u, n, e, r, old, anc) ==
    LET blocked == IF ~old.cap /\ r.cap THEN anc ELSE {}
        freed   == IF old.cap /\ ~r.cap THEN anc ELSE {}
        v       == AddInheritedRoutes(RemoveInheritedRoutes(u, n, OfFaces(e, blocked)),
                                      n, NotOfOwnFaces(e, freed))
    IN  ModifyChildrensInheritedRoutes(rib, v, ChildrenOf(rib, n), freed, blocked)

UpdatedRouteUpdates(rib, u, n, e, r, old, anc) ==
    UpdatedCaptureUpdates(rib,
        UpdatedChildInheritUpdates(rib, UpdatedCostUpdates(u, n, e, r, old), n, e, r, old, anc),
        n, e, r, old, anc)

(* A route has been taken out of the entry, which now is e.                *)
ErasedRouteUpdates(rib, u, n, e, r, anc, captureOff) ==
    LET open  == ~HasCapture(e) /\ e.routes # <<>>
        freed == IF captureOff /\ e.routes # <<>> THEN anc ELSE {}
        v     == AddInheritedRoutes(AddFibUpdate(u, RemoveUpdate(n, r.face)), n,
                                    IF r.cap THEN NotOfOwnFaces(e, freed) ELSE {})
        w     == ModifyChildrensInheritedRoutes(rib, v, ChildrenOf(rib, n),
                     CASE r.cap -> freed
                       [] r.ci /\ ~r.cap /\ ~HasCapture(e) -> anc
                       [] OTHER -> {},
                     IF r.ci THEN {r} ELSE {})
    IN  AddInheritedRoutes(w, n, IF open THEN {a \in anc : a.face = r.face} ELSE {})

ErasedRibEntryUpdates(u, n, inh) ==
    AddFibUpdates(u, [i \in DOMAIN inh |-> RemoveUpdate(n, inh[i].face)])

RegistrationUpdates(rib, n, r, anc) ==
    LET u == NoUpdates(r.face)
    IN  IF n \notin DOMAIN rib
        THEN NewRibEntryUpdates(rib, u, n, r, anc)
        ELSE IF FindRoute(rib[n], r) = {}
        THEN NewRouteUpdates(rib, u, n, rib[n], r, anc, ~HasCapture(rib[n]) /\ r.cap)
        ELSE LET i == CHOOSE j \in FindRoute(rib[n], r) : TRUE
             IN  UpdatedRouteUpdates(rib, u, n, [rib[n] EXCEPT !.routes[i] = r], r,
                                     rib[n].routes[i], anc)

UnregistrationUpdates(rib, n, r, anc) ==
    IF n \notin DOMAIN rib \/ FindRoute(rib[n], r) = {}
    THEN NoUpdates(r.face)
    ELSE LET e    == rib[n]
             old  == e.routes[CHOOSE i \in FindRoute(e, r) : TRUE]
             temp == EraseRoute(e, r)
             v    == ErasedRouteUpdates(rib, NoUpdates(r.face), n, temp, old, anc,
                                        HasCapture(e) /\ ~HasCapture(temp))
             w    == FoldLeft(LAMBDA a, x : NewRouteUpdates(rib, a, n, temp, x, anc, FALSE),
                              v, ByFace(SecondLowestCost(e, r.face)))
         IN  ErasedRibEntryUpdates(w, n, IF Len(e.routes) = 1 THEN e.inh ELSE <<>>)

(* The updates for the face of a face that is gone are not sent.           *)
ComputeUpdates(rib, b) ==
    LET parent == IF b.name \in DOMAIN rib THEN rib[b.name].parent ELSE FindParent(rib, b.name)
        anc == AncestorRoutes(rib, parent)
        u   == IF b.action = "REGISTER" THEN RegistrationUpdates(rib, b.name, b.route, anc)
                                        ELSE UnregistrationUpdates(rib, b.name, b.route, anc)
    IN  [u EXCEPT !.batch = IF b.action = "REMOVE_FACE" THEN <<>> ELSE @]

ApplyUpdate(rib, b) ==
    IF b.action = "REGISTER" THEN InsertRoute(rib, b.name, b.route)
                             ELSE EraseFromRib(rib, b.name, b.route)

ModifyInheritedRoutes(rib, inh) ==
    FoldLeft(LAMBDA t, x :
                 IF x.name \notin DOMAIN t THEN t
                 ELSE [t EXCEPT ![x.name].inh =
                          IF x.action = "REGISTER" THEN Append(@, x.route)
                          ELSE SelectSeq(@, LAMBDA r : r.face # x.route.face)],
             rib, inh)
=============================================================================

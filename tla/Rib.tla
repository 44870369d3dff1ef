-------------------------------- MODULE Rib --------------------------------
(***************************************************************************)
(* The RIB service: commands that register and unregister routes, routes   *)
(* that expire, faces that are destroyed, the queue of RIB updates, and    *)
(* the FIB commands by which FibUpdater carries one RIB update at a time   *)
(* over to the forwarding thread.  A FIB command may time out, with or     *)
(* without having been carried out.                                        *)
(***************************************************************************)
EXTENDS RibTree

CONSTANTS Requests,          \* routes a command may register: [name, route]
          Timed,             \* those of them with an expiration period
          Faces,             \* face ids
          Late,              \* the faces that come up after the start
          Mortal,            \* the faces that may be destroyed
          MaxDepth,          \* Fib::getMaxDepth
          MaxTimeouts,       \* MAX_NUM_TIMEOUTS
          MaxQueue,          \* bound: commands and datasets come while the queue is shorter
          MaxCommands,       \* bound: commands ever accepted
          MaxLost            \* bound: FIB commands that ever time out

VARIABLES svc,       \* the RIB thread
          fib,       \* the FIB: a function from <<name, face>> to cost
          faces,     \* the state of every face: "none", "up", "gone"
          news,      \* faces whose destruction the RIB thread will be told of
          active,    \* the face dataset being fetched, or NotFetched
          nCommands, \* commands accepted so far; numbers the expiration events
          nLost,     \* FIB commands that have timed out
          strayed    \* history: what happened that makes RIB and FIB disagree

ribVars == <<svc, fib, faces, news, active, nCommands, nLost, strayed>>

NotFetched == {-1}

Updates(action, n, r) == [action |-> action, name |-> n, route |-> r]

RibInit ==
    /\ svc = [rib    |-> <<>>,        \* Rib::m_rib
              queue  |-> <<>>,        \* m_updateBatches
              busy   |-> FALSE,       \* m_isUpdateInProgress
              upd    |-> NoUpdates(0),\* FibUpdater's lists
              wire   |-> <<>>,        \* FIB commands in flight
              timers |-> {},          \* expiration events that are scheduled
              status |-> "up"]
    /\ fib = <<>>
    /\ faces = [f \in Faces |-> IF f \in Late THEN "none" ELSE "up"]
    /\ news = {}
    /\ active = NotFetched
    /\ nCommands = 0
    /\ nLost = 0
    /\ strayed = {}

-----------------------------------------------------------------------------
(* Commands of FibUpdater and their completion                             *)

SendUpdates(s, list, b) ==
    [s EXCEPT !.wire = @ \o [i \in DOMAIN list |-> 
        [upd |-> list[i], sent |-> list[i].action, batch |-> b, n |-> 0]]]

(* Mutation: the timer of the new route is cancelled, not the old one's.   *)
CancelledNew(rib, b) == {b.route.ev} \ {0}

(* The timers of the routes that a RIB update overwrites or erases.        *)
Cancelled(rib, b) ==
    IF b.name \notin DOMAIN rib THEN {}
    ELSE {rib[b.name].routes[i].ev : i \in FindRoute(rib[b.name], b.route)} \ {0}

(* The RIB update of the batch is applied, with the inherited routes that  *)
(* FibUpdater holds now.  An inherited route of an entry that does not     *)
(* exist trips an assertion.                                               *)
OnFibUpdateSuccess(s, b) ==
    LET rib == ApplyUpdate(s.rib, b)
    IN  [s EXCEPT !.rib = ModifyInheritedRoutes(rib, s.upd.inh),
                  !.busy = FALSE,
                  !.timers = {t \in @ : t.id \notin Cancelled(s.rib, b)},
                  !.status = IF \E i \in DOMAIN s.upd.inh : s.upd.inh[i].name \notin DOMAIN rib
                             THEN "assert" ELSE @]

SendUpdatesForNonBatchFaceId(s, b) ==
    IF s.upd.rest # <<>> THEN SendUpdates(s, s.upd.rest, b) ELSE OnFibUpdateSuccess(s, b)

(* The batch b with the updates u computed for it: one that needs no FIB   *)
(* command succeeds at once.                                               *)
SendBatch(s, b, u) ==
    LET t == [s EXCEPT !.queue = Tail(@), !.busy = TRUE, !.upd = u]
    IN  CASE u.null -> [t EXCEPT !.status = "null"]
          [] ~u.null /\ u.batch # <<>> -> SendUpdates(t, u.batch, b)
          [] OTHER -> SendUpdatesForNonBatchFaceId(t, b)

(* One round of sendBatchFromQueue.                                        *)
SendOneBatch(s) ==
    IF s.queue = <<>> \/ s.busy \/ s.status # "up" THEN s
    ELSE SendBatch(s, Head(s.queue), ComputeUpdates(s.rib, Head(s.queue)))

SendBatchFromQueue(s) == FoldLeft(LAMBDA t, i : SendOneBatch(t), s, s.queue)

BeginApplyUpdate(s, b) == SendBatchFromQueue([s EXCEPT !.queue = Append(@, b)])

(* All routes of a face in an entry, each time the entry is listed for it.  *)
EnqueueRemoveFace(s, n, f) ==
    LET of == SelectSeq(s.rib[n].routes, LAMBDA r : r.face = f)
    IN  [s EXCEPT !.queue = @ \o [i \in DOMAIN of |-> Updates("REMOVE_FACE", n, of[i])]]

(* The faces in turn, the entries of a face in the order of the names.      *)
BeginRemoveFaces(s, S) ==
    LET hit  == UNION {{<<f, n, i>> : i \in {i \in DOMAIN s.rib[n].listed : s.rib[n].listed[i] = f}}
                       : f \in S, n \in DOMAIN s.rib}
        list == SetToSortSeq(hit, LAMBDA x, y : x[1] < y[1] \/ (x[1] = y[1] /\ Len(x[2]) < Len(y[2])))
    IN  SendBatchFromQueue(FoldLeft(LAMBDA t, x : EnqueueRemoveFace(t, x[2], x[1]), s, list))

Without(seq, x) == SelectSeq(seq, LAMBDA y : y # x)

(* What is left of the lists after a success; the last one completes the   *)
(* batch.                                                                  *)
OnUpdateSuccess(s, c) ==
    IF c.upd.face = s.upd.face
    THEN LET t == [s EXCEPT !.upd.batch = Without(@, c.upd)]
         IN  IF t.upd.batch = <<>> THEN SendUpdatesForNonBatchFaceId(t, c.batch) ELSE t
    ELSE LET t == [s EXCEPT !.upd.rest = Without(@, c.upd)]
         IN  IF t.upd.rest = <<>> THEN OnFibUpdateSuccess(t, c.batch) ELSE t

(* The face does not exist (410).                                          *)
OnFaceNotFound(s, c) ==
    IF c.upd.face = s.upd.face THEN [s EXCEPT !.busy = FALSE] ELSE OnUpdateSuccess(s, c)

(* A batch that ends, either way, is followed by the next one of the queue;*)
(* while one is in progress sendBatchFromQueue does nothing.               *)
OnFibAnswer(s, c, found) ==
    SendBatchFromQueue(IF found THEN OnUpdateSuccess(s, c) ELSE OnFaceNotFound(s, c))

(* Mutation: a command that timed out is dropped.                          *)
OnTimeoutGivesUp(s, c) == s

(* A command that timed out is sent again as an addition, whatever it was. *)
OnTimeout(s, c) ==
    IF c.n < MaxTimeouts
    THEN [s EXCEPT !.wire = Append(@, [c EXCEPT !.n = @ + 1, !.sent = "add"])]
    ELSE [s EXCEPT !.status = "threw"]

-----------------------------------------------------------------------------
(* RibManager                                                              *)

CanCommand == svc.status = "up" /\ Len(svc.queue) < MaxQueue /\ nCommands < MaxCommands

(* A route with an expiration period gets its timer when the command is    *)
(* accepted, before the RIB or the FIB knows the route.                    *)
AddRoute(n, r, timed) ==
    LET ev == IF timed THEN nCommands + 1 ELSE 0
        x  == [r EXCEPT !.ev = ev]
        t  == IF timed THEN {[id |-> ev, name |-> n, route |-> x]} ELSE {}
    IN  /\ nCommands' = nCommands + 1
        /\ svc' = BeginApplyUpdate([svc EXCEPT !.timers = @ \cup t], Updates("REGISTER", n, x))

RegisterEntry(q) ==
    /\ CanCommand
    /\ Len(q.name) <= MaxDepth
    /\ AddRoute(q.name, q.route, q \in Timed)
    /\ UNCHANGED <<fib, faces, news, active, nLost, strayed>>

UnregisterEntry(q) ==
    /\ CanCommand
    /\ LET r == Route(q.route.face, q.route.origin, 0, FALSE, FALSE, 0)
       IN  svc' = BeginApplyUpdate(svc, Updates("UNREGISTER", q.name, r))
    /\ nCommands' = nCommands + 1
    /\ UNCHANGED <<fib, faces, news, active, nLost, strayed>>

(* An announcement that has already expired takes the route away.          *)
AnnounceExpired(q) ==
    /\ q \in Timed
    /\ UnregisterEntry(q)

(* Renewal of a learnt route: the route of the name's entry, or of its     *)
(* parent, is registered again with a new timer.                           *)
SlRenew(n, r) ==
    LET at(m) == m \in DOMAIN svc.rib /\ FindRoute(svc.rib[m], r) # {}
        p     == FindParent(svc.rib, n)
        m     == IF at(n) THEN n ELSE p
    IN  /\ CanCommand
        /\ m # None /\ at(m)
        /\ \E i \in FindRoute(svc.rib[m], r) :
               /\ svc.rib[m].routes[i].ev # 0
               /\ AddRoute(m, svc.rib[m].routes[i], TRUE)
        /\ UNCHANGED <<fib, faces, news, active, nLost, strayed>>

OnRouteExpiration(t) ==
    /\ svc.status = "up"
    /\ svc' = BeginApplyUpdate([svc EXCEPT !.timers = @ \ {t}],
                               Updates("UNREGISTER", t.name, t.route))
    /\ UNCHANGED <<fib, faces, news, active, nCommands, nLost, strayed>>

OnNotification(f) ==
    /\ svc.status = "up"
    /\ f \in news
    /\ news' = news \ {f}
    /\ svc' = BeginRemoveFaces(svc, {f})
    /\ UNCHANGED <<fib, faces, active, nCommands, nLost, strayed>>

(* The dataset lists the faces at the time it is made.                     *)
FetchActiveFaces ==
    /\ svc.status = "up"
    /\ active = NotFetched
    /\ Len(svc.queue) < MaxQueue
    /\ active' = {f \in Faces : faces[f] = "up"}
    /\ UNCHANGED <<svc, fib, faces, news, nCommands, nLost, strayed>>

RemoveInvalidFaces ==
    /\ svc.status = "up"
    /\ active # NotFetched
    /\ Len(svc.queue) < MaxQueue
    /\ svc' = BeginRemoveFaces(svc, Faces \ active)
    /\ active' = NotFetched
    /\ strayed' = strayed \cup
                    IF \E f \in Faces \ active : faces[f] = "up" THEN {"overlooked"} ELSE {}
    /\ UNCHANGED <<fib, faces, news, nCommands, nLost>>

-----------------------------------------------------------------------------
(* The forwarding thread                                                   *)

CreateFace(f) ==
    /\ faces[f] = "none"
    /\ faces' = [faces EXCEPT ![f] = "up"]
    /\ UNCHANGED <<svc, fib, news, active, nCommands, nLost, strayed>>

(* Every next hop of the face goes at once; the RIB thread hears later.    *)
DestroyFace(f) ==
    /\ faces[f] = "up"
    /\ f \in Mortal
    /\ faces' = [faces EXCEPT ![f] = "gone"]
    /\ fib' = Restrict(fib, {x \in DOMAIN fib : x[2] # f})
    /\ news' = news \cup {f}
    /\ UNCHANGED <<svc, active, nCommands, nLost, strayed>>

AddNextHop(c) ==
    IF faces[c.upd.face] = "up" THEN (<<c.upd.name, c.upd.face>> :> c.upd.cost) @@ fib ELSE fib

RemoveNextHop(c) == Restrict(fib, DOMAIN fib \ {<<c.upd.name, c.upd.face>>})

(* Commands are carried out and answered in the order they are sent.  An   *)
(* addition fails when the face does not exist, a removal never does.      *)
Answer ==
    /\ svc.status = "up"
    /\ svc.wire # <<>>
    /\ LET c == Head(svc.wire)
           s == [svc EXCEPT !.wire = Tail(@)]
       IN  /\ fib' = IF c.sent = "add" THEN AddNextHop(c) ELSE RemoveNextHop(c)
           /\ svc' = OnFibAnswer(s, c, c.sent # "add" \/ faces[c.upd.face] = "up")
           /\ strayed' = strayed \cup 
                  IF c.sent = "add" /\ faces[c.upd.face] # "up" /\ c.upd.face = svc.upd.face
                     /\ s.wire # <<>>
                  THEN {"late"} ELSE {}
    /\ UNCHANGED <<faces, news, active, nCommands, nLost>>

(* The answer does not arrive in time; the command was or was not carried  *)
(* out.                                                                    *)
Timeout ==
    /\ svc.status = "up"
    /\ svc.wire # <<>>
    /\ nLost < MaxLost
    /\ LET c == Head(svc.wire)
       IN  /\ \/ fib' = IF c.sent = "add" THEN AddNextHop(c) ELSE RemoveNextHop(c)
              \/ fib' = fib
           /\ svc' = OnTimeout([svc EXCEPT !.wire = Tail(@)], c)
           /\ strayed' = strayed \cup IF c.upd.action = "remove" THEN {"retried"} ELSE {}
    /\ nLost' = nLost + 1
    /\ UNCHANGED <<faces, news, active, nCommands>>

RibNext ==
    \/ \E q \in Requests : RegisterEntry(q) \/ UnregisterEntry(q) \/ AnnounceExpired(q)
    \/ \E q \in Requests : \E n \in {p.name : p \in Requests} : SlRenew(n, q.route)
    \/ \E t \in svc.timers : OnRouteExpiration(t)
    \/ \E f \in Faces : OnNotification(f) \/ CreateFace(f) \/ DestroyFace(f)
    \/ FetchActiveFaces \/ RemoveInvalidFaces
    \/ Answer \/ Timeout

RibSpec == RibInit /\ [][RibNext]_ribVars

-----------------------------------------------------------------------------
(* Properties                                                              *)

Quiet == svc.queue = <<>> /\ ~svc.busy /\ svc.wire = <<>> /\ news = {}

(* The next hops a RIB calls for: of every entry and face the cheapest     *)
(* route of the entry, or the route inherited from the nearest ancestor.   *)
Wanted(rib) ==
    LET inherited(n) == IF \E i \in DOMAIN rib[n].routes : rib[n].routes[i].cap THEN {}
                        ELSE NotOfOwnFaces(rib[n], AncestorRoutes(rib, rib[n].parent))
        own(n) == UNION {LowestCost(rib[n], f) : f \in Faces}
    IN  UNION {{<<n, r.face, r.cost>> : r \in own(n) \cup inherited(n)} : n \in DOMAIN rib}

(* When no RIB update is under way the FIB holds exactly the next hops the *)
(* RIB calls for and their costs, of faces that exist: FibUpdater's        *)
(* incremental updates (computeUpdates) agree with the table as a whole.   *)
FibFollowsRib ==
    (svc.status = "up" /\ Quiet /\ strayed = {}) =>
        {<<h[1], h[2], fib[h]>> : h \in DOMAIN fib} = {w \in Wanted(svc.rib) : faces[w[2]] = "up"}

(* Of every face that an entry has routes for, the FIB keeps a next hop    *)
(* with the lowest of their costs; computeUpdatesForUnregistration says so *)
(* of a face that the entry still has after a removal: need to update FIB  *)
(* with lowest cost for the same face instead of removing the face.        *)
KeepsCheapestOfFace ==
    (svc.status = "up" /\ Quiet /\ strayed = {}) =>
        \A n \in DOMAIN svc.rib : \A f \in Faces :
            faces[f] = "up" => \A r \in LowestCost(svc.rib[n], f) :
                <<n, f>> \in DOMAIN fib /\ fib[<<n, f>>] = r.cost

(* A route with an expiration time in the RIB is taken out in the end: its *)
(* timer is scheduled, or has fired and the update that erases the route   *)
(* is queued or in progress.                                               *)
TimedRoutesEnd ==
    strayed = {} =>
        \A n \in DOMAIN svc.rib : \A i \in DOMAIN svc.rib[n].routes :
            LET r == svc.rib[n].routes[i]
                ends(b) == b.action # "REGISTER" /\ b.name = n /\ SameRoute(b.route, r)
            IN  r.ev # 0 => \/ \E t \in svc.timers : t.id = r.ev
                            \/ \E k \in DOMAIN svc.queue : ends(svc.queue[k])
                            \/ svc.busy /\ \E k \in DOMAIN svc.wire : ends(svc.wire[k].batch)
                            \/ svc.status # "up"

(* The queue of RIB updates cannot get stuck: while m_isUpdateInProgress   *)
(* is set an answer is due, and while updates wait one is in progress; and *)
(* no update follows a null pointer or records an inherited route for an   *)
(* entry that does not exist (the assertion of modifyInheritedRoutes).     *)
UpdateMakesProgress ==
    /\ svc.status = "up" => /\ svc.busy => svc.wire # <<>>
                            /\ svc.queue # <<>> => svc.busy
    /\ strayed = {} => svc.status \notin {"assert", "null"}
=============================================================================

---------------------------- MODULE Readvertise ----------------------------
(***************************************************************************)
(* Readvertise: routes of the RIB that a policy selects are announced to a *)
(* destination, refreshed, and withdrawn when no route needs them any      *)
(* more.  Commands to the destination are answered later, in any order,    *)
(* with success or failure; the callbacks hold iterators into m_rrs.       *)
(*                                                                         *)
(* A readvertised route is known by a number of its own, so that a callback *)
(* that outlives it can be told from one for its successor.                *)
(***************************************************************************)
EXTENDS Integers, FiniteSets, Sequences, SequencesExt

CONSTANTS RvRoutes,        \* RIB routes: records with the entry's name and an origin
          Identities,      \* names of the identities of the key chain
          PolicyKind,      \* "nlsr" or "gateway"
          RetryMax,        \* RETRY_DELAY_MAX in units of RETRY_DELAY_MIN
          MaxInFlight,     \* bound: unanswered commands
          MaxRrs           \* bound: readvertised routes ever made

VARIABLES rrs,        \* m_rrs: number -> [prefix, n, delay, timer]
          routeToRr,  \* m_routeToRr: route -> number
          available,  \* ReadvertiseDestination::m_isAvailable
          inFlight,   \* commands sent and not answered: [kind, rr]
          nRrs,       \* readvertised routes made so far
          rvStatus,   \* "ok", or what went wrong
          erased      \* history: routes erased while they were needed

rvVars == <<rrs, routeToRr, available, inFlight, nRrs, rvStatus, erased>>

RvInit ==
    /\ rrs = <<>> /\ routeToRr = <<>> /\ inFlight = <<>> /\ nRrs = 0
    /\ available = FALSE /\ rvStatus = "ok" /\ erased = {}

DropKeys(f, S) == [x \in DOMAIN f \ S |-> f[x]]

-----------------------------------------------------------------------------
(* Policies: the prefix to announce for a new route, as a set of at most one *)

ClientToNlsr(r) == IF r.origin = "client" THEN {r.name} ELSE {}

(* The shortest identity that is a prefix of the name; a last component    *)
(* "nrd" of the identity does not count.                                   *)
HostToGateway(r) ==
    LET bare(i) == IF i # <<>> /\ Last(i) = "nrd" THEN Front(i) ELSE i
        hits    == {bare(i) : i \in {i \in Identities : IsPrefix(bare(i), r.name)}}
    IN  IF IsPrefix(<<"localhost">>, r.name) \/ r.name = <<"localhop", "nfd">>
        THEN {}
        ELSE {p \in hits : \A q \in hits : Len(p) <= Len(q)}

HandleNewRoute(r) == IF PolicyKind = "nlsr" THEN ClientToNlsr(r) ELSE HostToGateway(r)

-----------------------------------------------------------------------------
(* Commands.  s is [rrs, map, fly, avail, status, erased].                 *)

Advertise(s, id) ==
    IF s.rrs[id].n = 0 THEN [s EXCEPT !.status = "advertise of an unneeded route"]
    ELSE IF ~s.avail THEN s
    ELSE [s EXCEPT !.fly = Append(@, [kind |-> "advertise", rr |-> id])]

(* Without a destination the route is forgotten at once.                   *)
Withdraw(s, id) ==
    IF s.rrs[id].n > 0 THEN [s EXCEPT !.status = "withdraw of a needed route"]
    ELSE IF ~s.avail THEN [s EXCEPT !.rrs = DropKeys(@, {id})]
    ELSE [s EXCEPT !.fly = Append(@, [kind |-> "withdraw", rr |-> id])]

ResetDelay(s, id) == [s EXCEPT !.rrs[id].delay = 1]

RvState == [rrs |-> rrs, map |-> routeToRr, fly |-> inFlight, avail |-> available,
            status |-> rvStatus, erased |-> erased]

Becomes(s) ==
    /\ rrs' = s.rrs /\ routeToRr' = s.map /\ inFlight' = s.fly
    /\ available' = s.avail /\ rvStatus' = s.status /\ erased' = s.erased

Unanswered(id) == \E i \in DOMAIN inFlight : inFlight[i].rr = id

Working == rvStatus = "ok" /\ Len(inFlight) < MaxInFlight

-----------------------------------------------------------------------------
(* A new RIB route: it joins the readvertised route of its prefix, which   *)
(* is advertised when this is the first one to need it.                    *)
AfterAddRoute(r) ==
    /\ Working /\ r \notin DOMAIN routeToRr
    /\ \E p \in HandleNewRoute(r) :
          LET old == {i \in DOMAIN rrs : rrs[i].prefix = p}
              id  == IF old = {} THEN nRrs + 1 ELSE CHOOSE i \in old : TRUE
              new == [prefix |-> p, n |-> 0, delay |-> 1, timer |-> "none"]
              tab == IF old = {} THEN [i \in DOMAIN rrs \cup {id} |->
                                          IF i = id THEN new ELSE rrs[i]] ELSE rrs
              s   == [RvState EXCEPT !.rrs = [tab EXCEPT ![id].n = @ + 1],
                                     !.map = [x \in DOMAIN @ \cup {r} |->
                                                 IF x = r THEN id ELSE @[x]]]
          IN  /\ old = {} => nRrs < MaxRrs
              /\ Becomes(IF tab[id].n > 0 THEN s ELSE Advertise(ResetDelay(s, id), id))
              /\ nRrs' = IF old = {} THEN nRrs + 1 ELSE nRrs

(* A RIB route goes: the last one that needed the readvertised route       *)
(* withdraws it.  The map may point at a route already forgotten.          *)
BeforeRemoveRoute(r) ==
    /\ Working /\ r \in DOMAIN routeToRr
    /\ LET id == routeToRr[r]
           s  == [RvState EXCEPT !.map = DropKeys(@, {r}), !.rrs[id].n = @ - 1]
       IN  /\ Becomes(IF id \notin DOMAIN rrs THEN [RvState EXCEPT !.status = "dangling"]
                      ELSE IF rrs[id].n > 1 THEN s ELSE Withdraw(ResetDelay(s, id), id))
    /\ UNCHANGED nRrs

(* The destination follows the RIB entries that cover its command prefix;  *)
(* their coming and going is left open here.                               *)
AfterDestinationAvailable ==
    /\ Working /\ ~available
    /\ LET s == [RvState EXCEPT !.avail = TRUE,
                                !.rrs = [i \in DOMAIN @ |-> [@[i] EXCEPT !.delay = 1]]]
       IN  Becomes(FoldFunction(LAMBDA i, t : Advertise(t, i), s, [i \in DOMAIN rrs |-> i]))
    /\ UNCHANGED nRrs

AfterDestinationUnavailable ==
    /\ Working /\ available
    /\ Becomes([RvState EXCEPT !.avail = FALSE,
                   !.rrs = [i \in {i \in DOMAIN rrs : rrs[i].n > 0} |->
                               [rrs[i] EXCEPT !.timer = "none"]]])
    /\ UNCHANGED nRrs

-----------------------------------------------------------------------------
(* Answers and timers                                                      *)

Doubled(d) == IF 2 * d < RetryMax THEN 2 * d ELSE RetryMax

(* Mutation: nothing is scheduled after a refusal.                         *)
RetryForgotten(s, id, kind) == s

Retry(s, id, kind) == [s EXCEPT !.rrs[id].delay = Doubled(@), !.rrs[id].timer = kind]

(* A callback writes through its iterator, whatever became of the route.   *)
OnAnswer(k, ok) ==
    /\ rvStatus = "ok"
    /\ LET c == inFlight[k]
           s == [RvState EXCEPT !.fly = RemoveAt(@, k)]
       IN  Becomes(CASE c.rr \notin DOMAIN rrs -> [s EXCEPT !.status = "dangling"]
                     [] c.rr \in DOMAIN rrs /\ ~ok -> Retry(s, c.rr, c.kind)
                     [] c.rr \in DOMAIN rrs /\ ok /\ c.kind = "advertise" ->
                            [ResetDelay(s, c.rr) EXCEPT !.rrs[c.rr].timer = "advertise"]
                     [] OTHER -> [s EXCEPT !.rrs = DropKeys(@, {c.rr}),
                                           !.erased = @ \cup (IF rrs[c.rr].n > 0 THEN {c.rr} ELSE {})])
    /\ UNCHANGED nRrs

(* The refresh or retry timer fires.                                       *)
OnTimer(id) ==
    /\ Working /\ id \in DOMAIN rrs
    /\ rrs[id].timer # "none"
    /\ LET s == [RvState EXCEPT !.rrs[id].timer = "none"]
       IN  Becomes(IF rrs[id].timer = "advertise" THEN Advertise(s, id) ELSE Withdraw(s, id))
    /\ UNCHANGED nRrs

RvNext ==
    \/ \E r \in RvRoutes : AfterAddRoute(r) \/ BeforeRemoveRoute(r)
    \/ AfterDestinationAvailable \/ AfterDestinationUnavailable
    \/ \E k \in DOMAIN inFlight, ok \in BOOLEAN : OnAnswer(k, ok)
    \/ \E id \in DOMAIN rrs : OnTimer(id)

RvSpec == RvInit /\ [][RvNext]_rvVars

-----------------------------------------------------------------------------
(* Properties                                                              *)

(* While the destination is available, every route of the RIB that the     *)
(* policy selected is being announced or has its refresh or retry timer    *)
(* set, across refusals and losses of the destination, as long as no       *)
(* assertion fails and no callback outlives its route.  The one exception  *)
(* is a route needed again while its withdrawal is unanswered: the success *)
(* of that withdrawal erases it (Readvertise::withdraw).                   *)
RefreshNeverStops ==
    (available /\ rvStatus = "ok") =>
        \A r \in DOMAIN routeToRr :
            LET id == routeToRr[r]
            IN  \/ id \in erased
                \/ id \in DOMAIN rrs /\ (Unanswered(id) \/ rrs[id].timer # "none")

=============================================================================

----------------------------- MODULE Strategies -----------------------------
(***************************************************************************)
(* What the forwarding strategies decide, and the state they keep between  *)
(* two packets: retransmission suppression, the access strategy's RTO      *)
(* timer and last working next hop, ASF's measurements, timeouts and       *)
(* probes, self-learning's questions to the RIB thread.                    *)
(*                                                                         *)
(* The pipelines around them are those of module Forwarder, cut down to    *)
(* what a strategy sees: one strategy, one FIB entry that covers all names,*)
(* Interests that passed loop detection (a looping one is answered by      *)
(* onInterestLoop, which changes nothing here).  Time is a countdown: left *)
(* is the ticks a record or a timer has left (-1: expired), age the ticks  *)
(* since a record was renewed.  Timers that are due fire before time goes  *)
(* on, but packets may be handled before them.                             *)
(***************************************************************************)
EXTENDS Integers, Sequences, FiniteSets, SequencesExt

CONSTANTS StratScenarios,  \* strategy, names, faces, routes and kinds of Interest
          Lifetime,        \* of an Interest
          InitialInterval, MaxInterval,   \* RetxSuppressionExponential
          MinRetxInterval, \* RetxSuppressionFixed
          Rto,             \* what the RTT estimator gives
          FirstProbe,      \* delays of the first probe
          ProbingInterval, MeasurementsLifetime, MaxSilentTimeouts,
          Linger,          \* the 50 ms of ASF and the 1 s of self-learning
          MaxPackets       \* bound: packets and changes from outside

ASSUME StrategiesAssumption ==
    /\ 0 < InitialInterval /\ InitialInterval <= MaxInterval
    /\ 0 < MinRetxInterval
    /\ ProbingInterval < MeasurementsLifetime

VARIABLES s,        \* everything the node holds for its strategy
          packets   \* packets and changes so far

stratVars == <<s, packets>>

Nil == [nil |-> TRUE]
NoMap == [f \in {} |-> 0]

Put(m, k, v) == [x \in DOMAIN m \cup {k} |-> IF x = k THEN v ELSE m[x]]
Drop(m, ks) == [x \in DOMAIN m \ ks |-> m[x]]

\* A node under scenario sc.  fib: next hops in order of cost.  mi: the access
\* strategy's prefix measurements.  info, probes: ASF's namespace and its probe
\* events.  rib: what the RIB thread was asked.  History: broken, the assertions
\* that failed; early, the causes of transmissions within a suppression interval.
\* retx, of an entry and of an out-record: how often it was retransmitted.
NewNode(sc) ==
    [sc |-> sc, faces |-> sc.faces, fib |-> sc.fib, pit |-> NoMap, cs |-> {},
     mi |-> Nil, info |-> Nil, probes |-> <<>>, rib |-> <<>>, broken |-> {}, early |-> {}]

NewPitEntry(p) == [hop0 |-> p.hop0, in |-> NoMap, out |-> NoMap, timer |-> 0, interval |-> 0, retx |-> 0,
                rto |-> Nil, delayed |-> FALSE]

Expect(x, label, holds) == IF holds THEN x ELSE [x EXCEPT !.broken = @ \cup {label}]

\* f(... f(x, q[1]) ..., q[Len(q)])
Each(f(_, _), x, q) ==
    LET go[i \in 0 .. Len(q)] == IF i = 0 THEN x ELSE f(go[i - 1], q[i]) IN go[Len(q)]

-----------------------------------------------------------------------------
(* algorithm.cpp.  A packet p has a name n, a face it came in on, a HopLimit *)
(* that may be zero, a non-discovery mark, and the cause it is sent for.  All *)
(* names of a scenario have its scope: global, localhop or localhost.        *)

Local(x) == x.sc.local
AdHoc(x) == x.sc.adHoc

WouldViolateScope(x, p, out) ==
    /\ out \notin Local(x)
    /\ \/ x.sc.scope = "localhost"
       \/ x.sc.scope = "localhop" /\ p.in \notin Local(x)

HasPendingOutRecords(e) == \E f \in DOMAIN e.out : e.out[f].left >= 0 /\ ~e.out[f].nack

\* getLastOutgoing, as the time since then.
SinceLastOutgoing(e) ==
    CHOOSE a \in {e.out[f].age : f \in DOMAIN e.out} : \A f \in DOMAIN e.out : a <= e.out[f].age

IsNextHopEligible(x, p, out, wantUnused) ==
    /\ out # p.in \/ out \in AdHoc(x)
    /\ ~WouldViolateScope(x, p, out)
    /\ wantUnused => ~(out \in DOMAIN x.pit[p.n].out /\ x.pit[p.n].out[out].left > 0)

EligibleHops(x, p, wantUnused) ==
    SelectSeq(x.fib, LAMBDA f : IsNextHopEligible(x, p, f, wantUnused))

\* findEligibleNextHopWithEarliestOutRecord, of hops that all have an out-record.
EarliestUsed(x, p, hops) ==
    LET age(k) == x.pit[p.n].out[hops[k]].age
    IN hops[CHOOSE k \in DOMAIN hops : /\ \A j \in DOMAIN hops : age(j) <= age(k)
                                       /\ \A j \in 1 .. k - 1 : age(j) < age(k)]

-----------------------------------------------------------------------------
(* Actions of class Strategy. *)

\* The interval after k retransmissions: it doubles with each, up to the largest.
SpacingAfter(k) == IF InitialInterval * 2^k < MaxInterval THEN InitialInterval * 2^k ELSE MaxInterval
OneMore(k) == IF SpacingAfter(k) = MaxInterval THEN k ELSE k + 1

\* An Interest for entry e on upstream f is a retransmission: multicast asks the
\* upstream's own record, whatever it holds; the others ask whether any record is
\* pending, that is neither expired nor with a Nack.
IsRetx(x, e, f) == IF x.sc.kind = "multicast" THEN f \in DOMAIN e.out ELSE HasPendingOutRecords(e)

IsEarly(x, e, f) ==
    /\ IsRetx(x, e, f)
    /\ CASE x.sc.kind = "best-route" -> SinceLastOutgoing(e) < SpacingAfter(e.retx)
         [] x.sc.kind = "access" -> f \in DOMAIN e.out /\ e.out[f].age < MinRetxInterval
         [] OTHER -> f \in DOMAIN e.out /\ e.out[f].age < SpacingAfter(e.out[f].retx)

\* sendInterest, onOutgoingInterest: no Interest with HopLimit zero leaves on a
\* non-local face; the out-record is inserted, or renewed with its Nack and its
\* strategy info.
MaySend(x, p, f) == ~p.hop0 \/ f \in Local(x)

SendInterest(x, p, f) ==
    LET e == x.pit[p.n]
        again == p.why = "interest" /\ IsRetx(x, e, f)
        count(k) == IF again THEN OneMore(k) ELSE k
        new == [nack |-> FALSE, interval |-> 0, nonDiscovery |-> FALSE, age |-> 0, left |-> Lifetime, retx |-> 0]
    IN IF ~MaySend(x, p, f) THEN x
       ELSE [x EXCEPT !.early = @ \cup (IF IsEarly(x, e, f) THEN {p.why} ELSE {}),
                      !.pit[p.n].retx = count(@),
                      !.pit[p.n].out = Put(@, f, IF f \notin DOMAIN e.out THEN new
                                                 ELSE [e.out[f] EXCEPT !.age = 0, !.left = Lifetime, !.retx = count(@)])]

SetExpiryTimer(x, n, t) == [x EXCEPT !.pit[n].timer = t]

\* sendNack, onOutgoingNack: only on a point-to-point face; erases the in-record.
SendNacks(x, n, fs) == [x EXCEPT !.pit[n].in = Drop(@, fs \ AdHoc(x))]

SendNoRouteNack(x, p) == SetExpiryTimer(SendNacks(x, p.n, {p.in}), p.n, 0)

\* sendData, to each of fs: the in-record is deleted.
SendData(x, n, fs) == [x EXCEPT !.pit[n].in = Drop(@, fs)]

\* To the pending downstreams.
SendDataToAll(x, n, inFace) ==
    LET in == x.pit[n].in
    IN SendData(x, n, {f \in DOMAIN in : in[f].left > 0 /\ (f # inFace \/ f \in AdHoc(x))})

-----------------------------------------------------------------------------
(* Retransmission suppression. *)

\* Mutation: the interval is doubled, but not stored.
LongerForgotten(i) == i

Longer(i) == IF 2 * i < MaxInterval THEN 2 * i ELSE MaxInterval
Interval(i) == IF i = 0 THEN InitialInterval ELSE i   \* 0: no strategy info yet

\* RetxSuppressionFixed::decidePerPitEntry.
DecideFixed(e) ==
    IF ~HasPendingOutRecords(e) THEN "NEW"
    ELSE IF SinceLastOutgoing(e) < MinRetxInterval THEN "SUPPRESS" ELSE "FORWARD"

\* RetxSuppressionExponential::decidePerPitEntry; a FORWARD lengthens the interval.
DecidePerPitEntry(e) ==
    IF ~HasPendingOutRecords(e) THEN "NEW"
    ELSE IF SinceLastOutgoing(e) < Interval(e.interval) THEN "SUPPRESS" ELSE "FORWARD"

\* RetxSuppressionExponential::decidePerUpstream.
DecidePerUpstream(e, f) ==
    IF f \notin DOMAIN e.out THEN "NEW"
    ELSE IF e.out[f].age < Interval(e.out[f].interval) THEN "SUPPRESS" ELSE "FORWARD"

\* incrementIntervalForOutRecord, after a FORWARD decision whose Interest was sent.
IncrementInterval(x, p, f, decision) ==
    IF decision = "FORWARD" /\ MaySend(x, p, f)
    THEN [x EXCEPT !.pit[p.n].out[f].interval = Longer(Interval(@))] ELSE x

-----------------------------------------------------------------------------
(* BestRouteStrategy, MulticastStrategy, RandomStrategy. *)

BestRoute(x, p) ==
    LET d == DecidePerPitEntry(x.pit[p.n])
        y == IF d = "FORWARD" THEN [x EXCEPT !.pit[p.n].interval = Longer(Interval(@))] ELSE x
        hops == EligibleHops(x, p, FALSE)
        unused == EligibleHops(x, p, TRUE)
    IN CASE d = "SUPPRESS" -> x
         [] d = "NEW" -> IF hops = <<>> THEN SendNoRouteNack(y, p) ELSE SendInterest(y, p, hops[1])
         [] unused # <<>> -> SendInterest(y, p, unused[1])
         [] hops = <<>> -> y
         [] \E k \in DOMAIN hops : hops[k] \notin DOMAIN y.pit[p.n].out -> Expect(y, "out-record", FALSE)
         [] OTHER -> SendInterest(y, p, EarliestUsed(y, p, hops))

Multicast(x, p) ==
    LET send(y, f) == LET d == DecidePerUpstream(y.pit[p.n], f)
                      IN IF d = "SUPPRESS" \/ ~IsNextHopEligible(y, p, f, FALSE) THEN y
                         ELSE IncrementInterval(SendInterest(y, p, f), p, f, d)
    IN Each(send, x, x.fib)

\* MulticastStrategy::afterNewNextHop: from the first in-record that may use it.
MulticastNewNextHop(x, n, f) ==
    LET from(g) == [n |-> n, in |-> g, hop0 |-> x.pit[n].hop0, nd |-> FALSE, why |-> "nexthop"]
        able == {g \in DOMAIN x.pit[n].in : IsNextHopEligible(x, from(g), f, FALSE)}
    IN IF able = {} THEN x ELSE SendInterest(x, from(CHOOSE g \in able : TRUE), f)

Random(x, p, choice) ==
    LET hops == EligibleHops(x, p, FALSE)
    IN IF hops = <<>> THEN SendNoRouteNack(x, p)
       ELSE SendInterest(x, p, hops[1 + (choice.pick % Len(hops))])

-----------------------------------------------------------------------------
(* AccessStrategy.  mi is Nil, or the last working next hop and the time its *)
(* measurements live.                                                         *)

AccessMulticast(x, p, except) ==
    LET send(y, f) == IF f = p.in \/ f = except \/ WouldViolateScope(y, p, f) THEN y
                      ELSE SendInterest(y, p, f)
    IN Each(send, x, x.fib)

\* What multicast counts as sent.
AccessSendsSome(x, p) ==
    \E k \in DOMAIN x.fib : x.fib[k] # p.in /\ ~WouldViolateScope(x, p, x.fib[k]) /\ MaySend(x, p, x.fib[k])

UsesLastNexthop(x, p) ==
    /\ x.mi # Nil
    /\ x.mi.last # p.in /\ x.mi.last \in x.faces /\ x.mi.last \in Range(x.fib)
    /\ ~WouldViolateScope(x, p, x.mi.last)
    /\ MaySend(x, p, x.mi.last)

Access(x, p) ==
    LET d == DecideFixed(x.pit[p.n])
    IN CASE d = "SUPPRESS" -> x
         [] d = "FORWARD" -> AccessMulticast(x, p, Nil)
         [] UsesLastNexthop(x, p) ->
              [SendInterest(x, p, x.mi.last) EXCEPT
                 !.pit[p.n].rto = [left |-> Rto, in |-> p.in, out |-> x.mi.last]]
         [] AccessSendsSome(x, p) -> AccessMulticast(x, p, Nil)
         [] OTHER -> SetExpiryTimer(x, p.n, 0)

\* afterRtoTimeout, with its two assertions: the timer belongs to the PIT entry, and
\* the in-record is there unless its face is gone.
AfterRtoTimeout(x, n) ==
    LET r == x.pit[n].rto
        y == [x EXCEPT !.pit[n].rto = Nil]
    IN IF r.in \notin x.faces THEN y
       ELSE IF r.in \notin DOMAIN x.pit[n].in THEN Expect(y, "in-record", FALSE)
       ELSE AccessMulticast(y, [n |-> n, in |-> r.in, hop0 |-> x.pit[n].in[r.in].hop0,
                                nd |-> FALSE, why |-> "rto"], r.out)

\* Mutation: the RTO timer is cancelled only for the Data that is measured.
AccessSatisfyMeasured(x, n, f) ==
    IF DOMAIN x.pit[n].in = {} \/ f \notin DOMAIN x.pit[n].out THEN x
    ELSE [x EXCEPT !.pit[n].rto = Nil, !.mi = [last |-> f, left |-> MeasurementsLifetime]]

\* beforeSatisfyInterest, updateMeasurements.
AccessSatisfy(x, n, f) ==
    LET y == [x EXCEPT !.pit[n].rto = Nil]
    IN IF DOMAIN x.pit[n].in = {} \/ f \notin DOMAIN x.pit[n].out THEN y
       ELSE [y EXCEPT !.mi = [last |-> f, left |-> MeasurementsLifetime]]

-----------------------------------------------------------------------------
(* AsfStrategy.  The NamespaceInfo of the FIB prefix, or, when that prefix is *)
(* above the strategy's namespace, of the first name below it: one for all    *)
(* names.  rtt of a face: -1 not measured, -2 timed out.                      *)

NewFaceInfo == [rtt |-> -1, srtt |-> -1, nTimeouts |-> 0, tmo |-> Nil, left |-> MeasurementsLifetime]

\* Every access extends the life of the measurements entry.
WithNamespaceInfo(x) ==
    [x EXCEPT !.info = IF @ = Nil
                       THEN [due |-> FALSE, first |-> FALSE, of |-> NoMap, left |-> MeasurementsLifetime]
                       ELSE [@ EXCEPT !.left = MeasurementsLifetime]]

\* getNamespaceInfo of a name: no entry is created.
Touched(x) == IF x.info = Nil THEN x ELSE WithNamespaceInfo(x)

Rtt(x, f) == IF x.info # Nil /\ f \in DOMAIN x.info.of THEN x.info.of[f].rtt ELSE -1
Srtt(x, f) == IF Rtt(x, f) >= 0 THEN x.info.of[f].srtt ELSE 0

\* getFaceRankForForwarding and getFaceRankForProbing: the groups, then the
\* smoothed RTT within the group that has one, then the order of cost.
GroupForForwarding(rtt) == CASE rtt = -1 -> 2 [] rtt = -2 -> 3 [] OTHER -> 1
GroupForProbing(rtt) == CASE rtt = -1 -> 1 [] rtt = -2 -> 3 [] OTHER -> 2

Best(x, hops, group(_)) ==
    LET better(j, k) == LET a == group(Rtt(x, hops[j]))
                            b == group(Rtt(x, hops[k]))
                        IN \/ a < b
                           \/ a = b /\ Srtt(x, hops[j]) < Srtt(x, hops[k])
                           \/ a = b /\ Srtt(x, hops[j]) = Srtt(x, hops[k]) /\ j < k
    IN hops[CHOOSE k \in DOMAIN hops : \A j \in DOMAIN hops \ {k} : better(k, j)]

\* forwardInterest.
ForwardInterest(x, p, f) ==
    LET y == WithNamespaceInfo(SendInterest(x, p, f))
        i == IF f \in DOMAIN y.info.of THEN y.info.of[f] ELSE NewFaceInfo
        tmo == IF i.tmo = Nil THEN [n |-> p.n, left |-> Rto] ELSE i.tmo
    IN [y EXCEPT !.info.of = Put(@, f, [i EXCEPT !.tmo = tmo, !.left = MeasurementsLifetime])]

\* scheduleProbe: the events keep the time they have left.
ScheduleProbe(x, delay) == [x EXCEPT !.probes = Append(@, delay)]

\* isProbingNeeded schedules the first probe of a namespace.
StartProbing(x, choice) ==
    LET y == WithNamespaceInfo(x)
    IN IF y.info.first THEN y ELSE [ScheduleProbe(y, choice.delay) EXCEPT !.info.first = TRUE]

\* getFaceToProbe: the best face that is not measured yet, or any of the others.
FaceToProbe(x, p, used, choice) ==
    LET hops == SelectSeq(x.fib, LAMBDA f : f # p.in /\ f # used /\ ~WouldViolateScope(x, p, f))
    IN IF hops = <<>> THEN Nil
       ELSE IF \E k \in DOMAIN hops : Rtt(x, hops[k]) = -1 THEN Best(x, hops, GroupForProbing)
       ELSE hops[1 + (choice.pick % Len(hops))]

\* Mutation: the probe that was sent is not followed by another.
AfterForwardingProbeLast(x) == [WithNamespaceInfo(x) EXCEPT !.info.due = FALSE]

AfterForwardingProbe(x) ==
    ScheduleProbe([WithNamespaceInfo(x) EXCEPT !.info.due = FALSE], ProbingInterval)

SendProbe(x, p, used, choice) ==
    LET y == StartProbing(x, choice)
        f == FaceToProbe(y, p, used, choice)
    IN IF ~y.info.due \/ f = Nil THEN y
       ELSE AfterForwardingProbe(ForwardInterest(y, [p EXCEPT !.why = "probe"], f))

Asf(x, p, choice) ==
    LET hops == EligibleHops(x, p, FALSE)
        unused == EligibleHops(x, p, TRUE)
        seen == IF hops = <<>> THEN x ELSE WithNamespaceInfo(x)
        f == IF unused # <<>> THEN Best(seen, unused, GroupForForwarding)
             ELSE EarliestUsed(x, p, hops)
        d == DecidePerUpstream(x.pit[p.n], f)
    IN IF ~HasPendingOutRecords(x.pit[p.n])
       THEN IF hops = <<>> THEN SendNoRouteNack(x, p)
            ELSE LET best == Best(seen, hops, GroupForForwarding)
                 IN SendProbe(ForwardInterest(seen, p, best), p, best, choice)
       ELSE IF hops = <<>> THEN x
       ELSE IF d = "SUPPRESS" THEN seen
       ELSE LET sent == IF unused # <<>> THEN ForwardInterest(seen, p, f) ELSE SendInterest(seen, p, f)
            IN IncrementInterval(sent, p, f, d)

\* beforeSatisfyInterest: the RTT estimator's smoothing is external.
AsfSatisfy(x, n, f) ==
    LET y == Touched(x)
        i == y.info.of[f]
        rtt == x.pit[n].out[f].age
        j == IF f \notin DOMAIN x.pit[n].out THEN i
             ELSE [i EXCEPT !.rtt = rtt, !.srtt = IF @ < 0 THEN rtt ELSE (@ + rtt) \div 2]
    IN IF y.info = Nil THEN y
       ELSE IF f \notin DOMAIN y.info.of THEN y
       ELSE SetExpiryTimer([y EXCEPT !.info.of[f] =
               [j EXCEPT !.left = MeasurementsLifetime, !.nTimeouts = 0,
                         !.tmo = IF @ # Nil /\ @.n = n THEN Nil ELSE @]], n, Linger)

\* onTimeoutOrNack.
OnTimeoutOrNack(x, n, f, isNack) ==
    LET y == Touched(x)
        i == y.info.of[f]
        tmo == IF i.tmo # Nil /\ i.tmo.n = n THEN Nil ELSE i.tmo
    IN IF y.info = Nil THEN y
       ELSE IF f \notin DOMAIN y.info.of THEN y
       ELSE IF i.nTimeouts + 1 < MaxSilentTimeouts /\ ~isNack
       THEN [y EXCEPT !.info.of[f] = [i EXCEPT !.nTimeouts = @ + 1, !.tmo = tmo,
                                               !.left = MeasurementsLifetime]]
       ELSE [y EXCEPT !.info.of[f] = [i EXCEPT !.nTimeouts = 0, !.tmo = tmo, !.rtt = -2]]

-----------------------------------------------------------------------------
(* SelfLearningStrategy.  The RIB thread takes the tasks in order; entry tells *)
(* whether the PIT entry a task remembers still exists.                        *)

SendMarked(x, p, f, nonDiscovery) ==
    IF MaySend(x, p, f) THEN [SendInterest(x, p, f) EXCEPT !.pit[p.n].out[f].nonDiscovery = nonDiscovery]
    ELSE x

BroadcastInterest(x, p) ==
    LET send(y, f) == SendMarked(y, p, f, FALSE)
        to == {f \in x.faces \ Local(x) : IsNextHopEligible(x, p, f, FALSE)}
    IN Each(send, x, SetToSeq(to))

MulticastInterest(x, p) ==
    LET send(y, f) == SendMarked(y, p, f, TRUE)
    IN Each(send, x, EligibleHops(x, p, FALSE))

SelfLearning(x, p) ==
    IF x.fib # <<>> THEN MulticastInterest(x, p)
    ELSE IF p.nd THEN SendNoRouteNack(x, p) ELSE BroadcastInterest(x, p)

\* Posts to the RIB thread: a prefix announcement to find, announce or renew.
PostToRib(x, op, n, f) == [x EXCEPT !.rib = Append(@, [op |-> op, n |-> n, face |-> f, entry |-> TRUE])]

NeedPrefixAnn(x, n) ==
    LET in == x.pit[n].in
        live == {f \in DOMAIN in : in[f].left > 0}
    IN (\E f \in live : ~in[f].nd) /\ ~(live \subseteq Local(x))

\* afterReceiveData, asyncProcessData: the Data waits for the RIB thread.
SelfLearningData(x, n, f, announced) ==
    LET out == x.pit[n].out
    IN CASE f \notin DOMAIN out -> x
         [] out[f].nonDiscovery /\ NeedPrefixAnn(x, n) ->
              [PostToRib(SetExpiryTimer(x, n, Linger), "find", n, f) EXCEPT !.pit[n].delayed = TRUE]
         [] out[f].nonDiscovery -> SendDataToAll(x, n, f)
         [] OTHER -> SendDataToAll(IF announced THEN PostToRib(x, "announce", n, f) ELSE x, n, f)

\* Only a Nack with reason NoRoute is passed on.  The assertion there, that the FIB
\* entry has next hops, fails when the Interest was broadcast for want of them.
SelfLearningNack(x, n, f, noRoute) ==
    IF noRoute THEN PostToRib(SendNacks(x, n, DOMAIN x.pit[n].in), "renew", n, f) ELSE x

-----------------------------------------------------------------------------
(* The triggers, by strategy. *)

AfterReceiveInterest(x, p, choice) ==
    CASE x.sc.kind = "best-route" -> BestRoute(x, p)
      [] x.sc.kind = "multicast" -> Multicast(x, p)
      [] x.sc.kind = "random" -> Random(x, p, choice)
      [] x.sc.kind = "access" -> Access(x, p)
      [] x.sc.kind = "asf" -> Asf(x, p, choice)
      [] x.sc.kind = "self-learning" -> SelfLearning(x, p)

BeforeSatisfyInterest(x, n, f) ==
    CASE x.sc.kind = "access" -> AccessSatisfy(x, n, f)
      [] x.sc.kind = "asf" -> AsfSatisfy(x, n, f)
      [] OTHER -> x

AfterReceiveData(x, n, f, announced) ==
    IF x.sc.kind = "self-learning" THEN SelfLearningData(x, n, f, announced)
    ELSE SendDataToAll(BeforeSatisfyInterest(x, n, f), n, f)

\* processNack: the Nack goes on when every upstream, or every one but a
\* downstream, has sent one.
ProcessNack(x, n) ==
    LET e == x.pit[n]
        waiting == {f \in DOMAIN e.out : ~e.out[f].nack}
    IN IF Cardinality(waiting) = 1 /\ waiting \subseteq DOMAIN e.in THEN SendNacks(x, n, waiting)
       ELSE IF waiting # {} THEN x ELSE SendNacks(x, n, DOMAIN e.in)

AfterReceiveNack(x, n, f, noRoute) ==
    CASE x.sc.kind \in {"best-route", "random"} -> ProcessNack(x, n)
      [] x.sc.kind = "asf" -> ProcessNack(OnTimeoutOrNack(x, n, f, TRUE), n)
      [] x.sc.kind = "self-learning" -> SelfLearningNack(x, n, f, noRoute)
      [] OTHER -> x

-----------------------------------------------------------------------------
(* The pipelines. *)

Packet == packets < MaxPackets /\ packets' = packets + 1

\* onContentStoreMiss; an application may have chosen the next hop by its FaceId.
ContentStoreMiss(x, p, to, choice) ==
    LET in == [left |-> Lifetime, nd |-> p.nd, hop0 |-> p.hop0]
        y == SetExpiryTimer([x EXCEPT !.pit[p.n].in = Put(@, p.in, in)], p.n, Lifetime)
    IN IF to = Nil THEN AfterReceiveInterest(y, p, choice)
       ELSE IF to \in x.faces THEN SendInterest(y, [p EXCEPT !.why = "chosen"], to) ELSE y

\* The Content Store is asked when no Interest is pending; it may have dropped
\* the Data it was given.
ReceiveInterest ==
    /\ Packet
    /\ \E n \in s.sc.names, in \in s.sc.downstreams \cap s.faces, tag \in s.sc.tags,
          choice \in [pick : 0 .. Len(s.fib), delay : FirstProbe], hit \in BOOLEAN :
         LET p == [n |-> n, in |-> in, hop0 |-> tag.hop0, nd |-> tag.nd, why |-> "interest"]
             x == IF n \in DOMAIN s.pit THEN s ELSE [s EXCEPT !.pit = Put(@, n, NewPitEntry(p))]
         IN /\ s.sc.scope = "localhost" => in \in Local(s)
            /\ s.sc.kind \notin {"random", "asf"} => choice.pick = 0
            /\ s.sc.kind # "asf" => choice.delay = CHOOSE dl \in FirstProbe : TRUE
            /\ hit => n \in s.cs /\ DOMAIN x.pit[n].in = {}
            /\ s' = IF hit THEN SetExpiryTimer(x, n, 0) ELSE ContentStoreMiss(x, p, tag.to, choice)

\* One of several entries that the Data satisfies: no strategy decides whom to send it to.
SatisfyOneOfMany(x, n, f) ==
    LET y == BeforeSatisfyInterest(SetExpiryTimer(x, n, 0), n, f)
    IN [y EXCEPT !.pit[n].in = NoMap, !.pit[n].out = Drop(@, {f})]

\* The Data satisfies the entries ns; the strategy decides when there is only one.
ReceiveData ==
    /\ Packet
    /\ \E ns \in SUBSET DOMAIN s.pit \ {{}}, announced \in BOOLEAN, f \in s.faces :
         LET n == CHOOSE m \in ns : TRUE
             x == AfterReceiveData(SetExpiryTimer(s, n, 0), n, f, announced)
             satisfy(y, m) == SatisfyOneOfMany(y, m, f)
             y == IF ns = {n} THEN [x EXCEPT !.pit[n].out = Drop(@, {f})]
                  ELSE Each(satisfy, s, SetToSeq(ns))
         IN /\ s.sc.scope = "localhost" => f \in Local(s)
            /\ announced => s.sc.kind = "self-learning"
            /\ s' = [y EXCEPT !.cs = IF s.sc.scope = "localhost" THEN @ ELSE @ \cup ns]

ReceiveNack ==
    /\ Packet
    /\ \E n \in DOMAIN s.pit, noRoute \in BOOLEAN : \E f \in DOMAIN s.pit[n].out \ AdHoc(s) :
         LET x == [s EXCEPT !.pit[n].out[f].nack = TRUE]
             y == IF HasPendingOutRecords(x.pit[n]) THEN x ELSE SetExpiryTimer(x, n, 0)
         IN /\ s.sc.kind # "self-learning" => noRoute
            /\ s' = AfterReceiveNack(y, n, f, noRoute)

\* Forwarder::onNewNextHop, for the PIT entries below the FIB entry.
NewNextHop(x, f) ==
    LET y == [x EXCEPT !.fib = Append(@, f)]
        tell(z, n) == MulticastNewNextHop(z, n, f)
    IN IF x.sc.kind # "multicast" THEN y ELSE Each(tell, y, SetToSeq(DOMAIN y.pit))

GainNextHop ==
    /\ Packet
    /\ \E f \in (s.sc.routable \cap s.faces) \ Range(s.fib) : s' = NewNextHop(s, f)

LoseNextHop ==
    /\ Packet
    /\ \E f \in s.sc.routable \cap Range(s.fib) : s' = [s EXCEPT !.fib = SelectSeq(@, LAMBDA g : g # f)]

\* cleanupOnFaceRemoval, and the face is no longer in the FaceTable.
RemoveFace ==
    /\ Packet
    /\ \E f \in s.sc.mortal \cap s.faces :
         s' = [s EXCEPT !.faces = @ \ {f}, !.fib = SelectSeq(@, LAMBDA g : g # f),
                        !.pit = [n \in DOMAIN @ |-> [@[n] EXCEPT !.in = Drop(@, {f}), !.out = Drop(@, {f})]]]

\* The RIB thread's answers: the announcement is found or not, the route is
\* announced or its lifetime set to zero (unless it has no announcement).
RibTask ==
    /\ s.rib # <<>>
    /\ LET t == Head(s.rib)
           x == [s EXCEPT !.rib = Tail(@)]
       IN \/ /\ t.op = "find" /\ t.entry /\ t.face \in s.faces
             /\ s' = [SetExpiryTimer(SendDataToAll(x, t.n, t.face), t.n, 0) EXCEPT !.pit[t.n].delayed = FALSE]
          \/ t.op = "announce" /\ t.face \in s.faces \ Range(s.fib) /\ s' = NewNextHop(x, t.face)
          \/ t.op = "renew" /\ s' = [x EXCEPT !.fib = SelectSeq(@, LAMBDA g : g # t.face)]
          \/ s' = x
    /\ UNCHANGED packets

-----------------------------------------------------------------------------
(* The timers and the passing of time. *)

\* onInterestFinalize: the entry, its strategy info and so its RTO timer are gone.
InterestFinalize ==
    /\ \E n \in DOMAIN s.pit :
         /\ s.pit[n].timer = 0
         /\ s' = [s EXCEPT !.pit = Drop(@, {n}),
                           !.rib = [k \in DOMAIN @ |-> IF @[k].n = n THEN [@[k] EXCEPT !.entry = FALSE] ELSE @[k]]]
    /\ UNCHANGED packets

RtoTimer ==
    /\ \E n \in DOMAIN s.pit :
         s.pit[n].rto # Nil /\ s.pit[n].rto.left = 0 /\ s' = AfterRtoTimeout(s, n)
    /\ UNCHANGED packets

AsfTimeout ==
    /\ s.info # Nil
    /\ \E f \in DOMAIN s.info.of :
         LET i == s.info.of[f]
         IN /\ i.tmo # Nil /\ i.tmo.left = 0
            /\ s' = OnTimeoutOrNack([s EXCEPT !.info.of[f].tmo = Nil], i.tmo.n, f, FALSE)
    /\ UNCHANGED packets

\* The event of scheduleProbe looks for the FIB prefix: nothing is found when that
\* prefix is not in the strategy's namespace, or its measurements are gone.
ProbeTimer ==
    /\ \E k \in DOMAIN s.probes :
         /\ s.probes[k] = 0
         /\ LET x == [s EXCEPT !.probes = RemoveAt(@, k)]
            IN s' = IF s.info = Nil \/ ~s.sc.fibUnder THEN x
                    ELSE [WithNamespaceInfo(x) EXCEPT !.info.due = TRUE]
    /\ UNCHANGED packets

MeasurementsExpire ==
    /\ \/ s.mi # Nil /\ s.mi.left = 0 /\ s' = [s EXCEPT !.mi = Nil]
       \/ s.info # Nil /\ s.info.left = 0 /\ s' = [s EXCEPT !.info = Nil]
       \/ /\ s.info # Nil
          /\ \E f \in DOMAIN s.info.of : s.info.of[f].left = 0 /\ s' = [s EXCEPT !.info.of = Drop(@, {f})]
    /\ UNCHANGED packets

TimerIsDue ==
    \/ \E n \in DOMAIN s.pit : s.pit[n].timer = 0 \/ (s.pit[n].rto # Nil /\ s.pit[n].rto.left = 0)
    \/ \E k \in DOMAIN s.probes : s.probes[k] = 0
    \/ s.mi # Nil /\ s.mi.left = 0
    \/ /\ s.info # Nil
       /\ \/ s.info.left = 0
          \/ \E f \in DOMAIN s.info.of :
               s.info.of[f].left = 0 \/ (s.info.of[f].tmo # Nil /\ s.info.of[f].tmo.left = 0)

Down(t) == IF t < 0 THEN t ELSE t - 1
Older(a) == IF a < MaxInterval THEN a + 1 ELSE a
Later(r) == IF r = Nil THEN Nil ELSE [r EXCEPT !.left = Down(@)]

Tick ==
    /\ ~TimerIsDue
    /\ \/ DOMAIN s.pit # {} \/ s.probes # <<>> \/ s.mi # Nil \/ s.info # Nil
    /\ s' = [s EXCEPT
         !.pit = [n \in DOMAIN @ |-> [@[n] EXCEPT
            !.timer = @ - 1, !.rto = Later(@),
            !.in = [f \in DOMAIN @ |-> Later(@[f])],
            !.out = [f \in DOMAIN @ |-> [Later(@[f]) EXCEPT !.age = Older(@)]]]],
         !.mi = Later(@),
         !.probes = [k \in DOMAIN @ |-> @[k] - 1],
         !.info = IF @ = Nil THEN Nil
                  ELSE [Later(@) EXCEPT !.of = [f \in DOMAIN @ |-> [Later(@[f]) EXCEPT !.tmo = Later(@)]]]]
    /\ UNCHANGED packets

StratInit == s \in {NewNode(sc) : sc \in StratScenarios} /\ packets = 0

StratNext ==
    \/ ReceiveInterest \/ ReceiveData \/ ReceiveNack
    \/ GainNextHop \/ LoseNextHop \/ RemoveFace \/ RibTask
    \/ InterestFinalize \/ RtoTimer \/ AsfTimeout \/ ProbeTimer \/ MeasurementsExpire \/ Tick

StratSpec == StratInit /\ [][StratNext]_stratVars

-----------------------------------------------------------------------------
(* Properties. *)

\* The assertions of afterRtoTimeout (access-strategy.cpp) and of
\* findEligibleNextHopWithEarliestOutRecord (algorithm.cpp) hold: an RTO timer that
\* fires finds the in-record it was set for, whatever Data, Nacks, removed faces and
\* retransmissions came in between, and a retry has an out-record to compare.
StrategiesFindRecords == s.broken = {}

\* Retransmissions are spaced by RetxSuppressionExponential and RetxSuppressionFixed, and
\* further apart with each one.  Multicast sends no Interest again on an upstream, Nacked
\* or not, before the interval has passed that doubles with each retransmission there; ASF
\* neither while any out-record of the entry is pending; best-route sends nothing for such
\* an entry before the interval of the entry has passed, and the access strategy nothing on
\* the same upstream within its fixed one.  An out-record with a Nack is not pending, even
\* if the Nack is for an earlier Interest (see NackIsForLastInterest of module Forwarder).
RetxIsSpaced ==
    s.sc.kind \in {"best-route", "multicast", "access", "asf"} => "interest" \notin s.early

\* Once ASF has scheduled the first probe of a namespace, a probe is due or an event
\* that makes one due is pending, through expiry and re-creation of the measurements.
ProbingNeverStops ==
    s.sc.fibUnder /\ s.info # Nil => (s.info.first => s.info.due \/ s.probes # <<>>)

=============================================================================

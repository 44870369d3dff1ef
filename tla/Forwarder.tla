------------------------------ MODULE Forwarder ------------------------------
(***************************************************************************)
(* The forwarding pipelines: what the forwarder does with an incoming      *)
(* Interest, Data or Nack, with a PIT entry whose expiry timer fires, and  *)
(* with a face that comes or goes.  Each pipeline runs to its end on the   *)
(* main thread, the strategy callbacks it triggers included, and is one    *)
(* action here.                                                            *)
(*                                                                         *)
(* Time is a countdown: a record or a timer holds the ticks it has left,   *)
(* and Tick takes one from all of them.  A timer at 0 is due, and may be   *)
(* late: other events can be handled first.  The strategy is any of        *)
(* best-route, multicast and random: which eligible next hops it uses is   *)
(* left open.  So is whether the Content Store still has, and may serve,   *)
(* what was inserted, and which packets a hop limit stops.                 *)
(***************************************************************************)
EXTENDS Integers, FiniteSets, Functions

CONSTANTS Interests,      \* what distinguishes PIT entries: name and selectors
          NameOf,         \* the name of each Interest
          Scope,          \* "localhost", "localhop" or "global", of each Interest
          MustBeFresh,    \* the Interests with that selector
          Data, Matches,  \* Data packets, and the Interests each one satisfies
          LocalhostData,  \* Data packets under /localhost
          ShortLived,     \* Data with a freshness period below the DNL lifetime
          Faces, Local, PointToPoint, AdHoc,
          \* the faces Interests come from, those routes lead to, those that may go
          Downstreams, Upstreams, Removable,
          Nonces, MaxLifetime, PitCapacity

VARIABLES faces,   \* FaceTable
          pit,     \* the PIT entries, by Interest
          dnl,     \* the Dead Nonce List, as pairs of name and Nonce
          cs,      \* Data packets that were inserted into the Content Store
          sent     \* the packets the last step sent

fwVars == <<faces, pit, dnl, cs, sent>>

NoNonce == "none"

ASSUME FwConstants ==
    /\ DOMAIN NameOf = Interests
    /\ Scope \in [Interests -> {"localhost", "localhop", "global"}]
    /\ Matches \in [Data -> SUBSET Interests]
    /\ Local \cup PointToPoint \cup AdHoc \subseteq Faces
    /\ Downstreams \cup Upstreams \cup Removable \subseteq Faces
    /\ PointToPoint \cap AdHoc = {}
    /\ NoNonce \notin Nonces
    /\ MaxLifetime \in Nat \ {0}
    /\ PitCapacity \in Nat \ {0}

Packet(kind, face, what) == [kind |-> kind, face |-> face, what |-> what]

-----------------------------------------------------------------------------
(* PIT entries.  out[f].nack is the Nonce of the Nack on the out-record;   *)
(* out[f].unanswered says that no Data came since the Interest was sent.   *)
(* now says that the timer was set to expire at once, and not at the       *)
(* expiry of an in-record.                                                 *)

InRecord(n, lt) == [nonce |-> n, left |-> lt]

OutRecord(n, lt, nack) == [nonce |-> n, left |-> lt, unanswered |-> TRUE, nack |-> nack]

NewEntry(n, lt) ==
    [first |-> InRecord(n, lt),
     in |-> << >>, out |-> << >>,
     satisfied |-> FALSE, short |-> FALSE,
     timer |-> 0, now |-> TRUE]

EntryOf(i, n, lt) == IF i \in DOMAIN pit THEN pit[i] ELSE NewEntry(n, lt)

Store(i, e) == [j \in DOMAIN pit \cup {i} |-> IF j = i THEN e ELSE pit[j]]

(* Entry::insertOrUpdateInRecord.                                          *)
InsertIn(e, f, n, lt) ==
    [e EXCEPT !.in = [g \in DOMAIN @ \cup {f} |->
                        IF g = f THEN InRecord(n, lt) ELSE @[g]]]

(* Entry::insertOrUpdateOutRecord for every face of S.  An existing record *)
(* keeps the Nack it has.                                                  *)
InsertOut(e, S, n, lt) ==
    [e EXCEPT !.out = [g \in DOMAIN @ \cup S |->
        IF g \notin S THEN @[g]
        ELSE OutRecord(n, lt, IF g \in DOMAIN @ THEN @[g].nack ELSE NoNonce)]]

DeleteIn(e, F) == [e EXCEPT !.in = Restrict(@, DOMAIN @ \ F)]

DeleteOut(e, F) == [e EXCEPT !.out = Restrict(@, DOMAIN @ \ F)]

(* Forwarder::setExpiryTimer with 0_ms.                                    *)
ExpireNow(e) == [e EXCEPT !.timer = 0, !.now = TRUE]

(* Mutation: the timer is set for the Interest at hand, also when another  *)
(* downstream is waiting longer.                                           *)
ExpireWithLatest(e, lt) == [e EXCEPT !.timer = lt, !.now = FALSE]

(* Forwarder::setExpiryTimer with the expiry of the last in-record.        *)
ExpireWithLast(e, lt) ==
    [e EXCEPT !.timer = CHOOSE t \in {e.in[f].left : f \in DOMAIN e.in} :
                           \A f \in DOMAIN e.in : e.in[f].left <= t,
              !.now = FALSE]

(* fw::findDuplicateNonce; from a point-to-point face the same Nonce again *)
(* is a retransmission.                                                    *)
HasDuplicateNonce(e, n, f) ==
    LET same  == f \in DOMAIN e.in /\ e.in[f].nonce = n
        other == \/ \E g \in DOMAIN e.in \ {f} : e.in[g].nonce = n
                 \/ \E g \in DOMAIN e.out : e.out[g].nonce = n
    IN  IF f \in PointToPoint THEN other /\ ~ same ELSE same \/ other

(* fw::wouldViolateScope and fw::isNextHopEligible.                        *)
Eligible(i, f, g) ==
    /\ g # f \/ g \in AdHoc
    /\ \/ g \in Local
       \/ Scope[i] = "global"
       \/ Scope[i] = "localhop" /\ f \in Local

-----------------------------------------------------------------------------
(* Dead Nonce List.                                                        *)

NeedDnl(i, e) == e.satisfied => i \in MustBeFresh /\ e.short

(* Forwarder::insertDeadNonceList for the out-records of the faces F.      *)
DeadNonces(i, e, F) ==
    IF NeedDnl(i, e) THEN {<<NameOf[i], e.out[g].nonce>> : g \in DOMAIN e.out \cap F} ELSE {}

(* The list drops its oldest entries (DeadNonceList::evictEntries).        *)
ForgetNonce(x) ==
    /\ x \in dnl
    /\ dnl' = dnl \ {x}
    /\ sent' = {}
    /\ UNCHANGED <<faces, pit, cs>>

-----------------------------------------------------------------------------
(* Incoming Interest pipeline.                                             *)

IsLooping(i, n, f) ==
    \/ <<NameOf[i], n>> \in dnl
    \/ i \in DOMAIN pit /\ HasDuplicateNonce(pit[i], n, f)

(* /localhost scope control.                                               *)
MayEnter(i, f) == Scope[i] = "localhost" => f \in Local

HasRoom(i) == i \in DOMAIN pit \/ Cardinality(DOMAIN pit) < PitCapacity

(* The Interest is dropped: its hop limit is 0, or it may not enter, or    *)
(* the PIT has no block for it.                                            *)
DropInterest(f) ==
    /\ f \in faces
    /\ sent' = {}
    /\ UNCHANGED <<faces, pit, dnl, cs>>

(* Forwarder::onInterestLoop and Strategy::onInterestLoop.                 *)
InterestLoop(i, n, f) ==
    /\ f \in faces
    /\ MayEnter(i, f)
    /\ IsLooping(i, n, f)
    /\ sent' = IF f \in PointToPoint THEN {Packet("nack", f, i)} ELSE {}
    /\ UNCHANGED <<faces, pit, dnl, cs>>

Accepts(i, n, f) ==
    /\ f \in faces
    /\ MayEnter(i, f)
    /\ ~ IsLooping(i, n, f)
    /\ HasRoom(i)

(* Forwarder::onOutgoingData to the faces F.                               *)
OutgoingData(d, F) ==
    {Packet("data", f, d) : f \in IF d \in LocalhostData THEN F \cap Local ELSE F}

(* onContentStoreHit.  The entry has no in-record, so sendData finds none. *)
ContentStoreHit(i, n, f, lt, d) ==
    /\ Accepts(i, n, f)
    /\ EntryOf(i, n, lt).in = << >>
    /\ d \in cs
    /\ i \in Matches[d]
    /\ pit' = Store(i, [ExpireNow(EntryOf(i, n, lt)) EXCEPT
                          !.satisfied = TRUE, !.short = d \in ShortLived])
    /\ sent' = OutgoingData(d, {f})
    /\ UNCHANGED <<faces, dnl, cs>>

(* onContentStoreMiss: the in-record and the expiry timer.                 *)
Pending(i, n, f, lt) == ExpireWithLast(InsertIn(EntryOf(i, n, lt), f, n, lt), lt)

(* Forwarder::onOutgoingNack to the faces F: those that have an in-record  *)
(* and are point-to-point.                                                 *)
NackedFaces(e, F) == F \cap DOMAIN e.in \cap PointToPoint

OutgoingNacks(i, e, F) == {Packet("nack", f, i) : f \in NackedFaces(e, F)}

(* The Interest goes to the faces S: a face the application chose with     *)
(* NextHopFaceId, or eligible next hops the strategy chose, or none.       *)
ForwardInterest(i, n, f, lt, S) ==
    /\ Accepts(i, n, f)
    /\ S \subseteq faces
    /\ Cardinality(S) = 1 \/ \A g \in S : Eligible(i, f, g)
    /\ pit' = Store(i, InsertOut(Pending(i, n, f, lt), S, n, lt))
    /\ sent' = {Packet("interest", g, i) : g \in S}
    /\ UNCHANGED <<faces, dnl, cs>>

(* The strategy has no next hop for a new Interest: it returns a Nack and  *)
(* rejects the Interest.                                                   *)
RejectInterest(i, n, f, lt) ==
    /\ Accepts(i, n, f)
    /\ LET e == Pending(i, n, f, lt)
       IN  /\ pit' = Store(i, ExpireNow(DeleteIn(e, NackedFaces(e, {f}))))
           /\ sent' = OutgoingNacks(i, e, {f})
    /\ UNCHANGED <<faces, dnl, cs>>

-----------------------------------------------------------------------------
(* Incoming Data pipeline.                                                 *)

(* The downstreams still waiting; Data does not go back where it came from *)
(* unless that is an ad hoc face.                                          *)
PendingDownstreams(e, g) ==
    {f \in DOMAIN e.in : e.in[f].left > 0 /\ (f # g \/ f \in AdHoc)}

(* What happens to an entry that Data d from g satisfies, F being the      *)
(* in-records that are deleted, before the out-record of g is deleted.     *)
Satisfied(e, d, F) ==
    [ExpireNow(DeleteIn(e, F)) EXCEPT
        !.satisfied = TRUE, !.short = d \in ShortLived,
        !.out = [g \in DOMAIN @ |-> [@[g] EXCEPT !.unanswered = FALSE]]]

(* Mutation: the out-record is deleted before its Nonce is recorded.       *)
SatisfyTooEarly(i, e, d, g, F) ==
    LET s == DeleteOut(Satisfied(e, d, F), {g})
    IN  [entry |-> s, dead |-> DeadNonces(i, s, {g})]

(* The end of the pipeline for one entry, and the Nonces that die in it.   *)
Satisfy(i, e, d, g, F) ==
    LET s == Satisfied(e, d, F)
    IN  [entry |-> DeleteOut(s, {g}), dead |-> DeadNonces(i, s, {g})]

(* Mutation: only the entry with the longest match gets the Data.          *)
FirstMatch(d) ==
    LET all == Matches[d] \cap DOMAIN pit IN IF all = {} THEN {} ELSE {CHOOSE i \in all : TRUE}

(* Pit::findAllDataMatches.                                                *)
AllDataMatches(d) == Matches[d] \cap DOMAIN pit

(* Cs::insert, which may or may not keep the Data and never caches         *)
(* /localhost.                                                             *)
Cached(d) == {cs, cs \cup ({d} \ LocalhostData)}

(* onIncomingData with one match, where afterReceiveData sends to the      *)
(* pending downstreams and deletes their in-records, or with several, where*)
(* the pipeline itself does so and clears all in-records.                  *)
SatisfyingData(d, g) ==
    LET all == AllDataMatches(d)
        gone(i) == IF Cardinality(all) = 1 THEN PendingDownstreams(pit[i], g) ELSE DOMAIN pit[i].in
        done == [i \in all |-> Satisfy(i, pit[i], d, g, gone(i))]
    IN  /\ all # {}
        /\ pit' = [i \in DOMAIN pit |-> IF i \in all THEN done[i].entry ELSE pit[i]]
        /\ dnl' = dnl \cup UNION {done[i].dead : i \in all}
        /\ sent' = OutgoingData(d, UNION {PendingDownstreams(pit[i], g) : i \in all})
        /\ cs' \in Cached(d)

(* onDataUnsolicited: the policy may admit the Data to the Content Store.  *)
UnsolicitedData(d) ==
    /\ AllDataMatches(d) = {}
    /\ cs' \in Cached(d)
    /\ sent' = {}
    /\ UNCHANGED <<pit, dnl>>

ReceiveData(d, g) ==
    /\ g \in faces
    /\ d \in LocalhostData => g \in Local
    /\ SatisfyingData(d, g) \/ UnsolicitedData(d)
    /\ UNCHANGED faces

-----------------------------------------------------------------------------
(* Incoming Nack pipeline.                                                 *)

(* fw::hasPendingOutRecords.                                               *)
HasPendingOut(e) == \E g \in DOMAIN e.out : e.out[g].left > 0 /\ e.out[g].nack = NoNonce

(* ProcessNackTraitsBase::processNack: the faces that are sent a Nack.     *)
ProcessNack(e) ==
    LET waiting == {g \in DOMAIN e.out : e.out[g].nack = NoNonce}
    IN  IF waiting = {} THEN DOMAIN e.in
        ELSE IF Cardinality(waiting) = 1 THEN waiting \cap DOMAIN e.in ELSE {}

(* onIncomingNack for the Interest last sent to g.  Multicast ignores the  *)
(* Nack; the other strategies process it.                                  *)
ReceiveNack(i, n, g) ==
    /\ g \in faces \cap PointToPoint
    /\ i \in DOMAIN pit
    /\ g \in DOMAIN pit[i].out
    /\ pit[i].out[g].nonce = n
    /\ LET e == [pit[i] EXCEPT !.out[g].nack = n]
           t == IF HasPendingOut(e) THEN e ELSE ExpireNow(e)
       IN  \E F \in {{}, ProcessNack(t)} :
              /\ pit' = [pit EXCEPT ![i] = DeleteIn(t, NackedFaces(t, F))]
              /\ sent' = OutgoingNacks(i, t, F)
    /\ UNCHANGED <<faces, dnl, cs>>

-----------------------------------------------------------------------------
(* Timers, next hops and faces.                                            *)

(* Mutation: an entry is kept as long as it has an in-record.              *)
FinalizeUnlessAsked(i) ==
    /\ i \in DOMAIN pit
    /\ pit[i].timer = 0
    /\ pit[i].in = << >>
    /\ dnl' = dnl \cup DeadNonces(i, pit[i], Faces)
    /\ pit' = Restrict(pit, DOMAIN pit \ {i})
    /\ sent' = {}
    /\ UNCHANGED <<faces, cs>>

(* Forwarder::onInterestFinalize.                                          *)
Finalize(i) ==
    /\ i \in DOMAIN pit
    /\ pit[i].timer = 0
    /\ dnl' = dnl \cup DeadNonces(i, pit[i], Faces)
    /\ pit' = Restrict(pit, DOMAIN pit \ {i})
    /\ sent' = {}
    /\ UNCHANGED <<faces, cs>>

Less(t) == IF t > 0 THEN t - 1 ELSE 0

Aged(e) ==
    [e EXCEPT !.timer = Less(@),
              !.in = [f \in DOMAIN @ |-> [@[f] EXCEPT !.left = Less(@)]],
              !.out = [f \in DOMAIN @ |-> [@[f] EXCEPT !.left = Less(@)]]]

Tick ==
    /\ pit' = [i \in DOMAIN pit |-> Aged(pit[i])]
    /\ pit' # pit
    /\ sent' = {}
    /\ UNCHANGED <<faces, dnl, cs>>

(* onNewNextHop with MulticastStrategy::afterNewNextHop: the Interest the  *)
(* entry was made of goes to the new next hop g.                           *)
NewNextHop(i, g) ==
    /\ g \in faces
    /\ i \in DOMAIN pit
    /\ \E f \in DOMAIN pit[i].in : Eligible(i, f, g)
    /\ pit' = [pit EXCEPT ![i] = InsertOut(@, {g}, @.first.nonce, @.first.left)]
    /\ sent' = {Packet("interest", g, i)}
    /\ UNCHANGED <<faces, dnl, cs>>

AddFace(f) ==
    /\ f \notin faces
    /\ faces' = faces \cup {f}
    /\ sent' = {}
    /\ UNCHANGED <<pit, dnl, cs>>

(* Pit::deleteInOutRecords.                                                *)
DeleteInOutRecords(e, f) == DeleteOut(DeleteIn(e, {f}), {f})

RemoveFace(f) ==
    /\ f \in faces
    /\ faces' = faces \ {f}
    /\ pit' = [i \in DOMAIN pit |-> DeleteInOutRecords(pit[i], f)]
    /\ sent' = {}
    /\ UNCHANGED <<dnl, cs>>

-----------------------------------------------------------------------------
FwInit ==
    /\ faces = Faces
    /\ pit = << >>
    /\ dnl = {}
    /\ cs = {}
    /\ sent = {}

ReceiveInterest(i, n, f, lt) ==
    \/ InterestLoop(i, n, f)
    \/ \E d \in Data : ContentStoreHit(i, n, f, lt, d)
    \/ \E S \in SUBSET Upstreams : ForwardInterest(i, n, f, lt, S)
    \/ RejectInterest(i, n, f, lt)

(* Every other event.                                                      *)
FwEvent ==
    \/ \E i \in Interests : Finalize(i)
    \/ \E i \in Interests, n \in Nonces, g \in Upstreams : ReceiveNack(i, n, g)
    \/ \E i \in Interests, g \in Upstreams : NewNextHop(i, g)
    \/ \E d \in Data, g \in Upstreams : ReceiveData(d, g)
    \/ \E f \in Downstreams : DropInterest(f)
    \/ \E f \in Removable : AddFace(f) \/ RemoveFace(f)
    \/ \E x \in dnl : ForgetNonce(x)
    \/ Tick

FwNext ==
    \/ \E i \in Interests, n \in Nonces, f \in Downstreams, lt \in 1 .. MaxLifetime :
          ReceiveInterest(i, n, f, lt)
    \/ FwEvent

(* Time passes, and the scheduler runs a timer that is due.                *)
FwSpec ==
    /\ FwInit
    /\ [][FwNext]_fwVars
    /\ WF_fwVars(Tick)
    /\ \A i \in Interests : WF_fwVars(Finalize(i))

-----------------------------------------------------------------------------
(* A PIT entry is not erased by time while a downstream still waits on it: *)
(* unless a pipeline made the timer expire at once, it runs at least as    *)
(* long as every in-record, whatever records came, went or were renewed.   *)
TimerCoversDownstreams ==
    \A i \in DOMAIN pit :
        ~ pit[i].now => \A f \in DOMAIN pit[i].in : pit[i].in[f].left <= pit[i].timer

(* Incoming Data reaches exactly the downstreams that wait for it, in all  *)
(* the entries it matches, once each: their in-records are gone afterwards.*)
DataReachesDownstreams ==
    [][\A d \in Data, g \in Upstreams : ReceiveData(d, g) =>
          LET waiting(i) == {f \in DOMAIN pit[i].in : pit[i].in[f].left > 0 /\ (f # g \/ f \in AdHoc)}
              all == Matches[d] \cap DOMAIN pit
          IN  /\ {m.face : m \in sent'} =
                    {f \in UNION {waiting(i) : i \in all} : d \in LocalhostData => f \in Local}
              /\ \A i \in all : i \in DOMAIN pit' /\ waiting(i) \cap DOMAIN pit'[i].in = {}]_fwVars

(* For Interests that must be answered with fresh Data, and Data that is   *)
(* stale before the Dead Nonce List forgets, every Nonce is in the list    *)
(* when Data or the expiry timer erases its out-record, so that a loop is  *)
(* still recognised.                                                       *)
DeadNoncesListed ==
    [][\A i \in DOMAIN pit \cap MustBeFresh : \A g \in DOMAIN pit[i].out :
          /\ faces' = faces
          /\ i \notin DOMAIN pit' \/ g \notin DOMAIN pit'[i].out
          => <<NameOf[i], pit[i].out[g].nonce>> \in dnl']_fwVars

(* "A non-null return value means the last outgoing Interest has been      *)
(* Nacked" (OutRecord::getIncomingNack): the Nack on an out-record is for  *)
(* the Nonce that was last sent there.                                     *)
NackIsForLastInterest ==
    \A i \in DOMAIN pit : \A g \in DOMAIN pit[i].out :
        pit[i].out[g].nack \in {NoNonce, pit[i].out[g].nonce}

(* The expiry timer of i is set to a later time than it had.               *)
PushedBack(i) ==
    /\ i \in DOMAIN pit'
    /\ i \notin DOMAIN pit \/ pit'[i].timer > pit[i].timer

(* No PIT entry stays for ever: each one is erased again and again, unless *)
(* its timer, which every pipeline leaves armed, is pushed back for ever,  *)
(* as only a new Interest does (setExpiryTimer).                           *)
EntriesEnd ==
    \A i \in Interests : []<>(i \notin DOMAIN pit) \/ []<><<PushedBack(i)>>_fwVars

=============================================================================

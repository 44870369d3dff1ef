----------------------------- MODULE LinkService -----------------------------
(***************************************************************************)
(* The link services of the two ends of a face (daemon/face/                *)
(* generic-link-service.cpp) with their fragmenter, reassembler and         *)
(* LpReliability, over a link that loses, duplicates, delays and reorders.  *)
(*                                                                          *)
(* Sizes are counted in small units: MTU, payload sizes and the header      *)
(* overheads keep the code's arithmetic.  Sequence and TxSequence numbers   *)
(* are modulo SeqRange, for the 2^64 of lp::Sequence, and start where a     *)
(* long-running face may be, so that they wrap.  A packet left on the wire  *)
(* forever is a lost one, and a timer may fire whenever it is set.          *)
(***************************************************************************)
EXTENDS Integers, Sequences, FiniteSets, SequencesExt

CONSTANTS
  Nodes,          \* the two ends of the link
  Senders,        \* the ends that send network-layer packets
  Scenarios,      \* the settings of a behaviour, with its bounds; see Setting
  Overrides,      \* the overrideMtu that a face may be given
  SeqRange,       \* Sequence and TxSequence numbers are modulo this
  StartTx,        \* m_lastTxSeqNo when the behaviour starts
  LossThreshold,  \* LpReliability::Options::seqNumLossThreshold
  MaxFragments,   \* nMaxFragments of the fragmenter and the reassembler
  AckSize         \* the octets of an Ack field

VARIABLES
  scn,      \* the scenario of this behaviour
  ls,       \* ls[n]: the state of end n's link service
  wire,     \* the LpPackets under way, each with its destination
  sent,     \* the network-layer packets passed to sendNetPacket, in order
  got,      \* history: what each end passed up: [id, seqs, payload, tags]
  seen,     \* history: the <<id, index>> of the fragments each end processed
  used      \* how often the bounded things happened

linkVars == <<scn, ls, wire, sent, got, seen, used>>

\* A scenario: the Options of both ends, LpReliability::Options::maxRetx, the
\* network-layer packets there are to send, [type, size, tags], the MTUs that an end's
\* transport may take, the first at the start, what may change, of "reliable", "mtu",
\* "override" and "queue", and the bounds: packets sent, packets the link copies,
\* changes, and sequences that cease to be recent.
Setting(opt, maxRetx, kinds, mtus, may, packets, copies, switches, forgets) ==
  [opt |-> opt, maxRetx |-> maxRetx, kinds |-> kinds, mtus |-> mtus, may |-> may,
   max |-> [packets |-> packets, copies |-> copies, switches |-> switches, forgets |-> forgets]]

Within(what) == used[what] < scn.max[what]
Once(what) == used' = [used EXCEPT ![what] = @ + 1]
Switch(what) == what \in scn.may /\ Within("switches") /\ Once("switches")

Peer(n) == CHOOSE m \in Nodes : m # n

Unlimited == -1
NoOverride == 100    \* more than any MTU here, for the greatest ssize_t
SingleFragOverhead == 1
FragOverhead == 2
TxSeqSpace == 1
MarkSpace == 1

Fragmented(p) == p.count > 1

\* The field is set, not added, when the packet came with one.
MarkSize(p, fields) == IF p.mark /\ "CongestionMark" \notin fields THEN MarkSpace ELSE 0

WireSize(p) == IF p.frag
               THEN Len(p.payload) + Cardinality(p.fields)
                    + (IF Fragmented(p) THEN FragOverhead ELSE SingleFragOverhead)
                    + (IF p.tx # -1 THEN TxSeqSpace ELSE 0) + MarkSize(p, p.fields)
               ELSE 1 + MarkSize(p, {})

IdlePacket == [frag |-> FALSE, tx |-> -1, acks |-> <<>>, mark |-> FALSE]

NewLinkService(opt, mtu) ==
  [opt |-> opt, mtu |-> mtu, override |-> NoOverride, lastSeq |-> SeqRange - 2,
   lastTx |-> StartTx, unacked |-> <<>>, first |-> -1, nets |-> <<>>,
   acks |-> <<>>, recent |-> {}, recentQueue |-> <<>>, forgot |-> {}, idleTimer |-> FALSE,
   partial |-> <<>>, marking |-> FALSE, due |-> 0, queueHigh |-> FALSE,
   acked |-> {}, retxed |-> {}, exhausted |-> {}, dropped |-> <<>>, out |-> {}, status |-> "ok"]

Expect(s, cond, what) ==
  IF cond \/ s.status # "ok" THEN s ELSE [s EXCEPT !.status = what]

------------------------------------------------------------------------------
(* Sending one LpPacket.                                                     *)

Least(a, b) == IF a < b THEN a ELSE b

\* getEffectiveMtu: Unlimited is the least of all, and so overrides any override.
EffectiveMtu(s) == Least(s.override, s.mtu)

\* Acks that fit in what the MTU leaves; with no limit, all.
RoomForAcks(s, p) ==
  IF EffectiveMtu(s) = Unlimited THEN Len(s.acks)
  ELSE IF EffectiveMtu(s) < WireSize(p) THEN 0 ELSE (EffectiveMtu(s) - WireSize(p)) \div AckSize

Piggyback(s, p) ==
  LET k == Least(RoomForAcks(s, p), Len(s.acks))
  IN  [s |-> [s EXCEPT !.acks = SubSeq(@, k + 1, Len(@))],
       p |-> [p EXCEPT !.acks = SubSeq(s.acks, 1, k)]]

\* `due` counts the marking intervals that have passed since m_nextMarkTime was
\* set and that no mark has used yet.
CheckCongestionLevel(s, p) ==
  IF s.queueHigh
  THEN IF ~s.marking THEN [s |-> [s EXCEPT !.marking = TRUE, !.due = 0], p |-> p]
       ELSE IF s.due > 0 THEN [s |-> [s EXCEPT !.due = @ - 1], p |-> [p EXCEPT !.mark = TRUE]]
       ELSE [s |-> s, p |-> p]
  ELSE [s |-> [s EXCEPT !.marking = FALSE, !.due = 0], p |-> p]

\* A packet over the MTU is dropped, with the acknowledgements it carries: these may
\* have left no room for the mark that was set after them.
Transmit(s, p) ==
  IF EffectiveMtu(s) # Unlimited /\ WireSize(p) + AckSize * Len(p.acks) > EffectiveMtu(s) THEN s
  ELSE [s EXCEPT !.out = @ \cup {p}]

MarkAndTransmit(s, p) ==
  LET b == IF s.opt.marks THEN CheckCongestionLevel(s, p) ELSE [s |-> s, p |-> p]
  IN  Transmit(b.s, b.p)

SendLpPacket(s, p) ==
  LET a == IF s.opt.reliable THEN Piggyback(s, p) ELSE [s |-> s, p |-> p]
  IN  MarkAndTransmit(a.s, a.p)

------------------------------------------------------------------------------
(* LpReliability: the window of unacknowledged fragments, by TxSequence.     *)

NextTx(s) == (s.lastTx + 1) % SeqRange

Lowest(S) == CHOOSE x \in S : \A y \in S : x <= y

Drop(f, x) == [y \in DOMAIN f \ {x} |-> f[y]]
With(f, x, v) == [y \in DOMAIN f \cup {x} |-> IF y = x THEN v ELSE f[y]]

AssignTxSequence(s) ==
  [Expect(s, DOMAIN s.unacked = {} \/ NextTx(s) # s.first, "TxSequence range exceeded")
   EXCEPT !.lastTx = NextTx(s)]

DeleteUnackedFrag(s, tx) ==
  LET rest  == DOMAIN s.unacked \ {tx}
      after == {t \in rest : t > tx}
      next  == IF after = {} THEN Lowest(rest) ELSE Lowest(after)
  IN  [s EXCEPT !.unacked = Drop(@, tx),
                !.first = IF rest = {} THEN -1 ELSE IF @ = tx THEN next ELSE @]

HandleOutgoing(s, frags, id, isInterest) ==
  LET add(t, p) ==
        LET a == AssignTxSequence(t)
            q == [p EXCEPT !.tx = a.lastTx]
            f == [p |-> q, retx |-> 0, greater |-> 0, net |-> id]
        IN  [a EXCEPT !.unacked = With(@, q.tx, f),
                      !.first = IF DOMAIN t.unacked = {} THEN q.tx ELSE @,
                      !.nets[id].frags = @ \cup {q.tx}]
      s0 == [s EXCEPT !.nets = With(@, id, [frags |-> {}, interest |-> isInterest,
                                            didRetx |-> FALSE])]
  IN  FoldLeft(add, s0, frags)

\* Those before tx in the window, from its first.
Before(s, tx) ==
  {t \in DOMAIN s.unacked : (t - s.first) % SeqRange < (tx - s.first) % SeqRange}

WindowOrder(s, S) ==
  SetToSortSeq(S, LAMBDA a, b : (a - s.first) % SeqRange < (b - s.first) % SeqRange)

\* `dropped` has the Interests that onDroppedInterest reports to the strategy.
OnLpPacketLost(s, tx) ==
  IF tx \notin DOMAIN s.unacked THEN [s |-> Expect(s, FALSE, "lost fragment is not unacked"), removed |-> {}]
  ELSE
  LET f   == s.unacked[tx]
      net == s.nets[f.net]
  IN  IF f.retx >= scn.maxRetx
      THEN LET gone == SetToSeq(net.frags \ {tx}) \o <<tx>>
               s1   == FoldLeft(DeleteUnackedFrag, s, gone)
           IN  [s |-> [s1 EXCEPT !.nets = Drop(@, f.net),
                                 !.exhausted = @ \cup {f.net},
                                 !.dropped = IF net.interest THEN Append(@, f.net) ELSE @],
                removed |-> Range(gone)]
      ELSE LET a  == AssignTxSequence(s)
               q  == [f.p EXCEPT !.tx = a.lastTx]
               s1 == [a EXCEPT !.unacked = With(@, q.tx, [f EXCEPT !.p = q, !.retx = @ + 1, !.greater = 0]),
                               !.nets[f.net].frags = (@ \ {tx}) \cup {q.tx},
                               !.nets[f.net].didRetx = TRUE]
           IN  [s |-> SendLpPacket(DeleteUnackedFrag(s1, tx), q), removed |-> {tx}]

\* Mutation: the network packet counts as acknowledged with its first fragment.
AcknowledgedWithFirst(s, tx) ==
  LET id == s.unacked[tx].net
  IN  DeleteUnackedFrag([s EXCEPT !.acked = @ \cup {id}, !.nets[id].frags = @ \ {tx}], tx)

OnLpPacketAcknowledged(s, tx) ==
  LET id   == s.unacked[tx].net
      left == s.nets[id].frags \ {tx}
      s1   == Expect(s, tx \in s.nets[id].frags, "acknowledged fragment is not in its NetPkt")
      s2   == IF left # {} THEN [s1 EXCEPT !.nets[id].frags = left]
              ELSE IF s.nets[id].didRetx
              THEN [s1 EXCEPT !.nets = Drop(@, id), !.retxed = @ \cup {id}]
              ELSE [s1 EXCEPT !.nets = Drop(@, id), !.acked = @ \cup {id}]
  IN  DeleteUnackedFrag(s2, tx)

\* A fragment that another one's loss has removed is not lost again.
AfterLoss(r, l) == [s |-> l.s, removed |-> r.removed \cup l.removed]

LoseAll(s, lost) ==
  LET lose(r, tx) == IF tx \in r.removed THEN r ELSE AfterLoss(r, OnLpPacketLost(r.s, tx))
  IN  FoldLeft(lose, [s |-> s, removed |-> {}], lost).s

ProcessAck(s, tx) ==
  IF tx \notin DOMAIN s.unacked THEN s
  ELSE LET s1   == [s EXCEPT !.unacked = [t \in DOMAIN @ |->
                      IF t \in Before(s, tx) THEN [@[t] EXCEPT !.greater = @ + 1] ELSE @[t]]]
           lost == {t \in Before(s, tx) : s1.unacked[t].greater >= LossThreshold}
       IN  LoseAll(OnLpPacketAcknowledged(s1, tx), WindowOrder(s, lost))

\* Forgets the first k of the recently received sequences: the loop stops at the
\* first one that is still recent, and one already forgotten never is.
Forget(s, k) ==
  [s EXCEPT !.recent = @ \ Range(SubSeq(s.recentQueue, 1, k)),
            !.recentQueue = SubSeq(@, k + 1, Len(@)),
            !.forgot = @ \cup Range(SubSeq(s.recentQueue, 1, k))]

MayForget(s, k) ==
  k < Len(s.recentQueue) => s.recentQueue[k + 1] \in Forget(s, k).recent

\* Mutation: the acknowledgement is queued, and nothing is scheduled to send it.
RememberUntimed(s, p, k) ==
  [Forget(s, k) EXCEPT !.recent = @ \cup {p.seq}, !.recentQueue = Append(@, p.seq),
                       !.acks = Append(@, p.tx)]

Remember(s, p, k) ==
  [Forget(s, k) EXCEPT !.recent = @ \cup {p.seq}, !.recentQueue = Append(@, p.seq),
                       !.acks = Append(@, p.tx), !.idleTimer = TRUE]

\* The state after the packet, and whether its Sequence is not a recent one.
ProcessIncomingPacket(s, p, k) ==
  LET numbered == p.frag /\ p.tx # -1
      acked(t) == IF numbered THEN Remember(t, p, k) ELSE t
  IN  [s |-> acked(FoldLeft(ProcessAck, s, p.acks)), fresh |-> numbered => p.seq \notin s.recent]

------------------------------------------------------------------------------
(* Fragmentation and reassembly.                                             *)

\* The octets of a packet are numbered: a fragment's payload is a run of them.
Octets(size) == [i \in 1 .. size |-> i]

FirstPayload(size, header, mtu) == Least(size, mtu - header - FragOverhead)

FragmentPayloads(size, header, mtu) ==
  LET first == FirstPayload(size, header, mtu)
      per   == mtu - FragOverhead
      count == 1 + ((size - first) \div per) + (IF (size - first) % per # 0 THEN 1 ELSE 0)
      start(i) == IF i = 1 THEN 1 ELSE first + (i - 2) * per + 1
      end(i)   == IF i = 1 THEN first ELSE Least(size, first + (i - 1) * per)
  IN  [i \in 1 .. count |-> SubSeq(Octets(size), start(i), end(i))]

\* The payloads of the fragments, or none when the packet cannot be fragmented.
FragmentPacket(size, header, mtu) ==
  IF SingleFragOverhead + header + size <= mtu THEN <<Octets(size)>>
  ELSE IF FragOverhead + header + 1 > mtu THEN <<>>
  ELSE LET p == FragmentPayloads(size, header, mtu)
       IN  IF Len(p) > MaxFragments THEN <<>> ELSE p

MessageIdentifier(p) == (p.seq - p.index) % SeqRange

\* The state and the fragments of the message the packet completes, if any.
ReceiveFragment(s, p) ==
  IF p.index >= p.count \/ p.count > MaxFragments THEN [s |-> s, frags |-> <<>>]
  ELSE IF p.count = 1 THEN [s |-> s, frags |-> <<p>>]
  ELSE LET key == MessageIdentifier(p)
           pp  == IF key \in DOMAIN s.partial THEN s.partial[key]
                  ELSE [count |-> p.count, frags |-> <<>>]
           all == With(pp.frags, p.index, p)
       IN  IF p.count # pp.count \/ p.index \in DOMAIN pp.frags
           THEN [s |-> s, frags |-> <<>>]
           ELSE IF Cardinality(DOMAIN all) = pp.count
           THEN [s |-> [s EXCEPT !.partial = Drop(@, key)],
                 frags |-> [i \in 1 .. pp.count |-> all[i - 1]]]
           ELSE [s |-> [s EXCEPT !.partial = With(@, key, [pp EXCEPT !.frags = all])],
                 frags |-> <<>>]

------------------------------------------------------------------------------
(* The NDNLPv2 fields of a network-layer packet.                             *)

\* The tags of a packet that leave with it.
EncodeLpFields(opt, tags) ==
  {t \in tags : \/ t \in {"CongestionMark", "PitToken"}
                \/ t = "IncomingFaceId" /\ opt.localFields
                \/ t \in {"NonDiscovery", "PrefixAnnouncement"} /\ opt.selfLearning}

\* Fields with which a packet of this type is dropped.
Refused(opt, type) ==
  CASE type = "Interest" -> {"CachePolicy", "PrefixAnnouncement"}
                            \cup (IF opt.localFields THEN {} ELSE {"NextHopFaceId"})
    [] type = "Data"     -> {"Nack", "NextHopFaceId", "NonDiscovery"}
    [] type = "Nack"     -> {"NextHopFaceId", "CachePolicy", "NonDiscovery", "PrefixAnnouncement"}
    [] OTHER             -> {}

\* Fields that become tags of a packet of this type; the others are ignored.
Kept(opt, type) ==
  {"CongestionMark"} \cup
  CASE type = "Interest" -> {"NextHopFaceId", "PitToken"}
                            \cup (IF opt.selfLearning THEN {"NonDiscovery"} ELSE {})
    [] type = "Data"     -> {"CachePolicy"}
                            \cup (IF opt.selfLearning THEN {"PrefixAnnouncement"} ELSE {})
    [] OTHER             -> {}

DecodeNetPacket(opt, type, fields) ==
  IF fields \cap Refused(opt, type) # {} THEN [up |-> FALSE, tags |-> {}]
  ELSE [up |-> TRUE, tags |-> fields \cap Kept(opt, type)]

------------------------------------------------------------------------------
(* The steps of an end.                                                      *)

LinkInit ==
  /\ scn \in Scenarios
  /\ ls = [n \in Nodes |-> NewLinkService(scn.opt, scn.mtus[n][1])]
  /\ wire = {}
  /\ sent = <<>>
  /\ got = [n \in Nodes |-> <<>>]
  /\ seen = [n \in Nodes |-> {}]
  /\ used = [packets |-> 0, copies |-> 0, switches |-> 0, forgets |-> 0]

Running(n) == ls[n].status = "ok"

\* The packets a handler sent go onto the wire.
Flush(n, s) ==
  /\ ls' = [ls EXCEPT ![n] = [s EXCEPT !.out = {}]]
  /\ wire' = wire \cup {[p |-> p, to |-> Peer(n)] : p \in s.out}

\* The MTU less the space for the fields that are set later.
FragmentMtu(s) ==
  IF EffectiveMtu(s) = Unlimited THEN Unlimited
  ELSE EffectiveMtu(s) - (IF s.opt.reliable THEN TxSeqSpace ELSE 0)
                       - (IF s.opt.marks THEN MarkSpace ELSE 0)

\* The payloads of the packet's LpPackets; none when it cannot be fragmented.
Bodies(s, kind) ==
  IF s.opt.fragments /\ FragmentMtu(s) # Unlimited
  THEN FragmentPacket(kind.size, Cardinality(EncodeLpFields(s.opt, kind.tags)), FragmentMtu(s))
  ELSE <<Octets(kind.size)>>

Numbered(s, bodies) == s.opt.reliable \/ Len(bodies) > 1

\* The LpPackets, with sequence numbers when there are several or they are reliable.
Fragments(s, id, kind, bodies) ==
  [i \in DOMAIN bodies |->
     [frag |-> TRUE, id |-> id, type |-> kind.type,
      fields |-> IF i = 1 THEN EncodeLpFields(s.opt, kind.tags) ELSE {},
      payload |-> bodies[i], index |-> i - 1, count |-> Len(bodies),
      seq |-> IF Numbered(s, bodies) THEN (s.lastSeq + i) % SeqRange ELSE -1,
      tx |-> -1, acks |-> <<>>, mark |-> FALSE]]

SendFragments(s, id, kind, frags) ==
  LET fits    == Len(frags) > 1 => \A i \in DOMAIN frags : WireSize(frags[i]) <= FragmentMtu(s)
      step    == IF Numbered(s, frags) THEN Len(frags) ELSE 0
      s1      == [Expect(s, fits, "fragment over the MTU")
                  EXCEPT !.lastSeq = (@ + step) % SeqRange]
      stamped == IF s.opt.reliable
                 THEN [i \in DOMAIN frags |-> [frags[i] EXCEPT !.tx = (s.lastTx + i) % SeqRange]]
                 ELSE frags
  IN  FoldLeft(SendLpPacket,
               IF s.opt.reliable THEN HandleOutgoing(s1, frags, id, kind.type = "Interest") ELSE s1,
               stamped)

SendNetPacket(n, kind) ==
  \E bodies \in {Bodies(ls[n], kind)} :
    LET id == Len(sent) + 1
    IN  /\ Running(n) /\ n \in Senders /\ Within("packets")
        /\ sent' = Append(sent, [kind |-> kind, from |-> n, frags |-> Len(bodies),
                                 reliable |-> ls[n].opt.reliable])
        /\ IF bodies = <<>>
           THEN UNCHANGED <<ls, wire>>
           ELSE Flush(n, SendFragments(ls[n], id, kind, Fragments(ls[n], id, kind, bodies)))
        /\ Once("packets")
        /\ UNCHANGED <<scn, got, seen>>

\* Mutation: what a fragment carries is passed up without waiting for the others.
DoReceiveEagerly(n, p, k) ==
  [s |-> ProcessIncomingPacket(ls[n], p, k).s, frags |-> IF p.frag THEN <<p>> ELSE <<>>]

\* doReceivePacket up to the reassembled packet.
Reassemble(n, r, p) ==
  IF ~r.fresh \/ ~p.frag \/ (Fragmented(p) /\ ~ls[n].opt.reassembles)
  THEN [s |-> r.s, frags |-> <<>>]
  ELSE ReceiveFragment(r.s, p)

DoReceive(n, p, k) ==
  Reassemble(n, IF ls[n].opt.reliable THEN ProcessIncomingPacket(ls[n], p, k)
                ELSE [s |-> ls[n], fresh |-> TRUE], p)

\* What the network layer gets of a packet that is whole.
PassUp(n, frags) ==
  LET d == DecodeNetPacket(ls[n].opt, frags[1].type,
             frags[1].fields \cup (IF frags[1].mark THEN {"CongestionMark"} ELSE {}))
  IN  IF frags # <<>> /\ d.up
      THEN <<[id |-> frags[1].id, tags |-> d.tags, seqs |-> {frags[i].seq : i \in DOMAIN frags},
              payload |-> FlattenSeq([i \in DOMAIN frags |-> frags[i].payload])]>>
      ELSE <<>>

ReceivePacket(n, m, copy) ==
  \E k \in 0 .. Least(Len(ls[n].recentQueue), scn.max.forgets - used.forgets) :
  \E r \in {DoReceive(n, m.p, k)} :
    /\ Running(n) /\ m.to = n
    /\ copy => Within("copies")
    /\ MayForget(ls[n], k)
    /\ (~m.p.frag \/ m.p.tx = -1 \/ ~ls[n].opt.reliable) => k = 0
    /\ ls' = [ls EXCEPT ![n] = [r.s EXCEPT !.out = {}]]
    /\ wire' = (IF copy THEN wire ELSE wire \ {m})
               \cup {[p |-> p, to |-> Peer(n)] : p \in r.s.out}
    /\ got' = [got EXCEPT ![n] = @ \o PassUp(n, r.frags)]
    /\ seen' = IF m.p.frag THEN [seen EXCEPT ![n] = @ \cup {<<m.p.id, m.p.index>>}] ELSE seen
    /\ used' = [used EXCEPT !.copies = @ + (IF copy THEN 1 ELSE 0), !.forgets = @ + k]
    /\ UNCHANGED <<scn, sent>>

\* The rtoTimer of an unacknowledged fragment.
RtoTimer(n) ==
  \E tx \in DOMAIN ls[n].unacked :
    /\ Running(n)
    /\ Flush(n, OnLpPacketLost(ls[n], tx).s)
    /\ UNCHANGED <<scn, sent, got, seen, used>>

\* The acknowledgements leave in as many IDLE packets as they need; when not one
\* fits in a packet the loop of startIdleAckTimer does not end.
IdlePackets(s) ==
  LET room == RoomForAcks(s, IdlePacket)
      n    == (Len(s.acks) + room - 1) \div room
  IN  FoldLeft(SendLpPacket, s, [i \in 1 .. n |-> IdlePacket])

IdleAckTimer(n) ==
  /\ Running(n) /\ ls[n].idleTimer
  /\ LET s == [ls[n] EXCEPT !.idleTimer = FALSE]
     IN  IF s.acks # <<>> /\ RoomForAcks(s, IdlePacket) = 0
         THEN Flush(n, Expect(s, FALSE, "requests IDLE packets without end"))
         ELSE Flush(n, IF s.acks = <<>> THEN s ELSE IdlePackets(s))
  /\ UNCHANGED <<scn, sent, got, seen, used>>

\* timeoutPartialPacket
ReassemblyTimeout(n) ==
  \E key \in DOMAIN ls[n].partial :
    /\ Running(n)
    /\ ls' = [ls EXCEPT ![n].partial = Drop(@, key)]
    /\ UNCHANGED <<scn, wire, sent, got, seen, used>>

\* setOptions: reliability is switched, and an idle timer does not survive it; or the
\* MTU is overridden, which canOverrideMtuTo allows unless there is no limit.
SetOptions(n) ==
  /\ Running(n)
  /\ \/ /\ Switch("reliable")
        /\ ls' = [ls EXCEPT ![n].opt.reliable = ~@, ![n].idleTimer = @ /\ ~ls[n].opt.reliable]
     \/ /\ Switch("override") /\ ls[n].mtu # Unlimited
        /\ \E m \in Overrides \ {ls[n].override} : ls' = [ls EXCEPT ![n].override = m]
  /\ UNCHANGED <<scn, wire, sent, got, seen>>

\* The transport's MTU follows its network interface.
SetMtu(n) ==
  /\ Running(n) /\ Switch("mtu")
  /\ \E m \in Range(scn.mtus[n]) \ {ls[n].mtu} : ls' = [ls EXCEPT ![n].mtu = m]
  /\ UNCHANGED <<scn, wire, sent, got, seen>>

\* The transport's send queue crosses the congestion threshold, or a marking
\* interval passes while it is being watched.
SendQueueChanges(n) ==
  /\ Running(n) /\ ls[n].opt.marks /\ Switch("queue")
  /\ \/ ls' = [ls EXCEPT ![n].queueHigh = ~@]
     \/ ls[n].marking /\ ls' = [ls EXCEPT ![n].due = @ + 1]
  /\ UNCHANGED <<scn, wire, sent, got, seen>>

LinkNext ==
  \E n \in Nodes :
    \/ \E kind \in scn.kinds : SendNetPacket(n, kind)
    \/ \E m \in wire : \E copy \in BOOLEAN : ReceivePacket(n, m, copy)
    \/ RtoTimer(n)
    \/ IdleAckTimer(n)
    \/ ReassemblyTimeout(n)
    \/ SetOptions(n)
    \/ SetMtu(n)
    \/ SendQueueChanges(n)

LinkSpec == LinkInit /\ [][LinkNext]_linkVars

------------------------------------------------------------------------------
(* Properties.                                                               *)

\* Every packet sent reliably is settled exactly once, as acknowledged, as
\* retransmitted or as given up, or still has unacknowledged fragments; and one
\* counted as acknowledged or retransmitted had all its fragments reach the peer.
\* The strategy hears of an Interest that was given up once, and of no other.
\* No assertion of lp-reliability.cpp and lp-fragmenter.cpp fails on the way, with
\* TxSequence numbers that wrap and losses that remove each other's fragments.
EachPacketSettlesOnce ==
  \A n \in Nodes : ls[n].status = "ok" /\ \A id \in DOMAIN sent :
    LET s == ls[n] IN
    (sent[id].from = n /\ sent[id].reliable /\ sent[id].frags > 0) =>
      /\ Cardinality({c \in {"acked", "retxed", "exhausted", "nets"} :
           id \in CASE c = "acked" -> s.acked [] c = "retxed" -> s.retxed
                    [] c = "exhausted" -> s.exhausted [] OTHER -> DOMAIN s.nets}) = 1
      /\ id \in s.acked \cup s.retxed =>
           \A i \in 0 .. sent[id].frags - 1 : <<id, i>> \in seen[Peer(n)]
      /\ Cardinality({i \in DOMAIN s.dropped : s.dropped[i] = id})
           = IF id \in s.exhausted /\ sent[id].kind.type = "Interest" THEN 1 ELSE 0

\* What the reassembler passes up is one packet as it was sent, whole and in
\* order, whatever the order in which fragments of several packets arrive; and a
\* packet sent reliably is passed up twice only if the receiver has meanwhile
\* forgotten one of its sequences: while they are recent, a retransmission or a
\* copy made by the link is recognised.  This second part is stated for behaviours in
\* which the options stay as they were: a receiver that has reliability switched off
\* looks at no sequence.
DeliversWhatWasSent ==
  \A n \in Nodes : \A i \in DOMAIN got[n] :
    LET p == got[n][i]
    IN  /\ p.payload = Octets(sent[p.id].kind.size)
        /\ \A j \in DOMAIN got[n] \ {i} :
             (got[n][j].id = p.id /\ sent[p.id].reliable /\ used.switches = 0) =>
               p.seqs \cap ls[n].forgot # {}

\* Acknowledgements waiting in m_ackQueue are never left without the idle timer
\* that will send them, unless reliability was switched off meanwhile.
AcksAreScheduled ==
  \A n \in Nodes : (ls[n].acks # <<>> /\ used.switches = 0) => ls[n].idleTimer

==============================================================================

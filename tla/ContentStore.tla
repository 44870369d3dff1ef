---------------------------- MODULE ContentStore ----------------------------
(***************************************************************************)
(* The Content Store: the index m_table, the replacement policies, the     *)
(* pool of ORAM block ids, and the management and configuration handlers   *)
(* that act on it.  Everything runs on the main thread, so a call is one   *)
(* step; the timers of the priority-FIFO policy and the passage of time    *)
(* interleave with the calls.                                              *)
(*                                                                         *)
(* The ORAM is the array of OramMem, which Oram implements.  A Data packet *)
(* is a number, in the order of m_table (names, then digests); the content *)
(* of a block is the packet it holds or Zero.                              *)
(***************************************************************************)
EXTENDS Integers, Sequences, SequencesExt

CONSTANTS
  Packets,         \* Data packets, numbered in full-name order
  Names,           \* names used in Interests and in erase commands
  Under,           \* Under[n]: packets whose full name extends n
  Exact,           \* Exact[n]: packets whose name or full name is n
  FreshPackets,    \* packets with a FreshnessPeriod
  LocalPackets,    \* packets under /localhost
  LargePackets,    \* packets whose encoding exceeds MAX_WIRE_BYTES
  Capacity,        \* ORAM_CAPACITY
  Limits,          \* values given to setLimit
  Flags,           \* values given to enableServe
  ErasePrefixes,   \* names given to "nfdc cs erase"
  EraseLimit       \* ERASE_LIMIT of the cs/erase command

VARIABLES
  store,      \* the record of what a call works on:
              \*   table    m_table, the entry of each cached packet
              \*   queues   the queues of the policy, oldest entry first
              \*   timers   packets with a pending moveToStaleQueue event
              \*   freeIds  s_freeBlockIds
              \*   mem      the content of the ORAM blocks
  policy,     \* name of the replacement policy
  limit,      \* m_limit
  shouldAdmit, shouldServe,
  job,        \* the "nfdc cs erase" in progress: where its current command is, what
              \* is left to erase (*count - numErased), and the answer on its way
  alive       \* the Cs has not been destructed

csVars == <<store, policy, limit, shouldAdmit, shouldServe, job, alive>>

BlockIds == 0 .. Capacity - 1

Zero == 0

Policies == {"lru", "priority_fifo"}

QueueTypes == {"LRU", "UNSOLICITED", "STALE", "FIFO"}

Interests == [name : Names, canBePrefix : BOOLEAN, mustBeFresh : BOOLEAN]

\* A count that is never reached: the command has no Count parameter.
Unlimited == 2 * Cardinality(Packets) + EraseLimit

\* Counts given to nfdc: one that takes two commands, or none.
Counts == {EraseLimit + 1, Unlimited}

\* What the daemon answers: the entries erased, and whether it stopped at the
\* limit.  rest is history: packets were left although the Cs serves.
NoReply == [n |-> 0, limited |-> FALSE, rest |-> FALSE]

NoJob == [at |-> "none", name |-> "none", left |-> 0, reply |-> NoReply]

ASSUME CsConstants ==
  /\ Packets \subseteq Nat \ {Zero}
  /\ Capacity \in Nat \ {0}
  /\ Limits \subseteq Nat
  /\ ErasePrefixes \subseteq Names
  /\ EraseLimit \in Nat \ {0}
  /\ Under \in [Names -> SUBSET Packets]
  /\ Exact \in [Names -> SUBSET Packets]
  /\ \A n \in Names : Exact[n] \subseteq Under[n]
  \* names under a prefix are contiguous in the table
  /\ \A n \in Names : \A p, r \in Under[n] : \A q \in Packets : p < q /\ q < r => q \in Under[n]

-----------------------------------------------------------------------------
(* Replacement policies *)

EmptyQueues == [k \in QueueTypes |-> <<>>]

\* The queue an entry belongs to when it is attached.
QueueOf(e) ==
  CASE policy = "lru" -> "LRU"
    [] policy # "lru" /\ e.unsolicited -> "UNSOLICITED"
    [] policy # "lru" /\ ~e.unsolicited /\ ~e.fresh -> "STALE"
    [] OTHER -> "FIFO"

\* attachQueue: a fresh entry also gets its moveToStaleQueue event.
AttachQueue(s, p) ==
  LET k == QueueOf(s.table[p])
  IN  [s EXCEPT !.queues[k] = Append(@, p),
                !.timers = IF k = "FIFO" THEN @ \cup {p} ELSE @]

\* The part of detachQueue that cancels events: only a FIFO entry has one.
CancelTimers(s, ps) ==
  [s EXCEPT !.timers = @ \ (ps \cap ToSet(s.queues["FIFO"]))]

\* Mutation: the policy is not told of the removal.
DetachNothing(s, ps) == s

\* detachQueue, for each of the entries ps.
DetachQueue(s, ps) ==
  [CancelTimers(s, ps) EXCEPT
     !.queues = [k \in QueueTypes |-> SelectSeq(@[k], LAMBDA p : p \notin ps)]]

\* The order in which evictEntries takes entries.
EvictionOrder(q) == q["LRU"] \o q["UNSOLICITED"] \o q["STALE"] \o q["FIFO"]

-----------------------------------------------------------------------------
(* ORAM blocks and removing entries *)

\* Mutation: the block keeps its content.
ClearNothing(s, ids) == s

ClearOramBlocks(s, ids) ==
  [s EXCEPT !.mem = [b \in BlockIds |-> IF b \in ToSet(ids) THEN Zero ELSE @[b]]]

FreeBlockIds(s, ids) == [s EXCEPT !.freeIds = @ \o ids]

\* The packets of a sequence leave one after the other: each block is zeroed
\* and returned to the back of the pool, the policy detaches the entry and the
\* table loses it.
Drop(s, gone) ==
  LET ps  == ToSet(gone)
      ids == [i \in DOMAIN gone |-> s.table[gone[i]].blockId]
  IN  [DetachQueue(FreeBlockIds(ClearOramBlocks(s, ids), ids), ps) EXCEPT
         !.table = [p \in DOMAIN @ \ ps |-> @[p]]]

\* evictEntries: the head of the eviction order goes until the table is within
\* the limit n.
EvictEntries(s, n) ==
  LET excess == Cardinality(DOMAIN s.table) - n
  IN  IF excess > 0 THEN Drop(s, SubSeq(EvictionOrder(s.queues), 1, excess)) ELSE s

\* The first n packets of a set in table order.
FirstN(ps, n) ==
  LET sorted == SetToSortSeq(ps, <)
  IN  SubSeq(sorted, 1, IF n < Len(sorted) THEN n ELSE Len(sorted))

\* eraseImpl: at most n entries under the prefix.
EraseImpl(s, prefix, n) == Drop(s, FirstN(Under[prefix] \cap DOMAIN s.table, n))

-----------------------------------------------------------------------------
(* insert() *)

\* Mutation: a refreshed entry stays in its queue.
RequeueNothing(s, p) == s

\* afterRefresh: the entry goes to the back of the queue it now belongs to.
Requeue(s, p) == AttachQueue(DetachQueue(s, {p}), p)

\* The packet is already there: its entry and its block are renewed.
Refresh(s, p, isUnsolicited) ==
  Requeue([s EXCEPT !.table[p].fresh = p \in FreshPackets,
                    !.table[p].unsolicited = @ /\ isUnsolicited,
                    !.mem[s.table[p].blockId] = p], p)

Entry(p, id, isUnsolicited) ==
  [blockId |-> id, fresh |-> p \in FreshPackets, unsolicited |-> isUnsolicited]

\* Emplacing the entry of a new packet that has been given the block id.
Emplace(s, p, id, isUnsolicited) ==
  AttachQueue([s EXCEPT !.table = (p :> Entry(p, id, isUnsolicited)) @@ @, !.mem[id] = p], p)

\* The packet is new: it takes the first free block id, if there is one and the
\* packet fits a block, and then the policy may evict entries.
StoreNew(s, p, isUnsolicited) ==
  IF s.freeIds = <<>> THEN s
  ELSE LET id == Head(s.freeIds)
           t  == [s EXCEPT !.freeIds = Tail(@)]
       IN  IF p \in LargePackets
           THEN FreeBlockIds(t, <<id>>)
           ELSE EvictEntries(Emplace(t, p, id, isUnsolicited), limit)

\* noCache: the packet carries a NO_CACHE tag.
Insert(p, isUnsolicited, noCache) ==
  /\ p \notin LocalPackets /\ shouldAdmit /\ limit # 0 /\ ~noCache
  /\ store' = IF p \in DOMAIN store.table
              THEN Refresh(store, p, isUnsolicited)
              ELSE StoreNew(store, p, isUnsolicited)
  /\ UNCHANGED <<policy, limit, shouldAdmit, shouldServe, job>>

\* Data under /localhost, marked NO_CACHE, or offered to a CS that does not
\* admit or has no room at all.
InsertIgnored(p, noCache) ==
  /\ p \in LocalPackets \/ ~shouldAdmit \/ limit = 0 \/ noCache
  /\ UNCHANGED <<store, policy, limit, shouldAdmit, shouldServe, job>>

-----------------------------------------------------------------------------
(* find() *)

NotFound == Zero

\* Interest::matchesData, of the packet decoded from a block.
MatchesData(i, d) == d \in IF i.canBePrefix THEN Under[i.name] ELSE Exact[i.name]

\* The entries at which the walk of findInOram may stop: under the name, fresh
\* if they must be, and with a block that decodes to a matching packet.
Hits(s, i) ==
  {p \in Under[i.name] \cap DOMAIN s.table :
     LET d == s.mem[s.table[p].blockId]
     IN  /\ i.mustBeFresh => s.table[p].fresh
         /\ d # Zero
         /\ MatchesData(i, d)}

\* Mutation: only the entry at lower_bound is considered.
FindFirstOnly(s, i) ==
  LET under == Under[i.name] \cap DOMAIN s.table
  IN  IF ~shouldServe \/ limit = 0 \/ under = {} \/ Min(under) \notin Hits(s, i)
      THEN NotFound
      ELSE Min(under)

\* findImpl: the first of them in table order.
FindImpl(s, i) ==
  IF ~shouldServe \/ limit = 0 \/ Hits(s, i) = {} THEN NotFound ELSE Min(Hits(s, i))

\* beforeUse: LRU moves the entry to the back, priority-FIFO does nothing.
BeforeUse(s, p) == IF policy = "lru" THEN Requeue(s, p) ELSE s

AfterFind(s, i) ==
  IF FindImpl(s, i) = NotFound THEN s ELSE BeforeUse(s, FindImpl(s, i))

Find(i) ==
  /\ store' = AfterFind(store, i)
  /\ UNCHANGED <<policy, limit, shouldAdmit, shouldServe, job>>

-----------------------------------------------------------------------------
(* Management and configuration *)

\* CsManager::changeConfig; a parameter that is left out is one that repeats
\* the current value.
ChangeConfig(n, admit, serve) ==
  /\ limit' = n
  /\ store' = EvictEntries(store, n)
  /\ shouldAdmit' = admit
  /\ shouldServe' = serve
  /\ UNCHANGED <<policy, job>>

\* TablesConfigSection::processConfig: the policy only changes when the CS is
\* empty once the new limit is in force.
ProcessConfig(n, name) ==
  LET s == EvictEntries(store, n)
  IN  /\ limit' = n
      /\ IF DOMAIN s.table = {}
         THEN policy' = name /\ store' = [s EXCEPT !.queues = EmptyQueues]
         ELSE policy' = policy /\ store' = s
      /\ UNCHANGED <<shouldAdmit, shouldServe, job>>

\* CsModule::erase sends its first command.
StartErase(prefix, count) ==
  /\ job = NoJob
  /\ job' = [NoJob EXCEPT !.at = "command", !.name = prefix, !.left = count]
  /\ UNCHANGED <<store, policy, limit, shouldAdmit, shouldServe>>

\* Mutation: a reply that erased exactly the limit is taken for the last one.
MayBeLimitedNever(n, count) == n > EraseLimit /\ count > EraseLimit

\* The command stopped at ERASE_LIMIT before its count.
MayBeLimited(n, count) == n = EraseLimit /\ count > EraseLimit

\* CsManager::erase, which then looks for a remaining entry with find().
Erase ==
  /\ job.at = "command"
  /\ LET count   == job.left
         s       == EraseImpl(store, job.name, IF count < EraseLimit THEN count ELSE EraseLimit)
         n       == Cardinality(DOMAIN store.table) - Cardinality(DOMAIN s.table)
         probe   == [name |-> job.name, canBePrefix |-> TRUE, mustBeFresh |-> FALSE]
         limited == MayBeLimited(n, count) /\ FindImpl(s, probe) # NotFound
     IN  /\ store' = IF MayBeLimited(n, count) THEN AfterFind(s, probe) ELSE s
         /\ job' = [job EXCEPT !.at = "answer",
                      !.reply = [n |-> n, limited |-> limited,
                                 rest |-> shouldServe /\ Under[job.name] \cap DOMAIN s.table # {}]]
  /\ UNCHANGED <<policy, limit, shouldAdmit, shouldServe>>

\* The Count of the next command: none if nfdc was given none.
Left(left, n) == IF left = Unlimited THEN Unlimited ELSE left - n

\* The answer arrives: nfdc sends another command while the answers say that
\* they were limited.
OnEraseReply ==
  /\ job.at = "answer"
  /\ job' = IF job.reply.limited
            THEN [job EXCEPT !.at = "command", !.left = Left(@, job.reply.n), !.reply = NoReply]
            ELSE NoJob
  /\ UNCHANGED <<store, policy, limit, shouldAdmit, shouldServe>>

\* The command is refused or lost, or its answer is lost: nfdc gives up.
OnEraseFailure ==
  /\ job # NoJob
  /\ job' = NoJob
  /\ UNCHANGED <<store, policy, limit, shouldAdmit, shouldServe>>

\* ~Cs and the destructors of its members: the pool and the ORAM outlive the
\* Cs, and so do the moveToStaleQueue events, which nothing cancels.  The Cs
\* goes with the NfdRunner, when the event loop no longer runs.
Destroy ==
  /\ alive' = FALSE
  /\ store' = [Drop(store, FirstN(DOMAIN store.table, Cardinality(DOMAIN store.table)))
                 EXCEPT !.queues = EmptyQueues, !.timers = store.timers]
  /\ UNCHANGED <<policy, limit, shouldAdmit, shouldServe, job>>

-----------------------------------------------------------------------------
(* Time *)

\* The freshness period of an entry runs out.
BecomeStale(p) ==
  /\ p \in DOMAIN store.table /\ store.table[p].fresh
  /\ store' = [store EXCEPT !.table[p].fresh = FALSE]
  /\ UNCHANGED <<policy, limit, shouldAdmit, shouldServe, job>>

\* The event scheduled for the same moment, a little later.
MoveToStaleQueue(p) ==
  /\ p \in store.timers
  /\ p \in DOMAIN store.table => ~store.table[p].fresh
  /\ store' = [store EXCEPT !.queues["FIFO"] = Remove(@, p),
                            !.queues["STALE"] = Append(@, p),
                            !.timers = @ \ {p}]
  /\ UNCHANGED <<policy, limit, shouldAdmit, shouldServe, job>>

-----------------------------------------------------------------------------

CsInit ==
  /\ store = [table |-> <<>>, queues |-> EmptyQueues, timers |-> {},
              freeIds |-> [i \in 1 .. Capacity |-> i - 1], mem |-> [b \in BlockIds |-> Zero]]
  /\ policy = "lru"
  /\ \E n \in Limits : limit = IF n < Capacity THEN n ELSE Capacity
  /\ shouldAdmit = TRUE
  /\ shouldServe = TRUE
  /\ job = NoJob
  /\ alive = TRUE

CsStep ==
  \/ \E p \in Packets, nc \in BOOLEAN : InsertIgnored(p, nc) \/ \E u \in BOOLEAN : Insert(p, u, nc)
  \/ \E i \in Interests : Find(i)
  \/ \E n \in Limits, a \in BOOLEAN, v \in Flags : ChangeConfig(n, a, v)
  \/ \E n \in Limits, name \in Policies : ProcessConfig(n, name)
  \/ \E n \in ErasePrefixes, c \in Counts : StartErase(n, c)
  \/ Erase \/ OnEraseReply \/ OnEraseFailure
  \/ \E p \in Packets : BecomeStale(p) \/ MoveToStaleQueue(p)

\* Calls, commands and events need the event loop, which ends before the Cs.
CsNext ==
  /\ alive
  /\ \/ CsStep /\ UNCHANGED alive
     \/ Destroy

CsSpec == CsInit /\ [][CsNext]_csVars

-----------------------------------------------------------------------------
(* Properties *)

Owned == {store.table[p].blockId : p \in DOMAIN store.table}

\* Every block id is either in the pool, once, or owned by one entry: no
\* insert, refresh, refusal, eviction, erase or destructor leaks a block or
\* hands it out twice.  The block of an entry holds the packet the entry was
\* made for, and a block in the pool holds nothing: what find() decodes is what
\* was inserted.
BlockAccounting ==
  /\ \A p, q \in DOMAIN store.table :
       store.table[p].blockId = store.table[q].blockId => p = q
  /\ \A i, j \in DOMAIN store.freeIds : store.freeIds[i] = store.freeIds[j] => i = j
  /\ ToSet(store.freeIds) = BlockIds \ Owned
  /\ \A p \in DOMAIN store.table : store.mem[store.table[p].blockId] = p
  /\ \A b \in ToSet(store.freeIds) : store.mem[b] = Zero

\* "Each Entry should be in exactly one queue at any moment" (priority-FIFO;
\* the asserts of LRU rely on the same for its queue); a moveToStaleQueue event
\* is pending for exactly the entries of the FIFO queue, so it never fires for
\* an entry that is gone or was moved; and the limit holds after every call.
QueuesFollowTable ==
  LET order == EvictionOrder(store.queues)
  IN  alive => /\ ToSet(order) = DOMAIN store.table
               /\ Len(order) = Cardinality(DOMAIN store.table)
               /\ store.timers = ToSet(store.queues["FIFO"])
               /\ Len(order) <= limit

\* Where an entry stands in the eviction order: unsolicited, stale, fresh.
Rank(s, p) ==
  CASE s.table[p].unsolicited -> 0
    [] ~s.table[p].unsolicited /\ p \notin s.timers -> 1
    [] OTHER -> 2

\* p went into the queue it is in before q did.
Precedes(s, p, q) ==
  \E k \in QueueTypes : \E i, j \in DOMAIN s.queues[k] :
    i < j /\ s.queues[k][i] = p /\ s.queues[k][j] = q

\* A step that evicts under priority-FIFO takes entries in their order.
EvictsInOrder ==
  (/\ policy = "priority_fifo" /\ policy' = policy
   /\ limit' # limit \/ ~(DOMAIN store.table' \subseteq DOMAIN store.table))
  => \A p \in DOMAIN store.table \ DOMAIN store.table', q \in DOMAIN store.table' :
      \/ Rank(store, p) < Rank(store', q)
      \/ Rank(store, p) = Rank(store', q) /\ (q \in DOMAIN store.table => Precedes(store, p, q))

\* When a new entry or a lower limit makes priority-FIFO evict, "Eviction
\* procedure exhausts the first queue before moving onto the next queue, in the
\* order of unsolicited, stale, and fresh", and within each the oldest goes
\* first, through whatever timers and refreshes the entries came there (evictOne).
EvictionPriority == [][alive' => EvictsInOrder]_csVars

\* A lookup returns the first packet, in name order, that is cached under the
\* name, matches, and is fresh when it must be: no entry is skipped because an
\* earlier one is stale or does not match.
FindsFirstMatch ==
  \A i \in Interests :
    LET matching == {p \in DOMAIN store.table :
                       MatchesData(i, p) /\ (i.mustBeFresh => store.table[p].fresh)}
    IN  FindImpl(store, i) = IF shouldServe /\ matching # {} THEN Min(matching) ELSE NotFound

\* The constructor caps the limit so that no insert fails "silently when the
\* pool drains": a CS that admits Data has a block for the next packet.
PoolNeverDrained == shouldAdmit /\ limit > 0 => store.freeIds # <<>>

\* An "nfdc cs erase" that reports success has erased its count or left nothing
\* under its prefix when its last command was carried out, whatever happened
\* between its commands.  This is for a Cs that serves: there CsManager::erase,
\* which looks for what is left with find(), never misses it, be it stale,
\* unsolicited or the last.
ServedEraseCompletes ==
  [][OnEraseReply /\ job' = NoJob => ~job.reply.rest \/ job.reply.n = job.left]_csVars
=============================================================================

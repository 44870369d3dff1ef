--------------------------- MODULE DeadNonceList ---------------------------
(***************************************************************************)
(* The Dead Nonce List (table/dead-nonce-list.cpp): a queue of hashes of   *)
(* name and nonce without timestamps.  A MARK is queued at a fixed         *)
(* interval, and once per lifetime the capacity is raised or lowered so    *)
(* that about EXPECTED_MARK_COUNT marks, that is one lifetime, stay in     *)
(* the queue.  Forwarder takes the list as a set that may forget; this     *)
(* module is the list itself.                                              *)
(***************************************************************************)
EXTENDS Integers, Sequences, FiniteSets
LOCAL INSTANCE SequencesExt

CONSTANTS
    Nonces,             \* hashes of a name and a nonce (makeEntry), none equal to MARK
    MARK,
    EXPECTED_MARK_COUNT,
    MIN_CAPACITY, INITIAL_CAPACITY, MAX_CAPACITY,
    CAPACITY_UP, CAPACITY_DOWN,     \* in percent
    EVICT_LIMIT

\* The assertions of the constructor, and MIN_CAPACITY above the number of marks.
ASSUME CapacityAssumption ==
    /\ MIN_CAPACITY <= INITIAL_CAPACITY /\ INITIAL_CAPACITY <= MAX_CAPACITY
    /\ (MIN_CAPACITY * CAPACITY_UP) \div 100 > MIN_CAPACITY
    /\ (MAX_CAPACITY * CAPACITY_DOWN) \div 100 < MAX_CAPACITY
    /\ EXPECTED_MARK_COUNT < MIN_CAPACITY /\ EXPECTED_MARK_COUNT <= EVICT_LIMIT

VARIABLES
    queue,      \* m_queue, nonces and marks, oldest first
    capacity,   \* m_capacity
    counts,     \* m_actualMarkCounts, as a set: only its extremes are read
    marks,      \* marks made since the last adjustment
    recent      \* history: the last MIN_CAPACITY things added or marked

dnlVars == <<queue, capacity, counts, marks, recent>>

countMarks(q) == Len(SelectSeq(q, LAMBDA e: e = MARK))

has(e) == \E i \in DOMAIN queue : queue[i] = e

\* evictEntries, run only when the queue is over its capacity.
EvictEntries(q, cap) ==
    LET over == Len(q) - cap
        nEvict == IF over > EVICT_LIMIT THEN EVICT_LIMIT ELSE over
    IN IF over <= 0 THEN q ELSE SubSeq(q, nEvict + 1, Len(q))

Remembered(e) ==
    LET r == Append(recent, e) IN
    IF Len(r) > MIN_CAPACITY THEN Tail(r) ELSE r

DnlInit == /\ queue = [i \in 1 .. EXPECTED_MARK_COUNT |-> MARK]
           /\ capacity = INITIAL_CAPACITY
           /\ counts = {} /\ marks = 0 /\ recent = <<>>

\* Mutation: a nonce that is listed already stays where it is.
AddKeepsPlace(e) ==
    /\ queue' = IF has(e) THEN queue ELSE EvictEntries(Append(queue, e), capacity)
    /\ recent' = Remembered(e)
    /\ UNCHANGED <<capacity, counts, marks>>

\* add: a nonce listed already moves to the end; a new one may evict old ones.
Add(e) ==
    /\ queue' = IF has(e) THEN Append(SelectSeq(queue, LAMBDA x: x # e), e)
                ELSE EvictEntries(Append(queue, e), capacity)
    /\ recent' = Remembered(e)
    /\ UNCHANGED <<capacity, counts, marks>>

\* mark, every lifetime / EXPECTED_MARK_COUNT.
Mark ==
    /\ marks < EXPECTED_MARK_COUNT
    /\ queue' = Append(queue, MARK)
    /\ counts' = counts \cup {countMarks(queue')}
    /\ marks' = marks + 1
    /\ recent' = Remembered(MARK)
    /\ UNCHANGED capacity

\* adjustCapacity, every lifetime; the last mark of the lifetime may come just before
\* or just after it.
AdjustCapacity ==
    LET down == (capacity * CAPACITY_DOWN) \div 100
        up == (capacity * CAPACITY_UP) \div 100
    IN
    /\ marks >= EXPECTED_MARK_COUNT - 1
    /\ capacity' = IF \A n \in counts : n > EXPECTED_MARK_COUNT
                   THEN IF down < MIN_CAPACITY THEN MIN_CAPACITY ELSE down
                   ELSE IF \A n \in counts : n < EXPECTED_MARK_COUNT
                   THEN IF up > MAX_CAPACITY THEN MAX_CAPACITY ELSE up
                   ELSE capacity
    /\ queue' = EvictEntries(queue, capacity')
    /\ counts' = {} /\ marks' = 0
    /\ UNCHANGED recent

DnlNext == (\E e \in Nonces : Add(e)) \/ Mark \/ AdjustCapacity

DnlSpec == DnlInit /\ [][DnlNext]_dnlVars

\* However the capacity has been adapted, a nonce among the last MIN_CAPACITY nonces and
\* marks is still listed, so a loop that short is always detected (add, evictEntries).
RecentNoncesAreListed == \A i \in DOMAIN recent : has(recent[i])

===========================================================================

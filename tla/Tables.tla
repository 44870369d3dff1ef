------------------------------- MODULE Tables -------------------------------
(***************************************************************************)
(* The name-based tables of the forwarder and the name tree they share:    *)
(* a name tree entry (NTE) exists for every prefix of a name that some     *)
(* table uses, and FIB entries, PIT entries, Measurements entries and      *)
(* strategy choices hang on it.  PIT entries also own an ORAM block each.  *)
(*                                                                         *)
(* Names are abstract: Prefixes[n] is the set of prefixes of n, n itself   *)
(* included.  An Interest stands for what Entry::canMatch compares: its    *)
(* full name and its selectors.  LongName[i] is that name cut at           *)
(* NameTree::getMaxDepth(); NteName[i] is the name its PIT entry hangs on, *)
(* which is shorter when the name ends with an implicit digest.            *)
(***************************************************************************)
EXTENDS Integers, Sequences, FiniteSets

CONSTANTS Names, Root, Prefixes,
          Interests, NteName, LongName,
          LargeInterests,     \* encoded size above MAX_WIRE_BYTES
          Faces, Strategies, TypeOf, DefaultStrategy,
          PitCapacity,        \* Pit::ORAM_CAPACITY
          \* the names that routes, measurements and strategy choices are made for
          RoutedNames, MeasuredNames, ChosenNames

VARIABLES faces,      \* FaceTable::m_faces
          ntes,       \* the names that have an entry in NameTree::m_ht
          fib,        \* next hops of each name; a FIB entry has at least one
          pit,        \* the PIT entries, by Interest
          freeIds,    \* Pit::s_freeBlockIds
          mem,        \* what each block of Pit::s_oram holds
          meas,       \* the Measurements entries and their StrategyInfo types
          sc          \* the strategy choices, by name

tableVars == <<faces, ntes, fib, pit, freeIds, mem, meas, sc>>

BlockIds == 0 .. PitCapacity - 1

Cleared == "cleared"

(* Prefixes is a tree order with the empty name Root at its bottom, and an *)
(* Interest hangs on a prefix of its own name.                             *)
ASSUME NameOrder ==
    /\ Root \in Names
    /\ Prefixes \in [Names -> SUBSET Names]
    /\ \A n \in Names : n \in Prefixes[n] /\ Root \in Prefixes[n]
    /\ \A n \in Names : \A p \in Prefixes[n] :
          /\ Prefixes[p] \subseteq Prefixes[n]
          /\ n \in Prefixes[p] => p = n
          /\ \A q \in Prefixes[n] : p \in Prefixes[q] \/ q \in Prefixes[p]

ASSUME TableConstants ==
    /\ NteName \in [Interests -> Names]
    /\ LongName \in [Interests -> Names]
    /\ \A i \in Interests : NteName[i] \in Prefixes[LongName[i]]
    /\ LargeInterests \subseteq Interests
    /\ Cleared \notin Interests
    /\ DefaultStrategy \in Strategies
    /\ PitCapacity \in Nat \ {0}
    /\ RoutedNames \cup MeasuredNames \cup ChosenNames \subseteq Names

-----------------------------------------------------------------------------
(* The name tree.                                                          *)

(* NameTree::lookup creates the entry of a name and of all its prefixes.   *)
Lookup(n) == ntes \cup Prefixes[n]

Update(f, x, y) == [z \in DOMAIN f \cup {x} |-> IF z = x THEN y ELSE f[z]]

Without(f, x) == [z \in DOMAIN f \ {x} |-> f[z]]

(* Entry::hasTableEntries, for all names at once.                          *)
Held(f, p, m, s) ==
    {n \in Names : f[n] # {}} \cup {NteName[i] : i \in DOMAIN p}
        \cup DOMAIN m \cup DOMAIN s

(* Mutation: the walk looks at table entries only, not at other children.  *)
PrunedDespiteChildren(held, n) ==
    {m \in Prefixes[n] : Prefixes[n] \ Prefixes[m] \subseteq Names \ held /\ m \notin held}

(* The entries NameTree::eraseIfEmpty erases, going up from n while the    *)
(* entry holds nothing and has no child left.                              *)
Pruned(held, n) ==
    {m \in Prefixes[n] :
        \A x \in ntes : m \in Prefixes[x] => x \in Prefixes[n] \ held}

EraseIfEmpty(held, n) == ntes \ Pruned(held, n)

Longest(S) == CHOOSE p \in S : \A q \in S : q \in Prefixes[p]

(* The entries the pit::Entry form of findLongestPrefixMatch walks over:   *)
(* deeper than NteName as long as there is an entry, then up to the root.  *)
Reached(i) == {p \in Prefixes[LongName[i]] : Prefixes[p] \subseteq ntes}

-----------------------------------------------------------------------------
(* FIB.                                                                    *)

HasFib == {n \in Names : fib[n] # {}}

(* The next hops of the longest of the names S that has a FIB entry; the   *)
(* empty entry when none has.                                              *)
FindLongestPrefixMatch(S) ==
    IF S \cap HasFib = {} THEN {} ELSE fib[Longest(S \cap HasFib)]

AddOrUpdateNextHop(n, f) == [fib EXCEPT ![n] = @ \cup {f}]

(* FibManager::addNextHop: Fib::insert and Fib::addOrUpdateNextHop.        *)
AddNextHop(n, f) ==
    /\ f \in faces
    /\ ntes' = Lookup(n)
    /\ fib' = AddOrUpdateNextHop(n, f)
    /\ UNCHANGED <<faces, pit, freeIds, mem, meas, sc>>

(* Fib::removeNextHop.  An entry that loses its last next hop is erased,   *)
(* and its NTE stays: Fib::erase is called with canDeleteNte false.        *)
EraseNextHop(n, f) == [fib EXCEPT ![n] = @ \ {f}]

(* FibManager::removeNextHop.                                              *)
RemoveNextHop(n, f) ==
    /\ f \in faces
    /\ f \in fib[n]
    /\ fib' = EraseNextHop(n, f)
    /\ UNCHANGED <<faces, ntes, pit, freeIds, mem, meas, sc>>

-----------------------------------------------------------------------------
(* PIT.                                                                    *)

(* interest is the copy that refreshInterest replaces by the one read from *)
(* the block.                                                              *)
NewEntry(i, b) == [interest |-> i, block |-> b, faces |-> {}, info |-> {}]

(* The PIT entries on the Interest's NTE that match it.                    *)
CanMatch(i) == {e \in DOMAIN pit : NteName[e] = NteName[i] /\ pit[e].interest = i}

(* Pit::allocateBlockId: the front of the free list, if there is one.      *)
AllocateBlockId == {freeIds[k] : k \in DOMAIN freeIds \cap {1}}

WriteInterestToOram(b, i) == [mem EXCEPT ![b] = i]

(* The Interest a valid block holds; a cleared one leaves the entry's copy.*)
ReadInterestFromOram(b, copy) == IF mem[b] = Cleared THEN copy ELSE mem[b]

(* Pit::findOrInsert with allowInsert, no entry matching the Interest.  The*)
(* NTE is created first and stays when no block can be had or the Interest *)
(* does not fit into one; the block goes back to the end of the free list. *)
PitInsert(i) ==
    /\ CanMatch(i) = {}
    /\ ntes' = Lookup(NteName[i])
    /\ \/ /\ AllocateBlockId = {}
          /\ UNCHANGED <<pit, freeIds, mem>>
       \/ /\ AllocateBlockId # {}
          /\ i \in LargeInterests
          /\ freeIds' = Append(Tail(freeIds), Head(freeIds))
          /\ UNCHANGED <<pit, mem>>
       \/ \E b \in AllocateBlockId :
          /\ i \notin LargeInterests
          /\ freeIds' = Tail(freeIds)
          /\ mem' = WriteInterestToOram(b, i)
          /\ pit' = Update(pit, i, NewEntry(i, b))
    /\ UNCHANGED <<faces, fib, meas, sc>>

(* Pit::findOrInsert, or find, with an entry that matches: the entry gets  *)
(* the Interest its block holds.                                           *)
PitFind(i) ==
    /\ \E e \in CanMatch(i) :
          pit' = [pit EXCEPT ![e].interest = ReadInterestFromOram(pit[e].block, @)]
    /\ UNCHANGED <<faces, ntes, fib, freeIds, mem, meas, sc>>

(* Mutation: the block is freed and keeps its content.                     *)
KeepBlock(b) == mem

ClearOramBlock(b) == [mem EXCEPT ![b] = Cleared]

FreeBlockId(b) == Append(freeIds, b)

(* Pit::erase, from Forwarder::onInterestFinalize.                         *)
PitErase(i) ==
    /\ i \in DOMAIN pit
    /\ mem' = ClearOramBlock(pit[i].block)
    /\ freeIds' = FreeBlockId(pit[i].block)
    /\ pit' = Without(pit, i)
    /\ ntes' = EraseIfEmpty(Held(fib, pit', meas, sc), NteName[i])
    /\ UNCHANGED <<faces, fib, meas, sc>>

(* An in-record or out-record for f is inserted.                           *)
InsertRecord(i, f) ==
    /\ i \in DOMAIN pit
    /\ f \in faces
    /\ pit' = [pit EXCEPT ![i].faces = @ \cup {f}]
    /\ UNCHANGED <<faces, ntes, fib, freeIds, mem, meas, sc>>

-----------------------------------------------------------------------------
(* Strategy choice.                                                        *)

(* StrategyChoice::findEffectiveStrategy of a name.                        *)
EffectiveStrategy(n) == sc[Longest(Prefixes[n] \cap DOMAIN sc)]

(* The same for a PIT entry.                                               *)
EffectiveForPit(i) == sc[Longest(Reached(i) \cap DOMAIN sc)]

(* Mutation: only the entry of the prefix itself is reset.                 *)
ChangedSelf(n) == {n}

(* What changeStrategy enumerates: the subtree of n down to the entries    *)
(* that have a strategy choice of their own.                               *)
Changed(n) ==
    {x \in ntes : n \in Prefixes[x] /\ \A y \in Prefixes[x] \ Prefixes[n] : y \notin DOMAIN sc}

(* StrategyChoice::changeStrategy: clearStrategyInfo on that region unless *)
(* the old and the new strategy have the same type.                        *)
ChangeStrategy(n, old, new) ==
    IF TypeOf[old] = TypeOf[new] THEN UNCHANGED <<pit, meas>>
    ELSE /\ pit' = [i \in DOMAIN pit |->
                      IF NteName[i] \in Changed(n) THEN [pit[i] EXCEPT !.info = {}] ELSE pit[i]]
         /\ meas' = [m \in DOMAIN meas |-> IF m \in Changed(n) THEN {} ELSE meas[m]]

(* StrategyChoice::insert.                                                 *)
SetStrategy(n, s) ==
    /\ n \in DOMAIN sc => sc[n] # s
    /\ ntes' = Lookup(n)
    /\ ChangeStrategy(n, EffectiveStrategy(n), s)
    /\ sc' = Update(sc, n, s)
    /\ UNCHANGED <<faces, fib, freeIds, mem>>

(* StrategyChoice::erase; never called for the root.                       *)
UnsetStrategy(n) ==
    /\ n \in DOMAIN sc \ {Root}
    /\ ChangeStrategy(n, sc[n], sc[Longest((Prefixes[n] \ {n}) \cap DOMAIN sc)])
    /\ sc' = Without(sc, n)
    /\ ntes' = EraseIfEmpty(Held(fib, pit', meas', sc'), n)
    /\ UNCHANGED <<faces, fib, freeIds, mem>>

-----------------------------------------------------------------------------
(* Measurements and StrategyInfo.                                          *)

(* A strategy puts StrategyInfo of its type on a PIT entry it handles.     *)
PitInfo(i) ==
    /\ i \in DOMAIN pit
    /\ pit' = [pit EXCEPT ![i].info = @ \cup {TypeOf[EffectiveForPit(i)]}]
    /\ UNCHANGED <<faces, ntes, fib, freeIds, mem, meas, sc>>

(* MeasurementsAccessor::filter                                            *)
Filter(s, n) == EffectiveStrategy(n) = s

(* Strategy s asks for the Measurements entry of n.  Measurements::get     *)
(* creates it; MeasurementsAccessor::filter hands it out only if s is the  *)
(* effective strategy there, and only then can s put StrategyInfo on it.   *)
Measure(s, n) ==
    /\ \E p \in DOMAIN sc : sc[p] = s
    /\ ntes' = Lookup(n)
    /\ meas' = Update(meas, n,
                 (IF n \in DOMAIN meas THEN meas[n] ELSE {})
                   \cup (IF Filter(s, n) THEN {TypeOf[s]} ELSE {}))
    /\ UNCHANGED <<faces, fib, pit, freeIds, mem, sc>>

(* Measurements::cleanup, from the entry's timer.                          *)
MeasureExpires(n) ==
    /\ n \in DOMAIN meas
    /\ meas' = Without(meas, n)
    /\ ntes' = EraseIfEmpty(Held(fib, pit, meas', sc), n)
    /\ UNCHANGED <<faces, fib, pit, freeIds, mem, sc>>

-----------------------------------------------------------------------------
(* Face table.                                                             *)

AddFace(f) ==
    /\ f \notin faces
    /\ faces' = faces \cup {f}
    /\ UNCHANGED <<ntes, fib, pit, freeIds, mem, meas, sc>>

(* The entries that stay: longer names are erased first, so what has no    *)
(* table entry at or below it goes.                                        *)
Kept(held) == {n \in ntes : \E x \in ntes \cap held : n \in Prefixes[x]}

(* Mutation: next hops are removed and PIT records are not.                *)
RecordsKept(f) == pit

(* Pit::deleteInOutRecords on every entry.                                 *)
DeleteInOutRecords(f) == [i \in DOMAIN pit |-> [pit[i] EXCEPT !.faces = @ \ {f}]]

(* FaceTable::remove, with cleanupOnFaceRemoval called by beforeRemove.    *)
RemoveFace(f) ==
    /\ f \in faces
    /\ fib' = [n \in Names |-> fib[n] \ {f}]
    /\ pit' = DeleteInOutRecords(f)
    /\ ntes' = Kept(Held(fib', pit', meas, sc))
    /\ faces' = faces \ {f}
    /\ UNCHANGED <<freeIds, mem, meas, sc>>

-----------------------------------------------------------------------------
(* Forwarder::Forwarder sets the default strategy, at the root.            *)
DefaultChoice == [n \in {Root} |-> DefaultStrategy]

(* initOram fills the free list in order.                                  *)
TablesInit ==
    /\ faces = {}
    /\ ntes = {Root}
    /\ fib = [n \in Names |-> {}]
    /\ pit = << >>
    /\ freeIds = [k \in 1 .. PitCapacity |-> k - 1]
    /\ mem = [b \in BlockIds |-> Cleared]
    /\ meas = << >>
    /\ sc = DefaultChoice

TablesNext ==
    \/ \E f \in Faces : AddFace(f) \/ RemoveFace(f)
    \/ \E n \in RoutedNames, f \in Faces : AddNextHop(n, f) \/ RemoveNextHop(n, f)
    \/ \E i \in Interests : PitInsert(i) \/ PitFind(i) \/ PitErase(i) \/ PitInfo(i)
    \/ \E i \in Interests, f \in Faces : InsertRecord(i, f)
    \/ \E n \in ChosenNames, s \in Strategies : SetStrategy(n, s)
    \/ \E n \in ChosenNames : UnsetStrategy(n)
    \/ \E n \in MeasuredNames, s \in Strategies : Measure(s, n)
    \/ \E n \in MeasuredNames : MeasureExpires(n)

TablesSpec == TablesInit /\ [][TablesNext]_tableVars

-----------------------------------------------------------------------------
(* The name tree is closed under prefixes and has the entry of every name  *)
(* some table uses: whatever order entries are erased in, eraseIfEmpty     *)
(* never takes an NTE away from under a table entry or a child (the        *)
(* assertions of NameTree::lookup and Measurements::cleanup rely on it).   *)
TreeCoversTables ==
    /\ \A n \in ntes : Prefixes[n] \subseteq ntes
    /\ Held(fib, pit, meas, sc) \subseteq ntes
    /\ Root \in DOMAIN sc

(* A block id is free exactly once or belongs to exactly one PIT entry.    *)
(* The block of an entry holds its Interest, so that the copy              *)
(* Pit::findOrInsert reads back is the one the entry was made of; every    *)
(* other block is cleared.                                                 *)
PitBlockAccounting ==
    /\ \A k, l \in DOMAIN freeIds : freeIds[k] = freeIds[l] => k = l
    /\ \A i, j \in DOMAIN pit : pit[i].block = pit[j].block => i = j
    /\ \A b \in BlockIds :
          (\E k \in DOMAIN freeIds : freeIds[k] = b) <=> ~ \E i \in DOMAIN pit : pit[i].block = b
    /\ \A i \in DOMAIN pit : mem[pit[i].block] = i /\ pit[i].interest = i
    /\ \A k \in DOMAIN freeIds : mem[freeIds[k]] = Cleared

(* After a face is removed no next hop and no PIT record refers to it.     *)
NoDanglingFace ==
    /\ \A n \in Names : fib[n] \subseteq faces
    /\ \A i \in DOMAIN pit : pit[i].faces \subseteq faces

(* StrategyInfo left by a strategy does not outlive its being the effective*)
(* strategy of the Measurements entry, or of the PIT entry, it lies on     *)
(* (changeStrategy); for PIT entries that hang on their own name.  And a   *)
(* match that starts at a PIT entry and climbs the tree finds the strategy *)
(* and the routes of the Interest's full name, which may end with an       *)
(* implicit digest.                                                        *)
InfoFollowsStrategy ==
    /\ \A n \in DOMAIN meas : meas[n] \subseteq {TypeOf[EffectiveStrategy(n)]}
    /\ \A i \in DOMAIN pit :
          /\ NteName[i] = LongName[i] => pit[i].info \subseteq {TypeOf[EffectiveForPit(i)]}
          /\ EffectiveForPit(i) = EffectiveStrategy(LongName[i])
          /\ FindLongestPrefixMatch(Reached(i)) = FindLongestPrefixMatch(Prefixes[LongName[i]])

IsEmpty(n) == n \notin Held(fib, pit, meas, sc) /\ \A x \in ntes : n \in Prefixes[x] => x = n

(* What Pit::findOrInsert asserts when it looks for an Interest, without   *)
(* inserting, finds its NTE and no matching entry: the NTE is not empty.   *)
FindMeetsNoEmptyNte ==
    \A i \in Interests \ DOMAIN pit : NteName[i] \in ntes => ~ IsEmpty(NteName[i])
=============================================================================

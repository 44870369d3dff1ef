--------------------------- MODULE NameTreeIndex ---------------------------
(***************************************************************************)
(* The data structure under FIB, PIT, StrategyChoice and Measurements: a   *)
(* chained hash table of name tree entries that grows and shrinks with its *)
(* load (name-tree-hashtable.cpp), the parent/children links between the   *)
(* entries (name-tree.cpp, name-tree-entry.cpp), the iterators that walk   *)
(* either one (name-tree-iterator.cpp), and the cleanup that erases what   *)
(* an enumeration has collected (cleanup.cpp).  Tables models what the     *)
(* four tables store in the tree; here an entry only is, or is not,        *)
(* holding some table entry.                                               *)
(*                                                                         *)
(* "If a name tree entry is inserted or deleted during the enumeration, it *)
(* may cause the enumeration to skip entries or visit some entries twice"  *)
(* (name-tree.hpp).  No caller does so: each runs an enumeration to its    *)
(* end in one handler, and erases, if at all, afterwards.  So an           *)
(* enumeration is one operator, the iteration of advance.                  *)
(***************************************************************************)
EXTENDS Integers, Sequences, FiniteSets
LOCAL INSTANCE FiniteSetsExt
LOCAL INSTANCE SequencesExt
LOCAL INSTANCE Bitwise

CONSTANTS
    Stored,             \* the names under which the tables store entries
    Cuts,               \* names a partial enumeration leaves out, with their subtrees
    ComponentHash,      \* the hash of each name component
    MinSize,            \* HashtableOptions: the factors are percentages
    ExpandLoad, ExpandFactor, ShrinkLoad, ShrinkFactor

ASSUME HashtableOptions ==
    /\ MinSize > 0
    /\ ExpandLoad > 0 /\ ExpandLoad <= 100 /\ ExpandFactor > 100
    /\ ShrinkLoad >= 0 /\ ShrinkLoad < 100 /\ ShrinkFactor > 0 /\ ShrinkFactor < 100

VARIABLES
    ht,         \* the hash table: buckets, size, expandThreshold, shrinkThreshold
    children,   \* name of an entry |-> its m_children, in vector order
    held        \* the entries with a table entry attached

ntVars == <<ht, children, held>>

PrefixesOf(n) == {SubSeq(n, 1, i) : i \in 0 .. Len(n)}
NtNames == UNION {PrefixesOf(n) : n \in Stored}

---------------------------------------------------------------------------
(* The hash table *)

\* The hash of a name is the exclusive or of the hashes of its components, so
\* names with the same components in another order share one.
computeHash[n \in NtNames] ==
    IF n = <<>> THEN 0 ELSE computeHash[Front(n)] ^^ ComponentHash[Last(n)]

BucketIndex(n, nBuckets) == (computeHash[n] % nBuckets) + 1

WithThresholds(buckets, size) ==
    [buckets |-> buckets, size |-> size,
     expandThreshold |-> (ExpandLoad * Len(buckets)) \div 100,
     shrinkThreshold |-> (ShrinkLoad * Len(buckets)) \div 100]

NewHashtable == WithThresholds([b \in 1 .. MinSize |-> <<>>], 0)

\* attach puts a node at the head of its bucket.
AttachNode(buckets, n) ==
    [buckets EXCEPT ![BucketIndex(n, Len(buckets))] = <<n>> \o @]

\* Mutation: the buckets are relinked with the lists they had.
ResizeInPlace(t, nBuckets) ==
    WithThresholds([b \in 1 .. nBuckets |-> IF b \in DOMAIN t.buckets THEN t.buckets[b] ELSE <<>>],
                   t.size)

\* Every node is attached again, oldest bucket first; each list comes out reversed.
Resize(t, nBuckets) ==
    IF nBuckets = Len(t.buckets) THEN t
    ELSE WithThresholds(
           [b \in 1 .. nBuckets |->
              Reverse(SelectSeq(FlattenSeq(t.buckets), LAMBDA n: BucketIndex(n, nBuckets) = b))],
           t.size)

FindNode(t, n) ==
    \E i \in DOMAIN t.buckets[BucketIndex(n, Len(t.buckets))] :
        t.buckets[BucketIndex(n, Len(t.buckets))][i] = n

InsertNode(t, n) ==
    LET s == [t EXCEPT !.buckets = AttachNode(@, n), !.size = @ + 1] IN
    IF FindNode(t, n) THEN t
    ELSE IF s.size > s.expandThreshold THEN Resize(s, (ExpandFactor * Len(s.buckets)) \div 100)
    ELSE s

EraseNode(t, n) ==
    LET s == [t EXCEPT !.buckets[BucketIndex(n, Len(t.buckets))] = SelectSeq(@, LAMBDA m: m # n),
                       !.size = @ - 1]
        shrunk == (ShrinkFactor * Len(s.buckets)) \div 100
    IN IF s.size < s.shrinkThreshold
       THEN Resize(s, IF shrunk < MinSize THEN MinSize ELSE shrunk)
       ELSE s

---------------------------------------------------------------------------
(* The tree *)

HasChildren(n) == children[n] # <<>>

\* lookup: the prefixes of a name are inserted shortest first, each new one
\* appended to the children of its parent.
RECURSIVE LookupFrom(_, _, _)
LookupFrom(s, n, i) ==
    LET p == SubSeq(n, 1, i) IN
    IF i > Len(n) THEN s
    ELSE LookupFrom(
           IF p \in DOMAIN s.children THEN [s EXCEPT !.ht = InsertNode(@, p)]
           ELSE [ht |-> InsertNode(s.ht, p),
                 children |-> [m \in DOMAIN s.children \cup {p} |->
                    IF m = p THEN <<>>
                    ELSE IF i > 0 /\ m = SubSeq(n, 1, i - 1) THEN Append(s.children[m], p)
                    ELSE s.children[m]]],
           n, i + 1)

\* unsetParent: the other children keep their order.
UnsetParent(kids, n) == SelectSeq(kids, LAMBDA c: c # n)

\* One round of eraseIfEmpty: the entry leaves its parent's vector and the hash table.
EraseEntry(s, n) ==
    [ht |-> EraseNode(s.ht, n),
     children |-> [m \in DOMAIN s.children \ {n} |->
                     IF n # <<>> /\ m = Front(n) THEN UnsetParent(s.children[m], n)
                     ELSE s.children[m]]]

IsEmptyEntry(s, n, stillHeld) == n \notin stillHeld /\ s.children[n] = <<>>

\* eraseIfEmpty: an entry with no table entry and no child goes, and its parent
\* is tried next.
RECURSIVE EraseIfEmptyFrom(_, _, _)
EraseIfEmptyFrom(s, n, stillHeld) ==
    IF ~IsEmptyEntry(s, n, stillHeld) THEN s
    ELSE IF n = <<>> THEN EraseEntry(s, n)
    ELSE EraseIfEmptyFrom(EraseEntry(s, n), Front(n), stillHeld)

---------------------------------------------------------------------------
(* Iterators.  An iterator is advanced once when it is made and once per ++. *)

Ended(i) == [i EXCEPT !.done = TRUE]
Visit(i, n) == [i EXCEPT !.entry = n, !.visited = Append(@, n)]

\* FullEnumerationImpl::advance: the rest of the bucket the entry is in, then the
\* buckets after the one its hash selects.
FullAdvance(i) ==
    LET b == BucketIndex(i.entry, Len(ht.buckets))
        at == SelectInSeq(ht.buckets[b], LAMBDA n: n = i.entry)
        rest == SubSeq(ht.buckets[b], at + 1, Len(ht.buckets[b]))
                    \o FlattenSeq(SubSeq(ht.buckets, b + 1, Len(ht.buckets)))
        ahead == IF i.started THEN rest ELSE FlattenSeq(ht.buckets)
        k == SelectInSeq(ahead, LAMBDA n: n \in i.want)
    IN IF k = 0 THEN Ended(i) ELSE Visit([i EXCEPT !.started = TRUE], ahead[k])

\* The selector of the two callers (Forwarder::onNewNextHop, StrategyChoice::changeStrategy):
\* below the first entry, one that overrides it is left out with its descendants.
WantChildren(i, n) == n = i.ref \/ n \notin Cuts
WantSelf(i, n) == WantChildren(i, n) /\ n \in i.want

\* The pre-order loop of PartialEnumerationImpl::advance, from entry n.
RECURSIVE Traverse(_, _, _)
Traverse(i, n, wantChildren) ==
    LET siblings == children[Front(n)]
        at == SelectInSeq(siblings, LAMBDA c: c = n)
        after == SubSeq(siblings, at + 1, Len(siblings))
        k == SelectInSeq(after, LAMBDA c: WantChildren(i, c))
        kid == Head(children[n])
    IN IF wantChildren /\ HasChildren(n)
       THEN IF WantSelf(i, kid) THEN Visit([i EXCEPT !.state = WantChildren(i, kid)], kid)
            ELSE Traverse(i, kid, WantChildren(i, kid))
       ELSE IF n = i.ref THEN Ended(i)
       ELSE IF k = 0 THEN Traverse(i, Front(n), FALSE)
       ELSE IF WantSelf(i, after[k])
            THEN Visit([i EXCEPT !.state = TRUE], after[k])
       ELSE Traverse(i, after[k], TRUE)

PartialAdvance(i) ==
    LET j == [i EXCEPT !.started = TRUE] IN
    CASE i.started -> Traverse(i, i.entry, i.state)
      [] ~i.started /\ i.ref \notin DOMAIN children -> Ended(i)
      [] ~i.started /\ i.ref \in DOMAIN children /\ WantSelf(i, i.ref) -> Visit(j, i.ref)
      [] OTHER -> Traverse(j, i.ref, TRUE)

\* PrefixMatchImpl::advance: up the parents, from the longest match of findAllMatches.
PrefixMatchAdvance(i) ==
    LET up == {p \in PrefixesOf(i.entry) : p \in i.want /\ (i.started => p # i.entry)}
        j == [i EXCEPT !.started = TRUE]
    IN IF up = {} THEN Ended(j)
       ELSE Visit(j, CHOOSE p \in up : \A q \in up : Len(q) <= Len(p))

Advance(i) == CASE i.kind = "full" -> FullAdvance(i)
                [] i.kind = "partial" -> PartialAdvance(i)
                [] i.kind = "prefixes" -> PrefixMatchAdvance(i)

\* entry and ref are m_entry and m_ref; want is the set of entries the selector accepts.
Iterator(kind, ref, want) ==
    [kind |-> kind, entry |-> ref, ref |-> ref, want |-> want, state |-> TRUE,
     started |-> FALSE, done |-> FALSE, visited |-> <<>>]

\* The entries an iterator visits from where it is to the end.
RECURSIVE Enumeration(_)
Enumeration(i) == IF i.done THEN i.visited ELSE Enumeration(Advance(i))

---------------------------------------------------------------------------
(* Actions *)

NtInit == ht = NewHashtable /\ children = <<>> /\ held = {}

Tree == [ht |-> ht, children |-> children]

Becomes(s) == ht' = s.ht /\ children' = s.children

\* A table stores an entry under n: lookup, then setFibEntry, insertPitEntry, ...
Store(n) == /\ n \notin held
            /\ held' = held \cup {n}
            /\ Becomes(LookupFrom(Tree, n, 0))

\* A table drops its entry of n and lets the tree clean up.
Unstore(n) == /\ n \in held
              /\ held' = held \ {n}
              /\ Becomes(EraseIfEmptyFrom(Tree, n, held \ {n}))

\* Fib::removeNextHop drops the entry of n and leaves the tree as it is.
Release(n) == /\ n \in held
              /\ held' = held \ {n}
              /\ UNCHANGED <<ht, children>>

\* Mutation: the entries are erased in the order they were met.
AsVisited(visited) == visited

\* maybeEmptyNtes, walked from its end: by length, and the last met first.
LongestFirst(visited) ==
    LET longest == Max({Len(n) : n \in NtNames})
        ofLength(l) == Reverse(SelectSeq(visited, LAMBDA n: Len(n) = l))
    IN FlattenSeq([k \in 1 .. longest + 1 |-> ofLength(longest + 1 - k)])

\* cleanupOnFaceRemoval, for a face whose removal takes the table entries of gone:
\* an enumeration collects the entries that hold nothing, which are then erased,
\* each without its ancestors.
Cleanup(gone) ==
    LET rest == held \ gone
        visited == Enumeration(Iterator("full", <<>>, DOMAIN children))
        maybeEmpty == SelectSeq(visited, LAMBDA n: n \notin rest)
    IN /\ held' = rest
       /\ Becomes(FoldLeft(LAMBDA s, n: IF IsEmptyEntry(s, n, rest) THEN EraseEntry(s, n) ELSE s,
                           Tree, LongestFirst(maybeEmpty)))

NtNext == \/ \E n \in Stored : Store(n) \/ Unstore(n) \/ Release(n)
          \/ \E gone \in SUBSET held : Cleanup(gone)

NtSpec == NtInit /\ [][NtNext]_ntVars

---------------------------------------------------------------------------
(* Properties *)

\* What an enumeration is to visit: the entries its selector accepts.
InRange(kind, ref, n) ==
    CASE kind = "full" -> TRUE
      [] kind = "partial" -> /\ ref \in PrefixesOf(n)
                             /\ \A p \in PrefixesOf(n) \ PrefixesOf(ref) : p \notin Cuts
      [] kind = "prefixes" -> n \in PrefixesOf(ref)

\* After any insertions, erasures and resizes, an enumeration visits every entry that
\* is in its range and that its selector accepts, and none twice: the walk over the
\* buckets and the two walks over the parent and children links agree on what is in
\* the tree (the advance functions of name-tree-iterator.cpp).
EnumerationsAreComplete ==
    \A want \in {held, DOMAIN children}, ref \in NtNames, kind \in {"full", "partial", "prefixes"} :
        LET visited == Enumeration(Iterator(kind, ref, want)) IN
        /\ ToSet(visited) = {n \in want : InRange(kind, ref, n)}
        /\ IsInjective(visited)

\* The assertion that ends cleanupOnFaceRemoval: no entry without a table entry and
\* without children is left, neither by this removal nor by the removals of next hops
\* before it, and nothing that is in use is erased.
CleanupLeavesNoEmpty ==
    [][\A gone \in SUBSET held : Cleanup(gone)
         => DOMAIN children' = UNION {PrefixesOf(n) : n \in held'}]_ntVars
===========================================================================

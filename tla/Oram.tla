-------------------------------- MODULE Oram --------------------------------
(***************************************************************************)
(* The Path-ORAM client of OramReadPathEviction with the bucket store of   *)
(* ServerStorage.  One action is one call of access(): its callers hold    *)
(* s_oramMutex around it, so the call is atomic.                           *)
(*                                                                         *)
(* Abstractions.  A block is its index and its data: dummies (index -1)    *)
(* are the absence of a block, and leaf_id is never read.  The stash and   *)
(* a bucket are sets of blocks; which eligible blocks an eviction takes    *)
(* (in the code, the first ones in stash order) is left open.              *)
(***************************************************************************)
EXTENDS Integers, FiniteSets

CONSTANTS
  NumBlocks,   \* num_blocks: logical blocks 0 .. num_blocks - 1
  NumLevels,   \* num_levels: depth of the tree
  BucketSize,  \* bucket_size: slots of a bucket
  Data,        \* contents a block can hold, the zero content included
  Zero         \* the all-zero content

VARIABLES
  position_map,  \* the leaf each block is assigned to
  stash,         \* blocks held by the client
  buckets,       \* the tree: the real blocks in each bucket
  last           \* the latest access: the block, and the buffer written or returned

oramVars == <<position_map, stash, buckets, last>>

-----------------------------------------------------------------------------
(* Geometry *)

Blocks == 0 .. NumBlocks - 1

Levels == 0 .. NumLevels - 1

Buckets == 0 .. 2^NumLevels - 2

Leaves == 0 .. 2^(NumLevels - 1) - 1

\* Bucket::max_size; addBlock drops what does not fit.
MaxBucketSize == 4

\* The bucket of a tree of n levels that is at a level on the way to a leaf.
BucketAt(n, leaf, level) == 2^level - 1 + leaf \div 2^(n - level - 1)

P(leaf, level) == BucketAt(NumLevels, leaf, level)

Path(leaf) == {P(leaf, l) : l \in Levels}

Block == [index : Blocks, data : Data]

\* The constructor refuses a tree with too few slots; the level count itself
\* comes from a floating-point logarithm and is not otherwise relied on.
ASSUME OramConstants ==
  /\ NumBlocks \in Nat \ {0}
  /\ NumLevels \in Nat \ {0}
  /\ BucketSize \in 1 .. MaxBucketSize
  /\ (2^NumLevels - 1) * BucketSize >= NumBlocks
  /\ Zero \in Data

\* Arithmetic of P for the tree at hand: a path has one bucket per level, all
\* in the store, and every path starts at the root.
ASSUME OramGeometry ==
  /\ Leaves # {}
  /\ \A leaf \in Leaves, l \in Levels : P(leaf, l) \in Buckets
  /\ \A x, y \in Leaves, l, m \in Levels : P(x, l) = P(y, m) => l = m
  /\ \A leaf \in Leaves : P(leaf, 0) = 0

-----------------------------------------------------------------------------
(* access() *)

\* Every real block of the path to the leaf joins the stash.
Absorb(leaf) == stash \cup UNION {buckets[k] : k \in Path(leaf)}

\* The blocks with the target's index; the search ends on one of them.
Matches(st, b) == {x \in st : x.index = b}

\* Mutation: the write goes to a copy of the found slot and is lost.
OverwriteCopy(st, b, d) ==
  IF Matches(st, b) = {} THEN st \cup {[index |-> b, data |-> d]} ELSE st

\* A WRITE overwrites the target's data, or adds the block.
Overwrite(st, b, d) ==
  IF Matches(st, b) = {}
  THEN st \cup {[index |-> b, data |-> d]}
  ELSE LET slot == CHOOSE x \in Matches(st, b) : TRUE
       IN  (st \ {slot}) \cup {[index |-> b, data |-> d]}

\* A READ copies the target's data, or leaves the zeroed buffer.
Fetch(st, b) ==
  IF Matches(st, b) = {}
  THEN Zero
  ELSE (CHOOSE x \in Matches(st, b) : TRUE).data

\* A write-back is the level each stash block goes to, or Stays.
Stays == -1

Taken(to, st, l) == {x \in st : to[x] = l}

\* Blocks that no deeper level has taken and whose own path goes through the
\* bucket of the level on the way to the leaf.
Eligible(to, st, pm, leaf, l) ==
  {x \in st : to[x] <= l /\ P(pm[x.index], l) = P(leaf, l)}

\* Mutation: the write-back loop stops before the root.
EvictsAboveRoot(to, st, pm, leaf) ==
  /\ Taken(to, st, 0) = {}
  /\ \A l \in Levels \ {0} :
       LET taken    == Taken(to, st, l)
           eligible == Eligible(to, st, pm, leaf, l)
       IN  /\ taken \subseteq eligible
           /\ Cardinality(taken) <= BucketSize
           /\ taken = eligible \/ Cardinality(taken) = BucketSize

\* The write-back goes deepest level first: each bucket takes eligible blocks
\* until it is full or none is left.
Evicts(to, st, pm, leaf) ==
  \A l \in Levels :
    LET taken    == Taken(to, st, l)
        eligible == Eligible(to, st, pm, leaf, l)
    IN  /\ taken \subseteq eligible
        /\ Cardinality(taken) <= BucketSize
        /\ taken = eligible \/ Cardinality(taken) = BucketSize

\* Mutation: the target gets its new position only after the write-back.
WriteBackStalePosition(b, newLeaf, st) ==
  LET oldLeaf == position_map[b]
  IN  /\ position_map' = [position_map EXCEPT ![b] = newLeaf]
      /\ \E to \in [st -> Levels \cup {Stays}] :
           /\ Evicts(to, st, position_map, oldLeaf)
           /\ stash' = Taken(to, st, Stays)
           /\ buckets' = [k \in Buckets |->
                            IF k \in Path(oldLeaf)
                            THEN {x \in st : to[x] # Stays /\ P(oldLeaf, to[x]) = k}
                            ELSE buckets[k]]

\* The part common to READ and WRITE: st is the stash once the target has been
\* dealt with, newLeaf the target's new position.
WriteBack(b, newLeaf, st) ==
  LET oldLeaf == position_map[b]
  IN  /\ position_map' = [position_map EXCEPT ![b] = newLeaf]
      /\ \E to \in [st -> Levels \cup {Stays}] :
           /\ Evicts(to, st, position_map', oldLeaf)
           /\ stash' = Taken(to, st, Stays)
           /\ buckets' = [k \in Buckets |->
                            IF k \in Path(oldLeaf)
                            THEN {x \in st : to[x] # Stays /\ P(oldLeaf, to[x]) = k}
                            ELSE buckets[k]]

Write(b, d, newLeaf) ==
  /\ WriteBack(b, newLeaf, Overwrite(Absorb(position_map[b]), b, d))
  /\ last' = [op |-> "WRITE", index |-> b, data |-> d]

Read(b, newLeaf) ==
  /\ WriteBack(b, newLeaf, Absorb(position_map[b]))
  /\ last' = [op |-> "READ", index |-> b, data |-> Fetch(Absorb(position_map[b]), b)]

\* The constructor: random positions, every bucket full of dummies.
Init ==
  /\ position_map \in [Blocks -> Leaves]
  /\ stash = {}
  /\ buckets = [k \in Buckets |-> {}]
  /\ last = [op |-> "NONE", index |-> 0, data |-> Zero]

Next ==
  \E b \in Blocks, newLeaf \in Leaves :
    \/ Read(b, newLeaf)
    \/ \E d \in Data : Write(b, d, newLeaf)

Spec == Init /\ [][Next]_oramVars

-----------------------------------------------------------------------------
(* Properties *)

\* The client's state keeps its types: every block has a leaf, and what access()
\* returns is a block's content, also for a block that was never written.
TypeOK ==
  /\ position_map \in [Blocks -> Leaves]
  /\ stash \in SUBSET Block
  /\ buckets \in [Buckets -> SUBSET Block]
  /\ last \in [op : {"NONE", "READ", "WRITE"}, index : Blocks, data : Data]

\* Every real block there is, in the stash or in the tree.
AllCopies == stash \cup UNION {buckets[k] : k \in Buckets}

Copies(b) == Matches(AllCopies, b)

\* A block exists at most once: absorbing a path and writing it back never
\* leaves a second copy of a block behind, in another bucket or in the stash
\* (the index of a stash entry that was taken is set to -1 for this).
SingleCopy ==
  /\ \A b \in Blocks : \A x, y \in Copies(b) : x = y
  /\ \A k \in Buckets : buckets[k] \cap stash = {}
  /\ \A j, k \in Buckets : j # k => buckets[j] \cap buckets[k] = {}

\* A block in the tree is on the path to the leaf position_map gives it, so
\* the next access to it, which only reads that path, finds it.
OnPath ==
  \A k \in Buckets : \A x \in buckets[k] : k \in Path(position_map[x.index])

\* No bucket is asked to hold more than bucket_size blocks: Bucket::addBlock
\* would drop the rest without a word.
BucketsFit == \A k \in Buckets : Cardinality(buckets[k]) <= BucketSize

\* A block stays in the stash only when there is no room for it: the root
\* bucket, which is on every path, is full.
StashOnlyWhenRootFull == stash # {} => Cardinality(buckets[0]) = BucketSize

\* The content of a logical block, wherever its copy is.
Content(b) ==
  IF Copies(b) = {} THEN Zero ELSE (CHOOSE x \in Copies(b) : TRUE).data

Mem == INSTANCE OramMem WITH BlockIds <- Blocks,
                             mem <- [b \in Blocks |-> Content(b)]

\* "a block written to logical address k reads back identically after
\* arbitrary unrelated traffic": the client implements a plain array.
ImplementsMem == Mem!MemSpec
=============================================================================

----------------------------- MODULE OramProofs -----------------------------
(***************************************************************************)
(* The Path-ORAM invariant for every tree and every access sequence, and   *)
(* that the client implements the array of OramMem.                        *)
(***************************************************************************)
EXTENDS Oram, FiniteSetTheorems, TLAPS

\* What lies outside the path to a leaf; an access leaves it alone.
OffPath(leaf) == UNION {buckets[k] : k \in Buckets \ Path(leaf)}

\* The inductive invariant: a copy that is off the accessed path must be known
\* to belong to another block, and only OnPath and SingleCopy together say so.
OramInv == TypeOK /\ SingleCopy /\ OnPath

\* The position a block's leaf and a level lead to.
LEMMA PathFacts ==
  ASSUME NEW leaf \in Leaves
  PROVE  /\ Path(leaf) \subseteq Buckets
         /\ \A l \in Levels : P(leaf, l) \in Path(leaf)
         /\ \A l, m \in Levels : P(leaf, l) = P(leaf, m) => l = m
  BY OramGeometry DEF Path

\* Absorbing moves blocks from the path to the stash and loses none.
LEMMA AbsorbAll ==
  ASSUME TypeOK, NEW leaf \in Leaves
  PROVE  /\ AllCopies = Absorb(leaf) \cup OffPath(leaf)
         /\ Absorb(leaf) \in SUBSET Block
         /\ OffPath(leaf) \in SUBSET Block
  BY PathFacts DEF TypeOK, AllCopies, Absorb, OffPath

\* The block with the accessed index is never left behind off the path.
LEMMA TargetAbsorbed ==
  ASSUME OramInv, NEW b \in Blocks, NEW x \in OffPath(position_map[b])
  PROVE  x.index # b
  <1>1. PICK k \in Buckets \ Path(position_map[b]) : x \in buckets[k]
    BY DEF OffPath
  <1>2. k \in Path(position_map[x.index])
    BY <1>1 DEF OramInv, OnPath
  <1> QED
    BY <1>1, <1>2

\* Blocks on and off the path are different blocks.
LEMMA AbsorbDisjoint ==
  ASSUME OramInv, NEW leaf \in Leaves,
         NEW x \in Absorb(leaf), NEW y \in OffPath(leaf)
  PROVE  x.index # y.index
  <1>1. x \in AllCopies /\ y \in AllCopies /\ x \in Block /\ y \in Block
    BY AbsorbAll DEF OramInv
  <1>2. PICK k \in Buckets \ Path(leaf) : y \in buckets[k]
    BY DEF OffPath
  <1>3. x # y
    <2>1. CASE x \in stash
      BY <1>2, <2>1 DEF OramInv, SingleCopy
    <2>2. CASE \E j \in Path(leaf) : x \in buckets[j]
      BY <1>2, <2>2, PathFacts DEF OramInv, SingleCopy
    <2> QED
      BY <2>1, <2>2 DEF Absorb
  <1>4. x.index \in Blocks
    BY <1>1 DEF Block
  <1> QED
    BY <1>1, <1>3, <1>4 DEF OramInv, SingleCopy, Copies, Matches

\* Any two copies of the same block are equal.
LEMMA UniqueCopy ==
  ASSUME OramInv, NEW x \in AllCopies, NEW y \in AllCopies, x.index = y.index
  PROVE  x = y
  <1>1. x.index \in Blocks
    BY DEF OramInv, TypeOK, AllCopies, Block
  <1> QED
    BY <1>1 DEF OramInv, SingleCopy, Copies, Matches

\* What the write-back of a stash st may rely on.
Ready(b, st) ==
  /\ st \in SUBSET Block
  /\ \A x, y \in st : x.index = y.index => x = y
  /\ \A x \in st, y \in OffPath(position_map[b]) : x.index # y.index

\* The write-back puts every block of the stash somewhere and adds none.
LEMMA WriteBackKeepsBlocks ==
  ASSUME TypeOK, NEW b \in Blocks, NEW newLeaf \in Leaves, NEW st \in SUBSET Block,
         WriteBack(b, newLeaf, st)
  PROVE  AllCopies' = st \cup OffPath(position_map[b])
  <1> DEFINE old == position_map[b]
  <1>0. old \in Leaves
    BY DEF TypeOK
  <1>1. PICK to \in [st -> Levels \cup {Stays}] :
          /\ stash' = Taken(to, st, Stays)
          /\ buckets' = [k \in Buckets |->
                           IF k \in Path(old)
                           THEN {x \in st : to[x] # Stays /\ P(old, to[x]) = k}
                           ELSE buckets[k]]
    BY DEF WriteBack
  <1> HIDE DEF old
  <1>2. ASSUME NEW x \in st PROVE x \in AllCopies'
    <2>1. CASE to[x] = Stays
      BY <1>1, <2>1 DEF AllCopies, Taken
    <2>2. CASE to[x] # Stays
      <3>1. to[x] \in Levels
        BY <2>2
      <3>2. P(old, to[x]) \in Path(old) /\ P(old, to[x]) \in Buckets
        BY <1>0, <3>1, PathFacts
      <3>3. x \in buckets'[P(old, to[x])]
        BY <1>1, <2>2, <3>2
      <3> QED
        BY <3>2, <3>3 DEF AllCopies
    <2> QED
      BY <2>1, <2>2
  <1>3. ASSUME NEW x \in OffPath(old) PROVE x \in AllCopies'
    BY <1>1 DEF OffPath, AllCopies
  <1>4. ASSUME NEW x \in AllCopies' PROVE x \in st \cup OffPath(old)
    BY <1>1 DEF OffPath, AllCopies, Taken
  <1> QED
    BY <1>2, <1>3, <1>4 DEF old

\* The write-back re-establishes the path invariant: a bucket only takes blocks
\* whose (new) path goes through it, and every block goes to one place.
LEMMA WriteBackInv ==
  ASSUME OramInv, NEW b \in Blocks, NEW newLeaf \in Leaves, NEW st, Ready(b, st),
         WriteBack(b, newLeaf, st),
         last' \in [op : {"NONE", "READ", "WRITE"}, index : Blocks, data : Data]
  PROVE  OramInv'
  <1> DEFINE old == position_map[b]
  <1>0. old \in Leaves /\ st \in SUBSET Block /\ TypeOK
    BY DEF OramInv, TypeOK, Ready
  <1>1. position_map' = [position_map EXCEPT ![b] = newLeaf]
    BY DEF WriteBack
  <1>2. PICK to \in [st -> Levels \cup {Stays}] :
          /\ Evicts(to, st, position_map', old)
          /\ stash' = Taken(to, st, Stays)
          /\ buckets' = [k \in Buckets |->
                           IF k \in Path(old)
                           THEN {x \in st : to[x] # Stays /\ P(old, to[x]) = k}
                           ELSE buckets[k]]
    BY DEF WriteBack
  <1>3. AllCopies' = st \cup OffPath(old)
    BY <1>0, WriteBackKeepsBlocks
  <1>4. OffPath(old) \in SUBSET AllCopies
    BY DEF OffPath, AllCopies
  <1> HIDE DEF old
  <1>5. TypeOK'
    BY <1>0, <1>1, <1>2 DEF TypeOK, Taken
  <1>6. SingleCopy'
    <2>1. ASSUME NEW x \in AllCopies', NEW y \in AllCopies', x.index = y.index
          PROVE  x = y
      <3>1. CASE x \in st /\ y \in st
        BY <2>1, <3>1 DEF Ready
      <3>2. CASE x \in OffPath(old) /\ y \in OffPath(old)
        BY <2>1, <3>2, <1>4, UniqueCopy
      <3>3. CASE \/ x \in st /\ y \in OffPath(old)
                 \/ x \in OffPath(old) /\ y \in st
        BY <2>1, <3>3 DEF Ready, old
      <3> QED
        BY <1>3, <3>1, <3>2, <3>3
    <2>2. ASSUME NEW x \in OffPath(old) PROVE x \notin st
      BY <2>2 DEF Ready, old
    <2>3. ASSUME NEW k \in Buckets PROVE buckets'[k] \cap stash' = {}
      <3>1. CASE k \in Path(old)
        BY <1>2, <3>1 DEF Taken
      <3>2. CASE k \notin Path(old)
        BY <1>2, <2>2, <3>2 DEF Taken, OffPath
      <3> QED
        BY <3>1, <3>2
    <2>4. ASSUME NEW j \in Buckets, NEW k \in Buckets, j # k
          PROVE  buckets'[j] \cap buckets'[k] = {}
      <3>1. CASE j \in Path(old) /\ k \in Path(old)
        BY <1>2, <2>4, <3>1
      <3>2. CASE j \notin Path(old) /\ k \notin Path(old)
        BY <1>2, <2>4, <3>2 DEF OramInv, SingleCopy
      <3>3. CASE j \in Path(old) /\ k \notin Path(old)
        BY <1>2, <2>2, <3>3 DEF OffPath
      <3>4. CASE j \notin Path(old) /\ k \in Path(old)
        BY <1>2, <2>2, <3>4 DEF OffPath
      <3> QED
        BY <3>1, <3>2, <3>3, <3>4
    <2> QED
      BY <2>1, <2>3, <2>4 DEF SingleCopy, Copies, Matches
  <1>7. OnPath'
    <2> SUFFICES ASSUME NEW k \in Buckets, NEW x \in buckets'[k]
                 PROVE  k \in Path(position_map'[x.index])
      BY DEF OnPath, Path, P, BucketAt
    <2>1. CASE k \in Path(old)
      <3>1. x \in st /\ to[x] \in Levels /\ P(old, to[x]) = k
        BY <1>2, <2>1
      <3>2. x \in Eligible(to, st, position_map', old, to[x])
        BY <1>2, <3>1 DEF Evicts, Taken
      <3> QED
        BY <3>1, <3>2 DEF Eligible, Path
    <2>2. CASE k \notin Path(old)
      <3>1. x \in buckets[k] /\ x \in OffPath(old)
        BY <1>2, <2>2 DEF OffPath
      <3>2. x.index \in Blocks /\ x.index # b
        BY <1>0, <3>1, TargetAbsorbed, AbsorbAll DEF Block, old
      <3>3. position_map'[x.index] = position_map[x.index]
        BY <1>0, <1>1, <3>2 DEF TypeOK
      <3> QED
        BY <3>1, <3>3 DEF OramInv, OnPath
    <2> QED
      BY <2>1, <2>2
  <1> QED
    BY <1>5, <1>6, <1>7 DEF OramInv

\* The stash after absorbing the path, with or without the target overwritten,
\* is fit to be written back.
LEMMA AbsorbReady ==
  ASSUME OramInv, NEW b \in Blocks
  PROVE  Ready(b, Absorb(position_map[b]))
  <1>1. position_map[b] \in Leaves /\ TypeOK
    BY DEF OramInv, TypeOK
  <1>2. Absorb(position_map[b]) \in SUBSET AllCopies
    BY <1>1, AbsorbAll
  <1> QED
    BY <1>1, <1>2, AbsorbAll, AbsorbDisjoint, UniqueCopy DEF Ready

\* What overwriting does to a stash with at most one copy of each block.
LEMMA OverwriteSet ==
  ASSUME NEW st, NEW b, NEW d, \A x, y \in st : x.index = y.index => x = y
  PROVE  Overwrite(st, b, d) = {x \in st : x.index # b} \cup {[index |-> b, data |-> d]}
  <1>1. CASE Matches(st, b) = {}
    BY <1>1 DEF Overwrite, Matches
  <1>2. CASE Matches(st, b) # {}
    <2> DEFINE slot == CHOOSE x \in Matches(st, b) : TRUE
    <2>1. slot \in Matches(st, b)
      BY <1>2
    <2>2. Overwrite(st, b, d) = (st \ {slot}) \cup {[index |-> b, data |-> d]}
      BY <1>2 DEF Overwrite
    <2> HIDE DEF slot
    <2> QED
      BY <2>1, <2>2 DEF Matches
  <1> QED
    BY <1>1, <1>2

LEMMA OverwriteReady ==
  ASSUME OramInv, NEW b \in Blocks, NEW d \in Data
  PROVE  Ready(b, Overwrite(Absorb(position_map[b]), b, d))
  <1> DEFINE st == Absorb(position_map[b])
             new == [index |-> b, data |-> d]
  <1>1. Ready(b, st)
    BY AbsorbReady
  <1>2. new \in Block /\ new.index = b
    BY DEF Block
  <1> HIDE DEF st, new
  <1>3. Overwrite(st, b, d) = {x \in st : x.index # b} \cup {new}
    BY <1>1, OverwriteSet DEF Ready, new
  <1>4. \A y \in OffPath(position_map[b]) : y.index # b
    BY TargetAbsorbed
  <1>5. Ready(b, Overwrite(st, b, d))
    BY <1>1, <1>2, <1>3, <1>4 DEF Ready
  <1> QED
    BY <1>5 DEF st

\* A READ answers with the content of the block: the accessed path and the
\* stash hold every copy of it there is.
LEMMA FetchContent ==
  ASSUME OramInv, NEW b \in Blocks
  PROVE  Fetch(Absorb(position_map[b]), b) = Content(b)
  <1>1. position_map[b] \in Leaves /\ TypeOK
    BY DEF OramInv, TypeOK
  <1>2. Matches(Absorb(position_map[b]), b) = Matches(AllCopies, b)
    BY <1>1, AbsorbAll, TargetAbsorbed DEF Matches
  <1> QED
    BY <1>2 DEF Fetch, Content, Copies

LEMMA ContentType ==
  ASSUME TypeOK, NEW b \in Blocks
  PROVE  Content(b) \in Data
  <1>1. CASE Copies(b) = {}
    BY <1>1, OramConstants DEF Content
  <1>2. CASE Copies(b) # {}
    <2>1. PICK x \in Copies(b) : x = CHOOSE y \in Copies(b) : TRUE
      BY <1>2
    <2>2. x \in Block
      BY <2>1 DEF Copies, Matches, AllCopies, TypeOK
    <2> QED
      BY <1>2, <2>1, <2>2 DEF Content, Block
  <1> QED
    BY <1>1, <1>2

LEMMA InitInv == Init => OramInv
  <1>1. 0 \in Blocks /\ Zero \in Data
    BY OramConstants DEF Blocks
  <1> QED
    BY <1>1 DEF Init, OramInv, TypeOK, SingleCopy, OnPath, Copies, Matches, AllCopies

LEMMA StepInv == OramInv /\ [Next]_oramVars => OramInv'
  <1> SUFFICES ASSUME OramInv, [Next]_oramVars PROVE OramInv'
    OBVIOUS
  <1>1. ASSUME NEW b \in Blocks, NEW newLeaf \in Leaves, Read(b, newLeaf)
        PROVE  OramInv'
    <2>1. last' \in [op : {"NONE", "READ", "WRITE"}, index : Blocks, data : Data]
      BY <1>1, FetchContent, ContentType DEF Read, OramInv
    <2> QED
      BY <1>1, <2>1, AbsorbReady, WriteBackInv DEF Read
  <1>2. ASSUME NEW b \in Blocks, NEW newLeaf \in Leaves, NEW d \in Data, Write(b, d, newLeaf)
        PROVE  OramInv'
    <2>1. last' \in [op : {"NONE", "READ", "WRITE"}, index : Blocks, data : Data]
      BY <1>2 DEF Write
    <2> QED
      BY <1>2, <2>1, OverwriteReady, WriteBackInv DEF Write
  <1>3. CASE UNCHANGED oramVars
    BY <1>3 DEF oramVars, OramInv, TypeOK, SingleCopy, OnPath, Copies, Matches, AllCopies, Path, P, BucketAt
  <1> QED
    BY <1>1, <1>2, <1>3 DEF Next

LEMMA InductiveInv == Spec => []OramInv
  BY InitInv, StepInv, PTL DEF Spec

\* The positions, the stash and the tree always hold what they should hold.
THEOREM TypeCorrect == Spec => []TypeOK
  <1>1. OramInv => TypeOK
    BY DEF OramInv
  <1> QED
    BY <1>1, InductiveInv, PTL

\* The Path-ORAM invariant: access() never leaves a second copy of a block, and
\* a block in the tree is on the path its position names, for every number of
\* blocks, depth and bucket size.
THEOREM PathInvariant == Spec => [](SingleCopy /\ OnPath)
  <1>1. OramInv => SingleCopy /\ OnPath
    BY DEF OramInv
  <1> QED
    BY <1>1, InductiveInv, PTL

\* What one write-back leaves on its path: the bucket of a level holds exactly
\* what was taken for the level.
LEMMA WriteBackRoom ==
  ASSUME OramInv, NEW b \in Blocks, NEW newLeaf \in Leaves, NEW st \in SUBSET Block,
         WriteBack(b, newLeaf, st), BucketsFit
  PROVE  BucketsFit' /\ StashOnlyWhenRootFull'
  <1> DEFINE old == position_map[b]
  <1>0. old \in Leaves /\ position_map' \in [Blocks -> Leaves]
    BY DEF OramInv, TypeOK, WriteBack
  <1>1. PICK to \in [st -> Levels \cup {Stays}] :
          /\ Evicts(to, st, position_map', old)
          /\ stash' = Taken(to, st, Stays)
          /\ buckets' = [k \in Buckets |->
                           IF k \in Path(old)
                           THEN {x \in st : to[x] # Stays /\ P(old, to[x]) = k}
                           ELSE buckets[k]]
    BY DEF WriteBack
  <1> HIDE DEF old
  <1>2. ASSUME NEW l \in Levels PROVE buckets'[P(old, l)] = Taken(to, st, l)
    <2>1. P(old, l) \in Path(old) /\ P(old, l) \in Buckets
      BY <1>0, PathFacts
    <2>2. l # Stays
      BY DEF Levels, Stays
    <2> QED
      BY <1>0, <1>1, <2>1, <2>2, PathFacts DEF Taken
  <1>3. BucketsFit'
    <2> SUFFICES ASSUME NEW k \in Buckets PROVE Cardinality(buckets'[k]) <= BucketSize
      BY DEF BucketsFit
    <2>1. CASE k \in Path(old)
      <3>1. PICK l \in Levels : k = P(old, l)
        BY <2>1 DEF Path
      <3> QED
        BY <1>1, <1>2, <3>1 DEF Evicts
    <2>2. CASE k \notin Path(old)
      BY <1>1, <2>2 DEF BucketsFit
    <2> QED
      BY <2>1, <2>2
  <1>4. StashOnlyWhenRootFull'
    <2> SUFFICES ASSUME NEW x \in stash' PROVE Cardinality(buckets'[0]) = BucketSize
      BY DEF StashOnlyWhenRootFull
    <2>1. 0 \in Levels
      BY OramConstants DEF Levels
    <2>2. x \in st /\ to[x] = Stays
      BY <1>1 DEF Taken
    <2>3. P(position_map'[x.index], 0) = 0 /\ P(old, 0) = 0
      BY <1>0, <2>2, OramGeometry DEF Block
    <2>4. x \in Eligible(to, st, position_map', old, 0) /\ x \notin Taken(to, st, 0)
      BY <2>2, <2>3 DEF Eligible, Taken, Stays
    <2>5. Cardinality(Taken(to, st, 0)) = BucketSize
      BY <1>1, <2>1, <2>4 DEF Evicts
    <2> QED
      BY <1>2, <2>1, <2>3, <2>5
  <1> QED
    BY <1>3, <1>4

\* The room invariant: no bucket overflows (addBlock would drop blocks), and a
\* block waits in the stash only while the root is full.
THEOREM RoomInvariant == Spec => [](BucketsFit /\ StashOnlyWhenRootFull)
  <1>1. Init => BucketsFit /\ StashOnlyWhenRootFull
    BY FS_EmptySet, OramConstants DEF Init, BucketsFit, StashOnlyWhenRootFull
  <1>2. OramInv /\ BucketsFit /\ StashOnlyWhenRootFull /\ [Next]_oramVars
        => BucketsFit' /\ StashOnlyWhenRootFull'
    <2> SUFFICES ASSUME OramInv, BucketsFit, StashOnlyWhenRootFull, [Next]_oramVars
                 PROVE  BucketsFit' /\ StashOnlyWhenRootFull'
      OBVIOUS
    <2>1. ASSUME NEW b \in Blocks, NEW newLeaf \in Leaves, Read(b, newLeaf)
          PROVE  BucketsFit' /\ StashOnlyWhenRootFull'
      BY <2>1, AbsorbReady, WriteBackRoom DEF Read, Ready
    <2>2. ASSUME NEW b \in Blocks, NEW newLeaf \in Leaves, NEW d \in Data, Write(b, d, newLeaf)
          PROVE  BucketsFit' /\ StashOnlyWhenRootFull'
      BY <2>2, OverwriteReady, WriteBackRoom DEF Write, Ready
    <2>3. CASE UNCHANGED oramVars
      BY <2>3 DEF oramVars, BucketsFit, StashOnlyWhenRootFull
    <2> QED
      BY <2>1, <2>2, <2>3 DEF Next
  <1> QED
    BY <1>1, <1>2, InductiveInv, PTL DEF Spec

-----------------------------------------------------------------------------
(* Refinement *)

LEMMA ReadStep ==
  ASSUME OramInv, NEW b \in Blocks, NEW newLeaf \in Leaves, Read(b, newLeaf)
  PROVE  Mem!MemRead(b)
  <1>1. position_map[b] \in Leaves /\ TypeOK
    BY DEF OramInv, TypeOK
  <1>2. AllCopies' = AllCopies
    BY <1>1, AbsorbAll, WriteBackKeepsBlocks DEF Read
  <1>3. \A c \in Blocks : Content(c)' = Content(c)
    BY <1>2 DEF Content, Copies, Matches
  <1>4. last' = [op |-> "READ", index |-> b, data |-> Content(b)]
    BY FetchContent DEF Read
  <1> QED
    BY <1>3, <1>4 DEF Mem!MemRead, Mem!Access

LEMMA WriteStep ==
  ASSUME OramInv, NEW b \in Blocks, NEW newLeaf \in Leaves, NEW d \in Data,
         Write(b, d, newLeaf)
  PROVE  Mem!MemWrite(b, d)
  <1> DEFINE st == Absorb(position_map[b])
             new == [index |-> b, data |-> d]
  <1>1. position_map[b] \in Leaves /\ TypeOK
    BY DEF OramInv, TypeOK
  <1>2. Ready(b, st) /\ Ready(b, Overwrite(st, b, d))
    BY AbsorbReady, OverwriteReady
  <1>3. Overwrite(st, b, d) = {x \in st : x.index # b} \cup {new}
    BY <1>2, OverwriteSet DEF Ready
  <1>4. AllCopies' = {x \in AllCopies : x.index # b} \cup {new}
    BY <1>1, <1>2, <1>3, AbsorbAll, TargetAbsorbed, WriteBackKeepsBlocks DEF Write, Ready
  <1>5. new.index = b /\ new.data = d
    OBVIOUS
  <1> HIDE DEF st, new
  <1>6. ASSUME NEW c \in Blocks, c # b PROVE Content(c)' = Content(c)
    <2>1. Copies(c)' = Copies(c)
      BY <1>4, <1>5, <1>6 DEF Copies, Matches
    <2> QED
      BY <2>1 DEF Content
  <1>7. Content(b)' = d
    <2>1. Copies(b)' = {new}
      BY <1>4, <1>5 DEF Copies, Matches
    <2> QED
      BY <2>1, <1>5 DEF Content
  <1> QED
    BY <1>6, <1>7 DEF Mem!MemWrite, Mem!Access, Write

\* The client implements a plain array of blocks: what a READ returns is what
\* the last WRITE to that block stored, whatever was accessed in between.
THEOREM Refinement == Spec => ImplementsMem
  <1>1. Init => Mem!MemInit
    BY DEF Init, Mem!MemInit, Mem!Access, Content, Copies, Matches, AllCopies
  <1>2. OramInv /\ [Next]_oramVars => [Mem!MemNext]_(Mem!memVars)
    <2> SUFFICES ASSUME OramInv, [Next]_oramVars
                 PROVE  [Mem!MemNext]_(Mem!memVars)
      OBVIOUS
    <2>1. ASSUME NEW b \in Blocks, NEW newLeaf \in Leaves, Read(b, newLeaf)
          PROVE  Mem!MemNext
      BY <2>1, ReadStep DEF Mem!MemNext
    <2>2. ASSUME NEW b \in Blocks, NEW newLeaf \in Leaves, NEW d \in Data, Write(b, d, newLeaf)
          PROVE  Mem!MemNext
      BY <2>2, WriteStep DEF Mem!MemNext
    <2>3. CASE UNCHANGED oramVars
      BY <2>3 DEF oramVars, Mem!memVars, Content, Copies, Matches, AllCopies
    <2> QED
      BY <2>1, <2>2, <2>3 DEF Next
  <1> QED
    BY <1>1, <1>2, InductiveInv, PTL DEF Spec, ImplementsMem, Mem!MemSpec
=============================================================================

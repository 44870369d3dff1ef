------------------------------ MODULE OramMem ------------------------------
(***************************************************************************)
(* What OramInterface::access promises its two clients, the Content Store  *)
(* and the PIT: an array of blocks, all zero at first, in which a READ     *)
(* returns the last value written to the block.  Nothing about trees,      *)
(* leaves or a stash shows here.                                           *)
(***************************************************************************)
CONSTANTS BlockIds,  \* the logical block indices
          Data,      \* contents a block can hold
          Zero       \* the all-zero content of a block never written

VARIABLES mem,       \* the content of every logical block
          last       \* the latest access: the block, and what was written or read

memVars == <<mem, last>>

Access(op, b, d) == [op |-> op, index |-> b, data |-> d]

MemInit ==
  /\ mem = [b \in BlockIds |-> Zero]
  /\ last = Access("NONE", 0, Zero)

MemWrite(b, d) ==
  /\ mem' = [mem EXCEPT ![b] = d]
  /\ last' = Access("WRITE", b, d)

MemRead(b) ==
  /\ last' = Access("READ", b, mem[b])
  /\ UNCHANGED mem

MemNext ==
  \E b \in BlockIds : MemRead(b) \/ \E d \in Data : MemWrite(b, d)

MemSpec == MemInit /\ [][MemNext]_memVars
=============================================================================

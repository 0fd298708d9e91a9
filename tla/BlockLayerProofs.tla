--------------------------- MODULE BlockLayerProofs ---------------------------
(***************************************************************************)
(* For any sizes of disk, bitmap block and inode table with BPB dividing   *)
(* BLOCK_NUM, and any threads: the layout is sound, the block layer        *)
(* conserves blocks and implements BlockAllocator.                         *)
(***************************************************************************)
EXTENDS BlockLayer, TLAPS

(* Integer division by a variable is beyond Z3's automatic reach in larger *)
(* obligations: what is needed of it is stated once.                       *)
LEMMA DivMod ==
  ASSUME NEW a \in Nat, NEW n \in Nat \ {0}
  PROVE  /\ a = n * (a \div n) + (a % n)
         /\ a \div n \in Nat
         /\ a % n \in 0..(n - 1)
  OBVIOUS

LEMMA DivBelow ==
  ASSUME NEW a \in Nat, NEW q \in Nat, NEW n \in Nat \ {0}, a < n * q
  PROVE  a \div n < q
<1> DEFINE d == a \div n
<1>1. d \in Nat /\ n * d <= a
  BY DivMod
<1>2. n * d < n * q
  BY <1>1
<1>3. CASE d >= q
  <2>1. n * d >= n * q
    BY <1>1, <1>3
  <2> QED
    BY <1>2, <2>1
<1> QED
  BY <1>1, <1>3

LEMMA DivMonotone ==
  ASSUME NEW a \in Nat, NEW b \in Nat, a <= b, NEW n \in Nat \ {0}
  PROVE  a \div n <= b \div n
<1>1. b < n * (b \div n + 1) /\ b \div n + 1 \in Nat
  BY DivMod
<1>2. a \div n < b \div n + 1
  BY <1>1, DivBelow
<1> QED
  BY <1>2, DivMod

-----------------------------------------------------------------------------
USE LayoutAssumption DEF nblocks

LEMMA BlockNumMultiple ==
  BLOCK_NUM = BPB * (BLOCK_NUM \div BPB) /\ BLOCK_NUM \div BPB \in Nat
  BY DivMod

(* Every block has its bit in the bitmap region.                           *)
LEMMA BitInBitmap ==
  ASSUME NEW b \in 0..(BLOCK_NUM - 1)
  PROVE  BBLOCK(b) \in BitmapBlocks /\ b % BPB \in Offsets
<1>1. BLOCK_NUM = BPB * (BLOCK_NUM \div BPB) /\ BLOCK_NUM \div BPB \in Nat
  BY BlockNumMultiple
<1>2. b \div BPB < BLOCK_NUM \div BPB
  BY <1>1, DivBelow
<1>3. b \in Nat
  OBVIOUS
<1>4. b \div BPB \in Nat /\ b % BPB \in 0..(BPB - 1)
  BY <1>3, DivMod
<1> QED
  BY <1>4, <1>1, <1>2, <1>3 DEF BBLOCK, BitmapBlocks, Offsets

(* alloc_block and free_block address a block by the pair of its bitmap    *)
(* block and the offset in it: no two blocks share a bit.                  *)
THEOREM BitsDistinct ==
  ASSUME NEW a \in Nat, NEW b \in Nat,
         BBLOCK(a) = BBLOCK(b), a % BPB = b % BPB
  PROVE  a = b
<1>1. a = BPB * (a \div BPB) + (a % BPB) /\ b = BPB * (b \div BPB) + (b % BPB)
  BY DivMod
<1>2. a \div BPB = b \div BPB
  BY DivMod DEF BBLOCK
<1> QED
  BY <1>1, <1>2

LEMMA IBlockRange ==
  ASSUME NEW i \in Inums
  PROVE  IBLOCK(i) \in (nblocks \div BPB + 1)..(first_data_block - 1)
<1>1. i \in Nat /\ INODE_NUM - 1 \in Nat /\ i <= INODE_NUM - 1
  BY DEF Inums
<1>2. i \div IPB <= (INODE_NUM - 1) \div IPB /\ i \div IPB \in Nat
  BY <1>1, DivMonotone, DivMod
<1>3. (INODE_NUM - 1) \div IPB \in Nat /\ BLOCK_NUM \div BPB \in Nat
  BY <1>1, DivMod
<1> QED
  BY <1>2, <1>3 DEF IBLOCK, first_data_block

LEMMA FirstDataBlock == first_data_block \in Nat \ {0}
<1>1. 0 \in Inums
  BY DEF Inums
<1>2. BLOCK_NUM \div BPB \in Nat
  BY DivMod
<1>3. INODE_NUM - 1 \in Nat /\ (INODE_NUM - 1) \div IPB \in Nat
  BY DivMod
<1> QED
  BY <1>1, <1>2, <1>3, IBlockRange DEF first_data_block, IBLOCK

(* The regions of the disk do not overlap: a bitmap write never lands in   *)
(* the inode table or in the data, an inode write never in the data.       *)
THEOREM RegionsDisjoint ==
  /\ BitmapBlocks \cap InodeBlocks = {}
  /\ BitmapBlocks \cap DataBlocks = {}
  /\ InodeBlocks \cap DataBlocks = {}
  /\ 0 \notin BitmapBlocks \cup InodeBlocks \cup DataBlocks
<1>1. BLOCK_NUM \div BPB \in Nat
  BY DivMod
<1>2. \A i \in Inums : IBLOCK(i) \in (nblocks \div BPB + 1)..(first_data_block - 1)
  BY IBlockRange
<1>3. first_data_block > nblocks \div BPB
  <2>1. 0 \in Inums
    BY DEF Inums
  <2> QED
    BY <1>1, <1>2, <2>1, FirstDataBlock
<1> QED
  BY <1>1, <1>2, <1>3, FirstDataBlock DEF BitmapBlocks, InodeBlocks, DataBlocks
-----------------------------------------------------------------------------
USE LayoutAssumption, ThreadsAssumption, NOBLOCKAssumption, DataAssumption DEF nblocks

-----------------------------------------------------------------------------
(* The inductive invariant.                                                *)

Locked == {"scan", "test", "fetch", "clear", "unlock"}

(* Who is between lock and unlock owns bitmap_mutex: what makes the copy   *)
(* in buf current and the scanned prefix stable.                           *)
MutexOwner == \A t \in Threads : pc[t] \in Locked <=> bitmap_mutex = t

(* The ranges of id while a call runs.                                     *)
IdRange ==
  \A t \in Threads :
    /\ pc[t] = "scan" => id[t] \in first_data_block..BLOCK_NUM
    /\ pc[t] = "test" => id[t] \in DataBlocks
    /\ InFree(t) => id[t] \in DataBlocks \cup {0, NOBLOCK}

(* A block being given back is nobody's, and no two threads give back the  *)
(* same one: clearing its bit takes no block from a holder.                *)
FreeingIsPrivate ==
  \A t, u \in Threads :
    InFree(t) /\ id[t] \in DataBlocks =>
                 /\ id[t] \notin held[u]
                 /\ t # u /\ InFree(u) => id[t] # id[u]

BlockInv == /\ TypeOK
            /\ MutexOwner
            /\ IdRange
            /\ FreeingIsPrivate
            /\ Conservation
            /\ ScanIsCurrent

-----------------------------------------------------------------------------
(* Facts about the disk.                                                   *)

USE DEF InFree, Held

LEMMA DataBlocksType == DataBlocks \subseteq 1..(BLOCK_NUM - 1)
  BY FirstDataBlock DEF DataBlocks

LEMMA BitmapOnDisk == \A b \in BitmapBlocks : b <= BLOCK_NUM
<1>1. BLOCK_NUM \div BPB \in Nat /\ BLOCK_NUM = BPB * (BLOCK_NUM \div BPB)
  BY BlockNumMultiple
<1>2. BPB * (BLOCK_NUM \div BPB) >= BLOCK_NUM \div BPB
  BY <1>1
<1> QED
  BY <1>1, <1>2 DEF BitmapBlocks

LEMMA BitOnDisk ==
  ASSUME NEW b \in DataBlocks \cup {0}
  PROVE  BBLOCK(b) \in BitmapBlocks /\ BBLOCK(b) <= BLOCK_NUM /\ b % BPB \in Offsets
<1>1. b \in 0..(BLOCK_NUM - 1)
  BY DataBlocksType
<1> QED
  BY <1>1, BitInBitmap, BitmapOnDisk

(* Setting the bit of b, and of no other block.                            *)
LEMMA SetBit ==
  ASSUME bitmap \in [BitmapBlocks -> SUBSET Offsets], NEW b \in DataBlocks,
         WriteBitmap(BBLOCK(b), bitmap[BBLOCK(b)] \cup {b % BPB})
  PROVE  /\ InUse' = InUse \cup {b}
         /\ bitmap' \in [BitmapBlocks -> SUBSET Offsets]
<1>1. \A c \in DataBlocks : BBLOCK(c) \in BitmapBlocks
  BY BitOnDisk
<1>2. bitmap' = [bitmap EXCEPT ![BBLOCK(b)] = bitmap[BBLOCK(b)] \cup {b % BPB}]
  BY BitOnDisk DEF WriteBitmap
<1>3. bitmap' \in [BitmapBlocks -> SUBSET Offsets]
  BY <1>2, BitOnDisk
<1>4. ASSUME NEW c \in DataBlocks
      PROVE  c % BPB \in bitmap'[BBLOCK(c)] <=> c % BPB \in bitmap[BBLOCK(c)] \/ c = b
  <2>1. b \in Nat /\ c \in Nat
    BY DataBlocksType
  <2>2. BBLOCK(c) = BBLOCK(b) /\ c % BPB = b % BPB => c = b
    BY <2>1, BitsDistinct
  <2> QED
    BY <1>1, <1>2, <2>2
<1> QED
  BY <1>3, <1>4 DEF InUse

(* Clearing the bit of b, of an unset pointer, or of no block at all.      *)
LEMMA ClearBit ==
  ASSUME bitmap \in [BitmapBlocks -> SUBSET Offsets],
         NEW b \in DataBlocks \cup {0, NOBLOCK},
         NEW copy \in SUBSET Offsets,
         BBLOCK(b) <= BLOCK_NUM => copy = bitmap[BBLOCK(b)],
         WriteBitmap(BBLOCK(b), copy \ {b % BPB})
  PROVE  /\ InUse' = InUse \ {b}
         /\ bitmap' \in [BitmapBlocks -> SUBSET Offsets]
<1>1. CASE b = NOBLOCK
  <2>1. bitmap' = bitmap
    <3>1. NOBLOCK \div BPB \in Nat
      BY DivMod
    <3>2. BBLOCK(b) \in Nat /\ BBLOCK(b) > BLOCK_NUM
      BY <1>1, <3>1 DEF BBLOCK
    <3> QED
      BY <3>2 DEF WriteBitmap
  <2>2. b \notin DataBlocks
    BY <1>1 DEF DataBlocks
  <2> QED
    BY <2>1, <2>2 DEF InUse
<1>2. CASE b # NOBLOCK
  <2>1. \A c \in DataBlocks : BBLOCK(c) \in BitmapBlocks
    BY BitOnDisk
  <2>2. bitmap' = [bitmap EXCEPT ![BBLOCK(b)] = bitmap[BBLOCK(b)] \ {b % BPB}]
    BY <1>2, BitOnDisk DEF WriteBitmap
  <2>3. bitmap' \in [BitmapBlocks -> SUBSET Offsets]
    BY <1>2, <2>2, BitOnDisk
  <2>4. ASSUME NEW c \in DataBlocks
        PROVE  c % BPB \in bitmap'[BBLOCK(c)] <=> c % BPB \in bitmap[BBLOCK(c)] /\ c # b
    <3>1. b \in Nat /\ c \in Nat
      BY <1>2, DataBlocksType
    <3>2. BBLOCK(c) = BBLOCK(b) /\ c % BPB = b % BPB => c = b
      BY <3>1, BitsDistinct
    <3> QED
      BY <2>1, <2>2, <3>2
  <2> QED
    BY <2>3, <2>4 DEF InUse
<1> QED
  BY <1>1, <1>2

-----------------------------------------------------------------------------
(* Initial states, and one lemma per action.                               *)

LEMMA InitBlockInv == Init => BlockInv
<1> SUFFICES ASSUME Init PROVE BlockInv
  OBVIOUS
<1>1. InUse = {}
  BY BitOnDisk DEF Init, InUse
<1>2. TypeOK
  BY DEF Init, TypeOK, Labels
<1>3. Freeing = {} /\ Held = {}
  BY DEF Init, Freeing, Held, InFree
<1> QED
  BY <1>1, <1>2, <1>3 DEF Init, BlockInv, MutexOwner, Locked, IdRange,
         FreeingIsPrivate, InFree, Conservation, ScanIsCurrent

LEMMA CallAllocBlockInv ==
  ASSUME NEW t \in Threads, BlockInv, CallAlloc(t) PROVE BlockInv'
<1>1. InUse' = InUse /\ TypeOK'
  BY DEF CallAlloc, InUse, BlockInv, TypeOK, Goto, Labels
<1>2. Freeing' = Freeing
  BY DEF CallAlloc, Freeing, Goto, BlockInv, TypeOK
<1> QED
  BY <1>1, <1>2 DEF CallAlloc, BlockInv, TypeOK, MutexOwner, Locked, IdRange,
         FreeingIsPrivate, InFree, Conservation, ScanIsCurrent, Goto

LEMMA AllocLockBlockInv ==
  ASSUME NEW t \in Threads, BlockInv, AllocLock(t) PROVE BlockInv'
<1>1. InUse' = InUse
  BY DEF AllocLock, InUse
<1>2. TypeOK'
  BY FirstDataBlock DEF AllocLock, BlockInv, TypeOK, Goto, Labels
<1>3. Freeing' = Freeing
  BY DEF AllocLock, Freeing, Goto, BlockInv, TypeOK
<1>4. \A b \in DataBlocks : ~(b < first_data_block)
  BY FirstDataBlock DEF DataBlocks
<1>5. IdRange'
  BY FirstDataBlock DEF AllocLock, BlockInv, TypeOK, IdRange, Goto
<1> QED
  BY <1>1, <1>2, <1>3, <1>4, <1>5 DEF AllocLock, BlockInv, TypeOK, MutexOwner,
         Locked, FreeingIsPrivate, InFree, Conservation, ScanIsCurrent, Goto

(* The read copies the bitmap block of a block that exists.                *)
LEMMA AllocReadBlockInv ==
  ASSUME NEW t \in Threads, BlockInv, AllocRead(t) PROVE BlockInv'
<1>1. InUse' = InUse
  BY DEF AllocRead, InUse
<1>2. TypeOK'
  BY DEF AllocRead, ReadBitmap, BlockInv, TypeOK, Goto, Labels
<1>3. Freeing' = Freeing
  BY DEF AllocRead, Freeing, Goto, BlockInv, TypeOK
<1>4. MutexOwner' /\ FreeingIsPrivate' /\ Conservation'
  BY <1>1, <1>3 DEF AllocRead, BlockInv, TypeOK, MutexOwner, Locked,
         FreeingIsPrivate, InFree, Conservation, Goto
<1>5. IdRange'
  BY FirstDataBlock DEF AllocRead, BlockInv, TypeOK, IdRange, Goto, DataBlocks
<1>6. ScanIsCurrent'
  <2> SUFFICES ASSUME NEW u \in Threads
               PROVE  /\ (pc[u] \in {"scan", "test"} =>
                            \A b \in DataBlocks : b < id[u] => b \in InUse)'
                      /\ (pc[u] \in {"test", "clear"} /\ BBLOCK(id[u]) <= BLOCK_NUM =>
                            buf[u] = bitmap[BBLOCK(id[u])])'
    BY DEF ScanIsCurrent
  <2>1. bitmap' = bitmap /\ id' = id /\ pc[t] = "scan"
    BY DEF AllocRead
  <2>2. CASE u # t
    BY <1>1, <2>1, <2>2 DEF AllocRead, ReadBitmap, Goto, BlockInv, TypeOK, ScanIsCurrent
  <2>3. CASE u = t
    BY <1>1, <2>1, <2>3 DEF AllocRead, ReadBitmap, Goto, BlockInv, TypeOK, ScanIsCurrent
  <2> QED
    BY <2>2, <2>3
<1> QED
  BY <1>2, <1>4, <1>5, <1>6 DEF BlockInv

(* The mutex owner is alone in the table of Locked positions, so a write   *)
(* of the bitmap makes nobody else's copy or scan stale.                   *)
LEMMA OthersUnlocked ==
  ASSUME BlockInv, NEW t \in Threads, pc[t] \in Locked,
         NEW u \in Threads, u # t
  PROVE  pc[u] \notin Locked
  BY DEF BlockInv, MutexOwner

LEMMA AllocTestBlockInv ==
  ASSUME NEW t \in Threads, BlockInv, AllocTest(t) PROVE BlockInv'
<1>1. /\ pc[t] = "test" /\ id[t] \in DataBlocks
      /\ buf[t] = bitmap[BBLOCK(id[t])] /\ bitmap_mutex = t
  BY BitOnDisk DEF AllocTest, BlockInv, IdRange, ScanIsCurrent, MutexOwner, Locked
<1>2. id[t] \in Nat /\ id[t] + 1 \in 0..BLOCK_NUM /\ id[t] + 1 \in first_data_block..BLOCK_NUM
  BY <1>1, FirstDataBlock DEF DataBlocks
<1>3. \A u \in Threads : u # t => pc[u] \notin Locked
  BY <1>1, OthersUnlocked DEF Locked
<1>4. CASE id[t] % BPB \in buf[t]
  <2>1. /\ id' = [id EXCEPT ![t] = id[t] + 1] /\ pc' = [pc EXCEPT ![t] = "scan"]
        /\ UNCHANGED <<bitmap, bitmap_mutex, buf, result, held>>
    BY <1>4 DEF AllocTest, Goto
  <2>2. InUse' = InUse /\ id[t] \in InUse
    BY <1>1, <1>4, <2>1 DEF InUse
  <2>3. TypeOK'
    BY <1>2, <2>1 DEF BlockInv, TypeOK, Labels
  <2>4. Freeing' = Freeing
    BY <1>1, <2>1 DEF Freeing, BlockInv, TypeOK
  <2>5. IdRange' /\ MutexOwner' /\ FreeingIsPrivate' /\ Conservation'
    BY <1>1, <1>2, <2>1, <2>2, <2>4 DEF BlockInv, TypeOK, IdRange, MutexOwner,
         Locked, FreeingIsPrivate, InFree, Conservation
  <2>6. \A b \in DataBlocks : b < id[t] + 1 => b \in InUse
    <3>1. \A b \in DataBlocks : b < id[t] => b \in InUse
      BY <1>1 DEF BlockInv, ScanIsCurrent
    <3>2. \A b \in DataBlocks : b < id[t] + 1 => b < id[t] \/ b = id[t]
      BY <1>2, FirstDataBlock DEF DataBlocks
    <3> QED
      BY <2>2, <3>1, <3>2
  <2>7. ScanIsCurrent'
    BY <1>3, <2>1, <2>2, <2>6 DEF BlockInv, TypeOK, ScanIsCurrent, Locked
  <2> QED
    BY <2>3, <2>5, <2>7 DEF BlockInv
<1>5. CASE id[t] % BPB \notin buf[t]
  <2>1. /\ WriteBitmap(BBLOCK(id[t]), bitmap[BBLOCK(id[t])] \cup {id[t] % BPB})
        /\ held' = [held EXCEPT ![t] = held[t] \cup {id[t]}]
        /\ result' = [result EXCEPT ![t] = id[t]]
        /\ pc' = [pc EXCEPT ![t] = "unlock"]
        /\ UNCHANGED <<bitmap_mutex, id, buf>>
    BY <1>1, <1>5 DEF AllocTest, Goto
  <2>2. InUse' = InUse \cup {id[t]} /\ bitmap' \in [BitmapBlocks -> SUBSET Offsets]
    BY <1>1, <2>1, SetBit DEF BlockInv, TypeOK
  <2>3. id[t] \notin InUse
    BY <1>1, <1>5 DEF InUse
  <2>4. TypeOK'
    BY <1>1, <2>1, <2>2 DEF BlockInv, TypeOK, Labels
  <2>5. Freeing' = Freeing
    BY <1>1, <2>1 DEF Freeing, BlockInv, TypeOK
  <2>6. \A u \in Threads : id[t] \notin held[u] /\ (InFree(u) => id[u] # id[t])
    BY <1>1, <2>3 DEF BlockInv, Conservation, Freeing, InFree, Held
  <2>7. Held' = Held \cup {id[t]}
    BY <1>1, <2>1 DEF BlockInv, TypeOK, Held
  <2>8. IdRange' /\ MutexOwner' /\ FreeingIsPrivate'
    BY <1>1, <2>1, <2>6 DEF BlockInv, TypeOK, IdRange, MutexOwner, Locked,
         FreeingIsPrivate, InFree
  <2>9. Conservation'
    BY <2>1, <2>2, <2>5, <2>6, <2>7 DEF BlockInv, TypeOK, Conservation
  <2>10. ScanIsCurrent'
    BY <1>3, <2>1 DEF BlockInv, TypeOK, ScanIsCurrent, Locked
  <2> QED
    BY <2>4, <2>8, <2>9, <2>10 DEF BlockInv
<1> QED
  BY <1>4, <1>5

(* The block moves from Held to Freeing; 0 and NOBLOCK are in neither.     *)
LEMMA CallFreeBlockInv ==
  ASSUME NEW t \in Threads, BlockInv, CallFree(t) PROVE BlockInv'
<1> PICK b \in held[t] \cup {0, NOBLOCK} :
      id' = [id EXCEPT ![t] = b] /\ held' = [held EXCEPT ![t] = held[t] \ {b}]
  BY DEF CallFree
<1>1. /\ pc[t] = "idle" /\ pc' = [pc EXCEPT ![t] = "free"]
      /\ UNCHANGED <<bitmap, bitmap_mutex, buf, result>>
  BY DEF CallFree, Goto
<1>2. b \in DataBlocks \cup {0, NOBLOCK} /\ (b \in DataBlocks => b \in held[t])
  <2>1. 0 \notin DataBlocks /\ NOBLOCK \notin DataBlocks
    BY FirstDataBlock DEF DataBlocks
  <2> QED
    BY <2>1 DEF BlockInv, TypeOK
<1>3. InUse' = InUse
  BY <1>1 DEF InUse
<1>4. TypeOK'
  BY <1>1, <1>2, DataBlocksType DEF BlockInv, TypeOK, Labels
<1>5. MutexOwner' /\ IdRange' /\ ScanIsCurrent'
  BY <1>1, <1>2, <1>3 DEF BlockInv, TypeOK, MutexOwner, Locked, IdRange, ScanIsCurrent
<1>6. FreeingIsPrivate'
  <2>1. \A u \in Threads : u # t /\ b \in DataBlocks => b \notin held[u]
    BY <1>2 DEF BlockInv, Conservation
  <2>2. \A u \in Threads : InFree(u) /\ b \in DataBlocks => id[u] # b
    BY <1>2 DEF BlockInv, FreeingIsPrivate
  <2> QED
    BY <1>1, <2>1, <2>2 DEF BlockInv, TypeOK, FreeingIsPrivate
<1>7. Conservation'
  <2>1. \A u, v \in Threads : u # v => held'[u] \cap held'[v] = {}
    BY DEF BlockInv, TypeOK, Conservation
  <2>2. Held' \cup Freeing' = Held \cup Freeing
    BY <1>1, <1>2 DEF BlockInv, TypeOK, Freeing
  <2> QED
    BY <1>3, <2>1, <2>2 DEF BlockInv, Conservation
<1> QED
  BY <1>4, <1>5, <1>6, <1>7 DEF BlockInv

LEMMA FreeLockBlockInv ==
  ASSUME NEW t \in Threads, BlockInv, FreeLock(t) PROVE BlockInv'
<1>1. InUse' = InUse /\ TypeOK'
  BY DEF FreeLock, InUse, BlockInv, TypeOK, Goto, Labels
<1>2. Freeing' = Freeing
  BY DEF FreeLock, Freeing, Goto, BlockInv, TypeOK
<1> QED
  BY <1>1, <1>2 DEF FreeLock, BlockInv, TypeOK, MutexOwner, Locked, IdRange,
         FreeingIsPrivate, Conservation, ScanIsCurrent, Goto

LEMMA FreeReadBlockInv ==
  ASSUME NEW t \in Threads, BlockInv, FreeRead(t) PROVE BlockInv'
<1>1. InUse' = InUse
  BY DEF FreeRead, InUse
<1>2. TypeOK'
  BY DEF FreeRead, ReadBitmap, BlockInv, TypeOK, Goto, Labels
<1>3. Freeing' = Freeing
  BY DEF FreeRead, Freeing, Goto, BlockInv, TypeOK
<1>4. MutexOwner' /\ IdRange' /\ FreeingIsPrivate' /\ Conservation'
  BY <1>1, <1>3 DEF FreeRead, BlockInv, TypeOK, MutexOwner, Locked, IdRange,
         FreeingIsPrivate, Conservation, Goto
<1>5. ScanIsCurrent'
  BY <1>1 DEF FreeRead, ReadBitmap, BlockInv, TypeOK, ScanIsCurrent, Goto
<1> QED
  BY <1>2, <1>4, <1>5 DEF BlockInv

(* The bit cleared is that of a block nobody holds and nobody else frees.  *)
LEMMA FreeWriteBlockInv ==
  ASSUME NEW t \in Threads, BlockInv, FreeWrite(t) PROVE BlockInv'
<1>1. /\ pc[t] = "clear" /\ pc' = [pc EXCEPT ![t] = "unlock"]
      /\ id[t] \in DataBlocks \cup {0, NOBLOCK} /\ bitmap_mutex = t
      /\ BBLOCK(id[t]) <= BLOCK_NUM => buf[t] = bitmap[BBLOCK(id[t])]
      /\ UNCHANGED <<bitmap_mutex, id, buf, result, held>>
  BY DEF FreeWrite, Goto, BlockInv, IdRange, ScanIsCurrent, MutexOwner, Locked
<1>2. InUse' = InUse \ {id[t]} /\ bitmap' \in [BitmapBlocks -> SUBSET Offsets]
  BY <1>1, ClearBit DEF FreeWrite, BlockInv, TypeOK
<1>3. \A u \in Threads : u # t => pc[u] \notin Locked
  BY <1>1, OthersUnlocked DEF Locked
<1>4. TypeOK'
  BY <1>1, <1>2 DEF BlockInv, TypeOK, Labels
<1>5. MutexOwner' /\ IdRange' /\ FreeingIsPrivate'
  BY <1>1 DEF BlockInv, TypeOK, MutexOwner, Locked, IdRange, FreeingIsPrivate
<1>6. Conservation'
  <2>1. Held' = Held /\ id[t] \notin Held
    BY <1>1 DEF BlockInv, FreeingIsPrivate
  <2>2. Freeing' = Freeing \ {id[t]}
    BY <1>1 DEF BlockInv, TypeOK, FreeingIsPrivate, Freeing
  <2> QED
    BY <1>1, <1>2, <2>1, <2>2 DEF BlockInv, Conservation
<1>7. ScanIsCurrent'
  BY <1>1, <1>3 DEF BlockInv, TypeOK, ScanIsCurrent, Locked
<1> QED
  BY <1>4, <1>5, <1>6, <1>7 DEF BlockInv

LEMMA UnlockBlockInv ==
  ASSUME NEW t \in Threads, BlockInv, Unlock(t) PROVE BlockInv'
<1>1. InUse' = InUse /\ TypeOK'
  BY DEF Unlock, InUse, BlockInv, TypeOK, Goto, Labels
<1>2. Freeing' = Freeing
  BY DEF Unlock, Freeing, Goto, BlockInv, TypeOK
<1>3. bitmap_mutex = t
  BY DEF Unlock, BlockInv, MutexOwner, Locked
<1> QED
  BY <1>1, <1>2, <1>3 DEF Unlock, BlockInv, TypeOK, MutexOwner, Locked, IdRange,
         FreeingIsPrivate, Conservation, ScanIsCurrent, Goto

LEMMA NextBlockInv == BlockInv /\ [Next]_vars => BlockInv'
<1> SUFFICES ASSUME BlockInv, [Next]_vars PROVE BlockInv'
  OBVIOUS
<1>1. CASE UNCHANGED vars
  BY <1>1 DEF vars, BlockInv, TypeOK, MutexOwner, IdRange, FreeingIsPrivate,
         Conservation, ScanIsCurrent, InUse, Freeing
<1>2. ASSUME NEW t \in Threads, CallAlloc(t) \/ CallFree(t) \/ Step(t)
      PROVE  BlockInv'
  BY <1>2, CallAllocBlockInv, CallFreeBlockInv, AllocLockBlockInv,
     AllocReadBlockInv, AllocTestBlockInv, FreeLockBlockInv, FreeReadBlockInv,
     FreeWriteBlockInv, UnlockBlockInv DEF Step
<1> QED
  BY <1>1, <1>2 DEF Next

(* BlockInv holds in every reachable state.                                *)
THEOREM BlockInvariant == Spec => []BlockInv
  BY InitBlockInv, NextBlockInv, PTL DEF Spec

(* Type correctness of the block layer.                                    *)
THEOREM TypeCorrect == Spec => []TypeOK
  BY BlockInvariant, PTL DEF BlockInv

(* No block is given out twice and none is lost, for any disk and threads. *)
THEOREM BlocksConserved == Spec => []Conservation
  BY BlockInvariant, PTL DEF BlockInv

(* The copy of a bitmap block that alloc_block and free_block write back   *)
(* is never stale, and the scanned prefix stays in use.                    *)
THEOREM ScanStaysCurrent == Spec => []ScanIsCurrent
  BY BlockInvariant, PTL DEF BlockInv

-----------------------------------------------------------------------------
(* The refinement.  An allocation takes effect when the bitmap block is    *)
(* written, a failing one when the scan reaches BLOCK_NUM, a free when the *)
(* bitmap block is written; every other step leaves the abstract state.    *)

abstract == <<InUse, result>>

LEMMA AllocTestRefines ==
  ASSUME NEW t \in Threads, BlockInv, AllocTest(t)
  PROVE  Allocator!Alloc(t) \/ UNCHANGED abstract
<1>1. /\ pc[t] = "test" /\ id[t] \in DataBlocks /\ buf[t] = bitmap[BBLOCK(id[t])]
      /\ \A b \in DataBlocks : b < id[t] => b \in InUse
  BY BitOnDisk DEF AllocTest, BlockInv, IdRange, ScanIsCurrent
<1>2. CASE id[t] % BPB \in buf[t]
  BY <1>2 DEF AllocTest, abstract, InUse
<1>3. CASE id[t] % BPB \notin buf[t]
  <2>1. InUse' = InUse \cup {id[t]}
    BY <1>1, <1>3, SetBit DEF AllocTest, BlockInv, TypeOK
  <2>2. id[t] \in DataBlocks \ InUse
    BY <1>1, <1>3 DEF InUse
  <2>3. \A c \in DataBlocks \ InUse : id[t] <= c
    BY <1>1, FirstDataBlock DEF DataBlocks
  <2>4. result' = [result EXCEPT ![t] = id[t]]
    BY <1>3 DEF AllocTest
  <2> QED
    BY <2>1, <2>2, <2>3, <2>4 DEF Allocator!Alloc
<1> QED
  BY <1>2, <1>3

LEMMA AllocReadRefines ==
  ASSUME NEW t \in Threads, BlockInv, AllocRead(t)
  PROVE  Allocator!Alloc(t) \/ UNCHANGED abstract
<1>1. InUse' = InUse
  BY DEF AllocRead, InUse
<1>2. CASE id[t] < BLOCK_NUM
  BY <1>1, <1>2 DEF AllocRead, abstract
<1>3. CASE ~(id[t] < BLOCK_NUM)
  <2>1. id[t] = BLOCK_NUM /\ \A b \in DataBlocks : b < id[t] => b \in InUse
    BY <1>3, FirstDataBlock DEF AllocRead, BlockInv, IdRange, ScanIsCurrent
  <2>2. DataBlocks \subseteq InUse
    BY <2>1, FirstDataBlock DEF DataBlocks
  <2>3. result' = [result EXCEPT ![t] = NOBLOCK]
    BY <1>3 DEF AllocRead
  <2> QED
    BY <1>1, <2>2, <2>3 DEF Allocator!Alloc
<1> QED
  BY <1>2, <1>3

LEMMA FreeWriteRefines ==
  ASSUME NEW t \in Threads, BlockInv, FreeWrite(t)
  PROVE  (\E b \in DataBlocks : Allocator!Free(b)) \/ UNCHANGED abstract
<1>1. /\ id[t] \in DataBlocks \cup {0, NOBLOCK}
      /\ BBLOCK(id[t]) <= BLOCK_NUM => buf[t] = bitmap[BBLOCK(id[t])]
  BY DEF FreeWrite, BlockInv, IdRange, ScanIsCurrent
<1>2. InUse' = InUse \ {id[t]} /\ result' = result
  BY <1>1, ClearBit DEF FreeWrite, BlockInv, TypeOK
<1>3. CASE id[t] \in DataBlocks
  BY <1>2, <1>3 DEF Allocator!Free
<1>4. CASE id[t] \notin DataBlocks
  <2>1. InUse \ {id[t]} = InUse
    BY <1>4 DEF InUse
  <2> QED
    BY <1>2, <2>1 DEF abstract
<1> QED
  BY <1>3, <1>4

LEMMA StepRefines == BlockInv /\ [Next]_vars => [Allocator!Next]_abstract
<1> SUFFICES ASSUME BlockInv, [Next]_vars
             PROVE  Allocator!Next \/ UNCHANGED abstract
  BY DEF abstract
<1>1. CASE UNCHANGED vars
  BY <1>1 DEF vars, abstract, InUse
<1>2. ASSUME NEW t \in Threads, CallAlloc(t) \/ CallFree(t) \/ Step(t)
      PROVE  Allocator!Next \/ UNCHANGED abstract
  <2>1. CASE AllocTest(t) \/ AllocRead(t) \/ FreeWrite(t)
    BY <2>1, AllocTestRefines, AllocReadRefines, FreeWriteRefines DEF Allocator!Next
  <2>2. CASE CallAlloc(t) \/ CallFree(t) \/ AllocLock(t) \/ FreeLock(t) \/ FreeRead(t) \/ Unlock(t)
    BY <2>2 DEF CallAlloc, CallFree, AllocLock, FreeLock, FreeRead, Unlock, abstract, InUse
  <2> QED
    BY <1>2, <2>1, <2>2 DEF Step
<1> QED
  BY <1>1, <1>2 DEF Next

(* block_layer implements BlockAllocator for any disk and any threads:     *)
(* first fit, atomic, failing only on a full disk.                         *)
THEOREM BlockLayerImplementsAllocator == Spec => ImplementsBlockAllocator
<1>1. Init => Allocator!Init
  BY BitOnDisk DEF Init, Allocator!Init, InUse
<1> QED
  BY <1>1, StepRefines, BlockInvariant, PTL
     DEF Spec, ImplementsBlockAllocator, Allocator!Spec, abstract
=============================================================================

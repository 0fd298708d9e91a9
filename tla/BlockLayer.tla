------------------------------ MODULE BlockLayer ------------------------------
(***************************************************************************)
(* alloc_block and free_block of class block_layer (inode_layer.cc), called*)
(* by several threads.  The free block bitmap is on the disk and both      *)
(* calls change a whole bitmap block by reading it, changing a bit of the  *)
(* copy and writing the copy back, under bitmap_mutex.  One action per     *)
(* access to the disk and per call that may block:                         *)
(*                                                                         *)
(*   pc[t]    position of thread t                                         *)
(*   "idle"   not in the block layer                                       *)
(*   "alloc"  alloc_block, in pthread_mutex_lock                           *)
(*   "scan"   alloc_block, at the head of the for loop                     *)
(*   "test"   alloc_block, the bitmap block of id[t] is in buf[t]          *)
(*   "free"   free_block(id[t]), in pthread_mutex_lock                     *)
(*   "fetch"  free_block(id[t]), about to read the bitmap block            *)
(*   "clear"  free_block(id[t]), the bitmap block is in buf[t]             *)
(*   "unlock" about to unlock and return                                   *)
(*                                                                         *)
(* A bitmap block is the set of its offsets whose bit is 1; the arithmetic *)
(* on bytes and bits in a byte selects one of them.                        *)
(***************************************************************************)
EXTENDS Layout

CONSTANTS Threads,
          NoThread,
          NOBLOCK     \* the uint32_t that `return -1' becomes: 2^32 - 1

ASSUME ThreadsAssumption == NoThread \notin Threads
ASSUME NOBLOCKAssumption ==
  NOBLOCK \in Nat /\ NOBLOCK >= BLOCK_NUM /\ BBLOCK(NOBLOCK) > BLOCK_NUM
ASSUME DataAssumption == first_data_block < BLOCK_NUM

VARIABLES bitmap,        \* the bitmap blocks of the disk
          bitmap_mutex,  \* owner
          pc, id, buf,   \* position and locals of each thread
          result,        \* what the last alloc_block of each thread returned
          held           \* history: blocks given to each thread's caller, and
                         \* not passed to free_block since

vars == <<bitmap, bitmap_mutex, pc, id, buf, result, held>>

Labels == {"idle", "alloc", "scan", "test", "free", "fetch", "clear", "unlock"}

TypeOK == /\ bitmap \in [BitmapBlocks -> SUBSET Offsets]
          /\ bitmap_mutex \in Threads \cup {NoThread}
          /\ pc \in [Threads -> Labels]
          /\ id \in [Threads -> 0..BLOCK_NUM \cup {NOBLOCK}]
          /\ buf \in [Threads -> SUBSET Offsets]
          /\ result \in [Threads -> DataBlocks \cup {NOBLOCK}]
          /\ held \in [Threads -> SUBSET DataBlocks]

(* disk::disk fills the disk with zeros.                                   *)
Init == /\ bitmap = [b \in BitmapBlocks |-> {}]
        /\ bitmap_mutex = NoThread
        /\ pc = [t \in Threads |-> "idle"]
        /\ id = [t \in Threads |-> 0]
        /\ buf = [t \in Threads |-> {}]
        /\ result = [t \in Threads |-> NOBLOCK]
        /\ held = [t \in Threads |-> {}]

Goto(t, label) == pc' = [pc EXCEPT ![t] = label]

-----------------------------------------------------------------------------
(* disk::read_block and disk::write_block.  An id above BLOCK_NUM is       *)
(* ignored: the read leaves the caller's buffer as the stack had it.       *)
ReadBitmap(t, b) ==
  \E contents \in SUBSET Offsets :
    /\ b <= BLOCK_NUM => contents = bitmap[b]
    /\ buf' = [buf EXCEPT ![t] = contents]

WriteBitmap(b, contents) ==
  bitmap' = IF b <= BLOCK_NUM THEN [bitmap EXCEPT ![b] = contents] ELSE bitmap

-----------------------------------------------------------------------------
(* A thread calls alloc_block.                                             *)
CallAlloc(t) ==
  /\ pc[t] = "idle"
  /\ Goto(t, "alloc")
  /\ UNCHANGED <<bitmap, bitmap_mutex, id, buf, result, held>>

(* Mutants of AllocLock: the scan starts one block too early, in the inode *)
(* table, or one too late; the mutex is not waited for.                    *)
AllocLock_From(t, start) ==
  /\ pc[t] = "alloc"
  /\ bitmap_mutex = NoThread
  /\ bitmap_mutex' = t
  /\ id' = [id EXCEPT ![t] = start]
  /\ Goto(t, "scan")
  /\ UNCHANGED <<bitmap, buf, result, held>>

AllocLock_TooEarly(t) == AllocLock_From(t, first_data_block - 1)
AllocLock_TooLate(t) == AllocLock_From(t, first_data_block + 1)

AllocLock_NoLock(t) ==
  /\ pc[t] = "alloc"
  /\ id' = [id EXCEPT ![t] = first_data_block]
  /\ Goto(t, "scan")
  /\ UNCHANGED <<bitmap, bitmap_mutex, buf, result, held>>

AllocLock(t) ==
  /\ pc[t] = "alloc"
  /\ bitmap_mutex = NoThread
  /\ bitmap_mutex' = t
  /\ id' = [id EXCEPT ![t] = first_data_block]
  /\ Goto(t, "scan")
  /\ UNCHANGED <<bitmap, buf, result, held>>

(* Head of the loop: read the bitmap block, or leave with -1.              *)
AllocRead(t) ==
  /\ pc[t] = "scan"
  /\ IF id[t] < BLOCK_NUM
     THEN ReadBitmap(t, BBLOCK(id[t])) /\ Goto(t, "test") /\ UNCHANGED result
     ELSE /\ result' = [result EXCEPT ![t] = NOBLOCK]
          /\ Goto(t, "unlock")
          /\ UNCHANGED buf
  /\ UNCHANGED <<bitmap, bitmap_mutex, id, held>>

(* Mutant of AllocTest: a block in use does not advance the loop.          *)
AllocTest_Stuck(t) ==
  /\ pc[t] = "test"
  /\ IF id[t] % BPB \in buf[t]
     THEN Goto(t, "scan") /\ UNCHANGED <<bitmap, result, held>>
     ELSE /\ WriteBitmap(BBLOCK(id[t]), buf[t] \cup {id[t] % BPB})
          /\ result' = [result EXCEPT ![t] = id[t]]
          /\ held' = [held EXCEPT ![t] = @ \cup {id[t]}]
          /\ Goto(t, "unlock")
  /\ UNCHANGED <<bitmap_mutex, id, buf>>

(* Body of the loop: pass over a block in use, take a free one.            *)
AllocTest(t) ==
  /\ pc[t] = "test"
  /\ IF id[t] % BPB \in buf[t]
     THEN /\ id' = [id EXCEPT ![t] = @ + 1]
          /\ Goto(t, "scan")
          /\ UNCHANGED <<bitmap, result, held>>
     ELSE /\ WriteBitmap(BBLOCK(id[t]), buf[t] \cup {id[t] % BPB})
          /\ result' = [result EXCEPT ![t] = id[t]]
          /\ held' = [held EXCEPT ![t] = @ \cup {id[t]}]
          /\ Goto(t, "unlock")
          /\ UNCHANGED id
  /\ UNCHANGED <<bitmap_mutex, buf>>

(* A thread calls free_block, with a block it holds or with one of the two *)
(* other values write_file and remove_file pass: the 0 of a pointer that   *)
(* was never set, and the answer of an allocation that failed.  A stale    *)
(* pointer, which write_file may follow after a file has shrunk, is left   *)
(* out here: InodeLayerShrink shows what becomes of it.                    *)
CallFree(t) ==
  /\ pc[t] = "idle"
  /\ \E b \in held[t] \cup {0, NOBLOCK} :
       /\ id' = [id EXCEPT ![t] = b]
       /\ held' = [held EXCEPT ![t] = @ \ {b}]
  /\ Goto(t, "free")
  /\ UNCHANGED <<bitmap, bitmap_mutex, buf, result>>

(* Mutant of FreeLock: only alloc_block takes the mutex.                   *)
FreeLock_NoLock(t) ==
  /\ pc[t] = "free"
  /\ Goto(t, "fetch")
  /\ UNCHANGED <<bitmap, bitmap_mutex, id, buf, result, held>>

FreeLock(t) ==
  /\ pc[t] = "free"
  /\ bitmap_mutex = NoThread
  /\ bitmap_mutex' = t
  /\ Goto(t, "fetch")
  /\ UNCHANGED <<bitmap, id, buf, result, held>>

FreeRead(t) ==
  /\ pc[t] = "fetch"
  /\ ReadBitmap(t, BBLOCK(id[t]))
  /\ Goto(t, "clear")
  /\ UNCHANGED <<bitmap, bitmap_mutex, id, result, held>>

FreeWrite(t) ==
  /\ pc[t] = "clear"
  /\ WriteBitmap(BBLOCK(id[t]), buf[t] \ {id[t] % BPB})
  /\ Goto(t, "unlock")
  /\ UNCHANGED <<bitmap_mutex, id, buf, result, held>>

(* pthread_mutex_unlock before each of the three returns; the locals go.   *)
Unlock(t) ==
  /\ pc[t] = "unlock"
  /\ bitmap_mutex' = NoThread
  /\ id' = [id EXCEPT ![t] = 0]
  /\ buf' = [buf EXCEPT ![t] = {}]
  /\ Goto(t, "idle")
  /\ UNCHANGED <<bitmap, result, held>>

Step(t) == \/ AllocLock(t) \/ AllocRead(t) \/ AllocTest(t)
           \/ FreeLock(t) \/ FreeRead(t) \/ FreeWrite(t)
           \/ Unlock(t)

Next == \E t \in Threads : CallAlloc(t) \/ CallFree(t) \/ Step(t)

Spec == Init /\ [][Next]_vars

(* A thread inside a call is scheduled; nobody has to call.                *)
FairSpec == Spec /\ \A t \in Threads : WF_vars(Step(t))

-----------------------------------------------------------------------------
(* The blocks whose bit is set.                                            *)
InUse == {b \in DataBlocks : b % BPB \in bitmap[BBLOCK(b)]}

(* The blocks somebody holds, and the ones on their way through free_block *)
(* whose bit is still set.                                                 *)
Held == {b \in DataBlocks : \E t \in Threads : b \in held[t]}
InFree(t) == pc[t] \in {"free", "fetch", "clear"}
Freeing == {b \in DataBlocks : \E t \in Threads : InFree(t) /\ id[t] = b}

(* Conservation: no block is given to two callers, and the bitmap marks    *)
(* exactly the blocks somebody holds or is giving back.  A read-modify-    *)
(* write of a bitmap block that lost a neighbour's bit would break it.     *)
Conservation ==
  /\ \A t, u \in Threads : t # u => held[t] \cap held[u] = {}
  /\ InUse = Held \cup Freeing

(* The blocks alloc_block has passed over are still in use when it comes   *)
(* to its decision, and the copy of the bitmap block is still current.     *)
ScanIsCurrent ==
  \A t \in Threads :
    /\ pc[t] \in {"scan", "test"} =>
         \A b \in DataBlocks : b < id[t] => b \in InUse
    /\ pc[t] \in {"test", "clear"} /\ BBLOCK(id[t]) <= BLOCK_NUM =>
         buf[t] = bitmap[BBLOCK(id[t])]

(* alloc_block and free_block are atomic, first-fit, and alloc_block       *)
(* returns -1 only when every data block is in use.                        *)
Allocator == INSTANCE BlockAllocator WITH Blocks <- DataBlocks, used <- InUse
ImplementsBlockAllocator == Allocator!Spec

(* bitmap_mutex is always given back: every scan ends, and every return    *)
(* path unlocks (the hint in alloc_block: "remember to call                *)
(* pthread_mutex_unlock before all the returns").                          *)
MutexReleased == (bitmap_mutex # NoThread) ~> (bitmap_mutex = NoThread)
=============================================================================

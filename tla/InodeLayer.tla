------------------------------ MODULE InodeLayer ------------------------------
(***************************************************************************)
(* The path of a client call: fs_client, fs_server, class inode_layer      *)
(* (inode_layer.cc), down to the disk.  Threads call create, put, get,     *)
(* getattr and remove; between two accesses to shared state (a disk block, *)
(* the bitmap, a lock) a thread runs on, so there is one action per access.*)
(*                                                                         *)
(* Two layers are used by what they promise: alloc_block and free_block    *)
(* are the atomic operations of BlockAllocator, rwlocks[inum] is an        *)
(* ExclusiveLock.  The transfer of one block to or from the disk is        *)
(* atomic.                                                                 *)
(*                                                                         *)
(* A file is a pair <<size in bytes, version>>, the version telling files  *)
(* of one size apart; what a block holds is one of                         *)
(*   zeros, block number `at' of a file, an array of block ids, or junk    *)
(*   (what was on the stack or in a block that is not on the disk).        *)
(* A word that was never stored as a block id is Wild.  Reading the block  *)
(* it points to may yield anything; to write or to free that block, or to  *)
(* follow a null pointer, leaves the model, with `undefined' set: the      *)
(* write may land anywhere, the inode table and the bitmap included.       *)
(***************************************************************************)
EXTENDS Layout

CONSTANTS Threads,
          Files,          \* the files clients put
          Types,          \* the types they create: T_DIR, T_FILE
          Ids,            \* the ids they ask for
          MASK,           \* fs_server's 0x7fffffff
          BLOCK_SIZE,     \* bytes per block
          NDIRECT,        \* direct pointers per inode
          NINDIRECT,      \* pointers in the indirect block
          NOBLOCK,        \* alloc_block's -1, as a uint32_t
          Allowed(_, _, _), \* workload: may the call start, with these files, beside
                            \* the calls that are running?
          MaxCalls,       \* bound: client calls in a behaviour
          Nil             \* nothing: no inode, no thread, no call, no reply

ASSUME SizesAssumption == BLOCK_SIZE \in Nat \ {0} /\ NDIRECT \in Nat \ {0}
                          /\ NINDIRECT \in Nat \ {0}
ASSUME IdsAssumption == Ids \subseteq Nat /\ MASK \in Nat /\ MASK >= INODE_NUM - 1
                        /\ Types \subseteq Nat \ {0}
ASSUME FilesAssumption == \A f \in Files : f[1] \in Nat /\ (f[1] = 0 => f = <<0, 0>>)
ASSUME NOBLOCKAssumption == NOBLOCK \in Nat /\ NOBLOCK > BLOCK_NUM
ASSUME MaxCallsAssumption == MaxCalls \in Nat

VARIABLES used,       \* data blocks whose bit is set in the bitmap
          disk,       \* contents of the data blocks and of block 0
          itable,     \* the inode table, Nil where the type is 0
          lock,       \* holder of rwlocks[inum]
          call,       \* the client call each thread runs
          pc, loc,    \* its position and its locals
          reply,      \* its answer, once it is decided
          contents,   \* history: the type and the file each inode should hold
          undefined,  \* the program has left defined behaviour
          ncalls

vars == <<used, disk, itable, lock, call, pc, loc, reply, contents, undefined, ncalls>>

-----------------------------------------------------------------------------
(* Data.                                                                   *)

T_DIR == 1
Wild == -1
EmptyFile == <<0, 0>>
Garbled == <<-1, 0>>    \* bytes that are no file any client put

Size(f) == f[1]
MAXFILE == NDIRECT + NINDIRECT
DirectBytes == NDIRECT * BLOCK_SIZE
Blocks(size) == (size + BLOCK_SIZE - 1) \div BLOCK_SIZE
MIN(a, b) == IF a < b THEN a ELSE b

Zeros == [tag |-> "zeros"]
Junk == [tag |-> "junk"]
Data(f, k) == [tag |-> "data", file |-> f, at |-> k]
Pointers(p) == [tag |-> "pointers", ids |-> p]

(* What the inode table, the history and the threads keep, and Nil, which  *)
(* is none of it.                                                          *)
BlockIds == DataBlocks \cup {0, NOBLOCK}
Stored == Files \cup {EmptyFile}
Records == [type : Types \cup {T_DIR}, file : Stored]
Inodes == [type : Types \cup {T_DIR}, size : {Size(f) : f \in Stored}, blocks : [0..NDIRECT -> BlockIds]]
Requests == [op : {"create", "put", "get", "getattr", "remove"}, inum : Nat, type : Types \cup {0}, file : Stored]

Replies == Nat \cup (Nat \X Nat) \cup Stored    \* an id or OK, a type and a size, a file

ASSUME NilAssumption == /\ Nil \notin Threads /\ Nil \notin Inodes /\ Nil \notin Records
                        /\ Nil \notin Requests /\ Nil \notin Replies

(* A block read as an array of block ids.                                  *)
AsPointers(content) ==
  IF content.tag = "pointers" THEN content.ids
  ELSE [x \in 0..(NINDIRECT - 1) |-> IF content.tag = "zeros" THEN 0 ELSE Wild]

(* The file that `size' bytes taken from the blocks of data make up.       *)
AsFile(size, data) ==
  LET Match == {f \in Files \cup {EmptyFile} :
                  Size(f) = size /\ \A k \in 0..(Blocks(size) - 1) : data[k] = Data(f, k)}
  IN IF Match = {} THEN Garbled ELSE CHOOSE f \in Match : TRUE

(* Mutant of FreshInode: the pointers are not cleared.                     *)
FreshInode_Uncleared(type) ==
  [type |-> type, size |-> 0, blocks |-> [x \in 0..NDIRECT |-> Wild]]

FreshInode(type) == [type |-> type, size |-> 0, blocks |-> [x \in 0..NDIRECT |-> 0]]

(* Locals of the calls; each call uses some of them.                       *)
NoLocals == [ino |-> Nil, table |-> Nil,        \* inode, inode block in put_inode
             index |-> 0, indirect |-> 0,       \* loop counters
             remaining |-> 0, done |-> 0,       \* bytes to go, bytes counted as done
             target |-> 0,                      \* block about to be written
             ptr |-> Nil, final |-> Nil,        \* indirect block read, to be written
             made |-> FALSE, over |-> FALSE,    \* already_allocated_indirect,
                                                \* need_to_overwrite_indirect
             data |-> <<>>]                     \* what read_file has read

-----------------------------------------------------------------------------
(* fs_client's constructor builds fs_server, inode_layer, block_layer and  *)
(* disk: a disk of zeros whose inode 0 is the root directory.              *)
Init == /\ used = {}
        /\ disk = [b \in DataBlocks \cup {0} |-> Zeros]
        /\ itable = [i \in Inums |-> IF i = 0 THEN FreshInode(T_DIR) ELSE Nil]
        /\ lock = [i \in Inums |-> Nil]
        /\ call = [t \in Threads |-> Nil]
        /\ pc = [t \in Threads |-> "idle"]
        /\ loc = [t \in Threads |-> NoLocals]
        /\ reply = [t \in Threads |-> Nil]
        /\ contents = [i \in Inums |-> IF i = 0 THEN [type |-> T_DIR, file |-> EmptyFile]
                                                ELSE Nil]
        /\ undefined = FALSE
        /\ ncalls = 0

(* The thread moves to `label', with its locals as in l.                   *)
Goto(t, label, l) == /\ pc' = [pc EXCEPT ![t] = label]
                     /\ loc' = [loc EXCEPT ![t] = l]

Answer(t, value) == reply' = [reply EXCEPT ![t] = value]

Inum(t) == call[t].inum
NewSize(t) == Size(call[t].file)

(* Behaviour is not defined from here on.                                  *)
Undefined == /\ undefined' = TRUE
             /\ UNCHANGED <<used, disk, itable, lock, call, pc, loc, reply, contents, ncalls>>

-----------------------------------------------------------------------------
(* disk and block_layer.  Ids above BLOCK_NUM are ignored.                 *)

ReadBlock(b) == IF b \in DOMAIN disk THEN disk[b] ELSE Junk

WriteBlock(b, content) ==
  disk' = IF b \in DOMAIN disk THEN [disk EXCEPT ![b] = content] ELSE disk

Free == DataBlocks \ used

AllocBlock == IF Free = {} THEN NOBLOCK ELSE CHOOSE b \in Free : \A c \in Free : b <= c

(* Mutants: the bitmap block is not written back.                          *)
Take_Unmarked(b) == UNCHANGED used
FreeBlock_Unmarked(b) == UNCHANGED used

Take(b) == used' = used \cup ({b} \cap DataBlocks)
FreeBlock(b) == used' = used \ {b}

-----------------------------------------------------------------------------
(* fs_client and fs_server: the stub calls the server, which masks the id  *)
(* and calls the inode layer.  What is left may still be no inum.          *)
Masked(id) == id % (MASK + 1)

Running(t) == {call[u] : u \in {v \in Threads \ {t} : call[v] # Nil}}

Request(op, inum, type, file) == [op |-> op, inum |-> inum, type |-> type, file |-> file]

Begin(t, request, label) ==
  /\ pc[t] = "idle"
  /\ ncalls < MaxCalls
  /\ Allowed(request, contents, Running(t))
  /\ call' = [call EXCEPT ![t] = request]
  /\ ncalls' = ncalls + 1
  /\ Goto(t, label, NoLocals)
  /\ UNCHANGED <<used, disk, itable, lock, reply, contents, undefined>>

CallCreate(t, type) == Begin(t, Request("create", 0, type, EmptyFile), "a_scan")
CallPut(t, id, f) == Begin(t, Request("put", Masked(id), 0, f), "w_enter")
CallGet(t, id) == Begin(t, Request("get", Masked(id), 0, EmptyFile), "r_enter")
CallGetattr(t, id) == Begin(t, Request("getattr", Masked(id), 0, EmptyFile), "g_get")
CallRemove(t, id) == Begin(t, Request("remove", Masked(id), 0, EmptyFile), "d_get")

Return(t) ==
  /\ pc[t] = "return"
  /\ call' = [call EXCEPT ![t] = Nil]
  /\ reply' = [reply EXCEPT ![t] = Nil]
  /\ Goto(t, "idle", NoLocals)
  /\ UNCHANGED <<used, disk, itable, lock, contents, undefined, ncalls>>

(* Mutant of Enter: the lock is not waited for.                            *)
Enter_NoWait(t) ==
  /\ pc[t] \in {"w_enter", "r_enter"}
  /\ Goto(t, IF pc[t] = "w_enter" THEN "w_get" ELSE "r_get", loc[t])
  /\ UNCHANGED <<used, disk, itable, lock, call, reply, contents, undefined, ncalls>>

(* reader_enter, writer_enter; reader_exit, writer_exit.  There is one     *)
(* lock per inode: with another id the lock is past the array.             *)
Enter(t) ==
  /\ pc[t] \in {"w_enter", "r_enter"}
  /\ IF Inum(t) \notin Inums THEN Undefined
     ELSE /\ lock[Inum(t)] = Nil
          /\ lock' = [lock EXCEPT ![Inum(t)] = t]
          /\ Goto(t, IF pc[t] = "w_enter" THEN "w_get" ELSE "r_get", loc[t])
          /\ UNCHANGED <<used, disk, itable, call, reply, contents, undefined, ncalls>>

(* Mutant of Exit: the lock is kept.                                       *)
Exit_KeepsLock(t) ==
  /\ pc[t] = "exit"
  /\ Goto(t, "return", loc[t])
  /\ UNCHANGED <<used, disk, itable, lock, call, reply, contents, undefined, ncalls>>

Exit(t) ==
  /\ pc[t] = "exit"
  /\ lock' = [lock EXCEPT ![Inum(t)] = Nil]
  /\ Goto(t, "return", loc[t])
  /\ UNCHANGED <<used, disk, itable, call, reply, contents, undefined, ncalls>>

-----------------------------------------------------------------------------
(* get_inode: Nil if the number is out of range or the inode is free.      *)
GetInode(inum) == IF inum \in Inums THEN itable[inum] ELSE Nil

(* alloc_inode: get_inode(index) until one is free; inode 0 if none is.    *)
AllocInode(t) ==
  LET l == loc[t]
      made == [l EXCEPT !.ino = FreshInode(call[t].type)]
  IN /\ pc[t] = "a_scan"
     /\ IF l.index = INODE_NUM
        THEN Goto(t, "p_read", [made EXCEPT !.index = 0])
        ELSE IF GetInode(l.index) = Nil
             THEN Goto(t, "p_read", made)
             ELSE Goto(t, "a_scan", [l EXCEPT !.index = @ + 1])
     /\ UNCHANGED <<used, disk, itable, lock, call, reply, contents, undefined, ncalls>>

(* put_inode: reads the block of the inode table the inode is in, with the *)
(* inodes beside it, and writes the whole block back.  alloc_inode puts    *)
(* the inode it found, the other calls the one they were called with.      *)
PutInum(t) == IF call[t].op = "create" THEN loc[t].index ELSE Inum(t)
Neighbours(i) == {j \in Inums : IBLOCK(j) = IBLOCK(i)}

PutRead(t) ==
  /\ pc[t] = "p_read"
  /\ Goto(t, "p_write",
          [loc[t] EXCEPT !.table = [j \in Neighbours(PutInum(t)) |-> itable[j]]])
  /\ UNCHANGED <<used, disk, itable, lock, call, reply, contents, undefined, ncalls>>

(* What follows put_inode: read_file, which put the new access time, goes  *)
(* on to read; the others are done.                                        *)
PutWrite(t) ==
  LET i == PutInum(t)
      l == loc[t]
      op == call[t].op
      ino == IF op = "remove" THEN Nil ELSE l.ino
  IN /\ pc[t] = "p_write"
     /\ itable' = [j \in Inums |-> IF j = i THEN ino
                                   ELSE IF j \in DOMAIN l.table THEN l.table[j]
                                   ELSE itable[j]]
     /\ contents' = [contents EXCEPT ![i] = IF op = "get" THEN @
                                             ELSE IF op = "remove" THEN Nil
                                             ELSE [type |-> ino.type, file |-> call[t].file]]
     /\ IF op = "get"
        THEN UNCHANGED reply /\ Goto(t, "r_ptrs", [l EXCEPT !.table = Nil])
        ELSE /\ Answer(t, IF op = "create" THEN i ELSE 0)
             /\ Goto(t, IF op = "put" THEN "exit" ELSE "return", NoLocals)
     /\ UNCHANGED <<used, disk, lock, call, undefined, ncalls>>

(* getattr: no lock is taken.                                              *)
Getattr(t) ==
  LET ino == GetInode(Inum(t))
  IN /\ pc[t] = "g_get"
     /\ Answer(t, IF ino = Nil THEN <<0, 0>> ELSE <<ino.type, ino.size>>)
     /\ Goto(t, "return", NoLocals)
     /\ UNCHANGED <<used, disk, itable, lock, call, contents, undefined, ncalls>>

-----------------------------------------------------------------------------
(* read_file, under rwlocks[inum].                                         *)

ReadGet(t) ==
  LET ino == GetInode(Inum(t))
  IN /\ pc[t] = "r_get"
     /\ IF ino = Nil
        THEN Answer(t, EmptyFile) /\ Goto(t, "exit", NoLocals)
        ELSE UNCHANGED reply /\ Goto(t, "p_read", [loc[t] EXCEPT !.ino = ino])
     /\ UNCHANGED <<used, disk, itable, lock, call, contents, undefined, ncalls>>

(* The indirect block is read whether the file has one or not.             *)
ReadPointers(t) ==
  LET l == loc[t]
  IN /\ pc[t] = "r_ptrs"
     /\ Goto(t, "r_loop", [l EXCEPT !.ptr = AsPointers(ReadBlock(l.ino.blocks[NDIRECT])),
                                    !.remaining = l.ino.size])
     /\ UNCHANGED <<used, disk, itable, lock, call, reply, contents, undefined, ncalls>>

ReadLoop(t) ==
  LET l == loc[t]
      direct == l.done < DirectBytes
      b == IF direct THEN l.ino.blocks[l.index] ELSE l.ptr[l.indirect]
      n == MIN(BLOCK_SIZE, l.remaining)
  IN /\ pc[t] = "r_loop"
     /\ IF l.remaining = 0
        THEN /\ Answer(t, AsFile(l.ino.size, l.data))
             /\ Goto(t, "exit", NoLocals)
             /\ UNCHANGED <<used, disk, itable, lock, call, contents, undefined, ncalls>>
        ELSE /\ \E content \in IF b = Wild THEN {ReadBlock(c) : c \in DOMAIN disk} \cup {Junk}
                               ELSE {ReadBlock(b)} :
                  Goto(t, "r_loop",
                       [l EXCEPT !.data = [k \in 0..l.index |->
                                             IF k = l.index THEN content ELSE l.data[k]],
                                 !.done = @ + n, !.remaining = @ - n,
                                 !.index = @ + 1,
                                 !.indirect = IF direct THEN @ ELSE @ + 1])
             /\ UNCHANGED <<used, disk, itable, lock, call, reply, contents, undefined, ncalls>>

-----------------------------------------------------------------------------
(* write_file, under rwlocks[inum].                                        *)

WriteGet(t) ==
  LET ino == GetInode(Inum(t))
  IN /\ pc[t] = "w_get"
     /\ IF NewSize(t) > BLOCK_SIZE * MAXFILE \/ ino = Nil
        THEN Answer(t, 0) /\ Goto(t, "exit", NoLocals)
        ELSE /\ Goto(t, "w_free", [loc[t] EXCEPT !.ino = ino])
             /\ UNCHANGED reply
     /\ UNCHANGED <<used, disk, itable, lock, call, contents, undefined, ncalls>>

(* The direct blocks are freed first, all NDIRECT pointers; then the write *)
(* loop starts with an uninitialised final_indirect_block.                 *)
WriteFree(t) ==
  LET l == loc[t]
  IN /\ pc[t] = "w_free"
     /\ IF l.index < NDIRECT
        THEN /\ FreeBlock(l.ino.blocks[l.index])
             /\ Goto(t, "w_free", [l EXCEPT !.index = @ + 1])
        ELSE /\ Goto(t, "w_loop", [l EXCEPT !.index = 0, !.remaining = NewSize(t),
                                     !.final = [x \in 0..(NINDIRECT - 1) |-> Wild]])
             /\ UNCHANGED used
     /\ UNCHANGED <<disk, itable, lock, call, reply, contents, undefined, ncalls>>

(* Head of the loop: choose the block that is written next.  A direct      *)
(* block is allocated; an indirect one is allocated or taken from the old  *)
(* indirect block; the indirect block itself is allocated at most once.    *)
WriteLoop(t) ==
  LET l == loc[t]
      old == l.ino.size
      new == NewSize(t)
      b == AllocBlock
      reused == AsPointers(ReadBlock(l.ino.blocks[NDIRECT]))[l.indirect]
      Store(id) == Goto(t, "w_store", [l EXCEPT !.target = id, !.over = TRUE,
                                                !.final[l.indirect] = id])
  IN /\ pc[t] = "w_loop"
     /\ CASE l.remaining = 0 ->
               /\ Goto(t, "w_old", l)
               /\ UNCHANGED <<used, undefined>>
          [] l.remaining > 0 /\ l.done < DirectBytes ->
               /\ Take(b)
               /\ Goto(t, "w_store", [l EXCEPT !.target = b, !.ino.blocks[l.index] = b])
               /\ UNCHANGED undefined
          [] l.remaining > 0 /\ l.done >= DirectBytes ->
               IF new >= old /\ old <= DirectBytes /\ ~l.made
               THEN /\ Take(b)
                    /\ Goto(t, "w_loop", [l EXCEPT !.ino.blocks[NDIRECT] = b,
                                                   !.made = TRUE, !.over = TRUE])
                    /\ UNCHANGED undefined
               ELSE IF new >= old /\ (old <= DirectBytes \/ l.done >= old)
               THEN /\ Take(b)
                    /\ Store(b)
                    /\ UNCHANGED undefined
               ELSE IF reused # Wild
               THEN /\ Store(reused)
                    /\ UNCHANGED <<used, undefined>>
               ELSE undefined' = TRUE /\ UNCHANGED <<used, pc, loc>>
     /\ UNCHANGED <<disk, itable, lock, call, reply, contents, ncalls>>

(* The block is written, then the counters move on: what is left first,    *)
(* and then what is done by the size of the block that comes next.         *)
WriteStore(t) ==
  LET l == loc[t]
      left == l.remaining - MIN(BLOCK_SIZE, l.remaining)
  IN /\ pc[t] = "w_store"
     /\ WriteBlock(l.target, Data(call[t].file, l.index))
     /\ Goto(t, "w_loop", [l EXCEPT !.remaining = left,
                                    !.done = @ + MIN(BLOCK_SIZE, left),
                                    !.index = @ + 1,
                                    !.indirect = IF l.over THEN @ + 1 ELSE @])
     /\ UNCHANGED <<used, itable, lock, call, reply, contents, undefined, ncalls>>

(* A file that shrinks and still has indirect blocks: its old pointers are *)
(* read, and the blocks past the new end are freed one by one.             *)
WriteOld(t) ==
  LET l == loc[t]
      shrinks == l.over /\ NewSize(t) < l.ino.size
  IN /\ pc[t] = "w_old"
     /\ Goto(t, "w_trim",
             [l EXCEPT !.ptr = IF shrinks THEN AsPointers(ReadBlock(l.ino.blocks[NDIRECT])) ELSE Nil,
                       !.remaining = IF shrinks THEN l.ino.size - NewSize(t) ELSE 0])
     /\ UNCHANGED <<used, disk, itable, lock, call, reply, contents, undefined, ncalls>>

WriteTrim(t) ==
  LET l == loc[t]
  IN /\ pc[t] = "w_trim"
     /\ IF l.remaining <= 0
        THEN /\ Goto(t, "w_ptrs", [l EXCEPT !.ptr = Nil])
             /\ UNCHANGED <<used, disk, itable, lock, call, reply, contents, undefined, ncalls>>
        ELSE IF l.indirect >= NINDIRECT \/ l.ptr[l.indirect] = Wild
        THEN Undefined
        ELSE /\ FreeBlock(l.ptr[l.indirect])
             /\ Goto(t, "w_trim", [l EXCEPT !.indirect = @ + 1, !.remaining = @ - BLOCK_SIZE])
             /\ UNCHANGED <<disk, itable, lock, call, reply, contents, undefined, ncalls>>

(* Mutant of WritePointers: a file that had an indirect block keeps it as  *)
(* it was.                                                                 *)
WritePointers_OnlyNew(t) ==
  LET l == loc[t]
  IN /\ pc[t] = "w_ptrs"
     /\ IF l.made THEN WriteBlock(l.ino.blocks[NDIRECT], Pointers(l.final))
        ELSE UNCHANGED disk
     /\ Goto(t, "w_free8", l)
     /\ UNCHANGED <<used, itable, lock, call, reply, contents, undefined, ncalls>>

(* The new indirect block is written if there is one.                      *)
WritePointers(t) ==
  LET l == loc[t]
  IN /\ pc[t] = "w_ptrs"
     /\ IF l.over THEN WriteBlock(l.ino.blocks[NDIRECT], Pointers(l.final))
        ELSE UNCHANGED disk
     /\ Goto(t, "w_free8", l)
     /\ UNCHANGED <<used, itable, lock, call, reply, contents, undefined, ncalls>>

(* Mutant of WriteFreeIndirect: ino->size = size is forgotten.             *)
WriteFreeIndirect_KeepsSize(t) ==
  LET l == loc[t]
  IN /\ pc[t] = "w_free8"
     /\ IF NewSize(t) <= DirectBytes THEN FreeBlock(l.ino.blocks[NDIRECT])
        ELSE UNCHANGED used
     /\ Goto(t, "p_read", [NoLocals EXCEPT !.ino = l.ino])
     /\ UNCHANGED <<disk, itable, lock, call, reply, contents, undefined, ncalls>>

(* A file without indirect blocks frees its indirect block pointer.        *)
WriteFreeIndirect(t) ==
  LET l == loc[t]
  IN /\ pc[t] = "w_free8"
     /\ IF NewSize(t) <= DirectBytes THEN FreeBlock(l.ino.blocks[NDIRECT])
        ELSE UNCHANGED used
     /\ Goto(t, "p_read", [NoLocals EXCEPT !.ino = [l.ino EXCEPT !.size = NewSize(t)]])
     /\ UNCHANGED <<disk, itable, lock, call, reply, contents, undefined, ncalls>>

-----------------------------------------------------------------------------
(* remove_file and free_inode: no lock is taken.                           *)

(* Mutant of num_indirect_blocks: one pointer too many, whatever the size. *)
num_indirect_blocks_TooMany(size) == (size - DirectBytes) \div BLOCK_SIZE + 2

num_indirect_blocks(size) == (size - DirectBytes) \div BLOCK_SIZE + 1

RemoveGet(t) ==
  LET ino == GetInode(Inum(t))
  IN /\ pc[t] = "d_get"
     /\ IF ino = Nil
        THEN Answer(t, 0) /\ Goto(t, "return", NoLocals)
        ELSE UNCHANGED reply /\ Goto(t, "d_free", [loc[t] EXCEPT !.ino = ino])
     /\ UNCHANGED <<used, disk, itable, lock, call, contents, undefined, ncalls>>

(* All NDIRECT pointers are freed; if more bytes than those are left, the  *)
(* indirect block is read.                                                 *)
RemoveFree(t) ==
  LET l == loc[t]
  IN /\ pc[t] = "d_free"
     /\ IF l.index < NDIRECT
        THEN /\ FreeBlock(l.ino.blocks[l.index])
             /\ Goto(t, "d_free", [l EXCEPT !.index = @ + 1])
        ELSE /\ IF l.ino.size > DirectBytes
                THEN Goto(t, "d_ptrs",
                          [l EXCEPT !.ptr = AsPointers(ReadBlock(l.ino.blocks[NDIRECT]))])
                ELSE Goto(t, "d_inode", NoLocals)
             /\ UNCHANGED used
     /\ UNCHANGED <<disk, itable, lock, call, reply, contents, undefined, ncalls>>

(* num_indirect_blocks pointers are freed, then the indirect block.        *)
RemovePointers(t) ==
  LET l == loc[t]
  IN /\ pc[t] = "d_ptrs"
     /\ IF l.indirect = num_indirect_blocks(l.ino.size)
        THEN /\ FreeBlock(l.ino.blocks[NDIRECT])
             /\ Goto(t, "d_inode", NoLocals)
             /\ UNCHANGED <<disk, itable, lock, call, reply, contents, undefined, ncalls>>
        ELSE IF l.indirect >= NINDIRECT \/ l.ptr[l.indirect] = Wild
        THEN Undefined
        ELSE /\ FreeBlock(l.ptr[l.indirect])
             /\ Goto(t, "d_ptrs", [l EXCEPT !.indirect = @ + 1])
             /\ UNCHANGED <<disk, itable, lock, call, reply, contents, undefined, ncalls>>

(* free_inode reads the inode again and does not check that it is there.   *)
FreeInode(t) ==
  LET ino == GetInode(Inum(t))
  IN /\ pc[t] = "d_inode"
     /\ IF ino = Nil
        THEN Undefined
        ELSE /\ Goto(t, "p_read", [loc[t] EXCEPT !.ino = ino])
             /\ UNCHANGED <<used, disk, itable, lock, call, reply, contents, undefined, ncalls>>

-----------------------------------------------------------------------------
Calls(t) == \/ \E type \in Types : CallCreate(t, type)
            \/ \E id \in Ids : \/ \E f \in Files : CallPut(t, id, f)
                               \/ CallGet(t, id) \/ CallGetattr(t, id) \/ CallRemove(t, id)

Inside(t) == \/ Enter(t) \/ Exit(t)
             \/ AllocInode(t) \/ PutRead(t) \/ PutWrite(t) \/ Getattr(t)
             \/ ReadGet(t) \/ ReadPointers(t) \/ ReadLoop(t)
             \/ WriteGet(t) \/ WriteFree(t) \/ WriteLoop(t) \/ WriteStore(t) \/ WriteOld(t)
             \/ WriteTrim(t) \/ WritePointers(t) \/ WriteFreeIndirect(t)
             \/ RemoveGet(t) \/ RemoveFree(t) \/ RemovePointers(t) \/ FreeInode(t)

Step(t) == Inside(t) \/ Return(t)

Next == ~undefined /\ \E t \in Threads : Calls(t) \/ Step(t)

Spec == Init /\ [][Next]_vars

(* A thread inside a call is scheduled.                                    *)
FairSpec == Spec /\ \A t \in Threads : WF_vars(~undefined /\ Step(t))

-----------------------------------------------------------------------------
(* Properties.                                                             *)

Quiet == \A t \in Threads : pc[t] = "idle"

TypeOK ==
  /\ used \subseteq DataBlocks
  /\ DOMAIN disk = DataBlocks \cup {0}
  /\ \A b \in DOMAIN disk :
       \/ disk[b] = Zeros
       \/ disk[b].tag = "data" /\ disk[b].file \in Files
       \/ disk[b].tag = "pointers"
          /\ disk[b].ids \in [0..(NINDIRECT - 1) -> BlockIds \cup {Wild}]
  /\ itable \in [Inums -> Inodes \cup {Nil}]
  /\ lock \in [Inums -> Threads \cup {Nil}]
  /\ contents \in [Inums -> Records \cup {Nil}]
  /\ undefined \in BOOLEAN
  /\ ncalls \in 0..MaxCalls
  /\ \A t \in Threads : (call[t] = Nil) <=> (pc[t] = "idle")

(* The block in position k of an inode, k = "indirect" being the indirect  *)
(* block, and the positions a file of its size needs.                      *)
Positions(ino) ==
  (0..(Blocks(ino.size) - 1)) \cup (IF ino.size > DirectBytes THEN {NDIRECT + NINDIRECT} ELSE {})
BlockAt(ino, k) ==
  IF k < NDIRECT THEN ino.blocks[k]
  ELSE IF k = NDIRECT + NINDIRECT THEN ino.blocks[NDIRECT]
  ELSE AsPointers(ReadBlock(ino.blocks[NDIRECT]))[k - NDIRECT]

(* Inodes no put or remove is at work on.                                  *)
Settled(i) == /\ itable[i] # Nil
              /\ \A t \in Threads : call[t] # Nil /\ call[t].op \in {"put", "remove"}
                                    => call[t].inum # i

References == {r \in Inums \X (0..(NDIRECT + NINDIRECT)) :
                 Settled(r[1]) /\ r[2] \in Positions(itable[r[1]])}
Referenced(r) == BlockAt(itable[r[1]], r[2])

(* A data block belongs to one place of one file, and is marked in use:    *)
(* alloc_block will not hand it out again, whatever the calls before it    *)
(* and beside it have freed.                                               *)
OneOwner == /\ \A r \in References : Referenced(r) \in used
            /\ \A r, s \in References : r # s => Referenced(r) # Referenced(s)

(* Between calls the blocks in use are the blocks of the files: no call    *)
(* leaks one.                                                              *)
NoLeak == Quiet => used = {Referenced(r) : r \in References}

(* Between calls every file can be read back whole: the inode has the size *)
(* and the blocks hold the contents of the last put that was answered.     *)
ReadableFiles ==
  Quiet => \A i \in Inums :
    IF contents[i] = Nil THEN itable[i] = Nil
    ELSE /\ itable[i] # Nil
         /\ itable[i].type = contents[i].type
         /\ itable[i].size = Size(contents[i].file)
         /\ \A k \in 0..(Blocks(itable[i].size) - 1) :
              ReadBlock(BlockAt(itable[i], k)) = Data(contents[i].file, k)

(* No call follows a block pointer that was never stored, or a null inode. *)
StaysDefined == ~undefined

(* A get answers what the last put of the file wrote (part1_tester reports *)
(* the contrary as "error get, not consistent with put").                  *)
GetMatchesPut ==
  \A t \in Threads :
    call[t] # Nil /\ call[t].op = "get" /\ reply[t] # Nil /\ contents[Inum(t)] # Nil
      => reply[t] = contents[Inum(t)].file

(* The file system is a FileStore: each call takes effect at one moment    *)
(* between its start and its return.                                       *)
Store == INSTANCE FileStore
           WITH Names <- {Masked(id) : id \in Ids}, Ids <- Inums, MaxSize <- BLOCK_SIZE * MAXFILE, store <- contents
ImplementsFileStore == Store!Spec

(* Every call returns.                                                     *)
CallsReturn == \A t \in Threads : (pc[t] # "idle") ~> (pc[t] = "idle")
=============================================================================

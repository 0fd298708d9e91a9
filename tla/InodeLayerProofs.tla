--------------------------- MODULE InodeLayerProofs ---------------------------
(***************************************************************************)
(* What holds of the inode layer for any number of threads, any files, any *)
(* sizes of the disk and of an inode, and whatever calls the clients make  *)
(* beside each other (Allowed is arbitrary):                               *)
(*                                                                         *)
(*   - the inode table and the indirect blocks hold block ids only that    *)
(*     alloc_block has answered, or zeros;                                 *)
(*   - the loops that read and write stay within ino->blocks and within    *)
(*     the indirect block, though they count bytes and blocks separately;  *)
(*     the loops that free pass the end of the indirect block by one       *)
(*     pointer at most, for sizes that are made out;                       *)
(*   - put and get of one inode exclude each other.                        *)
(***************************************************************************)
EXTENDS InodeLayer, WellFoundedInduction, TLAPS

(* A thread's locals are a record with the fields of NoLocals.             *)
Shape(l) ==
  DOMAIN l = {"ino", "table", "index", "indirect", "remaining", "done", "target", "ptr", "final",
              "made", "over", "data"}

MaxBytes == BLOCK_SIZE * MAXFILE
Fits(ino) == ino \in Inodes /\ ino.size <= MaxBytes
PointerArrays == [0..(NINDIRECT - 1) -> BlockIds \cup {Wild}]

(* The labels of write_file and of remove_file once they have the inode,   *)
(* and of write_file from its loop on.                                     *)
Rewriting == {"w_free", "w_loop", "w_store", "w_old", "w_trim", "w_ptrs", "w_free8"}
Laying == Rewriting \ {"w_free"}
Removing == {"d_get", "d_free", "d_ptrs", "d_inode"}

AtZero(l) == l.index = 0 /\ l.indirect = 0 /\ l.done = 0

(* read_file's counters while there is something left to read: the blocks  *)
(* read so far are all full.                                               *)
ReadPosition(l) ==
  /\ l.remaining \in Nat /\ l.done \in Nat /\ l.index \in Nat /\ l.indirect \in Nat
  /\ l.remaining + l.done = l.ino.size
  /\ l.remaining > 0 => /\ l.done = l.index * BLOCK_SIZE
                        /\ l.indirect = IF l.index <= NDIRECT THEN 0 ELSE l.index - NDIRECT

(* write_file's counters.  done runs ahead of the blocks by the block that *)
(* comes next: it lags behind index * BLOCK_SIZE when that one is the last *)
(* and not full.  over is set with the first block beyond the direct ones. *)
WritePosition(l, size) ==
  /\ l.remaining \in Nat /\ l.done \in Nat /\ l.index \in Nat /\ l.indirect \in Nat
  /\ l.over \in BOOLEAN /\ l.made \in BOOLEAN
  /\ l.remaining > 0 =>
       /\ l.index * BLOCK_SIZE + l.remaining = size
       /\ l.done = IF l.index = 0 \/ l.remaining >= BLOCK_SIZE THEN l.index * BLOCK_SIZE
                   ELSE (l.index - 1) * BLOCK_SIZE + l.remaining
       /\ ~l.over => l.indirect = 0 /\ l.index <= NDIRECT
       /\ l.over => l.index >= NDIRECT /\ l.indirect = l.index - NDIRECT /\ l.done >= DirectBytes
  /\ l.remaining = 0 /\ l.over => NDIRECT + l.indirect = Blocks(size)

(* The counters of the loop that gives up blocks: it starts behind the     *)
(* last block of the new size, and counts down the difference in bytes.    *)
TrimPosition(l, size) ==
  /\ l.remaining \in Int
  /\ l.remaining > 0 =>
       /\ l.indirect \in Nat /\ size < l.ino.size /\ NDIRECT + l.indirect >= Blocks(size)
       /\ l.remaining = l.ino.size - size - (NDIRECT + l.indirect - Blocks(size)) * BLOCK_SIZE

(* What a thread at label p with locals l knows in the call c.             *)
LocalOK(p, l, c) ==
  /\ Shape(l)
  /\ IF p = "idle" THEN c = Nil ELSE c \in Requests
  /\ p = "a_scan" => c.op = "create" /\ c.type \in Types /\ l.index \in 0..INODE_NUM
  /\ p \in {"p_read", "p_write"} =>
       /\ c.op \in {"create", "put", "get", "remove"}
       /\ Fits(l.ino)
       /\ IF c.op = "create" THEN l.index \in Inums ELSE c.inum \in Inums
       /\ c.op = "get" => AtZero(l)
  /\ p = "p_write" => /\ DOMAIN l.table \subseteq Inums
                      /\ \A j \in DOMAIN l.table : l.table[j] = Nil \/ Fits(l.table[j])
  /\ p = "g_get" => c.op = "getattr"
  /\ p \in {"r_enter", "r_get", "r_ptrs", "r_loop"} => c.op = "get"
  /\ p \in {"r_get", "w_get", "exit"} => c.inum \in Inums
  /\ p \in {"r_enter", "r_get"} => AtZero(l)
  /\ p \in {"r_ptrs", "r_loop"} => Fits(l.ino) /\ c.inum \in Inums
  /\ p = "r_ptrs" => AtZero(l)
  /\ p = "r_loop" => ReadPosition(l)
  /\ p \in {"w_enter", "w_get"} => l = NoLocals
  /\ p \in {"w_enter", "w_get"} \cup Rewriting => c.op = "put" /\ c.file \in Files
  /\ p = "exit" => c.op \in {"put", "get"}
  /\ p \in Rewriting => Fits(l.ino) /\ c.inum \in Inums /\ Size(c.file) <= MaxBytes
  /\ p = "w_free" => l.index \in Nat /\ l.indirect = 0 /\ l.done = 0 /\ l.over = FALSE /\ l.made = FALSE
  /\ p \in Laying => l.final \in PointerArrays
  /\ p \in {"w_loop", "w_store", "w_old"} => WritePosition(l, Size(c.file))
  /\ p = "w_old" => l.remaining = 0
  /\ p = "w_trim" => TrimPosition(l, Size(c.file))
  /\ p = "w_store" => l.remaining > 0 /\ (~l.over => l.done < DirectBytes)
  /\ p \in Removing => c.op = "remove"
  /\ p \in Removing \ {"d_get"} => c.inum \in Inums
  /\ p = "d_get" => AtZero(l)
  /\ p \in {"d_free", "d_ptrs"} => Fits(l.ino)
  /\ p = "d_free" => l.indirect = 0
  /\ p = "d_ptrs" => l.ino.size > DirectBytes /\ l.indirect \in 0..num_indirect_blocks(l.ino.size)

Locals == \A t \in Threads : LocalOK(pc[t], loc[t], call[t])

(* The types of the variables that the threads share, and of the arrays    *)
(* the threads keep their own state in.                                    *)
Shared ==
  /\ used \subseteq DataBlocks
  /\ DOMAIN disk = DataBlocks \cup {0}
  /\ \A b \in DOMAIN disk :
       \/ disk[b] = Zeros
       \/ disk[b].tag = "data" /\ disk[b].file \in Files
       \/ disk[b].tag = "pointers" /\ disk[b].ids \in PointerArrays
  /\ itable \in [Inums -> Inodes \cup {Nil}]
  /\ \A i \in Inums : itable[i] # Nil => Fits(itable[i])
  /\ lock \in [Inums -> Threads \cup {Nil}]
  /\ contents \in [Inums -> Records \cup {Nil}]
  /\ undefined \in BOOLEAN
  /\ ncalls \in 0..MaxCalls
Arrays == DOMAIN pc = Threads /\ DOMAIN loc = Threads /\ DOMAIN call = Threads

InodeInv == Shared /\ Arrays /\ Locals

(* The pointers the loops index: ino->blocks has NDIRECT + 1 of them, the  *)
(* indirect block NINDIRECT.  Reading and writing stay within both.  The   *)
(* two loops that free can index one past the indirect block, and no       *)
(* further: write_file's if the blocks of the new size and those of the    *)
(* difference in bytes, rounded up one by one, come to more than MAXFILE;  *)
(* remove_file's if the file is as large as can be.                        *)
Reading(l) ==
  l.remaining > 0 =>
    IF l.done < DirectBytes THEN l.index \in 0..(NDIRECT - 1) ELSE l.indirect \in 0..(NINDIRECT - 1)
Writing(l) ==
  l.remaining > 0 =>
    IF l.done < DirectBytes THEN l.index \in 0..NDIRECT ELSE l.indirect \in 0..(NINDIRECT - 1)
Trimming(l, size) ==
  l.remaining > 0 =>
    /\ l.indirect \in 0..NINDIRECT
    /\ Blocks(size) + Blocks(l.ino.size - size) <= MAXFILE => l.indirect < NINDIRECT
FreeingPointers(l) ==
  l.indirect # num_indirect_blocks(l.ino.size) =>
    /\ l.indirect \in 0..NINDIRECT
    /\ l.ino.size < MaxBytes => l.indirect < NINDIRECT

WithinArrays ==
  \A t \in Threads :
    /\ pc[t] = "r_loop" => Reading(loc[t])
    /\ pc[t] = "w_loop" => Writing(loc[t])
    /\ pc[t] = "w_trim" => Trimming(loc[t], Size(call[t].file))
    /\ pc[t] = "d_ptrs" => FreeingPointers(loc[t])

(* Between Enter and Exit a put or a get is the holder of the lock.        *)
Locked == {"r_get", "r_ptrs", "r_loop", "w_get", "exit"} \cup Rewriting
InCritical(t) == pc[t] \in Locked \/ (pc[t] \in {"p_read", "p_write"} /\ call[t].op \in {"put", "get"})
LockHeld == \A t \in Threads : InCritical(t) => call[t].inum \in Inums /\ lock[call[t].inum] = t

(* And a lock has a holder only while that thread is inside.               *)
LockReleased == \A i \in Inums : lock[i] # Nil => InCritical(lock[i]) /\ call[lock[i]].inum = i
LockInv == LockHeld /\ LockReleased
-----------------------------------------------------------------------------
(* Arithmetic.                                                             *)

LEMMA LessThan == \E R : IsWellFoundedOn(R, Nat) /\ \A x, y \in Nat : <<y, x>> \in R <=> y < x
<1>1. \A x, y \in Nat : <<y, x>> \in OpToRel(<, Nat) <=> y < x
  BY DEF OpToRel
<1> QED
  BY <1>1, NatLessThanWellFounded

LEMMA LeastNat == ASSUME NEW T \in SUBSET Nat, T # {} PROVE \E x \in T : \A y \in T : x <= y
<1>1. PICK R : IsWellFoundedOn(R, Nat) /\ \A x, y \in Nat : <<y, x>> \in R <=> y < x
  BY LessThan
<1>2. PICK x \in T : \A y \in T : ~(<<y, x>> \in R)
  BY WFMin, <1>1
<1>3. \A y \in T : ~(y < x)
  BY <1>1, <1>2, Zenon
<1>4. \A y \in T : x <= y
  BY <1>3
<1> QED
  BY <1>4

(* Counting in blocks and in bytes.                                        *)
LEMMA Bytes ==
  /\ BLOCK_SIZE \in Nat \ {0} /\ NDIRECT \in Nat \ {0} /\ NINDIRECT \in Nat \ {0}
  /\ MaxBytes \in Nat /\ DirectBytes \in Nat
  BY SizesAssumption DEF MaxBytes, DirectBytes, MAXFILE

LEMMA BytesNext ==
  ASSUME NEW i \in Int
  PROVE  /\ i * BLOCK_SIZE \in Int
         /\ (i + 1) * BLOCK_SIZE = i * BLOCK_SIZE + BLOCK_SIZE
         /\ i * BLOCK_SIZE = (i - 1) * BLOCK_SIZE + BLOCK_SIZE
  BY Bytes

LEMMA BytesOrder ==
  ASSUME NEW i \in Int, NEW k \in Int
  PROVE  (i < k) <=> (i * BLOCK_SIZE < k * BLOCK_SIZE)
<1>1. \A a, b \in Int, c \in Nat \ {0} : a < b => a * c < b * c
  OBVIOUS
<1>2. \A a, b \in Int, c \in Nat \ {0} : a <= b => a * c <= b * c
  OBVIOUS
<1> QED
  BY <1>1, <1>2, Bytes

LEMMA MaxBytesIs == MaxBytes = (NDIRECT + NINDIRECT) * BLOCK_SIZE /\ DirectBytes = NDIRECT * BLOCK_SIZE
  BY Bytes DEF MaxBytes, MAXFILE, DirectBytes

LEMMA DivBlock ==
  ASSUME NEW a \in Nat
  PROVE  /\ a = BLOCK_SIZE * (a \div BLOCK_SIZE) + (a % BLOCK_SIZE)
         /\ a \div BLOCK_SIZE \in Nat /\ a % BLOCK_SIZE \in 0..(BLOCK_SIZE - 1)
  BY Bytes

LEMMA BlocksIs ==
  ASSUME NEW s \in Nat
  PROVE  Blocks(s) \in Nat /\ s <= Blocks(s) * BLOCK_SIZE /\ (Blocks(s) - 1) * BLOCK_SIZE < s
<1> DEFINE a == s + BLOCK_SIZE - 1
           q == a \div BLOCK_SIZE
           r == a % BLOCK_SIZE
<1>1. a \in Nat
  BY Bytes
<1>2. a = BLOCK_SIZE * q + r /\ q \in Nat /\ r \in 0..(BLOCK_SIZE - 1)
  BY <1>1, DivBlock
<1>3. Blocks(s) = q
  BY DEF Blocks
<1> HIDE DEF q, r
<1>4. BLOCK_SIZE * q = q * BLOCK_SIZE /\ q * BLOCK_SIZE \in Int
      /\ q * BLOCK_SIZE = (q - 1) * BLOCK_SIZE + BLOCK_SIZE
  BY <1>2, Bytes, BytesNext
<1> QED
  BY <1>2, <1>3, <1>4, Bytes

(* Block k is one of the file's if the file has a byte in it.              *)
LEMMA BlocksBelow ==
  ASSUME NEW s \in Nat, NEW k \in Int
  PROVE  k < Blocks(s) <=> k * BLOCK_SIZE < s
<1>1. Blocks(s) \in Nat /\ s <= Blocks(s) * BLOCK_SIZE /\ (Blocks(s) - 1) * BLOCK_SIZE < s
  BY BlocksIs
<1> DEFINE n == Blocks(s)
<1> HIDE DEF n
<1>2. n * BLOCK_SIZE \in Int /\ (n - 1) * BLOCK_SIZE \in Int /\ k * BLOCK_SIZE \in Int
  BY <1>1, BytesNext DEF n
<1>3. CASE k < n
  <2>1. ~(n - 1 < k) /\ n - 1 \in Int
    BY <1>1, <1>3 DEF n
  <2>2. ~((n - 1) * BLOCK_SIZE < k * BLOCK_SIZE)
    BY <2>1, BytesOrder
  <2> QED
    BY <1>1, <1>2, <1>3, <2>2 DEF n
<1>4. CASE ~(k < n)
  <2>1. ~(k * BLOCK_SIZE < n * BLOCK_SIZE)
    BY <1>1, <1>4, BytesOrder DEF n
  <2> QED
    BY <1>1, <1>2, <1>4, <2>1 DEF n
<1> QED
  BY <1>3, <1>4 DEF n

LEMMA BlocksMost ==
  ASSUME NEW s \in Nat
  PROVE  /\ s <= MaxBytes => Blocks(s) <= MAXFILE
         /\ s > DirectBytes <=> Blocks(s) > NDIRECT
         /\ Blocks(s) \in Nat /\ MAXFILE \in Nat /\ MAXFILE > NDIRECT /\ MAXFILE = NDIRECT + NINDIRECT
<1>1. Blocks(s) \in Nat
  BY BlocksIs
<1>2. MAXFILE \in Nat /\ MAXFILE > NDIRECT /\ MAXFILE = NDIRECT + NINDIRECT
  BY Bytes DEF MAXFILE
<1>3. MAXFILE < Blocks(s) <=> MaxBytes < s
  BY <1>2, BlocksBelow, MaxBytesIs
<1>4. NDIRECT < Blocks(s) <=> DirectBytes < s
  BY <1>2, BlocksBelow, MaxBytesIs, Bytes
<1> QED
  BY <1>1, <1>2, <1>3, <1>4, Bytes

LEMMA BlocksOrder ==
  ASSUME NEW s \in Nat, NEW r \in Nat, s <= r PROVE Blocks(s) <= Blocks(r)
<1> DEFINE n == Blocks(s)
           m == Blocks(r)
<1>1. n \in Nat /\ m \in Nat
  BY BlocksIs
<1>2. m < n => m * BLOCK_SIZE < s
  BY <1>1, BlocksBelow
<1>3. ~(m * BLOCK_SIZE < r)
  BY <1>1, BlocksBelow
<1>4. m * BLOCK_SIZE \in Int
  BY <1>1, BytesNext
<1> HIDE DEF n, m
<1>5. n <= m
  BY <1>1, <1>2, <1>3, <1>4
<1> QED
  BY <1>5 DEF n, m
-----------------------------------------------------------------------------
(* What the operators on blocks answer.                                    *)

LEMMA BlockIdsNat == DataBlocks \subseteq Nat /\ BlockIds \subseteq Nat /\ Wild \notin BlockIds
<1>1. first_data_block \in Nat
  BY LayoutAssumption DEF first_data_block, IBLOCK, nblocks
<1>2. DataBlocks \subseteq Nat
  BY <1>1 DEF DataBlocks
<1> QED
  BY <1>2, NOBLOCKAssumption DEF BlockIds, Wild

LEMMA AllocBlockType == AllocBlock \in BlockIds
<1>1. CASE Free = {}
  BY <1>1 DEF AllocBlock, BlockIds
<1>2. CASE Free # {}
  <2>1. \E b \in Free : \A c \in Free : b <= c
    BY <1>2, LeastNat, BlockIdsNat DEF Free
  <2>2. AllocBlock \in Free
    BY <1>2, <2>1 DEF AllocBlock
  <2> QED
    BY <2>2 DEF Free, BlockIds
<1> QED
  BY <1>1, <1>2

LEMMA AsPointersType ==
  ASSUME Shared, NEW b PROVE AsPointers(ReadBlock(b)) \in PointerArrays
<1>1. CASE b \notin DOMAIN disk
  BY <1>1 DEF AsPointers, ReadBlock, Junk, PointerArrays
<1>2. CASE b \in DOMAIN disk
  <2>1. CASE disk[b] = Zeros
    BY <1>2, <2>1 DEF AsPointers, ReadBlock, Zeros, PointerArrays, BlockIds
  <2>2. CASE disk[b].tag = "data"
    BY <1>2, <2>2 DEF AsPointers, ReadBlock, PointerArrays
  <2>3. CASE disk[b].tag = "pointers" /\ disk[b].ids \in PointerArrays
    BY <1>2, <2>3 DEF AsPointers, ReadBlock
  <2> QED
    BY <1>2, <2>1, <2>2, <2>3 DEF Shared
<1> QED
  BY <1>1, <1>2

-----------------------------------------------------------------------------
(* A step of t leaves the other threads' locals alone.                     *)
LEMMA LocalStep ==
  ASSUME InodeInv, NEW t \in Threads, NEW p, NEW l, NEW c,
         pc' = [pc EXCEPT ![t] = p], loc' = [loc EXCEPT ![t] = l],
         call' = [call EXCEPT ![t] = c] \/ (call' = call /\ c = call[t]),
         LocalOK(p, l, c)
  PROVE  Locals' /\ Arrays'
<1>1. Arrays'
  BY DEF InodeInv, Arrays
<1>2. \A u \in Threads : LocalOK(pc'[u], loc'[u], call'[u])
  BY DEF InodeInv, Arrays, Locals
<1> QED
  BY <1>1, <1>2 DEF Locals

LEMMA NoLocalsShape == Shape(NoLocals) /\ AtZero(NoLocals)
  BY DEF Shape, NoLocals, AtZero

LEMMA FreshFits == ASSUME NEW type \in Types \cup {T_DIR} PROVE Fits(FreshInode(type))
<1>1. 0 \in {Size(f) : f \in Stored}
  <2>1. EmptyFile \in Stored /\ Size(EmptyFile) = 0
    BY DEF Stored, EmptyFile, Size
  <2> QED
    BY <2>1
<1>2. [x \in 0..NDIRECT |-> 0] \in [0..NDIRECT -> BlockIds]
  BY DEF BlockIds
<1> QED
  BY <1>1, <1>2, Bytes DEF Fits, FreshInode, Inodes

LEMMA InitInodeInv == Init => InodeInv
<1> SUFFICES ASSUME Init PROVE InodeInv
  OBVIOUS
<1>1. Fits(FreshInode(T_DIR))
  BY FreshFits
<1>2. Shared
  <2>1. itable \in [Inums -> Inodes \cup {Nil}] /\ \A i \in Inums : itable[i] # Nil => Fits(itable[i])
    BY <1>1 DEF Init, Fits
  <2>2. contents \in [Inums -> Records \cup {Nil}]
    BY DEF Init, Records, Stored
  <2>3. /\ DOMAIN disk = DataBlocks \cup {0}
        /\ \A b \in DOMAIN disk : disk[b] = Zeros
    BY DEF Init
  <2>4. used \subseteq DataBlocks /\ lock \in [Inums -> Threads \cup {Nil}]
        /\ ncalls \in 0..MaxCalls
    BY MaxCallsAssumption DEF Init
  <2>5. undefined \in BOOLEAN
    BY DEF Init
  <2> QED
    BY <2>1, <2>2, <2>3, <2>4, <2>5 DEF Shared
<1>3. \A t \in Threads : LocalOK("idle", NoLocals, Nil)
  BY NoLocalsShape DEF LocalOK, Rewriting, Laying, Removing
<1> QED
  BY <1>2, <1>3 DEF Init, InodeInv, Arrays, Locals
-----------------------------------------------------------------------------
(* One lemma per group of actions.  Undefined changes nothing but the flag.*)

LEMMA UndefinedInv == ASSUME InodeInv, Undefined PROVE InodeInv'
<1>1. undefined' \in BOOLEAN
  BY DEF Undefined
<1> QED
  BY <1>1 DEF Undefined, InodeInv, Shared, Arrays, Locals

(* A step that touches no shared variable.                                 *)
LEMMA PrivateStep ==
  ASSUME InodeInv, NEW t \in Threads, NEW p, NEW l, Goto(t, p, l),
         UNCHANGED <<used, disk, itable, lock, call, contents, undefined, ncalls>>,
         LocalOK(p, l, call[t])
  PROVE  InodeInv'
<1>1. Locals' /\ Arrays'
  BY LocalStep DEF Goto
<1>2. Shared'
  BY DEF InodeInv, Shared
<1> QED
  BY <1>1, <1>2 DEF InodeInv

LEMMA BeginInv ==
  ASSUME InodeInv, NEW t \in Threads, NEW c \in Requests, NEW p,
         Begin(t, c, p), LocalOK(p, NoLocals, c)
  PROVE  InodeInv'
<1>1. Locals' /\ Arrays'
  BY LocalStep DEF Begin, Goto
<1>2. ncalls' \in 0..MaxCalls
  BY MaxCallsAssumption DEF Begin, InodeInv, Shared
<1>3. Shared'
  BY <1>2 DEF Begin, InodeInv, Shared
<1> QED
  BY <1>1, <1>3 DEF InodeInv

LEMMA CallsInv ==
  ASSUME InodeInv, NEW t \in Threads, Calls(t) PROVE InodeInv'
<1> USE NoLocalsShape
<1>1. 0 \in Nat /\ EmptyFile \in Stored /\ Files \subseteq Stored
  BY DEF Stored
<1>2. ASSUME NEW id \in Ids PROVE Masked(id) \in Nat
  BY IdsAssumption DEF Masked
<1>3. ASSUME NEW type \in Types, CallCreate(t, type) PROVE InodeInv'
  <2>1. Request("create", 0, type, EmptyFile) \in Requests
    BY <1>1 DEF Request, Requests
  <2>2. LocalOK("a_scan", NoLocals, Request("create", 0, type, EmptyFile))
    BY <2>1, LayoutAssumption DEF LocalOK, Request, Rewriting, Laying, Removing, NoLocals
  <2> QED
    BY <1>3, <2>1, <2>2, BeginInv DEF CallCreate
<1>4. ASSUME NEW id \in Ids, NEW f \in Files, CallPut(t, id, f) PROVE InodeInv'
  <2>1. Request("put", Masked(id), 0, f) \in Requests
    BY <1>1, <1>2 DEF Request, Requests
  <2>2. LocalOK("w_enter", NoLocals, Request("put", Masked(id), 0, f))
    BY <2>1 DEF LocalOK, Request, Rewriting, Laying, Removing
  <2> QED
    BY <1>4, <2>1, <2>2, BeginInv DEF CallPut
<1>5. ASSUME NEW id \in Ids, CallGet(t, id) PROVE InodeInv'
  <2>1. Request("get", Masked(id), 0, EmptyFile) \in Requests
    BY <1>1, <1>2 DEF Request, Requests
  <2>2. LocalOK("r_enter", NoLocals, Request("get", Masked(id), 0, EmptyFile))
    BY <2>1 DEF LocalOK, Request, Rewriting, Laying, Removing
  <2> QED
    BY <1>5, <2>1, <2>2, BeginInv DEF CallGet
<1>6. ASSUME NEW id \in Ids, CallGetattr(t, id) PROVE InodeInv'
  <2>1. Request("getattr", Masked(id), 0, EmptyFile) \in Requests
    BY <1>1, <1>2 DEF Request, Requests
  <2>2. LocalOK("g_get", NoLocals, Request("getattr", Masked(id), 0, EmptyFile))
    BY <2>1 DEF LocalOK, Request, Rewriting, Laying, Removing
  <2> QED
    BY <1>6, <2>1, <2>2, BeginInv DEF CallGetattr
<1>7. ASSUME NEW id \in Ids, CallRemove(t, id) PROVE InodeInv'
  <2>1. Request("remove", Masked(id), 0, EmptyFile) \in Requests
    BY <1>1, <1>2 DEF Request, Requests
  <2>2. LocalOK("d_get", NoLocals, Request("remove", Masked(id), 0, EmptyFile))
    BY <2>1 DEF LocalOK, Request, Rewriting, Laying, Removing
  <2> QED
    BY <1>7, <2>1, <2>2, BeginInv DEF CallRemove
<1> QED
  BY <1>3, <1>4, <1>5, <1>6, <1>7 DEF Calls
(* What a thread knows in its call.                                        *)
LEMMA LocalFact == ASSUME InodeInv, NEW t \in Threads PROVE LocalOK(pc[t], loc[t], call[t])
  BY DEF InodeInv, Locals

LEMMA GetInodeType ==
  ASSUME InodeInv, NEW i, GetInode(i) # Nil PROVE i \in Inums /\ Fits(GetInode(i))
  BY DEF GetInode, InodeInv, Shared

LEMMA ReturnInv == ASSUME InodeInv, NEW t \in Threads, Return(t) PROVE InodeInv'
<1>1. LocalOK("idle", NoLocals, Nil)
  BY NoLocalsShape DEF LocalOK, Rewriting, Laying, Removing
<1>2. Locals' /\ Arrays'
  BY <1>1, LocalStep DEF Return, Goto
<1>3. Shared'
  BY DEF Return, InodeInv, Shared
<1> QED
  BY <1>2, <1>3 DEF InodeInv

LEMMA EnterInv == ASSUME InodeInv, NEW t \in Threads, Enter(t) PROVE InodeInv'
<1>1. CASE Undefined
  BY <1>1, UndefinedInv
<1>2. CASE Inum(t) \in Inums /\ pc[t] = "w_enter"
  <2>1. LocalOK("w_get", loc[t], call[t])
    BY <1>2, LocalFact DEF LocalOK, Rewriting, Laying, Removing, Inum
  <2>2. Locals' /\ Arrays'
    BY <1>2, <2>1, LocalStep DEF Enter, Goto
  <2>3. Shared'
    BY <1>2 DEF Enter, InodeInv, Shared
  <2> QED
    BY <2>2, <2>3 DEF InodeInv
<1>3. CASE Inum(t) \in Inums /\ pc[t] = "r_enter"
  <2>1. LocalOK("r_get", loc[t], call[t])
    BY <1>3, LocalFact DEF LocalOK, Rewriting, Laying, Removing, Inum
  <2>2. Locals' /\ Arrays'
    BY <1>3, <2>1, LocalStep DEF Enter, Goto
  <2>3. Shared'
    BY <1>3 DEF Enter, InodeInv, Shared
  <2> QED
    BY <2>2, <2>3 DEF InodeInv
<1> QED
  BY <1>1, <1>2, <1>3 DEF Enter

LEMMA ExitInv == ASSUME InodeInv, NEW t \in Threads, Exit(t) PROVE InodeInv'
<1>1. LocalOK("return", loc[t], call[t]) /\ Inum(t) \in Inums
  BY LocalFact DEF Exit, LocalOK, Rewriting, Laying, Removing, Inum
<1>2. Locals' /\ Arrays'
  BY <1>1, LocalStep DEF Exit, Goto
<1>3. Shared'
  BY <1>1 DEF Exit, InodeInv, Shared
<1> QED
  BY <1>2, <1>3 DEF InodeInv

(* The scan of alloc_inode stays in the table, or wraps around to inode 0. *)
LEMMA AllocInodeInv == ASSUME InodeInv, NEW t \in Threads, AllocInode(t) PROVE InodeInv'
<1> DEFINE l == loc[t]
           ino == FreshInode(call[t].type)
<1>1. /\ Shape(l) /\ call[t] \in Requests /\ call[t].op = "create" /\ l.index \in 0..INODE_NUM
      /\ INODE_NUM \in Nat \ {0} /\ call[t].type \in Types /\ Fits(ino)
  BY LocalFact, LayoutAssumption, FreshFits DEF AllocInode, LocalOK
<1> HIDE DEF ino
<1>2. CASE l.index = INODE_NUM
  <2> DEFINE n == [l EXCEPT !.ino = ino, !.index = 0]
  <2>3. Shape(n) /\ n.ino = ino /\ n.index = 0
    BY <1>1 DEF Shape
  <2> HIDE DEF n
  <2>1. LocalOK("p_read", n, call[t])
    BY <1>1, <2>3 DEF LocalOK, Inums, Rewriting, Laying, Removing
  <2>2. Goto(t, "p_read", n)
    BY <1>2 DEF AllocInode, Goto, ino, n
  <2> QED
    BY <2>1, <2>2, PrivateStep DEF AllocInode
<1>3. CASE l.index # INODE_NUM /\ GetInode(l.index) = Nil
  <2> DEFINE n == [l EXCEPT !.ino = ino]
  <2>3. Shape(n) /\ n.ino = ino /\ n.index = l.index
    BY <1>1 DEF Shape
  <2> HIDE DEF n
  <2>1. LocalOK("p_read", n, call[t])
    BY <1>1, <1>3, <2>3 DEF LocalOK, Inums, Rewriting, Laying, Removing
  <2>2. Goto(t, "p_read", n)
    BY <1>3 DEF AllocInode, ino, n
  <2> QED
    BY <2>1, <2>2, PrivateStep DEF AllocInode
<1>4. CASE l.index # INODE_NUM /\ GetInode(l.index) # Nil
  <2> DEFINE n == [l EXCEPT !.index = @ + 1]
  <2>3. Shape(n) /\ n.index = l.index + 1
    BY <1>1 DEF Shape
  <2> HIDE DEF n
  <2>1. LocalOK("a_scan", n, call[t])
    BY <1>1, <1>4, <2>3 DEF LocalOK, Rewriting, Laying, Removing
  <2>2. Goto(t, "a_scan", n)
    BY <1>4 DEF AllocInode, n
  <2> QED
    BY <2>1, <2>2, PrivateStep DEF AllocInode
<1> QED
  BY <1>2, <1>3, <1>4
(* put_inode reads inodes of the table only, and puts back what it read.   *)
LEMMA PutReadInv == ASSUME InodeInv, NEW t \in Threads, PutRead(t) PROVE InodeInv'
<1> DEFINE l == loc[t]
           table == [j \in Neighbours(PutInum(t)) |-> itable[j]]
           n == [l EXCEPT !.table = table]
<1>1. LocalOK("p_read", l, call[t])
  BY LocalFact DEF PutRead
<1>2. DOMAIN table \subseteq Inums /\ \A j \in DOMAIN table : table[j] = Nil \/ Fits(table[j])
  BY DEF Neighbours, InodeInv, Shared
<1> HIDE DEF table
<1>3. Shape(n) /\ n.table = table /\ n.ino = l.ino /\ n.index = l.index /\ (AtZero(l) => AtZero(n))
  BY <1>1 DEF LocalOK, Shape, AtZero
<1>4. Goto(t, "p_write", n)
  BY DEF PutRead, table
<1> HIDE DEF n
<1>5. LocalOK("p_write", n, call[t])
  BY <1>1, <1>2, <1>3 DEF LocalOK, Rewriting, Laying, Removing
<1> QED
  BY <1>4, <1>5, PrivateStep DEF PutRead

LEMMA PutWriteInv == ASSUME InodeInv, NEW t \in Threads, PutWrite(t) PROVE InodeInv'
<1> DEFINE l == loc[t]
           i == PutInum(t)
           op == call[t].op
           ino == IF op = "remove" THEN Nil ELSE l.ino
<1>1. LocalOK("p_write", l, call[t])
  BY LocalFact DEF PutWrite
<1>2. /\ Fits(l.ino) /\ i \in Inums /\ op \in {"create", "put", "get", "remove"}
      /\ call[t] \in Requests /\ Shape(l)
      /\ \A j \in DOMAIN l.table : l.table[j] = Nil \/ Fits(l.table[j])
  BY <1>1 DEF LocalOK, PutInum, Inum
<1>3. Shared'
  <2>1. /\ itable' \in [Inums -> Inodes \cup {Nil}]
        /\ \A j \in Inums : itable'[j] # Nil => Fits(itable'[j])
    <3>1. \A j \in Inums : itable'[j] = Nil \/ Fits(itable'[j])
      BY <1>2 DEF PutWrite, InodeInv, Shared
    <3>2. \A x : Fits(x) => x \in Inodes
      BY DEF Fits
    <3>3. itable' = [j \in Inums |-> itable'[j]]
      BY DEF PutWrite
    <3> QED
      BY <3>1, <3>2, <3>3
  <2>2. contents' \in [Inums -> Records \cup {Nil}]
    <3>1. op # "remove" => [type |-> ino.type, file |-> call[t].file] \in Records
      BY <1>2 DEF Fits, Inodes, Requests, Records
    <3>2. contents' = [contents EXCEPT ![i] = IF op = "get" THEN @
                                             ELSE IF op = "remove" THEN Nil
                                             ELSE [type |-> ino.type, file |-> call[t].file]]
      BY DEF PutWrite
    <3> HIDE DEF ino
    <3> QED
      BY <1>2, <3>1, <3>2 DEF InodeInv, Shared
  <2> QED
    BY <2>1, <2>2 DEF PutWrite, InodeInv, Shared
<1>4. Locals' /\ Arrays'
  <2>1. CASE op = "get"
    <3> DEFINE n == [l EXCEPT !.table = Nil]
    <3>1. Shape(n) /\ n.ino = l.ino /\ AtZero(n)
      BY <1>1, <2>1 DEF LocalOK, Shape, AtZero
    <3>2. Goto(t, "r_ptrs", n) /\ call' = call
      BY <2>1 DEF PutWrite
    <3> HIDE DEF n
    <3>3. LocalOK("r_ptrs", n, call[t])
      BY <1>1, <2>1, <3>1 DEF LocalOK, Rewriting, Laying, Removing
    <3> QED
      BY <3>2, <3>3, LocalStep DEF Goto
  <2>2. CASE op = "put"
    <3>1. LocalOK("exit", NoLocals, call[t])
      BY <1>1, <2>2, NoLocalsShape DEF LocalOK, Rewriting, Laying, Removing
    <3>2. Goto(t, "exit", NoLocals) /\ call' = call
      BY <2>2 DEF PutWrite
    <3> QED
      BY <3>1, <3>2, LocalStep DEF Goto
  <2>3. CASE op \in {"create", "remove"}
    <3>1. LocalOK("return", NoLocals, call[t])
      BY <1>1, <2>3, NoLocalsShape DEF LocalOK, Rewriting, Laying, Removing
    <3>2. Goto(t, "return", NoLocals) /\ call' = call
      BY <2>3 DEF PutWrite
    <3> QED
      BY <3>1, <3>2, LocalStep DEF Goto
  <2> QED
    BY <1>2, <2>1, <2>2, <2>3
<1> QED
  BY <1>3, <1>4 DEF InodeInv

LEMMA GetattrInv == ASSUME InodeInv, NEW t \in Threads, Getattr(t) PROVE InodeInv'
<1>1. LocalOK("return", NoLocals, call[t])
  BY LocalFact, NoLocalsShape DEF Getattr, LocalOK, Rewriting, Laying, Removing
<1> QED
  BY <1>1, PrivateStep DEF Getattr

-----------------------------------------------------------------------------
(* read_file.                                                              *)

LEMMA ReadGetInv == ASSUME InodeInv, NEW t \in Threads, ReadGet(t) PROVE InodeInv'
<1> DEFINE l == loc[t]
           ino == GetInode(Inum(t))
<1>1. LocalOK("r_get", l, call[t])
  BY LocalFact DEF ReadGet
<1>2. CASE ino = Nil
  <2>1. LocalOK("exit", NoLocals, call[t])
    BY <1>1, NoLocalsShape DEF LocalOK, Rewriting, Laying, Removing
  <2>2. Goto(t, "exit", NoLocals)
    BY <1>2 DEF ReadGet
  <2> QED
    BY <2>1, <2>2, PrivateStep DEF ReadGet
<1>3. CASE ino # Nil
  <2> DEFINE n == [l EXCEPT !.ino = ino]
  <2>1. Fits(ino)
    BY <1>3, GetInodeType
  <2>2. Shape(n) /\ n.ino = ino /\ AtZero(n)
    BY <1>1 DEF LocalOK, Shape, AtZero
  <2>3. Goto(t, "p_read", n)
    BY <1>3 DEF ReadGet
  <2> HIDE DEF n
  <2>4. LocalOK("p_read", n, call[t])
    BY <1>1, <2>1, <2>2 DEF LocalOK, Rewriting, Laying, Removing
  <2> QED
    BY <2>3, <2>4, PrivateStep DEF ReadGet
<1> QED
  BY <1>2, <1>3

LEMMA SizeType == ASSUME NEW ino, Fits(ino) PROVE ino.size \in Nat
  BY FilesAssumption DEF Fits, Inodes, Stored, Size, EmptyFile

LEMMA ReadPointersInv == ASSUME InodeInv, NEW t \in Threads, ReadPointers(t) PROVE InodeInv'
<1> DEFINE l == loc[t]
           n == [l EXCEPT !.ptr = AsPointers(ReadBlock(l.ino.blocks[NDIRECT])), !.remaining = l.ino.size]
<1>1. LocalOK("r_ptrs", l, call[t])
  BY LocalFact DEF ReadPointers
<1>2. Shape(n) /\ n.ino = l.ino /\ AtZero(n) /\ n.remaining = l.ino.size
  BY <1>1 DEF LocalOK, Shape, AtZero
<1>3. Goto(t, "r_loop", n)
  BY DEF ReadPointers
<1> HIDE DEF n
<1>4. ReadPosition(n)
  BY <1>1, <1>2, SizeType, Bytes DEF LocalOK, AtZero, ReadPosition
<1>5. LocalOK("r_loop", n, call[t])
  BY <1>1, <1>2, <1>4 DEF LocalOK, Rewriting, Laying, Removing
<1> QED
  BY <1>3, <1>5, PrivateStep DEF ReadPointers
(* While something is left to read the counters are within the arrays.     *)
LEMMA ReadWithin ==
  ASSUME NEW l, Fits(l.ino), ReadPosition(l), l.remaining > 0
  PROVE  IF l.done < DirectBytes THEN l.index \in 0..(NDIRECT - 1) ELSE l.indirect \in 0..(NINDIRECT - 1)
<1>1. /\ l.index \in Nat /\ l.done = l.index * BLOCK_SIZE /\ l.done < MaxBytes
      /\ l.indirect = IF l.index <= NDIRECT THEN 0 ELSE l.index - NDIRECT
  BY SizeType, Bytes DEF Fits, ReadPosition
<1>2. l.index < NDIRECT + NINDIRECT
  BY <1>1, BytesOrder, MaxBytesIs, Bytes
<1>3. (l.done < DirectBytes) <=> (l.index < NDIRECT)
  BY <1>1, BytesOrder, MaxBytesIs, Bytes
<1> QED
  BY <1>1, <1>2, <1>3, Bytes

LEMMA ReadLoopInv == ASSUME InodeInv, NEW t \in Threads, ReadLoop(t) PROVE InodeInv'
<1> DEFINE l == loc[t]
           direct == l.done < DirectBytes
           m == MIN(BLOCK_SIZE, l.remaining)
<1>1. LocalOK("r_loop", l, call[t])
  BY LocalFact DEF ReadLoop
<1>2. Shape(l) /\ Fits(l.ino) /\ ReadPosition(l)
  BY <1>1 DEF LocalOK
<1>3. CASE l.remaining = 0
  <2>1. LocalOK("exit", NoLocals, call[t])
    BY <1>1, NoLocalsShape DEF LocalOK, Rewriting, Laying, Removing
  <2>2. Goto(t, "exit", NoLocals)
    BY <1>3 DEF ReadLoop
  <2> QED
    BY <1>3, <2>1, <2>2, PrivateStep DEF ReadLoop
<1>4. CASE l.remaining # 0
  <2>1. PICK d : Goto(t, "r_loop", [l EXCEPT !.data = d, !.done = @ + m, !.remaining = @ - m, !.index = @ + 1,
                                             !.indirect = IF direct THEN @ ELSE @ + 1])
    BY <1>4 DEF ReadLoop
  <2> DEFINE n == [l EXCEPT !.data = d, !.done = @ + m, !.remaining = @ - m, !.index = @ + 1,
                            !.indirect = IF direct THEN @ ELSE @ + 1]
  <2>2. /\ Shape(n) /\ n.ino = l.ino /\ n.done = l.done + m /\ n.remaining = l.remaining - m
        /\ n.index = l.index + 1 /\ n.indirect = IF direct THEN l.indirect ELSE l.indirect + 1
    BY <1>2 DEF Shape
  <2> HIDE DEF n
  <2>3. /\ l.remaining \in Nat /\ l.remaining > 0 /\ l.done \in Nat /\ l.index \in Nat /\ l.indirect \in Nat
        /\ l.done = l.index * BLOCK_SIZE /\ l.remaining + l.done = l.ino.size
        /\ l.indirect = IF l.index <= NDIRECT THEN 0 ELSE l.index - NDIRECT
    BY <1>2, <1>4 DEF ReadPosition
  <2>4. m \in Nat /\ m <= l.remaining /\ (l.remaining - m > 0 => m = BLOCK_SIZE)
    BY <2>3, Bytes DEF MIN
  <2>5. direct <=> l.index < NDIRECT
    BY <2>3, BytesOrder, MaxBytesIs, Bytes
  <2> HIDE DEF m, direct
  <2>6. (l.index + 1) * BLOCK_SIZE = l.index * BLOCK_SIZE + BLOCK_SIZE
    BY <2>3, BytesNext
  <2>7. ReadPosition(n)
    <3>1. n.remaining + n.done = n.ino.size /\ n.remaining \in Nat /\ n.done \in Nat
      BY <1>2, <2>2, <2>3, <2>4, SizeType
    <3>2. n.remaining > 0 => n.done = n.index * BLOCK_SIZE
      BY <2>2, <2>3, <2>4, <2>6
    <3>3. n.index \in Nat /\ n.indirect \in Nat
          /\ n.indirect = IF n.index <= NDIRECT THEN 0 ELSE n.index - NDIRECT
      BY <2>2, <2>3, <2>5, Bytes
    <3> QED
      BY <3>1, <3>2, <3>3 DEF ReadPosition
  <2>8. LocalOK("r_loop", n, call[t])
    BY <1>1, <2>2, <2>7 DEF LocalOK, Rewriting, Laying, Removing
  <2>9. Goto(t, "r_loop", n)
    BY <2>1 DEF n
  <2> QED
    BY <1>4, <2>8, <2>9, PrivateStep DEF ReadLoop
<1> QED
  BY <1>3, <1>4

-----------------------------------------------------------------------------
(* write_file.                                                             *)

LEMMA WriteGetInv == ASSUME InodeInv, NEW t \in Threads, WriteGet(t) PROVE InodeInv'
<1> DEFINE l == loc[t]
           ino == GetInode(Inum(t))
<1>1. LocalOK("w_get", l, call[t])
  BY LocalFact DEF WriteGet
<1>2. CASE NewSize(t) > BLOCK_SIZE * MAXFILE \/ ino = Nil
  <2>1. LocalOK("exit", NoLocals, call[t])
    BY <1>1, NoLocalsShape DEF LocalOK, Rewriting, Laying, Removing
  <2>2. Goto(t, "exit", NoLocals)
    BY <1>2 DEF WriteGet
  <2> QED
    BY <2>1, <2>2, PrivateStep DEF WriteGet
<1>3. CASE ~(NewSize(t) > BLOCK_SIZE * MAXFILE) /\ ino # Nil
  <2> DEFINE n == [l EXCEPT !.ino = ino]
  <2>1. Fits(ino)
    BY <1>3, GetInodeType
  <2>2. /\ Shape(n) /\ n.ino = ino /\ n.index \in Nat /\ n.indirect = 0 /\ n.done = 0 /\ n.over = FALSE
        /\ n.made = FALSE
    BY <1>1 DEF LocalOK, Shape, NoLocals
  <2>3. Goto(t, "w_free", n)
    BY <1>3 DEF WriteGet
  <2>4. Size(call[t].file) <= MaxBytes
    <3>1. Size(call[t].file) \in Nat
      BY <1>1, FilesAssumption DEF LocalOK, Size
    <3> QED
      BY <1>3, <3>1, Bytes DEF NewSize, MaxBytes
  <2> HIDE DEF n
  <2>5. LocalOK("w_free", n, call[t])
    BY <1>1, <2>1, <2>2, <2>4 DEF LocalOK, Rewriting, Laying, Removing
  <2> QED
    BY <2>3, <2>5, PrivateStep DEF WriteGet
<1> QED
  BY <1>2, <1>3

(* A step that changes the bitmap but no other shared variable.            *)
LEMMA BitmapStep ==
  ASSUME InodeInv, NEW t \in Threads, NEW p, NEW l, Goto(t, p, l), used' \subseteq DataBlocks,
         UNCHANGED <<disk, itable, lock, call, contents, undefined, ncalls>>,
         LocalOK(p, l, call[t])
  PROVE  InodeInv'
<1>1. Locals' /\ Arrays'
  BY LocalStep DEF Goto
<1>2. Shared'
  BY DEF InodeInv, Shared
<1> QED
  BY <1>1, <1>2 DEF InodeInv

LEMMA FreeBlockType == ASSUME InodeInv, NEW b, FreeBlock(b) PROVE used' \subseteq DataBlocks
  BY DEF InodeInv, Shared, FreeBlock

LEMMA WriteFreeInv == ASSUME InodeInv, NEW t \in Threads, WriteFree(t) PROVE InodeInv'
<1> DEFINE l == loc[t]
<1>1. LocalOK("w_free", l, call[t])
  BY LocalFact DEF WriteFree
<1>2. CASE l.index < NDIRECT
  <2> DEFINE n == [l EXCEPT !.index = @ + 1]
  <2>1. /\ Shape(n) /\ n.ino = l.ino /\ n.index \in Nat /\ n.indirect = 0 /\ n.done = 0 /\ n.over = FALSE
        /\ n.made = FALSE
    BY <1>1 DEF LocalOK, Shape
  <2>2. Goto(t, "w_free", n) /\ used' \subseteq DataBlocks
    BY <1>2, FreeBlockType DEF WriteFree
  <2> HIDE DEF n
  <2>3. LocalOK("w_free", n, call[t])
    BY <1>1, <2>1 DEF LocalOK, Rewriting, Laying, Removing
  <2> QED
    BY <2>2, <2>3, BitmapStep DEF WriteFree
<1>3. CASE ~(l.index < NDIRECT)
  <2> DEFINE wild == [x \in 0..(NINDIRECT - 1) |-> Wild]
             n == [l EXCEPT !.index = 0, !.remaining = NewSize(t), !.final = wild]
  <2>1. /\ Shape(n) /\ n.ino = l.ino /\ n.index = 0 /\ n.indirect = 0 /\ n.done = 0 /\ n.over = FALSE
        /\ n.made = FALSE /\ n.final = wild /\ n.remaining = Size(call[t].file)
    BY <1>1 DEF LocalOK, Shape, NewSize
  <2>2. Goto(t, "w_loop", n) /\ UNCHANGED used
    BY <1>3 DEF WriteFree
  <2> HIDE DEF n
  <2>3. n.final \in PointerArrays
    BY <2>1 DEF PointerArrays
  <2>4. Size(call[t].file) \in Nat
    BY <1>1, FilesAssumption DEF LocalOK, Size, Rewriting
  <2>5. WritePosition(n, Size(call[t].file))
    <3>1. ~n.over /\ n.over \in BOOLEAN /\ n.made \in BOOLEAN
      BY <2>1
    <3>2. n.index * BLOCK_SIZE = 0
      BY <2>1, Bytes
    <3> QED
      BY <2>1, <2>4, <3>1, <3>2, Bytes DEF WritePosition
  <2>6. LocalOK("w_loop", n, call[t])
    BY <1>1, <2>1, <2>3, <2>5 DEF LocalOK, Rewriting, Laying, Removing
  <2> QED
    BY <2>2, <2>6, PrivateStep DEF WriteFree
<1> QED
  BY <1>2, <1>3
(* While something is left to write the counters are within the arrays;    *)
(* the pointer at NDIRECT may be the one that is written next.             *)
LEMMA WriteWithin ==
  ASSUME NEW l, NEW size \in Nat, size <= MaxBytes, WritePosition(l, size), l.remaining > 0
  PROVE  IF l.done < DirectBytes THEN l.index \in 0..NDIRECT /\ ~l.over
         ELSE l.index >= NDIRECT /\ l.indirect = l.index - NDIRECT /\ l.indirect \in 0..(NINDIRECT - 1)
<1>1. /\ l.remaining \in Nat /\ l.done \in Nat /\ l.index \in Nat /\ l.indirect \in Nat
      /\ l.index * BLOCK_SIZE + l.remaining = size
      /\ l.done = IF l.index = 0 \/ l.remaining >= BLOCK_SIZE THEN l.index * BLOCK_SIZE
                  ELSE (l.index - 1) * BLOCK_SIZE + l.remaining
      /\ ~l.over => l.indirect = 0 /\ l.index <= NDIRECT
      /\ l.over => l.index >= NDIRECT /\ l.indirect = l.index - NDIRECT /\ l.done >= DirectBytes
  BY DEF WritePosition
<1>2. l.index * BLOCK_SIZE \in Nat /\ l.index * BLOCK_SIZE = (l.index - 1) * BLOCK_SIZE + BLOCK_SIZE
  BY <1>1, BytesNext, Bytes
<1>3. l.done <= l.index * BLOCK_SIZE
  BY <1>1, <1>2, Bytes
<1>4. l.index < NDIRECT + NINDIRECT
  <2>1. l.index * BLOCK_SIZE < MaxBytes
    BY <1>1, <1>2, Bytes
  <2> QED
    BY <1>1, <2>1, BytesOrder, MaxBytesIs, Bytes
<1>5. CASE l.done < DirectBytes
  <2>1. ASSUME l.over PROVE FALSE
    <3>1. l.done >= DirectBytes
      BY <1>1, <2>1, Zenon
    <3> QED
      BY <1>1, <1>5, <3>1, Bytes
  <2>2. l.index <= NDIRECT
    BY <1>1, <2>1, Zenon
  <2>3. l.index \in 0..NDIRECT
    BY <1>1, <2>2, Bytes
  <2> QED
    BY <1>5, <2>1, <2>3, Zenon
<1>6. CASE ~(l.done < DirectBytes)
  <2>1. NDIRECT * BLOCK_SIZE <= l.index * BLOCK_SIZE
    BY <1>1, <1>2, <1>3, <1>6, MaxBytesIs, Bytes
  <2>2. l.index >= NDIRECT
    BY <1>1, <1>2, <2>1, BytesOrder, Bytes
  <2> QED
    BY <1>1, <1>4, <1>6, <2>2, Bytes
<1> QED
  BY <1>5, <1>6

LEMMA PointAt ==
  ASSUME NEW ino, Fits(ino), NEW k, NEW b \in BlockIds PROVE Fits([ino EXCEPT !.blocks[k] = b])
  BY DEF Fits, Inodes

LEMMA TakeType == ASSUME InodeInv, NEW b, Take(b) PROVE used' \subseteq DataBlocks
  BY DEF InodeInv, Shared, Take

(* The block the loop goes on with, in the indirect block.                 *)
LEMMA StoreLocal ==
  ASSUME NEW l, NEW c, LocalOK("w_loop", l, c), l.remaining > 0, ~(l.done < DirectBytes), NEW id \in BlockIds
  PROVE  LocalOK("w_store", [l EXCEPT !.target = id, !.over = TRUE, !.final[l.indirect] = id], c)
<1> DEFINE n == [l EXCEPT !.target = id, !.over = TRUE, !.final[l.indirect] = id]
           size == Size(c.file)
<1>1. /\ Shape(l) /\ c \in Requests /\ c.op = "put" /\ c.file \in Files /\ c.inum \in Inums
      /\ Fits(l.ino) /\ size <= MaxBytes /\ l.final \in PointerArrays /\ WritePosition(l, size)
  BY DEF LocalOK, Rewriting, Laying
<1>2. size \in Nat
  BY <1>1, FilesAssumption DEF Size
<1>3. l.index >= NDIRECT /\ l.indirect = l.index - NDIRECT
  BY <1>1, <1>2, WriteWithin
<1>4. /\ Shape(n) /\ n.ino = l.ino /\ n.over = TRUE /\ n.made = l.made /\ n.index = l.index
      /\ n.indirect = l.indirect /\ n.done = l.done /\ n.remaining = l.remaining
      /\ n.final = [l.final EXCEPT ![l.indirect] = id]
  BY <1>1 DEF Shape
<1> HIDE DEF n, size
<1>5. n.final \in PointerArrays
  BY <1>1, <1>4 DEF PointerArrays
<1>6. WritePosition(n, size)
  <2>1. n.over \in BOOLEAN /\ n.over
    BY <1>4
  <2>2. l.done >= DirectBytes
    BY <1>1, Bytes DEF WritePosition
  <2> QED
    BY <1>1, <1>3, <1>4, <2>1, <2>2 DEF WritePosition
<1>7. n.remaining > 0 /\ (~n.over => n.done < DirectBytes)
  BY <1>4
<1>8. LocalOK("w_store", n, c)
  BY <1>1, <1>4, <1>5, <1>6, <1>7 DEF LocalOK, Rewriting, Laying, Removing, size
<1> QED
  BY <1>8 DEF n

LEMMA WriteLoopInv == ASSUME InodeInv, NEW t \in Threads, WriteLoop(t) PROVE InodeInv'
<1> DEFINE l == loc[t]
           c == call[t]
           size == Size(c.file)
           b == AllocBlock
           reused == AsPointers(ReadBlock(l.ino.blocks[NDIRECT]))[l.indirect]
<1>1. LocalOK("w_loop", l, c)
  BY LocalFact DEF WriteLoop
<1>2. /\ Shape(l) /\ c \in Requests /\ c.op = "put" /\ c.file \in Files /\ c.inum \in Inums
      /\ Fits(l.ino) /\ size <= MaxBytes /\ l.final \in PointerArrays /\ WritePosition(l, size)
  BY <1>1 DEF LocalOK, Rewriting, Laying
<1>3. size \in Nat /\ l.remaining \in Nat /\ l.done \in Nat
  BY <1>2, FilesAssumption DEF Size, WritePosition
<1>4. b \in BlockIds
  BY AllocBlockType
<1> HIDE DEF b
<1>5. CASE l.remaining = 0
  <2>1. LocalOK("w_old", l, c)
    BY <1>1, <1>5 DEF LocalOK, Rewriting, Laying, Removing
  <2>2. Goto(t, "w_old", l) /\ UNCHANGED <<used, undefined>>
    BY <1>5 DEF WriteLoop
  <2> QED
    BY <2>1, <2>2, PrivateStep DEF WriteLoop
<1>6. CASE l.remaining > 0 /\ l.done < DirectBytes
  <2> DEFINE n == [l EXCEPT !.target = b, !.ino.blocks[l.index] = b]
  <2>1. Goto(t, "w_store", n) /\ Take(b) /\ UNCHANGED undefined
    <3>1. ~(l.done >= DirectBytes) /\ l.remaining # 0
      BY <1>3, <1>6, Bytes
    <3> QED
      BY <1>6, <3>1 DEF WriteLoop, b
  <2>2. /\ Shape(n) /\ n.ino = [l.ino EXCEPT !.blocks[l.index] = b] /\ n.over = l.over /\ n.made = l.made
        /\ n.index = l.index /\ n.indirect = l.indirect /\ n.done = l.done
        /\ n.remaining = l.remaining /\ n.final = l.final
    BY <1>2 DEF Shape
  <2> HIDE DEF n
  <2>3. Fits(n.ino)
    <3>1. Fits([l.ino EXCEPT !.blocks[l.index] = b])
      BY <1>2, <1>4, PointAt
    <3> QED
      BY <2>2, <3>1
  <2>4. WritePosition(n, size)
    BY <1>2, <2>2 DEF WritePosition
  <2>5. LocalOK("w_store", n, c)
    BY <1>2, <1>6, <2>2, <2>3, <2>4 DEF LocalOK, Rewriting, Laying, Removing
  <2> QED
    BY <2>1, <2>5, BitmapStep, TakeType DEF WriteLoop
<1>7. CASE l.remaining > 0 /\ ~(l.done < DirectBytes)
  <2>1. l.index >= NDIRECT /\ l.indirect = l.index - NDIRECT /\ l.indirect \in 0..(NINDIRECT - 1)
    BY <1>2, <1>3, <1>7, WriteWithin
  <2> DEFINE Stow(id) == [l EXCEPT !.target = id, !.over = TRUE, !.final[l.indirect] = id]
             made == [l EXCEPT !.ino.blocks[NDIRECT] = b, !.made = TRUE, !.over = TRUE]
  <2>2. \/ Take(b) /\ Goto(t, "w_loop", made) /\ UNCHANGED undefined
        \/ Take(b) /\ Goto(t, "w_store", Stow(b)) /\ UNCHANGED undefined
        \/ reused # Wild /\ Goto(t, "w_store", Stow(reused)) /\ UNCHANGED <<used, undefined>>
        \/ undefined' = TRUE /\ UNCHANGED <<used, pc, loc>>
    <3>1. l.done >= DirectBytes /\ l.remaining # 0
      BY <1>3, <1>7, Bytes
    <3> QED
      BY <1>7, <3>1 DEF WriteLoop, b
  <2>3. CASE Take(b) /\ Goto(t, "w_loop", made) /\ UNCHANGED undefined
    <3>1. /\ Shape(made) /\ made.ino = [l.ino EXCEPT !.blocks[NDIRECT] = b] /\ made.over = TRUE /\ made.made = TRUE
          /\ made.index = l.index /\ made.indirect = l.indirect /\ made.done = l.done
          /\ made.remaining = l.remaining /\ made.final = l.final
      BY <1>2 DEF Shape
    <3> HIDE DEF made
    <3>2. Fits(made.ino)
      <4>1. Fits([l.ino EXCEPT !.blocks[NDIRECT] = b])
        BY <1>2, <1>4, PointAt
      <4> QED
        BY <3>1, <4>1
    <3>3. WritePosition(made, size)
      <4>1. made.over \in BOOLEAN /\ made.over /\ made.made \in BOOLEAN
        BY <3>1
      <4>2. l.done >= DirectBytes
        BY <1>3, <1>7, Bytes
      <4>3. made.remaining # 0
        BY <1>3, <1>7, <3>1
      <4> QED
        BY <1>2, <2>1, <3>1, <4>1, <4>2, <4>3 DEF WritePosition
    <3>4. LocalOK("w_loop", made, c)
      BY <1>2, <3>1, <3>2, <3>3 DEF LocalOK, Rewriting, Laying, Removing
    <3> QED
      BY <2>3, <3>4, BitmapStep, TakeType DEF WriteLoop
  <2>4. CASE Take(b) /\ Goto(t, "w_store", Stow(b)) /\ UNCHANGED undefined
    <3>1. LocalOK("w_store", Stow(b), c)
      BY <1>1, <1>4, <1>7, StoreLocal
    <3> QED
      BY <2>4, <3>1, BitmapStep, TakeType DEF WriteLoop
  <2>5. CASE reused # Wild /\ Goto(t, "w_store", Stow(reused)) /\ UNCHANGED <<used, undefined>>
    <3>1. reused \in BlockIds
      <4>1. AsPointers(ReadBlock(l.ino.blocks[NDIRECT])) \in PointerArrays
        BY AsPointersType DEF InodeInv
      <4> QED
        BY <2>1, <2>5, <4>1 DEF PointerArrays
    <3>2. LocalOK("w_store", Stow(reused), c)
      BY <1>1, <1>7, <3>1, StoreLocal
    <3> QED
      BY <2>5, <3>2, PrivateStep DEF WriteLoop
  <2>6. CASE undefined' = TRUE /\ UNCHANGED <<used, pc, loc>>
    <3>1. UNCHANGED <<disk, itable, lock, call, contents, ncalls>>
      BY DEF WriteLoop
    <3>2. undefined' \in BOOLEAN
      BY <2>6
    <3> QED
      BY <2>6, <3>1, <3>2 DEF InodeInv, Shared, Arrays, Locals
  <2> QED
    BY <2>2, <2>3, <2>4, <2>5, <2>6
<1> QED
  BY <1>3, <1>5, <1>6, <1>7
(* A step that writes a block of the disk.                                 *)
LEMMA DiskStep ==
  ASSUME InodeInv, NEW t \in Threads, NEW p, NEW l, Goto(t, p, l), NEW b, NEW x,
         WriteBlock(b, x) \/ UNCHANGED disk,
         \/ x.tag = "data" /\ x.file \in Files
         \/ x.tag = "pointers" /\ x.ids \in PointerArrays,
         UNCHANGED <<used, itable, lock, call, contents, undefined, ncalls>>,
         LocalOK(p, l, call[t])
  PROVE  InodeInv'
<1>1. Locals' /\ Arrays'
  BY LocalStep DEF Goto
<1>2. /\ DOMAIN disk' = DataBlocks \cup {0}
      /\ \A y \in DOMAIN disk' : disk'[y] = disk[y] \/ (y = b /\ disk'[y] = x)
  BY DEF WriteBlock, InodeInv, Shared
<1>3. \A y \in DOMAIN disk' :
        \/ disk'[y] = Zeros
        \/ disk'[y].tag = "data" /\ disk'[y].file \in Files
        \/ disk'[y].tag = "pointers" /\ disk'[y].ids \in PointerArrays
  BY <1>2 DEF InodeInv, Shared
<1>4. Shared'
  BY <1>2, <1>3 DEF InodeInv, Shared, Zeros
<1> QED
  BY <1>1, <1>4 DEF InodeInv

LEMMA WriteStoreInv == ASSUME InodeInv, NEW t \in Threads, WriteStore(t) PROVE InodeInv'
<1> DEFINE l == loc[t]
           c == call[t]
           size == Size(c.file)
           m == MIN(BLOCK_SIZE, l.remaining)
           left == l.remaining - m
           k == MIN(BLOCK_SIZE, left)
           n == [l EXCEPT !.remaining = left, !.done = @ + k, !.index = @ + 1,
                          !.indirect = IF l.over THEN @ + 1 ELSE @]
<1>1. LocalOK("w_store", l, c)
  BY LocalFact DEF WriteStore
<1>2. /\ Shape(l) /\ c \in Requests /\ c.op = "put" /\ c.file \in Files /\ c.inum \in Inums
      /\ Fits(l.ino) /\ size <= MaxBytes /\ l.final \in PointerArrays /\ WritePosition(l, size)
      /\ l.remaining > 0 /\ (~l.over => l.done < DirectBytes)
  BY <1>1 DEF LocalOK, Rewriting, Laying
<1>3. Goto(t, "w_loop", n) /\ WriteBlock(l.target, Data(c.file, l.index))
  BY DEF WriteStore
<1>4. /\ Shape(n) /\ n.ino = l.ino /\ n.over = l.over /\ n.made = l.made /\ n.index = l.index + 1
      /\ n.indirect = (IF l.over THEN l.indirect + 1 ELSE l.indirect) /\ n.done = l.done + k
      /\ n.remaining = left /\ n.final = l.final
  BY <1>2 DEF Shape
<1>5. /\ l.remaining \in Nat /\ l.done \in Nat /\ l.index \in Nat /\ l.indirect \in Nat
      /\ l.over \in BOOLEAN /\ l.made \in BOOLEAN
      /\ l.index * BLOCK_SIZE + l.remaining = size
      /\ l.done = IF l.index = 0 \/ l.remaining >= BLOCK_SIZE THEN l.index * BLOCK_SIZE
                  ELSE (l.index - 1) * BLOCK_SIZE + l.remaining
      /\ ~l.over => l.indirect = 0 /\ l.index <= NDIRECT
      /\ l.over => l.index >= NDIRECT /\ l.indirect = l.index - NDIRECT /\ l.done >= DirectBytes
  BY <1>2 DEF WritePosition
<1>6. /\ left \in Nat /\ k \in Nat
      /\ left > 0 => l.remaining > BLOCK_SIZE /\ left = l.remaining - BLOCK_SIZE
      /\ left = 0 => l.remaining <= BLOCK_SIZE
      /\ k = IF left >= BLOCK_SIZE THEN BLOCK_SIZE ELSE left
  <2>1. ASSUME NEW r \in Nat
        PROVE  MIN(BLOCK_SIZE, r) \in Nat /\ r - MIN(BLOCK_SIZE, r) \in Nat
               /\ MIN(BLOCK_SIZE, r) = IF r >= BLOCK_SIZE THEN BLOCK_SIZE ELSE r
    BY Bytes DEF MIN
  <2>2. left \in Nat /\ m = IF l.remaining >= BLOCK_SIZE THEN BLOCK_SIZE ELSE l.remaining
    BY <1>5, <2>1
  <2>3. /\ left > 0 => l.remaining > BLOCK_SIZE /\ left = l.remaining - BLOCK_SIZE
        /\ left = 0 => l.remaining <= BLOCK_SIZE
    <3> HIDE DEF m
    <3> QED
      BY <1>5, <2>2, Bytes
  <2>4. k \in Nat /\ k = IF left >= BLOCK_SIZE THEN BLOCK_SIZE ELSE left
    <3> HIDE DEF left
    <3> QED
      BY <2>1, <2>2
  <2> QED
    BY <2>2, <2>3, <2>4
<1> HIDE DEF n, size, left, k
<1>7. /\ l.index * BLOCK_SIZE \in Nat /\ (l.index + 1) * BLOCK_SIZE = l.index * BLOCK_SIZE + BLOCK_SIZE
      /\ (l.index + 1) - 1 = l.index
  BY <1>5, BytesNext, Bytes
<1>8. WritePosition(n, size)
  <2>1. n.remaining \in Nat /\ n.done \in Nat /\ n.index \in Nat
    <3>1. l.done \in Nat /\ l.index \in Nat /\ n.remaining = left /\ n.done = l.done + k /\ n.index = l.index + 1
      BY <1>4, <1>5, Zenon
    <3> QED
      BY <1>6, <3>1
  <2>7. n.over \in BOOLEAN /\ n.made \in BOOLEAN
    BY <1>4, <1>5, Zenon
  <2>2. n.indirect \in Nat
    BY <1>4, <1>5
  <2>3. ASSUME n.remaining > 0 PROVE n.index * BLOCK_SIZE + n.remaining = size
    BY <1>4, <1>5, <1>6, <1>7, <2>3, Bytes
  <2>4. ASSUME n.remaining > 0
        PROVE  n.done = IF n.index = 0 \/ n.remaining >= BLOCK_SIZE THEN n.index * BLOCK_SIZE
                        ELSE (n.index - 1) * BLOCK_SIZE + n.remaining
    <3>1. l.done = l.index * BLOCK_SIZE /\ n.index # 0
      BY <1>4, <1>5, <1>6, <2>4, Bytes
    <3> QED
      BY <1>4, <1>5, <1>6, <1>7, <3>1, Bytes
  <2>5. ASSUME n.remaining > 0, ~n.over PROVE n.indirect = 0 /\ n.index <= NDIRECT
    <3>1. ~l.over
      BY <1>4, <2>5
    <3>2. n.indirect = l.indirect /\ l.indirect = 0 /\ l.done < DirectBytes
      BY <1>2, <1>4, <1>5, <3>1, Zenon
    <3>3. l.done = l.index * BLOCK_SIZE
      BY <1>4, <1>5, <1>6, <2>5, Bytes
    <3>4. l.index < NDIRECT
      BY <1>5, <3>2, <3>3, BytesOrder, MaxBytesIs, Bytes
    <3> QED
      BY <1>4, <1>5, <3>2, <3>4, Bytes
  <2>6. ASSUME n.over PROVE n.index >= NDIRECT /\ n.indirect = n.index - NDIRECT /\ n.done >= DirectBytes
    <3>1. l.over
      BY <1>4, <2>6
    <3>2. n.indirect = l.indirect + 1 /\ l.index >= NDIRECT /\ l.indirect = l.index - NDIRECT /\ l.done >= DirectBytes
      BY <1>4, <1>5, <3>1, Zenon
    <3> QED
      BY <1>4, <1>5, <1>6, <3>2, Bytes
  <2>8. ASSUME n.remaining = 0, n.over PROVE NDIRECT + n.indirect = Blocks(size)
    <3>1. l.over
      BY <1>4, <2>8
    <3>2. n.indirect = l.indirect + 1 /\ l.indirect = l.index - NDIRECT
      BY <1>4, <1>5, <3>1, Zenon
    <3>3. l.index * BLOCK_SIZE < size /\ ~((l.index + 1) * BLOCK_SIZE < size)
      BY <1>2, <1>4, <1>5, <1>6, <1>7, <2>8, Bytes
    <3>4. size \in Nat /\ l.index + 1 \in Int
      BY <1>2, <1>5, FilesAssumption DEF Size, size
    <3>5. l.index < Blocks(size) /\ ~(l.index + 1 < Blocks(size)) /\ Blocks(size) \in Nat
      BY <1>5, <3>3, <3>4, BlocksBelow, BlocksIs
    <3>6. l.index \in Nat /\ NDIRECT \in Nat
      BY <1>5, Bytes
    <3>7. l.index + 1 = Blocks(size)
      BY <3>5, <3>6
    <3> QED
      BY <3>2, <3>6, <3>7
  <2> QED
    BY <2>1, <2>2, <2>3, <2>4, <2>5, <2>6, <2>7, <2>8 DEF WritePosition
<1>9. LocalOK("w_loop", n, c)
  BY <1>2, <1>4, <1>8 DEF LocalOK, Rewriting, Laying, Removing, size
<1>10. Data(c.file, l.index).tag = "data" /\ Data(c.file, l.index).file \in Files
  BY <1>2 DEF Data
<1> QED
  BY <1>3, <1>9, <1>10, DiskStep DEF WriteStore

(* The steps of write_file after its loop.                                 *)
LEMMA WriteTailInv ==
  ASSUME InodeInv, NEW t \in Threads, WriteOld(t) \/ WriteTrim(t) \/ WritePointers(t) \/ WriteFreeIndirect(t)
  PROVE  InodeInv'
<1> DEFINE l == loc[t]
           c == call[t]
<1>1. pc[t] \in {"w_old", "w_trim", "w_ptrs", "w_free8"} /\ LocalOK(pc[t], l, c)
  BY LocalFact DEF WriteOld, WriteTrim, WritePointers, WriteFreeIndirect
<1>2. /\ Shape(l) /\ c \in Requests /\ c.op = "put" /\ c.file \in Files /\ c.inum \in Inums
      /\ Fits(l.ino) /\ Size(c.file) <= MaxBytes /\ l.final \in PointerArrays
  BY <1>1 DEF LocalOK, Rewriting, Laying
<1>3. ASSUME NEW n, NEW p \in {"w_trim", "w_ptrs", "w_free8"}, Shape(n), n.ino = l.ino, n.final = l.final,
             p = "w_trim" => TrimPosition(n, Size(c.file))
      PROVE  LocalOK(p, n, c)
  BY <1>2, <1>3 DEF LocalOK, Rewriting, Laying, Removing
<1>8. Size(c.file) \in Nat /\ l.ino.size \in Nat
  BY <1>2, FilesAssumption, SizeType DEF Size
<1>4. CASE WriteOld(t)
  <2> DEFINE shrinks == l.over /\ Size(c.file) < l.ino.size
             ptr == IF shrinks THEN AsPointers(ReadBlock(l.ino.blocks[NDIRECT])) ELSE Nil
             r == IF shrinks THEN l.ino.size - Size(c.file) ELSE 0
             n == [l EXCEPT !.ptr = ptr, !.remaining = r]
  <2>1. pc[t] = "w_old" /\ Goto(t, "w_trim", n)
    BY <1>4 DEF WriteOld, NewSize
  <2>2. Shape(n) /\ n.ino = l.ino /\ n.final = l.final /\ n.remaining = r /\ n.indirect = l.indirect
    BY <1>2 DEF Shape
  <2>3. WritePosition(l, Size(c.file)) /\ l.remaining = 0
    BY <1>1, <2>1 DEF LocalOK
  <2>4. l.indirect \in Nat /\ (l.over => NDIRECT + l.indirect = Blocks(Size(c.file)))
    BY <2>3 DEF WritePosition
  <2> HIDE DEF n
  <2>5. TrimPosition(n, Size(c.file))
    <3>1. CASE shrinks
      <4>1. /\ n.remaining = l.ino.size - Size(c.file) /\ Size(c.file) < l.ino.size
            /\ NDIRECT + n.indirect = Blocks(Size(c.file))
        BY <2>2, <2>4, <3>1
      <4>2. Blocks(Size(c.file)) \in Nat
        BY <1>8, BlocksIs
      <4>3. (NDIRECT + n.indirect - Blocks(Size(c.file))) * BLOCK_SIZE = 0
        <5>1. NDIRECT + n.indirect - Blocks(Size(c.file)) = 0
          BY <2>2, <2>4, <4>1, <4>2, Bytes
        <5> QED
          BY <5>1, Bytes
      <4> QED
        BY <1>8, <2>2, <2>4, <4>1, <4>2, <4>3 DEF TrimPosition
    <3>2. CASE ~shrinks
      BY <2>2, <3>2 DEF TrimPosition
    <3> QED
      BY <3>1, <3>2
  <2>6. LocalOK("w_trim", n, c)
    BY <1>3, <2>2, <2>5
  <2> QED
    BY <1>4, <2>1, <2>6, PrivateStep DEF WriteOld
<1>5. CASE WriteTrim(t)
  <2>1. CASE Undefined
    BY <2>1, UndefinedInv
  <2>2. CASE l.remaining <= 0
    <3> DEFINE n == [l EXCEPT !.ptr = Nil]
    <3>1. Shape(n) /\ n.ino = l.ino /\ n.final = l.final
      BY <1>2 DEF Shape
    <3>2. Goto(t, "w_ptrs", n)
      BY <1>5, <2>2 DEF WriteTrim
    <3> HIDE DEF n
    <3>3. LocalOK("w_ptrs", n, c)
      BY <1>3, <3>1
    <3> QED
      BY <1>5, <2>2, <3>2, <3>3, PrivateStep DEF WriteTrim
  <2>3. CASE ~(l.remaining <= 0) /\ ~Undefined
    <3> DEFINE n == [l EXCEPT !.indirect = @ + 1, !.remaining = @ - BLOCK_SIZE]
    <3>1. /\ Shape(n) /\ n.ino = l.ino /\ n.final = l.final
          /\ n.remaining = l.remaining - BLOCK_SIZE /\ n.indirect = l.indirect + 1
      BY <1>2 DEF Shape
    <3>2. Goto(t, "w_trim", n) /\ FreeBlock(l.ptr[l.indirect])
          /\ UNCHANGED <<disk, itable, lock, call, reply, contents, undefined, ncalls>>
      BY <1>5, <2>3 DEF WriteTrim
    <3> HIDE DEF n
    <3>4. TrimPosition(l, Size(c.file))
      BY <1>1, <1>5 DEF LocalOK, WriteTrim
    <3>5. TrimPosition(n, Size(c.file))
      <4> DEFINE size == Size(c.file)
                 m == Blocks(size)
                 x == NDIRECT + l.indirect - m
      <4>1. /\ l.remaining \in Int /\ l.indirect \in Nat /\ size < l.ino.size /\ NDIRECT + l.indirect >= m
            /\ l.remaining = l.ino.size - size - x * BLOCK_SIZE
        BY <2>3, <3>4 DEF TrimPosition
      <4>2. m \in Nat
        BY <1>8, BlocksIs
      <4>3. x \in Int /\ NDIRECT + n.indirect - m = x + 1 /\ NDIRECT + n.indirect >= m /\ n.indirect \in Nat
        BY <3>1, <4>1, <4>2, Bytes
      <4> HIDE DEF x
      <4>4. x * BLOCK_SIZE \in Int /\ (x + 1) * BLOCK_SIZE = x * BLOCK_SIZE + BLOCK_SIZE
        BY <4>3, BytesNext
      <4>5. n.remaining = n.ino.size - size - (x + 1) * BLOCK_SIZE /\ n.remaining \in Int
        BY <1>8, <3>1, <4>1, <4>4, Bytes
      <4> QED
        BY <3>1, <4>1, <4>3, <4>5 DEF TrimPosition
    <3>3. LocalOK("w_trim", n, c)
      BY <1>3, <3>1, <3>5
    <3> QED
      BY <3>2, <3>3, BitmapStep, FreeBlockType
  <2> QED
    BY <2>1, <2>2, <2>3
<1>6. CASE WritePointers(t)
  <2>1. LocalOK("w_free8", l, c)
    BY <1>2, <1>3
  <2>2. Pointers(l.final).tag = "pointers" /\ Pointers(l.final).ids \in PointerArrays
    BY <1>2 DEF Pointers
  <2>3. WriteBlock(l.ino.blocks[NDIRECT], Pointers(l.final)) \/ UNCHANGED disk
    BY <1>6 DEF WritePointers
  <2> QED
    BY <1>6, <2>1, <2>2, <2>3, DiskStep DEF WritePointers
<1>7. CASE WriteFreeIndirect(t)
  <2> DEFINE ino == [l.ino EXCEPT !.size = NewSize(t)]
             n == [NoLocals EXCEPT !.ino = ino]
  <2>1. Fits(ino)
    <3>1. NewSize(t) \in {Size(f) : f \in Stored} /\ NewSize(t) <= MaxBytes
      BY <1>2 DEF NewSize, Stored
    <3> QED
      BY <1>2, <3>1 DEF Fits, Inodes
  <2>2. Goto(t, "p_read", n) /\ used' \subseteq DataBlocks
    BY <1>7, FreeBlockType DEF WriteFreeIndirect, InodeInv, Shared
  <2> HIDE DEF ino
  <2>3. Shape(n) /\ n.ino = ino
    BY NoLocalsShape DEF Shape
  <2> HIDE DEF n
  <2>4. LocalOK("p_read", n, c)
    BY <1>2, <2>1, <2>3 DEF LocalOK, Rewriting, Laying, Removing
  <2> QED
    BY <1>7, <2>2, <2>4, BitmapStep DEF WriteFreeIndirect
<1> QED
  BY <1>4, <1>5, <1>6, <1>7
-----------------------------------------------------------------------------
(* remove_file and free_inode.                                             *)

LEMMA RemoveGetInv == ASSUME InodeInv, NEW t \in Threads, RemoveGet(t) PROVE InodeInv'
<1> DEFINE l == loc[t]
           ino == GetInode(Inum(t))
<1>1. LocalOK("d_get", l, call[t])
  BY LocalFact DEF RemoveGet
<1>2. CASE ino = Nil
  <2>1. LocalOK("return", NoLocals, call[t])
    BY <1>1, NoLocalsShape DEF LocalOK, Rewriting, Laying, Removing
  <2> QED
    BY <1>2, <2>1, PrivateStep DEF RemoveGet
<1>3. CASE ino # Nil
  <2> DEFINE n == [l EXCEPT !.ino = ino]
  <2>1. call[t].inum \in Inums
    BY <1>3 DEF GetInode, Inum
  <2>2. Goto(t, "d_free", n)
    BY <1>3 DEF RemoveGet
  <2>3. Shape(n) /\ n.ino = ino /\ n.indirect = l.indirect /\ l.indirect = 0
    BY <1>1 DEF LocalOK, Shape, AtZero
  <2>5. Fits(ino)
    BY <1>3, GetInodeType
  <2> HIDE DEF n
  <2>4. LocalOK("d_free", n, call[t])
    BY <1>1, <2>1, <2>3, <2>5 DEF LocalOK, Rewriting, Laying, Removing
  <2> QED
    BY <2>2, <2>4, PrivateStep DEF RemoveGet
<1> QED
  BY <1>2, <1>3

(* remove_file counts the pointers it frees.                               *)
LEMMA RemovingLocal ==
  ASSUME NEW p \in Removing \ {"d_get"}, NEW l, NEW c, LocalOK(p, l, c),
         NEW q \in Removing \ {"d_get"}, NEW n, Shape(n),
         q \in {"d_free", "d_ptrs"} => Fits(n.ino),
         q = "d_free" => n.indirect = 0,
         q = "d_ptrs" => n.ino.size > DirectBytes /\ n.indirect \in 0..num_indirect_blocks(n.ino.size)
  PROVE  LocalOK(q, n, c)
  BY DEF LocalOK, Rewriting, Laying, Removing

LEMMA NumIndirectIs ==
  ASSUME NEW s \in Nat, s > DirectBytes, s <= MaxBytes
  PROVE  /\ num_indirect_blocks(s) \in Nat \ {0}
         /\ num_indirect_blocks(s) <= NINDIRECT + 1
         /\ num_indirect_blocks(s) = NINDIRECT + 1 => s = MaxBytes
<1> DEFINE a == s - DirectBytes
           q == a \div BLOCK_SIZE
           r == a % BLOCK_SIZE
<1>1. a \in Nat
  BY Bytes
<1>2. a = BLOCK_SIZE * q + r /\ q \in Nat /\ r \in 0..(BLOCK_SIZE - 1)
  BY <1>1, DivBlock
<1>3. num_indirect_blocks(s) = q + 1
  BY DEF num_indirect_blocks
<1>4. MaxBytes = DirectBytes + NINDIRECT * BLOCK_SIZE
  BY MaxBytesIs, Bytes
<1> HIDE DEF q, r
<1>5. q * BLOCK_SIZE \in Int /\ NINDIRECT * BLOCK_SIZE \in Int /\ BLOCK_SIZE * q = q * BLOCK_SIZE
  BY <1>2, Bytes, BytesNext
<1>6. ~(NINDIRECT * BLOCK_SIZE < q * BLOCK_SIZE)
  BY <1>2, <1>4, <1>5, Bytes
<1>7. ~(NINDIRECT < q)
  BY <1>2, <1>6, BytesOrder, Bytes
<1>8. q = NINDIRECT => s = MaxBytes
  BY <1>2, <1>4, <1>5, Bytes
<1> QED
  BY <1>2, <1>3, <1>7, <1>8, Bytes

LEMMA RemoveFreeInv == ASSUME InodeInv, NEW t \in Threads, RemoveFree(t) PROVE InodeInv'
<1> DEFINE l == loc[t]
           c == call[t]
<1>1. LocalOK("d_free", l, c) /\ Shape(l) /\ Fits(l.ino) /\ l.indirect = 0
  BY LocalFact DEF RemoveFree, LocalOK
<1>2. used' \subseteq DataBlocks
  BY FreeBlockType DEF RemoveFree, InodeInv, Shared
<1>3. CASE l.index < NDIRECT
  <2> DEFINE n == [l EXCEPT !.index = @ + 1]
  <2>1. Shape(n) /\ n.ino = l.ino /\ n.indirect = l.indirect
    BY <1>1 DEF Shape
  <2>2. Goto(t, "d_free", n)
    BY <1>3 DEF RemoveFree
  <2> HIDE DEF n
  <2>3. LocalOK("d_free", n, c)
    BY <1>1, <2>1, RemovingLocal DEF Removing
  <2> QED
    BY <1>2, <2>2, <2>3, BitmapStep DEF RemoveFree
<1>4. CASE ~(l.index < NDIRECT) /\ l.ino.size > DirectBytes
  <2> DEFINE n == [l EXCEPT !.ptr = AsPointers(ReadBlock(l.ino.blocks[NDIRECT]))]
  <2>1. Shape(n) /\ n.ino = l.ino /\ n.indirect = l.indirect
    BY <1>1 DEF Shape
  <2>2. Goto(t, "d_ptrs", n)
    BY <1>4 DEF RemoveFree
  <2>3. num_indirect_blocks(l.ino.size) \in Nat
    BY <1>1, <1>4, SizeType, NumIndirectIs DEF Fits
  <2> HIDE DEF n
  <2>4. LocalOK("d_ptrs", n, c)
    <3>1. n.indirect \in 0..num_indirect_blocks(n.ino.size) /\ n.ino.size > DirectBytes /\ Fits(n.ino)
      BY <1>1, <1>4, <2>1, <2>3
    <3> QED
      BY <1>1, <2>1, <3>1, RemovingLocal DEF Removing
  <2> QED
    BY <1>2, <2>2, <2>4, BitmapStep DEF RemoveFree
<1>5. CASE ~(l.index < NDIRECT) /\ ~(l.ino.size > DirectBytes)
  <2>1. Goto(t, "d_inode", NoLocals)
    BY <1>5 DEF RemoveFree
  <2>2. LocalOK("d_inode", NoLocals, c)
    BY <1>1, NoLocalsShape, RemovingLocal DEF Removing
  <2> QED
    BY <1>2, <2>1, <2>2, BitmapStep DEF RemoveFree
<1> QED
  BY <1>3, <1>4, <1>5

LEMMA RemovePointersInv == ASSUME InodeInv, NEW t \in Threads, RemovePointers(t) PROVE InodeInv'
<1> DEFINE l == loc[t]
           c == call[t]
           m == num_indirect_blocks(l.ino.size)
<1>1. LocalOK("d_ptrs", l, c) /\ Shape(l) /\ Fits(l.ino) /\ l.ino.size > DirectBytes /\ l.indirect \in 0..m
  BY LocalFact DEF RemovePointers, LocalOK
<1>2. CASE Undefined
  BY <1>2, UndefinedInv
<1>3. CASE ~Undefined /\ l.indirect = m
  <2>1. /\ FreeBlock(l.ino.blocks[NDIRECT]) /\ Goto(t, "d_inode", NoLocals)
        /\ UNCHANGED <<disk, itable, lock, call, reply, contents, undefined, ncalls>>
    BY <1>3 DEF RemovePointers
  <2>2. LocalOK("d_inode", NoLocals, c)
    BY <1>1, NoLocalsShape, RemovingLocal DEF Removing
  <2> QED
    BY <2>1, <2>2, BitmapStep, FreeBlockType
<1>4. CASE ~Undefined /\ l.indirect # m
  <2> DEFINE n == [l EXCEPT !.indirect = @ + 1]
  <2>1. /\ FreeBlock(l.ptr[l.indirect]) /\ Goto(t, "d_ptrs", n)
        /\ UNCHANGED <<disk, itable, lock, call, reply, contents, undefined, ncalls>>
    BY <1>4 DEF RemovePointers
  <2>2. Shape(n) /\ n.ino = l.ino /\ n.indirect = l.indirect + 1
    BY <1>1 DEF Shape
  <2>3. m \in Nat
    BY <1>1, SizeType, NumIndirectIs DEF Fits
  <2> HIDE DEF n, m
  <2>4. n.indirect \in 0..m
    BY <1>1, <1>4, <2>2, <2>3
  <2>5. LocalOK("d_ptrs", n, c)
    <3>1. n.indirect \in 0..num_indirect_blocks(n.ino.size) /\ n.ino.size > DirectBytes /\ Fits(n.ino)
      BY <1>1, <2>2, <2>4 DEF m
    <3> QED
      BY <1>1, <2>2, <3>1, RemovingLocal DEF Removing
  <2> QED
    BY <2>1, <2>5, BitmapStep, FreeBlockType
<1> QED
  BY <1>2, <1>3, <1>4

LEMMA FreeInodeInv == ASSUME InodeInv, NEW t \in Threads, FreeInode(t) PROVE InodeInv'
<1> DEFINE l == loc[t]
           ino == GetInode(Inum(t))
           n == [l EXCEPT !.ino = ino]
<1>1. LocalOK("d_inode", l, call[t])
  BY LocalFact DEF FreeInode
<1>2. CASE ino = Nil
  BY <1>2, UndefinedInv DEF FreeInode
<1>3. CASE ino # Nil
  <2>1. Fits(ino)
    BY <1>3, GetInodeType
  <2>2. Goto(t, "p_read", n)
    BY <1>3 DEF FreeInode
  <2>3. Shape(n) /\ n.ino = ino
    BY <1>1 DEF LocalOK, Shape
  <2> HIDE DEF n
  <2>4. LocalOK("p_read", n, call[t])
    BY <1>1, <2>1, <2>3 DEF LocalOK, Rewriting, Laying, Removing
  <2> QED
    BY <1>3, <2>2, <2>4, PrivateStep DEF FreeInode
<1> QED
  BY <1>2, <1>3
-----------------------------------------------------------------------------
(* The invariant, and what it says.                                        *)

(* A step inside a call is a step of that call: it neither starts nor ends *)
(* one, and moves and answers no other thread.                             *)
LEMMA InsideStep ==
  ASSUME InodeInv, NEW t \in Threads, Inside(t)
  PROVE  /\ pc[t] \notin {"idle", "return"} /\ UNCHANGED call
         /\ pc' = pc \/ \E p : p # "idle" /\ pc' = [pc EXCEPT ![t] = p]
         /\ reply' = reply \/ \E v : reply' = [reply EXCEPT ![t] = v]
<1>1. CASE WriteLoop(t)
  <2>1. pc[t] = "w_loop" /\ UNCHANGED <<call, reply>>
    BY <1>1 DEF WriteLoop
  <2>2. loc[t].remaining \in Nat /\ loc[t].done \in Nat
    BY <2>1, LocalFact DEF LocalOK, WritePosition
  <2>3. UNCHANGED pc \/ \E p \in {"w_old", "w_store", "w_loop"} : \E l : Goto(t, p, l)
    <3>1. \/ loc[t].remaining = 0
          \/ loc[t].remaining > 0 /\ loc[t].done < DirectBytes
          \/ loc[t].remaining > 0 /\ loc[t].done >= DirectBytes
      <4>1. \A r, d, n \in Nat : r = 0 \/ (r > 0 /\ d < n) \/ (r > 0 /\ d >= n)
        OBVIOUS
      <4> QED
        BY <2>2, <4>1, Bytes
    <3>2. CASE loc[t].remaining = 0
      BY <1>1, <3>2 DEF WriteLoop
    <3>3. CASE loc[t].remaining > 0 /\ loc[t].done < DirectBytes
      BY <1>1, <2>2, <3>3, Bytes DEF WriteLoop
    <3>4. CASE loc[t].remaining > 0 /\ loc[t].done >= DirectBytes
      BY <1>1, <2>2, <3>4, Bytes DEF WriteLoop
    <3> QED
      BY <3>1, <3>2, <3>3, <3>4
  <2> QED
    BY <2>1, <2>3 DEF Goto
<1> USE DEF Goto, Answer, Undefined
<1>5. CASE Enter(t) \/ Exit(t) \/ AllocInode(t) \/ PutRead(t)
  BY <1>5 DEF Enter, Exit, AllocInode, PutRead
<1>2. CASE PutWrite(t) \/ Getattr(t)
  BY <1>2 DEF PutWrite, Getattr
<1>3. CASE ReadGet(t) \/ ReadPointers(t) \/ ReadLoop(t)
  BY <1>3 DEF ReadGet, ReadPointers, ReadLoop
<1>4. CASE WriteGet(t) \/ WriteFree(t) \/ WriteStore(t) \/ WriteOld(t)
  BY <1>4 DEF WriteGet, WriteFree, WriteStore, WriteOld
<1>6. CASE WriteTrim(t) \/ WritePointers(t) \/ WriteFreeIndirect(t)
  BY <1>6 DEF WriteTrim, WritePointers, WriteFreeIndirect
<1>7. CASE RemoveGet(t) \/ RemoveFree(t) \/ RemovePointers(t) \/ FreeInode(t)
  BY <1>7 DEF RemoveGet, RemoveFree, RemovePointers, FreeInode
<1> QED
  BY <1>1, <1>2, <1>3, <1>4, <1>5, <1>6, <1>7 DEF Inside

LEMMA NextInodeInv == InodeInv /\ [Next]_vars => InodeInv'
<1> SUFFICES ASSUME InodeInv, [Next]_vars PROVE InodeInv'
  OBVIOUS
<1>1. CASE UNCHANGED vars
  BY <1>1 DEF vars, InodeInv, Shared, Arrays, Locals
<1>2. ASSUME NEW t \in Threads, Calls(t) PROVE InodeInv'
  BY <1>2, CallsInv
<1>3. ASSUME NEW t \in Threads, Return(t) PROVE InodeInv'
  BY <1>3, ReturnInv
<1>4. ASSUME NEW t \in Threads, Inside(t) PROVE InodeInv'
  <2>1. CASE Enter(t) \/ Exit(t) \/ AllocInode(t) \/ PutRead(t) \/ PutWrite(t) \/ Getattr(t)
    BY <2>1, EnterInv, ExitInv, AllocInodeInv, PutReadInv, PutWriteInv, GetattrInv
  <2>2. CASE ReadGet(t) \/ ReadPointers(t) \/ ReadLoop(t)
    BY <2>2, ReadGetInv, ReadPointersInv, ReadLoopInv
  <2>3. CASE WriteGet(t) \/ WriteFree(t) \/ WriteLoop(t) \/ WriteStore(t)
    BY <2>3, WriteGetInv, WriteFreeInv, WriteLoopInv, WriteStoreInv
  <2>4. CASE WriteOld(t) \/ WriteTrim(t) \/ WritePointers(t) \/ WriteFreeIndirect(t)
    BY <2>4, WriteTailInv
  <2>5. CASE RemoveGet(t) \/ RemoveFree(t) \/ RemovePointers(t) \/ FreeInode(t)
    BY <2>5, RemoveGetInv, RemoveFreeInv, RemovePointersInv, FreeInodeInv
  <2> QED
    BY <1>4, <2>1, <2>2, <2>3, <2>4, <2>5 DEF Inside
<1> QED
  BY <1>1, <1>2, <1>3, <1>4 DEF Next, Step

(* What the shared state and every thread's locals satisfy, whatever calls *)
(* run beside each other: the inductive invariant of the inode layer.      *)
THEOREM InodeInvariant == Spec => []InodeInv
<1> QED
  BY InitInodeInv, NextInodeInv, PTL DEF Spec

(* The state of the inode layer has its types: no call writes a word into  *)
(* the inode table, the bitmap or a pointer block that is no block id,     *)
(* other than the uninitialised words of final_indirect_block.             *)
THEOREM InodeTyped == Spec => []TypeOK
<1>1. InodeInv => TypeOK
  <2> SUFFICES ASSUME InodeInv PROVE TypeOK
    OBVIOUS
  <2>1. \A t \in Threads : (call[t] = Nil) <=> (pc[t] = "idle")
    BY NilAssumption DEF InodeInv, Locals, LocalOK
  <2> QED
    BY <2>1 DEF InodeInv, Shared, PointerArrays, TypeOK
<1> QED
  BY <1>1, InodeInvariant, PTL

(* Rounding two sizes up one by one makes one block more at most.          *)
LEMMA BlocksApart ==
  ASSUME NEW s \in Nat, NEW r \in Nat, s < r
  PROVE  Blocks(s) \in Nat /\ Blocks(r - s) \in Nat /\ Blocks(s) + Blocks(r - s) <= Blocks(r) + 1
<1> DEFINE m == Blocks(s)
           d == Blocks(r - s)
           n == Blocks(r)
<1>1. m \in Nat /\ d \in Nat /\ n \in Nat /\ r - s \in Nat
  BY BlocksIs
<1>2. (m - 1) * BLOCK_SIZE < s /\ (d - 1) * BLOCK_SIZE < r - s /\ r <= n * BLOCK_SIZE
  BY <1>1, BlocksIs
<1> HIDE DEF m, d, n
<1>3. (m - 1) * BLOCK_SIZE \in Int /\ (d - 1) * BLOCK_SIZE \in Int /\ n * BLOCK_SIZE \in Int
  BY <1>1, BytesNext
<1>4. (m + d - 2) * BLOCK_SIZE = (m - 1) * BLOCK_SIZE + (d - 1) * BLOCK_SIZE
  <2>1. \A x, y, z \in Int : (x + y - 2) * z = (x - 1) * z + (y - 1) * z
    OBVIOUS
  <2> QED
    BY <1>1, <2>1, Bytes
<1>5. (m + d - 2) * BLOCK_SIZE < n * BLOCK_SIZE
  BY <1>2, <1>3, <1>4
<1>6. m + d - 2 < n
  BY <1>1, <1>5, BytesOrder
<1>7. m + d <= n + 1
  BY <1>1, <1>6
<1> QED
  BY <1>1, <1>7 DEF m, d, n

LEMMA TrimWithin ==
  ASSUME NEW l, Fits(l.ino), NEW size \in Nat, TrimPosition(l, size)
  PROVE  Trimming(l, size)
<1> SUFFICES ASSUME l.remaining > 0
             PROVE  /\ l.indirect \in 0..NINDIRECT
                    /\ Blocks(size) + Blocks(l.ino.size - size) <= MAXFILE => l.indirect < NINDIRECT
  BY DEF Trimming
<1> DEFINE old == l.ino.size
           m == Blocks(size)
           d == Blocks(old - size)
           x == NDIRECT + l.indirect - m
<1>1. /\ l.remaining \in Int /\ l.indirect \in Nat /\ size < old /\ NDIRECT + l.indirect >= m
      /\ l.remaining = old - size - x * BLOCK_SIZE
  BY DEF TrimPosition
<1>2. old \in Nat /\ old <= MaxBytes /\ old - size \in Nat
  BY <1>1, SizeType DEF Fits
<1>3. m \in Nat /\ d \in Nat /\ m + d <= Blocks(old) + 1 /\ Blocks(old) <= MAXFILE /\ Blocks(old) \in Nat
  BY <1>1, <1>2, BlocksApart, BlocksMost
<1>4. x \in Int
  BY <1>1, <1>3, Bytes
<1> HIDE DEF x, m, d
<1>5. x * BLOCK_SIZE \in Int /\ x * BLOCK_SIZE < old - size
  BY <1>1, <1>2, <1>4, BytesNext
<1>6. x < d
  BY <1>2, <1>4, <1>5, BlocksBelow DEF d
<1>7. NDIRECT + l.indirect < m + d
  BY <1>1, <1>3, <1>4, <1>6, Bytes DEF x
<1>8. MAXFILE = NDIRECT + NINDIRECT
  BY DEF MAXFILE
<1>9. l.indirect \in 0..NINDIRECT /\ (m + d <= MAXFILE => l.indirect < NINDIRECT)
  BY <1>1, <1>3, <1>7, <1>8, Bytes
<1> QED
  BY <1>9 DEF m, d

LEMMA FreeingWithin ==
  ASSUME NEW l, Fits(l.ino), l.ino.size > DirectBytes, l.indirect \in 0..num_indirect_blocks(l.ino.size)
  PROVE  FreeingPointers(l)
<1>1. l.ino.size \in Nat /\ l.ino.size <= MaxBytes
  BY SizeType DEF Fits
<1>2. /\ num_indirect_blocks(l.ino.size) \in Nat /\ num_indirect_blocks(l.ino.size) <= NINDIRECT + 1
      /\ num_indirect_blocks(l.ino.size) = NINDIRECT + 1 => l.ino.size = MaxBytes
  BY <1>1, NumIndirectIs
<1> QED
  BY <1>1, <1>2, Bytes DEF FreeingPointers

(* Every loop over the block pointers, in every step, for every size that  *)
(* write_file accepts, however the file had been laid out before and       *)
(* whatever runs beside it: reading and writing stay within ino->blocks    *)
(* and the indirect block; write_file's freeing loop and remove_file's     *)
(* index at most one past the indirect block, and only for the sizes that  *)
(* Trimming and FreeingPointers name.                                      *)
THEOREM StaysWithinArrays == Spec => []WithinArrays
<1>1. InodeInv => WithinArrays
  <2> SUFFICES ASSUME InodeInv, NEW t \in Threads
               PROVE  /\ pc[t] = "r_loop" => Reading(loc[t])
                      /\ pc[t] = "w_loop" => Writing(loc[t])
                      /\ pc[t] = "w_trim" => Trimming(loc[t], Size(call[t].file))
                      /\ pc[t] = "d_ptrs" => FreeingPointers(loc[t])
    BY DEF WithinArrays
  <2> DEFINE l == loc[t]
             c == call[t]
  <2>1. LocalOK(pc[t], l, c)
    BY DEF InodeInv, Locals
  <2>2. ASSUME pc[t] = "r_loop" PROVE Reading(l)
    <3>1. Fits(l.ino) /\ ReadPosition(l)
      BY <2>1, <2>2 DEF LocalOK
    <3> HIDE DEF l
    <3> QED
      BY <3>1, ReadWithin DEF Reading
  <2>3. ASSUME pc[t] \in {"w_loop", "w_trim"}
        PROVE  Fits(l.ino) /\ Size(c.file) <= MaxBytes /\ Size(c.file) \in Nat
    <3>1. Fits(l.ino) /\ Size(c.file) <= MaxBytes /\ c.file \in Files
      BY <2>1, <2>3 DEF LocalOK, Rewriting
    <3> QED
      BY <3>1, FilesAssumption DEF Size
  <2>4. ASSUME pc[t] = "w_loop" PROVE Writing(l)
    <3>1. WritePosition(l, Size(c.file)) /\ Size(c.file) \in Nat /\ Size(c.file) <= MaxBytes
      BY <2>1, <2>3, <2>4 DEF LocalOK
    <3> HIDE DEF l, c
    <3> QED
      BY <3>1, WriteWithin DEF Writing
  <2>5. ASSUME pc[t] = "w_trim" PROVE Trimming(l, Size(c.file))
    <3>1. TrimPosition(l, Size(c.file)) /\ Fits(l.ino) /\ Size(c.file) \in Nat
      BY <2>1, <2>3, <2>5 DEF LocalOK
    <3> HIDE DEF l, c
    <3> QED
      BY <3>1, TrimWithin
  <2>6. ASSUME pc[t] = "d_ptrs" PROVE FreeingPointers(l)
    <3>1. Fits(l.ino) /\ l.ino.size > DirectBytes /\ l.indirect \in 0..num_indirect_blocks(l.ino.size)
      BY <2>1, <2>6 DEF LocalOK
    <3> HIDE DEF l
    <3> QED
      BY <3>1, FreeingWithin
  <2> QED
    BY <2>2, <2>4, <2>5, <2>6
<1> QED
  BY <1>1, InodeInvariant, PTL
-----------------------------------------------------------------------------
(* rwlocks: a put or a get holds the lock of its inode from Enter to Exit. *)

(* A step of t that leaves the lock alone, and from which t is inside its  *)
(* critical section only if it was before.                                 *)
LEMMA LockKept ==
  ASSUME InodeInv, LockInv, NEW t \in Threads, UNCHANGED <<lock, call>>,
         NEW p, NEW l, Goto(t, p, l),
         (p \in Locked \/ (p \in {"p_read", "p_write"} /\ call[t].op \in {"put", "get"})) <=> InCritical(t)
  PROVE  LockInv'
<1>1. \A u \in Threads : InCritical(u)' <=> InCritical(u)
  BY DEF Goto, InodeInv, Arrays, InCritical
<1>2. LockHeld'
  BY <1>1 DEF LockInv, LockHeld
<1>3. LockReleased'
  BY <1>1 DEF LockInv, LockReleased, InodeInv, Shared
<1> QED
  BY <1>2, <1>3 DEF LockInv

LEMMA LockUndefined == ASSUME LockInv, UNCHANGED <<lock, call, pc>> PROVE LockInv'
  BY DEF LockInv, LockHeld, LockReleased, InCritical

(* A thread outside that starts or ends a call.                            *)
LEMMA LockOutside ==
  ASSUME InodeInv, LockInv, NEW t \in Threads, ~InCritical(t), UNCHANGED lock,
         NEW p, pc' = [pc EXCEPT ![t] = p], p \notin Locked \cup {"p_read", "p_write"},
         NEW c, call' = [call EXCEPT ![t] = c]
  PROVE  LockInv'
<1>1. ~InCritical(t)'
  BY DEF InCritical, InodeInv, Arrays
<1>2. \A u \in Threads \ {t} : call'[u] = call[u] /\ (InCritical(u)' <=> InCritical(u))
  BY DEF InCritical, InodeInv, Arrays
<1>3. LockHeld'
  BY <1>1, <1>2 DEF LockInv, LockHeld
<1>4. LockReleased'
  BY <1>2 DEF LockInv, LockReleased, InodeInv, Shared
<1> QED
  BY <1>3, <1>4 DEF LockInv

LEMMA EnterLocks == ASSUME InodeInv, LockInv, NEW t \in Threads, Enter(t) PROVE LockInv'
<1>1. CASE Undefined
  BY <1>1, LockUndefined DEF Undefined
<1>2. CASE ~Undefined
  <2>1. Inum(t) \in Inums /\ lock[Inum(t)] = Nil /\ lock' = [lock EXCEPT ![Inum(t)] = t] /\ call' = call
    BY <1>2 DEF Enter
  <2>2. PICK p : pc' = [pc EXCEPT ![t] = p]
    BY <1>2 DEF Enter, Goto
  <2>3. p \in {"w_get", "r_get"}
    BY <1>2, <2>2 DEF Enter, Goto, InodeInv, Arrays
  <2>4. InCritical(t)'
    BY <2>2, <2>3 DEF InCritical, Locked, InodeInv, Arrays
  <2>5. \A u \in Threads \ {t} : InCritical(u)' <=> InCritical(u)
    BY <2>1, <2>2 DEF InCritical, InodeInv, Arrays
  <2>6. LockHeld'
    <3>1. \A u \in Threads \ {t} : InCritical(u) => call[u].inum \in Inums /\ lock[call[u].inum] = u
                                                     /\ call[u].inum # Inum(t)
      BY <2>1, NilAssumption DEF LockInv, LockHeld
    <3> QED
      BY <2>1, <2>5, <3>1 DEF LockHeld, Inum, InodeInv, Shared
  <2>7. LockReleased'
    BY <2>1, <2>4, <2>5, NilAssumption DEF LockInv, LockReleased, Inum, InodeInv, Shared
  <2> QED
    BY <2>6, <2>7 DEF LockInv
<1> QED
  BY <1>1, <1>2

LEMMA ExitLocks == ASSUME InodeInv, LockInv, NEW t \in Threads, Exit(t) PROVE LockInv'
<1>1. lock' = [lock EXCEPT ![Inum(t)] = Nil] /\ call' = call /\ pc' = [pc EXCEPT ![t] = "return"]
  BY DEF Exit, Goto
<1>2. Inum(t) \in Inums /\ lock[Inum(t)] = t
  BY DEF LockInv, LockHeld, InCritical, Locked, Exit, Inum
<1>3. ~InCritical(t)'
  BY <1>1 DEF InCritical, Locked, Rewriting, InodeInv, Arrays
<1>4. \A u \in Threads \ {t} : InCritical(u)' <=> InCritical(u)
  BY <1>1 DEF InCritical, InodeInv, Arrays
<1>5. LockHeld'
  <2>1. \A u \in Threads \ {t} : InCritical(u) => call[u].inum \in Inums /\ lock[call[u].inum] = u
                                                   /\ call[u].inum # Inum(t)
    BY <1>2 DEF LockInv, LockHeld
  <2> QED
    BY <1>1, <1>3, <1>4, <2>1 DEF LockHeld, InodeInv, Shared
<1>6. LockReleased'
  <2>1. \A i \in Inums \ {Inum(t)} : lock[i] # t
    BY NilAssumption DEF LockInv, LockReleased, Inum
  <2> QED
    BY <1>1, <1>2, <1>4, <2>1, NilAssumption DEF LockInv, LockReleased, InodeInv, Shared
<1> QED
  BY <1>5, <1>6 DEF LockInv

LEMMA NextLockInv == InodeInv /\ LockInv /\ [Next]_vars => LockInv'
<1> SUFFICES ASSUME InodeInv, LockInv, [Next]_vars PROVE LockInv'
  OBVIOUS
<1>1. CASE UNCHANGED vars
  BY <1>1, LockUndefined DEF vars
<1>2. ASSUME NEW t \in Threads, NEW c, NEW p \in {"a_scan", "w_enter", "r_enter", "g_get", "d_get"}, Begin(t, c, p)
      PROVE  LockInv'
  <2>1. pc' = [pc EXCEPT ![t] = p] /\ call' = [call EXCEPT ![t] = c] /\ lock' = lock
    BY <1>2 DEF Begin, Goto
  <2>2. ~InCritical(t)
    BY <1>2 DEF Begin, InCritical, Locked, Rewriting
  <2> QED
    BY <2>1, <2>2, LockOutside DEF Locked, Rewriting
<1>3. ASSUME NEW t \in Threads, Calls(t) PROVE LockInv'
  BY <1>2, <1>3 DEF Calls, CallCreate, CallPut, CallGet, CallGetattr, CallRemove
<1>4. ASSUME NEW t \in Threads, Return(t) PROVE LockInv'
  <2>1. pc' = [pc EXCEPT ![t] = "idle"] /\ call' = [call EXCEPT ![t] = Nil] /\ lock' = lock
    BY <1>4 DEF Return, Goto
  <2>2. ~InCritical(t)
    BY <1>4 DEF Return, InCritical, Locked, Rewriting
  <2> QED
    BY <2>1, <2>2, LockOutside DEF Locked, Rewriting
<1>5. ASSUME NEW t \in Threads, Inside(t) PROVE LockInv'
  <2>1. LocalOK(pc[t], loc[t], call[t])
    BY LocalFact
  <2>2. CASE Enter(t) \/ Exit(t)
    BY <2>2, EnterLocks, ExitLocks
  <2>3. CASE AllocInode(t)
    <3>1. \E p \in {"p_read", "a_scan"} : \E l : Goto(t, p, l)
      BY <2>3 DEF AllocInode
    <3>2. call[t].op = "create"
      BY <2>1, <2>3 DEF AllocInode, LocalOK
    <3> QED
      BY <2>3, <3>1, <3>2, LockKept DEF AllocInode, Locked, Rewriting, InCritical
  <2>4. CASE PutRead(t)
    <3>1. \E l : Goto(t, "p_write", l)
      BY <2>4 DEF PutRead
    <3> QED
      BY <2>4, <3>1, LockKept DEF PutRead, Locked, Rewriting, InCritical
  <2>5. CASE PutWrite(t)
    <3>1. \/ call[t].op = "get" /\ \E l : Goto(t, "r_ptrs", l)
          \/ call[t].op = "put" /\ Goto(t, "exit", NoLocals)
          \/ call[t].op \notin {"put", "get"} /\ Goto(t, "return", NoLocals)
      BY <2>5 DEF PutWrite
    <3>2. UNCHANGED <<lock, call>> /\ pc[t] = "p_write"
      BY <2>5 DEF PutWrite
    <3> QED
      BY <3>1, <3>2, LockKept DEF Locked, Rewriting, InCritical
  <2>6. CASE Getattr(t) \/ RemoveGet(t) \/ RemoveFree(t)
    <3>1. \E p \in {"return", "d_free", "d_ptrs", "d_inode"} : \E l : Goto(t, p, l)
      BY <2>6 DEF Getattr, RemoveGet, RemoveFree
    <3>2. UNCHANGED <<lock, call>> /\ ~InCritical(t)
      BY <2>6 DEF Getattr, RemoveGet, RemoveFree, InCritical, Locked, Rewriting
    <3> QED
      BY <3>1, <3>2, LockKept DEF Locked, Rewriting
  <2>7. CASE RemovePointers(t) \/ FreeInode(t)
    <3>1. UNCHANGED <<lock, call>> /\ ~InCritical(t)
      BY <2>7 DEF RemovePointers, FreeInode, Undefined, InCritical, Locked, Rewriting
    <3>2. UNCHANGED pc \/ \E p \in {"d_inode", "d_ptrs", "p_read"} : \E l : Goto(t, p, l)
      BY <2>7 DEF RemovePointers, FreeInode, Undefined
    <3>3. call[t].op = "remove"
      BY <2>1, <2>7 DEF RemovePointers, FreeInode, LocalOK, Removing
    <3> QED
      BY <3>1, <3>2, <3>3, LockKept, LockUndefined DEF Locked, Rewriting
  <2>8. CASE ReadGet(t) \/ ReadPointers(t) \/ ReadLoop(t) \/ WriteGet(t) \/ WriteFree(t) \/ WriteLoop(t) \/ WriteStore(t)
             \/ WriteOld(t) \/ WriteTrim(t) \/ WritePointers(t)
    <3>1. UNCHANGED <<lock, call>> /\ pc[t] \in Locked
      BY <2>8 DEF ReadGet, ReadPointers, ReadLoop, WriteGet, WriteFree, WriteLoop, WriteStore, WriteOld, WriteTrim,
                  WritePointers, Undefined, Locked, Rewriting
    <3>2. \/ UNCHANGED pc
          \/ \E p, l : Goto(t, p, l) /\ (p \in Locked \/ (p = "p_read" /\ call[t].op = "get"))
      <4> USE DEF Locked, Rewriting
      <4>1. CASE ReadGet(t)
        <5>1. call[t].op = "get"
          BY <2>1, <4>1 DEF ReadGet, LocalOK
        <5> QED
          BY <4>1, <5>1 DEF ReadGet
      <4>2. CASE ReadPointers(t) \/ ReadLoop(t) \/ WriteGet(t) \/ WriteFree(t)
        BY <4>2 DEF ReadPointers, ReadLoop, WriteGet, WriteFree
      <4>3. CASE WriteLoop(t)
        <5>1. loc[t].remaining \in Nat /\ loc[t].done \in Nat
          BY <2>1, <4>3 DEF WriteLoop, LocalOK, WritePosition
        <5>2. \/ loc[t].remaining = 0
              \/ loc[t].remaining > 0 /\ loc[t].done < DirectBytes
              \/ loc[t].remaining > 0 /\ loc[t].done >= DirectBytes
          BY <5>1, Bytes
        <5> QED
          BY <4>3, <5>2 DEF WriteLoop
      <4>4. CASE WriteStore(t) \/ WriteOld(t) \/ WriteTrim(t) \/ WritePointers(t)
        BY <4>4 DEF WriteStore, WriteOld, WriteTrim, WritePointers, Undefined
      <4> QED
        BY <2>8, <4>1, <4>2, <4>3, <4>4
    <3>3. InCritical(t)
      BY <3>1 DEF InCritical
    <3> QED
      BY <3>1, <3>2, <3>3, LockKept, LockUndefined
  <2>9. CASE WriteFreeIndirect(t)
    <3>1. call[t].op = "put" /\ \E l : Goto(t, "p_read", l)
      BY <2>1, <2>9 DEF WriteFreeIndirect, LocalOK, Rewriting
    <3>2. UNCHANGED <<lock, call>> /\ InCritical(t)
      BY <2>9 DEF WriteFreeIndirect, InCritical, Locked, Rewriting
    <3> QED
      BY <3>1, <3>2, LockKept
  <2> QED
    BY <1>5, <2>2, <2>3, <2>4, <2>5, <2>6, <2>7, <2>8, <2>9 DEF Inside
<1> QED
  BY <1>1, <1>3, <1>4, <1>5 DEF Next, Step

(* From reader_enter or writer_enter to the matching exit a get or a put   *)
(* holds rwlocks[inum], on every path through read_file and write_file,    *)
(* their early returns included; and no path leaves the lock behind.       *)
THEOREM LocksHeld == Spec => [](LockHeld /\ LockReleased)
<1>1. Init => LockInv
  BY DEF Init, LockInv, LockHeld, LockReleased, InCritical, Locked, Rewriting
<1>2. Spec => []LockInv
  BY <1>1, InodeInvariant, NextLockInv, PTL DEF Spec
<1> QED
  BY <1>2, PTL DEF LockInv

(* Put and get of one inode exclude each other, and so do two puts and two *)
(* gets: no two threads are inside read_file or write_file with one inum.  *)
THEOREM ReadWriteExclusion ==
  Spec => [](\A t, u \in Threads : InCritical(t) /\ InCritical(u) /\ call[t].inum = call[u].inum => t = u)
<1>1. LockHeld => \A t, u \in Threads : InCritical(t) /\ InCritical(u) /\ call[t].inum = call[u].inum => t = u
  BY DEF LockHeld
<1> QED
  BY <1>1, LocksHeld, PTL
=============================================================================

------------------------------ MODULE FileProofs ------------------------------
(***************************************************************************)
(* The files of the inode layer for any number of files, of clients and of *)
(* blocks, as long as the disk does not fill up and the calls are those of *)
(* Workload: a block belongs to one place of one file, none is lost, every *)
(* file can be read back.                                                  *)
(***************************************************************************)
EXTENDS Workload, InodeLayerProofs

(* alloc_block finds a block.                                              *)
HasRoom == Free # {}

(* The workload allows only calls that may run beside each other; a step   *)
(* starts no other call.                                                   *)
Served == \A c, files, others : Allowed(c, files, others) => ApartWorkload(c, files, others)
Apart == \A t \in Threads : pc[t] = "idle" /\ pc'[t] # "idle" => ApartWorkload(call'[t], contents, Running(t))

(* hold[i][k] is the block that position k of inode i owns, 0 if none;     *)
(* position MAXFILE is the indirect block.  In a set u of blocks in use    *)
(* every one has one owner.                                                *)
Places == 0..MAXFILE
Owns(u, hold) ==
  /\ hold \in [Inums -> [Places -> DataBlocks \cup {0}]]
  /\ \A b \in DataBlocks : b \in u <=> \E i \in Inums : \E k \in Places : hold[i][k] = b
  /\ \A i, j \in Inums : \A k, m \in Places : hold[i][k] = hold[j][m] /\ hold[i][k] # 0 => i = j /\ k = m

(* On disk d the n first blocks hold the file f; block b holds pointers to *)
(* those of them that are not direct, and after these words that were      *)
(* never stored.                                                           *)
DataOn(d, h, f, n) == \A k \in 0..(MAXFILE - 1) : k < n => h[k] # 0 /\ d[h[k]] = Data(f, k)
PointersOn(d, b, h, n) ==
  /\ b # 0 /\ d[b].tag = "pointers"
  /\ \A x \in 0..(NINDIRECT - 1) : d[b].ids[x] = IF NDIRECT + x < n THEN h[NDIRECT + x] ELSE Wild

(* The direct pointers and the indirect one, all of them, are what is      *)
(* owned.                                                                  *)
Pointed(h, ino) == /\ \A k \in 0..(NDIRECT - 1) : ino.blocks[k] = h[k]
                   /\ ino.blocks[NDIRECT] = h[MAXFILE]

(* The inode's blocks are those of a file of n blocks.                     *)
Exactly(h, n) == \A k \in Places : h[k] # 0 <=> k < n \/ (k = MAXFILE /\ n > NDIRECT)

Laid(d, h, ino, f) ==
  LET n == Blocks(Size(f))
  IN /\ ino.size = Size(f)
     /\ Pointed(h, ino)
     /\ Exactly(h, n)
     /\ n > NDIRECT => PointersOn(d, h[MAXFILE], h, n)
     /\ DataOn(d, h, f, n)

Nothing(h) == \A k \in Places : h[k] = 0
FileOK(d, h, ino, rec) == IF ino = Nil THEN Nothing(h) ELSE Laid(d, h, ino, rec.file)

(* A thread changes inode i, so that its file is not whole.                *)
Changing(p, c, i) ==
  /\ c # Nil /\ c.inum = i
  /\ \/ p \in Rewriting \cup (Removing \ {"d_get"})
     \/ p \in {"p_read", "p_write"} /\ c.op \in {"put", "remove"}

(* Until its new indirect block is written a file keeps its old one, with  *)
(* the pointers to all its old blocks, or has none.                        *)
OldTail(d, h, l) ==
  LET old == Blocks(l.ino.size)
  IN /\ l.ino.blocks[NDIRECT] = h[MAXFILE]
     /\ h[MAXFILE] # 0 <=> old > NDIRECT \/ l.made
     /\ old > NDIRECT => PointersOn(d, h[MAXFILE], h, old)

(* While the direct blocks are freed, the ones before l.index are gone.    *)
Freeing(d, h, l) ==
  /\ \A k \in 0..(NDIRECT - 1) : /\ h[k] = IF k < l.index THEN 0 ELSE l.ino.blocks[k]
                                 /\ l.ino.blocks[k] # 0 => k < Blocks(l.ino.size)
  /\ \A k \in NDIRECT..(MAXFILE - 1) : h[k] # 0 <=> k < Blocks(l.ino.size)
  /\ l.made = FALSE /\ OldTail(d, h, l)

(* In write_file's loop: m of the new blocks are owned, n are written.     *)
(* Direct blocks come after the old ones were freed; the others are added  *)
(* to the old ones.                                                        *)
Written(d, h, l, f, m, n) ==
  LET old == Blocks(l.ino.size)
  IN /\ \A k \in 0..(NDIRECT - 1) :
          IF k < m THEN h[k] # 0 /\ l.ino.blocks[k] = h[k]
          ELSE h[k] = 0 /\ (l.ino.blocks[k] # 0 => k < old)
     /\ \A k \in NDIRECT..(MAXFILE - 1) : h[k] # 0 <=> k < old \/ k < m
     /\ \A x \in 0..(NINDIRECT - 1) : l.final[x] = IF NDIRECT + x < m THEN h[NDIRECT + x] ELSE Wild
     /\ OldTail(d, h, l)
     /\ DataOn(d, h, f, n)

(* Its flags, with n blocks to be written in all.                          *)
Flags(l, n) ==
  /\ l.over \in BOOLEAN /\ l.made \in BOOLEAN
  /\ l.made => l.over /\ Blocks(l.ino.size) <= NDIRECT
  /\ l.over /\ Blocks(l.ino.size) <= NDIRECT => l.made
  /\ l.over => n > NDIRECT
LoopDone(l, n) ==
  /\ l.index = n
  /\ n > NDIRECT => l.over /\ l.indirect = n - NDIRECT

(* After the loop the old blocks past the new end are given up one by one. *)
Trimmed(h, l, size) ==
  LET n == Blocks(size)
      old == Blocks(l.ino.size)
      next == NDIRECT + l.indirect
  IN /\ \A k \in 0..(NDIRECT - 1) :
          IF k < n THEN h[k] # 0 /\ l.ino.blocks[k] = h[k] ELSE h[k] = 0 /\ l.ino.blocks[k] = 0
     /\ \A k \in NDIRECT..(MAXFILE - 1) :
          h[k] # 0 <=> k < n \/ (l.remaining > 0 /\ next <= k /\ k < old)
     /\ \A x \in 0..(NINDIRECT - 1) : l.final[x] = IF NDIRECT + x < n THEN h[NDIRECT + x] ELSE Wild
     /\ l.ino.blocks[NDIRECT] = h[MAXFILE] /\ (h[MAXFILE] # 0 <=> n > NDIRECT)
     /\ l.remaining \in Int /\ (l.over <=> n > NDIRECT)
     /\ l.remaining > 0 =>
          /\ n > NDIRECT /\ l.indirect \in Nat /\ n <= next
          /\ size < l.ino.size
          /\ l.remaining = l.ino.size - size - (next - n) * BLOCK_SIZE
          /\ \A x \in 0..(NINDIRECT - 1) :
               next <= NDIRECT + x /\ NDIRECT + x < old => l.ptr[x] = h[NDIRECT + x]

(* What a thread at label p knows of the blocks of its inode.              *)
PutInumOf(l, c) == IF c.op = "create" THEN l.index ELSE c.inum
Phase(p, l, c, hold, d, tab) ==
  LET i == c.inum
      h == hold[c.inum]
      size == Size(c.file)
  IN /\ p = "a_scan" => \E x \in Inums : x >= l.index /\ tab[x] = Nil
     /\ p \in {"a_scan", "p_read", "p_write"} /\ c.op = "create" => c.file = EmptyFile
     /\ p \in {"p_read", "p_write"} =>
          /\ c.op = "create" => tab[l.index] = Nil /\ l.ino = FreshInode(c.type)
          /\ c.op = "put" => /\ tab[i] # Nil /\ l.ino.type = tab[i].type
                             /\ Laid(d, h, l.ino, c.file)
          /\ c.op = "get" => tab[i] # Nil /\ l.ino = tab[i]
          /\ c.op = "remove" => Nothing(h)
     /\ p = "p_write" => /\ DOMAIN l.table = Neighbours(PutInumOf(l, c))
                         /\ \A j \in DOMAIN l.table : j # PutInumOf(l, c) => l.table[j] = tab[j]
     /\ p \in {"w_enter", "w_get", "r_enter"} => i \in Inums
     /\ p \in {"w_enter", "w_get"} /\ tab[i] # Nil => SupportedResize(tab[i].size, size)
     /\ p \in Rewriting =>
          /\ tab[i] # Nil /\ l.ino.size = tab[i].size /\ l.ino.type = tab[i].type
          /\ SupportedResize(l.ino.size, size)
     /\ p \in {"w_free", "d_free"} => l.ino = tab[i] /\ Freeing(d, h, l)
     /\ p \in {"w_loop", "w_store"} => Flags(l, Blocks(size))
     /\ p = "w_loop" => /\ Written(d, h, l, c.file, l.index, l.index)
                        /\ l.remaining = 0 => LoopDone(l, Blocks(size))
     /\ p = "w_store" => /\ Written(d, h, l, c.file, l.index + 1, l.index)
                         /\ l.target = h[l.index]
     /\ p = "w_old" => /\ Written(d, h, l, c.file, Blocks(size), Blocks(size))
                       /\ Flags(l, Blocks(size)) /\ LoopDone(l, Blocks(size))
     /\ p \in {"w_trim", "w_ptrs"} => Trimmed(h, l, size) /\ DataOn(d, h, c.file, Blocks(size))
     /\ p = "w_ptrs" => l.remaining <= 0
     /\ p = "w_free8" => Laid(d, h, [l.ino EXCEPT !.size = size], c.file)
     /\ p = "d_get" => l = NoLocals /\ (i \in Inums /\ tab[i] # Nil => SupportedRemove(tab[i].size))
     /\ p \in {"d_free", "d_ptrs"} => tab[i] # Nil /\ l.ino = tab[i] /\ SupportedRemove(l.ino.size)
     /\ p = "d_free" => l.index \in Nat /\ l.indirect = 0
     /\ p = "d_ptrs" =>
          /\ l.indirect \in Nat /\ l.indirect <= Blocks(l.ino.size) - NDIRECT
          /\ Blocks(l.ino.size) > NDIRECT
          /\ \A k \in 0..(NDIRECT - 1) : h[k] = 0
          /\ \A k \in NDIRECT..(MAXFILE - 1) :
               h[k] # 0 <=> NDIRECT + l.indirect <= k /\ k < Blocks(l.ino.size)
          /\ \A x \in 0..(NINDIRECT - 1) :
               l.indirect <= x /\ NDIRECT + x < Blocks(l.ino.size) => l.ptr[x] = h[NDIRECT + x]
          /\ l.ino.blocks[NDIRECT] = h[MAXFILE] /\ h[MAXFILE] # 0
     /\ p = "d_inode" => tab[i] # Nil /\ Nothing(h)

(* The history and the inode table agree at all times.                     *)
Matches(tab, con) ==
  \A i \in Inums : IF con[i] = Nil THEN tab[i] = Nil
                   ELSE tab[i] # Nil /\ tab[i].type = con[i].type /\ tab[i].size = Size(con[i].file)

Whole(hold) ==
  \A i \in Inums : (\A t \in Threads : ~Changing(pc[t], call[t], i))
                     => FileOK(disk, hold[i], itable[i], contents[i])
Phases(hold) ==
  \A t \in Threads : pc[t] # "idle" => Phase(pc[t], loc[t], call[t], hold, disk, itable)
Beside == \A t, u \in Threads : t # u /\ pc[t] # "idle" /\ pc[u] # "idle" => Compatible(call[t], call[u])

FilesFor(hold) ==
  /\ undefined = FALSE /\ Matches(itable, contents) /\ Beside
  /\ Owns(used, hold) /\ Whole(hold) /\ Phases(hold)
FilesInv == \E hold : FilesFor(hold)
-----------------------------------------------------------------------------
(* Ownership.                                                              *)

LEMMA NoBlockZero == 0 \notin DataBlocks /\ DataBlocks \subseteq Nat
<1>1. nblocks \div BPB \in Nat /\ (INODE_NUM - 1) \div IPB \in Nat
  BY LayoutAssumption DEF nblocks
<1>2. first_data_block \in Nat \ {0}
  BY <1>1 DEF first_data_block, IBLOCK
<1> QED
  BY <1>2 DEF DataBlocks

LEMMA GiveBlock ==
  ASSUME NEW u, NEW hold, Owns(u, hold), NEW i \in Inums, NEW k \in Places, hold[i][k] = 0,
         NEW b \in DataBlocks, b \notin u
  PROVE  Owns(u \cup {b}, [hold EXCEPT ![i] = [hold[i] EXCEPT ![k] = b]])
<1> DEFINE g == [hold EXCEPT ![i] = [hold[i] EXCEPT ![k] = b]]
<1>1. hold \in [Inums -> [Places -> DataBlocks \cup {0}]]
  BY DEF Owns
<1>2. /\ g \in [Inums -> [Places -> DataBlocks \cup {0}]]
      /\ g[i][k] = b
      /\ \A j \in Inums : \A m \in Places : j # i \/ m # k => g[j][m] = hold[j][m]
  BY <1>1
<1>3. \A j \in Inums : \A m \in Places : hold[j][m] # b
  BY DEF Owns
<1> HIDE DEF g
<1>4. \A c \in DataBlocks : c \in u \cup {b} <=> \E j \in Inums : \E m \in Places : g[j][m] = c
  <2> TAKE c \in DataBlocks
  <2>1. CASE c = b
    BY <1>2, <2>1
  <2>2. CASE c # b
    <3>1. c \in u <=> \E j \in Inums : \E m \in Places : hold[j][m] = c
      BY DEF Owns
    <3>2. c # 0
      BY NoBlockZero
    <3>3. \A j \in Inums : \A m \in Places : g[j][m] = c <=> hold[j][m] = c
      BY <1>2, <2>2, <3>2
    <3> QED
      BY <2>2, <3>1, <3>3
  <2> QED
    BY <2>1, <2>2
<1>5. ASSUME NEW j1 \in Inums, NEW j2 \in Inums, NEW m1 \in Places, NEW m2 \in Places,
             g[j1][m1] = g[j2][m2], g[j1][m1] # 0
      PROVE  j1 = j2 /\ m1 = m2
  <2>1. CASE j1 = i /\ m1 = k
    BY <1>2, <1>3, <1>5, <2>1
  <2>2. CASE j2 = i /\ m2 = k
    BY <1>2, <1>3, <1>5, <2>2
  <2>3. CASE ~(j1 = i /\ m1 = k) /\ ~(j2 = i /\ m2 = k)
    BY <1>2, <1>5, <2>3 DEF Owns
  <2> QED
    BY <2>1, <2>2, <2>3
<1>6. Owns(u \cup {b}, g)
  BY <1>2, <1>4, <1>5 DEF Owns
<1> QED
  BY <1>6 DEF g

LEMMA DropBlock ==
  ASSUME NEW u, u \subseteq DataBlocks, NEW hold, Owns(u, hold), NEW i \in Inums, NEW k \in Places
  PROVE  Owns(u \ {hold[i][k]}, [hold EXCEPT ![i] = [hold[i] EXCEPT ![k] = 0]])
<1> DEFINE g == [hold EXCEPT ![i] = [hold[i] EXCEPT ![k] = 0]]
           b == hold[i][k]
<1>1. hold \in [Inums -> [Places -> DataBlocks \cup {0}]]
  BY DEF Owns
<1>2. /\ g \in [Inums -> [Places -> DataBlocks \cup {0}]]
      /\ g[i][k] = 0
      /\ \A j \in Inums : \A m \in Places : j # i \/ m # k => g[j][m] = hold[j][m]
  BY <1>1
<1>3. \A j1, j2 \in Inums : \A m1, m2 \in Places :
        hold[j1][m1] = hold[j2][m2] /\ hold[j1][m1] # 0 => j1 = j2 /\ m1 = m2
  BY DEF Owns
<1> HIDE DEF g, b
<1>4. \A c \in DataBlocks : c \in u \ {b} <=> \E j \in Inums : \E m \in Places : g[j][m] = c
  <2> TAKE c \in DataBlocks
  <2>1. c \in u <=> \E j \in Inums : \E m \in Places : hold[j][m] = c
    BY DEF Owns
  <2>2. c # 0
    BY NoBlockZero
  <2>3. CASE c = b
    <3>1. \A j \in Inums : \A m \in Places : hold[j][m] = c => j = i /\ m = k
      BY <1>3, <2>2, <2>3 DEF b
    <3>2. \A j \in Inums : \A m \in Places : g[j][m] # c
      BY <1>2, <2>2, <3>1
    <3> QED
      BY <2>3, <3>2
  <2>4. CASE c # b
    <3>1. \A j \in Inums : \A m \in Places : g[j][m] = c <=> hold[j][m] = c
      BY <1>2, <2>2, <2>4 DEF b
    <3> QED
      BY <2>1, <2>4, <3>1
  <2> QED
    BY <2>3, <2>4
<1>5. ASSUME NEW j1 \in Inums, NEW j2 \in Inums, NEW m1 \in Places, NEW m2 \in Places,
             g[j1][m1] = g[j2][m2], g[j1][m1] # 0
      PROVE  j1 = j2 /\ m1 = m2
  <2>1. ~(j1 = i /\ m1 = k) /\ ~(j2 = i /\ m2 = k)
    BY <1>2, <1>5
  <2> QED
    BY <1>2, <1>3, <1>5, <2>1
<1>6. Owns(u \ {b}, g)
  BY <1>2, <1>4, <1>5 DEF Owns
<1> QED
  BY <1>6 DEF g, b

-----------------------------------------------------------------------------
(* What a step leaves as it is.  Disk e has what disk d has in the blocks  *)
(* that h owns.                                                            *)
Agree(d, e, h) == \A k \in Places : h[k] # 0 => e[h[k]] = d[h[k]]

LEMMA InPlaces ==
  /\ MAXFILE \in Places /\ 0..(MAXFILE - 1) \subseteq Places
  /\ 0..(NDIRECT - 1) \subseteq 0..(MAXFILE - 1) /\ NDIRECT..(MAXFILE - 1) \subseteq 0..(MAXFILE - 1)
  /\ NDIRECT \in 0..(MAXFILE - 1)
  /\ \A x \in 0..(NINDIRECT - 1) : NDIRECT + x \in NDIRECT..(MAXFILE - 1)
  BY Bytes DEF Places, MAXFILE

LEMMA DataKept ==
  ASSUME NEW d, NEW e, NEW h, Agree(d, e, h), NEW f, NEW n, DataOn(d, h, f, n) PROVE DataOn(e, h, f, n)
  BY InPlaces DEF Agree, DataOn

LEMMA PointersKept ==
  ASSUME NEW d, NEW e, NEW h, Agree(d, e, h), NEW n, PointersOn(d, h[MAXFILE], h, n)
  PROVE  PointersOn(e, h[MAXFILE], h, n)
  BY InPlaces DEF Agree, PointersOn

LEMMA LaidKept ==
  ASSUME NEW d, NEW e, NEW h, Agree(d, e, h), NEW ino, NEW f, Laid(d, h, ino, f) PROVE Laid(e, h, ino, f)
  BY DataKept, PointersKept DEF Laid

LEMMA FileKept ==
  ASSUME NEW d, NEW e, NEW h, Agree(d, e, h), NEW ino, NEW rec, FileOK(d, h, ino, rec)
  PROVE  FileOK(e, h, ino, rec)
  BY LaidKept DEF FileOK

LEMMA OldTailKept ==
  ASSUME NEW d, NEW e, NEW h, Agree(d, e, h), NEW l, OldTail(d, h, l) PROVE OldTail(e, h, l)
  BY PointersKept DEF OldTail

LEMMA WrittenKept ==
  ASSUME NEW d, NEW e, NEW h, Agree(d, e, h), NEW l, NEW f, NEW m, NEW n, Written(d, h, l, f, m, n)
  PROVE  Written(e, h, l, f, m, n)
<1>1. OldTail(e, h, l) /\ DataOn(e, h, f, n)
  BY OldTailKept, DataKept DEF Written
<1> QED
  BY <1>1 DEF Written
(* The labels at which a thread knows something of the blocks of its inode.*)
Heeding == Rewriting \cup {"p_read", "p_write", "d_free", "d_ptrs", "d_inode"}

LEMMA PhaseKept ==
  ASSUME NEW p, NEW l, NEW c, NEW hold, NEW d, NEW tab, Phase(p, l, c, hold, d, tab),
         NEW held, NEW e,
         \/ p \notin Heeding
         \/ p \in {"p_read", "p_write"} /\ c.op \in {"create", "get"}
         \/ held[c.inum] = hold[c.inum] /\ Agree(d, e, hold[c.inum])
  PROVE  Phase(p, l, c, held, e, tab)
<1>1. CASE p \notin Heeding
  BY <1>1 DEF Phase, Heeding, Rewriting
<1>2. CASE p \in {"p_read", "p_write"} /\ c.op \in {"create", "get"}
  BY <1>2 DEF Phase, Rewriting
<1>3. CASE held[c.inum] = hold[c.inum] /\ Agree(d, e, hold[c.inum])
  <2> DEFINE h == hold[c.inum]
  <2>1. \A ino, f : Laid(d, h, ino, f) => Laid(e, h, ino, f)
    BY <1>3, LaidKept
  <2>2. Freeing(d, h, l) => Freeing(e, h, l)
    BY <1>3, OldTailKept DEF Freeing
  <2>3. \A f, m, n : Written(d, h, l, f, m, n) => Written(e, h, l, f, m, n)
    BY <1>3, WrittenKept
  <2>4. \A f, n : DataOn(d, h, f, n) => DataOn(e, h, f, n)
    BY <1>3, DataKept
  <2> QED
    BY <1>3, <2>1, <2>2, <2>3, <2>4 DEF Phase
<1> QED
  BY <1>1, <1>2, <1>3

(* The label tells the call.                                               *)
LEMMA LabelOp ==
  ASSUME NEW p, NEW l, NEW c, LocalOK(p, l, c), p # "idle"
  PROVE  /\ c \in Requests /\ c # Nil
         /\ c.op = "getattr" => p \notin Rewriting \cup Removing \cup {"p_read", "p_write"} \cup Locked
                                /\ p \notin {"w_enter", "r_enter", "a_scan"}
         /\ c.op = "create" => p \notin Rewriting \cup Removing \cup Locked \cup {"w_enter", "r_enter"}
         /\ c.op \in {"put", "get"} => p \notin Removing \cup {"a_scan"}
         /\ c.op = "remove" => p \notin Rewriting \cup Locked \cup {"w_enter", "r_enter", "a_scan"}
<1>1. c \in Requests
  BY DEF LocalOK
<1> QED
  BY <1>1, NilAssumption DEF LocalOK, Rewriting, Removing, Locked

(* A thread that is changing an inode is alone in it: whoever else has     *)
(* called for it waits for the lock or is done.                            *)
LEMMA AloneInside ==
  ASSUME InodeInv, LockInv, Beside, NEW t \in Threads, NEW u \in Threads, t # u,
         NEW i \in Inums, Changing(pc[t], call[t], i), pc[u] # "idle", call[u].inum = i
  PROVE  pc[u] \notin Rewriting \cup Removing \cup {"p_read", "p_write"} \cup Locked /\ pc[u] # "a_scan"
<1>1. LocalOK(pc[t], loc[t], call[t]) /\ LocalOK(pc[u], loc[u], call[u])
  BY LocalFact
<1>2. pc[t] # "idle" /\ call[t].inum = i /\ call[t].op \in {"put", "remove"}
  BY <1>1 DEF Changing, LocalOK, Rewriting, Removing
<1>3. Compatible(call[t], call[u])
  BY <1>2 DEF Beside
<1>4. call[u].op \in {"create", "put", "get", "getattr", "remove"}
  BY <1>1, LabelOp DEF Requests
<1>5. CASE call[u].op = "getattr"
  BY <1>1, <1>5, LabelOp
<1>6. CASE call[u].op # "getattr"
  <2>1. call[t].op = "put" /\ call[u].op \in {"put", "get"}
    BY <1>2, <1>3, <1>4, <1>6 DEF Compatible
  <2>2. InCritical(t)
    BY <1>1, <1>2, <2>1, LabelOp DEF Changing, InCritical, Locked
  <2>3. ~InCritical(u)
    BY <1>2, <2>2 DEF LockInv, LockHeld
  <2>4. pc[u] \notin Removing \cup {"a_scan"}
    BY <1>1, <2>1, LabelOp
  <2>5. pc[u] \notin Locked \cup {"p_read", "p_write"}
    BY <2>1, <2>3 DEF InCritical
  <2> QED
    BY <2>4, <2>5 DEF Locked
<1> QED
  BY <1>5, <1>6
-----------------------------------------------------------------------------
(* Steps.  One that changes nothing but the thread's own state.            *)
LEMMA OwnStep ==
  ASSUME InodeInv, NEW hold, FilesFor(hold), NEW t \in Threads, pc[t] # "idle",
         NEW p, p # "idle", NEW l, Goto(t, p, l),
         UNCHANGED <<used, disk, itable, call, contents, undefined>>,
         \A i \in Inums : Changing(pc[t], call[t], i) => Changing(p, call[t], i),
         Phase(p, l, call[t], hold, disk, itable)
  PROVE  FilesFor(hold)'
<1>1. /\ pc'[t] = p /\ loc'[t] = l
      /\ \A u \in Threads \ {t} : pc'[u] = pc[u] /\ loc'[u] = loc[u]
  BY DEF Goto, InodeInv, Arrays
<1>2. undefined' = FALSE /\ Matches(itable, contents)' /\ Owns(used, hold)'
  BY DEF FilesFor
<1>3. Beside'
  BY <1>1 DEF FilesFor, Beside
<1>4. Whole(hold)'
  <2> SUFFICES ASSUME NEW i \in Inums, \A u \in Threads : ~Changing(pc'[u], call'[u], i)
               PROVE  FileOK(disk', hold[i], itable'[i], contents'[i])
    BY DEF Whole
  <2>1. \A u \in Threads : ~Changing(pc[u], call[u], i)
    BY <1>1
  <2> QED
    BY <2>1 DEF FilesFor, Whole
<1>5. Phases(hold)'
  BY <1>1 DEF FilesFor, Phases
<1> QED
  BY <1>2, <1>3, <1>4, <1>5 DEF FilesFor

(* One that changes the blocks of the inode the thread is changing.        *)
LEMMA BlockStep ==
  ASSUME InodeInv, LockInv, NEW hold, FilesFor(hold), NEW t \in Threads,
         NEW i \in Inums, Changing(pc[t], call[t], i),
         NEW p, NEW l, Goto(t, p, l), Changing(p, call[t], i), p # "idle",
         NEW g, NEW held, held = [hold EXCEPT ![i] = g], Owns(used', held),
         UNCHANGED <<itable, call, contents, undefined>>,
         \A j \in Inums \ {i} : Agree(disk, disk', hold[j]),
         Phase(p, l, call[t], held, disk', itable)
  PROVE  FilesFor(held)'
<1>1. /\ pc'[t] = p /\ loc'[t] = l
      /\ \A u \in Threads \ {t} : pc'[u] = pc[u] /\ loc'[u] = loc[u]
  BY DEF Goto, InodeInv, Arrays
<1>2. LocalOK(pc[t], loc[t], call[t]) /\ pc[t] # "idle" /\ call[t].inum = i
  BY LocalFact DEF Changing, Rewriting, Removing
<1>3. \A j \in Inums \ {i} : held[j] = hold[j]
  BY DEF FilesFor, Owns
<1>4. undefined' = FALSE /\ Matches(itable, contents)' /\ Owns(used, held)'
  BY DEF FilesFor
<1>5. Beside'
  BY <1>1, <1>2 DEF FilesFor, Beside
<1>6. Whole(held)'
  <2> SUFFICES ASSUME NEW j \in Inums, \A u \in Threads : ~Changing(pc'[u], call'[u], j)
               PROVE  FileOK(disk', held[j], itable'[j], contents'[j])
    BY DEF Whole
  <2>1. j # i
    BY <1>1
  <2>2. ~Changing(pc[t], call[t], j)
    BY <1>2, <2>1 DEF Changing
  <2>3. \A u \in Threads : ~Changing(pc[u], call[u], j)
    BY <1>1, <2>2
  <2>4. FileOK(disk, hold[j], itable[j], contents[j])
    BY <2>3 DEF FilesFor, Whole
  <2> QED
    BY <1>3, <2>1, <2>4, FileKept
<1>7. Phases(held)'
  <2> SUFFICES ASSUME NEW u \in Threads, pc'[u] # "idle"
               PROVE  Phase(pc'[u], loc'[u], call'[u], held, disk', itable')
    BY DEF Phases
  <2>1. CASE u = t
    BY <1>1, <2>1
  <2>2. CASE u # t
    <3>1. Phase(pc[u], loc[u], call[u], hold, disk, itable) /\ pc[u] # "idle"
      BY <1>1, <2>2 DEF FilesFor, Phases
    <3>2. LocalOK(pc[u], loc[u], call[u])
      BY LocalFact
    <3>3. CASE call[u].inum = i
      <4>1. pc[u] \notin Heeding
        BY <2>2, <3>1, <3>3, AloneInside DEF FilesFor, Heeding, Removing
      <4> QED
        BY <1>1, <2>2, <3>1, <4>1, PhaseKept
    <3>4. CASE call[u].inum \in Inums \ {i}
      <4>1. held[call[u].inum] = hold[call[u].inum] /\ Agree(disk, disk', hold[call[u].inum])
        BY <1>3, <3>4
      <4> QED
        BY <1>1, <2>2, <3>1, <4>1, PhaseKept
    <3>5. CASE call[u].inum \notin Inums
      <4>1. pc[u] \notin Heeding \/ (pc[u] \in {"p_read", "p_write"} /\ call[u].op \in {"create", "get"})
        BY <3>2, <3>5 DEF LocalOK, Heeding, Rewriting, Removing
      <4> QED
        BY <1>1, <2>2, <3>1, <4>1, PhaseKept
    <3> QED
      BY <3>3, <3>4, <3>5
  <2> QED
    BY <2>1, <2>2
<1> QED
  BY <1>4, <1>5, <1>6, <1>7 DEF FilesFor

(* At these labels a thread knows nothing of the blocks of its inode.      *)
LEMMA NoPhase ==
  ASSUME NEW p \in {"r_get", "r_ptrs", "r_loop", "exit", "return", "g_get"},
         NEW l, NEW c, NEW hold, NEW d, NEW tab
  PROVE  Phase(p, l, c, hold, d, tab)
  BY DEF Phase, Rewriting

LEMMA PhaseFact ==
  ASSUME NEW hold, FilesFor(hold), NEW t \in Threads, pc[t] # "idle"
  PROVE  Phase(pc[t], loc[t], call[t], hold, disk, itable)
  BY DEF FilesFor, Phases

(* A thread that is not changing an inode, going on to such a label.       *)
LEMMA PlainStep ==
  ASSUME InodeInv, NEW hold, FilesFor(hold), NEW t \in Threads, pc[t] # "idle",
         \A i \in Inums : ~Changing(pc[t], call[t], i),
         NEW p \in {"r_get", "r_ptrs", "r_loop", "exit", "return"}, NEW l, Goto(t, p, l),
         UNCHANGED <<used, disk, itable, call, contents, undefined>>
  PROVE  FilesFor(hold)'
<1>1. Phase(p, l, call[t], hold, disk, itable) /\ p # "idle"
  BY NoPhase
<1> QED
  BY <1>1, OwnStep

LEMMA ReadFiles ==
  ASSUME InodeInv, NEW hold, FilesFor(hold), NEW t \in Threads,
         Exit(t) \/ Getattr(t) \/ ReadPointers(t) \/ ReadLoop(t)
  PROVE  FilesFor(hold)'
<1>1. pc[t] \in {"exit", "g_get", "r_ptrs", "r_loop"}
  BY DEF Exit, Getattr, ReadPointers, ReadLoop
<1>2. pc[t] # "idle" /\ \A i \in Inums : ~Changing(pc[t], call[t], i)
  BY <1>1 DEF Changing, Rewriting, Removing
<1>3. UNCHANGED <<used, disk, itable, call, contents, undefined>>
  BY DEF Exit, Getattr, ReadPointers, ReadLoop
<1>4. \E p \in {"exit", "return", "r_loop"} : \E l : Goto(t, p, l)
  <2>1. CASE Exit(t)
    BY <2>1 DEF Exit
  <2>2. CASE Getattr(t)
    BY <2>2 DEF Getattr
  <2>3. CASE ReadPointers(t)
    BY <2>3 DEF ReadPointers
  <2>4. CASE ReadLoop(t)
    BY <2>4 DEF ReadLoop
  <2> QED
    BY <2>1, <2>2, <2>3, <2>4
<1> QED
  BY <1>2, <1>3, <1>4, PlainStep

LEMMA ReadGetFiles ==
  ASSUME InodeInv, NEW hold, FilesFor(hold), NEW t \in Threads, ReadGet(t) PROVE FilesFor(hold)'
<1> DEFINE l == loc[t]
           c == call[t]
           ino == GetInode(Inum(t))
<1>1. /\ pc[t] = "r_get" /\ UNCHANGED <<used, disk, itable, call, contents, undefined>>
      /\ \A i \in Inums : ~Changing(pc[t], call[t], i)
  BY DEF ReadGet, Changing, Rewriting, Removing
<1>2. LocalOK("r_get", l, c)
  BY <1>1, LocalFact
<1>3. c.op = "get" /\ Shape(l)
  BY <1>2 DEF LocalOK
<1>4. CASE ino = Nil
  <2>1. Goto(t, "exit", NoLocals)
    BY <1>4 DEF ReadGet
  <2> QED
    BY <1>1, <2>1, PlainStep
<1>5. CASE ino # Nil
  <2> DEFINE n == [l EXCEPT !.ino = ino]
  <2>1. Goto(t, "p_read", n)
    BY <1>5 DEF ReadGet
  <2>2. n.ino = itable[c.inum] /\ itable[c.inum] # Nil
    BY <1>3, <1>5 DEF GetInode, Inum, Shape
  <2> HIDE DEF n
  <2>3. Phase("p_read", n, c, hold, disk, itable)
    BY <1>3, <2>2 DEF Phase, Rewriting
  <2> QED
    BY <1>1, <2>1, <2>3, OwnStep
<1> QED
  BY <1>4, <1>5

LEMMA EnterFiles ==
  ASSUME InodeInv, NEW hold, FilesFor(hold), NEW t \in Threads, Enter(t) PROVE FilesFor(hold)'
<1>1. pc[t] \in {"w_enter", "r_enter"} /\ \A i \in Inums : ~Changing(pc[t], call[t], i)
  BY DEF Enter, Changing, Rewriting, Removing
<1>2. Phase(pc[t], loc[t], call[t], hold, disk, itable)
  BY <1>1, PhaseFact
<1>3. call[t].inum \in Inums
  BY <1>1, <1>2 DEF Phase
<1>4. UNCHANGED <<used, disk, itable, call, contents, undefined>>
  BY <1>3 DEF Enter, Inum
<1>5. CASE pc[t] = "w_enter"
  <2>1. Goto(t, "w_get", loc[t])
    BY <1>3, <1>5 DEF Enter, Inum
  <2>2. Phase("w_get", loc[t], call[t], hold, disk, itable)
    BY <1>2, <1>5 DEF Phase, Rewriting
  <2> QED
    BY <1>1, <1>4, <2>1, <2>2, OwnStep
<1>6. CASE pc[t] = "r_enter"
  <2>1. Goto(t, "r_get", loc[t])
    BY <1>3, <1>6 DEF Enter, Inum
  <2> QED
    BY <1>1, <1>4, <2>1, PlainStep
<1> QED
  BY <1>1, <1>5, <1>6

(* The scan of alloc_inode ends at a free inode: there is one ahead.       *)
LEMMA AllocInodeFiles ==
  ASSUME InodeInv, NEW hold, FilesFor(hold), NEW t \in Threads, AllocInode(t) PROVE FilesFor(hold)'
<1> DEFINE l == loc[t]
           c == call[t]
           ino == FreshInode(c.type)
<1>1. /\ pc[t] = "a_scan" /\ UNCHANGED <<used, disk, itable, call, contents, undefined>>
      /\ \A i \in Inums : ~Changing(pc[t], call[t], i)
  BY DEF AllocInode, Changing, Rewriting, Removing
<1>2. LocalOK("a_scan", l, c) /\ Phase("a_scan", l, c, hold, disk, itable)
  BY <1>1, LocalFact, PhaseFact
<1>3. Shape(l) /\ c.op = "create" /\ l.index \in 0..INODE_NUM /\ INODE_NUM \in Nat /\ c.file = EmptyFile
  BY <1>2, LayoutAssumption DEF LocalOK, Phase
<1>4. PICK x \in Inums : x >= l.index /\ itable[x] = Nil
  BY <1>2 DEF Phase
<1>5. l.index \in Inums
  BY <1>3, <1>4 DEF Inums
<1>6. l.index # INODE_NUM
  BY <1>3, <1>5 DEF Inums
<1> HIDE DEF ino
<1>7. CASE itable[l.index] = Nil
  <2> DEFINE n == [l EXCEPT !.ino = ino]
  <2>1. Goto(t, "p_read", n)
    BY <1>5, <1>6, <1>7 DEF AllocInode, GetInode, ino
  <2>2. n.ino = ino /\ n.index = l.index
    BY <1>3 DEF Shape
  <2> HIDE DEF n
  <2>3. Phase("p_read", n, c, hold, disk, itable)
    BY <1>3, <1>7, <2>2 DEF Phase, Rewriting, ino
  <2> QED
    BY <1>1, <2>1, <2>3, OwnStep
<1>8. CASE itable[l.index] # Nil
  <2> DEFINE n == [l EXCEPT !.index = @ + 1]
  <2>1. Goto(t, "a_scan", n)
    BY <1>5, <1>6, <1>8 DEF AllocInode, GetInode
  <2>2. n.index = l.index + 1
    BY <1>3 DEF Shape
  <2> HIDE DEF n
  <2>3. x >= n.index
    BY <1>3, <1>4, <1>8, <2>2 DEF Inums
  <2>4. Phase("a_scan", n, c, hold, disk, itable)
    BY <1>3, <1>4, <2>3 DEF Phase, Rewriting
  <2> QED
    BY <1>1, <2>1, <2>4, OwnStep
<1> QED
  BY <1>7, <1>8

LEMMA PutReadFiles ==
  ASSUME InodeInv, NEW hold, FilesFor(hold), NEW t \in Threads, PutRead(t) PROVE FilesFor(hold)'
<1> DEFINE l == loc[t]
           c == call[t]
           table == [j \in Neighbours(PutInum(t)) |-> itable[j]]
           n == [l EXCEPT !.table = table]
<1>1. pc[t] = "p_read" /\ UNCHANGED <<used, disk, itable, call, contents, undefined>>
  BY DEF PutRead
<1>2. LocalOK("p_read", l, c) /\ Phase("p_read", l, c, hold, disk, itable)
  BY <1>1, LocalFact, PhaseFact
<1>3. Shape(l)
  BY <1>2 DEF LocalOK
<1>4. Goto(t, "p_write", n)
  BY DEF PutRead
<1>5. /\ DOMAIN table = Neighbours(PutInumOf(l, c))
      /\ \A j \in DOMAIN table : table[j] = itable[j]
  BY DEF PutInum, PutInumOf, Inum
<1> HIDE DEF table
<1>6. n.table = table /\ n.index = l.index /\ n.ino = l.ino
  BY <1>3 DEF Shape
<1> HIDE DEF n
<1>7. Phase("p_write", n, c, hold, disk, itable)
  BY <1>2, <1>5, <1>6 DEF Phase, Rewriting, PutInumOf
<1>8. \A i \in Inums : Changing(pc[t], c, i) => Changing("p_write", c, i)
  BY <1>1 DEF Changing, Rewriting, Removing
<1> QED
  BY <1>1, <1>4, <1>7, <1>8, OwnStep
-----------------------------------------------------------------------------
(* remove_file, and write_file up to its loop.  When a thread has the      *)
(* inode to itself, the file is whole.                                     *)
LEMMA FileFound ==
  ASSUME InodeInv, LockInv, NEW hold, FilesFor(hold), NEW t \in Threads, pc[t] \in {"w_get", "d_get"},
         NEW i \in Inums, call[t].inum = i, itable[i] # Nil
  PROVE  \E f : Laid(disk, hold[i], itable[i], f)
<1>1. ~Changing(pc[t], call[t], i)
  BY DEF Changing, Rewriting, Removing
<1>2. ASSUME NEW u \in Threads, u # t PROVE ~Changing(pc[u], call[u], i)
  BY <1>2, AloneInside DEF FilesFor, Removing, Locked
<1>3. FileOK(disk, hold[i], itable[i], contents[i])
  BY <1>1, <1>2 DEF FilesFor, Whole
<1> QED
  BY <1>3 DEF FileOK

LEMMA LaidFreeing ==
  ASSUME NEW d, NEW h, NEW l, NEW f, Laid(d, h, l.ino, f), Blocks(l.ino.size) \in Nat, l.index = 0, l.made = FALSE
  PROVE  Freeing(d, h, l)
<1>1. /\ Pointed(h, l.ino) /\ Exactly(h, Blocks(l.ino.size))
      /\ Blocks(l.ino.size) > NDIRECT => PointersOn(d, h[MAXFILE], h, Blocks(l.ino.size))
  BY DEF Laid
<1> DEFINE n == Blocks(l.ino.size)
<1> HIDE DEF n
<1>2. /\ MAXFILE \in Nat /\ MAXFILE > NDIRECT /\ NDIRECT \in Nat
      /\ 0..(NDIRECT - 1) \subseteq Places /\ NDIRECT..(MAXFILE - 1) \subseteq Places /\ MAXFILE \in Places
  BY Bytes DEF MAXFILE, Places
<1>3. \A k \in 0..(NDIRECT - 1) : h[k] = l.ino.blocks[k] /\ (h[k] # 0 => k < n) /\ ~(k < l.index)
  BY <1>1, <1>2 DEF Pointed, Exactly, n
<1>4. \A k \in NDIRECT..(MAXFILE - 1) : h[k] # 0 <=> k < n
  BY <1>1, <1>2 DEF Exactly, n
<1>5. h[MAXFILE] # 0 <=> n > NDIRECT
  BY <1>1, <1>2 DEF Exactly, n
<1>6. OldTail(d, h, l)
  BY <1>1, <1>5 DEF OldTail, Pointed, n
<1> QED
  BY <1>3, <1>4, <1>6 DEF Freeing, n

(* One more of the direct blocks is freed.                                 *)
LEMMA FreeingNext ==
  ASSUME NEW d, NEW h, DOMAIN h = Places, NEW l, Freeing(d, h, l), l.index \in 0..(NDIRECT - 1),
         NEW g, g = [h EXCEPT ![l.index] = 0],
         NEW n, n.index = l.index + 1, n.ino = l.ino, n.made = l.made
  PROVE  Freeing(d, g, n)
<1>1. /\ MAXFILE \in Nat /\ MAXFILE > NDIRECT /\ NDIRECT \in Nat
      /\ 0..(NDIRECT - 1) \subseteq Places /\ NDIRECT..(MAXFILE - 1) \subseteq Places /\ MAXFILE \in Places
      /\ \A x \in 0..(NINDIRECT - 1) : NDIRECT + x \in NDIRECT..(MAXFILE - 1)
  BY Bytes DEF MAXFILE, Places
<1>2. g[l.index] = 0 /\ \A k \in Places \ {l.index} : g[k] = h[k]
  BY <1>1
<1>3. g[MAXFILE] = h[MAXFILE] /\ \A k \in NDIRECT..(MAXFILE - 1) : g[k] = h[k]
  BY <1>1, <1>2
<1>4. OldTail(d, g, n)
  BY <1>1, <1>3 DEF Freeing, OldTail, PointersOn
<1>5. ASSUME NEW k \in 0..(NDIRECT - 1) PROVE g[k] = IF k < n.index THEN 0 ELSE n.ino.blocks[k]
  <2>1. h[k] = IF k < l.index THEN 0 ELSE l.ino.blocks[k]
    BY DEF Freeing
  <2> QED
    BY <1>1, <1>2, <2>1
<1> QED
  BY <1>3, <1>4, <1>5 DEF Freeing

LEMMA HoldType ==
  ASSUME NEW hold, FilesFor(hold), NEW i \in Inums
  PROVE  /\ hold[i] \in [Places -> DataBlocks \cup {0}] /\ DOMAIN hold[i] = Places
         /\ \A k \in Places : hold[i][k] # Wild /\ hold[i][k] \in DataBlocks \cup {0}
  BY NoBlockZero DEF FilesFor, Owns, Wild

LEMMA WriteGetFiles ==
  ASSUME InodeInv, LockInv, NEW hold, FilesFor(hold), NEW t \in Threads, WriteGet(t) PROVE FilesFor(hold)'
<1> DEFINE l == loc[t]
           c == call[t]
           i == c.inum
           ino == GetInode(Inum(t))
<1>1. /\ pc[t] = "w_get" /\ UNCHANGED <<used, disk, itable, call, contents, undefined>>
      /\ \A j \in Inums : ~Changing(pc[t], call[t], j)
  BY DEF WriteGet, Changing, Rewriting, Removing
<1>2. LocalOK("w_get", l, c) /\ Phase("w_get", l, c, hold, disk, itable)
  BY <1>1, LocalFact, PhaseFact
<1>3. l = NoLocals /\ i \in Inums /\ (itable[i] # Nil => SupportedResize(itable[i].size, Size(c.file)))
  BY <1>2 DEF LocalOK, Phase
<1>4. CASE NewSize(t) > BLOCK_SIZE * MAXFILE \/ ino = Nil
  <2>1. Goto(t, "exit", NoLocals)
    BY <1>4 DEF WriteGet
  <2> QED
    BY <1>1, <2>1, PlainStep
<1>5. CASE ~(NewSize(t) > BLOCK_SIZE * MAXFILE) /\ ino # Nil
  <2> DEFINE n == [l EXCEPT !.ino = ino]
  <2>1. Goto(t, "w_free", n)
    BY <1>5 DEF WriteGet
  <2>2. n.ino = itable[i] /\ itable[i] # Nil /\ n.index = 0 /\ n.made = FALSE
    BY <1>3, <1>5 DEF GetInode, Inum, NoLocals
  <2> HIDE DEF n
  <2>3. PICK f : Laid(disk, hold[i], itable[i], f)
    BY <1>1, <1>3, <2>2, FileFound
  <2>4. Blocks(n.ino.size) \in Nat
    <3>1. n.ino.size \in Nat
      BY <1>3, <2>2, SizeType DEF InodeInv, Shared
    <3> QED
      BY <3>1, BlocksIs
  <2>5. Freeing(disk, hold[i], n)
    BY <2>2, <2>3, <2>4, LaidFreeing
  <2>6. Phase("w_free", n, c, hold, disk, itable)
    BY <1>3, <2>2, <2>5 DEF Phase, Rewriting
  <2> QED
    BY <1>1, <2>1, <2>6, OwnStep
<1> QED
  BY <1>4, <1>5

LEMMA RemoveGetFiles ==
  ASSUME InodeInv, LockInv, NEW hold, FilesFor(hold), NEW t \in Threads, RemoveGet(t) PROVE FilesFor(hold)'
<1> DEFINE l == loc[t]
           c == call[t]
           i == c.inum
           ino == GetInode(Inum(t))
<1>1. /\ pc[t] = "d_get" /\ UNCHANGED <<used, disk, itable, call, contents, undefined>>
      /\ \A j \in Inums : ~Changing(pc[t], call[t], j)
  BY DEF RemoveGet, Changing, Rewriting, Removing
<1>2. Phase("d_get", l, c, hold, disk, itable)
  BY <1>1, PhaseFact
<1>3. l = NoLocals /\ (i \in Inums /\ itable[i] # Nil => SupportedRemove(itable[i].size))
  BY <1>2 DEF Phase
<1>4. CASE ino = Nil
  <2>1. Goto(t, "return", NoLocals)
    BY <1>4 DEF RemoveGet
  <2> QED
    BY <1>1, <2>1, PlainStep
<1>5. CASE ino # Nil
  <2> DEFINE n == [l EXCEPT !.ino = ino]
  <2>1. Goto(t, "d_free", n)
    BY <1>5 DEF RemoveGet
  <2>2. /\ i \in Inums /\ n.ino = itable[i] /\ itable[i] # Nil /\ n.index = 0 /\ n.made = FALSE
        /\ n.indirect = 0
    BY <1>3, <1>5 DEF GetInode, Inum, NoLocals
  <2> HIDE DEF n
  <2>3. PICK f : Laid(disk, hold[i], itable[i], f)
    BY <1>1, <2>2, FileFound
  <2>4. Blocks(n.ino.size) \in Nat
    <3>1. n.ino.size \in Nat
      BY <1>3, <2>2, SizeType DEF InodeInv, Shared
    <3> QED
      BY <3>1, BlocksIs
  <2>5. Freeing(disk, hold[i], n)
    BY <2>2, <2>3, <2>4, LaidFreeing
  <2>6. Phase("d_free", n, c, hold, disk, itable)
    BY <1>3, <2>2, <2>5 DEF Phase, Rewriting
  <2> QED
    BY <1>1, <2>1, <2>6, OwnStep
<1> QED
  BY <1>4, <1>5
(* A step that frees the block at place k of the thread's inode.           *)
LEMMA FreeStep ==
  ASSUME InodeInv, LockInv, NEW hold, FilesFor(hold), NEW t \in Threads,
         NEW i \in Inums, Changing(pc[t], call[t], i),
         NEW p, NEW l, Goto(t, p, l), Changing(p, call[t], i), p # "idle",
         NEW k \in Places, FreeBlock(hold[i][k]),
         UNCHANGED <<disk, itable, call, contents, undefined>>,
         \A held : held[i] = [hold[i] EXCEPT ![k] = 0] => Phase(p, l, call[t], held, disk, itable)
  PROVE  FilesInv'
<1>1. PICK g : g = [hold[i] EXCEPT ![k] = 0]
  OBVIOUS
<1>2. PICK held : held = [hold EXCEPT ![i] = g]
  OBVIOUS
<1>3. Owns(used', held)
  <2>1. used \subseteq DataBlocks /\ Owns(used, hold)
    BY DEF InodeInv, Shared, FilesFor
  <2>2. used' = used \ {hold[i][k]}
    BY DEF FreeBlock
  <2> QED
    BY <1>1, <1>2, <2>1, <2>2, DropBlock
<1>4. held[i] = g
  BY <1>2 DEF FilesFor, Owns
<1>5. \A j \in Inums \ {i} : Agree(disk, disk', hold[j])
  BY DEF Agree
<1>6. Phase(p, l, call[t], held, disk', itable)
  BY <1>1, <1>4
<1>7. FilesFor(held)'
  BY <1>2, <1>3, <1>5, <1>6, BlockStep
<1> QED
  BY <1>7 DEF FilesInv

LEMMA WriteFreeFiles ==
  ASSUME InodeInv, LockInv, NEW hold, FilesFor(hold), NEW t \in Threads, WriteFree(t) PROVE FilesInv'
<1> DEFINE l == loc[t]
           c == call[t]
           i == c.inum
           h == hold[i]
<1>1. /\ pc[t] = "w_free" /\ UNCHANGED <<disk, itable, call, contents, undefined>>
  BY DEF WriteFree
<1>2. LocalOK("w_free", l, c) /\ Phase("w_free", l, c, hold, disk, itable)
  BY <1>1, LocalFact, PhaseFact
<1>3. /\ Shape(l) /\ i \in Inums /\ l.index \in Nat /\ c.file \in Files /\ l.over = FALSE /\ c # Nil
      /\ l.indirect = 0
  BY <1>2, NilAssumption DEF LocalOK, Rewriting
<1>4. /\ itable[i] # Nil /\ l.ino = itable[i] /\ SupportedResize(l.ino.size, Size(c.file))
      /\ Freeing(disk, h, l) /\ l.made = FALSE
  BY <1>2 DEF Phase, Rewriting, Freeing
<1>5. Changing(pc[t], c, i) /\ Changing("w_free", c, i) /\ Changing("w_loop", c, i)
  BY <1>1, <1>3 DEF Changing, Rewriting
<1>6. CASE l.index < NDIRECT
  <2> DEFINE n == [l EXCEPT !.index = @ + 1]
  <2>1. Goto(t, "w_free", n) /\ FreeBlock(l.ino.blocks[l.index])
    BY <1>6 DEF WriteFree
  <2>2. l.index \in 0..(NDIRECT - 1) /\ l.index \in Places
    BY <1>3, <1>6, Bytes DEF Places, MAXFILE
  <2>3. n.index = l.index + 1 /\ n.ino = l.ino /\ n.made = l.made
    BY <1>3 DEF Shape
  <2>4. l.ino.blocks[l.index] = h[l.index]
    BY <1>3, <1>4, <2>2 DEF Freeing
  <2> HIDE DEF n
  <2>5. ASSUME NEW held, held[i] = [h EXCEPT ![l.index] = 0]
        PROVE  Phase("w_free", n, c, held, disk, itable)
    <3>1. Freeing(disk, held[i], n)
      BY <1>3, <1>4, <2>2, <2>3, <2>5, FreeingNext, HoldType
    <3> QED
      BY <1>4, <2>3, <3>1 DEF Phase, Rewriting
  <2> QED
    BY <1>1, <1>3, <1>5, <2>1, <2>2, <2>4, <2>5, FreeStep
<1>7. CASE ~(l.index < NDIRECT)
  <2> DEFINE wild == [x \in 0..(NINDIRECT - 1) |-> Wild]
             n == [l EXCEPT !.index = 0, !.remaining = NewSize(t), !.final = wild]
             size == Size(c.file)
  <2>1. Goto(t, "w_loop", n) /\ UNCHANGED used
    BY <1>7 DEF WriteFree
  <2>2. /\ n.ino = l.ino /\ n.index = 0 /\ n.indirect = 0 /\ n.over = FALSE
        /\ n.made = FALSE /\ n.remaining = size /\ n.final = wild
    BY <1>3, <1>4 DEF Shape, NewSize
  <2> HIDE DEF n
  <2>3. size \in Nat
    BY <1>3, FilesAssumption DEF Size
  <2>4. Blocks(size) \in Nat /\ (size = 0 => Blocks(size) = 0)
    <3>1. Blocks(size) \in Nat /\ (0 < Blocks(size) <=> 0 * BLOCK_SIZE < size)
      BY <2>3, BlocksIs, BlocksBelow
    <3> QED
      BY <3>1, Bytes
  <2> HIDE DEF size
  <2>5. Flags(n, Blocks(size))
    BY <2>2 DEF Flags
  <2>6. n.remaining = 0 => LoopDone(n, Blocks(size))
    BY <2>2, <2>4, Bytes DEF LoopDone
  <2>7. Written(disk, h, n, c.file, n.index, n.index)
    <3>1. \A k \in 0..(NDIRECT - 1) : ~(k < n.index) /\ k < l.index
      BY <1>3, <1>7, <2>2, Bytes
    <3>2. \A k \in NDIRECT..(MAXFILE - 1) : ~(k < n.index)
      BY <2>2, Bytes
    <3>3. \A x \in 0..(NINDIRECT - 1) : ~(NDIRECT + x < n.index) /\ n.final[x] = Wild
      BY <2>2, Bytes
    <3>4. OldTail(disk, h, n)
      BY <1>4, <2>2 DEF Freeing, OldTail
    <3>5. DataOn(disk, h, c.file, n.index)
      BY <2>2 DEF DataOn
    <3> QED
      BY <1>4, <2>2, <3>1, <3>2, <3>3, <3>4, <3>5 DEF Freeing, Written
  <2>8. Phase("w_loop", n, c, hold, disk, itable)
    BY <1>4, <2>2, <2>5, <2>6, <2>7 DEF Phase, Rewriting, size
  <2>9. FilesFor(hold)'
    <3>1. \A j \in Inums : Changing(pc[t], c, j) => Changing("w_loop", c, j)
      BY DEF Changing, Rewriting
    <3> QED
      BY <1>1, <2>1, <2>8, <3>1, OwnStep
  <2> QED
    BY <2>9 DEF FilesInv
<1> QED
  BY <1>6, <1>7

(* The pointers that get_block reads back from the indirect block.         *)
LEMMA PointersRead ==
  ASSUME InodeInv, NEW h, NEW n, PointersOn(disk, h[MAXFILE], h, n), h[MAXFILE] \in DataBlocks \cup {0}
  PROVE  \A x \in 0..(NINDIRECT - 1) :
           NDIRECT + x < n => AsPointers(ReadBlock(h[MAXFILE]))[x] = h[NDIRECT + x]
  BY DEF InodeInv, Shared, PointersOn, ReadBlock, AsPointers

LEMMA RemoveFreeFiles ==
  ASSUME InodeInv, LockInv, NEW hold, FilesFor(hold), NEW t \in Threads, RemoveFree(t) PROVE FilesInv'
<1> DEFINE l == loc[t]
           c == call[t]
           i == c.inum
           h == hold[i]
           old == Blocks(l.ino.size)
<1>1. /\ pc[t] = "d_free" /\ UNCHANGED <<disk, itable, call, contents, undefined>>
  BY DEF RemoveFree
<1>2. LocalOK("d_free", l, c) /\ Phase("d_free", l, c, hold, disk, itable)
  BY <1>1, LocalFact, PhaseFact
<1>3. Shape(l) /\ i \in Inums /\ c # Nil /\ c.op = "remove"
  BY <1>2, NilAssumption DEF LocalOK, Removing
<1>4. /\ itable[i] # Nil /\ l.ino = itable[i] /\ SupportedRemove(l.ino.size)
      /\ Freeing(disk, h, l) /\ l.index \in Nat /\ l.indirect = 0 /\ l.made = FALSE
  BY <1>2 DEF Phase, Freeing
<1>5. Changing(pc[t], c, i) /\ \A p \in {"d_free", "d_ptrs", "d_inode"} : Changing(p, c, i)
  BY <1>1, <1>3 DEF Changing, Removing
<1>6. CASE l.index < NDIRECT
  <2> DEFINE n == [l EXCEPT !.index = @ + 1]
  <2>1. Goto(t, "d_free", n) /\ FreeBlock(l.ino.blocks[l.index])
    BY <1>6 DEF RemoveFree
  <2>2. l.index \in 0..(NDIRECT - 1) /\ l.index \in Places
    BY <1>4, <1>6, Bytes DEF Places, MAXFILE
  <2>3. n.index = l.index + 1 /\ n.ino = l.ino /\ n.made = l.made /\ n.indirect = l.indirect
    BY <1>3 DEF Shape
  <2>4. l.ino.blocks[l.index] = h[l.index]
    BY <1>3, <1>4, <2>2 DEF Freeing
  <2> HIDE DEF n
  <2>5. ASSUME NEW held, held[i] = [h EXCEPT ![l.index] = 0]
        PROVE  Phase("d_free", n, c, held, disk, itable)
    <3>1. Freeing(disk, held[i], n)
      BY <1>3, <1>4, <2>2, <2>3, <2>5, FreeingNext, HoldType
    <3> QED
      BY <1>4, <2>3, <3>1 DEF Phase, Rewriting
  <2> QED
    BY <1>1, <1>3, <1>5, <2>1, <2>2, <2>4, <2>5, FreeStep
<1>7. CASE ~(l.index < NDIRECT)
  <2>1. UNCHANGED used /\ \A k \in 0..(NDIRECT - 1) : h[k] = 0
    BY <1>4, <1>7, Bytes DEF RemoveFree, Freeing
  <2>2. /\ l.ino.size \in Nat /\ old \in Nat /\ (l.ino.size > DirectBytes <=> old > NDIRECT)
        /\ NDIRECT \in Nat /\ MAXFILE \in Nat /\ MAXFILE > NDIRECT
    <3>1. l.ino.size \in Nat
      BY <1>3, <1>4, SizeType DEF InodeInv, Shared
    <3> QED
      BY <3>1, BlocksMost, Bytes
  <2>3. /\ h[MAXFILE] # 0 <=> old > NDIRECT
        /\ old > NDIRECT => PointersOn(disk, h[MAXFILE], h, old)
        /\ l.ino.blocks[NDIRECT] = h[MAXFILE]
        /\ \A k \in NDIRECT..(MAXFILE - 1) : h[k] # 0 <=> k < old
    BY <1>4 DEF Freeing, OldTail
  <2> HIDE DEF old
  <2>4. CASE l.ino.size > DirectBytes
    <3> DEFINE ptr == AsPointers(ReadBlock(l.ino.blocks[NDIRECT]))
               n == [l EXCEPT !.ptr = ptr]
    <3>1. Goto(t, "d_ptrs", n)
      BY <1>7, <2>4 DEF RemoveFree
    <3>2. \A x \in 0..(NINDIRECT - 1) : NDIRECT + x < old => ptr[x] = h[NDIRECT + x]
      BY <1>3, <2>2, <2>3, <2>4, PointersRead, HoldType, InPlaces
    <3> HIDE DEF ptr
    <3>3. n.ino = l.ino /\ n.indirect = 0 /\ n.ptr = ptr
      BY <1>3, <1>4 DEF Shape
    <3> HIDE DEF n
    <3>4. Phase("d_ptrs", n, c, hold, disk, itable)
      <4>1. /\ n.indirect \in Nat /\ n.indirect <= old - NDIRECT /\ old > NDIRECT
            /\ \A k \in NDIRECT..(MAXFILE - 1) : NDIRECT + n.indirect <= k
        BY <2>2, <2>4, <3>3
      <4> QED
        BY <1>4, <2>1, <2>3, <3>2, <3>3, <4>1 DEF Phase, Rewriting, old
    <3>5. \A j \in Inums : Changing(pc[t], c, j) => Changing("d_ptrs", c, j)
      BY DEF Changing, Removing
    <3>6. FilesFor(hold)'
      BY <1>1, <2>1, <3>1, <3>4, <3>5, OwnStep
    <3> QED
      BY <3>6 DEF FilesInv
  <2>5. CASE ~(l.ino.size > DirectBytes)
    <3>1. Goto(t, "d_inode", NoLocals)
      BY <1>7, <2>5 DEF RemoveFree
    <3>2. Nothing(h)
      <4>1. \A k \in Places : k \in 0..(NDIRECT - 1) \/ k \in NDIRECT..(MAXFILE - 1) \/ k = MAXFILE
        BY <2>2 DEF Places
      <4>2. \A k \in NDIRECT..(MAXFILE - 1) : ~(k < old)
        BY <2>2, <2>5
      <4> QED
        BY <2>1, <2>2, <2>3, <2>5, <4>1, <4>2 DEF Nothing
    <3>3. Phase("d_inode", NoLocals, c, hold, disk, itable)
      BY <1>4, <3>2 DEF Phase, Rewriting
    <3>4. \A j \in Inums : Changing(pc[t], c, j) => Changing("d_inode", c, j)
      BY DEF Changing, Removing
    <3>5. FilesFor(hold)'
      BY <1>1, <2>1, <3>1, <3>3, <3>4, OwnStep
    <3> QED
      BY <3>5 DEF FilesInv
  <2> QED
    BY <2>4, <2>5
<1> QED
  BY <1>6, <1>7

(* num_indirect_blocks is right when the last block is not full.           *)
LEMMA NumIndirect ==
  ASSUME NEW s \in Nat, s > DirectBytes, s % BLOCK_SIZE # 0
  PROVE  num_indirect_blocks(s) = Blocks(s) - NDIRECT
<1> DEFINE q == (s - DirectBytes) \div BLOCK_SIZE
           r == (s - DirectBytes) % BLOCK_SIZE
           Q == s \div BLOCK_SIZE
           R == s % BLOCK_SIZE
           m == q + NDIRECT
<1>1. s - DirectBytes \in Nat
  BY Bytes
<1>2. s - DirectBytes = BLOCK_SIZE * q + r /\ q \in Nat /\ r \in 0..(BLOCK_SIZE - 1)
  BY <1>1, DivBlock
<1>3. s = BLOCK_SIZE * Q + R /\ Q \in Nat /\ R \in 0..(BLOCK_SIZE - 1) /\ R # 0
  BY DivBlock
<1>4. num_indirect_blocks(s) = q + 1
  BY DEF num_indirect_blocks
<1> HIDE DEF q, r, Q, R
<1>5. m \in Nat /\ s = m * BLOCK_SIZE + r /\ m * BLOCK_SIZE \in Nat /\ (m + 1) * BLOCK_SIZE = m * BLOCK_SIZE + BLOCK_SIZE
  <2>1. \A a, b, c \in Nat : (a + b) * c = a * c + b * c /\ (a + b) * c \in Nat
    OBVIOUS
  <2>2. m * BLOCK_SIZE = q * BLOCK_SIZE + NDIRECT * BLOCK_SIZE /\ m * BLOCK_SIZE \in Nat
    BY <1>2, <2>1, Bytes
  <2>3. q * BLOCK_SIZE = BLOCK_SIZE * q /\ q * BLOCK_SIZE \in Int
    BY <1>2, Bytes
  <2>4. m \in Nat
    BY <1>2, Bytes
  <2>5. (m + 1) * BLOCK_SIZE = m * BLOCK_SIZE + BLOCK_SIZE
    BY <2>4, BytesNext
  <2> HIDE DEF m
  <2> QED
    BY <1>2, <2>2, <2>3, <2>4, <2>5, MaxBytesIs, Bytes
<1> HIDE DEF m
<1>6. r # 0
  <2> SUFFICES ASSUME r = 0 PROVE FALSE
    OBVIOUS
  <2>1. BLOCK_SIZE * Q = Q * BLOCK_SIZE /\ Q * BLOCK_SIZE \in Nat
        /\ (Q + 1) * BLOCK_SIZE = Q * BLOCK_SIZE + BLOCK_SIZE
    BY <1>3, Bytes, BytesNext
  <2>2. Q * BLOCK_SIZE < m * BLOCK_SIZE /\ m * BLOCK_SIZE < (Q + 1) * BLOCK_SIZE
    BY <1>3, <1>5, <2>1, Bytes
  <2>3. Q < m /\ m < Q + 1
    BY <1>3, <1>5, <2>2, BytesOrder
  <2> QED
    BY <1>3, <1>5, <2>3
<1>7. m * BLOCK_SIZE < s /\ ~((m + 1) * BLOCK_SIZE < s)
  BY <1>2, <1>5, <1>6, Bytes
<1>8. m < Blocks(s) /\ ~(m + 1 < Blocks(s)) /\ Blocks(s) \in Nat
  BY <1>5, <1>7, BlocksBelow, BlocksIs
<1>9. Blocks(s) = m + 1
  BY <1>5, <1>8
<1> QED
  BY <1>2, <1>4, <1>9, Bytes DEF m
LEMMA RemovePointersFiles ==
  ASSUME InodeInv, LockInv, NEW hold, FilesFor(hold), NEW t \in Threads, RemovePointers(t) PROVE FilesInv'
<1> DEFINE l == loc[t]
           c == call[t]
           i == c.inum
           h == hold[i]
           old == Blocks(l.ino.size)
<1>1. pc[t] = "d_ptrs"
  BY DEF RemovePointers
<1>2. LocalOK("d_ptrs", l, c) /\ Phase("d_ptrs", l, c, hold, disk, itable)
  BY <1>1, LocalFact, PhaseFact
<1>3. Shape(l) /\ i \in Inums /\ c # Nil /\ c.op = "remove"
  BY <1>2, NilAssumption DEF LocalOK, Removing
<1>4. /\ itable[i] # Nil /\ l.ino = itable[i] /\ SupportedRemove(l.ino.size)
      /\ l.indirect \in Nat /\ l.indirect <= old - NDIRECT /\ old > NDIRECT
      /\ \A k \in 0..(NDIRECT - 1) : h[k] = 0
      /\ \A k \in NDIRECT..(MAXFILE - 1) : h[k] # 0 <=> NDIRECT + l.indirect <= k /\ k < old
      /\ \A x \in 0..(NINDIRECT - 1) : l.indirect <= x /\ NDIRECT + x < old => l.ptr[x] = h[NDIRECT + x]
      /\ l.ino.blocks[NDIRECT] = h[MAXFILE] /\ h[MAXFILE] # 0
  BY <1>2 DEF Phase
<1>5. Changing(pc[t], c, i) /\ \A p \in {"d_free", "d_ptrs", "d_inode"} : Changing(p, c, i)
  BY <1>1, <1>3 DEF Changing, Removing
<1>6. /\ l.ino.size \in Nat /\ l.ino.size <= MaxBytes
      /\ old \in Nat /\ l.ino.size > DirectBytes /\ old <= MAXFILE
      /\ NDIRECT \in Nat /\ MAXFILE \in Nat /\ MAXFILE = NDIRECT + NINDIRECT
  <2>1. l.ino.size \in Nat /\ l.ino.size <= MaxBytes
    BY <1>3, <1>4, SizeType DEF InodeInv, Shared, Fits
  <2> QED
    BY <1>4, <2>1, BlocksMost, Bytes
<1>7. num_indirect_blocks(l.ino.size) = old - NDIRECT
  <2>1. ~(l.ino.size <= DirectBytes)
    BY <1>6, Bytes
  <2> QED
    BY <1>4, <1>6, <2>1, NumIndirect DEF SupportedRemove
<1>8. DOMAIN h = Places /\ MAXFILE \in Places /\ NDIRECT..(MAXFILE - 1) \subseteq Places
  BY <1>3, HoldType, InPlaces
<1> HIDE DEF old
<1>9. CASE l.indirect = old - NDIRECT
  <2>1. /\ FreeBlock(h[MAXFILE]) /\ Goto(t, "d_inode", NoLocals)
        /\ UNCHANGED <<disk, itable, call, contents, undefined>>
    BY <1>4, <1>7, <1>9 DEF RemovePointers
  <2>2. ASSUME NEW held, held[i] = [h EXCEPT ![MAXFILE] = 0]
        PROVE  Phase("d_inode", NoLocals, c, held, disk, itable)
    <3>1. \A k \in Places : k \in 0..(NDIRECT - 1) \/ k \in NDIRECT..(MAXFILE - 1) \/ k = MAXFILE
      BY <1>6 DEF Places
    <3>2. \A k \in NDIRECT..(MAXFILE - 1) : h[k] = 0
      BY <1>4, <1>6, <1>9
    <3>3. Nothing(held[i])
      BY <1>4, <1>8, <2>2, <3>1, <3>2 DEF Nothing
    <3> QED
      BY <1>4, <3>3 DEF Phase, Rewriting
  <2> QED
    BY <1>3, <1>5, <1>8, <2>1, <2>2, FreeStep
<1>10. CASE l.indirect # old - NDIRECT
  <2> DEFINE n == [l EXCEPT !.indirect = @ + 1]
             k == NDIRECT + l.indirect
  <2>1. l.indirect \in 0..(NINDIRECT - 1) /\ k < old /\ k \in NDIRECT..(MAXFILE - 1)
    BY <1>4, <1>6, <1>10, Bytes
  <2>2. l.ptr[l.indirect] = h[k] /\ h[k] # Wild
    BY <1>3, <1>4, <1>8, <2>1, HoldType
  <2>3. /\ FreeBlock(h[k]) /\ Goto(t, "d_ptrs", n)
        /\ UNCHANGED <<disk, itable, call, contents, undefined>>
    <3>1. ~(l.indirect >= NINDIRECT \/ l.ptr[l.indirect] = Wild) /\ l.indirect # num_indirect_blocks(l.ino.size)
      BY <1>7, <1>10, <2>1, <2>2, Bytes
    <3> QED
      BY <2>2, <3>1 DEF RemovePointers
  <2>4. n.ino = l.ino /\ n.ptr = l.ptr /\ n.indirect = l.indirect + 1
    BY <1>3 DEF Shape
  <2> HIDE DEF n
  <2>5. ASSUME NEW held, held[i] = [h EXCEPT ![k] = 0] PROVE Phase("d_ptrs", n, c, held, disk, itable)
    <3> DEFINE g == held[i]
    <3>1. /\ g[k] = 0 /\ \A m \in Places \ {k} : g[m] = h[m]
      BY <1>8, <2>1, <2>5
    <3>2. g[MAXFILE] = h[MAXFILE] /\ \A m \in 0..(NDIRECT - 1) : g[m] = h[m]
      <4>1. \A m \in 0..(NDIRECT - 1) : m \in Places /\ m # k
        BY <1>6, <2>1, InPlaces
      <4> QED
        BY <1>6, <1>8, <2>1, <3>1, <4>1
    <3>3. ASSUME NEW m \in NDIRECT..(MAXFILE - 1)
          PROVE  g[m] # 0 <=> NDIRECT + n.indirect <= m /\ m < old
      <4>1. CASE m = k
        BY <1>4, <1>6, <2>4, <3>1, <4>1
      <4>2. CASE m # k
        <5>1. g[m] = h[m]
          BY <1>8, <3>1, <4>2
        <5> QED
          BY <1>4, <1>6, <2>4, <4>2, <5>1
      <4> QED
        BY <4>1, <4>2
    <3>4. ASSUME NEW x \in 0..(NINDIRECT - 1), n.indirect <= x, NDIRECT + x < old
          PROVE  n.ptr[x] = g[NDIRECT + x]
      <4>1. l.indirect <= x /\ NDIRECT + x # k /\ NDIRECT + x \in Places
        BY <1>4, <1>6, <1>8, <2>4, <3>4, InPlaces
      <4> QED
        BY <1>4, <2>4, <3>1, <3>4, <4>1
    <3>5. n.indirect \in Nat /\ n.indirect <= old - NDIRECT
      BY <1>4, <1>6, <2>1, <2>4
    <3> HIDE DEF g
    <3>6. Phase("d_ptrs", n, c, held, disk, itable)
      BY <1>4, <2>4, <3>2, <3>3, <3>4, <3>5 DEF Phase, Rewriting, old, g
    <3> QED
      BY <3>6
  <2>6. k \in Places
    BY <1>8, <2>1
  <2> HIDE DEF k
  <2> QED
    BY <1>3, <1>5, <2>3, <2>5, <2>6, FreeStep
<1> QED
  BY <1>9, <1>10

LEMMA FreeInodeFiles ==
  ASSUME InodeInv, NEW hold, FilesFor(hold), NEW t \in Threads, FreeInode(t) PROVE FilesFor(hold)'
<1> DEFINE l == loc[t]
           c == call[t]
           i == c.inum
<1>1. pc[t] = "d_inode"
  BY DEF FreeInode
<1>2. LocalOK("d_inode", l, c) /\ Phase("d_inode", l, c, hold, disk, itable)
  BY <1>1, LocalFact, PhaseFact
<1>3. Shape(l) /\ i \in Inums /\ c # Nil /\ c.op = "remove" /\ itable[i] # Nil /\ Nothing(hold[i])
  BY <1>2, NilAssumption DEF LocalOK, Removing, Phase
<1>4. PICK n : Goto(t, "p_read", n)
  BY <1>3 DEF FreeInode, GetInode, Inum
<1>5. UNCHANGED <<used, disk, itable, call, contents, undefined>>
  BY <1>3 DEF FreeInode, GetInode, Inum
<1>6. Phase("p_read", n, c, hold, disk, itable)
  BY <1>3 DEF Phase, Rewriting
<1>7. \A j \in Inums : Changing(pc[t], c, j) => Changing("p_read", c, j)
  BY <1>3 DEF Changing
<1> QED
  BY <1>1, <1>4, <1>5, <1>6, <1>7, OwnStep
-----------------------------------------------------------------------------
(* write_file's loop.                                                      *)

LEMMA NotWhole ==
  ASSUME NEW m \in Nat, NEW r \in 1..(BLOCK_SIZE - 1), NEW s \in Nat, s = m * BLOCK_SIZE + r
  PROVE  s % BLOCK_SIZE # 0
<1> DEFINE Q == s \div BLOCK_SIZE
           R == s % BLOCK_SIZE
<1>1. s = BLOCK_SIZE * Q + R /\ Q \in Nat
  BY DivBlock
<1> HIDE DEF Q, R
<1> SUFFICES ASSUME R = 0 PROVE FALSE
  BY DEF R
<1>2. /\ BLOCK_SIZE * Q = Q * BLOCK_SIZE /\ Q * BLOCK_SIZE \in Nat /\ m * BLOCK_SIZE \in Nat
      /\ (m + 1) * BLOCK_SIZE = m * BLOCK_SIZE + BLOCK_SIZE
  BY <1>1, Bytes, BytesNext
<1>3. m * BLOCK_SIZE < Q * BLOCK_SIZE /\ Q * BLOCK_SIZE < (m + 1) * BLOCK_SIZE
  BY <1>1, <1>2, Bytes
<1>4. m < Q /\ Q < m + 1
  BY <1>1, <1>3, BytesOrder
<1> QED
  BY <1>1, <1>4

(* Where the loop is, for the sizes that write_file resizes between.       *)
LEMMA WriteAt ==
  ASSUME NEW l, NEW size \in Nat, size <= MaxBytes, WritePosition(l, size), l.remaining > 0,
         NEW old \in Nat, SupportedResize(old, size)
  PROVE  /\ l.index < Blocks(size)
         /\ l.done < DirectBytes => l.index < NDIRECT
         /\ l.done >= old => l.index >= Blocks(old)
         /\ l.done < old /\ size >= old /\ old > DirectBytes => l.index < Blocks(old)
         /\ size < old => l.index < Blocks(old)
<1> DEFINE k == l.index
<1>1. /\ l.remaining \in Nat /\ l.done \in Nat /\ k \in Nat
      /\ k * BLOCK_SIZE + l.remaining = size
      /\ l.done = IF k = 0 \/ l.remaining >= BLOCK_SIZE THEN k * BLOCK_SIZE
                  ELSE (k - 1) * BLOCK_SIZE + l.remaining
  BY DEF WritePosition
<1> HIDE DEF k
<1>2. k * BLOCK_SIZE \in Nat /\ k * BLOCK_SIZE = (k - 1) * BLOCK_SIZE + BLOCK_SIZE
  BY <1>1, BytesNext, Bytes
<1>3. \/ l.done = k * BLOCK_SIZE
      \/ l.done = size - BLOCK_SIZE /\ l.remaining < BLOCK_SIZE /\ l.done < k * BLOCK_SIZE
  <2>1. CASE k = 0 \/ l.remaining >= BLOCK_SIZE
    BY <1>1, <2>1
  <2>2. CASE ~(k = 0 \/ l.remaining >= BLOCK_SIZE)
    <3>1. l.done = (k - 1) * BLOCK_SIZE + l.remaining /\ l.remaining < BLOCK_SIZE
      BY <1>1, <2>2, Bytes
    <3>2. (k - 1) * BLOCK_SIZE \in Int
      BY <1>1, BytesNext
    <3> QED
      BY <1>1, <1>2, <3>1, <3>2, Bytes
  <2> QED
    BY <2>1, <2>2
<1>4. /\ size <= DirectBytes \/ size >= DirectBytes + BLOCK_SIZE
      /\ size % BLOCK_SIZE # 0 /\ old > DirectBytes /\ Blocks(old) < Blocks(size) => size - BLOCK_SIZE >= old
  <2>1. ~(size > BLOCK_SIZE * MAXFILE)
    BY Bytes DEF MaxBytes
  <2> QED
    BY <2>1 DEF SupportedResize
<1>5. k < Blocks(size) /\ Blocks(size) \in Nat /\ Blocks(old) \in Nat
  BY <1>1, <1>2, BlocksBelow, BlocksIs
<1>6. ASSUME l.done < DirectBytes PROVE k < NDIRECT
  <2>1. k * BLOCK_SIZE < NDIRECT * BLOCK_SIZE
    BY <1>1, <1>2, <1>3, <1>4, <1>6, MaxBytesIs, Bytes
  <2> QED
    BY <1>1, <2>1, BytesOrder, Bytes
<1>7. ASSUME l.done >= old PROVE k >= Blocks(old)
  <2>1. ~(k * BLOCK_SIZE < old)
    BY <1>1, <1>2, <1>3, <1>7
  <2>2. ~(k < Blocks(old))
    BY <1>1, <2>1, BlocksBelow
  <2> QED
    BY <1>1, <1>5, <2>2
<1>8. ASSUME l.done < old, size >= old, old > DirectBytes PROVE k < Blocks(old)
  <2>1. CASE l.done = k * BLOCK_SIZE
    BY <1>1, <1>8, <2>1, BlocksBelow
  <2>2. CASE l.done = size - BLOCK_SIZE /\ l.remaining < BLOCK_SIZE
    <3>1. size % BLOCK_SIZE # 0
      <4>1. l.remaining \in 1..(BLOCK_SIZE - 1) /\ size = k * BLOCK_SIZE + l.remaining
        BY <1>1, <2>2, Bytes
      <4> QED
        BY <1>1, <4>1, NotWhole
    <3>2. ~(size - BLOCK_SIZE >= old)
      BY <1>8, <2>2, Bytes
    <3>3. ~(Blocks(old) < Blocks(size))
      BY <1>4, <1>8, <3>1, <3>2
    <3> QED
      BY <1>1, <1>5, <3>3
  <2> QED
    BY <1>3, <2>1, <2>2
<1>9. ASSUME size < old PROVE k < Blocks(old)
  <2>1. Blocks(size) <= Blocks(old)
    BY <1>9, BlocksOrder
  <2> QED
    BY <1>1, <1>5, <2>1
<1> QED
  BY <1>5, <1>6, <1>7, <1>8, <1>9 DEF k

LEMMA AllocFree ==
  ASSUME HasRoom PROVE AllocBlock \in DataBlocks /\ AllocBlock \notin used
<1>1. \E b \in Free : \A c \in Free : b <= c
  BY LeastNat, BlockIdsNat DEF HasRoom, Free
<1>2. AllocBlock \in Free
  BY <1>1 DEF AllocBlock, HasRoom
<1> QED
  BY <1>2 DEF Free

(* A step that allocates a block for place k of the thread's inode.        *)
LEMMA TakeStep ==
  ASSUME InodeInv, LockInv, HasRoom, NEW hold, FilesFor(hold), NEW t \in Threads,
         NEW i \in Inums, Changing(pc[t], call[t], i),
         NEW p, NEW l, Goto(t, p, l), Changing(p, call[t], i), p # "idle",
         NEW k \in Places, hold[i][k] = 0, NEW b, b = AllocBlock, Take(b),
         UNCHANGED <<disk, itable, call, contents, undefined>>,
         \A held : held[i] = [hold[i] EXCEPT ![k] = b] => Phase(p, l, call[t], held, disk, itable)
  PROVE  FilesInv'
<1>1. PICK g : g = [hold[i] EXCEPT ![k] = b]
  OBVIOUS
<1>2. PICK held : held = [hold EXCEPT ![i] = g]
  OBVIOUS
<1>3. Owns(used', held)
  <2>1. b \in DataBlocks /\ b \notin used /\ Owns(used, hold)
    BY AllocFree DEF FilesFor
  <2>2. used' = used \cup {b}
    BY <2>1 DEF Take
  <2> QED
    BY <1>1, <1>2, <2>1, <2>2, GiveBlock
<1>4. held[i] = g
  BY <1>2 DEF FilesFor, Owns
<1>5. \A j \in Inums \ {i} : Agree(disk, disk', hold[j])
  BY DEF Agree
<1>6. Phase(p, l, call[t], held, disk', itable)
  BY <1>1, <1>4
<1>7. FilesFor(held)'
  BY <1>2, <1>3, <1>5, <1>6, BlockStep
<1> QED
  BY <1>7 DEF FilesInv

(* A direct block is added.                                                *)
LEMMA DirectWritten ==
  ASSUME NEW d, NEW h, NEW g, NEW l, NEW n, NEW f, NEW m \in 0..(NDIRECT - 1), Written(d, h, l, f, m, m),
         NEW b, b # 0, g[m] = b, \A k \in Places \ {m} : g[k] = h[k],
         n.made = l.made, n.final = l.final, n.ino.size = l.ino.size,
         n.ino.blocks[m] = b, \A k \in 0..NDIRECT \ {m} : n.ino.blocks[k] = l.ino.blocks[k]
  PROVE  Written(d, g, n, f, m + 1, m)
<1>1. /\ NDIRECT \in Nat /\ MAXFILE \in Nat /\ MAXFILE > NDIRECT /\ m \in Nat /\ NDIRECT \in 0..NDIRECT
      /\ \A k \in 0..(NDIRECT - 1) : k \in Places /\ k \in 0..NDIRECT
  BY Bytes, InPlaces DEF MAXFILE
<1>2. g[MAXFILE] = h[MAXFILE] /\ \A k \in NDIRECT..(MAXFILE - 1) : g[k] = h[k] /\ ~(k < m) /\ ~(k < m + 1)
  BY <1>1, InPlaces
<1>3. ASSUME NEW k \in 0..(NDIRECT - 1)
      PROVE  IF k < m + 1 THEN g[k] # 0 /\ n.ino.blocks[k] = g[k]
             ELSE g[k] = 0 /\ (n.ino.blocks[k] # 0 => k < Blocks(n.ino.size))
  <2>1. CASE k = m
    BY <1>1, <2>1
  <2>2. CASE k # m
    <3>1. g[k] = h[k] /\ n.ino.blocks[k] = l.ino.blocks[k] /\ (k < m + 1 <=> k < m)
      BY <1>1, <2>2
    <3> QED
      BY <3>1 DEF Written
  <2> QED
    BY <2>1, <2>2
<1>4. OldTail(d, g, n)
  <2>1. n.ino.blocks[NDIRECT] = l.ino.blocks[NDIRECT]
    BY <1>1
  <2> QED
    BY <1>2, <2>1, InPlaces DEF Written, OldTail, PointersOn
<1>5. DataOn(d, g, f, m)
  <2>1. \A k \in 0..(MAXFILE - 1) : k < m => g[k] = h[k]
    BY <1>1, InPlaces
  <2> QED
    BY <2>1 DEF Written, DataOn
<1>6. \A x \in 0..(NINDIRECT - 1) : ~(NDIRECT + x < m + 1) /\ ~(NDIRECT + x < m)
  BY <1>1
<1> QED
  BY <1>2, <1>3, <1>4, <1>5, <1>6 DEF Written

(* Another block is added, or reused.                                      *)
LEMMA StowWritten ==
  ASSUME NEW d, NEW h, NEW g, NEW l, NEW n, NEW f, NEW m \in NDIRECT..(MAXFILE - 1), Written(d, h, l, f, m, m),
         NEW b, b # 0, g[m] = b, \A k \in Places \ {m} : g[k] = h[k], Blocks(l.ino.size) \in Nat,
         m < Blocks(l.ino.size) => h[m] = b,
         n.made = l.made, n.ino = l.ino, l.final \in PointerArrays,
         n.final = [l.final EXCEPT ![m - NDIRECT] = b]
  PROVE  Written(d, g, n, f, m + 1, m)
<1> DEFINE old == Blocks(l.ino.size)
<1>1. /\ NDIRECT \in Nat /\ MAXFILE \in Nat /\ MAXFILE > NDIRECT /\ m \in Nat /\ MAXFILE = NDIRECT + NINDIRECT
      /\ NINDIRECT \in Nat /\ MAXFILE \in Places
  BY Bytes, InPlaces DEF MAXFILE
<1>2. g[MAXFILE] = h[MAXFILE]
  BY <1>1
<1>3. ASSUME NEW k \in 0..(NDIRECT - 1) PROVE g[k] # 0 /\ n.ino.blocks[k] = g[k] /\ k < m + 1
  <2>1. g[k] = h[k] /\ k < m
    BY <1>1, InPlaces
  <2> QED
    BY <1>1, <2>1 DEF Written
<1> HIDE DEF old
<1>4. ASSUME NEW k \in NDIRECT..(MAXFILE - 1) PROVE g[k] # 0 <=> k < old \/ k < m + 1
  <2>1. CASE k = m
    BY <1>1, <2>1
  <2>2. CASE k # m
    <3>1. g[k] = h[k] /\ (k < m + 1 <=> k < m)
      BY <1>1, <2>2, InPlaces
    <3> QED
      BY <3>1 DEF Written, old
  <2> QED
    BY <2>1, <2>2
<1>5. \A k \in Places : k < old => g[k] = h[k]
  BY DEF old
<1>6. OldTail(d, g, n)
  <2>1. \A x \in 0..(NINDIRECT - 1) : NDIRECT + x < old => g[NDIRECT + x] = h[NDIRECT + x]
    BY <1>5, InPlaces
  <2> QED
    BY <1>2, <2>1 DEF Written, OldTail, PointersOn, old
<1>7. DataOn(d, g, f, m)
  <2>1. \A k \in 0..(MAXFILE - 1) : k < m => g[k] = h[k]
    BY <1>1, InPlaces
  <2> QED
    BY <2>1 DEF Written, DataOn
<1>8. ASSUME NEW x \in 0..(NINDIRECT - 1)
      PROVE  n.final[x] = IF NDIRECT + x < m + 1 THEN g[NDIRECT + x] ELSE Wild
  <2>1. DOMAIN l.final = 0..(NINDIRECT - 1) /\ NDIRECT + x \in Places
    BY InPlaces DEF PointerArrays
  <2>2. CASE x = m - NDIRECT
    <3>1. NDIRECT + x = m /\ NDIRECT + x < m + 1
      BY <1>1, <2>2
    <3> QED
      BY <2>1, <2>2, <3>1
  <2>3. CASE x # m - NDIRECT
    <3>1. (NDIRECT + x < m + 1 <=> NDIRECT + x < m) /\ NDIRECT + x # m
      BY <1>1, <2>3
    <3>2. l.final[x] = IF NDIRECT + x < m THEN h[NDIRECT + x] ELSE Wild
      BY DEF Written
    <3> QED
      BY <2>1, <2>3, <3>1, <3>2
  <2> QED
    BY <2>2, <2>3
<1> QED
  BY <1>3, <1>4, <1>6, <1>7, <1>8 DEF Written, old
LEMMA WriteLoopFiles ==
  ASSUME InodeInv, LockInv, HasRoom, NEW hold, FilesFor(hold), NEW t \in Threads, WriteLoop(t) PROVE FilesInv'
<1> DEFINE l == loc[t]
           c == call[t]
           i == c.inum
           h == hold[i]
           size == Size(c.file)
           old == l.ino.size
           m == l.index
           reused == AsPointers(ReadBlock(l.ino.blocks[NDIRECT]))[l.indirect]
           Stow(id) == [l EXCEPT !.target = id, !.over = TRUE, !.final[l.indirect] = id]
<1>1. pc[t] = "w_loop" /\ UNCHANGED <<disk, itable, call, contents>>
  BY DEF WriteLoop
<1>2. LocalOK("w_loop", l, c) /\ Phase("w_loop", l, c, hold, disk, itable)
  BY <1>1, LocalFact, PhaseFact
<1>3. /\ Shape(l) /\ i \in Inums /\ c # Nil /\ c.file \in Files /\ size <= MaxBytes /\ Fits(l.ino)
      /\ WritePosition(l, size) /\ l.final \in PointerArrays
      /\ l.remaining \in Nat /\ l.done \in Nat /\ m \in Nat
  BY <1>2, NilAssumption DEF LocalOK, Rewriting, Laying, WritePosition
<1>4. /\ itable[i] # Nil /\ old = itable[i].size /\ l.ino.type = itable[i].type /\ SupportedResize(old, size)
      /\ Flags(l, Blocks(size)) /\ Written(disk, h, l, c.file, m, m)
      /\ l.remaining = 0 => LoopDone(l, Blocks(size))
  BY <1>2 DEF Phase, Rewriting
<1>5. /\ size \in Nat /\ old \in Nat /\ Blocks(size) \in Nat /\ Blocks(old) \in Nat
      /\ (old > DirectBytes <=> Blocks(old) > NDIRECT)
      /\ NDIRECT \in Nat /\ MAXFILE \in Nat /\ DirectBytes \in Nat /\ MAXFILE = NDIRECT + NINDIRECT /\ NINDIRECT \in Nat
  <2>1. size \in Nat /\ old \in Nat
    BY <1>3, FilesAssumption, SizeType DEF Size
  <2> QED
    BY <2>1, BlocksMost, Bytes
<1>6. Changing(pc[t], c, i) /\ \A p \in {"w_loop", "w_store", "w_old"} : Changing(p, c, i)
  BY <1>1, <1>3 DEF Changing, Rewriting
<1>7. \A j \in Inums, p \in {"w_loop", "w_store", "w_old"} : Changing(pc[t], c, j) => Changing(p, c, j)
  BY DEF Changing, Rewriting
<1>8. PICK b : b = AllocBlock /\ b \in DataBlocks /\ b # 0
  BY AllocFree, NoBlockZero
<1>9. DOMAIN h = Places /\ \A k \in Places : h[k] \in DataBlocks \cup {0} /\ h[k] # Wild
  BY <1>3, HoldType
<1>10. undefined = FALSE
  BY DEF FilesFor
<1> HIDE DEF size, old, h
<1>11. CASE l.remaining = 0
  <2>1. Goto(t, "w_old", l) /\ UNCHANGED <<used, undefined>>
    BY <1>11 DEF WriteLoop
  <2>2. m = Blocks(size)
    BY <1>4, <1>11 DEF LoopDone
  <2>3. Phase("w_old", l, c, hold, disk, itable)
    BY <1>4, <1>11, <2>2 DEF Phase, Rewriting, size, old, h
  <2>4. FilesFor(hold)'
    BY <1>1, <1>7, <2>1, <2>3, OwnStep
  <2> QED
    BY <2>4 DEF FilesInv
<1>12. CASE l.remaining > 0 /\ l.done < DirectBytes
  <2> DEFINE n == [l EXCEPT !.target = b, !.ino.blocks[m] = b]
  <2>1. Goto(t, "w_store", n) /\ Take(b) /\ UNCHANGED undefined
    <3>1. ~(l.done >= DirectBytes) /\ l.remaining # 0
      BY <1>3, <1>5, <1>12
    <3> QED
      BY <1>8, <1>12, <3>1 DEF WriteLoop
  <2>2. m < NDIRECT
    BY <1>3, <1>4, <1>5, <1>12, WriteAt
  <2>3. m \in 0..(NDIRECT - 1) /\ m \in Places
    BY <1>3, <1>5, <2>2, InPlaces
  <2>4. /\ n.target = b /\ n.ino = [l.ino EXCEPT !.blocks[m] = b] /\ n.over = l.over /\ n.made = l.made
        /\ n.index = m /\ n.final = l.final
    BY <1>3 DEF Shape
  <2> HIDE DEF n
  <2>5. /\ n.ino.size = old /\ n.ino.type = l.ino.type
        /\ n.ino.blocks[m] = b /\ \A k \in 0..NDIRECT \ {m} : n.ino.blocks[k] = l.ino.blocks[k]
    <3>1. l.ino = [type |-> l.ino.type, size |-> l.ino.size, blocks |-> l.ino.blocks]
          /\ DOMAIN l.ino.blocks = 0..NDIRECT /\ m \in 0..NDIRECT
      BY <1>3, <1>5, <2>3 DEF Fits, Inodes
    <3> QED
      BY <2>4, <3>1 DEF old
  <2>6. h[m] = 0
    <3>1. ~(m < m)
      BY <1>3
    <3> QED
      BY <1>4, <2>3, <3>1 DEF Written
  <2>7. ASSUME NEW held, held[i] = [h EXCEPT ![m] = b] PROVE Phase("w_store", n, c, held, disk, itable)
    <3>1. held[i][m] = b /\ \A k \in Places \ {m} : held[i][k] = h[k]
      BY <1>9, <2>3, <2>7
    <3>2. Written(disk, held[i], n, c.file, m + 1, m)
      <4> DEFINE g == held[i]
      <4>1. /\ b # 0 /\ g[m] = b /\ (\A k \in Places \ {m} : g[k] = h[k]) /\ n.made = l.made /\ n.final = l.final
            /\ n.ino.size = l.ino.size /\ n.ino.blocks[m] = b
            /\ \A k \in 0..NDIRECT \ {m} : n.ino.blocks[k] = l.ino.blocks[k]
        BY <1>8, <2>4, <2>5, <3>1 DEF old
      <4> HIDE DEF g, l, m
      <4>2. Written(disk, g, n, c.file, m + 1, m)
        BY <1>4, <2>3, <4>1, DirectWritten
      <4> QED
        BY <4>2 DEF g
    <3>3. Flags(n, Blocks(size))
      BY <1>4, <2>4, <2>5 DEF Flags, old
    <3> QED
      BY <1>4, <2>4, <2>5, <3>1, <3>2, <3>3 DEF Phase, Rewriting, size, old
  <2> QED
    BY <1>1, <1>3, <1>6, <1>8, <2>1, <2>3, <2>6, <2>7, TakeStep DEF h
<1>13. CASE l.remaining > 0 /\ ~(l.done < DirectBytes)
  <2>1. m >= NDIRECT /\ l.indirect = m - NDIRECT /\ l.indirect \in 0..(NINDIRECT - 1)
    BY <1>3, <1>5, <1>13, WriteWithin
  <2>2. /\ m < Blocks(size)
        /\ l.done >= old => m >= Blocks(old)
        /\ l.done < old /\ size >= old /\ old > DirectBytes => m < Blocks(old)
        /\ size < old => m < Blocks(old)
    BY <1>3, <1>4, <1>5, <1>13, WriteAt
  <2>3. m \in NDIRECT..(MAXFILE - 1) /\ m \in Places /\ MAXFILE \in Places /\ Blocks(size) > NDIRECT
    BY <1>3, <1>5, <2>1, <2>2, InPlaces
  <2>4. l.done >= DirectBytes /\ l.remaining # 0
    BY <1>3, <1>5, <1>13
  <2>5. l.made => l.over /\ Blocks(old) <= NDIRECT
    BY <1>4 DEF Flags, old
  <2>6. l.over \in BOOLEAN /\ l.made \in BOOLEAN
    BY <1>4 DEF Flags
  <2>7. CASE size >= old /\ old <= DirectBytes /\ ~l.made
    <3> DEFINE n == [l EXCEPT !.ino.blocks[NDIRECT] = b, !.made = TRUE, !.over = TRUE]
    <3>1. Goto(t, "w_loop", n) /\ Take(b) /\ UNCHANGED undefined
      BY <1>8, <1>13, <2>4, <2>7 DEF WriteLoop, size, old, NewSize
    <3>2. /\ n.ino = [l.ino EXCEPT !.blocks[NDIRECT] = b] /\ n.over = TRUE /\ n.made = TRUE
          /\ n.index = m /\ n.final = l.final /\ n.remaining = l.remaining
      BY <1>3 DEF Shape
    <3> HIDE DEF n
    <3>3. /\ n.ino.size = old /\ n.ino.type = l.ino.type
          /\ n.ino.blocks[NDIRECT] = b /\ \A k \in 0..(NDIRECT - 1) : n.ino.blocks[k] = l.ino.blocks[k]
      BY <1>3, <1>5, <3>2 DEF Fits, Inodes, old
    <3>4. ~(Blocks(old) > NDIRECT) /\ Blocks(old) <= NDIRECT
      BY <1>5, <2>7
    <3>5. h[MAXFILE] = 0
      BY <1>4, <2>7, <3>4 DEF Written, OldTail, old
    <3>6. ASSUME NEW held, held[i] = [h EXCEPT ![MAXFILE] = b] PROVE Phase("w_loop", n, c, held, disk, itable)
      <4> DEFINE g == held[i]
      <4>1. g[MAXFILE] = b /\ \A k \in 0..(MAXFILE - 1) : g[k] = h[k]
        BY <1>5, <1>9, <3>6, InPlaces
      <4> HIDE DEF g
      <4>2. OldTail(disk, g, n)
        BY <1>8, <3>2, <3>3, <3>4, <4>1 DEF OldTail
      <4>3. Written(disk, g, n, c.file, m, m)
        BY <1>4, <3>2, <3>3, <4>1, <4>2, InPlaces DEF Written, DataOn, old
      <4>4. Flags(n, Blocks(size))
        BY <2>3, <3>2, <3>3, <3>4 DEF Flags
      <4>5. n.remaining # 0
        BY <2>4, <3>2
      <4> QED
        BY <1>4, <3>2, <3>3, <4>3, <4>4, <4>5 DEF Phase, Rewriting, size, g
    <3> QED
      BY <1>1, <1>3, <1>6, <1>8, <2>3, <3>1, <3>5, <3>6, TakeStep DEF h
  <2>8. ASSUME NEW id, id # 0, NEW held, held[i][m] = id, \A k \in Places \ {m} : held[i][k] = h[k],
               m < Blocks(old) => h[m] = id,
               Blocks(old) <= NDIRECT => l.made
        PROVE  Phase("w_store", Stow(id), c, held, disk, itable)
    <3> DEFINE n == Stow(id)
    <3>1. /\ n.target = id /\ n.ino = l.ino /\ n.over = TRUE /\ n.made = l.made
          /\ n.index = m /\ n.final = [l.final EXCEPT ![m - NDIRECT] = id]
      BY <1>3, <2>1 DEF Shape
    <3> HIDE DEF n
    <3>2. Written(disk, held[i], n, c.file, m + 1, m)
      <4> DEFINE g == held[i]
      <4>1. /\ g[m] = id /\ (\A k \in Places \ {m} : g[k] = h[k]) /\ Blocks(l.ino.size) \in Nat
            /\ (m < Blocks(l.ino.size) => h[m] = id) /\ l.final \in PointerArrays
        BY <1>3, <1>5, <2>8 DEF old
      <4> HIDE DEF g, l, m
      <4>2. Written(disk, g, n, c.file, m + 1, m)
        BY <1>4, <2>3, <2>8, <3>1, <4>1, StowWritten
      <4> QED
        BY <4>2 DEF g
    <3>3. Flags(n, Blocks(size))
      BY <2>3, <2>5, <2>6, <2>8, <3>1 DEF Flags, old
    <3>4. Phase("w_store", n, c, held, disk, itable)
      BY <1>4, <2>8, <3>1, <3>2, <3>3 DEF Phase, Rewriting, size, old
    <3> QED
      BY <3>4 DEF n
  <2>9. CASE ~(size >= old /\ old <= DirectBytes /\ ~l.made) /\ size >= old /\ (old <= DirectBytes \/ l.done >= old)
    <3>1. Goto(t, "w_store", Stow(b)) /\ Take(b) /\ UNCHANGED undefined
      BY <1>8, <1>13, <2>4, <2>9 DEF WriteLoop, size, old, NewSize
    <3>2. m >= Blocks(old) /\ ~(m < Blocks(old)) /\ (Blocks(old) <= NDIRECT => l.made)
      BY <1>3, <1>5, <2>1, <2>2, <2>9
    <3>3. h[m] = 0
      <4>1. ~(m < m)
        BY <1>3
      <4> QED
        BY <1>4, <2>3, <3>2, <4>1 DEF Written, old
    <3>4. ASSUME NEW held, held[i] = [h EXCEPT ![m] = b] PROVE Phase("w_store", Stow(b), c, held, disk, itable)
      <4>1. held[i][m] = b /\ \A k \in Places \ {m} : held[i][k] = h[k]
        BY <1>9, <2>3, <3>4
      <4> QED
        BY <1>8, <2>8, <3>2, <4>1
    <3> HIDE DEF Stow
    <3> QED
      BY <1>1, <1>3, <1>6, <1>8, <2>3, <3>1, <3>3, <3>4, TakeStep DEF h
  <2>10. CASE ~(size >= old /\ old <= DirectBytes /\ ~l.made) /\ ~(size >= old /\ (old <= DirectBytes \/ l.done >= old))
    <3>1. m < Blocks(old) /\ Blocks(old) > NDIRECT
      BY <1>3, <1>5, <2>1, <2>2, <2>10
    <3>2. /\ PointersOn(disk, h[MAXFILE], h, Blocks(old)) /\ l.ino.blocks[NDIRECT] = h[MAXFILE]
          /\ h[m] # 0
      BY <1>4, <2>3, <3>1 DEF Written, OldTail, old
    <3>3. reused = h[m]
      <4>1. NDIRECT + l.indirect = m
        BY <1>3, <1>5, <2>1
      <4> QED
        BY <1>9, <2>1, <2>3, <3>1, <3>2, <4>1, PointersRead
    <3>4. Goto(t, "w_store", Stow(h[m])) /\ UNCHANGED <<used, undefined>>
      <4>1. reused # Wild
        BY <1>9, <2>3, <3>3
      <4> HIDE DEF Stow
      <4>2. Goto(t, "w_store", Stow(reused)) /\ UNCHANGED <<used, undefined>>
        BY <1>13, <2>4, <2>10, <4>1 DEF WriteLoop, size, old, NewSize, Stow
      <4> QED
        BY <3>3, <4>2
    <3>5. Phase("w_store", Stow(h[m]), c, hold, disk, itable)
      <4>1. ~(Blocks(old) <= NDIRECT)
        BY <1>5, <3>1
      <4> QED
        BY <2>8, <3>2, <4>1 DEF h
    <3> HIDE DEF Stow
    <3>6. FilesFor(hold)'
      BY <1>1, <1>7, <3>4, <3>5, OwnStep
    <3> QED
      BY <3>6 DEF FilesInv
  <2> QED
    BY <2>7, <2>9, <2>10
<1> QED
  BY <1>3, <1>11, <1>12, <1>13
(* A step that writes place k of the thread's inode leaves the blocks of   *)
(* the other inodes alone.                                                 *)
LEMMA DiskWrite ==
  ASSUME InodeInv, LockInv, NEW hold, FilesFor(hold), NEW t \in Threads,
         NEW i \in Inums, Changing(pc[t], call[t], i),
         NEW p, NEW l, Goto(t, p, l), Changing(p, call[t], i), p # "idle",
         NEW k \in Places, hold[i][k] # 0, NEW x, WriteBlock(hold[i][k], x),
         UNCHANGED <<used, itable, call, contents, undefined>>,
         \A e : /\ e[hold[i][k]] = x
                /\ \A m \in Places \ {k} : hold[i][m] # 0 => e[hold[i][m]] = disk[hold[i][m]]
                => Phase(p, l, call[t], hold, e, itable)
  PROVE  FilesInv'
<1>1. Owns(used, hold) /\ DOMAIN disk = DataBlocks \cup {0} /\ hold[i][k] \in DataBlocks \cup {0}
  BY HoldType DEF FilesFor, InodeInv, Shared
<1>2. disk' = [disk EXCEPT ![hold[i][k]] = x]
  BY <1>1 DEF WriteBlock
<1>3. /\ \A j \in Inums \ {i} : Agree(disk, disk', hold[j])
      /\ disk'[hold[i][k]] = x
      /\ \A m \in Places \ {k} : hold[i][m] # 0 => disk'[hold[i][m]] = disk[hold[i][m]]
  <2>1. /\ \A j \in Inums : \A m \in Places : hold[j][m] \in DOMAIN disk
        /\ \A j \in Inums : \A m \in Places : hold[j][m] = hold[i][k] => j = i /\ m = k
    BY <1>1 DEF Owns
  <2> QED
    BY <1>2, <2>1 DEF Agree
<1>4. Phase(p, l, call[t], hold, disk', itable)
  BY <1>3
<1>5. hold = [hold EXCEPT ![i] = hold[i]] /\ Owns(used', hold)
  BY <1>1 DEF Owns
<1>6. FilesFor(hold)'
  BY <1>3, <1>4, <1>5, BlockStep
<1> QED
  BY <1>6 DEF FilesInv

LEMMA WriteStoreFiles ==
  ASSUME InodeInv, LockInv, NEW hold, FilesFor(hold), NEW t \in Threads, WriteStore(t) PROVE FilesInv'
<1> DEFINE l == loc[t]
           c == call[t]
           i == c.inum
           h == hold[i]
           size == Size(c.file)
           m == l.index
           left == l.remaining - MIN(BLOCK_SIZE, l.remaining)
           n == [l EXCEPT !.remaining = left, !.done = @ + MIN(BLOCK_SIZE, left), !.index = @ + 1,
                          !.indirect = IF l.over THEN @ + 1 ELSE @]
<1>1. pc[t] = "w_store" /\ UNCHANGED <<used, itable, call, contents, undefined>>
  BY DEF WriteStore
<1>2. LocalOK("w_store", l, c) /\ Phase("w_store", l, c, hold, disk, itable)
  BY <1>1, LocalFact, PhaseFact
<1>3. /\ Shape(l) /\ i \in Inums /\ c # Nil /\ c.file \in Files /\ size <= MaxBytes /\ Fits(l.ino)
      /\ WritePosition(l, size) /\ l.remaining > 0 /\ (~l.over => l.done < DirectBytes)
      /\ l.remaining \in Nat /\ m \in Nat /\ l.indirect \in Nat /\ l.over \in BOOLEAN
      /\ m * BLOCK_SIZE + l.remaining = size
      /\ l.over => m >= NDIRECT /\ l.indirect = m - NDIRECT
  BY <1>2, NilAssumption DEF LocalOK, Rewriting, Laying, WritePosition
<1>4. /\ itable[i] # Nil /\ l.ino.size = itable[i].size /\ l.ino.type = itable[i].type
      /\ SupportedResize(l.ino.size, size)
      /\ Flags(l, Blocks(size)) /\ Written(disk, h, l, c.file, m + 1, m) /\ l.target = h[m]
  BY <1>2 DEF Phase, Rewriting
<1>5. /\ size \in Nat /\ l.ino.size \in Nat /\ Blocks(size) \in Nat /\ Blocks(size) <= MAXFILE
      /\ NDIRECT \in Nat /\ MAXFILE \in Nat
  <2>1. size \in Nat /\ l.ino.size \in Nat
    BY <1>3, FilesAssumption, SizeType DEF Size
  <2> QED
    BY <1>3, <2>1, BlocksMost, Bytes
<1>6. m < Blocks(size) /\ (l.done < DirectBytes => m < NDIRECT)
  BY <1>3, <1>4, <1>5, WriteAt
<1>7. m \in 0..(MAXFILE - 1) /\ m \in Places /\ m # MAXFILE /\ MAXFILE \in Places
  BY <1>3, <1>5, <1>6, InPlaces
<1>8. Goto(t, "w_loop", n) /\ WriteBlock(h[m], Data(c.file, m))
  BY <1>4 DEF WriteStore
<1>9. /\ n.ino = l.ino /\ n.over = l.over /\ n.made = l.made /\ n.index = m + 1 /\ n.final = l.final
      /\ n.remaining = left /\ n.indirect = IF l.over THEN l.indirect + 1 ELSE l.indirect
  BY <1>3 DEF Shape
<1>10. left = 0 => l.remaining <= BLOCK_SIZE
  BY <1>3, Bytes DEF MIN
<1> HIDE DEF n, left, size, h
<1>11. h[m] # 0
  <2>1. m < m + 1 /\ (m \in 0..(NDIRECT - 1) \/ m \in NDIRECT..(MAXFILE - 1))
    BY <1>3, <1>5, <1>7
  <2> QED
    BY <1>4, <2>1 DEF Written
<1>12. n.remaining = 0 => LoopDone(n, Blocks(size))
  <2> SUFFICES ASSUME left = 0 PROVE LoopDone(n, Blocks(size))
    BY <1>9
  <2>1. ~((m + 1) * BLOCK_SIZE < size)
    <3>1. (m + 1) * BLOCK_SIZE = m * BLOCK_SIZE + BLOCK_SIZE /\ m * BLOCK_SIZE \in Int
      BY <1>3, BytesNext
    <3> QED
      BY <1>3, <1>5, <1>10, <3>1, Bytes
  <2>2. ~(m + 1 < Blocks(size))
    BY <1>3, <1>5, <2>1, BlocksBelow
  <2>3. Blocks(size) = m + 1
    BY <1>3, <1>5, <1>6, <2>2
  <2>4. ASSUME Blocks(size) > NDIRECT PROVE n.over /\ n.indirect = Blocks(size) - NDIRECT
    <3>1. ~(m < NDIRECT)
      BY <1>3, <1>5, <2>3, <2>4
    <3>2. l.over
      BY <1>3, <1>6, <3>1
    <3>3. n.over /\ n.indirect = l.indirect + 1 /\ l.indirect = m - NDIRECT
      BY <1>3, <1>9, <3>2, Zenon
    <3> QED
      BY <1>3, <1>5, <2>3, <3>3
  <2> QED
    BY <1>9, <2>3, <2>4 DEF LoopDone
<1>13. ASSUME NEW e, e[h[m]] = Data(c.file, m), \A k \in Places \ {m} : h[k] # 0 => e[h[k]] = disk[h[k]]
       PROVE  Phase("w_loop", n, c, hold, e, itable)
  <2>1. DataOn(e, h, c.file, m + 1)
    <3> SUFFICES ASSUME NEW k \in 0..(MAXFILE - 1), k < m + 1 PROVE h[k] # 0 /\ e[h[k]] = Data(c.file, k)
      BY DEF DataOn
    <3>1. CASE k = m
      BY <1>11, <1>13, <3>1
    <3>2. CASE k # m
      <4>1. k < m /\ k \in Places \ {m}
        BY <1>3, <3>2, InPlaces
      <4>2. h[k] # 0 /\ disk[h[k]] = Data(c.file, k)
        BY <1>4, <4>1 DEF Written, DataOn
      <4> QED
        BY <1>13, <4>1, <4>2
    <3> QED
      BY <3>1, <3>2
  <2>2. OldTail(e, h, n)
    <3>1. h[MAXFILE] # 0 => e[h[MAXFILE]] = disk[h[MAXFILE]]
      BY <1>7, <1>13
    <3> QED
      BY <1>4, <1>9, <3>1 DEF Written, OldTail, PointersOn
  <2>3. Written(e, h, n, c.file, m + 1, m + 1)
    BY <1>4, <1>9, <2>1, <2>2 DEF Written
  <2>4. Flags(n, Blocks(size))
    BY <1>4, <1>9 DEF Flags
  <2> QED
    BY <1>4, <1>9, <1>12, <2>3, <2>4 DEF Phase, Rewriting, size, h
<1>14. Changing(pc[t], c, i) /\ Changing("w_loop", c, i)
  BY <1>1, <1>3 DEF Changing, Rewriting
<1> QED
  BY <1>1, <1>3, <1>7, <1>8, <1>11, <1>13, <1>14, DiskWrite DEF h

LEMMA WriteOldFiles ==
  ASSUME InodeInv, NEW hold, FilesFor(hold), NEW t \in Threads, WriteOld(t) PROVE FilesFor(hold)'
<1> DEFINE l == loc[t]
           c == call[t]
           i == c.inum
           h == hold[i]
           size == Size(c.file)
           os == l.ino.size
           nb == Blocks(size)
           old == Blocks(os)
           shrinks == l.over /\ size < os
           ptr == IF shrinks THEN AsPointers(ReadBlock(l.ino.blocks[NDIRECT])) ELSE Nil
           rem == IF shrinks THEN os - size ELSE 0
           n == [l EXCEPT !.ptr = ptr, !.remaining = rem]
<1>1. pc[t] = "w_old" /\ UNCHANGED <<used, disk, itable, call, contents, undefined>>
  BY DEF WriteOld
<1>2. LocalOK("w_old", l, c) /\ Phase("w_old", l, c, hold, disk, itable)
  BY <1>1, LocalFact, PhaseFact
<1>3. Shape(l) /\ i \in Inums /\ c # Nil /\ c.file \in Files /\ size <= MaxBytes /\ Fits(l.ino)
  BY <1>2, NilAssumption DEF LocalOK, Rewriting
<1>4. /\ itable[i] # Nil /\ os = itable[i].size /\ l.ino.type = itable[i].type /\ SupportedResize(os, size)
      /\ Written(disk, h, l, c.file, nb, nb) /\ Flags(l, nb) /\ LoopDone(l, nb)
  BY <1>2 DEF Phase, Rewriting
<1>5. /\ size \in Nat /\ os \in Nat /\ nb \in Nat /\ old \in Nat /\ NDIRECT \in Nat /\ MAXFILE \in Nat
      /\ (os > DirectBytes <=> old > NDIRECT) /\ (size > DirectBytes <=> nb > NDIRECT)
      /\ DirectBytes \in Nat /\ (size <= os => nb <= old) /\ (os <= size => old <= nb)
  <2>1. size \in Nat /\ os \in Nat
    BY <1>3, FilesAssumption, SizeType DEF Size
  <2> QED
    BY <2>1, BlocksMost, Bytes, BlocksOrder
<1>6. Goto(t, "w_trim", n)
  BY DEF WriteOld, NewSize
<1>7. Direct(size) >= Direct(os) /\ (os > DirectBytes => size > DirectBytes)
  <2>1. ~(size > BLOCK_SIZE * MAXFILE)
    BY <1>3, <1>5, Bytes DEF MaxBytes
  <2> QED
    BY <1>4, <2>1 DEF SupportedResize
<1>8. h[MAXFILE] \in DataBlocks \cup {0}
  BY <1>3, HoldType, InPlaces
<1> HIDE DEF ptr, rem
<1>9. n.ino = l.ino /\ n.final = l.final /\ n.over = l.over /\ n.indirect = l.indirect /\ n.ptr = ptr
      /\ n.remaining = rem
  BY <1>3 DEF Shape
<1> HIDE DEF n, size, h, nb, old, os
<1>10. l.over <=> nb > NDIRECT
  BY <1>4 DEF Flags, LoopDone
<1>11. l.over \in BOOLEAN /\ (nb > NDIRECT => l.indirect = nb - NDIRECT)
  BY <1>4 DEF Flags, LoopDone
<1>12. rem \in Int /\ (rem > 0 <=> shrinks) /\ (shrinks => rem = os - size)
  BY <1>5 DEF rem
<1>13. Trimmed(h, n, size)
  <2>1. ASSUME NEW k \in 0..(NDIRECT - 1)
        PROVE  IF k < nb THEN h[k] # 0 /\ n.ino.blocks[k] = h[k] ELSE h[k] = 0 /\ n.ino.blocks[k] = 0
    <3>1. IF k < nb THEN h[k] # 0 /\ l.ino.blocks[k] = h[k] ELSE h[k] = 0 /\ (l.ino.blocks[k] # 0 => k < old)
      BY <1>4 DEF Written, old, os
    <3>2. k < old => k < nb
      <4>1. MIN(nb, NDIRECT) >= MIN(old, NDIRECT)
        BY <1>7 DEF Direct, nb, old
      <4> QED
        BY <1>5, <4>1 DEF MIN
    <3> QED
      BY <1>9, <3>1, <3>2
  <2>2. ASSUME NEW k \in NDIRECT..(MAXFILE - 1)
        PROVE  h[k] # 0 <=> k < nb \/ (n.remaining > 0 /\ NDIRECT + n.indirect <= k /\ k < old)
    <3>1. h[k] # 0 <=> k < old \/ k < nb
      BY <1>4 DEF Written, old, os
    <3>2. CASE shrinks
      <4>1. NDIRECT + n.indirect = nb
        BY <1>5, <1>9, <1>10, <1>11, <3>2
      <4>2. n.remaining > 0
        BY <1>9, <1>12, <3>2
      <4> QED
        BY <1>5, <3>1, <4>1, <4>2
    <3>3. CASE ~shrinks
      <4>1. ~(n.remaining > 0)
        BY <1>9, <1>12, <3>3
      <4>2. k < old => k < nb
        BY <1>5, <1>7, <1>10, <3>3
      <4> QED
        BY <3>1, <4>1, <4>2
    <3> QED
      BY <3>2, <3>3
  <2>3. \A x \in 0..(NINDIRECT - 1) : n.final[x] = IF NDIRECT + x < nb THEN h[NDIRECT + x] ELSE Wild
    BY <1>4, <1>9 DEF Written
  <2>4. n.ino.blocks[NDIRECT] = h[MAXFILE] /\ (h[MAXFILE] # 0 <=> nb > NDIRECT)
    <3>1. l.ino.blocks[NDIRECT] = h[MAXFILE] /\ (h[MAXFILE] # 0 <=> old > NDIRECT \/ l.made)
      BY <1>4 DEF Written, OldTail, old, os
    <3>2. (l.made => l.over) /\ (l.over /\ old <= NDIRECT => l.made)
      BY <1>4 DEF Flags, old, os
    <3> QED
      BY <1>5, <1>7, <1>9, <1>10, <3>1, <3>2
  <2>5. ASSUME n.remaining > 0
        PROVE  /\ nb > NDIRECT /\ n.indirect \in Nat /\ nb <= NDIRECT + n.indirect
               /\ size < n.ino.size
               /\ n.remaining = n.ino.size - size - ((NDIRECT + n.indirect) - nb) * BLOCK_SIZE
               /\ \A x \in 0..(NINDIRECT - 1) :
                    NDIRECT + n.indirect <= NDIRECT + x /\ NDIRECT + x < old => n.ptr[x] = h[NDIRECT + x]
    <3>1. shrinks
      BY <1>9, <1>12, <2>5
    <3>2. nb > NDIRECT /\ n.indirect = nb - NDIRECT /\ NDIRECT + n.indirect = nb
      BY <1>5, <1>9, <1>10, <1>11, <3>1
    <3>3. ((NDIRECT + n.indirect) - nb) * BLOCK_SIZE = 0
      BY <1>5, <3>2, Bytes
    <3>4. n.remaining = os - size - ((NDIRECT + n.indirect) - nb) * BLOCK_SIZE
      BY <1>5, <1>9, <1>12, <3>1, <3>3
    <3>5. old > NDIRECT
      BY <1>5, <3>1, <3>2
    <3>6. PointersOn(disk, h[MAXFILE], h, old) /\ l.ino.blocks[NDIRECT] = h[MAXFILE]
      BY <1>4, <3>5 DEF Written, OldTail, old, os
    <3>7. \A x \in 0..(NINDIRECT - 1) : NDIRECT + x < old => n.ptr[x] = h[NDIRECT + x]
      BY <1>8, <1>9, <3>1, <3>6, PointersRead DEF ptr
    <3> QED
      BY <1>5, <1>9, <3>1, <3>2, <3>4, <3>7 DEF os
  <2> QED
    BY <1>9, <1>10, <1>12, <2>1, <2>2, <2>3, <2>4, <2>5 DEF Trimmed, nb, old, os
<1>14. DataOn(disk, h, c.file, nb)
  BY <1>4 DEF Written
<1>15. Phase("w_trim", n, c, hold, disk, itable)
  BY <1>4, <1>9, <1>13, <1>14 DEF Phase, Rewriting, size, nb, h, os
<1>16. \A j \in Inums : Changing(pc[t], c, j) => Changing("w_trim", c, j)
  BY DEF Changing, Rewriting
<1> QED
  BY <1>1, <1>6, <1>15, <1>16, OwnStep
(* A block past the new end is given up.                                   *)
LEMMA TrimNext ==
  ASSUME NEW h, NEW g, NEW l, NEW n, NEW size \in Nat, size <= MaxBytes,
         l.ino.size \in Nat, l.ino.size <= MaxBytes, SupportedResize(l.ino.size, size),
         Trimmed(h, l, size), l.remaining > 0,
         \A k \in Places : g[k] = IF k = NDIRECT + l.indirect THEN 0 ELSE h[k],
         n.ino = l.ino, n.final = l.final, n.over = l.over, n.ptr = l.ptr,
         n.indirect = l.indirect + 1, n.remaining = l.remaining - BLOCK_SIZE
  PROVE  /\ NDIRECT + l.indirect \in Places /\ l.indirect \in 0..(NINDIRECT - 1)
         /\ l.ptr[l.indirect] = h[NDIRECT + l.indirect]
         /\ NDIRECT + l.indirect >= Blocks(size)
         /\ Trimmed(g, n, size)
<1> DEFINE nb == Blocks(size)
           old == Blocks(l.ino.size)
           next == NDIRECT + l.indirect
           os == l.ino.size
<1>1. /\ nb > NDIRECT /\ l.indirect \in Nat /\ nb <= next /\ size < os /\ l.remaining \in Int
      /\ l.remaining = os - size - (next - nb) * BLOCK_SIZE
      /\ \A x \in 0..(NINDIRECT - 1) : next <= NDIRECT + x /\ NDIRECT + x < old => l.ptr[x] = h[NDIRECT + x]
  BY DEF Trimmed
<1>2. /\ nb \in Nat /\ old \in Nat /\ old <= MAXFILE /\ MAXFILE = NDIRECT + NINDIRECT
      /\ NDIRECT \in Nat /\ NINDIRECT \in Nat /\ MAXFILE \in Nat
  BY BlocksMost, Bytes
<1>3. Blocks(os - size) = old - nb
  <2>1. ~(size > BLOCK_SIZE * MAXFILE)
    BY Bytes DEF MaxBytes
  <2> QED
    BY <1>1, <2>1 DEF SupportedResize
<1>4. /\ next - nb \in Nat /\ os - size \in Nat /\ next \in Nat
      /\ (next + 1) - nb \in Nat /\ (next - nb) + 1 = (next + 1) - nb
  BY <1>1, <1>2
<1> HIDE DEF nb, old, next, os
<1>5. /\ (next - nb) * BLOCK_SIZE \in Int
      /\ ((next - nb) + 1) * BLOCK_SIZE = (next - nb) * BLOCK_SIZE + BLOCK_SIZE
  BY <1>4, BytesNext
<1>6. next < old
  <2>1. (next - nb) * BLOCK_SIZE < os - size
    BY <1>1, <1>4, <1>5
  <2>2. next - nb < Blocks(os - size)
    BY <1>4, <2>1, BlocksBelow
  <2> QED
    BY <1>2, <1>3, <1>4, <2>2
<1>7. n.remaining \in Int /\ n.remaining = os - size - ((next + 1) - nb) * BLOCK_SIZE
  BY <1>1, <1>4, <1>5, Bytes
<1>8. n.remaining > 0 <=> next + 1 < old
  <2>1. n.remaining > 0 <=> ((next + 1) - nb) * BLOCK_SIZE < os - size
    BY <1>4, <1>5, <1>7, Bytes
  <2>2. (next + 1) - nb < Blocks(os - size) <=> ((next + 1) - nb) * BLOCK_SIZE < os - size
    BY <1>4, BlocksBelow
  <2> QED
    BY <1>2, <1>3, <1>4, <2>1, <2>2
<1>9. next \in NDIRECT..(MAXFILE - 1) /\ next \in Places /\ l.indirect \in 0..(NINDIRECT - 1)
  <2>1. next = NDIRECT + l.indirect
    BY DEF next
  <2>2. l.indirect \in Nat
    BY <1>1
  <2> QED
    BY <1>2, <1>6, <2>1, <2>2 DEF Places
<1>10. l.ptr[l.indirect] = h[next]
  BY <1>1, <1>6, <1>9 DEF next
<1>11. g[next] = 0 /\ \A k \in Places \ {next} : g[k] = h[k]
  BY <1>9 DEF next
<1>12. NDIRECT + n.indirect = next + 1
  BY <1>1, <1>2 DEF next
<1>13. Trimmed(g, n, size)
  <2>1. \A k \in 0..(NDIRECT - 1) :
          IF k < nb THEN g[k] # 0 /\ n.ino.blocks[k] = g[k] ELSE g[k] = 0 /\ n.ino.blocks[k] = 0
    <3>1. \A k \in 0..(NDIRECT - 1) : g[k] = h[k]
      BY <1>2, <1>9, <1>11, InPlaces
    <3> QED
      BY <3>1 DEF Trimmed, nb
  <2>2. ASSUME NEW k \in NDIRECT..(MAXFILE - 1)
        PROVE  g[k] # 0 <=> k < nb \/ (n.remaining > 0 /\ next + 1 <= k /\ k < old)
    <3>1. CASE k = next
      BY <1>1, <1>2, <1>4, <1>11, <3>1
    <3>2. CASE k # next
      <4>1. h[k] # 0 <=> k < nb \/ (next <= k /\ k < old)
        BY DEF Trimmed, nb, old, next
      <4>2. g[k] = h[k]
        BY <1>11, <3>2, InPlaces
      <4> QED
        BY <1>2, <1>4, <1>8, <3>2, <4>1, <4>2
    <3> QED
      BY <3>1, <3>2
  <2>3. ASSUME NEW x \in 0..(NINDIRECT - 1), NDIRECT + x < nb PROVE n.final[x] = g[NDIRECT + x]
    <3>1. NDIRECT + x # next /\ NDIRECT + x \in Places
      BY <1>1, <1>2, <1>4, <2>3, InPlaces
    <3>2. l.final[x] = h[NDIRECT + x]
      BY <2>3 DEF Trimmed, nb
    <3> QED
      BY <1>11, <3>1, <3>2
  <2>4. n.ino.blocks[NDIRECT] = g[MAXFILE] /\ (g[MAXFILE] # 0 <=> nb > NDIRECT)
    <3>1. g[MAXFILE] = h[MAXFILE]
      BY <1>2, <1>9, <1>11, InPlaces
    <3> QED
      BY <3>1 DEF Trimmed, nb
  <2>5. n.over <=> nb > NDIRECT
    BY DEF Trimmed, nb
  <2>6. ASSUME NEW x \in 0..(NINDIRECT - 1), next + 1 <= NDIRECT + x, NDIRECT + x < old
        PROVE  n.ptr[x] = g[NDIRECT + x]
    <3>1. NDIRECT + x # next /\ NDIRECT + x \in Places /\ next <= NDIRECT + x
      BY <1>2, <1>4, <2>6, InPlaces
    <3> QED
      BY <1>1, <1>11, <2>6, <3>1
  <2>7. nb > NDIRECT /\ n.indirect \in Nat /\ nb <= NDIRECT + n.indirect /\ size < n.ino.size
    BY <1>1, <1>2, <1>4, <1>12 DEF os
  <2>8. \A k \in NDIRECT..(MAXFILE - 1) :
          g[k] # 0 <=> k < nb \/ (n.remaining > 0 /\ NDIRECT + n.indirect <= k /\ k < old)
    BY <1>12, <2>2
  <2>9. \A x \in 0..(NINDIRECT - 1) :
          NDIRECT + n.indirect <= NDIRECT + x /\ NDIRECT + x < old => n.ptr[x] = g[NDIRECT + x]
    BY <1>12, <2>6
  <2>10. n.remaining = n.ino.size - size - ((NDIRECT + n.indirect) - nb) * BLOCK_SIZE
    BY <1>7, <1>12 DEF os
  <2> QED
    BY <1>7, <2>1, <2>3, <2>4, <2>5, <2>7, <2>8, <2>9, <2>10 DEF Trimmed, nb, old
<1> QED
  BY <1>1, <1>2, <1>4, <1>9, <1>10, <1>13 DEF next, nb

LEMMA WriteTrimFiles ==
  ASSUME InodeInv, LockInv, NEW hold, FilesFor(hold), NEW t \in Threads, WriteTrim(t) PROVE FilesInv'
<1> DEFINE l == loc[t]
           c == call[t]
           i == c.inum
           h == hold[i]
           size == Size(c.file)
<1>1. pc[t] = "w_trim"
  BY DEF WriteTrim
<1>2. LocalOK("w_trim", l, c) /\ Phase("w_trim", l, c, hold, disk, itable)
  BY <1>1, LocalFact, PhaseFact
<1>3. Shape(l) /\ i \in Inums /\ c # Nil /\ c.file \in Files /\ size <= MaxBytes /\ Fits(l.ino)
  BY <1>2, NilAssumption DEF LocalOK, Rewriting
<1>4. /\ itable[i] # Nil /\ l.ino.size = itable[i].size /\ l.ino.type = itable[i].type
      /\ SupportedResize(l.ino.size, size) /\ Trimmed(h, l, size) /\ DataOn(disk, h, c.file, Blocks(size))
  BY <1>2 DEF Phase, Rewriting
<1>5. size \in Nat /\ l.ino.size \in Nat /\ l.ino.size <= MaxBytes /\ l.remaining \in Int
  BY <1>3, <1>4, FilesAssumption, SizeType DEF Size, Fits, Trimmed
<1>6. DOMAIN h = Places /\ \A k \in Places : h[k] # Wild
  BY <1>3, HoldType
<1>7. CASE l.remaining <= 0
  <2> DEFINE n == [l EXCEPT !.ptr = Nil]
  <2>1. Goto(t, "w_ptrs", n) /\ UNCHANGED <<used, disk, itable, call, contents, undefined>>
    BY <1>7 DEF WriteTrim
  <2>2. /\ n.ino = l.ino /\ n.final = l.final /\ n.over = l.over /\ n.indirect = l.indirect
        /\ n.remaining = l.remaining
    BY <1>3 DEF Shape
  <2> HIDE DEF n
  <2>3. ~(l.remaining > 0) /\ n.remaining <= 0
    BY <1>5, <1>7, <2>2
  <2>4. Trimmed(h, n, size)
    <3> HIDE DEF h, size, l
    <3> QED
      BY <1>4, <2>2, <2>3 DEF Trimmed
  <2>5. Phase("w_ptrs", n, c, hold, disk, itable)
    BY <1>4, <2>2, <2>3, <2>4 DEF Phase, Rewriting
  <2>6. \A j \in Inums : Changing(pc[t], c, j) => Changing("w_ptrs", c, j)
    BY DEF Changing, Rewriting
  <2>7. FilesFor(hold)'
    BY <1>1, <2>1, <2>5, <2>6, OwnStep
  <2> QED
    BY <2>7 DEF FilesInv
<1>8. CASE ~(l.remaining <= 0)
  <2> DEFINE n == [l EXCEPT !.indirect = @ + 1, !.remaining = @ - BLOCK_SIZE]
             k == NDIRECT + l.indirect
  <2>1. l.remaining > 0
    BY <1>5, <1>8
  <2>2. /\ n.ino = l.ino /\ n.final = l.final /\ n.over = l.over /\ n.ptr = l.ptr
        /\ n.indirect = l.indirect + 1 /\ n.remaining = l.remaining - BLOCK_SIZE
    BY <1>3 DEF Shape
  <2> HIDE DEF n, l, h, size
  <2>3. /\ k \in Places /\ l.indirect \in 0..(NINDIRECT - 1) /\ l.ptr[l.indirect] = h[k] /\ k >= Blocks(size)
        /\ \A g : g = [h EXCEPT ![k] = 0] => Trimmed(g, n, size)
    <3>1. ASSUME NEW g, \A x \in Places : g[x] = IF x = NDIRECT + l.indirect THEN 0 ELSE h[x]
          PROVE  /\ NDIRECT + l.indirect \in Places /\ l.indirect \in 0..(NINDIRECT - 1)
                 /\ l.ptr[l.indirect] = h[NDIRECT + l.indirect]
                 /\ NDIRECT + l.indirect >= Blocks(size)
                 /\ Trimmed(g, n, size)
      <4>1. /\ size \in Nat /\ size <= MaxBytes /\ l.ino.size \in Nat /\ l.ino.size <= MaxBytes
            /\ SupportedResize(l.ino.size, size) /\ Trimmed(h, l, size) /\ DOMAIN h = Places
        BY <1>3, <1>4, <1>5, <1>6
      <4> QED
        BY <2>1, <2>2, <3>1, <4>1, TrimNext
    <3>2. PICK g0 : g0 = [x \in Places |-> IF x = NDIRECT + l.indirect THEN 0 ELSE h[x]]
      OBVIOUS
    <3>3. /\ NDIRECT + l.indirect \in Places /\ l.indirect \in 0..(NINDIRECT - 1)
          /\ l.ptr[l.indirect] = h[NDIRECT + l.indirect] /\ NDIRECT + l.indirect >= Blocks(size)
      <4>1. \A x \in Places : g0[x] = IF x = NDIRECT + l.indirect THEN 0 ELSE h[x]
        BY <3>2
      <4> QED
        BY <3>1, <4>1
    <3>4. ASSUME NEW g, g = [h EXCEPT ![k] = 0] PROVE Trimmed(g, n, size)
      <4>1. \A x \in Places : g[x] = IF x = NDIRECT + l.indirect THEN 0 ELSE h[x]
        BY <1>6, <3>3, <3>4
      <4> QED
        BY <3>1, <4>1
    <3> QED
      BY <3>3, <3>4
  <2>4. /\ FreeBlock(h[k]) /\ Goto(t, "w_trim", n)
        /\ UNCHANGED <<disk, itable, call, contents, undefined>>
    <3>1. ~(l.indirect >= NINDIRECT \/ l.ptr[l.indirect] = Wild)
      BY <1>6, <2>3, Bytes
    <3> QED
      BY <1>8, <2>3, <3>1 DEF WriteTrim, l, n
  <2>5. ASSUME NEW held, held[i] = [h EXCEPT ![k] = 0] PROVE Phase("w_trim", n, c, held, disk, itable)
    <3>1. Trimmed(held[i], n, size)
      BY <2>3, <2>5
    <3>2. DataOn(disk, held[i], c.file, Blocks(size))
      <4>1. Blocks(size) \in Nat /\ k \in Int
        BY <1>5, <2>3, BlocksIs, Bytes DEF Places
      <4> HIDE DEF k
      <4>2. \A m \in 0..(MAXFILE - 1) : m < Blocks(size) => held[i][m] = h[m]
        BY <1>6, <2>3, <2>5, <4>1, InPlaces
      <4> QED
        BY <1>4, <4>2 DEF DataOn
    <3> QED
      BY <1>4, <2>2, <3>1, <3>2 DEF Phase, Rewriting, size
  <2>6. Changing(pc[t], c, i) /\ Changing("w_trim", c, i)
    BY <1>1, <1>3 DEF Changing, Rewriting
  <2> HIDE DEF k
  <2> QED
    BY <1>3, <2>3, <2>4, <2>5, <2>6, FreeStep DEF h
<1> QED
  BY <1>7, <1>8

(* The new indirect block makes the file whole.                            *)
LEMMA WritePointersFiles ==
  ASSUME InodeInv, LockInv, NEW hold, FilesFor(hold), NEW t \in Threads, WritePointers(t) PROVE FilesInv'
<1> DEFINE l == loc[t]
           c == call[t]
           i == c.inum
           h == hold[i]
           size == Size(c.file)
           nb == Blocks(size)
           ino == [l.ino EXCEPT !.size = size]
<1>1. pc[t] = "w_ptrs" /\ UNCHANGED <<used, itable, call, contents, undefined>> /\ Goto(t, "w_free8", l)
  BY DEF WritePointers
<1>2. LocalOK("w_ptrs", l, c) /\ Phase("w_ptrs", l, c, hold, disk, itable)
  BY <1>1, LocalFact, PhaseFact
<1>3. Shape(l) /\ i \in Inums /\ c # Nil /\ c.file \in Files /\ size <= MaxBytes /\ Fits(l.ino)
  BY <1>2, NilAssumption DEF LocalOK, Rewriting
<1>4. /\ itable[i] # Nil /\ l.ino.size = itable[i].size /\ l.ino.type = itable[i].type
      /\ SupportedResize(l.ino.size, size) /\ Trimmed(h, l, size) /\ DataOn(disk, h, c.file, nb)
      /\ l.remaining <= 0
  BY <1>2 DEF Phase, Rewriting
<1>5. /\ size \in Nat /\ nb \in Nat /\ nb <= MAXFILE /\ NDIRECT \in Nat /\ MAXFILE \in Nat /\ MAXFILE > NDIRECT
  <2>1. size \in Nat
    BY <1>3, FilesAssumption DEF Size
  <2> QED
    BY <1>3, <2>1, BlocksMost, Bytes
<1>6. ino.size = size /\ ino.blocks = l.ino.blocks
  BY <1>3 DEF Fits, Inodes
<1> HIDE DEF ino, nb, size, h
<1>7. Pointed(h, ino)
  BY <1>4, <1>6 DEF Trimmed, Pointed
<1>8. Exactly(h, nb)
  <2> SUFFICES ASSUME NEW k \in Places PROVE h[k] # 0 <=> k < nb \/ (k = MAXFILE /\ nb > NDIRECT)
    BY DEF Exactly
  <2>1. ~(l.remaining > 0)
    BY <1>4 DEF Trimmed
  <2>2. CASE k \in 0..(NDIRECT - 1)
    BY <1>4, <1>5, <2>2 DEF Trimmed, nb
  <2>3. CASE k \in NDIRECT..(MAXFILE - 1)
    <3>1. h[k] # 0 <=> k < nb
      BY <1>4, <2>1, <2>3 DEF Trimmed, nb
    <3> QED
      BY <1>5, <2>3, <3>1
  <2>4. CASE k = MAXFILE
    <3>1. h[k] # 0 <=> nb > NDIRECT
      BY <1>4, <2>4 DEF Trimmed, nb
    <3> QED
      BY <1>5, <2>4, <3>1
  <2> QED
    BY <1>5, <2>2, <2>3, <2>4 DEF Places
<1>9. Changing(pc[t], c, i) /\ Changing("w_free8", c, i)
  BY <1>1, <1>3 DEF Changing, Rewriting
<1>10. ASSUME NEW e, DataOn(e, h, c.file, nb), nb > NDIRECT => PointersOn(e, h[MAXFILE], h, nb)
       PROVE  Phase("w_free8", l, c, hold, e, itable)
  <2>1. Laid(e, h, ino, c.file)
    BY <1>6, <1>7, <1>8, <1>10 DEF Laid, nb, size
  <2> QED
    BY <1>4, <2>1 DEF Phase, Rewriting, ino, size, h
<1>11. CASE l.over
  <2>1. /\ nb > NDIRECT /\ l.ino.blocks[NDIRECT] = h[MAXFILE] /\ h[MAXFILE] # 0
        /\ \A x \in 0..(NINDIRECT - 1) : l.final[x] = IF NDIRECT + x < nb THEN h[NDIRECT + x] ELSE Wild
    BY <1>4, <1>11 DEF Trimmed, nb
  <2>2. WriteBlock(h[MAXFILE], Pointers(l.final))
    BY <1>11, <2>1 DEF WritePointers
  <2>3. ASSUME NEW e, e[h[MAXFILE]] = Pointers(l.final),
               \A k \in Places \ {MAXFILE} : h[k] # 0 => e[h[k]] = disk[h[k]]
        PROVE  Phase("w_free8", l, c, hold, e, itable)
    <3>1. DataOn(e, h, c.file, nb)
      <4>1. \A k \in 0..(MAXFILE - 1) : k \in Places \ {MAXFILE}
        BY <1>5, InPlaces
      <4> QED
        BY <1>4, <2>3, <4>1 DEF DataOn
    <3>2. PointersOn(e, h[MAXFILE], h, nb)
      BY <2>1, <2>3 DEF PointersOn, Pointers
    <3> QED
      BY <1>10, <3>1, <3>2
  <2> QED
    BY <1>1, <1>3, <1>9, <2>1, <2>2, <2>3, InPlaces, DiskWrite DEF h
<1>12. CASE ~l.over
  <2>1. UNCHANGED disk
    BY <1>12 DEF WritePointers
  <2>2. ~(nb > NDIRECT)
    BY <1>4, <1>12 DEF Trimmed, nb
  <2>3. Phase("w_free8", l, c, hold, disk, itable)
    BY <1>4, <1>10, <2>2
  <2>4. \A j \in Inums : Changing(pc[t], c, j) => Changing("w_free8", c, j)
    BY DEF Changing, Rewriting
  <2>5. FilesFor(hold)'
    BY <1>1, <2>1, <2>3, <2>4, OwnStep
  <2> QED
    BY <2>5 DEF FilesInv
<1> QED
  BY <1>11, <1>12

(* A file without indirect blocks has no indirect block to free.           *)
LEMMA WriteFreeIndirectFiles ==
  ASSUME InodeInv, NEW hold, FilesFor(hold), NEW t \in Threads, WriteFreeIndirect(t) PROVE FilesFor(hold)'
<1> DEFINE l == loc[t]
           c == call[t]
           i == c.inum
           h == hold[i]
           size == Size(c.file)
           ino == [l.ino EXCEPT !.size = size]
           n == [NoLocals EXCEPT !.ino = ino]
<1>1. /\ pc[t] = "w_free8" /\ UNCHANGED <<disk, itable, call, contents, undefined>>
      /\ Goto(t, "p_read", n)
  BY DEF WriteFreeIndirect, NewSize
<1>2. LocalOK("w_free8", l, c) /\ Phase("w_free8", l, c, hold, disk, itable)
  BY <1>1, LocalFact, PhaseFact
<1>3. i \in Inums /\ c.op = "put" /\ c.file \in Files /\ Fits(l.ino)
  BY <1>2 DEF LocalOK, Rewriting
<1>4. /\ itable[i] # Nil /\ l.ino.type = itable[i].type /\ Laid(disk, h, ino, c.file)
  BY <1>2 DEF Phase, Rewriting
<1>5. ino.type = l.ino.type /\ ino.blocks = l.ino.blocks
  BY <1>3 DEF Fits, Inodes
<1> HIDE DEF ino
<1>6. n.ino = ino
  BY DEF NoLocals
<1> HIDE DEF n
<1>7. Phase("p_read", n, c, hold, disk, itable)
  BY <1>3, <1>4, <1>5, <1>6 DEF Phase, Rewriting
<1>8. UNCHANGED used
  <2>1. CASE NewSize(t) <= DirectBytes
    <3>1. size \in Nat
      BY <1>3, FilesAssumption DEF Size
    <3>2. ~(Blocks(size) > NDIRECT) /\ Blocks(size) \in Nat /\ MAXFILE \in Nat /\ MAXFILE > NDIRECT
      BY <2>1, <3>1, BlocksMost, Bytes DEF NewSize
    <3>3. ~(MAXFILE < Blocks(size) \/ (MAXFILE = MAXFILE /\ Blocks(size) > NDIRECT))
      BY <3>2, Bytes
    <3>4. h[MAXFILE] = 0
      BY <1>4, <3>3, InPlaces DEF Laid, Exactly
    <3>5. l.ino.blocks[NDIRECT] = 0
      BY <1>4, <1>5, <3>4 DEF Laid, Pointed
    <3>6. FreeBlock(0)
      BY <2>1, <3>5 DEF WriteFreeIndirect
    <3> QED
      BY <3>6, NoBlockZero DEF FreeBlock, InodeInv, Shared
  <2>2. CASE ~(NewSize(t) <= DirectBytes)
    BY <2>2 DEF WriteFreeIndirect
  <2> QED
    BY <2>1, <2>2
<1>9. \A j \in Inums : Changing(pc[t], c, j) => Changing("p_read", c, j)
  BY <1>3 DEF Changing
<1> QED
  BY <1>1, <1>7, <1>8, <1>9, OwnStep
-----------------------------------------------------------------------------
(* put_inode writes the other inodes of the block back as they are: nobody *)
(* who runs beside it changes one of those.                                *)

(* A file that was just created.                                           *)
LEMMA FreshLaid ==
  ASSUME NEW d, NEW h, Nothing(h), NEW type PROVE Laid(d, h, FreshInode(type), EmptyFile)
<1>1. Size(EmptyFile) = 0 /\ FreshInode(type).size = 0
      /\ \A x \in 0..NDIRECT : FreshInode(type).blocks[x] = 0
  BY DEF Size, EmptyFile, FreshInode
<1>2. Blocks(0) = 0
  <2>1. Blocks(0) \in Nat /\ (0 < Blocks(0) <=> 0 * BLOCK_SIZE < 0)
    BY BlocksIs, BlocksBelow
  <2> QED
    BY <2>1, Bytes
<1>3. Pointed(h, FreshInode(type))
  BY <1>1, Bytes, InPlaces DEF Pointed, Nothing
<1>4. Exactly(h, 0) /\ ~(0 > NDIRECT)
  BY Bytes DEF Exactly, Nothing, Places, MAXFILE
<1>5. DataOn(d, h, EmptyFile, 0)
  BY Bytes DEF DataOn
<1> QED
  BY <1>1, <1>2, <1>3, <1>4, <1>5 DEF Laid

LEMMA NoPhaseHere ==
  ASSUME NEW p, p \notin Rewriting \cup Removing, p \notin {"a_scan", "p_read", "p_write", "w_enter", "w_get", "r_enter"},
         NEW l, NEW c, NEW hold, NEW d, NEW tab
  PROVE  Phase(p, l, c, hold, d, tab)
  BY DEF Phase, Removing, Rewriting

(* A thread that works on another block of the inode table.                *)
LEMMA PhaseElsewhere ==
  ASSUME NEW p, NEW l, NEW c, NEW hold, NEW d, NEW tab, NEW new, Phase(p, l, c, hold, d, tab),
         c.op # "create", p # "a_scan", c.inum \in Inums, \A j \in Neighbours(c.inum) : new[j] = tab[j]
  PROVE  Phase(p, l, c, hold, d, new)
<1>1. new[c.inum] = tab[c.inum]
  BY DEF Neighbours
<1>2. PutInumOf(l, c) = c.inum
  BY DEF PutInumOf
<1> QED
  BY <1>1, <1>2 DEF Phase

(* What a put or a remove that writes inode i leaves to the others.        *)
LEMMA PhaseBeside ==
  ASSUME InodeInv, LockInv, NEW hold, FilesFor(hold), NEW t \in Threads, pc[t] = "p_write",
         call[t].op \in {"put", "remove"}, NEW i \in Inums, i = call[t].inum,
         NEW u \in Threads, u # t, pc[u] # "idle",
         NEW new, \A j \in Inums : j # i => new[j] = itable[j],
         call[t].op = "put" => new[i].size = Size(call[t].file)
  PROVE  Phase(pc[u], loc[u], call[u], hold, disk, new)
<1>1. LocalOK(pc[u], loc[u], call[u]) /\ LocalOK(pc[t], loc[t], call[t])
  BY LocalFact
<1>2. Phase(pc[u], loc[u], call[u], hold, disk, itable)
  BY PhaseFact
<1>3. Compatible(call[t], call[u])
  BY DEF FilesFor, Beside
<1>4. /\ call[u].op \in {"create", "put", "get", "getattr", "remove"}
  BY <1>1, LabelOp DEF Requests
<1>5. CASE call[u].op = "getattr"
  <2>1. pc[u] \notin Rewriting \cup Removing \cup {"p_read", "p_write"} \cup Locked
        /\ pc[u] \notin {"w_enter", "r_enter", "a_scan"}
    BY <1>1, <1>5, LabelOp
  <2>2. pc[u] # "w_get"
    BY <2>1 DEF Locked
  <2> QED
    BY <2>1, <2>2, NoPhaseHere
<1>6. CASE call[u].op # "getattr" /\ call[u].inum = i
  <2>1. /\ call[t].op = "put" /\ call[u].op \in {"put", "get"}
        /\ call[u].op = "put" => SupportedResize(Size(call[t].file), Size(call[u].file))
    BY <1>3, <1>4, <1>6 DEF Compatible
  <2>2. Changing(pc[t], call[t], i)
    BY <1>1, NilAssumption DEF Changing, LocalOK
  <2>3. pc[u] \notin Rewriting \cup Removing \cup {"p_read", "p_write"} \cup Locked /\ pc[u] # "a_scan"
    BY <1>6, <2>2, AloneInside DEF FilesFor
  <2>4. pc[u] = "w_enter" => call[u].op = "put"
    BY <1>1 DEF LocalOK
  <2>5. CASE pc[u] \in {"w_enter", "r_enter"}
    BY <1>6, <2>1, <2>4, <2>5 DEF Phase, Rewriting
  <2>6. CASE pc[u] \notin {"w_enter", "r_enter"}
    <3>1. pc[u] # "w_get"
      BY <2>3 DEF Locked
    <3> QED
      BY <2>3, <2>6, <3>1, NoPhaseHere
  <2> QED
    BY <2>5, <2>6
<1>7. CASE call[u].op # "getattr" /\ call[u].inum # i
  <2>1. call[u].op # "create" /\ (call[u].inum \in Inums => IBLOCK(i) # IBLOCK(call[u].inum))
    BY <1>3, <1>7 DEF Compatible
  <2>2. pc[u] # "a_scan"
    BY <1>1, <2>1 DEF LocalOK
  <2>3. CASE call[u].inum \in Inums
    <3>1. \A j \in Neighbours(call[u].inum) : new[j] = itable[j]
      BY <2>1, <2>3 DEF Neighbours
    <3> QED
      BY <1>2, <2>1, <2>2, <2>3, <3>1, PhaseElsewhere
  <2>4. CASE call[u].inum \notin Inums
    <3>1. pc[u] \notin {"p_read", "p_write", "w_get"} \cup Rewriting \cup (Removing \ {"d_get"})
      BY <1>1, <2>1, <2>4 DEF LocalOK
    <3>2. pc[u] \notin {"w_enter", "r_enter"}
      BY <1>2, <2>4 DEF Phase
    <3>3. CASE pc[u] = "d_get"
      BY <1>2, <2>4, <3>3 DEF Phase, Rewriting
    <3>4. CASE pc[u] # "d_get"
      BY <2>2, <3>1, <3>2, <3>4, NoPhaseHere
    <3> QED
      BY <3>3, <3>4
  <2> QED
    BY <2>3, <2>4
<1> QED
  BY <1>5, <1>6, <1>7
LEMMA PutWriteFiles ==
  ASSUME InodeInv, LockInv, NEW hold, FilesFor(hold), NEW t \in Threads, PutWrite(t) PROVE FilesFor(hold)'
<1> DEFINE l == loc[t]
           c == call[t]
           i == PutInum(t)
           op == c.op
           ino == IF op = "remove" THEN Nil ELSE l.ino
<1>1. pc[t] = "p_write" /\ UNCHANGED <<used, disk, call, undefined>>
  BY DEF PutWrite
<1>2. LocalOK("p_write", l, c) /\ Phase("p_write", l, c, hold, disk, itable)
  BY <1>1, LocalFact, PhaseFact
<1>3. /\ Shape(l) /\ c \in Requests /\ c # Nil /\ op \in {"create", "put", "get", "remove"} /\ Fits(l.ino)
      /\ i \in Inums /\ (op # "create" => i = c.inum) /\ (op = "create" => i = l.index)
      /\ i = PutInumOf(l, c)
  BY <1>2, NilAssumption DEF LocalOK, PutInum, PutInumOf, Inum
<1>4. /\ op = "create" => itable[i] = Nil /\ l.ino = FreshInode(c.type) /\ c.file = EmptyFile
      /\ op = "put" => itable[i] # Nil /\ l.ino.type = itable[i].type /\ Laid(disk, hold[i], l.ino, c.file)
      /\ op = "get" => itable[i] # Nil /\ l.ino = itable[i]
      /\ op = "remove" => Nothing(hold[i])
      /\ \A j \in DOMAIN l.table : j # i => l.table[j] = itable[j]
  BY <1>2, <1>3 DEF Phase
<1>5. itable \in [Inums -> Inodes \cup {Nil}] /\ contents \in [Inums -> Records \cup {Nil}]
  BY DEF InodeInv, Shared
<1>6. PICK p \in {"r_ptrs", "exit", "return"} : \E n : Goto(t, p, n)
  <2>1. \/ \E n : Goto(t, "r_ptrs", n)
        \/ \E n : Goto(t, "exit", n)
        \/ \E n : Goto(t, "return", n)
    BY DEF PutWrite
  <2> QED
    BY <2>1
<1>7. /\ pc'[t] = p /\ p # "idle" /\ \A u \in Threads \ {t} : pc'[u] = pc[u] /\ loc'[u] = loc[u]
  BY <1>6 DEF Goto, InodeInv, Arrays
<1> HIDE DEF ino
<1>8. \A j \in Inums : itable'[j] = IF j = i THEN ino ELSE itable[j]
  <2>1. itable' = [j \in Inums |-> IF j = i THEN ino ELSE IF j \in DOMAIN l.table THEN l.table[j] ELSE itable[j]]
    BY DEF PutWrite, ino
  <2> QED
    BY <1>4, <2>1
<1>9. /\ \A j \in Inums : j # i => contents'[j] = contents[j]
      /\ contents'[i] = IF op = "get" THEN contents[i] ELSE IF op = "remove" THEN Nil
                        ELSE [type |-> ino.type, file |-> c.file]
  <2>1. contents' = [contents EXCEPT ![i] = IF op = "get" THEN @ ELSE IF op = "remove" THEN Nil
                                            ELSE [type |-> ino.type, file |-> c.file]]
    BY DEF PutWrite, ino
  <2> QED
    BY <1>3, <1>5, <2>1
<1>10. op # "remove" => ino = l.ino /\ ino \in Inodes /\ ino # Nil
  BY <1>3, NilAssumption DEF ino, Fits
<1>11. Matches(itable, contents)'
  <2>1. Matches(itable, contents)
    BY DEF FilesFor
  <2> SUFFICES ASSUME NEW j \in Inums
               PROVE  IF contents'[j] = Nil THEN itable'[j] = Nil
                      ELSE /\ itable'[j] # Nil /\ itable'[j].type = contents'[j].type
                           /\ itable'[j].size = Size(contents'[j].file)
    BY DEF Matches
  <2>2. CASE j # i
    BY <1>8, <1>9, <2>1, <2>2 DEF Matches
  <2>3. CASE j = i /\ op = "get"
    BY <1>4, <1>8, <1>9, <1>10, <2>1, <2>3 DEF Matches
  <2>4. CASE j = i /\ op = "remove"
    BY <1>8, <1>9, <2>4 DEF ino
  <2>5. CASE j = i /\ op \in {"create", "put"}
    <3>1. ino.size = Size(c.file)
      <4>1. CASE op = "create"
        BY <1>4, <1>10, <4>1 DEF FreshInode, EmptyFile, Size
      <4>2. CASE op = "put"
        BY <1>4, <1>10, <4>2 DEF Laid
      <4> QED
        BY <2>5, <4>1, <4>2
    <3>2. [type |-> ino.type, file |-> c.file] # Nil
      <4>1. [type |-> ino.type, file |-> c.file] \in Records
        BY <1>3, <1>10, <2>5 DEF Records, Inodes, Requests
      <4> QED
        BY <4>1, NilAssumption
    <3> QED
      BY <1>8, <1>9, <1>10, <2>5, <3>1, <3>2
  <2> QED
    BY <1>3, <2>2, <2>3, <2>4, <2>5
<1>12. Beside'
  BY <1>1, <1>7 DEF FilesFor, Beside
<1>13. Whole(hold)'
  <2> SUFFICES ASSUME NEW j \in Inums, \A u \in Threads : ~Changing(pc'[u], call'[u], j)
               PROVE  FileOK(disk', hold[j], itable'[j], contents'[j])
    BY DEF Whole
  <2>1. \A u \in Threads \ {t} : ~Changing(pc[u], call[u], j)
    BY <1>1, <1>7
  <2>2. ~Changing(pc[t], c, j) => FileOK(disk, hold[j], itable[j], contents[j])
    BY <2>1 DEF FilesFor, Whole
  <2>3. CASE j # i
    <3>1. ~Changing(pc[t], c, j)
      BY <1>1, <1>3, <2>3 DEF Changing, Rewriting, Removing
    <3> QED
      BY <1>1, <1>8, <1>9, <2>2, <2>3, <3>1
  <2>4. CASE j = i /\ op \in {"create", "get"}
    <3>1. ~Changing(pc[t], c, j)
      BY <1>1, <2>4 DEF Changing, Rewriting, Removing
    <3>2. CASE op = "get"
      BY <1>1, <1>4, <1>8, <1>9, <1>10, <2>2, <2>4, <3>1, <3>2
    <3>3. CASE op = "create"
      <4>1. Nothing(hold[i])
        BY <1>4, <2>2, <2>4, <3>1, <3>3 DEF FileOK
      <4>2. Laid(disk, hold[i], ino, EmptyFile)
        BY <1>4, <1>10, <3>3, <4>1, FreshLaid
      <4>3. contents'[i].file = EmptyFile
        BY <1>4, <1>9, <3>3
      <4> QED
        BY <1>1, <1>8, <1>10, <2>4, <3>3, <4>2, <4>3 DEF FileOK
    <3> QED
      BY <2>4, <3>2, <3>3
  <2>5. CASE j = i /\ op = "put"
    <3>1. contents'[i].file = c.file
      BY <1>9, <2>5
    <3> QED
      BY <1>1, <1>4, <1>8, <1>10, <2>5, <3>1 DEF FileOK
  <2>6. CASE j = i /\ op = "remove"
    BY <1>1, <1>4, <1>8, <2>6 DEF FileOK, ino
  <2> QED
    BY <1>3, <2>3, <2>4, <2>5, <2>6
<1>14. Phases(hold)'
  <2> SUFFICES ASSUME NEW u \in Threads, pc'[u] # "idle"
               PROVE  Phase(pc'[u], loc'[u], call'[u], hold, disk', itable')
    BY DEF Phases
  <2>1. CASE u = t
    BY <1>7, <2>1, NoPhase
  <2>2. CASE u # t
    <3>1. pc'[u] = pc[u] /\ loc'[u] = loc[u] /\ call'[u] = call[u] /\ pc[u] # "idle"
      BY <1>1, <1>7, <2>2
    <3>2. CASE op = "get"
      <4>1. itable' = itable
        <5>1. itable' = [j \in Inums |-> itable'[j]]
          BY DEF PutWrite
        <5>2. \A j \in Inums : itable'[j] = itable[j]
          BY <1>4, <1>8, <1>10, <3>2
        <5> QED
          BY <1>5, <5>1, <5>2
      <4>2. Phase(pc[u], loc[u], call[u], hold, disk, itable)
        BY <3>1, PhaseFact
      <4> QED
        BY <1>1, <3>1, <4>1, <4>2
    <3>3. CASE op \in {"put", "remove"}
      <4>1. /\ \A j \in Inums : j # i => itable'[j] = itable[j]
            /\ op = "put" => itable'[i].size = Size(c.file)
        BY <1>3, <1>4, <1>8, <1>10, <3>3 DEF Laid
      <4>2. PICK new : new = itable'
        OBVIOUS
      <4>3. Phase(pc[u], loc[u], call[u], hold, disk, new)
        BY <1>1, <1>3, <2>2, <3>1, <3>3, <4>1, <4>2, PhaseBeside
      <4> QED
        BY <1>1, <3>1, <4>2, <4>3
    <3>4. CASE op = "create"
      <4>1. Compatible(c, call[u])
        BY <1>1, <2>2, <3>1 DEF FilesFor, Beside
      <4>2. call[u].op = "getattr"
        BY <3>4, <4>1 DEF Compatible
      <4>3. LocalOK(pc[u], loc[u], call[u])
        BY LocalFact
      <4>4. /\ pc[u] \notin Rewriting \cup Removing \cup {"p_read", "p_write"} \cup Locked
            /\ pc[u] \notin {"w_enter", "r_enter", "a_scan"}
        BY <3>1, <4>2, <4>3, LabelOp
      <4>5. pc[u] # "w_get"
        BY <4>4 DEF Locked
      <4> QED
        BY <3>1, <4>4, <4>5, NoPhaseHere
    <3> QED
      BY <1>3, <3>2, <3>3, <3>4
  <2> QED
    BY <2>1, <2>2
<1>15. undefined' = FALSE /\ Owns(used, hold)'
  BY <1>1 DEF FilesFor
<1> QED
  BY <1>11, <1>12, <1>13, <1>14, <1>15 DEF FilesFor

-----------------------------------------------------------------------------
(* Calls begin and return.                                                 *)

LEMMA ReturnFiles ==
  ASSUME InodeInv, NEW hold, FilesFor(hold), NEW t \in Threads, Return(t) PROVE FilesFor(hold)'
<1>1. /\ pc[t] = "return" /\ pc'[t] = "idle" /\ call'[t] = Nil
      /\ \A u \in Threads \ {t} : pc'[u] = pc[u] /\ loc'[u] = loc[u] /\ call'[u] = call[u]
      /\ UNCHANGED <<used, disk, itable, contents, undefined>>
  BY DEF Return, Goto, InodeInv, Arrays
<1>2. undefined' = FALSE /\ Matches(itable, contents)' /\ Owns(used, hold)'
  BY <1>1 DEF FilesFor
<1>3. Beside' /\ Phases(hold)'
  BY <1>1 DEF FilesFor, Beside, Phases
<1>4. Whole(hold)'
  <2> SUFFICES ASSUME NEW i \in Inums, \A u \in Threads : ~Changing(pc'[u], call'[u], i)
               PROVE  FileOK(disk', hold[i], itable'[i], contents'[i])
    BY DEF Whole
  <2>1. ~Changing(pc[t], call[t], i)
    BY <1>1 DEF Changing, Rewriting, Removing
  <2>2. \A u \in Threads : ~Changing(pc[u], call[u], i)
    BY <1>1, <2>1
  <2> QED
    BY <1>1, <2>2 DEF FilesFor, Whole
<1> QED
  BY <1>2, <1>3, <1>4 DEF FilesFor

LEMMA BeginFiles ==
  ASSUME InodeInv, NEW hold, FilesFor(hold), NEW t \in Threads,
         NEW c, NEW p \in {"a_scan", "w_enter", "r_enter", "g_get", "d_get"}, Begin(t, c, p), Apart,
         Supported(c, contents) => Phase(p, NoLocals, c, hold, disk, itable)
  PROVE  FilesFor(hold)'
<1>1. /\ pc[t] = "idle" /\ pc'[t] = p /\ call'[t] = c /\ loc'[t] = NoLocals
      /\ \A u \in Threads \ {t} : pc'[u] = pc[u] /\ loc'[u] = loc[u] /\ call'[u] = call[u]
      /\ UNCHANGED <<used, disk, itable, contents, undefined>>
  BY DEF Begin, Goto, InodeInv, Arrays
<1>2. ApartWorkload(c, contents, Running(t))
  BY <1>1 DEF Apart
<1>3. undefined' = FALSE /\ Matches(itable, contents)' /\ Owns(used, hold)'
  BY <1>1 DEF FilesFor
<1>4. Phases(hold)'
  BY <1>1, <1>2 DEF FilesFor, Phases, ApartWorkload
<1>5. Beside'
  <2>1. ASSUME NEW u \in Threads, u # t, pc[u] # "idle" PROVE Compatible(c, call[u]) /\ Compatible(call[u], c)
    <3>1. call[u] # Nil
      BY <2>1, LocalFact, LabelOp
    <3>2. call[u] \in Running(t)
      BY <2>1, <3>1 DEF Running
    <3>3. Compatible(c, call[u])
      BY <1>2, <3>2 DEF ApartWorkload
    <3> QED
      BY <3>3 DEF Compatible
  <2> QED
    BY <1>1, <2>1 DEF FilesFor, Beside
<1>6. Whole(hold)'
  <2> SUFFICES ASSUME NEW i \in Inums, \A u \in Threads : ~Changing(pc'[u], call'[u], i)
               PROVE  FileOK(disk', hold[i], itable'[i], contents'[i])
    BY DEF Whole
  <2>1. ~Changing(pc[t], call[t], i)
    BY <1>1 DEF Changing, Rewriting, Removing
  <2>2. \A u \in Threads : ~Changing(pc[u], call[u], i)
    BY <1>1, <2>1
  <2> QED
    BY <1>1, <2>2 DEF FilesFor, Whole
<1> QED
  BY <1>3, <1>4, <1>5, <1>6 DEF FilesFor
(* What a supported call knows when it starts; the history tells the sizes *)
(* in the inode table.                                                     *)
LEMMA CallsFiles ==
  ASSUME InodeInv, NEW hold, FilesFor(hold), NEW t \in Threads, Calls(t), Apart PROVE FilesFor(hold)'
<1>1. \A i \in Inums : /\ contents[i] = Nil <=> itable[i] = Nil
                       /\ itable[i] # Nil => itable[i].size = Size(contents[i].file)
  BY DEF FilesFor, Matches
<1>2. ASSUME NEW type \in Types, CallCreate(t, type) PROVE FilesFor(hold)'
  <2> DEFINE c == Request("create", 0, type, EmptyFile)
  <2>1. c.op = "create" /\ c.file = EmptyFile
    BY DEF Request
  <2> HIDE DEF c
  <2>2. ASSUME Supported(c, contents) PROVE Phase("a_scan", NoLocals, c, hold, disk, itable)
    <3>1. PICK i \in Inums : contents[i] = Nil
      BY <2>1, <2>2 DEF Supported
    <3>2. i >= NoLocals.index /\ itable[i] = Nil
      BY <1>1, <3>1, LayoutAssumption DEF Inums, NoLocals
    <3> QED
      BY <2>1, <3>2 DEF Phase, Rewriting
  <2> QED
    BY <1>2, <2>2, BeginFiles DEF CallCreate, c
<1>3. ASSUME NEW id \in Ids, NEW f \in Files, CallPut(t, id, f) PROVE FilesFor(hold)'
  <2> DEFINE c == Request("put", Masked(id), 0, f)
  <2>1. c.op = "put" /\ c.file = f
    BY DEF Request
  <2> HIDE DEF c
  <2>2. ASSUME Supported(c, contents) PROVE Phase("w_enter", NoLocals, c, hold, disk, itable)
    <3>1. c.inum \in Inums /\ (itable[c.inum] # Nil => SupportedResize(itable[c.inum].size, Size(c.file)))
      BY <1>1, <2>1, <2>2 DEF Supported
    <3> QED
      BY <2>1, <3>1 DEF Phase, Rewriting
  <2> QED
    BY <1>3, <2>2, BeginFiles DEF CallPut, c
<1>4. ASSUME NEW id \in Ids, CallGet(t, id) PROVE FilesFor(hold)'
  <2> DEFINE c == Request("get", Masked(id), 0, EmptyFile)
  <2>1. c.op = "get"
    BY DEF Request
  <2> HIDE DEF c
  <2>2. ASSUME Supported(c, contents) PROVE Phase("r_enter", NoLocals, c, hold, disk, itable)
    <3>1. c.inum \in Inums
      BY <2>1, <2>2 DEF Supported
    <3> QED
      BY <2>1, <3>1 DEF Phase, Rewriting
  <2> QED
    BY <1>4, <2>2, BeginFiles DEF CallGet, c
<1>5. ASSUME NEW id \in Ids, CallGetattr(t, id) PROVE FilesFor(hold)'
  <2> DEFINE c == Request("getattr", Masked(id), 0, EmptyFile)
  <2>1. Phase("g_get", NoLocals, c, hold, disk, itable)
    BY NoPhase
  <2> QED
    BY <1>5, <2>1, BeginFiles DEF CallGetattr
<1>6. ASSUME NEW id \in Ids, CallRemove(t, id) PROVE FilesFor(hold)'
  <2> DEFINE c == Request("remove", Masked(id), 0, EmptyFile)
  <2>1. c.op = "remove"
    BY DEF Request
  <2> HIDE DEF c
  <2>2. ASSUME Supported(c, contents) PROVE Phase("d_get", NoLocals, c, hold, disk, itable)
    <3>1. c.inum \in Inums /\ itable[c.inum] # Nil => SupportedRemove(itable[c.inum].size)
      BY <1>1, <2>1, <2>2 DEF Supported
    <3> QED
      BY <2>1, <3>1 DEF Phase, Rewriting
  <2> QED
    BY <1>6, <2>2, BeginFiles DEF CallRemove, c
<1> QED
  BY <1>2, <1>3, <1>4, <1>5, <1>6 DEF Calls

LEMMA InitFiles == Init => FilesInv
<1> SUFFICES ASSUME Init PROVE FilesInv
  OBVIOUS
<1> DEFINE hold == [i \in Inums |-> [k \in Places |-> 0]]
<1>1. \A i \in Inums : Nothing(hold[i])
  BY DEF Nothing
<1>2. Owns(used, hold)
  BY NoBlockZero DEF Owns, Init
<1> HIDE DEF hold
<1>3. FreshInode(T_DIR) # Nil /\ [type |-> T_DIR, file |-> EmptyFile] # Nil
  <2>1. FreshInode(T_DIR) \in Inodes
    BY FreshFits DEF Fits
  <2>2. [type |-> T_DIR, file |-> EmptyFile] \in Records
    BY DEF Records, Stored
  <2> QED
    BY <2>1, <2>2, NilAssumption
<1>4. /\ \A i \in Inums : itable[i] = IF i = 0 THEN FreshInode(T_DIR) ELSE Nil
      /\ \A i \in Inums : contents[i] = IF i = 0 THEN [type |-> T_DIR, file |-> EmptyFile] ELSE Nil
      /\ \A t \in Threads : pc[t] = "idle" /\ undefined = FALSE
  BY DEF Init
<1>5. Matches(itable, contents)
  <2>1. FreshInode(T_DIR).type = T_DIR /\ FreshInode(T_DIR).size = Size(EmptyFile)
    BY DEF FreshInode, Size, EmptyFile
  <2> QED
    BY <1>3, <1>4, <2>1 DEF Matches
<1>6. Whole(hold)
  <2>1. ASSUME NEW i \in Inums PROVE FileOK(disk, hold[i], itable[i], contents[i])
    <3>1. CASE i = 0
      <4>1. Laid(disk, hold[i], FreshInode(T_DIR), EmptyFile)
        BY <1>1, FreshLaid
      <4> QED
        BY <1>3, <1>4, <3>1, <4>1 DEF FileOK
    <3>2. CASE i # 0
      BY <1>1, <1>4, <3>2 DEF FileOK
    <3> QED
      BY <3>1, <3>2
  <2> QED
    BY <2>1 DEF Whole
<1>7. Beside /\ Phases(hold) /\ undefined = FALSE
  BY <1>4 DEF Beside, Phases, Init
<1>8. FilesFor(hold)
  BY <1>2, <1>5, <1>6, <1>7 DEF FilesFor
<1> QED
  BY <1>8 DEF FilesInv

LEMMA StepFiles ==
  ASSUME InodeInv, LockInv, HasRoom, Apart, NEW hold, FilesFor(hold), NEW t \in Threads, Calls(t) \/ Step(t)
  PROVE  FilesInv'
<1>1. ASSUME FilesFor(hold)' PROVE FilesInv'
  BY <1>1 DEF FilesInv
<1>2. CASE Calls(t)
  BY <1>1, <1>2, CallsFiles
<1>3. CASE Return(t)
  BY <1>1, <1>3, ReturnFiles
<1>4. CASE Enter(t)
  BY <1>1, <1>4, EnterFiles
<1>5. CASE Exit(t) \/ Getattr(t) \/ ReadPointers(t) \/ ReadLoop(t)
  BY <1>1, <1>5, ReadFiles
<1>6. CASE AllocInode(t)
  BY <1>1, <1>6, AllocInodeFiles
<1>7. CASE PutRead(t)
  BY <1>1, <1>7, PutReadFiles
<1>8. CASE PutWrite(t)
  BY <1>1, <1>8, PutWriteFiles
<1>9. CASE ReadGet(t)
  BY <1>1, <1>9, ReadGetFiles
<1>10. CASE WriteGet(t)
  BY <1>1, <1>10, WriteGetFiles
<1>11. CASE WriteFree(t)
  BY <1>11, WriteFreeFiles
<1>12. CASE WriteLoop(t)
  BY <1>12, WriteLoopFiles
<1>13. CASE WriteStore(t)
  BY <1>13, WriteStoreFiles
<1>14. CASE WriteOld(t)
  BY <1>1, <1>14, WriteOldFiles
<1>15. CASE WriteTrim(t)
  BY <1>15, WriteTrimFiles
<1>16. CASE WritePointers(t)
  BY <1>16, WritePointersFiles
<1>17. CASE WriteFreeIndirect(t)
  BY <1>1, <1>17, WriteFreeIndirectFiles
<1>18. CASE RemoveGet(t)
  BY <1>1, <1>18, RemoveGetFiles
<1>19. CASE RemoveFree(t)
  BY <1>19, RemoveFreeFiles
<1>20. CASE RemovePointers(t)
  BY <1>20, RemovePointersFiles
<1>21. CASE FreeInode(t)
  BY <1>1, <1>21, FreeInodeFiles
<1> QED
  BY <1>2, <1>3, <1>4, <1>5, <1>6, <1>7, <1>8, <1>9, <1>10, <1>11, <1>12, <1>13, <1>14, <1>15, <1>16,
     <1>17, <1>18, <1>19, <1>20, <1>21 DEF Step, Inside

LEMMA NextFiles == InodeInv /\ LockInv /\ HasRoom /\ FilesInv /\ Apart /\ [Next]_vars => FilesInv'
<1> SUFFICES ASSUME InodeInv, LockInv, HasRoom, FilesInv, Apart, [Next]_vars PROVE FilesInv'
  OBVIOUS
<1>1. PICK hold : FilesFor(hold)
  BY DEF FilesInv
<1>2. CASE Next
  <2>1. PICK t \in Threads : Calls(t) \/ Step(t)
    BY <1>2 DEF Next
  <2> QED
    BY <1>1, <2>1, StepFiles
<1>3. CASE UNCHANGED vars
  <2>1. FilesFor(hold)'
    BY <1>1, <1>3 DEF vars, FilesFor, Matches, Beside, Owns, Whole, Phases
  <2> QED
    BY <2>1 DEF FilesInv
<1> QED
  BY <1>2, <1>3

-----------------------------------------------------------------------------
(* A workload of one supported call at a time is one the theorems are      *)
(* about, and so is ApartWorkload itself.                                  *)
LEMMA SerialIsApart ==
  ASSUME NEW c, NEW files, NEW others, SerialWorkload(c, files, others)
  PROVE  ApartWorkload(c, files, others)
  BY DEF SerialWorkload, ApartWorkload

LEMMA ServedApart == ASSUME Served PROVE InodeInv /\ [Next]_vars => Apart
<1> SUFFICES ASSUME InodeInv, [Next]_vars, NEW u \in Threads, pc[u] = "idle", pc'[u] # "idle"
             PROVE  ApartWorkload(call'[u], contents, Running(u))
  BY DEF Apart
<1>1. PICK t \in Threads : Calls(t) \/ Step(t)
  BY DEF Next, vars
<1>2. CASE Calls(t)
  <2>1. PICK c, p : Begin(t, c, p)
    BY <1>2 DEF Calls, CallCreate, CallPut, CallGet, CallGetattr, CallRemove
  <2>2. t = u /\ call'[t] = c
    BY <2>1 DEF Begin, Goto, InodeInv, Arrays
  <2> QED
    BY <2>1, <2>2 DEF Begin, Served
<1>3. CASE Step(t)
  <2>1. pc[t] # "idle" /\ (pc' = pc \/ \E p : pc' = [pc EXCEPT ![t] = p])
    BY <1>3, InsideStep DEF Step, Return, Goto
  <2> QED
    BY <2>1 DEF InodeInv, Arrays
<1> QED
  BY <1>1, <1>2, <1>3

(* The ownership of the blocks is kept by every step of every call.        *)
THEOREM FilesInvariant == ASSUME Served PROVE Spec /\ []HasRoom => []FilesInv
<1>1. Spec => []InodeInv
  BY InodeInvariant
<1>2. Spec => []LockInv
  BY LocksHeld DEF LockInv
<1> QED
  BY <1>1, <1>2, InitFiles, NextFiles, ServedApart, PTL DEF Spec
-----------------------------------------------------------------------------
(* A file that no put and no remove is at work on is whole, and the block  *)
(* in each of its places is the one that the place owns.                   *)
LEMMA SettledWhole ==
  ASSUME InodeInv, NEW hold, FilesFor(hold), NEW i \in Inums, Settled(i)
  PROVE  Laid(disk, hold[i], itable[i], contents[i].file)
<1>1. ASSUME NEW u \in Threads PROVE ~Changing(pc[u], call[u], i)
  <2>1. LocalOK(pc[u], loc[u], call[u])
    BY LocalFact
  <2> QED
    BY <2>1 DEF Settled, Changing, LocalOK, Rewriting, Removing
<1>2. FileOK(disk, hold[i], itable[i], contents[i])
  BY <1>1 DEF FilesFor, Whole
<1> QED
  BY <1>2 DEF FileOK, Settled

LEMMA PlaceOwns ==
  ASSUME InodeInv, NEW hold, FilesFor(hold), NEW i \in Inums, Settled(i), NEW k \in Positions(itable[i])
  PROVE  k \in Places /\ BlockAt(itable[i], k) = hold[i][k] /\ hold[i][k] \in DataBlocks
<1> DEFINE h == hold[i]
           ino == itable[i]
           n == Blocks(ino.size)
<1>1. /\ ino.size = Size(contents[i].file) /\ Pointed(h, ino) /\ Exactly(h, n)
      /\ n > NDIRECT => PointersOn(disk, h[MAXFILE], h, n)
  BY SettledWhole DEF Laid
<1>2. /\ ino.size \in Nat /\ n \in Nat /\ n <= MAXFILE /\ (ino.size > DirectBytes <=> n > NDIRECT)
      /\ NDIRECT \in Nat /\ MAXFILE \in Nat /\ MAXFILE > NDIRECT /\ MAXFILE = NDIRECT + NINDIRECT
  <2>1. Fits(ino)
    BY DEF Settled, InodeInv, Shared
  <2>2. ino.size \in Nat /\ ino.size <= MaxBytes
    BY <2>1, SizeType DEF Fits
  <2> QED
    BY <2>2, BlocksMost, Bytes
<1>3. \A m \in Places : h[m] \in DataBlocks \cup {0}
  BY HoldType
<1>4. k \in 0..(n - 1) \/ (k = MAXFILE /\ n > NDIRECT)
  BY <1>2 DEF Positions
<1> HIDE DEF h, ino, n
<1>5. k \in Places /\ h[k] # 0
  <2>1. k \in Places /\ (k < n \/ (k = MAXFILE /\ n > NDIRECT))
    BY <1>2, <1>4 DEF Places
  <2> QED
    BY <1>1, <2>1 DEF Exactly
<1>6. BlockAt(ino, k) = h[k]
  <2>1. CASE k < NDIRECT
    <3>1. k \in 0..(NDIRECT - 1)
      BY <1>2, <1>4, <2>1
    <3> QED
      BY <1>1, <2>1, <3>1 DEF BlockAt, Pointed
  <2>2. CASE k = MAXFILE
    BY <1>1, <1>2, <2>2 DEF BlockAt, Pointed, MAXFILE
  <2>3. CASE ~(k < NDIRECT) /\ k # MAXFILE
    <3>4. k \in 0..(n - 1) /\ NINDIRECT \in Nat
      BY <1>4, <2>3, Bytes
    <3>1. n > NDIRECT /\ k - NDIRECT \in 0..(NINDIRECT - 1) /\ NDIRECT + (k - NDIRECT) = k /\ k < n
      BY <1>2, <2>3, <3>4
    <3>2. AsPointers(ReadBlock(h[MAXFILE]))[k - NDIRECT] = h[NDIRECT + (k - NDIRECT)]
      BY <1>1, <1>3, <3>1, PointersRead, InPlaces
    <3>3. BlockAt(ino, k) = AsPointers(ReadBlock(h[MAXFILE]))[k - NDIRECT]
      BY <1>1, <2>3 DEF BlockAt, Pointed, MAXFILE
    <3> QED
      BY <3>1, <3>2, <3>3
  <2> QED
    BY <2>1, <2>2, <2>3
<1> QED
  BY <1>3, <1>5, <1>6 DEF h, ino

LEMMA RefersTo ==
  ASSUME InodeInv, NEW hold, FilesFor(hold), NEW r \in References
  PROVE  /\ r[1] \in Inums /\ r[2] \in Places /\ r = <<r[1], r[2]>>
         /\ Referenced(r) = hold[r[1]][r[2]] /\ hold[r[1]][r[2]] \in DataBlocks
<1>1. r[1] \in Inums /\ Settled(r[1]) /\ r[2] \in Positions(itable[r[1]]) /\ r = <<r[1], r[2]>>
  BY DEF References
<1> QED
  BY <1>1, PlaceOwns DEF Referenced

LEMMA OwnersApart == ASSUME InodeInv, FilesInv PROVE OneOwner
<1>1. PICK hold : FilesFor(hold)
  BY DEF FilesInv
<1>2. Owns(used, hold)
  BY <1>1 DEF FilesFor
<1>3. ASSUME NEW r \in References PROVE Referenced(r) \in used
  <2>1. /\ r[1] \in Inums /\ r[2] \in Places
        /\ Referenced(r) = hold[r[1]][r[2]] /\ hold[r[1]][r[2]] \in DataBlocks
    BY <1>1, RefersTo
  <2> QED
    BY <1>2, <2>1 DEF Owns
<1>4. ASSUME NEW r \in References, NEW s \in References, r # s PROVE Referenced(r) # Referenced(s)
  <2>1. /\ r[1] \in Inums /\ r[2] \in Places /\ r = <<r[1], r[2]>>
        /\ Referenced(r) = hold[r[1]][r[2]] /\ hold[r[1]][r[2]] \in DataBlocks
    BY <1>1, RefersTo
  <2>2. /\ s[1] \in Inums /\ s[2] \in Places /\ s = <<s[1], s[2]>>
        /\ Referenced(s) = hold[s[1]][s[2]]
    BY <1>1, RefersTo
  <2>3. hold[r[1]][r[2]] # 0
    BY <2>1, NoBlockZero
  <2>4. hold[r[1]][r[2]] = hold[s[1]][s[2]] => r[1] = s[1] /\ r[2] = s[2]
    BY <1>2, <2>1, <2>2, <2>3 DEF Owns
  <2> QED
    BY <1>4, <2>1, <2>2, <2>4
<1> QED
  BY <1>3, <1>4 DEF OneOwner

(* Between calls every inode of the table is settled.                      *)
LEMMA QuietSettled ==
  ASSUME InodeInv, Quiet, NEW i \in Inums, itable[i] # Nil PROVE Settled(i)
<1>1. \A t \in Threads : call[t] = Nil
  BY LocalFact DEF Quiet, LocalOK
<1> QED
  BY <1>1 DEF Settled

LEMMA NothingLost == ASSUME InodeInv, FilesInv PROVE NoLeak
<1>1. PICK hold : FilesFor(hold)
  BY DEF FilesInv
<1>2. Owns(used, hold) /\ used \subseteq DataBlocks
  BY <1>1 DEF FilesFor, InodeInv, Shared
<1> SUFFICES ASSUME Quiet PROVE used = {Referenced(r) : r \in References}
  BY DEF NoLeak
<1>3. ASSUME NEW b \in used PROVE \E r \in References : Referenced(r) = b
  <2>1. PICK i \in Inums, k \in Places : hold[i][k] = b
    BY <1>2 DEF Owns
  <2>2. b # 0
    BY <1>2, NoBlockZero
  <2>3. itable[i] # Nil
    <3> SUFFICES ASSUME itable[i] = Nil PROVE FALSE
      OBVIOUS
    <3>1. \A u \in Threads : ~Changing(pc[u], call[u], i)
      BY DEF Quiet, Changing, Rewriting, Removing
    <3>2. FileOK(disk, hold[i], itable[i], contents[i])
      BY <1>1, <3>1 DEF FilesFor, Whole
    <3> QED
      BY <2>1, <2>2, <3>2 DEF FileOK, Nothing
  <2>4. Settled(i)
    BY <2>3, QuietSettled
  <2>5. Laid(disk, hold[i], itable[i], contents[i].file)
    BY <1>1, <2>4, SettledWhole
  <2> DEFINE n == Blocks(itable[i].size)
  <2>6. k < n \/ (k = MAXFILE /\ n > NDIRECT)
    BY <2>1, <2>2, <2>5 DEF Laid, Exactly
  <2>7. itable[i].size \in Nat /\ n \in Nat /\ (itable[i].size > DirectBytes <=> n > NDIRECT)
    <3>1. itable[i].size \in Nat
      BY <2>3, SizeType DEF InodeInv, Shared
    <3> QED
      BY <3>1, BlocksMost
  <2>8. k \in Positions(itable[i]) /\ k \in 0..(NDIRECT + NINDIRECT)
    BY <2>6, <2>7, Bytes DEF Positions, MAXFILE, Places
  <2>9. <<i, k>> \in References
    BY <2>4, <2>8 DEF References
  <2>10. Referenced(<<i, k>>) = b
    BY <1>1, <2>1, <2>4, <2>8, PlaceOwns DEF Referenced
  <2> QED
    BY <2>9, <2>10
<1>4. ASSUME NEW r \in References PROVE Referenced(r) \in used
  BY OwnersApart DEF OneOwner
<1> QED
  BY <1>3, <1>4

LEMMA FilesReadable == ASSUME InodeInv, FilesInv PROVE ReadableFiles
<1>1. PICK hold : FilesFor(hold)
  BY DEF FilesInv
<1> SUFFICES ASSUME Quiet, NEW i \in Inums
             PROVE  IF contents[i] = Nil THEN itable[i] = Nil
                    ELSE /\ itable[i] # Nil
                         /\ itable[i].type = contents[i].type
                         /\ itable[i].size = Size(contents[i].file)
                         /\ \A k \in 0..(Blocks(itable[i].size) - 1) :
                              ReadBlock(BlockAt(itable[i], k)) = Data(contents[i].file, k)
  BY DEF ReadableFiles
<1>2. IF contents[i] = Nil THEN itable[i] = Nil
      ELSE /\ itable[i] # Nil /\ itable[i].type = contents[i].type
           /\ itable[i].size = Size(contents[i].file)
  BY <1>1 DEF FilesFor, Matches
<1>3. ASSUME itable[i] # Nil, NEW k \in 0..(Blocks(itable[i].size) - 1)
      PROVE  ReadBlock(BlockAt(itable[i], k)) = Data(contents[i].file, k)
  <2>1. Settled(i)
    BY <1>3, QuietSettled
  <2>2. k \in Positions(itable[i])
    BY DEF Positions
  <2>3. BlockAt(itable[i], k) = hold[i][k] /\ hold[i][k] \in DataBlocks
    BY <1>1, <2>1, <2>2, PlaceOwns
  <2>4. Blocks(itable[i].size) \in Nat /\ Blocks(itable[i].size) <= MAXFILE /\ MAXFILE \in Nat
    <3>1. itable[i].size \in Nat /\ itable[i].size <= MaxBytes
      BY <1>3, SizeType DEF InodeInv, Shared, Fits
    <3> QED
      BY <3>1, BlocksMost
  <2>5. k \in 0..(MAXFILE - 1) /\ k < Blocks(itable[i].size)
    BY <2>4
  <2>6. DataOn(disk, hold[i], contents[i].file, Blocks(itable[i].size))
    BY <1>1, <2>1, SettledWhole DEF Laid
  <2>7. disk[hold[i][k]] = Data(contents[i].file, k)
    BY <2>5, <2>6 DEF DataOn
  <2> QED
    BY <2>3, <2>7 DEF ReadBlock, InodeInv, Shared
<1> QED
  BY <1>2, <1>3

(* While the disk has room and the calls are those of Workload, a block    *)
(* belongs to one place of one file and is marked in the bitmap, whatever  *)
(* write_file and remove_file have freed and allocated before and beside.  *)
THEOREM BlocksHaveOneOwner == ASSUME Served PROVE Spec /\ []HasRoom => []OneOwner
<1>1. InodeInv /\ FilesInv => OneOwner
  BY OwnersApart
<1> QED
  BY <1>1, FilesInvariant, InodeInvariant, PTL

(* Between calls no block is marked that no file has: write_file and       *)
(* remove_file give back every block a file no longer needs.               *)
THEOREM NoBlockIsLost == ASSUME Served PROVE Spec /\ []HasRoom => []NoLeak
<1>1. InodeInv /\ FilesInv => NoLeak
  BY NothingLost
<1> QED
  BY <1>1, FilesInvariant, InodeInvariant, PTL

(* Between calls the blocks of every file hold what the last put wrote.    *)
THEOREM FilesAreReadable == ASSUME Served PROVE Spec /\ []HasRoom => []ReadableFiles
<1>1. InodeInv /\ FilesInv => ReadableFiles
  BY FilesReadable
<1> QED
  BY <1>1, FilesInvariant, InodeInvariant, PTL

(* No call follows a pointer that was never stored: not the uninitialised  *)
(* words of final_indirect_block, not a null inode.                        *)
THEOREM NoWildPointer == ASSUME Served PROVE Spec /\ []HasRoom => []StaysDefined
<1>1. FilesInv => StaysDefined
  BY DEF FilesInv, FilesFor, StaysDefined
<1> QED
  BY <1>1, FilesInvariant, PTL
=============================================================================

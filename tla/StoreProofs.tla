------------------------------ MODULE StoreProofs ------------------------------
(***************************************************************************)
(* The inode layer is a FileStore: under the workloads of Workload, on a   *)
(* disk that does not fill up, every call takes effect in one step and     *)
(* answers what the files were at that step.                               *)
(***************************************************************************)
EXTENDS FileProofs

(* A call has its answer once it is done with the files, and not before.   *)
Answered == {"exit", "return"}
RepliesOK == DOMAIN reply = Threads /\ \A t \in Threads : reply[t] = Nil <=> pc[t] \notin Answered

(* read_file has the inode and the pointers that are in the table and on   *)
(* the disk, and has read the first blocks of the file.                    *)
ReadOK(p, l, c, d, tab, con) ==
  LET n == Blocks(l.ino.size)
      pointers == IF l.ino.blocks[NDIRECT] \in DOMAIN d THEN d[l.ino.blocks[NDIRECT]] ELSE Junk
  IN /\ p \in {"r_ptrs", "r_loop"} => tab[c.inum] # Nil /\ l.ino = tab[c.inum]
     /\ p = "r_loop" =>
          /\ l.index <= n /\ (l.remaining = 0 => l.index = n)
          /\ \A x \in 0..(NINDIRECT - 1) : NDIRECT + x < n => l.ptr[x] = AsPointers(pointers)[x]
          /\ \A k \in 0..(l.index - 1) : l.data[k] = Data(con[c.inum].file, k)
Reads == \A t \in Threads : ReadOK(pc[t], loc[t], call[t], disk, itable, contents)

AnswerInv == RepliesOK /\ Reads
-----------------------------------------------------------------------------
(* While a thread reads a file nobody changes it.                          *)
Reader(u) == pc[u] \in {"r_ptrs", "r_loop"}

LEMMA ReaderWhole ==
  ASSUME InodeInv, LockInv, NEW hold, FilesFor(hold), NEW u \in Threads, Reader(u)
  PROVE  /\ call[u].inum \in Inums /\ call[u].op = "get" /\ pc[u] # "idle"
         /\ \A t \in Threads : ~Changing(pc[t], call[t], call[u].inum)
         /\ FileOK(disk, hold[call[u].inum], itable[call[u].inum], contents[call[u].inum])
<1>1. LocalOK(pc[u], loc[u], call[u]) /\ pc[u] # "idle" /\ pc[u] \in Locked
  BY LocalFact DEF Reader, Locked
<1>2. call[u].inum \in Inums /\ call[u].op = "get"
  BY <1>1 DEF LocalOK, Reader
<1>3. ~Changing(pc[u], call[u], call[u].inum)
  BY DEF Changing, Reader, Rewriting, Removing
<1>4. ASSUME NEW t \in Threads PROVE ~Changing(pc[t], call[t], call[u].inum)
  BY <1>1, <1>2, <1>3, AloneInside DEF FilesFor
<1> QED
  BY <1>1, <1>2, <1>4 DEF FilesFor, Whole

(* What put_inode leaves in the table.                                     *)
LEMMA PutWriteEffect ==
  ASSUME InodeInv, NEW hold, FilesFor(hold), NEW t \in Threads, PutWrite(t)
  PROVE  /\ PutInum(t) \in Inums
         /\ itable'[PutInum(t)] = IF call[t].op = "remove" THEN Nil ELSE loc[t].ino
         /\ \A j \in Inums : j # PutInum(t) => itable'[j] = itable[j] /\ contents'[j] = contents[j]
<1> DEFINE l == loc[t]
           c == call[t]
           i == PutInum(t)
<1>1. pc[t] = "p_write"
  BY DEF PutWrite
<1>2. LocalOK("p_write", l, c) /\ Phase("p_write", l, c, hold, disk, itable)
  BY <1>1, LocalFact, PhaseFact
<1>3. i \in Inums /\ i = PutInumOf(l, c)
  BY <1>2 DEF LocalOK, PutInum, PutInumOf, Inum
<1>4. \A j \in DOMAIN l.table : j # i => l.table[j] = itable[j]
  BY <1>2, <1>3 DEF Phase
<1>5. contents \in [Inums -> Records \cup {Nil}]
  BY DEF InodeInv, Shared
<1>6. itable' = [j \in Inums |-> IF j = i THEN (IF c.op = "remove" THEN Nil ELSE l.ino)
                                 ELSE IF j \in DOMAIN l.table THEN l.table[j] ELSE itable[j]]
  BY DEF PutWrite
<1>7. \E x : contents' = [contents EXCEPT ![i] = x]
  BY DEF PutWrite
<1> HIDE DEF i
<1>8. \A j \in Inums : j # i => contents'[j] = contents[j]
  BY <1>5, <1>7
<1>9. itable'[i] = IF c.op = "remove" THEN Nil ELSE l.ino
  BY <1>3, <1>6
<1>10. \A j \in Inums : j # i => itable'[j] = itable[j]
  BY <1>4, <1>6
<1> QED
  BY <1>3, <1>8, <1>9, <1>10 DEF i

LEMMA ReaderApart ==
  ASSUME InodeInv, LockInv, NEW hold, FilesFor(hold), NEW t \in Threads, NEW u \in Threads, t # u,
         Reader(u), PutWrite(t)
  PROVE  PutInum(t) # call[u].inum
<1> SUFFICES ASSUME PutInum(t) = call[u].inum PROVE FALSE
  OBVIOUS
<1>1. /\ call[u].inum \in Inums /\ call[u].op = "get" /\ pc[u] # "idle"
      /\ ~Changing(pc[t], call[t], call[u].inum)
  BY ReaderWhole
<1>2. pc[t] = "p_write"
  BY DEF PutWrite
<1>3. LocalOK("p_write", loc[t], call[t])
  BY <1>2, LocalFact
<1>4. call[t].op \in {"create", "put", "get", "remove"} /\ call[t] # Nil
  BY <1>3, NilAssumption DEF LocalOK
<1>5. Compatible(call[t], call[u])
  BY <1>1, <1>2 DEF FilesFor, Beside
<1>6. call[t].op # "create"
  BY <1>1, <1>4, <1>5 DEF Compatible
<1>7. call[t].inum = call[u].inum
  BY <1>6 DEF PutInum, Inum
<1>8. call[t].op = "get"
  BY <1>1, <1>2, <1>4, <1>6, <1>7 DEF Changing
<1>9. InCritical(t) /\ InCritical(u)
  BY <1>2, <1>8 DEF InCritical, Reader, Locked
<1> QED
  BY <1>7, <1>9 DEF LockInv, LockHeld
(* The block that write_file writes is one of its own file.                *)
Spared(b) == \A c \in DOMAIN disk : c # b \/ b = 0 => disk'[c] = disk[c]

LEMMA WritesOwnBlock ==
  ASSUME InodeInv, LockInv, NEW hold, FilesFor(hold), NEW t \in Threads, WriteStore(t) \/ WritePointers(t)
  PROVE  /\ call[t].inum \in Inums /\ Changing(pc[t], call[t], call[t].inum)
         /\ DOMAIN disk' = DOMAIN disk
         /\ \E k \in Places : Spared(hold[call[t].inum][k])
<1> DEFINE l == loc[t]
           c == call[t]
           i == c.inum
           h == hold[i]
           size == Size(c.file)
<1>1. pc[t] \in {"w_store", "w_ptrs"}
  BY DEF WriteStore, WritePointers
<1>2. LocalOK(pc[t], l, c) /\ Phase(pc[t], l, c, hold, disk, itable)
  BY <1>1, LocalFact, PhaseFact
<1>3. i \in Inums /\ c # Nil /\ c.file \in Files /\ size <= MaxBytes /\ Changing(pc[t], c, i)
  BY <1>1, <1>2, NilAssumption DEF LocalOK, Rewriting, Changing
<1>4. \A k \in Places : h[k] \in DOMAIN disk
  BY <1>3, HoldType DEF InodeInv, Shared
<1>5. CASE WriteStore(t)
  <2>1. pc[t] = "w_store" /\ WriteBlock(l.target, Data(c.file, l.index))
    BY <1>5 DEF WriteStore
  <2>2. /\ Written(disk, h, l, c.file, l.index + 1, l.index) /\ l.target = h[l.index]
        /\ Flags(l, Blocks(size)) /\ SupportedResize(l.ino.size, size)
    BY <1>2, <2>1 DEF Phase, Rewriting
  <2>3. WritePosition(l, size) /\ l.remaining > 0 /\ l.index \in Nat /\ Fits(l.ino)
        /\ (~l.over => l.done < DirectBytes)
    BY <1>2, <2>1 DEF LocalOK, Rewriting, WritePosition
  <2>4. size \in Nat /\ l.index * BLOCK_SIZE + l.remaining = size /\ l.remaining \in Nat
    BY <1>3, <2>3, FilesAssumption DEF Size, WritePosition
  <2>5. l.index < Blocks(size) /\ Blocks(size) <= MAXFILE
    <3>1. l.index * BLOCK_SIZE \in Int
      BY <2>3, BytesNext
    <3>2. l.index * BLOCK_SIZE < size
      BY <2>3, <2>4, <3>1
    <3> QED
      BY <1>3, <2>3, <2>4, <3>2, BlocksBelow, BlocksMost
  <2>6. l.index \in 0..(MAXFILE - 1) /\ l.index < l.index + 1
        /\ (l.index \in 0..(NDIRECT - 1) \/ l.index \in NDIRECT..(MAXFILE - 1))
    BY <2>3, <2>4, <2>5, BlocksMost, Bytes
  <2>7. h[l.index] # 0 /\ l.index \in Places
    BY <2>2, <2>6, InPlaces DEF Written
  <2>8. DOMAIN disk' = DOMAIN disk /\ Spared(h[l.index])
    BY <1>4, <2>1, <2>2, <2>7 DEF WriteBlock, Spared
  <2> QED
    BY <1>3, <2>7, <2>8
<1>6. CASE WritePointers(t)
  <2>1. pc[t] = "w_ptrs" /\ (IF l.over THEN WriteBlock(l.ino.blocks[NDIRECT], Pointers(l.final)) ELSE UNCHANGED disk)
    BY <1>6 DEF WritePointers
  <2>2. Trimmed(h, l, size)
    BY <1>2, <2>1 DEF Phase
  <2>3. /\ l.ino.blocks[NDIRECT] = h[MAXFILE] /\ (h[MAXFILE] # 0 <=> Blocks(size) > NDIRECT)
        /\ (l.over <=> Blocks(size) > NDIRECT)
    BY <2>2 DEF Trimmed
  <2>4. CASE l.over
    <3>1. h[MAXFILE] # 0 /\ WriteBlock(h[MAXFILE], Pointers(l.final)) /\ MAXFILE \in Places
      BY <2>1, <2>3, <2>4, InPlaces
    <3>2. DOMAIN disk' = DOMAIN disk /\ Spared(h[MAXFILE])
      BY <1>4, <3>1 DEF WriteBlock, Spared
    <3> QED
      BY <1>3, <3>1, <3>2
  <2>5. CASE ~l.over
    BY <1>3, <2>1, <2>5, InPlaces DEF Spared
  <2> QED
    BY <2>4, <2>5
<1> QED
  BY <1>5, <1>6

LEMMA ReaderDisk ==
  ASSUME InodeInv, LockInv, NEW hold, FilesFor(hold), NEW t \in Threads, NEW u \in Threads,
         Reader(u), itable[call[u].inum] # Nil, WriteStore(t) \/ WritePointers(t)
  PROVE  /\ DOMAIN disk' = DOMAIN disk
         /\ Blocks(itable[call[u].inum].size) > NDIRECT =>
              disk'[itable[call[u].inum].blocks[NDIRECT]] = disk[itable[call[u].inum].blocks[NDIRECT]]
<1> DEFINE i == call[u].inum
           j == call[t].inum
<1>1. /\ i \in Inums /\ ~Changing(pc[t], call[t], i)
      /\ FileOK(disk, hold[i], itable[i], contents[i])
  BY ReaderWhole
<1>2. Laid(disk, hold[i], itable[i], contents[i].file)
  BY <1>1 DEF FileOK
<1>3. PICK k \in Places : Spared(hold[j][k])
  BY WritesOwnBlock
<1>4. j \in Inums /\ j # i /\ DOMAIN disk' = DOMAIN disk
  BY <1>1, WritesOwnBlock
<1>5. hold[i][MAXFILE] \in DOMAIN disk
  BY <1>1, InPlaces, HoldType DEF InodeInv, Shared
<1>6. hold[j][k] # hold[i][MAXFILE] \/ hold[j][k] = 0
  BY <1>1, <1>4, InPlaces DEF FilesFor, Owns
<1>7. disk'[hold[i][MAXFILE]] = disk[hold[i][MAXFILE]]
  BY <1>3, <1>5, <1>6 DEF Spared
<1>8. itable[i].blocks[NDIRECT] = hold[i][MAXFILE]
  BY <1>2 DEF Laid, Pointed
<1> QED
  BY <1>4, <1>7, <1>8

(* A step of another thread leaves a reader what it knows.                 *)
LEMMA ReadKept ==
  ASSUME NEW p, NEW l, NEW c, NEW d, NEW tab, NEW con, ReadOK(p, l, c, d, tab, con),
         NEW e, NEW tab2, NEW con2,
         p \in {"r_ptrs", "r_loop"} =>
           /\ tab2[c.inum] = tab[c.inum] /\ con2[c.inum] = con[c.inum] /\ DOMAIN e = DOMAIN d
           /\ Blocks(tab[c.inum].size) > NDIRECT => e[tab[c.inum].blocks[NDIRECT]] = d[tab[c.inum].blocks[NDIRECT]],
         p \in {"r_ptrs", "r_loop"} => Blocks(l.ino.size) \in Int
  PROVE  ReadOK(p, l, c, e, tab2, con2)
<1>1. CASE p \notin {"r_ptrs", "r_loop"}
  BY <1>1 DEF ReadOK
<1>2. CASE p = "r_ptrs"
  BY <1>2 DEF ReadOK
<1>3. CASE p = "r_loop"
  <2> DEFINE n == Blocks(l.ino.size)
             b == l.ino.blocks[NDIRECT]
  <2>1. l.ino = tab[c.inum] /\ tab[c.inum] # Nil
    BY <1>3 DEF ReadOK
  <2>2. ASSUME NEW x \in 0..(NINDIRECT - 1), NDIRECT + x < n
        PROVE  l.ptr[x] = AsPointers(IF b \in DOMAIN e THEN e[b] ELSE Junk)[x]
    <3>1. n > NDIRECT
      BY <1>3, <2>2, Bytes
    <3>2. DOMAIN e = DOMAIN d /\ e[b] = d[b]
      BY <1>3, <2>1, <3>1
    <3>3. l.ptr[x] = AsPointers(IF b \in DOMAIN d THEN d[b] ELSE Junk)[x]
      BY <1>3, <2>2 DEF ReadOK
    <3> QED
      BY <3>2, <3>3
  <2> QED
    BY <1>3, <2>1, <2>2 DEF ReadOK
<1> QED
  BY <1>1, <1>2, <1>3
-----------------------------------------------------------------------------
(* The steps within a call that neither answer it nor change the files.    *)
Silently(t) ==
  \/ Enter(t) \/ AllocInode(t) \/ PutRead(t)
  \/ WriteFree(t) \/ WriteLoop(t) \/ WriteStore(t) \/ WriteOld(t)
  \/ WriteTrim(t) \/ WritePointers(t) \/ WriteFreeIndirect(t)
  \/ RemoveFree(t) \/ RemovePointers(t) \/ FreeInode(t)
SilentLabels == {"w_enter", "r_enter", "w_get", "r_get", "a_scan", "p_read", "p_write",
                 "d_free", "d_ptrs", "d_inode"} \cup Rewriting

LEMMA SilentStep ==
  ASSUME InodeInv, NEW t \in Threads, Silently(t)
  PROVE  /\ UNCHANGED <<call, reply, contents, itable>>
         /\ pc[t] \in SilentLabels
         /\ UNCHANGED <<pc, loc, disk>> \/ \E p \in SilentLabels : \E l : Goto(t, p, l)
         /\ UNCHANGED disk \/ WriteStore(t) \/ WritePointers(t)
<1> USE DEF SilentLabels, Rewriting
<1>1. CASE Enter(t)
  <2>1. CASE Inum(t) \notin Inums
    BY <1>1, <2>1 DEF Enter, Undefined
  <2>2. CASE Inum(t) \in Inums
    <3>1. Goto(t, IF pc[t] = "w_enter" THEN "w_get" ELSE "r_get", loc[t])
      BY <1>1, <2>2 DEF Enter
    <3>2. \E p \in SilentLabels : \E l : Goto(t, p, l)
      BY <3>1
    <3> QED
      BY <1>1, <2>2, <3>2 DEF Enter
  <2> QED
    BY <2>1, <2>2
<1>2. CASE AllocInode(t)
  BY <1>2 DEF AllocInode
<1>3. CASE PutRead(t)
  BY <1>3 DEF PutRead
<1>4. CASE WriteFree(t)
  BY <1>4 DEF WriteFree
<1>5. CASE WriteLoop(t)
  <2>1. /\ pc[t] = "w_loop" /\ UNCHANGED <<disk, itable, call, reply, contents>>
    BY <1>5 DEF WriteLoop
  <2>2. \/ \E l : Goto(t, "w_old", l)
        \/ \E l : Goto(t, "w_store", l)
        \/ \E l : Goto(t, "w_loop", l)
        \/ UNCHANGED <<pc, loc>>
    <3>1. LocalOK("w_loop", loc[t], call[t])
      BY <2>1, LocalFact
    <3>2. loc[t].remaining \in Nat /\ loc[t].done \in Nat /\ DirectBytes \in Nat
      BY <3>1, Bytes DEF LocalOK, WritePosition
    <3>3. CASE loc[t].remaining = 0
      BY <1>5, <3>3 DEF WriteLoop
    <3>4. CASE loc[t].remaining > 0 /\ loc[t].done < DirectBytes
      <4>1. ~(loc[t].done >= DirectBytes) /\ loc[t].remaining # 0
        BY <3>2, <3>4
      <4> QED
        BY <1>5, <3>4, <4>1 DEF WriteLoop
    <3>5. CASE loc[t].remaining > 0 /\ loc[t].done >= DirectBytes
      <4>1. ~(loc[t].done < DirectBytes) /\ loc[t].remaining # 0
        BY <3>2, <3>5
      <4> QED
        BY <1>5, <3>5, <4>1 DEF WriteLoop
    <3> QED
      BY <3>2, <3>3, <3>4, <3>5
  <2> QED
    BY <2>1, <2>2
<1>6. CASE WriteStore(t)
  BY <1>6 DEF WriteStore
<1>7. CASE WriteOld(t)
  BY <1>7 DEF WriteOld
<1>8. CASE WriteTrim(t)
  BY <1>8 DEF WriteTrim, Undefined
<1>9. CASE WritePointers(t)
  BY <1>9 DEF WritePointers
<1>10. CASE WriteFreeIndirect(t)
  BY <1>10 DEF WriteFreeIndirect
<1>11. CASE RemoveFree(t)
  BY <1>11 DEF RemoveFree
<1>12. CASE RemovePointers(t)
  BY <1>12 DEF RemovePointers, Undefined
<1>13. CASE FreeInode(t)
  BY <1>13 DEF FreeInode, Undefined
<1> QED
  BY <1>1, <1>2, <1>3, <1>4, <1>5, <1>6, <1>7, <1>8, <1>9, <1>10, <1>11, <1>12, <1>13 DEF Silently

(* A step of thread t that leaves the other calls and their readers alone. *)
LEMMA ReadsStep ==
  ASSUME InodeInv, Reads, NEW t \in Threads, NEW p, NEW l, Goto(t, p, l),
         \A u \in Threads \ {t} : call'[u] = call[u],
         \A u \in Threads \ {t} : Reader(u) =>
           /\ itable'[call[u].inum] = itable[call[u].inum]
           /\ contents'[call[u].inum] = contents[call[u].inum]
           /\ DOMAIN disk' = DOMAIN disk
           /\ Blocks(itable[call[u].inum].size) > NDIRECT =>
                disk'[itable[call[u].inum].blocks[NDIRECT]] = disk[itable[call[u].inum].blocks[NDIRECT]],
         ReadOK(p, l, call'[t], disk', itable', contents')
  PROVE  Reads'
<1>1. /\ pc'[t] = p /\ loc'[t] = l
      /\ \A u \in Threads \ {t} : pc'[u] = pc[u] /\ loc'[u] = loc[u]
  BY DEF Goto, InodeInv, Arrays
<1> SUFFICES ASSUME NEW u \in Threads PROVE ReadOK(pc'[u], loc'[u], call'[u], disk', itable', contents')
  BY DEF Reads
<1>2. CASE u = t
  BY <1>1, <1>2
<1>3. CASE u # t
  <2>1. ReadOK(pc[u], loc[u], call[u], disk, itable, contents) /\ LocalOK(pc[u], loc[u], call[u])
    BY LocalFact DEF Reads
  <2>2. Reader(u) => Blocks(loc[u].ino.size) \in Int
    BY <2>1, SizeType, BlocksMost DEF Reader, LocalOK
  <2>3. ReadOK(pc[u], loc[u], call[u], disk', itable', contents')
    BY <1>3, <2>1, <2>2, ReadKept DEF Reader
  <2> QED
    BY <1>1, <1>3, <2>3
<1> QED
  BY <1>2, <1>3

LEMMA RepliesStep ==
  ASSUME InodeInv, RepliesOK, NEW t \in Threads, NEW p, NEW l, Goto(t, p, l),
         \/ UNCHANGED reply /\ (p \in Answered <=> pc[t] \in Answered)
         \/ \E v : Answer(t, v) /\ (v = Nil <=> p \notin Answered)
         \/ reply' = [reply EXCEPT ![t] = Nil] /\ p \notin Answered
  PROVE  RepliesOK'
<1>1. /\ pc'[t] = p /\ \A u \in Threads \ {t} : pc'[u] = pc[u]
  BY DEF Goto, InodeInv, Arrays
<1> QED
  BY <1>1 DEF RepliesOK, Answer
LEMMA NotReading ==
  ASSUME NEW p, p \notin {"r_ptrs", "r_loop"}, NEW l, NEW c, NEW d, NEW tab, NEW con
  PROVE  ReadOK(p, l, c, d, tab, con)
  BY DEF ReadOK

LEMMA SilentAnswers ==
  ASSUME InodeInv, LockInv, NEW hold, FilesFor(hold), AnswerInv, NEW t \in Threads, Silently(t)
  PROVE  AnswerInv'
<1>1. /\ UNCHANGED <<call, reply, contents, itable>>
      /\ pc[t] \in SilentLabels
      /\ UNCHANGED <<pc, loc, disk>> \/ \E p \in SilentLabels : \E l : Goto(t, p, l)
      /\ UNCHANGED disk \/ WriteStore(t) \/ WritePointers(t)
  BY SilentStep
<1>2. CASE UNCHANGED <<pc, loc, disk>>
  BY <1>1, <1>2 DEF AnswerInv, RepliesOK, Reads
<1>3. CASE \E p \in SilentLabels : \E l : Goto(t, p, l)
  <2>1. PICK p \in SilentLabels : \E l : Goto(t, p, l)
    BY <1>3
  <2>2. PICK l : Goto(t, p, l)
    BY <2>1
  <2>3. /\ p \notin Answered /\ pc[t] \notin Answered /\ p \notin {"r_ptrs", "r_loop"}
    BY <1>1 DEF SilentLabels, Rewriting, Answered
  <2>4. RepliesOK'
    BY <1>1, <2>2, <2>3, RepliesStep DEF AnswerInv
  <2>5. ReadOK(p, l, call'[t], disk', itable', contents')
    BY <2>3, NotReading
  <2>6. ASSUME NEW u \in Threads \ {t}, Reader(u)
        PROVE  /\ DOMAIN disk' = DOMAIN disk
               /\ Blocks(itable[call[u].inum].size) > NDIRECT =>
                    disk'[itable[call[u].inum].blocks[NDIRECT]] = disk[itable[call[u].inum].blocks[NDIRECT]]
    <3>1. itable[call[u].inum] # Nil
      BY <2>6 DEF AnswerInv, Reads, ReadOK, Reader
    <3> QED
      BY <1>1, <2>6, <3>1, ReaderDisk
  <2>7. Reads'
    BY <1>1, <2>2, <2>5, <2>6, ReadsStep DEF AnswerInv
  <2> QED
    BY <2>4, <2>7 DEF AnswerInv
<1> QED
  BY <1>1, <1>2, <1>3

(* A step that answers, or does not touch the answer, and leaves the files *)
(* alone.                                                                  *)
LEMMA CalmStep ==
  ASSUME InodeInv, AnswerInv, NEW t \in Threads, NEW p, NEW l, Goto(t, p, l),
         UNCHANGED <<disk, itable, contents>>, \A u \in Threads \ {t} : call'[u] = call[u],
         \/ UNCHANGED reply /\ (p \in Answered <=> pc[t] \in Answered)
         \/ \E v : Answer(t, v) /\ v # Nil /\ p \in Answered
         \/ reply' = [reply EXCEPT ![t] = Nil] /\ p \notin Answered,
         ReadOK(p, l, call'[t], disk, itable, contents)
  PROVE  AnswerInv'
<1>1. RepliesOK'
  BY RepliesStep DEF AnswerInv
<1>2. Reads'
  BY ReadsStep DEF AnswerInv
<1> QED
  BY <1>1, <1>2 DEF AnswerInv

LEMMA NotNil == \A v \in Nat \cup (Nat \X Nat) \cup Stored : v # Nil
  BY NilAssumption DEF Replies
-----------------------------------------------------------------------------
(* read_file.                                                              *)
LEMMA ReadPointersAnswers ==
  ASSUME InodeInv, AnswerInv, NEW t \in Threads, ReadPointers(t) PROVE AnswerInv'
<1> DEFINE l == loc[t]
           c == call[t]
           b == l.ino.blocks[NDIRECT]
           n == [l EXCEPT !.ptr = AsPointers(ReadBlock(b)), !.remaining = l.ino.size]
<1>1. /\ pc[t] = "r_ptrs" /\ Goto(t, "r_loop", n)
      /\ UNCHANGED <<disk, itable, contents, call, reply>>
  BY DEF ReadPointers
<1>2. LocalOK("r_ptrs", l, c) /\ ReadOK("r_ptrs", l, c, disk, itable, contents)
  BY <1>1, LocalFact DEF AnswerInv, Reads
<1>3. Shape(l) /\ AtZero(l) /\ Fits(l.ino) /\ itable[c.inum] # Nil /\ l.ino = itable[c.inum]
  BY <1>2 DEF LocalOK, ReadOK
<1>4. /\ n.ino = l.ino /\ n.index = 0 /\ n.remaining = l.ino.size
      /\ n.ptr = AsPointers(IF b \in DOMAIN disk THEN disk[b] ELSE Junk)
  BY <1>3 DEF Shape, AtZero, ReadBlock
<1>5. l.ino.size \in Nat /\ Blocks(l.ino.size) \in Nat
  BY <1>3, SizeType, BlocksMost
<1>6. l.ino.size = 0 => Blocks(l.ino.size) = 0
  <2>1. 0 < Blocks(l.ino.size) <=> 0 * BLOCK_SIZE < l.ino.size
    BY <1>5, BlocksBelow
  <2> QED
    BY <1>5, <2>1, Bytes
<1> HIDE DEF n
<1>7. ReadOK("r_loop", n, c, disk, itable, contents)
  <2>1. n.index <= Blocks(n.ino.size) /\ (n.remaining = 0 => n.index = Blocks(n.ino.size))
    BY <1>4, <1>5, <1>6
  <2>2. \A k \in 0..(n.index - 1) : n.data[k] = Data(contents[c.inum].file, k)
    BY <1>4
  <2> QED
    BY <1>3, <1>4, <2>1, <2>2 DEF ReadOK
<1>8. "r_loop" \notin Answered /\ "r_ptrs" \notin Answered
  BY DEF Answered
<1> QED
  BY <1>1, <1>7, <1>8, CalmStep

(* The block that read_file reads next is the next one of the file.        *)
LEMMA BlockRead ==
  ASSUME InodeInv, LockInv, NEW hold, FilesFor(hold), AnswerInv, NEW t \in Threads,
         pc[t] = "r_loop", loc[t].remaining # 0
  PROVE  LET l == loc[t]
             i == call[t].inum
             b == IF l.done < DirectBytes THEN l.ino.blocks[l.index] ELSE l.ptr[l.indirect]
         IN /\ b # Wild /\ ReadBlock(b) = Data(contents[i].file, l.index)
            /\ l.index \in Nat /\ l.index < Blocks(l.ino.size)
<1> DEFINE l == loc[t]
           c == call[t]
           i == c.inum
           h == hold[i]
           f == contents[i].file
           m == Blocks(l.ino.size)
           b == IF l.done < DirectBytes THEN l.ino.blocks[l.index] ELSE l.ptr[l.indirect]
<1>1. LocalOK("r_loop", l, c) /\ ReadOK("r_loop", l, c, disk, itable, contents) /\ Reader(t)
  BY LocalFact DEF AnswerInv, Reads, Reader
<1>2. /\ Fits(l.ino) /\ i \in Inums /\ ReadPosition(l)
      /\ itable[i] # Nil /\ l.ino = itable[i]
      /\ \A x \in 0..(NINDIRECT - 1) : NDIRECT + x < m => l.ptr[x] = AsPointers(ReadBlock(l.ino.blocks[NDIRECT]))[x]
  BY <1>1 DEF LocalOK, ReadOK, ReadBlock
<1>3. Laid(disk, h, l.ino, f)
  BY <1>1, <1>2, ReaderWhole DEF FileOK
<1>4. /\ Pointed(h, l.ino) /\ Exactly(h, m) /\ DataOn(disk, h, f, m)
      /\ m > NDIRECT => PointersOn(disk, h[MAXFILE], h, m)
  BY <1>3 DEF Laid
<1>5. /\ l.ino.size \in Nat /\ m \in Nat /\ m <= MAXFILE /\ MAXFILE \in Nat
      /\ MAXFILE = NDIRECT + NINDIRECT /\ NDIRECT \in Nat /\ NINDIRECT \in Nat
  <2>1. l.ino.size \in Nat /\ l.ino.size <= MaxBytes
    BY <1>2, SizeType DEF Fits
  <2> QED
    BY <2>1, BlocksMost, Bytes
<1>6. /\ l.remaining \in Nat /\ l.done \in Nat /\ l.index \in Nat /\ l.indirect \in Nat
      /\ l.done = l.index * BLOCK_SIZE /\ l.remaining + l.done = l.ino.size
      /\ l.indirect = IF l.index <= NDIRECT THEN 0 ELSE l.index - NDIRECT
  BY <1>2 DEF ReadPosition
<1>7. l.index < m
  <2>1. l.index * BLOCK_SIZE < l.ino.size
    BY <1>5, <1>6
  <2> QED
    BY <1>5, <1>6, <2>1, BlocksBelow
<1>8. l.index \in 0..(MAXFILE - 1) /\ l.index \in Places
  BY <1>5, <1>6, <1>7 DEF Places
<1>9. /\ h[l.index] # 0 /\ disk[h[l.index]] = Data(f, l.index) /\ h[l.index] \in DataBlocks
      /\ h[MAXFILE] \in DataBlocks \cup {0}
  <2>1. \A k \in Places : h[k] \in DataBlocks \cup {0}
    BY <1>2, HoldType
  <2>2. h[l.index] # 0 /\ disk[h[l.index]] = Data(f, l.index)
    BY <1>4, <1>7, <1>8 DEF DataOn
  <2> QED
    BY <1>8, <2>1, <2>2, InPlaces
<1>10. b = h[l.index]
  <2>1. l.index < NDIRECT <=> l.done < DirectBytes
    BY <1>5, <1>6, BytesOrder, MaxBytesIs
  <2>2. CASE l.index < NDIRECT
    <3>1. l.index \in 0..(NDIRECT - 1)
      BY <1>5, <1>6, <2>2
    <3> QED
      BY <1>4, <2>1, <2>2, <3>1 DEF Pointed
  <2>3. CASE ~(l.index < NDIRECT)
    <3>1. /\ l.indirect = l.index - NDIRECT /\ l.indirect \in 0..(NINDIRECT - 1)
          /\ NDIRECT + l.indirect = l.index /\ m > NDIRECT
      BY <1>5, <1>6, <1>7, <2>3
    <3>2. b = AsPointers(ReadBlock(l.ino.blocks[NDIRECT]))[l.indirect]
      BY <1>2, <1>7, <2>1, <2>3, <3>1
    <3>3. AsPointers(ReadBlock(h[MAXFILE]))[l.indirect] = h[NDIRECT + l.indirect]
      BY <1>4, <1>7, <1>9, <3>1, PointersRead
    <3>4. l.ino.blocks[NDIRECT] = h[MAXFILE]
      BY <1>4 DEF Pointed
    <3> QED
      BY <3>1, <3>2, <3>3, <3>4
  <2> QED
    BY <2>2, <2>3
<1> HIDE DEF h, f, m, b
<1>11. b # Wild /\ ReadBlock(b) = Data(f, l.index)
  BY <1>9, <1>10, NoBlockZero DEF ReadBlock, Wild, InodeInv, Shared
<1> QED
  BY <1>6, <1>7, <1>11 DEF b, f, m
(* The bytes of all blocks are the file.                                   *)
LEMMA WholeFile ==
  ASSUME NEW f \in Stored, NEW data, \A k \in 0..(Blocks(Size(f)) - 1) : data[k] = Data(f, k)
  PROVE  AsFile(Size(f), data) = f
<1> DEFINE size == Size(f)
           Match == {g \in Files \cup {EmptyFile} :
                       Size(g) = size /\ \A k \in 0..(Blocks(size) - 1) : data[k] = Data(g, k)}
<1>1. f \in Match
  BY DEF Stored
<1>2. ASSUME NEW g \in Match PROVE g = f
  <2>1. g \in Stored /\ Size(g) = size /\ \A k \in 0..(Blocks(size) - 1) : data[k] = Data(g, k)
    BY DEF Stored
  <2>2. size \in Nat
    BY FilesAssumption DEF Stored, Size, EmptyFile
  <2>3. CASE size = 0
    <3>1. \A e \in Stored : Size(e) = 0 => e = EmptyFile
      BY FilesAssumption DEF Stored, Size, EmptyFile
    <3> QED
      BY <2>1, <2>3, <3>1
  <2>4. CASE size # 0
    <3>1. 0 < Blocks(size) /\ Blocks(size) \in Nat
      <4>1. 0 < Blocks(size) <=> 0 * BLOCK_SIZE < size
        BY <2>2, BlocksBelow
      <4> QED
        BY <2>2, <2>4, <4>1, BlocksIs, Bytes
    <3>2. Data(g, 0) = Data(f, 0)
      BY <2>1, <3>1
    <3> QED
      BY <3>2 DEF Data
  <2> QED
    BY <2>3, <2>4
<1>3. AsFile(size, data) = CHOOSE g \in Match : TRUE
  BY <1>1 DEF AsFile
<1> HIDE DEF Match, size
<1>4. (CHOOSE g \in Match : TRUE) \in Match
  BY <1>1
<1>5. AsFile(size, data) = f
  BY <1>2, <1>3, <1>4
<1> QED
  BY <1>5 DEF size

(* read_file answers the file that is there when it answers.               *)
LEMMA ReadsTheFile ==
  ASSUME InodeInv, NEW hold, FilesFor(hold), AnswerInv, NEW t \in Threads,
         pc[t] = "r_loop", loc[t].remaining = 0
  PROVE  /\ contents[call[t].inum] # Nil /\ contents[call[t].inum].file \in Stored
         /\ AsFile(loc[t].ino.size, loc[t].data) = contents[call[t].inum].file
<1> DEFINE l == loc[t]
           i == call[t].inum
           f == contents[i].file
<1>1. LocalOK("r_loop", l, call[t]) /\ ReadOK("r_loop", l, call[t], disk, itable, contents)
  BY LocalFact DEF AnswerInv, Reads
<1>2. /\ i \in Inums /\ itable[i] # Nil /\ l.ino = itable[i]
      /\ l.index = Blocks(l.ino.size) /\ \A k \in 0..(l.index - 1) : l.data[k] = Data(f, k)
  BY <1>1 DEF LocalOK, ReadOK
<1>3. contents[i] # Nil /\ itable[i].size = Size(f)
  BY <1>2 DEF FilesFor, Matches
<1>4. f \in Stored
  BY <1>2, <1>3 DEF InodeInv, Shared, Records
<1> QED
  BY <1>2, <1>3, <1>4, WholeFile

LEMMA ReadLoopAnswers ==
  ASSUME InodeInv, LockInv, NEW hold, FilesFor(hold), AnswerInv, NEW t \in Threads, ReadLoop(t)
  PROVE  AnswerInv'
<1> DEFINE l == loc[t]
           c == call[t]
           f == contents[c.inum].file
           m == Blocks(l.ino.size)
           direct == l.done < DirectBytes
           b == IF direct THEN l.ino.blocks[l.index] ELSE l.ptr[l.indirect]
<1>1. pc[t] = "r_loop" /\ UNCHANGED <<disk, itable, contents, call>>
  BY DEF ReadLoop
<1>2. "r_loop" \notin Answered /\ "exit" \in Answered
  BY DEF Answered
<1>3. CASE l.remaining = 0
  <2>1. Answer(t, AsFile(l.ino.size, l.data)) /\ Goto(t, "exit", NoLocals)
    BY <1>3 DEF ReadLoop
  <2>2. AsFile(l.ino.size, l.data) # Nil
    BY <1>1, <1>3, ReadsTheFile, NotNil
  <2>3. ReadOK("exit", NoLocals, c, disk, itable, contents)
    BY NotReading
  <2> QED
    BY <1>1, <1>2, <2>1, <2>2, <2>3, CalmStep
<1>4. CASE l.remaining # 0
  <2> DEFINE N == MIN(BLOCK_SIZE, l.remaining)
             n(content) == [l EXCEPT !.data = [k \in 0..l.index |-> IF k = l.index THEN content ELSE l.data[k]],
                                     !.done = @ + N, !.remaining = @ - N, !.index = @ + 1,
                                     !.indirect = IF direct THEN @ ELSE @ + 1]
             next == n(ReadBlock(b))
  <2>1. b # Wild /\ ReadBlock(b) = Data(f, l.index) /\ l.index \in Nat /\ l.index < m
    BY <1>1, <1>4, BlockRead
  <2>2. Goto(t, "r_loop", next) /\ UNCHANGED reply
    BY <1>4, <2>1 DEF ReadLoop
  <2>3. LocalOK("r_loop", l, c) /\ ReadOK("r_loop", l, c, disk, itable, contents)
    BY <1>1, LocalFact DEF AnswerInv, Reads
  <2>4. /\ Shape(l) /\ Fits(l.ino) /\ ReadPosition(l)
        /\ \A k \in 0..(l.index - 1) : l.data[k] = Data(f, k)
    BY <2>3 DEF LocalOK, ReadOK
  <2>5. /\ next.ino = l.ino /\ next.ptr = l.ptr /\ next.index = l.index + 1 /\ next.remaining = l.remaining - N
        /\ next.data = [k \in 0..l.index |-> IF k = l.index THEN ReadBlock(b) ELSE l.data[k]]
    BY <2>4 DEF Shape
  <2> HIDE DEF next
  <2>6. \A k \in 0..(next.index - 1) : next.data[k] = Data(f, k)
    <3> TAKE k \in 0..(next.index - 1)
    <3>1. k \in 0..l.index /\ (k = l.index \/ k \in 0..(l.index - 1))
      BY <2>1, <2>5
    <3> QED
      BY <2>1, <2>4, <2>5, <3>1
  <2>7. l.ino.size \in Nat /\ m \in Nat
    BY <2>4, SizeType, BlocksMost
  <2>8. next.index <= m
    BY <2>1, <2>5, <2>7
  <2>9. ASSUME next.remaining = 0 PROVE next.index = m
    <3>1. /\ l.remaining \in Nat /\ l.index * BLOCK_SIZE + l.remaining = l.ino.size
          /\ l.index * BLOCK_SIZE \in Int
      BY <1>4, <2>1, <2>4, BytesNext DEF ReadPosition
    <3>2. l.remaining <= BLOCK_SIZE
      BY <2>5, <2>9, <3>1, Bytes DEF MIN
    <3>3. (l.index + 1) * BLOCK_SIZE = l.index * BLOCK_SIZE + BLOCK_SIZE /\ l.index + 1 \in Int
      BY <2>1, BytesNext
    <3>4. ~((l.index + 1) * BLOCK_SIZE < l.ino.size)
      BY <2>7, <3>1, <3>2, <3>3, Bytes
    <3>5. ~(l.index + 1 < m)
      BY <2>7, <3>3, <3>4, BlocksBelow
    <3> QED
      BY <2>1, <2>5, <2>7, <3>5
  <2>10. ReadOK("r_loop", next, c, disk, itable, contents)
    BY <2>3, <2>5, <2>6, <2>8, <2>9 DEF ReadOK
  <2> QED
    BY <1>1, <1>2, <2>2, <2>10, CalmStep
<1> QED
  BY <1>3, <1>4
-----------------------------------------------------------------------------
(* The steps that answer, and the ends of a call.                          *)
LEMMA PutWriteAnswers ==
  ASSUME InodeInv, LockInv, NEW hold, FilesFor(hold), AnswerInv, NEW t \in Threads, PutWrite(t)
  PROVE  AnswerInv'
<1> DEFINE l == loc[t]
           c == call[t]
           i == PutInum(t)
<1>1. pc[t] = "p_write" /\ UNCHANGED <<disk, call>>
  BY DEF PutWrite
<1>2. LocalOK("p_write", l, c) /\ Phase("p_write", l, c, hold, disk, itable)
  BY <1>1, LocalFact, PhaseFact
<1>3. /\ i \in Inums /\ itable'[i] = (IF c.op = "remove" THEN Nil ELSE l.ino)
      /\ \A j \in Inums : j # i => itable'[j] = itable[j] /\ contents'[j] = contents[j]
  BY PutWriteEffect
<1>4. \A u \in Threads \ {t} : Reader(u) =>
        /\ itable'[call[u].inum] = itable[call[u].inum]
        /\ contents'[call[u].inum] = contents[call[u].inum]
  BY <1>3, ReaderApart, ReaderWhole
<1>5. CASE c.op = "get"
  <2> DEFINE n == [l EXCEPT !.table = Nil]
  <2>1. Goto(t, "r_ptrs", n) /\ UNCHANGED reply
    BY <1>5 DEF PutWrite
  <2>2. i = c.inum /\ l.ino = itable[i] /\ itable[i] # Nil /\ n.ino = l.ino
    BY <1>2, <1>5 DEF Phase, LocalOK, PutInum, Inum, Shape
  <2> HIDE DEF n
  <2>3. ReadOK("r_ptrs", n, c, disk', itable', contents')
    BY <1>3, <1>5, <2>2 DEF ReadOK
  <2>4. RepliesOK'
    BY <1>1, <2>1, RepliesStep DEF AnswerInv, Answered
  <2>5. Reads'
    BY <1>1, <1>4, <2>1, <2>3, ReadsStep DEF AnswerInv
  <2> QED
    BY <2>4, <2>5 DEF AnswerInv
<1>6. CASE c.op # "get"
  <2>1. PICK p \in {"exit", "return"} : Goto(t, p, NoLocals)
    BY <1>6 DEF PutWrite
  <2>2. Answer(t, IF c.op = "create" THEN i ELSE 0)
    BY <1>6 DEF PutWrite
  <2>3. (IF c.op = "create" THEN i ELSE 0) # Nil
    BY <1>3, NotNil DEF Inums
  <2>4. ReadOK(p, NoLocals, call'[t], disk', itable', contents')
    BY NotReading
  <2>5. RepliesOK'
    BY <2>1, <2>2, <2>3, RepliesStep DEF AnswerInv, Answered
  <2>6. Reads'
    BY <1>1, <1>4, <2>1, <2>4, ReadsStep DEF AnswerInv
  <2> QED
    BY <2>5, <2>6 DEF AnswerInv
<1> QED
  BY <1>5, <1>6

(* The answer of a step that reads the inode.                              *)
LEMMA GetattrNotNil ==
  ASSUME InodeInv, NEW i
  PROVE  (IF GetInode(i) = Nil THEN <<0, 0>> ELSE <<GetInode(i).type, GetInode(i).size>>) # Nil
<1>1. CASE GetInode(i) = Nil
  BY <1>1, NotNil
<1>2. CASE GetInode(i) # Nil
  <2>1. Fits(GetInode(i))
    BY <1>2 DEF GetInode, InodeInv, Shared
  <2>2. GetInode(i).size \in Nat
    BY <2>1, SizeType
  <2>3. GetInode(i).type \in Types \cup {T_DIR}
    BY <2>1 DEF Fits, Inodes
  <2>4. GetInode(i).type \in Nat
    <3>1. Types \subseteq Nat /\ T_DIR \in Nat
      BY IdsAssumption DEF T_DIR
    <3> QED
      BY <2>3, <3>1
  <2> QED
    BY <1>2, <2>2, <2>4, NotNil
<1> QED
  BY <1>1, <1>2

LEMMA ShortAnswers ==
  ASSUME InodeInv, AnswerInv, NEW t \in Threads, Getattr(t) \/ ReadGet(t) \/ WriteGet(t) \/ RemoveGet(t) \/ Exit(t)
  PROVE  AnswerInv'
<1>1. UNCHANGED <<disk, itable, contents, call>>
  BY DEF Getattr, ReadGet, WriteGet, RemoveGet, Exit
<1>2. 0 # Nil /\ EmptyFile # Nil
  BY NotNil DEF Stored
<1> DEFINE Calm(p) == \E l : /\ Goto(t, p, l)
                             /\ \/ UNCHANGED reply /\ (p \in Answered <=> pc[t] \in Answered)
                                \/ \E v : Answer(t, v) /\ v # Nil /\ p \in Answered
<1>3. \E p \in {"return", "exit", "p_read", "w_free", "d_free"} : Calm(p)
  <2> USE DEF Answered
  <2>1. CASE Getattr(t)
    <3> DEFINE ino == GetInode(Inum(t))
               v == IF ino = Nil THEN <<0, 0>> ELSE <<ino.type, ino.size>>
    <3>1. Answer(t, v) /\ Goto(t, "return", NoLocals)
      BY <2>1 DEF Getattr
    <3>2. v # Nil
      BY GetattrNotNil
    <3> HIDE DEF v
    <3>3. Calm("return")
      BY <3>1, <3>2
    <3> QED
      BY <3>3
  <2>2. CASE ReadGet(t)
    <3>1. CASE GetInode(Inum(t)) = Nil
      <4>1. Calm("exit")
        BY <1>2, <2>2, <3>1 DEF ReadGet
      <4> QED
        BY <4>1
    <3>2. CASE GetInode(Inum(t)) # Nil
      <4>1. Calm("p_read")
        BY <2>2, <3>2 DEF ReadGet
      <4> QED
        BY <4>1
    <3> QED
      BY <3>1, <3>2
  <2>3. CASE WriteGet(t)
    <3>1. CASE NewSize(t) > BLOCK_SIZE * MAXFILE \/ GetInode(Inum(t)) = Nil
      <4>1. Calm("exit")
        BY <1>2, <2>3, <3>1 DEF WriteGet
      <4> QED
        BY <4>1
    <3>2. CASE ~(NewSize(t) > BLOCK_SIZE * MAXFILE \/ GetInode(Inum(t)) = Nil)
      <4>1. Calm("w_free")
        BY <2>3, <3>2 DEF WriteGet
      <4> QED
        BY <4>1
    <3> QED
      BY <3>1, <3>2
  <2>4. CASE RemoveGet(t)
    <3>1. CASE GetInode(Inum(t)) = Nil
      <4>1. Calm("return")
        BY <1>2, <2>4, <3>1 DEF RemoveGet
      <4> QED
        BY <4>1
    <3>2. CASE GetInode(Inum(t)) # Nil
      <4>1. Calm("d_free")
        BY <2>4, <3>2 DEF RemoveGet
      <4> QED
        BY <4>1
    <3> QED
      BY <3>1, <3>2
  <2>5. CASE Exit(t)
    <3>1. Calm("return")
      BY <2>5 DEF Exit
    <3> QED
      BY <3>1
  <2> QED
    BY <2>1, <2>2, <2>3, <2>4, <2>5
<1>4. PICK p \in {"return", "exit", "p_read", "w_free", "d_free"} : Calm(p)
  BY <1>3
<1>5. PICK l : /\ Goto(t, p, l)
               /\ \/ UNCHANGED reply /\ (p \in Answered <=> pc[t] \in Answered)
                  \/ \E v : Answer(t, v) /\ v # Nil /\ p \in Answered
  BY <1>4
<1>6. ReadOK(p, l, call'[t], disk, itable, contents)
  BY NotReading
<1> QED
  BY <1>1, <1>5, <1>6, CalmStep

LEMMA ReturnAnswers ==
  ASSUME InodeInv, AnswerInv, NEW t \in Threads, Return(t) PROVE AnswerInv'
<1>1. /\ Goto(t, "idle", NoLocals) /\ UNCHANGED <<disk, itable, contents>>
      /\ reply' = [reply EXCEPT ![t] = Nil] /\ call' = [call EXCEPT ![t] = Nil]
  BY DEF Return
<1>2. \A u \in Threads \ {t} : call'[u] = call[u]
  BY <1>1 DEF InodeInv, Arrays
<1>3. ReadOK("idle", NoLocals, call'[t], disk, itable, contents) /\ "idle" \notin Answered
  BY NotReading DEF Answered
<1> QED
  BY <1>1, <1>2, <1>3, CalmStep

LEMMA CallsAnswers ==
  ASSUME InodeInv, AnswerInv, NEW t \in Threads, Calls(t) PROVE AnswerInv'
<1>1. PICK p \in {"a_scan", "w_enter", "r_enter", "g_get", "d_get"} : \E c : Begin(t, c, p)
  BY DEF Calls, CallCreate, CallPut, CallGet, CallGetattr, CallRemove
<1>2. PICK c : Begin(t, c, p)
  BY <1>1
<1>3. /\ pc[t] = "idle" /\ Goto(t, p, NoLocals) /\ UNCHANGED <<disk, itable, contents, reply>>
      /\ call' = [call EXCEPT ![t] = c]
  BY <1>2 DEF Begin
<1>4. \A u \in Threads \ {t} : call'[u] = call[u]
  BY <1>3 DEF InodeInv, Arrays
<1>5. ReadOK(p, NoLocals, call'[t], disk, itable, contents)
  BY NotReading
<1>6. p \notin Answered /\ pc[t] \notin Answered
  BY <1>3 DEF Answered
<1> QED
  BY <1>3, <1>4, <1>5, <1>6, CalmStep

LEMMA InitAnswers == Init => AnswerInv
  BY DEF Init, AnswerInv, RepliesOK, Reads, ReadOK, Answered
LEMMA NextAnswers == InodeInv /\ LockInv /\ FilesInv /\ AnswerInv /\ [Next]_vars => AnswerInv'
<1> SUFFICES ASSUME InodeInv, LockInv, FilesInv, AnswerInv, [Next]_vars PROVE AnswerInv'
  OBVIOUS
<1>1. CASE UNCHANGED vars
  BY <1>1 DEF vars, AnswerInv, RepliesOK, Reads
<1>2. CASE Next
  <2>1. PICK t \in Threads : Calls(t) \/ Step(t)
    BY <1>2 DEF Next
  <2>2. PICK hold : FilesFor(hold)
    BY DEF FilesInv
  <2>3. \/ Calls(t) \/ Silently(t) \/ PutWrite(t) \/ ReadPointers(t) \/ ReadLoop(t) \/ Return(t)
        \/ (Getattr(t) \/ ReadGet(t) \/ WriteGet(t) \/ RemoveGet(t) \/ Exit(t))
    BY <2>1 DEF Step, Inside, Silently
  <2>4. CASE Calls(t)
    BY <2>4, CallsAnswers
  <2>5. CASE Silently(t)
    BY <2>2, <2>5, SilentAnswers
  <2>6. CASE PutWrite(t)
    BY <2>2, <2>6, PutWriteAnswers
  <2>7. CASE ReadPointers(t)
    BY <2>7, ReadPointersAnswers
  <2>8. CASE ReadLoop(t)
    BY <2>2, <2>8, ReadLoopAnswers
  <2>9. CASE Return(t)
    BY <2>9, ReturnAnswers
  <2>10. CASE Getattr(t) \/ ReadGet(t) \/ WriteGet(t) \/ RemoveGet(t) \/ Exit(t)
    BY <2>10, ShortAnswers
  <2> QED
    BY <2>3, <2>4, <2>5, <2>6, <2>7, <2>8, <2>9, <2>10
<1> QED
  BY <1>1, <1>2

(* A call has its answer from its effect on, and a get the blocks of the   *)
(* file as it is, for any number of clients.                               *)
THEOREM AnswersInvariant == ASSUME Served PROVE Spec /\ []HasRoom => []AnswerInv
<1>1. Spec => []InodeInv
  BY InodeInvariant
<1>2. Spec => []LockInv
  BY LocksHeld DEF LockInv
<1>3. Spec /\ []HasRoom => []FilesInv
  BY FilesInvariant
<1> QED
  BY <1>1, <1>2, <1>3, InitAnswers, NextAnswers, PTL DEF Spec
-----------------------------------------------------------------------------
(* The steps that are steps of the FileStore.                              *)
storevars == <<contents, call, reply>>

LEMMA InitIsStore == Init => Store!Init
  BY DEF Init, Store!Init, T_DIR, EmptyFile, Store!EmptyFile

LEMMA CallsAreInvocations ==
  ASSUME InodeInv, NEW t \in Threads, Calls(t) PROVE Store!Invoke(t)
<1> DEFINE Names == {Masked(id) : id \in Ids}
<1>1. PICK op \in {"create", "put", "get", "getattr", "remove"}, i \in Names \cup {0},
           type \in Types \cup {0}, f \in Files \cup {EmptyFile} :
             \E p : Begin(t, Request(op, i, type, f), p)
  <2>1. CASE \E type \in Types : CallCreate(t, type)
    BY <2>1 DEF CallCreate
  <2>2. CASE \E id \in Ids : \E f \in Files : CallPut(t, id, f)
    BY <2>2 DEF CallPut
  <2>3. CASE \E id \in Ids : CallGet(t, id)
    BY <2>3 DEF CallGet
  <2>4. CASE \E id \in Ids : CallGetattr(t, id)
    BY <2>4 DEF CallGetattr
  <2>5. CASE \E id \in Ids : CallRemove(t, id)
    BY <2>5 DEF CallRemove
  <2> QED
    BY <2>1, <2>2, <2>3, <2>4, <2>5 DEF Calls
<1>2. /\ pc[t] = "idle" /\ call' = [call EXCEPT ![t] = Request(op, i, type, f)]
      /\ UNCHANGED <<contents, reply>>
  BY <1>1 DEF Begin
<1>3. call[t] = Nil
  BY <1>2, LocalFact DEF LocalOK
<1> QED
  BY <1>2, <1>3 DEF Store!Invoke, Request, EmptyFile, Store!EmptyFile

LEMMA ReturnIsReturn ==
  ASSUME AnswerInv, NEW t \in Threads, Return(t) PROVE Store!Return(t)
<1>1. reply[t] # Nil
  BY DEF Return, AnswerInv, RepliesOK, Answered
<1> QED
  BY <1>1 DEF Return, Store!Return

(* A call that is not yet answered.                                        *)
LEMMA AnswerStep ==
  ASSUME InodeInv, AnswerInv, NEW t \in Threads, pc[t] # "idle", pc[t] \notin Answered,
         NEW v, Answer(t, v), UNCHANGED call
  PROVE  call[t] # Nil /\ Store!Answer(t, call[t].op, v)
<1>1. call[t] # Nil
  BY LocalFact, NilAssumption DEF LocalOK
<1>2. reply[t] = Nil
  BY DEF AnswerInv, RepliesOK
<1> QED
  BY <1>1, <1>2 DEF Store!Answer, Answer

(* The inode that get_inode finds is the file that is there.               *)
LEMMA FoundIsThere ==
  ASSUME InodeInv, NEW hold, FilesFor(hold), NEW i
  PROVE  /\ GetInode(i) = Nil <=> Store!Lookup(i) = Nil
         /\ GetInode(i) # Nil => /\ GetInode(i).type = Store!Lookup(i).type
                                 /\ GetInode(i).size = Size(Store!Lookup(i).file)
<1>1. CASE i \notin Inums
  BY <1>1 DEF GetInode, Store!Lookup
<1>2. CASE i \in Inums
  BY <1>2 DEF GetInode, Store!Lookup, FilesFor, Matches
<1> QED
  BY <1>1, <1>2

LEMMA GetattrIsGetattr ==
  ASSUME InodeInv, NEW hold, FilesFor(hold), AnswerInv, NEW t \in Threads, Getattr(t)
  PROVE  call[t] # Nil /\ Store!Getattr(t)
<1> DEFINE i == call[t].inum
           v == IF GetInode(i) = Nil THEN <<0, 0>> ELSE <<GetInode(i).type, GetInode(i).size>>
<1>1. pc[t] = "g_get" /\ Answer(t, v) /\ UNCHANGED <<call, contents>>
  BY DEF Getattr, Inum
<1>2. v = IF Store!Lookup(i) = Nil THEN <<0, 0>> ELSE <<Store!Lookup(i).type, Store!Lookup(i).file[1]>>
  BY FoundIsThere DEF Size
<1> HIDE DEF v
<1>3. call[t] # Nil /\ Store!Answer(t, call[t].op, v)
  BY <1>1, AnswerStep DEF Answered
<1>4. call[t].op = "getattr"
  BY <1>1, LocalFact DEF LocalOK
<1> QED
  BY <1>1, <1>2, <1>3, <1>4 DEF Store!Getattr
LEMMA ReadGetIsGet ==
  ASSUME InodeInv, NEW hold, FilesFor(hold), AnswerInv, NEW t \in Threads, ReadGet(t)
  PROVE  UNCHANGED storevars \/ (call[t] # Nil /\ Store!Get(t))
<1>1. pc[t] = "r_get" /\ UNCHANGED <<call, contents>>
  BY DEF ReadGet
<1>2. CASE GetInode(Inum(t)) # Nil
  BY <1>1, <1>2 DEF ReadGet, storevars
<1>3. CASE GetInode(Inum(t)) = Nil
  <2>1. Answer(t, EmptyFile)
    BY <1>3 DEF ReadGet
  <2>2. call[t] # Nil /\ Store!Answer(t, call[t].op, EmptyFile)
    BY <1>1, <2>1, AnswerStep DEF Answered
  <2>3. call[t].op = "get"
    BY <1>1, LocalFact DEF LocalOK
  <2>4. Store!Lookup(call[t].inum) = Nil
    BY <1>3, FoundIsThere DEF Inum
  <2> QED
    BY <1>1, <2>2, <2>3, <2>4 DEF Store!Get, EmptyFile, Store!EmptyFile
<1> QED
  BY <1>2, <1>3

LEMMA ReadLoopIsGet ==
  ASSUME InodeInv, NEW hold, FilesFor(hold), AnswerInv, NEW t \in Threads, ReadLoop(t)
  PROVE  UNCHANGED storevars \/ (call[t] # Nil /\ Store!Get(t))
<1> DEFINE i == call[t].inum
<1>1. pc[t] = "r_loop" /\ UNCHANGED <<call, contents>>
  BY DEF ReadLoop
<1>2. CASE loc[t].remaining # 0
  BY <1>1, <1>2 DEF ReadLoop, storevars
<1>3. CASE loc[t].remaining = 0
  <2>1. Answer(t, AsFile(loc[t].ino.size, loc[t].data))
    BY <1>3 DEF ReadLoop
  <2>2. contents[i] # Nil /\ AsFile(loc[t].ino.size, loc[t].data) = contents[i].file
    BY <1>1, <1>3, ReadsTheFile
  <2>3. call[t] # Nil /\ Store!Answer(t, call[t].op, contents[i].file)
    BY <1>1, <2>1, <2>2, AnswerStep DEF Answered
  <2>4. call[t].op = "get" /\ i \in Inums
    BY <1>1, LocalFact DEF LocalOK
  <2>5. Store!Lookup(i) = contents[i]
    BY <2>4 DEF Store!Lookup
  <2> QED
    BY <1>1, <2>2, <2>3, <2>4, <2>5 DEF Store!Get
<1> QED
  BY <1>2, <1>3

(* A put of a file that is not there, or of one that is too large.         *)
LEMMA WriteGetIsPut ==
  ASSUME InodeInv, NEW hold, FilesFor(hold), AnswerInv, NEW t \in Threads, WriteGet(t)
  PROVE  UNCHANGED storevars \/ (call[t] # Nil /\ Store!Put(t))
<1> DEFINE i == call[t].inum
           f == call[t].file
<1>1. pc[t] = "w_get" /\ UNCHANGED <<call, contents>>
  BY DEF WriteGet
<1>2. CASE ~(NewSize(t) > BLOCK_SIZE * MAXFILE \/ GetInode(Inum(t)) = Nil)
  BY <1>1, <1>2 DEF WriteGet, storevars
<1>3. CASE NewSize(t) > BLOCK_SIZE * MAXFILE \/ GetInode(Inum(t)) = Nil
  <2>1. Answer(t, 0)
    BY <1>3 DEF WriteGet
  <2>2. call[t] # Nil /\ Store!Answer(t, call[t].op, 0)
    BY <1>1, <2>1, AnswerStep DEF Answered
  <2>3. call[t].op = "put" /\ f \in Files
    BY <1>1, LocalFact DEF LocalOK
  <2>4. f[1] \in Nat /\ BLOCK_SIZE * MAXFILE \in Nat
    BY <2>3, FilesAssumption, Bytes DEF MaxBytes
  <2>5. ~(Store!Lookup(i) # Nil /\ f[1] <= BLOCK_SIZE * MAXFILE)
    BY <1>3, <2>4, FoundIsThere DEF Inum, NewSize, Size
  <2>6. contents' = IF Store!Lookup(i) # Nil /\ f[1] <= BLOCK_SIZE * MAXFILE
                    THEN [contents EXCEPT ![i].file = f] ELSE contents
    BY <1>1, <2>5
  <2> QED
    BY <2>2, <2>3, <2>6 DEF Store!Put
<1> QED
  BY <1>2, <1>3

(* A remove of a file that is not there.                                   *)
LEMMA RemoveGetIsRemove ==
  ASSUME InodeInv, NEW hold, FilesFor(hold), AnswerInv, NEW t \in Threads, RemoveGet(t)
  PROVE  UNCHANGED storevars \/ (call[t] # Nil /\ Store!Remove(t))
<1> DEFINE i == call[t].inum
<1>1. pc[t] = "d_get" /\ UNCHANGED <<call, contents>>
  BY DEF RemoveGet
<1>2. CASE GetInode(Inum(t)) # Nil
  BY <1>1, <1>2 DEF RemoveGet, storevars
<1>3. CASE GetInode(Inum(t)) = Nil
  <2>1. Answer(t, 0)
    BY <1>3 DEF RemoveGet
  <2>2. call[t] # Nil /\ Store!Answer(t, call[t].op, 0)
    BY <1>1, <2>1, AnswerStep DEF Answered
  <2>3. call[t].op = "remove"
    BY <1>1, LocalFact DEF LocalOK, Removing
  <2>4. i \in Inums => contents[i] = Nil
    BY <1>3, FoundIsThere DEF Inum, Store!Lookup
  <2>5. contents \in [Inums -> Records \cup {Nil}]
    BY DEF InodeInv, Shared
  <2>6. contents' = [j \in Inums |-> IF j = i THEN Nil ELSE contents[j]]
    BY <1>1, <2>4, <2>5
  <2> QED
    BY <2>2, <2>3, <2>6 DEF Store!Remove
<1> QED
  BY <1>2, <1>3

(* put_inode is where a create, a put and a remove take effect.            *)
LEMMA PutWriteIsEffect ==
  ASSUME InodeInv, NEW hold, FilesFor(hold), AnswerInv, NEW t \in Threads, PutWrite(t)
  PROVE  UNCHANGED storevars \/ (call[t] # Nil /\ Store!Effect(t))
<1> DEFINE l == loc[t]
           c == call[t]
           i == PutInum(t)
           rec == [type |-> l.ino.type, file |-> c.file]
<1>1. pc[t] = "p_write" /\ UNCHANGED call
  BY DEF PutWrite
<1>2. LocalOK("p_write", l, c) /\ Phase("p_write", l, c, hold, disk, itable)
  BY <1>1, LocalFact, PhaseFact
<1>3. /\ c.op \in {"create", "put", "get", "remove"} /\ Fits(l.ino) /\ i \in Inums
      /\ c.op # "create" => i = c.inum
  BY <1>2 DEF LocalOK, PutInum, Inum
<1>4. contents \in [Inums -> Records \cup {Nil}] /\ Matches(itable, contents)
  BY DEF InodeInv, Shared, FilesFor
<1>5. CASE c.op = "get"
  <2>1. UNCHANGED reply
    BY <1>5 DEF PutWrite
  <2>2. contents' = [contents EXCEPT ![i] = contents[i]]
    BY <1>5 DEF PutWrite
  <2>3. contents' = contents
    BY <1>3, <1>4, <2>2
  <2> QED
    BY <1>1, <2>1, <2>3 DEF storevars
<1>6. CASE c.op = "create"
  <2>1. itable[i] = Nil /\ l.ino = FreshInode(c.type) /\ c.file = EmptyFile
    BY <1>2, <1>6 DEF Phase, PutInum
  <2>2. Answer(t, i) /\ contents' = [contents EXCEPT ![i] = rec]
    BY <1>6 DEF PutWrite
  <2>3. contents[i] = Nil
    BY <1>3, <1>4, <2>1 DEF Matches
  <2>4. contents' = [contents EXCEPT ![i] = [type |-> c.type, file |-> <<0, 0>>]]
    BY <2>1, <2>2 DEF FreshInode, EmptyFile
  <2>5. c # Nil /\ Store!Answer(t, "create", i)
    BY <1>1, <1>6, <2>2, AnswerStep DEF Answered
  <2>6. Store!Create(t)
    BY <1>3, <2>3, <2>4, <2>5 DEF Store!Create, Store!EmptyFile
  <2> QED
    BY <2>5, <2>6 DEF Store!Effect
<1>7. CASE c.op = "put"
  <2>1. itable[i] # Nil /\ l.ino.type = itable[i].type /\ Laid(disk, hold[i], l.ino, c.file)
    BY <1>2, <1>3, <1>7 DEF Phase
  <2>2. Answer(t, 0) /\ contents' = [contents EXCEPT ![i] = rec]
    BY <1>7 DEF PutWrite
  <2>3. contents[i] \in Records /\ contents[i] # Nil /\ contents[i].type = l.ino.type
    BY <1>3, <1>4, <2>1 DEF Matches
  <2>4. c.file[1] <= BLOCK_SIZE * MAXFILE
    BY <1>3, <2>1 DEF Laid, Fits, MaxBytes, Size
  <2>5. rec = [contents[i] EXCEPT !.file = c.file]
    BY <2>3 DEF Records
  <2>6. contents' = [contents EXCEPT ![c.inum].file = c.file]
    BY <1>3, <1>7, <2>2, <2>5
  <2>7. c # Nil /\ Store!Answer(t, "put", 0)
    BY <1>1, <1>7, <2>2, AnswerStep DEF Answered
  <2>8. Store!Lookup(c.inum) # Nil
    BY <1>3, <1>7, <2>3 DEF Store!Lookup
  <2>9. Store!Put(t)
    BY <2>4, <2>6, <2>7, <2>8 DEF Store!Put
  <2> QED
    BY <2>7, <2>9 DEF Store!Effect
<1>8. CASE c.op = "remove"
  <2>1. Answer(t, 0) /\ contents' = [contents EXCEPT ![i] = Nil]
    BY <1>8 DEF PutWrite
  <2>2. c # Nil /\ Store!Answer(t, "remove", 0)
    BY <1>1, <1>8, <2>1, AnswerStep DEF Answered
  <2>3. contents' = [j \in Inums |-> IF j = c.inum THEN Nil ELSE contents[j]]
    BY <1>3, <1>4, <1>8, <2>1
  <2>4. Store!Remove(t)
    BY <2>2, <2>3 DEF Store!Remove
  <2> QED
    BY <2>2, <2>4 DEF Store!Effect
<1> QED
  BY <1>3, <1>5, <1>6, <1>7, <1>8

(* A step inside a call is where the call takes effect, or nothing to see. *)
LEMMA InsideIsStore ==
  ASSUME InodeInv, FilesInv, AnswerInv, NEW t \in Threads, Inside(t)
  PROVE  (call[t] # Nil /\ Store!Effect(t)) \/ UNCHANGED storevars
<1>1. PICK hold : FilesFor(hold)
  BY DEF FilesInv
<1>2. \/ Silently(t) \/ PutWrite(t) \/ ReadPointers(t) \/ ReadLoop(t)
      \/ Getattr(t) \/ ReadGet(t) \/ WriteGet(t) \/ RemoveGet(t) \/ Exit(t)
  BY DEF Inside, Silently
<1>3. CASE Silently(t)
  BY <1>3, SilentStep DEF storevars
<1>4. CASE PutWrite(t)
  BY <1>1, <1>4, PutWriteIsEffect
<1>5. CASE ReadPointers(t) \/ Exit(t)
  BY <1>5 DEF ReadPointers, Exit, storevars
<1>6. CASE ReadLoop(t)
  BY <1>1, <1>6, ReadLoopIsGet DEF Store!Effect
<1>7. CASE Getattr(t)
  BY <1>1, <1>7, GetattrIsGetattr DEF Store!Effect
<1>8. CASE ReadGet(t)
  BY <1>1, <1>8, ReadGetIsGet DEF Store!Effect
<1>9. CASE WriteGet(t)
  BY <1>1, <1>9, WriteGetIsPut DEF Store!Effect
<1>10. CASE RemoveGet(t)
  BY <1>1, <1>10, RemoveGetIsRemove DEF Store!Effect
<1> QED
  BY <1>2, <1>3, <1>4, <1>5, <1>6, <1>7, <1>8, <1>9, <1>10

LEMMA NextIsStore ==
  InodeInv /\ FilesInv /\ AnswerInv /\ [Next]_vars => [Store!Next]_storevars
<1> SUFFICES ASSUME InodeInv, FilesInv, AnswerInv, [Next]_vars PROVE Store!Next \/ UNCHANGED storevars
  OBVIOUS
<1>1. CASE UNCHANGED vars
  BY <1>1 DEF vars, storevars
<1>2. CASE Next
  <2>1. PICK t \in Threads : Calls(t) \/ Step(t)
    BY <1>2 DEF Next
  <2>2. CASE Calls(t)
    BY <2>2, CallsAreInvocations DEF Store!Next
  <2>3. CASE Inside(t)
    BY <2>3, InsideIsStore DEF Store!Next
  <2>4. CASE Return(t)
    BY <2>4, ReturnIsReturn DEF Store!Next
  <2> QED
    BY <2>1, <2>2, <2>3, <2>4 DEF Step
<1> QED
  BY <1>1, <1>2

(* The file system is a FileStore: whatever the sizes of blocks, inodes    *)
(* and disk, and the number of clients, every call of a supported workload *)
(* takes effect at one moment and answers what the files are then.         *)
THEOREM InodeLayerIsFileStore == ASSUME Served PROVE Spec /\ []HasRoom => ImplementsFileStore
<1>1. Spec => []InodeInv
  BY InodeInvariant
<1>2. Spec /\ []HasRoom => []FilesInv
  BY FilesInvariant
<1>3. Spec /\ []HasRoom => []AnswerInv
  BY AnswersInvariant
<1>4. InodeInv /\ FilesInv /\ AnswerInv /\ [Next]_vars => [Store!Next]_<<contents, call, reply>>
  BY NextIsStore DEF storevars
<1> QED
  BY <1>1, <1>2, <1>3, <1>4, InitIsStore, PTL DEF Spec, ImplementsFileStore, Store!Spec
=============================================================================

------------------------------- MODULE Workload -------------------------------
(***************************************************************************)
(* The calls the inode layer serves correctly: which files may be resized  *)
(* and removed, and which calls may run beside each other.                 *)
(***************************************************************************)
EXTENDS InodeLayer

(* The sizes write_file resizes between correctly: the direct blocks do    *)
(* not become fewer; a file with indirect blocks keeps some; the new size  *)
(* is not past the direct blocks by less than a block; growing by part of  *)
(* a block stays in the last block; and shrinking gives up as many blocks  *)
(* as the difference in bytes makes.                                       *)
Direct(size) == MIN(Blocks(size), NDIRECT)
SupportedResize(old, new) ==
  \/ new > BLOCK_SIZE * MAXFILE
  \/ /\ Direct(new) >= Direct(old)
     /\ old > DirectBytes => new > DirectBytes
     /\ new <= DirectBytes \/ new >= DirectBytes + BLOCK_SIZE
     /\ new % BLOCK_SIZE # 0 /\ old > DirectBytes /\ Blocks(old) < Blocks(new)
          => new - BLOCK_SIZE >= old
     /\ new < old => Blocks(old - new) = Blocks(old) - Blocks(new)

(* remove_file counts the indirect blocks of a file correctly unless they  *)
(* are all full.                                                           *)
SupportedRemove(size) == size <= DirectBytes \/ size % BLOCK_SIZE # 0

(* put and get index the locks with the id, so it must be an inum.         *)
Supported(c, files) ==
  /\ c.op = "create" => \E i \in Inums : files[i] = Nil
  /\ c.op # "create" => c.inum # 0
  /\ c.op \in {"put", "get"} => c.inum \in Inums
  /\ c.inum \in Inums /\ files[c.inum] # Nil =>
       LET old == Size(files[c.inum].file)
       IN /\ c.op = "put" => SupportedResize(old, Size(c.file))
          /\ c.op = "remove" => SupportedRemove(old)

(* One call at a time.                                                     *)
SerialWorkload(c, files, others) == others = {} /\ Supported(c, files)

(* Clients beside each other.  Left out are the pairs of calls that the    *)
(* code does not protect from each other: two creates, and a remove beside *)
(* a put, a get or a remove of the same file.                              *)
Conflict(c, d) ==
  \/ c.op = "create" /\ d.op = "create"
  \/ /\ c.inum = d.inum
     /\ "remove" \in {c.op, d.op}
     /\ {c.op, d.op} \subseteq {"put", "get", "remove"}
ConcurrentWorkload(c, files, others) ==
  /\ Supported(c, files)
  /\ \A d \in others : ~Conflict(c, d)
(* The pairs of calls proved to be safe beside each other.  put_inode      *)
(* writes the inodes of a whole block back, so two files must be in        *)
(* different blocks of the inode table, and a create, which may take any   *)
(* inode, runs alone; puts of one file must be resizes in any order.       *)
Compatible(c, d) ==
  \/ "getattr" \in {c.op, d.op}
  \/ /\ "create" \notin {c.op, d.op}
     /\ IF c.inum = d.inum
        THEN /\ "remove" \notin {c.op, d.op}
             /\ c.op = "put" /\ d.op = "put" =>
                  SupportedResize(Size(c.file), Size(d.file)) /\ SupportedResize(Size(d.file), Size(c.file))
        ELSE c.inum \in Inums /\ d.inum \in Inums => IBLOCK(c.inum) # IBLOCK(d.inum)
ApartWorkload(c, files, others) == Supported(c, files) /\ \A d \in others : Compatible(c, d)
=============================================================================

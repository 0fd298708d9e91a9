---------------------------- MODULE MCInodeLayer ----------------------------
(* TLC instances of InodeLayer: files, and the workloads clients run.      *)
EXTENDS Workload
CONSTANTS t1, t2

OneThread  == {t1}
TwoThreads == {t1, t2}

(* Files by size, NDIRECT * BLOCK_SIZE being 4 and the largest file 10: a  *)
(* partial and a full direct block more, the smallest file with an indirect*)
(* block that write_file lays out as one, partial and full indirect blocks,*)
(* two contents of one size, and a file that is too large.                 *)
MixedFiles == {<<3, 1>>, <<6, 1>>, <<6, 2>>, <<7, 1>>, <<10, 1>>, <<11, 1>>}

-----------------------------------------------------------------------------
(* part2_tester: files of whole blocks, all with indirect blocks.          *)
WholeBlockFiles == {<<4, 1>>, <<4, 2>>, <<6, 1>>}

-----------------------------------------------------------------------------
(* Workloads outside of the supported ones, each with the files of one     *)
(* question.                                                               *)

(* Files are created, each create by itself, and then put and read, by     *)
(* several clients at once.                                                *)
PutWorkload(c, files, others) ==
  IF c.op = "create"
  THEN others = {} /\ \E i \in Inums : files[i] = Nil
  ELSE /\ c.op \in {"put", "get"} /\ c.inum \in Inums \ {0} /\ files[c.inum] # Nil
       /\ \A d \in others : d.op # "create"

(* The same, without the gets.                                             *)
WriteWorkload(c, files, others) == c.op # "get" /\ PutWorkload(c, files, others)

PastDirectFile  == {<<5, 1>>}             \* past the direct blocks by half a block
DirectFiles     == {<<2, 1>>, <<4, 1>>}   \* one and two direct blocks
SmallFile       == {<<2, 1>>}
=============================================================================

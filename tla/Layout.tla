-------------------------------- MODULE Layout --------------------------------
(***************************************************************************)
(* Where things are on the disk (inode_layer.h and the constructor of      *)
(* block_layer):                                                           *)
(*                                                                         *)
(*     | superblock | free block bitmap | inode table | data |             *)
(*                                                                         *)
(* The constructor stores BLOCK_NUM in sb.nblocks and INODE_NUM in         *)
(* sb.ninodes; nothing changes them afterwards, so they are constants.     *)
(***************************************************************************)
EXTENDS Integers

CONSTANTS BLOCK_NUM,   \* blocks of the disk
          BPB,         \* bits per bitmap block
          INODE_NUM,   \* inodes of the table
          IPB          \* inodes per block

ASSUME LayoutAssumption ==
  /\ BLOCK_NUM \in Nat \ {0}
  /\ BPB \in Nat \ {0}
  /\ INODE_NUM \in Nat \ {0}
  /\ IPB \in Nat \ {0}
  /\ BLOCK_NUM % BPB = 0    \* 32768 blocks, 4096 bits per bitmap block

nblocks == BLOCK_NUM

(* The block that holds inode i, and the bitmap block that holds the bit   *)
(* of block b.                                                             *)
IBLOCK(i) == nblocks \div BPB + i \div IPB + 1
BBLOCK(b) == b \div BPB + 1

(* alloc_block's IBLOCK(1023, sb.nblocks) + 1, INODE_NUM being 1024.       *)
first_data_block == IBLOCK(INODE_NUM - 1) + 1

BitmapBlocks == 1..(nblocks \div BPB)
Offsets      == 0..(BPB - 1)
Inums        == 0..(INODE_NUM - 1)
InodeBlocks  == {IBLOCK(i) : i \in Inums}
DataBlocks   == first_data_block..(BLOCK_NUM - 1)
=============================================================================

---------------------------- MODULE BlockAllocator ----------------------------
(***************************************************************************)
(* What block_layer promises its callers: alloc_block takes the lowest     *)
(* free block in one step and reports failure only when no block is free;  *)
(* free_block gives its block back in one step.                            *)
(***************************************************************************)
EXTENDS Integers

CONSTANTS Threads,   \* callers
          Blocks,    \* blocks that can be allocated, a set of integers
          NOBLOCK    \* answer of an allocation that fails

VARIABLES used,      \* the blocks that are allocated
          result     \* [Threads -> Blocks \cup {NOBLOCK}]: last answer

Init == used = {} /\ result \in [Threads -> {NOBLOCK}]

Alloc(t) ==
  \/ \E b \in Blocks \ used :
       /\ \A c \in Blocks \ used : b <= c
       /\ used' = used \cup {b}
       /\ result' = [result EXCEPT ![t] = b]
  \/ /\ Blocks \subseteq used
     /\ result' = [result EXCEPT ![t] = NOBLOCK]
     /\ used' = used

Free(b) == used' = used \ {b} /\ result' = result

Next == (\E t \in Threads : Alloc(t)) \/ (\E b \in Blocks : Free(b))

Spec == Init /\ [][Next]_<<used, result>>
=============================================================================

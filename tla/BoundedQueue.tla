----------------------------- MODULE BoundedQueue -----------------------------
(***************************************************************************)
(* What fifo<T> promises: a first-in first-out queue of at most max_ items *)
(* (any number if max_ is 0) on which enq and deq take effect in one step, *)
(* and which refuses an item only when it is full.                         *)
(***************************************************************************)
EXTENDS Naturals, Sequences

CONSTANTS Producers, Consumers, Items,
          max_,
          None        \* nothing received yet

VARIABLES queue,      \* the items, oldest first
          received,   \* [Consumers -> Items \cup {None}]: what each deq delivered last
          accepted    \* [Producers -> BOOLEAN]: what each enq answered last

HasSpace == max_ = 0 \/ Len(queue) < max_

Init == /\ queue = <<>>
        /\ received = [c \in Consumers |-> None]
        /\ accepted = [p \in Producers |-> TRUE]

Enq(p) == /\ HasSpace
          /\ \E e \in Items : queue' = Append(queue, e)
          /\ accepted' = [accepted EXCEPT ![p] = TRUE]
          /\ UNCHANGED received

Refuse(p) == /\ ~HasSpace
             /\ accepted' = [accepted EXCEPT ![p] = FALSE]
             /\ UNCHANGED <<queue, received>>

Deq(c) == /\ queue # <<>>
          /\ received' = [received EXCEPT ![c] = Head(queue)]
          /\ queue' = Tail(queue)
          /\ UNCHANGED accepted

Next == \/ \E p \in Producers : Enq(p) \/ Refuse(p)
        \/ \E c \in Consumers : Deq(c)

Spec == Init /\ [][Next]_<<queue, received, accepted>>
=============================================================================

---------------------------- MODULE ExclusiveLock ----------------------------
(***************************************************************************)
(* What a lock promises when every holder excludes every other thread: a   *)
(* thread enters only when nobody is inside, and leaves only itself.  It   *)
(* is the abstract specification that a4_rwlock (locks.h) is shown to      *)
(* implement, and the guarantee InodeLayer relies on for rwlocks[inum].    *)
(***************************************************************************)
CONSTANT Threads

VARIABLE inside    \* the threads between an enter and the matching exit

Init == inside = {}

Enter(t) == /\ inside = {}
            /\ inside' = {t}

Exit(t) == /\ t \in inside
           /\ inside' = inside \ {t}

Next == \E t \in Threads : Enter(t) \/ Exit(t)

Spec == Init /\ [][Next]_inside
=============================================================================

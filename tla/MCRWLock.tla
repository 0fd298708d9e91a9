------------------------------ MODULE MCRWLock ------------------------------
(* TLC instances of RWLock: the four threads of part2_tester (two readers, *)
(* two writers), and readers alone.                                        *)
EXTENDS RWLock
CONSTANTS r1, r2, w1, w2

TwoReaders == {r1, r2}
TwoWriters == {w1, w2}
NoWriters  == {}
=============================================================================

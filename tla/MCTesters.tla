------------------------------ MODULE MCTesters ------------------------------
(* TLC instance of Testers: LARGE_FILE_SIZE is 4, two blocks, of which one *)
(* is direct.                                                              *)
EXTENDS Testers
CONSTANTS w1, w2, r1

TwoWriters == {w1, w2}
OneReader  == {r1}
AllThreads == {main, w1, w2, r1}
TestFiles  == {<<1, 1>>, <<1, 2>>, <<4, 1>>, <<4, 2>>, <<5, 1>>, <<8, 1>>}
Numbers    == {<<1, 1>>, <<1, 2>>}
Strings    == {<<4, 1>>, <<5, 1>>}
Large      == {<<4, 1>>, <<4, 2>>}
Double     == {<<8, 1>>}
AnyCall(c, files, others) == TRUE
=============================================================================

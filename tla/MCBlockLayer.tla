---------------------------- MODULE MCBlockLayer ----------------------------
(* TLC instance of BlockLayer.  The data blocks 5..8 have their bits in    *)
(* two bitmap blocks; two threads share them.                              *)
EXTENDS BlockLayer
CONSTANTS t1, t2

TwoThreads == {t1, t2}
=============================================================================

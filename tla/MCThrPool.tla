------------------------------ MODULE MCThrPool ------------------------------
(* TLC instances of ThrPool.                                               *)
EXTENDS ThrPool
CONSTANTS p1, p2, c1, c2, j1, j2, j3

TwoProducers == {p1, p2}
TwoConsumers == {c1, c2}
ThreeJobs == {j1, j2, j3}
JobItems == ThreeJobs \cup {EmptyJob}
=============================================================================

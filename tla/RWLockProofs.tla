---------------------------- MODULE RWLockProofs ----------------------------
(***************************************************************************)
(* For any readers and writers, any number of rounds and any width of int: *)
(* a4_rwlock is an exclusive lock on which nobody ever waits for a         *)
(* condition.                                                              *)
(***************************************************************************)
EXTENDS RWLock, TLAPS

(* The inductive invariant.  MutexOwner alone is not inductive: a thread   *)
(* that passed the test could find a counter out of step with the owner,   *)
(* wait, and hand the mutex over.  CountersMatch says that whoever reaches *)
(* a test finds both counters of its while loop at zero; NobodyWaits then  *)
(* follows, and keeps the two exits from waking anybody.                   *)
LockInv == TypeOK /\ MutexOwner /\ NobodyWaits /\ CountersMatch

USE ThreadsAssumption, MaxRoundsAssumption, IntMaxAssumption

LEMMA DecrementType ==
  ASSUME NEW n \in INT_MIN..INT_MAX
  PROVE  Decrement(n) \in INT_MIN..INT_MAX
  BY DEF Decrement, INT_MIN

LEMMA InitLockInv == Init => LockInv
  BY DEF Init, LockInv, TypeOK, MutexOwner, NobodyWaits, CountersMatch,
         Threads, Labels, INT_MIN

LEMMA CallLockInv == ASSUME NEW t \in Threads, LockInv, Call(t) PROVE LockInv'
  BY DEF LockInv, TypeOK, MutexOwner, NobodyWaits, CountersMatch, Threads,
         Labels, Call, Goto, counters

LEMMA ReaderLockLockInv ==
  ASSUME NEW r \in Readers, LockInv, ReaderLock(r) PROVE LockInv'
  BY DEF LockInv, TypeOK, MutexOwner, NobodyWaits, CountersMatch, Threads,
         Labels, ReaderLock, Goto, counters

LEMMA WriterLockLockInv ==
  ASSUME NEW w \in Writers, LockInv, WriterLock(w) PROVE LockInv'
  BY DEF LockInv, TypeOK, MutexOwner, NobodyWaits, CountersMatch, Threads,
         Labels, WriterLock, Goto, counters

LEMMA ReaderEnterLockInv ==
  ASSUME NEW r \in Readers, LockInv, ReaderEnter(r) PROVE LockInv'
<1>1. activeWriters = 0 /\ waitingWriters = 0 /\ activeReaders = 0 /\ mutex = r
  BY DEF LockInv, ReaderEnter, MutexOwner, CountersMatch, Threads
<1>2. waitingReaders' \in INT_MIN..INT_MAX
  BY <1>1, DecrementType DEF LockInv, TypeOK, ReaderEnter
<1> QED
  BY <1>1, <1>2 DEF LockInv, TypeOK, MutexOwner, NobodyWaits, CountersMatch,
         Threads, Labels, ReaderEnter, Goto, counters

LEMMA WriterEnterLockInv ==
  ASSUME NEW w \in Writers, LockInv, WriterEnter(w) PROVE LockInv'
<1>1. activeWriters = 0 /\ waitingWriters = 1 /\ activeReaders = 0 /\ mutex = w
  BY DEF LockInv, WriterEnter, MutexOwner, CountersMatch, Threads
<1> QED
  BY <1>1 DEF LockInv, TypeOK, MutexOwner, NobodyWaits, CountersMatch,
         Threads, Labels, WriterEnter, Goto, counters

LEMMA ReaderExitLockInv ==
  ASSUME NEW r \in Readers, LockInv, ReaderExit(r) PROVE LockInv'
<1>1. activeWriters = 0 /\ waitingWriters = 0 /\ activeReaders = 1 /\ mutex = r
  BY DEF LockInv, ReaderExit, MutexOwner, CountersMatch, Threads
<1>2. pc' = [pc EXCEPT ![r] = "unlock"]
  BY <1>1 DEF ReaderExit, Goto
<1> QED
  BY <1>1, <1>2 DEF LockInv, TypeOK, MutexOwner, NobodyWaits, CountersMatch,
         Threads, Labels, ReaderExit

(* Nobody waits, so neither signal nor broadcast changes a pc; and nobody  *)
(* else is at "test", so waitingWriters is 0.                              *)
LEMMA WriterExitLockInv ==
  ASSUME NEW w \in Writers, LockInv, WriterExit(w) PROVE LockInv'
<1>1. activeWriters = 1 /\ waitingWriters = 0 /\ activeReaders = 0 /\ mutex = w
  BY DEF LockInv, WriterExit, MutexOwner, CountersMatch, Threads
<1>2. pc' = [pc EXCEPT ![w] = "unlock"]
  <2>1. Waiting(Readers) = {}
    BY DEF LockInv, NobodyWaits, Waiting, Threads
  <2>2. CASE waitingReaders > 0
    <3>1. pc' = [u \in Threads |-> IF u = w THEN "unlock" ELSE pc[u]]
      BY <1>1, <2>1, <2>2 DEF WriterExit, Broadcast
    <3> QED
      BY <3>1 DEF LockInv, TypeOK
  <2>3. CASE ~(waitingReaders > 0)
    BY <1>1, <2>3 DEF WriterExit, Goto
  <2> QED
    BY <2>2, <2>3
<1> QED
  BY <1>1, <1>2 DEF LockInv, TypeOK, MutexOwner, NobodyWaits, CountersMatch,
         Threads, Labels, WriterExit

LEMMA UnlockLockInv == ASSUME NEW t \in Threads, LockInv, Unlock(t) PROVE LockInv'
<1>1. mutex = t
  BY DEF LockInv, MutexOwner, Unlock
<1> QED
  BY <1>1 DEF LockInv, TypeOK, MutexOwner, NobodyWaits, CountersMatch, Threads,
         Labels, Unlock, Goto, counters

LEMMA NextLockInv == LockInv /\ [Next]_vars => LockInv'
<1> SUFFICES ASSUME LockInv, [Next]_vars PROVE LockInv'
  OBVIOUS
<1>1. CASE UNCHANGED vars
  BY <1>1 DEF vars, LockInv, TypeOK, MutexOwner, NobodyWaits, CountersMatch
<1>2. CASE \E t \in Threads : Step(t)
  <2> PICK t \in Threads : Step(t)
    BY <1>2
  <2> QED
    BY CallLockInv, ReaderLockLockInv, ReaderEnterLockInv, ReaderExitLockInv,
       WriterLockLockInv, WriterEnterLockInv, WriterExitLockInv, UnlockLockInv
       DEF Step, Acquire, Release
<1> QED
  BY <1>1, <1>2 DEF Next

(* LockInv holds in every state of a4_rwlock, whatever the threads.        *)
THEOREM LockInvariant == Spec => []LockInv
  BY InitLockInv, NextLockInv, PTL DEF Spec

(* Type correctness: waitingWriters, activeReaders and activeWriters,      *)
(* which the exits change without a lock, are never negative or above one. *)
THEOREM TypeCorrect == Spec => []TypeOK
  BY LockInvariant, PTL DEF LockInv

(* pthread_cond_wait is unreachable in reader_enter and in writer_enter.   *)
THEOREM NobodyEverWaits == Spec => []NobodyWaits
  BY LockInvariant, PTL DEF LockInv

(* From the test in enter to the unlock in exit a thread owns the mutex.   *)
THEOREM OwnerInvariant == Spec => []MutexOwner
  BY LockInvariant, PTL DEF LockInv

(* The counters that the while loops and the exits read always describe    *)
(* the owner of the mutex and nobody else.                                 *)
THEOREM CountersAreRight == Spec => []CountersMatch
  BY LockInvariant, PTL DEF LockInv

-----------------------------------------------------------------------------
(* The refinement: Inside is {} or {mutex}, a step of enter past its test  *)
(* is an abstract Enter, the bookkeeping of exit an abstract Exit, and     *)
(* every other step changes no member of Inside.                           *)

LEMMA OnlyOwnerInside == LockInv => \A t \in Inside : mutex = t
  BY DEF LockInv, MutexOwner, Inside

LEMMA StepRefines == LockInv /\ LockInv' /\ [Next]_vars => [Exclusive!Next]_Inside
<1> SUFFICES ASSUME LockInv, LockInv', [Next]_vars
             PROVE  Exclusive!Next \/ UNCHANGED Inside
  BY DEF Inside
<1>1. CASE UNCHANGED vars
  BY <1>1 DEF vars, Inside
<1>2. ASSUME NEW t \in Threads, Step(t) PROVE Exclusive!Next \/ UNCHANGED Inside
  <2>1. CASE Call(t) \/ Unlock(t) \/ (t \in Readers /\ ReaderLock(t)) \/ (t \in Writers /\ WriterLock(t))
    BY <2>1 DEF LockInv, TypeOK, Call, Unlock, ReaderLock, WriterLock, Goto, Inside
  <2>2. CASE (t \in Readers /\ ReaderEnter(t)) \/ (t \in Writers /\ WriterEnter(t))
    <3>1. mutex = t /\ pc[t] = "test" /\ pc' = [pc EXCEPT ![t] = "inside"]
      BY <2>2 DEF LockInv, NobodyWaits, TypeOK, MutexOwner, ReaderEnter, WriterEnter, Goto, Threads
    <3>2. Inside = {} /\ Inside' = {t}
      BY <3>1, OnlyOwnerInside DEF Inside, LockInv, TypeOK
    <3> QED
      BY <3>2 DEF Exclusive!Next, Exclusive!Enter
  <2>3. CASE (t \in Readers /\ ReaderExit(t)) \/ (t \in Writers /\ WriterExit(t))
    <3>1. pc[t] = "inside" /\ mutex = t /\ mutex' = t /\ pc'[t] = "unlock"
      BY <2>3 DEF LockInv, TypeOK, MutexOwner, ReaderExit, WriterExit, Signal, Broadcast, Goto, Waiting, NobodyWaits
    <3>2. t \in Inside /\ Inside \subseteq {t}
      BY <3>1, OnlyOwnerInside DEF Inside
    <3>3. Inside' = {}
      BY <3>1 DEF Inside, LockInv, MutexOwner
    <3> QED
      BY <3>2, <3>3 DEF Exclusive!Next, Exclusive!Exit
  <2> QED
    BY <1>2, <2>1, <2>2, <2>3 DEF Step, Acquire, Release
<1> QED
  BY <1>1, <1>2 DEF Next

(* a4_rwlock implements ExclusiveLock: it is a mutex, for any number of    *)
(* readers and writers.                                                    *)
THEOREM RWLockIsExclusive == Spec => ImplementsExclusiveLock
<1>1. Init => Exclusive!Init
  BY DEF Init, Exclusive!Init, Inside
<1> QED
  BY <1>1, StepRefines, LockInvariant, PTL
     DEF Spec, ImplementsExclusiveLock, Exclusive!Spec
=============================================================================

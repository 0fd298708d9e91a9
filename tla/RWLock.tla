-------------------------------- MODULE RWLock --------------------------------
(***************************************************************************)
(* class a4_rwlock (locks.h): the reader/writer lock kept per inode.       *)
(*                                                                         *)
(* Reader threads loop over reader_enter; reader_exit, writer threads over *)
(* writer_enter; writer_exit, as the threads of part2_tester do, MaxRounds *)
(* times each.  One action per call that may block and per stretch of code *)
(* between two such calls:                                                 *)
(*                                                                         *)
(*   pc[t]     position of thread t                                        *)
(*   "idle"    outside the lock                                            *)
(*   "lock"    in pthread_mutex_lock                                       *)
(*   "relock"  signalled while in pthread_cond_wait: waits for the mutex   *)
(*   "test"    owns the mutex, at the test of the while loop               *)
(*   "wait"    blocked in pthread_cond_wait (canRead for a reader,         *)
(*             canWrite for a writer), mutex released                      *)
(*   "inside"  enter has returned                                          *)
(*   "unlock"  exit has done its bookkeeping, about to unlock              *)
(*                                                                         *)
(* Note that neither enter unlocks the mutex: the matching exit does.      *)
(* Spurious wake-ups are left out: they need a thread in "wait", and       *)
(* NobodyWaits says there never is one.                                    *)
(***************************************************************************)
EXTENDS Integers

CONSTANTS Readers,    \* threads that take the lock for reading
          Writers,    \* threads that take the lock for writing
          NoThread,   \* the mutex is free
          MaxRounds,  \* bound: how often each thread takes the lock
          INT_MAX     \* largest value of a C int

ASSUME ThreadsAssumption == /\ Readers \cap Writers = {}
                            /\ NoThread \notin Readers \cup Writers
ASSUME MaxRoundsAssumption == MaxRounds \in Nat
ASSUME IntMaxAssumption == INT_MAX \in Nat \ {0}

Threads == Readers \cup Writers

Labels == {"idle", "lock", "relock", "test", "wait", "inside", "unlock"}

VARIABLES waitingWriters,  \* the four int members of the class
          waitingReaders,
          activeWriters,
          activeReaders,
          mutex,           \* owner of the pthread mutex `lock'
          pc,
          rounds           \* calls of enter made by each thread

counters == <<waitingWriters, waitingReaders, activeWriters, activeReaders>>
vars == <<waitingWriters, waitingReaders, activeWriters, activeReaders,
          mutex, pc, rounds>>

INT_MIN == -INT_MAX - 1

(* A C int as the two's complement build steps it down: the decrement of   *)
(* INT_MIN, undefined in C++, wraps around.  That waitingReaders stays     *)
(* within an int is this definition; what is checked is that the lock      *)
(* works whatever the value has become.                                    *)
Decrement(n) == IF n = INT_MIN THEN INT_MAX ELSE n - 1

(* Of the three counters that go up and down none is ever negative or      *)
(* above one.                                                              *)
TypeOK == /\ waitingWriters \in 0..1
          /\ waitingReaders \in INT_MIN..INT_MAX
          /\ activeWriters \in 0..1
          /\ activeReaders \in 0..1
          /\ mutex \in Threads \cup {NoThread}
          /\ pc \in [Threads -> Labels]
          /\ rounds \in [Threads -> 0..MaxRounds]

Init == /\ waitingWriters = 0
        /\ waitingReaders = 0
        /\ activeWriters = 0
        /\ activeReaders = 0
        /\ mutex = NoThread
        /\ pc = [t \in Threads |-> "idle"]
        /\ rounds = [t \in Threads |-> 0]

-----------------------------------------------------------------------------
(* pthread primitives, modelled from their use.                            *)

Goto(t, label) == pc' = [pc EXCEPT ![t] = label]

(* pthread_cond_signal by t, which moves on to `label': one of the waiting *)
(* threads of the set, if any, goes back to competing for the mutex.       *)
Signal(waiters, t, label) ==
  IF waiters = {}
  THEN Goto(t, label)
  ELSE \E w \in waiters : pc' = [pc EXCEPT ![t] = label, ![w] = "relock"]

(* pthread_cond_broadcast by t: all of them do.                            *)
Broadcast(waiters, t, label) ==
  pc' = [u \in Threads |-> IF u = t THEN label
                           ELSE IF u \in waiters THEN "relock" ELSE pc[u]]

Waiting(S) == {t \in S : pc[t] = "wait"}

-----------------------------------------------------------------------------
(* A thread calls reader_enter or writer_enter.                            *)
Call(t) ==
  /\ pc[t] = "idle"
  /\ rounds[t] < MaxRounds
  /\ rounds' = [rounds EXCEPT ![t] = @ + 1]
  /\ Goto(t, "lock")
  /\ UNCHANGED <<counters, mutex>>

(* reader_enter: pthread_mutex_lock, or the re-acquisition of the mutex    *)
(* that ends pthread_cond_wait.                                            *)
ReaderLock(r) ==
  /\ pc[r] \in {"lock", "relock"}
  /\ mutex = NoThread
  /\ mutex' = r
  /\ Goto(r, "test")
  /\ UNCHANGED <<counters, rounds>>

(* Mutant of ReaderEnter: the mutex is released on return, as the class's  *)
(* name suggests, while the exits still take no lock.                      *)
ReaderEnter_ReleasesMutex(r) ==
  /\ pc[r] = "test"
  /\ mutex' = NoThread
  /\ IF activeWriters > 0 \/ waitingWriters > 0
     THEN Goto(r, "wait") /\ UNCHANGED counters
     ELSE /\ waitingReaders' = Decrement(waitingReaders)
          /\ activeReaders' = activeReaders + 1
          /\ Goto(r, "inside")
          /\ UNCHANGED <<waitingWriters, activeWriters>>
  /\ UNCHANGED rounds

(* Mutant of ReaderEnter: the decrement of writer_enter.                   *)
ReaderEnter_WrongCounter(r) ==
  /\ pc[r] = "test"
  /\ IF activeWriters > 0 \/ waitingWriters > 0
     THEN /\ mutex' = NoThread
          /\ Goto(r, "wait")
          /\ UNCHANGED counters
     ELSE /\ waitingWriters' = waitingWriters - 1
          /\ activeReaders' = activeReaders + 1
          /\ Goto(r, "inside")
          /\ UNCHANGED <<waitingReaders, activeWriters, mutex>>
  /\ UNCHANGED rounds

(* reader_enter: the while loop; past it the counters are updated and      *)
(* reader_enter returns, the mutex still held.                             *)
ReaderEnter(r) ==
  /\ pc[r] = "test"
  /\ IF activeWriters > 0 \/ waitingWriters > 0
     THEN /\ mutex' = NoThread
          /\ Goto(r, "wait")
          /\ UNCHANGED counters
     ELSE /\ waitingReaders' = Decrement(waitingReaders)
          /\ activeReaders' = activeReaders + 1
          /\ Goto(r, "inside")
          /\ UNCHANGED <<waitingWriters, activeWriters, mutex>>
  /\ UNCHANGED rounds

(* Mutant of ReaderExit: activeReaders-- is forgotten.                     *)
ReaderExit_KeepsCount(r) ==
  /\ pc[r] = "inside"
  /\ Goto(r, "unlock")
  /\ UNCHANGED <<counters, mutex, rounds>>

(* reader_exit up to the unlock.                                           *)
ReaderExit(r) ==
  /\ pc[r] = "inside"
  /\ activeReaders' = activeReaders - 1
  /\ IF activeReaders' = 0 /\ waitingWriters > 0
     THEN Signal(Waiting(Writers), r, "unlock")
     ELSE Goto(r, "unlock")
  /\ UNCHANGED <<waitingWriters, waitingReaders, activeWriters, mutex, rounds>>

(* writer_enter: pthread_mutex_lock and waitingWriters++; a signalled      *)
(* writer re-acquires the mutex inside pthread_cond_wait, past the ++.     *)
WriterLock(w) ==
  /\ pc[w] \in {"lock", "relock"}
  /\ mutex = NoThread
  /\ mutex' = w
  /\ Goto(w, "test")
  /\ waitingWriters' = IF pc[w] = "lock" THEN waitingWriters + 1 ELSE waitingWriters
  /\ UNCHANGED <<waitingReaders, activeWriters, activeReaders, rounds>>

(* writer_enter: the while loop and what follows it, the mutex still held. *)
WriterEnter(w) ==
  /\ pc[w] = "test"
  /\ IF activeWriters > 0 \/ activeReaders > 0
     THEN /\ mutex' = NoThread
          /\ Goto(w, "wait")
          /\ UNCHANGED counters
     ELSE /\ waitingWriters' = waitingWriters - 1
          /\ activeWriters' = 1
          /\ Goto(w, "inside")
          /\ UNCHANGED <<waitingReaders, activeReaders, mutex>>
  /\ UNCHANGED rounds

(* Mutant of WriterExit: activeWriters = 0 is forgotten.                   *)
WriterExit_KeepsActive(w) ==
  /\ pc[w] = "inside"
  /\ Goto(w, "unlock")
  /\ UNCHANGED <<counters, mutex, rounds>>

(* writer_exit up to the unlock.                                           *)
WriterExit(w) ==
  /\ pc[w] = "inside"
  /\ activeWriters' = 0
  /\ IF waitingWriters > 0
     THEN Signal(Waiting(Writers), w, "unlock")
     ELSE IF waitingReaders > 0
          THEN Broadcast(Waiting(Readers), w, "unlock")
          ELSE Goto(w, "unlock")
  /\ UNCHANGED <<waitingWriters, waitingReaders, activeReaders, mutex, rounds>>

(* pthread_mutex_unlock, the last statement of both exits.                 *)
Unlock(t) ==
  /\ pc[t] = "unlock"
  /\ mutex' = NoThread
  /\ Goto(t, "idle")
  /\ UNCHANGED <<counters, rounds>>

Acquire(t) == \/ t \in Readers /\ (ReaderLock(t) \/ ReaderEnter(t))
              \/ t \in Writers /\ (WriterLock(t) \/ WriterEnter(t))

Release(t) == \/ t \in Readers /\ ReaderExit(t)
              \/ t \in Writers /\ WriterExit(t)
              \/ Unlock(t)

Step(t) == Call(t) \/ Acquire(t) \/ Release(t)

Next == \E t \in Threads : Step(t)

Spec == Init /\ [][Next]_vars

(* Every thread is scheduled.  Nothing is assumed of the order in which    *)
(* the mutex is granted: pthread mutexes are not fair.                     *)
FairSpec == Spec /\ \A t \in Threads : WF_vars(Step(t))

(* A thread inside the lock may stay there as long as it likes (a read     *)
(* sleeps DISK_ACCESS_LATENCY per block); one that asks for it is          *)
(* scheduled.                                                              *)
PatientSpec ==
  Spec /\ \A t \in Threads : WF_vars(Call(t)) /\ WF_vars(Acquire(t))
                             /\ WF_vars(Unlock(t))

-----------------------------------------------------------------------------
Inside == {t \in Threads : pc[t] = "inside"}

(* pthread_cond_wait is never reached: no thread ever sleeps on canRead or *)
(* canWrite, so the missing `waitingReaders++' of reader_enter, which      *)
(* disables the broadcast of writer_exit, cannot strand a reader.          *)
NobodyWaits == \A t \in Threads : pc[t] \notin {"wait", "relock"}

(* A thread is inside the lock, or in the code around it that reads and    *)
(* writes the counters, exactly while it owns the mutex: reader_exit and   *)
(* writer_exit, which take no lock, never race with another thread.        *)
MutexOwner ==
  \A t \in Threads : pc[t] \in {"test", "inside", "unlock"} <=> mutex = t

(* The counters the two while loops and the two exits read describe the    *)
(* owner of the mutex and nobody else.                                     *)
CountersMatch ==
  LET OwnerIs(S, label) == mutex \in S /\ pc[mutex] = label
      Count(P) == IF P THEN 1 ELSE 0
  IN /\ activeReaders = Count(OwnerIs(Readers, "inside"))
     /\ activeWriters = Count(OwnerIs(Writers, "inside"))
     /\ waitingWriters = Count(OwnerIs(Writers, "test"))

(* a4_rwlock implements an exclusive lock: from enter to exit a thread,    *)
(* reader or writer, is alone.                                             *)
Exclusive == INSTANCE ExclusiveLock WITH inside <- Inside
ImplementsExclusiveLock == Exclusive!Spec

Finished == \A t \in Threads : pc[t] = "idle" /\ rounds[t] = MaxRounds

(* Every thread gets through all its rounds: no deadlock in enter, no      *)
(* wake-up that nobody sends (part2_tester joins its threads).             *)
AllFinish == <>Finished

(* README.md, Part III: with a read/write lock readers read concurrently;  *)
(* only with a mutex "readers cannot read concurrently".  So a reader that *)
(* asks for a lock no writer uses gets in, even while another reader       *)
(* reads on.                                                               *)
ReadersShare ==
  \A r \in Readers : (pc[r] = "lock" /\ Writers = {}) ~> (pc[r] = "inside")
=============================================================================

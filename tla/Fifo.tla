--------------------------------- MODULE Fifo ---------------------------------
(***************************************************************************)
(* fifo<T> (rpc/fifo.h): the blocking queue of the RPC library, a list     *)
(* under a mutex with one condition variable per direction.  Producers     *)
(* call enq, consumers call deq (size() changes nothing and is left out).  *)
(* Positions of a thread:                                                  *)
(*                                                                         *)
(*   "idle"    not in the queue                                            *)
(*   "lock"    in ScopedLock's pthread_mutex_lock, or woken up in          *)
(*             pthread_cond_wait and waiting for the mutex                 *)
(*   "test"    owns m_, at the head of the while loop                      *)
(*   "wait"    in pthread_cond_wait (has_space_c_ for a producer,          *)
(*             non_empty_c_ for a consumer), m_ released                   *)
(*   "unlock"  in ScopedLock's destructor                                  *)
(***************************************************************************)
EXTENDS Naturals, Sequences, FiniteSets

CONSTANTS Producers, Consumers, NoThread,
          Items,    \* values of type T
          None,     \* no item
          max_      \* capacity, 0 for none

Threads == Producers \cup Consumers

ASSUME ThreadsFinite == IsFiniteSet(Producers) /\ IsFiniteSet(Consumers)
ASSUME RolesAssumption == /\ Producers \cap Consumers = {}
                          /\ NoThread \notin Threads
                          /\ None \notin Items
ASSUME CapacityAssumption == max_ \in Nat

VARIABLES q_, m_,      \* the list; the owner of the mutex
          pc,
          arg,         \* a producer's call: the item it brings, None before the first
          blocking,    \* and enq's second parameter
          got,         \* what a consumer's last deq stored in *e
          answer       \* what a producer's last enq answered

fifoVars == <<q_, m_, pc, arg, blocking, got, answer>>

Labels == {"idle", "lock", "test", "wait", "unlock"}

TypeOK == /\ q_ \in Seq(Items)
          /\ m_ \in Threads \cup {NoThread}
          /\ pc \in [Threads -> Labels]
          /\ arg \in [Producers -> Items \cup {None}]
          /\ blocking \in [Producers -> BOOLEAN]
          /\ got \in [Consumers -> Items \cup {None}]
          /\ answer \in [Producers -> BOOLEAN]

Init == /\ q_ = <<>>
        /\ m_ = NoThread
        /\ pc = [t \in Threads |-> "idle"]
        /\ arg = [p \in Producers |-> None]
        /\ blocking = [p \in Producers |-> TRUE]
        /\ got = [c \in Consumers |-> None]
        /\ answer = [p \in Producers |-> TRUE]

Goto(t, label) == pc' = [pc EXCEPT ![t] = label]

Asleep(S) == {t \in S : pc[t] = "wait"}
Awake(S) == {t \in S : pc[t] \in {"lock", "test"}}

(* pthread_cond_signal by t, which then leaves: one of the threads that    *)
(* wait for the condition, if any, goes back to competing for the mutex.   *)
SignalAndLeave(t, waiters) ==
  IF waiters = {} THEN Goto(t, "unlock")
  ELSE \E w \in waiters : pc' = [pc EXCEPT ![t] = "unlock", ![w] = "lock"]

(* pthread_cond_wait by the owner of the mutex; it may return without a    *)
(* signal.                                                                 *)
CondWait(t) == m_' = NoThread /\ Goto(t, "wait")

SpuriousWakeup(t) == /\ pc[t] = "wait"
                     /\ Goto(t, "lock")
                     /\ UNCHANGED <<q_, m_, arg, blocking, got, answer>>

-----------------------------------------------------------------------------
(* Mutant of Lock: the mutex is not waited for.                            *)
Lock_NoWait(t) == /\ pc[t] = "lock"
                  /\ m_' = t
                  /\ Goto(t, "test")
                  /\ UNCHANGED <<q_, arg, blocking, got, answer>>

(* ScopedLock: the mutex is taken on entry and released on every way out.  *)
Lock(t) == /\ pc[t] = "lock"
           /\ m_ = NoThread
           /\ m_' = t
           /\ Goto(t, "test")
           /\ UNCHANGED <<q_, arg, blocking, got, answer>>

Unlock(t) == /\ pc[t] = "unlock"
             /\ m_' = NoThread
             /\ Goto(t, "idle")
             /\ UNCHANGED <<q_, arg, blocking, got, answer>>

CallEnq(p, e, b) == /\ pc[p] = "idle"
                    /\ arg' = [arg EXCEPT ![p] = e]
                    /\ blocking' = [blocking EXCEPT ![p] = b]
                    /\ Goto(p, "lock")
                    /\ UNCHANGED <<q_, m_, got, answer>>

(* Mutant of HasSpace: one item more fits.                                 *)
HasSpace_OffByOne == max_ = 0 \/ Len(q_) <= max_

HasSpace == max_ = 0 \/ Len(q_) < max_

(* enq: while(1), under the mutex.                                         *)
Enq(p) ==
  /\ pc[p] = "test"
  /\ \/ /\ HasSpace
        /\ q_' = Append(q_, arg[p])
        /\ answer' = [answer EXCEPT ![p] = TRUE]
        /\ SignalAndLeave(p, Asleep(Consumers))
        /\ UNCHANGED m_
     \/ /\ ~HasSpace /\ blocking[p]
        /\ CondWait(p)
        /\ UNCHANGED <<q_, answer>>
     \/ /\ ~HasSpace /\ ~blocking[p]
        /\ answer' = [answer EXCEPT ![p] = FALSE]
        /\ Goto(p, "unlock")
        /\ UNCHANGED <<q_, m_>>
  /\ UNCHANGED <<arg, blocking, got>>

CallDeq(c) == /\ pc[c] = "idle"
              /\ Goto(c, "lock")
              /\ UNCHANGED <<q_, m_, arg, blocking, got, answer>>

(* Mutants: the front is not popped; the back is popped instead; producers *)
(* are not told of the space.                                              *)
Popped_Kept == q_
Popped_Back == SubSeq(q_, 1, Len(q_) - 1)
TellProducer_Never(n) == FALSE

(* pop_front                                                               *)
Popped == Tail(q_)

(* Does the deq that leaves n items behind signal has_space_c_?            *)
TellProducer(n) == max_ # 0 /\ n < max_

(* deq: while(1), under the mutex.                                         *)
Deq(c) ==
  /\ pc[c] = "test"
  /\ \/ /\ q_ = <<>>
        /\ CondWait(c)
        /\ UNCHANGED <<q_, got>>
     \/ /\ q_ # <<>>
        /\ got' = [got EXCEPT ![c] = Head(q_)]
        /\ q_' = Popped
        /\ IF TellProducer(Len(q_) - 1) THEN SignalAndLeave(c, Asleep(Producers))
           ELSE Goto(c, "unlock")
        /\ UNCHANGED m_
  /\ UNCHANGED <<arg, blocking, answer>>

Calls(t) == \/ t \in Producers /\ \E e \in Items, b \in BOOLEAN : CallEnq(t, e, b)
            \/ t \in Consumers /\ CallDeq(t)

Step(t) == \/ Lock(t) \/ Unlock(t)
           \/ t \in Producers /\ Enq(t)
           \/ t \in Consumers /\ Deq(t)

Next == \E t \in Threads : Calls(t) \/ Step(t) \/ SpuriousWakeup(t)

Spec == Init /\ [][Next]_fifoVars

-----------------------------------------------------------------------------
(* From the test in the loop to the unlock a thread owns the mutex: the    *)
(* list is never touched by two threads at once.                           *)
MutexOwner == \A t \in Threads : pc[t] \in {"test", "unlock"} <=> m_ = t

(* The queue stays within its capacity, however producers and consumers    *)
(* overtake each other between a signal and the test that follows it.      *)
Bounded == max_ # 0 => Len(q_) <= max_

(* No wake-up is lost, though every signal wakes one thread only: while a  *)
(* consumer sleeps, as many consumers are on their way to the list as it   *)
(* has items; while a producer sleeps, as many producers as it has room.   *)
NoLostWakeup ==
  /\ Asleep(Consumers) # {} => Len(q_) <= Cardinality(Awake(Consumers))
  /\ Asleep(Producers) # {} => max_ - Len(q_) <= Cardinality(Awake(Producers))

(* fifo implements the atomic queue: items leave in the order they came,   *)
(* each to one consumer, and enq refuses one only at a moment the queue is *)
(* full.                                                                   *)
Queue == INSTANCE BoundedQueue WITH queue <- q_, received <- got, accepted <- answer
ImplementsBoundedQueue == Queue!Spec
=============================================================================

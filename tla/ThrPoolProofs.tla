----------------------------- MODULE ThrPoolProofs -----------------------------
(***************************************************************************)
(* For any number of producers and consumers, any items and any capacity,  *)
(* fifo<T> is a bounded queue whose steps are atomic, and a signal that    *)
(* wakes a single thread is always enough.                                 *)
(*                                                                         *)
(* For any number of workers, callers and jobs, any capacity of jobq_ and  *)
(* any number of wake-ups without a signal:                                *)
(*                                                                         *)
(*   - the pool uses its queue as a queue, so that what is proved of Fifo  *)
(*     holds in the pool;                                                  *)
(*   - a wrapper is in one place at a time, on the heap while anybody may  *)
(*     still use it, and its method is called at most once;                *)
(*   - the destructor leaves nothing behind but the refused wrappers.      *)
(***************************************************************************)
EXTENDS ThrPool, FiniteSetTheorems, TLAPS

-----------------------------------------------------------------------------
(* The queue.                                                              *)

(* Once it has called, a producer brings an item.                          *)
Bringing == \A p \in Producers : pc[p] # "idle" => arg[p] \in Items

(* The inductive invariant.  NoLostWakeup needs Bounded: a deq signals     *)
(* has_space_c_ only if fewer than max_ items are left, which is always so *)
(* because there were at most max_.  TypeOK needs Bringing, since arg is   *)
(* None before the first call.                                             *)
FifoInv == TypeOK /\ Bringing /\ MutexOwner /\ Bounded

USE RolesAssumption, CapacityAssumption

LEMMA InitFifoInv == Init => FifoInv /\ NoLostWakeup
<1> SUFFICES ASSUME Init PROVE FifoInv /\ NoLostWakeup
  OBVIOUS
<1>1. Asleep(Consumers) = {} /\ Asleep(Producers) = {}
  BY DEF Init, Asleep, Threads
<1> QED
  BY <1>1 DEF Init, FifoInv, TypeOK, Bringing, MutexOwner, Bounded, NoLostWakeup, Threads, Labels

-----------------------------------------------------------------------------
(* What a signal does to pc: t is at "unlock", and the thread that was     *)
(* woken, if any waited, competes for the mutex.                           *)
LEMMA SignalEffect ==
  ASSUME NEW t, NEW waiters, SignalAndLeave(t, waiters)
  PROVE  \/ waiters = {} /\ pc' = [pc EXCEPT ![t] = "unlock"]
         \/ \E w \in waiters : pc' = [pc EXCEPT ![t] = "unlock", ![w] = "lock"]
  BY DEF SignalAndLeave, Goto

LEMMA CallFifoInv ==
  ASSUME NEW t \in Threads, FifoInv, Calls(t) \/ Lock(t) \/ Unlock(t) \/ SpuriousWakeup(t)
  PROVE  FifoInv'
<1>1. CASE Calls(t)
  <2>1. CASE t \in Producers /\ \E e \in Items, b \in BOOLEAN : CallEnq(t, e, b)
    BY <2>1 DEF FifoInv, TypeOK, Bringing, MutexOwner, Bounded, CallEnq, Goto, Threads, Labels
  <2>2. CASE t \in Consumers /\ CallDeq(t)
    BY <2>2 DEF FifoInv, TypeOK, Bringing, MutexOwner, Bounded, CallDeq, Goto, Threads, Labels
  <2> QED
    BY <1>1, <2>1, <2>2 DEF Calls
<1>2. CASE Lock(t)
  BY <1>2 DEF FifoInv, TypeOK, Bringing, MutexOwner, Bounded, Lock, Goto, Threads, Labels
<1>3. CASE Unlock(t)
  BY <1>3 DEF FifoInv, TypeOK, Bringing, MutexOwner, Bounded, Unlock, Goto, Threads, Labels
<1>4. CASE SpuriousWakeup(t)
  BY <1>4 DEF FifoInv, TypeOK, Bringing, MutexOwner, Bounded, SpuriousWakeup, Goto, Threads, Labels
<1> QED
  BY <1>1, <1>2, <1>3, <1>4

LEMMA EnqFifoInv == ASSUME NEW p \in Producers, FifoInv, Enq(p) PROVE FifoInv'
<1>1. p \in Threads /\ m_ = p /\ arg[p] \in Items
  BY DEF FifoInv, MutexOwner, Bringing, Enq, Threads
<1>2. CASE HasSpace /\ q_' = Append(q_, arg[p]) /\ answer' = [answer EXCEPT ![p] = TRUE]
           /\ SignalAndLeave(p, Asleep(Consumers)) /\ UNCHANGED m_
  <2>1. pc' \in [Threads -> Labels] /\ pc'[p] = "unlock"
        /\ \A u \in Threads \ {p} : pc'[u] = pc[u] \/ (pc[u] = "wait" /\ pc'[u] = "lock")
    <3>1. pc \in [Threads -> Labels] /\ "unlock" \in Labels /\ "lock" \in Labels
      BY DEF FifoInv, TypeOK, Labels
    <3>2. \/ pc' = [pc EXCEPT ![p] = "unlock"]
          \/ \E w \in Asleep(Consumers) : pc' = [pc EXCEPT ![p] = "unlock", ![w] = "lock"]
      BY <1>2, SignalEffect
    <3>3. \A w \in Asleep(Consumers) : w # p /\ w \in Threads /\ pc[w] = "wait"
      BY DEF Asleep, Threads
    <3> QED
      BY <1>1, <3>1, <3>2, <3>3
  <2>2. q_' \in Seq(Items) /\ Len(q_') = Len(q_) + 1
    BY <1>1, <1>2 DEF FifoInv, TypeOK
  <2>3. TypeOK'
    BY <1>2, <2>1, <2>2 DEF FifoInv, TypeOK, Enq
  <2>4. Bringing' /\ MutexOwner'
    BY <1>1, <1>2, <2>1 DEF FifoInv, TypeOK, Bringing, MutexOwner, Enq, Threads
  <2>5. Bounded'
    BY <1>2, <2>2 DEF FifoInv, TypeOK, Bounded, HasSpace
  <2> QED
    BY <2>3, <2>4, <2>5 DEF FifoInv
<1>3. CASE CondWait(p) /\ UNCHANGED <<q_, answer>>
  BY <1>1, <1>3 DEF FifoInv, TypeOK, Bringing, MutexOwner, Bounded, Enq, CondWait, Goto, Threads, Labels
<1>4. CASE answer' = [answer EXCEPT ![p] = FALSE] /\ Goto(p, "unlock") /\ UNCHANGED <<q_, m_>>
  BY <1>1, <1>4 DEF FifoInv, TypeOK, Bringing, MutexOwner, Bounded, Enq, Goto, Threads, Labels
<1> QED
  BY <1>2, <1>3, <1>4 DEF Enq

LEMMA DeqFifoInv == ASSUME NEW c \in Consumers, FifoInv, Deq(c) PROVE FifoInv'
<1>1. c \in Threads /\ m_ = c
  BY DEF FifoInv, MutexOwner, Deq, Threads
<1>2. CASE CondWait(c) /\ UNCHANGED <<q_, got>>
  BY <1>1, <1>2 DEF FifoInv, TypeOK, Bringing, MutexOwner, Bounded, Deq, CondWait, Goto, Threads, Labels
<1>3. CASE q_ # <<>> /\ got' = [got EXCEPT ![c] = Head(q_)] /\ q_' = Popped /\ UNCHANGED m_
           /\ IF TellProducer(Len(q_) - 1) THEN SignalAndLeave(c, Asleep(Producers)) ELSE Goto(c, "unlock")
  <2>1. pc' \in [Threads -> Labels] /\ pc'[c] = "unlock"
        /\ \A u \in Threads \ {c} : pc'[u] = pc[u] \/ (pc[u] = "wait" /\ pc'[u] = "lock")
    <3>1. pc \in [Threads -> Labels] /\ "unlock" \in Labels /\ "lock" \in Labels
      BY DEF FifoInv, TypeOK, Labels
    <3>2. \/ pc' = [pc EXCEPT ![c] = "unlock"]
          \/ \E w \in Asleep(Producers) : pc' = [pc EXCEPT ![c] = "unlock", ![w] = "lock"]
      BY <1>3, SignalEffect DEF Goto
    <3>3. \A w \in Asleep(Producers) : w # c /\ w \in Threads /\ pc[w] = "wait"
      BY DEF Asleep, Threads
    <3> QED
      BY <1>1, <3>1, <3>2, <3>3
  <2>2. q_' \in Seq(Items) /\ Head(q_) \in Items /\ Len(q_') = Len(q_) - 1
    BY <1>3 DEF FifoInv, TypeOK, Popped
  <2>3. TypeOK'
    BY <1>3, <2>1, <2>2 DEF FifoInv, TypeOK, Deq
  <2>4. Bringing' /\ MutexOwner'
    BY <1>1, <1>3, <2>1 DEF FifoInv, TypeOK, Bringing, MutexOwner, Deq, Threads
  <2>5. Bounded'
    BY <2>2 DEF FifoInv, TypeOK, Bounded
  <2> QED
    BY <2>3, <2>4, <2>5 DEF FifoInv
<1> QED
  BY <1>2, <1>3 DEF Deq

LEMMA NextFifoInv == FifoInv /\ [Next]_fifoVars => FifoInv'
<1> SUFFICES ASSUME FifoInv, [Next]_fifoVars PROVE FifoInv'
  OBVIOUS
<1>1. CASE UNCHANGED fifoVars
  BY <1>1 DEF fifoVars, FifoInv, TypeOK, Bringing, MutexOwner, Bounded
<1>2. ASSUME NEW t \in Threads, Calls(t) \/ Step(t) \/ SpuriousWakeup(t) PROVE FifoInv'
  BY <1>2, CallFifoInv, EnqFifoInv, DeqFifoInv DEF Step
<1> QED
  BY <1>1, <1>2 DEF Next

(* FifoInv holds in every state of the queue.                              *)
THEOREM FifoInvariant == Spec => []FifoInv
  BY InitFifoInv, NextFifoInv, PTL DEF Spec

(* Type correctness; only items that were brought are ever in the list.    *)
THEOREM TypeCorrect == Spec => []TypeOK
  BY FifoInvariant, PTL DEF FifoInv

(* The list is touched by one thread at a time.                            *)
THEOREM OwnerInvariant == Spec => []MutexOwner
  BY FifoInvariant, PTL DEF FifoInv

(* At most max_ items are queued.                                          *)
THEOREM StaysBounded == Spec => []Bounded
  BY FifoInvariant, PTL DEF FifoInv

-----------------------------------------------------------------------------
(* No wake-up is lost.  The two halves of NoLostWakeup have the same form: *)
(* while somebody of a role sleeps, need threads of it are on their way.   *)
Served(S, need) == Asleep(S) # {} => need <= Cardinality(Awake(S))

LEMMA SubsetFinite ==
  ASSUME NEW A \in SUBSET Threads PROVE IsFiniteSet(A) /\ Cardinality(A) \in Nat
<1>1. IsFiniteSet(Threads)
  BY ThreadsFinite, FS_Union DEF Threads
<1> QED
  BY <1>1, FS_Subset, FS_CardinalityType

LEMMA AwakeFinite ==
  ASSUME NEW S \in SUBSET Threads
  PROVE  IsFiniteSet(Awake(S)) /\ Cardinality(Awake(S)) \in Nat
  BY SubsetFinite DEF Awake

LEMMA AwakeNextFinite ==
  ASSUME NEW S \in SUBSET Threads
  PROVE  IsFiniteSet(Awake(S)') /\ Cardinality(Awake(S)') \in Nat
<1>1. Awake(S)' \in SUBSET Threads
  BY DEF Awake
<1> QED
  BY <1>1, SubsetFinite

(* If no thread of S falls asleep or leaves the race, and none is needed   *)
(* beyond those that were, S stays served.                                 *)
LEMMA ServedKept ==
  ASSUME NEW S \in SUBSET Threads, NEW n \in Int, NEW k \in Int,
         Served(S, n), k <= n,
         \A u \in S : /\ pc[u] \in {"lock", "test"} => pc'[u] \in {"lock", "test"}
                      /\ pc'[u] = "wait" => pc[u] = "wait"
  PROVE  Asleep(S)' # {} => k <= Cardinality(Awake(S)')
<1> SUFFICES ASSUME Asleep(S)' # {} PROVE k <= Cardinality(Awake(S)')
  OBVIOUS
<1>1. Asleep(S) # {} /\ Awake(S) \subseteq Awake(S)'
  BY DEF Asleep, Awake
<1>2. Cardinality(Awake(S)) <= Cardinality(Awake(S)')
  BY <1>1, AwakeNextFinite, FS_Subset
<1> QED
  BY <1>1, <1>2, AwakeFinite, AwakeNextFinite DEF Served

(* If one thread of S leaves the race with what it came for, one less is   *)
(* needed.                                                                 *)
LEMMA ServedLeave ==
  ASSUME NEW S \in SUBSET Threads, NEW t \in S, NEW n \in Int, Served(S, n),
         pc[t] = "test", pc'[t] = "unlock", \A u \in S \ {t} : pc'[u] = pc[u]
  PROVE  Asleep(S)' # {} => n - 1 <= Cardinality(Awake(S)')
<1>1. Asleep(S)' = Asleep(S) /\ Awake(S)' = Awake(S) \ {t} /\ t \in Awake(S)
  BY DEF Asleep, Awake
<1>2. Cardinality(Awake(S)') = Cardinality(Awake(S)) - 1
  BY <1>1, AwakeFinite, FS_RemoveElement
<1> QED
  BY <1>1, <1>2, AwakeFinite DEF Served

(* A signal to one sleeper of S makes up for one more that is needed.      *)
LEMMA ServedSignal ==
  ASSUME NEW S \in SUBSET Threads, NEW w \in Asleep(S), NEW n \in Int, Served(S, n),
         pc'[w] = "lock", \A u \in S \ {w} : pc'[u] = pc[u]
  PROVE  Asleep(S)' # {} => n + 1 <= Cardinality(Awake(S)')
<1>1. Asleep(S) # {} /\ Awake(S)' = Awake(S) \cup {w} /\ w \notin Awake(S)
  BY DEF Asleep, Awake
<1>2. Cardinality(Awake(S)') = Cardinality(Awake(S)) + 1
  BY <1>1, AwakeFinite, FS_AddElement
<1> QED
  BY <1>1, <1>2, AwakeFinite DEF Served

LEMMA Roles == /\ Producers \in SUBSET Threads /\ Consumers \in SUBSET Threads
               /\ \A p \in Producers : p \notin Consumers
  BY DEF Threads

LEMMA EnqServes ==
  ASSUME NEW p \in Producers, FifoInv, NoLostWakeup, Enq(p) PROVE NoLostWakeup'
<1>1. Len(q_) \in Nat /\ pc \in [Threads -> Labels] /\ p \in Threads /\ pc[p] = "test"
  BY Roles DEF FifoInv, TypeOK, Enq
<1>2. Served(Consumers, Len(q_)) /\ Served(Producers, max_ - Len(q_))
  BY DEF NoLostWakeup, Served
<1>3. CASE HasSpace /\ q_' = Append(q_, arg[p]) /\ SignalAndLeave(p, Asleep(Consumers))
  <2>1. Len(q_') = Len(q_) + 1
    BY <1>3, Roles DEF FifoInv, TypeOK, Bringing, Enq
  <2>2. CASE Asleep(Consumers) = {} /\ pc' = [pc EXCEPT ![p] = "unlock"]
    <3>1. \A c \in Consumers : pc'[c] = pc[c]
      BY <1>1, <2>2, Roles
    <3>2. Asleep(Consumers)' = {}
      BY <2>2, <3>1 DEF Asleep
    <3>3. Asleep(Producers)' # {} => (max_ - Len(q_)) - 1 <= Cardinality(Awake(Producers)')
      <4>1. pc'[p] = "unlock" /\ \A u \in Producers \ {p} : pc'[u] = pc[u]
        BY <1>1, <2>2, Roles
      <4> QED
        BY <1>1, <1>2, <4>1, Roles, ServedLeave
    <3> QED
      BY <1>1, <2>1, <3>2, <3>3, AwakeFinite DEF NoLostWakeup
  <2>3. ASSUME NEW w \in Asleep(Consumers), pc' = [pc EXCEPT ![p] = "unlock", ![w] = "lock"]
        PROVE  NoLostWakeup'
    <3>1. w \in Consumers /\ w \in Threads /\ w # p /\ pc'[w] = "lock" /\ pc'[p] = "unlock"
          /\ \A u \in Threads \ {p, w} : pc'[u] = pc[u]
      BY <1>1, <2>3, Roles DEF Asleep
    <3>2. Asleep(Consumers)' # {} => Len(q_) + 1 <= Cardinality(Awake(Consumers)')
      <4>1. \A u \in Consumers \ {w} : pc'[u] = pc[u]
        BY <3>1, Roles
      <4> QED
        BY <1>1, <1>2, <3>1, <4>1, Roles, ServedSignal
    <3>3. Asleep(Producers)' # {} => (max_ - Len(q_)) - 1 <= Cardinality(Awake(Producers)')
      <4>1. \A u \in Producers \ {p} : pc'[u] = pc[u]
        BY <3>1, Roles
      <4> QED
        BY <1>1, <1>2, <3>1, <4>1, Roles, ServedLeave
    <3> QED
      BY <1>1, <2>1, <3>2, <3>3 DEF NoLostWakeup
  <2> QED
    BY <1>3, <2>2, <2>3, SignalEffect
<1>4. CASE ~HasSpace /\ UNCHANGED q_ /\ (CondWait(p) \/ Goto(p, "unlock"))
  <2>1. \A c \in Consumers : pc'[c] = pc[c]
    BY <1>1, <1>4, Roles DEF CondWait, Goto
  <2>2. Asleep(Consumers)' # {} => Len(q_) <= Cardinality(Awake(Consumers)')
    BY <1>1, <1>2, <2>1, Roles, ServedKept
  <2>3. max_ - Len(q_) <= 0
    BY <1>1, <1>4 DEF HasSpace
  <2>4. Cardinality(Awake(Producers)') \in Nat
    BY AwakeNextFinite, Roles
  <2> QED
    BY <1>1, <1>4, <2>2, <2>3, <2>4 DEF NoLostWakeup
<1> QED
  BY <1>3, <1>4 DEF Enq

LEMMA DeqServes ==
  ASSUME NEW c \in Consumers, FifoInv, NoLostWakeup, Deq(c) PROVE NoLostWakeup'
<1>1. Len(q_) \in Nat /\ pc \in [Threads -> Labels] /\ c \in Threads /\ pc[c] = "test"
  BY Roles DEF FifoInv, TypeOK, Deq
<1>2. Served(Consumers, Len(q_)) /\ Served(Producers, max_ - Len(q_))
  BY DEF NoLostWakeup, Served
<1>3. CASE q_ = <<>> /\ UNCHANGED q_ /\ CondWait(c)
  <2>1. \A p \in Producers : pc'[p] = pc[p]
    BY <1>1, <1>3, Roles DEF CondWait, Goto
  <2>2. Asleep(Producers)' # {} => max_ - Len(q_) <= Cardinality(Awake(Producers)')
    BY <1>1, <1>2, <2>1, Roles, ServedKept
  <2>3. Len(q_) = 0 /\ Cardinality(Awake(Consumers)') \in Nat
    BY <1>3, AwakeNextFinite, Roles
  <2> QED
    BY <1>1, <1>3, <2>2, <2>3 DEF NoLostWakeup
<1>4. CASE q_ # <<>> /\ q_' = Popped
           /\ IF TellProducer(Len(q_) - 1) THEN SignalAndLeave(c, Asleep(Producers)) ELSE Goto(c, "unlock")
  <2>1. Len(q_') = Len(q_) - 1 /\ Len(q_') \in Nat
    BY <1>4 DEF FifoInv, TypeOK, Popped
  <2>2. CASE pc' = [pc EXCEPT ![c] = "unlock"] /\ (Asleep(Producers) = {} \/ ~TellProducer(Len(q_) - 1))
    <3>1. pc'[c] = "unlock" /\ \A u \in Threads \ {c} : pc'[u] = pc[u]
      BY <1>1, <2>2
    <3>2. Asleep(Consumers)' # {} => Len(q_) - 1 <= Cardinality(Awake(Consumers)')
      <4>1. \A u \in Consumers \ {c} : pc'[u] = pc[u]
        BY <3>1, Roles
      <4> QED
        BY <1>1, <1>2, <3>1, <4>1, Roles, ServedLeave
    <3>3. CASE Asleep(Producers) = {}
      <4>1. Asleep(Producers)' = {}
        BY <3>1, <3>3, Roles DEF Asleep
      <4> QED
        BY <2>1, <3>2, <4>1 DEF NoLostWakeup
    <3>4. CASE ~TellProducer(Len(q_) - 1)
      <4>1. max_ - Len(q_') <= 0
        BY <1>1, <2>1, <3>4 DEF TellProducer, FifoInv, Bounded
      <4>2. Cardinality(Awake(Producers)') \in Nat
        BY AwakeNextFinite, Roles
      <4> QED
        BY <2>1, <3>2, <4>1, <4>2 DEF NoLostWakeup
    <3> QED
      BY <2>2, <3>3, <3>4
  <2>3. ASSUME NEW w \in Asleep(Producers), pc' = [pc EXCEPT ![c] = "unlock", ![w] = "lock"]
        PROVE  NoLostWakeup'
    <3>1. w \in Producers /\ w \in Threads /\ w # c /\ pc'[w] = "lock" /\ pc'[c] = "unlock"
          /\ \A u \in Threads \ {c, w} : pc'[u] = pc[u]
      BY <1>1, <2>3, Roles DEF Asleep
    <3>2. Asleep(Producers)' # {} => (max_ - Len(q_)) + 1 <= Cardinality(Awake(Producers)')
      <4>1. \A u \in Producers \ {w} : pc'[u] = pc[u]
        BY <3>1, Roles
      <4> QED
        BY <1>1, <1>2, <3>1, <4>1, Roles, ServedSignal
    <3>3. Asleep(Consumers)' # {} => Len(q_) - 1 <= Cardinality(Awake(Consumers)')
      <4>1. \A u \in Consumers \ {c} : pc'[u] = pc[u]
        BY <3>1, Roles
      <4> QED
        BY <1>1, <1>2, <3>1, <4>1, Roles, ServedLeave
    <3> QED
      BY <1>1, <2>1, <3>2, <3>3 DEF NoLostWakeup
  <2> QED
    BY <1>4, <2>2, <2>3, SignalEffect DEF Goto
<1> QED
  BY <1>3, <1>4 DEF Deq

LEMMA OtherStepsServe ==
  ASSUME NEW t \in Threads, FifoInv, NoLostWakeup,
         Calls(t) \/ Lock(t) \/ Unlock(t) \/ SpuriousWakeup(t)
  PROVE  NoLostWakeup'
<1>1. Len(q_) \in Nat /\ UNCHANGED q_
  BY DEF FifoInv, TypeOK, Calls, CallEnq, CallDeq, Lock, Unlock, SpuriousWakeup
<1>2. Served(Consumers, Len(q_)) /\ Served(Producers, max_ - Len(q_))
  BY DEF NoLostWakeup, Served
<1>3. \A u \in Threads : /\ pc[u] \in {"lock", "test"} => pc'[u] \in {"lock", "test"}
                         /\ pc'[u] = "wait" => pc[u] = "wait"
  BY DEF FifoInv, TypeOK, Calls, CallEnq, CallDeq, Lock, Unlock, SpuriousWakeup, Goto
<1>4. Asleep(Consumers)' # {} => Len(q_) <= Cardinality(Awake(Consumers)')
  BY <1>1, <1>2, <1>3, Roles, ServedKept
<1>5. Asleep(Producers)' # {} => max_ - Len(q_) <= Cardinality(Awake(Producers)')
  BY <1>1, <1>2, <1>3, Roles, ServedKept
<1> QED
  BY <1>1, <1>4, <1>5 DEF NoLostWakeup

LEMMA NextServes == FifoInv /\ NoLostWakeup /\ [Next]_fifoVars => NoLostWakeup'
<1> SUFFICES ASSUME FifoInv, NoLostWakeup, [Next]_fifoVars PROVE NoLostWakeup'
  OBVIOUS
<1>1. CASE UNCHANGED fifoVars
  BY <1>1 DEF fifoVars, NoLostWakeup, Asleep, Awake
<1>2. ASSUME NEW t \in Threads, Calls(t) \/ Step(t) \/ SpuriousWakeup(t) PROVE NoLostWakeup'
  BY <1>2, OtherStepsServe, EnqServes, DeqServes DEF Step
<1> QED
  BY <1>1, <1>2 DEF Next

(* enq and deq signal one thread each, and that is enough: a consumer that *)
(* sleeps is not needed for the items there are, nor a producer for the    *)
(* room there is.                                                          *)
THEOREM NoWakeupIsLost == Spec => []NoLostWakeup
  BY FifoInvariant, InitFifoInv, NextServes, PTL DEF Spec

-----------------------------------------------------------------------------
(* The refinement: the step of enq or deq that leaves the loop is the      *)
(* abstract operation, every other step leaves the queue alone.            *)
LEMMA StepRefines == FifoInv /\ [Next]_fifoVars => [Queue!Next]_<<q_, got, answer>>
<1> SUFFICES ASSUME FifoInv, [Next]_fifoVars
             PROVE  Queue!Next \/ UNCHANGED <<q_, got, answer>>
  OBVIOUS
<1>1. CASE UNCHANGED fifoVars
  BY <1>1 DEF fifoVars
<1>2. ASSUME NEW t \in Threads, Calls(t) \/ Lock(t) \/ Unlock(t) \/ SpuriousWakeup(t)
      PROVE  UNCHANGED <<q_, got, answer>>
  BY <1>2 DEF Calls, CallEnq, CallDeq, Lock, Unlock, SpuriousWakeup
<1>3. ASSUME NEW p \in Producers, Enq(p) PROVE Queue!Next \/ UNCHANGED <<q_, got, answer>>
  <2>1. arg[p] \in Items
    BY <1>3 DEF FifoInv, Bringing, Enq
  <2>2. Queue!Enq(p) \/ Queue!Refuse(p) \/ UNCHANGED <<q_, got, answer>>
    BY <1>3, <2>1 DEF Enq, HasSpace, Queue!Enq, Queue!Refuse, Queue!HasSpace
  <2> QED
    BY <2>2 DEF Queue!Next
<1>4. ASSUME NEW c \in Consumers, Deq(c) PROVE Queue!Next \/ UNCHANGED <<q_, got, answer>>
  BY <1>4 DEF Deq, Popped, Queue!Deq, Queue!Next
<1> QED
  BY <1>1, <1>2, <1>3, <1>4 DEF Next, Step

(* fifo<T> implements BoundedQueue: items leave in the order they came,    *)
(* each to one consumer, and enq answers false only when the queue is full.*)
THEOREM FifoIsBoundedQueue == Spec => ImplementsBoundedQueue
<1>1. Init => Queue!Init
  BY DEF Init, Queue!Init
<1> QED
  BY <1>1, StepRefines, FifoInvariant, PTL DEF Spec, ImplementsBoundedQueue, Queue!Spec

-----------------------------------------------------------------------------
(* The pool.                                                               *)

(* blockadd_ is set by the constructor only.                               *)
BlockaddTyped == blockadd_ \in BOOLEAN

LEMMA BlockaddConstant == PoolSpec => []BlockaddTyped
<1>1. PoolInit => BlockaddTyped
  BY DEF PoolInit, BlockaddTyped
<1>2. BlockaddTyped /\ [PoolNext]_vars => BlockaddTyped'
  BY DEF PoolNext, Wakeup, vars, BlockaddTyped
<1> QED
  BY <1>1, <1>2, PTL DEF PoolSpec

LEMMA PoolStepIsFifoStep == BlockaddTyped /\ [PoolNext]_vars => [Next]_fifoVars
<1> USE PoolAssumption
<1> SUFFICES ASSUME BlockaddTyped, [PoolNext]_vars PROVE Next \/ UNCHANGED fifoVars
  OBVIOUS
<1>1. CASE UNCHANGED vars
  BY <1>1 DEF vars
<1>2. ASSUME NEW t \in Threads, PoolStep(t) PROVE Next \/ UNCHANGED fifoVars
  <2>1. CASE Step(t)
    BY <2>1 DEF Next
  <2>2. CASE t \in Producers /\ AddReturns(t)
    BY <2>2 DEF AddReturns
  <2>3. CASE t \in Consumers /\ TakeJob(t)
    BY <2>3 DEF TakeJob, Next, Calls
  <2>4. CASE t \in Consumers /\ (Exit(t) \/ CallMethod(t) \/ DeleteWrapper(t))
    BY <2>4 DEF Exit, CallMethod, DeleteWrapper
  <2>5. CASE t = Owner /\ TellWorker
    BY <2>5 DEF TellWorker, Next, Calls
  <2>6. CASE Join
    BY <2>6 DEF Join
  <2> QED
    BY <1>2, <2>1, <2>2, <2>3, <2>4, <2>5, <2>6 DEF PoolStep
<1>3. ASSUME NEW p \in Producers, AddObjJob(p) PROVE Next
  <2>1. PICK j \in Fresh : CallEnq(p, j, blockadd_)
    BY <1>3 DEF AddObjJob
  <2>2. j \in Items
    BY DEF Fresh
  <2> QED
    BY <2>1, <2>2 DEF Next, Calls, Threads, BlockaddTyped
<1>4. CASE Close
  BY <1>4 DEF Close
<1>5. CASE Wakeup
  BY <1>5 DEF Wakeup, Next
<1> QED
  BY <1>1, <1>2, <1>3, <1>4, <1>5 DEF PoolNext

(* The pool's queue behaves as the fifo<job_t> above: addJob, the workers  *)
(* and the destructor only ever call enq and deq.                          *)
THEOREM PoolUsesFifo == PoolSpec => Spec
<1>1. PoolInit => Init
  BY DEF PoolInit
<1> QED
  BY <1>1, PoolStepIsFifoStep, BlockaddConstant, PTL DEF PoolSpec, Spec

(* In a pool of any size no wake-up is lost: a worker sleeps only if the   *)
(* other workers on their way are enough for the jobs that are queued.     *)
THEOREM PoolLosesNoWakeup == PoolSpec => []NoLostWakeup
  BY PoolUsesFifo, NoWakeupIsLost, PTL

(* In a pool of any size jobs are taken in the order they were added, each *)
(* by one worker, and addObjJob answers false only if jobq_ is full.       *)
THEOREM PoolQueueIsBounded == PoolSpec => ImplementsBoundedQueue
  BY PoolUsesFifo, FifoIsBoundedQueue, PTL
-----------------------------------------------------------------------------
(* Who is where.  A producer is Pending from its call of enq until enq     *)
(* answers, and Refusing from a negative answer until addObjJob returns; a *)
(* worker is Holding what it took until it has run it.                     *)
Pending(p) == adding[p] # None /\ pc[p] \in {"lock", "test", "wait"}
Refusing(p) == adding[p] # None /\ pc[p] \in {"idle", "unlock"} /\ ~answer[p]
Holding(c) == worker[c] \in {"taking", "calling"} /\ pc[c] \in {"idle", "unlock"}

(* A call of enq is addObjJob's, with its job, or the destructor's, which  *)
(* waits for space.                                                        *)
CallsMatch ==
  \A p \in Producers :
    /\ adding[p] # None => life = "up"
    /\ pc[p] # "idle" => IF adding[p] = None
                         THEN p = Owner /\ arg[p] = EmptyJob /\ blocking[p] /\ life = "closing"
                         ELSE arg[p] = adding[p]

(* A worker is in deq only while it takes a job, and then it has one.      *)
WorkersMatch ==
  \A c \in Consumers : /\ worker[c] # "taking" => pc[c] = "idle"
                       /\ Holding(c) => got[c] \in Items

PoolInv == PoolTypeOK /\ FifoInv /\ CallsMatch /\ WorkersMatch

LEMMA InitPoolInv == PoolInit => PoolInv
<1> SUFFICES ASSUME PoolInit PROVE PoolInv
  OBVIOUS
<1>1. FifoInv
  BY InitFifoInv DEF PoolInit
<1>2. Cardinality(Consumers) \in Nat
  BY ThreadsFinite, FS_CardinalityType
<1>3. PoolTypeOK
  BY <1>1, <1>2, PoolAssumption DEF PoolInit, PoolTypeOK, FifoInv
<1>4. CallsMatch /\ WorkersMatch
  BY Roles DEF PoolInit, Init, CallsMatch, WorkersMatch, Holding
<1> QED
  BY <1>1, <1>3, <1>4 DEF PoolInv

(* A step inside the queue, by what it does to what the pool sees.         *)
Enqueued(p) == /\ p \in Producers /\ pc[p] = "test" /\ pc'[p] = "unlock"
               /\ q_' = Append(q_, arg[p])
               /\ answer' = [answer EXCEPT ![p] = TRUE]
               /\ UNCHANGED got
TurnedAway(p) == /\ p \in Producers /\ pc[p] = "test" /\ pc'[p] = "unlock" /\ ~blocking[p]
                 /\ answer' = [answer EXCEPT ![p] = FALSE]
                 /\ UNCHANGED <<q_, got>>
Dequeued(c) == /\ c \in Consumers /\ pc[c] = "test" /\ pc'[c] = "unlock"
               /\ q_ # <<>> /\ q_' = Tail(q_)
               /\ got' = [got EXCEPT ![c] = Head(q_)]
               /\ UNCHANGED answer
Moved(t) == /\ \/ pc[t] = "unlock" /\ pc'[t] = "idle"
               \/ pc[t] \in {"lock", "test", "wait"} /\ pc'[t] \in {"lock", "test", "wait"}
            /\ UNCHANGED <<q_, got, answer>>

LEMMA SignalFrame ==
  ASSUME FifoInv, NEW t \in Threads, pc[t] = "test", NEW S \in SUBSET Threads,
         SignalAndLeave(t, Asleep(S)) \/ Goto(t, "unlock")
  PROVE  /\ pc' \in [Threads -> Labels] /\ pc'[t] = "unlock"
         /\ \A u \in Threads \ {t} : pc'[u] = pc[u] \/ (pc[u] = "wait" /\ pc'[u] = "lock")
<1>1. pc \in [Threads -> Labels]
  BY DEF FifoInv, TypeOK
<1>2. CASE pc' = [pc EXCEPT ![t] = "unlock"]
  BY <1>1, <1>2 DEF Labels
<1>3. ASSUME NEW w \in Asleep(S), pc' = [pc EXCEPT ![t] = "unlock", ![w] = "lock"]
      PROVE  /\ pc' \in [Threads -> Labels] /\ pc'[t] = "unlock"
             /\ \A u \in Threads \ {t} : pc'[u] = pc[u] \/ (pc[u] = "wait" /\ pc'[u] = "lock")
  BY <1>1, <1>3 DEF Asleep, Labels
<1> QED
  BY <1>2, <1>3, SignalEffect DEF Goto

LEMMA StepKinds ==
  ASSUME FifoInv, NEW t \in Threads, Step(t) \/ SpuriousWakeup(t)
  PROVE  /\ Enqueued(t) \/ TurnedAway(t) \/ Dequeued(t) \/ Moved(t)
         /\ pc \in [Threads -> Labels] /\ pc' \in [Threads -> Labels]
         /\ \A u \in Threads \ {t} : pc'[u] = pc[u] \/ (pc[u] = "wait" /\ pc'[u] = "lock")
         /\ UNCHANGED <<arg, blocking>>
<1>1. CASE Lock(t) \/ Unlock(t) \/ SpuriousWakeup(t)
  BY <1>1 DEF FifoInv, TypeOK, Lock, Unlock, SpuriousWakeup, Goto, Labels, Moved
<1>2. CASE t \in Producers /\ Enq(t)
  <2>1. CASE q_' = Append(q_, arg[t]) /\ answer' = [answer EXCEPT ![t] = TRUE]
             /\ SignalAndLeave(t, Asleep(Consumers))
    <3>1. pc' \in [Threads -> Labels] /\ pc'[t] = "unlock"
          /\ \A u \in Threads \ {t} : pc'[u] = pc[u] \/ (pc[u] = "wait" /\ pc'[u] = "lock")
      BY <1>2, <2>1, SignalFrame, Roles DEF Enq
    <3> QED
      BY <1>2, <2>1, <3>1 DEF FifoInv, TypeOK, Enq, Enqueued
  <2>2. CASE CondWait(t) /\ UNCHANGED <<q_, answer>>
    BY <1>2, <2>2 DEF FifoInv, TypeOK, Enq, CondWait, Goto, Labels, Moved
  <2>3. CASE ~blocking[t] /\ answer' = [answer EXCEPT ![t] = FALSE] /\ Goto(t, "unlock") /\ UNCHANGED q_
    BY <1>2, <2>3 DEF FifoInv, TypeOK, Enq, Goto, Labels, TurnedAway
  <2> QED
    BY <1>2, <2>1, <2>2, <2>3 DEF Enq
<1>3. CASE t \in Consumers /\ Deq(t)
  <2>1. CASE CondWait(t) /\ UNCHANGED <<q_, got>>
    BY <1>3, <2>1 DEF FifoInv, TypeOK, Deq, CondWait, Goto, Labels, Moved
  <2>2. CASE q_ # <<>> /\ got' = [got EXCEPT ![t] = Head(q_)] /\ q_' = Tail(q_)
             /\ (SignalAndLeave(t, Asleep(Producers)) \/ Goto(t, "unlock"))
    <3>1. pc' \in [Threads -> Labels] /\ pc'[t] = "unlock"
          /\ \A u \in Threads \ {t} : pc'[u] = pc[u] \/ (pc[u] = "wait" /\ pc'[u] = "lock")
      BY <1>3, <2>2, SignalFrame, Roles DEF Deq
    <3> QED
      BY <1>3, <2>2, <3>1 DEF FifoInv, TypeOK, Deq, Dequeued
  <2> QED
    BY <1>3, <2>1, <2>2 DEF Deq, Popped
<1> QED
  BY <1>1, <1>2, <1>3 DEF Step
(* A step inside the queue leaves the pool's own state alone.              *)
LEMMA QueueStepPoolInv ==
  ASSUME PoolInv, NEW t \in Threads, Step(t) \/ SpuriousWakeup(t), UNCHANGED poolVars
  PROVE  CallsMatch' /\ WorkersMatch' /\ \A c \in Consumers : worker'[c] = "calling" => got'[c] \in Jobs
<1>1. /\ Enqueued(t) \/ TurnedAway(t) \/ Dequeued(t) \/ Moved(t)
      /\ \A u \in Threads \ {t} : pc'[u] = pc[u] \/ (pc[u] = "wait" /\ pc'[u] = "lock")
      /\ UNCHANGED <<arg, blocking>>
  BY StepKinds DEF PoolInv
<1>2. pc[t] # "idle"
  BY <1>1 DEF Enqueued, TurnedAway, Dequeued, Moved
<1>3. CallsMatch'
  BY <1>1, <1>2, Roles DEF PoolInv, CallsMatch, poolVars
<1>4. \A c \in Consumers : got'[c] = got[c] \/ (c = t /\ pc[c] = "test" /\ got'[c] \in Items)
  <2>1. got \in [Consumers -> Items \cup {None}] /\ (q_ # <<>> => Head(q_) \in Items)
    BY DEF PoolInv, FifoInv, TypeOK
  <2> QED
    BY <1>1, <2>1 DEF Enqueued, TurnedAway, Dequeued, Moved
<1>5. WorkersMatch'
  <2> SUFFICES ASSUME NEW c \in Consumers
               PROVE  /\ worker[c] # "taking" => pc'[c] = "idle"
                      /\ worker[c] \in {"taking", "calling"} /\ pc'[c] \in {"idle", "unlock"} => got'[c] \in Items
    BY DEF WorkersMatch, Holding, poolVars
  <2>1. c \in Threads
    BY Roles
  <2>2. worker[c] # "taking" => c # t /\ pc[c] = "idle" /\ pc'[c] = "idle"
    BY <1>1, <1>2, <2>1 DEF PoolInv, WorkersMatch
  <2>3. CASE c # t
    BY <1>1, <1>4, <2>1, <2>3 DEF PoolInv, WorkersMatch, Holding
  <2>4. CASE c = t
    <3>1. Dequeued(c) \/ Moved(c)
      BY <1>1, <2>4, Roles DEF Enqueued, TurnedAway
    <3>2. CASE Dequeued(c)
      BY <1>4, <2>2, <3>2 DEF Dequeued, PoolInv, FifoInv, TypeOK
    <3>3. CASE Moved(c)
      BY <2>2, <3>3 DEF Moved, PoolInv, WorkersMatch, Holding
    <3> QED
      BY <3>1, <3>2, <3>3
  <2> QED
    BY <2>2, <2>3, <2>4
<1>6. \A c \in Consumers : worker'[c] = "calling" => got'[c] \in Jobs
  BY <1>4 DEF PoolInv, PoolTypeOK, WorkersMatch, poolVars
<1> QED
  BY <1>3, <1>5, <1>6

LEMMA NextPoolInv == PoolInv /\ [PoolNext]_vars => PoolInv'
<1> USE PoolAssumption, RolesAssumption, Roles
<1> SUFFICES ASSUME PoolInv, [PoolNext]_vars PROVE PoolInv'
  OBVIOUS
<1>1. FifoInv' /\ TypeOK'
  <2>1. FifoInv'
    BY PoolStepIsFifoStep, NextFifoInv DEF PoolInv, PoolTypeOK, BlockaddTyped
  <2> QED
    BY <2>1 DEF FifoInv
<1>2. CASE UNCHANGED vars
  BY <1>1, <1>2 DEF vars, fifoVars, poolVars, PoolInv, PoolTypeOK, CallsMatch, WorkersMatch, Holding
<1>3. ASSUME NEW t \in Threads, Step(t), UNCHANGED <<poolVars, blockadd_, spurious>> PROVE PoolInv'
  BY <1>1, <1>3, QueueStepPoolInv DEF PoolInv, PoolTypeOK, poolVars
<1>4. CASE Wakeup
  <2>1. spurious' \in 0..MaxSpurious
    BY <1>4 DEF Wakeup, PoolInv, PoolTypeOK
  <2> QED
    BY <1>1, <1>4, <2>1, QueueStepPoolInv DEF Wakeup, PoolInv, PoolTypeOK, poolVars
<1>5. ASSUME UNCHANGED <<blockadd_, spurious>>, NEW p \in Producers, AddObjJob(p) PROVE PoolInv'
  BY <1>1, <1>5 DEF PoolInv, PoolTypeOK, TypeOK, CallsMatch, WorkersMatch, Holding, AddObjJob, CallEnq, Goto, Fresh
<1>6. ASSUME UNCHANGED <<blockadd_, spurious>>, NEW p \in Producers, AddReturns(p) PROVE PoolInv'
  BY <1>1, <1>6 DEF PoolInv, PoolTypeOK, TypeOK, CallsMatch, WorkersMatch, Holding, AddReturns, fifoVars
<1>7. ASSUME UNCHANGED <<blockadd_, spurious>>, NEW c \in Consumers, TakeJob(c) PROVE PoolInv'
  BY <1>1, <1>7 DEF PoolInv, PoolTypeOK, TypeOK, CallsMatch, WorkersMatch, Holding, TakeJob, CallDeq, Goto
<1>8. ASSUME UNCHANGED <<blockadd_, spurious>>, NEW c \in Consumers,
             Exit(c) \/ CallMethod(c) \/ DeleteWrapper(c)
      PROVE PoolInv'
  <2>1. CallsMatch' /\ WorkersMatch'
    BY <1>8 DEF PoolInv, PoolTypeOK, CallsMatch, WorkersMatch, Holding, Exit, CallMethod, DeleteWrapper, fifoVars
  <2>2. CASE Exit(c)
    BY <1>1, <1>8, <2>1, <2>2 DEF PoolInv, PoolTypeOK, Exit, fifoVars
  <2>3. CASE CallMethod(c)
    <3>1. got[c] \in Jobs
      BY <2>3 DEF PoolInv, WorkersMatch, Holding, CallMethod
    <3> QED
      BY <1>1, <1>8, <2>1, <2>3, <3>1 DEF PoolInv, PoolTypeOK, CallMethod, fifoVars
  <2>4. CASE DeleteWrapper(c)
    BY <1>1, <1>8, <2>1, <2>4 DEF PoolInv, PoolTypeOK, DeleteWrapper, fifoVars
  <2> QED
    BY <1>8, <2>2, <2>3, <2>4
<1>9. CASE UNCHANGED <<blockadd_, spurious>> /\ (Close \/ Join)
  BY <1>1, <1>9 DEF PoolInv, PoolTypeOK, TypeOK, CallsMatch, WorkersMatch, Holding, Close, Join, fifoVars
<1>10. CASE UNCHANGED <<blockadd_, spurious>> /\ TellWorker
  <2>1. told' \in 0..Cardinality(Consumers)
    BY <1>10, ThreadsFinite, FS_CardinalityType DEF TellWorker, PoolInv, PoolTypeOK
  <2> QED
    BY <1>1, <1>10, <2>1 DEF PoolInv, PoolTypeOK, TypeOK, CallsMatch, WorkersMatch, Holding, TellWorker, CallEnq, Goto
<1> QED
  BY <1>2, <1>3, <1>4, <1>5, <1>6, <1>7, <1>8, <1>9, <1>10 DEF PoolNext, PoolStep

(* Type correctness: a worker that calls a method has a job, and the       *)
(* destructor enqueues at most one empty job per worker.                   *)
THEOREM PoolTyped == PoolSpec => []PoolTypeOK
<1>1. PoolInv => PoolTypeOK
  BY DEF PoolInv
<1> QED
  BY <1>1, InitPoolInv, NextPoolInv, PTL DEF PoolSpec
-----------------------------------------------------------------------------
(* The places a job's wrapper may be in: on its way into the queue, in it, *)
(* with a worker, or turned down.                                          *)
Coming(j) == \E p \in Producers : Pending(p) /\ adding[p] = j
Queued(j) == \E k \in 1..Len(q_) : q_[k] = j
Held(j) == \E c \in Consumers : Holding(c) /\ got[c] = j
TurnedDown(j) == j \in refused \/ \E p \in Producers : Refusing(p) /\ adding[p] = j

(* The heap holds exactly the wrappers that are in one of these places, a  *)
(* wrapper is in one place only, and until a worker has it its method was  *)
(* not called.                                                             *)
Placed ==
  \A j \in Jobs :
    /\ j \in heap <=> Coming(j) \/ Queued(j) \/ Held(j) \/ TurnedDown(j)
    /\ Coming(j) => ~Queued(j) /\ ~Held(j) /\ ~TurnedDown(j)
    /\ Queued(j) => ~Held(j) /\ ~TurnedDown(j)
    /\ Held(j) => ~TurnedDown(j)
    /\ Coming(j) \/ Queued(j) \/ TurnedDown(j) => runs[j] = 0
    /\ j \notin heap => runs[j] <= 1

(* Each place has one pointer to the wrapper.                              *)
AddedOnce == \A p, r \in Producers : adding[p] # None /\ adding[p] = adding[r] => p = r
QueuedOnce == \A k, m \in 1..Len(q_) : q_[k] \in Jobs /\ q_[k] = q_[m] => k = m
HeldOnce == \A b, c \in Consumers : Holding(b) /\ Holding(c) /\ got[b] \in Jobs /\ got[b] = got[c] => b = c

(* A worker calls the method of the job it holds once.                     *)
Ran == \A c \in Consumers :
         Holding(c) /\ got[c] \in Jobs => runs[got[c]] = (IF worker[c] = "calling" THEN 1 ELSE 0)

(* The job of a call of addObjJob that has not returned is not given out   *)
(* to another call.                                                        *)
Taken == \A p \in Producers : adding[p] # None => adding[p] \notin Fresh

JobInv == Placed /\ AddedOnce /\ QueuedOnce /\ HeldOnce /\ Ran /\ Taken

LEMMA InitJobInv == PoolInit => JobInv
<1> SUFFICES ASSUME PoolInit PROVE JobInv
  OBVIOUS
<1>1. \A j \in Jobs : ~Coming(j) /\ ~Queued(j) /\ ~Held(j) /\ ~TurnedDown(j)
  BY DEF PoolInit, Init, Coming, Queued, Held, TurnedDown, Pending, Refusing, Holding
<1> QED
  BY <1>1 DEF PoolInit, Init, JobInv, Placed, AddedOnce, QueuedOnce, HeldOnce, Ran, Taken, Holding

(* What a step leaves alone, by the pointers that it does not move.        *)
SameProducers == UNCHANGED adding /\ \A p \in Producers : (Pending(p)' <=> Pending(p)) /\ (Refusing(p)' <=> Refusing(p))
SameConsumers == \A c \in Consumers : /\ Holding(c)' <=> Holding(c)
                                      /\ Holding(c) => got'[c] = got[c] /\ worker'[c] = worker[c]

(* A step that moves no pointer.                                           *)
LEMMA NothingMoves ==
  ASSUME JobInv, SameProducers, SameConsumers, UNCHANGED <<q_, heap, runs, refused>> PROVE JobInv'
<1>1. \A j \in Jobs : /\ Coming(j)' <=> Coming(j)
                      /\ Queued(j)' <=> Queued(j)
                      /\ Held(j)' <=> Held(j)
                      /\ TurnedDown(j)' <=> TurnedDown(j)
  BY DEF SameProducers, SameConsumers, Coming, Queued, Held, TurnedDown
<1>2. Placed'
  BY <1>1 DEF JobInv, Placed
<1>3. AddedOnce' /\ QueuedOnce' /\ Taken'
  BY DEF JobInv, AddedOnce, QueuedOnce, Taken, Fresh, SameProducers
<1>4. HeldOnce' /\ Ran'
  BY DEF JobInv, HeldOnce, Ran, SameConsumers
<1> QED
  BY <1>2, <1>3, <1>4 DEF JobInv
LEMMA AddObjJobJobInv ==
  ASSUME PoolInv, JobInv, NEW p \in Producers, AddObjJob(p) PROVE JobInv'
<1> USE Roles
<1>1. PICK j0 \in Fresh : /\ heap' = heap \cup {j0}
                          /\ adding' = [adding EXCEPT ![p] = j0]
                          /\ CallEnq(p, j0, blockadd_)
  BY DEF AddObjJob
<1>2. /\ j0 \in Jobs /\ j0 # None /\ adding[p] = None
      /\ adding'[p] = j0 /\ \A r \in Producers \ {p} : adding'[r] = adding[r]
      /\ UNCHANGED <<q_, got, worker, runs, refused>>
  BY <1>1, PoolAssumption, RolesAssumption DEF AddObjJob, Fresh, CallEnq, PoolInv, PoolTypeOK
<1>3. /\ Pending(p)' /\ ~Refusing(p)' /\ ~Pending(p) /\ ~Refusing(p)
      /\ \A r \in Producers \ {p} : (Pending(r)' <=> Pending(r)) /\ (Refusing(r)' <=> Refusing(r))
  BY <1>1, <1>2 DEF Pending, Refusing, CallEnq, Goto, PoolInv, FifoInv, TypeOK
<1>4. SameConsumers
  BY <1>1, <1>2, RolesAssumption DEF SameConsumers, Holding, CallEnq, Goto, PoolInv, FifoInv, TypeOK
<1>5. \A j \in Jobs : /\ Coming(j)' <=> Coming(j) \/ j = j0
                      /\ Queued(j)' <=> Queued(j)
                      /\ Held(j)' <=> Held(j)
                      /\ TurnedDown(j)' <=> TurnedDown(j)
  BY <1>2, <1>3, <1>4 DEF SameConsumers, Coming, Queued, Held, TurnedDown
<1>6. Placed'
  BY <1>1, <1>2, <1>5 DEF JobInv, Placed, Fresh
<1>7. AddedOnce' /\ Taken'
  BY <1>1, <1>2 DEF JobInv, AddedOnce, Taken, Fresh
<1>8. QueuedOnce' /\ HeldOnce' /\ Ran'
  BY <1>2, <1>4 DEF JobInv, QueuedOnce, HeldOnce, Ran, SameConsumers
<1> QED
  BY <1>6, <1>7, <1>8 DEF JobInv

LEMMA AddReturnsJobInv ==
  ASSUME PoolInv, JobInv, NEW p \in Producers, AddReturns(p) PROVE JobInv'
<1>1. /\ adding'[p] = None /\ \A r \in Producers \ {p} : adding'[r] = adding[r]
      /\ UNCHANGED <<q_, got, heap, worker, runs>>
  BY DEF AddReturns, PoolInv, PoolTypeOK, fifoVars
<1>2. /\ ~Pending(p)' /\ ~Refusing(p)' /\ ~Pending(p) /\ (Refusing(p) <=> ~answer[p])
      /\ \A r \in Producers \ {p} : (Pending(r)' <=> Pending(r)) /\ (Refusing(r)' <=> Refusing(r))
  BY <1>1 DEF Pending, Refusing, AddReturns, fifoVars
<1>3. SameConsumers
  BY <1>1 DEF SameConsumers, Holding, AddReturns, fifoVars
<1>4. refused' = IF Refusing(p) THEN refused \cup {adding[p]} ELSE refused
  BY <1>2 DEF AddReturns
<1>5. \A j \in Jobs : /\ Coming(j)' <=> Coming(j)
                      /\ Queued(j)' <=> Queued(j)
                      /\ Held(j)' <=> Held(j)
                      /\ TurnedDown(j)' <=> TurnedDown(j)
  BY <1>1, <1>2, <1>3, <1>4 DEF SameConsumers, Coming, Queued, Held, TurnedDown
<1>6. Placed'
  BY <1>1, <1>5 DEF JobInv, Placed
<1>7. AddedOnce' /\ QueuedOnce' /\ HeldOnce' /\ Ran' /\ Taken'
  BY <1>1, <1>3 DEF JobInv, AddedOnce, QueuedOnce, HeldOnce, Ran, Taken, Fresh, SameConsumers
<1> QED
  BY <1>6, <1>7 DEF JobInv

(* A worker lets go of the empty job.                                      *)
LEMMA ExitJobInv ==
  ASSUME PoolInv, JobInv, NEW c \in Consumers, Exit(c) PROVE JobInv'
<1>1. /\ SameProducers /\ got[c] \notin Jobs /\ UNCHANGED <<q_, heap, runs, refused, got>>
      /\ ~Holding(c)' /\ \A b \in Consumers \ {c} : (Holding(b)' <=> Holding(b)) /\ worker'[b] = worker[b]
  BY PoolAssumption DEF Exit, fifoVars, SameProducers, Pending, Refusing, Holding, PoolInv, PoolTypeOK
<1>2. \A j \in Jobs : /\ Coming(j)' <=> Coming(j)
                      /\ Queued(j)' <=> Queued(j)
                      /\ Held(j)' <=> Held(j)
                      /\ TurnedDown(j)' <=> TurnedDown(j)
  BY <1>1 DEF SameProducers, Coming, Queued, Held, TurnedDown
<1>3. Placed'
  BY <1>1, <1>2 DEF JobInv, Placed
<1>4. AddedOnce' /\ QueuedOnce' /\ Taken'
  BY <1>1 DEF JobInv, AddedOnce, QueuedOnce, Taken, Fresh, SameProducers
<1>5. HeldOnce' /\ Ran'
  BY <1>1 DEF JobInv, HeldOnce, Ran
<1> QED
  BY <1>3, <1>4, <1>5 DEF JobInv

LEMMA CallMethodJobInv ==
  ASSUME PoolInv, JobInv, NEW c \in Consumers, CallMethod(c) PROVE JobInv'
<1>1. /\ SameProducers /\ UNCHANGED <<q_, heap, refused, got>> /\ worker[c] = "taking"
      /\ Holding(c) /\ worker'[c] = "calling"
      /\ \A b \in Consumers : (Holding(b)' <=> Holding(b)) /\ (b # c => worker'[b] = worker[b])
  BY DEF CallMethod, fifoVars, SameProducers, Pending, Refusing, Holding, PoolInv, PoolTypeOK
<1>2. got[c] \in Jobs /\ runs \in [Jobs -> Nat]
  BY <1>1, PoolAssumption DEF CallMethod, PoolInv, PoolTypeOK, WorkersMatch
<1>3. /\ runs[got[c]] = 0 /\ runs'[got[c]] = 1
      /\ \A j \in Jobs \ {got[c]} : runs'[j] = runs[j]
  BY <1>1, <1>2 DEF CallMethod, JobInv, Ran
<1>4. \A j \in Jobs : /\ Coming(j)' <=> Coming(j)
                      /\ Queued(j)' <=> Queued(j)
                      /\ Held(j)' <=> Held(j)
                      /\ TurnedDown(j)' <=> TurnedDown(j)
  BY <1>1 DEF SameProducers, Coming, Queued, Held, TurnedDown
<1>5. Held(got[c])
  BY <1>1 DEF Held
<1>6. Placed'
  BY <1>1, <1>2, <1>3, <1>4, <1>5 DEF JobInv, Placed
<1>7. AddedOnce' /\ QueuedOnce'
  BY <1>1 DEF JobInv, AddedOnce, QueuedOnce, SameProducers
<1>8. HeldOnce' /\ Ran'
  BY <1>1, <1>2, <1>3 DEF JobInv, HeldOnce, Ran
<1>9. Taken'
  BY <1>1, <1>2, <1>3 DEF JobInv, Taken, Fresh, SameProducers
<1> QED
  BY <1>6, <1>7, <1>8, <1>9 DEF JobInv

LEMMA DeleteWrapperJobInv ==
  ASSUME PoolInv, JobInv, NEW c \in Consumers, DeleteWrapper(c) PROVE JobInv'
<1>1. /\ SameProducers /\ UNCHANGED <<q_, runs, refused, got>>
      /\ Holding(c) /\ ~Holding(c)' /\ worker[c] = "calling" /\ got[c] \in Jobs
      /\ \A b \in Consumers \ {c} : (Holding(b)' <=> Holding(b)) /\ worker'[b] = worker[b]
  BY DEF DeleteWrapper, fifoVars, SameProducers, Pending, Refusing, Holding, PoolInv, PoolTypeOK, WorkersMatch
<1>2. Held(got[c]) /\ runs[got[c]] = 1
  BY <1>1 DEF Held, JobInv, Ran
<1>3. \A j \in Jobs : /\ Coming(j)' <=> Coming(j)
                      /\ Queued(j)' <=> Queued(j)
                      /\ Held(j)' <=> Held(j) /\ j # got[c]
                      /\ TurnedDown(j)' <=> TurnedDown(j)
  BY <1>1 DEF SameProducers, Coming, Queued, Held, TurnedDown, JobInv, HeldOnce
<1>4. heap' = heap \ {got[c]}
  BY DEF DeleteWrapper
<1>5. Placed'
  BY <1>1, <1>2, <1>3, <1>4 DEF JobInv, Placed
<1>6. AddedOnce' /\ QueuedOnce'
  BY <1>1 DEF JobInv, AddedOnce, QueuedOnce, SameProducers
<1>7. HeldOnce' /\ Ran'
  BY <1>1 DEF JobInv, HeldOnce, Ran
<1>8. Taken'
  BY <1>1, <1>2, <1>4 DEF JobInv, Taken, Fresh, SameProducers
<1> QED
  BY <1>5, <1>6, <1>7, <1>8 DEF JobInv
(* enq has taken what its caller brought.                                  *)
LEMMA EnqueuedJobInv ==
  ASSUME PoolInv, JobInv, NEW p \in Producers, Enqueued(p), UNCHANGED poolVars,
         pc \in [Threads -> Labels],
         \A u \in Threads \ {p} : pc'[u] = pc[u] \/ (pc[u] = "wait" /\ pc'[u] = "lock")
  PROVE  JobInv'
<1> USE Roles
<1>1. UNCHANGED <<heap, worker, runs, adding, refused, got>>
  BY DEF poolVars, Enqueued
<1>2. /\ ~Pending(p)' /\ ~Refusing(p)' /\ ~Refusing(p) /\ (Pending(p) <=> adding[p] # None)
      /\ \A r \in Producers \ {p} : (Pending(r)' <=> Pending(r)) /\ (Refusing(r)' <=> Refusing(r))
  BY <1>1 DEF Pending, Refusing, Enqueued, PoolInv, FifoInv, TypeOK
<1>3. SameConsumers
  BY <1>1, RolesAssumption DEF SameConsumers, Holding
<1>4. /\ q_ \in Seq(Items) /\ arg[p] \in Items /\ Len(q_') = Len(q_) + 1 /\ q_'[Len(q_) + 1] = arg[p]
      /\ \A k \in 1..Len(q_) : q_'[k] = q_[k]
  BY DEF Enqueued, PoolInv, FifoInv, TypeOK, Bringing
<1>5. \A j \in Jobs : arg[p] = j <=> adding[p] = j
  BY PoolAssumption, RolesAssumption DEF Enqueued, PoolInv, CallsMatch
<1>6. \A j \in Jobs : /\ Coming(j)' <=> Coming(j) /\ j # arg[p]
                      /\ j = arg[p] => Coming(j)
                      /\ Queued(j)' <=> Queued(j) \/ j = arg[p]
                      /\ Held(j)' <=> Held(j)
                      /\ TurnedDown(j)' <=> TurnedDown(j)
  <2> SUFFICES ASSUME NEW j \in Jobs
               PROVE  /\ Coming(j)' <=> Coming(j) /\ j # arg[p]
                      /\ j = arg[p] => Coming(j)
                      /\ Queued(j)' <=> Queued(j) \/ j = arg[p]
                      /\ Held(j)' <=> Held(j)
                      /\ TurnedDown(j)' <=> TurnedDown(j)
    OBVIOUS
  <2>1. j # None
    BY PoolAssumption, RolesAssumption
  <2>2. (Coming(j)' <=> Coming(j) /\ j # arg[p]) /\ (j = arg[p] => Coming(j))
    BY <1>1, <1>2, <1>5, <2>1 DEF Coming, JobInv, AddedOnce
  <2>3. Queued(j)' <=> Queued(j) \/ j = arg[p]
    BY <1>4 DEF Queued
  <2>4. (Held(j)' <=> Held(j)) /\ (TurnedDown(j)' <=> TurnedDown(j))
    BY <1>1, <1>2, <1>3 DEF SameConsumers, Held, TurnedDown
  <2> QED
    BY <2>2, <2>3, <2>4
<1>7. Placed'
  BY <1>1, <1>6 DEF JobInv, Placed
<1>8. QueuedOnce'
  <2> SUFFICES ASSUME NEW k \in 1..Len(q_'), NEW m \in 1..Len(q_'), q_'[k] \in Jobs, q_'[k] = q_'[m], k < m
               PROVE  FALSE
    BY <1>4 DEF QueuedOnce
  <2>1. k \in 1..Len(q_) /\ q_'[k] = q_[k]
    BY <1>4
  <2>2. CASE m = Len(q_) + 1
    <3>1. arg[p] \in Jobs /\ Queued(arg[p]) /\ Coming(arg[p])
      BY <1>4, <1>6, <2>1, <2>2 DEF Queued
    <3> QED
      BY <3>1 DEF JobInv, Placed
  <2>3. CASE m \in 1..Len(q_)
    <3>1. q_[k] \in Jobs /\ q_[k] = q_[m]
      BY <1>4, <2>1, <2>3
    <3>2. k = m
      BY <2>1, <2>3, <3>1 DEF JobInv, QueuedOnce
    <3> QED
      BY <1>4, <3>2
  <2> QED
    BY <1>4, <2>2, <2>3
<1>9. AddedOnce' /\ Taken' /\ HeldOnce' /\ Ran'
  BY <1>1, <1>3 DEF JobInv, AddedOnce, Taken, Fresh, HeldOnce, Ran, SameConsumers
<1> QED
  BY <1>7, <1>8, <1>9 DEF JobInv

(* enq has answered false.                                                 *)
LEMMA TurnedAwayJobInv ==
  ASSUME PoolInv, JobInv, NEW p \in Producers, TurnedAway(p), UNCHANGED poolVars,
         pc \in [Threads -> Labels],
         \A u \in Threads \ {p} : pc'[u] = pc[u] \/ (pc[u] = "wait" /\ pc'[u] = "lock")
  PROVE  JobInv'
<1> USE Roles
<1>1. UNCHANGED <<q_, heap, worker, runs, adding, refused, got>>
  BY DEF poolVars, TurnedAway
<1>2. /\ ~Pending(p)' /\ ~Refusing(p) /\ (Pending(p) <=> adding[p] # None) /\ (Refusing(p)' <=> adding[p] # None)
      /\ \A r \in Producers \ {p} : (Pending(r)' <=> Pending(r)) /\ (Refusing(r)' <=> Refusing(r))
  BY <1>1 DEF Pending, Refusing, TurnedAway, PoolInv, FifoInv, TypeOK
<1>3. SameConsumers
  BY <1>1, RolesAssumption DEF SameConsumers, Holding
<1>4. \A j \in Jobs : /\ Coming(j)' <=> Coming(j) /\ j # adding[p]
                      /\ j = adding[p] => Coming(j)
                      /\ Queued(j)' <=> Queued(j)
                      /\ Held(j)' <=> Held(j)
                      /\ TurnedDown(j)' <=> TurnedDown(j) \/ j = adding[p]
  <2> SUFFICES ASSUME NEW j \in Jobs
               PROVE  /\ Coming(j)' <=> Coming(j) /\ j # adding[p]
                      /\ j = adding[p] => Coming(j)
                      /\ Queued(j)' <=> Queued(j)
                      /\ Held(j)' <=> Held(j)
                      /\ TurnedDown(j)' <=> TurnedDown(j) \/ j = adding[p]
    OBVIOUS
  <2>1. j # None
    BY PoolAssumption, RolesAssumption
  <2>2. (Coming(j)' <=> Coming(j) /\ j # adding[p]) /\ (j = adding[p] => Coming(j))
    BY <1>1, <1>2, <2>1 DEF Coming, JobInv, AddedOnce
  <2>3. (Queued(j)' <=> Queued(j)) /\ (Held(j)' <=> Held(j))
    BY <1>1, <1>3 DEF Queued, SameConsumers, Held
  <2>4. TurnedDown(j)' <=> TurnedDown(j) \/ j = adding[p]
    BY <1>1, <1>2, <2>1 DEF TurnedDown
  <2> QED
    BY <2>2, <2>3, <2>4
<1>5. Placed'
  BY <1>1, <1>4 DEF JobInv, Placed
<1>6. AddedOnce' /\ QueuedOnce' /\ Taken' /\ HeldOnce' /\ Ran'
  BY <1>1, <1>3 DEF JobInv, AddedOnce, QueuedOnce, Taken, Fresh, HeldOnce, Ran, SameConsumers
<1> QED
  BY <1>5, <1>6 DEF JobInv

(* deq has given the front of the list to its caller.                      *)
LEMMA DequeuedJobInv ==
  ASSUME PoolInv, JobInv, NEW c \in Consumers, Dequeued(c), UNCHANGED poolVars,
         pc \in [Threads -> Labels],
         \A u \in Threads \ {c} : pc'[u] = pc[u] \/ (pc[u] = "wait" /\ pc'[u] = "lock")
  PROVE  JobInv'
<1> USE Roles
<1> DEFINE front == Head(q_)
<1>1. UNCHANGED <<heap, worker, runs, adding, refused, answer>> /\ worker[c] = "taking"
  BY DEF poolVars, Dequeued, PoolInv, WorkersMatch
<1>2. SameProducers
  BY <1>1, RolesAssumption DEF SameProducers, Pending, Refusing
<1>3. /\ ~Holding(c) /\ Holding(c)' /\ got'[c] = front
      /\ \A b \in Consumers \ {c} : (Holding(b)' <=> Holding(b)) /\ got'[b] = got[b]
  BY <1>1 DEF Holding, Dequeued, PoolInv, FifoInv, TypeOK
<1>4. /\ q_ \in Seq(Items) /\ Len(q_) >= 1 /\ Len(q_') = Len(q_) - 1 /\ q_[1] = front
      /\ \A k \in 1..Len(q_') : q_'[k] = q_[k + 1]
  BY DEF Dequeued, PoolInv, FifoInv, TypeOK
<1> HIDE DEF front
<1>5. \A j \in Jobs : /\ Coming(j)' <=> Coming(j)
                      /\ Queued(j)' <=> Queued(j) /\ j # front
                      /\ j = front => Queued(j)
                      /\ Held(j)' <=> Held(j) \/ j = front
                      /\ TurnedDown(j)' <=> TurnedDown(j)
  <2> SUFFICES ASSUME NEW j \in Jobs
               PROVE  /\ Coming(j)' <=> Coming(j)
                      /\ Queued(j)' <=> Queued(j) /\ j # front
                      /\ j = front => Queued(j)
                      /\ Held(j)' <=> Held(j) \/ j = front
                      /\ TurnedDown(j)' <=> TurnedDown(j)
    OBVIOUS
  <2>1. (Coming(j)' <=> Coming(j)) /\ (TurnedDown(j)' <=> TurnedDown(j))
    BY <1>1, <1>2 DEF SameProducers, Coming, TurnedDown
  <2>2. Held(j)' <=> Held(j) \/ j = front
    BY <1>3 DEF Held
  <2>3. j = front => Queued(j)
    BY <1>4 DEF Queued
  <2>4. ASSUME Queued(j)' PROVE Queued(j) /\ j # front
    <3>1. PICK k \in 1..Len(q_') : q_'[k] = j
      BY <2>4 DEF Queued
    <3>2. k + 1 \in 1..Len(q_) /\ q_[k + 1] = j /\ k + 1 # 1 /\ 1 \in 1..Len(q_)
      BY <1>4, <3>1
    <3> QED
      BY <1>4, <3>2 DEF Queued, JobInv, QueuedOnce
  <2>5. ASSUME Queued(j), j # front PROVE Queued(j)'
    <3>1. PICK k \in 1..Len(q_) : q_[k] = j
      BY <2>5 DEF Queued
    <3>2. k - 1 \in 1..Len(q_') /\ q_'[k - 1] = j
      BY <1>4, <2>5, <3>1
    <3> QED
      BY <3>2 DEF Queued
  <2> QED
    BY <2>1, <2>2, <2>3, <2>4, <2>5
<1>6. Placed'
  BY <1>1, <1>5 DEF JobInv, Placed
<1>7. QueuedOnce'
  <2> SUFFICES ASSUME NEW k \in 1..Len(q_'), NEW m \in 1..Len(q_'), q_'[k] \in Jobs, q_'[k] = q_'[m]
               PROVE  k = m
    BY DEF QueuedOnce
  <2>1. k + 1 \in 1..Len(q_) /\ m + 1 \in 1..Len(q_) /\ q_[k + 1] \in Jobs /\ q_[k + 1] = q_[m + 1]
    BY <1>4
  <2>2. k + 1 = m + 1
    BY <2>1 DEF JobInv, QueuedOnce
  <2> QED
    BY <1>4, <2>2
<1>8. AddedOnce' /\ Taken'
  BY <1>1 DEF JobInv, AddedOnce, Taken, Fresh
<1>9. HeldOnce' /\ Ran'
  <2>1. front \in Jobs => ~Held(front) /\ runs[front] = 0
    BY <1>5 DEF JobInv, Placed
  <2> QED
    BY <1>1, <1>3, <2>1 DEF JobInv, HeldOnce, Ran, Held
<1> QED
  BY <1>6, <1>7, <1>8, <1>9 DEF JobInv
LEMMA QueueStepJobInv ==
  ASSUME PoolInv, JobInv, NEW t \in Threads, Step(t) \/ SpuriousWakeup(t), UNCHANGED poolVars
  PROVE  JobInv'
<1>1. /\ Enqueued(t) \/ TurnedAway(t) \/ Dequeued(t) \/ Moved(t)
      /\ pc \in [Threads -> Labels] /\ pc' \in [Threads -> Labels]
      /\ \A u \in Threads \ {t} : pc'[u] = pc[u] \/ (pc[u] = "wait" /\ pc'[u] = "lock")
  BY StepKinds DEF PoolInv
<1>2. CASE Enqueued(t)
  BY <1>1, <1>2, EnqueuedJobInv DEF Enqueued
<1>3. CASE TurnedAway(t)
  BY <1>1, <1>3, TurnedAwayJobInv DEF TurnedAway
<1>4. CASE Dequeued(t)
  BY <1>1, <1>4, DequeuedJobInv DEF Dequeued
<1>5. CASE Moved(t)
  <2>1. SameProducers
    BY <1>1, <1>5, Roles DEF Moved, SameProducers, Pending, Refusing, poolVars
  <2>2. SameConsumers
    BY <1>1, <1>5, Roles DEF Moved, SameConsumers, Holding, poolVars
  <2> QED
    BY <1>5, <2>1, <2>2, NothingMoves DEF Moved, poolVars
<1> QED
  BY <1>1, <1>2, <1>3, <1>4, <1>5

LEMMA NextJobInv == PoolInv /\ JobInv /\ [PoolNext]_vars => JobInv'
<1> USE Roles
<1> SUFFICES ASSUME PoolInv, JobInv, [PoolNext]_vars PROVE JobInv'
  OBVIOUS
<1>1. CASE UNCHANGED <<fifoVars, heap, worker, runs, adding, refused>>
  BY <1>1, NothingMoves DEF fifoVars, SameProducers, SameConsumers, Pending, Refusing, Holding
<1>2. ASSUME NEW t \in Threads, Step(t) \/ SpuriousWakeup(t), UNCHANGED poolVars PROVE JobInv'
  BY <1>2, QueueStepJobInv
<1>3. ASSUME NEW c \in Consumers, TakeJob(c) PROVE JobInv'
  <2>1. SameProducers /\ SameConsumers
    BY <1>3, RolesAssumption DEF TakeJob, CallDeq, Goto, SameProducers, SameConsumers, Pending, Refusing, Holding,
                                 PoolInv, PoolTypeOK, FifoInv, TypeOK
  <2> QED
    BY <1>3, <2>1, NothingMoves DEF TakeJob, CallDeq
<1>4. CASE TellWorker
  <2>1. SameProducers /\ SameConsumers
    BY <1>4, RolesAssumption, PoolAssumption
       DEF TellWorker, CallEnq, Goto, SameProducers, SameConsumers, Pending, Refusing, Holding,
           PoolInv, CallsMatch, FifoInv, TypeOK
  <2> QED
    BY <1>4, <2>1, NothingMoves DEF TellWorker, CallEnq
<1>5. CASE Close \/ Join \/ UNCHANGED vars
  BY <1>1, <1>5 DEF Close, Join, vars, poolVars
<1> QED
  BY <1>2, <1>3, <1>4, <1>5, AddObjJobJobInv, AddReturnsJobInv, ExitJobInv, CallMethodJobInv, DeleteWrapperJobInv
     DEF PoolNext, PoolStep, Wakeup

(* PoolInv and JobInv hold in every state of the pool.                     *)
THEOREM PoolInvariant == PoolSpec => [](PoolInv /\ JobInv)
  BY InitPoolInv, InitJobInv, NextPoolInv, NextJobInv, PTL DEF PoolSpec

(* A job's method is called at most once, and never if addObjJob answered  *)
(* false, however its caller, the workers and the destructor interleave.   *)
THEOREM JobsRunOnce == PoolSpec => []RunsOnce
<1>1. PoolInv /\ JobInv => RunsOnce
  <2> SUFFICES ASSUME PoolInv, JobInv, NEW j \in Jobs PROVE runs[j] <= IF j \in refused THEN 0 ELSE 1
    BY DEF RunsOnce
  <2>1. CASE Held(j)
    <3>1. PICK c \in Consumers : Holding(c) /\ got[c] = j
      BY <2>1 DEF Held
    <3>2. runs[j] = 0 \/ runs[j] = 1
      BY <3>1 DEF JobInv, Ran
    <3> QED
      BY <2>1, <3>2 DEF JobInv, Placed, TurnedDown
  <2>2. CASE ~Held(j)
    <3>1. j \in heap => runs[j] = 0
      BY <2>2 DEF JobInv, Placed
    <3>2. j \notin heap => j \notin refused /\ runs[j] <= 1
      BY DEF JobInv, Placed, TurnedDown
    <3> QED
      BY <3>1, <3>2
  <2> QED
    BY <2>1, <2>2
<1> QED
  BY <1>1, PoolInvariant, PTL

(* A set whose elements are all the same has at most one.                  *)
LEMMA AtMostOne ==
  ASSUME NEW S, \A x, y \in S : x = y PROVE Cardinality(S) <= 1
<1>1. CASE S = {}
  BY <1>1, FS_EmptySet
<1>2. CASE S # {}
  <2>1. PICK x \in S : TRUE
    BY <1>2
  <2>2. S = {x}
    BY <2>1
  <2> QED
    BY <2>2, FS_Singleton
<1> QED
  BY <1>1, <1>2

(* While anybody has a pointer to a wrapper and means to use it, the       *)
(* wrapper is allocated and nobody else has one: func neither reads a      *)
(* freed wrapper nor deletes one twice.                                    *)
THEOREM WrappersStayAlive == PoolSpec => []WrapperAlive
<1>1. PoolInv /\ JobInv => WrapperAlive
  <2> SUFFICES ASSUME PoolInv, JobInv, NEW j \in Jobs
               PROVE  Cardinality(Holders(j)) <= 1 /\ (Holders(j) # {} => j \in heap)
    BY DEF WrapperAlive
  <2> DEFINE A == {p \in Producers : Pending(p) /\ adding[p] = j}
             B == {k \in 1..Len(q_) : q_[k] = j}
             C == {c \in Consumers : Holding(c) /\ got[c] = j}
  <2>1. Holders(j) = A \cup B \cup C
    <3>1. \A p \in Producers : adding[p] = j /\ pc[p] # "idle" /\ pc[p] # "unlock" <=> Pending(p) /\ adding[p] = j
      BY PoolAssumption, RolesAssumption, Roles DEF Pending, PoolInv, FifoInv, TypeOK, Labels
    <3>2. \A c \in Consumers : got[c] = j /\ pc[c] \in {"idle", "unlock"} /\ worker[c] \in {"taking", "calling"}
                               <=> Holding(c) /\ got[c] = j
      BY DEF Holding
    <3>3. DOMAIN q_ = 1..Len(q_)
      BY DEF PoolInv, FifoInv, TypeOK
    <3> QED
      BY <3>1, <3>2, <3>3 DEF Holders
  <2>2. /\ A # {} <=> Coming(j)
        /\ B # {} <=> Queued(j)
        /\ C # {} <=> Held(j)
    BY DEF Coming, Queued, Held
  <2>3. /\ \A x, y \in A : x = y
        /\ \A x, y \in B : x = y
        /\ \A x, y \in C : x = y
    BY PoolAssumption, RolesAssumption DEF JobInv, AddedOnce, QueuedOnce, HeldOnce
  <2> HIDE DEF A, B, C
  <2>4. \A x, y \in Holders(j) : x = y
    BY <2>1, <2>2, <2>3 DEF JobInv, Placed
  <2>5. Holders(j) # {} => j \in heap
    BY <2>1, <2>2 DEF JobInv, Placed
  <2> QED
    BY <2>4, <2>5, AtMostOne
<1> QED
  BY <1>1, PoolInvariant, PTL
-----------------------------------------------------------------------------
(* The destructor.  Dismissed: the workers that took an empty job; Telling *)
(* is 1 while the destructor waits to enqueue one.                         *)
Dismissed == {c \in Consumers : worker[c] = "exited" \/ (Holding(c) /\ got[c] = EmptyJob)}
Telling == IF life = "closing" /\ pc[Owner] \in {"lock", "test", "wait"} THEN 1 ELSE 0

(* The first n items of the list are jobs, the others empty jobs.          *)
Front(n) == /\ n \in 0..Len(q_)
            /\ \A i \in 1..Len(q_) : IF i <= n THEN q_[i] \in Jobs ELSE q_[i] = EmptyJob

(* Every empty job the destructor has made is on its way into the queue,   *)
(* in it, or with the one worker that took it, and no worker takes one     *)
(* while a job is queued.                                                  *)
Accounted(n) == /\ Front(n)
                /\ told = (Len(q_) - n) + Cardinality(Dismissed) + Telling
                /\ n > 0 => Dismissed = {}

CloseInv == /\ \E n \in Nat : Accounted(n)
            /\ life = "up" => told = 0
            /\ life = "gone" => \A c \in Consumers : worker[c] = "exited"

LEMMA DismissedFinite == IsFiniteSet(Dismissed) /\ Cardinality(Dismissed) \in Nat
<1>1. Dismissed \in SUBSET Threads
  BY Roles DEF Dismissed
<1> QED
  BY <1>1, SubsetFinite

LEMMA InitCloseInv == PoolInit => CloseInv
<1> SUFFICES ASSUME PoolInit PROVE CloseInv
  OBVIOUS
<1>1. Dismissed = {} /\ Telling = 0 /\ Len(q_) = 0 /\ told = 0 /\ life = "up"
  BY DEF PoolInit, Init, Dismissed, Holding, Telling
<1>2. Cardinality(Dismissed) = 0
  BY <1>1, FS_EmptySet
<1>3. Accounted(0)
  BY <1>1, <1>2 DEF Accounted, Front
<1> QED
  BY <1>1, <1>3 DEF CloseInv

(* A step that leaves the list and the dismissed workers alone.            *)
LEMMA SameAccount ==
  ASSUME CloseInv, UNCHANGED q_, Dismissed' = Dismissed, told' - Telling' = told - Telling,
         told \in Int, told' \in Int, Telling \in Int, Telling' \in Int, Len(q_) \in Nat
  PROVE  \E n \in Nat : Accounted(n)'
<1>1. PICK n \in Nat : Accounted(n)
  BY DEF CloseInv
<1>2. Cardinality(Dismissed) \in Nat
  BY DismissedFinite
<1>3. Front(n)' /\ (n > 0 => Dismissed' = {})
  BY <1>1 DEF Accounted, Front
<1>4. told = (Len(q_) - n) + Cardinality(Dismissed) + Telling
  BY <1>1 DEF Accounted
<1>5. told' = (Len(q_') - n) + Cardinality(Dismissed') + Telling'
  <2>1. Len(q_') = Len(q_) /\ Cardinality(Dismissed') = Cardinality(Dismissed)
    OBVIOUS
  <2> DEFINE x == (Len(q_) - n) + Cardinality(Dismissed)
  <2>2. x \in Int
    BY <1>2
  <2>3. told - Telling = x
    BY <1>2, <1>4
  <2> HIDE DEF x
  <2>4. told' - Telling' = x
    BY <2>3
  <2> DEFINE a == told'
             b == Telling'
  <2>5. a \in Int /\ b \in Int /\ a - b = x
    BY <2>4
  <2> HIDE DEF a, b
  <2>6. a = x + b
    BY <2>2, <2>5
  <2> QED
    BY <2>1, <2>6 DEF x, a, b
<1> QED
  BY <1>3, <1>5 DEF Accounted

LEMMA TellingType == Telling \in {0, 1}
  BY DEF Telling
(* The list grows by a job while the pool is up, by an empty job after.    *)
LEMMA EnqueuedCloseInv ==
  ASSUME PoolInv, CloseInv, NEW p \in Producers, Enqueued(p), UNCHANGED poolVars, Dismissed' = Dismissed,
         p # Owner => Telling' = Telling
  PROVE  \E n \in Nat : Accounted(n)'
<1>1. PICK n \in Nat : Accounted(n)
  BY DEF CloseInv
<1>2. /\ q_ \in Seq(Items) /\ arg[p] \in Items /\ Len(q_') = Len(q_) + 1 /\ q_'[Len(q_) + 1] = arg[p]
      /\ \A k \in 1..Len(q_) : q_'[k] = q_[k]
  BY Roles DEF Enqueued, PoolInv, FifoInv, TypeOK, Bringing
<1>3. /\ Len(q_) \in Nat /\ Cardinality(Dismissed) \in Nat /\ told' = told
      /\ told = (Len(q_) - n) + Cardinality(Dismissed) + Telling
  BY <1>1, <1>2, DismissedFinite DEF Accounted, poolVars
<1>4. CASE adding[p] # None
  <2>1. arg[p] \in Jobs /\ life = "up" /\ life' = "up" /\ told = 0
    BY <1>4 DEF Enqueued, PoolInv, PoolTypeOK, CallsMatch, CloseInv, poolVars
  <2>2. Telling = 0 /\ Telling' = 0
    BY <2>1 DEF Telling
  <2>3. n = Len(q_) /\ Cardinality(Dismissed) = 0
    BY <1>1, <1>3, <2>1, <2>2 DEF Accounted, Front
  <2>4. Dismissed = {}
    BY <2>3, DismissedFinite, FS_EmptySet
  <2>5. Front(n + 1)'
    BY <1>1, <1>2, <2>1, <2>3 DEF Accounted, Front
  <2>6. told' = (Len(q_') - (n + 1)) + Cardinality(Dismissed') + Telling'
    BY <1>2, <1>3, <2>1, <2>2, <2>3
  <2>7. Accounted(n + 1)'
    BY <2>4, <2>5, <2>6 DEF Accounted
  <2> QED
    BY <2>7
<1>5. CASE adding[p] = None
  <2>1. p = Owner /\ arg[p] = EmptyJob /\ life = "closing" /\ life' = "closing"
    BY <1>5 DEF Enqueued, PoolInv, CallsMatch, poolVars
  <2>2. Telling = 1 /\ Telling' = 0
    BY <2>1 DEF Telling, Enqueued
  <2>3. Front(n)'
    BY <1>1, <1>2, <2>1 DEF Accounted, Front
  <2>4. told' = (Len(q_') - n) + Cardinality(Dismissed') + Telling'
    BY <1>2, <1>3, <2>2
  <2>5. Accounted(n)'
    BY <1>1, <2>3, <2>4 DEF Accounted
  <2> QED
    BY <2>5
<1> QED
  BY <1>4, <1>5

(* An empty job leaves the list only after every job has.                  *)
LEMMA DequeuedCloseInv ==
  ASSUME PoolInv, CloseInv, NEW c \in Consumers, Dequeued(c), UNCHANGED poolVars, Telling' = Telling,
         \A b \in Consumers \ {c} : b \in Dismissed' <=> b \in Dismissed
  PROVE  \E n \in Nat : Accounted(n)'
<1> DEFINE front == Head(q_)
<1>1. PICK n \in Nat : Accounted(n)
  BY DEF CloseInv
<1>2. /\ q_ \in Seq(Items) /\ Len(q_) >= 1 /\ Len(q_') = Len(q_) - 1 /\ q_[1] = front
      /\ \A k \in 1..Len(q_') : q_'[k] = q_[k + 1]
  BY DEF Dequeued, PoolInv, FifoInv, TypeOK
<1>3. c \notin Dismissed /\ (c \in Dismissed' <=> front = EmptyJob)
  BY DEF Dequeued, Dismissed, Holding, PoolInv, WorkersMatch, FifoInv, TypeOK, poolVars
<1> HIDE DEF front
<1>4. /\ Len(q_) \in Nat /\ Cardinality(Dismissed) \in Nat /\ told' = told /\ Telling \in {0, 1}
      /\ told = (Len(q_) - n) + Cardinality(Dismissed) + Telling
  BY <1>1, <1>2, DismissedFinite, TellingType DEF Accounted, poolVars
<1>5. CASE n > 0
  <2>1. front \in Jobs /\ Dismissed = {}
    BY <1>1, <1>2, <1>5 DEF Accounted, Front
  <2>2. Dismissed' = Dismissed
    BY <1>3, <2>1, PoolAssumption DEF Dismissed
  <2>3. Front(n - 1)'
    BY <1>1, <1>2, <1>5 DEF Accounted, Front
  <2>4. told' = (Len(q_') - (n - 1)) + Cardinality(Dismissed') + Telling'
    BY <1>2, <1>4, <2>2
  <2>5. Accounted(n - 1)' /\ n - 1 \in Nat
    BY <1>5, <2>1, <2>2, <2>3, <2>4 DEF Accounted
  <2> QED
    BY <2>5
<1>6. CASE n = 0
  <2>1. front = EmptyJob
    BY <1>1, <1>2, <1>6 DEF Accounted, Front
  <2>2. Dismissed' = Dismissed \cup {c}
    BY <1>3, <2>1 DEF Dismissed
  <2>3. Cardinality(Dismissed') = Cardinality(Dismissed) + 1
    BY <1>3, <2>2, DismissedFinite, FS_AddElement
  <2>4. Front(0)'
    BY <1>1, <1>2, <1>6 DEF Accounted, Front
  <2>5. told' = (Len(q_') - 0) + Cardinality(Dismissed') + Telling'
    BY <1>2, <1>4, <1>6, <2>3
  <2>6. Accounted(0)'
    BY <2>4, <2>5 DEF Accounted
  <2> QED
    BY <2>6
<1> QED
  BY <1>5, <1>6

LEMMA QueueStepCloseInv ==
  ASSUME PoolInv, CloseInv, NEW t \in Threads, Step(t) \/ SpuriousWakeup(t), UNCHANGED poolVars
  PROVE  CloseInv'
<1> USE Roles
<1>1. /\ Enqueued(t) \/ TurnedAway(t) \/ Dequeued(t) \/ Moved(t)
      /\ pc \in [Threads -> Labels] /\ pc' \in [Threads -> Labels]
      /\ \A u \in Threads \ {t} : pc'[u] = pc[u] \/ (pc[u] = "wait" /\ pc'[u] = "lock")
  BY StepKinds DEF PoolInv
<1>2. UNCHANGED <<worker, told, life>>
  BY DEF poolVars
<1>3. \A b \in Consumers \ {t} : b \in Dismissed' <=> b \in Dismissed
  <2> SUFFICES ASSUME NEW b \in Consumers \ {t} PROVE b \in Dismissed' <=> b \in Dismissed
    OBVIOUS
  <2>1. (Holding(b)' <=> Holding(b))
    BY <1>1, <1>2 DEF Holding
  <2>2. got'[b] = got[b]
    BY <1>1 DEF Enqueued, TurnedAway, Dequeued, Moved, PoolInv, FifoInv, TypeOK
  <2> QED
    BY <1>2, <2>1, <2>2 DEF Dismissed
<1>4. t # Owner => Telling' = Telling
  BY <1>1, <1>2, PoolAssumption DEF Telling
<1>5. \E n \in Nat : Accounted(n)'
  <2>1. CASE Enqueued(t)
    <3>1. t \in Producers /\ Dismissed' = Dismissed
      BY <1>3, <2>1 DEF Enqueued, Dismissed
    <3> QED
      BY <1>4, <2>1, <3>1, EnqueuedCloseInv
  <2>2. CASE Dequeued(t)
    <3>1. t \in Consumers /\ Telling' = Telling
      BY <1>4, <2>2, PoolAssumption DEF Dequeued
    <3> QED
      BY <1>3, <2>2, <3>1, DequeuedCloseInv
  <2>3. CASE TurnedAway(t) \/ Moved(t)
    <3>1. UNCHANGED <<q_, got>>
      BY <2>3 DEF TurnedAway, Moved
    <3>2. Dismissed' = Dismissed
      <4>1. t \in Consumers => (t \in Dismissed' <=> t \in Dismissed)
        BY <1>2, <2>3, <3>1 DEF TurnedAway, Moved, Dismissed, Holding
      <4> QED
        BY <1>3, <4>1 DEF Dismissed
    <3>3. Telling' = Telling
      <4>1. CASE TurnedAway(t)
        BY <1>2, <1>4, <4>1 DEF TurnedAway, Telling, PoolInv, CallsMatch
      <4>2. CASE Moved(t)
        BY <1>2, <1>4, <4>2 DEF Moved, Telling
      <4> QED
        BY <2>3, <4>1, <4>2
    <3>4. told \in Int /\ Telling \in Int /\ Len(q_) \in Nat
      BY TellingType DEF PoolInv, PoolTypeOK, FifoInv, TypeOK
    <3> QED
      BY <1>2, <3>1, <3>2, <3>3, <3>4, SameAccount
  <2> QED
    BY <1>1, <2>1, <2>2, <2>3
<1> QED
  BY <1>2, <1>5 DEF CloseInv
(* The steps outside the queue.                                            *)
LEMMA OutsideCloseInv ==
  ASSUME PoolInv, CloseInv,
         \/ \E p \in Producers : AddObjJob(p) \/ AddReturns(p)
         \/ \E c \in Consumers : TakeJob(c) \/ Exit(c) \/ CallMethod(c) \/ DeleteWrapper(c)
         \/ Close \/ TellWorker \/ Join \/ UNCHANGED vars
  PROVE  CloseInv'
<1> USE Roles, PoolAssumption, RolesAssumption
<1>1. /\ UNCHANGED <<q_, got>> /\ Owner \in Threads
      /\ pc \in [Threads -> Labels] /\ worker \in [Consumers -> {"loop", "taking", "calling", "exited"}]
      /\ Telling \in Int /\ Telling' \in Int /\ Len(q_) \in Nat /\ told \in Int
  BY TellingType DEF PoolInv, PoolTypeOK, FifoInv, TypeOK, AddObjJob, AddReturns, TakeJob, Exit, CallMethod,
     DeleteWrapper, Close, TellWorker, Join, CallEnq, CallDeq, fifoVars, vars, Telling
<1>2. ASSUME NEW p \in Producers, AddObjJob(p) \/ AddReturns(p) PROVE CloseInv'
  <2>1. life' = life /\ told' = told /\ worker' = worker /\ (Telling' = Telling)
    BY <1>1, <1>2 DEF AddObjJob, AddReturns, CallEnq, Goto, fifoVars, Telling
  <2>2. Dismissed' = Dismissed
    BY <1>1, <1>2 DEF AddObjJob, AddReturns, CallEnq, Goto, fifoVars, Dismissed, Holding
  <2>3. \E n \in Nat : Accounted(n)'
    BY <1>1, <2>1, <2>2, SameAccount
  <2> QED
    BY <2>1, <2>3 DEF CloseInv
<1>3. ASSUME NEW c \in Consumers, TakeJob(c) \/ Exit(c) \/ CallMethod(c) \/ DeleteWrapper(c) PROVE CloseInv'
  <2>1. life' = life /\ told' = told /\ Telling' = Telling /\ worker[c] # "exited"
    BY <1>1, <1>3 DEF TakeJob, Exit, CallMethod, DeleteWrapper, CallDeq, Goto, fifoVars, Telling
  <2>2. Dismissed' = Dismissed
    <3>1. \A b \in Consumers \ {c} : b \in Dismissed' <=> b \in Dismissed
      BY <1>1, <1>3 DEF TakeJob, Exit, CallMethod, DeleteWrapper, CallDeq, Goto, fifoVars, Dismissed, Holding
    <3>2. c \in Dismissed' <=> c \in Dismissed
      BY <1>1, <1>3 DEF TakeJob, Exit, CallMethod, DeleteWrapper, CallDeq, Goto, fifoVars, Dismissed, Holding,
                        PoolInv, PoolTypeOK
    <3> QED
      BY <3>1, <3>2 DEF Dismissed
  <2>3. \E n \in Nat : Accounted(n)'
    BY <1>1, <2>1, <2>2, SameAccount
  <2>4. life # "gone"
    BY <2>1 DEF CloseInv
  <2> QED
    BY <2>1, <2>3, <2>4 DEF CloseInv
<1>4. CASE Close \/ Join
  <2>1. told' = told /\ worker' = worker /\ life' # "up" /\ (life' = "gone" => \A c \in Consumers : worker[c] = "exited")
    BY <1>4 DEF Close, Join
  <2>2. Dismissed' = Dismissed
    BY <1>1, <1>4 DEF Close, Join, fifoVars, Dismissed, Holding
  <2>3. Telling' = Telling
    BY <1>1, <1>4 DEF Close, Join, fifoVars, Telling, PoolInv, CallsMatch
  <2>4. \E n \in Nat : Accounted(n)'
    BY <1>1, <2>1, <2>2, <2>3, SameAccount
  <2> QED
    BY <2>1, <2>4 DEF CloseInv
<1>5. CASE TellWorker
  <2>1. told' = told + 1 /\ worker' = worker /\ life' = "closing" /\ Telling = 0 /\ Telling' = 1
    BY <1>1, <1>5 DEF TellWorker, CallEnq, Goto, Telling
  <2>2. Dismissed' = Dismissed
    BY <1>1, <1>5 DEF TellWorker, CallEnq, Goto, Dismissed, Holding
  <2>3. \E n \in Nat : Accounted(n)'
    BY <1>1, <2>1, <2>2, SameAccount
  <2> QED
    BY <2>1, <2>3 DEF CloseInv
<1>6. CASE UNCHANGED vars
  <2>1. UNCHANGED <<told, life, worker>> /\ Dismissed' = Dismissed /\ Telling' = Telling
    BY <1>6 DEF vars, fifoVars, poolVars, Dismissed, Holding, Telling
  <2>2. \E n \in Nat : Accounted(n)'
    BY <1>1, <2>1, SameAccount
  <2> QED
    BY <2>1, <2>2 DEF CloseInv
<1> QED
  BY <1>2, <1>3, <1>4, <1>5, <1>6

LEMMA NextCloseInv == PoolInv /\ CloseInv /\ [PoolNext]_vars => CloseInv'
<1> SUFFICES ASSUME PoolInv, CloseInv, [PoolNext]_vars PROVE CloseInv'
  OBVIOUS
<1>1. ASSUME NEW t \in Threads, Step(t) \/ SpuriousWakeup(t), UNCHANGED poolVars PROVE CloseInv'
  BY <1>1, QueueStepCloseInv
<1> QED
  BY <1>1, OutsideCloseInv DEF PoolNext, PoolStep, Wakeup

(* CloseInv holds in every state of the pool.                              *)
LEMMA CloseInvariant == PoolSpec => []CloseInv
  BY PoolInvariant, InitCloseInv, NextCloseInv, PTL DEF PoolSpec

(* ~ThrPool of a pool with any number of workers but none: when it has     *)
(* joined them jobq_ is empty and nobody is in it, each accepted job has   *)
(* run, and only the wrappers that addObjJob's callers were refused are    *)
(* left on the heap.  The empty jobs are in the queue behind every job and *)
(* each worker takes one of them, no more.                                 *)
THEOREM ShutdownIsClean == Consumers # {} => (PoolSpec => []CleanShutdown)
<1> SUFFICES ASSUME Consumers # {} PROVE PoolSpec => []CleanShutdown
  OBVIOUS
<1>1. PoolInv /\ JobInv /\ CloseInv => CleanShutdown
  <2> SUFFICES ASSUME PoolInv, JobInv, CloseInv, life = "gone"
               PROVE  /\ q_ = <<>>
                      /\ \A t \in Threads : pc[t] = "idle"
                      /\ heap = refused
                      /\ \A j \in Jobs \ Fresh : j \notin refused => runs[j] = 1
    BY DEF CleanShutdown
  <2>1. /\ \A c \in Consumers : worker[c] = "exited" /\ pc[c] = "idle" /\ ~Holding(c)
        /\ \A p \in Producers : adding[p] = None /\ pc[p] = "idle"
    BY DEF CloseInv, PoolInv, WorkersMatch, CallsMatch, Holding
  <2>2. Dismissed = Consumers /\ Telling = 0
    BY <2>1 DEF Dismissed, Telling
  <2>3. q_ = <<>>
    <3>1. PICK n \in Nat : Accounted(n)
      BY DEF CloseInv
    <3>2. n = 0
      BY <2>2, <3>1 DEF Accounted
    <3>3. q_ \in Seq(Items) /\ Len(q_) \in Nat /\ Cardinality(Consumers) \in Nat
          /\ told \in 0..Cardinality(Consumers)
      BY ThreadsFinite, FS_CardinalityType DEF PoolInv, PoolTypeOK, FifoInv, TypeOK
    <3>4. told = (Len(q_) - 0) + Cardinality(Consumers) + 0
      BY <2>2, <3>1, <3>2 DEF Accounted
    <3>5. Len(q_) = 0
      BY <3>3, <3>4
    <3> QED
      BY <3>3, <3>5
  <2>4. \A j \in Jobs : ~Coming(j) /\ ~Queued(j) /\ ~Held(j) /\ (TurnedDown(j) <=> j \in refused)
    BY <2>1, <2>3 DEF Coming, Queued, Held, TurnedDown, Pending, Refusing
  <2>5. heap = refused
    BY <2>4 DEF JobInv, Placed, PoolInv, PoolTypeOK
  <2>6. \A j \in Jobs \ Fresh : j \notin refused => runs[j] = 1
    <3> SUFFICES ASSUME NEW j \in Jobs \ Fresh, j \notin refused PROVE runs[j] = 1
      OBVIOUS
    <3>1. j \notin heap /\ runs[j] # 0 /\ runs[j] \in Nat
      BY <2>5 DEF Fresh, PoolInv, PoolTypeOK
    <3> QED
      BY <3>1 DEF JobInv, Placed
  <2> QED
    BY <2>1, <2>3, <2>5, <2>6 DEF Threads
<1> QED
  BY <1>1, PoolInvariant, CloseInvariant, PTL
=============================================================================

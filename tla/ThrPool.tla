-------------------------------- MODULE ThrPool --------------------------------
(***************************************************************************)
(* ThrPool (rpc/thr_pool.h): jobs handed to worker threads through the     *)
(* queue jobq_, a Fifo.  addObjJob packs a method call into a wrapper on   *)
(* the heap and enqueues a pointer to it; the worker that takes it runs    *)
(* the wrapper's func, which calls the method and deletes the wrapper.     *)
(*                                                                         *)
(* The constructor, the destructor, addJob, takeJob and the workers' loop  *)
(* are in the compiled library; they are modelled by how they use the      *)
(* queue: ~ThrPool enqueues one empty job per worker and joins them, a     *)
(* worker that takes an empty job exits.  The owner destroys the pool when *)
(* no addObjJob is under way, as fifo.h asks.                              *)
(***************************************************************************)
EXTENDS Fifo

CONSTANTS Jobs,         \* method calls, each with a wrapper of its own
          EmptyJob,     \* {NULL, NULL}
          Owner,        \* the thread that destroys the pool
          MaxSpurious   \* bound: wake-ups without a signal in a behaviour

ASSUME PoolAssumption == /\ Items = Jobs \cup {EmptyJob} /\ EmptyJob \notin Jobs
                         /\ Owner \in Producers
                         /\ MaxSpurious \in Nat

VARIABLES blockadd_,  \* do calls of addObjJob wait for space?
          heap,       \* wrappers that are allocated
          worker,     \* "loop", "taking" a job, "calling" its method, "exited"
          runs,       \* history: how often a job's method was called
          adding,     \* the job each producer is adding, None if none
          refused,    \* history: the jobs addObjJob answered false for
          told,       \* empty jobs the destructor has enqueued
          life,       \* of the pool: "up", "closing" in its destructor, "gone"
          spurious    \* wake-ups without a signal so far

poolVars == <<heap, worker, runs, adding, refused, told, life>>
vars == <<fifoVars, poolVars, blockadd_, spurious>>

PoolTypeOK ==
  /\ TypeOK
  /\ blockadd_ \in BOOLEAN
  /\ heap \subseteq Jobs /\ refused \subseteq Jobs
  /\ worker \in [Consumers -> {"loop", "taking", "calling", "exited"}]
  /\ \A c \in Consumers : worker[c] = "calling" => got[c] \in Jobs
  /\ runs \in [Jobs -> Nat]
  /\ adding \in [Producers -> Jobs \cup {None}]
  /\ told \in 0..Cardinality(Consumers)
  /\ life \in {"up", "closing", "gone"}
  /\ spurious \in 0..MaxSpurious

Fresh == {j \in Jobs : j \notin heap /\ runs[j] = 0}

PoolInit == /\ Init
            /\ blockadd_ \in BOOLEAN
            /\ heap = {}
            /\ worker = [c \in Consumers |-> "loop"]
            /\ runs = [j \in Jobs |-> 0]
            /\ adding = [p \in Producers |-> None]
            /\ refused = {}
            /\ told = 0
            /\ life = "up"
            /\ spurious = 0

-----------------------------------------------------------------------------
(* addObjJob: a new wrapper, then addJob; its answer is addJob's.          *)
AddObjJob(p) ==
  /\ life = "up" /\ adding[p] = None
  /\ \E j \in Fresh : /\ heap' = heap \cup {j}
                      /\ adding' = [adding EXCEPT ![p] = j]
                      /\ CallEnq(p, j, blockadd_)
  /\ UNCHANGED <<worker, runs, refused, told, life>>

(* Mutant of AddReturns: the caller deletes the wrapper it made.           *)
AddReturns_Deletes(p) ==
  /\ adding[p] # None /\ pc[p] = "idle"
  /\ adding' = [adding EXCEPT ![p] = None]
  /\ refused' = IF answer[p] THEN refused ELSE refused \cup {adding[p]}
  /\ heap' = heap \ {adding[p]}
  /\ UNCHANGED <<fifoVars, worker, runs, told, life>>

(* return addJob(...): whatever the answer, the wrapper is left alone.     *)
AddReturns(p) ==
  /\ adding[p] # None /\ pc[p] = "idle"
  /\ adding' = [adding EXCEPT ![p] = None]
  /\ refused' = IF answer[p] THEN refused ELSE refused \cup {adding[p]}
  /\ UNCHANGED <<fifoVars, heap, worker, runs, told, life>>

(* The workers' loop.                                                      *)
TakeJob(c) ==
  /\ worker[c] = "loop"
  /\ worker' = [worker EXCEPT ![c] = "taking"]
  /\ CallDeq(c)
  /\ UNCHANGED <<heap, runs, adding, refused, told, life>>

Exit(c) ==
  /\ worker[c] = "taking" /\ pc[c] = "idle" /\ got[c] = EmptyJob
  /\ worker' = [worker EXCEPT ![c] = "exited"]
  /\ UNCHANGED <<fifoVars, heap, runs, adding, refused, told, life>>

(* Mutant of CallMethod: takeJob's answer is not looked at.                *)
CallMethod_EmptyToo(c) ==
  /\ worker[c] = "taking" /\ pc[c] = "idle"
  /\ worker' = [worker EXCEPT ![c] = "calling"]
  /\ runs' = [j \in Jobs |-> IF j = got[c] THEN runs[j] + 1 ELSE runs[j]]
  /\ UNCHANGED <<fifoVars, heap, adding, refused, told, life>>

(* objfunc_wrapper::func: the method is called, then the wrapper deleted.  *)
CallMethod(c) ==
  /\ worker[c] = "taking" /\ pc[c] = "idle" /\ got[c] # EmptyJob
  /\ worker' = [worker EXCEPT ![c] = "calling"]
  /\ runs' = [runs EXCEPT ![got[c]] = @ + 1]
  /\ UNCHANGED <<fifoVars, heap, adding, refused, told, life>>

(* Mutant of DeleteWrapper: it is forgotten.                               *)
DeleteWrapper_Forgotten(c) ==
  /\ worker[c] = "calling"
  /\ worker' = [worker EXCEPT ![c] = "loop"]
  /\ UNCHANGED <<fifoVars, heap, runs, adding, refused, told, life>>

DeleteWrapper(c) ==
  /\ worker[c] = "calling"
  /\ worker' = [worker EXCEPT ![c] = "loop"]
  /\ heap' = heap \ {got[c]}
  /\ UNCHANGED <<fifoVars, runs, adding, refused, told, life>>

(* ~ThrPool: addJob(NULL, NULL), waiting for space, once per worker; then  *)
(* the workers are joined, and ~fifo destroys the mutex and the conditions.*)
Close == /\ life = "up"
         /\ \A p \in Producers : adding[p] = None
         /\ life' = "closing"
         /\ UNCHANGED <<fifoVars, heap, worker, runs, adding, refused, told>>

TellWorker == /\ life = "closing" /\ told < Cardinality(Consumers)
              /\ CallEnq(Owner, EmptyJob, TRUE)
              /\ told' = told + 1
              /\ UNCHANGED <<heap, worker, runs, adding, refused, life>>

Join == /\ life = "closing" /\ told = Cardinality(Consumers) /\ pc[Owner] = "idle"
        /\ \A c \in Consumers : worker[c] = "exited"
        /\ life' = "gone"
        /\ UNCHANGED <<fifoVars, heap, worker, runs, adding, refused, told>>

-----------------------------------------------------------------------------
Wakeup == /\ spurious < MaxSpurious
          /\ \E t \in Threads : SpuriousWakeup(t)
          /\ spurious' = spurious + 1
          /\ UNCHANGED <<poolVars, blockadd_>>

PoolStep(t) == \/ Step(t) /\ UNCHANGED poolVars
               \/ t \in Producers /\ AddReturns(t)
               \/ t \in Consumers /\ (TakeJob(t) \/ Exit(t) \/ CallMethod(t) \/ DeleteWrapper(t))
               \/ t = Owner /\ (TellWorker \/ Join)

PoolNext == \/ /\ \/ \E t \in Threads : PoolStep(t)
                  \/ \E p \in Producers : AddObjJob(p)
                  \/ Close
               /\ UNCHANGED <<blockadd_, spurious>>
            \/ Wakeup

PoolSpec == PoolInit /\ [][PoolNext]_vars

(* Every thread of the pool is scheduled.                                  *)
FairSpec == PoolSpec /\ \A t \in Threads : WF_vars(PoolStep(t) /\ UNCHANGED <<blockadd_, spurious>>)

-----------------------------------------------------------------------------
(* A wrapper that is on its way (being added, queued, taken, running) is   *)
(* on the heap and in one place only: func never reads or deletes a freed  *)
(* wrapper, and no two workers run the same one.                           *)
Holders(j) == {p \in Producers : adding[p] = j /\ pc[p] # "idle" /\ pc[p] # "unlock"}
              \cup {k \in DOMAIN q_ : q_[k] = j}
              \cup {c \in Consumers : got[c] = j /\ pc[c] \in {"idle", "unlock"}
                                      /\ worker[c] \in {"taking", "calling"}}
WrapperAlive == \A j \in Jobs : /\ Cardinality(Holders(j)) <= 1
                                /\ Holders(j) # {} => j \in heap

(* A job runs at most once, and not at all if addObjJob answered false.    *)
RunsOnce == \A j \in Jobs : runs[j] <= IF j \in refused THEN 0 ELSE 1

(* When the destructor has joined the workers nobody uses the queue any    *)
(* more (fifo.h: "to be deleted only when no threads are using it"), every *)
(* job that was accepted has run, and the only wrappers left on the heap   *)
(* are those of the jobs addObjJob refused, which nobody can delete.       *)
CleanShutdown ==
  life = "gone" => /\ q_ = <<>>
                   /\ \A t \in Threads : pc[t] = "idle"
                   /\ heap = refused
                   /\ \A j \in Jobs \ Fresh : j \notin refused => runs[j] = 1

(* The destructor returns: it can always enqueue its empty jobs, and each  *)
(* worker takes one of them.                                               *)
ShutdownEnds == life = "closing" ~> life = "gone"

(* A job given to addObjJob runs, or is refused: time and again every job  *)
(* with a wrapper has run or was refused.  (What has run or was refused    *)
(* stays so, and there are finitely many jobs: each job leads to one.)     *)
JobsRun == []<>(\A j \in heap : runs[j] = 1 \/ j \in refused)
=============================================================================

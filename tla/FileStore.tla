------------------------------ MODULE FileStore ------------------------------
(***************************************************************************)
(* What the file system promises its clients: a map from ids to files, on  *)
(* which every call takes effect in one step between its invocation and    *)
(* its return.  It is what fs_client's five calls mean when no block is    *)
(* shared, lost or misread.                                                *)
(***************************************************************************)
EXTENDS Integers

CONSTANTS Threads,
          Names,      \* ids clients ask for
          Ids,        \* ids a file can have
          Types,      \* types a file can have
          Files,      \* contents a file can have: pairs <<size, version>>
          MaxSize,    \* a larger file is refused, silently
          Nil         \* no file, no call, no reply yet

VARIABLES store,   \* [Ids -> [type, file] or Nil]
          call,    \* what each thread has called, Nil outside a call
          reply    \* the answer, Nil until the call has taken effect

EmptyFile == <<0, 0>>

Lookup(i) == IF i \in Ids THEN store[i] ELSE Nil

(* The state before any client call: the root directory alone.             *)
Init == /\ store = [i \in Ids |-> IF i = 0 THEN [type |-> 1, file |-> EmptyFile] ELSE Nil]
        /\ call = [t \in Threads |-> Nil]
        /\ reply = [t \in Threads |-> Nil]

Invoke(t) ==
  /\ call[t] = Nil
  /\ \E op \in {"create", "put", "get", "getattr", "remove"}, i \in Names \cup {0},
     type \in Types \cup {0}, f \in Files \cup {EmptyFile} :
       call' = [call EXCEPT ![t] = [op |-> op, inum |-> i, type |-> type, file |-> f]]
  /\ UNCHANGED <<store, reply>>

Answer(t, op, answer) ==
  /\ call[t] # Nil
  /\ call[t].op = op
  /\ reply[t] = Nil
  /\ reply' = [reply EXCEPT ![t] = answer]
  /\ UNCHANGED call

(* create answers an id that no file had.                                  *)
Create(t) ==
  \E i \in Ids : /\ store[i] = Nil
                 /\ Answer(t, "create", i)
                 /\ store' = [store EXCEPT ![i] = [type |-> call[t].type, file |-> EmptyFile]]

(* put and remove always answer OK, which is 0.                            *)
Put(t) ==
  /\ Answer(t, "put", 0)
  /\ LET i == call[t].inum
         f == call[t].file
     IN store' = IF Lookup(i) # Nil /\ f[1] <= MaxSize THEN [store EXCEPT ![i].file = f] ELSE store

Remove(t) ==
  /\ Answer(t, "remove", 0)
  /\ store' = [i \in Ids |-> IF i = call[t].inum THEN Nil ELSE store[i]]

Get(t) ==
  LET s == Lookup(call[t].inum)
  IN Answer(t, "get", IF s = Nil THEN EmptyFile ELSE s.file) /\ UNCHANGED store

(* getattr answers the type and the size, zeros if there is no file.       *)
Getattr(t) ==
  LET s == Lookup(call[t].inum)
  IN Answer(t, "getattr", IF s = Nil THEN <<0, 0>> ELSE <<s.type, s.file[1]>>) /\ UNCHANGED store

Return(t) == /\ reply[t] # Nil
             /\ call' = [call EXCEPT ![t] = Nil]
             /\ reply' = [reply EXCEPT ![t] = Nil]
             /\ UNCHANGED store

Effect(t) == Create(t) \/ Put(t) \/ Remove(t) \/ Get(t) \/ Getattr(t)

Next == \E t \in Threads : Invoke(t) \/ (call[t] # Nil /\ Effect(t)) \/ Return(t)

Spec == Init /\ [][Next]_<<store, call, reply>>
=============================================================================

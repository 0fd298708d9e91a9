----------------------------- MODULE TestersProofs -----------------------------
(***************************************************************************)
(* The test programs, for any number of threads, rounds and files and for  *)
(* any sizes that are to each other as in the code: they are clients of    *)
(* the inode layer; threads are joined before the strings they compare     *)
(* with change; and, as long as the disk does not fill up, a program that  *)
(* comes to its end has its full score and does nothing undefined before   *)
(* but part1's remove of a file whose indirect blocks are all full, which  *)
(* does not come to its end.                                               *)
(***************************************************************************)
EXTENDS Testers, StoreProofs, FiniteSetTheorems, SequenceTheorems

(* The positions of main's scripts, by what it does there.                 *)
Creating == {"create", "large", "prepare", "measure"}
Waiting == {"fixed", "varied", "readers"}
Looping == {"attr_put", "put", "attr_get", "get", "remove", "removed"}
Labels == Creating \cup Waiting \cup Looping \cup
          {"created", "put_large", "get_large", "first_put", "first_get", "varied_put", "measure_put", "end"}

(* main's variables, and which of them are set where.                      *)
Scripts == [at : Labels, i : Nat, id : Inums, kind : Nat, ids : Seq(Inums),
            contents : [0..(FILE_NUM - 1) -> Files \cup {Nil}], strs : Seq(Files), total_score : Nat]
Placed(q) ==
  /\ q.at \in Looping \cup {"create", "created"} => q.i < FILE_NUM
  /\ q.at = "large" => q.i = 0 /\ Len(q.ids) \in {0, 1} /\ Len(q.strs) = Len(q.ids)
  /\ q.at = "put_large" => q.i = 0 /\ Len(q.ids) \in {1, 2} /\ Len(q.strs) = Len(q.ids) - 1
  /\ q.at = "get_large" => q.i \in {0, 1} /\ Len(q.ids) = 2 /\ Len(q.strs) = 2
  /\ q.at \in Looping \cup {"create", "created", "prepare", "first_put", "measure"} =>
       (q.at \notin {"remove", "removed"} => q.ids = <<>> /\ q.strs = <<>>)
  /\ q.at = "first_get" => Len(q.strs) = 1
  /\ q.at \in Waiting \cup {"varied_put", "measure_put"} => Len(q.strs) = 2

Part1 == {"create", "created", "large", "put_large", "get_large"} \cup Looping
Part2 == {"prepare", "first_put", "first_get", "fixed", "varied_put", "varied"}
Part3 == {"measure", "measure_put", "readers"}

Belongs(q, p) == /\ q.at \in Part1 => p = "part1"
                 /\ q.at \in Part2 => p = "part2"
                 /\ q.at \in Part3 => p = "part3"
ScriptOK(q) == q \in Scripts /\ Placed(q) /\ Belongs(q, program)

TestTyped == /\ program \in Programs /\ ScriptOK(s)
             /\ left \in [Workers -> Nat] /\ err \in BOOLEAN /\ DOMAIN reply = Threads

(* The call that main makes at the position of q.                          *)
AskedAt(q, c) ==
  /\ q.at \notin Waiting \cup {"end"}
  /\ q.at \in Creating => c.op = "create" /\ c.type \in Types
  /\ q.at = "created" => c.op = "getattr" /\ c.inum = q.id
  /\ q.at \in {"attr_put", "attr_get", "removed"} => c.op = "getattr" /\ c.inum = q.i + 2
  /\ q.at = "put" => c.op = "put" /\ c.inum = q.i + 2 /\ c.file \in SmallFiles
  /\ q.at = "get" => c.op = "get" /\ c.inum = q.i + 2
  /\ q.at = "remove" => c.op = "remove" /\ c.inum = q.i + 2
  /\ q.at = "put_large" => c.op = "put" /\ c.inum = q.ids[Len(q.ids)] /\ c.file \in Unterminated
  /\ q.at = "get_large" => c.op = "get" /\ c.inum = q.ids[q.i + 1]
  /\ q.at = "first_put" => c.op = "put" /\ c.inum = q.id /\ c.file \in LargeFiles
  /\ q.at = "first_get" => c.op = "get" /\ c.inum = q.id
  /\ q.at \in {"varied_put", "measure_put"} => c.op = "put" /\ c.inum = q.id /\ c.file = q.strs[1]
MainCall == pc[main] # "idle" => AskedAt(s, call[main])
CreateAnswers == pc[main] = "return" /\ s.at \in Creating => reply[main] \in Inums

(* A thread in a call has a round left; only while main waits has one.     *)
Joined == /\ \A w \in Workers : pc[w] # "idle" => left[w] > 0
          /\ s.at \notin Waiting => \A w \in Workers : left[w] = 0

ClientInv == TestTyped /\ MainCall /\ CreateAnswers /\ Joined

(* The ids of the files are those the file system sees.                    *)
LEMMA MaskedId == ASSUME NEW i \in Inums \cup (2..(FILE_NUM + 1)) PROVE Masked(i) = i
<1>1. i \in Nat /\ i <= MASK /\ MASK \in Nat
  BY IdsAssumption, LayoutAssumption, RoomAssumption, TestersAssumption DEF Inums
<1> QED
  BY <1>1 DEF Masked

LEMMA TestInitClient == TestInit => ClientInv
<1> SUFFICES ASSUME TestInit PROVE ClientInv
  OBVIOUS
<1> USE DEF TestInit
<1>1. 0 \in Inums /\ main \in Threads /\ Workers \subseteq Threads
  BY LayoutAssumption, TestersAssumption DEF Inums
<1>2. s.at \in {"create", "prepare", "measure"} /\ s.i = 0 /\ s.ids = <<>> /\ s.strs = <<>>
  BY DEF Programs, Start
<1>3. s \in Scripts
  <2>1. s.at \in Labels
    BY <1>2 DEF Labels, Creating
  <2>2. [k \in 0..(FILE_NUM - 1) |-> Nil] \in [0..(FILE_NUM - 1) -> Files \cup {Nil}]
    OBVIOUS
  <2> QED
    BY <1>1, <2>1, <2>2 DEF Scripts
<1>4. Placed(s)
  BY <1>2, TestersAssumption DEF Placed, Looping, Waiting
<1>5. Belongs(s, program)
  BY DEF Belongs, Part1, Part2, Part3, Programs, Start, Looping
<1>6. \A t \in Threads : pc[t] = "idle"
  BY DEF Init
<1> QED
  BY <1>1, <1>3, <1>4, <1>5, <1>6 DEF ClientInv, TestTyped, ScriptOK, MainCall, CreateAnswers, Joined, Init

(* main makes the call of its position.                                    *)
LEMMA AskClient ==
  ASSUME ClientInv, InodeInv, NEW c, NEW label, label \notin {"idle", "return"},
         Begin(main, c, label), AskedAt(s, c), UNCHANGED <<program, s, left, err>>
  PROVE  ClientInv'
<1>1. main \in Threads /\ main \notin Workers /\ Workers \subseteq Threads
  BY TestersAssumption
<1>2. pc'[main] = label /\ call'[main] = c /\ \A w \in Workers : pc'[w] = pc[w]
  BY <1>1 DEF Begin, Goto, InodeInv, Arrays
<1>3. TestTyped' /\ Joined'
  BY <1>2 DEF ClientInv, TestTyped, ScriptOK, Joined, Begin
<1>4. MainCall' /\ CreateAnswers'
  <2>1. AskedAt(s', call'[main])
    BY <1>2
  <2> QED
    BY <1>2, <2>1 DEF MainCall, CreateAnswers
<1> QED
  BY <1>3, <1>4 DEF ClientInv

(* main has its answer and goes on, or starts threads.                     *)
LEMMA ThenClient ==
  ASSUME ClientInv, InodeInv, Return(main), ScriptOK(s'), UNCHANGED <<program, err>>,
         \/ s'.at \notin Waiting /\ UNCHANGED left
         \/ s'.at \in Waiting /\ left' \in [Workers -> Nat]
  PROVE  ClientInv'
<1>1. main \in Threads /\ main \notin Workers /\ Workers \subseteq Threads
  BY TestersAssumption
<1>2. pc[main] = "return" /\ pc'[main] = "idle" /\ \A w \in Workers : pc'[w] = pc[w]
  BY <1>1 DEF Return, Goto, InodeInv, Arrays
<1>3. s.at \notin Waiting
  BY <1>2 DEF ClientInv, MainCall, AskedAt
<1>4. \A w \in Workers : left[w] = 0 /\ pc[w] = "idle"
  BY <1>3 DEF ClientInv, Joined
<1>5. TestTyped' /\ Joined'
  BY <1>2, <1>4 DEF ClientInv, TestTyped, ScriptOK, Joined, Return
<1> QED
  BY <1>2, <1>5 DEF ClientInv, MainCall, CreateAnswers

(* The answer that main goes on with, its script and its next call.        *)
LEMMA ScriptFacts ==
  ASSUME ClientInv
  PROVE  /\ s \in Scripts /\ Placed(s) /\ Belongs(s, program)
         /\ s.i \in Nat /\ FILE_NUM \in Nat /\ (s.i + 1 < FILE_NUM => s.i + 1 \in Nat)
         /\ s.total_score \in Nat /\ s.id \in Inums
         /\ s.at \in Labels /\ s.kind \in Nat /\ s.ids \in Seq(Inums) /\ s.strs \in Seq(Files)
         /\ s.contents \in [0..(FILE_NUM - 1) -> Files \cup {Nil}]
         /\ 0 \in Inums /\ main \in Threads /\ T_FILE \in Types
  BY TestersAssumption, LayoutAssumption DEF ClientInv, TestTyped, ScriptOK, Scripts, Inums

(* A round of a loop over the files.                                       *)
Advances(q, head, exit, points) ==
  /\ q \in Scripts /\ q.strs = s.strs /\ q.ids = s.ids /\ q.id = s.id /\ q.contents = s.contents
  /\ q.i \in Nat /\ q.i < FILE_NUM
  /\ \/ s.i + 1 < FILE_NUM /\ q.at = head /\ q.i = s.i + 1 /\ q.total_score = s.total_score
     \/ s.i + 1 >= FILE_NUM /\ q.at = exit /\ q.i = 0 /\ q.total_score = s.total_score + points

Earned(q, label, points) ==
  /\ q \in Scripts /\ q.at = label /\ q.i = 0 /\ q.total_score = s.total_score + points
  /\ q.strs = s.strs /\ q.ids = s.ids /\ q.id = s.id /\ q.contents = s.contents

LEMMA EarnTyped ==
  ASSUME ClientInv, NEW label, label \in Labels, NEW points, points \in Nat
  PROVE  Earned(Earn(label, points), label, points)
<1>1. Earn(label, points) = [s EXCEPT !.at = label, !.i = 0, !.total_score = s.total_score + points]
  BY DEF Earn
<1>2. Earn(label, points) =
              [at |-> label, i |-> 0, id |-> s.id, kind |-> s.kind, ids |-> s.ids, contents |-> s.contents,
               strs |-> s.strs, total_score |-> s.total_score + points]
  BY <1>1, ScriptFacts DEF Scripts
<1>3. s.total_score + points \in Nat
  BY ScriptFacts
<1>4. Earn(label, points) \in Scripts
  BY <1>2, <1>3, ScriptFacts DEF Scripts
<1> QED
  BY <1>2, <1>4 DEF Earned

LEMMA NextFileTyped ==
  ASSUME ClientInv, NEW head, head \in Labels, NEW exit, exit \in Labels, NEW points, points \in Nat
  PROVE  Advances(NextFile(head, exit, points), head, exit, points)
<1> DEFINE q == NextFile(head, exit, points)
<1> SUFFICES Advances(q, head, exit, points)
  OBVIOUS
<1> USE DEF Advances
<1>1. CASE s.i + 1 < FILE_NUM
  BY <1>1, ScriptFacts DEF NextFile, Scripts
<1>2. CASE ~(s.i + 1 < FILE_NUM)
  <2>1. s.i + 1 >= FILE_NUM /\ 0 < FILE_NUM
    BY <1>2, ScriptFacts, TestersAssumption
  <2>2. q = Earn(exit, points)
    BY <1>2 DEF NextFile
  <2> QED
    BY <2>1, <2>2, EarnTyped DEF Earned
<1> QED
  BY <1>1, <1>2

LEMMA CreateGetattrClient ==
  ASSUME ClientInv, InodeInv, program = "part1", test_create_and_getattr
  PROVE  ClientInv' /\ (Calls(main) \/ Return(main))
<1> USE ScriptFacts, TestersAssumption DEF Creating, Waiting, Looping
<1>1. ASSUME NEW type \in Types, Ask("create", CallCreate(main, type))
      PROVE  ClientInv' /\ Calls(main)
  <2>1. Calls(main) /\ s.at = "create"
    BY <1>1 DEF Ask, Calls
  <2>2. AskedAt(s, Request("create", 0, type, EmptyFile))
    BY <2>1 DEF AskedAt, Request
  <2> QED
    BY <1>1, <2>1, <2>2, AskClient DEF Ask, CallCreate
<1>2. CASE Then("create", [s EXCEPT !.at = IF answer = 0 THEN "end" ELSE "created",
                              !.id = answer, !.kind = call[main].type])
  <2>1. s.at = "create" /\ Return(main) /\ UNCHANGED <<program, left, err>>
        /\ s' = [s EXCEPT !.at = IF answer = 0 THEN "end" ELSE "created", !.id = answer, !.kind = call[main].type]
    BY <1>2 DEF Then
  <2>2. answer \in Inums /\ call[main].type \in Nat
    BY <2>1, IdsAssumption DEF Return, ClientInv, MainCall, CreateAnswers, AskedAt, answer
  <2>3. s' \in Scripts /\ s'.at \in {"end", "created"} /\ s'.i = s.i /\ s'.ids = s.ids /\ s'.strs = s.strs
    BY <2>1, <2>2 DEF Scripts, Labels
  <2>4. ScriptOK(s')
    BY <2>1, <2>3 DEF ScriptOK, Placed, Belongs, Part2, Part3
  <2> QED
    BY <2>1, <2>3, <2>4, ThenClient
<1>3. CASE Ask("created", CallGetattr(main, s.id))
  <2>1. s.at = "created" /\ Masked(s.id) = s.id /\ s.id \in Ids
    BY <1>3, MaskedId DEF Ask
  <2>2. AskedAt(s, Request("getattr", Masked(s.id), 0, EmptyFile))
    BY <2>1 DEF AskedAt, Request
  <2> QED
    BY <1>3, <2>1, <2>2, AskClient DEF Ask, CallGetattr, Calls
<1>4. CASE Then("created", IF answer[1] # s.kind THEN To("end") ELSE NextFile("create", "attr_put", 10))
  <2>1. s.at = "created" /\ Return(main) /\ UNCHANGED <<program, left, err>>
        /\ (s' = To("end") \/ s' = NextFile("create", "attr_put", 10))
    BY <1>4 DEF Then
  <2>2. CASE s' = To("end")
    <3>1. s' \in Scripts /\ s'.at = "end"
      BY <2>2 DEF To, Scripts, Labels
    <3>2. ScriptOK(s')
      BY <3>1 DEF ScriptOK, Placed, Belongs, Part1, Part2, Part3
    <3> QED
      BY <2>1, <3>1, <3>2, ThenClient
  <2>3. CASE s' = NextFile("create", "attr_put", 10)
    <3>1. s' \in Scripts /\ s'.ids = <<>> /\ s'.strs = <<>> /\ s'.i < FILE_NUM /\ s'.at \in {"create", "attr_put"}
      <4>1. "create" \in Labels /\ "attr_put" \in Labels /\ 10 \in Nat /\ s.ids = <<>> /\ s.strs = <<>>
        BY <2>1 DEF Labels, Placed
      <4>2. Advances(s', "create", "attr_put", 10)
        BY <2>3, <4>1, NextFileTyped
      <4> QED
        BY <4>1, <4>2 DEF Advances
    <3>2. ScriptOK(s')
      BY <3>1 DEF ScriptOK, Placed, Belongs, Part2, Part3
    <3> QED
      BY <2>1, <3>1, <3>2, ThenClient
  <2> QED
    BY <2>1, <2>2, <2>3
<1> QED
  BY <1>1, <1>2, <1>3, <1>4 DEF test_create_and_getattr

(* main goes to another position of its script.                            *)
LEMMA ToTyped ==
  ASSUME ClientInv, NEW label, label \in Labels
  PROVE  LET q == To(label)
         IN /\ q \in Scripts /\ q.at = label /\ q.i = s.i /\ q.id = s.id /\ q.ids = s.ids /\ q.strs = s.strs
            /\ q.contents = s.contents /\ q.total_score = s.total_score
  BY ScriptFacts DEF To, Scripts

(* main's script is over.                                                  *)
LEMMA EndClient ==
  ASSUME ClientInv, InodeInv, Return(main), s' = To("end"), UNCHANGED <<program, left, err>>
  PROVE  ClientInv'
<1>1. "end" \in Labels
  BY DEF Labels
<1>2. s' \in Scripts /\ s'.at = "end"
  BY <1>1, ToTyped
<1>3. ScriptOK(s') /\ s'.at \notin Waiting
  BY <1>2 DEF ScriptOK, Placed, Belongs, Part1, Part2, Part3, Looping, Waiting
<1> QED
  BY <1>3, ThenClient

LEMMA PutGetClient ==
  ASSUME ClientInv, InodeInv, program = "part1", test_put_and_get
  PROVE  ClientInv' /\ (Calls(main) \/ Return(main))
<1> USE ScriptFacts DEF Creating, Waiting, Looping
<1>1. ASSUME s.i < FILE_NUM
      PROVE  file_id = s.i + 2 /\ Masked(file_id) = s.i + 2 /\ file_id \in Ids
  <2>1. s.i + 2 \in 2..(FILE_NUM + 1)
    BY <1>1
  <2> QED
    BY <2>1, MaskedId, TestersAssumption DEF file_id
<1>2. CASE Ask("attr_put", CallGetattr(main, file_id)) \/ Ask("attr_get", CallGetattr(main, file_id))
  <2>1. s.at \in {"attr_put", "attr_get"} /\ s.i < FILE_NUM
    BY <1>2 DEF Ask, Placed
  <2>2. AskedAt(s, Request("getattr", Masked(file_id), 0, EmptyFile))
    BY <1>1, <2>1 DEF AskedAt, Request
  <2> QED
    BY <1>1, <1>2, <2>1, <2>2, AskClient DEF Ask, CallGetattr, Calls
<1>3. ASSUME NEW f \in SmallFiles, Ask("put", CallPut(main, file_id, f))
      PROVE  ClientInv' /\ Calls(main)
  <2>1. s.at = "put" /\ s.i < FILE_NUM /\ f \in Files
    BY <1>3, TestersAssumption DEF Ask, Placed
  <2>2. AskedAt(s, Request("put", Masked(file_id), 0, f))
    BY <1>1, <2>1 DEF AskedAt, Request
  <2> QED
    BY <1>1, <1>3, <2>1, <2>2, AskClient DEF Ask, CallPut, Calls
<1>4. CASE Ask("get", CallGet(main, file_id))
  <2>1. s.at = "get" /\ s.i < FILE_NUM
    BY <1>4 DEF Ask, Placed
  <2>2. AskedAt(s, Request("get", Masked(file_id), 0, EmptyFile))
    BY <1>1, <2>1 DEF AskedAt, Request
  <2> QED
    BY <1>1, <1>4, <2>1, <2>2, AskClient DEF Ask, CallGet, Calls
<1>5. ASSUME NEW label \in {"put", "get"}, s.at \in {"attr_put", "attr_get"}, Return(main),
             UNCHANGED <<program, left, err>>, s' = To(label)
      PROVE  ClientInv'
  <2>1. label \in Labels
    BY <1>5 DEF Labels
  <2>2. s' \in Scripts /\ s'.at = label /\ s'.i = s.i /\ s'.ids = <<>> /\ s'.strs = <<>> /\ s.i < FILE_NUM
    BY <1>5, <2>1, ToTyped DEF Placed
  <2>3. ScriptOK(s') /\ s'.at \notin Waiting
    BY <2>2 DEF ScriptOK, Placed, Belongs, Part2, Part3
  <2> QED
    BY <1>5, <2>3, ThenClient
<1>6. ASSUME NEW head, NEW exit, NEW points,
             <<head, exit, points>> \in {<<"attr_put", "attr_get", 0>>, <<"attr_get", "large", 10>>},
             s.at \in {"attr_put", "put", "attr_get", "get"}
      PROVE  /\ Advances(NextFile(head, exit, points), head, exit, points)
             /\ \A q : Advances(q, head, exit, points) => ScriptOK(q) /\ q.at \notin Waiting
  <2>1. head \in {"attr_put", "attr_get"} /\ exit \in {"attr_get", "large"} /\ points \in Nat
    BY <1>6
  <2>2. head \in Labels /\ exit \in Labels /\ s.ids = <<>> /\ s.strs = <<>>
    BY <1>6, <2>1 DEF Labels, Placed
  <2>3. ASSUME NEW q, Advances(q, head, exit, points) PROVE ScriptOK(q) /\ q.at \notin Waiting
    <3>1. /\ q \in Scripts /\ q.ids = <<>> /\ q.strs = <<>> /\ q.i < FILE_NUM
          /\ q.at \in {"attr_put", "attr_get", "large"} /\ (q.at = "large" => q.i = 0)
      BY <1>6, <2>1, <2>2, <2>3 DEF Advances
    <3> QED
      BY <3>1 DEF ScriptOK, Placed, Belongs, Part2, Part3
  <2> QED
    BY <2>1, <2>2, <2>3, NextFileTyped
<1>7. CASE Then("attr_put", IF answer[1] = T_FILE THEN To("put") ELSE NextFile("attr_put", "attr_get", 0))
  <2>1. s.at = "attr_put" /\ Return(main) /\ UNCHANGED <<program, left, err>>
        /\ (s' = To("put") \/ s' = NextFile("attr_put", "attr_get", 0))
    BY <1>7 DEF Then
  <2> QED
    BY <1>5, <1>6, <2>1, ThenClient
<1>8. CASE Then("put", [NextFile("attr_put", "attr_get", 0) EXCEPT !.contents[s.i] = call[main].file])
  <2> DEFINE n == NextFile("attr_put", "attr_get", 0)
  <2>1. s.at = "put" /\ Return(main) /\ UNCHANGED <<program, left, err>>
        /\ s' = [n EXCEPT !.contents[s.i] = call[main].file]
    BY <1>8 DEF Then
  <2>2. Advances(n, "attr_put", "attr_get", 0) /\ ScriptOK(n) /\ n.at \notin Waiting
    BY <1>6, <2>1
  <2>3. call[main].file \in Files
    BY <2>1, TestersAssumption DEF Return, ClientInv, MainCall, AskedAt
  <2> HIDE DEF n
  <2>4. n \in Scripts /\ n.contents \in [0..(FILE_NUM - 1) -> Files \cup {Nil}]
    BY <2>2 DEF Advances, Scripts
  <2>5. [n.contents EXCEPT ![s.i] = call[main].file] \in [0..(FILE_NUM - 1) -> Files \cup {Nil}]
    BY <2>3, <2>4
  <2>6. s' = [n EXCEPT !.contents = [n.contents EXCEPT ![s.i] = call[main].file]]
    BY <2>1
  <2>7. s' \in Scripts /\ s'.at = n.at /\ s'.i = n.i /\ s'.ids = n.ids /\ s'.strs = n.strs
    BY <2>4, <2>5, <2>6 DEF Scripts
  <2>8. ScriptOK(s') /\ s'.at \notin Waiting
    BY <2>2, <2>7 DEF ScriptOK, Placed, Belongs
  <2> QED
    BY <2>1, <2>8, ThenClient
<1>9. CASE Then("attr_get", IF Compared(answer[1]) THEN To("get") ELSE NextFile("attr_get", "large", 10))
  <2>1. s.at = "attr_get" /\ Return(main) /\ UNCHANGED <<program, left, err>>
        /\ (s' = To("get") \/ s' = NextFile("attr_get", "large", 10))
    BY <1>9 DEF Then
  <2> QED
    BY <1>5, <1>6, <2>1, ThenClient
<1>10. CASE Then("get", IF answer = s.contents[s.i] THEN NextFile("attr_get", "large", 10) ELSE To("end"))
  <2>1. s.at = "get" /\ Return(main) /\ UNCHANGED <<program, left, err>>
        /\ (s' = To("end") \/ s' = NextFile("attr_get", "large", 10))
    BY <1>10 DEF Then
  <2> QED
    BY <1>6, <2>1, ThenClient, EndClient
<1> QED
  BY <1>2, <1>3, <1>4, <1>7, <1>8, <1>9, <1>10 DEF test_put_and_get

LEMMA IndirectClient ==
  ASSUME ClientInv, InodeInv, program = "part1", test_indirect
  PROVE  ClientInv' /\ (Calls(main) \/ Return(main))
<1> USE ScriptFacts DEF Creating, Waiting, Looping
<1>1. CASE Ask("large", CallCreate(main, T_FILE))
  <2>1. Calls(main) /\ s.at = "large"
    BY <1>1 DEF Ask, Calls
  <2>2. AskedAt(s, Request("create", 0, T_FILE, EmptyFile))
    BY <2>1 DEF AskedAt, Request
  <2> QED
    BY <1>1, <2>1, <2>2, AskClient DEF Ask, CallCreate
<1>2. CASE Then("large", [s EXCEPT !.at = "put_large", !.ids = Append(@, answer)])
  <2>1. s.at = "large" /\ Return(main) /\ UNCHANGED <<program, left, err>>
        /\ s' = [s EXCEPT !.at = "put_large", !.ids = Append(s.ids, answer)]
    BY <1>2 DEF Then
  <2>2. answer \in Inums
    BY <2>1 DEF Return, ClientInv, CreateAnswers, answer
  <2>3. Append(s.ids, answer) \in Seq(Inums) /\ Len(Append(s.ids, answer)) = Len(s.ids) + 1
    BY <2>2
  <2>4. s' \in Scripts /\ s'.at = "put_large" /\ s'.i = s.i /\ s'.strs = s.strs /\ Len(s'.ids) = Len(s.ids) + 1
    BY <2>1, <2>3 DEF Scripts, Labels
  <2>5. s.i = 0 /\ Len(s.ids) \in {0, 1} /\ Len(s.strs) = Len(s.ids)
    BY <2>1 DEF Placed
  <2>6. Len(s'.ids) \in {1, 2} /\ Len(s'.strs) = Len(s'.ids) - 1 /\ s'.i = 0
    <3>1. \A n \in {0, 1} : n + 1 \in {1, 2} /\ n = (n + 1) - 1
      OBVIOUS
    <3> QED
      BY <2>4, <2>5, <3>1
  <2>7. ScriptOK(s')
    BY <2>4, <2>6 DEF ScriptOK, Placed, Belongs, Part2, Part3
  <2> QED
    BY <2>1, <2>4, <2>7, ThenClient
<1>3. ASSUME NEW f \in Unterminated, Ask("put_large", CallPut(main, s.ids[Len(s.ids)], f))
      PROVE  ClientInv' /\ Calls(main)
  <2>1. s.at = "put_large" /\ Len(s.ids) \in {1, 2} /\ f \in Files
    BY <1>3, TestersAssumption DEF Ask, Placed
  <2>2. s.ids[Len(s.ids)] \in Inums
    <3>1. \A k \in 1..Len(s.ids) : s.ids[k] \in Inums
      OBVIOUS
    <3>2. \A n \in {1, 2} : n \in 1..n
      OBVIOUS
    <3> QED
      BY <2>1, <3>1, <3>2
  <2>3. Masked(s.ids[Len(s.ids)]) = s.ids[Len(s.ids)] /\ s.ids[Len(s.ids)] \in Ids
    BY <2>2, MaskedId, TestersAssumption
  <2>4. AskedAt(s, Request("put", Masked(s.ids[Len(s.ids)]), 0, f))
    BY <2>1, <2>3 DEF AskedAt, Request
  <2> QED
    BY <1>3, <2>1, <2>3, <2>4, AskClient DEF Ask, CallPut, Calls
<1>4. CASE Then("put_large", [s EXCEPT !.at = IF Len(s.ids) = 1 THEN "large" ELSE "get_large",
                                       !.strs = Append(@, call[main].file)])
  <2> DEFINE file == call[main].file
             label == IF Len(s.ids) = 1 THEN "large" ELSE "get_large"
  <2>1. s.at = "put_large" /\ Return(main) /\ UNCHANGED <<program, left, err>>
        /\ s' = [s EXCEPT !.at = label, !.strs = Append(s.strs, file)]
    BY <1>4 DEF Then
  <2>2. file \in Files
    BY <2>1, TestersAssumption DEF Return, ClientInv, MainCall, AskedAt
  <2>3. s.i = 0 /\ Len(s.ids) \in {1, 2} /\ Len(s.strs) = Len(s.ids) - 1 /\ label \in {"large", "get_large"}
    BY <2>1 DEF Placed
  <2>4. Append(s.strs, file) \in Seq(Files) /\ Len(Append(s.strs, file)) = Len(s.ids)
    BY <2>2, <2>3
  <2>5. label = "large" => Len(s.ids) = 1
    OBVIOUS
  <2>6. label = "get_large" => Len(s.ids) = 2
    BY <2>3
  <2> HIDE DEF file, label
  <2>7. s' \in Scripts /\ s'.at = label /\ s'.i = s.i /\ s'.ids = s.ids /\ Len(s'.strs) = Len(s.ids)
    BY <2>1, <2>3, <2>4 DEF Scripts, Labels
  <2>8. ScriptOK(s') /\ s'.at \notin Waiting
    BY <2>3, <2>5, <2>6, <2>7 DEF ScriptOK, Placed, Belongs, Part2, Part3
  <2> QED
    BY <2>1, <2>8, ThenClient
<1>5. CASE Ask("get_large", CallGet(main, s.ids[s.i + 1]))
  <2>1. s.at = "get_large" /\ Len(s.ids) = 2 /\ s.i \in {0, 1}
    BY <1>5 DEF Ask, Placed
  <2>2. s.ids[s.i + 1] \in Inums
    BY <2>1
  <2>3. Masked(s.ids[s.i + 1]) = s.ids[s.i + 1] /\ s.ids[s.i + 1] \in Ids
    BY <2>2, MaskedId, TestersAssumption
  <2>4. AskedAt(s, Request("get", Masked(s.ids[s.i + 1]), 0, EmptyFile))
    BY <2>1, <2>3 DEF AskedAt, Request
  <2> QED
    BY <1>5, <2>1, <2>3, <2>4, AskClient DEF Ask, CallGet, Calls
<1>6. CASE Then("get_large", CASE answer # s.strs[s.i + 1]              -> Earn("remove", 0)
                               [] answer = s.strs[s.i + 1] /\ s.i = 0   -> [s EXCEPT !.i = 1]
                               [] answer = s.strs[s.i + 1] /\ s.i = 1   -> Earn("remove", 10))
  <2>1. s.at = "get_large" /\ Return(main) /\ UNCHANGED <<program, left, err>> /\ s.i \in {0, 1}
    BY <1>6 DEF Then, Placed
  <2>2. s' = [s EXCEPT !.i = 1] \/ s' = Earn("remove", 0) \/ s' = Earn("remove", 10)
    BY <1>6, <2>1 DEF Then
  <2>3. CASE s' = [s EXCEPT !.i = 1]
    <3>1. s' \in Scripts /\ s'.at = "get_large" /\ s'.i = 1 /\ s'.strs = s.strs /\ s'.ids = s.ids
      BY <2>1, <2>3 DEF Scripts
    <3>2. ScriptOK(s')
      BY <2>1, <3>1 DEF ScriptOK, Placed, Belongs
    <3> QED
      BY <2>1, <3>1, <3>2, ThenClient
  <2>4. ASSUME NEW points \in Nat, s' = Earn("remove", points) PROVE ClientInv'
    <3>1. "remove" \in Labels
      BY DEF Labels
    <3>2. Earned(s', "remove", points)
      BY <2>4, <3>1, EarnTyped
    <3>3. s' \in Scripts /\ s'.at = "remove" /\ s'.i = 0
      BY <3>2 DEF Earned
    <3>4. ScriptOK(s')
      BY <3>3, TestersAssumption DEF ScriptOK, Placed, Belongs, Part2, Part3
    <3> QED
      BY <2>1, <3>3, <3>4, ThenClient
  <2> QED
    BY <2>1, <2>2, <2>3, <2>4
<1> QED
  BY <1>1, <1>2, <1>3, <1>4, <1>5, <1>6 DEF test_indirect

LEMMA RemoveClient ==
  ASSUME ClientInv, InodeInv, program = "part1", test_remove
  PROVE  ClientInv' /\ (Calls(main) \/ Return(main))
<1> USE ScriptFacts DEF Creating, Waiting, Looping
<1>1. s.at \in {"remove", "removed"}
  BY DEF test_remove, Ask, Then
<1>2. file_id = s.i + 2 /\ Masked(file_id) = s.i + 2 /\ file_id \in Ids
  <2>1. s.i + 2 \in 2..(FILE_NUM + 1)
    BY <1>1 DEF Placed
  <2> QED
    BY <2>1, MaskedId, TestersAssumption DEF file_id
<1>3. CASE Ask("remove", CallRemove(main, file_id))
  <2>1. AskedAt(s, Request("remove", Masked(file_id), 0, EmptyFile))
    BY <1>2, <1>3 DEF AskedAt, Request, Ask
  <2>2. CallRemove(main, file_id) /\ UNCHANGED <<program, s, left, err>>
    BY <1>3 DEF Ask
  <2>3. Begin(main, Request("remove", Masked(file_id), 0, EmptyFile), "d_get")
    BY <2>2 DEF CallRemove
  <2>4. ClientInv'
    BY <2>1, <2>2, <2>3, AskClient
  <2> QED
    BY <1>2, <2>2, <2>4 DEF Calls
<1>4. CASE Ask("removed", CallGetattr(main, file_id))
  <2>1. AskedAt(s, Request("getattr", Masked(file_id), 0, EmptyFile))
    BY <1>2, <1>4 DEF AskedAt, Request, Ask
  <2> QED
    BY <1>2, <1>4, <2>1, AskClient DEF Ask, CallGetattr, Calls
<1>5. "removed" \in Labels /\ "remove" \in Labels /\ "end" \in Labels
  BY DEF Labels
<1>6. ASSUME Return(main), UNCHANGED <<program, left, err>>,
             s' \in Scripts, s'.at \in {"remove", "removed", "end"}, s'.i < FILE_NUM
      PROVE  ClientInv'
  <2>1. ScriptOK(s')
    BY <1>6 DEF ScriptOK, Placed, Belongs, Part2, Part3
  <2> QED
    BY <1>6, <2>1, ThenClient
<1>7. CASE Then("remove", To("removed"))
  BY <1>1, <1>5, <1>6, <1>7, ToTyped DEF Then, Placed
<1>8. CASE Then("removed", IF answer[1] # 0 THEN To("end") ELSE NextFile("remove", "end", 10))
  <2>1. Return(main) /\ UNCHANGED <<program, left, err>>
        /\ (s' = To("end") \/ s' = NextFile("remove", "end", 10))
    BY <1>8 DEF Then
  <2>2. Advances(NextFile("remove", "end", 10), "remove", "end", 10)
    BY <1>5, NextFileTyped
  <2> QED
    BY <1>6, <2>1, <2>2, EndClient DEF Advances
<1> QED
  BY <1>3, <1>4, <1>7, <1>8 DEF test_remove

(* The second of two strings.                                              *)
LEMMA SecondAppended ==
  ASSUME NEW S, NEW q \in Seq(S), Len(q) = 1, NEW e \in S
  PROVE  Append(q, e) \in Seq(S) /\ Len(Append(q, e)) = 2 /\ Append(q, e)[1] = q[1] /\ Append(q, e)[2] = e
<1>1. 1 \in 1..Len(q) /\ Len(q) + 1 = 2
  OBVIOUS
<1>2. Append(q, e) \in Seq(S) /\ Len(Append(q, e)) = Len(q) + 1
  BY AppendProperties
<1>3. Append(q, e)[1] = q[1]
  BY <1>1, AppendProperties
<1>4. Append(q, e)[Len(q) + 1] = e
  BY AppendProperties
<1> QED
  BY <1>1, <1>2, <1>3, <1>4

LEMMA SecondReplaced ==
  ASSUME NEW S, NEW q \in Seq(S), Len(q) = 2, NEW e \in S
  PROVE  LET n == [q EXCEPT ![2] = e] IN n \in Seq(S) /\ Len(n) = 2 /\ n[1] = q[1] /\ n[2] = e
<1>1. 2 \in 1..Len(q) /\ 1 \in 1..Len(q)
  OBVIOUS
<1> QED
  BY <1>1, ExceptSeq

(* main asks for the file it made.                                         *)
LEMMA OwnFile ==
  ASSUME ClientInv PROVE Masked(s.id) = s.id /\ s.id \in Ids
  BY ScriptFacts, MaskedId, TestersAssumption

(* main waits for its threads.                                             *)
LEMMA JoinClient ==
  ASSUME ClientInv, InodeInv, NEW next, s.at \in Waiting, Finished, s' = next, ScriptOK(next),
         UNCHANGED <<vars, program, left, err>>
  PROVE  ClientInv'
<1>1. main \in Threads /\ pc[main] = "idle" /\ pc' = pc
  BY TestersAssumption DEF ClientInv, MainCall, AskedAt, vars
<1>2. \A w \in Workers : left[w] = 0 /\ pc[w] = "idle"
  BY DEF Finished, ClientInv, Joined, TestTyped
<1>3. TestTyped' /\ Joined'
  BY <1>1, <1>2 DEF ClientInv, TestTyped, ScriptOK, Joined, vars
<1> QED
  BY <1>1, <1>3 DEF ClientInv, MainCall, CreateAnswers

LEMMA ConcurrentClient ==
  ASSUME ClientInv, InodeInv, program = "part2", test_concurrent
  PROVE  ClientInv' /\ (Calls(main) \/ Return(main) \/ UNCHANGED vars)
<1> USE ScriptFacts DEF Creating, Waiting, Looping
<1>1. CASE Ask("prepare", CallCreate(main, T_FILE))
  <2>1. Calls(main) /\ s.at = "prepare"
    BY <1>1 DEF Ask, Calls
  <2>2. AskedAt(s, Request("create", 0, T_FILE, EmptyFile))
    BY <2>1 DEF AskedAt, Request
  <2> QED
    BY <1>1, <2>1, <2>2, AskClient DEF Ask, CallCreate
<1>2. CASE Then("prepare", [s EXCEPT !.at = "first_put", !.id = answer])
  <2>1. s.at = "prepare" /\ Return(main) /\ UNCHANGED <<program, left, err>>
        /\ s' = [s EXCEPT !.at = "first_put", !.id = answer]
    BY <1>2 DEF Then
  <2>2. answer \in Inums
    BY <2>1 DEF Return, ClientInv, CreateAnswers, answer
  <2>3. s' \in Scripts /\ s'.at = "first_put" /\ s'.ids = s.ids /\ s'.strs = s.strs
    BY <2>1, <2>2 DEF Scripts, Labels
  <2>4. ScriptOK(s')
    BY <2>1, <2>3 DEF ScriptOK, Placed, Belongs, Part1, Part3
  <2> QED
    BY <2>1, <2>3, <2>4, ThenClient
<1>3. ASSUME NEW f \in LargeFiles, Ask("first_put", CallPut(main, s.id, f))
      PROVE  ClientInv' /\ Calls(main)
  <2>1. s.at = "first_put" /\ f \in Files
    BY <1>3, TestersAssumption DEF Ask
  <2>2. AskedAt(s, Request("put", Masked(s.id), 0, f))
    BY <2>1, OwnFile DEF AskedAt, Request
  <2> QED
    BY <1>3, <2>1, <2>2, OwnFile, AskClient DEF Ask, CallPut, Calls
<1>4. CASE Then("first_put", [s EXCEPT !.at = "first_get", !.strs = <<call[main].file>>])
  <2>1. s.at = "first_put" /\ Return(main) /\ UNCHANGED <<program, left, err>>
        /\ s' = [s EXCEPT !.at = "first_get", !.strs = <<call[main].file>>]
    BY <1>4 DEF Then
  <2>2. call[main].file \in Files
    BY <2>1, TestersAssumption DEF Return, ClientInv, MainCall, AskedAt
  <2>3. <<call[main].file>> \in Seq(Files) /\ Len(<<call[main].file>>) = 1
    BY <2>2
  <2>4. s' \in Scripts /\ s'.at = "first_get" /\ Len(s'.strs) = 1
    BY <2>1, <2>3 DEF Scripts, Labels
  <2>5. ScriptOK(s')
    BY <2>1, <2>4 DEF ScriptOK, Placed, Belongs, Part1, Part3
  <2> QED
    BY <2>1, <2>4, <2>5, ThenClient
<1>5. CASE Ask("first_get", CallGet(main, s.id))
  <2>1. AskedAt(s, Request("get", Masked(s.id), 0, EmptyFile))
    BY <1>5, OwnFile DEF AskedAt, Request, Ask
  <2> QED
    BY <1>5, <2>1, OwnFile, AskClient DEF Ask, CallGet, Calls
<1>6. CASE Then("first_get", To("end"))
  BY <1>6, EndClient DEF Then
<1>7. ASSUME NEW f \in LargeFiles \ {s.strs[1]},
             Create("first_get", [s EXCEPT !.at = "fixed", !.strs = Append(@, f)], Workers, N_READ_WRITE_TEST)
      PROVE  ClientInv' /\ Return(main)
  <2>1. s.at = "first_get" /\ Return(main) /\ UNCHANGED <<program, err>>
        /\ s' = [s EXCEPT !.at = "fixed", !.strs = Append(s.strs, f)] /\ left' \in [Workers -> Nat]
    BY <1>7, TestersAssumption DEF Create
  <2>2. Append(s.strs, f) \in Seq(Files) /\ Len(Append(s.strs, f)) = 2
    <3>1. Len(s.strs) = 1 /\ f \in Files
      BY <2>1, TestersAssumption DEF Placed
    <3> QED
      BY <3>1, SecondAppended
  <2>3. s' \in Scripts /\ s'.at = "fixed" /\ Len(s'.strs) = 2
    BY <2>1, <2>2 DEF Scripts, Labels
  <2>4. ScriptOK(s')
    BY <2>1, <2>3 DEF ScriptOK, Placed, Belongs, Part1, Part3
  <2> QED
    BY <2>1, <2>3, <2>4, ThenClient
<1>8. ASSUME NEW f \in DoubleFiles, Join("fixed", [Earn("varied_put", 5) EXCEPT !.strs[2] = f])
      PROVE  ClientInv' /\ UNCHANGED vars
  <2> DEFINE n == [Earn("varied_put", 5) EXCEPT !.strs[2] = f]
             q == [s.strs EXCEPT ![2] = f]
  <2>1. s.at = "fixed" /\ Finished /\ UNCHANGED <<vars, program, left, err>> /\ (s' = To("end") \/ s' = n)
    BY <1>8 DEF Join
  <2>2. q \in Seq(Files) /\ Len(q) = 2
    <3>1. s.strs \in Seq(Files) /\ Len(s.strs) = 2 /\ f \in Files
      BY <2>1, TestersAssumption DEF Placed
    <3> QED
      BY <3>1, SecondReplaced
  <2>3. Earn("varied_put", 5) \in Scripts /\ Earn("varied_put", 5).at = "varied_put"
        /\ Earn("varied_put", 5).strs = s.strs
    <3>1. "varied_put" \in Labels
      BY DEF Labels
    <3>2. Earned(Earn("varied_put", 5), "varied_put", 5)
      BY <3>1, EarnTyped
    <3> QED
      BY <3>2 DEF Earned
  <2>9. n = [Earn("varied_put", 5) EXCEPT !.strs = q]
    BY <2>3
  <2> HIDE DEF q
  <2>4. n \in Scripts /\ n.at = "varied_put" /\ Len(n.strs) = 2
    BY <2>2, <2>3, <2>9 DEF Scripts
  <2> HIDE DEF n
  <2>5. ScriptOK(n)
    BY <2>4 DEF ScriptOK, Placed, Belongs, Part1, Part3
  <2>6. "end" \in Labels
    BY DEF Labels
  <2>7. To("end") \in Scripts /\ To("end").at = "end"
    BY <2>6, ToTyped
  <2>8. ScriptOK(To("end"))
    BY <2>7 DEF ScriptOK, Placed, Belongs, Part1, Part2, Part3
  <2> QED
    BY <2>1, <2>5, <2>8, JoinClient
<1>9. ASSUME s.at \in {"varied_put", "measure_put"}, CallPut(main, s.id, s.strs[1]), UNCHANGED <<program, s, left, err>>
      PROVE  ClientInv' /\ Calls(main)
  <2>1. s.strs[1] \in Files
    <3>1. Len(s.strs) = 2
      BY <1>9 DEF Placed
    <3> QED
      BY <3>1
  <2>2. AskedAt(s, Request("put", Masked(s.id), 0, s.strs[1]))
    BY <1>9, OwnFile DEF AskedAt, Request
  <2> QED
    BY <1>9, <2>1, <2>2, OwnFile, AskClient DEF CallPut, Calls
<1>10. CASE Ask("varied_put", CallPut(main, s.id, s.strs[1]))
  BY <1>9, <1>10 DEF Ask
<1>11. CASE Create("varied_put", To("varied"), Workers, N_READ_WRITE_TEST)
  <2>1. s.at = "varied_put" /\ Return(main) /\ UNCHANGED <<program, err>> /\ s' = To("varied")
        /\ left' \in [Workers -> Nat]
    BY <1>11, TestersAssumption DEF Create
  <2>2. "varied" \in Labels
    BY DEF Labels
  <2>3. s' \in Scripts /\ s'.at = "varied" /\ s'.strs = s.strs
    BY <2>1, <2>2, ToTyped
  <2>4. ScriptOK(s')
    BY <2>1, <2>3 DEF ScriptOK, Placed, Belongs, Part1, Part3
  <2> QED
    BY <2>1, <2>3, <2>4, ThenClient
<1>12. CASE Join("varied", Earn("end", 5))
  <2> DEFINE n == Earn("end", 5)
  <2>1. s.at = "varied" /\ Finished /\ UNCHANGED <<vars, program, left, err>> /\ (s' = To("end") \/ s' = n)
    BY <1>12 DEF Join
  <2>4. "end" \in Labels
    BY DEF Labels
  <2>3. n \in Scripts /\ n.at = "end"
    BY <2>4, EarnTyped DEF Earned
  <2> HIDE DEF n
  <2>5. To("end") \in Scripts /\ To("end").at = "end"
    BY <2>4, ToTyped
  <2>6. ScriptOK(To("end")) /\ ScriptOK(n)
    BY <2>3, <2>5 DEF ScriptOK, Placed, Belongs, Part1, Part2, Part3
  <2> QED
    BY <2>1, <2>6, JoinClient
<1> QED
  BY <1>1, <1>2, <1>3, <1>4, <1>5, <1>6, <1>7, <1>8, <1>10, <1>11, <1>12 DEF test_concurrent

LEMMA LatencyClient ==
  ASSUME ClientInv, InodeInv, program = "part3", test_latency
  PROVE  ClientInv' /\ (Calls(main) \/ Return(main) \/ UNCHANGED vars)
<1> USE ScriptFacts DEF Creating, Waiting, Looping
<1>1. CASE Ask("measure", CallCreate(main, T_FILE))
  <2>1. Calls(main) /\ s.at = "measure"
    BY <1>1 DEF Ask, Calls
  <2>2. AskedAt(s, Request("create", 0, T_FILE, EmptyFile))
    BY <2>1 DEF AskedAt, Request
  <2> QED
    BY <1>1, <2>1, <2>2, AskClient DEF Ask, CallCreate
<1>2. ASSUME NEW f \in LargeFiles, NEW g \in DoubleFiles,
             Then("measure", [s EXCEPT !.at = "measure_put", !.id = answer, !.strs = <<f, g>>])
      PROVE  ClientInv' /\ Return(main)
  <2>1. s.at = "measure" /\ Return(main) /\ UNCHANGED <<program, left, err>>
        /\ s' = [s EXCEPT !.at = "measure_put", !.id = answer, !.strs = <<f, g>>]
    BY <1>2 DEF Then
  <2>2. answer \in Inums /\ f \in Files /\ g \in Files
    BY <2>1, TestersAssumption DEF Return, ClientInv, CreateAnswers, answer
  <2>3. <<f, g>> \in Seq(Files) /\ Len(<<f, g>>) = 2
    BY <2>2
  <2>4. s' \in Scripts /\ s'.at = "measure_put" /\ Len(s'.strs) = 2
    BY <2>1, <2>2, <2>3 DEF Scripts, Labels
  <2>5. ScriptOK(s')
    BY <2>1, <2>4 DEF ScriptOK, Placed, Belongs, Part1, Part2
  <2> QED
    BY <2>1, <2>4, <2>5, ThenClient
<1>3. CASE Ask("measure_put", CallPut(main, s.id, s.strs[1]))
  <2>1. s.strs[1] \in Files
    <3>1. Len(s.strs) = 2
      BY <1>3 DEF Placed, Ask
    <3> QED
      BY <3>1
  <2>2. AskedAt(s, Request("put", Masked(s.id), 0, s.strs[1]))
    BY <1>3, OwnFile DEF AskedAt, Request, Ask
  <2> QED
    BY <1>3, <2>1, <2>2, OwnFile, AskClient DEF Ask, CallPut, Calls
<1>4. CASE Create("measure_put", To("readers"), Readers, 1)
  <2>1. s.at = "measure_put" /\ Return(main) /\ UNCHANGED <<program, err>> /\ s' = To("readers")
        /\ left' \in [Workers -> Nat]
    BY <1>4 DEF Create
  <2>2. "readers" \in Labels
    BY DEF Labels
  <2>3. s' \in Scripts /\ s'.at = "readers" /\ s'.strs = s.strs
    BY <2>1, <2>2, ToTyped
  <2>4. ScriptOK(s')
    BY <2>1, <2>3 DEF ScriptOK, Placed, Belongs, Part1, Part2
  <2> QED
    BY <2>1, <2>3, <2>4, ThenClient
<1>5. CASE Join("readers", To("end"))
  <2>1. s.at = "readers" /\ Finished /\ UNCHANGED <<vars, program, left, err>> /\ s' = To("end")
    BY <1>5 DEF Join
  <2>2. "end" \in Labels
    BY DEF Labels
  <2>3. To("end") \in Scripts /\ To("end").at = "end"
    BY <2>2, ToTyped
  <2>4. ScriptOK(To("end"))
    BY <2>3 DEF ScriptOK, Placed, Belongs, Part1, Part2, Part3
  <2> QED
    BY <2>1, <2>4, JoinClient
<1> QED
  BY <1>1, <1>2, <1>3, <1>4, <1>5 DEF test_latency

(* A thread of the test.                                                   *)
LEMMA WorkClient ==
  ASSUME ClientInv, InodeInv, NEW w \in Workers, Work(w)
  PROVE  ClientInv' /\ (Calls(w) \/ Return(w))
<1>1. w \in Threads /\ main \in Threads /\ main # w /\ Workers \subseteq Threads
  BY TestersAssumption
<1>2. DOMAIN pc = Threads /\ DOMAIN call = Threads /\ left \in [Workers -> Nat] /\ DOMAIN reply = Threads
  BY DEF InodeInv, Arrays, ClientInv, TestTyped
<1>4. CASE /\ left[w] > 0 /\ UNCHANGED <<program, s, left, err>>
           /\ (w \in Writers /\ \E k \in DOMAIN s.strs : CallPut(w, s.id, s.strs[k])) \/ (w \in Readers /\ CallGet(w, s.id))
  <2>1. Calls(w)
    <3>1. \A k \in DOMAIN s.strs : s.strs[k] \in Files
      BY ScriptFacts
    <3> QED
      BY <1>4, <3>1, OwnFile DEF Calls
  <2>2. \E c, label : label # "idle" /\ Begin(w, c, label)
    BY <1>4 DEF CallPut, CallGet
  <2>3. reply' = reply /\ \A u \in Threads : u # w => pc'[u] = pc[u] /\ call'[u] = call[u]
    BY <1>2, <2>2 DEF Begin, Goto
  <2>4. Joined' /\ TestTyped'
    BY <1>1, <1>4, <2>3 DEF ClientInv, Joined, TestTyped, ScriptOK
  <2> QED
    BY <1>1, <1>4, <2>1, <2>3, <2>4 DEF ClientInv, MainCall, CreateAnswers
<1>5. CASE /\ Return(w) /\ UNCHANGED <<program, s>>
           /\ err' = (err \/ (w \in Readers /\ \A k \in DOMAIN s.strs : reply[w] # s.strs[k]))
           /\ left' = [left EXCEPT ![w] = IF err' THEN 0 ELSE @ - 1]
  <2>1. pc[w] = "return" /\ pc'[w] = "idle" /\ err' \in BOOLEAN
    BY <1>1, <1>2, <1>5 DEF Return, Goto
  <2>2. left[w] > 0 /\ s.at \in Waiting
    BY <2>1 DEF ClientInv, Joined
  <2>3. left' \in [Workers -> Nat]
    <3>1. (IF err' THEN 0 ELSE left[w] - 1) \in Nat
      BY <1>2, <2>2
    <3> QED
      BY <1>2, <1>5, <3>1
  <2>4. DOMAIN reply' = Threads /\ \A u \in Threads : u # w => pc'[u] = pc[u] /\ call'[u] = call[u]
    BY <1>2, <1>5 DEF Return, Goto
  <2>5. Joined' /\ TestTyped'
    <3>1. \A u \in Workers : u # w => left'[u] = left[u]
      BY <1>2, <1>5
    <3> QED
      BY <1>1, <1>5, <2>1, <2>2, <2>3, <2>4, <3>1 DEF ClientInv, Joined, TestTyped, ScriptOK
  <2>6. s'.at \notin Creating /\ pc[main] = "idle"
    BY <1>5, <2>2 DEF Waiting, Creating, ClientInv, MainCall, AskedAt
  <2> QED
    BY <1>1, <1>5, <2>4, <2>5, <2>6 DEF ClientInv, MainCall, CreateAnswers
<1> QED
  BY <1>4, <1>5 DEF Work

(* create answers the number of an inode.                                  *)
LEMMA CreateAnswersInum ==
  ASSUME InodeInv, DOMAIN reply = Threads, NEW t \in Threads, Inside(t), call[t].op = "create", pc'[t] = "return"
  PROVE  reply'[t] \in Inums
<1>1. pc[t] \notin {"idle", "return", "exit", "g_get", "d_get"} /\ LocalOK(pc[t], loc[t], call[t])
  BY InsideStep, LocalFact DEF LocalOK, Removing
<1>2. DOMAIN pc = Threads
  BY DEF InodeInv, Arrays
<1>3. PutWrite(t)
  <2> USE DEF Goto, Undefined
  <2>1. ~(Enter(t) \/ Exit(t) \/ AllocInode(t) \/ PutRead(t) \/ Getattr(t))
    BY <1>1, <1>2 DEF Enter, Exit, AllocInode, PutRead, Getattr
  <2>2. ~(ReadGet(t) \/ ReadPointers(t) \/ ReadLoop(t))
    BY <1>1, <1>2 DEF ReadGet, ReadPointers, ReadLoop
  <2>3. ~(WriteGet(t) \/ WriteFree(t) \/ WriteLoop(t) \/ WriteStore(t) \/ WriteOld(t) \/ WriteTrim(t)
          \/ WritePointers(t) \/ WriteFreeIndirect(t))
    BY <1>1 DEF LocalOK, Rewriting, WriteGet, WriteFree, WriteLoop, WriteStore, WriteOld, WriteTrim, WritePointers,
               WriteFreeIndirect
  <2>4. ~(RemoveGet(t) \/ RemoveFree(t) \/ RemovePointers(t) \/ FreeInode(t))
    BY <1>1 DEF LocalOK, Removing, RemoveGet, RemoveFree, RemovePointers, FreeInode
  <2> QED
    BY <2>1, <2>2, <2>3, <2>4 DEF Inside
<1>4. pc[t] = "p_write" /\ loc[t].index \in Inums
  BY <1>1, <1>3 DEF PutWrite, LocalOK
<1> QED
  BY <1>3, <1>4 DEF PutWrite, PutInum, Answer

LEMMA InsideClient ==
  ASSUME ClientInv, InodeInv, NEW t \in Threads, InFileSystem(t)
  PROVE  ClientInv' /\ Inside(t)
<1>1. main \in Threads /\ main \notin Workers /\ Workers \subseteq Threads /\ DOMAIN reply = Threads /\ DOMAIN pc = Threads
  BY TestersAssumption DEF ClientInv, TestTyped, InodeInv, Arrays
<1>2. Inside(t) /\ UNCHANGED <<program, s, left, err>>
  BY DEF InFileSystem
<1>3. /\ pc[t] # "idle" /\ UNCHANGED call /\ DOMAIN reply' = Threads
      /\ \A u \in Threads : u # t => pc'[u] = pc[u] /\ reply'[u] = reply[u]
  BY <1>1, <1>2, InsideStep
<1>4. pc'[t] # "idle"
  BY <1>1, <1>2, InsideStep
<1>5. TestTyped' /\ Joined'
  BY <1>1, <1>2, <1>3, <1>4 DEF ClientInv, TestTyped, ScriptOK, Joined
<1>6. MainCall'
  BY <1>1, <1>2, <1>3 DEF ClientInv, MainCall
<1>7. CreateAnswers'
  <2> SUFFICES ASSUME pc'[main] = "return", s.at \in Creating PROVE reply'[main] \in Inums
    BY <1>2 DEF CreateAnswers
  <2>1. CASE t = main
    BY <1>1, <1>2, <1>3, <2>1, CreateAnswersInum DEF ClientInv, MainCall, AskedAt
  <2>2. CASE t # main
    BY <1>1, <1>3, <2>2 DEF ClientInv, CreateAnswers
  <2> QED
    BY <2>1, <2>2
<1> QED
  BY <1>2, <1>5, <1>6, <1>7 DEF ClientInv

(* A test program makes only calls that a client of the file system can    *)
(* make.                                                                   *)
LEMMA TestNextClient ==
  ClientInv /\ InodeInv /\ [TestNext]_testVars => ClientInv' /\ [Next]_vars
<1> SUFFICES ASSUME ClientInv, InodeInv, [TestNext]_testVars PROVE ClientInv' /\ [Next]_vars
  OBVIOUS
<1>1. main \in Threads /\ Workers \subseteq Threads
  BY TestersAssumption
<1>2. CASE UNCHANGED testVars
  BY <1>2 DEF testVars, vars, ClientInv, TestTyped, ScriptOK, MainCall, CreateAnswers, Joined
<1>3. CASE TestNext /\ Main
  BY <1>1, <1>3, CreateGetattrClient, PutGetClient, IndirectClient, RemoveClient, ConcurrentClient, LatencyClient
     DEF TestNext, Main, Next, Step
<1>4. ASSUME NEW w \in Workers, TestNext, Work(w) PROVE ClientInv' /\ Next
  BY <1>1, <1>4, WorkClient DEF TestNext, Next, Step
<1>5. ASSUME NEW t \in Threads, TestNext, InFileSystem(t) PROVE ClientInv' /\ Next
  BY <1>5, InsideClient DEF TestNext, Next, Step
<1> QED
  BY <1>2, <1>3, <1>4, <1>5 DEF TestNext

(* Everything that holds of the file system whatever its clients do holds  *)
(* when the clients are the test programs: each step of theirs is a step   *)
(* of the inode layer, with ids and files it knows.                        *)
THEOREM TestersAreClients == TestSpec => Spec /\ []ClientInv
<1>1. TestInit => Init /\ ClientInv /\ InodeInv
  BY TestInitClient, InitInodeInv DEF TestInit
<1> QED
  BY <1>1, NextInodeInv, TestNextClient, PTL DEF TestSpec, Spec

(* str1 and str2 are only assigned when no thread is there to compare      *)
(* with them: for any number of threads and rounds.                        *)
THEOREM ThreadsAreJoined == TestSpec => JoinedBeforeChange
<1> DEFINE Alone == s'.strs # s.strs => \A w \in Workers : pc[w] = "idle" /\ left[w] = 0
<1>1. ClientInv /\ InodeInv /\ [TestNext]_testVars => [Alone]_testVars
  <2> SUFFICES ASSUME ClientInv, InodeInv, TestNext, s'.strs # s.strs, NEW w \in Workers
               PROVE  pc[w] = "idle" /\ left[w] = 0
    BY DEF testVars
  <2>1. Main
    BY DEF TestNext, Work, InFileSystem
  <2>2. s.at \notin Waiting \/ Finished
    BY <2>1 DEF Main, test_create_and_getattr, test_put_and_get, test_indirect, test_remove, test_concurrent, test_latency,
                Ask, Then, Create, Join, Waiting
  <2> QED
    BY <2>2 DEF ClientInv, Joined, Finished, TestTyped
<1> QED
  BY <1>1, TestersAreClients, InodeInvariant, PTL DEF TestSpec, JoinedBeforeChange

-----------------------------------------------------------------------------
(* The files.                                                              *)
There(con, i) == IF i \in Inums THEN con[i] ELSE Nil

(* An answer that main has is about the files as they are.                 *)
Agrees(con, c, v) ==
  LET f == There(con, c.inum)
  IN /\ c.op = "create" => v \in Inums \ {0} /\ con[v] = [type |-> c.type, file |-> EmptyFile]
     /\ c.op = "getattr" => v[1] = IF f = Nil THEN 0 ELSE f.type
     /\ c.op = "get" => v = IF f = Nil THEN EmptyFile ELSE f.file
     /\ c.op = "put" => (f # Nil /\ Size(c.file) <= MaxBytes => f.file = c.file)
     /\ c.op = "remove" => f = Nil
MainAnswer == reply[main] # Nil => Agrees(contents, call[main], reply[main])

(* The files that the loop over j finds under its ids: with nothing in     *)
(* them, or with what was put.                                             *)
Fresh(con, j) == There(con, j + 2) # Nil => There(con, j + 2).file = EmptyFile
Holds(q, con, j) ==
  There(con, j + 2) # Nil /\ There(con, j + 2).type = T_FILE =>
    q.contents[j] \in Files /\ There(con, j + 2).file = q.contents[j]
IsFile(con, i) == There(con, i) # Nil /\ There(con, i).type = T_FILE

(* Inodes in use beside the root, when no create has taken effect since.   *)
Made(q) == CASE q.at = "create" -> q.i
             [] q.at = "created" -> q.i + 1
             [] q.at \in {"attr_put", "put", "attr_get", "get"} -> FILE_NUM
             [] OTHER -> FILE_NUM + Len(q.ids)
Present(con) == {i \in Inums : con[i] # Nil}

(* What main knows in part1, done being that its call has taken effect.    *)
Script1(q, con, done) ==
  /\ \A i \in Inums : con[i] # Nil => con[i].file \in {EmptyFile} \cup SmallFiles \cup Unterminated
  /\ q.at \in Part1 \ {"remove", "removed", "get_large"} =>
       Cardinality(Present(con)) <= 1 + Made(q) + (IF q.at \in Creating /\ done THEN 1 ELSE 0)
  /\ q.at \in {"create", "created"} =>
       q.total_score = 0 /\ \A i \in Inums : con[i] # Nil => con[i].file = EmptyFile
  /\ q.at = "created" => con[q.id] # Nil /\ con[q.id].type = q.kind /\ q.id # 0
  /\ q.at \in {"attr_put", "put"} =>
       /\ q.total_score = 10
       /\ \A j \in 0..(FILE_NUM - 1) :
            /\ j < q.i => Holds(q, con, j)
            /\ j > q.i \/ (j = q.i /\ (q.at = "put" => ~done)) => Fresh(con, j)
  /\ q.at \in {"attr_get", "get"} => q.total_score = 10 /\ \A j \in 0..(FILE_NUM - 1) : Holds(q, con, j)
  /\ q.at \in {"put", "get"} => IsFile(con, q.i + 2)
  /\ q.at \in {"large", "put_large", "get_large"} =>
       /\ q.total_score = 20
       /\ \A k \in DOMAIN q.ids : q.ids[k] # 0 /\ con[q.ids[k]] # Nil
       /\ \A k \in DOMAIN q.strs : con[q.ids[k]].file = q.strs[k] /\ q.strs[k] \in Unterminated
       /\ \A k, m \in DOMAIN q.ids : q.ids[k] = q.ids[m] => k = m
  /\ q.at = "put_large" /\ ~done => con[q.ids[Len(q.ids)]].file = EmptyFile
  /\ q.at \in {"remove", "removed"} => q.total_score = 30
  /\ q.at = "removed" => There(con, q.i + 2) = Nil

(* And in part2 and part3.                                                 *)
Script23(q, con, done) ==
  /\ q.at \in {"prepare", "measure"} /\ ~done => \A i \in Inums \ {0} : con[i] = Nil
  /\ q.at \in (Part2 \cup Part3) \ {"prepare", "measure"} => q.id # 0 /\ con[q.id] # Nil
  /\ q.at \in {"first_put", "measure_put"} /\ ~done => con[q.id].file = EmptyFile
  /\ q.at = "first_get" => con[q.id].file = q.strs[1]
  /\ q.at \in Waiting => con[q.id].file \in {q.strs[1], q.strs[2]}
  /\ q.at = "varied_put" => con[q.id].file \in LargeFiles \cup DoubleFiles
  /\ q.at \in Part2 \cup Part3 => \A k \in DOMAIN q.strs : q.strs[k] \in LargeFiles \cup DoubleFiles
  /\ q.at \in {"first_get", "fixed"} => q.strs[1] \in LargeFiles
  /\ q.at = "fixed" => q.strs[2] \in LargeFiles
  /\ q.at \in {"prepare", "first_put", "first_get", "fixed"} \cup Part3 => q.total_score = 0
  /\ q.at \in {"varied_put", "varied"} => q.total_score = 5

Known(p, q, con, done) ==
  /\ con[0] # Nil
  /\ p = "part1" => Script1(q, con, done)
  /\ p # "part1" => Script23(q, con, done)
  /\ q.at = "end" => q.total_score = CASE p = "part1" -> 40 [] p = "part2" -> 10 [] p = "part3" -> 0
Script == Known(program, s, contents, reply[main] # Nil)

(* A thread works on main's file, with main's strings.                     *)
Working(w) ==
  /\ call[w].inum = s.id
  /\ w \in Writers => call[w].op = "put" /\ call[w].file \in {s.strs[1], s.strs[2]}
  /\ w \in Readers => call[w].op = "get" /\ (reply[w] # Nil => reply[w] \in {s.strs[1], s.strs[2]})
AtWork == \A w \in Workers : pc[w] # "idle" => Working(w)

(* A remove of a file with indirect blocks that are all full, for which    *)
(* num_indirect_blocks is one too many.                                    *)
Overruns(c, con) ==
  c.op = "remove" /\ There(con, c.inum) # Nil /\ ~SupportedRemove(Size(con[c.inum].file))
NoOverrun == pc[main] # "idle" => ~Overruns(call[main], contents)

TestInv == FilesInv /\ AnswerInv /\ MainAnswer /\ Script /\ AtWork /\ err = FALSE /\ NoOverrun

(* What becomes of it: of the pointers it is about to free the last was    *)
(* never stored, or is past the end of the indirect block, and it does not *)
(* get beyond that one.                                                    *)
Stray ==
  LET c == call[main]
      l == loc[main]
      ino == itable[c.inum]
      last == Blocks(ino.size) - NDIRECT
      ptr == AsPointers(ReadBlock(ino.blocks[NDIRECT]))
  IN /\ s.at = "remove" /\ Overruns(c, contents)
     /\ pc[main] \in {"d_get", "d_free", "d_ptrs"}
     /\ ino # Nil /\ ino.size = Size(contents[c.inum].file)
     /\ last < NINDIRECT => ptr[last] = Wild
     /\ pc[main] # "d_get" => l.ino = ino
     /\ pc[main] = "d_ptrs" => l.ptr = ptr /\ l.indirect <= last

-----------------------------------------------------------------------------
(* Which calls are supported.                                              *)

LEMMA FileFacts ==
  /\ \A f \in Stored : Size(f) \in Nat /\ (Size(f) = 0 => f = EmptyFile)
  /\ Size(EmptyFile) = 0 /\ DirectBytes \in Nat /\ MaxBytes \in Nat /\ DirectBytes <= MaxBytes
  /\ \A f \in SmallFiles : Size(f) <= DirectBytes
  /\ \A f \in Unterminated \cup LargeFiles \cup DoubleFiles :
       Size(f) >= DirectBytes + BLOCK_SIZE /\ Size(f) <= MaxBytes /\ f # EmptyFile
<1>1. DirectBytes \in Nat /\ MaxBytes \in Nat /\ DirectBytes <= MaxBytes /\ BLOCK_SIZE \in Nat \ {0}
  BY Bytes, MaxBytesIs, BytesOrder, SizesAssumption
<1>2. \A f \in Stored : Size(f) \in Nat /\ (Size(f) = 0 => f = EmptyFile)
  BY FilesAssumption DEF Stored, EmptyFile, Size
<1>3. Size(EmptyFile) = 0
  BY DEF EmptyFile, Size
<1>4. \A f \in Unterminated \cup LargeFiles \cup DoubleFiles :
       Size(f) >= DirectBytes + BLOCK_SIZE /\ Size(f) <= MaxBytes
  BY <1>1, FileSizesAssumption DEF MaxBytes
<1> QED
  BY <1>1, <1>2, <1>3, <1>4, FileSizesAssumption

(* Anything the test programs put fits an empty file.                      *)
LEMMA ResizeFromEmpty ==
  ASSUME NEW f \in SmallFiles \cup Unterminated \cup LargeFiles \cup DoubleFiles
  PROVE  SupportedResize(0, Size(f))
<1>1. Size(f) \in Nat /\ BLOCK_SIZE \in Nat \ {0} /\ NDIRECT \in Nat /\ DirectBytes \in Nat
  BY FileFacts, SizesAssumption, TestersAssumption DEF Stored
<1>2. Blocks(0) = 0 /\ Blocks(Size(f)) \in Nat
  BY <1>1 DEF Blocks
<1>3. Direct(0) = 0 /\ Direct(Size(f)) >= 0
  BY <1>1, <1>2 DEF Direct, MIN
<1>4. Size(f) <= DirectBytes \/ Size(f) >= DirectBytes + BLOCK_SIZE
  BY FileFacts
<1> QED
  BY <1>1, <1>3, <1>4 DEF SupportedResize

(* The two sizes that writers put into one file, in any order.             *)
LEMMA ResizeLarge ==
  ASSUME NEW f \in LargeFiles \cup DoubleFiles, NEW g \in LargeFiles \cup DoubleFiles
  PROVE  SupportedResize(Size(f), Size(g))
<1> DEFINE n == LARGE_FILE_SIZE \div BLOCK_SIZE
<1>1. BLOCK_SIZE \in Nat \ {0} /\ NDIRECT \in Nat \ {0} /\ DirectBytes \in Nat /\ LARGE_FILE_SIZE \in Nat
  BY FileFacts, SizesAssumption, FileSizesAssumption
<1>2. n \in Nat /\ LARGE_FILE_SIZE = n * BLOCK_SIZE
  BY <1>1, FileSizesAssumption
<1> HIDE DEF n
<1>3. Size(f) \in {n * BLOCK_SIZE, (2 * n) * BLOCK_SIZE} /\ Size(g) \in {n * BLOCK_SIZE, (2 * n) * BLOCK_SIZE}
  BY <1>1, <1>2, FileSizesAssumption
<1>4. ASSUME NEW k \in Nat PROVE Blocks(k * BLOCK_SIZE) = k /\ (k * BLOCK_SIZE) % BLOCK_SIZE = 0
  BY <1>1 DEF Blocks
<1>5. Size(f) > DirectBytes /\ Size(g) >= DirectBytes + BLOCK_SIZE /\ Size(g) > DirectBytes
      /\ Size(f) \in Nat /\ Size(g) \in Nat
  BY <1>1, FileFacts, TestersAssumption DEF Stored
<1>6. Size(g) % BLOCK_SIZE = 0
  BY <1>2, <1>3, <1>4
<1>7. n * BLOCK_SIZE > NDIRECT * BLOCK_SIZE
  BY <1>1, <1>2, FileSizesAssumption DEF DirectBytes
<1>8. n > NDIRECT
  BY <1>1, <1>2, <1>7
<1>9. Direct(Size(f)) = NDIRECT /\ Direct(Size(g)) = NDIRECT
  <2>1. 2 * n \in Nat /\ Blocks(Size(f)) \in {n, 2 * n} /\ Blocks(Size(g)) \in {n, 2 * n}
    BY <1>2, <1>3, <1>4
  <2>2. n > NDIRECT /\ 2 * n > NDIRECT
    BY <1>1, <1>2, <1>8
  <2>3. \A b \in {n, 2 * n} : MIN(b, NDIRECT) = NDIRECT
    BY <1>1, <1>2, <2>2 DEF MIN
  <2> QED
    BY <2>1, <2>3 DEF Direct
<1>10. Size(g) < Size(f) => Blocks(Size(f) - Size(g)) = Blocks(Size(f)) - Blocks(Size(g))
  <2> SUFFICES ASSUME Size(g) < Size(f) PROVE Blocks(Size(f) - Size(g)) = Blocks(Size(f)) - Blocks(Size(g))
    OBVIOUS
  <2>1. n * BLOCK_SIZE \in Nat /\ (2 * n) * BLOCK_SIZE = n * BLOCK_SIZE + n * BLOCK_SIZE
    BY <1>1, <1>2
  <2>2. Size(g) = n * BLOCK_SIZE /\ Size(f) = (2 * n) * BLOCK_SIZE
    BY <1>3, <2>1
  <2>3. Size(f) - Size(g) = n * BLOCK_SIZE
    BY <2>1, <2>2
  <2>4. Blocks(n * BLOCK_SIZE) = n /\ Blocks((2 * n) * BLOCK_SIZE) = 2 * n
    BY <1>2, <1>4
  <2> QED
    BY <1>2, <2>2, <2>3, <2>4
<1> QED
  BY <1>1, <1>5, <1>6, <1>9, <1>10 DEF SupportedResize

(* There is an inode for the next file as long as few are in use.          *)
LEMMA PresentFacts ==
  ASSUME NEW con
  PROVE  /\ IsFiniteSet(Present(con)) /\ Cardinality(Present(con)) \in Nat
         /\ Cardinality(Present(con)) < INODE_NUM => \E i \in Inums : con[i] = Nil
<1>1. IsFiniteSet(Inums) /\ Cardinality(Inums) = INODE_NUM
  <2>1. INODE_NUM \in Nat \ {0} /\ Inums = 0..(INODE_NUM - 1)
    BY LayoutAssumption DEF Inums
  <2>2. IsFiniteSet(0..(INODE_NUM - 1)) /\ Cardinality(0..(INODE_NUM - 1)) = INODE_NUM
    BY <2>1, FS_Interval
  <2> QED
    BY <2>1, <2>2
<1>2. Present(con) \subseteq Inums
  BY DEF Present
<1>3. IsFiniteSet(Present(con)) /\ Cardinality(Present(con)) \in Nat
  BY <1>1, <1>2, FS_Subset, FS_CardinalityType
<1>4. ASSUME Cardinality(Present(con)) < INODE_NUM PROVE \E i \in Inums : con[i] = Nil
  <2>1. Present(con) # Inums
    BY <1>1, <1>3, <1>4
  <2> QED
    BY <1>2, <2>1 DEF Present
<1> QED
  BY <1>3, <1>4

LEMMA PresentAdded ==
  ASSUME NEW con, DOMAIN con = Inums, NEW i \in Inums, con[i] = Nil, NEW rec, rec # Nil
  PROVE  Cardinality(Present([con EXCEPT ![i] = rec])) = Cardinality(Present(con)) + 1
<1>1. Present([con EXCEPT ![i] = rec]) = Present(con) \cup {i} /\ i \notin Present(con)
  BY DEF Present
<1> QED
  BY <1>1, PresentFacts, FS_AddElement

-----------------------------------------------------------------------------
(* Calls take effect.                                                      *)

(* A call c that is answered v makes con2 of the files con.                *)
Effected(con, con2, c, v) ==
  LET f == There(con, c.inum)
  IN \/ /\ c.op = "create" /\ v \in Inums /\ con[v] = Nil
        /\ con2 = [con EXCEPT ![v] = [type |-> c.type, file |-> EmptyFile]]
     \/ /\ c.op = "put"
        /\ con2 = IF f # Nil /\ Size(c.file) <= MaxBytes THEN [con EXCEPT ![c.inum].file = c.file] ELSE con
     \/ c.op = "remove" /\ con2 = [i \in Inums |-> IF i = c.inum THEN Nil ELSE con[i]]
     \/ c.op = "get" /\ con2 = con /\ v = IF f = Nil THEN EmptyFile ELSE f.file
     \/ c.op = "getattr" /\ con2 = con /\ v[1] = IF f = Nil THEN 0 ELSE f.type

LEMMA EffectIs ==
  ASSUME InodeInv, DOMAIN reply = Threads, NEW t \in Threads, Store!Effect(t)
  PROVE  /\ reply[t] = Nil /\ reply'[t] # Nil /\ UNCHANGED call
         /\ \A u \in Threads : u # t => reply'[u] = reply[u]
         /\ Effected(contents, contents', call[t], reply'[t])
<1> DEFINE c == call[t]
<1>1. ASSUME NEW op, NEW v, v # Nil, Store!Answer(t, op, v)
      PROVE  /\ c.op = op /\ reply[t] = Nil /\ reply'[t] = v /\ reply'[t] # Nil /\ UNCHANGED call
             /\ \A u \in Threads : u # t => reply'[u] = reply[u]
  BY <1>1 DEF Store!Answer
<1>2. Inums \subseteq Nat /\ 0 \in Nat /\ contents \in [Inums -> Records \cup {Nil}]
  BY LayoutAssumption DEF Inums, InodeInv, Shared
<1>3. Store!Lookup(c.inum) = There(contents, c.inum)
  BY DEF Store!Lookup, There
<1> HIDE DEF c
<1>4. CASE Store!Create(t)
  <2>1. PICK i \in Inums : contents[i] = Nil /\ Store!Answer(t, "create", i)
                           /\ contents' = [contents EXCEPT ![i] = [type |-> c.type, file |-> EmptyFile]]
    BY <1>4 DEF Store!Create, c, EmptyFile, Store!EmptyFile
  <2> QED
    BY <1>1, <1>2, <2>1, NotNil DEF Effected, c
<1>5. CASE Store!Put(t)
  <2>1. Store!Answer(t, "put", 0)
    BY <1>5 DEF Store!Put
  <2>2. contents' = IF There(contents, c.inum) # Nil /\ Size(c.file) <= MaxBytes
                    THEN [contents EXCEPT ![c.inum].file = c.file] ELSE contents
    BY <1>3, <1>5 DEF Store!Put, Size, MaxBytes, c
  <2> QED
    BY <1>1, <1>2, <2>1, <2>2, NotNil DEF Effected, c
<1>6. CASE Store!Remove(t)
  <2>1. Store!Answer(t, "remove", 0) /\ contents' = [i \in Inums |-> IF i = c.inum THEN Nil ELSE contents[i]]
    BY <1>6 DEF Store!Remove, c
  <2> QED
    BY <1>1, <1>2, <2>1, NotNil DEF Effected, c
<1>7. There(contents, c.inum) # Nil => There(contents, c.inum) \in Records
  BY <1>2 DEF There
<1>8. CASE Store!Get(t)
  <2> DEFINE v == IF There(contents, c.inum) = Nil THEN EmptyFile ELSE There(contents, c.inum).file
  <2>1. Store!Answer(t, "get", v) /\ contents' = contents
    BY <1>3, <1>8 DEF Store!Get, EmptyFile, Store!EmptyFile, c
  <2>2. v # Nil
    BY <1>7, NotNil DEF Records, Stored
  <2> QED
    BY <1>1, <2>1, <2>2 DEF Effected, c
<1>9. CASE Store!Getattr(t)
  <2> DEFINE f == There(contents, c.inum)
             v == IF f = Nil THEN <<0, 0>> ELSE <<f.type, f.file[1]>>
  <2>1. Store!Answer(t, "getattr", v) /\ contents' = contents
    BY <1>3, <1>9 DEF Store!Getattr, c
  <2>2. v \in Nat \X Nat
    <3>1. \A g \in Stored : g[1] \in Nat
      BY FilesAssumption DEF Stored, EmptyFile
    <3>2. f # Nil => f.type \in Nat /\ f.file \in Stored
      BY <1>7, IdsAssumption DEF Records, T_DIR
    <3> QED
      BY <3>1, <3>2
  <2>3. v # Nil /\ v[1] = IF f = Nil THEN 0 ELSE f.type
    BY <2>2, NotNil
  <2> HIDE DEF v
  <2> QED
    BY <1>1, <2>1, <2>3 DEF Effected, c
<1> QED
  BY <1>4, <1>5, <1>6, <1>8, <1>9 DEF Store!Effect

(* The answer of a call that has just taken effect.                        *)
LEMMA EffectAgrees ==
  ASSUME NEW con \in [Inums -> Records \cup {Nil}], NEW con2, NEW c, NEW v, con[0] # Nil, c.inum \in Nat,
         Effected(con, con2, c, v)
  PROVE  Agrees(con2, c, v)
<1>1. CASE c.op = "create"
  BY <1>1 DEF Effected, Agrees
<1>2. CASE c.op = "put"
  <2>1. CASE There(con, c.inum) # Nil /\ Size(c.file) <= MaxBytes
    <3>1. con2 = [con EXCEPT ![c.inum].file = c.file] /\ c.inum \in Inums /\ con[c.inum] \in Records
      BY <1>2, <2>1 DEF Effected, There
    <3>2. There(con2, c.inum).file = c.file
      BY <3>1 DEF There, Records
    <3> QED
      BY <1>2, <3>2 DEF Agrees
  <2>2. CASE ~(There(con, c.inum) # Nil /\ Size(c.file) <= MaxBytes)
    BY <1>2, <2>2 DEF Effected, Agrees
  <2> QED
    BY <2>1, <2>2
<1>3. CASE c.op = "remove"
  BY <1>3 DEF Effected, Agrees, There
<1>4. CASE c.op \in {"get", "getattr"}
  BY <1>4 DEF Effected, Agrees
<1> QED
  BY <1>1, <1>2, <1>3, <1>4 DEF Effected

(* What main knows when its call has taken effect, in part1.               *)
FilesOn == [Inums -> Records \cup {Nil}]

LEMMA LoopId ==
  ASSUME NEW j \in Nat, j < FILE_NUM PROVE j + 2 \in Inums \ {0}
  BY RoomAssumption, LayoutAssumption, TestersAssumption DEF Inums

LEMMA MadeType == ASSUME ClientInv PROVE Made(s) \in Nat
<1>1. s.i \in Nat /\ FILE_NUM \in Nat /\ Len(s.ids) \in Nat
  BY ScriptFacts
<1> QED
  BY <1>1 DEF Made

LEMMA DoneWeaker ==
  ASSUME ClientInv, NEW con, Script1(s, con, FALSE) PROVE Script1(s, con, TRUE)
<1>1. Cardinality(Present(con)) \in Nat /\ Made(s) \in Nat
  BY PresentFacts, MadeType
<1>2. s.at \in Part1 \ {"remove", "removed", "get_large"} =>
        Cardinality(Present(con)) <= 1 + Made(s) + (IF s.at \in Creating /\ TRUE THEN 1 ELSE 0)
  <2>1. s.at \in Part1 \ {"remove", "removed", "get_large"} => Cardinality(Present(con)) <= 1 + Made(s) + 0
    BY DEF Script1
  <2> QED
    BY <1>1, <2>1
<1> QED
  BY <1>2 DEF Script1

(* A file was made.                                                        *)
LEMMA CreateScript1 ==
  ASSUME ClientInv, program = "part1", s.at \in {"create", "large"},
         NEW con \in FilesOn, NEW v \in Inums, con[v] = Nil, NEW rec \in Records, rec.file = EmptyFile,
         Script1(s, con, FALSE)
  PROVE  Script1(s, [con EXCEPT ![v] = rec], TRUE)
<1> DEFINE con2 == [con EXCEPT ![v] = rec]
<1>1. rec # Nil /\ DOMAIN con = Inums
  BY NilAssumption DEF FilesOn
<1>2. con2[v] = rec /\ \A i \in Inums : i # v => con2[i] = con[i]
  BY <1>1
<1>3. Cardinality(Present(con2)) = Cardinality(Present(con)) + 1
  BY <1>1, PresentAdded
<1>4. Cardinality(Present(con2)) <= 1 + Made(s) + 1
  <2>1. Cardinality(Present(con)) <= 1 + Made(s) + 0
    BY DEF Script1, Part1
  <2> QED
    BY <1>3, <2>1, MadeType, PresentFacts
<1> HIDE DEF con2
<1>5. \A i \in Inums : con2[i] # Nil => con2[i].file \in {EmptyFile} \cup SmallFiles \cup Unterminated
  BY <1>2 DEF Script1
<1>6. CASE s.at = "create"
  <2>1. s.total_score = 0 /\ \A i \in Inums : con2[i] # Nil => con2[i].file = EmptyFile
    BY <1>2, <1>6 DEF Script1
  <2> QED
    BY <1>4, <1>5, <1>6, <2>1 DEF Script1, Creating, con2
<1>7. CASE s.at = "large"
  <2>1. /\ s.total_score = 20
        /\ \A k \in DOMAIN s.ids : s.ids[k] \in Inums /\ s.ids[k] # 0 /\ con[s.ids[k]] # Nil
        /\ \A k \in DOMAIN s.strs : con[s.ids[k]].file = s.strs[k] /\ s.strs[k] \in Unterminated
        /\ \A k, m \in DOMAIN s.ids : s.ids[k] = s.ids[m] => k = m
    BY <1>7, ScriptFacts DEF Script1
  <2>2. \A k \in DOMAIN s.ids : con2[s.ids[k]] = con[s.ids[k]]
    BY <1>2, <2>1
  <2>3. DOMAIN s.strs = DOMAIN s.ids
    BY <1>7, ScriptFacts DEF Placed
  <2> QED
    BY <1>4, <1>5, <1>7, <2>1, <2>2, <2>3 DEF Script1, Creating, con2
<1> QED
  BY <1>6, <1>7

(* A file was put.                                                         *)
LEMMA PutScript1 ==
  ASSUME ClientInv, program = "part1", s.at \in {"put", "put_large"},
         NEW con \in FilesOn, NEW i \in Inums, con[i] # Nil, NEW f \in Files,
         i = IF s.at = "put" THEN s.i + 2 ELSE s.ids[Len(s.ids)],
         s.at = "put" => f \in SmallFiles, s.at = "put_large" => f \in Unterminated,
         Script1(s, con, FALSE)
  PROVE  Script1(s, [con EXCEPT ![i].file = f], TRUE)
<1> DEFINE con2 == [con EXCEPT ![i].file = f]
<1>1. /\ con2[i] = [con[i] EXCEPT !.file = f] /\ \A j \in Inums : j # i => con2[j] = con[j]
      /\ con[i] \in Records
  BY DEF FilesOn
<1>2. con2[i].file = f /\ con2[i].type = con[i].type /\ con2[i] # Nil
  BY <1>1, NilAssumption DEF Records, Stored
<1>3. Present(con2) = Present(con)
  BY <1>1, <1>2 DEF Present
<1> HIDE DEF con2
<1>4. \A j \in Inums : con2[j] # Nil => con2[j].file \in {EmptyFile} \cup SmallFiles \cup Unterminated
  BY <1>1, <1>2 DEF Script1
<1>5. Cardinality(Present(con2)) <= 1 + Made(s) + 0
  BY <1>3 DEF Script1, Part1, Looping, Creating
<1>6. CASE s.at = "put"
  <2>1. /\ s.i < FILE_NUM /\ i = s.i + 2 /\ IsFile(con, i) /\ s.total_score = 10
        /\ \A j \in 0..(FILE_NUM - 1) : (j < s.i => Holds(s, con, j)) /\ (j > s.i => Fresh(con, j))
    BY <1>6 DEF Script1, Placed, ClientInv, TestTyped, ScriptOK, Looping
  <2>2. \A j \in 0..(FILE_NUM - 1) : j # s.i => There(con2, j + 2) = There(con, j + 2)
    BY <1>1, <2>1, ScriptFacts DEF There
  <2>3. \A j \in 0..(FILE_NUM - 1) : (j < s.i => Holds(s, con2, j)) /\ (j > s.i => Fresh(con2, j))
    <3>1. \A j \in 0..(FILE_NUM - 1) : j < s.i \/ j > s.i => j # s.i
      BY ScriptFacts
    <3>2. ASSUME NEW j \in 0..(FILE_NUM - 1), j < s.i PROVE Holds(s, con2, j)
      BY <2>1, <2>2, <3>1, <3>2 DEF Holds
    <3>3. ASSUME NEW j \in 0..(FILE_NUM - 1), j > s.i PROVE Fresh(con2, j)
      BY <2>1, <2>2, <3>1, <3>3 DEF Fresh
    <3> QED
      BY <3>2, <3>3
  <2>4. IsFile(con2, s.i + 2)
    BY <1>2, <2>1 DEF IsFile, There
  <2> QED
    BY <1>4, <1>5, <1>6, <2>1, <2>3, <2>4, ScriptFacts DEF Script1, Creating, con2
<1>7. CASE s.at = "put_large"
  <2>1. /\ s.total_score = 20
        /\ \A k \in DOMAIN s.ids : s.ids[k] \in Inums /\ s.ids[k] # 0 /\ con[s.ids[k]] # Nil
        /\ \A k \in DOMAIN s.strs : con[s.ids[k]].file = s.strs[k] /\ s.strs[k] \in Unterminated
        /\ \A k, m \in DOMAIN s.ids : s.ids[k] = s.ids[m] => k = m
    BY <1>7, ScriptFacts DEF Script1
  <2>2. /\ DOMAIN s.ids = 1..Len(s.ids) /\ DOMAIN s.strs = 1..(Len(s.ids) - 1) /\ Len(s.ids) \in {1, 2}
        /\ i = s.ids[Len(s.ids)]
    BY <1>7, ScriptFacts DEF Placed
  <2>3. Len(s.ids) \in DOMAIN s.ids /\ \A k \in DOMAIN s.strs : k \in DOMAIN s.ids /\ k # Len(s.ids)
    <3>1. \A n \in {1, 2} : n \in 1..n /\ \A k \in 1..(n - 1) : k \in 1..n /\ k # n
      OBVIOUS
    <3> QED
      BY <2>2, <3>1
  <2>4. \A k \in DOMAIN s.ids : con2[s.ids[k]] # Nil
    BY <1>1, <1>2, <2>1
  <2>5. \A k \in DOMAIN s.strs : con2[s.ids[k]] = con[s.ids[k]]
    <3>1. ASSUME NEW k \in DOMAIN s.strs PROVE s.ids[k] \in Inums /\ s.ids[k] # i
      BY <2>1, <2>2, <2>3
    <3> QED
      BY <1>1, <3>1
  <2>6. \A k \in DOMAIN s.strs : con2[s.ids[k]].file = s.strs[k]
    BY <2>1, <2>5
  <2> QED
    BY <1>4, <1>5, <1>7, <2>1, <2>4, <2>6 DEF Script1, Creating, con2
<1> QED
  BY <1>6, <1>7

LEMMA EffectScript1 ==
  ASSUME ClientInv, program = "part1", NEW con \in FilesOn, NEW con2, NEW c \in Requests, NEW v, con[0] # Nil,
         AskedAt(s, c), Effected(con, con2, c, v), Script1(s, con, FALSE), s.at \in Part1
  PROVE  Script1(s, con2, TRUE) /\ con2[0] # Nil
<1>1. 0 \in Inums /\ DOMAIN con = Inums /\ c.type \in Types \cup {0}
  BY ScriptFacts DEF FilesOn, Requests
<1>2. CASE s.at \in {"create", "large"}
  <2>1. c.op = "create" /\ c.type \in Types
    BY <1>2 DEF AskedAt, Creating
  <2>2. v \in Inums /\ con[v] = Nil /\ con2 = [con EXCEPT ![v] = [type |-> c.type, file |-> EmptyFile]]
    BY <2>1 DEF Effected
  <2>3. [type |-> c.type, file |-> EmptyFile] \in Records
    BY <2>1 DEF Records, Stored
  <2>4. con2[0] = con[0]
    BY <1>1, <2>2
  <2> QED
    BY <1>2, <2>2, <2>3, <2>4, CreateScript1
<1>3. CASE s.at \in {"created", "attr_put", "attr_get", "get", "get_large", "removed"}
  <2>1. c.op \in {"get", "getattr"}
    BY <1>3 DEF AskedAt
  <2>2. con2 = con
    BY <2>1 DEF Effected
  <2> QED
    BY <2>2, DoneWeaker
<1>4. CASE s.at \in {"put", "put_large"}
  <2> DEFINE i == IF s.at = "put" THEN s.i + 2 ELSE s.ids[Len(s.ids)]
  <2>1. /\ c.op = "put" /\ c.inum = i
        /\ (s.at = "put" => c.file \in SmallFiles) /\ (s.at = "put_large" => c.file \in Unterminated)
    BY <1>4 DEF AskedAt
  <2>2. c.file \in Files /\ Size(c.file) <= MaxBytes
    <3>1. c.file \in Files /\ c.file \in SmallFiles \cup Unterminated
      BY <1>4, <2>1, TestersAssumption
    <3> QED
      BY <3>1, FileFacts DEF Stored
  <2>3. i \in Inums /\ i # 0 /\ con[i] # Nil
    <3>1. CASE s.at = "put"
      <4>1. IsFile(con, s.i + 2) /\ s.i < FILE_NUM
        BY <3>1, ScriptFacts DEF Script1, Placed, Looping
      <4> QED
        BY <3>1, <4>1, LoopId, ScriptFacts DEF IsFile, There
    <3>2. CASE s.at = "put_large"
      <4>1. Len(s.ids) \in DOMAIN s.ids
        BY <3>2, ScriptFacts DEF Placed
      <4> QED
        BY <3>2, <4>1, ScriptFacts DEF Script1
    <3> QED
      BY <1>4, <3>1, <3>2
  <2>4. con2 = [con EXCEPT ![i].file = c.file]
    BY <2>1, <2>2, <2>3 DEF Effected, There
  <2>5. con2[0] = con[0]
    BY <1>1, <2>3, <2>4
  <2> QED
    BY <1>4, <2>1, <2>2, <2>3, <2>4, <2>5, PutScript1
<1>5. CASE s.at = "remove"
  <2>1. c.op = "remove" /\ c.inum = s.i + 2 /\ c.inum \in Inums \ {0}
    BY <1>5, LoopId, ScriptFacts DEF AskedAt, Placed, Looping
  <2>2. con2 = [j \in Inums |-> IF j = c.inum THEN Nil ELSE con[j]]
    BY <2>1 DEF Effected
  <2>3. con2[0] = con[0] /\ \A j \in Inums : con2[j] = Nil \/ con2[j] = con[j]
    BY <1>1, <2>1, <2>2
  <2> QED
    BY <1>5, <2>3 DEF Script1
<1> QED
  BY <1>2, <1>3, <1>4, <1>5 DEF Part1, Looping

(* And in part2 and part3, where the threads put as well.                  *)
LEMMA PutScript23 ==
  ASSUME ClientInv, program # "part1", s.at \in (Part2 \cup Part3) \ {"prepare", "measure", "first_get"},
         NEW con \in FilesOn, NEW f \in LargeFiles \cup DoubleFiles, NEW done,
         s.at \in Waiting => f \in {s.strs[1], s.strs[2]},
         Script23(s, con, done)
  PROVE  Script23(s, [con EXCEPT ![s.id].file = f], TRUE) /\ [con EXCEPT ![s.id].file = f][0] = con[0]
<1> DEFINE con2 == [con EXCEPT ![s.id].file = f]
<1>1. s.id \in Inums /\ 0 \in Inums /\ s.id # 0 /\ con[s.id] # Nil
  BY ScriptFacts DEF Script23
<1>2. con2[s.id] = [con[s.id] EXCEPT !.file = f] /\ con2[0] = con[0] /\ con[s.id] \in Records
  BY <1>1 DEF FilesOn
<1>3. con2[s.id].file = f /\ con2[s.id] # Nil
  BY <1>2, NilAssumption, TestersAssumption DEF Records, Stored
<1> HIDE DEF con2
<1> QED
  BY <1>1, <1>2, <1>3 DEF Script23, Part2, Part3, con2

LEMMA EffectScript23 ==
  ASSUME ClientInv, program # "part1", NEW con \in FilesOn, NEW con2, NEW c \in Requests, NEW v, con[0] # Nil,
         AskedAt(s, c), Effected(con, con2, c, v), Script23(s, con, FALSE), s.at \in Part2 \cup Part3
  PROVE  Script23(s, con2, TRUE) /\ con2[0] # Nil
<1>1. 0 \in Inums /\ DOMAIN con = Inums /\ s.id \in Inums
  BY ScriptFacts DEF FilesOn
<1>2. CASE s.at \in {"prepare", "measure"}
  <2>1. c.op = "create"
    BY <1>2 DEF AskedAt, Creating
  <2>2. v \in Inums /\ con[v] = Nil /\ con2 = [con EXCEPT ![v] = [type |-> c.type, file |-> EmptyFile]]
    BY <2>1 DEF Effected
  <2>3. con2[0] = con[0]
    BY <1>1, <2>2
  <2> QED
    BY <1>2, <2>3 DEF Script23, Waiting
<1>3. CASE s.at = "first_get"
  <2>1. con2 = con
    BY <1>3 DEF AskedAt, Effected
  <2> QED
    BY <1>3, <2>1 DEF Script23, Waiting
<1>4. CASE s.at \in {"first_put", "varied_put", "measure_put"}
  <2>1. c.op = "put" /\ c.inum = s.id /\ c.file \in LargeFiles \cup DoubleFiles
    <3>1. s.at \in {"varied_put", "measure_put"} => s.strs[1] \in LargeFiles \cup DoubleFiles
      BY ScriptFacts DEF Placed, Script23, Part2, Part3
    <3> QED
      BY <1>4, <3>1 DEF AskedAt
  <2>2. con[s.id] # Nil /\ Size(c.file) <= MaxBytes
    BY <1>4, <2>1, FileFacts DEF Script23, Part2, Part3
  <2>3. con2 = [con EXCEPT ![s.id].file = c.file]
    BY <1>1, <2>1, <2>2 DEF Effected, There
  <2>4. s.at \notin Waiting /\ s.at \in (Part2 \cup Part3) \ {"prepare", "measure", "first_get"}
    BY <1>4 DEF Waiting, Part2, Part3
  <2> QED
    BY <2>1, <2>3, <2>4, PutScript23
<1>5. s.at \in {"prepare", "measure", "first_get", "first_put", "varied_put", "measure_put"}
  BY DEF AskedAt, Part2, Part3, Waiting
<1> QED
  BY <1>2, <1>3, <1>4, <1>5

(* A call of a thread.                                                     *)
LEMMA EffectWork ==
  ASSUME ClientInv, program # "part1", s.at \in Waiting, NEW con \in FilesOn, NEW con2, NEW c, NEW v, con[0] # Nil,
         c.inum = s.id, c.op = "get" \/ (c.op = "put" /\ c.file \in {s.strs[1], s.strs[2]}),
         Effected(con, con2, c, v), NEW done, Script23(s, con, done)
  PROVE  /\ Script23(s, con2, TRUE) /\ Script23(s, con2, done) /\ con2[0] # Nil
         /\ c.op = "get" => v \in {s.strs[1], s.strs[2]}
<1>1. 0 \in Inums /\ DOMAIN con = Inums /\ s.id \in Inums /\ s.at \in Part2 \cup Part3
  BY ScriptFacts DEF FilesOn, Waiting, Part2, Part3
<1>2. con[s.id] # Nil /\ con[s.id].file \in {s.strs[1], s.strs[2]}
  BY <1>1 DEF Script23, Waiting
<1>3. ASSUME NEW d, Script23(s, d, TRUE) PROVE Script23(s, d, done)
  BY <1>3 DEF Script23, Waiting
<1>4. CASE c.op = "get"
  <2>1. con2 = con /\ v \in {s.strs[1], s.strs[2]}
    BY <1>1, <1>2, <1>4 DEF Effected, There
  <2> QED
    BY <2>1 DEF Script23, Waiting
<1>5. CASE c.op = "put"
  <2>1. c.file \in LargeFiles \cup DoubleFiles
    <3>1. Len(s.strs) = 2
      BY ScriptFacts DEF Placed
    <3>2. s.strs[1] \in LargeFiles \cup DoubleFiles /\ s.strs[2] \in LargeFiles \cup DoubleFiles
      BY <1>1, <3>1, ScriptFacts DEF Script23
    <3> QED
      BY <1>5, <3>2
  <2>2. con2 = [con EXCEPT ![s.id].file = c.file]
    BY <1>1, <1>2, <1>5, <2>1, FileFacts DEF Effected, There
  <2>3. s.at \in (Part2 \cup Part3) \ {"prepare", "measure", "first_get"}
    BY <1>1 DEF Waiting
  <2>4. Script23(s, con2, TRUE) /\ con2[0] = con[0]
    BY <1>5, <2>1, <2>2, <2>3, PutScript23
  <2> QED
    BY <1>3, <1>5, <2>4
<1> QED
  BY <1>4, <1>5

(* A step in the file system.                                              *)
LEMMA PartOf ==
  ASSUME ClientInv
  PROVE  /\ program = "part1" /\ s.at # "end" => s.at \in Part1
         /\ program # "part1" /\ s.at # "end" => s.at \in Part2 \cup Part3
         /\ s.at \in Waiting => program # "part1"
  BY ScriptFacts DEF Belongs, Labels, Creating, Waiting, Looping, Part1, Part2, Part3, ClientInv, TestTyped, Programs

LEMMA InsideFiles ==
  ASSUME ClientInv, InodeInv, TestInv, NEW t \in Threads, InFileSystem(t)
  PROVE  MainAnswer' /\ Script' /\ AtWork' /\ err' = FALSE
<1>1. main \in Threads /\ main \notin Workers /\ Threads = Workers \cup {main} /\ DOMAIN reply = Threads
  BY TestersAssumption DEF ClientInv, TestTyped
<1>2. Inside(t) /\ UNCHANGED <<program, s, left, err, call>> /\ pc[t] # "idle"
      /\ \A u \in Threads : pc'[u] # "idle" => pc[u] # "idle"
  <2>1. DOMAIN pc = Threads
    BY DEF InodeInv, Arrays
  <2> QED
    BY <2>1, InsideStep DEF InFileSystem
<1>3. contents \in FilesOn /\ contents[0] # Nil
  BY DEF InodeInv, Shared, FilesOn, TestInv, Script, Known
<1>4. CASE UNCHANGED storevars
  <2>1. contents' = contents /\ reply' = reply
    BY <1>4 DEF storevars
  <2>2. AtWork'
    BY <1>1, <1>2, <2>1 DEF TestInv, AtWork, Working
  <2>3. MainAnswer' /\ Script'
    BY <1>2, <2>1 DEF TestInv, MainAnswer, Script
  <2> QED
    BY <1>2, <2>2, <2>3 DEF TestInv
<1>5. CASE Store!Effect(t)
  <2>1. /\ reply[t] = Nil /\ reply'[t] # Nil
        /\ \A u \in Threads : u # t => reply'[u] = reply[u]
        /\ Effected(contents, contents', call[t], reply'[t])
    BY <1>1, <1>5, EffectIs
  <2>2. call[t] \in Requests
    BY <1>2, LocalFact DEF LocalOK
  <2>3. CASE t = main
    <3>1. AskedAt(s, call[main]) /\ s.at \notin Waiting /\ s.at # "end"
      BY <1>2, <2>3 DEF ClientInv, MainCall, AskedAt
    <3>2. \A w \in Workers : pc[w] = "idle"
      BY <3>1 DEF ClientInv, Joined
    <3>3. AtWork'
      BY <1>1, <1>2, <3>2 DEF AtWork
    <3>4. MainAnswer'
      <4>1. call[main].inum \in Nat
        BY <2>2, <2>3 DEF Requests
      <4>2. Agrees(contents', call[main], reply'[main])
        BY <1>3, <2>1, <2>3, <4>1, EffectAgrees DEF FilesOn
      <4> QED
        BY <1>2, <4>2 DEF MainAnswer
    <3>5. Script'
      <4>1. CASE program = "part1"
        <5>1. Script1(s, contents, FALSE)
          BY <2>1, <2>3, <4>1 DEF TestInv, Script, Known
        <5>2. Script1(s, contents', TRUE) /\ contents'[0] # Nil
          BY <1>3, <2>1, <2>2, <2>3, <3>1, <4>1, <5>1, EffectScript1, PartOf
        <5> QED
          BY <1>2, <2>1, <2>3, <3>1, <4>1, <5>2 DEF Script, Known
      <4>2. CASE program # "part1"
        <5>1. Script23(s, contents, FALSE)
          BY <2>1, <2>3, <4>2 DEF TestInv, Script, Known
        <5>2. Script23(s, contents', TRUE) /\ contents'[0] # Nil
          BY <1>3, <2>1, <2>2, <2>3, <3>1, <4>2, <5>1, EffectScript23, PartOf
        <5> QED
          BY <1>2, <2>1, <2>3, <3>1, <4>2, <5>2 DEF Script, Known
      <4> QED
        BY <4>1, <4>2
    <3> QED
      BY <1>2, <3>3, <3>4, <3>5 DEF TestInv
  <2>4. CASE t # main
    <3>1. t \in Workers /\ Working(t) /\ s.at \in Waiting /\ program # "part1" /\ s.at # "end"
      <4>1. t \in Workers /\ left[t] > 0
        BY <1>1, <1>2, <2>4 DEF ClientInv, Joined
      <4>2. s.at \in Waiting
        BY <4>1 DEF ClientInv, Joined
      <4> QED
        BY <1>2, <4>1, <4>2, PartOf DEF TestInv, AtWork, Waiting
    <3>2. reply[main] = Nil /\ reply'[main] = Nil
      BY <1>1, <2>1, <2>4, <3>1 DEF ClientInv, MainCall, AskedAt, TestInv, AnswerInv, RepliesOK, Answered
    <3>3. /\ call[t].inum = s.id
          /\ call[t].op = "get" \/ (call[t].op = "put" /\ call[t].file \in {s.strs[1], s.strs[2]})
          /\ t \in Readers => call[t].op = "get"
      BY <3>1 DEF Working, Workers
    <3>4. Script23(s, contents, FALSE)
      BY <3>1, <3>2 DEF TestInv, Script, Known
    <3>5. /\ Script23(s, contents', FALSE) /\ contents'[0] # Nil
          /\ call[t].op = "get" => reply'[t] \in {s.strs[1], s.strs[2]}
      BY <1>3, <2>1, <3>1, <3>3, <3>4, EffectWork
    <3>6. Script'
      BY <1>2, <3>1, <3>2, <3>5 DEF Script, Known
    <3>7. AtWork'
      <4>1. ASSUME NEW w \in Workers, pc'[w] # "idle" PROVE Working(w)'
        <5>1. pc[w] # "idle" /\ Working(w)
          BY <1>1, <1>2, <4>1 DEF TestInv, AtWork
        <5>2. CASE w = t
          BY <1>2, <3>3, <3>5, <5>1, <5>2 DEF Working
        <5>3. CASE w # t
          BY <1>1, <1>2, <2>1, <5>1, <5>3 DEF Working
        <5> QED
          BY <5>2, <5>3
      <4> QED
        BY <4>1 DEF AtWork
    <3> QED
      BY <1>2, <3>2, <3>6, <3>7 DEF MainAnswer, TestInv
  <2> QED
    BY <2>3, <2>4
<1> QED
  BY <1>2, <1>4, <1>5, InsideIsStore DEF TestInv
-----------------------------------------------------------------------------
(* Calls are made.                                                         *)

(* main's calls are supported: there is an inode for a file, and a file is *)
(* resized and removed in the ways that work.                              *)
LEMMA AskSupported1 ==
  ASSUME ClientInv, NEW con \in FilesOn, NEW c \in Requests, AskedAt(s, c), program = "part1",
         ~Overruns(c, con), s.at \in Part1, Script1(s, con, FALSE)
  PROVE  Supported(c, con)
<1>1. CASE s.at \in {"create", "large"}
  <2>1. c.op = "create"
    BY <1>1 DEF AskedAt, Creating
  <2>2. Cardinality(Present(con)) <= 1 + Made(s) + 0 /\ Cardinality(Present(con)) \in Nat
    BY <1>1, PresentFacts DEF Script1, Part1
  <2>3. Made(s) \in Nat /\ 1 + Made(s) < INODE_NUM
    <3>3. FILE_NUM \in Nat /\ INODE_NUM \in Nat /\ FILE_NUM + 3 <= INODE_NUM
      BY RoomAssumption, LayoutAssumption, TestersAssumption
    <3>1. CASE s.at = "create"
      <4>1. Made(s) = s.i
        BY <3>1 DEF Made
      <4>2. s.i < FILE_NUM /\ s.i \in Nat
        BY <3>1, ScriptFacts DEF Placed
      <4> QED
        BY <3>3, <4>1, <4>2
    <3>2. CASE s.at = "large"
      <4>1. Made(s) = FILE_NUM + Len(s.ids) /\ Len(s.ids) \in {0, 1}
        BY <3>2, ScriptFacts DEF Made, Placed
      <4>2. \A n \in {0, 1} : FILE_NUM + n \in Nat /\ 1 + (FILE_NUM + n) < INODE_NUM
        BY <3>3
      <4> QED
        BY <4>1, <4>2
    <3> QED
      BY <1>1, <3>1, <3>2
  <2>4. \E i \in Inums : con[i] = Nil
    <3>1. INODE_NUM \in Nat
      BY LayoutAssumption
    <3>2. Cardinality(Present(con)) < INODE_NUM
      BY <2>2, <2>3, <3>1
    <3> QED
      BY <3>2, PresentFacts
  <2> QED
    BY <2>1, <2>4 DEF Supported
<1>2. CASE s.at \in {"created", "attr_put", "attr_get", "removed"}
  <2>1. c.op = "getattr" /\ c.inum # 0
    BY <1>2, LoopId, ScriptFacts DEF AskedAt, Placed, Looping, Script1
  <2> QED
    BY <2>1 DEF Supported
<1>3. CASE s.at \in {"put", "get", "remove"}
  <2>1. c.inum = s.i + 2 /\ c.inum \in Inums \ {0} /\ s.i \in 0..(FILE_NUM - 1)
    BY <1>3, LoopId, ScriptFacts DEF AskedAt, Placed, Looping
  <2>2. CASE s.at = "put"
    <3>1. c.op = "put" /\ c.file \in SmallFiles
      BY <2>2 DEF AskedAt
    <3>2. Fresh(con, s.i)
      BY <2>1, <2>2 DEF Script1
    <3>3. con[c.inum] # Nil => Size(con[c.inum].file) = 0
      BY <2>1, <3>2, FileFacts DEF Fresh, There
    <3> QED
      BY <2>1, <3>1, <3>3, ResizeFromEmpty DEF Supported
  <2>3. CASE s.at = "get"
    BY <2>1, <2>3 DEF AskedAt, Supported
  <2>4. CASE s.at = "remove"
    <3>1. c.op = "remove"
      BY <2>4 DEF AskedAt
    <3> QED
      BY <2>1, <3>1 DEF Supported, Overruns, There
  <2> QED
    BY <1>3, <2>2, <2>3, <2>4
<1>4. CASE s.at = "put_large"
  <2>1. Len(s.ids) \in DOMAIN s.ids
    BY <1>4, ScriptFacts DEF Placed
  <2>2. c.op = "put" /\ c.inum = s.ids[Len(s.ids)] /\ c.file \in Unterminated
    BY <1>4 DEF AskedAt
  <2>3. c.inum \in Inums /\ c.inum # 0 /\ con[c.inum].file = EmptyFile
    BY <1>4, <2>1, <2>2, ScriptFacts DEF Script1
  <2> QED
    BY <2>2, <2>3, FileFacts, ResizeFromEmpty DEF Supported
<1>5. CASE s.at = "get_large"
  <2>1. s.i + 1 \in DOMAIN s.ids
    BY <1>5, ScriptFacts DEF Placed
  <2>2. c.op = "get" /\ c.inum = s.ids[s.i + 1]
    BY <1>5 DEF AskedAt
  <2>3. c.inum \in Inums /\ c.inum # 0
    BY <1>5, <2>1, <2>2, ScriptFacts DEF Script1
  <2> QED
    BY <2>2, <2>3 DEF Supported
<1> QED
  BY <1>1, <1>2, <1>3, <1>4, <1>5 DEF Part1, Looping

LEMMA AskSupported23 ==
  ASSUME ClientInv, NEW con \in FilesOn, NEW c \in Requests, AskedAt(s, c), program # "part1",
         s.at \in Part2 \cup Part3, Script23(s, con, FALSE)
  PROVE  Supported(c, con)
<1>1. s.id \in Inums /\ s.at \in {"prepare", "measure", "first_get", "first_put", "varied_put", "measure_put"}
  BY ScriptFacts DEF AskedAt, Part2, Part3, Waiting
<1>2. CASE s.at \in {"prepare", "measure"}
  <2>1. c.op = "create"
    BY <1>2 DEF AskedAt, Creating
  <2>2. 1 \in Inums \ {0}
    BY RoomAssumption, LayoutAssumption, TestersAssumption DEF Inums
  <2>3. con[1] = Nil
    BY <1>2, <2>2 DEF Script23
  <2> QED
    BY <2>1, <2>2, <2>3 DEF Supported
<1>3. CASE s.at = "first_get"
  BY <1>1, <1>3 DEF AskedAt, Supported, Script23, Part2
<1>4. CASE s.at \in {"first_put", "varied_put", "measure_put"}
  <2>1. c.op = "put" /\ c.inum = s.id /\ s.id # 0 /\ con[s.id] # Nil
    BY <1>4 DEF AskedAt, Script23, Part2, Part3
  <2>2. c.file \in LargeFiles \cup DoubleFiles
    <3>1. s.at \in {"varied_put", "measure_put"} => s.strs[1] \in LargeFiles \cup DoubleFiles
      BY ScriptFacts DEF Placed, Script23, Part2, Part3
    <3> QED
      BY <1>4, <3>1 DEF AskedAt
  <2>3. SupportedResize(Size(con[s.id].file), Size(c.file))
    <3>1. con[s.id].file = EmptyFile \/ con[s.id].file \in LargeFiles \cup DoubleFiles
      BY <1>4 DEF Script23
    <3> QED
      BY <2>2, <3>1, FileFacts, ResizeFromEmpty, ResizeLarge
  <2> QED
    BY <1>1, <2>1, <2>3 DEF Supported
<1> QED
  BY <1>1, <1>2, <1>3, <1>4

(* The calls of the threads are supported, and beside each other.          *)
LEMMA WorkSupported ==
  ASSUME ClientInv, InodeInv, TestInv, NEW w \in Workers, s.at \in Waiting, NEW c, c.inum = s.id,
         c.op = "get" \/ (c.op = "put" /\ c.file \in {s.strs[1], s.strs[2]})
  PROVE  ApartWorkload(c, contents, Running(w))
<1>1. s.id \in Inums /\ program # "part1" /\ s.at \in Part2 \cup Part3 /\ s.at # "end" /\ Len(s.strs) = 2
  BY PartOf, ScriptFacts DEF Waiting, Part2, Part3, Placed
<1>2. Script23(s, contents, reply[main] # Nil)
  BY <1>1 DEF TestInv, Script, Known
<1>3. /\ s.id # 0 /\ contents[s.id] # Nil /\ contents[s.id].file \in {s.strs[1], s.strs[2]}
      /\ s.strs[1] \in LargeFiles \cup DoubleFiles /\ s.strs[2] \in LargeFiles \cup DoubleFiles
  BY <1>1, <1>2, ScriptFacts DEF Script23, Waiting
<1>4. Supported(c, contents)
  <2>1. c.op = "put" => SupportedResize(Size(contents[s.id].file), Size(c.file))
    BY <1>3, ResizeLarge
  <2> QED
    BY <1>1, <1>3, <2>1 DEF Supported
<1>5. ASSUME NEW d \in Running(w) PROVE Compatible(c, d)
  <2>1. PICK u \in Threads \ {w} : d = call[u] /\ call[u] # Nil
    BY <1>5 DEF Running
  <2>2. pc[u] # "idle"
    BY <2>1, LocalFact DEF LocalOK
  <2>3. u \in Workers
    BY <2>2, TestersAssumption DEF ClientInv, MainCall, AskedAt
  <2>4. d.inum = s.id /\ (d.op = "get" \/ (d.op = "put" /\ d.file \in {s.strs[1], s.strs[2]}))
    BY <2>1, <2>2, <2>3 DEF TestInv, AtWork, Working, Workers
  <2>5. c.op = "put" /\ d.op = "put" =>
          SupportedResize(Size(c.file), Size(d.file)) /\ SupportedResize(Size(d.file), Size(c.file))
    BY <1>3, <2>4, ResizeLarge
  <2> QED
    BY <2>4, <2>5 DEF Compatible
<1> QED
  BY <1>4, <1>5 DEF ApartWorkload

(* main calls, returns, or joins.                                          *)
LEMMA MainSteps ==
  ASSUME Main
  PROVE  /\ UNCHANGED <<program, err>>
         /\ \/ UNCHANGED <<s, left>> /\ \E c, label : Begin(main, c, label)
            \/ Return(main)
            \/ UNCHANGED <<vars, left>>
<1> USE DEF Ask, Then, Create, Join, CallCreate, CallPut, CallGet, CallGetattr, CallRemove
<1>1. CASE test_create_and_getattr \/ test_put_and_get
  BY <1>1 DEF test_create_and_getattr, test_put_and_get
<1>2. CASE test_indirect \/ test_remove
  BY <1>2 DEF test_indirect, test_remove
<1>3. CASE test_concurrent
  BY <1>3 DEF test_concurrent
<1>4. CASE test_latency
  BY <1>4 DEF test_latency
<1> QED
  BY <1>1, <1>2, <1>3, <1>4 DEF Main

(* What a thread asks for.                                                 *)
Asked(w, c) ==
  /\ c.inum = s.id
  /\ c.op = "get" \/ (c.op = "put" /\ c.file \in {s.strs[1], s.strs[2]})
  /\ c.op = "get" <=> w \in Readers

LEMMA WorkerCalls ==
  ASSUME ClientInv, InodeInv, NEW w \in Workers, Work(w), ~Return(w)
  PROVE  /\ s.at \in Waiting /\ Asked(w, call'[w]) /\ UNCHANGED <<contents, reply, program, s, err>>
         /\ \A u \in Threads : u # w => pc'[u] = pc[u] /\ call'[u] = call[u]
<1>1. /\ left[w] > 0 /\ UNCHANGED <<program, s, err>>
      /\ \/ w \in Writers /\ \E k \in DOMAIN s.strs : CallPut(w, s.id, s.strs[k])
         \/ w \in Readers /\ CallGet(w, s.id)
  BY DEF Work
<1>2. s.at \in Waiting
  BY <1>1 DEF ClientInv, Joined
<1>3. \A k \in DOMAIN s.strs : s.strs[k] \in {s.strs[1], s.strs[2]}
  <2>1. Len(s.strs) = 2
    BY <1>2, ScriptFacts DEF Placed
  <2> QED
    BY <2>1, ScriptFacts
<1>4. w \in Threads /\ DOMAIN pc = Threads /\ DOMAIN call = Threads /\ (w \in Writers => w \notin Readers)
  BY TestersAssumption DEF InodeInv, Arrays
<1>5. ASSUME NEW k \in DOMAIN s.strs, w \in Writers, CallPut(w, s.id, s.strs[k])
      PROVE  Begin(w, Request("put", s.id, 0, s.strs[k]), "w_enter")
  BY <1>5, OwnFile DEF CallPut
<1>6. ASSUME w \in Readers, CallGet(w, s.id) PROVE Begin(w, Request("get", s.id, 0, EmptyFile), "r_enter")
  BY <1>6, OwnFile DEF CallGet
<1>7. PICK c, label : /\ Begin(w, c, label)
                      /\ \/ w \in Readers /\ c = Request("get", s.id, 0, EmptyFile)
                         \/ w \in Writers /\ \E k \in DOMAIN s.strs : c = Request("put", s.id, 0, s.strs[k])
  BY <1>1, <1>5, <1>6
<1>8. call'[w] = c /\ UNCHANGED <<contents, reply>> /\ \A u \in Threads : u # w => pc'[u] = pc[u] /\ call'[u] = call[u]
  BY <1>4, <1>7 DEF Begin, Goto
<1>9. Asked(w, c)
  BY <1>3, <1>4, <1>7 DEF Asked, Request
<1> QED
  BY <1>1, <1>2, <1>8, <1>9

LEMMA TestersApart ==
  ASSUME ClientInv, ClientInv', InodeInv, InodeInv', TestInv, [TestNext]_testVars,
         \A t \in Threads : pc[t] = "idle" /\ pc'[t] # "idle" => ~Overruns(call'[t], contents)
  PROVE  Apart
<1> SUFFICES ASSUME NEW t \in Threads, pc[t] = "idle", pc'[t] # "idle"
             PROVE  ApartWorkload(call'[t], contents, Running(t))
  BY DEF Apart
<1>1. main \in Threads /\ main \notin Workers /\ Threads = Workers \cup {main} /\ DOMAIN pc = Threads
  BY TestersAssumption DEF InodeInv, Arrays
<1>2. TestNext
  BY DEF testVars, vars
<1>3. CASE Main
  <2>1. t = main /\ UNCHANGED s
    BY <1>1, <1>3, MainSteps DEF Begin, Return, Goto, vars
  <2>2. AskedAt(s, call'[main])
    BY <2>1 DEF ClientInv, MainCall
  <2>3. call'[main] \in Requests
    <3>1. LocalOK(pc[main], loc[main], call[main])'
      BY <1>1 DEF InodeInv, Locals
    <3> QED
      BY <2>1, <3>1 DEF LocalOK
  <2>4. contents \in FilesOn
    BY DEF InodeInv, Shared, FilesOn
  <2>5. reply[main] = Nil
    BY <1>1, <2>1 DEF TestInv, AnswerInv, RepliesOK, Answered
  <2>6. s.at # "end" /\ s.at \notin Waiting
    BY <2>2 DEF AskedAt
  <2>7. Supported(call'[main], contents)
    <3>1. CASE program = "part1"
      <4>1. Script1(s, contents, FALSE)
        BY <2>5, <3>1 DEF TestInv, Script, Known
      <4> QED
        BY <1>1, <2>1, <2>2, <2>3, <2>4, <2>6, <3>1, <4>1, PartOf, AskSupported1
    <3>2. CASE program # "part1"
      <4>1. Script23(s, contents, FALSE)
        BY <2>5, <3>2 DEF TestInv, Script, Known
      <4> QED
        BY <2>2, <2>3, <2>4, <2>6, <3>2, <4>1, PartOf, AskSupported23
    <3> QED
      BY <3>1, <3>2
  <2>8. Running(main) = {}
    <3>1. \A w \in Workers : pc[w] = "idle"
      BY <2>6 DEF ClientInv, Joined
    <3>2. \A w \in Workers : call[w] = Nil
      BY <1>1, <3>1, LocalFact DEF LocalOK
    <3> QED
      BY <1>1, <3>2 DEF Running
  <2> QED
    BY <2>1, <2>7, <2>8 DEF ApartWorkload
<1>4. ASSUME NEW w \in Workers, Work(w) PROVE ApartWorkload(call'[t], contents, Running(t))
  <2>1. ~Return(w)
    BY <1>1, <1>4 DEF Return, Goto
  <2>2. s.at \in Waiting /\ Asked(w, call'[w]) /\ \A u \in Threads : u # w => pc'[u] = pc[u]
    BY <1>4, <2>1, WorkerCalls
  <2>3. t = w
    BY <2>2
  <2> QED
    BY <2>2, <2>3, WorkSupported DEF Asked
<1>5. ASSUME NEW u \in Threads, InFileSystem(u) PROVE FALSE
  BY <1>1, <1>5, InsideStep DEF InFileSystem
<1> QED
  BY <1>2, <1>3, <1>4, <1>5 DEF TestNext
-----------------------------------------------------------------------------
(* main has its answer, and goes on with what it knows.                    *)
Knowing ==
  /\ contents \in FilesOn /\ call[main] \in Requests /\ AskedAt(s, call[main])
  /\ Agrees(contents, call[main], answer) /\ Known(program, s, contents, TRUE)
  /\ contents' = contents /\ reply'[main] = Nil /\ pc[main] # "idle"
  /\ \A w \in Workers : pc[w] = "idle" /\ pc'[w] = "idle"

LEMMA ThenKnowing == ASSUME ClientInv, InodeInv, TestInv, Return(main) PROVE Knowing
<1>1. main \in Threads /\ main \notin Workers /\ Workers \subseteq Threads
      /\ DOMAIN reply = Threads /\ DOMAIN pc = Threads
  BY TestersAssumption DEF ClientInv, TestTyped, InodeInv, Arrays
<1>2. pc[main] = "return" /\ contents' = contents /\ reply'[main] = Nil /\ \A w \in Workers : pc'[w] = pc[w]
  BY <1>1 DEF Return, Goto
<1>3. AskedAt(s, call[main])
  BY <1>2 DEF ClientInv, MainCall
<1>4. \A w \in Workers : pc[w] = "idle"
  BY <1>3 DEF AskedAt, ClientInv, Joined
<1>5. call[main] \in Requests
  BY <1>1, <1>2, LocalFact DEF LocalOK
<1>6. reply[main] # Nil
  BY <1>1, <1>2 DEF TestInv, AnswerInv, RepliesOK, Answered
<1>7. Agrees(contents, call[main], answer) /\ Known(program, s, contents, TRUE)
  BY <1>6 DEF TestInv, MainAnswer, Script, answer
<1>8. contents \in FilesOn
  BY DEF InodeInv, Shared, FilesOn
<1> QED
  BY <1>2, <1>3, <1>4, <1>5, <1>7, <1>8 DEF Knowing

LEMMA GoesOn1 ==
  ASSUME NEW q, NEW con, con[0] # Nil, Script1(q, con, FALSE), q.at \in Part1
  PROVE  Known("part1", q, con, FALSE)
  BY DEF Known, Part1, Looping

LEMMA CreateGetattrThen ==
  ASSUME ClientInv, Knowing, program = "part1", test_create_and_getattr
  PROVE  Known("part1", s', contents, FALSE)
<1> DEFINE c == call[main]
           con == contents
           files == \A i \in Inums : con[i] # Nil => con[i].file \in {EmptyFile} \cup SmallFiles \cup Unterminated
<1>1. con \in FilesOn /\ AskedAt(s, c) /\ Agrees(con, c, answer) /\ Script1(s, con, TRUE) /\ con[0] # Nil
      /\ pc[main] # "idle"
  BY DEF Knowing, Known
<1>2. s.at \in {"create", "created"} /\ s.i \in Nat /\ s.i < FILE_NUM /\ FILE_NUM \in Nat
  BY ScriptFacts DEF test_create_and_getattr, Ask, Then, Placed
<1>3. files /\ s.total_score = 0 /\ Cardinality(Present(con)) \in Nat
      /\ \A i \in Inums : con[i] # Nil => con[i].file = EmptyFile
  BY <1>1, <1>2, PresentFacts DEF Script1
<1>4. CASE s.at = "create"
  <2>1. s' = [s EXCEPT !.at = IF answer = 0 THEN "end" ELSE "created", !.id = answer, !.kind = c.type]
    BY <1>1, <1>4 DEF test_create_and_getattr, Ask, Then, CallCreate, Begin
  <2>2. answer \in Inums \ {0} /\ con[answer] = [type |-> c.type, file |-> EmptyFile] /\ c.type \in Types
    BY <1>1, <1>4 DEF AskedAt, Agrees, Creating
  <2>3. s'.at = "created" /\ s'.id = answer /\ s'.kind = c.type /\ s'.i = s.i /\ s'.total_score = s.total_score
    BY <2>1, <2>2, ScriptFacts DEF Scripts
  <2>4. con[answer] # Nil
    BY <2>2, NilAssumption DEF Records, Stored
  <2>5. Cardinality(Present(con)) <= 1 + Made(s') + 0
    <3>1. Cardinality(Present(con)) <= 1 + Made(s) + 1
      BY <1>1, <1>4 DEF Script1, Part1, Creating
    <3>2. Made(s) = s.i /\ Made(s') = s.i + 1
      BY <1>4, <2>3 DEF Made
    <3> QED
      BY <1>2, <1>3, <3>1, <3>2
  <2>6. Script1(s', con, FALSE)
    BY <1>3, <2>2, <2>3, <2>4, <2>5 DEF Script1, Creating
  <2> QED
    BY <1>1, <2>3, <2>6, GoesOn1 DEF Part1
<1>5. CASE s.at = "created"
  <2>1. con[s.id] # Nil /\ con[s.id].type = s.kind /\ s.id \in Inums /\ c.op = "getattr" /\ c.inum = s.id
    BY <1>1, <1>5, ScriptFacts DEF Script1, AskedAt
  <2>2. answer[1] = s.kind
    BY <1>1, <2>1 DEF Agrees, There
  <2>3. s' = NextFile("create", "attr_put", 10)
    BY <1>1, <1>5, <2>2 DEF test_create_and_getattr, Ask, Then, CallGetattr, Begin
  <2>4. Advances(s', "create", "attr_put", 10)
    <3>1. "create" \in Labels /\ "attr_put" \in Labels /\ 10 \in Nat
      BY DEF Labels, Creating, Looping
    <3> QED
      BY <2>3, <3>1, NextFileTyped
  <2>5. Cardinality(Present(con)) <= 1 + (s.i + 1)
    <3>1. Cardinality(Present(con)) <= 1 + Made(s) + 0
      BY <1>1, <1>5 DEF Script1, Part1, Creating
    <3>2. Made(s) = s.i + 1
      BY <1>5 DEF Made
    <3> QED
      BY <1>2, <1>3, <3>1, <3>2
  <2>6. CASE s.i + 1 < FILE_NUM
    <3>1. s'.at = "create" /\ s'.i = s.i + 1 /\ s'.total_score = 0
      BY <1>2, <1>3, <2>4, <2>6 DEF Advances
    <3>2. Cardinality(Present(con)) <= 1 + Made(s') + 0
      <4>1. Made(s') = s.i + 1
        BY <3>1 DEF Made
      <4> QED
        BY <1>2, <1>3, <2>5, <4>1
    <3>3. Script1(s', con, FALSE)
      BY <1>3, <3>1, <3>2 DEF Script1
    <3> QED
      BY <1>1, <3>1, <3>3, GoesOn1 DEF Part1
  <2>7. CASE ~(s.i + 1 < FILE_NUM)
    <3>1. s'.at = "attr_put" /\ s'.i = 0 /\ s'.total_score = 10
      BY <1>2, <1>3, <2>4, <2>7 DEF Advances
    <3>2. Cardinality(Present(con)) <= 1 + Made(s') + 0
      <4>1. Made(s') = FILE_NUM /\ s.i + 1 = FILE_NUM
        BY <1>2, <2>7, <3>1 DEF Made
      <4> QED
        BY <1>2, <1>3, <2>5, <4>1
    <3>3. \A j \in 0..(FILE_NUM - 1) : ~(j < s'.i) /\ Fresh(con, j)
      BY <1>3, <3>1 DEF Fresh, There
    <3>4. Script1(s', con, FALSE)
      BY <1>3, <3>1, <3>2, <3>3 DEF Script1, Creating
    <3> QED
      BY <1>1, <3>1, <3>4, GoesOn1 DEF Part1, Looping
  <2> QED
    BY <2>6, <2>7
<1> QED
  BY <1>2, <1>4, <1>5

(* main goes to another file of the loops of test_put_and_get.             *)
LEMMA PutGetAdvance ==
  ASSUME ClientInv, program = "part1", NEW con, con[0] # Nil, Script1(s, con, TRUE),
         NEW q, NEW head, NEW exit, NEW points,
         \/ s.at \in {"attr_put", "put"} /\ head = "attr_put" /\ exit = "attr_get" /\ points = 0
         \/ s.at \in {"attr_get", "get"} /\ head = "attr_get" /\ exit = "large" /\ points = 10,
         \/ s.i + 1 < FILE_NUM /\ q.at = head /\ q.i = s.i + 1 /\ q.total_score = s.total_score
         \/ s.i + 1 >= FILE_NUM /\ q.at = exit /\ q.i = 0 /\ q.total_score = s.total_score + points,
         q.ids = <<>>, q.strs = <<>>,
         \A j \in 0..(FILE_NUM - 1) : (j <= s.i \/ s.at \in {"attr_get", "get"}) => Holds(q, con, j)
  PROVE  Known("part1", q, con, FALSE)
<1>1. /\ s.i \in Nat /\ FILE_NUM \in Nat /\ s.i < FILE_NUM /\ Cardinality(Present(con)) \in Nat
      /\ s.at \in {"attr_put", "put", "attr_get", "get"}
  BY ScriptFacts, PresentFacts DEF Placed, Looping
<1>2. \A i \in Inums : con[i] # Nil => con[i].file \in {EmptyFile} \cup SmallFiles \cup Unterminated
  BY DEF Script1
<1>3. s.total_score = 10
  BY <1>1 DEF Script1
<1>4. Cardinality(Present(con)) <= 1 + FILE_NUM
  <2>1. Cardinality(Present(con)) <= 1 + Made(s) + 0
    BY <1>1 DEF Script1, Part1, Looping, Creating
  <2>2. Made(s) = FILE_NUM
    BY <1>1 DEF Made
  <2> QED
    BY <1>1, <2>1, <2>2
<1>5. q.at \in {"attr_put", "attr_get", "large"} /\ Made(q) = FILE_NUM
  <2>1. q.at \in {"attr_put", "attr_get", "large"}
    OBVIOUS
  <2>2. Len(q.ids) = 0 /\ FILE_NUM + 0 = FILE_NUM
    BY <1>1
  <2> QED
    BY <2>1, <2>2 DEF Made
<1>6. Cardinality(Present(con)) <= 1 + Made(q) + 0
  BY <1>1, <1>4, <1>5
<1>7. CASE q.at = "attr_put"
  <2>1. s.at \in {"attr_put", "put"} /\ q.i = s.i + 1 /\ q.total_score = 10
    BY <1>3, <1>7
  <2>2. ASSUME NEW j \in 0..(FILE_NUM - 1), j < q.i PROVE Holds(q, con, j)
    BY <1>1, <2>1, <2>2
  <2>3. ASSUME NEW j \in 0..(FILE_NUM - 1), j >= q.i PROVE Fresh(con, j)
    <3>1. j > s.i
      BY <1>1, <2>1, <2>3
    <3> QED
      BY <2>1, <3>1 DEF Script1
  <2>4. \A j \in 0..(FILE_NUM - 1) : (j < q.i => Holds(q, con, j)) /\ (j > q.i \/ j = q.i => Fresh(con, j))
    BY <1>1, <2>1, <2>2, <2>3
  <2>5. Script1(q, con, FALSE)
    BY <1>2, <1>6, <1>7, <2>1, <2>4 DEF Script1, Creating
  <2> QED
    BY <1>7, <2>5, GoesOn1 DEF Part1, Looping
<1>8. CASE q.at = "attr_get"
  <2>1. q.total_score = 10
    BY <1>3, <1>8
  <2>2. ASSUME NEW j \in 0..(FILE_NUM - 1) PROVE Holds(q, con, j)
    <3>1. CASE s.at \in {"attr_get", "get"}
      BY <3>1
    <3>2. CASE s.at \in {"attr_put", "put"}
      <4>1. s.i + 1 >= FILE_NUM
        BY <1>8, <3>2
      <4> QED
        BY <1>1, <4>1
    <3> QED
      BY <1>1, <3>1, <3>2
  <2>3. Script1(q, con, FALSE)
    BY <1>2, <1>6, <1>8, <2>1, <2>2 DEF Script1, Creating
  <2> QED
    BY <1>8, <2>3, GoesOn1 DEF Part1, Looping
<1>9. CASE q.at = "large"
  <2>1. q.total_score = 20
    BY <1>3, <1>9
  <2>2. DOMAIN q.ids = {} /\ DOMAIN q.strs = {}
    OBVIOUS
  <2>3. Script1(q, con, FALSE)
    BY <1>2, <1>6, <1>9, <2>1, <2>2 DEF Script1, Creating
  <2> QED
    BY <1>9, <2>3, GoesOn1 DEF Part1
<1> QED
  BY <1>5, <1>7, <1>8, <1>9

LEMMA PutGetThen ==
  ASSUME ClientInv, Knowing, program = "part1", test_put_and_get
  PROVE  Known("part1", s', contents, FALSE)
<1> DEFINE c == call[main]
           con == contents
           f == There(con, s.i + 2)
<1>1. con \in FilesOn /\ AskedAt(s, c) /\ Agrees(con, c, answer) /\ Script1(s, con, TRUE) /\ con[0] # Nil
      /\ pc[main] # "idle"
  BY DEF Knowing, Known
<1>2. /\ s.at \in {"attr_put", "put", "attr_get", "get"} /\ s.i \in Nat /\ s.i < FILE_NUM /\ FILE_NUM \in Nat
      /\ s.ids = <<>> /\ s.strs = <<>> /\ s.i \in 0..(FILE_NUM - 1)
  BY ScriptFacts DEF test_put_and_get, Ask, Then, Placed, Looping
<1>3. /\ s.at \in {"attr_put", "put"} => \A j \in 0..(FILE_NUM - 1) : j < s.i => Holds(s, con, j)
      /\ s.at \in {"attr_get", "get"} => \A j \in 0..(FILE_NUM - 1) : Holds(s, con, j)
  BY <1>1 DEF Script1
<1>4. /\ Advances(NextFile("attr_put", "attr_get", 0), "attr_put", "attr_get", 0)
      /\ Advances(NextFile("attr_get", "large", 10), "attr_get", "large", 10)
  <2>1. "attr_put" \in Labels /\ "attr_get" \in Labels /\ "large" \in Labels
    BY DEF Labels, Looping, Creating
  <2> QED
    BY <2>1, NextFileTyped
<1>5. "put" \in Labels /\ "get" \in Labels
  BY DEF Labels, Looping
<1>6. ASSUME NEW label \in {"put", "get"}, s' = To(label), s.at = IF label = "put" THEN "attr_put" ELSE "attr_get", f # Nil,
             f.type = T_FILE
      PROVE  Known("part1", s', contents, FALSE)
  <2>1. s'.at = label /\ s'.i = s.i /\ s'.contents = s.contents /\ s'.total_score = s.total_score
    BY <1>5, <1>6, ToTyped
  <2>2. IsFile(con, s'.i + 2)
    BY <1>6, <2>1 DEF IsFile
  <2>3. Made(s') = Made(s) /\ s.at \in {"attr_put", "attr_get"}
    BY <1>6, <2>1 DEF Made
  <2>4. Cardinality(Present(con)) <= 1 + Made(s') + 0
    BY <1>1, <2>3 DEF Script1, Part1, Looping, Creating
  <2>5. \A j : Holds(s', con, j) = Holds(s, con, j)
    BY <2>1 DEF Holds
  <2>6. Script1(s', con, FALSE)
    BY <1>1, <1>6, <2>1, <2>2, <2>4, <2>5 DEF Script1, Creating
  <2> QED
    BY <1>1, <1>6, <2>1, <2>6, GoesOn1 DEF Part1, Looping
<1>7. ASSUME NEW head, NEW exit, NEW points, Advances(s', head, exit, points), Holds(s, con, s.i),
             \/ s.at = "attr_put" /\ head = "attr_put" /\ exit = "attr_get" /\ points = 0
             \/ s.at \in {"attr_get", "get"} /\ head = "attr_get" /\ exit = "large" /\ points = 10
      PROVE  Known("part1", s', contents, FALSE)
  <2>1. /\ s'.ids = <<>> /\ s'.strs = <<>> /\ s'.contents = s.contents
        /\ \/ s.i + 1 < FILE_NUM /\ s'.at = head /\ s'.i = s.i + 1 /\ s'.total_score = s.total_score
           \/ s.i + 1 >= FILE_NUM /\ s'.at = exit /\ s'.i = 0 /\ s'.total_score = s.total_score + points
    BY <1>2, <1>7 DEF Advances
  <2>2. \A j \in 0..(FILE_NUM - 1) : (j <= s.i \/ s.at \in {"attr_get", "get"}) => Holds(s, con, j)
    BY <1>2, <1>3, <1>7
  <2>3. \A j \in 0..(FILE_NUM - 1) : (j <= s.i \/ s.at \in {"attr_get", "get"}) => Holds(s', con, j)
    BY <2>1, <2>2 DEF Holds
  <2> QED
    BY <1>1, <1>7, <2>1, <2>3, PutGetAdvance
<1>8. CASE s.at \in {"attr_put", "attr_get"}
  <2>1. c.op = "getattr" /\ c.inum = s.i + 2
    BY <1>1, <1>8 DEF AskedAt
  <2>2. answer[1] = IF f = Nil THEN 0 ELSE f.type
    BY <1>1, <2>1 DEF Agrees
  <2>3. CASE answer[1] = T_FILE
    <3>1. f # Nil /\ f.type = T_FILE
      BY <2>2, <2>3 DEF T_FILE
    <3>2. s' = To(IF s.at = "attr_put" THEN "put" ELSE "get")
      BY <1>1, <1>8, <2>3 DEF test_put_and_get, Ask, Then, CallGetattr, Begin, Compared
    <3> QED
      BY <1>6, <1>8, <3>1, <3>2
  <2>4. CASE answer[1] # T_FILE
    <3>1. Holds(s, con, s.i)
      BY <2>2, <2>4 DEF Holds
    <3>2. s' = IF s.at = "attr_put" THEN NextFile("attr_put", "attr_get", 0) ELSE NextFile("attr_get", "large", 10)
      BY <1>1, <1>8, <2>4 DEF test_put_and_get, Ask, Then, CallGetattr, Begin, Compared
    <3> QED
      BY <1>4, <1>7, <1>8, <3>1, <3>2
  <2> QED
    BY <2>3, <2>4
<1>9. CASE s.at = "put"
  <2> DEFINE n == NextFile("attr_put", "attr_get", 0)
  <2>1. s' = [n EXCEPT !.contents[s.i] = c.file]
    BY <1>1, <1>9 DEF test_put_and_get, Ask, Then, CallPut, Begin
  <2>2. c.op = "put" /\ c.inum = s.i + 2 /\ c.file \in SmallFiles /\ IsFile(con, s.i + 2)
    BY <1>1, <1>9 DEF AskedAt, Script1
  <2>3. c.file \in Files /\ Size(c.file) <= MaxBytes
    BY <2>2, FileFacts, TestersAssumption DEF Stored
  <2>4. f.file = c.file
    BY <1>1, <2>2, <2>3 DEF Agrees, IsFile
  <2>5. Advances(n, "attr_put", "attr_get", 0)
    BY <1>4
  <2> HIDE DEF n
  <2>6. n \in Scripts /\ n.contents = s.contents /\ s.contents \in [0..(FILE_NUM - 1) -> Files \cup {Nil}]
    BY <2>5, ScriptFacts DEF Advances
  <2>7. s' = [n EXCEPT !.contents = [s.contents EXCEPT ![s.i] = c.file]]
    BY <2>1, <2>6
  <2>8. s'.at = n.at /\ s'.i = n.i /\ s'.ids = n.ids /\ s'.strs = n.strs /\ s'.total_score = n.total_score
        /\ s'.contents = [s.contents EXCEPT ![s.i] = c.file]
    BY <2>6, <2>7 DEF Scripts
  <2>9. ASSUME NEW j \in 0..(FILE_NUM - 1), j <= s.i PROVE Holds(s', con, j)
    <3>1. CASE j = s.i
      <4>1. s'.contents[j] = c.file
        BY <2>6, <2>8, <3>1
      <4> QED
        BY <2>3, <2>4, <3>1, <4>1 DEF Holds
    <3>2. CASE j # s.i
      <4>1. s'.contents[j] = s.contents[j] /\ j < s.i
        BY <1>2, <2>6, <2>8, <2>9, <3>2
      <4> QED
        BY <1>3, <1>9, <4>1 DEF Holds
    <3> QED
      BY <3>1, <3>2
  <2>10. /\ s'.ids = <<>> /\ s'.strs = <<>>
         /\ \/ s.i + 1 < FILE_NUM /\ s'.at = "attr_put" /\ s'.i = s.i + 1 /\ s'.total_score = s.total_score
            \/ s.i + 1 >= FILE_NUM /\ s'.at = "attr_get" /\ s'.i = 0 /\ s'.total_score = s.total_score + 0
    BY <1>2, <2>5, <2>8 DEF Advances
  <2> QED
    BY <1>1, <1>9, <2>9, <2>10, PutGetAdvance
<1>10. CASE s.at = "get"
  <2>1. IsFile(con, s.i + 2) /\ Holds(s, con, s.i) /\ c.op = "get" /\ c.inum = s.i + 2
    BY <1>1, <1>2, <1>10 DEF Script1, AskedAt
  <2>2. answer = s.contents[s.i]
    BY <1>1, <2>1 DEF Agrees, IsFile, Holds
  <2>3. s' = NextFile("attr_get", "large", 10)
    BY <1>1, <1>10, <2>2 DEF test_put_and_get, Ask, Then, CallGet, Begin
  <2> QED
    BY <1>4, <1>7, <1>10, <2>1, <2>3
<1> QED
  BY <1>2, <1>8, <1>9, <1>10

(* test_indirect has made another file, or has put it.                     *)
LEMMA LargeMade ==
  ASSUME ClientInv, program = "part1", s.at = "large", NEW con, Script1(s, con, TRUE),
         NEW v \in Inums \ {0}, con[v] # Nil, con[v].file = EmptyFile,
         NEW q, q.at = "put_large", q.ids = Append(s.ids, v), q.strs = s.strs, q.total_score = s.total_score
  PROVE  Script1(q, con, FALSE)
<1> DEFINE n == Len(s.ids)
<1>1. s.ids \in Seq(Inums) /\ n \in {0, 1} /\ n \in Nat /\ Len(s.strs) = n /\ DOMAIN s.ids = 1..n /\ DOMAIN s.strs = 1..n
  BY ScriptFacts DEF Placed
<1>2. /\ Len(q.ids) = n + 1 /\ DOMAIN q.ids = 1..(n + 1) /\ q.ids[n + 1] = v
      /\ \A k \in 1..n : q.ids[k] = s.ids[k]
  BY <1>1, AppendProperties
<1>3. /\ s.total_score = 20
      /\ \A k \in 1..n : s.ids[k] # 0 /\ con[s.ids[k]] # Nil /\ con[s.ids[k]].file = s.strs[k] /\ s.strs[k] \in Unterminated
      /\ \A k, m \in 1..n : s.ids[k] = s.ids[m] => k = m
  BY <1>1 DEF Script1
<1>4. \A k \in 1..n : s.ids[k] # v
  BY <1>3, FileFacts
<1>5. \A k \in 1..(n + 1) : k \in 1..n \/ k = n + 1
  BY <1>1
<1>6. Cardinality(Present(con)) <= 1 + Made(q) + 0
  <2>1. Cardinality(Present(con)) <= 1 + Made(s) + 1
    BY DEF Script1, Part1, Creating
  <2>2. Made(s) = FILE_NUM + n
    BY DEF Made
  <2>3. Made(q) = FILE_NUM + (n + 1)
    BY <1>2 DEF Made
  <2>4. Cardinality(Present(con)) \in Nat /\ FILE_NUM \in Nat
    BY PresentFacts, ScriptFacts
  <2> QED
    BY <1>1, <2>1, <2>2, <2>3, <2>4
<1> HIDE DEF n
<1>7. \A k \in DOMAIN q.ids : q.ids[k] # 0 /\ con[q.ids[k]] # Nil
  BY <1>2, <1>3, <1>5
<1>8. \A k, m \in DOMAIN q.ids : q.ids[k] = q.ids[m] => k = m
  BY <1>2, <1>3, <1>4, <1>5
<1>9. \A k \in DOMAIN q.strs : con[q.ids[k]].file = q.strs[k] /\ q.strs[k] \in Unterminated
  BY <1>1, <1>2, <1>3
<1>10. con[q.ids[Len(q.ids)]].file = EmptyFile
  BY <1>2
<1> QED
  BY <1>3, <1>6, <1>7, <1>8, <1>9, <1>10 DEF Script1, Creating

LEMMA LargePut ==
  ASSUME ClientInv, program = "part1", s.at = "put_large", NEW con, Script1(s, con, TRUE),
         NEW file, file \in Unterminated, con[s.ids[Len(s.ids)]].file = file,
         NEW q, q.at = "large" \/ q.at = "get_large", q.ids = s.ids, q.strs = Append(s.strs, file), q.total_score = s.total_score
  PROVE  Script1(q, con, FALSE)
<1> DEFINE n == Len(s.strs)
<1>1. s.strs \in Seq(Files) /\ n \in Nat /\ Len(s.ids) = n + 1 /\ DOMAIN s.ids = 1..(n + 1) /\ DOMAIN s.strs = 1..n
      /\ file \in Files
  <2>1. s.strs \in Seq(Files) /\ s.ids \in Seq(Inums) /\ n = Len(s.ids) - 1 /\ file \in Files
    BY ScriptFacts, TestersAssumption DEF Placed
  <2>2. n \in Nat /\ Len(s.ids) \in Nat
    BY <2>1
  <2>3. Len(s.ids) = n + 1
    BY <2>1, <2>2
  <2> QED
    BY <2>1, <2>2, <2>3
<1>2. DOMAIN q.strs = 1..(n + 1) /\ q.strs[n + 1] = file /\ \A k \in 1..n : q.strs[k] = s.strs[k]
  BY <1>1, AppendProperties
<1>3. /\ s.total_score = 20
      /\ \A k \in DOMAIN s.ids : s.ids[k] # 0 /\ con[s.ids[k]] # Nil
      /\ \A k \in 1..n : con[s.ids[k]].file = s.strs[k] /\ s.strs[k] \in Unterminated
      /\ \A k, m \in DOMAIN s.ids : s.ids[k] = s.ids[m] => k = m
  BY <1>1 DEF Script1
<1>4. \A k \in 1..(n + 1) : k \in 1..n \/ k = n + 1
  BY <1>1
<1>5. Cardinality(Present(con)) <= 1 + Made(q) + 0
  <2>1. Cardinality(Present(con)) <= 1 + Made(s) + 0
    BY DEF Script1, Part1, Creating
  <2>2. Made(s) = Made(q)
    BY DEF Made
  <2> QED
    BY <2>1, <2>2
<1> HIDE DEF n
<1>6. \A k \in DOMAIN q.strs : con[q.ids[k]].file = q.strs[k] /\ q.strs[k] \in Unterminated
  BY <1>1, <1>2, <1>3, <1>4
<1>7. \A i \in Inums : con[i] # Nil => con[i].file \in {EmptyFile} \cup SmallFiles \cup Unterminated
  BY DEF Script1
<1> QED
  BY <1>3, <1>5, <1>6, <1>7 DEF Script1, Creating

LEMMA IndirectThen ==
  ASSUME ClientInv, Knowing, program = "part1", test_indirect
  PROVE  Known("part1", s', contents, FALSE)
<1> DEFINE c == call[main]
           con == contents
<1>1. con \in FilesOn /\ AskedAt(s, c) /\ Agrees(con, c, answer) /\ Script1(s, con, TRUE) /\ con[0] # Nil
      /\ pc[main] # "idle"
  BY DEF Knowing, Known
<1>2. s.at \in {"large", "put_large", "get_large"}
  BY DEF test_indirect, Ask, Then
<1>3. CASE s.at = "large"
  <2>1. s' = [s EXCEPT !.at = "put_large", !.ids = Append(s.ids, answer)]
    BY <1>1, <1>3 DEF test_indirect, Ask, Then, CallCreate, Begin
  <2>2. answer \in Inums \ {0} /\ con[answer] = [type |-> c.type, file |-> EmptyFile] /\ c.type \in Types
    BY <1>1, <1>3 DEF AskedAt, Agrees, Creating
  <2>3. con[answer] # Nil /\ con[answer].file = EmptyFile
    BY <2>2, NilAssumption DEF Records, Stored
  <2>4. s'.at = "put_large" /\ s'.ids = Append(s.ids, answer) /\ s'.strs = s.strs /\ s'.total_score = s.total_score
    BY <2>1, ScriptFacts DEF Scripts
  <2>5. Script1(s', con, FALSE)
    BY <1>1, <1>3, <2>2, <2>3, <2>4, LargeMade
  <2> QED
    BY <1>1, <2>4, <2>5, GoesOn1 DEF Part1
<1>4. CASE s.at = "put_large"
  <2> DEFINE label == IF Len(s.ids) = 1 THEN "large" ELSE "get_large"
             i == s.ids[Len(s.ids)]
  <2>1. s' = [s EXCEPT !.at = label, !.strs = Append(s.strs, c.file)]
    BY <1>1, <1>4 DEF test_indirect, Ask, Then, CallPut, Begin
  <2>2. c.op = "put" /\ c.inum = i /\ c.file \in Unterminated
    BY <1>1, <1>4 DEF AskedAt
  <2>3. i \in Inums /\ con[i] # Nil
    <3>1. Len(s.ids) \in DOMAIN s.ids
      BY <1>4, ScriptFacts DEF Placed
    <3> QED
      BY <1>1, <1>4, <3>1, ScriptFacts DEF Script1
  <2>4. con[i].file = c.file
    BY <1>1, <2>2, <2>3, FileFacts DEF Agrees, There
  <2> HIDE DEF label
  <2>5. s'.at = label /\ s'.ids = s.ids /\ s'.strs = Append(s.strs, c.file) /\ s'.total_score = s.total_score
    BY <2>1, ScriptFacts DEF Scripts
  <2>6. s'.at = "large" \/ s'.at = "get_large"
    BY <2>5 DEF label
  <2>7. Script1(s', con, FALSE)
    BY <1>1, <1>4, <2>2, <2>4, <2>5, <2>6, LargePut
  <2> QED
    BY <1>1, <2>6, <2>7, GoesOn1 DEF Part1
<1>5. CASE s.at = "get_large"
  <2>1. s.i \in {0, 1} /\ s.i + 1 \in DOMAIN s.ids /\ s.i + 1 \in DOMAIN s.strs
    BY <1>5, ScriptFacts DEF Placed
  <2>2. /\ s.total_score = 20 /\ s.ids[s.i + 1] \in Inums /\ con[s.ids[s.i + 1]] # Nil
        /\ con[s.ids[s.i + 1]].file = s.strs[s.i + 1]
    BY <1>1, <1>5, <2>1, ScriptFacts DEF Script1
  <2>3. c.op = "get" /\ c.inum = s.ids[s.i + 1]
    BY <1>1, <1>5 DEF AskedAt
  <2>4. answer = s.strs[s.i + 1]
    BY <1>1, <2>2, <2>3 DEF Agrees, There
  <2>5. Then("get_large", CASE answer # s.strs[s.i + 1]              -> Earn("remove", 0)
                            [] answer = s.strs[s.i + 1] /\ s.i = 0   -> [s EXCEPT !.i = 1]
                            [] answer = s.strs[s.i + 1] /\ s.i = 1   -> Earn("remove", 10))
    BY <1>1, <1>5 DEF test_indirect, Ask, Then, CallGet, Begin
  <2>6. CASE s.i = 0
    <3>1. s' = [s EXCEPT !.i = 1]
      BY <2>4, <2>5, <2>6 DEF Then
    <3>2. s'.at = "get_large" /\ s'.ids = s.ids /\ s'.strs = s.strs /\ s'.total_score = 20
      BY <1>5, <2>2, <3>1, ScriptFacts DEF Scripts
    <3>3. Script1(s', con, FALSE)
      BY <1>1, <1>5, <3>2 DEF Script1, Creating
    <3> QED
      BY <1>1, <3>2, <3>3, GoesOn1 DEF Part1
  <2>7. CASE s.i = 1
    <3>1. s' = Earn("remove", 10)
      BY <2>4, <2>5, <2>7 DEF Then
    <3>2. Earned(s', "remove", 10)
      <4>1. "remove" \in Labels /\ 10 \in Nat
        BY DEF Labels, Looping
      <4> QED
        BY <3>1, <4>1, EarnTyped
    <3>3. s'.at = "remove" /\ s'.total_score = 30
      BY <2>2, <3>2 DEF Earned
    <3>4. Script1(s', con, FALSE)
      BY <1>1, <3>3 DEF Script1, Creating
    <3> QED
      BY <1>1, <3>3, <3>4, GoesOn1 DEF Part1, Looping
  <2> QED
    BY <2>1, <2>6, <2>7
<1> QED
  BY <1>2, <1>3, <1>4, <1>5

LEMMA RemoveThen ==
  ASSUME ClientInv, Knowing, program = "part1", test_remove
  PROVE  Known("part1", s', contents, FALSE)
<1> DEFINE c == call[main]
           con == contents
<1>1. con \in FilesOn /\ AskedAt(s, c) /\ Agrees(con, c, answer) /\ Script1(s, con, TRUE) /\ con[0] # Nil
      /\ pc[main] # "idle"
  BY DEF Knowing, Known
<1>2. s.at \in {"remove", "removed"}
  BY DEF test_remove, Ask, Then
<1>3. s.total_score = 30 /\ c.inum = s.i + 2
  BY <1>1, <1>2 DEF Script1, AskedAt
<1>4. "removed" \in Labels /\ "remove" \in Labels /\ "end" \in Labels /\ 10 \in Nat
  BY DEF Labels, Looping
<1>5. CASE s.at = "remove"
  <2>1. s' = To("removed")
    BY <1>1, <1>5 DEF test_remove, Ask, Then, CallRemove, Begin
  <2>2. s'.at = "removed" /\ s'.i = s.i /\ s'.total_score = 30
    BY <1>3, <1>4, <2>1, ToTyped
  <2>3. There(con, s.i + 2) = Nil
    BY <1>1, <1>3, <1>5 DEF AskedAt, Agrees
  <2>4. Script1(s', con, FALSE)
    BY <1>1, <2>2, <2>3 DEF Script1, Creating
  <2> QED
    BY <1>1, <2>2, <2>4, GoesOn1 DEF Part1, Looping
<1>6. CASE s.at = "removed"
  <2>1. There(con, s.i + 2) = Nil
    BY <1>1, <1>6 DEF Script1
  <2>2. answer[1] = 0
    BY <1>1, <1>3, <1>6, <2>1 DEF AskedAt, Agrees
  <2>3. s' = NextFile("remove", "end", 10)
    BY <1>1, <1>6, <2>2 DEF test_remove, Ask, Then, CallGetattr, Begin
  <2>4. Advances(s', "remove", "end", 10)
    BY <1>4, <2>3, NextFileTyped
  <2>5. (s'.at = "remove" /\ s'.total_score = 30) \/ (s'.at = "end" /\ s'.total_score = 40)
    BY <1>3, <2>4 DEF Advances
  <2>6. Script1(s', con, FALSE)
    BY <1>1, <2>5 DEF Script1, Creating, Part1, Looping
  <2> QED
    BY <1>1, <2>5, <2>6 DEF Known
<1> QED
  BY <1>2, <1>5, <1>6

(* part2 and part3, where main also waits for the threads.                 *)
LEMMA GoesOn23 ==
  ASSUME NEW p, p # "part1", NEW q, NEW con, con[0] # Nil, Script23(q, con, FALSE), q.at \in Part2 \cup Part3
  PROVE  Known(p, q, con, FALSE)
  BY DEF Known, Part2, Part3

LEMMA Ends23 ==
  ASSUME NEW p \in {"part2", "part3"}, NEW q, NEW con, con[0] # Nil, q.at = "end",
         q.total_score = IF p = "part2" THEN 10 ELSE 0
  PROVE  Known(p, q, con, FALSE)
<1>1. Script23(q, con, FALSE)
  BY DEF Script23, Part2, Part3, Waiting
<1> QED
  BY <1>1 DEF Known

(* main is in no call while it waits.                                      *)
LEMMA WaitKnowing ==
  ASSUME ClientInv, InodeInv, TestInv, s.at \in Waiting
  PROVE  /\ contents[0] # Nil /\ Script23(s, contents, FALSE) /\ pc[main] = "idle" /\ reply[main] = Nil
         /\ s.at \in Part2 \cup Part3 /\ s.id \in Inums /\ s.id # 0 /\ contents[s.id] # Nil
         /\ s.strs \in Seq(Files) /\ Len(s.strs) = 2
<1>1. program # "part1" /\ s.at # "end" /\ s.at \in Part2 \cup Part3
  BY PartOf DEF Waiting, Part2, Part3
<1>2. pc[main] = "idle"
  BY DEF ClientInv, MainCall, AskedAt
<1>3. reply[main] = Nil
  BY <1>2, TestersAssumption DEF TestInv, AnswerInv, RepliesOK, Answered
<1>4. Script23(s, contents, FALSE) /\ contents[0] # Nil
  BY <1>1, <1>3 DEF TestInv, Script, Known
<1>5. s.id # 0 /\ contents[s.id] # Nil
  BY <1>1, <1>4 DEF Script23, Waiting
<1> QED
  BY <1>1, <1>2, <1>3, <1>4, <1>5, ScriptFacts DEF Placed

(* The file was made, and then put.                                        *)
LEMMA OwnMade ==
  ASSUME ClientInv, Knowing, s.at = "prepare" \/ s.at = "measure", program # "part1",
         NEW q, q.at = "first_put" \/ q.at = "measure_put", q.id = answer, q.total_score = s.total_score,
         \A k \in DOMAIN q.strs : q.strs[k] \in LargeFiles \cup DoubleFiles
  PROVE  Known(program, q, contents, FALSE)
<1> DEFINE c == call[main]
           con == contents
<1>1. AskedAt(s, c) /\ Agrees(con, c, answer) /\ Script23(s, con, TRUE) /\ con[0] # Nil
  BY DEF Knowing, Known
<1>2. answer \in Inums \ {0} /\ con[answer] = [type |-> c.type, file |-> EmptyFile] /\ c.type \in Types
  BY <1>1 DEF AskedAt, Agrees, Creating
<1>3. con[answer] # Nil /\ con[answer].file = EmptyFile
  BY <1>2, NilAssumption DEF Records, Stored
<1>4. s.total_score = 0
  BY <1>1 DEF Script23, Part3
<1>5. Script23(q, con, FALSE)
  BY <1>2, <1>3, <1>4 DEF Script23, Waiting
<1> QED
  BY <1>1, <1>5, GoesOn23 DEF Part2, Part3

LEMMA OwnPut ==
  ASSUME ClientInv, Knowing, s.at \in {"first_put", "varied_put", "measure_put"}, program # "part1"
  PROVE  /\ Script23(s, contents, TRUE) /\ contents[0] # Nil /\ s.id \in Inums \ {0} /\ contents[s.id] # Nil
         /\ contents[s.id].file = call[main].file
         /\ s.at = "first_put" => call[main].file \in LargeFiles
         /\ s.at # "first_put" => call[main].file = s.strs[1]
<1> DEFINE c == call[main]
           con == contents
<1>1. AskedAt(s, c) /\ Agrees(con, c, answer) /\ Script23(s, con, TRUE) /\ con[0] # Nil
  BY DEF Knowing, Known
<1>2. s.id \in Inums \ {0} /\ con[s.id] # Nil
  BY <1>1, ScriptFacts DEF Script23, Part2, Part3
<1>3. /\ c.op = "put" /\ c.inum = s.id
      /\ s.at = "first_put" => c.file \in LargeFiles
      /\ s.at # "first_put" => c.file = s.strs[1]
  BY <1>1 DEF AskedAt
<1>4. c.file \in LargeFiles \cup DoubleFiles
  <2>1. s.at # "first_put" => s.strs[1] \in LargeFiles \cup DoubleFiles
    BY <1>1, ScriptFacts DEF Placed, Script23, Part2, Part3
  <2> QED
    BY <1>3, <2>1
<1>5. con[s.id].file = c.file
  BY <1>1, <1>2, <1>3, <1>4, FileFacts DEF Agrees, There
<1> QED
  BY <1>1, <1>2, <1>3, <1>5

(* main starts the threads when it has put str1.                           *)
LEMMA OwnStarts ==
  ASSUME ClientInv, Knowing, program # "part1",
         NEW label, s' = To(label),
         (s.at = "varied_put" /\ label = "varied") \/ (s.at = "measure_put" /\ label = "readers")
  PROVE  Known(program, s', contents, FALSE)
<1>1. label \in Labels /\ label \in {"varied", "readers"} /\ s.at \in {"varied_put", "measure_put"}
  BY DEF Labels, Waiting
<1>2. s'.at = label /\ s'.id = s.id /\ s'.strs = s.strs /\ s'.total_score = s.total_score
  BY <1>1, ToTyped
<1>3. /\ Script23(s, contents, TRUE) /\ contents[0] # Nil /\ s.id \in Inums \ {0} /\ contents[s.id] # Nil
      /\ contents[s.id].file = s.strs[1]
  BY <1>1, OwnPut
<1>4. s'.total_score = IF label = "varied" THEN 5 ELSE 0
  BY <1>2, <1>3 DEF Script23, Part3
<1>5. \A k \in DOMAIN s.strs : s.strs[k] \in LargeFiles \cup DoubleFiles
  BY <1>1, <1>3 DEF Script23, Part2, Part3
<1>6. Script23(s', contents, FALSE)
  BY <1>1, <1>2, <1>3, <1>4, <1>5 DEF Script23, Waiting, Part3
<1> QED
  BY <1>1, <1>2, <1>3, <1>6, GoesOn23 DEF Part2, Part3

LEMMA ConcurrentThen ==
  ASSUME ClientInv, Knowing, program = "part2", test_concurrent
  PROVE  Known("part2", s', contents, FALSE)
<1> DEFINE c == call[main]
           con == contents
<1>1. AskedAt(s, c) /\ Agrees(con, c, answer) /\ Script23(s, con, TRUE) /\ con[0] # Nil /\ pc[main] # "idle"
  BY DEF Knowing, Known
<1>2. s.at \in {"prepare", "first_put", "first_get", "varied_put"}
  BY <1>1 DEF test_concurrent, Ask, Then, Create, Join, AskedAt, Waiting
<1>3. CASE s.at = "prepare"
  <2>1. s' = [s EXCEPT !.at = "first_put", !.id = answer]
    BY <1>1, <1>3 DEF test_concurrent, Ask, Then, Create, Join, CallCreate, Begin
  <2>2. s'.at = "first_put" /\ s'.id = answer /\ s'.total_score = s.total_score /\ s'.strs = s.strs
    BY <2>1, ScriptFacts DEF Scripts
  <2>3. DOMAIN s.strs = {}
    BY <1>3, ScriptFacts DEF Placed
  <2>9. program # "part1" /\ Known(program, s', contents, FALSE)
    BY <1>3, <2>2, <2>3, OwnMade
  <2> QED
    BY <2>9
<1>4. CASE s.at = "first_put"
  <2>1. s' = [s EXCEPT !.at = "first_get", !.strs = <<c.file>>]
    BY <1>1, <1>4 DEF test_concurrent, Ask, Then, Create, Join, CallPut, Begin
  <2>2. s'.at = "first_get" /\ s'.id = s.id /\ s'.total_score = s.total_score /\ s'.strs = <<c.file>>
    BY <2>1, ScriptFacts DEF Scripts
  <2>3. s.id \in Inums \ {0} /\ con[s.id] # Nil /\ con[s.id].file = c.file /\ c.file \in LargeFiles
    BY <1>4, OwnPut
  <2>4. DOMAIN s'.strs = {1} /\ s'.strs[1] = c.file
    BY <2>2
  <2>5. s.total_score = 0
    BY <1>1, <1>4 DEF Script23
  <2>6. Script23(s', con, FALSE)
    BY <2>2, <2>3, <2>4, <2>5 DEF Script23, Waiting
  <2> QED
    BY <1>1, <2>2, <2>6, GoesOn23 DEF Part2
<1>5. CASE s.at = "first_get"
  <2>1. con[s.id] # Nil /\ con[s.id].file = s.strs[1] /\ s.id \in Inums \ {0} /\ s.strs[1] \in LargeFiles
        /\ s.total_score = 0
    BY <1>1, <1>5, ScriptFacts DEF Script23, Part2
  <2>2. answer = s.strs[1]
    BY <1>1, <1>5, <2>1 DEF AskedAt, Agrees, There
  <2>3. PICK f \in LargeFiles : s' = [s EXCEPT !.at = "fixed", !.strs = Append(s.strs, f)]
    BY <1>1, <1>5, <2>2 DEF test_concurrent, Ask, Then, Create, Join, CallGet, Begin
  <2>4. s'.at = "fixed" /\ s'.id = s.id /\ s'.total_score = s.total_score /\ s'.strs = Append(s.strs, f)
    BY <2>3, ScriptFacts DEF Scripts
  <2>5. s'.strs \in Seq(Files) /\ Len(s'.strs) = 2 /\ s'.strs[1] = s.strs[1] /\ s'.strs[2] = f
    <3>1. s.strs \in Seq(Files) /\ Len(s.strs) = 1 /\ f \in Files
      BY <1>5, ScriptFacts, TestersAssumption DEF Placed
    <3> QED
      BY <2>4, <3>1, SecondAppended
  <2>6. \A k \in DOMAIN s'.strs : s'.strs[k] \in LargeFiles
    BY <2>1, <2>5
  <2>7. Script23(s', con, FALSE)
    BY <2>1, <2>4, <2>5, <2>6 DEF Script23, Waiting
  <2> QED
    BY <1>1, <2>4, <2>7, GoesOn23 DEF Part2
<1>6. CASE s.at = "varied_put"
  <2>1. s' = To("varied")
    BY <1>1, <1>6 DEF test_concurrent, Ask, Then, Create, Join, CallPut, Begin
  <2>9. program # "part1" /\ Known(program, s', contents, FALSE)
    BY <1>6, <2>1, OwnStarts
  <2> QED
    BY <2>9
<1> QED
  BY <1>2, <1>3, <1>4, <1>5, <1>6

LEMMA ConcurrentJoin ==
  ASSUME ClientInv, InodeInv, TestInv, s.at \in Waiting, program = "part2", test_concurrent
  PROVE  Known("part2", s', contents, FALSE)
<1> DEFINE con == contents
<1>1. /\ con[0] # Nil /\ Script23(s, con, FALSE) /\ s.id \in Inums /\ s.id # 0 /\ con[s.id] # Nil
      /\ s.strs \in Seq(Files) /\ Len(s.strs) = 2 /\ err = FALSE
  BY WaitKnowing DEF TestInv
<1>2. s.at \in {"fixed", "varied"}
  BY DEF test_concurrent, Ask, Then, Create, Join, Waiting
<1>3. s.strs[1] \in LargeFiles \cup DoubleFiles /\ s.strs[2] \in LargeFiles \cup DoubleFiles
      /\ con[s.id].file \in {s.strs[1], s.strs[2]}
  BY <1>1, <1>2 DEF Script23, Part2
<1>4. CASE s.at = "fixed"
  <2> DEFINE e == Earn("varied_put", 5)
  <2>1. PICK f \in DoubleFiles : s' = [e EXCEPT !.strs[2] = f]
    BY <1>1, <1>4 DEF test_concurrent, Ask, Then, Create, Join
  <2>2. Earned(e, "varied_put", 5)
    <3>1. "varied_put" \in Labels /\ 5 \in Nat
      BY DEF Labels
    <3> QED
      BY <3>1, EarnTyped
  <2> HIDE DEF e
  <2>3. e \in Scripts /\ e.at = "varied_put" /\ e.strs = s.strs /\ e.id = s.id /\ e.total_score = s.total_score + 5
    BY <2>2 DEF Earned
  <2>4. s' = [e EXCEPT !.strs = [s.strs EXCEPT ![2] = f]]
    BY <2>1, <2>3
  <2>5. s'.at = "varied_put" /\ s'.id = s.id /\ s'.strs = [s.strs EXCEPT ![2] = f] /\ s'.total_score = s.total_score + 5
    BY <2>3, <2>4 DEF Scripts
  <2>6. s'.strs \in Seq(Files) /\ Len(s'.strs) = 2 /\ s'.strs[1] = s.strs[1] /\ s'.strs[2] = f
    <3>1. f \in Files
      BY TestersAssumption
    <3> QED
      BY <1>1, <2>5, <3>1, SecondReplaced
  <2>7. \A k \in DOMAIN s'.strs : s'.strs[k] \in LargeFiles \cup DoubleFiles
    BY <1>3, <2>6
  <2>8. s'.total_score = 5
    <3>1. s.total_score = 0
      BY <1>1, <1>4 DEF Script23
    <3> QED
      BY <2>5, <3>1
  <2>9. Script23(s', con, FALSE)
    BY <1>1, <1>3, <2>5, <2>7, <2>8 DEF Script23, Waiting, Part3
  <2> QED
    BY <1>1, <2>5, <2>9, GoesOn23 DEF Part2
<1>5. CASE s.at = "varied"
  <2>1. s' = Earn("end", 5)
    BY <1>1, <1>5 DEF test_concurrent, Ask, Then, Create, Join
  <2>2. "end" \in Labels /\ 5 \in Nat
    BY DEF Labels
  <2>3. s'.at = "end" /\ s'.total_score = s.total_score + 5
    BY <2>1, <2>2, EarnTyped DEF Earned
  <2>4. s.total_score = 5
    BY <1>1, <1>5 DEF Script23
  <2>5. s'.total_score = 10
    BY <2>3, <2>4
  <2> QED
    BY <1>1, <2>3, <2>5, Ends23
<1> QED
  BY <1>2, <1>4, <1>5

LEMMA LatencyThen ==
  ASSUME ClientInv, Knowing, program = "part3", test_latency
  PROVE  Known("part3", s', contents, FALSE)
<1>1. AskedAt(s, call[main]) /\ pc[main] # "idle"
  BY DEF Knowing
<1>2. s.at \in {"measure", "measure_put"}
  BY <1>1 DEF test_latency, Ask, Then, Create, Join, AskedAt, Waiting
<1>3. CASE s.at = "measure"
  <2>1. PICK f \in LargeFiles, g \in DoubleFiles : s' = [s EXCEPT !.at = "measure_put", !.id = answer, !.strs = <<f, g>>]
    BY <1>1, <1>3 DEF test_latency, Ask, Then, Create, Join, CallCreate, Begin
  <2>2. s'.at = "measure_put" /\ s'.id = answer /\ s'.total_score = s.total_score /\ s'.strs = <<f, g>>
    BY <2>1, ScriptFacts DEF Scripts
  <2>3. \A k \in DOMAIN s'.strs : s'.strs[k] \in LargeFiles \cup DoubleFiles
    BY <2>2
  <2>9. program # "part1" /\ Known(program, s', contents, FALSE)
    BY <1>3, <2>2, <2>3, OwnMade
  <2> QED
    BY <2>9
<1>4. CASE s.at = "measure_put"
  <2>1. s' = To("readers")
    BY <1>1, <1>4 DEF test_latency, Ask, Then, Create, Join, CallPut, Begin
  <2>9. program # "part1" /\ Known(program, s', contents, FALSE)
    BY <1>4, <2>1, OwnStarts
  <2> QED
    BY <2>9
<1> QED
  BY <1>2, <1>3, <1>4

LEMMA LatencyJoin ==
  ASSUME ClientInv, InodeInv, TestInv, s.at \in Waiting, program = "part3", test_latency
  PROVE  Known("part3", s', contents, FALSE)
<1>1. contents[0] # Nil /\ Script23(s, contents, FALSE)
  BY WaitKnowing
<1>2. s.at = "readers" /\ s' = To("end")
  BY DEF test_latency, Ask, Then, Create, Join, Waiting
<1>3. "end" \in Labels
  BY DEF Labels
<1>4. s'.at = "end" /\ s'.total_score = s.total_score
  BY <1>2, <1>3, ToTyped
<1>5. s.total_score = 0
  BY <1>1, <1>2 DEF Script23, Part3
<1> QED
  BY <1>1, <1>4, <1>5, Ends23
-----------------------------------------------------------------------------
(* A step of a test program.                                               *)
LEMMA MainFiles ==
  ASSUME ClientInv, InodeInv, TestInv, Main PROVE MainAnswer' /\ Script' /\ AtWork' /\ err' = FALSE
<1>1. main \in Threads /\ main \notin Workers /\ Workers \subseteq Threads /\ DOMAIN pc = Threads /\ DOMAIN call = Threads
  BY TestersAssumption DEF InodeInv, Arrays
<1>2. UNCHANGED <<program, err>> /\ err' = FALSE
  BY MainSteps DEF TestInv
<1>3. CASE UNCHANGED s /\ \E c, label : Begin(main, c, label)
  <2>1. UNCHANGED <<s, contents, reply>> /\ pc[main] = "idle"
        /\ \A w \in Workers : pc'[w] = pc[w] /\ call'[w] = call[w]
    BY <1>1, <1>3 DEF Begin, Goto
  <2>2. reply[main] = Nil
    BY <1>1, <2>1 DEF TestInv, AnswerInv, RepliesOK, Answered
  <2>3. AtWork'
    BY <1>1, <2>1 DEF TestInv, AtWork, Working
  <2>4. MainAnswer' /\ Script'
    BY <1>2, <2>1, <2>2 DEF TestInv, MainAnswer, Script
  <2> QED
    BY <1>2, <2>3, <2>4
<1>4. CASE Return(main)
  <2>1. Knowing
    BY <1>4, ThenKnowing
  <2>2. Known(program, s', contents, FALSE)
    BY <2>1, CreateGetattrThen, PutGetThen, IndirectThen, RemoveThen, ConcurrentThen, LatencyThen DEF Main
  <2>3. contents' = contents /\ reply'[main] = Nil /\ \A w \in Workers : pc'[w] = "idle"
    BY <2>1 DEF Knowing
  <2> QED
    BY <1>2, <2>2, <2>3 DEF MainAnswer, Script, AtWork
<1>5. CASE UNCHANGED vars /\ s.at \in Waiting /\ Finished
  <2>1. program # "part1"
    BY <1>5, PartOf
  <2>2. Known(program, s', contents, FALSE)
    BY <1>5, <2>1, ConcurrentJoin, LatencyJoin DEF Main
  <2>3. contents' = contents /\ reply' = reply /\ reply[main] = Nil
    BY <1>5, WaitKnowing DEF vars
  <2>4. \A w \in Workers : pc'[w] = "idle"
    BY <1>5 DEF vars, Finished, ClientInv, Joined
  <2> QED
    BY <1>2, <2>2, <2>3, <2>4 DEF MainAnswer, Script, AtWork
<1>6. \/ UNCHANGED s /\ \E c, label : Begin(main, c, label)
      \/ Return(main)
      \/ UNCHANGED vars /\ s.at \in Waiting /\ Finished
  <2> USE DEF Ask, Then, Create, Join, CallCreate, CallPut, CallGet, CallGetattr, CallRemove, Waiting
  <2>1. CASE test_create_and_getattr \/ test_put_and_get
    BY <2>1 DEF test_create_and_getattr, test_put_and_get
  <2>2. CASE test_indirect \/ test_remove
    BY <2>2 DEF test_indirect, test_remove
  <2>3. CASE test_concurrent
    BY <2>3 DEF test_concurrent
  <2>4. CASE test_latency
    BY <2>4 DEF test_latency
  <2> QED
    BY <2>1, <2>2, <2>3, <2>4 DEF Main
<1> QED
  BY <1>3, <1>4, <1>5, <1>6

LEMMA WorkFiles ==
  ASSUME ClientInv, InodeInv, TestInv, NEW w \in Workers, Work(w)
  PROVE  MainAnswer' /\ Script' /\ AtWork' /\ err' = FALSE
<1>1. main \in Threads /\ main # w /\ w \in Threads /\ Workers \subseteq Threads /\ DOMAIN pc = Threads
      /\ DOMAIN call = Threads /\ DOMAIN reply = Threads
  BY TestersAssumption DEF InodeInv, Arrays, ClientInv, TestTyped
<1>2. CASE ~Return(w)
  <2>1. /\ s.at \in Waiting /\ Asked(w, call'[w]) /\ UNCHANGED <<contents, reply, program, s, err>>
        /\ \A u \in Threads : u # w => pc'[u] = pc[u] /\ call'[u] = call[u]
    BY <1>2, WorkerCalls
  <2>2. reply[w] = Nil
    <3>1. pc[w] = "idle"
      BY <1>2 DEF Work, CallPut, CallGet, Begin
    <3> QED
      BY <1>1, <3>1 DEF TestInv, AnswerInv, RepliesOK, Answered
  <2>3. ASSUME NEW u \in Workers, pc'[u] # "idle" PROVE Working(u)'
    <3>1. CASE u = w
      BY <2>1, <2>2, <3>1, TestersAssumption DEF Asked, Working, Workers
    <3>2. CASE u # w
      BY <1>1, <2>1, <2>3, <3>2 DEF TestInv, AtWork, Working
    <3> QED
      BY <3>1, <3>2
  <2>4. MainAnswer' /\ Script'
    BY <1>1, <2>1 DEF TestInv, MainAnswer, Script
  <2> QED
    BY <2>1, <2>3, <2>4 DEF TestInv, AtWork
<1>3. CASE Return(w)
  <2>1. /\ UNCHANGED <<program, s, contents>> /\ pc[w] = "return" /\ pc'[w] = "idle"
        /\ \A u \in Threads : u # w => pc'[u] = pc[u] /\ call'[u] = call[u] /\ reply'[u] = reply[u]
    BY <1>1, <1>3 DEF Work, Return, Goto, CallPut, CallGet, Begin
  <2>2. err' = (err \/ (w \in Readers /\ \A k \in DOMAIN s.strs : reply[w] # s.strs[k]))
    BY <2>1 DEF Work, CallPut, CallGet, Begin
  <2>3. reply[w] # Nil /\ Working(w) /\ s.at \in Waiting
    BY <1>1, <2>1 DEF TestInv, AnswerInv, RepliesOK, Answered, AtWork, ClientInv, Joined
  <2>4. w \in Readers => \E k \in DOMAIN s.strs : reply[w] = s.strs[k]
    <3>1. 1 \in DOMAIN s.strs /\ 2 \in DOMAIN s.strs
      BY <2>3, ScriptFacts DEF Placed
    <3> QED
      BY <2>3, <3>1 DEF Working
  <2>5. err' = FALSE
    BY <2>2, <2>4 DEF TestInv
  <2>6. ASSUME NEW u \in Workers, pc'[u] # "idle" PROVE Working(u)'
    BY <1>1, <2>1, <2>6 DEF TestInv, AtWork, Working
  <2>7. MainAnswer' /\ Script'
    BY <1>1, <2>1 DEF TestInv, MainAnswer, Script
  <2> QED
    BY <2>5, <2>6, <2>7 DEF AtWork
<1> QED
  BY <1>2, <1>3

LEMMA TestInvInit == TestInit => TestInv
<1> SUFFICES ASSUME TestInit PROVE TestInv
  OBVIOUS
<1>1. Init /\ err = FALSE /\ main \in Threads /\ Workers \subseteq Threads
  BY TestersAssumption DEF TestInit
<1>2. FilesInv /\ AnswerInv
  BY <1>1, InitFiles, InitAnswers
<1>3. MainAnswer /\ AtWork /\ reply[main] = Nil
  BY <1>1 DEF Init, MainAnswer, AtWork
<1>4. NoOverrun
  BY <1>1 DEF Init, NoOverrun
<1>5. 0 \in Inums /\ [type |-> T_DIR, file |-> EmptyFile] \in Records /\ [type |-> T_DIR, file |-> EmptyFile] # Nil
  BY NilAssumption, LayoutAssumption DEF Inums, Records, Stored
<1>6. contents[0] = [type |-> T_DIR, file |-> EmptyFile] /\ \A i \in Inums \ {0} : contents[i] = Nil
  BY <1>1, <1>5 DEF Init
<1>7. contents[0] # Nil /\ \A i \in Inums : contents[i] # Nil => contents[i].file = EmptyFile
  BY <1>5, <1>6
<1>8. Present(contents) = {0} /\ Cardinality(Present(contents)) = 1
  <2>1. Present(contents) = {0}
    BY <1>5, <1>6, <1>7 DEF Present
  <2> QED
    BY <2>1, FS_Singleton
<1>9. s.at = Start[program] /\ s.i = 0 /\ s.total_score = 0 /\ s.strs = <<>> /\ DOMAIN s.strs = {} /\ program \in Programs
  BY DEF TestInit
<1>10. Script
  <2>1. CASE program = "part1"
    <3>1. s.at = "create"
      BY <1>9, <2>1 DEF Start
    <3>2. Cardinality(Present(contents)) <= 1 + Made(s) + 0
      BY <1>8, <1>9, <3>1 DEF Made
    <3>3. Script1(s, contents, FALSE)
      BY <1>7, <1>9, <3>1, <3>2 DEF Script1
    <3> QED
      BY <1>3, <1>7, <2>1, <3>1, <3>3 DEF Script, Known
  <2>2. CASE program # "part1"
    <3>1. s.at \in {"prepare", "measure"}
      BY <1>9, <2>2 DEF Start, Programs
    <3>2. Script23(s, contents, FALSE)
      BY <1>6, <1>9, <3>1 DEF Script23, Waiting
    <3> QED
      BY <1>3, <1>7, <2>2, <3>1, <3>2 DEF Script, Known
  <2> QED
    BY <2>1, <2>2
<1> QED
  BY <1>1, <1>2, <1>3, <1>4, <1>10 DEF TestInv

(* num_indirect_blocks is one too many when the last block is full.        *)
LEMMA NumIndirectFull ==
  ASSUME NEW z \in Nat, z > DirectBytes, z % BLOCK_SIZE = 0
  PROVE  num_indirect_blocks(z) = Blocks(z) - NDIRECT + 1
<1> DEFINE q == (z - DirectBytes) \div BLOCK_SIZE
           r == (z - DirectBytes) % BLOCK_SIZE
           Q == z \div BLOCK_SIZE
           R == z % BLOCK_SIZE
           m == q + NDIRECT
<1>1. z - DirectBytes \in Nat
  BY Bytes
<1>2. z - DirectBytes = BLOCK_SIZE * q + r /\ q \in Nat /\ r \in 0..(BLOCK_SIZE - 1)
  BY <1>1, DivBlock
<1>3. z = BLOCK_SIZE * Q /\ Q \in Nat
  <2>1. z = BLOCK_SIZE * Q + R /\ Q \in Nat /\ R = 0
    BY DivBlock
  <2> HIDE DEF Q, R
  <2>2. BLOCK_SIZE * Q \in Nat
    BY <2>1, Bytes
  <2> QED
    BY <2>1, <2>2
<1>4. num_indirect_blocks(z) = q + 1
  BY DEF num_indirect_blocks
<1> HIDE DEF q, r, Q
<1>5. m \in Nat /\ z = m * BLOCK_SIZE + r /\ m * BLOCK_SIZE \in Nat /\ (m + 1) * BLOCK_SIZE = m * BLOCK_SIZE + BLOCK_SIZE
  <2>1. \A a, b, c \in Nat : (a + b) * c = a * c + b * c /\ (a + b) * c \in Nat
    OBVIOUS
  <2>2. m * BLOCK_SIZE = q * BLOCK_SIZE + NDIRECT * BLOCK_SIZE /\ m * BLOCK_SIZE \in Nat
    BY <1>2, <2>1, Bytes
  <2>3. q * BLOCK_SIZE = BLOCK_SIZE * q /\ q * BLOCK_SIZE \in Int
    BY <1>2, Bytes
  <2>4. m \in Nat
    BY <1>2, Bytes
  <2>5. (m + 1) * BLOCK_SIZE = m * BLOCK_SIZE + BLOCK_SIZE
    BY <2>4, BytesNext
  <2> HIDE DEF m
  <2> QED
    BY <1>2, <2>2, <2>3, <2>4, <2>5, MaxBytesIs, Bytes
<1> HIDE DEF m
<1>6. Q = m
  <2>1. Q * BLOCK_SIZE = BLOCK_SIZE * Q /\ Q * BLOCK_SIZE \in Nat
    BY <1>3, Bytes
  <2>2. ~(Q * BLOCK_SIZE < m * BLOCK_SIZE) /\ Q * BLOCK_SIZE < (m + 1) * BLOCK_SIZE
    BY <1>2, <1>3, <1>5, <2>1, Bytes
  <2>3. ~(Q < m) /\ Q < m + 1
    BY <1>3, <1>5, <2>2, BytesOrder
  <2> QED
    BY <1>3, <1>5, <2>3
<1>7. Blocks(z) = Q
  <2>1. Q * BLOCK_SIZE = z /\ (Q - 1) * BLOCK_SIZE < z
    <3>1. Q * BLOCK_SIZE = BLOCK_SIZE * Q
      BY <1>3, Bytes
    <3>2. (Q - 1) * BLOCK_SIZE = Q * BLOCK_SIZE - BLOCK_SIZE
      BY <1>3, BytesNext, Bytes
    <3> QED
      BY <1>3, <3>1, <3>2, Bytes
  <2>2. ~(Q < Blocks(z)) /\ Q - 1 < Blocks(z) /\ Blocks(z) \in Nat
    BY <1>3, <2>1, BlocksBelow, BlocksIs
  <2> QED
    BY <1>3, <2>2
<1> QED
  BY <1>2, <1>4, <1>6, <1>7, Bytes DEF m

(* Only main calls remove, and what it finds on the disk leads it astray.  *)
LEMMA StrayBegins ==
  ASSUME ClientInv, ClientInv', InodeInv, InodeInv', TestInv, [TestNext]_testVars,
         NEW t \in Threads, pc[t] = "idle", pc'[t] # "idle", Overruns(call'[t], contents)
  PROVE  Stray'
<1>1. main \in Threads /\ main \notin Workers /\ Threads = Workers \cup {main} /\ DOMAIN pc = Threads /\ DOMAIN call = Threads
  BY TestersAssumption DEF InodeInv, Arrays
<1>2. TestNext
  BY DEF testVars, vars
<1>3. Main
  <2>1. ASSUME NEW w \in Workers, Work(w) PROVE FALSE
    <3>1. ~Return(w)
      BY <1>1, <2>1 DEF Return, Goto
    <3>2. Asked(w, call'[w]) /\ \A u \in Threads : u # w => pc'[u] = pc[u]
      BY <2>1, <3>1, WorkerCalls
    <3> QED
      BY <3>2 DEF Asked, Overruns
  <2>2. ASSUME NEW u \in Threads, InFileSystem(u) PROVE FALSE
    BY <1>1, <2>2, InsideStep DEF InFileSystem
  <2> QED
    BY <1>2, <2>1, <2>2 DEF TestNext
<1>4. /\ t = main /\ UNCHANGED <<s, disk, itable, contents>> /\ pc[main] = "idle"
      /\ \E c, label : Begin(main, c, label)
  BY <1>1, <1>3, MainSteps DEF Begin, Return, Goto, vars
<1>5. AskedAt(s, call'[main])
  BY <1>4 DEF ClientInv, MainCall
<1>6. s.at = "remove" /\ s.at \notin Waiting
  BY <1>4, <1>5, ScriptFacts DEF AskedAt, Overruns, Labels, Creating, Waiting, Looping
<1>7. pc'[main] = "d_get"
  <2>1. test_remove
    BY <1>3, <1>6 DEF Main, test_create_and_getattr, test_put_and_get, test_indirect, test_concurrent, test_latency,
                      Ask, Then, Create, Join
  <2> QED
    BY <1>1, <1>4, <1>6, <2>1 DEF test_remove, Ask, Then, Return, Goto, CallRemove, Begin
<1> DEFINE i == call'[main].inum
           n == Blocks(itable[i].size)
<1>8. i \in Inums /\ contents[i] # Nil /\ ~SupportedRemove(Size(contents[i].file))
  BY <1>4 DEF Overruns, There
<1>9. PICK hold : FilesFor(hold)
  BY DEF TestInv, FilesInv
<1>10. itable[i] # Nil /\ itable[i].size = Size(contents[i].file)
  BY <1>8, <1>9 DEF FilesFor, Matches
<1>11. Laid(disk, hold[i], itable[i], contents[i].file)
  <2>1. \A u \in Threads : pc[u] = "idle"
    BY <1>1, <1>4, <1>6 DEF ClientInv, Joined
  <2>2. \A u \in Threads : ~Changing(pc[u], call[u], i)
    BY <2>1 DEF Changing, Rewriting, Removing
  <2> QED
    BY <1>8, <1>9, <1>10, <2>2 DEF FilesFor, Whole, FileOK
<1>12. /\ itable[i].size \in Nat /\ n \in Nat /\ n > NDIRECT /\ NDIRECT \in Nat
  <2>1. itable[i].size \in Nat
    BY <1>8, <1>10, SizeType DEF InodeInv, Shared
  <2>2. itable[i].size > DirectBytes
    BY <1>8, <1>10, <2>1, Bytes DEF SupportedRemove
  <2> QED
    BY <2>1, <2>2, BlocksMost, Bytes
<1>13. itable[i].blocks[NDIRECT] = hold[i][MAXFILE] /\ PointersOn(disk, hold[i][MAXFILE], hold[i], n)
  BY <1>10, <1>11, <1>12 DEF Laid, Pointed
<1>14. hold[i][MAXFILE] \in DOMAIN disk
  <2>1. hold[i][MAXFILE] \in DataBlocks \cup {0}
    BY <1>8, <1>9, HoldType, InPlaces
  <2> QED
    BY <2>1 DEF InodeInv, Shared
<1> HIDE DEF n
<1>15. n - NDIRECT < NINDIRECT => AsPointers(ReadBlock(itable[i].blocks[NDIRECT]))[n - NDIRECT] = Wild
  <2> SUFFICES ASSUME n - NDIRECT < NINDIRECT
               PROVE  AsPointers(ReadBlock(itable[i].blocks[NDIRECT]))[n - NDIRECT] = Wild
    OBVIOUS
  <2>1. n - NDIRECT \in 0..(NINDIRECT - 1) /\ ~(NDIRECT + (n - NDIRECT) < n)
    BY <1>12, Bytes
  <2> QED
    BY <1>13, <1>14, <2>1 DEF PointersOn, ReadBlock, AsPointers
<1> DEFINE e == itable[i].blocks[NDIRECT]
<1>16. AsPointers(IF e \in DOMAIN disk THEN disk[e] ELSE Junk) = AsPointers(ReadBlock(e))
  BY DEF ReadBlock
<1>17. n - NDIRECT < NINDIRECT => AsPointers(IF e \in DOMAIN disk THEN disk[e] ELSE Junk)[n - NDIRECT] = Wild
  BY <1>15, <1>16
<1> QED
  BY <1>4, <1>6, <1>7, <1>8, <1>10, <1>17 DEF Stray, Overruns, There, n, ReadBlock

(* It stays astray: the loop over the pointers does not come to its end.   *)
LEMMA StrayNext == ASSUME ClientInv, InodeInv, Stray, [TestNext]_testVars PROVE Stray'
<1> DEFINE c == call[main]
           l == loc[main]
           i == c.inum
           ino == itable[i]
           last == Blocks(ino.size) - NDIRECT
           ptr == AsPointers(ReadBlock(ino.blocks[NDIRECT]))
<1>1. main \in Threads /\ main \notin Workers /\ Threads = Workers \cup {main}
      /\ DOMAIN pc = Threads /\ DOMAIN loc = Threads
  BY TestersAssumption DEF InodeInv, Arrays
<1>2. /\ s.at = "remove" /\ Overruns(c, contents) /\ pc[main] \in {"d_get", "d_free", "d_ptrs"}
      /\ i \in Inums /\ ino # Nil /\ ino.size = Size(contents[i].file) /\ ~SupportedRemove(ino.size)
      /\ last < NINDIRECT => ptr[last] = Wild
      /\ pc[main] # "d_get" => l.ino = ino
      /\ pc[main] = "d_ptrs" => l.ptr = ptr /\ l.indirect <= last
  BY DEF Stray, Overruns, There
<1>3. CASE UNCHANGED testVars
  BY <1>3 DEF testVars, vars, Stray, Overruns, There, AsPointers, ReadBlock
<1>4. CASE TestNext
  <2>1. Inside(main) /\ UNCHANGED s
    <3>1. \A w \in Workers : pc[w] = "idle" /\ left[w] = 0
      BY <1>2 DEF ClientInv, Joined, Waiting
    <3>2. ~Main
      BY <1>2 DEF Main, test_create_and_getattr, test_put_and_get, test_indirect, test_remove, test_concurrent, test_latency,
                  Ask, Then, Create, Join, CallRemove, Begin, Return
    <3>3. \A w \in Workers : ~Work(w)
      BY <3>1 DEF Work, Return, ClientInv, TestTyped
    <3>4. \A w \in Workers : ~Inside(w)
      BY <1>1, <3>1, InsideStep
    <3> QED
      BY <1>1, <1>4, <3>2, <3>3, <3>4 DEF TestNext, InFileSystem
  <2>2. /\ ino.size \in Nat /\ ino.size > DirectBytes /\ last \in Nat
        /\ num_indirect_blocks(ino.size) = last + 1
    <3>1. ino.size \in Nat
      BY <1>2, SizeType DEF InodeInv, Shared
    <3>2. ino.size > DirectBytes /\ ino.size % BLOCK_SIZE = 0
      BY <1>2, <3>1, Bytes DEF SupportedRemove
    <3>3. Blocks(ino.size) \in Nat /\ Blocks(ino.size) > NDIRECT /\ NDIRECT \in Nat
      BY <3>1, <3>2, BlocksMost, Bytes
    <3> QED
      BY <3>1, <3>2, <3>3, NumIndirectFull
  <2>3. LocalOK(pc[main], l, c) /\ Shape(l)
    BY <1>1, LocalFact DEF LocalOK
  <2>4. RemoveGet(main) \/ RemoveFree(main) \/ RemovePointers(main)
    BY <1>2, <2>1 DEF Inside, Enter, Exit, AllocInode, PutRead, PutWrite, Getattr, ReadGet, ReadPointers, ReadLoop,
                      WriteGet, WriteFree, WriteLoop, WriteStore, WriteOld, WriteTrim, WritePointers, WriteFreeIndirect, FreeInode
  <2>5. UNCHANGED <<s, call, itable, disk, contents>>
    BY <2>1, <2>4 DEF RemoveGet, RemoveFree, RemovePointers, Undefined
  <2>6. Overruns(c, contents)' /\ ptr' = ptr /\ i' = i /\ ino' = ino /\ last' = last
    BY <1>2, <2>5 DEF Overruns, There, AsPointers, ReadBlock
  <2> HIDE DEF ptr, last
  <2>7. ASSUME pc'[main] \in {"d_get", "d_free", "d_ptrs"}, pc'[main] # "d_get" => loc'[main].ino = ino,
               pc'[main] = "d_ptrs" => loc'[main].ptr = ptr /\ loc'[main].indirect <= last
        PROVE  Stray'
    BY <1>2, <2>5, <2>6, <2>7 DEF Stray, ptr, last
  <2>8. CASE RemoveGet(main)
    <3>1. Goto(main, "d_free", [l EXCEPT !.ino = ino])
      BY <1>2, <2>8 DEF RemoveGet, GetInode, Inum
    <3>2. pc'[main] = "d_free" /\ loc'[main].ino = ino
      BY <1>1, <2>3, <3>1 DEF Goto, Shape
    <3> QED
      BY <2>7, <3>2
  <2>9. CASE RemoveFree(main)
    <3>1. pc[main] = "d_free" /\ l.indirect = 0 /\ l.ino = ino
      BY <1>2, <2>3, <2>9 DEF RemoveFree, LocalOK
    <3>2. CASE l.index < NDIRECT
      <4>1. Goto(main, "d_free", [l EXCEPT !.index = @ + 1])
        BY <2>9, <3>2 DEF RemoveFree
      <4>2. pc'[main] = "d_free" /\ loc'[main].ino = ino
        BY <1>1, <2>3, <3>1, <4>1 DEF Goto, Shape
      <4> QED
        BY <2>7, <4>2
    <3>3. CASE ~(l.index < NDIRECT)
      <4>1. Goto(main, "d_ptrs", [l EXCEPT !.ptr = ptr])
        BY <2>2, <2>9, <3>1, <3>3 DEF RemoveFree, ptr
      <4>2. pc'[main] = "d_ptrs" /\ loc'[main].ino = ino /\ loc'[main].ptr = ptr /\ loc'[main].indirect = 0
        BY <1>1, <2>3, <3>1, <4>1 DEF Goto, Shape
      <4> QED
        BY <2>2, <2>7, <4>2
    <3> QED
      BY <3>2, <3>3
  <2>10. CASE RemovePointers(main)
    <3>1. pc[main] = "d_ptrs" /\ l.ino = ino /\ l.ptr = ptr /\ l.indirect <= last
      BY <1>2, <2>10 DEF RemovePointers
    <3>2. l.indirect \in Nat
      BY <2>2, <2>3, <3>1 DEF LocalOK
    <3>3. l.indirect # num_indirect_blocks(l.ino.size)
      BY <2>2, <3>1, <3>2
    <3>4. CASE l.indirect >= NINDIRECT \/ l.ptr[l.indirect] = Wild
      <4>1. UNCHANGED <<pc, loc>>
        BY <2>10, <3>3, <3>4 DEF RemovePointers, Undefined
      <4> QED
        BY <2>7, <3>1, <4>1
    <3>5. CASE ~(l.indirect >= NINDIRECT \/ l.ptr[l.indirect] = Wild)
      <4>1. Goto(main, "d_ptrs", [l EXCEPT !.indirect = @ + 1])
        BY <2>10, <3>3, <3>5 DEF RemovePointers
      <4>2. pc'[main] = "d_ptrs" /\ loc'[main].ino = ino /\ loc'[main].ptr = ptr /\ loc'[main].indirect = l.indirect + 1
        BY <1>1, <2>3, <3>1, <4>1 DEF Goto, Shape
      <4>3. l.indirect # last
        <5>1. l.indirect < NINDIRECT
          BY <3>2, <3>5, Bytes
        <5> QED
          BY <1>2, <3>1, <3>5, <5>1
      <4> QED
        BY <2>2, <2>7, <3>1, <3>2, <4>2, <4>3
    <3> QED
      BY <3>4, <3>5
  <2> QED
    BY <2>4, <2>8, <2>9, <2>10
<1> QED
  BY <1>3, <1>4

(* A remove that does not overrun leaves no file.                          *)
LEMMA OverrunsOnlyBegin ==
  ASSUME ClientInv, ClientInv', InodeInv, InodeInv', TestInv, MainAnswer', [TestNext]_testVars,
         \A t \in Threads : pc[t] = "idle" /\ pc'[t] # "idle" => ~Overruns(call'[t], contents)
  PROVE  NoOverrun'
<1>1. main \in Threads /\ main \notin Workers /\ Threads = Workers \cup {main} /\ DOMAIN pc = Threads /\ DOMAIN call = Threads
      /\ DOMAIN reply = Threads
  BY TestersAssumption DEF InodeInv, Arrays, ClientInv, TestTyped
<1> SUFFICES ASSUME pc'[main] # "idle" PROVE ~Overruns(call'[main], contents')
  BY DEF NoOverrun
<1>2. CASE UNCHANGED vars
  BY <1>2 DEF vars, TestInv, NoOverrun
<1>3. CASE Main
  BY <1>1, <1>2, <1>3, MainSteps DEF Begin, Return, Goto
<1>4. ASSUME NEW w \in Workers, Work(w) PROVE ~Overruns(call'[main], contents')
  <2>1. pc'[main] = pc[main] /\ call'[main] = call[main] /\ contents' = contents
    BY <1>1, <1>4, WorkerCalls DEF Return, Goto
  <2> QED
    BY <2>1 DEF TestInv, NoOverrun
<1>5. ASSUME NEW t \in Threads, InFileSystem(t) PROVE ~Overruns(call'[main], contents')
  <2>1. Inside(t) /\ UNCHANGED <<s, call>> /\ pc[main] # "idle" /\ pc[t] # "idle"
    BY <1>1, <1>5, InsideStep DEF InFileSystem
  <2>2. CASE UNCHANGED storevars
    BY <2>1, <2>2 DEF storevars, TestInv, NoOverrun
  <2>3. CASE Store!Effect(t)
    <3> SUFFICES ASSUME call[main].op = "remove" PROVE ~Overruns(call[main], contents')
      BY <2>1 DEF Overruns
    <3>1. s.at \notin Waiting
      BY <2>1 DEF ClientInv, MainCall, AskedAt
    <3>2. t = main
      BY <1>1, <2>1, <3>1 DEF ClientInv, Joined
    <3>3. reply'[main] # Nil
      BY <1>1, <2>3, <3>2, EffectIs
    <3>4. Agrees(contents', call[main], reply'[main])
      BY <2>1, <3>3 DEF MainAnswer
    <3> QED
      BY <3>4 DEF Agrees, Overruns
  <2> QED
    BY <1>1, <2>1, <2>2, <2>3, InsideIsStore DEF TestInv
<1> QED
  BY <1>2, <1>3, <1>4, <1>5 DEF TestNext, testVars

LEMMA TestInvNext ==
  ClientInv /\ ClientInv' /\ InodeInv /\ InodeInv' /\ LockInv /\ HasRoom /\ (TestInv \/ Stray) /\ [TestNext]_testVars
    => (TestInv \/ Stray)'
<1> SUFFICES ASSUME ClientInv, ClientInv', InodeInv, InodeInv', LockInv, HasRoom, TestInv \/ Stray, [TestNext]_testVars
             PROVE  TestInv' \/ Stray'
  OBVIOUS
<1>1. CASE Stray
  BY <1>1, StrayNext
<1>2. CASE TestInv /\ \E t \in Threads : pc[t] = "idle" /\ pc'[t] # "idle" /\ Overruns(call'[t], contents)
  BY <1>2, StrayBegins
<1>3. CASE TestInv /\ \A t \in Threads : pc[t] = "idle" /\ pc'[t] # "idle" => ~Overruns(call'[t], contents)
  <2>1. [Next]_vars /\ Apart
    BY <1>3, TestNextClient, TestersApart
  <2>2. FilesInv' /\ AnswerInv'
    BY <1>3, <2>1, NextFiles, NextAnswers DEF TestInv
  <2>3. MainAnswer' /\ Script' /\ AtWork' /\ err' = FALSE
    <3>1. CASE UNCHANGED testVars
      BY <1>3, <3>1 DEF testVars, vars, TestInv, MainAnswer, Script, AtWork, Working
    <3>2. CASE TestNext
      BY <1>3, <3>2, MainFiles, WorkFiles, InsideFiles DEF TestNext
    <3> QED
      BY <3>1, <3>2
  <2>4. NoOverrun'
    BY <1>3, <2>3, OverrunsOnlyBegin
  <2> QED
    BY <2>2, <2>3, <2>4 DEF TestInv
<1> QED
  BY <1>1, <1>2, <1>3

(* As long as there are free blocks main knows what is in its files, until *)
(* part1 removes a file whose indirect blocks are all full.                *)
THEOREM TestInvariant == TestSpec /\ []HasRoom => [](TestInv \/ Stray)
<1>1. TestSpec => []ClientInv /\ []InodeInv /\ []LockInv
  <2>1. Spec => []LockInv
    BY LocksHeld DEF LockInv
  <2> QED
    BY <2>1, TestersAreClients, InodeInvariant, PTL
<1>2. TestInit => TestInv \/ Stray
  BY TestInvInit
<1> QED
  BY <1>1, <1>2, TestInvNext, PTL DEF TestSpec

(* test_put_and_get compares a file only with what it has put into it,     *)
(* for any number of files and whatever types they were made with.         *)
THEOREM ComparesOnlyOwnPuts == TestSpec /\ []HasRoom => []ComparesOwnPut
<1>1. ClientInv /\ (TestInv \/ Stray) => ComparesOwnPut
  <2> SUFFICES ASSUME ClientInv, TestInv \/ Stray, s.at = "get" PROVE s.contents[s.i] # Nil
    BY DEF ComparesOwnPut
  <2>1. program = "part1"
    BY ScriptFacts DEF Belongs, Part1, Looping
  <2>2. Script1(s, contents, reply[main] # Nil)
    BY <2>1 DEF Stray, TestInv, Script, Known
  <2>3. s.i \in 0..(FILE_NUM - 1)
    BY ScriptFacts DEF Placed, Looping
  <2>4. IsFile(contents, s.i + 2) /\ Holds(s, contents, s.i)
    BY <2>2, <2>3 DEF Script1
  <2>5. s.contents[s.i] \in Files
    BY <2>4 DEF IsFile, Holds
  <2> QED
    BY <2>5, NotNil DEF Stored
<1> QED
  BY <1>1, TestersAreClients, TestInvariant, PTL

(* part2 and part3 end with all their points, for any number of writers,   *)
(* readers and rounds: no reader has read anything but str1 or str2.       *)
THEOREM ConcurrentTestsPass ==
  TestSpec /\ []HasRoom => [](program # "part1" => FullScore /\ StaysDefined)
<1>1. ClientInv /\ (TestInv \/ Stray) => (program # "part1" => FullScore /\ StaysDefined)
  <2> SUFFICES ASSUME ClientInv, TestInv \/ Stray, program # "part1" PROVE FullScore /\ StaysDefined
    OBVIOUS
  <2>1. ~Stray
    BY ScriptFacts DEF Stray, Belongs, Part1, Looping
  <2> QED
    BY <2>1 DEF TestInv, Script, Known, FullScore, FilesInv, FilesFor, StaysDefined
<1> QED
  BY <1>1, TestersAreClients, TestInvariant, PTL

(* A test program that comes to its end has all its points, for any number *)
(* of writers, readers, rounds and files, and whatever strings part1 puts, *)
(* those of exactly LARGE_FILE_SIZE included: the files and the answers    *)
(* are right up to the remove that UndefinedOnlyInRemove is about, after   *)
(* which the program does not go on (OverrunNeverReturns).                 *)
THEOREM TestsPass == TestSpec /\ []HasRoom => []FullScore
<1>1. TestInv \/ Stray => FullScore
  BY DEF TestInv, Script, Known, FullScore, Stray
<1> QED
  BY <1>1, TestInvariant, PTL

(* The only behaviour that is not defined is that of part1 in test_remove, *)
(* with a file whose indirect blocks are all full: remove_file then frees  *)
(* a pointer too many.                                                     *)
THEOREM UndefinedOnlyInRemove ==
  TestSpec /\ []HasRoom => [](~StaysDefined => program = "part1" /\ s.at = "remove" /\ Overruns(call[main], contents))
<1>1. ClientInv /\ (TestInv \/ Stray)
        => (~StaysDefined => program = "part1" /\ s.at = "remove" /\ Overruns(call[main], contents))
  <2> SUFFICES ASSUME ClientInv, TestInv \/ Stray, ~StaysDefined
               PROVE  program = "part1" /\ s.at = "remove" /\ Overruns(call[main], contents)
    OBVIOUS
  <2>1. Stray
    BY DEF TestInv, FilesInv, FilesFor, StaysDefined
  <2>2. s.at = "remove" /\ Overruns(call[main], contents)
    BY <2>1 DEF Stray
  <2> QED
    BY <2>2, ScriptFacts DEF Belongs, Part1, Looping
<1> QED
  BY <1>1, TestersAreClients, TestInvariant, PTL

(* And that remove does not come to its end: it never gets to free_inode,  *)
(* let alone back to main.                                                 *)
THEOREM OverrunNeverReturns ==
  TestSpec /\ []HasRoom =>
    [](pc[main] # "idle" /\ Overruns(call[main], contents) => pc[main] \in {"d_get", "d_free", "d_ptrs"})
<1>1. TestInv \/ Stray => (pc[main] # "idle" /\ Overruns(call[main], contents) => pc[main] \in {"d_get", "d_free", "d_ptrs"})
  BY DEF TestInv, NoOverrun, Stray
<1> QED
  BY <1>1, TestInvariant, PTL
=============================================================================

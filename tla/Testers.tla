-------------------------------- MODULE Testers --------------------------------
(***************************************************************************)
(* The three test programs, as the clients of the file system: main runs a *)
(* script of calls, s.at being its position; part2 and part3 start writer  *)
(* and reader threads and join them.  The calls are those of InodeLayer,   *)
(* step by step.  fs_server answers OK to every call, so the tests for     *)
(* other answers are left out.                                             *)
(*                                                                         *)
(* A string of random characters is a file of its length.  The two large   *)
(* strings of part1 are built from buffers without a terminating zero:     *)
(* they are LARGE_FILE_SIZE bytes or longer.                               *)
(***************************************************************************)
EXTENDS InodeLayer, Sequences

CONSTANTS Writers, Readers, main,
          FILE_NUM,
          N_READ_WRITE_TEST,
          LARGE_FILE_SIZE,
          SmallFiles,      \* "%d" of a number
          Unterminated,    \* at least LARGE_FILE_SIZE bytes
          LargeFiles,      \* LARGE_FILE_SIZE bytes
          DoubleFiles      \* twice as many

Workers == Writers \cup Readers
T_FILE == 2

ASSUME TestersAssumption ==
  /\ Threads = Workers \cup {main} /\ main \notin Workers /\ Writers \cap Readers = {}
  /\ FILE_NUM \in Nat \ {0} /\ N_READ_WRITE_TEST \in Nat \ {0}
  /\ SmallFiles \cup Unterminated \cup LargeFiles \cup DoubleFiles \subseteq Files
  /\ T_FILE \in Types /\ Inums \cup (2..(FILE_NUM + 1)) \subseteq Ids

(* 50 and two files beside the root fit in the inode table of 1024, and    *)
(* their ids are not masked.                                               *)
ASSUME RoomAssumption == FILE_NUM + 3 <= INODE_NUM /\ FILE_NUM + 1 <= MASK

(* A number has fewer bytes than the direct blocks; 64 and 128 blocks are  *)
(* more than those and less than the largest file.                         *)
ASSUME FileSizesAssumption ==
  /\ LARGE_FILE_SIZE \in Nat /\ LARGE_FILE_SIZE % BLOCK_SIZE = 0
  /\ LARGE_FILE_SIZE >= DirectBytes + BLOCK_SIZE /\ 2 * LARGE_FILE_SIZE <= BLOCK_SIZE * MAXFILE
  /\ \A f \in SmallFiles : Size(f) <= DirectBytes
  /\ \A f \in Unterminated : Size(f) \in LARGE_FILE_SIZE..(BLOCK_SIZE * MAXFILE)
  /\ \A f \in LargeFiles : Size(f) = LARGE_FILE_SIZE
  /\ \A f \in DoubleFiles : Size(f) = 2 * LARGE_FILE_SIZE

VARIABLES program,   \* "part1", "part2" or "part3"
          s,         \* the script of main: position and variables
          left,      \* rounds each worker has left
          err        \* one of the err_in_single_... flags is set

testVars == <<vars, program, s, left, err>>

Programs == {"part1", "part2", "part3"}
Start == [part1 |-> "create", part2 |-> "prepare", part3 |-> "measure"]

TestInit == /\ Init
            /\ program \in Programs
            /\ s = [at |-> Start[program], i |-> 0, id |-> 0, kind |-> 0, ids |-> <<>>,
                    contents |-> [k \in 0..(FILE_NUM - 1) |-> Nil],
                    strs |-> <<>>,          \* str1 and str2; buf and buf2 in part1
                    total_score |-> 0]
            /\ left = [w \in Workers |-> 0]
            /\ err = FALSE

-----------------------------------------------------------------------------
(* main makes a call at the position `label'; it has the answer, and goes  *)
(* on in state `next'.                                                     *)
Ask(label, request) == s.at = label /\ request /\ UNCHANGED <<program, s, left, err>>
Then(label, next) ==
  s.at = label /\ Return(main) /\ s' = next /\ UNCHANGED <<program, left, err>>

answer == reply[main]
To(label) == [s EXCEPT !.at = label]
Earn(label, points) == [s EXCEPT !.at = label, !.i = 0, !.total_score = @ + points]

(* The next round of a loop over the files, or what follows it.            *)
NextFile(head, exit, points) ==
  IF s.i + 1 < FILE_NUM THEN [s EXCEPT !.at = head, !.i = @ + 1] ELSE Earn(exit, points)

(* The files that test_create_and_getattr makes are 1 to FILE_NUM; the     *)
(* later tests ask for 2 to FILE_NUM + 1.                                  *)
file_id == s.i + 2

test_create_and_getattr ==
  \/ \E type \in Types : Ask("create", CallCreate(main, type))
  \/ Then("create", [s EXCEPT !.at = IF answer = 0 THEN "end" ELSE "created",
                              !.id = answer, !.kind = call[main].type])
  \/ Ask("created", CallGetattr(main, s.id))
  \/ Then("created", IF answer[1] # s.kind THEN To("end") ELSE NextFile("create", "attr_put", 10))

(* Mutant of Compared: directories too.                                    *)
Compared_AnyType(type) == type # 0

(* The files whose contents the second loop of test_put_and_get compares.  *)
Compared(type) == type = T_FILE

test_put_and_get ==
  \/ Ask("attr_put", CallGetattr(main, file_id))
  \/ Then("attr_put", IF answer[1] = T_FILE THEN To("put") ELSE NextFile("attr_put", "attr_get", 0))
  \/ \E f \in SmallFiles : Ask("put", CallPut(main, file_id, f))
  \/ Then("put", [NextFile("attr_put", "attr_get", 0) EXCEPT !.contents[s.i] = call[main].file])
  \/ Ask("attr_get", CallGetattr(main, file_id))
  \/ Then("attr_get", IF Compared(answer[1]) THEN To("get") ELSE NextFile("attr_get", "large", 10))
  \/ Ask("get", CallGet(main, file_id))
  \/ Then("get", IF answer = s.contents[s.i] THEN NextFile("attr_get", "large", 10) ELSE To("end"))

(* What test_indirect returns is not looked at.                            *)
test_indirect ==
  \/ Ask("large", CallCreate(main, T_FILE))
  \/ Then("large", [s EXCEPT !.at = "put_large", !.ids = Append(@, answer)])
  \/ \E f \in Unterminated : Ask("put_large", CallPut(main, s.ids[Len(s.ids)], f))
  \/ Then("put_large", [s EXCEPT !.at = IF Len(s.ids) = 1 THEN "large" ELSE "get_large",
                                 !.strs = Append(@, call[main].file)])
  \/ Ask("get_large", CallGet(main, s.ids[s.i + 1]))
  \/ Then("get_large", CASE answer # s.strs[s.i + 1]              -> Earn("remove", 0)
                         [] answer = s.strs[s.i + 1] /\ s.i = 0   -> [s EXCEPT !.i = 1]
                         [] answer = s.strs[s.i + 1] /\ s.i = 1   -> Earn("remove", 10))

test_remove ==
  \/ Ask("remove", CallRemove(main, file_id))
  \/ Then("remove", To("removed"))
  \/ Ask("removed", CallGetattr(main, file_id))
  \/ Then("removed", IF answer[1] # 0 THEN To("end") ELSE NextFile("remove", "end", 10))

-----------------------------------------------------------------------------
(* part2 and part3.                                                        *)

(* pthread_create for the threads in who, each to make n calls.            *)
Create(label, next, who, n) ==
  /\ s.at = label /\ Return(main)
  /\ s' = next
  /\ left' = [w \in Workers |-> IF w \in who THEN n ELSE 0]
  /\ UNCHANGED <<program, err>>

(* Mutant of Finished: a thread is not waited for until its call returns.  *)
Finished_LastRound == \A w \in Workers : left[w] <= 1

Finished == \A w \in Workers : left[w] = 0

(* pthread_join, then the flags.                                           *)
Join(label, next) ==
  /\ s.at = label /\ Finished
  /\ s' = IF err THEN To("end") ELSE next
  /\ UNCHANGED <<vars, program, left, err>>

(* single_repeated_writer, single_repeated_reader; with one round,         *)
(* single_reader.                                                          *)
Work(w) ==
  \/ /\ left[w] > 0
     /\ \/ w \in Writers /\ \E k \in DOMAIN s.strs : CallPut(w, s.id, s.strs[k])
        \/ w \in Readers /\ CallGet(w, s.id)
     /\ UNCHANGED <<program, s, left, err>>
  \/ /\ Return(w)
     /\ err' = (err \/ (w \in Readers /\ \A k \in DOMAIN s.strs : reply[w] # s.strs[k]))
     /\ left' = [left EXCEPT ![w] = IF err' THEN 0 ELSE @ - 1]
     /\ UNCHANGED <<program, s>>

(* test_concurrent of part2: files of a fixed size, then of two sizes.     *)
test_concurrent ==
  \/ Ask("prepare", CallCreate(main, T_FILE))
  \/ Then("prepare", [s EXCEPT !.at = "first_put", !.id = answer])
  \/ \E f \in LargeFiles : Ask("first_put", CallPut(main, s.id, f))
  \/ Then("first_put", [s EXCEPT !.at = "first_get", !.strs = <<call[main].file>>])
  \/ Ask("first_get", CallGet(main, s.id))
  \/ s.at = "first_get" /\ answer # s.strs[1] /\ Then("first_get", To("end"))
  \/ /\ s.at = "first_get" /\ answer = s.strs[1]
     /\ \E f \in LargeFiles \ {s.strs[1]} :
          Create("first_get", [s EXCEPT !.at = "fixed", !.strs = Append(@, f)],
                 Workers, N_READ_WRITE_TEST)
  \/ \E f \in DoubleFiles : Join("fixed", [Earn("varied_put", 5) EXCEPT !.strs[2] = f])
  \/ Ask("varied_put", CallPut(main, s.id, s.strs[1]))
  \/ Create("varied_put", To("varied"), Workers, N_READ_WRITE_TEST)
  \/ Join("varied", Earn("end", 5))

(* test_concurrent of part3.  The writers are left to be written.          *)
test_latency ==
  \/ Ask("measure", CallCreate(main, T_FILE))
  \/ \E f \in LargeFiles, g \in DoubleFiles :
       Then("measure", [s EXCEPT !.at = "measure_put", !.id = answer, !.strs = <<f, g>>])
  \/ Ask("measure_put", CallPut(main, s.id, s.strs[1]))
  \/ Create("measure_put", To("readers"), Readers, 1)
  \/ Join("readers", To("end"))

-----------------------------------------------------------------------------
Main == \/ program = "part1" /\ (\/ test_create_and_getattr \/ test_put_and_get
                                 \/ test_indirect \/ test_remove)
        \/ program = "part2" /\ test_concurrent
        \/ program = "part3" /\ test_latency

InFileSystem(t) == Inside(t) /\ UNCHANGED <<program, s, left, err>>

TestNext == ~undefined /\ (Main \/ \E w \in Workers : Work(w) \/ \E t \in Threads : InFileSystem(t))

TestSpec == TestInit /\ [][TestNext]_testVars

(* Every thread of the program is scheduled.                               *)
FairTestSpec == /\ TestSpec
                /\ WF_testVars(~undefined /\ Main)
                /\ \A w \in Workers : WF_testVars(~undefined /\ Work(w))
                /\ \A t \in Threads : WF_testVars(~undefined /\ InFileSystem(t))

-----------------------------------------------------------------------------
(* A test program that runs to its end has all its points, 40 of part1 and *)
(* 10 of part2, and none of its threads has seen an error: every get of a  *)
(* reader is str1 or str2, whatever the writers do meanwhile.              *)
FullScore == s.at = "end" => /\ ~err
                             /\ s.total_score = CASE program = "part1" -> 40
                                                  [] program = "part2" -> 10
                                                  [] program = "part3" -> 0

(* test_put_and_get compares a file only with what it has put into it:     *)
(* contents[i] is never read before it is assigned, though the ids are     *)
(* taken from two loops over getattr.                                      *)
ComparesOwnPut == s.at = "get" => s.contents[s.i] # Nil

(* Nobody is left in a call when main goes on: str2 is only replaced when  *)
(* no thread compares with it.                                             *)
JoinedBeforeChange ==
  [][s'.strs # s.strs => \A w \in Workers : pc[w] = "idle" /\ left[w] = 0]_testVars

(* A test program comes to its end, unless behaviour is not defined.       *)
Ends == <>(s.at = "end" \/ undefined)
=============================================================================

# file_system2 in TLA+

A verification project for the inode file system of this repository: a client
library (`fs_client`), a server object (`fs_server`) that it calls in the same
process, an inode layer, a block layer and an in-memory disk, with a
reader/writer lock per inode; the test programs that drive it; and the parts of
the RPC library whose code is in the headers under `rpc/`.  TLC checks the models
on small instances; TLAPS proves the theorems for every value of the constants.

## The system

    part1, part2, part3 testers
        |
    fs_client -> fs_server -> inode_layer -> block_layer -> disk
                                  |
                              a4_rwlock rwlocks[inum]

    rpcc::call -> marshall -> (network) -> ThrPool -> handler of rpcs::reg -> method
                                             |
                                           fifo

| part | state | operations | what makes it correct |
|---|---|---|---|
| `disk` (inode_layer.cc 540-565) | array of blocks | read, write a block; ids above `BLOCK_NUM` ignored | - |
| layout (inode_layer.h 51-75, inode_layer.cc 109, 512-523) | superblock numbers | `IBLOCK`, `BBLOCK` | regions disjoint, one bit per block |
| `block_layer` (inode_layer.cc 100-166) | free block bitmap on disk, `bitmap_mutex` | `alloc_block`, `free_block` | no block given out twice, none lost, mutex always released |
| `inode_layer` (inode_layer.cc 9-93, 173-507) | inode table on disk, locals of each call | `alloc_inode`, `get_inode`, `put_inode`, `read_file`, `write_file`, `remove_file`, `free_inode`, `getattr` | a block belongs to one file, a get answers the last put, calls return |
| `a4_rwlock` (locks.h) | four counters, a mutex, two condition variables | `reader_enter/exit`, `writer_enter/exit` | mutual exclusion, no lost wake-up |
| `fs_server`, `fs_client` | none | `create`, `put`, `get`, `getattr`, `remove` | calls are linearizable |
| testers (part1, part2, part3) | script of `main`, threads, `err_in_...` flags, `total_score` | the tests | full score, threads joined before shared strings change |
| `fifo`, `ScopedLock` (rpc/fifo.h, slock.h) | a list, a mutex, two condition variables | `enq`, `deq` | first in first out, bounded, no lost wake-up |
| `ThrPool` (rpc/thr_pool.h) | the queue of jobs, wrappers on the heap, workers | `addObjJob`, a job's `func`, shutdown | an accepted job runs once, wrappers outlive their use, shutdown ends |
| `marshall`, `unmarshall`, `attr` (rpc/marshall.h, fs_protocol.h) | a buffer and a head | `<<`, `>>`, headers | what is read is what was written |
| `rpcc::call`, `rpcs::reg` (rpc/rpc.h) | calls under way | `call`, `call_m`, `fn` | a method runs on what was sent, an answer is its own call's |
| `connection.h`, `pollmgr.h`, `jsl_log.h`, `method_thread.h` | declarations of `librpc.a`, unused helpers | - | - |
| `old_stuff.cc` | earlier version, not built | - | - |

The file system and the RPC library do not meet in this build: `fs_client` calls
`fs_server` directly.  The wire protocol of `fs_protocol.h` says how they would.

The behaviours that are hard to test are the interleavings of threads in the
lock, in the bitmap and in the inode table; the sequences of puts of different
sizes, where pointers left behind by one put are used by a later one; sizes at
block boundaries; a disk or an inode table that is full; in the RPC library,
signals that wake one thread, objects deleted by another thread than made them,
late and lost replies, and messages whose types only their length gives away.
They are listed
with their lines in `PROJECT.json` under `hazards`.

## The modules

| module | models | abstracts |
|---|---|---|
| `RWLock` | `a4_rwlock`: counters, mutex, condition variables, one action per call that may block and per stretch between two of them | spurious wake-ups (nobody ever waits) |
| `ExclusiveLock` | what `RWLock` implements | |
| `Layout` | `IBLOCK`, `BBLOCK`, `first_data_block`, the regions | |
| `BlockLayer` | `alloc_block`, `free_block` by several threads, one action per disk access | bytes and bits of a bitmap block: a set of offsets |
| `BlockAllocator` | what `BlockLayer` implements: atomic first fit | |
| `InodeLayer` | the five client calls from `fs_client` down to the disk, one action per access to shared state | file contents, time stamps |
| `FileStore` | what `InodeLayer` implements on supported workloads: a map from ids to files with linearizable calls | |
| `Testers` | the three test programs as clients of `InodeLayer` | random characters: a string is a file of its length; timings |
| `Fifo` | `enq`, `deq`, down to the mutex, the condition variables and spurious wake-ups | `size()` |
| `BoundedQueue` | what `Fifo` implements | |
| `ThrPool` | `addObjJob`, `func`, the workers and the destructor over `Fifo` | what a job does |
| `Marshall` | bytes of a message: headers, ints, strings, `attr`, vectors, maps | width of bytes and ints |
| `Rpc` | `call`, `call_m`, the handlers of `reg`, a network that loses and delays | arguments are numbered, not seven templates |
| `Workload` | nothing: which calls, and which calls beside each other, the file system serves correctly | |
| `MC...` | instances for TLC, and the workloads of the runs that find something | |
| `RWLockProofs`, `BlockLayerProofs` (with `Layout`), `ThrPoolProofs` (with `Fifo`), `RpcProofs` (with `Marshall`) | theorems about these modules | |
| `InodeLayerProofs`, `FileProofs`, `StoreProofs` | theorems about `InodeLayer`: types and locks for every workload; the blocks of the files; the refinement of `FileStore` | |
| `TestersProofs` | theorems about `Testers`: the scores of the test programs, and where they are undefined | |

`InodeLayer` uses the two lower components by what they are shown to implement:
`rwlocks[inum]` is an exclusive lock (`lock[i]`, actions `Enter` and `Exit`), and
`alloc_block`/`free_block` are the atomic operations of `BlockAllocator`
(`AllocBlock`, `Take`, `FreeBlock`).  The promise of `BlockAllocator` about
`free_block` covers any data block, 0 and the -1 of a failed allocation, which
are the only values `write_file` and `remove_file` pass it as long as
`StaysDefined` holds.  The threads of `BlockLayer` itself free no block that they
do not hold (`CallFree`): that no block has two holders is a promise to callers
who keep to this.  `write_file` does not always, it may free a stale pointer;
`InodeLayer` models it, and `inode_shrink` shows what follows.

### InodeLayer: state and actions

An inode is its type, size and block pointers.  Ids are masked as `fs_server`
does and may name no inode: `get_inode` then finds nothing, but `put` and `get`
first use `rwlocks[inum]`, which past the table is undefined.  `used` is the bitmap, `disk` the data blocks, `itable` the inode table (`Nil`
where the type is 0), `call`, `pc`, `loc` and `reply` describe what each thread
runs.  `contents` is a history variable: the file each inode should hold,
changed at the moment a call takes effect.  A file is `<<size, version>>`; the
block `k` of a file is the value `Data(f, k)`, so a read that returns any other
block, or a block in another position, is noticed.

| code | actions |
|---|---|
| `fs_client`, `fs_server` | `CallCreate`, `CallPut`, `CallGet`, `CallGetattr`, `CallRemove`, `Return` |
| `alloc_inode` | `AllocInode` per inode looked at, then `PutRead`, `PutWrite` |
| `put_inode` | `PutRead`, `PutWrite`: a block of the inode table is read, and written back whole |
| `read_file` | `Enter`, `ReadGet`, put_inode, `ReadPointers`, `ReadLoop`, `Exit` |
| `write_file` | `Enter`, `WriteGet`, `WriteFree`, `WriteLoop`/`WriteStore`, `WriteOld`, `WriteTrim`, `WritePointers`, `WriteFreeIndirect`, put_inode, `Exit` |
| `remove_file`, `free_inode` | `RemoveGet`, `RemoveFree`, `RemovePointers`, `FreeInode`, put_inode |
| `getattr` | `Getattr` |

`write_file` fills a 512-byte array on the stack with the new block pointers and
writes it to the disk as the new indirect block; the words it did not set are
`Wild`.  So are the bytes of a file when they are read as pointers.  A read
through a `Wild` pointer yields any block or junk; a write or a free through one
sets `undefined` and ends the behaviour, since it may hit any block of the disk.

The constant operator `Allowed(call, files, others)` is the workload: which call
may start, given the files there are and the calls that run.  The model of the
code is the same for all workloads.

### Testers: state and actions

`s` is the state of `main`: the position `at` in its script, the loop counter,
the ids and strings it keeps and `total_score`; `left` counts the rounds of the
threads, `err` is any of the error flags.  A script is a disjunction of `Ask` (a
call is made) and `Then` (its answer is used); between them the call runs through
the steps of `InodeLayer`, interleaved with those of the other threads.  The
strings of `test_indirect` come from buffers without a terminating zero, so their
length is `LARGE_FILE_SIZE` or more, up to the largest file; `FileSizesAssumption`
has the sizes of the other strings, in terms of `LARGE_FILE_SIZE` and the block
size as in the code.  part3 has no writers: the place for them
(part3_tester.cc 132-139) is empty.

### Fifo and ThrPool

A thread in the queue is in the constructor of `ScopedLock` or reacquiring the
mutex ("lock"), at the head of the loop with the mutex ("test"), in
`pthread_cond_wait` ("wait"), or in the destructor ("unlock").  `Enq` and `Deq`
are one round of the loop.  `ThrPool` extends `Fifo`: `AddObjJob` makes a wrapper
and calls `enq`, `AddReturns` gives the answer, `CallMethod` and `DeleteWrapper`
are the two halves of `func`.  The bodies of `addJob`, `takeJob`, the workers'
loop and the destructor are in `librpc.a`; `TakeJob`, `Exit`, `Close`,
`TellWorker` and `Join` are what the declarations and the queue leave them to do:
an empty job per worker, then the joins, then `~fifo`.

### Marshall and Rpc

A message is a sequence of digits to the base `Base`, an int has `W` of them.
`pack`, `unpack`, `okdone` and the reading and writing of plain types are in
`librpc.a` and modelled by their use; headers, containers and `attr` are
translated from the headers.  `Rpc` keeps the types of client and server apart,
as the templates do: `Invocations` may disagree with `Methods`, but every argument
and result is a value of its own C++ type (`Fits`, `ValuesAssumption`).  `call1` is
modelled as at-most-once execution, matching of a reply by its xid, and a timeout
at any moment, before or after the method has run.

## The runs

Passing runs:

| run | instance | shows |
|---|---|---|
| `rwlock` | 2 readers, 2 writers, 2 rounds, `INT_MAX` 1 | `a4_rwlock` is an exclusive lock (`ImplementsExclusiveLock`), nobody ever reaches `pthread_cond_wait` (`NobodyWaits`), the unlocked code of the exits never races (`MutexOwner`, `CountersMatch`), all threads finish (`AllFinish`) |
| `block_layer` | 2 threads, 4 data blocks in 2 bitmap blocks | `Conservation`, `ScanIsCurrent`, `ImplementsBlockAllocator`, `MutexReleased` |
| `inode_serial` | 1 client, 2 files of 2 types, 6 calls, 6 contents, an id past the table and one that needs the mask, 2 direct and 3 indirect blocks of 2 bytes | `OneOwner`, `NoLeak`, `ReadableFiles`, `StaysDefined`, `ImplementsFileStore`, `CallsReturn` on supported resizes |
| `inode_concurrent` | 2 clients, 2 files, 4 calls, inodes in blocks of their own, files of whole blocks as in `part2_tester` | the same promises when calls overlap |
| `testers` | 2 writers, 1 reader, 2 files, 2 rounds, `LARGE_FILE_SIZE` of two blocks | a program that runs to its end has its full score (`FullScore`), `contents[i]` is not read unassigned (`ComparesOwnPut`), threads are joined before `str2` changes (`JoinedBeforeChange`), the programs end (`Ends`) |
| `thr_pool` | 2 callers, 2 workers, 3 jobs, capacity 2, 1 spurious wake-up, waiting and refusing adds | the queue is a bounded queue, first in first out, and loses no wake-up (`ImplementsBoundedQueue`, `NoLostWakeup`, `MutexOwner`); jobs run once on wrappers that are alive (`RunsOnce`, `WrapperAlive`); the pool ends cleanly (`CleanShutdown`, `ShutdownEnds`, `JobsRun`) |
| `rpc` | 2 client threads, 2 calls out of 11 kinds, 2-digit ints to the base 4 | `ArgumentsArrive`, `ReplyIsTheMethods`, `AbortOnlyOnMismatch` |

Runs that find the code doing something else than a comment, the README or a
test says (the quotes are in `PROJECT.json` under `findings`):

| run | what happens |
|---|---|
| `rwlock_readers_share` | a reader waits for a reader |
| `inode_past_direct` | a file between 8 and 9 blocks long is not read back |
| `inode_shrink` | two files share a block after a put with fewer direct blocks |
| `inode_neighbours` | of two puts at once, of files made before, one writes back a stale copy of the other file's inode |
| `tester_part1` | part1 removes a file whose last indirect block is full: remove frees a pointer too many |

More behaviours of the code are why the supported workload is narrower still
(each is a few calls of `InodeLayer` away, and breaks the property named): the
data blocks behind the indirect block are not freed when a file loses all its
indirect blocks (`NoLeak`); growing by part of a block into a new block writes
through an uninitialised pointer, line 328 (`StaysDefined`); shrinking may free one
pointer more than the file loses blocks, line 384, because the bytes it loses are
rounded up to blocks (`StaysDefined`); two creates at once get the same inode,
line 22, and a create with no inode free overwrites the root directory, line 19
(`ImplementsFileStore`); a put that runs out of blocks stores the -1 of
`alloc_block` as a pointer, line 296, and answers OK (`GetMatchesPut`); a put or a
get of an id past the table uses a lock past the array, line 177 (`StaysDefined`).

The supported workload (`SupportedResize`, `SupportedRemove`, `Conflict` in
`Workload`) is what is left without these: direct blocks never become
fewer, a file with indirect blocks keeps at least one, no size between 8 and 9
blocks, growing by less than a block only within the last block, shrinking only
where bytes and blocks give the same count, removing a file with indirect
blocks only if the last one is partial, no two creates at once, no remove beside
a put, a get or a remove of the same file, creates only while an inode is free,
puts and gets only of ids within the table.  `part2_tester` and `part3_tester` are
inside it; `part1_tester` is but for the remove of `tester_part1`, and `Testers`
runs them without any restriction.

### Bounds

`MaxRounds` 2 lets a thread come back to a lock in the state the first round
left, and with `INT_MAX` 1 the counter that is only decremented wraps (in C++ the
overflow is undefined; the model takes what the two's complement build does).  Four
data blocks over two bitmap blocks give neighbours in one bitmap block, a scan
that crosses to the next, and a full disk.  With two direct pointers, three
indirect ones and two bytes per block every branch of `write_file` is taken:
files of one size class each, partial and full last blocks, the largest file and
one too large.  Six calls are enough for the longest story a serial workload
needs (create, put, put, create, put, put: see `inode_shrink`).  Two clients and
four calls give two puts of one file with indirect blocks, a get beside a put,
and two files written at once.

In `testers` two files per loop give the shift between the ids that are created
(from 1) and those that are asked for (from 2), so that `test_remove` reaches the
first file of `test_indirect`; two rounds let a writer come back to a file it
left, one reader meets two writers.  `LARGE_FILE_SIZE` is one direct and one
indirect block, doubled it needs more indirect blocks.  In `thr_pool` with
capacity 2 two jobs in the queue have an order to keep, a third finds the queue full
and waits or is refused, as do the empty jobs of the destructor; both workers may
wait at once, and one spurious wake-up can hit any sleeper.  Several threads that
wait for places are left to `NoWakeupIsLost`.  In `rpc` two calls are enough for
a late reply to meet the next call of the same thread, or one of another thread;
`Base` 4 and `W` 2 leave room for negative answers and for lengths that are read
from the wrong bytes.

No run uses symmetry: the temporal properties rule it out.

### Fairness

Weak fairness of each thread's steps, as the scheduler gives it; nothing is
assumed of the order in which a mutex is granted.  In `RWLock` and `InodeLayer`
the number of calls is bounded, so that a thread cannot be overtaken for ever;
in `BlockLayer` the liveness property is that the mutex is released, which needs
no fairness of the mutex.  `rwlock_readers_share` assumes only that a thread
that asks is scheduled, not that a reader leaves.  In `ThrPool` every worker and
every thread inside a call is scheduled; nothing makes callers add jobs or the
owner destroy the pool, so `ShutdownEnds` starts when it does.  The threads of
`Testers` are scheduled, in their own code and in the file system; rounds are
bounded as in the programs.  `rpc` checks safety only: a call may always time out.

Deadlock is checked in `block_layer`.  The other programs end (threads are
joined, the calls of a client are over), and `AllFinish` and `CallsReturn` say
that they do not end early.

## The proofs

Assumptions: the readers and writers are disjoint sets without the value that
stands for a free mutex, `INT_MAX` is positive; the sizes of the layout are
positive and `BPB` divides `BLOCK_NUM`; there is a data block, and the -1 of
`alloc_block` lies past the bitmap of the disk; producers and consumers are finite
disjoint sets, the capacity is a natural number, the jobs are items of the queue;
a byte has two values or more and an int a byte or more, procedure numbers, xids
and answers are ints, a call is of a procedure that the server has, with
arguments that its C++ types can hold; the size of a file is a
natural number and there is one file of size 0, the types of files are positive,
the mask covers the inode numbers, and `Nil` is no thread, inode, file, request
or answer; the files of the test programs fit in the inode table, there is at
least one and at least one round, a number has fewer bytes than the direct blocks
and a large string more, by a block or more.  TLC evaluates them in the runs.

* `RWLockProofs`: `LockInv` is `TypeOK`, `MutexOwner`, `NobodyWaits` and
  `CountersMatch` together.  `NobodyWaits` is not inductive by itself: a thread
  at the test waits if a counter is not zero, and only `CountersMatch` with
  `MutexOwner` says that the counters are about the owner of the mutex, which is
  the thread at the test.  From it: `TypeCorrect`, `NobodyEverWaits`,
  `OwnerInvariant`, `CountersAreRight`, and `RWLockIsExclusive` (refinement of `ExclusiveLock`).
* `BlockLayerProofs`, about `Layout`: `BitsDistinct` (a block is determined by its
  bitmap block and offset) and `RegionsDisjoint`, from facts about division stated
  as lemmas.
* `BlockLayerProofs`, about `BlockLayer`: `BlockInv` adds to `Conservation` and `ScanIsCurrent` who
  owns the mutex, the range of `id`, and that a block being freed is nobody's
  (`FreeingIsPrivate`).  `SetBit` and `ClearBit` say what writing a bitmap block
  does to the set of blocks in use, from `BitsDistinct`.  From it:
  `TypeCorrect`, `BlocksConserved`, `ScanStaysCurrent`, and
  `BlockLayerImplementsAllocator` (refinement of `BlockAllocator`).

* `ThrPoolProofs`, about `Fifo`: `FifoInv` is `TypeOK`, `MutexOwner`, `Bounded` and that a producer
  in a call brings an item.  `NoLostWakeup` is preserved on top of it: a thread
  that leaves with an item or a place takes one of the threads on their way and
  one of what they are on their way for (`ServedLeave`); a signal adds one to both
  on the other side (`ServedSignal`); a thread only falls asleep when there is
  nothing to be had.  `Bounded` is what makes the condition on the signal in `deq`
  always true.  From it: `TypeCorrect`, `OwnerInvariant`, `StaysBounded`,
  `NoWakeupIsLost`, and `FifoIsBoundedQueue` (refinement of `BoundedQueue`).
* `ThrPoolProofs`, about `ThrPool`: `PoolUsesFifo`, every behaviour of the pool is one of `Fifo`,
  which carries the theorems over: `PoolLosesNoWakeup`, `PoolQueueIsBounded`.
  The life of a job is `PoolInv` (which thread may be where, and what it has in
  its hands) with `JobInv`: a job is at most in one place, with its caller, in the
  queue or with a worker, has not run while it is on its way, and its wrapper is on
  the heap until a worker deletes it.  From it: `PoolTyped`, `JobsRunOnce`,
  `WrappersStayAlive`.  `ShutdownIsClean` needs `CloseInv` too: once the destructor
  is at work no caller is inside, it puts its empty jobs into the queue with an
  `enq` that waits, so that they are behind every job, and a worker leaves with an
  empty job only; when all have left, the queue has no job in it.  Its hypothesis
  is that the pool has a worker: without one the destructor joins nobody and
  leaves the jobs where they are.
* `RpcProofs`, about `Marshall`.  What a loop over bytes or arguments computes
  is proved by induction, without the library's induction theorems, which have an
  operator as a parameter: a set that has 0 and with `n` also `n + 1` is all of
  `Nat`, because what is left of `Nat` would have a least element
  (`LeastElement`, from `WFMin`), and for the same reason a recursive function is
  what its equations say (`RecursionOn`).  From there: `Digits` and `Value` are
  inverse of each other (`ValueOfDigits`, `DigitsOfValue`), each plain type is read
  back from the bytes that its `<<` writes (`Enc`, `At`) and, the other way round, a
  successful read of any bytes gives a value whose `<<` writes just these bytes
  (`IsRead`).  `ArgumentsComeBack` and `OnlyItsOwnIsRead` are the same for a whole
  list of arguments.  `ReqHeaderKeepsArguments` and `ReplyHeaderKeepsResult`: the
  headers, packed last, fit in front of the payload (`PackInside`), and their ints
  come back with their sign.
* `RpcProofs`, about `Rpc`: `RpcInv` says of a request under way that it is byte
  for byte the request of the call with its xid, which has not been executed; of
  a reply that it is the one of an execution in the log, or the refusal that a
  handler sends for arguments it cannot read; of the log that it holds an
  answer and a result that the method of the call can give; of a client in a call that its xid is its own and its `r` has the
  type of the call.  The
  properties are not inductive without it: what `call_m` reads depends on the bytes
  that the handler wrote, and those on the request, two messages back.  From
  it `AnswersAreKnown`, `ArgumentsDoArrive` and `AbortsAreMismatches`; and
  `RepliesAreTheMethods`, an action property, from what `Receive` reads out of such
  a reply.  `ArgumentsArrive` for types that do not agree is `OnlyItsOwnIsRead`.
  Hypothesis (`NoContainers`): arguments and results are ints, `ull`s, strings and
  `attr`s, as all of `fs_protocol`'s are.  The sets of clients, methods, values and
  calls, the width of an int and of a byte are arbitrary.  TLC checked `RpcInv`
  first, on an instance of these types.

* `InodeLayerProofs`, for every workload (`Allowed` is arbitrary, undefined
  behaviour included): `InodeInv` gives the types of what the threads share and,
  label by label, what a thread knows of its locals.  The counters of `write_file`
  are the hard part: `done` is advanced by the size of the block that comes next,
  so it lags behind `index * BLOCK_SIZE` when that block is the last and partial
  (`WritePosition`), and the loop tests `done`, not `index`, to tell direct blocks
  from indirect ones.  From it: `InodeTyped` and `StaysWithinArrays`, for all four
  loops over block pointers.  Reading and writing stay within `ino->blocks` and the
  indirect block.  The freeing loops need not: `remove_file` indexes one pointer
  past the indirect block, but only for a file of the largest size, and
  `write_file` one past it, but only when the blocks of the new size and those of
  the bytes given up are together more than `MAXFILE`; neither gets further.
  `LocksHeld`: on every
  path a put or a get is the holder of its lock between `Enter` and `Exit`, and a
  lock has no other holder; `ReadWriteExclusion` follows.
* `FileProofs`, under two hypotheses: `Served`, that the workload allows only what
  `ApartWorkload` allows, and `[]HasRoom`, that the disk is never full.
  `ApartWorkload` is the supported workload with pairs of calls that are
  `Compatible`: calls on files whose inodes are in different blocks of the table,
  puts and gets of one file, and `getattr` beside anything.  `SerialWorkload`
  implies it (`SerialIsApart`), so both hypotheses hold in `inode_serial`.  All
  that the steps of the proof need of the workload is `Apart`: the call that a step
  starts is one of `ApartWorkload` (`ServedApart`); a client for which that can be
  proved needs no hypothesis on the workload.
  The invariant `FilesInv` says that there is an assignment `hold[i][k]`, the
  block that place `k` of inode `i` owns, one place being the indirect block, such
  that
  the bitmap marks the blocks that are owned and no block is owned twice (`Owns`);
  a file that nobody changes is laid out in its blocks, all pointers included
  (`Whole`); the table agrees with the history (`Matches`); the calls that run are
  compatible (`Beside`); and a thread knows, label by label, what of the file is
  already freed, allocated, written or given up (`Phase`).  `hold` is what makes it
  inductive: in the middle of a put or a remove neither the inode table nor the
  locals name all the blocks of the file.  Most steps are one of three kinds:
  they change only the thread's own state (`OwnStep`), the blocks of the inode
  it is changing (`BlockStep`, with `TakeStep`, `FreeStep` and `DiskWrite`), or
  the table (`PutWriteFiles`).  Before it was proved the
  invariant was checked by TLC with `hold` as a variable, for one client with the
  files of `inode_serial` and for two clients.  From it: `BlocksHaveOneOwner`,
  `NoBlockIsLost`, `FilesAreReadable`, `NoWildPointer`.
* `StoreProofs`, under the same hypotheses: `AnswerInv` says that a call has its
  answer from the moment it takes effect, and that `read_file` has the inode of
  the table, the pointers of the disk and the first blocks of the file; it was
  checked by TLC on the instance of `inode_serial` and on two clients.  No
  other call disturbs a reader: `put_inode` never writes back another version of
  its inode (`ReaderApart`), and what `write_file` writes to is a block of its own
  (`WritesOwnBlock`), which is not the reader's indirect block.  From it
  `InodeLayerIsFileStore`, the refinement of `FileStore`: a create, a put and a
  remove take effect in the write of `put_inode`, a get in the step that finds
  nothing left to read, a getattr in `get_inode`, and a call for a file that is
  not there (or a put that is too large) in the `get_inode` that says so.
* `TestersProofs`: the programs run with any `Allowed`, so what they ask of the
  file system is proved, not assumed.  `ClientInv` says where `main` and the
  threads may be: which variables of `main` are set at each position of its
  script, which call it makes there, and that a thread in a call has a round left
  and `main` is waiting for it.  From it: `TestersAreClients` (the programs
  implement `Spec` of `InodeLayer`, so that `InodeTyped` and `LocksHeld` hold in
  them) and `ThreadsAreJoined`.  `TestInv`, on a disk that is never full
  (`[]HasRoom`), adds `FilesInv` and `AnswerInv` of the two modules before, that an
  answer `main` holds is about the files as they are (`MainAnswer`), what `main`
  knows of its files at each position (`Script`: for part1 how many inodes are in
  use, which files are still empty and which hold `contents[i]` or a large string;
  for part2 and part3 that the file is one of the two strings), that the threads
  work on that file with these strings and a reader has one of them (`AtWork`), and
  that no error flag is set.  The parts need each other: `FilesInv` is kept because
  the next call is a supported one (`TestersApart`), which follows from `Script`,
  and `Script` is kept because an answer is the file's, which is `AnswerInv`.
  TLC checked it first, on the instance of `testers` and on one with three files.
  The large strings of part1 may end at the end of a block, those of exactly
  `LARGE_FILE_SIZE` always do, and then the removes of the program overrun
  (`Overruns`, run `tester_part1`).  So the invariant is `TestInv \/ Stray`: `Stray` is
  about `main` in such a remove, with the pointer it is bound to come to, which was
  never stored or is past the end of the indirect block.  That the pointer is
  `Wild` is known from `FilesInv`, which says of the indirect block of a file what is
  in it behind the pointers of the file too.  From it: `ComparesOnlyOwnPuts`;
  `ConcurrentTestsPass` for part2 and part3; `TestsPass`, for all three programs and
  whatever strings part1 makes: who comes to the end has the full score;
  `UndefinedOnlyInRemove`, nothing undefined happens anywhere else in the programs;
  and `OverrunNeverReturns`, part1 does not go on from there.

Only model-checked:

* the workloads between `ApartWorkload` and `ConcurrentWorkload` (a create beside
  another call), a disk that gets full, and `FairSpec` altogether: liveness
  (fairness and `ENABLED`) is outside of the prover, in every module;
* vectors and maps in messages: no method of `fs_protocol` has one, and the
  theorems about `Rpc` leave them out; the run `rpc` has a method with each.

## Not modelled

* The values of time stamps; that a get writes the inode back to record one is
  modelled.
* Data races below the level of a block: `memcpy` on the disk array takes no
  lock, but a block transfer is one step here.
* A `remove` beside a put, a get or a remove of the same file, outside of the
  supported workload: `remove_file` takes no lock.
* The bodies in `librpc.a`: what `call1`, `dispatch`, the reply window, `bind`,
  connections and the poll manager do is known from their declarations only.
  They appear as at-most-once execution with timeouts.
* `fifo::size()`, `ThrPool::waitDone()`, the `bool`, `char` and `short` operators
  of the marshaller, `RPC_CHECKSUMMING` (off in this build).
* `method_thread.h` (included by nothing), `single_writer` of part3 (never
  started), thread functions of the testers that end without a `return`, whose
  value nobody reads.
* `old_stuff.cc` is not built.

## Plan

1. `FileProofs` for a create beside calls that are not for inodes of the same
   block of the table.
2. `RpcProofs` for vectors and maps.

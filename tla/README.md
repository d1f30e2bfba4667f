# Specifications of MIPT-programming

The repository collects the system-programming tasks of a course: programs of
one to three hundred lines, each with its own protocol over semaphores, shared
memory, pipes, message queues, sockets or threads, and some numerical exercises.
There is no common core; a *component* here is one program. The programs share
nothing at run time except that two starts of one program meet in the kernel's
objects (`ftok` keys, named pipes, ports).

This directory models the programs whose correctness depends on the order in
which several processes or threads run, and one data structure.

## 1. Inventory

| component | state it keeps | operations | what is hard | modelled |
|---|---|---|---|---|
| `MPI-progs/life` | two buffers of the field; one SysV semaphore per worker, which outlives a killed run | start, set_up, thread_func, wait_and_update, update, finish_update, join | barrier between main and workers; stale tokens after a kill; the partition of the rows | `Life` |
| `Linux-progs/shm_and_semafors` | a block and its size in shared memory; semaphores SHM, WR, RD; SEM_UNDO | entry, pairing, loop of either side, exit, kill | a peer that dies between any two steps; several writers and readers | `ShmSems` |
| `Linux-progs/too_many_pipes` | 2n-1 pipes, 2n buffers, the descriptors each process holds | fork and close, select, read, write, end of file | finite pipes both ways; end of file needs every copy of a write end closed | `PipeChain` |
| `queues-msg.../mknproc.cpp` | one message queue | fork, msgrcv by type, print, msgsnd, remove | order of children; failing fork; removal | `MsgRing` |
| `Linux-progs/bintree` | nodes with parent links and marks, an iterator, a foreach | all of `btlib.h` | long sequences of calls; freed subtrees; a recursive walk | `BinTree` |
| `Linux-progs/net_parallel_calculating` | the client's lists, one connection per server | broadcast, connect, task, result, recalculation | servers that fail at any time; messages that are only told apart by their place | `NetCalc` |
| `Linux-progs/signals/signals.cpp` | flags set by handlers, pending signals, an alarm | a bit per signal, answer, alarm, end of either process | signals that do not queue; flags shared with handlers; SIGCHLD against the last bit; late alarms | `Signals` |
| `Linux-progs/fifo.../fifo.cpp` | a common pipe of names and a pipe for each file | create, rendezvous, copy, unlink | any number of writers and readers; a sleep instead of a rendezvous; an end of file that is none | `Fifo` |
| `MPI-progs/laba_diffur` | one grid per rank | Isend/Recv pipeline, gather | the partition; a buffer used again before the send completes; the joints | `Transport` |
| `Linux-progs/sockets` | results and errors shared by threads of the client | search, task, retry | races on `server_error`; retries | no: it does not run |
| `old_fifo.cpp` | one pipe, another as a lock | lock, copy, unlock | a lock left behind | no: superseded by `fifo.cpp` |
| MPI rounds and sums | a number per rank | a token, a sum | less than in `laba_diffur` | no |
| `mknproc_revers.cpp` | message queue | as mknproc, downwards | every `msgrcv` writes a message into an `int` (l. 52, 67) | no: undefined on every run |
| `Pipes`, `multitrading`, `First-using-processes`, `OpenMP`, `hello` | | fork and join | little | no |
| `Computational-Mathematics` | | floating point | numerical error | no: out of reach |

The hazards of each, at their lines, are in `PROJECT.json`; each property below
was written for one of them.

## 2. Plan

1. Done: all modules of section 3, model-checked, and the proofs of section 5: every
   safety property of the passing runs is a theorem.
2. Abstract specifications still worth stating: the copies of `Fifo`, a pair of
   processes each, as an `InOrder` each (its files are variables now, chosen in `Init`).
3. What may still be modelled is `old_fifo.cpp`: its lock, and two writers whose
   files reach one reader one after the other.

## 3. Modules

Each component has a specification, an `MC` module with the constants TLC needs,
and configurations named after the MC module and the run. Operators marked
`Fault:` stand next to the definition they deform, and are never used in it:
each is a plausible error of that code, which the property it belongs to detects.

### LifeGrid, LifeSync, Life, LifeProofs, MCLife

`LifeGrid` has the torus and the rule (`Field_t::step`); a cell that is neither
`#` nor `.` behaves as the code's `else`. `LifeSync` is the abstract game: a
generation appears whole after the one before. `Life` is the program.

* `Start(n)` is main up to the end of `semafor`'s constructor: an existing set is
  used as it is if it is large enough, and only semaphore 0 is cleared; if it is
  too small, `sem_id` is -1 and the run goes on with `attached = FALSE`, in which
  every semop returns at once. `SetUp`, `InitField`, `CreateThread` (one thread at
  a time: the first ones run before the last exists), `WaitAndUpdate`, `CopyRow`
  (one `memcpy`), `FinishUpdate`, `Join` follow main line by line; the last one
  removes the set.
* A worker waits (`WaitAndRun`: `-1, +1` in one semop), steps its rows one cell at
  a time (`StepCell`) and gives its token back (`FinishRun`).
  Cells are the right grain while there is a barrier, since a cell of `next`
  has one writer, and nobody writes `now`: that is the invariant `Barrier`.
  Without a barrier (`attached = FALSE`) reads and writes race, and what a step
  leaves in `next` is any value.
* `Kill` ends a run between any two steps and leaves the set.

`ITER` and the sizes of the field are constants; the code has 50, 50 and 30.
Not modelled: two runs at the same time, a number of threads below 1, `config`.

### SysVSem, ShmSems, ShmProofs, MCShmSems

`SysVSem` is what `semop` does, for any program: operations of one call are
tried in order and all are done or none; a call that cannot be done blocks, or
fails if the operation that stops it has `IPC_NOWAIT`; `SEM_UNDO` adds to the
process's adjustment, applied at its exit and never below zero. `ShmSems` has
one action for each call of `shm_sems.cpp`, by place: `Enter` (l. 88-94,
202-208), `Pair`, `Guard` (the +2 and -2 on SHM of which only the undo stays),
`CheckAlive` (the head of either loop), `Fill`/`Filled` (a `read()` that is not
atomic: the segment is `Torn` meanwhile), `RecordSize`, `Post`, and for the reader
`ScanSize`, `WriteOut`, `Ack`. `Leave` and `Kill` apply the undo.
A block is its file and its number; a size is full, part, end or error.

### InOrder, PipeChain, ChainProofs, MCPipeChain

`InOrder` is what a chain of processes promises: all of `Whole` comes out in
order, then the program ends. It is implemented by `PipeChain` (with the file), by
`MsgRing` (with the numbers 1 to N), by `Signals` (with the bytes of the file) and, with
one process of each kind, by `ShmSems` (with the blocks). In the last two somebody
may be killed, and only the order is promised (`Safe`).

`PipeChain` follows `deskriptors.cpp`: `Fork` (l. 61-80), `CloseFds`, `ChildRead`,
`ChildWrite` (a write to a blocking pipe waits for room for all of it), `Select`
(l. 102-123), `Serve` (one turn of the loop of l. 127: what it relies on is what
`select` said before the turns of the other stages) and `Exit`. The sets of
descriptors are folded into `UpEnds` and `DownEnds`: a reader sees the end when
every process that holds a copy of the write end has closed it, a child that has
been forked and not yet done its closefds included. The buffers shrink along the
chain as `buf_size` does. A pipe is said to be writable when the whole buffer
fits; `PipeRoom` is at least the largest buffer, as 65536 is in the code.

### MsgRing, MCMsgRing

`mknproc.cpp`. The queue is a number of messages of each type; the message N + 1
is the parent's. `Receive`, `PrintNumber` and `Send` are a child, a `Printer`;
`ForkNext`, `Wait`, `RemoveQueue` and `ExitMain` the parent. After `RemoveQueue` a
waiting `msgrcv` fails and the child goes on, as the code only prints the error.
`ForkMayFail` lets `fork()` return -1, which the parent does not look at. The queue
never fills: it holds one message. Its theorems are in the second half of
`ChainProofs`, as the program is the other one in which children pass something on.

### BinPaths, BinTree, TreeProofs, MCBinTree

`BinTree` has a memory of `Node`s, and an action for each call of `btlib.h`, with
the preconditions under which `bt.c` calls it: one tree, one iterator which is not
at the head in `delete_item`, and no change of the tree while a foreach is open;
`malloc` succeeds. A call with nothing to do (a null iterator) returns
-1 and is no action.

The recursions of the code are sets here, and not recursive operators, so that they can be
reasoned about. `Reached(n, links)` is the least set with n that the links do not
leave. `Subtree(n)`, along the children, is what `delete_node(n)` frees and
`init_pass_field(n)` clears; `Above(n)`, along the parents, is where `foreach_next`
can come to when it goes up from n. `Step` is the whole of that call: it stops at the first
node above with a child that has no mark (`Open`), where the marks it leaves on its
way count, or runs out at the head; every node on the way gets its mark and one
increment, as each level of the recursion does.

`BinPaths` is what a caller sees: a set of paths from the head, closed under
prefixes, and a place in it. `Path(n)` maps a node to the sides of the nodes above
it, by their `Depth`.

### NetCalc, NetProofs, MCNetCalc

Client and servers of `net_parallel_calculating`. The segment is cut in `Grain`
pieces for each processor of the servers in the list, a part is an interval, and a
sum is the sequence of the parts it is over, so that `Whole` can ask whether each
piece was counted once. `Broadcast`, `Collect`, `Connect`, `Give`, `Take`,
`SayNeed`, `Recalculate`, `GiveAgain`, `TakeAgain`, `SayBye` are the blocks of the
client, one action for each turn of their loops. A server `Hear`s (and its answer
may be lost or late), `Listen`s, `ReceiveLimits`, `Calculate`s and
`ReceiveNeed`s; a message of the wrong kind, or the end of the connection, which
it does not look at, leaves it `astray`. `Fail` ends a server's process: the
client sees the end of the connection. Whatever the server leaves unread, sent before
it ended or after, is answered by a reset (`reset`). A `send` to it is lost; after a
reset it may be a SIGPIPE instead, the first one too (the error of a `recv`, which l. 269
does not look at, has told it nothing).
Assumed: the client does not fail; arithmetic is exact; the threads of one server
are one step; an answer that a server has sent arrives though the server ends; a
server's host does not vanish without a reset (the keepalive of l. 155-162 is the
code's answer to that).

### Signals, SignalsProofs, MCSignals

`signals.cpp`: two processes and what the kernel keeps for each. The signals for a
one and a zero are a set `pending`, since a signal that is pending already is not
queued again; the answer and SIGCHLD are 0 or 1. A byte is the set of its bits
that are one. Child: `ReadByte`, `EndOfFile` (which is also the way out when
`read()` fails: the exit code is 0 either way), `Kill` (l. 123; a parent that has
ended may still count as one that is there), `Alarm` (l. 124, 130), `Sigwait`
(l. 132). `killbyalarm` may happen at any time once an alarm runs: a second is not
shorter than any step. Parent: `Walk` is the loop's tests and masks, one at a
time, `Take` is l. 153-164, `Answer` l. 165; `Deliver` and `setterm` are the
handlers, which run between any two steps of the loop where the mask lets them.
`KillParent` and `KillChild` are SIGKILL, which `runsignals.cpp` sends.

`offalarm`, the handler of the answer, is not an action: the signal is blocked
from l. 121 on and `sigwait()` takes it. The flags are plain `int`s; they are
modelled as read and written where the program says so, which an optimising
compiler does not owe the program (`while (!term)` may become an endless loop).

### Transport, TransportProofs, MCTransport

`laba.cpp`. `xmin` and `xmax` are the arithmetic of l. 117-130. Each rank does
`Begin` (l. 150-159, `buf` is zero), `Receive` (l. 159-163), `Step` (l. 164-173:
the row and the `MPI_Isend` of its last value) and, after the last row, `Leave`;
`Gather` is one turn of the loop of l. 188 with both messages of the rank it
receives from, `Finish` the end of rank 0. The columns of a rank are an array of
columns, as in `Net`. `Scheme` is any function of the value to the left and the
one below, and `Solution` is what one process computes with it.

`lib` is a choice of the MPI library made in `Init`. "eager" copies the value of
`buf` when `MPI_Isend` is called, as libraries do with eight bytes. "late" takes it in
a step of its own, `Take`, and then sends what is in `buf` by that time: the
variable's place on the stack is the same in each turn, and nobody waits for the
request. The standard allows both.

### Fifo, FifoProofs, MCFifo

`fifo.cpp`, for any number of writers and readers. `names` is what is in
`sync.fifo`; `pipe[w]` what is in the pipe of w; `there` the pipes that have a name
in the directory. Who has a pipe open follows from where the processes are
(`SyncReaders`, `SyncWriters`, `DataReaders`, `DataWriters`), and `Closed` empties a
pipe that nobody has open. `OpenSync` is the `open()` that waits for the other end
and lets go those who wait. Writer: `Create` (l. 31-46), `OpenSyncWriting`,
`WriteName`, `CloseSyncWriting`, `Sleep` (which lasts as long as it likes),
`WriteBlock`, `CloseData`, `Unlink`. Reader: `OpenSyncReading`, `ReadName`,
`CloseSyncReading`, `OpenData`, `ReadBlock`, `ReadEnd`. A write without a reader
ends the process with SIGPIPE, a write of zero bytes does not, so the writer of
an empty file ends by itself.

A name is its writer: the numbers of processes that are used again are left out, and
so are errors of `open()`, of the files and of the reader's output. (When
`read()` of the file fails, l. 76-77 write -1 bytes, which fails too, and the loop
of l. 75 goes on for ever.) A reader that asks an empty `sync.fifo` without
writers spins in l. 98; that is a stutter here.

## 4. Runs

| run | bounds | what it shows |
|---|---|---|
| `life_fresh` | 3 x 4 torus, 3 iterations, 3 or 5 workers, one start | every row has one worker (4 rows do not divide by 3; with 5 workers some have none); barrier; the program refines `LifeSync` and always ends |
| `life_mixed` | 1 x 2 torus, 1 or 2 workers, 3 starts | kills at every point, smaller and larger restarts: whole generations, stale tokens, `attached = FALSE`, which runs end |
| `shm_rivals` | files of 3 and 1 blocks, 2 writers, 1 reader, 2 kills, read errors | one file, in order, whole if its end was read; no race on the segment; semaphores as new when a side is empty; survivors leave |
| `shm_hang` | 1 writer, 1 reader, no kill | the reader can wait for ever after the last block (finding) |
| `pipes_chain` | 3 children, 7 bytes, pipes of 4, buffers of 2 to 4 | no byte lost or overtaken, no block after select, stages close in order, all ends |
| `ring` | 8 children, any of whose forks fails | order, removal last; and the end when no fork fails |
| `tree` | 4 nodes, alike under permutation, any calls | one tree in memory; preorder; refinement of `BinPaths` |
| `net_fails` | 3 servers with 1, 1, 2 processors, up to 2 failures anywhere | the client ends; servers stay in step; the sum covers the segment once |
| `signals` | 2 bytes of 8 bits, kills and alarms at every point | what is printed is a beginning of the file, all of it at an end without kill; neither process is left alone |
| `signals_late` | the same | the alarm kills a parent that has answered (finding) |
| `transport` | 3 ranks, columns 0 to 5, 4 rows, 3 values, both kinds of `MPI_Isend` | shares fit together; each value is that of one process; rank 0 puts them together; no rank waits for ever |
| `fifo` | 2 writers, 2 readers, files of 0 or 2 blocks, pipes of 1, kills at every point | one file for each reader, the whole of it at the end; pairs that have met end |

**Why the bounds are enough.** In `life` three iterations have a first, a middle
and a last one, and three starts are what it takes to leave two stale tokens,
the least number with which a run hangs. In `shm` three blocks use the segment
again twice; two processes of a kind and two kills are what the protocol counts
with (2 units). Three children give a stage at either end and one between, and
the file is longer than any pipe or buffer. Four nodes give a tree with both
kinds of inner node and a climb of two steps; addresses are only compared with each
other and with NULL, and the one `CHOOSE` has one candidate, so that states which
differ by a permutation of them are checked once. Three servers leave one when two
have failed, and two that must agree when one has; 6 pieces per processor are
divisible by every number of processors that can be left. Two bytes of `signals`
differ in their first and last bits, and the second begins with the state the
first has left. In `transport` the remainder of 5 by 3 is 2, so that the loop for
the remainder has its one turn; three ranks are a first, a middle and a last one, and
with four rows the pipeline has messages of several rows under way.
In `fifo` a second pair is what can take, lose or mix up the first one's name, and a
file of two blocks through a pipe of one makes the writer wait in the middle.

**Conditions in the properties.** `WholeGeneration` and `Barrier` speak of attached
runs; `Allowed` of the first run, since a later one may be let ahead by old
tokens. `Whole` is conditional on `Mended`: the width used in the recalculation
(client.c:242) is that of the first servers of the list, whichever failed, and the
results of the recalculation are added without a look at `recv` (l. 269-270), so
that with unlike servers or a second failure the sum is wrong; that the width is a
whole number of pieces is a condition of the model, whose sums are made of pieces,
and not of the program. `InStep` and `Served` hold for at most one failure the client saw. `Delivered` is for runs
without kill and read error. `Sequential` and `Gathered` speak of `lib = "eager"`: with
a library that is late the values are wrong, as the code waits for no request, and
only `Ends` is left. `Gathered` leaves out the last row of the columns
where two shares meet, which `laba.cpp` gets wrong (see Findings). `Complete` speaks
of a child that came to the end of its file: after a read error (l. 115) both end
as if the file had ended. `Whole` of `Fifo` excepts a reader whose writer was killed:
it cannot tell that end from the other.

**Deadlock** is checked in `life_fresh`, `pipes_chain`, `tree` and `signals`.
It is not in the others, where the system may stop: a run of life with two stale
tokens, a process of shm whose peer never comes, a ring whose fork failed, a
client that has ended, ranks that have come to `MPI_Finalize`, a writer or reader of
`fifo` that is the only one.

**Fairness.** Weak fairness of each process or thread, never of a choice inside
it: the kernel runs what is not blocked. `semop`, `msgrcv`, `read` and `write` wake
a caller whose condition stays true; where a condition may become false again
(two processes wait for one semaphore) nothing more than weak fairness is
assumed. No fairness for kills, failures of servers, of forks or of reads. In
`ShmSems` and `Fifo` fairness of a whole process includes its start: the peers come
(what `NamedEnds` asks of a pair that has met does not rest on it). In `Signals`
the delivery of signals and the passing of the alarm's second are fair, as the
kernel's are; in `Transport` the library's `Take` is.

## 5. Proofs

The eight modules `*Proofs` are checked by the TLA+ proof system for all values
of the constants admitted by the assumptions of the modules: sizes and numbers
of threads are positive, `ITER` is positive, N is a natural number; any file; any
numbers of ranks, rows and columns with at least one column for each rank; any set
of writers and readers (of `shm_sems`, finitely many writers, so that they can be
counted); any number of children, and pipes that hold the largest buffer; any
servers with at least one processor; any finite memory for the tree. How many are killed or fail is a constant
of which nothing is assumed. The inductive invariant, `IInv` or what is named below, is
checked by TLC on the instance before it is proved.

**Life.** The inductive invariant `IInv` is at the end of `Life`:

* `ShapeInv`: where main is, which workers exist and what they index;
* `HeldInv`: a worker inside its rows holds a token of its own, and when main
  copies every worker's semaphore is zero. `Barrier` follows, and also holds for a
  set with stale tokens: it needs no count of them;
* `RowInv`: a worker has stepped every cell it has passed, and all its rows if it
  has no token left. With `Partition`, passing `wait_and_update` means
  `next = Generation(now)`, which is `WholeGeneration`;
* `CopyInv`: rows copied so far, the rest unchanged;
* `TokenInv`, `LedgerInv`: the tokens a start can find, and the sum of tokens and
  iterations in the first run, for `Tokens` and `Allowed`.

None of the checked invariants is inductive alone: `Barrier`, for one, needs that
a worker which steps holds its token and that main can pass only when there is
none. `EveryRowOwned` is arithmetic: the shares of `thread_func` lie side by side
(`EndY(t) = StartY(t + 1)`) from 0 to `SizeY`. The loop for the remainder compares
the number of a worker with that of a row, so there are two cases: with no more
workers than rows it never moves anything and the last worker takes the rest
(`ManyRows`); with more, the first SizeY - 1 workers have one row each, the last worker the
last row, and those between none (`FewRows`).
`Implements` shows each step to be a step of `LifeSync`
or to leave the shown generation alone, if there is one start or all runs have
one number of threads, and so each is attached (`AttachedInv`).

**MsgRing.** (In `ChainProofs`.) `Len(printed)` is the number of the child whose turn was last:
children up to it are done, those after it have not begun, a message in the
queue is for the next one (`PcInv`, `QueueInv`). One turn, removal last and the
order (the safety part of `InOrder`) follow for every N and whichever forks fail.

**Signals.** There is one bit in flight, and `FlightInv` says where: nowhere, while
the child is about to send; then a pending signal (`Sent`), the flags (`Seen`), the
byte (`Taken`), or answered (`Answered`). Before it is taken the parent has what
the child had sent before it (`Before`), afterwards one bit more (`After`);
`RestInv` relates the bits the child has left to the byte of the file. `Faithful`
follows; so does `Complete`, as a child at the end of its file has had its last
answer (`EndInv`), and the loop ends only after the child. `PrintsInOrderHolds`
shows that no step prints more than the next byte, and none after the end. All of it holds with
the alarm and kills at every point, because a child that has ended is
taken to stand where it ended.

**Transport.** `SharesHold` rests on arithmetic (`Columns`): `xmin(r) = xmax(r - 1)`, from the
count of the turns that reach a rank, though the two bounds are moved under
different conditions. `MessageInv` says that the messages between two
neighbours are the next rows of their common column, which gives `Sequential` for
any order in which ranks run; `GatherInv` carries it to the columns of rank 0, joint
by joint.

**Fifo.** A name is with its writer, in `sync.fifo`, with one reader, or lost
(`NameInv`); so no two readers read one pipe. `FlowInv`: a pipe no reader has opened is
empty, and for the reader that has, its output followed by what is in the pipe is the
beginning of the file that has been sent. That the end of the pipe is the end of
the file needs that a writer opens its pipe before it gives the name away: a name
that a reader has is never that of a writer before `Create`.

**ShmSems.** `SetInv` holds for any numbers of processes. It relates each semaphore to
what is due at the exits: a process inside the set owes two units of its own
semaphore, and from the guard on two of SHM (`Undoes`); nothing is in WR and RD
beyond the next exit (`Entries`), and nothing in SHM beyond the exits of the
writers that are between two blocks (`Segments`, by cardinality). Since an exit
stops at zero, `Clean` follows. `PairInv` adds what is only true with one reader,
which is the hypothesis `SingleReader`: with two, WR is used up while its writer is inside
and a second writer gets in (section 6; TLC shows all three properties violated
then). A writer keeps a unit of WR while it is inside (`Kept`), so that the entry
refuses the next one: `OneWriter`. Between its check and its post a writer has the
segment for itself, and its reader has written all blocks before (`Alone`): `NoRace`.
The hard part is a writer that follows one that was killed: it passes the entry and
may even pair with the same reader, but then no unit of RD is left for its check
(`First`), which is why the units are two; so the reader never gets two files
(`Served`), and `OneSource` follows. With one writer too, `TransfersHolds` is the
step-by-step refinement of `InOrder`: a writer that has seen the end of its file stays
past its loop, with every block written out (`Eof`).

**PipeChain.** `Pieces` says that the rest of the file, the stages and the output are
consecutive pieces of it, as a function of cutting points; each action moves one
of them. `Conserved` is its sum, by induction over the stages. `Asked`
keeps what `select` said for the stages the loop has not come to: serving a stage
takes from its pipe and may close the one towards the next, whose child alone fills or
empties the others. The order of ends goes along the chain (`GoneDry`, `ShutDry`).
`ChainCopiesInOrder` shows each step to be one of `InOrder`: the output grows by
the next piece, and at the end, all stages shut, it is the file.

**NetCalc.** The client and a server agree only on the number of messages between them, so
`Follows` counts: what a server is ready for, with what is in its inbox, makes up what
the client has sent up to its place in its loops (`Said`), message by message
(`InboxInv`). From this `InStep`, and what is in the answers under way
(`ReplyInv`) and in the sum (`ResultInv`). All three are conditional on at most one failure seen by the
client: with two the code's loops are out of step. `KilledLate` needs that a server
that was found failed is not written to (`Known`). `Whole` is then arithmetic: the
parts of the first round lie side by side from 0 to the end, and every piece
is in one of them (a step function that grows passes each value once, `OneStep`); those
of the second lie side by side over the part of the server that failed, and as
its width is that of the first server's and divides exactly, they end where it ends.

Running sums, cutting points and steps of a loop are inductions over a set of
numbers: the set of those without the property has no least element
(`WFMin` of the library). Inductions that take the property as an operator cannot be
instantiated.

**BinTree.** A least closed set is an induction of its own: a set of nodes that has
the head and is not left by any child is the whole tree (`HeapLeast`). With it: who
is not the head is a child of its parent (`HeapUp`), nobody is below its own child
(`Acyclic`), two subtrees lie one in the other or apart (`Nested`, `Apart`), and
the nodes above n are those that have n below them (`AboveIs`). A change at one place
cuts one subtree and may put one leaf there (`Pruned`, `Grafted`), which is `Sound`.

The walk needs `WalkInv`: while the foreach is not at its end, the marks are exactly in
the nodes to the left of the one it gives (`LeftOf`), and its count is not below their
number. It is this that makes the marks of an earlier foreach harmless once they are
cleared. From there `Step` goes to a child whose left is what it has marked (`StepGoes`,
`GoneSide`), and so to the next node of the preorder (`BeforeSet`,
`AppendInPreorder`). If it runs out at the head every node is marked (`GoneAll`); the
count is then at least `nnodes`, which is `CurrentIsThere`: the recursion never leaves the
tree with the foreach still to be used.

For `ImplementsPaths`, the path of a child is that of its parent and a side
(`PathChild`), two nodes have two paths (`PathOne`), below a place are the paths of its
subtree, whether or not there is one (`BelowSubtree`), and a node that stays keeps
its path (`PathsKept`, an induction over the old tree with `PathFacts` in the new
one). Each call is then an action of `BinPaths`; a foreach is a stutter.

**Only model-checked.** All liveness (every `Ends`, `Delivered`, `SurvivorLeaves`,
`Served`, `NamedEnds`, and the liveness part of `Copies`), which these provers do not
reach.

## 6. Findings

Shown by a run:

1. `shm_sems.cpp:237`: the reader can hang after the last block (`shm_hang`).
2. `signals.cpp:132`: an alarm that nobody cancels kills a parent that has answered
   (`signals_late`).

Met while modelling, and the reason for the conditions of section 4:

* `shm_sems.cpp:89`: WR is zero after two readers have paired, and a second writer
  gets in. `OneWriter` is checked with one reader.
* `btlib.c:66`: `foreach_next` counts every node it climbs through, so that a
  foreach ends before it has given every node. `InPreorder` asks for order, not for all.
* `client.c:258`: with two failed servers the others are sent two parts in a
  row and take the second for a need of recalculation.
* `client.c:242`, `client.c:270`: the width of the recalculation, and its unread errors.
* `laba.cpp:60`: `get_addr_for_add` puts the column of the right rank over the one of
  the left. In the last row the right rank has not received that value, so that
  `print_result` would show what `calloc()` left there. (`adddata`, l. 51, which
  nothing calls, drops the first column of the right rank instead.)
* `laba.cpp:170`: nobody waits for the request of `MPI_Isend`.
* `fifo.cpp:105`: names in `sync.fifo` are lost when its last reader closes it.
* The hang of a run of `life` that finds two stale tokens, `mknproc 0`, the
  constructor of `Field_t` (`life.cpp:39`), the eleventh server (`client.c:104`),
  `delete_item` at the head (`btlib.c:196`).

**Not modelled.** `sockets` does not run as committed: `client.c` has a stray letter in
its first line and does not compile, and `server.c` never calls `listen()` between
`bind()` (l. 117) and `accept()` (l. 142). Every `msgrcv` of `mknproc_revers.cpp`
writes a message into an `int`. `old_fifo.cpp` is the version before `fifo.cpp`, for one
writer at a time. `Pipes` is the chain of `too_many_pipes` with one link;
`multitrading`, `First-using-processes`, the OpenMP and the small MPI programs
fork, add and join; the numerical programs are sequential and their errors are
those of floating point.

## 7. Running

    tlc -config MCLife_fresh.cfg MCLife.tla      # and so on for each cfg
    tlapm LifeProofs.tla
    tlapm SignalsProofs.tla
    tlapm TransportProofs.tla
    tlapm FifoProofs.tla
    tlapm ShmProofs.tla
    tlapm ChainProofs.tla                        # with the theorems of MsgRing
    tlapm TreeProofs.tla
    tlapm NetProofs.tla                          # about seven minutes

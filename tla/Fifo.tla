-------------------------------- MODULE Fifo --------------------------------
(***************************************************************************)
(* Linux-progs/fifo-2013-09-26/fifo.cpp: writers and readers that are      *)
(* started in any number and order meet over sync.fifo, where a writer     *)
(* leaves the name of a named pipe of its own; through that one the file   *)
(* goes.                                                                   *)
(***************************************************************************)
EXTENDS Integers, Sequences

CONSTANTS
  Writers, Readers,
  Sizes,    \* numbers of blocks a file may have
  Room,     \* blocks a pipe holds: 64 of BUFFER_SIZE
  NoName

ASSUME FifoAssumption ==
  /\ Writers \cap Readers = {} /\ NoName \notin Writers
  /\ Sizes \subseteq Nat
  /\ Room \in Nat \ {0}

VARIABLES
  size,   \* blocks in the file of each writer
  pc,     \* where each process is, or how it ended
  pos,    \* blocks each writer has sent
  got,    \* the name each reader has read
  out,    \* what each reader has written to its output
  names,  \* what is in sync.fifo
  there,  \* the data pipes that have a name in the directory
  pipe    \* what is in each of them

vars == <<size, pc, pos, got, out, names, there, pipe>>

\* Fault: all writers use one pipe.
nameShared(w) == CHOOSE v \in Writers : TRUE

\* The process's number, padded with '!'.
name(w) == w

Ended(p) == pc[p] \in {"done", "failed", "sigpipe", "killed"}

\* The processes that have sync.fifo open, at either end; an open() that waits for
\* the other end counts.
SyncReaders == {r \in Readers : pc[r] \in {"opening", "name", "close"}}
SyncWriters == {w \in Writers : pc[w] \in {"opening", "name", "close"}}

\* Fault: the pipe is opened after the sleep.
DataWritersLate(v) == {w \in Writers : name(w) = v /\ pc[w] = "copy"}

\* A writer opens its pipe before it gives the name away.
DataWriters(v) ==
  {w \in Writers : name(w) = v /\ ~Ended(w) /\ pc[w] \notin {"start", "unlink"}}

\* Fault: tmp is not closed.
DataReadersTmp(v) == {r \in Readers : got[r] = v /\ pc[r] = "copy"} \cup DataWriters(v)

DataReaders(v) == {r \in Readers : got[r] = v /\ pc[r] = "copy"}

\* A pipe that nobody has open is empty.
Closed ==
  /\ names' = IF SyncReaders' \cup SyncWriters' = {} THEN <<>> ELSE names
  /\ pipe' = [v \in Writers |->
                IF DataReaders(v)' \cup DataWriters(v)' = {} THEN <<>> ELSE pipe[v]]

Init ==
  /\ size \in [Writers -> Sizes]
  /\ pc = [p \in Writers \cup Readers |-> "start"]
  /\ pos = [w \in Writers |-> 0]
  /\ got = [r \in Readers |-> NoName]
  /\ out = [r \in Readers |-> <<>>]
  /\ names = <<>> /\ there = {} /\ pipe = [w \in Writers |-> <<>>]

\* mkfifo and open() of sync.fifo by p: it waits for the other end, and lets go
\* those who have been waiting for it.
OpenSync(p, others) ==
  pc' = [q \in DOMAIN pc |->
           IF q = p THEN IF others = {} THEN "opening" ELSE "name"
           ELSE IF q \in others /\ pc[q] = "opening" THEN "name"
           ELSE pc[q]]

\* The end of the process closes what it has open.
End(p, how) ==
  /\ pc' = [pc EXCEPT ![p] = how]
  /\ UNCHANGED <<size, pos, got, out, there>>
  /\ Closed
---------------------------------------------------------------------------
\* mkfifo, and its writing end opened with the help of a reading end.
Create(w) ==
  /\ pc[w] = "start"
  /\ pc' = [pc EXCEPT ![w] = "sync"]
  /\ there' = there \cup {name(w)}
  /\ UNCHANGED <<size, pos, got, out, names, pipe>>

OpenSyncWriting(w) ==
  /\ pc[w] = "sync"
  /\ OpenSync(w, SyncReaders)
  /\ UNCHANGED <<size, pos, got, out, names, there, pipe>>

\* 32 bytes are written at once; without a reader the signal SIGPIPE comes.
WriteName(w) ==
  /\ pc[w] = "name"
  /\ \/ /\ SyncReaders # {}
        /\ names' = Append(names, name(w))
        /\ pc' = [pc EXCEPT ![w] = "close"]
        /\ UNCHANGED <<size, pos, got, out, there, pipe>>
     \/ /\ SyncReaders = {}
        /\ End(w, "sigpipe")

CloseSyncWriting(w) ==
  /\ pc[w] = "close"
  /\ End(w, "sleep")

\* A second, which may be shorter or longer than any step of another.
Sleep(w) ==
  /\ pc[w] = "sleep"
  /\ pc' = [pc EXCEPT ![w] = "copy"]
  /\ UNCHANGED <<size, pos, got, out, names, there, pipe>>

\* A turn of the loop with a block of the file; blocks are smaller than PIPE_BUF.
WriteBlock(w) ==
  /\ pc[w] = "copy" /\ pos[w] < size[w]
  /\ \/ /\ DataReaders(name(w)) # {} /\ Len(pipe[name(w)]) < Room
        /\ pos' = [pos EXCEPT ![w] = @ + 1]
        /\ pipe' = [pipe EXCEPT ![name(w)] = Append(@, <<w, pos'[w]>>)]
        /\ UNCHANGED <<size, pc, got, out, names, there>>
     \/ /\ DataReaders(name(w)) = {}
        /\ End(w, "sigpipe")

\* A write() of nothing succeeds without a reader; close().
CloseData(w) ==
  /\ pc[w] = "copy" /\ pos[w] = size[w]
  /\ End(w, "unlink")

Unlink(w) ==
  /\ pc[w] = "unlink"
  /\ pc' = [pc EXCEPT ![w] = "done"]
  /\ there' = there \ {name(w)}
  /\ UNCHANGED <<size, pos, got, out, names, pipe>>
---------------------------------------------------------------------------
OpenSyncReading(r) ==
  /\ pc[r] = "start"
  /\ OpenSync(r, SyncWriters)
  /\ UNCHANGED <<size, pos, got, out, names, there, pipe>>

\* A read() that returns 0, when no writer is left, is tried again.
ReadName(r) ==
  /\ pc[r] = "name" /\ names # <<>>
  /\ got' = [got EXCEPT ![r] = Head(names)]
  /\ names' = Tail(names)
  /\ pc' = [pc EXCEPT ![r] = "close"]
  /\ UNCHANGED <<size, pos, out, there, pipe>>

\* close(): the names that others have left are lost if nobody else has it open.
CloseSyncReading(r) ==
  /\ pc[r] = "close"
  /\ End(r, "open")

OpenData(r) ==
  /\ pc[r] = "open"
  /\ pc' = [pc EXCEPT ![r] = IF got[r] \in there THEN "copy" ELSE "failed"]
  /\ UNCHANGED <<size, pos, got, out, names, there, pipe>>

\* A turn of the loop with a block; or without one, when the writer has closed.
ReadBlock(r) ==
  /\ pc[r] = "copy" /\ pipe[got[r]] # <<>>
  /\ out' = [out EXCEPT ![r] = Append(@, Head(pipe[got[r]]))]
  /\ pipe' = [pipe EXCEPT ![got[r]] = Tail(@)]
  /\ UNCHANGED <<size, pc, pos, got, names, there>>

ReadEnd(r) ==
  /\ pc[r] = "copy" /\ pipe[got[r]] = <<>> /\ DataWriters(got[r]) = {}
  /\ End(r, "done")
---------------------------------------------------------------------------
Kill(p) ==
  /\ ~Ended(p)
  /\ End(p, "killed")

Writer(w) ==
  \/ Create(w) \/ OpenSyncWriting(w) \/ WriteName(w) \/ CloseSyncWriting(w)
  \/ Sleep(w) \/ WriteBlock(w) \/ CloseData(w) \/ Unlink(w)

Reader(r) ==
  \/ OpenSyncReading(r) \/ ReadName(r) \/ CloseSyncReading(r)
  \/ OpenData(r) \/ ReadBlock(r) \/ ReadEnd(r)

Next ==
  \/ \E w \in Writers : Writer(w) \/ Kill(w)
  \/ \E r \in Readers : Reader(r) \/ Kill(r)

Spec == Init /\ [][Next]_vars

\* The kernel runs each process that does not wait; nobody has to kill any.
FairSpec ==
  /\ Spec
  /\ \A w \in Writers : WF_vars(Writer(w))
  /\ \A r \in Readers : WF_vars(Reader(r))
---------------------------------------------------------------------------
\* The variables have the types of the code's, and the kernel's pipes their size.
TypeOK ==
  /\ size \in [Writers -> Sizes]
  /\ pc \in [Writers \cup Readers ->
               {"start", "sync", "opening", "name", "close", "sleep", "open", "copy",
                "unlink", "done", "failed", "sigpipe", "killed"}]
  /\ pos \in [Writers -> Nat] /\ \A w \in Writers : pos[w] <= size[w]
  /\ got \in [Readers -> Writers \cup {NoName}]
  /\ out \in [Readers -> Seq(Writers \X Nat)]
  /\ names \in Seq(Writers)
  /\ there \subseteq Writers
  /\ pipe \in [Writers -> Seq(Writers \X Nat)]
  /\ \A v \in Writers : Len(pipe[v]) <= Room

\* s is the first blocks of the file of w.
BeginningOf(s, w) ==
  /\ Len(s) <= size[w]
  /\ \A k \in 1 .. Len(s) : s[k] = <<w, k>>

\* Whoever is started or killed meanwhile, what a reader has written is a beginning
\* of the file of the writer whose name it read, and no other reader has any of it.
OneFile ==
  /\ TypeOK
  /\ \A r \in Readers : out[r] # <<>> => got[r] \in Writers /\ BeginningOf(out[r], got[r])
  /\ \A r, s \in Readers : got[r] = got[s] /\ got[r] # NoName => r = s

\* A reader that ends has the whole file, unless its writer came to a sudden end: it
\* does not take a pipe that is not yet written for one that is closed.  A writer that
\* has come to its end has a reader that has the rest of the file before it.
Whole ==
  /\ \A r \in Readers : pc[r] = "done" =>
       pc[got[r]] \in {"killed", "sigpipe"} \/ Len(out[r]) = size[got[r]]
  /\ \A w \in Writers : pc[w] = "done" /\ size[w] > 0 =>
       \E r \in Readers :
         /\ got[r] = w
         /\ \/ pc[r] \in {"killed", "done"}
            \/ pc[r] = "copy" /\ Len(out[r]) + Len(pipe[w]) = size[w]

\* A pair that has exchanged a name does not wait for ever: a reader whose writer
\* was killed, or had left before it opened the pipe, ends, and so does a writer
\* whose reader was killed, or never came.
NamedEnds == \A p \in Writers \cup Readers : pc[p] = "close" ~> Ended(p)
---------------------------------------------------------------------------
(***************************************************************************)
(* The inductive invariant behind the theorems of FifoProofs.              *)
(***************************************************************************)
PlaceInv ==
  /\ \A w \in Writers :
       /\ pc[w] \notin {"open", "failed"}
       /\ pc[w] \in {"unlink", "done"} => pos[w] = size[w]
  /\ \A r \in Readers :
       /\ pc[r] \notin {"sync", "sleep", "unlink", "sigpipe"}
       /\ pc[r] \in {"start", "opening", "name"} => got[r] = NoName
       /\ pc[r] \in {"close", "open", "copy", "failed", "done"} => got[r] \in Writers

\* A name is with its writer, once in sync.fifo, with one reader, or lost.
Unsent(w) == pc[w] \in {"start", "sync", "opening", "name"}
NameInv ==
  /\ \A k, l \in 1 .. Len(names) : names[k] = names[l] => k = l
  /\ \A k \in 1 .. Len(names) :
       ~Unsent(names[k]) /\ \A r \in Readers : got[r] # names[k]
  /\ \A r \in Readers : got[r] \in Writers => ~Unsent(got[r])
  /\ \A r, s \in Readers : got[r] = got[s] /\ got[r] # NoName => r = s

\* A pipe that no reader has opened is empty; for the reader that has, what it has
\* written and what is in the pipe is what the writer has sent.
Unopened(r) == pc[r] \in {"close", "open", "failed"}
FlowInv ==
  /\ \A w \in Writers :
       (\A r \in Readers : got[r] = w => Unopened(r)) => pos[w] = 0 /\ pipe[w] = <<>>
  /\ \A r \in Readers :
       /\ got[r] = NoName \/ Unopened(r) => out[r] = <<>>
       /\ got[r] \in Writers => BeginningOf(out[r], got[r])
       /\ pc[r] = "copy" =>
            /\ Len(out[r]) + Len(pipe[got[r]]) = pos[got[r]]
            /\ \A k \in 1 .. Len(pipe[got[r]]) : pipe[got[r]][k] = <<got[r], Len(out[r]) + k>>
       /\ pc[r] = "done" =>
            pc[got[r]] \in {"killed", "sigpipe"} \/ Len(out[r]) = size[got[r]]

IInv == TypeOK /\ PlaceInv /\ NameInv /\ FlowInv
=============================================================================

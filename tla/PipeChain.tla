----------------------------- MODULE PipeChain -----------------------------
(***************************************************************************)
(* The chain of Linux-progs/too_many_pipes/deskriptors.cpp.  Child 0 reads *)
(* a file; the parent takes what child i wrote and hands it to child i + 1 *)
(* and what the last child wrote to the standard output.  The parent must  *)
(* not block in one stage while another has work, so it asks select().     *)
(***************************************************************************)
EXTENDS Integers, SequencesExt

CONSTANTS
  nchs,       \* children
  Input,      \* the bytes of input.txt
  BUF_SIZE,   \* bytes a child reads at once
  Unit,       \* the 3 of buf_size
  PipeRoom    \* bytes a pipe holds

buf_size(i) == Unit * (nchs - i + 1)

Bytes == {Input[n] : n \in DOMAIN Input}

\* A pipe holds more than one write of either side (64 KiB against PIPE_BUF).
ASSUME ChainAssumption ==
  /\ nchs \in Nat \ {0}
  /\ BUF_SIZE \in Nat \ {0} /\ Unit \in Nat \ {0}
  /\ Input \in Seq(Bytes)
  /\ PipeRoom \in Nat /\ PipeRoom >= BUF_SIZE /\ PipeRoom >= buf_size(0)

Child == 0 .. nchs - 1
LastChild == nchs - 1

VARIABLES
  left,      \* bytes of the file not read yet
  forked,    \* children forked
  cpc,       \* where each child is
  cbuf,      \* the buffer of each child
  up,        \* pipefd[2 * i]: child i to the parent
  down,      \* pipefd[2 * i - 1]: the parent to child i
  ppc,       \* where the parent is
  stage,     \* the i of the loop after select()
  rfds,      \* stages whose child has something to read, or has ended
  wfds,      \* stages whose next pipe takes a write
  buf,       \* the parent's buffer of each stage, buf_full[i] bytes
  shut,      \* buf_full[i] = -1
  out        \* the standard output

child == <<cpc, cbuf>>
pipes == <<up, down>>
sets == <<rfds, wfds>>
vars == <<left, forked, child, pipes, ppc, stage, sets, buf, shut, out>>

Init ==
  /\ left = Input
  /\ forked = 0
  /\ cpc = [i \in Child |-> "none"] /\ cbuf = [i \in Child |-> <<>>]
  /\ up = [i \in Child |-> <<>>] /\ down = [i \in Child |-> <<>>]
  /\ ppc = "fork" /\ stage = 0
  /\ rfds = {} /\ wfds = {}
  /\ buf = [i \in Child |-> <<>>] /\ shut = [i \in Child |-> FALSE]
  /\ out = <<>>

\* What one read() of at most n bytes takes, and what it leaves.
Taken(s, n) == SubSeq(s, 1, IF Len(s) < n THEN Len(s) ELSE n)
Rest(s, n) == SubSeq(s, Len(Taken(s, n)) + 1, Len(s))

(***************************************************************************)
(* A pipe is at its end when every copy of its write end is closed.  A     *)
(* child has copies of what the parent had open at the fork until its      *)
(* closefds: the parent closes the write end of up[i] after forking child  *)
(* i, and that of down[i] with stage i - 1.                                *)
(***************************************************************************)
UpEnds(i) == cpc[i] = "gone" /\ \A j \in 0 .. i : cpc[j] # "new"
DownEnds(i) == shut[i - 1] /\ \A j \in Child : cpc[j] # "new"
---------------------------------------------------------------------------
Fork ==
  /\ ppc = "fork"
  /\ forked' = forked + 1
  /\ cpc' = [cpc EXCEPT ![forked] = "new"]
  /\ ppc' = IF forked = LastChild THEN "select" ELSE "fork"
  /\ UNCHANGED <<left, cbuf, pipes, stage, sets, buf, shut, out>>

\* A child closes every end it does not use.
CloseFds(i) ==
  /\ cpc[i] = "new"
  /\ cpc' = [cpc EXCEPT ![i] = "read"]
  /\ UNCHANGED <<left, forked, cbuf, pipes, ppc, stage, sets, buf, shut, out>>

\* read() of child i, from the file or from the parent; at the end it leaves.
ChildRead(i) ==
  LET from == IF i = 0 THEN left ELSE down[i]
  IN
  /\ cpc[i] = "read"
  /\ \/ /\ from # <<>>
        /\ cbuf' = [cbuf EXCEPT ![i] = Taken(from, BUF_SIZE)]
        /\ cpc' = [cpc EXCEPT ![i] = "write"]
        /\ IF i = 0 THEN left' = Rest(left, BUF_SIZE) /\ UNCHANGED down
                    ELSE down' = [down EXCEPT ![i] = Rest(@, BUF_SIZE)] /\ UNCHANGED left
     \/ /\ from = <<>> /\ (i # 0 => DownEnds(i))
        /\ cpc' = [cpc EXCEPT ![i] = "gone"]
        /\ UNCHANGED <<cbuf, left, down>>
  /\ UNCHANGED <<forked, up, ppc, stage, sets, buf, shut, out>>

\* write() of child i waits until the pipe takes all of it.
ChildWrite(i) ==
  /\ cpc[i] = "write"
  /\ Len(up[i]) + Len(cbuf[i]) <= PipeRoom
  /\ up' = [up EXCEPT ![i] = @ \o cbuf[i]]
  /\ cbuf' = [cbuf EXCEPT ![i] = <<>>]
  /\ cpc' = [cpc EXCEPT ![i] = "read"]
  /\ UNCHANGED <<left, forked, down, ppc, stage, sets, buf, shut, out>>
---------------------------------------------------------------------------
\* Fault: the parent reads although its buffer is full.
ReadableAny == {i \in Child : ~shut[i] /\ (up[i] # <<>> \/ UpEnds(i))}

Readable == {i \in Child : ~shut[i] /\ buf[i] = <<>> /\ (up[i] # <<>> \/ UpEnds(i))}

\* Stage i writes to child i + 1; the standard output always takes a write.
HasRoom(i) == i < LastChild => Len(down[i + 1]) + Len(buf[i]) <= PipeRoom

\* Fault: the parent does not ask for room.
WritableAny == {i \in Child : buf[i] # <<>>}

Writable == {i \in Child : buf[i] # <<>> /\ HasRoom(i)}

\* Fault: the loop ends with the end of the file.
SelectHead ==
  /\ ppc = "select"
  /\ \/ /\ Readable \cup Writable # {}
        /\ rfds' = Readable /\ wfds' = Writable
        /\ stage' = 0
        /\ ppc' = "serve"
     \/ /\ shut[0]
        /\ ppc' = "done"
        /\ UNCHANGED <<sets, stage>>
  /\ UNCHANGED <<left, forked, child, pipes, buf, shut, out>>

\* The parent asks for what it can use: bytes where its buffer is empty, room
\* where it is not.  With nothing left to ask for it leaves the loop.
Select ==
  /\ ppc = "select"
  /\ \/ /\ Readable \cup Writable # {}
        /\ rfds' = Readable /\ wfds' = Writable
        /\ stage' = 0
        /\ ppc' = "serve"
     \/ /\ \A i \in Child : shut[i]
        /\ ppc' = "done"
        /\ UNCHANGED <<sets, stage>>
  /\ UNCHANGED <<left, forked, child, pipes, buf, shut, out>>

\* Fault: a short read is taken for the end.
ServeShort ==
  LET i == stage
  IN
  /\ ppc = "serve"
  /\ \/ /\ i \in rfds
        /\ up[i] # <<>> \/ UpEnds(i)
        /\ buf' = [buf EXCEPT ![i] = Taken(up[i], buf_size(i))]
        /\ up' = [up EXCEPT ![i] = Rest(@, buf_size(i))]
        /\ shut' = [shut EXCEPT ![i] = Len(up[i]) < buf_size(i)]
        /\ UNCHANGED <<down, out>>
     \/ /\ i \in wfds
        /\ HasRoom(i)
        /\ buf' = [buf EXCEPT ![i] = <<>>]
        /\ IF i = LastChild THEN out' = out \o buf[i] /\ UNCHANGED down
                       ELSE down' = [down EXCEPT ![i + 1] = @ \o buf[i]] /\ UNCHANGED out
        /\ UNCHANGED <<up, shut>>
     \/ /\ i \notin rfds \cup wfds
        /\ UNCHANGED <<buf, pipes, shut, out>>
  /\ stage' = IF i = LastChild THEN 0 ELSE i + 1
  /\ ppc' = IF i = LastChild THEN "select" ELSE "serve"
  /\ UNCHANGED <<left, forked, child, sets>>

\* One turn of the loop over the stages; it relies on what select() said.
Serve ==
  LET i == stage
  IN
  /\ ppc = "serve"
  /\ \/ /\ i \in rfds
        /\ up[i] # <<>> \/ UpEnds(i)
        /\ buf' = [buf EXCEPT ![i] = Taken(up[i], buf_size(i))]
        /\ up' = [up EXCEPT ![i] = Rest(@, buf_size(i))]
        /\ shut' = [shut EXCEPT ![i] = up[i] = <<>>]
        /\ UNCHANGED <<down, out>>
     \/ /\ i \in wfds
        /\ HasRoom(i)
        /\ buf' = [buf EXCEPT ![i] = <<>>]
        /\ IF i = LastChild THEN out' = out \o buf[i] /\ UNCHANGED down
                       ELSE down' = [down EXCEPT ![i + 1] = @ \o buf[i]] /\ UNCHANGED out
        /\ UNCHANGED <<up, shut>>
     \/ /\ i \notin rfds \cup wfds
        /\ UNCHANGED <<buf, pipes, shut, out>>
  /\ stage' = IF i = LastChild THEN 0 ELSE i + 1
  /\ ppc' = IF i = LastChild THEN "select" ELSE "serve"
  /\ UNCHANGED <<left, forked, child, sets>>

\* wait() for a child, then the end.
Exit ==
  /\ ppc = "done"
  /\ \E i \in Child : cpc[i] = "gone"
  /\ ppc' = "exited"
  /\ UNCHANGED <<left, forked, child, pipes, stage, sets, buf, shut, out>>

Over ==
  /\ ppc = "exited" /\ \A i \in Child : cpc[i] = "gone"
  /\ UNCHANGED vars

Parent == Fork \/ Select \/ Serve \/ Exit
ChildStep(i) == CloseFds(i) \/ ChildRead(i) \/ ChildWrite(i)

Next == Parent \/ (\E i \in Child : ChildStep(i)) \/ Over

\* The kernel runs every process that is not blocked.
Spec ==
  /\ Init /\ [][Next]_vars
  /\ WF_vars(Parent)
  /\ \A i \in Child : WF_vars(ChildStep(i))
---------------------------------------------------------------------------
\* Buffers and pipes hold bytes of the file, and no more than they can.
TypeOK ==
  /\ left \in Seq(Bytes) /\ out \in Seq(Bytes)
  /\ forked \in 0 .. nchs
  /\ cpc \in [Child -> {"none", "new", "read", "write", "gone"}]
  /\ cbuf \in [Child -> Seq(Bytes)] /\ buf \in [Child -> Seq(Bytes)]
  /\ up \in [Child -> Seq(Bytes)] /\ down \in [Child -> Seq(Bytes)]
  /\ \A i \in Child :
       /\ Len(cbuf[i]) <= BUF_SIZE /\ Len(buf[i]) <= buf_size(i)
       /\ Len(up[i]) <= PipeRoom /\ Len(down[i]) <= PipeRoom
  /\ ppc \in {"fork", "select", "serve", "done", "exited"}
  /\ stage \in Child
  /\ rfds \subseteq Child /\ wfds \subseteq Child
  /\ shut \in [Child -> BOOLEAN]

\* From the end of the chain to its head: what stage i and child i hold.
InStage(i) == buf[i] \o up[i] \o cbuf[i] \o down[i]
InFlight == FlattenSeq([n \in 1 .. nchs |-> InStage(nchs - n)])

\* Nothing is lost, doubled or overtaken between the 2 n - 1 pipes and the 2 n
\* buffers, which hold no more than they can: the output, what is under way, and
\* the rest are the file.
Conserved == TypeOK /\ out \o InFlight \o left = Input

\* What select() said still holds when the parent comes to the stage: neither
\* its read() nor its write() ever blocks it.
NeverBlocks ==
  ppc = "serve" =>
    /\ stage \in rfds => up[stage] # <<>> \/ UpEnds(stage)
    /\ stage \in wfds => HasRoom(stage)

\* A stage is closed after the one before it, and when it is, its child has
\* gone and nothing is left in it: no writer meets a pipe without a reader.
ClosedInOrder ==
  \A i \in Child :
    shut[i] => /\ cpc[i] = "gone" /\ InStage(i) = <<>>
               /\ i > 0 => shut[i - 1]

\* The chain of processes copies the file to its output, and every process ends.
Copy == INSTANCE InOrder
          WITH Whole <- Input, ended <- (ppc = "exited" /\ \A i \in Child : cpc[i] = "gone")
Copies == Copy!Spec
---------------------------------------------------------------------------
(***************************************************************************)
(* The parts of the inductive invariant.                                   *)
(***************************************************************************)

\* The children are forked in order, and all of them before the first select().
Births ==
  /\ \A i \in Child : cpc[i] = "none" <=> i >= forked
  /\ IF ppc = "fork" THEN forked < nchs ELSE forked = nchs

\* A child holds bytes only while it writes them.
Idle == \A i \in Child : cpc[i] # "write" => cbuf[i] = <<>>

\* A child that has gone had read all there was, from a stage that was closed.
GoneDry ==
  \A i \in Child :
    cpc[i] = "gone" => /\ IF i = 0 THEN left = <<>> ELSE shut[i - 1]
                       /\ down[i] = <<>>

ShutDry == \A i \in Child : shut[i] => cpc[i] = "gone" /\ up[i] = <<>> /\ buf[i] = <<>>

\* What select() said of the stages the parent has yet to come to.
Asked ==
  ppc = "serve" =>
    \A i \in Child :
      /\ i >= stage /\ i \in rfds =>
           /\ ~shut[i] /\ buf[i] = <<>>
           /\ up[i] # <<>> \/ UpEnds(i)
      /\ i >= stage /\ i \in wfds => buf[i] # <<>> /\ HasRoom(i)

\* From the file to the output: what is not read, what each stage holds, what is
\* written.
Held ==
  [k \in 0 .. nchs + 1 |->
     IF k = 0 THEN left ELSE IF k = nchs + 1 THEN out ELSE InStage(k - 1)]

\* The file is cut into these pieces, from its end to its beginning.
Pieces(held) ==
  \E cut \in [0 .. nchs + 2 -> 0 .. Len(Input)] :
    /\ cut[0] = Len(Input) /\ cut[nchs + 2] = 0
    /\ \A k \in 0 .. nchs + 1 :
         /\ cut[k + 1] <= cut[k]
         /\ held[k] = SubSeq(Input, cut[k + 1] + 1, cut[k])

AllShut == ppc \in {"done", "exited"} => \A i \in Child : shut[i]

IInv ==
  /\ TypeOK
  /\ Births /\ Idle /\ GoneDry /\ ShutDry /\ Asked /\ AllShut
  /\ down[0] = <<>>
  /\ Pieces(Held)
===========================================================================

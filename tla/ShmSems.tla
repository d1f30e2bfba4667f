------------------------------ MODULE ShmSems ------------------------------
(***************************************************************************)
(* The file transfer of Linux-progs/shm_and_semafors/shm_sems.cpp: a       *)
(* writer passes a file to a reader through a shared memory segment, one   *)
(* block at a time.  Any number of processes may be started and killed;    *)
(* the segment and the three semaphores outlive them, and SEM_UNDO is all  *)
(* the cleaning up there is.                                               *)
(***************************************************************************)
EXTENDS SysVSem, FiniteSets

CONSTANTS
  Writers, Readers,   \* the processes, each run once
  Blocks,             \* Blocks[w]: how many blocks w's file has
  MayFail,            \* whether read() of the input file may return -1
  MaxKills            \* bound: processes killed by a signal

ASSUME ShmAssumption ==
  /\ Writers \cap Readers = {} /\ IsFiniteSet(Writers)
  /\ Blocks \in [Writers -> Nat]
  /\ MayFail \in BOOLEAN
  /\ MaxKills \in Nat

Procs == Writers \cup Readers
Sem == {"SHM", "WR", "RD"}

(***************************************************************************)
(* A block is named by its file and its place in it.  All blocks of a file *)
(* but the last have SHM_SIZE bytes; a size is one of these, or what       *)
(* read() returns at the end and on an error.                              *)
(***************************************************************************)
Torn == <<"torn", 0>>
SizeOf(w, i) == IF i < Blocks[w] THEN "full" ELSE "part"
Ends == {"eof", "error"}

VARIABLES
  val,     \* the semaphores
  adj,     \* what each process's exit adds to them
  pc,      \* where each process is
  data,    \* the block in the segment, Torn while read() copies one in
  size,    \* the size in the segment
  taken,   \* blocks each writer has read from its file
  real,    \* each process's real_size
  out,     \* what each reader has written: the block and the size it used
  said,    \* how each process ended
  kills

kernel == <<val, adj>>
segment == <<data, size>>
vars == <<kernel, pc, segment, taken, real, out, said, kills>>

WriterPlaces == {"start", "pair", "guard", "check", "fill", "filling", "record", "post", "leave", "gone"}
ReaderPlaces == {"start", "pair", "guard", "check", "scan", "write", "ack", "leave", "gone"}

\* Inside the set: past the entry, not yet exited.
Active(p) == pc[p] \notin {"start", "gone"}

Init ==
  /\ val = [s \in Sem |-> 0]
  /\ adj = [p \in Procs |-> [s \in Sem |-> 0]]
  /\ pc = [p \in Procs |-> "start"]
  /\ data = Torn /\ size = "eof"
  /\ taken = [w \in Writers |-> 0]
  /\ real = [p \in Procs |-> "full"]
  /\ out = [r \in Readers |-> <<>>]
  /\ said = [p \in Procs |-> "nothing"]
  /\ kills = 0
---------------------------------------------------------------------------
Goto(p, place) == pc' = [pc EXCEPT ![p] = place]

\* The call returns 0 and p goes on at place.
Done(p, ops, place) ==
  LET call == Semop(val, adj[p], ops)
  IN
  /\ call.result = "done"
  /\ val' = call.val
  /\ adj' = [adj EXCEPT ![p] = call.adj]
  /\ Goto(p, place)

\* The call returns -1, p prints what and goes on at place.
Fails(p, ops, place, what) ==
  /\ Semop(val, adj[p], ops).result = "fail"
  /\ Goto(p, place)
  /\ said' = [said EXCEPT ![p] = what]
  /\ UNCHANGED kernel

\* Fault: the entry does not look.
EnterOpsOpen(s) == <<Sop(s, 2, FALSE, TRUE)>>

EnterOps(s) == <<Sop(s, 0, TRUE, FALSE), Sop(s, 2, FALSE, TRUE)>>
PairOps(s) == <<Sop(s, -1, FALSE, FALSE)>>

\* Fault: SEM_UNDO forgotten.
GuardOpsKept == <<Sop("SHM", 2, FALSE, FALSE), Sop("SHM", -2, FALSE, FALSE)>>

GuardOps == <<Sop("SHM", 2, FALSE, TRUE), Sop("SHM", -2, FALSE, FALSE)>>

\* Fault: the writer does not wait for the acknowledgement.
CheckOpsNoWait(s, d) ==
  IF d = 0 THEN <<Sop(s, -1, TRUE, FALSE), Sop(s, 1, FALSE, FALSE)>>
  ELSE <<Sop(s, -1, TRUE, FALSE), Sop(s, 1, FALSE, FALSE), Sop("SHM", d, FALSE, FALSE)>>

\* Fault: IPC_NOWAIT forgotten.
CheckOpsBlocking(s, d) ==
  <<Sop(s, -1, FALSE, FALSE), Sop(s, 1, FALSE, FALSE), Sop("SHM", d, FALSE, FALSE)>>

CheckOps(s, d) ==
  <<Sop(s, -1, TRUE, FALSE), Sop(s, 1, FALSE, FALSE), Sop("SHM", d, FALSE, FALSE)>>

Own(p) == IF p \in Writers THEN "WR" ELSE "RD"
Peer(p) == IF p \in Writers THEN "RD" ELSE "WR"

\* Nobody of p's kind may be inside; p leaves two units for the other side.
Enter(p) ==
  /\ pc[p] = "start"
  /\ \/ Done(p, EnterOps(Own(p)), "pair") /\ UNCHANGED said
     \/ Fails(p, EnterOps(Own(p)), "gone", "refused")
  /\ UNCHANGED <<segment, taken, real, out, kills>>

\* One of the peer's two units; the other shows that the peer is alive.
Pair(p) ==
  /\ pc[p] = "pair"
  /\ Done(p, PairOps(Peer(p)), "guard")
  /\ UNCHANGED <<segment, taken, real, out, said, kills>>

\* Changes nothing but what p's exit does to SHM.
Guard(p) ==
  /\ pc[p] = "guard"
  /\ Done(p, GuardOps, "check")
  /\ UNCHANGED <<segment, taken, real, out, said, kills>>

\* The head of either loop: the peer is alive, and the segment is mine.
CheckAlive(p, d, place) ==
  /\ pc[p] = "check"
  /\ \/ Done(p, CheckOps(Peer(p), d), place) /\ UNCHANGED said
     \/ Fails(p, CheckOps(Peer(p), d), "leave", "alone")
  /\ UNCHANGED <<segment, taken, real, out, kills>>
---------------------------------------------------------------------------
WriterCheck(w) == CheckAlive(w, 0, "fill")

\* Fault: one block too many.
FillLate(w) ==
  /\ pc[w] = "fill"
  /\ \/ /\ taken[w] <= Blocks[w]
        /\ data' = Torn
        /\ real' = [real EXCEPT ![w] = SizeOf(w, taken[w] + 1)]
        /\ Goto(w, "filling")
     \/ /\ taken[w] > Blocks[w]
        /\ real' = [real EXCEPT ![w] = "eof"]
        /\ Goto(w, "record")
        /\ UNCHANGED data
     \/ /\ MayFail
        /\ real' = [real EXCEPT ![w] = "error"]
        /\ Goto(w, "record")
        /\ UNCHANGED data
  /\ UNCHANGED <<kernel, size, taken, out, said, kills>>

\* read() begins to copy into the segment, is at the end, or fails.
Fill(w) ==
  /\ pc[w] = "fill"
  /\ \/ /\ taken[w] < Blocks[w]
        /\ data' = Torn
        /\ real' = [real EXCEPT ![w] = SizeOf(w, taken[w] + 1)]
        /\ Goto(w, "filling")
     \/ /\ taken[w] = Blocks[w]
        /\ real' = [real EXCEPT ![w] = "eof"]
        /\ Goto(w, "record")
        /\ UNCHANGED data
     \/ /\ MayFail
        /\ real' = [real EXCEPT ![w] = "error"]
        /\ Goto(w, "record")
        /\ UNCHANGED data
  /\ UNCHANGED <<kernel, size, taken, out, said, kills>>

Filled(w) ==
  /\ pc[w] = "filling"
  /\ taken' = [taken EXCEPT ![w] = @ + 1]
  /\ data' = <<w, taken[w] + 1>>
  /\ Goto(w, "record")
  /\ UNCHANGED <<kernel, size, real, out, said, kills>>

RecordSize(w) ==
  /\ pc[w] = "record"
  /\ size' = real[w]
  /\ Goto(w, "post")
  /\ UNCHANGED <<kernel, data, taken, real, out, said, kills>>

\* Fault: SHM + 1.
PostOne(w) ==
  /\ pc[w] = "post"
  /\ Done(w, <<Sop("SHM", 1, FALSE, FALSE)>>, IF real[w] \in Ends THEN "leave" ELSE "check")
  /\ said' = [said EXCEPT ![w] = IF real[w] \in Ends THEN "finished" ELSE @]
  /\ UNCHANGED <<segment, taken, real, out, kills>>

\* SHM + 2, and the test of the loop.
Post(w) ==
  /\ pc[w] = "post"
  /\ Done(w, <<Sop("SHM", 2, FALSE, FALSE)>>, IF real[w] \in Ends THEN "leave" ELSE "check")
  /\ said' = [said EXCEPT ![w] = IF real[w] \in Ends THEN "finished" ELSE @]
  /\ UNCHANGED <<segment, taken, real, out, kills>>
---------------------------------------------------------------------------
ReaderCheck(r) == CheckAlive(r, -1, "scan")

ScanSize(r) ==
  /\ pc[r] = "scan"
  /\ real' = [real EXCEPT ![r] = size]
  /\ Goto(r, "write")
  /\ UNCHANGED <<kernel, segment, taken, out, said, kills>>

\* write(1, shm, real_size): nothing for a size of 0 or -1.
WriteOut(r) ==
  /\ pc[r] = "write"
  /\ out' = [out EXCEPT ![r] = IF real[r] \in Ends THEN @ ELSE Append(@, <<data, real[r]>>)]
  /\ Goto(r, "ack")
  /\ UNCHANGED <<kernel, segment, taken, real, said, kills>>

\* The second SHM - 1 gives the segment back to the writer; the test of the loop.
Ack(r) ==
  /\ pc[r] = "ack"
  /\ Done(r, <<Sop("SHM", -1, FALSE, FALSE)>>, IF real[r] \in Ends THEN "leave" ELSE "check")
  /\ said' = [said EXCEPT ![r] = IF real[r] \in Ends THEN "finished" ELSE @]
  /\ UNCHANGED <<segment, taken, real, out, kills>>
---------------------------------------------------------------------------
\* The end of a process, its own or a signal's: the kernel undoes.
Gone(p) ==
  /\ val' = Undone(val, adj[p])
  /\ adj' = [adj EXCEPT ![p] = [s \in Sem |-> 0]]
  /\ Goto(p, "gone")

Leave(p) ==
  /\ pc[p] = "leave"
  /\ Gone(p)
  /\ UNCHANGED <<segment, taken, real, out, said, kills>>

Kill(p) ==
  /\ Active(p)
  /\ kills < MaxKills
  /\ kills' = kills + 1
  /\ Gone(p)
  /\ said' = [said EXCEPT ![p] = "killed"]
  /\ UNCHANGED <<segment, taken, real, out>>

Common(p) == Enter(p) \/ Pair(p) \/ Guard(p) \/ Leave(p)
Writer(w) == Common(w) \/ WriterCheck(w) \/ Fill(w) \/ Filled(w) \/ RecordSize(w) \/ Post(w)
Reader(r) == Common(r) \/ ReaderCheck(r) \/ ScanSize(r) \/ WriteOut(r) \/ Ack(r)

Next ==
  \/ \E w \in Writers : Writer(w)
  \/ \E r \in Readers : Reader(r)
  \/ \E p \in Procs : Kill(p)

Spec == Init /\ [][Next]_vars

\* Every process is started and runs when it can; semop wakes whom it can.
FairSpec ==
  /\ Spec
  /\ \A w \in Writers : WF_vars(Writer(w))
  /\ \A r \in Readers : WF_vars(Reader(r))
---------------------------------------------------------------------------
Fates == {"nothing", "refused", "alone", "finished", "killed"}
Sizes == {"full", "part"} \cup Ends
Contents == {Torn} \cup UNION {{<<w, i>> : i \in 1 .. Blocks[w]} : w \in Writers}

\* Values have the types of the code's variables; no semaphore is negative.
TypeOK ==
  /\ val \in [Sem -> Nat]
  /\ adj \in [Procs -> [Sem -> {0, -2}]]
  /\ pc \in [Procs -> WriterPlaces \cup ReaderPlaces]
  /\ \A w \in Writers : pc[w] \in WriterPlaces
  /\ \A r \in Readers : pc[r] \in ReaderPlaces
  /\ data \in Contents /\ size \in Sizes
  /\ taken \in [Writers -> Nat] /\ \A w \in Writers : taken[w] <= Blocks[w]
  /\ real \in [Procs -> Sizes]
  /\ out \in [Readers -> Seq(Contents \X {"full", "part"})]
  /\ said \in [Procs -> Fates]
  /\ kills \in 0 .. MaxKills

\* What reader r wrote is the beginning of w's file, block by block.
Begins(r, w) ==
  /\ Len(out[r]) <= Blocks[w]
  /\ \A i \in 1 .. Len(out[r]) : out[r][i] = <<<<w, i>>, SizeOf(w, i)>>

\* Whatever is killed when, a reader writes the beginning of one writer's file:
\* no block twice, none left out, none half filled, no two files mixed.  A writer
\* that came to the end of its file has the whole of it written out, before it
\* posts the end.
OneSource ==
  /\ \A r \in Readers : \E w \in Writers : Begins(r, w)
  /\ \A w \in Writers :
       said[w] = "finished" /\ real[w] = "eof" =>
         \E r \in Readers : Begins(r, w) /\ Len(out[r]) = Blocks[w]

\* The segment is never filled while a reader takes a block from it.
NoRace ==
  \A w \in Writers, r \in Readers :
    ~(pc[w] \in {"filling", "record"} /\ pc[r] \in {"scan", "write"})

\* With no writer inside nothing is left in WR and SHM, with no reader nothing
\* in RD: the next pair starts from the values of a new set, whoever was killed.
Clean ==
  /\ (\A w \in Writers : ~Active(w)) => val["WR"] = 0 /\ val["SHM"] = 0
  /\ (\A r \in Readers : ~Active(r)) => val["RD"] = 0

\* The entry admits one process of a kind: the message of the entry.
OneWriter == \A v, w \in Writers : Active(v) /\ Active(w) => v = w

\* With one writer and one reader the file is copied block by block, and once the
\* writer has seen its end, all of it is there and nothing follows.
TheWriter == CHOOSE w \in Writers : TRUE
TheReader == CHOOSE r \in Readers : TRUE
FileOf(w) == [i \in 1 .. Blocks[w] |-> <<<<w, i>>, SizeOf(w, i)>>]
Copy == INSTANCE InOrder
          WITH Whole <- FileOf(TheWriter), out <- out[TheReader], ended <- (real[TheWriter] = "eof")
Transfers == Copy!Safe

\* Unless a signal or a read error stops the transfer, one writer's file is
\* passed on completely, however many writers there are.
Delivered ==
  <>(\/ kills > 0 \/ \E w \in Writers : real[w] = "error"
     \/ \E w \in Writers, r \in Readers : Begins(r, w) /\ Len(out[r]) = Blocks[w])

\* A writer that has paired does not wait for a reader that is gone, and a reader
\* that has paired and waits for a block does not wait for a writer that is gone.
SurvivorLeaves ==
  /\ \A w \in Writers :
       (pc[w] \in {"guard", "check", "fill", "filling", "record", "post"}
          /\ \A r \in Readers : pc[r] = "gone") ~> pc[w] = "gone"
  /\ \A r \in Readers :
       (pc[r] \in {"guard", "check"} /\ \A w \in Writers : pc[w] = "gone") ~> pc[r] = "gone"

\* A reader that has paired ends when every writer is gone.
ReaderLeaves ==
  \A r \in Readers :
    (pc[r] \notin {"start", "pair"} /\ \A w \in Writers : pc[w] = "gone") ~> pc[r] = "gone"
---------------------------------------------------------------------------
(***************************************************************************)
(* The parts of the inductive invariants.  The first holds for any number  *)
(* of processes, the second for one reader and any number of writers.      *)
(***************************************************************************)

\* What the exit of a process takes back: the two units of its entry, and from
\* the guard on two units of SHM.
Undoes ==
  \A p \in Procs, s \in Sem :
    adj[p][s] = IF \/ s = Own(p) /\ Active(p)
                   \/ s = "SHM" /\ Active(p) /\ pc[p] \notin {"pair", "guard"}
                THEN -2 ELSE 0

\* No unit of WR and RD is left that the next exit does not take.
Entries == val["WR"] <= 2 /\ val["RD"] <= 2

\* Every two units of SHM belong to a writer that is between two blocks, and its
\* exit takes them.
Between == {w \in Writers : pc[w] \in {"check", "leave"}}
Segments == val["SHM"] <= 2 * Cardinality(Between)

NotYet == \A w \in Writers : pc[w] \in {"start", "pair", "guard"} => taken[w] = 0
Fills == \A w \in Writers : pc[w] = "filling" => taken[w] < Blocks[w]

SetInv == TypeOK /\ Undoes /\ Entries /\ Clean /\ Segments /\ NotYet /\ Fills

Filling(w) == pc[w] \in {"fill", "filling", "record", "post"}
Taking(r) == pc[r] \in {"scan", "write", "ack"}

\* A writer keeps one of its units of WR as long as it is inside.
Kept ==
  \A w \in Writers :
    Active(w) => /\ val["WR"] >= 1
                 /\ \A r \in Readers : pc[r] \in {"start", "pair"} => val["WR"] = 2

\* The block in the segment, of size z, is the one r is to write next.
Block(r, w, z) ==
  /\ Begins(r, w) /\ Len(out[r]) < Blocks[w]
  /\ data = <<w, Len(out[r]) + 1>>
  /\ z = SizeOf(w, Len(out[r]) + 1)

Pending(r, z) == z \in Ends \/ \E w \in Writers : Block(r, w, z)

\* No writer has taken a unit of RD yet.
Fresh(r) ==
  pc[r] = "start" \/ val["RD"] = 2 =>
    /\ val["SHM"] = 0 /\ out[r] = <<>> /\ ~Taking(r)
    /\ \A w \in Writers : pc[w] \in {"start", "pair", "gone"} /\ said[w] # "finished"

\* What r reads, or can go on to read, is what it is to write next.
Served(r) ==
  /\ \E w \in Writers : Begins(r, w)
  /\ Taking(r) => val["SHM"] <= 1
  /\ pc[r] = "scan" \/ (pc[r] \in {"pair", "guard", "check"} /\ val["SHM"] > 0) => Pending(r, size)
  /\ pc[r] = "write" => Pending(r, real[r])

\* The first writer to take a unit of RD leaves one; for those after it none is
\* left, and they see no reader.
First(w, r) ==
  /\ pc[w] = "guard" /\ val["RD"] = 1 => val["SHM"] = 0 /\ out[r] = <<>> /\ ~Taking(r)
  /\ pc[w] = "check" /\ val["RD"] = 1 =>
       /\ Begins(r, w)
       /\ val["SHM"] = 1 <=> Taking(r)
       /\ IF val["SHM"] = 0 \/ pc[r] = "ack"
          THEN Len(out[r]) = taken[w]
          ELSE Len(out[r]) + 1 = taken[w] /\ Block(r, w, size) /\ (pc[r] = "write" => real[r] = size)

\* Between its check and its post a writer has the segment for itself.
Alone(w, r) ==
  Filling(w) =>
    /\ val["RD"] <= 1 /\ val["SHM"] = 0 /\ pc[r] # "start" /\ ~Taking(r)
    /\ Begins(r, w)
    /\ pc[w] \in {"fill", "filling"} => Len(out[r]) = taken[w]
    /\ pc[w] = "filling" => real[w] = SizeOf(w, taken[w] + 1)
    /\ pc[w] \in {"record", "post"} =>
         \/ real[w] \in Ends /\ Len(out[r]) = taken[w] /\ (real[w] = "eof" => taken[w] = Blocks[w])
         \/ Block(r, w, real[w]) /\ Len(out[r]) + 1 = taken[w]
    /\ pc[w] = "post" => size = real[w]

\* After a writer that finished nobody is served.
Finished(w, r) ==
  said[w] = "finished" =>
    /\ val["RD"] <= 1 /\ pc[r] # "start"
    /\ size \in Ends /\ (pc[r] = "write" => real[r] \in Ends)
    /\ \A v \in Writers : ~Filling(v) /\ (pc[v] \in {"guard", "check"} => val["RD"] = 0)
    /\ real[w] = "eof" => Begins(r, w) /\ Len(out[r]) = Blocks[w]

PairInv ==
  /\ SetInv /\ OneWriter /\ Kept /\ val["SHM"] <= 2
  /\ \A r \in Readers :
       /\ Fresh(r) /\ Served(r)
       /\ \A w \in Writers : First(w, r) /\ Alone(w, r) /\ Finished(w, r)
===========================================================================

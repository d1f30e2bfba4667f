------------------------------ MODULE MsgRing ------------------------------
(***************************************************************************)
(* Linux-progs/queues-msg-2013-10-03/mknproc.cpp: N children print their   *)
(* numbers in order.  The turn is a message whose type is the number of    *)
(* the child it is for; the message N + 1 tells the parent that all have   *)
(* printed.  The names are not those of PipeChain, the other program whose *)
(* children pass something on in order: one module has the proofs of both. *)
(***************************************************************************)
EXTENDS Integers, Sequences

CONSTANTS
  N,             \* children
  ForkMayFail    \* fork() may return -1; the parent does not look

ASSUME RingAssumption == N \in Nat /\ ForkMayFail \in BOOLEAN

Printer == 1 .. N
Kind == 1 .. N + 1   \* the types of messages

VARIABLES
  started,   \* turns of the parent's loop
  pc,        \* where each child is
  queued,    \* messages in the queue, by type
  main,      \* where the parent is
  printed    \* what the children have printed

ringVars == <<started, pc, queued, main, printed>>

RingInit ==
  /\ started = 0
  /\ pc = [i \in Printer |-> "none"]
  /\ queued = [t \in Kind |-> 0]
  /\ main = "fork"
  /\ printed = <<>>

Removed == main \in {"removed", "exited"}

\* msgrcv() of a message of type t, which waits for one; with the queue removed
\* it fails and the caller goes on.
Msgrcv(t) ==
  /\ queued[t] > 0 \/ Removed
  /\ queued' = [queued EXCEPT ![t] = IF Removed THEN @ ELSE @ - 1]

\* msgsnd(); the queue has room for every child's message.
Msgsnd(t) ==
  queued' = [queued EXCEPT ![t] = IF Removed THEN @ ELSE @ + 1]
---------------------------------------------------------------------------
\* Fault: every child waits for its message.
BegunWaiting(i) == "wait"

\* Fault: the number of the loop is not looked at.
BegunAtOnce(i) == "print"

\* Child 1 needs no message to begin.
Begun(i) == IF i = 1 THEN "print" ELSE "wait"

ForkNext ==
  /\ main = "fork" /\ started < N
  /\ started' = started + 1
  /\ \/ pc' = [pc EXCEPT ![started + 1] = Begun(started + 1)]
     \/ ForkMayFail /\ UNCHANGED pc
  /\ UNCHANGED <<queued, main, printed>>

Receive(i) ==
  /\ pc[i] = "wait"
  /\ Msgrcv(i)
  /\ pc' = [pc EXCEPT ![i] = "print"]
  /\ UNCHANGED <<started, main, printed>>

\* printf() and fflush().
PrintNumber(i) ==
  /\ pc[i] = "print"
  /\ printed' = Append(printed, i)
  /\ pc' = [pc EXCEPT ![i] = "send"]
  /\ UNCHANGED <<started, queued, main>>

\* The turn goes to the next child, or to the parent.
Send(i) ==
  /\ pc[i] = "send"
  /\ Msgsnd(i + 1)
  /\ pc' = [pc EXCEPT ![i] = "gone"]
  /\ UNCHANGED <<started, main, printed>>
---------------------------------------------------------------------------
\* Fault: the parent waits for the last child's turn, not for its answer.
WaitTurn ==
  /\ main = "fork" /\ started = N /\ N > 0
  /\ Msgrcv(N)
  /\ main' = "remove"
  /\ UNCHANGED <<started, pc, printed>>

Wait ==
  /\ main = "fork" /\ started = N
  /\ Msgrcv(N + 1)
  /\ main' = "remove"
  /\ UNCHANGED <<started, pc, printed>>

\* msgctl(IPC_RMID): what is in the queue is gone.
RemoveQueue ==
  /\ main = "remove"
  /\ main' = "removed"
  /\ queued' = [t \in Kind |-> 0]
  /\ UNCHANGED <<started, pc, printed>>

\* The end of the line, and of the program.
ExitMain ==
  /\ main = "removed"
  /\ main' = "exited"
  /\ UNCHANGED <<started, pc, queued, printed>>

AllOver ==
  /\ main = "exited" /\ \A i \in Printer : pc[i] \in {"none", "gone"}
  /\ UNCHANGED ringVars

MainStep == ForkNext \/ Wait \/ RemoveQueue \/ ExitMain
PrinterStep(i) == Receive(i) \/ PrintNumber(i) \/ Send(i)

RingNext == MainStep \/ (\E i \in Printer : PrinterStep(i)) \/ AllOver

RingSpec == RingInit /\ [][RingNext]_ringVars

\* The kernel runs every process that is not blocked.
FairRingSpec ==
  /\ RingSpec
  /\ WF_ringVars(MainStep)
  /\ \A i \in Printer : WF_ringVars(PrinterStep(i))
---------------------------------------------------------------------------
\* The variables have the types of the code's; no message is there twice.
RingTypeOK ==
  /\ started \in 0 .. N
  /\ pc \in [Printer -> {"none", "wait", "print", "send", "gone"}]
  /\ queued \in [Kind -> {0, 1}]
  /\ main \in {"fork", "remove", "removed", "exited"}
  /\ printed \in Seq(Printer)

\* The turn is in one place: no two children hold it, and none while it is in
\* the queue or with the parent.
Holders == {i \in Printer : pc[i] \in {"print", "send"}}
Waiting == {t \in Kind : queued[t] > 0}
OneTurn ==
  /\ \A i, j \in Holders : i = j
  /\ \A t, u \in Waiting : t = u
  /\ Waiting # {} => Holders = {}
  /\ main # "fork" => Waiting = {} /\ Holders = {}

\* The queue is removed when every child is done with it: a child that waited
\* would be let go and would print out of its turn.
RemovedLast == main # "fork" => \A i \in Printer : pc[i] = "gone"

\* The numbers come in order, whichever forks fail; the parent ends after N.
Count == INSTANCE InOrder
           WITH Whole <- [i \in Printer |-> i], out <- printed, ended <- (main = "exited")
Ordered == Count!Safe

\* Unless a fork fails all the numbers come and the program ends.
Ends == <>(\/ main = "exited" /\ Len(printed) = N
           \/ \E i \in Printer : i <= started /\ pc[i] = "none")
---------------------------------------------------------------------------
(***************************************************************************)
(* The inductive invariant.  Len(printed) is the number of the child whose *)
(* turn was last: those up to it are done, those after it have not begun.  *)
(***************************************************************************)
InLine == Len(printed) <= started /\ \A i \in 1 .. Len(printed) : printed[i] = i

PcInv ==
  \A i \in Printer :
    /\ pc[i] \in {"none", "wait"} => i > Len(printed)
    /\ pc[i] = "print" => i = Len(printed) + 1
    /\ pc[i] = "send" => i = Len(printed)
    /\ pc[i] = "gone" => i <= Len(printed)
    /\ i > started => pc[i] = "none"

\* The message in the queue is for the next child, and not for child 1.
QueueInv == \A t \in Kind : queued[t] > 0 => t = Len(printed) + 1 /\ t > 1

EndInv == main # "fork" => Len(printed) = N

RingInv == RingTypeOK /\ InLine /\ PcInv /\ QueueInv /\ EndInv /\ OneTurn
===========================================================================

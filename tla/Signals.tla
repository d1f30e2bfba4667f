------------------------------ MODULE Signals ------------------------------
(***************************************************************************)
(* Linux-progs/signals/signals.cpp: a child sends a file to its parent bit *)
(* by bit, SIGUSR1 for a one and SIGUSR2 for a zero; the parent answers    *)
(* each bit with SIGUSR1.  The child sets an alarm with each bit, and      *)
(* kills the parent when it goes off.  A byte is the set of its bits that  *)
(* are one, so that a | mask is a union and a >> 1 a shift of the members. *)
(***************************************************************************)
EXTENDS Integers, Sequences

CONSTANTS
  BITS,   \* bits of a byte: 8
  File    \* the bytes of argv[1]

Byte == SUBSET (0 .. BITS - 1)

ASSUME FileAssumption == BITS \in Nat \ {0} /\ File \in Seq(Byte)

\* Signals that do not queue, and the code's flags, are 0 or 1.
VARIABLES
  \* the child, which writes
  child,      \* "alive", or how it ended
  cpc,        \* its place; it stays where it was when the child ends
  pos,        \* bytes it has read
  i,          \* turns of the loop over the bits that are over
  rest,       \* its a
  alarmed,    \* an alarm is running
  answer,     \* SIGUSR1 is pending for the child
  \* the parent, which reads
  ppc,        \* its place
  pending,    \* signals ONE and ZERO (1 and 0) pending for the parent
  isgetsig,   \* set by the handlers of both
  sig,        \* set by the handlers of both
  sigchld,    \* SIGCHLD is pending
  term,       \* set by the handler of SIGCHLD
  a,          \* the bits of the byte so far
  bitcount,
  printed

childVars == <<child, cpc, pos, i, rest, alarmed>>
flags == <<isgetsig, sig, term>>
bits == <<a, bitcount, printed>>
vars == <<childVars, answer, ppc, pending, sigchld, flags, bits>>

Init ==
  /\ child = "alive" /\ cpc = "read" /\ pos = 0 /\ i = 0 /\ rest = {}
  /\ alarmed = 0 /\ answer = 0
  /\ ppc = "start" /\ pending = {} /\ sigchld = 0
  /\ isgetsig = 0 /\ sig = 0 /\ term = 0
  /\ a = {} /\ bitcount = 0 /\ printed = <<>>

ParentLives == ppc \notin {"returned", "killed"}

\* The next turn of the loop over the bits; bitcount begins again with the byte.
NextBit(n) == IF n + 1 = BITS THEN 0 ELSE n + 1

\* The child's process ends and its parent is sent SIGCHLD.
ChildEnds(how) ==
  /\ child' = how
  /\ sigchld' = 1
---------------------------------------------------------------------------
\* read() of one byte.
ReadByte ==
  /\ child = "alive" /\ cpc = "read" /\ pos < Len(File)
  /\ pos' = pos + 1
  /\ rest' = File[pos + 1]
  /\ cpc' = "kill"
  /\ UNCHANGED <<child, i, alarmed, answer, ppc, pending, sigchld, flags, bits>>

\* The end of the file, or a read() that fails: exit(0) after either.
EndOfFile ==
  /\ child = "alive" /\ cpc = "read"
  /\ \/ pos = Len(File) /\ ChildEnds("done")
     \/ ChildEnds("unread")
  /\ UNCHANGED <<cpc, pos, i, rest, alarmed, answer, ppc, pending, flags, bits>>

\* Fault: the bits are sent from the other end.
ChooseLast(x) == IF BITS - 1 \in x THEN 1 ELSE 0

\* choose_sig(a & mask), where the child's mask is 1.
choose_sig(x) == IF 0 \in x THEN 1 ELSE 0

\* kill(parentpid, ..): a parent that has ended and is not yet waited for counts as
\* one that is there.
Kill ==
  /\ child = "alive" /\ cpc = "kill"
  /\ \/ /\ ParentLives
        /\ pending' = pending \cup {choose_sig(rest)}
        /\ cpc' = "alarm"
        /\ UNCHANGED <<child, sigchld>>
     \/ /\ ~ParentLives
        /\ cpc' = "alarm"
        /\ UNCHANGED <<child, pending, sigchld>>
     \/ /\ ~ParentLives
        /\ ChildEnds("failed")
        /\ UNCHANGED <<cpc, pending>>
  /\ UNCHANGED <<pos, i, rest, alarmed, answer, ppc, flags, bits>>

\* Fault: no alarm.
AlarmNever ==
  /\ child = "alive" /\ cpc = "alarm"
  /\ rest' = {j - 1 : j \in rest \ {0}}
  /\ cpc' = "sigwait"
  /\ UNCHANGED <<child, pos, i, alarmed, answer, ppc, pending, sigchld, flags, bits>>

\* alarm(ALARMTIME), which takes the place of the alarm before; a >> 1.
Alarm ==
  /\ child = "alive" /\ cpc = "alarm"
  /\ alarmed' = 1
  /\ rest' = {j - 1 : j \in rest \ {0}}
  /\ cpc' = "sigwait"
  /\ UNCHANGED <<child, pos, i, answer, ppc, pending, sigchld, flags, bits>>

\* Fault: the child goes on without the answer.
GoOn ==
  /\ child = "alive" /\ cpc = "sigwait"
  /\ answer' = 0
  /\ i' = NextBit(i)
  /\ cpc' = IF i + 1 = BITS THEN "read" ELSE "kill"
  /\ UNCHANGED <<child, pos, rest, alarmed, ppc, pending, sigchld, flags, bits>>

\* sigwait() takes the answer itself: the handler offalarm never runs, and the
\* alarm is still running when the child goes on.
Sigwait ==
  /\ child = "alive" /\ cpc = "sigwait"
  /\ answer = 1
  /\ answer' = 0
  /\ i' = NextBit(i)
  /\ cpc' = IF i + 1 = BITS THEN "read" ELSE "kill"
  /\ UNCHANGED <<child, pos, rest, alarmed, ppc, pending, sigchld, flags, bits>>

\* killbyalarm.  A second is shorter than any step may take.
killbyalarm ==
  /\ child = "alive" /\ alarmed = 1
  /\ ppc' = IF ParentLives THEN "killed" ELSE ppc
  /\ ChildEnds("alarmed")
  /\ UNCHANGED <<cpc, pos, i, rest, alarmed, answer, pending, flags, bits>>
---------------------------------------------------------------------------
\* The handlers getone and getzero, when their signals are not blocked.
Blocked == ppc \in {"take", "answer", "unblock"}

Deliver ==
  /\ ParentLives /\ ~Blocked
  /\ \E s \in pending :
       /\ pending' = pending \ {s}
       /\ sig' = s
  /\ isgetsig' = 1
  /\ UNCHANGED <<childVars, answer, ppc, sigchld, term, bits>>

\* The handler setterm; SIGCHLD is blocked until line 146.
setterm ==
  /\ ParentLives /\ ppc # "start"
  /\ sigchld = 1
  /\ sigchld' = 0
  /\ term' = 1
  /\ UNCHANGED <<childVars, answer, ppc, pending, isgetsig, sig, bits>>

\* The parent goes from one place of its code to the next.
Go(from, to) ==
  /\ ppc = from
  /\ ppc' = to

\* sigprocmask of lines 146, 151 and 167, and the two tests of the loop.
Walk ==
  /\ \/ Go("start", "while")
     \/ Go("while", IF term = 1 THEN "end" ELSE "if")
     \/ Go("if", IF isgetsig = 1 THEN "block" ELSE "while")
     \/ Go("block", "take")
     \/ Go("unblock", "while")
     \/ Go("end", "returned")
  /\ UNCHANGED <<childVars, answer, pending, sigchld, flags, bits>>

\* Fault: the flag is cleared when the signals are let in again.
TakeFlagged ==
  /\ Go("take", "answer")
  /\ bitcount' = NextBit(bitcount)
  /\ LET byte == IF sig = 1 THEN a \cup {bitcount} ELSE a IN
       /\ printed' = IF bitcount + 1 = BITS THEN Append(printed, byte) ELSE printed
       /\ a' = IF bitcount + 1 = BITS THEN {} ELSE byte
  /\ UNCHANGED <<childVars, answer, pending, sigchld, flags>>

\* Lines 153-164: the bit goes into the byte, the eighth one prints it.
Take ==
  /\ Go("take", "answer")
  /\ isgetsig' = 0
  /\ bitcount' = NextBit(bitcount)
  /\ LET byte == IF sig = 1 THEN a \cup {bitcount} ELSE a IN
       /\ printed' = IF bitcount + 1 = BITS THEN Append(printed, byte) ELSE printed
       /\ a' = IF bitcount + 1 = BITS THEN {} ELSE byte
  /\ UNCHANGED <<childVars, answer, pending, sigchld, sig, term>>

\* kill(pid, SIGUSR1).
Answer ==
  /\ Go("answer", "unblock")
  /\ answer' = 1
  /\ UNCHANGED <<childVars, pending, sigchld, flags, bits>>
---------------------------------------------------------------------------
\* SIGKILL from outside: runsignals.cpp sends it to the parent after a second.
KillParent ==
  /\ ParentLives
  /\ ppc' = "killed"
  /\ UNCHANGED <<childVars, answer, pending, sigchld, flags, bits>>

KillChild ==
  /\ child = "alive"
  /\ ChildEnds("killed")
  /\ UNCHANGED <<cpc, pos, i, rest, alarmed, answer, ppc, pending, flags, bits>>

Over ==
  /\ child # "alive" /\ ~ParentLives
  /\ UNCHANGED vars

Child == ReadByte \/ EndOfFile \/ Kill \/ Alarm \/ Sigwait
Parent == Walk \/ Take \/ Answer

Next ==
  \/ Child \/ killbyalarm
  \/ Parent \/ Deliver \/ setterm
  \/ KillParent \/ KillChild
  \/ Over

Spec == Init /\ [][Next]_vars

\* The kernel runs both processes, delivers signals, and time passes; nobody
\* has to kill anything.
FairSpec ==
  /\ Spec
  /\ WF_vars(Child) /\ WF_vars(killbyalarm)
  /\ WF_vars(Parent) /\ WF_vars(Deliver) /\ WF_vars(setterm)
---------------------------------------------------------------------------
\* The variables have the types of the code's.
TypeOK ==
  /\ child \in {"alive", "done", "unread", "failed", "alarmed", "killed"}
  /\ cpc \in {"read", "kill", "alarm", "sigwait"}
  /\ pos \in 0 .. Len(File) /\ i \in 0 .. BITS - 1 /\ rest \in Byte
  /\ alarmed \in {0, 1} /\ answer \in {0, 1}
  /\ ppc \in {"start", "while", "if", "block", "take", "answer", "unblock",
              "end", "returned", "killed"}
  /\ pending \subseteq {0, 1} /\ sigchld \in {0, 1}
  /\ isgetsig \in {0, 1} /\ sig \in {0, 1} /\ term \in {0, 1}
  /\ a \in Byte /\ bitcount \in 0 .. BITS - 1
  /\ printed \in Seq(Byte)

\* What the parent prints is a beginning of the file, wherever one of the two is
\* killed: no bit is lost between a handler and the loop, taken twice, or put in
\* another's place.
Faithful ==
  /\ Len(printed) <= Len(File)
  /\ \A k \in 1 .. Len(printed) : printed[k] = File[k]

\* A parent that ends by itself after a child that came to the end of its file has
\* printed all of it: the SIGCHLD of the child does not overtake its last bit.
Complete == ppc = "returned" /\ child = "done" => printed = File

\* The parent prints the file byte by byte, nothing after its end and nothing
\* once both have come to theirs.
Copy == INSTANCE InOrder
          WITH Whole <- File, out <- printed, ended <- (ppc = "returned" /\ child = "done")
PrintsInOrder == Copy!Safe

\* Neither outlives the other: a parent whose child was killed leaves its loop,
\* and a child whose parent was killed does not wait for the answer for ever.
Ends == <>(child # "alive" /\ ~ParentLives)

\* The child says "Process-writer (parent) is not responding and was killed": it
\* kills a parent that it has sent a bit and has no answer from.
NotResponding ==
  [][ParentLives /\ ppc' = "killed" /\ child' # child
       => cpc \in {"alarm", "sigwait"}]_vars
---------------------------------------------------------------------------
(***************************************************************************)
(* The inductive invariant: where the bit in flight is.  What relates the  *)
(* two processes holds while the parent has not been killed; a child that  *)
(* has ended is taken to stand where it ended.                             *)
(***************************************************************************)
Bit == IF i \in File[pos] THEN 1 ELSE 0
Low(n) == {j \in File[pos] : j < n}
High(n) == {j - n : j \in {k \in File[pos] : k >= n}}

\* The byte in the child, shifted as far as it has been sent.
RestInv ==
  /\ cpc = "read" => i = 0
  /\ cpc # "read" => pos > 0
  /\ cpc \in {"kill", "alarm"} => rest = High(i)
  /\ cpc = "sigwait" => rest = High(i + 1)

Before == Len(printed) = pos - 1 /\ bitcount = i /\ a = Low(i)
After ==
  IF i + 1 = BITS
  THEN Len(printed) = pos /\ bitcount = 0 /\ a = {}
  ELSE Len(printed) = pos - 1 /\ bitcount = i + 1 /\ a = Low(i + 1)

\* The bit is a pending signal, or in the flags, or in the byte, or answered.
Sent ==
  /\ pending = {Bit} /\ isgetsig = 0 /\ answer = 0
  /\ ppc \notin {"block", "take", "answer"} /\ Before
Seen ==
  /\ pending = {} /\ isgetsig = 1 /\ sig = Bit /\ answer = 0
  /\ ppc \notin {"answer", "unblock"} /\ Before
Taken ==
  /\ pending = {} /\ isgetsig = 0 /\ answer = 0
  /\ ppc = "answer" /\ After
Answered ==
  /\ pending = {} /\ isgetsig = 0 /\ answer = 1
  /\ ppc \notin {"block", "take", "answer"} /\ After

Quiet ==
  /\ pending = {} /\ isgetsig = 0 /\ answer = 0
  /\ ppc \notin {"block", "take", "answer"}

FlightInv ==
  ppc # "killed" =>
    /\ cpc = "read" => Quiet /\ Len(printed) = pos /\ bitcount = 0 /\ a = {}
    /\ cpc = "kill" => Quiet /\ Before
    /\ cpc \in {"alarm", "sigwait"} => Sent \/ Seen \/ Taken \/ Answered

\* Only a child that has ended ends the loop.
EndInv ==
  /\ sigchld = 1 \/ term = 1 => child # "alive"
  /\ ppc \in {"end", "returned"} => term = 1
  /\ child = "done" => cpc = "read" /\ pos = Len(File)

IInv == TypeOK /\ Faithful /\ RestInv /\ FlightInv /\ EndInv
===========================================================================

------------------------------ MODULE NetCalc ------------------------------
(***************************************************************************)
(* Linux-progs/net_parallel_calculating: a client asks who can calculate,  *)
(* gives each server that answered a part of the segment [a, b] in         *)
(* proportion to its processors, adds the answers, and gives the part of a *)
(* server that failed to the others.                                       *)
(*                                                                         *)
(* A part is an interval of the segment, which is cut into Grain pieces    *)
(* for each processor; a sum over parts is the sequence of these parts.    *)
(***************************************************************************)
EXTENDS Integers, FiniteSets, SequencesExt

CONSTANTS
  Server,
  Cpus,       \* Cpus[s]: processors of s
  Grain,      \* pieces of the segment for each processor of the list
  MayFail,    \* the places where a server may fail
  MaxFails    \* and how many of them do

ASSUME NetAssumption ==
  /\ Cpus \in [Server -> Nat \ {0}]
  /\ Grain \in Nat \ {0} /\ MaxFails \in Nat

VARIABLES
  pc,        \* where each server is
  task,      \* recv_limits of each server
  inbox,     \* what the client has sent to each server
  reply,     \* what each server has sent to the client
  at,        \* where the client is
  answers,   \* the datagrams with the numbers of processors
  list,      \* the servers, in the order of their answers
  i,         \* the server of the list that the loop is at
  limits,    \* a and b for each of the list
  got,       \* limits[n].result
  bad,       \* bad_tcp_sockets up to its -1
  j,         \* which of bad is given away
  dx,        \* pieces for a processor in the recalculation
  result,
  reset      \* servers that have failed with something of the client's unread

server == <<pc, task>>
wires == <<inbox, reply, reset>>
client == <<at, answers, list, i, limits, got, bad, j, dx, result>>
vars == <<server, wires, client>>

Nothing == [a |-> 0, b |-> 0]

Init ==
  /\ pc = [s \in Server |-> "idle"] /\ task = [s \in Server |-> Nothing]
  /\ inbox = [s \in Server |-> <<>>] /\ reply = [s \in Server |-> <<>>]
  /\ reset = {}
  /\ at = "broadcast" /\ answers = <<>> /\ list = <<>> /\ i = 1
  /\ limits = <<>> /\ got = <<>> /\ bad = <<>> /\ j = 1 /\ dx = 0
  /\ result = <<>>

Limits(part) == [kind |-> "limits", part |-> part, again |-> FALSE]
Need(again) == [kind |-> "need", part |-> Nothing, again |-> again]

Dead(s) == pc[s] = "dead"
ClientGone == at \in {"done", "failed", "killed"}

\* tcp_sockets[n] = -1.
Closed(n) == n \in ToSet(bad)

\* The running sum of the processors of l, without the closed ones.
Sums(l, closed) ==
  LET k[n \in 0 .. Len(l)] ==
        IF n = 0 THEN 0 ELSE k[n - 1] + (IF n \in closed THEN 0 ELSE Cpus[l[n]])
  IN k

\* Fault: the n-th itself is counted.
OpenCpusThrough(n) == Sums(list, ToSet(bad))[IF n > Len(list) THEN Len(list) ELSE n]

\* The processors of those before n in the list, without the closed ones.
OpenCpus(n) == Sums(list, ToSet(bad))[n - 1]
number_of_cpus == OpenCpus(Len(list) + 1)
---------------------------------------------------------------------------
\* send() of the client.  To a server that has failed it is lost, with or without
\* an error.  What such a server has not read is answered by a reset; once that
\* has come a send may be a SIGPIPE.
Send(s, m, next) ==
  \/ /\ ~Dead(s)
     /\ inbox' = [inbox EXCEPT ![s] = Append(@, m)]
     /\ at' = next
     /\ UNCHANGED reset
  \/ /\ Dead(s)
     /\ reset' = reset \cup {s}
     /\ at' = next
     /\ UNCHANGED inbox
  \/ /\ Dead(s) /\ s \in reset
     /\ at' = "killed"
     /\ UNCHANGED <<inbox, reset>>

Broadcast ==
  /\ at = "broadcast"
  /\ at' = "sleep"
  /\ UNCHANGED <<server, wires, answers, list, i, limits, got, bad, j, dx, result>>

\* A server answers, in time for the client or too late, or the answer is lost.
Hear(s) ==
  /\ pc[s] = "idle" /\ at # "broadcast"
  /\ pc' = [pc EXCEPT ![s] = "answered"]
  /\ \/ at = "sleep" /\ answers' = Append(answers, s)
     \/ UNCHANGED answers
  /\ UNCHANGED <<task, wires, at, list, i, limits, got, bad, j, dx, result>>

\* bind() and listen(); until then nobody can connect.
Listen(s) ==
  /\ pc[s] = "answered"
  /\ pc' = [pc EXCEPT ![s] = "accept"]
  /\ UNCHANGED <<task, wires, client>>

\* After its sleep the client takes what has come; with no server it ends.
Collect ==
  /\ at = "sleep"
  /\ list' = answers
  /\ at' = IF answers = <<>> THEN "failed" ELSE "connect"
  /\ i' = 1
  /\ UNCHANGED <<server, wires, answers, limits, got, bad, j, dx, result>>

\* The loops over the list.
AtEnd == i = Len(list)
Step == i' = IF AtEnd THEN 1 ELSE i + 1
After(next) == IF AtEnd THEN next ELSE at

\* The connections are made in the order of the list; one that is refused ends
\* the client.
Connect ==
  LET s == list[i]
  IN
  /\ at = "connect"
  /\ \/ /\ pc[s] = "accept"
        /\ pc' = [pc EXCEPT ![s] = "limits"]
        /\ at' = After("task") /\ Step
     \/ /\ pc[s] \in {"answered", "dead"}
        /\ at' = "failed"
        /\ UNCHANGED <<pc, i>>
  /\ UNCHANGED <<task, wires, answers, list, limits, got, bad, j, dx, result>>
---------------------------------------------------------------------------
\* Where the parts of those before it end, the part of the next one begins.
Give ==
  LET from == Grain * OpenCpus(i)
      part == [a |-> from, b |-> from + Grain * Cpus[list[i]]]
  IN
  /\ at = "task"
  /\ limits' = Append(limits, part)
  /\ Send(list[i], Limits(part), After("result"))
  /\ Step
  /\ UNCHANGED <<server, reply, answers, list, got, bad, j, dx, result>>

\* Fault: the end of a connection is not looked for.
TakeAnswered ==
  LET s == list[i]
  IN
  /\ at = "result"
  /\ \/ /\ reply[s] # <<>>
        /\ got' = Append(got, Head(reply[s]))
        /\ result' = result \o Head(reply[s])
        /\ reply' = [reply EXCEPT ![s] = Tail(@)]
        /\ UNCHANGED bad
  /\ at' = After("need") /\ Step
  /\ UNCHANGED <<server, inbox, reset, answers, list, limits, j, dx>>

\* recv() waits for the answer, or for the end of a server that has failed.
Take ==
  LET s == list[i]
  IN
  /\ at = "result"
  /\ \/ /\ reply[s] # <<>>
        /\ got' = Append(got, Head(reply[s]))
        /\ result' = result \o Head(reply[s])
        /\ reply' = [reply EXCEPT ![s] = Tail(@)]
        /\ UNCHANGED bad
     \/ /\ reply[s] = <<>> /\ Dead(s)
        /\ bad' = Append(bad, i)
        /\ got' = Append(got, <<>>)
        /\ UNCHANGED <<result, reply>>
  /\ at' = After("need") /\ Step
  /\ UNCHANGED <<server, inbox, reset, answers, list, limits, j, dx>>

\* Fault: a server that has failed is not left out.
TellAll(m, next) ==
  /\ Send(list[i], m, After(next))
  /\ Step

\* One turn of a loop that sends m to the servers that are not closed.
Tell(m, next) ==
  /\ \/ ~Closed(i) /\ Send(list[i], m, After(next))
     \/ Closed(i) /\ at' = After(next) /\ UNCHANGED <<inbox, reset>>
  /\ Step

\* Fault: bc keeps the 1 of the socket options.
SayNeedAlways ==
  /\ at = "need"
  /\ Tell(Need(TRUE), IF bad = <<>> THEN "bye" ELSE "recalculate")
  /\ UNCHANGED <<server, reply, answers, list, limits, got, bad, j, dx, result>>

SayNeed ==
  /\ at = "need"
  /\ Tell(Need(bad # <<>>), IF bad = <<>> THEN "bye" ELSE "recalculate")
  /\ UNCHANGED <<server, reply, answers, list, limits, got, bad, j, dx, result>>
---------------------------------------------------------------------------
\* With nobody left the division of depth by number_of_cpus kills the client.
\* The width is that of limits[k - 1], k being the number of servers that failed.
Recalculate ==
  LET n == Len(bad)
  IN
  /\ at = "recalculate"
  /\ IF number_of_cpus = 0 THEN at' = "killed" /\ UNCHANGED dx
     ELSE /\ at' = "again"
          /\ dx' = (limits[n].b - limits[n].a) \div number_of_cpus
  /\ UNCHANGED <<server, wires, answers, list, i, limits, got, bad, j, result>>

\* The part of the server bad[j] goes to the others in the order of the list,
\* then that of the next one.
GiveAgain ==
  LET from == limits[bad[j]].a + dx * OpenCpus(i)
      part == [a |-> from, b |-> from + dx * Cpus[list[i]]]
      more == AtEnd /\ j < Len(bad)
  IN
  /\ at = "again"
  /\ Tell(Limits(part), IF more THEN "again" ELSE "more")
  /\ limits' = IF Closed(i) THEN limits ELSE [limits EXCEPT ![i] = part]
  /\ j' = IF more THEN j + 1 ELSE j
  /\ UNCHANGED <<server, reply, answers, list, got, bad, dx, result>>

\* What recv() returns is not looked at: from a server that has failed since,
\* the result is what it was.
TakeAgain ==
  LET s == list[i]
      sum == IF reply[s] = <<>> THEN got[i] ELSE Head(reply[s])
  IN
  /\ at = "more"
  /\ \/ /\ ~Closed(i)
        /\ reply[s] # <<>> \/ Dead(s)
        /\ got' = [got EXCEPT ![i] = sum]
        /\ result' = result \o sum
        /\ reply' = [reply EXCEPT ![s] = IF @ = <<>> THEN @ ELSE Tail(@)]
     \/ Closed(i) /\ UNCHANGED <<got, result, reply>>
  /\ at' = After("bye") /\ Step
  /\ UNCHANGED <<server, inbox, reset, answers, list, limits, bad, j, dx>>

\* Fault: the servers are told to go on.
SayByeAgain ==
  /\ at = "bye"
  /\ Tell(Need(TRUE), "done")
  /\ UNCHANGED <<server, reply, answers, list, limits, got, bad, j, dx, result>>

SayBye ==
  /\ at = "bye"
  /\ Tell(Need(FALSE), "done")
  /\ UNCHANGED <<server, reply, answers, list, limits, got, bad, j, dx, result>>
---------------------------------------------------------------------------
\* recv() of a message of the kind the server expects.  With another kind, or
\* none at all because the client is gone, it goes on with what is no part and
\* no number: such a server is astray.
Receive(s, here, kind, next) ==
  /\ pc[s] = here
  /\ inbox[s] # <<>> \/ ClientGone
  /\ IF inbox[s] = <<>> \/ Head(inbox[s]).kind # kind
     THEN pc' = [pc EXCEPT ![s] = "astray"]
     ELSE pc' = [pc EXCEPT ![s] = next]
  /\ inbox' = [inbox EXCEPT ![s] = IF @ = <<>> THEN @ ELSE Tail(@)]
  /\ UNCHANGED <<reply, reset, client>>

ReceiveLimits(s) ==
  /\ Receive(s, "limits", "limits", "calculate")
  /\ task' = [task EXCEPT ![s] = IF pc'[s] = "calculate" THEN Head(inbox[s]).part ELSE @]

\* The threads of the server share its part, and it sends their sum.
Calculate(s) ==
  /\ pc[s] = "calculate"
  /\ reply' = [reply EXCEPT ![s] = Append(@, <<task[s]>>)]
  /\ pc' = [pc EXCEPT ![s] = "need"]
  /\ UNCHANGED <<task, inbox, reset, client>>

\* Then the client says whether there is more, or the server is ready.
ReceiveNeed(s) ==
  /\ Receive(s, "need", "need", IF inbox[s] # <<>> /\ Head(inbox[s]).again
                                THEN "limits" ELSE "ready")
  /\ UNCHANGED task

\* What had been sent to the server before and is not read brings a reset too.
Fail(s) ==
  /\ pc[s] \in MayFail
  /\ Cardinality({t \in Server : Dead(t)}) < MaxFails
  /\ pc' = [pc EXCEPT ![s] = "dead"]
  /\ inbox' = [inbox EXCEPT ![s] = <<>>]
  /\ reset' = IF inbox[s] = <<>> THEN reset ELSE reset \cup {s}
  /\ UNCHANGED <<task, reply, client>>

Client ==
  \/ Broadcast \/ Collect \/ Connect
  \/ Give \/ Take \/ SayNeed
  \/ Recalculate \/ GiveAgain \/ TakeAgain \/ SayBye

ServerStep(s) ==
  \/ Hear(s) \/ Listen(s)
  \/ ReceiveLimits(s) \/ Calculate(s) \/ ReceiveNeed(s)

Next ==
  \/ Client
  \/ \E s \in Server : ServerStep(s) \/ Fail(s)

Spec == Init /\ [][Next]_vars

\* The client runs when it can, and so does every server that has heard of it.
FairSpec ==
  /\ Spec
  /\ WF_vars(Client)
  /\ \A s \in Server : WF_vars(ServerStep(s))
---------------------------------------------------------------------------
Parts == {part \in [a : Nat, b : Nat] : part.a <= part.b}
Messages == [kind : {"limits", "need"}, part : Parts, again : BOOLEAN]
Places == {"idle", "answered", "accept", "limits", "calculate", "need", "ready", "astray", "dead"}
Loops == {"connect", "task", "result", "need", "recalculate", "again", "more", "bye"}
Stages == Loops \cup {"broadcast", "sleep", "done", "failed", "killed"}

\* Values have the types of the code's variables, and indices are in their arrays.
TypeOK ==
  /\ pc \in [Server -> Places] /\ task \in [Server -> Parts]
  /\ inbox \in [Server -> Seq(Messages)] /\ reply \in [Server -> Seq(Seq(Parts))]
  /\ reset \subseteq Server /\ at \in Stages
  /\ answers \in Seq(Server) /\ IsInjective(answers) /\ list \in {<<>>, answers}
  /\ i \in Nat /\ (at \in Loops => i \in DOMAIN list)
  /\ j \in Nat /\ (at = "again" => j \in DOMAIN bad)
  /\ limits \in Seq(Parts) /\ Len(limits) <= Len(list)
  /\ got \in Seq(Seq(Parts)) /\ Len(got) <= Len(list)
  /\ bad \in Seq(1 .. Len(list)) /\ IsInjective(bad)
  /\ dx \in Nat /\ result \in Seq(Parts)

\* A server that has failed and was not found to: its result had been read.
Late(n) == Dead(list[n]) /\ ~Closed(n)

\* The failures after which the program can print the integral: none that the
\* client saw, or one, of a server with as many processors as the first of the
\* list (the recalculation takes its width from there), and none after it.  A width
\* that is no whole number of pieces is none of a model that counts in pieces.
Mended ==
  \/ bad = <<>>
  \/ /\ Len(bad) = 1 /\ Cpus[list[bad[1]]] = Cpus[list[1]]
     /\ Grain * Cpus[list[1]] % number_of_cpus = 0
     /\ \A n \in DOMAIN list : ~Late(n)

\* The printed result is the integral over the segment: every piece of it is
\* in exactly one of the answers that were added.
Covers(x) == Cardinality({n \in DOMAIN result : x \in result[n].a .. result[n].b - 1})
Segment == 0 .. Grain * Sums(list, {})[Len(list)] - 1
Whole ==
  at = "done" /\ Mended =>
    /\ \A x \in Segment : Covers(x) = 1
    /\ \A n \in DOMAIN result : result[n].b - 1 \in Segment

\* A server takes for the need of recalculation what the client says of it, and
\* for limits what are limits.
Expected ==
  \A s \in Server :
    inbox[s] # <<>> /\ pc[s] \in {"limits", "need"} => Head(inbox[s]).kind = pc[s]

\* One server may fail, whenever it does: the others stay in step.
InStep == TypeOK /\ (Len(bad) <= 1 => Expected)

\* The client never waits for ever: a server that fails is found by the end of
\* its connection.
Ends == <>ClientGone

\* The client is killed only where nobody is left, or by a server that failed
\* after it had answered: the others it does not write to again.
KilledLate == at = "killed" => number_of_cpus = 0 \/ \E n \in DOMAIN list : Late(n)

\* When the client is done, every server it used is ready for the next one.
Served ==
  at = "done" /\ Len(bad) <= 1 ~> \A s \in ToSet(list) : pc[s] \in {"ready", "dead"}
---------------------------------------------------------------------------
(***************************************************************************)
(* The inductive invariant.                                                *)
(***************************************************************************)
Over == at \in {"failed", "killed"}
Unheard == {"idle", "answered", "accept", "dead"}

\* Which arrays the client has filled, by where it is.
Filled ==
  /\ at \in {"broadcast", "sleep"} => list = <<>>
  /\ at \notin {"broadcast", "sleep", "failed", "killed"} => list # <<>>
  /\ at \in {"broadcast", "sleep", "connect", "task"} => got = <<>> /\ bad = <<>> /\ result = <<>>
  /\ at \in {"broadcast", "sleep", "connect"} => limits = <<>>
  /\ at = "task" => Len(limits) = i - 1
  /\ at = "result" => Len(got) = i - 1 /\ Len(bad) <= i - 1 /\ \A n \in DOMAIN bad : bad[n] < i
  /\ at \in {"result", "need", "recalculate", "again", "more"} => Len(limits) = Len(list)
  /\ at \in {"need", "recalculate", "again", "more"} => Len(got) = Len(list) /\ Len(bad) <= Len(list)
  /\ at \in {"recalculate", "again", "more"} => bad # <<>>
  /\ at \in {"recalculate", "done"} => i = 1
  /\ j # 1 => at \in {"again", "more", "bye", "done", "killed"} /\ Len(bad) > 1

\* Who has answered is no longer idle; whom the list does not have was never
\* connected to; a closed connection is one to a server that has failed.
Known ==
  /\ \A n \in DOMAIN answers : pc[answers[n]] # "idle"
  /\ \A s \in Server \ ToSet(list) : pc[s] \in Unheard /\ inbox[s] = <<>> /\ reply[s] = <<>>
  /\ \A s \in Server : Dead(s) => inbox[s] = <<>>
  /\ \A n \in DOMAIN bad : Dead(list[bad[n]])
  /\ \A n \in DOMAIN list :
       at \notin {"connect", "failed"} \/ (at = "connect" /\ n < i)
       => pc[list[n]] \notin {"idle", "answered", "accept"}

\* The part of n in the first round, and what it gets of the one that failed.
First(n) ==
  LET from == Grain * Sums(list, {})[n - 1]
  IN [a |-> from, b |-> from + Grain * Cpus[list[n]]]
Second(n) ==
  LET from == First(bad[1]).a + dx * Sums(list, {bad[1]})[n - 1]
  IN [a |-> from, b |-> from + dx * Cpus[list[n]]]

\* The k-th message to the server n, its k-th answer, and how many messages and
\* answers there have been, with at most one failure seen.
Message(n, k) ==
  IF k = 1 THEN Limits(First(n))
  ELSE IF k = 3 /\ bad # <<>> THEN Limits(Second(n))
  ELSE Need(k = 2 /\ bad # <<>>)
Answer(n, k) == IF k = 1 THEN First(n) ELSE Second(n)
One(n) == IF n < i THEN 1 ELSE 0
Rounds == IF bad = <<>> THEN 1 ELSE 2
Said(n) ==
  CASE at = "task" -> One(n)
    [] at = "result" -> 1
    [] at = "need" -> 1 + One(n)
    [] at = "recalculate" -> 2
    [] at = "again" -> 2 + One(n)
    [] at = "more" -> 3
    [] at = "bye" -> 1 + Rounds + One(n)
    [] at = "done" -> 2 + Rounds
    [] OTHER -> 0
TakenOf(n) ==
  CASE at = "result" -> One(n)
    [] at \in {"need", "recalculate", "again"} -> 1
    [] at = "more" -> 1 + One(n)
    [] at \in {"bye", "done"} -> Rounds
    [] OTHER -> 0

\* Where r messages have brought the server n.
Placed(n, r) ==
  LET s == list[n]
  IN
  \/ pc[s] \in {"answered", "accept"} /\ r = 0
  \/ pc[s] = "limits" /\ (r = 0 \/ (r = 2 /\ bad # <<>>))
  \/ pc[s] \in {"calculate", "need"} /\ (r = 1 \/ (r = 3 /\ bad # <<>>))
  \/ pc[s] = "ready" /\ r = 2 * Rounds

\* With c messages sent, the server n has received all but those in its inbox.
Follows(n, c) ==
  LET s == list[n]
      r == c - Len(inbox[s])
  IN
  /\ c \in 0 .. 2 + Rounds /\ r >= 0
  /\ \A k \in DOMAIN inbox[s] : inbox[s][k] = Message(n, r + k)
  /\ Placed(n, r)

InboxOf(n) ==
  ~Dead(list[n]) =>
    IF Over THEN pc[list[n]] = "astray" \/ \E c \in 0 .. 4 : Follows(n, c)
    ELSE Follows(n, Said(n))
InboxInv == Len(bad) <= 1 => \A n \in DOMAIN list : InboxOf(n)

\* The number of answers of the server n, by what it has received.
AnswersOf(n) ==
  LET s == list[n]
      r == Said(n) - Len(inbox[s])
  IN CASE pc[s] = "calculate" -> IF r = 1 THEN 0 ELSE 1
       [] pc[s] = "need" -> IF r = 1 THEN 1 ELSE 2
       [] pc[s] = "limits" -> IF r = 0 THEN 0 ELSE 1
       [] pc[s] = "ready" -> Rounds
       [] OTHER -> 0

\* What has been answered and not taken is under way; of a server that has failed
\* this is known until its first answer is taken.
ReplyOf(n) ==
  LET s == list[n]
  IN
  /\ ~Dead(s) =>
       /\ Len(reply[s]) = AnswersOf(n) - TakenOf(n)
       /\ \A k \in DOMAIN reply[s] : reply[s][k] = <<Answer(n, TakenOf(n) + k)>>
       /\ pc[s] = "calculate" => task[s] = Answer(n, AnswersOf(n) + 1)
  /\ Dead(s) /\ TakenOf(n) = 0 => reply[s] \in {<<>>, <<<<First(n)>>>>}
ReplyInv == Len(bad) <= 1 /\ ~Over => \A n \in DOMAIN list : ReplyOf(n)

\* The client's limits, and the width of the recalculation.
LimitsInv ==
  /\ at \in {"task", "result", "need", "recalculate"} =>
       \A n \in DOMAIN limits : limits[n] = First(n)
  /\ at = "again" /\ Len(bad) = 1 => limits[bad[1]] = First(bad[1])
  /\ at \in {"again", "more", "bye", "done"} /\ Len(bad) = 1 =>
       number_of_cpus # 0 /\ dx = (Grain * Cpus[list[1]]) \div number_of_cpus

\* The q-th server that was not found to have failed, and how many there are
\* before the one that the loop is at.
Skip(q) == IF bad # <<>> /\ q >= bad[1] THEN q + 1 ELSE q
Alive == Len(list) - Len(bad)
Before == IF i > bad[1] THEN i - 2 ELSE i - 1

\* What has been added up.  After a recalculation it is known where none failed
\* that the client had not found to.
ResultInv ==
  /\ Len(bad) <= 1 /\ ~Over
  /\ at \in {"more", "bye", "done"} /\ bad # <<>> => \A n \in DOMAIN list : ~Late(n)
  => /\ at = "result" => Len(result) = i - 1 - Len(bad)
     /\ at \in {"need", "recalculate", "again"} => Len(result) = Alive
     /\ at \in {"bye", "done"} /\ bad = <<>> => Len(result) = Alive
     /\ at = "more" => Len(result) = Alive + Before
     /\ at \in {"bye", "done"} /\ bad # <<>> => Len(result) = 2 * Alive
     /\ \A q \in DOMAIN result :
          result[q] = IF q <= Alive THEN First(Skip(q)) ELSE Second(Skip(q - Alive))

IInv ==
  /\ TypeOK /\ Filled /\ Known
  /\ InboxInv /\ ReplyInv /\ LimitsInv /\ ResultInv
  /\ KilledLate
===========================================================================

----------------------------- MODULE Transport -----------------------------
(***************************************************************************)
(* MPI-progs/laba_diffur/laba.cpp: an explicit scheme for the transport    *)
(* equation.  Each rank has a share of the columns; neighbours share one   *)
(* column, which the left one computes and sends row by row.  At the end   *)
(* rank 0 puts the shares together.                                        *)
(***************************************************************************)
EXTENDS Integers, FiniteSets, Sequences

CONSTANTS
  Size,           \* ranks
  Nx, Nt,         \* the last column, and the number of rows
  Value, Zero, One,
  Late,           \* a message whose value the library has not yet taken
  Scheme(_, _),   \* a value from the one to the left of it and the one below it
  Solution        \* what a single process computes, by row and column

Rank == 0 .. Size - 1
Row == 0 .. Nt - 1

ASSUME TransportAssumption ==
  /\ Size \in Nat \ {0} /\ Nt \in Nat \ {0}
  \* Every rank has a column to compute: 20000 columns in the code.
  /\ Nx \in Nat /\ Nx >= Size
  /\ Zero \in Value /\ One \in Value /\ Late \notin Value
  /\ \A x, y \in Value : Scheme(x, y) \in Value

\* The first row is One; column 0 is left as calloc() made it.
ASSUME SolutionAssumption ==
  /\ Solution \in [Row -> [0 .. Nx -> Value]]
  /\ \A c \in 0 .. Nx : Solution[0][c] = One
  /\ \A n \in Row \ {0} : Solution[n][0] = Zero
  /\ \A n \in Row \ {0}, c \in 1 .. Nx :
       Solution[n][c] = Scheme(Solution[n - 1][c - 1], Solution[n - 1][c])

VARIABLES
  lib,       \* MPI_Isend takes the value at once ("eager"), or some time later
  pc,        \* where each rank is
  n,         \* turns of the loop over the rows
  tab,       \* the columns of each rank
  buf,       \* the place on the stack that buf has in every turn
  sent,      \* messages of each rank that the next one has not received
  gathered   \* ranks whose columns rank 0 has

vars == <<lib, pc, n, tab, buf, sent, gathered>>
---------------------------------------------------------------------------
(***************************************************************************)
(* The share of a rank.  The loop runs Nx % size - 1 times with r going    *)
(* down from size - 1, and moves a bound by one for each r it reaches.     *)
(***************************************************************************)
Rs == Size - ((Nx % Size) - 1) .. Size - 1

xmin(rank) == (Nx \div Size) * rank + Cardinality({r \in Rs : rank >= r})

\* Fault: the end of a share moves one turn later.
xmaxLate(rank) ==
  IF rank = Size - 1 THEN Nx
  ELSE (Nx \div Size) * (rank + 1) + Cardinality({r \in Rs : rank >= r})

xmax(rank) ==
  IF rank = Size - 1 THEN Nx
  ELSE (Nx \div Size) * (rank + 1) + Cardinality({r \in Rs : rank >= r - 1})

\* getm(): the columns of a rank, the one it shares included.
Column(rank) == 0 .. xmax(rank) - xmin(rank)
LastColumn(rank) == xmax(rank) - xmin(rank)

\* init(), and row 0 set to one.
Init ==
  /\ lib \in {"eager", "late"}
  /\ pc = [r \in Rank |-> "loop"]
  /\ n = [r \in Rank |-> 0]
  /\ tab = [r \in Rank |-> [m \in Column(r) |-> [j \in Row |-> IF j = 0 THEN One ELSE Zero]]]
  /\ buf = [r \in Rank |-> Zero]
  /\ sent = [r \in Rank |-> <<>>]
  /\ gathered = 0

\* A turn of the loop begins with buf = 0, in the place of the last turn's buf.
Begin(r) ==
  /\ pc[r] = "loop" /\ n[r] < Nt - 1
  /\ buf' = [buf EXCEPT ![r] = Zero]
  /\ pc' = [pc EXCEPT ![r] = IF n[r] > 0 /\ r > 0 THEN "receive" ELSE "step"]
  /\ UNCHANGED <<lib, n, tab, sent, gathered>>

\* MPI_Recv from the left neighbour.
Receive(r) ==
  /\ pc[r] = "receive"
  /\ sent[r - 1] # <<>> /\ Head(sent[r - 1]) # Late
  /\ buf' = [buf EXCEPT ![r] = Head(sent[r - 1])]
  /\ tab' = [tab EXCEPT ![r][0][n[r]] = Head(sent[r - 1])]
  /\ sent' = [sent EXCEPT ![r - 1] = Tail(@)]
  /\ pc' = [pc EXCEPT ![r] = "step"]
  /\ UNCHANGED <<lib, n, gathered>>

\* Row n + 1 of a rank, which needs its row n alone.
NextRow(r) ==
  [m \in Column(r) |->
     IF m = 0 THEN tab[r][0]
     ELSE [tab[r][m] EXCEPT ![n[r] + 1] = Scheme(tab[r][m - 1][n[r]], tab[r][m][n[r]])]]

\* Fault: the column before the last one is sent.
StepInner(r) ==
  /\ pc[r] = "step"
  /\ tab' = [tab EXCEPT ![r] = NextRow(r)]
  /\ buf' = [buf EXCEPT ![r] = NextRow(r)[LastColumn(r) - 1][n[r] + 1]]
  /\ sent' = [sent EXCEPT ![r] =
                IF r = Size - 1 THEN @ ELSE Append(@, IF lib = "eager" THEN buf'[r] ELSE Late)]
  /\ n' = [n EXCEPT ![r] = @ + 1]
  /\ pc' = [pc EXCEPT ![r] = "loop"]
  /\ UNCHANGED <<lib, gathered>>

\* The row, and MPI_Isend of its last value; nobody waits for the request.
Step(r) ==
  /\ pc[r] = "step"
  /\ tab' = [tab EXCEPT ![r] = NextRow(r)]
  /\ buf' = [buf EXCEPT ![r] = NextRow(r)[LastColumn(r)][n[r] + 1]]
  /\ sent' = [sent EXCEPT ![r] =
                IF r = Size - 1 THEN @ ELSE Append(@, IF lib = "eager" THEN buf'[r] ELSE Late)]
  /\ n' = [n EXCEPT ![r] = @ + 1]
  /\ pc' = [pc EXCEPT ![r] = "loop"]
  /\ UNCHANGED <<lib, gathered>>

\* The library takes what is in the place of buf by now: after the loop, whatever
\* other variables have left there.
Take(r) ==
  /\ \E k \in 1 .. Len(sent[r]) :
       /\ sent[r][k] = Late
       /\ \A j \in 1 .. k - 1 : sent[r][j] # Late
       /\ \E v \in IF n[r] < Nt - 1 THEN {buf[r]} ELSE Value :
            sent' = [sent EXCEPT ![r][k] = v]
  /\ UNCHANGED <<lib, pc, n, tab, buf, gathered>>

\* The end of the loop.
Leave(r) ==
  /\ pc[r] = "loop" /\ n[r] = Nt - 1
  /\ pc' = [pc EXCEPT ![r] = IF r = 0 THEN "gather" ELSE "send"]
  /\ UNCHANGED <<lib, n, tab, buf, sent, gathered>>

\* Fault: the columns are put behind those that are there.
AppendedAfter(left, right) ==
  LET cut == Cardinality(DOMAIN left) IN
    [m \in 0 .. cut + Cardinality(DOMAIN right) - 1 |->
       IF m < cut THEN left[m] ELSE right[m - cut]]

\* get_addr_for_add: the columns that come are put over the last one.
Appended(left, right) ==
  LET cut == Cardinality(DOMAIN left) - 1 IN
    [m \in 0 .. cut + Cardinality(DOMAIN right) - 1 |->
       IF m < cut THEN left[m] ELSE right[m - cut]]

\* Both messages of the next rank.  Whether MPI_Send waits for the receiver only
\* decides when the sender comes to MPI_Finalize.
Gather ==
  /\ pc[0] = "gather" /\ gathered < Size - 1
  /\ pc[gathered + 1] = "send"
  /\ tab' = [tab EXCEPT ![0] = Appended(tab[0], tab[gathered + 1])]
  /\ gathered' = gathered + 1
  /\ pc' = [pc EXCEPT ![gathered + 1] = "finalize"]
  /\ UNCHANGED <<lib, n, buf, sent>>

\* Fault: the loop of rank 0 has one turn too many.
FinishBeyond ==
  /\ pc[0] = "gather" /\ gathered = Size
  /\ pc' = [pc EXCEPT ![0] = "finalize"]
  /\ UNCHANGED <<lib, n, tab, buf, sent, gathered>>

Finish ==
  /\ pc[0] = "gather" /\ gathered = Size - 1
  /\ pc' = [pc EXCEPT ![0] = "finalize"]
  /\ UNCHANGED <<lib, n, tab, buf, sent, gathered>>

RankStep(r) == Begin(r) \/ Receive(r) \/ Step(r) \/ Leave(r)

Next ==
  \/ \E r \in Rank : RankStep(r) \/ Take(r)
  \/ Gather \/ Finish

Spec == Init /\ [][Next]_vars

\* Every rank runs, and the library sends what it has been given.
FairSpec ==
  /\ Spec
  /\ \A r \in Rank : WF_vars(RankStep(r)) /\ WF_vars(Take(r))
  /\ WF_vars(Gather \/ Finish)
---------------------------------------------------------------------------
\* The columns of rank 0 before and after it has gathered others'.
Extent(r) == IF r = 0 THEN 0 .. xmax(gathered) ELSE Column(r)

\* The arrays have the shapes the ranks index.
TypeOK ==
  /\ lib \in {"eager", "late"}
  /\ pc \in [Rank -> {"loop", "receive", "step", "send", "gather", "finalize"}]
  /\ n \in [Rank -> 0 .. Nt - 1]
  /\ gathered \in 0 .. Size - 1
  /\ DOMAIN tab = Rank
  /\ \A r \in Rank : tab[r] \in [Extent(r) -> [Row -> Value]]
  /\ buf \in [Rank -> Value]
  /\ sent \in [Rank -> Seq(Value \cup {Late})]

\* The shares cover the columns from 0 to Nx; neighbours share one column, every
\* rank has memory for one of its own, and none for more than one more than another.
Shares ==
  /\ xmin(0) = 0 /\ xmax(Size - 1) = Nx
  /\ \A r \in Rank \ {0} : xmin(r) = xmax(r - 1)
  /\ \A r \in Rank : r # 0 \/ gathered = 0 =>
       Cardinality(DOMAIN tab[r]) - 1 \in {Nx \div Size, Nx \div Size + 1}

\* What a rank has of its columns: a row in each turn, and of the shared column
\* what it has received.
Has(r, m, j) ==
  IF m > 0 THEN j <= n[r]
  ELSE r = 0 \/ j = 0 \/ j < n[r] \/ (j = n[r] /\ pc[r] = "step")

\* Whatever the speed of the ranks, each value a rank has is the one that a single
\* process would compute; so long as MPI_Isend takes buf before the next turn.
Sequential ==
  lib = "eager" =>
    \A r \in Rank, j \in Row : \A m \in Column(r) :
      /\ Has(r, m, j)
      /\ r = 0 => gathered = 0
      => tab[r][m][j] = Solution[j][xmin(r) + m]

\* The columns where two shares meet.
Joints == {xmin(r) : r \in Rank \ {0}}

\* What rank 0 has put together is the whole solution, but for the last row where
\* shares meet: the right rank has not received it, and its column is put on top.
Gathered ==
  lib = "eager" /\ pc[0] = "finalize" =>
    /\ DOMAIN tab[0] = 0 .. Nx
    /\ \A c \in 0 .. Nx, j \in Row :
         (c \in Joints /\ j = Nt - 1) \/ tab[0][c][j] = Solution[j][c]

\* The ranks never wait for one another in a circle.
Ends == <>(\A r \in Rank : pc[r] = "finalize")
---------------------------------------------------------------------------
(***************************************************************************)
(* The inductive invariant behind the theorems of TransportProofs.         *)
(***************************************************************************)
PcInv ==
  /\ \A r \in Rank :
       /\ pc[r] \in {"receive", "send"} => r # 0
       /\ pc[r] = "gather" => r = 0
       /\ pc[r] = "receive" => n[r] > 0
       /\ pc[r] \in {"receive", "step"} => n[r] < Nt - 1
       /\ pc[r] \in {"send", "gather", "finalize"} => n[r] = Nt - 1
       /\ r # 0 => (pc[r] = "finalize" <=> r <= gathered)
  /\ gathered > 0 => pc[0] \in {"gather", "finalize"}
  /\ pc[0] = "finalize" => gathered = Size - 1

\* The messages a rank has received.
Received(r) ==
  IF pc[r] = "step" THEN n[r] ELSE IF n[r] = 0 THEN 0 ELSE n[r] - 1

\* Those under way are the next rows of the shared column.
MessageInv ==
  lib = "eager" =>
    \A r \in Rank \ {Size - 1} :
      /\ Len(sent[r]) = n[r] - Received(r + 1)
      /\ \A k \in 1 .. Len(sent[r]) : sent[r][k] = Solution[Received(r + 1) + k][xmax(r)]

\* Rank 0 has the columns up to those of the last rank it has gathered.
GatherInv ==
  lib = "eager" /\ pc[0] \in {"gather", "finalize"} =>
    \A c \in Extent(0), j \in Row :
      (c \in Joints /\ j = Nt - 1) \/ tab[0][c][j] = Solution[j][c]

IInv == TypeOK /\ PcInv /\ Sequential /\ MessageInv /\ GatherInv
===========================================================================

-------------------------- MODULE TransportProofs --------------------------
(***************************************************************************)
(* Theorems about Transport, for every number of ranks, size of the grid,  *)
(* scheme, and speed of the ranks.                                         *)
(***************************************************************************)
EXTENDS Transport, FiniteSetTheorems, SequenceTheorems, TLAPS

---------------------------------------------------------------------------
(***************************************************************************)
(* The shares.                                                             *)
(***************************************************************************)
q == Nx \div Size
m0 == Nx % Size

\* The bounds that the loop has moved left of rank k.
Moved(k) == IF k > Size - m0 THEN k - (Size - m0) ELSE 0

LEMMA Division ==
  /\ Size \in Nat \ {0} /\ Nx \in Nat
  /\ q \in Nat \ {0} /\ m0 \in 0 .. Size - 1 /\ Nx = Size * q + m0
  /\ q * Size = Size * q
<1>1. q \in Nat /\ m0 \in 0 .. Size - 1 /\ Nx = Size * q + m0
  BY TransportAssumption, SMT DEF q, m0
<1>2. q # 0
  <2>1. SUFFICES ASSUME q = 0 PROVE FALSE
    OBVIOUS
  <2>2. Size * q = 0
    BY <2>1, TransportAssumption, SMT
  <2> QED
    BY <1>1, <2>2, TransportAssumption
<1>3. q * Size = Size * q
  BY <1>1, TransportAssumption, SMT
<1> QED
  BY <1>1, <1>2, <1>3, TransportAssumption

\* Multiplication by a natural number is monotone.
LEMMA TimesMonotone ==
  ASSUME NEW a \in Nat, NEW b \in Nat, a <= b
  PROVE  q * a \in Nat /\ q * b \in Nat /\ q * a <= q * b /\ q * (a + 1) = q * a + q
<1>1. q \in Nat
  BY Division
<1>2. b = a + (b - a) /\ b - a \in Nat
  OBVIOUS
<1>3. q * b = q * a + q * (b - a) /\ q * (a + 1) = q * a + q
  BY <1>1, <1>2, SMT
<1>4. q * (b - a) \in Nat /\ q * a \in Nat
  BY <1>1, <1>2, SMT
<1> QED
  BY <1>3, <1>4

LEMMA Counted ==
  ASSUME NEW e \in 0 .. Size, NEW S,
         m0 = 0 => S = {} /\ e < Size,
         m0 # 0 => S = Size - (m0 - 1) .. e
  PROVE  Cardinality(S) = Moved(e)
<1>1. Size \in Nat /\ m0 \in Nat
  BY Division
<1>2. CASE m0 = 0
  <2>1. Cardinality({}) = 0
    BY FS_EmptySet
  <2>2. Moved(e) = 0
    BY <1>1, <1>2 DEF Moved
  <2> QED
    BY <1>2, <2>1, <2>2
<1>3. CASE m0 # 0
  <2> DEFINE a == Size - (m0 - 1)
  <2>1. a \in Int /\ e \in Int
    BY <1>1
  <2>2. (IF a > e THEN 0 ELSE e - a + 1) = Moved(e)
    BY <1>1, <1>3 DEF Moved
  <2>3. S = a .. e
    BY <1>3
  <2> HIDE DEF a
  <2>4. Cardinality(a .. e) = IF a > e THEN 0 ELSE e - a + 1
    BY <2>1, FS_Interval
  <2> QED
    BY <2>2, <2>3, <2>4
<1> QED
  BY <1>2, <1>3

\* The bounds as sums.
LEMMA Bounds ==
  ASSUME NEW k \in Rank
  PROVE  /\ xmin(k) = q * k + Moved(k)
         /\ xmax(k) = IF k = Size - 1 THEN Nx ELSE q * (k + 1) + Moved(k + 1)
<1>1. Size \in Nat \ {0} /\ m0 \in 0 .. Size - 1 /\ k \in 0 .. Size - 1
  BY Division DEF Rank
<1>2. Rs = Size - (m0 - 1) .. Size - 1
  BY DEF Rs, m0
<1>3. Cardinality({r \in Rs : k >= r}) = Moved(k)
  <2>1. m0 = 0 => {r \in Rs : k >= r} = {} /\ k < Size
    BY <1>1, <1>2
  <2>2. m0 # 0 => {r \in Rs : k >= r} = Size - (m0 - 1) .. k
    BY <1>1, <1>2
  <2>3. k \in 0 .. Size
    BY <1>1
  <2> QED
    BY <2>1, <2>2, <2>3, Counted
<1>4. k # Size - 1 => Cardinality({r \in Rs : k >= r - 1}) = Moved(k + 1)
  <2> SUFFICES ASSUME k # Size - 1 PROVE Cardinality({r \in Rs : k >= r - 1}) = Moved(k + 1)
    OBVIOUS
  <2> DEFINE e == k + 1
  <2>1. m0 = 0 => {r \in Rs : k >= r - 1} = {} /\ e < Size
    BY <1>1, <1>2
  <2>2. m0 # 0 => {r \in Rs : k >= r - 1} = Size - (m0 - 1) .. e
    BY <1>1, <1>2
  <2>3. e \in 0 .. Size
    BY <1>1
  <2> HIDE DEF e
  <2>4. Cardinality({r \in Rs : k >= r - 1}) = Moved(e)
    BY <2>1, <2>2, <2>3, Counted
  <2> QED
    BY <2>4 DEF e
<1> QED
  BY <1>3, <1>4 DEF xmin, xmax, q

\* What the proofs about the steps use of the shares.
LEMMA Columns ==
  ASSUME NEW k \in Rank
  PROVE  /\ xmin(k) \in Nat /\ xmax(k) \in Nat
         /\ xmin(k) < xmax(k) /\ xmax(k) <= Nx
         /\ xmax(k) - xmin(k) \in {q, q + 1}
         /\ k = 0 => xmin(k) = 0
         /\ k = Size - 1 => xmax(k) = Nx
         /\ k # 0 => xmin(k) = xmax(k - 1)
<1>1. k \in Nat /\ k + 1 \in Nat /\ k <= k + 1 /\ k + 1 <= Size /\ Size \in Nat
  BY Division DEF Rank
<1>2. /\ q * k \in Nat /\ q * (k + 1) \in Nat /\ q * Size \in Nat
      /\ q * (k + 1) = q * k + q
  BY <1>1, TimesMonotone
<1>3. q * (k + 1) <= q * Size
  BY <1>1, TimesMonotone
<1>4. Moved(k) \in Nat /\ Moved(k + 1) \in {Moved(k), Moved(k) + 1} /\ Moved(k + 1) <= m0
  BY <1>1, Division DEF Moved
<1> DEFINE left == q * k
           right == q * (k + 1)
           all == q * Size
<1>5. /\ left \in Nat /\ right \in Nat /\ all \in Nat
      /\ right = left + q /\ right <= all /\ Nx = all + m0
      /\ k = 0 => left = 0
      /\ k = Size - 1 => right = all
      /\ q \in Nat \ {0} /\ m0 \in 0 .. Size - 1
  <2>1. k = 0 => left = 0
    BY Division, SMT
  <2> QED
    BY <1>1, <1>2, <1>3, <2>1, Division
<1>6. xmin(k) = left + Moved(k) /\ xmax(k) = IF k = Size - 1 THEN Nx ELSE right + Moved(k + 1)
  BY Bounds
<1>7. k # 0 => xmin(k) = xmax(k - 1)
  <2>1. ASSUME k # 0 PROVE xmax(k - 1) = q * k + Moved(k)
    <3>1. k - 1 \in Rank /\ k - 1 # Size - 1 /\ k - 1 + 1 = k
      BY <1>1, <2>1, Division DEF Rank
    <3> QED
      BY <3>1, Bounds
  <2> QED
    BY <2>1, <1>6
<1>8. Size \in Nat \ {0}
  BY Division
<1> HIDE DEF left, right, all
<1>9. CASE k = Size - 1
  <2>1. Moved(k) = IF m0 = 0 THEN 0 ELSE m0 - 1
    BY <1>5, <1>8, <1>9 DEF Moved
  <2>2. k = 0 => m0 = 0
    BY <1>5, <1>9
  <2>3. xmin(k) = left + Moved(k) /\ xmax(k) = all + m0 /\ xmax(k) = Nx
    BY <1>5, <1>6, <1>9
  <2>4. all = left + q /\ (k = 0 => left = 0)
    BY <1>5, <1>9
  <2>5. xmin(k) \in Nat /\ xmax(k) \in Nat /\ xmax(k) - xmin(k) \in {q, q + 1}
    BY <1>5, <2>1, <2>3, <2>4
  <2>6. xmin(k) < xmax(k)
    BY <1>5, <2>5
  <2>7. k = 0 => xmin(k) = 0
    BY <1>5, <2>1, <2>2, <2>3
  <2> QED
    BY <1>5, <1>7, <1>9, <2>3, <2>5, <2>6, <2>7
<1>10. CASE k # Size - 1
  <2>1. k = 0 => Moved(k) = 0
    BY <1>5, <1>8 DEF Moved
  <2>2. xmin(k) = left + Moved(k) /\ xmax(k) = right + Moved(k + 1)
    BY <1>6, <1>10
  <2> QED
    BY <1>4, <1>5, <1>7, <1>10, <2>1, <2>2
<1> QED
  BY <1>9, <1>10

---------------------------------------------------------------------------
(***************************************************************************)
(* The ranks.                                                              *)
(***************************************************************************)
\* The indices of the columns of a rank, and those they have in the whole.
LEMMA Indices ==
  ASSUME NEW r \in Rank
  PROVE  /\ LastColumn(r) \in Nat \ {0} /\ Column(r) = 0 .. LastColumn(r)
         /\ xmin(r) \in Nat /\ xmax(r) \in Nat
         /\ xmin(r) + LastColumn(r) = xmax(r) /\ xmax(r) <= Nx
         /\ \A m \in Column(r) :
              /\ m \in Nat /\ xmin(r) + m \in 0 .. Nx
              /\ m > 0 => xmin(r) + m \in 1 .. Nx /\ m - 1 \in Column(r)
BY Columns, TransportAssumption DEF Column, LastColumn

\* A rank that computes has its own columns only.
LEMMA Own ==
  ASSUME TypeOK, PcInv, NEW r \in Rank, pc[r] \in {"loop", "receive", "step"}
  PROVE  /\ r = 0 => gathered = 0
         /\ Extent(r) = Column(r) /\ tab[r] \in [Column(r) -> [Row -> Value]]
<1>1. r = 0 => gathered = 0
  BY DEF PcInv, TypeOK, Rank
<1>2. Extent(r) = Column(r)
  <2>1. 0 \in Rank
    BY TransportAssumption DEF Rank
  <2>2. xmin(0) = 0 /\ xmax(0) \in Nat
    BY <2>1, Columns
  <2> QED
    BY <1>1, <2>2 DEF Extent, Column
<1> QED
  BY <1>1, <1>2 DEF TypeOK

LEMMA InitInv == Init => IInv
<1> SUFFICES ASSUME Init PROVE IInv
  OBVIOUS
<1> USE DEF Init
<1>1. 0 \in Row /\ 0 \in Rank /\ Size \in Nat \ {0} /\ Nt \in Nat \ {0}
  BY TransportAssumption DEF Row, Rank
<1>2. xmin(0) = 0 /\ xmax(0) \in Nat
  BY <1>1, Columns
<1>3. TypeOK
  <2>1. \A r \in Rank : tab[r] \in [Column(r) -> [Row -> Value]]
    BY TransportAssumption
  <2>2. \A r \in Rank : Extent(r) = Column(r)
    BY <1>2 DEF Extent, Column
  <2>3. \A r \in Rank : tab[r] \in [Extent(r) -> [Row -> Value]]
    BY <2>1, <2>2
  <2>4. n \in [Rank -> 0 .. Nt - 1] /\ gathered \in 0 .. Size - 1 /\ DOMAIN tab = Rank
    BY <1>1
  <2>5. buf \in [Rank -> Value] /\ sent \in [Rank -> Seq(Value \cup {Late})]
    BY TransportAssumption
  <2> QED
    BY <2>3, <2>4, <2>5 DEF TypeOK
<1>4. PcInv
  BY <1>1 DEF PcInv, Rank
<1>5. Sequential
  <2> SUFFICES ASSUME NEW r \in Rank, NEW j \in Row, NEW m \in Column(r), Has(r, m, j)
               PROVE  tab[r][m][j] = Solution[j][xmin(r) + m]
    BY DEF Sequential
  <2>1. tab[r][m][j] = IF j = 0 THEN One ELSE Zero
    OBVIOUS
  <2>2. xmin(r) + m \in 0 .. Nx /\ m \in Nat
    BY Indices
  <2>3. CASE j = 0
    BY <2>1, <2>2, <2>3, SolutionAssumption
  <2>4. CASE j # 0
    <3>1. r = 0 /\ m = 0
      BY <2>2, <2>4 DEF Has, Row
    <3>2. Solution[j][0] = Zero
      BY <2>4, SolutionAssumption
    <3> QED
      BY <1>2, <2>1, <2>4, <3>1, <3>2
  <2> QED
    BY <2>3, <2>4
<1>6. MessageInv
  <2> SUFFICES ASSUME NEW r \in Rank \ {Size - 1}
               PROVE  /\ Len(sent[r]) = n[r] - Received(r + 1)
                      /\ \A k \in 1 .. Len(sent[r]) :
                           sent[r][k] = Solution[Received(r + 1) + k][xmax(r)]
    BY DEF MessageInv
  <2>1. r + 1 \in Rank
    BY <1>1 DEF Rank
  <2>2. sent[r] = <<>> /\ n[r] = 0 /\ Received(r + 1) = 0
    BY <2>1 DEF Received
  <2> QED
    BY <2>2
<1>7. GatherInv
  BY <1>1 DEF GatherInv
<1> QED
  BY <1>3, <1>4, <1>5, <1>6, <1>7 DEF IInv

---------------------------------------------------------------------------
(***************************************************************************)
(* One lemma for each action.  Begin, Leave and Finish change no table and *)
(* no message: no rank has more, or has received more, than before.        *)
(***************************************************************************)
LEMMA BeginInv == ASSUME IInv, NEW r \in Rank, Begin(r) PROVE IInv'
<1> USE DEF IInv, Begin
<1>1. n[r] \in Nat /\ Nt \in Nat \ {0} /\ Zero \in Value
  BY TransportAssumption DEF TypeOK
<1>2. TypeOK'
  <2>1. \A s \in Rank : Extent(s)' = Extent(s)
    BY DEF Extent
  <2> QED
    BY <1>1, <2>1 DEF TypeOK
<1>3. PcInv'
  BY <1>1 DEF PcInv, TypeOK
<1>4. \A s \in Rank : Received(s)' = Received(s) \/ s = 0
  BY <1>1 DEF Received, TypeOK, Rank
<1>5. Sequential'
  <2>1. \A s \in Rank, m \in Nat, j \in Row : Has(s, m, j)' => Has(s, m, j)
    BY <1>1 DEF Has, TypeOK, Rank
  <2>2. \A s \in Rank : Column(s) \subseteq Nat
    BY Indices
  <2> QED
    BY <2>1, <2>2 DEF Sequential
<1>6. MessageInv'
  <2>1. \A s \in Rank \ {Size - 1} : Received(s + 1)' = Received(s + 1)
    BY <1>4, TransportAssumption DEF Rank
  <2> QED
    BY <2>1 DEF MessageInv
<1>7. GatherInv'
  <2>1. Extent(0)' = Extent(0)
    BY DEF Extent
  <2> QED
    BY <2>1 DEF GatherInv, TypeOK
<1> QED
  BY <1>2, <1>3, <1>5, <1>6, <1>7

LEMMA LeaveInv == ASSUME IInv, NEW r \in Rank, Leave(r) PROVE IInv'
<1> USE DEF IInv, Leave
<1>1. TypeOK'
  <2>1. \A s \in Rank : Extent(s)' = Extent(s)
    BY DEF Extent
  <2> QED
    BY <2>1 DEF TypeOK
<1>2. PcInv'
  BY TransportAssumption DEF PcInv, TypeOK, Rank
<1>3. \A s \in Rank : Received(s)' = Received(s)
  BY DEF Received, TypeOK
<1>4. Sequential'
  <2>1. \A s \in Rank, m \in Nat, j \in Row : Has(s, m, j)' => Has(s, m, j)
    BY DEF Has, TypeOK, Rank
  <2>2. \A s \in Rank : Column(s) \subseteq Nat
    BY Indices
  <2> QED
    BY <2>1, <2>2 DEF Sequential
<1>5. MessageInv'
  <2>1. \A s \in Rank \ {Size - 1} : Received(s + 1)' = Received(s + 1)
    BY <1>3, TransportAssumption DEF Rank
  <2> QED
    BY <2>1 DEF MessageInv
<1>6. GatherInv'
  <2>1. Extent(0)' = Extent(0)
    BY DEF Extent
  <2>2. CASE r # 0
    BY <2>1, <2>2 DEF GatherInv, TypeOK
  <2>3. CASE r = 0
    <3> SUFFICES ASSUME lib = "eager", NEW c \in Extent(0), NEW j \in Row
                 PROVE  tab[0][c][j] = Solution[j][c]
      BY <2>1 DEF GatherInv
    <3>1. c \in Column(0) /\ gathered = 0 /\ xmin(0) + c = c
      BY <2>3, Own, Columns, Indices
    <3>2. Has(0, c, j)
      BY <2>3 DEF Has, Row
    <3> QED
      BY <2>3, <3>1, <3>2 DEF Sequential
  <2> QED
    BY <2>2, <2>3
<1> QED
  BY <1>1, <1>2, <1>4, <1>5, <1>6

LEMMA FinishInv == ASSUME IInv, Finish PROVE IInv'
<1> USE DEF IInv, Finish
<1>1. 0 \in Rank /\ Size \in Nat \ {0}
  BY TransportAssumption DEF Rank
<1>2. TypeOK'
  <2>1. \A s \in Rank : Extent(s)' = Extent(s)
    BY DEF Extent
  <2> QED
    BY <2>1 DEF TypeOK
<1>3. PcInv'
  BY <1>1 DEF PcInv, TypeOK, Rank
<1>4. \A s \in Rank : Received(s)' = Received(s)
  BY DEF Received, TypeOK
<1>5. Sequential'
  <2>1. \A s \in Rank, m \in Nat, j \in Row : Has(s, m, j)' => Has(s, m, j)
    BY DEF Has, TypeOK, Rank
  <2>2. \A s \in Rank : Column(s) \subseteq Nat
    BY Indices
  <2> QED
    BY <2>1, <2>2 DEF Sequential
<1>6. MessageInv'
  <2>1. \A s \in Rank \ {Size - 1} : Received(s + 1)' = Received(s + 1)
    BY <1>1, <1>4 DEF Rank
  <2> QED
    BY <2>1 DEF MessageInv
<1>7. GatherInv'
  <2>1. Extent(0)' = Extent(0)
    BY DEF Extent
  <2> QED
    BY <2>1 DEF GatherInv
<1> QED
  BY <1>2, <1>3, <1>5, <1>6, <1>7

\* What is left of a sequence without its first member.
LEMMA TailFacts ==
  ASSUME NEW S, NEW x \in Seq(S), x # <<>>
  PROVE  /\ Len(x) \in Nat \ {0} /\ Len(Tail(x)) = Len(x) - 1
         /\ \A k \in 1 .. Len(x) - 1 : Tail(x)[k] = x[k + 1]
OBVIOUS

\* The value that comes is the next row of the shared column.
LEMMA ReceiveInv == ASSUME IInv, NEW r \in Rank, Receive(r) PROVE IInv'
<1> USE DEF IInv, Receive
<1>1. /\ r - 1 \in Rank /\ r - 1 # r /\ r # 0 /\ r - 1 # Size - 1 /\ (r - 1) + 1 = r
      /\ n[r] \in 1 .. Nt - 2 /\ n[r] \in Row
  BY TransportAssumption, SMTT(30) DEF PcInv, TypeOK, Rank, Row
<1> DEFINE v == Head(sent[r - 1])
<1>2. /\ sent[r - 1] \in Seq(Value \cup {Late}) /\ sent[r - 1] # <<>>
      /\ v \in Value /\ Tail(sent[r - 1]) \in Seq(Value \cup {Late})
  BY <1>1 DEF TypeOK
<1>3. 0 \in Column(r) /\ tab[r] \in [Column(r) -> [Row -> Value]] /\ Extent(r) = Column(r)
  BY <1>1, Own, Indices
<1>4. /\ \A s \in Rank : s # r => tab'[s] = tab[s]
      /\ \A m \in Column(r), j \in Row :
           tab'[r][m][j] = IF m = 0 /\ j = n[r] THEN v ELSE tab[r][m][j]
      /\ tab'[r] \in [Column(r) -> [Row -> Value]] /\ DOMAIN tab' = Rank
  <2>1. tab' = [tab EXCEPT ![r] = [tab[r] EXCEPT ![0] = [tab[r][0] EXCEPT ![n[r]] = v]]]
    OBVIOUS
  <2>2. [tab[r][0] EXCEPT ![n[r]] = v] \in [Row -> Value]
    BY <1>2, <1>3
  <2>3. DOMAIN tab = Rank
    BY DEF TypeOK
  <2> HIDE DEF v
  <2> QED
    BY <1>1, <1>3, <2>1, <2>2, <2>3
<1> HIDE DEF v
<1>5. TypeOK'
  <2>1. \A s \in Rank : Extent(s)' = Extent(s)
    BY DEF Extent
  <2>2. \A s \in Rank : tab'[s] \in [Extent(s)' -> [Row -> Value]]
    BY <1>3, <1>4, <2>1 DEF TypeOK
  <2>3. buf' \in [Rank -> Value]
    BY <1>2 DEF TypeOK, v
  <2>4. sent' \in [Rank -> Seq(Value \cup {Late})] /\ pc' \in [Rank -> {"loop", "receive", "step", "send", "gather", "finalize"}]
    BY <1>1, <1>2 DEF TypeOK
  <2> QED
    BY <1>4, <2>2, <2>3, <2>4 DEF TypeOK
<1>6. PcInv'
  BY <1>1 DEF PcInv, TypeOK
<1>7. /\ Received(r) = n[r] - 1 /\ Received(r)' = n[r]
      /\ \A s \in Rank : s # r => Received(s)' = Received(s)
  BY <1>1 DEF Received, TypeOK
<1>8. Sequential'
  <2> SUFFICES ASSUME lib = "eager", NEW s \in Rank, NEW j \in Row, NEW m \in Column(s),
                      Has(s, m, j)', s = 0 => gathered = 0
               PROVE  tab'[s][m][j] = Solution[j][xmin(s) + m]
    BY DEF Sequential
  <2>1. CASE s = r /\ m = 0 /\ j = n[r]
    <3>1. tab'[r][0][n[r]] = v
      BY <1>1, <1>3, <1>4
    <3>2. Len(sent[r - 1]) \in Nat /\ Len(sent[r - 1]) >= 1 /\ v = sent[r - 1][1]
      BY <1>2 DEF v
    <3>3. v = Solution[Received(r) + 1][xmax(r - 1)]
      BY <1>1, <3>2 DEF MessageInv
    <3>4. xmax(r - 1) = xmin(r) + 0 /\ Received(r) + 1 = n[r]
      BY <1>1, <1>7, Columns
    <3> QED
      BY <2>1, <3>1, <3>3, <3>4
  <2>2. CASE ~(s = r /\ m = 0 /\ j = n[r])
    <3>1. Has(s, m, j)
      <4>1. m \in Nat /\ j \in Nat
        BY Indices DEF Row
      <4>2. CASE s = r
        <5>1. m > 0 \/ j # n[r]
          BY <2>2, <4>1, <4>2
        <5> QED
          BY <1>1, <4>1, <4>2, <5>1 DEF Has, TypeOK
      <4>3. CASE s # r
        BY <4>3 DEF Has, TypeOK
      <4> QED
        BY <4>2, <4>3
    <3>2. tab'[s][m][j] = tab[s][m][j]
      BY <1>4, <2>2
    <3> QED
      BY <3>1, <3>2 DEF Sequential
  <2> QED
    BY <2>1, <2>2
<1>9. MessageInv'
  <2> SUFFICES ASSUME lib = "eager", NEW s \in Rank \ {Size - 1}
               PROVE  /\ Len(sent'[s]) = n[s] - Received(s + 1)'
                      /\ \A k \in 1 .. Len(sent'[s]) :
                           sent'[s][k] = Solution[Received(s + 1)' + k][xmax(s)]
    BY DEF MessageInv
  <2>1. CASE s = r - 1
    <3>1. sent'[s] = Tail(sent[s]) /\ Len(sent[s]) = n[s] - (n[r] - 1)
      BY <1>1, <1>7, <2>1 DEF MessageInv, TypeOK
    <3>2. /\ Len(sent'[s]) = Len(sent[s]) - 1 /\ Len(sent[s]) \in Nat
          /\ \A k \in 1 .. Len(sent'[s]) : sent'[s][k] = sent[s][k + 1]
      <4>1. sent[s] \in Seq(Value \cup {Late}) /\ sent[s] # <<>>
        BY <1>2, <2>1
      <4>2. /\ Len(sent[s]) \in Nat \ {0} /\ Len(Tail(sent[s])) = Len(sent[s]) - 1
            /\ \A k \in 1 .. Len(sent[s]) - 1 : Tail(sent[s])[k] = sent[s][k + 1]
        BY <4>1, TailFacts
      <4> QED
        BY <3>1, <4>2
    <3>3. n[s] \in Int /\ n[r] \in Int
      BY DEF TypeOK
    <3>4. \A k \in 1 .. Len(sent[s]) : sent[s][k] = Solution[n[r] - 1 + k][xmax(s)]
      BY <1>1, <1>7, <2>1 DEF MessageInv
    <3>5. ASSUME NEW k \in 1 .. Len(sent'[s]) PROVE sent'[s][k] = Solution[n[r] + k][xmax(s)]
      <4>1. k + 1 \in 1 .. Len(sent[s]) /\ n[r] - 1 + (k + 1) = n[r] + k
        BY <3>2, <3>3, SMTT(30)
      <4> QED
        BY <3>2, <3>4, <4>1
    <3>6. Received(s + 1)' = n[r]
      BY <1>1, <1>7, <2>1
    <3>7. Len(sent'[s]) = n[s] - n[r]
      BY <3>1, <3>2, <3>3
    <3> QED
      BY <3>5, <3>6, <3>7
  <2>2. CASE s # r - 1
    <3>1. s + 1 \in Rank /\ s + 1 # r
      BY <1>1, <2>2, TransportAssumption DEF Rank
    <3>2. sent'[s] = sent[s] /\ Received(s + 1)' = Received(s + 1)
      BY <1>7, <2>2, <3>1 DEF TypeOK
    <3> QED
      BY <3>2 DEF MessageInv
  <2> QED
    BY <2>1, <2>2
<1>10. GatherInv'
  <2>1. Extent(0)' = Extent(0) /\ 0 \in Rank
    BY TransportAssumption DEF Extent, Rank
  <2>2. tab'[0] = tab[0] /\ pc'[0] = pc[0]
    BY <1>1, <1>4, <2>1 DEF TypeOK
  <2> QED
    BY <2>1, <2>2 DEF GatherInv
<1> QED
  BY <1>5, <1>6, <1>8, <1>9, <1>10

\* A row of a rank, and the value of its last column on its way.
LEMMA StepInv == ASSUME IInv, NEW r \in Rank, Step(r) PROVE IInv'
<1> USE DEF IInv, Step
<1>1. /\ n[r] \in 0 .. Nt - 2 /\ n[r] \in Row /\ n[r] + 1 \in Row /\ Nt \in Nat
      /\ r = 0 => gathered = 0
  BY TransportAssumption, Own DEF PcInv, TypeOK, Row
<1>2. /\ Column(r) = 0 .. LastColumn(r) /\ LastColumn(r) \in Nat \ {0}
      /\ tab[r] \in [Column(r) -> [Row -> Value]] /\ Extent(r) = Column(r)
      /\ xmin(r) \in Nat /\ xmin(r) + LastColumn(r) = xmax(r)
  BY Indices, Own
<1> DEFINE new == NextRow(r)
<1>3. /\ new \in [Column(r) -> [Row -> Value]]
      /\ \A m \in Column(r), j \in Row :
           new[m][j] = IF m # 0 /\ j = n[r] + 1 THEN Scheme(tab[r][m - 1][n[r]], tab[r][m][n[r]])
                       ELSE tab[r][m][j]
  <2>1. \A m \in Column(r) : m # 0 => m - 1 \in Column(r)
    BY <1>2
  <2>2. \A m \in Column(r) : m # 0 => Scheme(tab[r][m - 1][n[r]], tab[r][m][n[r]]) \in Value
    BY <1>1, <1>2, <2>1, TransportAssumption
  <2>3. ASSUME NEW m \in Column(r)
        PROVE  /\ new[m] \in [Row -> Value]
               /\ \A j \in Row : new[m][j] =
                    IF m # 0 /\ j = n[r] + 1 THEN Scheme(tab[r][m - 1][n[r]], tab[r][m][n[r]])
                    ELSE tab[r][m][j]
    <3>1. new[m] = IF m = 0 THEN tab[r][0]
                   ELSE [tab[r][m] EXCEPT ![n[r] + 1] = Scheme(tab[r][m - 1][n[r]], tab[r][m][n[r]])]
      BY DEF NextRow
    <3>2. tab[r][m] \in [Row -> Value]
      BY <1>2
    <3> QED
      BY <1>1, <2>2, <3>1, <3>2
  <2>4. new = [m \in Column(r) |-> new[m]]
    BY DEF NextRow
  <2> HIDE DEF new
  <2> QED
    BY <2>3, <2>4
<1>4. LastColumn(r) \in Column(r) /\ buf'[r] = new[LastColumn(r)][n[r] + 1] /\ buf'[r] \in Value
  <2>1. buf'[r] = new[LastColumn(r)][n[r] + 1]
    BY DEF TypeOK
  <2>2. LastColumn(r) \in Column(r)
    BY <1>2
  <2> HIDE DEF new
  <2> QED
    BY <1>1, <1>3, <2>1, <2>2
<1>5. /\ tab'[r] = new /\ DOMAIN tab' = Rank
      /\ \A s \in Rank : s # r => tab'[s] = tab[s]
  BY DEF TypeOK
<1>6. /\ pc' = [pc EXCEPT ![r] = "loop"] /\ n' = [n EXCEPT ![r] = n[r] + 1]
      /\ pc[r] = "step" /\ UNCHANGED <<lib, gathered>>
  OBVIOUS
<1>7. /\ \A s \in Rank : s # r => sent'[s] = sent[s]
      /\ r # Size - 1 => sent'[r] = Append(sent[r], IF lib = "eager" THEN buf'[r] ELSE Late)
      /\ sent' \in [Rank -> Seq(Value \cup {Late})]
  BY <1>4 DEF TypeOK
<1>8. buf' \in [Rank -> Value]
  <2>1. buf' = [buf EXCEPT ![r] = buf'[r]]
    BY DEF TypeOK
  <2> QED
    BY <1>4, <2>1 DEF TypeOK
<1> HIDE DEF new, Step
<1>9. TypeOK'
  <2>1. \A s \in Rank : Extent(s)' = Extent(s)
    BY <1>6 DEF Extent
  <2>2. \A s \in Rank : tab'[s] \in [Extent(s)' -> [Row -> Value]]
    BY <1>2, <1>3, <1>5, <2>1 DEF TypeOK
  <2>3. n' \in [Rank -> 0 .. Nt - 1]
    BY <1>1, <1>6 DEF TypeOK
  <2> QED
    BY <1>5, <1>6, <1>7, <1>8, <2>2, <2>3 DEF TypeOK
<1>10. PcInv'
  BY <1>1, <1>6 DEF PcInv, TypeOK
<1>11. Received(r)' = n[r] /\ \A s \in Rank : s # r => Received(s)' = Received(s)
  BY <1>1, <1>6 DEF Received, TypeOK
<1>12. ASSUME lib = "eager", NEW m \in Column(r), NEW j \in Row,
              m # 0 => j <= n[r] + 1, m = 0 => Has(r, 0, j)'
       PROVE  new[m][j] = Solution[j][xmin(r) + m]
  <2>1. m \in Nat /\ (m # 0 => m - 1 \in Column(r) /\ m > 0) /\ j \in Nat
    BY <1>2 DEF Row
  <2>2. \A x \in Column(r), y \in Row : Has(r, x, y) => tab[r][x][y] = Solution[y][xmin(r) + x]
    BY <1>1, <1>12 DEF Sequential
  <2>3. CASE m # 0 /\ j = n[r] + 1
    <3>1. Has(r, m - 1, n[r]) /\ Has(r, m, n[r])
      BY <1>1, <1>6, <2>1, <2>3 DEF Has
    <3>2. /\ tab[r][m - 1][n[r]] = Solution[n[r]][xmin(r) + (m - 1)]
          /\ tab[r][m][n[r]] = Solution[n[r]][xmin(r) + m]
      BY <1>1, <2>1, <2>2, <2>3, <3>1
    <3>3. xmin(r) + m \in 1 .. Nx /\ xmin(r) + (m - 1) = (xmin(r) + m) - 1
      BY <1>2, <2>1, <2>3, Indices
    <3>4. j \in Row \ {0} /\ j - 1 = n[r]
      BY <1>1, <2>3
    <3>5. Solution[j][xmin(r) + m] = Scheme(Solution[j - 1][(xmin(r) + m) - 1], Solution[j - 1][xmin(r) + m])
      <4>1. \A y \in Row \ {0}, c \in 1 .. Nx :
              Solution[y][c] = Scheme(Solution[y - 1][c - 1], Solution[y - 1][c])
        BY SolutionAssumption
      <4> DEFINE c0 == xmin(r) + m
      <4>2. c0 \in 1 .. Nx
        BY <3>3
      <4> HIDE DEF c0
      <4>3. Solution[j][c0] = Scheme(Solution[j - 1][c0 - 1], Solution[j - 1][c0])
        BY <3>4, <4>1, <4>2
      <4> QED
        BY <4>3 DEF c0
    <3> QED
      BY <1>3, <2>3, <3>2, <3>3, <3>4, <3>5
  <2>4. CASE ~(m # 0 /\ j = n[r] + 1)
    <3>1. Has(r, m, j)
      BY <1>1, <1>6, <1>12, <2>1, <2>4 DEF Has, TypeOK
    <3> QED
      BY <1>3, <2>2, <2>4, <3>1
  <2> QED
    BY <2>3, <2>4
<1>13. Sequential'
  <2> SUFFICES ASSUME lib = "eager", NEW s \in Rank, NEW j \in Row, NEW m \in Column(s),
                      Has(s, m, j)', s = 0 => gathered = 0
               PROVE  tab'[s][m][j] = Solution[j][xmin(s) + m]
    BY <1>6 DEF Sequential
  <2>1. CASE s = r
    <3>1. m # 0 => j <= n[r] + 1
      BY <1>2, <1>6, <2>1 DEF Has, TypeOK
    <3>2. m = 0 => Has(r, 0, j)'
      BY <2>1
    <3> QED
      BY <1>5, <1>12, <2>1, <3>1, <3>2
  <2>2. CASE s # r
    BY <1>5, <1>6, <2>2 DEF Sequential, Has, TypeOK
  <2> QED
    BY <2>1, <2>2
<1>14. MessageInv'
  <2> SUFFICES ASSUME lib = "eager", NEW s \in Rank \ {Size - 1}
               PROVE  /\ Len(sent'[s]) = n'[s] - Received(s + 1)'
                      /\ \A k \in 1 .. Len(sent'[s]) :
                           sent'[s][k] = Solution[Received(s + 1)' + k][xmax(s)]
    BY <1>6 DEF MessageInv
  <2>1. s + 1 \in Rank /\ s + 1 # s
    BY TransportAssumption DEF Rank
  <2>2. CASE s = r
    <3>1. Received(s + 1)' = Received(s + 1) /\ n'[s] = n[s] + 1
      BY <1>6, <1>11, <2>1, <2>2 DEF TypeOK
    <3>2. buf'[r] = Solution[n[r] + 1][xmax(r)]
      <4>1. new[LastColumn(r)][n[r] + 1] = Solution[n[r] + 1][xmin(r) + LastColumn(r)]
        BY <1>1, <1>2, <1>4, <1>12
      <4> QED
        BY <1>2, <1>4, <4>1
    <3>3. sent'[s] = Append(sent[s], buf'[r]) /\ sent[s] \in Seq(Value \cup {Late})
      BY <1>7, <2>2 DEF TypeOK
    <3>4. /\ Len(sent[s]) \in Nat /\ Len(sent'[s]) = Len(sent[s]) + 1
          /\ \A k \in 1 .. Len(sent[s]) : sent'[s][k] = sent[s][k]
          /\ sent'[s][Len(sent[s]) + 1] = buf'[r]
      BY <1>4, <3>3
    <3>5. /\ Len(sent[s]) = n[s] - Received(s + 1)
          /\ \A k \in 1 .. Len(sent[s]) : sent[s][k] = Solution[Received(s + 1) + k][xmax(s)]
      BY DEF MessageInv
    <3>6. Received(s + 1) \in Int /\ n[s] \in Int
      BY <2>1 DEF Received, TypeOK
    <3>7. ASSUME NEW k \in 1 .. Len(sent[s]) + 1
          PROVE  sent'[s][k] = Solution[Received(s + 1) + k][xmax(s)]
      <4>1. CASE k = Len(sent[s]) + 1
        <5>1. Received(s + 1) + k = n[r] + 1
          BY <2>2, <3>4, <3>5, <3>6, <4>1
        <5> QED
          BY <2>2, <3>2, <3>4, <4>1, <5>1
      <4>2. CASE k # Len(sent[s]) + 1
        <5>1. k \in 1 .. Len(sent[s])
          BY <3>4, <4>2
        <5> QED
          BY <3>4, <3>5, <5>1
      <4> QED
        BY <4>1, <4>2
    <3>8. Len(sent'[s]) = n'[s] - Received(s + 1)
      BY <3>1, <3>4, <3>5, <3>6
    <3> QED
      BY <3>1, <3>4, <3>7, <3>8
  <2>3. CASE s # r
    <3>1. sent'[s] = sent[s] /\ n'[s] = n[s]
      BY <1>6, <1>7, <2>3 DEF TypeOK
    <3>2. Received(s + 1)' = Received(s + 1)
      <4>1. CASE s + 1 = r
        BY <1>6, <1>11, <4>1 DEF Received
      <4> QED
        BY <1>11, <2>1, <4>1
    <3> QED
      BY <3>1, <3>2 DEF MessageInv
  <2> QED
    BY <2>2, <2>3
<1>15. GatherInv'
  <2>1. CASE r = 0
    BY <1>6, <2>1 DEF GatherInv, TypeOK
  <2>2. CASE r # 0
    <3>1. Extent(0)' = Extent(0) /\ 0 \in Rank
      BY <1>6, TransportAssumption DEF Extent, Rank
    <3> QED
      BY <1>5, <1>6, <2>2, <3>1 DEF GatherInv, TypeOK
  <2> QED
    BY <2>1, <2>2
<1> QED
  BY <1>9, <1>10, <1>13, <1>14, <1>15

\* The library takes a value: when it takes them at once, none is left to take.
LEMMA TakeInv == ASSUME IInv, NEW r \in Rank, Take(r) PROVE IInv'
<1> USE DEF IInv
<1>1. UNCHANGED <<lib, pc, n, tab, buf, gathered>>
  BY DEF Take
<1>2. PICK k \in 1 .. Len(sent[r]) :
        /\ sent[r][k] = Late
        /\ \E v \in Value : sent' = [sent EXCEPT ![r][k] = v]
  BY DEF Take, TypeOK
<1>3. PICK v \in Value : sent' = [sent EXCEPT ![r][k] = v]
  BY <1>2
<1>4. /\ sent' = [sent EXCEPT ![r] = [sent[r] EXCEPT ![k] = v]]
      /\ sent[r] \in Seq(Value \cup {Late})
  BY <1>3 DEF TypeOK
<1>5. [sent[r] EXCEPT ![k] = v] \in Seq(Value \cup {Late})
  BY <1>2, <1>4
<1>6. TypeOK'
  <2>1. \A s \in Rank : Extent(s)' = Extent(s)
    BY <1>1 DEF Extent
  <2>2. sent' \in [Rank -> Seq(Value \cup {Late})]
    BY <1>4, <1>5 DEF TypeOK
  <2> QED
    BY <1>1, <2>1, <2>2 DEF TypeOK
<1>7. PcInv' /\ \A s \in Rank : Received(s)' = Received(s)
  BY <1>1 DEF PcInv, Received
<1>8. Sequential'
  BY <1>1 DEF Sequential, Has
<1>9. MessageInv'
  <2> SUFFICES ASSUME lib = "eager", NEW s \in Rank \ {Size - 1}
               PROVE  /\ Len(sent'[s]) = n[s] - Received(s + 1)'
                      /\ \A x \in 1 .. Len(sent'[s]) :
                           sent'[s][x] = Solution[Received(s + 1)' + x][xmax(s)]
    BY <1>1 DEF MessageInv
  <2>1. s + 1 \in Rank /\ xmax(s) \in 0 .. Nx
    BY Columns, TransportAssumption DEF Rank
  <2>2. ASSUME s = r PROVE FALSE
    <3>1. /\ Len(sent[s]) = n[s] - Received(s + 1) /\ Len(sent[s]) \in Nat
          /\ sent[s][k] = Solution[Received(s + 1) + k][xmax(s)]
      BY <1>2, <1>4, <2>2 DEF MessageInv
    <3>2. Received(s + 1) \in Nat /\ n[s] \in 0 .. Nt - 1
      BY <2>1 DEF Received, TypeOK
    <3>3. Received(s + 1) + k \in Row
      BY <1>2, <2>2, <3>1, <3>2, TransportAssumption, SMTT(30) DEF Row
    <3>4. sent[s][k] \in Value
      <4>1. \A y \in Row, c \in 0 .. Nx : Solution[y][c] \in Value
        BY SolutionAssumption
      <4>2. Solution[Received(s + 1) + k][xmax(s)] \in Value
        BY <2>1, <3>3, <4>1
      <4> QED
        BY <3>1, <4>2
    <3> QED
      BY <1>2, <2>2, <3>4, TransportAssumption
  <2>3. sent'[s] = sent[s]
    BY <1>4, <2>2 DEF TypeOK
  <2> QED
    BY <1>7, <2>1, <2>3 DEF MessageInv
<1>10. GatherInv'
  BY <1>1 DEF GatherInv, Extent
<1> QED
  BY <1>6, <1>7, <1>8, <1>9, <1>10

\* The columns of the next rank, over the last one of rank 0.
LEMMA GatherStepInv == ASSUME IInv, Gather PROVE IInv'
<1> USE DEF IInv, Gather
<1> DEFINE g == gathered + 1
           right == tab[g]
<1>1. /\ g \in Rank \ {0} /\ gathered \in Rank /\ g - 1 = gathered
      /\ 0 \in Rank /\ Nt \in Nat \ {0} /\ n[g] = Nt - 1
  BY TransportAssumption DEF TypeOK, PcInv, Rank
<1>2. /\ xmin(g) = xmax(gathered) /\ xmin(g) \in Nat /\ xmax(gathered) \in Nat
      /\ xmin(g) + LastColumn(g) = xmax(g) /\ LastColumn(g) \in Nat \ {0}
      /\ Column(g) = 0 .. LastColumn(g)
  BY <1>1, Columns, Indices
<1>3. /\ tab[0] \in [0 .. xmin(g) -> [Row -> Value]]
      /\ right \in [0 .. LastColumn(g) -> [Row -> Value]]
  BY <1>1, <1>2 DEF TypeOK, Extent
<1>4. Cardinality(0 .. xmin(g)) = xmin(g) + 1 /\ Cardinality(0 .. LastColumn(g)) = LastColumn(g) + 1
  <2>1. \A b \in Nat : Cardinality(0 .. b) = b + 1
    <3> SUFFICES ASSUME NEW b \in Nat PROVE Cardinality(0 .. b) = b + 1
      OBVIOUS
    <3>1. Cardinality(0 .. b) = IF 0 > b THEN 0 ELSE b - 0 + 1
      BY FS_Interval
    <3> QED
      BY <3>1
  <2> QED
    BY <1>2, <2>1
<1> HIDE DEF g, right
<1>5. Appended(tab[0], right) =
        [m \in 0 .. xmax(g) |-> IF m < xmin(g) THEN tab[0][m] ELSE right[m - xmin(g)]]
  <2>1. DOMAIN tab[0] = 0 .. xmin(g) /\ DOMAIN right = 0 .. LastColumn(g)
    BY <1>3
  <2>2. /\ Cardinality(DOMAIN tab[0]) - 1 = xmin(g)
        /\ xmin(g) + Cardinality(DOMAIN right) - 1 = xmax(g)
    <3>1. Cardinality(DOMAIN tab[0]) = xmin(g) + 1 /\ Cardinality(DOMAIN right) = LastColumn(g) + 1
      BY <1>4, <2>1
    <3> QED
      BY <1>2, <3>1
  <2> QED
    BY <2>2 DEF Appended
<1>6. /\ tab'[0] = Appended(tab[0], right) /\ DOMAIN tab' = Rank
      /\ \A s \in Rank : s # 0 => tab'[s] = tab[s]
      /\ gathered' = g /\ pc' = [pc EXCEPT ![g] = "finalize"]
      /\ UNCHANGED <<lib, n, buf, sent>>
  BY <1>1 DEF TypeOK, g, right
<1>7. pc[0] = "gather" /\ pc[g] = "send" /\ gathered \in 0 .. Size - 2
  <2>1. gathered \in 0 .. Size - 1 /\ Size \in Nat
    BY TransportAssumption DEF TypeOK
  <2>2. pc[0] = "gather" /\ gathered < Size - 1
    OBVIOUS
  <2>3. pc[g] = "send"
    BY DEF g
  <2> QED
    BY <2>1, <2>2, <2>3
<1> HIDE DEF Gather
<1>8. tab'[0] \in [0 .. xmax(g) -> [Row -> Value]]
  <2>1. \A m \in 0 .. xmax(g) : m < xmin(g) => m \in 0 .. xmin(g)
    BY <1>2
  <2>2. \A m \in 0 .. xmax(g) : ~(m < xmin(g)) => m - xmin(g) \in 0 .. LastColumn(g)
    BY <1>2
  <2> QED
    BY <1>3, <1>5, <1>6, <2>1, <2>2, ZenonT(40)
<1>9. Extent(0)' = 0 .. xmax(g) /\ \A s \in Rank : s # 0 => Extent(s)' = Extent(s)
  BY <1>6 DEF Extent
<1>10. TypeOK'
  <2>1. \A s \in Rank : tab'[s] \in [Extent(s)' -> [Row -> Value]]
    BY <1>6, <1>8, <1>9 DEF TypeOK
  <2>2. gathered' \in 0 .. Size - 1
    BY <1>1, <1>6 DEF Rank
  <2> QED
    BY <1>6, <2>1, <2>2 DEF TypeOK
<1>11. PcInv'
  <2>1. \A s \in Rank : s # g => pc'[s] = pc[s]
    BY <1>6 DEF TypeOK
  <2>2. pc'[g] = "finalize"
    BY <1>1, <1>6 DEF TypeOK
  <2>3. \A s \in Rank \ {0, g} : s <= g <=> s <= gathered
    BY <1>1, <1>7 DEF g, Rank
  <2>4. 0 # g /\ pc'[0] = "gather"
    BY <1>1, <1>7, <2>1
  <2> QED
    BY <1>1, <1>6, <1>7, <2>1, <2>2, <2>3, <2>4 DEF PcInv, Rank
<1>12. \A s \in Rank : Received(s)' = Received(s)
  BY <1>6, <1>7 DEF Received, TypeOK
<1>13. Sequential'
  <2>1. \A s \in Rank, m \in Nat, j \in Row : Has(s, m, j)' => Has(s, m, j)
    BY <1>6, <1>7 DEF Has, TypeOK, Rank
  <2>2. \A s \in Rank : Column(s) \subseteq Nat
    BY Indices
  <2>3. gathered' # 0
    BY <1>1, <1>6
  <2> QED
    BY <1>6, <2>1, <2>2, <2>3 DEF Sequential
<1>14. MessageInv'
  <2>1. \A s \in Rank \ {Size - 1} : Received(s + 1)' = Received(s + 1)
    BY <1>12, TransportAssumption DEF Rank
  <2> QED
    BY <1>6, <2>1 DEF MessageInv
<1>15. GatherInv'
  <2> SUFFICES ASSUME lib = "eager", NEW c \in 0 .. xmax(g), NEW j \in Row,
                      ~(c \in Joints /\ j = Nt - 1)
               PROVE  tab'[0][c][j] = Solution[j][c]
    BY <1>6, <1>9 DEF GatherInv
  <2>1. CASE c < xmin(g)
    <3>1. tab'[0][c][j] = tab[0][c][j]
      BY <1>5, <1>6, <2>1
    <3>2. c \in Extent(0)
      BY <1>2, <2>1 DEF Extent
    <3> QED
      BY <1>7, <3>1, <3>2 DEF GatherInv
  <2>2. CASE ~(c < xmin(g))
    <3>1. c - xmin(g) \in Column(g) /\ xmin(g) + (c - xmin(g)) = c
      BY <1>2, <2>2
    <3>2. tab'[0][c][j] = tab[g][c - xmin(g)][j]
      BY <1>5, <1>6, <2>2 DEF right
    <3>3. Has(g, c - xmin(g), j)
      <4>1. CASE c = xmin(g)
        <5>1. c \in Joints
          BY <1>1, <4>1 DEF Joints
        <5>2. j # Nt - 1
          BY <5>1
        <5> QED
          BY <1>1, <3>1, <4>1, <5>2 DEF Has, Row
      <4>2. CASE c # xmin(g)
        <5>1. c - xmin(g) > 0
          BY <1>2, <2>2, <4>2
        <5> QED
          BY <1>1, <5>1 DEF Has, Row
      <4> QED
        BY <4>1, <4>2
    <3> QED
      BY <1>1, <3>1, <3>2, <3>3 DEF Sequential
  <2> QED
    BY <2>1, <2>2
<1> QED
  BY <1>10, <1>11, <1>13, <1>14, <1>15

---------------------------------------------------------------------------
LEMMA NextInv == IInv /\ [Next]_vars => IInv'
<1> SUFFICES ASSUME IInv, [Next]_vars PROVE IInv'
  OBVIOUS
<1>1. CASE UNCHANGED vars
  BY <1>1 DEF vars, IInv, TypeOK, PcInv, Sequential, Has, MessageInv, Received, GatherInv, Extent
<1>2. ASSUME NEW r \in Rank, RankStep(r) PROVE IInv'
  BY <1>2, BeginInv, ReceiveInv, StepInv, LeaveInv DEF RankStep
<1>3. ASSUME NEW r \in Rank, Take(r) PROVE IInv'
  BY <1>3, TakeInv
<1>4. CASE Gather
  BY <1>4, GatherStepInv
<1>5. CASE Finish
  BY <1>5, FinishInv
<1> QED
  BY <1>1, <1>2, <1>3, <1>4, <1>5 DEF Next

\* Every turn of a rank, of the library and of rank 0's gathering keeps the invariant.
THEOREM Inductive == Spec => []IInv
BY InitInv, NextInv, PTL DEF Spec

\* The arrays keep the shapes that the ranks index, whatever the speed of each.
THEOREM TypeCorrect == Spec => []TypeOK
<1>1. IInv => TypeOK
  BY DEF IInv
<1> QED
  BY <1>1, Inductive, PTL

\* Every value a rank has is that of a single process: for every number of ranks
\* and columns, every scheme, and every order in which ranks run and messages come.
THEOREM SequentialHolds == Spec => []Sequential
<1>1. IInv => Sequential
  BY DEF IInv
<1> QED
  BY <1>1, Inductive, PTL

\* What rank 0 has put together is the solution, but for the last row of the columns
\* that two ranks share.
THEOREM GatheredHolds == Spec => []Gathered
<1>1. IInv => Gathered
  <2> SUFFICES ASSUME IInv, lib = "eager", pc[0] = "finalize"
               PROVE  /\ DOMAIN tab[0] = 0 .. Nx
                      /\ \A c \in 0 .. Nx, j \in Row :
                           (c \in Joints /\ j = Nt - 1) \/ tab[0][c][j] = Solution[j][c]
    BY DEF Gathered
  <2>1. 0 \in Rank /\ Size - 1 \in Rank
    BY TransportAssumption DEF Rank
  <2>2. Extent(0) = 0 .. Nx
    BY <2>1, Columns DEF IInv, PcInv, Extent
  <2>3. DOMAIN tab[0] = 0 .. Nx
    BY <2>1, <2>2 DEF IInv, TypeOK
  <2> QED
    BY <2>2, <2>3 DEF IInv, GatherInv
<1> QED
  BY <1>1, Inductive, PTL

\* The shares cover the columns, and the arrays have their sizes, whatever the number
\* of ranks and of columns is.
THEOREM SharesHold == Spec => []Shares
<1>1. IInv => Shares
  <2> SUFFICES ASSUME IInv PROVE Shares
    OBVIOUS
  <2>1. 0 \in Rank /\ Size - 1 \in Rank
    BY Division DEF Rank
  <2>2. ASSUME NEW r \in Rank, r # 0 \/ gathered = 0
        PROVE  Cardinality(DOMAIN tab[r]) - 1 \in {q, q + 1}
    <3>1. Extent(r) = Column(r)
      BY <2>1, <2>2, Columns DEF Extent, Column
    <3>2. DOMAIN tab[r] = 0 .. LastColumn(r)
      BY <3>1, Indices DEF IInv, TypeOK
    <3>3. LastColumn(r) \in Nat /\ LastColumn(r) \in {q, q + 1}
      BY Columns, Indices DEF LastColumn
    <3>4. Cardinality(0 .. LastColumn(r)) = LastColumn(r) - 0 + 1
      BY <3>3, FS_Interval
    <3> QED
      BY <3>2, <3>3, <3>4
  <2> QED
    BY <2>1, <2>2, Columns DEF Shares, q
<1> QED
  BY <1>1, Inductive, PTL
=============================================================================

---------------------------- MODULE NetProofs ----------------------------
(***************************************************************************)
(* Theorems about NetCalc, for any servers with any numbers of processors, *)
(* any of which fail at any time, and any number of pieces.                *)
(***************************************************************************)
EXTENDS NetCalc, FiniteSetTheorems, WellFoundedInduction, TLAPS

(***************************************************************************)
(* Induction on a set of naturals.                                         *)
(***************************************************************************)
LEMMA LessOnNat ==
  \E R : IsWellFoundedOn(R, Nat) /\ \A x, y \in Nat : x < y => <<x, y>> \in R
<1>1. IsWellFoundedOn(OpToRel(<, Nat), Nat)
  BY NatLessThanWellFounded, Zenon
<1>2. \A x, y \in Nat : x < y => <<x, y>> \in OpToRel(<, Nat)
  BY DEF OpToRel
<1> QED
  BY <1>1, <1>2, Zenon

LEMMA NatInSet ==
  ASSUME NEW T, 0 \in T, \A n \in Nat : n \in T => n + 1 \in T
  PROVE  \A n \in Nat : n \in T
<1>1. PICK R : IsWellFoundedOn(R, Nat) /\ \A x, y \in Nat : x < y => <<x, y>> \in R
  BY LessOnNat
<1>2. SUFFICES ASSUME Nat \ T # {} PROVE FALSE
  OBVIOUS
<1>3. PICK x \in Nat \ T : \A y \in Nat \ T : <<y, x>> \notin R
  <2>1. Nat \ T \subseteq Nat
    OBVIOUS
  <2> QED
    BY <2>1, <1>1, <1>2, WFMin
<1>4. x - 1 \in Nat /\ x - 1 < x /\ (x - 1) + 1 = x
  OBVIOUS
<1>5. x - 1 \in T
  BY <1>1, <1>3, <1>4
<1> QED
  BY <1>3, <1>4, <1>5

---------------------------------------------------------------------------
(***************************************************************************)
(* The running sum of the processors.                                      *)
(***************************************************************************)
Addend(l, closed, n) == IF n \in closed THEN 0 ELSE Cpus[l[n]]
Summing(l, closed, g, N) ==
  g = [n \in 0 .. N |-> IF n = 0 THEN 0 ELSE g[n - 1] + Addend(l, closed, n)]
SumsOf(l, closed, g) ==
  /\ g \in [0 .. Len(l) -> Nat]
  /\ g[0] = 0
  /\ \A n \in 1 .. Len(l) : g[n] = g[n - 1] + (IF n \in closed THEN 0 ELSE Cpus[l[n]])

LEMMA SumsFacts ==
  ASSUME NEW l \in Seq(Server), NEW closed
  PROVE  SumsOf(l, closed, Sums(l, closed))
<1> DEFINE L == Len(l)
           T == {N \in Nat : N <= L => \E g \in [0 .. N -> Nat] : Summing(l, closed, g, N)}
<1>1. L \in Nat /\ \A n \in 1 .. L : Addend(l, closed, n) \in Nat
  BY NetAssumption DEF Addend
<1>2. 0 \in T
  <2> DEFINE g == [n \in 0 .. 0 |-> 0]
  <2>1. g \in [0 .. 0 -> Nat] /\ Summing(l, closed, g, 0)
    BY DEF Summing
  <2> QED
    BY <2>1
<1>3. \A N \in Nat : N \in T => N + 1 \in T
  <2> SUFFICES ASSUME NEW N \in Nat, N \in T, N + 1 <= L
               PROVE  \E g \in [0 .. N + 1 -> Nat] : Summing(l, closed, g, N + 1)
    BY SMTT(30)
  <2>1. PICK f \in [0 .. N -> Nat] : Summing(l, closed, f, N)
    BY <1>1
  <2> DEFINE g == [n \in 0 .. N + 1 |-> IF n = N + 1 THEN f[N] + Addend(l, closed, N + 1) ELSE f[n]]
  <2>2. g \in [0 .. N + 1 -> Nat]
    BY <1>1, <2>1
  <2>3. \A n \in 0 .. N : f[n] = IF n = 0 THEN 0 ELSE f[n - 1] + Addend(l, closed, n)
    BY <2>1 DEF Summing
  <2>4. \A n \in 0 .. N + 1 : g[n] = IF n = 0 THEN 0 ELSE g[n - 1] + Addend(l, closed, n)
    <3> SUFFICES ASSUME NEW n \in 0 .. N + 1, n # 0
                 PROVE  g[n] = g[n - 1] + Addend(l, closed, n)
      BY <2>3
    <3>1. g[n - 1] = f[n - 1]
      OBVIOUS
    <3> QED
      BY <2>3, <3>1
  <2>5. Summing(l, closed, g, N + 1)
    BY <2>4 DEF Summing
  <2> QED
    BY <2>2, <2>5
<1>4. PICK g \in [0 .. L -> Nat] : Summing(l, closed, g, L)
  <2> HIDE DEF T
  <2>1. L \in T
    BY <1>1, <1>2, <1>3, NatInSet
  <2> QED
    BY <1>1, <2>1 DEF T
<1> DEFINE k == Sums(l, closed)
<1>5. k = CHOOSE h : h = [n \in 0 .. L |-> IF n = 0 THEN 0 ELSE h[n - 1] + (IF n \in closed THEN 0 ELSE Cpus[l[n]])]
  BY DEF Sums
<1>6. k = [n \in 0 .. L |-> IF n = 0 THEN 0 ELSE k[n - 1] + (IF n \in closed THEN 0 ELSE Cpus[l[n]])]
  <2>1. g = [n \in 0 .. L |-> IF n = 0 THEN 0 ELSE g[n - 1] + (IF n \in closed THEN 0 ELSE Cpus[l[n]])]
    BY <1>4 DEF Summing, Addend
  <2> HIDE DEF k
  <2> QED
    BY <1>5, <2>1
<1> HIDE DEF k
<1>7. \A n \in 0 .. L : k[n] = IF n = 0 THEN 0 ELSE k[n - 1] + Addend(l, closed, n)
  BY <1>6 DEF Addend
<1>8. \A n \in Nat : n \in {m \in Nat : m <= L => k[m] \in Nat}
  <2> DEFINE K == {m \in Nat : m <= L => k[m] \in Nat}
  <2>1. 0 \in K
    BY <1>1, <1>7
  <2>2. \A n \in Nat : n \in K => n + 1 \in K
    BY <1>1, <1>7
  <2> HIDE DEF K
  <2>3. \A n \in Nat : n \in K
    BY <2>1, <2>2, NatInSet
  <2> QED
    BY <2>3 DEF K
<1>9. k \in [0 .. L -> Nat]
  <2>1. \A n \in 0 .. L : k[n] \in Nat
    BY <1>1, <1>8
  <2>2. PICK f : f = [n \in 0 .. L |-> k[n]]
    OBVIOUS
  <2>3. f \in [0 .. L -> Nat]
    BY <2>1, <2>2
  <2>4. k = f
    BY <1>6, <2>2, SMTT(30)
  <2> QED
    BY <2>3, <2>4
<1>10. k[0] = 0 /\ \A n \in 1 .. L : k[n] = k[n - 1] + (IF n \in closed THEN 0 ELSE Cpus[l[n]])
  BY <1>1, <1>7 DEF Addend
<1> QED
  BY <1>9, <1>10 DEF SumsOf, k
\* A sequence of bounds that never falls.
Bounds(f, L) == L \in Nat /\ f \in [0 .. L -> Nat] /\ \A n \in 1 .. L : f[n - 1] <= f[n]

LEMMA Rising ==
  ASSUME NEW L, NEW f, Bounds(f, L), NEW a \in 0 .. L, NEW b \in 0 .. L, a <= b
  PROVE  f[a] <= f[b]
<1> DEFINE T == {d \in Nat : a + d <= L => f[a] <= f[a + d]}
<1>1. 0 \in T
  BY DEF Bounds
<1>2. \A d \in Nat : d \in T => d + 1 \in T
  <2> SUFFICES ASSUME NEW d \in Nat, d \in T, a + (d + 1) <= L
               PROVE  f[a] <= f[a + (d + 1)]
    OBVIOUS
  <2>1. a + (d + 1) \in 1 .. L /\ (a + (d + 1)) - 1 = a + d /\ a + d \in 0 .. L
    BY DEF Bounds
  <2>2. f[a] <= f[a + d] /\ f[a + d] <= f[a + (d + 1)]
    BY <2>1 DEF Bounds
  <2>3. f[a] \in Nat /\ f[a + d] \in Nat /\ f[a + (d + 1)] \in Nat
    BY <2>1 DEF Bounds
  <2> QED
    BY <2>2, <2>3
<1> HIDE DEF T
<1>3. b - a \in T
  <2>1. b - a \in Nat
    BY DEF Bounds
  <2> QED
    BY <1>1, <1>2, <2>1, NatInSet
<1>4. a + (b - a) = b /\ b <= L
  BY DEF Bounds
<1> QED
  BY <1>3, <1>4 DEF T

\* A number between the first and the last bound is in exactly one step.
InStepOf(f, n, x) == f[n - 1] <= x /\ x < f[n]
LEMMA OneStep ==
  ASSUME NEW L, NEW f, Bounds(f, L), NEW x \in Nat, f[0] <= x, x < f[L]
  PROVE  \E n \in 1 .. L : InStepOf(f, n, x) /\ \A m \in 1 .. L : InStepOf(f, m, x) => m = n
<1> DEFINE T == {d \in Nat : d <= L /\ x < f[d] => \E n \in 1 .. L : InStepOf(f, n, x)}
<1>1. 0 \in T
  BY DEF Bounds
<1>2. \A d \in Nat : d \in T => d + 1 \in T
  <2> SUFFICES ASSUME NEW d \in Nat, d \in T, d + 1 <= L, x < f[d + 1]
               PROVE  \E n \in 1 .. L : InStepOf(f, n, x)
    OBVIOUS
  <2>1. CASE x < f[d]
    BY <2>1 DEF Bounds
  <2>2. CASE ~(x < f[d])
    <3>1. d + 1 \in 1 .. L /\ (d + 1) - 1 = d /\ f[d] \in Nat /\ f[d] <= x
      BY <2>2 DEF Bounds
    <3>2. InStepOf(f, d + 1, x)
      BY <3>1 DEF InStepOf
    <3> QED
      BY <3>1, <3>2
  <2> QED
    BY <2>1, <2>2
<1> HIDE DEF T
<1>3. L \in Nat
  BY DEF Bounds
<1>4. L \in T
  BY <1>1, <1>2, <1>3, NatInSet
<1>5. PICK n \in 1 .. L : InStepOf(f, n, x)
  BY <1>3, <1>4 DEF T
<1>6. ASSUME NEW m \in 1 .. L, InStepOf(f, m, x) PROVE m = n
  <2>1. /\ m - 1 \in 0 .. L /\ n - 1 \in 0 .. L /\ m \in 0 .. L /\ n \in 0 .. L
        /\ f[m] \in Nat /\ f[n] \in Nat /\ f[m - 1] \in Nat /\ f[n - 1] \in Nat
    BY <1>3 DEF Bounds
  <2>2. ASSUME m < n PROVE FALSE
    <3>1. f[m] <= f[n - 1]
      BY <2>1, <2>2, Rising
    <3> QED
      BY <1>5, <1>6, <2>1, <3>1 DEF InStepOf
  <2>3. ASSUME n < m PROVE FALSE
    <3>1. f[n] <= f[m - 1]
      BY <2>1, <2>3, Rising
    <3> QED
      BY <1>5, <1>6, <2>1, <3>1 DEF InStepOf
  <2> QED
    BY <1>3, <2>2, <2>3
<1> QED
  BY <1>5, <1>6

LEMMA Product ==
  \A a, b, c \in Nat : /\ a * b \in Nat /\ a * (b + c) = a * b + a * c
                      /\ a # 0 /\ b # 0 => a * b # 0
                      /\ a * 0 = 0
OBVIOUS

LEMMA Quotient ==
  \A a, d \in Nat : d # 0 => /\ a \div d \in Nat
                             /\ a % d = 0 => (a \div d) * d = a
OBVIOUS

---------------------------------------------------------------------------
(***************************************************************************)
(* The parts, and what the invariant is about.                             *)
(***************************************************************************)
LEMMA ListFacts ==
  ASSUME TypeOK
  PROVE  /\ list \in Seq(Server) /\ Len(list) \in Nat /\ DOMAIN list = 1 .. Len(list)
         /\ \A n \in DOMAIN list : list[n] \in Server /\ Cpus[list[n]] \in Nat \ {0}
         /\ \A n, m \in DOMAIN list : list[n] = list[m] => n = m
<1>1. list \in Seq(Server) /\ \A n, m \in DOMAIN list : list[n] = list[m] => n = m
  BY DEF TypeOK, IsInjective
<1> QED
  BY <1>1, NetAssumption

LEMMA SumsNat ==
  ASSUME NEW l \in Seq(Server), NEW closed, NEW n \in 0 .. Len(l)
  PROVE  Sums(l, closed)[n] \in Nat
<1>1. SumsOf(l, closed, Sums(l, closed))
  BY SumsFacts
<1> DEFINE k == Sums(l, closed)
<1>2. k \in [0 .. Len(l) -> Nat]
  BY <1>1 DEF SumsOf
<1> HIDE DEF k
<1>3. k[n] \in Nat
  BY <1>2
<1> QED
  BY <1>3 DEF k

LEMMA AnswerFacts ==
  ASSUME TypeOK
  PROVE  /\ answers \in Seq(Server) /\ DOMAIN answers = 1 .. Len(answers)
         /\ \A n \in DOMAIN answers : answers[n] \in Server
         /\ \A n, m \in DOMAIN answers : answers[n] = answers[m] => n = m
<1>1. answers \in Seq(Server)
  BY DEF TypeOK
<1>2. \A n, m \in DOMAIN answers : answers[n] = answers[m] => n = m
  BY DEF TypeOK, IsInjective
<1> QED
  BY <1>1, <1>2

LEMMA OpenFacts ==
  ASSUME TypeOK
  PROVE  /\ \A n \in 1 .. Len(list) + 1 : OpenCpus(n) \in Nat
         /\ number_of_cpus \in Nat
<1>1. list \in Seq(Server) /\ Len(list) \in Nat
  BY ListFacts
<1>2. \A n \in 0 .. Len(list) : Sums(list, ToSet(bad))[n] \in Nat
  BY <1>1, SumsNat
<1>3. \A n \in 1 .. Len(list) + 1 : OpenCpus(n) \in Nat
  BY <1>1, <1>2 DEF OpenCpus
<1> QED
  BY <1>1, <1>3 DEF number_of_cpus

LEMMA FirstFacts ==
  ASSUME TypeOK, NEW n \in DOMAIN list
  PROVE  First(n) \in Parts /\ First(n).b - First(n).a = Grain * Cpus[list[n]]
<1>1. list \in Seq(Server) /\ n \in 1 .. Len(list) /\ Len(list) \in Nat /\ Cpus[list[n]] \in Nat
  BY ListFacts
<1>2. Sums(list, {})[n - 1] \in Nat
  <2>1. n - 1 \in 0 .. Len(list)
    BY <1>1
  <2> QED
    BY <1>1, <2>1, SumsNat
<1> DEFINE from == Grain * Sums(list, {})[n - 1]
           share == Grain * Cpus[list[n]]
<1>3. from \in Nat /\ share \in Nat
  BY <1>1, <1>2, Product, NetAssumption
<1>4. First(n) = [a |-> from, b |-> from + share]
  BY DEF First
<1> HIDE DEF from
<1>5. First(n) \in Parts /\ First(n).b - First(n).a = share
  BY <1>3, <1>4 DEF Parts
<1> QED
  BY <1>5

LEMMA SecondFacts ==
  ASSUME TypeOK, NEW n \in DOMAIN list, bad # <<>>
  PROVE  Second(n) \in Parts
<1>1. list \in Seq(Server) /\ n \in 1 .. Len(list) /\ Len(list) \in Nat /\ Cpus[list[n]] \in Nat
  BY ListFacts
<1>2. bad[1] \in DOMAIN list /\ dx \in Nat
  BY <1>1 DEF TypeOK
<1>3. First(bad[1]).a \in Nat
  BY <1>2, FirstFacts DEF Parts
<1>4. Sums(list, {bad[1]})[n - 1] \in Nat
  <2>1. n - 1 \in 0 .. Len(list)
    BY <1>1
  <2> QED
    BY <1>1, <2>1, SumsNat
<1> DEFINE from == First(bad[1]).a + dx * Sums(list, {bad[1]})[n - 1]
           share == dx * Cpus[list[n]]
<1>5. dx * Sums(list, {bad[1]})[n - 1] \in Nat /\ share \in Nat
  BY <1>1, <1>2, <1>4, Product
<1>6. from \in Nat
  BY <1>3, <1>5
<1>7. Second(n) = [a |-> from, b |-> from + share]
  BY DEF Second
<1> HIDE DEF from, share
<1> QED
  BY <1>5, <1>6, <1>7 DEF Parts, share

\* With one failure seen.
LEMMA OneBad ==
  ASSUME TypeOK, Len(bad) <= 1
  PROVE  /\ bad = <<>> => ToSet(bad) = {}
         /\ bad # <<>> => Len(bad) = 1 /\ bad[1] \in DOMAIN list /\ ToSet(bad) = {bad[1]}
         /\ \A n \in DOMAIN list : Closed(n) <=> bad # <<>> /\ n = bad[1]
<1>1. bad \in Seq(1 .. Len(list)) /\ DOMAIN list = 1 .. Len(list)
  BY ListFacts DEF TypeOK
<1>2. bad # <<>> => Len(bad) = 1
  BY <1>1
<1> QED
  BY <1>1, <1>2 DEF Closed, ToSet

LEMMA InitInv == Init => IInv
<1> SUFFICES ASSUME Init PROVE IInv
  OBVIOUS
<1>1. TypeOK
  BY DEF Init, TypeOK, Places, Stages, Loops, Nothing, Parts, IsInjective
<1>2. Filled
  BY DEF Init, Filled
<1>3. Known
  BY DEF Init, Known, Unheard, Dead, ToSet
<1>4. InboxInv /\ ReplyInv /\ LimitsInv /\ KilledLate
  BY DEF Init, InboxInv, ReplyInv, LimitsInv, KilledLate
<1>5. ResultInv
  BY DEF Init, ResultInv
<1> QED
  BY <1>1, <1>2, <1>3, <1>4, <1>5 DEF IInv

---------------------------------------------------------------------------
(***************************************************************************)
(* The steps of a server.                                                  *)
(***************************************************************************)
LEMMA ClientSame ==
  ASSUME UNCHANGED client
  PROVE  \A n, k : /\ Message(n, k)' = Message(n, k) /\ Answer(n, k)' = Answer(n, k)
                   /\ Said(n)' = Said(n) /\ TakenOf(n)' = TakenOf(n)
                   /\ First(n)' = First(n) /\ Second(n)' = Second(n)
                   /\ Rounds' = Rounds /\ (Over' <=> Over)
                   /\ OpenCpus(n)' = OpenCpus(n) /\ number_of_cpus' = number_of_cpus
                   /\ (Closed(n)' <=> Closed(n))
<1> USE DEF client
<1>1. \A n : First(n)' = First(n)
  BY DEF First
<1>2. \A n : Second(n)' = Second(n)
  BY DEF Second, First
<1>3. \A n, k : Message(n, k)' = Message(n, k)
  BY <1>1, <1>2 DEF Message, Limits, Need
<1>4. \A n, k : Answer(n, k)' = Answer(n, k)
  BY <1>1, <1>2 DEF Answer
<1>5. \A n : Said(n)' = Said(n)
  BY DEF Said, One, Rounds
<1>6. \A n : TakenOf(n)' = TakenOf(n)
  BY DEF TakenOf, One, Rounds
<1>7. \A n : /\ Rounds' = Rounds /\ (Over' <=> Over)
             /\ OpenCpus(n)' = OpenCpus(n) /\ number_of_cpus' = number_of_cpus
             /\ (Closed(n)' <=> Closed(n))
  BY DEF Rounds, Over, OpenCpus, number_of_cpus, Closed, ToSet
<1> QED
  BY <1>1, <1>2, <1>3, <1>4, <1>5, <1>6, <1>7

\* A step of s leaves the others as they are.
Only(s) ==
  /\ UNCHANGED client
  /\ \A u \in Server : u # s => /\ pc'[u] = pc[u] /\ task'[u] = task[u]
                                /\ inbox'[u] = inbox[u] /\ reply'[u] = reply[u]
  /\ Dead(s) => pc'[s] = "dead"

LEMMA OtherFollows ==
  ASSUME TypeOK, NEW s \in Server, Only(s), NEW n \in DOMAIN list, list[n] # s, NEW c,
         Follows(n, c)
  PROVE  Follows(n, c)'
<1>1. /\ list' = list /\ bad' = bad /\ Rounds' = Rounds
      /\ \A k : Message(n, k)' = Message(n, k)
  BY ClientSame DEF Only, client
<1>2. list[n] \in Server /\ pc'[list[n]] = pc[list[n]] /\ inbox'[list[n]] = inbox[list[n]]
  BY ListFacts DEF Only
<1> QED
  BY <1>1, <1>2 DEF Follows, Placed

LEMMA ServerFrame ==
  ASSUME IInv, NEW s \in Server, Only(s),
         Len(bad) <= 1 => \A n \in DOMAIN list : list[n] = s => InboxOf(n)',
         Len(bad) <= 1 /\ ~Over => \A n \in DOMAIN list : list[n] = s => ReplyOf(n)'
  PROVE  Filled' /\ InboxInv' /\ ReplyInv' /\ LimitsInv' /\ ResultInv' /\ KilledLate'
<1>1. TypeOK /\ UNCHANGED client
  BY DEF IInv, Only
<1>2. \A n \in DOMAIN list : list[n] \in Server
  BY <1>1, ListFacts
<1>3. Filled'
  BY <1>1 DEF IInv, Filled, client
<1>4. \A n \in DOMAIN list : Dead(list[n]) => Dead(list[n])'
  BY <1>1, <1>2 DEF Only, client, Dead
<1>5. \A n \in DOMAIN list : list[n] # s => (Dead(list[n])' <=> Dead(list[n]))
  BY <1>1, <1>2 DEF Only, client, Dead
<1>6. InboxInv'
  <2> SUFFICES ASSUME Len(bad) <= 1, NEW n \in DOMAIN list PROVE InboxOf(n)'
    BY <1>1 DEF InboxInv, client
  <2>1. CASE list[n] = s
    BY <2>1
  <2>2. CASE list[n] # s
    <3>1. InboxOf(n)
      BY DEF IInv, InboxInv
    <3>2. \A c : Follows(n, c) => Follows(n, c)'
      BY <1>1, <2>2, OtherFollows
    <3>3. Said(n)' = Said(n) /\ (Over' <=> Over) /\ list' = list
      BY <1>1, ClientSame DEF client
    <3>4. pc'[list[n]] = pc[list[n]]
      BY <1>2, <2>2 DEF Only
    <3>5. Follows(n, Said(n)) => Follows(n, Said(n))'
      BY <3>2, <3>3 DEF Follows
    <3> QED
      BY <1>5, <2>2, <3>1, <3>2, <3>3, <3>4, <3>5 DEF InboxOf
  <2> QED
    BY <2>1, <2>2
<1>7. ReplyInv'
  <2> SUFFICES ASSUME Len(bad) <= 1, ~Over, NEW n \in DOMAIN list PROVE ReplyOf(n)'
    BY <1>1, ClientSame DEF ReplyInv, client
  <2>1. CASE list[n] = s
    BY <2>1
  <2>2. CASE list[n] # s
    <3>1. ReplyOf(n)
      BY DEF IInv, ReplyInv
    <3>2. /\ Said(n)' = Said(n) /\ TakenOf(n)' = TakenOf(n) /\ list' = list /\ Rounds' = Rounds
          /\ First(n)' = First(n) /\ \A k : Answer(n, k)' = Answer(n, k)
      BY <1>1, ClientSame DEF client
    <3>3. /\ pc'[list[n]] = pc[list[n]] /\ task'[list[n]] = task[list[n]]
          /\ inbox'[list[n]] = inbox[list[n]] /\ reply'[list[n]] = reply[list[n]]
      BY <1>2, <2>2 DEF Only
    <3>4. AnswersOf(n)' = AnswersOf(n)
      BY <3>2, <3>3 DEF AnswersOf
    <3> QED
      BY <1>5, <2>2, <3>1, <3>2, <3>3, <3>4 DEF ReplyOf
  <2> QED
    BY <2>1, <2>2
<1>8. LimitsInv'
  BY <1>1, ClientSame DEF IInv, LimitsInv, client
<1>9. ResultInv'
  <2>1. /\ Alive' = Alive /\ Before' = Before /\ \A q : Skip(q)' = Skip(q)
        /\ \A n : First(n)' = First(n) /\ Second(n)' = Second(n)
    BY <1>1, ClientSame DEF Alive, Before, Skip, client
  <2>2. (\A n \in DOMAIN list : ~Late(n))' => \A n \in DOMAIN list : ~Late(n)
    BY <1>1, <1>4, ClientSame DEF Late, client
  <2> QED
    BY <1>1, <2>1, <2>2, ClientSame DEF IInv, ResultInv, client
<1>10. KilledLate'
  BY <1>1, <1>4, ClientSame DEF IInv, KilledLate, Late, client
<1> QED
  BY <1>3, <1>6, <1>7, <1>8, <1>9, <1>10

\* A server that is not in the list.
LEMMA OutsideFrame ==
  ASSUME IInv, NEW s \in Server, Only(s), s \notin ToSet(list)
  PROVE  Filled' /\ InboxInv' /\ ReplyInv' /\ LimitsInv' /\ ResultInv' /\ KilledLate'
<1>1. \A n \in DOMAIN list : list[n] # s
  BY DEF ToSet
<1> QED
  BY <1>1, ServerFrame

LEMMA NotListed ==
  ASSUME IInv, NEW s \in Server, pc[s] = "idle"
  PROVE  s \notin ToSet(list) /\ s \notin ToSet(answers)
<1>1. list = <<>> \/ list = answers
  BY DEF IInv, TypeOK
<1>2. \A n \in DOMAIN answers : answers[n] # s
  BY DEF IInv, Known
<1> QED
  BY <1>1, <1>2 DEF ToSet

LEMMA HearInv == ASSUME IInv, NEW s \in Server, Hear(s) PROVE IInv'
<1>1. /\ pc[s] = "idle" /\ pc' = [pc EXCEPT ![s] = "answered"]
      /\ UNCHANGED <<task, wires, at, list, i, limits, got, bad, j, dx, result>>
      /\ s \notin ToSet(list) /\ s \notin ToSet(answers)
  BY NotListed DEF Hear
<1>2. /\ TypeOK /\ pc' \in [Server -> Places] /\ pc'[s] = "answered" /\ pc \in [Server -> Places]
      /\ \A u \in Server : u # s => pc'[u] = pc[u]
  BY <1>1 DEF IInv, TypeOK, Places
<1>3. CASE UNCHANGED answers
  <2>1. Only(s)
    BY <1>1, <1>2, <1>3 DEF Only, client, wires, Dead
  <2>2. TypeOK'
    BY <1>1, <1>2, <1>3 DEF TypeOK, wires
  <2>3. Known'
    <3>1. \A n \in DOMAIN answers : pc'[answers[n]] # "idle"
      BY <1>2, AnswerFacts DEF IInv, Known
    <3>2. \A n \in DOMAIN list : list[n] # s
      BY <1>1 DEF ToSet
    <3>3. \A n \in DOMAIN list : list[n] \in Server /\ pc'[list[n]] = pc[list[n]]
      BY <1>2, <3>2, ListFacts
    <3>4. \A n \in DOMAIN bad : bad[n] \in DOMAIN list
      BY <1>2, ListFacts DEF TypeOK
    <3>5. ToSet(list)' = ToSet(list)
      BY <1>1 DEF ToSet
    <3> QED
      BY <1>1, <1>2, <1>3, <3>1, <3>3, <3>4, <3>5 DEF IInv, Known, Unheard, Dead, wires
  <2>4. Filled' /\ InboxInv' /\ ReplyInv' /\ LimitsInv' /\ ResultInv' /\ KilledLate'
    BY <1>1, <2>1, OutsideFrame
  <2> QED
    BY <2>2, <2>3, <2>4 DEF IInv
<1>4. CASE at = "sleep" /\ answers' = Append(answers, s)
  <2>1. list = <<>> /\ bad = <<>> /\ result = <<>> /\ limits = <<>> /\ got = <<>>
    BY <1>4 DEF IInv, Filled
  <2>2. answers' \in Seq(Server) /\ IsInjective(answers')
    <3>1. /\ answers \in Seq(Server) /\ \A a, b \in 1 .. Len(answers) : answers[a] = answers[b] => a = b
          /\ \A a \in 1 .. Len(answers) : answers[a] # s
      BY <1>1, <1>2, AnswerFacts DEF ToSet
    <3>2. /\ answers' \in Seq(Server) /\ DOMAIN answers' = 1 .. Len(answers) + 1
          /\ \A a \in 1 .. Len(answers) : answers'[a] = answers[a]
          /\ answers'[Len(answers) + 1] = s
      BY <1>4, <3>1
    <3> QED
      BY <3>1, <3>2 DEF IsInjective
  <2>3. TypeOK'
    BY <1>1, <1>2, <2>1, <2>2 DEF TypeOK, wires
  <2>4. Filled'
    BY <1>1, <2>1, <1>4 DEF IInv, Filled
  <2>5. Known'
    <3>1. \A n \in DOMAIN answers' : pc'[answers'[n]] # "idle"
      <4>1. answers \in Seq(Server) /\ \A n \in 1 .. Len(answers) : pc[answers[n]] # "idle"
        BY <1>2, AnswerFacts DEF IInv, Known
      <4> QED
        BY <4>1, <1>2, <1>4
    <3>2. list' = <<>> /\ bad' = <<>> /\ ToSet(list) = {} /\ ToSet(list') = {}
      BY <1>1, <2>1 DEF ToSet
    <3> QED
      BY <1>1, <1>2, <2>1, <3>1, <3>2 DEF IInv, Known, Unheard, Dead, wires
  <2>6. InboxInv' /\ ReplyInv' /\ LimitsInv' /\ ResultInv' /\ KilledLate'
    BY <1>1, <1>4, <2>1 DEF InboxInv, ReplyInv, LimitsInv, ResultInv, KilledLate, IInv
  <2> QED
    BY <2>3, <2>4, <2>5, <2>6 DEF IInv
<1> QED
  BY <1>3, <1>4 DEF Hear

\* What the invariant says of the server n of the list.
LEMMA AtServer ==
  ASSUME IInv, NEW n \in DOMAIN list, Len(bad) <= 1
  PROVE  InboxOf(n) /\ (~Over => ReplyOf(n))
BY DEF IInv, InboxInv, ReplyInv

LEMMA ListenInv == ASSUME IInv, NEW s \in Server, Listen(s) PROVE IInv'
<1>1. /\ pc[s] = "answered" /\ pc' = [pc EXCEPT ![s] = "accept"]
      /\ UNCHANGED <<task, wires, client>>
  BY DEF Listen
<1>2. /\ TypeOK /\ pc' \in [Server -> Places] /\ pc'[s] = "accept" /\ pc \in [Server -> Places]
      /\ \A u \in Server : u # s => pc'[u] = pc[u]
  BY <1>1 DEF IInv, TypeOK, Places
<1>3. Only(s)
  BY <1>1, <1>2 DEF Only, wires, Dead
<1>4. TypeOK'
  BY <1>1, <1>2 DEF TypeOK, wires, client
<1>5. Known'
  <2>1. \A n \in DOMAIN answers : answers[n] \in Server /\ pc'[answers[n]] # "idle"
    BY <1>2, AnswerFacts DEF IInv, Known
  <2>2. \A n \in DOMAIN list : list[n] \in Server
    BY <1>2, ListFacts
  <2>3. \A n \in DOMAIN bad : bad[n] \in DOMAIN list
    BY <1>2, ListFacts DEF TypeOK
  <2>4. ToSet(list)' = ToSet(list)
    BY <1>1 DEF ToSet, client
  <2> QED
    BY <1>1, <1>2, <2>1, <2>2, <2>3, <2>4 DEF IInv, Known, Unheard, Dead, wires, client
<1>6. ASSUME Len(bad) <= 1, NEW n \in DOMAIN list, list[n] = s
      PROVE  InboxOf(n)' /\ (~Over => ReplyOf(n)')
  <2>1. InboxOf(n) /\ (~Over => ReplyOf(n))
    BY <1>6, AtServer
  <2>2. \A c : Follows(n, c) => Follows(n, c)'
    BY <1>1, <1>2, <1>6, ClientSame DEF Follows, Placed, client, wires
  <2>3. Said(n)' = Said(n) /\ (Over' <=> Over) /\ list' = list
    BY <1>1, ClientSame DEF client
  <2>4. Follows(n, Said(n)) => Follows(n, Said(n))'
    BY <2>2, <2>3 DEF Follows
  <2>5. InboxOf(n)'
    BY <1>1, <1>2, <1>6, <2>1, <2>2, <2>3, <2>4 DEF InboxOf, Dead
  <2>6. AnswersOf(n)' = AnswersOf(n)
    BY <1>1, <1>2, <1>6, <2>3 DEF AnswersOf, client
  <2>7. ~Over => ReplyOf(n)'
    BY <1>1, <1>2, <1>6, <2>1, <2>3, <2>6, ClientSame DEF ReplyOf, Dead, wires
  <2> QED
    BY <2>5, <2>7
<1>7. Filled' /\ InboxInv' /\ ReplyInv' /\ LimitsInv' /\ ResultInv' /\ KilledLate'
  BY <1>3, <1>6, ServerFrame
<1> QED
  BY <1>4, <1>5, <1>7 DEF IInv

LEMMA KnownFrame ==
  ASSUME IInv, NEW s \in Server, Only(s), pc'[s] \notin {"idle", "answered", "accept"},
         s \notin ToSet(list) => pc'[s] \in Unheard /\ inbox'[s] = <<>> /\ reply'[s] = <<>>,
         pc'[s] = "dead" => inbox'[s] = <<>>
  PROVE  Known'
<1>1. UNCHANGED client /\ TypeOK
  BY DEF Only, IInv
<1>2. \A n \in DOMAIN answers : answers[n] \in Server /\ pc'[answers[n]] # "idle"
  BY <1>1, AnswerFacts DEF IInv, Known, Only
<1>3. \A n \in DOMAIN list : list[n] \in Server
  BY <1>1, ListFacts
<1>4. \A n \in DOMAIN bad : bad[n] \in DOMAIN list
  BY <1>1, ListFacts DEF TypeOK
<1>5. ToSet(list)' = ToSet(list)
  BY <1>1 DEF ToSet, client
<1> QED
  BY <1>1, <1>2, <1>3, <1>4, <1>5 DEF IInv, Known, Only, Dead, client

\* A server that has come to "limits" or beyond is in the list.
LEMMA Listed ==
  ASSUME IInv, NEW s \in Server, pc[s] \notin Unheard
  PROVE  s \in ToSet(list)
BY DEF IInv, Known

LEMMA ReadInbox ==
  ASSUME TypeOK, NEW s \in Server, inbox[s] # <<>>, inbox' = [inbox EXCEPT ![s] = Tail(inbox[s])]
  PROVE  /\ inbox' \in [Server -> Seq(Messages)] /\ Head(inbox[s]) = inbox[s][1]
         /\ Head(inbox[s]) \in Messages
         /\ Len(inbox[s]) \in Nat \ {0} /\ Len(inbox'[s]) = Len(inbox[s]) - 1
         /\ DOMAIN inbox[s] = 1 .. Len(inbox[s]) /\ DOMAIN inbox'[s] \subseteq Nat
         /\ \A k \in DOMAIN inbox'[s] : inbox'[s][k] = inbox[s][k + 1] /\ k + 1 \in DOMAIN inbox[s]
<1>1. inbox \in [Server -> Seq(Messages)] /\ inbox[s] \in Seq(Messages)
  BY DEF TypeOK
<1>2. Tail(inbox[s]) \in Seq(Messages) /\ inbox'[s] = Tail(inbox[s])
  BY <1>1
<1>3. inbox' \in [Server -> Seq(Messages)]
  BY <1>1, <1>2
<1>4. /\ Head(inbox[s]) = inbox[s][1] /\ Head(inbox[s]) \in Messages
      /\ Len(inbox[s]) \in Nat \ {0} /\ Len(Tail(inbox[s])) = Len(inbox[s]) - 1
      /\ DOMAIN inbox[s] = 1 .. Len(inbox[s])
      /\ DOMAIN Tail(inbox[s]) = 1 .. Len(inbox[s]) - 1
      /\ \A k \in 1 .. Len(inbox[s]) - 1 : Tail(inbox[s])[k] = inbox[s][k + 1] /\ k + 1 \in DOMAIN inbox[s]
  BY <1>1
<1> QED
  BY <1>1, <1>2, <1>3, <1>4

LEMMA ReadFollows ==
  ASSUME TypeOK, UNCHANGED client, NEW s \in Server, NEW n \in DOMAIN list, list[n] = s, NEW c,
         Follows(n, c), inbox[s] # <<>>, inbox' = [inbox EXCEPT ![s] = Tail(inbox[s])],
         NEW r, r = c - Len(inbox[s]), Placed(n, r + 1)'
  PROVE  Follows(n, c)'
<1>1. /\ list' = list /\ bad' = bad /\ Rounds' = Rounds /\ \A k : Message(n, k)' = Message(n, k)
  BY ClientSame DEF client
<1>2. /\ Len(inbox[s]) \in Nat \ {0} /\ Len(inbox'[s]) = Len(inbox[s]) - 1
      /\ \A k \in DOMAIN inbox'[s] : /\ inbox'[s][k] = inbox[s][k + 1] /\ k + 1 \in DOMAIN inbox[s]
                                   /\ k \in Nat
  BY ReadInbox
<1>3. c \in 0 .. 2 + Rounds /\ Rounds \in {1, 2} /\ r \in Nat /\ c - Len(inbox'[s]) = r + 1
  <2>1. c \in 0 .. 2 + Rounds /\ r >= 0
    BY DEF Follows
  <2>2. Rounds \in {1, 2}
    BY DEF Rounds
  <2>3. c \in Int
    BY <2>1, <2>2
  <2>4. r \in Nat
    BY <2>1, <2>3, <1>2
  <2>5. c - Len(inbox'[s]) = r + 1
    <3>1. Len(inbox[s]) \in Nat /\ Len(inbox'[s]) = Len(inbox[s]) - 1 /\ r = c - Len(inbox[s])
      BY <1>2
    <3> QED
      BY ONLY <2>3, <3>1
  <2> QED
    BY <2>1, <2>2, <2>4, <2>5
<1>4. \A k \in DOMAIN inbox[s] : inbox[s][k] = Message(n, r + k)
  BY DEF Follows
<1>5. \A k \in DOMAIN inbox'[s] : inbox'[s][k] = Message(n, (r + 1) + k)
  <2> SUFFICES ASSUME NEW k \in DOMAIN inbox'[s] PROVE inbox'[s][k] = Message(n, (r + 1) + k)
    OBVIOUS
  <2>1. k \in Nat /\ r \in Nat
    BY <1>2, <1>3
  <2>2. r + (k + 1) = (r + 1) + k
    BY ONLY <2>1
  <2> QED
    BY <1>2, <1>4, <2>2
<1>6. list'[n] = s /\ c - Len(inbox'[s]) = r + 1
  BY <1>1, <1>3
<1>7. (\A k \in DOMAIN inbox[list[n]] : inbox[list[n]][k] = Message(n, (c - Len(inbox[list[n]])) + k))'
  BY <1>1, <1>5, <1>6
<1>8. (c \in 0 .. 2 + Rounds)'
  BY <1>1, <1>3
<1>9. (c - Len(inbox[list[n]]) >= 0)'
  <2>1. r + 1 >= 0
    BY <1>3
  <2> QED
    BY <1>6, <2>1
<1>10. Placed(n, c - Len(inbox[list[n]]))'
  BY <1>6 DEF Placed
<1> QED
  BY <1>7, <1>8, <1>9, <1>10 DEF Follows

\* A server that reads after the end of the client.
LEMMA Astray ==
  ASSUME IInv, NEW n \in DOMAIN list, Len(bad) <= 1, pc[list[n]] \in {"limits", "need"},
         inbox[list[n]] = <<>>, ClientGone
  PROVE  Over
<1>1. CASE at = "done"
  <2>1. Follows(n, Said(n))
    BY <1>1, AtServer DEF InboxOf, Dead, Over
  <2>2. Said(n) = 2 + Rounds /\ Rounds \in {1, 2} /\ (Rounds = 2 <=> bad # <<>>)
    BY <1>1 DEF Said, Rounds
  <2> QED
    BY <2>1, <2>2 DEF Follows, Placed
<1>2. CASE at # "done"
  BY <1>2 DEF ClientGone, Over
<1> QED
  BY <1>1, <1>2

LEMMA ReceiveLimitsInv == ASSUME IInv, NEW s \in Server, ReceiveLimits(s) PROVE IInv'
<1>1. /\ pc[s] = "limits" /\ UNCHANGED <<reply, reset, client>>
      /\ inbox[s] # <<>> \/ ClientGone
  BY DEF ReceiveLimits, Receive
<1>2. s \in ToSet(list) /\ TypeOK
  BY <1>1, Listed DEF Unheard, IInv
<1>3. PICK n \in DOMAIN list : list[n] = s
  BY <1>2 DEF ToSet
<1>4. CASE inbox[s] = <<>> \/ Head(inbox[s]).kind # "limits"
  <2>1. /\ pc' = [pc EXCEPT ![s] = "astray"] /\ pc'[s] = "astray" /\ task' = task
        /\ inbox' = [inbox EXCEPT ![s] = IF inbox[s] = <<>> THEN inbox[s] ELSE Tail(inbox[s])]
    BY <1>2, <1>4 DEF ReceiveLimits, Receive, TypeOK
  <2>2. inbox' \in [Server -> Seq(Messages)]
    BY <1>2, <2>1, ReadInbox DEF TypeOK
  <2>3. TypeOK'
    BY <1>1, <1>2, <2>1, <2>2 DEF TypeOK, Places, client
  <2>4. Only(s)
    BY <1>1, <1>2, <2>1 DEF Only, TypeOK, Dead
  <2>5. Known'
    BY <1>2, <2>1, <2>4, KnownFrame
  <2>6. ASSUME Len(bad) <= 1 PROVE Over
    <3>1. CASE inbox[s] = <<>>
      BY <1>1, <1>3, <2>6, <3>1, Astray
    <3>2. CASE inbox[s] # <<>>
      <4>1. ~Over => Follows(n, Said(n))
        BY <1>1, <1>3, <2>6, AtServer DEF InboxOf, Dead
      <4>2. ASSUME NEW c, Follows(n, c) PROVE Head(inbox[s]).kind = "limits"
        <5>1. 1 \in DOMAIN inbox[s] /\ Head(inbox[s]) = inbox[s][1]
          BY <1>2, <3>2 DEF TypeOK
        <5>2. PICK r : (r = 0 \/ (r = 2 /\ bad # <<>>)) /\ inbox[s][1] = Message(n, r + 1)
          BY <1>1, <1>3, <4>2, <5>1 DEF Follows, Placed
        <5>3. Message(n, r + 1) \in {Limits(First(n)), Limits(Second(n))}
          BY <5>2 DEF Message
        <5> QED
          BY <5>1, <5>2, <5>3 DEF Limits
      <4> QED
        BY <1>4, <3>2, <4>1, <4>2
    <3> QED
      BY <3>1, <3>2
  <2>7. ASSUME Len(bad) <= 1, NEW m \in DOMAIN list, list[m] = s PROVE InboxOf(m)'
    BY <1>1, <2>1, <2>6, <2>7, ClientSame DEF InboxOf, client
  <2>8. Filled' /\ InboxInv' /\ ReplyInv' /\ LimitsInv' /\ ResultInv' /\ KilledLate'
    BY <2>4, <2>6, <2>7, ServerFrame
  <2> QED
    BY <2>3, <2>5, <2>8 DEF IInv
<1>5. CASE inbox[s] # <<>> /\ Head(inbox[s]).kind = "limits"
  <2>1. /\ pc' = [pc EXCEPT ![s] = "calculate"] /\ pc'[s] = "calculate"
        /\ task' = [task EXCEPT ![s] = Head(inbox[s]).part]
        /\ inbox' = [inbox EXCEPT ![s] = Tail(inbox[s])]
    BY <1>2, <1>5 DEF ReceiveLimits, Receive, TypeOK
  <2>2. /\ inbox' \in [Server -> Seq(Messages)] /\ Head(inbox[s]) = inbox[s][1]
        /\ Head(inbox[s]) \in Messages
        /\ Len(inbox[s]) \in Nat \ {0} /\ Len(inbox'[s]) = Len(inbox[s]) - 1
        /\ DOMAIN inbox[s] = 1 .. Len(inbox[s])
        /\ \A k \in DOMAIN inbox'[s] : inbox'[s][k] = inbox[s][k + 1] /\ k + 1 \in DOMAIN inbox[s]
    BY <1>2, <1>5, <2>1, ReadInbox
  <2>3. /\ task' \in [Server -> Parts] /\ pc' \in [Server -> Places]
        /\ task'[s] = inbox[s][1].part
    BY <1>2, <2>1, <2>2 DEF TypeOK, Messages, Places
  <2>4. TypeOK'
    BY <1>1, <1>2, <2>2, <2>3 DEF TypeOK, client
  <2>5. Only(s)
    BY <1>1, <1>2, <2>1 DEF Only, TypeOK, Dead
  <2>6. Known'
    BY <1>2, <2>1, <2>5, KnownFrame
  <2>7. ASSUME NEW m \in DOMAIN list, list[m] = s, NEW c, Follows(m, c) PROVE Follows(m, c)'
    <3> PICK r : r = c - Len(inbox[s])
      OBVIOUS
    <3>1. r = 0 \/ (r = 2 /\ bad # <<>>)
      BY <1>1, <2>7 DEF Follows, Placed
    <3>2. bad' = bad /\ list' = list
      BY <1>1 DEF client
    <3>3. Placed(m, r + 1)'
      BY <2>1, <2>7, <3>1, <3>2 DEF Placed
    <3> QED
      BY <1>1, <1>2, <1>5, <2>1, <2>7, <3>3, ReadFollows
  <2>8. ASSUME Len(bad) <= 1, NEW m \in DOMAIN list, list[m] = s
        PROVE  InboxOf(m)' /\ (~Over => ReplyOf(m)')
    <3>1. /\ Said(m)' = Said(m) /\ (Over' <=> Over) /\ list' = list /\ TakenOf(m)' = TakenOf(m)
          /\ First(m)' = First(m) /\ Second(m)' = Second(m) /\ Rounds' = Rounds /\ bad' = bad
          /\ \A k : Answer(m, k)' = Answer(m, k)
      BY <1>1, ClientSame DEF client
    <3>2. InboxOf(m) /\ (~Over => ReplyOf(m)) /\ ~Dead(list[m])
      BY <1>1, <2>8, AtServer DEF Dead
    <3>3. Follows(m, Said(m)) => Follows(m, Said(m))'
      BY <2>7, <2>8, <3>1 DEF Follows
    <3>4. InboxOf(m)'
      BY <1>1, <2>1, <2>7, <2>8, <3>1, <3>2, <3>3 DEF InboxOf, Dead
    <3>5. ASSUME ~Over PROVE ReplyOf(m)'
      <4>1. Follows(m, Said(m)) /\ Follows(m, Said(m))'
        BY <3>2, <3>3, <3>5 DEF InboxOf
      <4> DEFINE r == Said(m) - Len(inbox[s])
      <4>2. (r = 0 \/ (r = 2 /\ bad # <<>>)) /\ inbox[s][1] = Message(m, r + 1)
        BY <1>1, <2>2, <2>8, <4>1 DEF Follows, Placed
      <4>3. (Said(m) - Len(inbox[s]))' = r + 1
        BY <2>2, <3>1, <4>1 DEF Follows, Rounds
      <4>4. AnswersOf(m)' = AnswersOf(m) /\ AnswersOf(m) = IF r = 0 THEN 0 ELSE 1
        BY <1>1, <2>1, <2>8, <3>1, <4>2, <4>3 DEF AnswersOf
      <4>5. task'[s] = Answer(m, AnswersOf(m) + 1)
        BY <2>3, <4>2, <4>4 DEF Answer, Message, Limits
      <4> HIDE DEF r
      <4> QED
        BY <1>1, <2>1, <2>8, <3>1, <3>2, <3>5, <4>4, <4>5 DEF ReplyOf, Dead
    <3> QED
      BY <3>4, <3>5
  <2>9. Filled' /\ InboxInv' /\ ReplyInv' /\ LimitsInv' /\ ResultInv' /\ KilledLate'
    BY <2>5, <2>8, ServerFrame
  <2> QED
    BY <2>4, <2>6, <2>9 DEF IInv
<1> QED
  BY <1>4, <1>5

LEMMA StayFollows ==
  ASSUME TypeOK, UNCHANGED client, NEW n \in DOMAIN list, NEW c, Follows(n, c),
         inbox'[list[n]] = inbox[list[n]],
         NEW r, r = c - Len(inbox[list[n]]), Placed(n, r)'
  PROVE  Follows(n, c)'
<1>1. /\ list' = list /\ bad' = bad /\ Rounds' = Rounds /\ \A k : Message(n, k)' = Message(n, k)
  BY ClientSame DEF client
<1>2. Placed(n, c - Len(inbox[list[n]]))'
  BY <1>1 DEF Placed
<1> QED
  BY <1>1, <1>2 DEF Follows

LEMMA CalculateInv == ASSUME IInv, NEW s \in Server, Calculate(s) PROVE IInv'
<1>1. /\ pc[s] = "calculate" /\ UNCHANGED <<task, inbox, reset, client>>
      /\ pc' = [pc EXCEPT ![s] = "need"] /\ reply' = [reply EXCEPT ![s] = Append(reply[s], <<task[s]>>)]
  BY DEF Calculate
<1>2. s \in ToSet(list) /\ TypeOK
  BY <1>1, Listed DEF Unheard, IInv
<1>3. /\ pc' \in [Server -> Places] /\ pc'[s] = "need"
      /\ reply[s] \in Seq(Seq(Parts)) /\ <<task[s]>> \in Seq(Parts)
      /\ reply' \in [Server -> Seq(Seq(Parts))] /\ reply'[s] = Append(reply[s], <<task[s]>>)
  <2>1. pc \in [Server -> Places] /\ reply \in [Server -> Seq(Seq(Parts))] /\ task[s] \in Parts
    BY <1>2 DEF TypeOK
  <2>2. pc' \in [Server -> Places] /\ pc'[s] = "need"
    BY <1>1, <2>1 DEF Places
  <2>3. reply[s] \in Seq(Seq(Parts)) /\ <<task[s]>> \in Seq(Parts)
    BY <2>1
  <2>4. Append(reply[s], <<task[s]>>) \in Seq(Seq(Parts))
    BY <2>3
  <2> QED
    BY <1>1, <2>1, <2>2, <2>3, <2>4
<1>4. TypeOK'
  BY <1>1, <1>2, <1>3 DEF TypeOK, client
<1>5. Only(s)
  BY <1>1, <1>2 DEF Only, TypeOK, Dead
<1>6. Known'
  BY <1>2, <1>3, <1>5, KnownFrame
<1>7. ASSUME Len(bad) <= 1, NEW n \in DOMAIN list, list[n] = s
      PROVE  InboxOf(n)' /\ (~Over => ReplyOf(n)')
  <2>1. /\ Said(n)' = Said(n) /\ (Over' <=> Over) /\ list' = list /\ TakenOf(n)' = TakenOf(n)
        /\ Rounds' = Rounds /\ bad' = bad /\ \A k : Answer(n, k)' = Answer(n, k)
    BY <1>1, ClientSame DEF client
  <2>2. InboxOf(n) /\ (~Over => ReplyOf(n)) /\ ~Dead(list[n])
    BY <1>1, <1>7, AtServer DEF Dead
  <2>3. ASSUME NEW c, Follows(n, c) PROVE Follows(n, c)'
    <3>1. PICK r : r = c - Len(inbox[s])
      OBVIOUS
    <3>2. r = 1 \/ (r = 3 /\ bad # <<>>)
      BY <1>1, <1>7, <2>3, <3>1 DEF Follows, Placed
    <3>3. Placed(n, r)'
      BY <1>3, <1>7, <2>1, <3>2 DEF Placed
    <3> QED
      BY <1>1, <1>2, <1>7, <2>3, <3>1, <3>3, StayFollows
  <2>4. Follows(n, Said(n)) => Follows(n, Said(n))'
    BY <2>1, <2>3 DEF Follows
  <2>5. InboxOf(n)'
    BY <1>1, <1>3, <1>7, <2>1, <2>2, <2>3, <2>4 DEF InboxOf, Dead
  <2>6. ASSUME ~Over PROVE ReplyOf(n)'
    <3> DEFINE w == AnswersOf(n)
               t == TakenOf(n)
    <3>1. Follows(n, Said(n))
      BY <2>2, <2>6 DEF InboxOf
    <3>2. /\ Len(reply[s]) = w - t /\ \A k \in DOMAIN reply[s] : reply[s][k] = <<Answer(n, t + k)>>
          /\ task[s] = Answer(n, w + 1)
      BY <1>1, <1>7, <2>2, <2>6 DEF ReplyOf
    <3>3. (Said(n) - Len(inbox[s]) = 1 \/ Said(n) - Len(inbox[s]) = 3)
      BY <1>1, <1>7, <3>1 DEF Follows, Placed
    <3>4. w \in {0, 1} /\ AnswersOf(n)' = w + 1
      BY <1>1, <1>3, <1>7, <2>1, <3>3 DEF AnswersOf
    <3>5. t \in 0 .. 2
      BY DEF TakenOf, One, Rounds
    <3> HIDE DEF w, t
    <3>6. /\ Len(reply'[s]) = Len(reply[s]) + 1 /\ Len(reply[s]) \in Nat
          /\ DOMAIN reply'[s] = 1 .. Len(reply[s]) + 1 /\ DOMAIN reply[s] = 1 .. Len(reply[s])
          /\ \A k \in 1 .. Len(reply[s]) : reply'[s][k] = reply[s][k]
          /\ reply'[s][Len(reply[s]) + 1] = <<task[s]>>
      BY <1>3
    <3>7. Len(reply'[s]) = (w + 1) - t /\ t + (Len(reply[s]) + 1) = w + 1
      BY ONLY <3>2, <3>4, <3>5, <3>6
    <3>8. \A k \in DOMAIN reply'[s] : reply'[s][k] = <<Answer(n, t + k)>>
      <4> SUFFICES ASSUME NEW k \in DOMAIN reply'[s] PROVE reply'[s][k] = <<Answer(n, t + k)>>
        OBVIOUS
      <4>1. CASE k = Len(reply[s]) + 1
        BY <3>2, <3>6, <3>7, <4>1
      <4>2. CASE k # Len(reply[s]) + 1
        <5>1. k \in DOMAIN reply[s]
          BY <3>6, <4>2
        <5> QED
          BY <3>2, <3>6, <5>1
      <4> QED
        BY <4>1, <4>2
    <3>9. \A k \in DOMAIN reply'[s] : (<<Answer(n, t + k)>> = <<Answer(n, TakenOf(n) + k)>>)'
      BY <2>1 DEF t
    <3> QED
      BY <1>3, <1>7, <2>1, <3>4, <3>7, <3>8 DEF ReplyOf, Dead, t
  <2> QED
    BY <2>5, <2>6
<1>8. Filled' /\ InboxInv' /\ ReplyInv' /\ LimitsInv' /\ ResultInv' /\ KilledLate'
  BY <1>5, <1>7, ServerFrame
<1> QED
  BY <1>4, <1>6, <1>8 DEF IInv

LEMMA FailInv == ASSUME IInv, NEW s \in Server, Fail(s) PROVE IInv'
<1>1. /\ pc[s] \in MayFail /\ UNCHANGED <<task, reply, client>>
      /\ pc' = [pc EXCEPT ![s] = "dead"] /\ inbox' = [inbox EXCEPT ![s] = <<>>]
      /\ reset' \subseteq reset \cup {s}
  BY DEF Fail
<1>2. /\ TypeOK /\ pc' \in [Server -> Places] /\ pc'[s] = "dead"
      /\ inbox' \in [Server -> Seq(Messages)] /\ inbox'[s] = <<>>
  <2>1. TypeOK /\ pc \in [Server -> Places] /\ inbox \in [Server -> Seq(Messages)]
    BY DEF IInv, TypeOK
  <2>2. "dead" \in Places /\ <<>> \in Seq(Messages)
    BY DEF Places
  <2> QED
    BY <1>1, <2>1, <2>2
<1>3. TypeOK'
  BY <1>1, <1>2 DEF TypeOK, client
<1>4. Only(s)
  BY <1>1, <1>2 DEF Only, TypeOK, Dead
<1>5. Known'
  BY <1>1, <1>2, <1>4, KnownFrame DEF IInv, Known, Unheard
<1>6. ASSUME Len(bad) <= 1, NEW n \in DOMAIN list, list[n] = s
      PROVE  InboxOf(n)' /\ (~Over => ReplyOf(n)')
  <2>1. /\ (Over' <=> Over) /\ list' = list /\ TakenOf(n)' = TakenOf(n) /\ First(n)' = First(n)
    BY <1>1, ClientSame DEF client
  <2>2. InboxOf(n)'
    BY <1>2, <1>6, <2>1 DEF InboxOf, Dead
  <2>3. ASSUME ~Over, TakenOf(n) = 0 PROVE reply[s] \in {<<>>, <<<<First(n)>>>>}
    <3>1. InboxOf(n) /\ ReplyOf(n)
      BY <1>6, <2>3, AtServer
    <3>2. CASE Dead(s)
      BY <1>6, <2>3, <3>1, <3>2 DEF ReplyOf
    <3>3. CASE ~Dead(s)
      <4>1. Follows(n, Said(n))
        BY <1>6, <2>3, <3>1, <3>3 DEF InboxOf
      <4>2. Said(n) \in {0, 1}
        BY <2>3 DEF TakenOf, Said, One, Rounds, Over
      <4>3. inbox[s] \in Seq(Messages) /\ reply[s] \in Seq(Seq(Parts))
        BY <1>2 DEF TypeOK
      <4>4. Said(n) - Len(inbox[s]) \in {0, 1}
        BY <1>6, <4>1, <4>2, <4>3 DEF Follows
      <4>5. AnswersOf(n) \in {0, 1}
        BY <1>6, <4>1, <4>4 DEF AnswersOf, Follows, Placed, Rounds
      <4>6. Len(reply[s]) \in {0, 1} /\ \A k \in DOMAIN reply[s] : reply[s][k] = <<Answer(n, 0 + k)>>
        <5>1. /\ Len(reply[s]) = AnswersOf(n) - TakenOf(n)
              /\ \A k \in DOMAIN reply[s] : reply[s][k] = <<Answer(n, TakenOf(n) + k)>>
          BY <1>6, <3>1, <3>3 DEF ReplyOf
        <5> QED
          BY <2>3, <4>5, <5>1
      <4>7. CASE Len(reply[s]) = 0
        BY <4>3, <4>7
      <4>8. CASE Len(reply[s]) = 1
        <5>1. reply[s][1] = <<First(n)>>
          BY <4>3, <4>6, <4>8 DEF Answer
        <5> QED
          BY <4>3, <4>8, <5>1
      <4> QED
        BY <4>6, <4>7, <4>8
    <3> QED
      BY <3>2, <3>3
  <2>4. ~Over => ReplyOf(n)'
    BY <1>1, <1>2, <1>6, <2>1, <2>3 DEF ReplyOf, Dead
  <2> QED
    BY <2>2, <2>4
<1>7. Filled' /\ InboxInv' /\ ReplyInv' /\ LimitsInv' /\ ResultInv' /\ KilledLate'
  BY <1>4, <1>6, ServerFrame
<1> QED
  BY <1>3, <1>5, <1>7 DEF IInv

LEMMA ReceiveNeedInv == ASSUME IInv, NEW s \in Server, ReceiveNeed(s) PROVE IInv'
<1> DEFINE again == inbox[s] # <<>> /\ Head(inbox[s]).again
           lost == inbox[s] = <<>> \/ Head(inbox[s]).kind # "need"
           next == IF lost THEN "astray" ELSE IF again THEN "limits" ELSE "ready"
<1>1. /\ pc[s] = "need" /\ UNCHANGED <<task, reply, reset, client>>
      /\ inbox[s] # <<>> \/ ClientGone
      /\ inbox' = [inbox EXCEPT ![s] = IF inbox[s] = <<>> THEN inbox[s] ELSE Tail(inbox[s])]
      /\ pc' = [pc EXCEPT ![s] = next]
  BY DEF ReceiveNeed, Receive
<1>2. s \in ToSet(list) /\ TypeOK
  BY <1>1, Listed DEF Unheard, IInv
<1>3. pc' \in [Server -> Places] /\ pc'[s] = next
  <2>1. next \in Places
    BY DEF Places
  <2> HIDE DEF next
  <2> QED
    BY <1>1, <1>2, <2>1 DEF TypeOK
<1>4. inbox' \in [Server -> Seq(Messages)]
  <2>1. CASE inbox[s] = <<>>
    BY <1>1, <1>2, <2>1 DEF TypeOK
  <2>2. CASE inbox[s] # <<>>
    BY <1>1, <1>2, <2>2, ReadInbox
  <2> QED
    BY <2>1, <2>2
<1>5. TypeOK'
  BY <1>1, <1>2, <1>3, <1>4 DEF TypeOK, client
<1>6. Only(s)
  <2> HIDE DEF next
  <2> QED
    BY <1>1, <1>2 DEF Only, TypeOK, Dead
<1>7. Known'
  BY <1>2, <1>3, <1>6, KnownFrame
<1>8. ASSUME Len(bad) <= 1, NEW n \in DOMAIN list, list[n] = s
      PROVE  InboxOf(n)' /\ (~Over => ReplyOf(n)')
  <2>1. /\ Said(n)' = Said(n) /\ (Over' <=> Over) /\ list' = list /\ TakenOf(n)' = TakenOf(n)
        /\ Rounds' = Rounds /\ bad' = bad /\ \A k : Answer(n, k)' = Answer(n, k)
    BY <1>1, ClientSame DEF client
  <2>2. InboxOf(n) /\ (~Over => ReplyOf(n)) /\ ~Dead(list[n])
    BY <1>1, <1>8, AtServer DEF Dead
  \* With a message there, it is the one for this place.
  <2>3. ASSUME NEW c, Follows(n, c), inbox[s] # <<>>
        PROVE  /\ ~lost /\ pc'[s] = IF bad # <<>> /\ c - Len(inbox[s]) = 1 THEN "limits" ELSE "ready"
               /\ Follows(n, c)'
    <3>1. PICK r : r = c - Len(inbox[s])
      OBVIOUS
    <3>2. 1 \in DOMAIN inbox[s] /\ Head(inbox[s]) = inbox[s][1]
      BY <1>2, <2>3 DEF TypeOK
    <3>3. (r = 1 \/ (r = 3 /\ bad # <<>>)) /\ inbox[s][1] = Message(n, r + 1)
      BY <1>1, <1>8, <2>3, <3>1, <3>2 DEF Follows, Placed
    <3>4. Message(n, r + 1) = Need(r = 1 /\ bad # <<>>)
      <4>1. CASE r = 1
        BY <4>1 DEF Message
      <4>2. CASE r = 3
        BY <4>2 DEF Message
      <4> QED
        BY <3>3, <4>1, <4>2
    <3>5. Head(inbox[s]).kind = "need" /\ (Head(inbox[s]).again <=> (r = 1 /\ bad # <<>>))
      <4>1. /\ Head(inbox[s]).kind = "need"
            /\ Head(inbox[s]).again = (r = 1 /\ bad # <<>>)
        BY <3>2, <3>3, <3>4 DEF Need
      <4> QED
        BY <4>1, Zenon
    <3>6. ~lost /\ pc'[s] = IF bad # <<>> /\ r = 1 THEN "limits" ELSE "ready"
      BY <1>3, <2>3, <3>5
    <3>7. Placed(n, r + 1)'
      <4>1. Rounds = IF bad = <<>> THEN 1 ELSE 2
        BY DEF Rounds
      <4> HIDE DEF lost
      <4> QED
        BY <1>8, <2>1, <3>3, <3>6, <4>1 DEF Placed
    <3>8. inbox' = [inbox EXCEPT ![s] = Tail(inbox[s])]
      BY <1>1, <2>3
    <3>9. Follows(n, c)'
      BY <1>1, <1>2, <1>8, <2>3, <3>1, <3>7, <3>8, ReadFollows
    <3> QED
      BY <3>1, <3>6, <3>9
  <2>4. inbox[s] = <<>> => Over /\ pc'[s] = "astray"
    BY <1>1, <1>3, <1>8, Astray
  <2>5. InboxOf(n)'
    <3>1. CASE Over
      BY <1>1, <1>3, <1>8, <2>1, <2>2, <2>3, <2>4, <3>1 DEF InboxOf, Dead
    <3>2. CASE ~Over
      <4>1. Follows(n, Said(n))
        BY <2>2, <3>2 DEF InboxOf
      <4>2. Follows(n, Said(n))'
        BY <2>1, <2>3, <2>4, <3>2, <4>1 DEF Follows
      <4> QED
        BY <2>1, <3>2, <4>2 DEF InboxOf
    <3> QED
      BY <3>1, <3>2
  <2>6. ASSUME ~Over PROVE ReplyOf(n)'
    <3>1. Follows(n, Said(n)) /\ inbox[s] # <<>>
      BY <2>2, <2>4, <2>6 DEF InboxOf
    <3> DEFINE r == Said(n) - Len(inbox[s])
    <3>2. pc'[s] = IF bad # <<>> /\ r = 1 THEN "limits" ELSE "ready"
      BY <2>3, <3>1
    <3>3. (r = 1 \/ (r = 3 /\ bad # <<>>)) /\ Said(n) \in Int
      BY <1>1, <1>8, <3>1 DEF Follows, Placed, Rounds
    <3>4. (Said(n) - Len(inbox[s]))' = r + 1
      <4>1. Len(inbox[s]) \in Nat /\ Len(inbox'[s]) = Len(inbox[s]) - 1
        <5>1. inbox' = [inbox EXCEPT ![s] = Tail(inbox[s])]
          BY <1>1, <3>1
        <5> QED
          BY <1>2, <3>1, <5>1, ReadInbox
      <4> QED
        BY <2>1, <3>3, <4>1
    <3> HIDE DEF r, next, lost
    <3>5. AnswersOf(n)' = AnswersOf(n)
      <4>1. AnswersOf(n) = IF r = 1 THEN 1 ELSE 2
        BY <1>1, <1>8 DEF AnswersOf, r
      <4>2. AnswersOf(n)' = IF pc'[s] = "limits" THEN (IF r + 1 = 0 THEN 0 ELSE 1) ELSE Rounds
        BY <1>8, <2>1, <3>2, <3>4 DEF AnswersOf
      <4> QED
        BY <3>2, <3>3, <4>1, <4>2 DEF Rounds
    <3> QED
      BY <1>1, <1>8, <2>1, <2>2, <2>6, <3>2, <3>5 DEF ReplyOf, Dead
  <2> QED
    BY <2>5, <2>6
<1>9. Filled' /\ InboxInv' /\ ReplyInv' /\ LimitsInv' /\ ResultInv' /\ KilledLate'
  BY <1>6, <1>8, ServerFrame
<1> QED
  BY <1>5, <1>7, <1>9 DEF IInv

---------------------------------------------------------------------------
(***************************************************************************)
(* The steps of the client.                                                *)
(***************************************************************************)
LEMMA BroadcastInv == ASSUME IInv, Broadcast PROVE IInv'
<1>1. /\ at = "broadcast" /\ at' = "sleep"
      /\ UNCHANGED <<pc, task, inbox, reply, reset, answers, list, i, limits, got, bad, j, dx, result>>
  BY DEF Broadcast, server, wires
<1>2. TypeOK /\ list = <<>> /\ got = <<>> /\ bad = <<>> /\ result = <<>> /\ limits = <<>>
  BY <1>1 DEF IInv, Filled
<1>3. TypeOK'
  BY <1>1, <1>2 DEF TypeOK, Stages, Loops
<1>4. Filled'
  BY <1>1, <1>2 DEF IInv, Filled
<1>5. Known'
  BY <1>1, <1>2 DEF IInv, Known, Unheard, Dead, ToSet
<1>6. InboxInv' /\ ReplyInv' /\ LimitsInv' /\ ResultInv' /\ KilledLate'
  BY <1>1, <1>2 DEF InboxInv, ReplyInv, LimitsInv, ResultInv, KilledLate
<1> QED
  BY <1>3, <1>4, <1>5, <1>6 DEF IInv

LEMMA CollectInv == ASSUME IInv, Collect PROVE IInv'
<1>1. /\ at = "sleep" /\ at' = (IF answers = <<>> THEN "failed" ELSE "connect")
      /\ list' = answers /\ i' = 1
      /\ UNCHANGED <<pc, task, inbox, reply, reset, answers, limits, got, bad, j, dx, result>>
  BY DEF Collect, server, wires
<1>2. /\ TypeOK /\ list = <<>> /\ got = <<>> /\ bad = <<>> /\ result = <<>> /\ limits = <<>>
      /\ answers \in Seq(Server)
  BY <1>1 DEF IInv, Filled, TypeOK
<1>3. TypeOK'
  <2>1. answers # <<>> => 1 \in DOMAIN answers
    BY <1>2
  <2>2. limits' = <<>> /\ got' = <<>> /\ bad' = <<>> /\ Len(answers) \in Nat
    BY <1>1, <1>2
  <2>3. at' \in Stages /\ at' # "again" /\ (at' \in Loops => i' \in DOMAIN list')
    BY <1>1, <2>1 DEF Stages, Loops
  <2>4. bad' \in Seq(1 .. Len(list')) /\ Len(limits') <= Len(list') /\ Len(got') <= Len(list')
    BY <1>1, <2>2
  <2> QED
    BY <1>1, <1>2, <2>3, <2>4 DEF TypeOK
<1>4. Filled'
  BY <1>1, <1>2 DEF IInv, Filled
<1>5. \A s \in Server : pc[s] \in Unheard /\ inbox[s] = <<>> /\ reply[s] = <<>>
  BY <1>2 DEF IInv, Known, ToSet
<1>6. \A n \in DOMAIN answers : answers[n] \in Server /\ pc[answers[n]] # "idle"
  BY <1>2, AnswerFacts DEF IInv, Known
<1>7. Known'
  BY <1>1, <1>2, <1>5, <1>6 DEF Known, Dead, Unheard
<1>8. ASSUME NEW n \in DOMAIN answers PROVE InboxOf(n)' /\ ReplyOf(n)'
  <2>1. /\ at' = "connect" /\ Said(n)' = 0 /\ TakenOf(n)' = 0 /\ (~Over)' /\ Rounds' = 1
    BY <1>1, <1>2 DEF Said, TakenOf, Over, Rounds
  <2>2. /\ pc[answers[n]] \in {"answered", "accept", "dead"}
        /\ inbox[answers[n]] = <<>> /\ reply[answers[n]] = <<>>
    BY <1>5, <1>6 DEF Unheard
  <2>3. ~Dead(list[n])' => Placed(n, 0)'
    BY <1>1, <2>2 DEF Placed, Dead
  <2>4. ~Dead(list[n])' => Follows(n, 0)'
    <3>1. (Len(inbox[list[n]]) = 0 /\ DOMAIN inbox[list[n]] = {})'
      BY <1>1, <2>2
    <3>2. (0 - Len(inbox[list[n]]))' = 0
      BY <3>1
    <3>3. ~Dead(list[n])' => Placed(n, 0 - Len(inbox[list[n]]))'
      BY <2>3, <3>2 DEF Placed
    <3> QED
      BY <2>1, <3>1, <3>2, <3>3 DEF Follows
  <2>5. InboxOf(n)'
    BY <2>1, <2>4 DEF InboxOf, Follows
  <2>6. ~Dead(list[n])' => AnswersOf(n)' = 0
    BY <1>1, <2>2 DEF AnswersOf, Dead
  <2>7. ReplyOf(n)'
    BY <1>1, <2>1, <2>2, <2>6 DEF ReplyOf, Dead
  <2> QED
    BY <2>5, <2>7
<1>9. InboxInv' /\ ReplyInv'
  BY <1>1, <1>8 DEF InboxInv, ReplyInv
<1>10. LimitsInv' /\ ResultInv' /\ KilledLate'
  BY <1>1, <1>2 DEF LimitsInv, ResultInv, KilledLate
<1> QED
  BY <1>3, <1>4, <1>7, <1>9, <1>10 DEF IInv

\* A turn of a loop over the list.
LEMMA StepFacts ==
  ASSUME TypeOK, at \in Loops, Step
  PROVE  /\ i \in 1 .. Len(list) /\ i' \in 1 .. Len(list) /\ Len(list) \in Nat
         /\ i \in Nat /\ i' \in Nat
         /\ AtEnd => i = Len(list) /\ i' = 1
         /\ ~AtEnd => i' = i + 1
<1>1. Len(list) \in Nat /\ i \in 1 .. Len(list)
  BY ListFacts DEF TypeOK
<1>2. CASE AtEnd
  <2>1. i = Len(list) /\ i' = 1
    BY <1>2 DEF Step, AtEnd
  <2> QED
    BY <1>1, <1>2, <2>1
<1>3. CASE ~AtEnd
  <2>1. i # Len(list) /\ i' = i + 1
    BY <1>3 DEF Step, AtEnd
  <2> QED
    BY <1>1, <1>3, <2>1
<1> QED
  BY <1>2, <1>3

LEMMA CoreSame ==
  ASSUME UNCHANGED <<list, bad, dx>>
  PROVE  \A n, k : /\ Message(n, k)' = Message(n, k) /\ Answer(n, k)' = Answer(n, k)
                   /\ First(n)' = First(n) /\ Second(n)' = Second(n) /\ Rounds' = Rounds
                   /\ OpenCpus(n)' = OpenCpus(n) /\ number_of_cpus' = number_of_cpus
                   /\ (Closed(n)' <=> Closed(n))
<1>1. \A n : First(n)' = First(n)
  BY DEF First
<1>2. \A n : Second(n)' = Second(n)
  BY DEF Second, First
<1>3. \A n, k : Message(n, k)' = Message(n, k)
  BY <1>1, <1>2 DEF Message, Limits, Need
<1>4. \A n, k : Answer(n, k)' = Answer(n, k)
  BY <1>1, <1>2 DEF Answer
<1>5. \A n : /\ Rounds' = Rounds
             /\ OpenCpus(n)' = OpenCpus(n) /\ number_of_cpus' = number_of_cpus
             /\ (Closed(n)' <=> Closed(n))
  BY DEF Rounds, OpenCpus, number_of_cpus, Closed, ToSet
<1> QED
  BY <1>1, <1>2, <1>3, <1>4, <1>5

\* The servers, when the client does not write.
LEMMA SameFollows ==
  ASSUME NEW n, NEW c, Follows(n, c), UNCHANGED <<list, bad, dx>>,
         inbox'[list[n]] = inbox[list[n]], pc'[list[n]] = pc[list[n]]
  PROVE  Follows(n, c)'
<1>1. Rounds' = Rounds /\ \A k : Message(n, k)' = Message(n, k)
  BY CoreSame
<1> QED
  BY <1>1 DEF Follows, Placed

LEMMA ConnectInv == ASSUME IInv, Connect PROVE IInv'
<1> DEFINE s == list[i]
<1>1. at = "connect" /\ UNCHANGED <<task, inbox, reply, reset, answers, list, limits, got, bad, j, dx, result>>
  BY DEF Connect, wires
<1>2. /\ TypeOK /\ got = <<>> /\ bad = <<>> /\ result = <<>> /\ limits = <<>> /\ list # <<>> /\ j = 1
      /\ i \in DOMAIN list /\ s \in Server /\ list = answers
      /\ \A n \in DOMAIN list : list[n] \in Server
  <2>1. TypeOK /\ got = <<>> /\ bad = <<>> /\ result = <<>> /\ limits = <<>> /\ list # <<>>
    BY <1>1 DEF IInv, Filled
  <2>2. j = 1
    <3>1. Len(bad) = 0
      BY <2>1
    <3> QED
      BY <3>1 DEF IInv, Filled
  <2>3. i \in DOMAIN list /\ list = answers
    BY <1>1, <2>1 DEF TypeOK, Loops
  <2> QED
    BY <2>1, <2>2, <2>3, ListFacts
<1>3. CASE pc[s] = "accept" /\ pc' = [pc EXCEPT ![s] = "limits"] /\ at' = After("task") /\ Step
  <2>1. /\ pc' \in [Server -> Places] /\ pc'[s] = "limits"
        /\ \A u \in Server : u # s => pc'[u] = pc[u]
    BY <1>2, <1>3 DEF TypeOK, Places
  <2>2. /\ i \in 1 .. Len(list) /\ i' \in 1 .. Len(list) /\ Len(list) \in Nat
        /\ i \in Nat /\ i' \in Nat
        /\ AtEnd => i = Len(list) /\ i' = 1
        /\ ~AtEnd => i' = i + 1
    BY <1>1, <1>2, <1>3, StepFacts DEF Loops
  <2>3. at' = IF AtEnd THEN "task" ELSE "connect"
    BY <1>1, <1>3 DEF After
  <2>4. TypeOK'
    BY <1>1, <1>2, <2>1, <2>2, <2>3 DEF TypeOK, Stages, Loops
  <2>5. Filled'
    <3>1. Len(limits') = 0
      BY <1>1, <1>2
    <3> QED
      BY <1>1, <1>2, <2>2, <2>3, <3>1 DEF Filled
  <2>6. Known'
    <3>1. \A n \in DOMAIN list : pc'[list[n]] # "idle"
      BY <1>2, <2>1 DEF IInv, Known
    <3>2. \A u \in Server \ ToSet(list) : u # s
      BY <1>2 DEF ToSet
    <3>3. \A n \in DOMAIN list : at' # "connect" \/ n < i' => pc'[list[n]] \notin {"idle", "answered", "accept"}
      <4> SUFFICES ASSUME NEW n \in 1 .. Len(list), at' # "connect" \/ n < i'
                   PROVE  pc'[list[n]] \notin {"idle", "answered", "accept"}
        BY <1>2, ListFacts
      <4>1. CASE n = i
        BY <2>1, <4>1
      <4>2. CASE n # i
        <5>1. n < i
          <6>1. CASE AtEnd
            BY <2>2, <4>2, <6>1
          <6>2. CASE ~AtEnd
            <7>1. n \in Nat /\ i \in Nat
              BY <2>2
            <7>2. at' = "connect" /\ i' = i + 1
              BY <2>2, <2>3, <6>2
            <7>3. n < i + 1
              BY <7>2
            <7> QED
              BY <4>2, <7>1, <7>3
          <6> QED
            BY <6>1, <6>2
        <5>2. pc[list[n]] \notin {"idle", "answered", "accept"}
          BY <1>1, <5>1 DEF IInv, Known
        <5> QED
          BY <1>2, <2>1, <5>2
      <4> QED
        BY <4>1, <4>2
    <3>4. \A u \in Server : Dead(u)' => Dead(u)
      BY <2>1 DEF Dead
    <3>5. ToSet(list)' = ToSet(list) /\ bad' = <<>>
      BY <1>1, <1>2 DEF ToSet
    <3> QED
      BY <1>1, <1>2, <2>1, <2>3, <3>1, <3>2, <3>3, <3>4, <3>5 DEF IInv, Known, Unheard
  <2>7. ASSUME NEW n \in DOMAIN list PROVE InboxOf(n)' /\ ReplyOf(n)'
    <3>1. /\ Said(n) = 0 /\ Said(n)' = 0 /\ TakenOf(n) = 0 /\ TakenOf(n)' = 0 /\ ~Over /\ (~Over)'
      BY <1>1, <2>2, <2>3, <2>7 DEF Said, TakenOf, Over, One
    <3>2. InboxOf(n) /\ ReplyOf(n)
      BY <1>2, <2>7, <3>1, AtServer
    <3>3. CASE list[n] # s
      <4>1. list[n] \in Server /\ pc'[list[n]] = pc[list[n]]
        BY <1>2, <2>1, <2>7, <3>3
      <4>2. Dead(list[n])' <=> Dead(list[n])
        BY <1>1, <4>1 DEF Dead
      <4>3. ~Dead(list[n]) => Follows(n, 0)'
        BY <1>1, <3>1, <3>2, <4>1, SameFollows DEF InboxOf
      <4>4. InboxOf(n)'
        BY <3>1, <4>2, <4>3 DEF InboxOf, Follows
      <4>5. AnswersOf(n)' = AnswersOf(n)
        BY <1>1, <3>1, <4>1 DEF AnswersOf, Rounds
      <4>6. ReplyOf(n)'
        BY <1>1, <3>1, <3>2, <4>1, <4>2, <4>5, CoreSame DEF ReplyOf
      <4> QED
        BY <4>4, <4>6
    <3>4. CASE list[n] = s
      <4>1. Follows(n, 0) /\ ~Dead(s)
        BY <1>3, <3>1, <3>2, <3>4 DEF InboxOf, Dead
      <4>2. inbox[s] \in Seq(Messages) /\ reply[s] \in Seq(Seq(Parts))
        BY <1>2 DEF TypeOK
      <4>3. Len(inbox[s]) = 0 /\ inbox[s] = <<>>
        <5>1. 0 - Len(inbox[s]) >= 0 /\ Len(inbox[s]) \in Nat
          BY <3>4, <4>1, <4>2 DEF Follows
        <5>2. Len(inbox[s]) = 0
          BY ONLY <5>1
        <5> QED
          BY <4>2, <5>2
      <4>4. (Len(inbox[list[n]]) = 0 /\ DOMAIN inbox[list[n]] = {} /\ pc[list[n]] = "limits")'
        BY <1>1, <2>1, <3>4, <4>3
      <4>5. (0 - Len(inbox[list[n]]))' = 0
        BY <4>4
      <4>6. Placed(n, 0 - Len(inbox[list[n]]))'
        BY <4>4, <4>5 DEF Placed
      <4>7. Follows(n, 0)'
        BY <1>1, <1>2, <4>4, <4>5, <4>6 DEF Follows, Rounds
      <4>8. InboxOf(n)'
        BY <3>1, <4>7 DEF InboxOf, Follows
      <4>9. AnswersOf(n) = 0 /\ AnswersOf(n)' = 0
        BY <1>3, <3>1, <3>4, <4>4, <4>5 DEF AnswersOf
      <4>10. reply[s] = <<>>
        <5>1. Len(reply[s]) = 0
          BY <3>1, <3>2, <3>4, <4>1, <4>9 DEF ReplyOf
        <5> QED
          BY <4>2, <5>1
      <4>11. ReplyOf(n)'
        BY <1>1, <2>1, <3>1, <3>4, <4>9, <4>10 DEF ReplyOf, Dead
      <4> QED
        BY <4>8, <4>11
    <3> QED
      BY <3>3, <3>4
  <2>8. InboxInv' /\ ReplyInv'
    BY <1>1, <2>7 DEF InboxInv, ReplyInv
  <2>9. LimitsInv' /\ ResultInv' /\ KilledLate'
    BY <1>1, <1>2, <2>3 DEF LimitsInv, ResultInv, KilledLate
  <2> QED
    BY <2>4, <2>5, <2>6, <2>8, <2>9 DEF IInv
<1>4. CASE at' = "failed" /\ UNCHANGED <<pc, i>>
  <2>1. TypeOK'
    BY <1>1, <1>2, <1>4 DEF TypeOK, Stages, Loops
  <2>2. Filled'
    BY <1>1, <1>2, <1>4 DEF Filled
  <2>3. Known'
    BY <1>1, <1>2, <1>4 DEF IInv, Known, Dead, ToSet
  <2>4. ASSUME NEW n \in DOMAIN list PROVE InboxOf(n)'
    <3>1. Said(n) = 0 /\ ~Over /\ Over'
      BY <1>1, <1>4 DEF Said, Over
    <3>2. InboxOf(n)
      BY <1>2, <2>4, AtServer
    <3>3. ~Dead(list[n]) => Follows(n, 0)'
      BY <1>1, <1>4, <3>1, <3>2, SameFollows DEF InboxOf
    <3> QED
      BY <1>1, <1>4, <3>1, <3>3 DEF InboxOf, Dead
  <2>5. InboxInv' /\ ReplyInv'
    BY <1>1, <1>4, <2>4 DEF InboxInv, ReplyInv, Over
  <2>6. LimitsInv' /\ ResultInv' /\ KilledLate'
    BY <1>1, <1>2, <1>4 DEF LimitsInv, ResultInv, KilledLate
  <2> QED
    BY <2>1, <2>2, <2>3, <2>5, <2>6 DEF IInv
<1> QED
  BY <1>3, <1>4 DEF Connect

\* The client is killed.
LEMMA KilledFrame ==
  ASSUME IInv, at \in {"task", "need", "recalculate", "again", "bye"}, at' = "killed",
         UNCHANGED <<pc, task, inbox, reply, answers, list, got, bad, dx>>,
         j' = 1 \/ Len(bad) > 1
  PROVE  Filled' /\ Known' /\ InboxInv' /\ ReplyInv' /\ LimitsInv' /\ ResultInv'
<1>1. TypeOK /\ ~Over /\ Over'
  BY DEF IInv, Over
<1>2. Filled'
  BY DEF Filled
<1>3. Known'
  BY DEF IInv, Known, Dead, ToSet
<1>4. InboxInv'
  <2> SUFFICES ASSUME Len(bad) <= 1, NEW n \in DOMAIN list PROVE InboxOf(n)'
    BY DEF InboxInv
  <2>1. ~Dead(list[n]) => Follows(n, Said(n))
    BY <1>1, AtServer DEF InboxOf
  <2>2. PICK c : c = Said(n)
    OBVIOUS
  <2>3. c \in 0 .. 4
    BY <2>2 DEF Said, One, Rounds
  <2>4. ~Dead(list[n]) => Follows(n, c)'
    BY <2>1, <2>2, SameFollows
  <2> QED
    BY <1>1, <2>3, <2>4 DEF InboxOf, Dead
<1>5. ReplyInv' /\ LimitsInv' /\ ResultInv'
  BY <1>1 DEF ReplyInv, LimitsInv, ResultInv
<1> QED
  BY <1>2, <1>3, <1>4, <1>5

\* What it is for m to be put into the inbox of s.
Appended(s, m) ==
  /\ inbox' \in [Server -> Seq(Messages)] /\ Len(inbox[s]) \in Nat
  /\ Len(inbox'[s]) = Len(inbox[s]) + 1
  /\ \A k \in DOMAIN inbox'[s] : /\ k \in Nat
                               /\ \/ k \in DOMAIN inbox[s] /\ inbox'[s][k] = inbox[s][k]
                                  \/ k = Len(inbox[s]) + 1 /\ inbox'[s][k] = m

LEMMA AppendInbox ==
  ASSUME TypeOK, NEW s \in Server, NEW m \in Messages,
         inbox' = [inbox EXCEPT ![s] = Append(inbox[s], m)]
  PROVE  Appended(s, m)
<1>1. inbox \in [Server -> Seq(Messages)] /\ inbox[s] \in Seq(Messages)
  BY DEF TypeOK
<1>2. Append(inbox[s], m) \in Seq(Messages) /\ inbox'[s] = Append(inbox[s], m)
  BY <1>1
<1>3. inbox' \in [Server -> Seq(Messages)]
  BY <1>1, <1>2
<1>4. /\ Len(inbox[s]) \in Nat /\ Len(Append(inbox[s], m)) = Len(inbox[s]) + 1
      /\ \A k \in DOMAIN Append(inbox[s], m) :
           /\ k \in Nat
           /\ \/ k \in DOMAIN inbox[s] /\ Append(inbox[s], m)[k] = inbox[s][k]
              \/ k = Len(inbox[s]) + 1 /\ Append(inbox[s], m)[k] = m
  BY <1>1
<1> QED
  BY <1>2, <1>3, <1>4, Zenon DEF Appended

LEMMA AppendFollows ==
  ASSUME TypeOK, UNCHANGED <<list, bad, dx, pc>>, NEW n \in DOMAIN list, NEW c, Follows(n, c),
         NEW s \in Server, s = list[n], NEW m \in Messages,
         m = Message(n, c + 1), c + 1 <= 2 + Rounds,
         inbox' = [inbox EXCEPT ![s] = Append(inbox[s], m)]
  PROVE  Follows(n, c + 1)'
<1>1. Rounds' = Rounds /\ \A k : Message(n, k)' = Message(n, k)
  BY CoreSame
<1>2. Appended(s, m)
  BY AppendInbox
<1>3. PICK r : r = c - Len(inbox[s])
  OBVIOUS
<1>4. Rounds \in {1, 2}
  BY DEF Rounds
<1>5. /\ c \in 0 .. 2 + Rounds /\ r >= 0 /\ Placed(n, r)
      /\ \A k \in DOMAIN inbox[s] : inbox[s][k] = Message(n, r + k)
  BY <1>3 DEF Follows
<1>6. c \in Int /\ c + 1 \in 0 .. 2 + Rounds
  BY <1>4, <1>5
<1>7. r + (Len(inbox[s]) + 1) = c + 1 /\ (c + 1) - Len(inbox'[s]) = r
  <2>1. Len(inbox[s]) \in Nat /\ Len(inbox'[s]) = Len(inbox[s]) + 1 /\ c \in Int
    BY <1>2, <1>6 DEF Appended
  <2>2. PICK x, y : x = Len(inbox[s]) /\ y = Len(inbox'[s])
    OBVIOUS
  <2>3. x \in Int /\ y = x + 1 /\ r = c - x /\ c \in Int
    BY <1>3, <2>1, <2>2
  <2>4. r + (x + 1) = c + 1 /\ (c + 1) - y = r
    BY ONLY <2>3
  <2> QED
    BY <2>2, <2>4
<1>8. \A k \in DOMAIN inbox'[s] : inbox'[s][k] = Message(n, r + k)
  BY <1>2, <1>5, <1>7 DEF Appended
<1>9. list'[n] = s
  OBVIOUS
<1>10. (\A k \in DOMAIN inbox[list[n]] : inbox[list[n]][k] = Message(n, ((c + 1) - Len(inbox[list[n]])) + k))'
  BY <1>1, <1>7, <1>8, <1>9
<1>11. (c + 1 \in 0 .. 2 + Rounds)'
  BY <1>1, <1>6
<1>12. ((c + 1) - Len(inbox[list[n]]) >= 0)'
  BY <1>5, <1>7, <1>9
<1>13. Placed(n, (c + 1) - Len(inbox[list[n]]))'
  BY <1>1, <1>5, <1>7, <1>9 DEF Placed
<1> QED
  BY <1>10, <1>11, <1>12, <1>13 DEF Follows

\* The server that the loop is at is told m, unless it has failed.
Told(m) ==
  \/ ~Dead(list[i]) /\ inbox' = [inbox EXCEPT ![list[i]] = Append(inbox[list[i]], m)]
  \/ Dead(list[i]) /\ inbox' = inbox
Plus(n) == IF n = i THEN 1 ELSE 0

LEMMA ToldFrame ==
  ASSUME IInv, at \in {"task", "need", "again", "bye"}, at' # "connect", ~Over', i \in DOMAIN list,
         UNCHANGED <<pc, task, reply, answers, list, bad, dx>>, NEW m \in Messages, Told(m),
         Len(bad) <= 1 => \A n \in DOMAIN list : /\ Said(n)' = Said(n) + Plus(n)
                                               /\ TakenOf(n)' = TakenOf(n),
         Len(bad) <= 1 /\ ~Dead(list[i]) => m = Message(i, Said(i) + 1) /\ Said(i) + 1 <= 2 + Rounds
  PROVE  inbox' \in [Server -> Seq(Messages)] /\ Known' /\ InboxInv' /\ ReplyInv'
<1> DEFINE s == list[i]
<1>1. TypeOK /\ ~Over /\ s \in Server /\ s \in ToSet(list)
  BY ListFacts DEF IInv, Over, ToSet
<1>2. inbox' \in [Server -> Seq(Messages)]
  BY <1>1, AppendInbox DEF Told, TypeOK, Appended
<1>3. \A u \in Server : (u # s \/ Dead(u)) => inbox'[u] = inbox[u]
  BY <1>1, <1>2 DEF Told, TypeOK
<1>4. Known'
  <2>1. ToSet(list)' = ToSet(list)
    BY DEF ToSet
  <2>2. \A u \in Server \ ToSet(list) : inbox'[u] = inbox[u]
    BY <1>1, <1>3
  <2> QED
    BY <1>3, <2>1, <2>2 DEF IInv, Known, Dead, Over
<1>5. ASSUME NEW n \in DOMAIN list, Len(bad) <= 1 PROVE InboxOf(n)' /\ ReplyOf(n)'
  <2>1. InboxOf(n) /\ ReplyOf(n)
    BY <1>1, <1>5, AtServer
  <2>2. Dead(list[n])' <=> Dead(list[n])
    BY DEF Dead
  <2>3. /\ Said(n)' = Said(n) + Plus(n) /\ TakenOf(n)' = TakenOf(n)
        /\ Rounds' = Rounds /\ First(n)' = First(n) /\ \A k : Answer(n, k)' = Answer(n, k)
    BY <1>5, CoreSame
  <2>4. PICK c, d : c = Said(n) /\ d = Plus(n)
    OBVIOUS
  <2>5. CASE Dead(list[n])
    <3>1. InboxOf(n)'
      BY <2>2, <2>5 DEF InboxOf
    <3>2. ReplyOf(n)'
      BY <2>1, <2>2, <2>3, <2>5 DEF ReplyOf
    <3> QED
      BY <3>1, <3>2
  <2>6. CASE ~Dead(list[n])
    <3>1. Follows(n, c) /\ c \in Int /\ inbox[list[n]] \in Seq(Messages)
      <4>1. Follows(n, c) /\ list[n] \in Server
        BY <1>1, <1>5, <2>1, <2>4, <2>6, ListFacts DEF InboxOf
      <4>2. c \in 0 .. 2 + Rounds /\ Rounds \in {1, 2}
        BY <4>1 DEF Follows, Rounds
      <4> QED
        BY <1>1, <4>1, <4>2 DEF TypeOK
    <3>2. /\ Follows(n, c + d)'
          /\ (c + d) - Len(inbox'[list[n]]) = c - Len(inbox[list[n]])
      <4>1. CASE n = i
        <5>1. m = Message(n, c + 1) /\ c + 1 <= 2 + Rounds /\ d = 1
          BY <1>5, <2>4, <2>6, <4>1 DEF Plus
        <5>2. inbox' = [inbox EXCEPT ![s] = Append(inbox[s], m)]
          BY <2>6, <4>1 DEF Told
        <5>3. Follows(n, c + 1)'
          BY <1>1, <1>5, <3>1, <4>1, <5>1, <5>2, AppendFollows
        <5>4. Len(inbox'[s]) = Len(inbox[s]) + 1 /\ Len(inbox[s]) \in Nat
          BY <1>1, <5>2, AppendInbox DEF Appended
        <5>5. (c + 1) - Len(inbox'[s]) = c - Len(inbox[s])
          BY ONLY <3>1, <5>4
        <5> QED
          BY <4>1, <5>1, <5>3, <5>5
      <4>2. CASE n # i
        <5>1. list[n] # s /\ list[n] \in Server
          BY <1>1, <1>5, <4>2, ListFacts
        <5>2. inbox'[list[n]] = inbox[list[n]]
          BY <1>3, <5>1
        <5>3. Follows(n, c)'
          BY <3>1, <5>2, SameFollows
        <5>4. d = 0 /\ c + 0 = c
          BY <2>4, <3>1, <4>2 DEF Plus
        <5> QED
          BY <5>2, <5>3, <5>4
      <4> QED
        BY <4>1, <4>2
    <3>3. Said(n)' = c + d
      BY <2>3, <2>4
    <3>4. InboxOf(n)'
      BY <3>2, <3>3 DEF InboxOf, Follows
    <3>5. (Said(n) - Len(inbox[list[n]]))' = Said(n) - Len(inbox[list[n]])
      BY <2>4, <3>2, <3>3
    <3>6. AnswersOf(n)' = AnswersOf(n)
      BY <2>3, <3>5 DEF AnswersOf
    <3>7. ReplyOf(n)'
      BY <2>1, <2>2, <2>3, <2>6, <3>6 DEF ReplyOf
    <3> QED
      BY <3>4, <3>7
  <2> QED
    BY <2>5, <2>6
<1>6. InboxInv' /\ ReplyInv'
  BY <1>5 DEF InboxInv, ReplyInv
<1> QED
  BY <1>2, <1>4, <1>6

\* How a message is sent: the client goes on, or a server that has failed and
\* was not found to kills it.
LEMMA SendCases ==
  ASSUME TypeOK, i \in DOMAIN list, NEW m, NEW next, Send(list[i], m, next)
  PROVE  /\ reset' \subseteq Server
         /\ \/ at' = next /\ Told(m)
            \/ at' = "killed" /\ inbox' = inbox /\ Dead(list[i])
<1>1. list[i] \in Server /\ reset \subseteq Server
  BY ListFacts DEF TypeOK
<1> QED
  BY <1>1 DEF Send, Told

LEMMA TellCases ==
  ASSUME IInv, i \in DOMAIN list, NEW m, NEW next, Tell(m, next)
  PROVE  /\ Step /\ reset' \subseteq Server
         /\ \/ at' = After(next) /\ Told(m)
            \/ at' = "killed" /\ inbox' = inbox /\ Late(i)
<1>1. TypeOK /\ reset \subseteq Server
  BY DEF IInv, TypeOK
<1>2. Closed(i) => Dead(list[i])
  BY DEF IInv, Known, Closed, ToSet
<1>3. CASE Closed(i)
  BY <1>1, <1>2, <1>3 DEF Tell, Told
<1>4. CASE ~Closed(i)
  <2>1. Step /\ Send(list[i], m, After(next))
    BY <1>4 DEF Tell
  <2> QED
    BY <1>1, <1>4, <2>1, SendCases DEF Late
<1> QED
  BY <1>3, <1>4

LEMMA LimitsMessage ==
  ASSUME NEW part \in Parts
  PROVE  Limits(part) \in Messages
BY DEF Limits, Messages

LEMMA NeedMessage ==
  ASSUME NEW again \in BOOLEAN
  PROVE  Need(again) \in Messages
<1>1. Nothing \in Parts
  BY DEF Nothing, Parts
<1> QED
  BY <1>1 DEF Need, Messages

LEMMA GiveInv == ASSUME IInv, Give PROVE IInv'
<1> DEFINE part == [a |-> Grain * OpenCpus(i), b |-> Grain * OpenCpus(i) + Grain * Cpus[list[i]]]
<1>1. /\ at = "task" /\ limits' = Append(limits, part) /\ Send(list[i], Limits(part), After("result"))
      /\ Step /\ UNCHANGED <<pc, task, reply, answers, list, got, bad, j, dx, result>>
  BY DEF Give, server
<1>2. /\ TypeOK /\ got = <<>> /\ bad = <<>> /\ result = <<>> /\ Len(limits) = i - 1 /\ j = 1
      /\ list # <<>> /\ Len(bad) = 0
  BY <1>1 DEF IInv, Filled
<1>3. at \in Loops /\ i \in DOMAIN list
  BY <1>1, <1>2 DEF TypeOK, Loops
<1>4. part = First(i) /\ part \in Parts
  <2>1. ToSet(bad) = {}
    BY <1>2, OneBad
  <2>2. part = First(i)
    BY <2>1 DEF OpenCpus, First
  <2> QED
    BY <1>2, <1>3, <2>2, FirstFacts
<1> HIDE DEF part
<1>5. /\ i \in 1 .. Len(list) /\ i' \in 1 .. Len(list) /\ Len(list) \in Nat
      /\ i \in Nat /\ i' \in Nat
      /\ AtEnd => i = Len(list) /\ i' = 1
      /\ ~AtEnd => i' = i + 1
  BY <1>1, <1>2, <1>3, StepFacts
<1>6. i' \in DOMAIN list
  BY <1>2, <1>5, ListFacts
<1>7. /\ reset' \subseteq Server
      /\ \/ at' = After("result") /\ Told(Limits(part))
         \/ at' = "killed" /\ inbox' = inbox /\ Dead(list[i])
  BY <1>1, <1>2, <1>3, SendCases
<1>8. /\ limits' \in Seq(Parts) /\ Len(limits') = i
      /\ \A n \in DOMAIN limits' : limits'[n] = First(n)
  <2>1. limits \in Seq(Parts) /\ \A n \in DOMAIN limits : limits[n] = First(n)
    BY <1>1, <1>2 DEF IInv, LimitsInv, TypeOK
  <2>2. DOMAIN limits = 1 .. i - 1 /\ (i - 1) + 1 = i
    BY <1>2, <1>5, <2>1
  <2> QED
    BY <1>1, <1>2, <1>4, <1>5, <2>1, <2>2
<1>9. CASE at' = "killed" /\ inbox' = inbox /\ Dead(list[i])
  <2>1. Filled' /\ Known' /\ InboxInv' /\ ReplyInv' /\ LimitsInv' /\ ResultInv'
    BY <1>1, <1>2, <1>9, KilledFrame
  <2>2. TypeOK'
    BY <1>1, <1>2, <1>5, <1>6, <1>7, <1>8, <1>9 DEF TypeOK, Stages
  <2>3. Late(i)
    BY <1>2, <1>9 DEF Late, Closed, ToSet
  <2>4. KilledLate'
    BY <1>1, <1>3, <2>3, CoreSame DEF KilledLate, Late, Dead
  <2> QED
    BY <2>1, <2>2, <2>4 DEF IInv
<1>10. CASE at' = After("result") /\ Told(Limits(part))
  <2>1. at' \in {"task", "result"} /\ (AtEnd => at' = "result") /\ (~AtEnd => at' = "task") /\ ~Over'
    BY <1>1, <1>10 DEF After, Over
  <2>2. \A n \in DOMAIN list : Said(n)' = Said(n) + Plus(n) /\ TakenOf(n)' = TakenOf(n)
    <3>1. \A n \in DOMAIN list : n \in 1 .. Len(list)
      BY <1>2, ListFacts
    <3>2. CASE AtEnd
      BY <1>1, <1>5, <2>1, <3>1, <3>2 DEF Said, TakenOf, One, Plus
    <3>3. CASE ~AtEnd
      BY <1>1, <1>5, <2>1, <3>1, <3>3 DEF Said, TakenOf, One, Plus
    <3> QED
      BY <3>2, <3>3
  <2>3. Limits(part) = Message(i, Said(i) + 1) /\ Said(i) + 1 <= 2 + Rounds
    <3>1. Said(i) = 0 /\ Rounds = 1
      BY <1>1, <1>2, <1>5 DEF Said, One, Rounds
    <3> QED
      BY <1>4, <3>1 DEF Message
  <2>4. inbox' \in [Server -> Seq(Messages)] /\ Known' /\ InboxInv' /\ ReplyInv'
    <3>1. at' # "connect" /\ at \in {"task", "need", "again", "bye"} /\ Limits(part) \in Messages
      BY <1>1, <1>4, <2>1, LimitsMessage
    <3> QED
      BY <1>1, <1>3, <1>10, <2>1, <2>2, <2>3, <3>1, ToldFrame
  <2>5. TypeOK'
    <3>1. at' \in Stages /\ at' # "again" /\ Len(limits') <= Len(list')
      BY <1>1, <1>5, <1>8, <2>1 DEF Stages, Loops
    <3> QED
      BY <1>1, <1>2, <1>5, <1>6, <1>7, <1>8, <2>4, <3>1 DEF TypeOK
  <2>6. Filled'
    <3>4. at' = "task" => i = i' - 1
      <4>1. at' = "task" => i' = i + 1
        BY <1>5, <2>1
      <4>2. i \in Nat /\ (i + 1) - 1 = i
        BY <1>5
      <4> QED
        BY <4>1, <4>2
    <3>1. at' = "task" => Len(limits') = i' - 1
      BY <1>8, <3>4
    <3>2. at' = "result" => Len(got') = i' - 1 /\ Len(bad') <= i' - 1 /\ Len(limits') = Len(list')
      <4>1. Len(got') = 0 /\ Len(bad') = 0 /\ Len(limits') = i
        BY <1>1, <1>2, <1>8
      <4>2. at' = "result" => i' - 1 = 0 /\ i = Len(list')
        BY <1>1, <1>5, <2>1
      <4> QED
        BY <4>1, <4>2
    <3>3. bad' = <<>> /\ got' = <<>> /\ result' = <<>> /\ list' # <<>> /\ j' = 1
      BY <1>1, <1>2
    <3> QED
      BY <2>1, <3>1, <3>2, <3>3 DEF Filled
  <2>7. LimitsInv'
    <3>1. \A n : First(n)' = First(n)
      BY <1>1, CoreSame
    <3>2. \A n \in DOMAIN limits' : limits'[n] = First(n)'
      BY <1>8, <3>1
    <3> QED
      BY <2>1, <3>2 DEF LimitsInv
  <2>8. ResultInv' /\ KilledLate'
    BY <1>1, <1>2, <1>5, <2>1 DEF ResultInv, KilledLate
  <2> QED
    BY <2>4, <2>5, <2>6, <2>7, <2>8 DEF IInv
<1> QED
  BY <1>7, <1>9, <1>10

LEMMA LoopFacts ==
  ASSUME TypeOK, at \in Loops, Step, UNCHANGED list
  PROVE  /\ i \in DOMAIN list /\ i' \in DOMAIN list' /\ i \in Nat /\ i' \in Nat /\ Len(list) \in Nat
         /\ AtEnd => i = Len(list) /\ i' = 1
         /\ ~AtEnd => i' = i + 1 /\ i' - 1 = i
         /\ \A n \in DOMAIN list : /\ One(n) \in {0, 1} /\ (n = i => One(n) = 0)
                                   /\ AtEnd => One(n) + Plus(n) = 1 /\ One(n)' = 0
                                   /\ ~AtEnd => One(n)' = One(n) + Plus(n)
<1>1. /\ i \in 1 .. Len(list) /\ i' \in 1 .. Len(list) /\ Len(list) \in Nat
      /\ i \in Nat /\ i' \in Nat
      /\ AtEnd => i = Len(list) /\ i' = 1
      /\ ~AtEnd => i' = i + 1
  BY StepFacts
<1>2. i \in DOMAIN list /\ i' \in DOMAIN list'
  BY <1>1, ListFacts
<1>3. ~AtEnd => i' - 1 = i
  <2>1. (i + 1) - 1 = i
    BY <1>1
  <2> QED
    BY <1>1, <2>1
<1>4. ASSUME NEW n \in DOMAIN list
      PROVE  /\ One(n) \in {0, 1} /\ (n = i => One(n) = 0)
             /\ AtEnd => One(n) + Plus(n) = 1 /\ One(n)' = 0
             /\ ~AtEnd => One(n)' = One(n) + Plus(n)
  <2>1. n \in 1 .. Len(list)
    BY ListFacts
  <2> QED
    BY <1>1, <2>1 DEF One, Plus
<1> QED
  BY <1>1, <1>2, <1>3, <1>4, Zenon

LEMMA SayNeedInv == ASSUME IInv, SayNeed PROVE IInv'
<1> DEFINE m == Need(bad # <<>>)
           next == IF bad = <<>> THEN "bye" ELSE "recalculate"
<1>1. /\ at = "need" /\ Tell(m, next)
      /\ UNCHANGED <<pc, task, reply, answers, list, limits, got, bad, j, dx, result>>
  BY DEF SayNeed, server
<1>2. /\ TypeOK /\ at \in Loops /\ list # <<>> /\ Len(limits) = Len(list) /\ Len(got) = Len(list) /\ j = 1
      /\ Len(bad) <= Len(list) /\ Len(limits) \in Nat /\ Len(got) \in Nat
  <2>1. /\ TypeOK /\ at \in Loops /\ list # <<>> /\ Len(limits) = Len(list) /\ Len(got) = Len(list) /\ j = 1
        /\ Len(bad) <= Len(list)
    BY <1>1 DEF IInv, Filled, Loops
  <2>2. Len(limits) \in Nat /\ Len(got) \in Nat
    BY <2>1 DEF TypeOK
  <2> QED
    BY <2>1, <2>2
<1>3. i \in DOMAIN list
  BY <1>2 DEF TypeOK
<1>4. /\ Step /\ reset' \subseteq Server
      /\ \/ at' = After(next) /\ Told(m)
         \/ at' = "killed" /\ inbox' = inbox /\ Late(i)
  BY <1>1, <1>3, TellCases
<1>5. /\ i' \in DOMAIN list' /\ i \in Nat /\ i' \in Nat /\ Len(list) \in Nat
      /\ AtEnd => i = Len(list) /\ i' = 1
      /\ ~AtEnd => i' = i + 1
      /\ \A n \in DOMAIN list : /\ One(n) \in {0, 1} /\ (n = i => One(n) = 0)
                                /\ AtEnd => One(n) + Plus(n) = 1 /\ One(n)' = 0
                                /\ ~AtEnd => One(n)' = One(n) + Plus(n)
  BY <1>1, <1>2, <1>4, LoopFacts
<1>6. CASE at' = "killed" /\ inbox' = inbox /\ Late(i)
  <2>1. Filled' /\ Known' /\ InboxInv' /\ ReplyInv' /\ LimitsInv' /\ ResultInv'
    BY <1>1, <1>2, <1>6, KilledFrame
  <2>2. TypeOK'
    BY <1>1, <1>2, <1>4, <1>5, <1>6 DEF TypeOK, Stages
  <2>3. KilledLate'
    BY <1>1, <1>3, <1>6, CoreSame DEF KilledLate, Late, Dead
  <2> QED
    BY <2>1, <2>2, <2>3 DEF IInv
<1>7. CASE at' = After(next) /\ Told(m)
  <2>1. /\ at' \in {"need", "recalculate", "bye"} /\ ~Over'
        /\ ~AtEnd => at' = "need"
        /\ AtEnd => at' # "need" /\ (at' = "bye" <=> bad = <<>>)
    BY <1>1, <1>7 DEF After, Over
  <2>2. ASSUME NEW n \in DOMAIN list PROVE Said(n)' = Said(n) + Plus(n) /\ TakenOf(n)' = TakenOf(n)
    <3>1. Said(n) = 1 + One(n) /\ TakenOf(n) = 1 /\ Plus(n) \in {0, 1} /\ One(n) \in {0, 1}
      BY <1>1, <1>5, <2>2 DEF Said, TakenOf, Plus
    <3>2. CASE ~AtEnd
      <4>1. Said(n)' = 1 + One(n)' /\ TakenOf(n)' = 1 /\ One(n)' = One(n) + Plus(n)
        BY <1>5, <2>1, <2>2, <3>2 DEF Said, TakenOf
      <4> QED
        BY <3>1, <4>1
    <3>3. CASE AtEnd
      <4>1. Said(n)' = 2 /\ TakenOf(n)' = 1
        BY <1>1, <1>5, <2>1, <2>2, <3>3 DEF Said, TakenOf, Rounds
      <4>2. One(n) + Plus(n) = 1
        BY <1>5, <2>2, <3>3
      <4> QED
        BY <3>1, <4>1, <4>2
    <3> QED
      BY <3>2, <3>3
  <2>3. m = Message(i, Said(i) + 1) /\ Said(i) + 1 <= 2 + Rounds
    <3>1. Said(i) = 1 /\ Rounds \in {1, 2}
      BY <1>1, <1>3, <1>5 DEF Said, Rounds
    <3> QED
      BY <3>1 DEF Message
  <2>4. inbox' \in [Server -> Seq(Messages)] /\ Known' /\ InboxInv' /\ ReplyInv'
    <3>1. at' # "connect" /\ at \in {"task", "need", "again", "bye"} /\ m \in Messages
      BY <1>1, <2>1, NeedMessage
    <3> HIDE DEF m
    <3> QED
      BY <1>1, <1>3, <1>7, <2>1, <2>2, <2>3, <3>1, ToldFrame
  <2>5. TypeOK'
    <3>1. at' \in Stages /\ at' # "again"
      BY <2>1 DEF Stages, Loops
    <3> QED
      BY <1>1, <1>2, <1>4, <1>5, <2>4, <3>1 DEF TypeOK
  <2>6. Filled'
    BY <1>1, <1>2, <1>5, <2>1 DEF Filled
  <2>7. LimitsInv'
    <3>1. \A n : First(n)' = First(n)
      BY <1>1, CoreSame
    <3>2. at' = "bye" => Len(bad) = 0
      BY <2>1, <1>5
    <3> QED
      BY <1>1, <2>1, <3>1, <3>2 DEF IInv, LimitsInv
  <2>8. ResultInv' /\ KilledLate'
    <3>1. \A n : First(n)' = First(n) /\ Second(n)' = Second(n)
      BY <1>1, CoreSame
    <3>2. ~Over
      BY <1>1 DEF Over
    <3>3. ResultInv'
      BY <1>1, <2>1, <3>1, <3>2 DEF IInv, ResultInv, Alive, Skip
    <3> QED
      BY <2>1, <3>3 DEF KilledLate
  <2> QED
    BY <2>4, <2>5, <2>6, <2>7, <2>8 DEF IInv
<1> QED
  BY <1>4, <1>6, <1>7

LEMMA SayByeInv == ASSUME IInv, SayBye PROVE IInv'
<1> DEFINE m == Need(FALSE)
<1>1. /\ at = "bye" /\ Tell(m, "done")
      /\ UNCHANGED <<pc, task, reply, answers, list, limits, got, bad, j, dx, result>>
  BY DEF SayBye, server
<1>2. /\ TypeOK /\ at \in Loops /\ list # <<>> /\ (j # 1 => Len(bad) > 1)
  BY <1>1 DEF IInv, Filled, Loops, TypeOK
<1>3. i \in DOMAIN list
  BY <1>2 DEF TypeOK
<1>4. /\ Step /\ reset' \subseteq Server
      /\ \/ at' = After("done") /\ Told(m)
         \/ at' = "killed" /\ inbox' = inbox /\ Late(i)
  BY <1>1, <1>3, TellCases
<1>5. /\ i' \in DOMAIN list' /\ i \in Nat /\ i' \in Nat /\ Len(list) \in Nat
      /\ AtEnd => i = Len(list) /\ i' = 1
      /\ ~AtEnd => i' = i + 1
      /\ \A n \in DOMAIN list : /\ One(n) \in {0, 1} /\ (n = i => One(n) = 0)
                                /\ AtEnd => One(n) + Plus(n) = 1 /\ One(n)' = 0
                                /\ ~AtEnd => One(n)' = One(n) + Plus(n)
  BY <1>1, <1>2, <1>4, LoopFacts
<1>6. CASE at' = "killed" /\ inbox' = inbox /\ Late(i)
  <2>1. Filled' /\ Known' /\ InboxInv' /\ ReplyInv' /\ LimitsInv' /\ ResultInv'
    BY <1>1, <1>2, <1>6, KilledFrame
  <2>2. TypeOK'
    BY <1>1, <1>2, <1>4, <1>5, <1>6 DEF TypeOK, Stages
  <2>3. KilledLate'
    BY <1>1, <1>3, <1>6, CoreSame DEF KilledLate, Late, Dead
  <2> QED
    BY <2>1, <2>2, <2>3 DEF IInv
<1>7. CASE at' = After("done") /\ Told(m)
  <2>1. /\ at' \in {"bye", "done"} /\ ~Over'
        /\ ~AtEnd => at' = "bye"
        /\ AtEnd => at' = "done"
    BY <1>1, <1>7 DEF After, Over
  <2>2. ASSUME NEW n \in DOMAIN list PROVE Said(n)' = Said(n) + Plus(n) /\ TakenOf(n)' = TakenOf(n)
    <3>1. /\ Said(n) = 1 + Rounds + One(n) /\ TakenOf(n) = Rounds /\ TakenOf(n)' = Rounds /\ Rounds \in {1, 2}
          /\ Plus(n) \in {0, 1} /\ One(n) \in {0, 1}
      BY <1>1, <1>5, <2>1, <2>2 DEF Said, TakenOf, Plus, Rounds
    <3>2. CASE ~AtEnd
      <4>1. Said(n)' = 1 + Rounds + One(n)' /\ One(n)' = One(n) + Plus(n)
        BY <1>1, <1>5, <2>1, <2>2, <3>2 DEF Said, Rounds
      <4> QED
        BY <3>1, <4>1
    <3>3. CASE AtEnd
      <4>1. Said(n)' = 2 + Rounds
        BY <1>1, <2>1, <3>3 DEF Said, Rounds
      <4>2. One(n) + Plus(n) = 1
        BY <1>5, <2>2, <3>3
      <4> QED
        BY <3>1, <4>1, <4>2
    <3> QED
      BY <3>2, <3>3
  <2>3. m = Message(i, Said(i) + 1) /\ Said(i) + 1 <= 2 + Rounds
    <3>1. Said(i) = 1 + Rounds /\ Said(i) + 1 = 2 + Rounds
      BY <1>1, <1>3, <1>5 DEF Said, Rounds
    <3>2. ASSUME NEW k, (k = 3 /\ bad = <<>>) \/ k = 4 PROVE Message(i, k) = m
      <4>1. (k = 2 /\ bad # <<>>) = FALSE
        BY <3>2
      <4>2. Message(i, k) = Need(k = 2 /\ bad # <<>>)
        BY <3>2 DEF Message
      <4> QED
        BY <4>1, <4>2, Zenon
    <3>4. (2 + Rounds = 3 /\ bad = <<>>) \/ 2 + Rounds = 4
      BY DEF Rounds
    <3>3. 2 + Rounds <= 2 + Rounds
      BY DEF Rounds
    <3> QED
      BY <3>1, <3>2, <3>3, <3>4
  <2>4. inbox' \in [Server -> Seq(Messages)] /\ Known' /\ InboxInv' /\ ReplyInv'
    <3>1. at' # "connect" /\ at \in {"task", "need", "again", "bye"} /\ m \in Messages
      BY <1>1, <2>1, NeedMessage
    <3> HIDE DEF m
    <3> QED
      BY <1>1, <1>3, <1>7, <2>1, <2>2, <2>3, <3>1, ToldFrame
  <2>5. TypeOK'
    <3>1. at' \in Stages /\ at' # "again"
      BY <2>1 DEF Stages, Loops
    <3> QED
      BY <1>1, <1>2, <1>4, <1>5, <2>4, <3>1 DEF TypeOK
  <2>6. Filled'
    BY <1>1, <1>2, <1>5, <2>1 DEF Filled
  <2>7. LimitsInv'
    <3>1. number_of_cpus' = number_of_cpus
      BY <1>1, CoreSame
    <3> QED
      BY <1>1, <2>1, <3>1 DEF IInv, LimitsInv
  <2>8. ResultInv' /\ KilledLate'
    <3>1. \A n : First(n)' = First(n) /\ Second(n)' = Second(n) /\ (Closed(n)' <=> Closed(n))
      BY <1>1, CoreSame
    <3>2. ~Over
      BY <1>1 DEF Over
    <3>3. (\A n \in DOMAIN list : ~Late(n))' => \A n \in DOMAIN list : ~Late(n)
      BY <1>1, <3>1 DEF Late, Dead
    <3>4. ResultInv'
      BY <1>1, <2>1, <3>1, <3>2, <3>3 DEF IInv, ResultInv, Alive, Skip
    <3> QED
      BY <2>1, <3>4 DEF KilledLate
  <2> QED
    BY <2>4, <2>5, <2>6, <2>7, <2>8 DEF IInv
<1> QED
  BY <1>4, <1>6, <1>7

LEMMA RecalculateInv == ASSUME IInv, Recalculate PROVE IInv'
<1> DEFINE L == Len(bad)
<1>1. /\ at = "recalculate"
      /\ \/ number_of_cpus = 0 /\ at' = "killed" /\ dx' = dx
         \/ /\ number_of_cpus # 0 /\ at' = "again"
            /\ dx' = (limits[L].b - limits[L].a) \div number_of_cpus
      /\ UNCHANGED <<pc, task, inbox, reply, reset, answers, list, i, limits, got, bad, j, result>>
  BY DEF Recalculate, server, wires
<1>2. /\ TypeOK /\ list # <<>> /\ Len(limits) = Len(list) /\ Len(got) = Len(list) /\ j = 1 /\ i = 1
      /\ bad # <<>> /\ Len(bad) <= Len(list) /\ ~Over
  BY <1>1 DEF IInv, Filled, Over
<1>3. number_of_cpus' = number_of_cpus /\ \A n : First(n)' = First(n) /\ (Closed(n)' <=> Closed(n))
  BY <1>1 DEF number_of_cpus, OpenCpus, First, Closed, ToSet
<1>4. CASE number_of_cpus = 0 /\ at' = "killed" /\ dx' = dx
  <2>1. Filled' /\ Known' /\ InboxInv' /\ ReplyInv' /\ LimitsInv' /\ ResultInv'
    BY <1>1, <1>2, <1>4, KilledFrame
  <2>2. TypeOK'
    BY <1>1, <1>2, <1>4 DEF TypeOK, Stages, Loops
  <2>3. KilledLate'
    BY <1>3, <1>4 DEF KilledLate
  <2> QED
    BY <2>1, <2>2, <2>3 DEF IInv
<1>5. CASE /\ number_of_cpus # 0 /\ at' = "again"
           /\ dx' = (limits[L].b - limits[L].a) \div number_of_cpus
  <2>1. /\ L \in Nat /\ L # 0 /\ 1 \in DOMAIN bad /\ limits[L] \in Parts
    <3>1. bad \in Seq(1 .. Len(list)) /\ limits \in Seq(Parts)
      BY <1>2 DEF TypeOK
    <3>2. L \in Nat /\ L # 0 /\ 1 \in DOMAIN bad
      BY <1>2, <3>1
    <3>3. L \in DOMAIN limits
      BY <1>2, <3>1, <3>2
    <3> QED
      BY <3>1, <3>2, <3>3
  <2>2. dx' \in Nat
    <3>1. limits[L].b - limits[L].a \in Nat
      BY <2>1 DEF Parts
    <3>2. number_of_cpus \in Nat
      BY <1>2, OpenFacts
    <3> QED
      BY <1>5, <3>1, <3>2, Quotient
  <2>3. TypeOK'
    <3>1. at' \in Stages /\ (at' \in Loops => i' \in DOMAIN list')
      BY <1>1, <1>2, <1>5 DEF TypeOK, Stages, Loops
    <3> QED
      BY <1>1, <1>2, <2>1, <2>2, <3>1 DEF TypeOK
  <2>4. Filled'
    BY <1>1, <1>2, <1>5 DEF Filled
  <2>5. Known'
    BY <1>1, <1>5 DEF IInv, Known, Dead, ToSet
  <2>6. ASSUME NEW n \in DOMAIN list, L <= 1 PROVE InboxOf(n)' /\ ReplyOf(n)'
    <3>1. InboxOf(n) /\ ReplyOf(n)
      BY <1>2, <2>6, AtServer
    <3>2. n \in 1 .. Len(list) /\ list[n] \in Server
      BY <1>2, <2>6, ListFacts
    <3>3. /\ Said(n) = 2 /\ Said(n)' = 2 /\ TakenOf(n) = 1 /\ TakenOf(n)' = 1 /\ ~Over'
          /\ Rounds = 2 /\ Rounds' = 2
      BY <1>1, <1>2, <1>5, <3>2 DEF Said, TakenOf, One, Over, Rounds
    <3>4. Dead(list[n])' <=> Dead(list[n])
      BY <1>1 DEF Dead
    <3>5. CASE Dead(list[n])
      BY <3>3, <3>4, <3>5 DEF InboxOf, ReplyOf
    <3>6. CASE ~Dead(list[n])
      <4>1. Follows(n, 2)
        BY <1>2, <3>1, <3>3, <3>6 DEF InboxOf
      <4>2. PICK x : x = Len(inbox[list[n]])
        OBVIOUS
      <4>3. inbox[list[n]] \in Seq(Messages) /\ x \in Nat /\ DOMAIN inbox[list[n]] = 1 .. x
        BY <1>2, <3>2, <4>2 DEF TypeOK
      <4>4. PICK r : r = 2 - x
        OBVIOUS
      <4>5. r \in 0 .. 2 /\ Placed(n, r) /\ \A k \in 1 .. x : inbox[list[n]][k] = Message(n, r + k)
        <5>1. 2 - Len(inbox[list[n]]) = r
          BY <4>2, <4>4
        <5>2. r >= 0 /\ Placed(n, r) /\ \A k \in 1 .. x : inbox[list[n]][k] = Message(n, r + k)
          BY <4>1, <4>3, <5>1 DEF Follows
        <5>3. r \in 0 .. 2
          BY ONLY <4>3, <4>4, <5>2
        <5> QED
          BY <5>2, <5>3
      <4>6. \A k \in 1 .. x : r + k <= 2
        BY <4>3, <4>4
      <4>7. \A k : k # 3 => Message(n, k)' = Message(n, k)
        BY <1>1, <1>3 DEF Message, Limits, Need
      <4>8. \A k \in 1 .. x : inbox[list[n]][k] = Message(n, r + k)'
        <5>1. \A k \in 1 .. x : r + k # 3
          BY <4>3, <4>5, <4>6
        <5> QED
          BY <4>5, <4>7, <5>1
      <4>9. Placed(n, r)'
        BY <1>1, <3>3, <4>5 DEF Placed
      <4>10. Follows(n, 2)'
        <5>1. inbox'[list'[n]] = inbox[list[n]] /\ 2 - x = r
          BY <1>1, <4>4
        <5>2. (2 - Len(inbox[list[n]]))' = r
          BY <4>2, <5>1
        <5>3. (\A k \in DOMAIN inbox[list[n]] : inbox[list[n]][k] = Message(n, (2 - Len(inbox[list[n]])) + k))'
          BY <4>3, <4>8, <5>1, <5>2
        <5>4. (2 \in 0 .. 2 + Rounds /\ 2 - Len(inbox[list[n]]) >= 0)'
          BY <3>3, <4>5, <5>2
        <5>5. Placed(n, 2 - Len(inbox[list[n]]))'
          BY <4>9, <5>2 DEF Placed
        <5> QED
          BY <5>3, <5>4, <5>5 DEF Follows
      <4>11. InboxOf(n)'
        BY <3>3, <4>10 DEF InboxOf, Follows
      <4>12. Len(reply[list[n]]) = AnswersOf(n) - 1 /\ Len(reply[list[n]]) \in Nat
        <5>1. reply[list[n]] \in Seq(Seq(Parts))
          BY <1>2, <3>2 DEF TypeOK
        <5> QED
          BY <3>1, <3>3, <3>6, <5>1 DEF ReplyOf
      <4>13. AnswersOf(n) \in {0, 1} /\ (pc[list[n]] = "calculate" => AnswersOf(n) = 0)
        <5>1. r = 0 \/ r = 1 \/ r = 2
          BY <4>5
        <5>2. Said(n) - Len(inbox[list[n]]) = r
          BY <3>3, <4>2, <4>4
        <5>3. pc[list[n]] # "ready"
          BY <1>2, <3>3, <4>5, <5>1 DEF Placed
        <5>4. pc[list[n]] \in {"calculate", "need"} => r = 1
          BY <4>5, <5>1 DEF Placed
        <5> QED
          BY <5>2, <5>3, <5>4 DEF AnswersOf
      <4>14. AnswersOf(n) = 1 /\ pc[list[n]] # "calculate" /\ Len(reply[list[n]]) = 0
        BY <4>12, <4>13
      <4>15. (Said(n) - Len(inbox[list[n]]))' = Said(n) - Len(inbox[list[n]])
        BY <1>1, <3>3
      <4>16. AnswersOf(n)' = AnswersOf(n)
        BY <1>1, <3>3, <4>15 DEF AnswersOf
      <4>17. DOMAIN reply[list[n]] = {}
        BY <1>2, <3>2, <4>14 DEF TypeOK
      <4>18. ReplyOf(n)'
        <5>1. reply'[list'[n]] = reply[list[n]] /\ pc'[list'[n]] = pc[list[n]] /\ 1 - 1 = 0
          BY <1>1
        <5> QED
          BY <3>3, <3>4, <3>6, <4>14, <4>16, <4>17, <5>1 DEF ReplyOf
      <4> QED
        BY <4>11, <4>18
    <3> QED
      BY <3>5, <3>6
  <2>7. InboxInv' /\ ReplyInv'
    BY <1>1, <2>6 DEF InboxInv, ReplyInv
  <2>8. LimitsInv'
    <3>1. ASSUME L = 1 PROVE /\ limits[1] = First(1) /\ limits[bad[1]] = First(bad[1])
                             /\ dx' = (Grain * Cpus[list[1]]) \div number_of_cpus
      <4>1. \A n \in DOMAIN limits : limits[n] = First(n)
        BY <1>1 DEF IInv, LimitsInv
      <4>2. bad[1] \in 1 .. Len(list) /\ 1 \in 1 .. Len(list) /\ Len(list) \in Nat
        <5>1. bad \in Seq(1 .. Len(list)) /\ Len(list) \in Nat
          BY <1>2, ListFacts DEF TypeOK
        <5>2. bad[1] \in 1 .. Len(list)
          BY <2>1, <5>1
        <5>3. 1 <= Len(list)
          BY <5>1, <5>2
        <5> QED
          BY <5>1, <5>2, <5>3
      <4>3. limits \in Seq(Parts)
        BY <1>2 DEF TypeOK
      <4>4. bad[1] \in DOMAIN limits /\ 1 \in DOMAIN limits
        BY <1>2, <4>2, <4>3
      <4>5. 1 \in DOMAIN list
        BY <1>2, <4>2, ListFacts
      <4>6. First(1).b - First(1).a = Grain * Cpus[list[1]]
        BY <1>2, <4>5, FirstFacts
      <4> QED
        BY <1>5, <3>1, <4>1, <4>4, <4>6
    <3> QED
      BY <1>1, <1>3, <1>5, <3>1 DEF LimitsInv
  <2>9. ResultInv' /\ KilledLate'
    <3>1. ASSUME Len(bad) <= 1
          PROVE  /\ Len(result) = Alive
                 /\ \A q \in DOMAIN result : result[q] = IF q <= Alive THEN First(Skip(q)) ELSE Second(Skip(q - Alive))
      BY <1>1, <1>2, <3>1 DEF IInv, ResultInv
    <3>2. Alive' = Alive /\ \A q : Skip(q)' = Skip(q)
      BY <1>1 DEF Alive, Skip
    <3>3. ASSUME Len(bad) <= 1, NEW q \in DOMAIN result PROVE q <= Alive /\ result[q] = First(Skip(q))
      <4>1. result \in Seq(Parts)
        BY <1>2 DEF TypeOK
      <4>2. q \in 1 .. Len(result)
        BY <4>1
      <4> QED
        BY <3>1, <3>3, <4>2
    <3>4. \A q : First(Skip(q))' = First(Skip(q))
      BY <1>1, <3>2 DEF First
    <3> QED
      BY <1>1, <1>5, <3>1, <3>2, <3>3, <3>4 DEF ResultInv, KilledLate
  <2> QED
    BY <2>3, <2>4, <2>5, <2>7, <2>8, <2>9 DEF IInv
<1> QED
  BY <1>1, <1>4, <1>5

LEMMA ReplaceOne ==
  ASSUME NEW S, NEW f \in Seq(S), NEW n, NEW x \in S
  PROVE  [f EXCEPT ![n] = x] \in Seq(S) /\ Len([f EXCEPT ![n] = x]) = Len(f)
<1> DEFINE N == Len(f)
           g == [f EXCEPT ![n] = x]
<1>1. N \in Nat /\ f \in [1 .. N -> S]
  OBVIOUS
<1>2. g \in [1 .. N -> S]
  BY <1>1
<1> HIDE DEF g, N
<1>3. g \in Seq(S) /\ Len(g) = N
  BY <1>1, <1>2
<1> QED
  BY <1>3 DEF g, N

LEMMA GiveAgainInv == ASSUME IInv, GiveAgain PROVE IInv'
<1> DEFINE from == limits[bad[j]].a + dx * OpenCpus(i)
           part == [a |-> from, b |-> from + dx * Cpus[list[i]]]
           more == AtEnd /\ j < Len(bad)
           next == IF more THEN "again" ELSE "more"
<1>1. /\ at = "again" /\ Tell(Limits(part), next)
      /\ limits' = (IF Closed(i) THEN limits ELSE [limits EXCEPT ![i] = part])
      /\ j' = (IF more THEN j + 1 ELSE j)
      /\ UNCHANGED <<pc, task, reply, answers, list, got, bad, dx, result>>
  BY DEF GiveAgain, server
<1>2. /\ TypeOK /\ at \in Loops /\ list # <<>> /\ Len(limits) = Len(list) /\ Len(got) = Len(list)
      /\ bad # <<>> /\ Len(bad) <= Len(list) /\ (j # 1 => Len(bad) > 1) /\ ~Over
      /\ Len(limits) \in Nat /\ Len(got) \in Nat /\ Len(bad) \in Nat
  <2>1. /\ TypeOK /\ at \in Loops /\ list # <<>> /\ Len(limits) = Len(list) /\ Len(got) = Len(list)
        /\ bad # <<>> /\ Len(bad) <= Len(list) /\ (j # 1 => Len(bad) > 1) /\ ~Over
    BY <1>1 DEF IInv, Filled, Loops, Over
  <2>2. Len(limits) \in Nat /\ Len(got) \in Nat /\ Len(bad) \in Nat
    BY <2>1 DEF TypeOK
  <2> QED
    BY <2>1, <2>2
<1>3. i \in DOMAIN list /\ j \in Nat /\ j \in 1 .. Len(bad)
  BY <1>1, <1>2 DEF TypeOK
<1>4. /\ Step /\ reset' \subseteq Server
      /\ \/ at' = After(next) /\ Told(Limits(part))
         \/ at' = "killed" /\ inbox' = inbox /\ Late(i)
  <2> HIDE DEF part, next
  <2> QED
    BY <1>1, <1>3, TellCases
<1>5. /\ i' \in DOMAIN list' /\ i \in Nat /\ i' \in Nat /\ Len(list) \in Nat
      /\ AtEnd => i = Len(list) /\ i' = 1
      /\ ~AtEnd => i' = i + 1
      /\ \A n \in DOMAIN list : /\ One(n) \in {0, 1} /\ (n = i => One(n) = 0)
                                /\ AtEnd => One(n) + Plus(n) = 1 /\ One(n)' = 0
                                /\ ~AtEnd => One(n)' = One(n) + Plus(n)
  BY <1>1, <1>2, <1>4, LoopFacts
<1>6. part \in Parts /\ (Len(bad) = 1 => part = Second(i))
  <2>1. i \in 1 .. Len(list)
    BY <1>2, <1>3, ListFacts
  <2>2. bad \in Seq(1 .. Len(list)) /\ limits \in Seq(Parts) /\ dx \in Nat
    BY <1>2 DEF TypeOK
  <2>3. bad[j] \in 1 .. Len(list)
    BY <1>3, <2>2
  <2>4. limits[bad[j]] \in Parts
    BY <1>2, <2>2, <2>3
  <2>5. OpenCpus(i) \in Nat /\ Cpus[list[i]] \in Nat
    <3>1. i \in 1 .. Len(list) + 1
      BY <1>5, <2>1
    <3> QED
      BY <1>2, <1>3, <3>1, OpenFacts, ListFacts
  <2>6. dx * OpenCpus(i) \in Nat /\ dx * Cpus[list[i]] \in Nat
    BY <2>2, <2>5, Product
  <2>7. limits[bad[j]].a \in Nat /\ from \in Nat
    BY <2>4, <2>6 DEF Parts
  <2>8. part \in Parts
    <3> HIDE DEF from
    <3> QED
      BY <2>6, <2>7 DEF Parts
  <2>9. ASSUME Len(bad) = 1 PROVE part = Second(i)
    <3>1. j = 1 /\ limits[bad[1]] = First(bad[1])
      BY <1>1, <1>3, <2>9 DEF IInv, LimitsInv
    <3>2. ToSet(bad) = {bad[1]}
      BY <1>2, <2>9, OneBad
    <3> QED
      BY <3>1, <3>2 DEF Second, OpenCpus
  <2> QED
    BY <2>8, <2>9
<1> HIDE DEF part
<1>7. /\ limits' \in Seq(Parts) /\ Len(limits') = Len(limits)
      /\ Len(bad) = 1 => limits'[bad[1]] = limits[bad[1]]
  <2>1. limits \in Seq(Parts)
    BY <1>2 DEF TypeOK
  <2>2. Len(bad) = 1 => (Closed(i) <=> i = bad[1])
    BY <1>2, <1>3, OneBad
  <2>3. CASE Closed(i)
    BY <1>1, <2>1, <2>3
  <2>4. CASE ~Closed(i)
    <3>1. limits' = [limits EXCEPT ![i] = part]
      BY <1>1, <2>4
    <3>2. limits' \in Seq(Parts) /\ Len(limits') = Len(limits)
      BY <1>6, <2>1, <3>1, ReplaceOne
    <3>3. ASSUME Len(bad) = 1 PROVE limits'[bad[1]] = limits[bad[1]]
      <4>1. bad[1] \in 1 .. Len(list) /\ bad[1] # i
        BY <1>2, <2>2, <2>4, <3>3 DEF TypeOK
      <4>2. bad[1] \in DOMAIN limits
        BY <1>2, <2>1, <4>1
      <4> QED
        BY <3>1, <4>1, <4>2
    <3> QED
      BY <3>2, <3>3
  <2> QED
    BY <2>3, <2>4
<1>8. j' \in Nat /\ (j' = 1 \/ Len(bad) > 1) /\ (more => j' \in 1 .. Len(bad)) /\ (~more => j' = j)
  BY <1>1, <1>2, <1>3
<1>9. CASE at' = "killed" /\ inbox' = inbox /\ Late(i)
  <2>1. Filled' /\ Known' /\ InboxInv' /\ ReplyInv' /\ LimitsInv' /\ ResultInv'
    BY <1>1, <1>2, <1>8, <1>9, KilledFrame
  <2>2. TypeOK'
    BY <1>1, <1>2, <1>4, <1>5, <1>7, <1>8, <1>9 DEF TypeOK, Stages
  <2>3. KilledLate'
    BY <1>1, <1>3, <1>9, CoreSame DEF KilledLate, Late, Dead
  <2> QED
    BY <2>1, <2>2, <2>3 DEF IInv
<1>10. CASE at' = After(next) /\ Told(Limits(part))
  <2>1. /\ at' \in {"again", "more"} /\ ~Over'
        /\ ~AtEnd => at' = "again" /\ j' = j
        /\ more => at' = "again"
        /\ AtEnd /\ ~more => at' = "more"
        /\ Len(bad) <= 1 => ~more
    BY <1>1, <1>2, <1>3, <1>10 DEF After, Over
  <2>2. ASSUME NEW n \in DOMAIN list, Len(bad) <= 1
        PROVE  Said(n)' = Said(n) + Plus(n) /\ TakenOf(n)' = TakenOf(n)
    <3>1. /\ Said(n) = 2 + One(n) /\ TakenOf(n) = 1 /\ Plus(n) \in {0, 1} /\ One(n) \in {0, 1}
      BY <1>1, <1>5, <2>2 DEF Said, TakenOf, Plus
    <3>2. CASE ~AtEnd
      <4>1. Said(n)' = 2 + One(n)' /\ TakenOf(n)' = 1 /\ One(n)' = One(n) + Plus(n)
        BY <1>5, <2>1, <2>2, <3>2 DEF Said, TakenOf
      <4> QED
        BY <3>1, <4>1
    <3>3. CASE AtEnd
      <4>1. at' = "more"
        BY <2>1, <2>2, <3>3
      <4>2. Said(n)' = 3 /\ TakenOf(n)' = 1 + One(n)' /\ One(n)' = 0
        BY <1>5, <2>2, <3>3, <4>1 DEF Said, TakenOf
      <4>3. One(n) + Plus(n) = 1
        BY <1>5, <2>2, <3>3
      <4> QED
        BY <3>1, <4>2, <4>3
    <3> QED
      BY <3>2, <3>3
  <2>3. Len(bad) <= 1 => Limits(part) = Message(i, Said(i) + 1) /\ Said(i) + 1 <= 2 + Rounds
    <3>1. Said(i) = 2 /\ Rounds = 2
      BY <1>1, <1>2, <1>3, <1>5 DEF Said, Rounds
    <3>2. Len(bad) <= 1 => Len(bad) = 1
      BY <1>2, OneBad
    <3> QED
      BY <1>2, <1>6, <3>1, <3>2 DEF Message
  <2>4. inbox' \in [Server -> Seq(Messages)] /\ Known' /\ InboxInv' /\ ReplyInv'
    <3>1. at' # "connect" /\ at \in {"task", "need", "again", "bye"} /\ Limits(part) \in Messages
      BY <1>1, <1>6, <2>1, LimitsMessage
    <3> QED
      BY <1>1, <1>3, <1>10, <2>1, <2>2, <2>3, <3>1, ToldFrame
  <2>5. TypeOK'
    <3>1. at' \in Stages /\ (at' = "again" => j' \in DOMAIN bad')
      <4>1. at' = "again" => j' \in 1 .. Len(bad)
        BY <1>3, <1>8, <2>1
      <4>2. bad \in Seq(1 .. Len(list))
        BY <1>2 DEF TypeOK
      <4> QED
        BY <1>1, <2>1, <4>1, <4>2 DEF Stages, Loops
    <3>2. Len(limits') <= Len(list')
      BY <1>1, <1>2, <1>7
    <3> QED
      BY <1>1, <1>2, <1>4, <1>5, <1>7, <1>8, <2>4, <3>1, <3>2 DEF TypeOK
  <2>6. Filled'
    BY <1>1, <1>2, <1>7, <1>8, <2>1 DEF Filled
  <2>7. LimitsInv'
    <3>1. number_of_cpus' = number_of_cpus /\ \A n : First(n)' = First(n)
      BY <1>1, CoreSame
    <3>2. Len(bad) = 1 => /\ number_of_cpus # 0 /\ dx = (Grain * Cpus[list[1]]) \div number_of_cpus
                          /\ limits'[bad[1]] = First(bad[1])
      BY <1>1, <1>7 DEF IInv, LimitsInv
    <3> QED
      BY <1>1, <2>1, <3>1, <3>2 DEF LimitsInv
  <2>8. ResultInv' /\ KilledLate'
    <3>1. /\ \A n : First(n)' = First(n) /\ Second(n)' = Second(n)
          /\ Alive' = Alive /\ \A q : Skip(q)' = Skip(q)
      BY <1>1, CoreSame DEF Alive, Skip
    <3>2. ASSUME Len(bad) <= 1, at' = "more" PROVE Alive + Before' = Alive
      <4>1. i' = 1
        BY <1>5, <2>1, <3>2
      <4>2. bad[1] \in 1 .. Len(list)
        BY <1>2, <3>2, OneBad DEF TypeOK
      <4>3. Before' = 0
        BY <1>1, <4>1, <4>2 DEF Before
      <4>4. Alive \in Int
        BY <1>2, <1>5 DEF Alive
      <4> QED
        BY <4>3, <4>4
    <3>3. ASSUME Len(bad) <= 1
          PROVE  /\ Len(result) = Alive
                 /\ \A q \in DOMAIN result : result[q] = IF q <= Alive THEN First(Skip(q)) ELSE Second(Skip(q - Alive))
      BY <1>1, <1>2, <3>3 DEF IInv, ResultInv
    <3>4. ResultInv'
      BY <1>1, <2>1, <3>1, <3>2, <3>3 DEF ResultInv
    <3> QED
      BY <2>1, <3>4 DEF KilledLate
  <2> QED
    BY <2>4, <2>5, <2>6, <2>7, <2>8 DEF IInv
<1> QED
  BY <1>4, <1>9, <1>10

\* What it is for the first answer of s to be taken.
Removed(s) ==
  /\ reply' \in [Server -> Seq(Seq(Parts))]
  /\ \A u \in Server : u # s => reply'[u] = reply[u]
  /\ Len(reply[s]) \in Nat /\ Len(reply'[s]) = Len(reply[s]) - 1
  /\ 1 \in DOMAIN reply[s] /\ Head(reply[s]) = reply[s][1] /\ Head(reply[s]) \in Seq(Parts)
  /\ \A k \in DOMAIN reply'[s] : k \in Nat /\ k + 1 \in DOMAIN reply[s] /\ reply'[s][k] = reply[s][k + 1]

LEMMA RemoveReply ==
  ASSUME TypeOK, NEW s \in Server, reply[s] # <<>>, reply' = [reply EXCEPT ![s] = Tail(reply[s])]
  PROVE  Removed(s)
<1>1. reply \in [Server -> Seq(Seq(Parts))] /\ reply[s] \in Seq(Seq(Parts))
  BY DEF TypeOK
<1>2. Tail(reply[s]) \in Seq(Seq(Parts)) /\ reply'[s] = Tail(reply[s])
  BY <1>1
<1>3. reply' \in [Server -> Seq(Seq(Parts))] /\ \A u \in Server : u # s => reply'[u] = reply[u]
  BY <1>1, <1>2
<1>4. /\ Len(reply[s]) \in Nat /\ Len(Tail(reply[s])) = Len(reply[s]) - 1
      /\ 1 \in DOMAIN reply[s] /\ Head(reply[s]) = reply[s][1] /\ Head(reply[s]) \in Seq(Parts)
  BY <1>1
<1>5. \A k \in DOMAIN Tail(reply[s]) :
        k \in Nat /\ k + 1 \in DOMAIN reply[s] /\ Tail(reply[s])[k] = reply[s][k + 1]
  BY <1>1
<1> QED
  BY <1>2, <1>3, <1>4, <1>5, Zenon DEF Removed

\* What it is for x to be put at the end of f.
Extended(f, x, S) ==
  /\ Append(f, x) \in Seq(S) /\ Len(f) \in Nat /\ Len(Append(f, x)) = Len(f) + 1
  /\ \A k \in DOMAIN Append(f, x) :
       /\ k \in Nat
       /\ \/ k \in 1 .. Len(f) /\ k \in DOMAIN f /\ Append(f, x)[k] = f[k]
          \/ k = Len(f) + 1 /\ Append(f, x)[k] = x

LEMMA ExtendOne ==
  ASSUME NEW S, NEW f \in Seq(S), NEW x \in S
  PROVE  Extended(f, x, S) /\ f \o <<x>> = Append(f, x)
<1>1. Append(f, x) \in Seq(S) /\ Len(f) \in Nat /\ Len(Append(f, x)) = Len(f) + 1
  OBVIOUS
<1>2. \A k \in DOMAIN Append(f, x) :
        /\ k \in Nat
        /\ \/ k \in 1 .. Len(f) /\ k \in DOMAIN f /\ Append(f, x)[k] = f[k]
           \/ k = Len(f) + 1 /\ Append(f, x)[k] = x
  OBVIOUS
<1>3. f \o <<x>> = Append(f, x)
  OBVIOUS
<1> QED
  BY <1>1, <1>2, <1>3 DEF Extended

\* The answer that the client takes, and the answers that are left.
LEMMA TakenReply ==
  ASSUME TypeOK, NEW n \in DOMAIN list, NEW s, s = list[n], ReplyOf(n), ~Dead(s), Removed(s),
         UNCHANGED <<pc, task, inbox, list, bad, dx>>,
         Said(n)' = Said(n), TakenOf(n) \in Nat, TakenOf(n)' = TakenOf(n) + 1
  PROVE  ReplyOf(n)' /\ Head(reply[s]) = <<Answer(n, TakenOf(n) + 1)>>
<1>1. PICK t, x, y : t = TakenOf(n) /\ x = Len(reply[s]) /\ y = AnswersOf(n)
  OBVIOUS
<1>2. /\ x = y - t /\ \A k \in DOMAIN reply[s] : reply[s][k] = <<Answer(n, t + k)>>
      /\ pc[s] = "calculate" => task[s] = Answer(n, y + 1)
  BY <1>1 DEF ReplyOf
<1>3. x \in Nat /\ t \in Nat /\ y \in Int
  BY <1>1 DEF Removed, AnswersOf, Rounds
<1>4. Len(reply'[s]) = x - 1
  BY <1>1 DEF Removed
<1>5. x - 1 = y - (t + 1)
  BY ONLY <1>2, <1>3
<1>6. \A k : Answer(n, k)' = Answer(n, k)
  BY CoreSame
<1>7. \A k \in DOMAIN reply'[s] : reply'[s][k] = <<Answer(n, (t + 1) + k)>>
  <2> SUFFICES ASSUME NEW k \in DOMAIN reply'[s] PROVE reply'[s][k] = <<Answer(n, (t + 1) + k)>>
    OBVIOUS
  <2>1. k \in Nat /\ k + 1 \in DOMAIN reply[s] /\ reply'[s][k] = reply[s][k + 1]
    BY DEF Removed
  <2>2. t + (k + 1) = (t + 1) + k
    BY <1>3, <2>1
  <2> QED
    BY <1>2, <2>1, <2>2
<1>8. AnswersOf(n)' = y
  BY <1>1 DEF AnswersOf, Rounds
<1>9. TakenOf(n)' = t + 1 /\ ~Dead(list[n])' /\ list'[n] = s /\ task'[s] = task[s] /\ pc'[s] = pc[s]
  BY <1>1 DEF Dead
<1>10. ReplyOf(n)'
  BY <1>2, <1>4, <1>5, <1>6, <1>7, <1>8, <1>9 DEF ReplyOf
<1>11. Head(reply[s]) = <<Answer(n, t + 1)>>
  BY <1>2 DEF Removed
<1> QED
  BY <1>1, <1>10, <1>11

\* The servers that the step of the client is not about.
LEMMA OtherReply ==
  ASSUME NEW n, ReplyOf(n), UNCHANGED <<pc, task, inbox, list, dx, bad>>, reply'[list[n]] = reply[list[n]],
         Said(n)' = Said(n), TakenOf(n)' = TakenOf(n)
  PROVE  ReplyOf(n)'
<1>1. \A k : First(n)' = First(n) /\ Answer(n, k)' = Answer(n, k)
  BY CoreSame
<1>2. AnswersOf(n)' = AnswersOf(n)
  BY DEF AnswersOf, Rounds
<1>3. list'[n] = list[n] /\ (Dead(list[n])' <=> Dead(list[n]))
  BY DEF Dead
<1> QED
  BY <1>1, <1>2, <1>3 DEF ReplyOf

LEMMA TakeAgainInv == ASSUME IInv, TakeAgain PROVE IInv'
<1> DEFINE s == list[i]
           sum == IF reply[s] = <<>> THEN got[i] ELSE Head(reply[s])
<1>1. /\ at = "more" /\ at' = After("bye") /\ Step
      /\ \/ /\ ~Closed(i)
            /\ reply[s] # <<>> \/ Dead(s)
            /\ got' = [got EXCEPT ![i] = sum]
            /\ result' = result \o sum
            /\ reply' = [reply EXCEPT ![s] = IF reply[s] = <<>> THEN reply[s] ELSE Tail(reply[s])]
         \/ Closed(i) /\ UNCHANGED <<got, result, reply>>
      /\ UNCHANGED <<pc, task, inbox, reset, answers, list, limits, bad, j, dx>>
  BY DEF TakeAgain, server
<1>2. /\ TypeOK /\ at \in Loops /\ list # <<>> /\ Len(limits) = Len(list) /\ Len(got) = Len(list)
      /\ bad # <<>> /\ (j # 1 => Len(bad) > 1) /\ ~Over /\ Len(bad) <= Len(list)
  BY <1>1 DEF IInv, Filled, Loops, Over
<1>3. i \in 1 .. Len(list) /\ i \in DOMAIN list /\ s \in Server
  BY <1>2, ListFacts DEF TypeOK
<1>4. /\ i' \in DOMAIN list' /\ i \in Nat /\ i' \in Nat /\ Len(list) \in Nat
      /\ AtEnd => i = Len(list) /\ i' = 1
      /\ ~AtEnd => i' = i + 1
      /\ \A n \in DOMAIN list : /\ One(n) \in {0, 1} /\ (n = i => One(n) = 0)
                                /\ AtEnd => One(n) + Plus(n) = 1 /\ One(n)' = 0
                                /\ ~AtEnd => One(n)' = One(n) + Plus(n)
  BY <1>1, <1>2, LoopFacts
<1>5. at' \in {"more", "bye"} /\ (~AtEnd => at' = "more") /\ (AtEnd => at' = "bye") /\ ~Over'
  BY <1>1 DEF After, Over
<1>6. /\ reply' \in [Server -> Seq(Seq(Parts))] /\ \A u \in Server : u # s => reply'[u] = reply[u]
      /\ ~Closed(i) /\ reply[s] # <<>> => Removed(s)
  <2>1. reply \in [Server -> Seq(Seq(Parts))]
    BY <1>2 DEF TypeOK
  <2>2. CASE ~Closed(i) /\ reply[s] # <<>>
    <3>1. reply' = [reply EXCEPT ![s] = Tail(reply[s])]
      BY <1>1, <2>2
    <3>2. Removed(s)
      BY <1>2, <1>3, <2>2, <3>1, RemoveReply
    <3> QED
      BY <2>2, <3>2 DEF Removed
  <2>3. CASE Closed(i) \/ reply[s] = <<>>
    <3>1. reply' = reply
      BY <1>1, <2>1, <2>3
    <3> QED
      BY <2>1, <2>3, <3>1
  <2> QED
    BY <2>2, <2>3
<1>7. TypeOK' /\ Len(got') = Len(list')
  <2>1. got \in Seq(Seq(Parts)) /\ result \in Seq(Parts)
    BY <1>2 DEF TypeOK
  <2>2. sum \in Seq(Parts)
    <3>1. got[i] \in Seq(Parts)
      BY <1>2, <1>3, <2>1
    <3>2. reply[s] # <<>> => Head(reply[s]) \in Seq(Parts)
      <4>1. reply[s] \in Seq(Seq(Parts))
        BY <1>2, <1>3 DEF TypeOK
      <4> QED
        BY <4>1
    <3> QED
      BY <3>1, <3>2
  <2> HIDE DEF sum
  <2>3. got' \in Seq(Seq(Parts)) /\ Len(got') = Len(got)
    <3>1. [got EXCEPT ![i] = sum] \in Seq(Seq(Parts)) /\ Len([got EXCEPT ![i] = sum]) = Len(got)
      BY <2>1, <2>2, ReplaceOne
    <3> QED
      BY <1>1, <2>1, <3>1
  <2>4. result' \in Seq(Parts)
    <3>1. result \o sum \in Seq(Parts)
      BY <2>1, <2>2
    <3> QED
      BY <1>1, <2>1, <3>1
  <2>5. at' \in Stages /\ at' # "again"
    BY <1>5 DEF Stages, Loops
  <2>6. Len(got') = Len(list')
    BY <1>1, <1>2, <2>3
  <2>7. Len(got') <= Len(list')
    BY <1>1, <1>4, <2>6
  <2> QED
    BY <1>1, <1>2, <1>4, <1>6, <2>3, <2>4, <2>5, <2>6, <2>7 DEF TypeOK
<1>8. Filled'
  BY <1>1, <1>2, <1>5, <1>7 DEF Filled
<1>9. Known'
  <2>1. ToSet(list)' = ToSet(list) /\ s \in ToSet(list)
    BY <1>1, <1>3 DEF ToSet
  <2> QED
    BY <1>1, <1>6, <2>1 DEF IInv, Known, Dead
<1>10. \A n \in DOMAIN list : Closed(n) => Dead(list[n])
  BY DEF IInv, Known, Closed, ToSet
<1>11. ASSUME NEW n \in DOMAIN list, Len(bad) <= 1 PROVE InboxOf(n)' /\ ReplyOf(n)'
  <2>1. InboxOf(n) /\ ReplyOf(n) /\ list[n] \in Server
    BY <1>2, <1>11, AtServer, ListFacts
  <2>2. Said(n) = 3 /\ Said(n)' = 3 /\ TakenOf(n) \in Nat /\ TakenOf(n)' = TakenOf(n) + Plus(n) /\ TakenOf(n)' # 0
    <3>1. Said(n) = 3 /\ TakenOf(n) = 1 + One(n) /\ One(n) \in {0, 1} /\ Plus(n) \in {0, 1}
      BY <1>1, <1>4, <1>11 DEF Said, TakenOf, Plus
    <3>2. CASE ~AtEnd
      <4>1. Said(n)' = 3 /\ TakenOf(n)' = 1 + One(n)' /\ One(n)' = One(n) + Plus(n)
        BY <1>4, <1>5, <1>11, <3>2 DEF Said, TakenOf
      <4> QED
        BY <3>1, <4>1
    <3>3. CASE AtEnd
      <4>1. Said(n)' = 1 + 2 + One(n)' /\ TakenOf(n)' = 2 /\ One(n)' = 0 /\ One(n) + Plus(n) = 1
        BY <1>1, <1>2, <1>4, <1>5, <1>11, <3>3 DEF Said, TakenOf, Rounds
      <4> QED
        BY <3>1, <4>1
    <3> QED
      BY <3>2, <3>3
  <2>3. Dead(list[n])' <=> Dead(list[n])
    BY <1>1 DEF Dead
  <2>4. CASE Dead(list[n])
    BY <2>2, <2>3, <2>4 DEF InboxOf, ReplyOf
  <2>5. CASE ~Dead(list[n])
    <3>1. Follows(n, 3)
      BY <1>2, <2>1, <2>2, <2>5 DEF InboxOf
    <3>2. Follows(n, 3)'
      BY <1>1, <3>1, SameFollows
    <3>3. InboxOf(n)'
      BY <1>5, <2>2, <3>2 DEF InboxOf, Follows
    <3>4. ReplyOf(n)'
      <4>1. CASE n = i
        <5>1. ~Closed(i) /\ ~Dead(s)
          BY <1>10, <1>3, <2>5, <4>1
        <5>2. Removed(s)
          BY <1>1, <1>6, <5>1
        <5>3. TakenOf(n)' = TakenOf(n) + 1
          BY <2>2, <4>1 DEF Plus
        <5> QED
          BY <1>1, <1>2, <2>1, <2>2, <4>1, <5>1, <5>2, <5>3, TakenReply
      <4>2. CASE n # i
        <5>1. list[n] # s
          BY <1>2, <1>3, <1>11, <4>2, ListFacts
        <5>2. TakenOf(n)' = TakenOf(n)
          BY <2>2, <4>2 DEF Plus
        <5> QED
          BY <1>1, <1>6, <2>1, <2>2, <5>1, <5>2, OtherReply
      <4> QED
        BY <4>1, <4>2
    <3> QED
      BY <3>3, <3>4
  <2> QED
    BY <2>4, <2>5
<1>12. InboxInv' /\ ReplyInv'
  BY <1>1, <1>11 DEF InboxInv, ReplyInv
<1>13. LimitsInv' /\ KilledLate'
  <2>1. number_of_cpus' = number_of_cpus
    BY <1>1, CoreSame
  <2> QED
    BY <1>1, <1>5, <2>1 DEF IInv, LimitsInv, KilledLate
<1>14. ResultInv'
  <2> SUFFICES ASSUME Len(bad) <= 1, \A n \in DOMAIN list : ~Late(n)
               PROVE  /\ at' = "more" => Len(result') = Alive + Before'
                      /\ at' = "bye" => Len(result') = 2 * Alive
                      /\ \A q \in DOMAIN result' :
                           result'[q] = IF q <= Alive THEN First(Skip(q)) ELSE Second(Skip(q - Alive))
    <3>1. \A n : First(n)' = First(n) /\ Second(n)' = Second(n) /\ (Closed(n)' <=> Closed(n))
      BY <1>1, CoreSame
    <3>2. (\A n \in DOMAIN list : ~Late(n))' => \A n \in DOMAIN list : ~Late(n)
      BY <1>1, <3>1 DEF Late, Dead
    <3>3. Alive' = Alive /\ \A q : Skip(q)' = Skip(q)
      BY <1>1 DEF Alive, Skip
    <3> QED
      BY <1>1, <1>2, <1>5, <3>1, <3>2, <3>3 DEF ResultInv
  <2>1. bad[1] \in 1 .. Len(list) /\ Len(bad) = 1 /\ (Closed(i) <=> i = bad[1])
    <3>1. Len(bad) = 1 /\ (Closed(i) <=> i = bad[1])
      BY <1>2, <1>3, OneBad
    <3>2. bad \in Seq(1 .. Len(list))
      BY <1>2 DEF TypeOK
    <3> QED
      BY <3>1, <3>2
  <2>2. Len(result) = Alive + Before /\ result \in Seq(Parts)
    BY <1>1, <1>2 DEF IInv, ResultInv, TypeOK
  <2>3. \A q \in DOMAIN result : result[q] = IF q <= Alive THEN First(Skip(q)) ELSE Second(Skip(q - Alive))
    BY <1>1, <1>2 DEF IInv, ResultInv
  <2>4. PICK L, m, A : L = Len(list) /\ m = bad[1] /\ A = Alive
    OBVIOUS
  <2>5. L \in Nat /\ m \in 1 .. L /\ A = L - 1 /\ i \in 1 .. L
    BY <1>3, <1>4, <2>1, <2>4 DEF Alive
  <2>6. Before = (IF i > m THEN i - 2 ELSE i - 1) /\ Before' = IF i' > m THEN i' - 2 ELSE i' - 1
    BY <1>1, <2>4 DEF Before
  <2>7. CASE Closed(i)
    <3>1. result' = result /\ i = m
      BY <1>1, <2>1, <2>4, <2>7
    <3>2. CASE ~AtEnd
      <4>1. i' = i + 1
        BY <1>4, <3>2
      <4>2. Before' = Before
        BY <2>5, <2>6, <3>1, <4>1
      <4> QED
        BY <1>5, <2>2, <2>3, <3>1, <3>2, <4>2
    <3>3. CASE AtEnd
      <4>1. i = L
        BY <1>4, <2>4, <3>3
      <4>2. A + Before = 2 * A
        BY <2>5, <2>6, <3>1, <4>1
      <4> QED
        BY <1>5, <2>2, <2>3, <2>4, <3>1, <3>3, <4>2
    <3> QED
      BY <3>2, <3>3
  <2>8. CASE ~Closed(i)
    <3>1. ~Dead(s) /\ reply[s] # <<>> /\ Removed(s) /\ i # m
      BY <1>1, <1>3, <1>6, <2>1, <2>4, <2>8 DEF Late
    <3>2. result' = result \o Head(reply[s])
      BY <1>1, <2>8, <3>1
    <3>3. Head(reply[s]) = <<Second(i)>>
      <4>1. TakenOf(i) = 1 /\ ReplyOf(i)
        BY <1>1, <1>2, <1>3, <1>4, AtServer DEF TakenOf
      <4>2. 1 \in DOMAIN reply[s] /\ Head(reply[s]) = reply[s][1]
        BY <3>1 DEF Removed
      <4>3. reply[s][1] = <<Answer(i, 1 + 1)>>
        BY <3>1, <4>1, <4>2 DEF ReplyOf
      <4> QED
        BY <4>2, <4>3 DEF Answer
    <3>4. Second(i) \in Parts
      BY <1>2, <1>3, SecondFacts
    <3>5. Extended(result, Second(i), Parts) /\ result' = Append(result, Second(i))
      BY <2>2, <3>2, <3>3, <3>4, ExtendOne
    <3>6. PICK B, R : B = Before /\ R = Len(result)
      OBVIOUS
    <3>7. /\ B \in Nat /\ R = A + B /\ R + 1 > A /\ (R + 1) - A = B + 1
          /\ B + 1 = (IF i > m THEN i - 1 ELSE i) /\ (i > m => B + 1 >= m) /\ (i < m => B + 1 < m)
      <4>1. B = IF i > m THEN i - 2 ELSE i - 1
        BY <2>6, <3>6
      <4>2. i \in Nat /\ i >= 1 /\ m \in Nat /\ m >= 1 /\ i # m /\ A \in Int
        BY <2>5, <3>1
      <4>3. R = A + B
        BY <2>2, <2>4, <3>6
      <4>4. CASE i > m
        BY ONLY <4>1, <4>2, <4>3, <4>4
      <4>5. CASE i < m
        BY ONLY <4>1, <4>2, <4>3, <4>5
      <4>6. i > m \/ i < m
        BY ONLY <4>2
      <4> QED
        BY <4>4, <4>5, <4>6
    <3>8. Skip(B + 1) = i
      BY <1>2, <2>4, <2>5, <3>1, <3>7 DEF Skip
    <3>9. Len(result') = R + 1
      BY <3>5, <3>6 DEF Extended
    <3>10. ASSUME NEW q \in DOMAIN result'
           PROVE  result'[q] = IF q <= Alive THEN First(Skip(q)) ELSE Second(Skip(q - Alive))
      <4>1. CASE q \in DOMAIN result /\ result'[q] = result[q]
        BY <2>3, <4>1
      <4>2. CASE q = R + 1 /\ result'[q] = Second(i)
        <5>1. ~(q <= A) /\ q - A = B + 1
          BY <2>5, <3>7, <4>2
        <5> QED
          BY <2>4, <3>8, <4>2, <5>1
      <4> QED
        BY <3>5, <3>6, <3>10, <4>1, <4>2 DEF Extended
    <3>11. CASE ~AtEnd
      <4>1. i' = i + 1
        BY <1>4, <3>11
      <4>2. A + Before' = R + 1
        BY <2>5, <2>6, <3>1, <3>6, <3>7, <4>1
      <4> QED
        BY <1>5, <2>4, <3>9, <3>10, <3>11, <4>2
    <3>12. CASE AtEnd
      <4>1. i = L
        BY <1>4, <2>4, <3>12
      <4>2. R + 1 = 2 * A
        BY <2>5, <3>1, <3>7, <4>1
      <4> QED
        BY <1>5, <2>4, <3>9, <3>10, <3>12, <4>2
    <3> QED
      BY <3>11, <3>12
  <2> QED
    BY <2>7, <2>8
<1> QED
  BY <1>7, <1>8, <1>9, <1>12, <1>13, <1>14 DEF IInv

LEMMA TakeInv == ASSUME IInv, Take PROVE IInv'
<1> DEFINE s == list[i]
<1>1. /\ at = "result" /\ at' = After("need") /\ Step
      /\ \/ /\ reply[s] # <<>>
            /\ got' = Append(got, Head(reply[s]))
            /\ result' = result \o Head(reply[s])
            /\ reply' = [reply EXCEPT ![s] = Tail(reply[s])]
            /\ bad' = bad
         \/ /\ reply[s] = <<>> /\ Dead(s)
            /\ bad' = Append(bad, i)
            /\ got' = Append(got, <<>>)
            /\ UNCHANGED <<result, reply>>
      /\ UNCHANGED <<pc, task, inbox, reset, answers, list, limits, j, dx>>
  BY DEF Take, server
<1>2. /\ TypeOK /\ at \in Loops /\ list # <<>> /\ Len(limits) = Len(list) /\ j = 1 /\ ~Over
      /\ Len(got) = i - 1 /\ Len(bad) <= i - 1 /\ \A n \in DOMAIN bad : bad[n] < i
  BY <1>1 DEF IInv, Filled, Loops, Over
<1>3. i \in 1 .. Len(list) /\ i \in DOMAIN list /\ s \in Server
  BY <1>2, ListFacts DEF TypeOK
<1>4. /\ i' \in DOMAIN list' /\ i \in Nat /\ i' \in Nat /\ Len(list) \in Nat
      /\ AtEnd => i = Len(list) /\ i' = 1
      /\ ~AtEnd => i' = i + 1 /\ i' - 1 = i
      /\ \A n \in DOMAIN list : /\ One(n) \in {0, 1} /\ (n = i => One(n) = 0)
                                /\ AtEnd => One(n) + Plus(n) = 1 /\ One(n)' = 0
                                /\ ~AtEnd => One(n)' = One(n) + Plus(n)
  BY <1>1, <1>2, LoopFacts
<1>5. at' \in {"result", "need"} /\ (~AtEnd => at' = "result") /\ (AtEnd => at' = "need") /\ ~Over'
  BY <1>1 DEF After, Over
<1>6. \/ reply[s] # <<>> /\ Removed(s) /\ bad' = bad
         /\ got' = Append(got, Head(reply[s])) /\ result' = result \o Head(reply[s])
      \/ reply[s] = <<>> /\ Dead(s) /\ bad' = Append(bad, i) /\ got' = Append(got, <<>>)
         /\ result' = result /\ reply' = reply
  BY <1>1, <1>2, <1>3, RemoveReply
<1>7. reply' \in [Server -> Seq(Seq(Parts))] /\ \A u \in Server : u # s => reply'[u] = reply[u]
  BY <1>2, <1>6 DEF Removed, TypeOK
<1>8. /\ bad \in Seq(1 .. Len(list)) /\ got \in Seq(Seq(Parts)) /\ result \in Seq(Parts)
      /\ Len(bad) \in Nat /\ Len(got) \in Nat
  BY <1>2 DEF TypeOK
<1>9. /\ bad' \in Seq(1 .. Len(list)) /\ Len(bad') \in Nat /\ Len(bad') <= i
      /\ \A n, m \in DOMAIN bad' : bad'[n] = bad'[m] => n = m
      /\ \A n \in DOMAIN bad' : bad'[n] <= i
      /\ \A n \in DOMAIN bad' : (n \in DOMAIN bad /\ bad'[n] = bad[n]) \/ (bad'[n] = i /\ Dead(s))
      /\ Len(bad) <= Len(bad')
  <2>1. /\ \A n, m \in DOMAIN bad : bad[n] = bad[m] => n = m
        /\ \A n \in DOMAIN bad : bad[n] \in Nat /\ bad[n] < i
    <3>1. \A n, m \in DOMAIN bad : bad[n] = bad[m] => n = m
      BY <1>2 DEF TypeOK, IsInjective
    <3>2. \A n \in DOMAIN bad : bad[n] \in 1 .. Len(list)
      BY <1>8
    <3>3. \A n \in DOMAIN bad : bad[n] \in Nat
      BY <1>4, <3>2
    <3> QED
      BY <1>2, <3>1, <3>3
  <2>2. Len(bad) <= i /\ Len(bad) + 1 <= i
    BY <1>2, <1>4, <1>8
  <2>3. CASE bad' = bad
    BY <1>4, <1>8, <2>1, <2>2, <2>3
  <2>4. CASE bad' = Append(bad, i) /\ Dead(s)
    <3>1. Extended(bad, i, 1 .. Len(list))
      BY <1>3, <1>8, ExtendOne
    <3>2. \A n \in DOMAIN bad' :
            n \in Nat /\ ((n \in DOMAIN bad /\ n \in 1 .. Len(bad) /\ bad'[n] = bad[n]) \/ (n = Len(bad) + 1 /\ bad'[n] = i))
      BY <2>4, <3>1 DEF Extended
    <3>3. bad' \in Seq(1 .. Len(list)) /\ Len(bad') = Len(bad) + 1
      BY <2>4, <3>1 DEF Extended
    <3>4. \A n, m \in DOMAIN bad' : bad'[n] = bad'[m] => n = m
      BY <1>4, <2>1, <3>2
    <3>5. \A n \in DOMAIN bad' : bad'[n] <= i
      BY <1>4, <2>1, <3>2
    <3>6. Len(bad') \in Nat /\ Len(bad') <= i /\ Len(bad) <= Len(bad')
      BY <1>8, <2>2, <3>3
    <3> QED
      BY <2>4, <3>2, <3>3, <3>4, <3>5, <3>6
  <2> QED
    BY <1>6, <2>3, <2>4
<1>10. /\ got' \in Seq(Seq(Parts)) /\ Len(got') = i /\ result' \in Seq(Parts)
  <2>1. CASE reply[s] # <<>>
    <3>1. Head(reply[s]) \in Seq(Parts)
      BY <1>6, <2>1 DEF Removed
    <3>2. Extended(got, Head(reply[s]), Seq(Parts))
      BY <1>8, <3>1, ExtendOne
    <3>3. got' \in Seq(Seq(Parts)) /\ Len(got') = Len(got) + 1
      BY <1>6, <2>1, <3>2 DEF Extended
    <3>4. result' \in Seq(Parts)
      <4>1. result \o Head(reply[s]) \in Seq(Parts)
        BY <1>8, <3>1
      <4> QED
        BY <1>6, <2>1, <4>1
    <3> QED
      BY <1>2, <1>4, <3>3, <3>4
  <2>2. CASE reply[s] = <<>>
    <3>1. <<>> \in Seq(Parts)
      OBVIOUS
    <3>2. Extended(got, <<>>, Seq(Parts))
      BY <1>8, <3>1, ExtendOne
    <3>3. got' \in Seq(Seq(Parts)) /\ Len(got') = Len(got) + 1
      BY <1>6, <2>2, <3>2 DEF Extended
    <3> QED
      BY <1>2, <1>4, <1>6, <1>8, <2>2, <3>3
  <2> QED
    BY <2>1, <2>2
<1>11. TypeOK'
  <2>1. at' \in Stages /\ at' # "again"
    BY <1>5 DEF Stages, Loops
  <2>2. Len(got') <= Len(list')
    BY <1>1, <1>3, <1>4, <1>10
  <2>3. IsInjective(bad)'
    BY <1>9 DEF IsInjective
  <2> QED
    BY <1>1, <1>2, <1>4, <1>7, <1>9, <1>10, <2>1, <2>2, <2>3 DEF TypeOK
<1>12. Filled'
  <2>1. at' = "result" => Len(got') = i' - 1 /\ Len(bad') <= i' - 1 /\ \A n \in DOMAIN bad' : bad'[n] < i'
    <3>1. ASSUME NEW n \in DOMAIN bad' PROVE bad'[n] < i + 1
      <4>1. bad'[n] \in Nat /\ bad'[n] <= i
        BY <1>9
      <4> QED
        BY <1>4, <4>1
    <3> QED
      BY <1>4, <1>5, <1>9, <1>10, <3>1
  <2>2. at' = "need" => Len(got') = Len(list') /\ Len(bad') <= Len(list')
    BY <1>1, <1>4, <1>5, <1>9, <1>10
  <2> QED
    BY <1>1, <1>2, <1>5, <2>1, <2>2 DEF Filled
<1>13. Known'
  <2>1. ToSet(list)' = ToSet(list) /\ s \in ToSet(list)
    BY <1>1, <1>3 DEF ToSet
  <2>2. \A n \in DOMAIN bad' : Dead(list[bad'[n]])
    BY <1>9 DEF IInv, Known
  <2> QED
    BY <1>1, <1>5, <1>7, <2>1, <2>2 DEF IInv, Known, Dead
<1>14. ASSUME NEW n \in DOMAIN list, Len(bad') <= 1 PROVE InboxOf(n)' /\ ReplyOf(n)'
  <2>1. InboxOf(n) /\ ReplyOf(n) /\ list[n] \in Server /\ Len(bad) <= 1
    <3>1. Len(bad) <= 1
      BY <1>8, <1>9, <1>14
    <3> QED
      BY <1>2, <1>14, <3>1, AtServer, ListFacts
  <2>2. /\ Said(n) = 1 /\ Said(n)' = 1 /\ TakenOf(n) \in {0, 1} /\ TakenOf(n)' = TakenOf(n) + Plus(n)
        /\ TakenOf(n) = One(n) /\ (n = i => TakenOf(n) = 0)
    <3>1. /\ Said(n) = 1 /\ TakenOf(n) = One(n) /\ One(n) \in {0, 1} /\ Plus(n) \in {0, 1}
          /\ n = i => One(n) = 0
      BY <1>1, <1>4, <1>14 DEF Said, TakenOf, Plus
    <3>2. CASE ~AtEnd
      <4>1. Said(n)' = 1 /\ TakenOf(n)' = One(n)' /\ One(n)' = One(n) + Plus(n)
        BY <1>4, <1>5, <1>14, <3>2 DEF Said, TakenOf
      <4> QED
        BY <3>1, <4>1
    <3>3. CASE AtEnd
      <4>1. Said(n)' = 1 + One(n)' /\ TakenOf(n)' = 1 /\ One(n)' = 0 /\ One(n) + Plus(n) = 1
        BY <1>1, <1>2, <1>4, <1>5, <1>14, <3>3 DEF Said, TakenOf, Rounds
      <4> QED
        BY <3>1, <4>1
    <3> QED
      BY <3>2, <3>3
  <2>3. /\ Dead(list[n])' <=> Dead(list[n])
        /\ First(n)' = First(n) /\ Answer(n, 1) = First(n) /\ Answer(n, 1)' = First(n)
        /\ Message(n, 1)' = Message(n, 1)
    BY <1>1 DEF Dead, First, Answer, Message, Limits
  <2>4. CASE Dead(list[n])
    <3>1. InboxOf(n)'
      BY <2>3, <2>4 DEF InboxOf
    <3>2. TakenOf(n)' = 0 => n # i /\ TakenOf(n) = 0
      BY <2>2 DEF Plus
    <3>3. n # i => reply'[list[n]] = reply[list[n]]
      BY <1>2, <1>3, <1>7, <1>14, <2>1, ListFacts
    <3>4. ReplyOf(n)'
      BY <1>1, <2>1, <2>3, <2>4, <3>2, <3>3 DEF ReplyOf
    <3> QED
      BY <3>1, <3>4
  <2>5. CASE ~Dead(list[n])
    <3>1. Follows(n, 1)
      BY <1>2, <2>1, <2>2, <2>5 DEF InboxOf
    <3>2. PICK x, r : x = Len(inbox[list[n]]) /\ r = 1 - x
      OBVIOUS
    <3>3. inbox[list[n]] \in Seq(Messages) /\ x \in Nat /\ DOMAIN inbox[list[n]] = 1 .. x
      BY <1>2, <2>1, <3>2 DEF TypeOK
    <3>4. 1 - Len(inbox[list[n]]) = r
      BY <3>2
    <3>5. r >= 0 /\ Placed(n, r) /\ \A k \in 1 .. x : inbox[list[n]][k] = Message(n, r + k)
      BY <3>1, <3>3, <3>4 DEF Follows
    <3>6. r \in {0, 1} /\ \A k \in 1 .. x : r + k = 1
      <4>1. x = 0 \/ x = 1
        <5>1. x \in Nat /\ 1 - x >= 0
          BY <3>2, <3>3, <3>5
        <5> QED
          BY ONLY <5>1
      <4>2. CASE x = 0
        BY ONLY <3>2, <4>2
      <4>3. CASE x = 1
        BY ONLY <3>2, <4>3
      <4> QED
        BY <4>1, <4>2, <4>3
    <3>7. pc[list[n]] # "ready" /\ (pc[list[n]] \in {"calculate", "need"} => r = 1)
          /\ (pc[list[n]] = "limits" => r = 0)
      BY <3>5, <3>6 DEF Placed, Rounds
    <3>8. Follows(n, 1)'
      <4>1. (1 - Len(inbox[list[n]]))' = r
        BY <1>1, <3>4
      <4>2. inbox'[list'[n]] = inbox[list[n]]
        BY <1>1
      <4>3. (\A k \in DOMAIN inbox[list[n]] : inbox[list[n]][k] = Message(n, (1 - Len(inbox[list[n]])) + k))'
        <5>1. \A k \in 1 .. x : inbox[list[n]][k] = Message(n, r + k)'
          BY <2>3, <3>5, <3>6
        <5> QED
          BY <3>3, <4>1, <4>2, <5>1
      <4>4. (1 \in 0 .. 2 + Rounds /\ 1 - Len(inbox[list[n]]) >= 0)'
        BY <3>5, <4>1 DEF Rounds
      <4>5. Placed(n, r)'
        BY <1>1, <3>5, <3>6, <3>7 DEF Placed
      <4>6. Placed(n, 1 - Len(inbox[list[n]]))'
        BY <4>1, <4>5 DEF Placed
      <4> QED
        BY <4>3, <4>4, <4>6 DEF Follows
    <3>9. InboxOf(n)'
      BY <1>5, <2>2, <3>8 DEF InboxOf, Follows
    <3>10. AnswersOf(n) \in {0, 1} /\ (pc[list[n]] = "calculate" => AnswersOf(n) = 0)
      BY <2>2, <3>4, <3>6, <3>7 DEF AnswersOf
    <3>11. AnswersOf(n)' = AnswersOf(n)
      <4>1. (Said(n) - Len(inbox[list[n]]))' = r /\ Said(n) - Len(inbox[list[n]]) = r /\ pc'[list'[n]] = pc[list[n]]
        BY <1>1, <2>2, <3>4
      <4> QED
        BY <3>7, <4>1 DEF AnswersOf
    <3>12. /\ Len(reply[list[n]]) = AnswersOf(n) - TakenOf(n) /\ Len(reply[list[n]]) \in Nat
           /\ DOMAIN reply[list[n]] = 1 .. Len(reply[list[n]])
           /\ \A k \in DOMAIN reply[list[n]] : reply[list[n]][k] = <<Answer(n, TakenOf(n) + k)>>
           /\ pc[list[n]] = "calculate" => task[list[n]] = Answer(n, AnswersOf(n) + 1)
      <4>1. reply[list[n]] \in Seq(Seq(Parts))
        BY <1>2, <2>1 DEF TypeOK
      <4> QED
        BY <2>1, <2>5, <4>1 DEF ReplyOf
    <3>13. pc[list[n]] = "calculate" => task[list[n]] = Answer(n, AnswersOf(n) + 1)'
      BY <2>3, <3>10, <3>11, <3>12
    <3>14. CASE n = i
      <4>1. Removed(s)
        BY <1>6, <2>5, <3>14
      <4>2. TakenOf(n)' = 1 /\ TakenOf(n) = 0
        BY <2>2, <3>14 DEF Plus
      <4>3. Len(reply[s]) = 1 /\ AnswersOf(n) = 1
        <5>1. Len(reply[s]) # 0
          BY <4>1 DEF Removed
        <5>2. Len(reply[s]) = AnswersOf(n) - 0
          BY <3>12, <3>14, <4>2
        <5>3. AnswersOf(n) = 0 \/ AnswersOf(n) = 1
          BY <3>10
        <5> QED
          BY <5>1, <5>2, <5>3
      <4>4. Len(reply'[s]) = 0
        BY <4>1, <4>3 DEF Removed
      <4>5. DOMAIN reply'[s] = {}
        BY <1>3, <1>7, <4>4
      <4>6. list'[n] = s /\ 1 - 1 = 0 /\ pc'[s] = pc[s] /\ task'[s] = task[s]
        BY <1>1, <3>14
      <4> QED
        BY <2>3, <2>5, <3>9, <3>11, <3>13, <3>14, <4>2, <4>3, <4>4, <4>5, <4>6 DEF ReplyOf
    <3>15. CASE n # i
      <4>1. list[n] # s
        BY <1>2, <1>3, <1>14, <3>15, ListFacts
      <4>2. reply'[list[n]] = reply[list[n]] /\ TakenOf(n)' = TakenOf(n)
        BY <1>7, <2>1, <2>2, <3>15, <4>1 DEF Plus
      <4>3. \A k \in DOMAIN reply[list[n]] : TakenOf(n) + k = 1
        BY <2>2, <3>10, <3>12
      <4>4. \A k \in DOMAIN reply[list[n]] : reply[list[n]][k] = <<Answer(n, TakenOf(n) + k)'>>
        BY <2>3, <3>12, <4>2, <4>3
      <4>5. list'[n] = list[n] /\ pc'[list[n]] = pc[list[n]] /\ task'[list[n]] = task[list[n]]
        BY <1>1
      <4> QED
        BY <2>3, <2>5, <3>9, <3>11, <3>12, <3>13, <4>2, <4>4, <4>5 DEF ReplyOf
    <3> QED
      BY <3>14, <3>15
  <2> QED
    BY <2>4, <2>5
<1>15. InboxInv' /\ ReplyInv'
  BY <1>1, <1>14 DEF InboxInv, ReplyInv
<1>16. LimitsInv' /\ KilledLate'
  <2>1. \A n : First(n)' = First(n)
    BY <1>1 DEF First
  <2> QED
    BY <1>1, <1>5, <2>1 DEF IInv, LimitsInv, KilledLate
<1>17. ResultInv'
  <2> SUFFICES ASSUME Len(bad') <= 1
               PROVE  /\ at' = "result" => Len(result') = i' - 1 - Len(bad')
                      /\ at' = "need" => Len(result') = Alive'
                      /\ \A q \in DOMAIN result' : q <= Alive' /\ result'[q] = First(Skip(q)')
    <3>1. \A n : First(n)' = First(n)
      BY <1>1 DEF First
    <3>2. \A q : First(Skip(q))' = First(Skip(q)')
      BY <1>1 DEF First
    <3> QED
      BY <1>5, <3>2 DEF ResultInv
  <2>1. Len(bad) <= 1
    BY <1>8, <1>9
  <2>2. /\ Len(result) = i - 1 - Len(bad)
        /\ \A q \in DOMAIN result : result[q] = IF q <= Alive THEN First(Skip(q)) ELSE Second(Skip(q - Alive))
    BY <1>1, <1>2, <2>1 DEF IInv, ResultInv
  <2>3. PICK L, b, R : L = Len(list) /\ b = Len(bad) /\ R = Len(result)
    OBVIOUS
  <2>4. /\ L \in Nat /\ b \in {0, 1} /\ i \in 1 .. L /\ R = i - 1 - b /\ R \in Nat /\ Alive = L - b
        /\ Alive' = L - Len(bad')
    BY <1>1, <1>3, <1>4, <1>8, <2>1, <2>2, <2>3 DEF Alive
  <2>5. R <= L - b /\ (~AtEnd => i' - 1 = i) /\ (AtEnd => i = L)
    BY <1>4, <2>3, <2>4
  <2>6. \A q \in DOMAIN result : q \in 1 .. R /\ result[q] = First(Skip(q))
    <3>1. \A q \in DOMAIN result : q \in 1 .. R
      BY <1>8, <2>3
    <3>2. \A q \in 1 .. R : q <= Alive
      BY <2>4, <2>5
    <3> QED
      BY <2>2, <3>1, <3>2
  <2>7. CASE reply[s] # <<>>
    <3>1. bad' = bad /\ Removed(s) /\ result' = result \o Head(reply[s])
      BY <1>6, <2>7
    <3>2. Head(reply[s]) = <<First(i)>>
      <4>1. TakenOf(i) = 0 /\ ReplyOf(i)
        BY <1>1, <1>2, <1>3, <1>4, <2>1, AtServer DEF TakenOf
      <4>2. 1 \in DOMAIN reply[s] /\ Head(reply[s]) = reply[s][1]
        BY <3>1 DEF Removed
      <4>3. reply[s][1] = <<First(i)>>
        <5>1. CASE ~Dead(s)
          <6>1. reply[s][1] = <<Answer(i, 0 + 1)>>
            BY <4>1, <4>2, <5>1 DEF ReplyOf
          <6> QED
            BY <6>1 DEF Answer
        <5>2. CASE Dead(s)
          BY <2>7, <4>1, <5>2 DEF ReplyOf
        <5> QED
          BY <5>1, <5>2
      <4> QED
        BY <4>2, <4>3
    <3>3. Extended(result, First(i), Parts) /\ result' = Append(result, First(i))
      <4>1. First(i) \in Parts
        BY <1>2, <1>3, FirstFacts
      <4> QED
        BY <1>8, <3>1, <3>2, <4>1, ExtendOne
    <3>4. Len(result') = R + 1
      BY <2>3, <3>3 DEF Extended
    <3>5. Skip(R + 1) = i
      <4>1. bad # <<>> => b = 1 /\ bad[1] < i /\ bad[1] \in Nat
        <5>1. bad # <<>> => b = 1 /\ 1 \in DOMAIN bad
          BY <1>8, <2>1, <2>3
        <5>2. bad # <<>> => bad[1] \in 1 .. Len(list)
          BY <1>8, <5>1
        <5> QED
          BY <1>2, <1>4, <5>1, <5>2
      <4>2. bad = <<>> => b = 0
        BY <2>3
      <4>3. bad = <<>> => R + 1 = i
        BY <2>4, <4>2
      <4>4. bad # <<>> => (R + 1) + 1 = i /\ R + 1 >= bad[1]
        BY <2>4, <4>1
      <4> QED
        BY <4>3, <4>4 DEF Skip
    <3>6. \A q : Skip(q)' = Skip(q)
      BY <3>1 DEF Skip
    <3>7. Alive' = L - b /\ R + 1 <= L - b
      BY <2>4, <2>5, <3>1, <2>3
    <3>8. ASSUME NEW q \in DOMAIN result' PROVE q <= Alive' /\ result'[q] = First(Skip(q)')
      <4>1. CASE q \in DOMAIN result /\ result'[q] = result[q]
        <5>1. q \in 1 .. R /\ result'[q] = First(Skip(q)')
          BY <2>6, <3>6, <4>1
        <5> QED
          BY <2>4, <2>5, <3>7, <5>1
      <4>2. CASE q = R + 1 /\ result'[q] = First(i)
        BY <3>5, <3>6, <3>7, <4>2
      <4> QED
        BY <2>3, <3>3, <3>8, <4>1, <4>2 DEF Extended
    <3>9. at' = "result" => R + 1 = i' - 1 - b
      BY <1>4, <1>5, <2>4, <2>5
    <3>10. at' = "need" => R + 1 = L - b
      BY <1>4, <1>5, <2>4, <2>5
    <3> QED
      BY <2>3, <3>1, <3>4, <3>7, <3>8, <3>9, <3>10
  <2>8. CASE reply[s] = <<>>
    <3>1. bad' = Append(bad, i) /\ result' = result /\ Len(bad') = b + 1
      BY <1>3, <1>6, <1>8, <2>3, <2>8
    <3>2. b = 0 /\ Len(bad') = 1 /\ bad = <<>> /\ bad'[1] = i /\ bad' # <<>>
      BY <1>3, <1>8, <2>3, <2>4, <3>1
    <3>3. Alive' = L - 1 /\ R = i - 1
      BY <2>4, <3>2
    <3>4. ASSUME NEW q \in DOMAIN result PROVE q <= Alive' /\ result[q] = First(Skip(q)')
      <4>1. q \in 1 .. R /\ result[q] = First(Skip(q)) /\ Skip(q) = q
        BY <2>6, <3>2, <3>4 DEF Skip
      <4>2. ~(q >= i) /\ q <= L - 1
        BY <2>4, <3>3, <4>1
      <4>3. Skip(q)' = q
        BY <3>2, <4>2 DEF Skip
      <4> QED
        BY <3>3, <4>1, <4>2, <4>3
    <3>5. at' = "result" => R = i' - 1 - 1
      BY <1>4, <1>5, <2>4, <2>5, <3>3
    <3>6. at' = "need" => R = L - 1
      BY <1>4, <1>5, <2>4, <2>5, <3>3
    <3> QED
      BY <2>3, <3>1, <3>2, <3>3, <3>4, <3>5, <3>6
  <2> QED
    BY <2>7, <2>8
<1> QED
  BY <1>11, <1>12, <1>13, <1>15, <1>16, <1>17 DEF IInv

---------------------------------------------------------------------------
(***************************************************************************)
(* The theorems.                                                           *)
(***************************************************************************)
LEMMA StutterInv == ASSUME IInv, UNCHANGED vars PROVE IInv'
<1>1. /\ UNCHANGED client /\ UNCHANGED <<pc, task, inbox, reply, reset>>
      /\ UNCHANGED <<at, answers, list, i, limits, got, bad, j, dx, result>>
  BY DEF vars, server, wires, client
<1>2. TypeOK' /\ Filled' /\ Known'
  <2>1. TypeOK'
    BY <1>1 DEF IInv, TypeOK, IsInjective
  <2>2. Filled'
    BY <1>1 DEF IInv, Filled
  <2>3. ToSet(list)' = ToSet(list)
    BY <1>1 DEF ToSet
  <2>4. Known'
    BY <1>1, <2>3 DEF IInv, Known, Dead
  <2> QED
    BY <2>1, <2>2, <2>4
<1>3. /\ \A n : Said(n)' = Said(n) /\ TakenOf(n)' = TakenOf(n) /\ First(n)' = First(n) /\ Second(n)' = Second(n)
      /\ Over' <=> Over
      /\ Rounds' = Rounds /\ number_of_cpus' = number_of_cpus
      /\ \A n : Closed(n)' <=> Closed(n)
      /\ \A n, k : Answer(n, k)' = Answer(n, k)
  BY <1>1, ClientSame
<1>4. \A n, c : Follows(n, c) => Follows(n, c)'
  BY <1>1, SameFollows
<1>5. \A n : InboxOf(n) => InboxOf(n)'
  <2> SUFFICES ASSUME NEW n, InboxOf(n) PROVE InboxOf(n)'
    OBVIOUS
  <2>1. Follows(n, Said(n)) => Follows(n, Said(n))'
    BY <1>3, <1>4 DEF Follows
  <2> QED
    BY <1>1, <1>3, <1>4, <2>1 DEF InboxOf, Dead
<1>6. \A n : ReplyOf(n) => ReplyOf(n)'
  <2>1. \A n : AnswersOf(n)' = AnswersOf(n)
    BY <1>1, <1>3 DEF AnswersOf
  <2> QED
    BY <1>1, <1>3, <2>1 DEF ReplyOf, Dead
<1>7. InboxInv' /\ ReplyInv' /\ LimitsInv' /\ KilledLate'
  BY <1>1, <1>3, <1>5, <1>6 DEF IInv, InboxInv, ReplyInv, LimitsInv, KilledLate, Late, Dead
<1>8. ResultInv'
  <2>1. Alive' = Alive /\ Before' = Before /\ \A q : Skip(q)' = Skip(q)
    BY <1>1 DEF Alive, Before, Skip
  <2> QED
    BY <1>1, <1>3, <2>1 DEF IInv, ResultInv, Late, Dead
<1> QED
  BY <1>2, <1>7, <1>8 DEF IInv

LEMMA Inductive == IInv /\ [Next]_vars => IInv'
<1> SUFFICES ASSUME IInv, [Next]_vars PROVE IInv'
  OBVIOUS
<1>1. CASE Broadcast
  BY <1>1, BroadcastInv
<1>2. CASE Collect
  BY <1>2, CollectInv
<1>3. CASE Connect
  BY <1>3, ConnectInv
<1>4. CASE Give
  BY <1>4, GiveInv
<1>5. CASE Take
  BY <1>5, TakeInv
<1>6. CASE SayNeed
  BY <1>6, SayNeedInv
<1>7. CASE Recalculate
  BY <1>7, RecalculateInv
<1>8. CASE GiveAgain
  BY <1>8, GiveAgainInv
<1>9. CASE TakeAgain
  BY <1>9, TakeAgainInv
<1>10. CASE SayBye
  BY <1>10, SayByeInv
<1>11. ASSUME NEW s \in Server, ServerStep(s) \/ Fail(s) PROVE IInv'
  BY <1>11, HearInv, ListenInv, ReceiveLimitsInv, CalculateInv, ReceiveNeedInv, FailInv DEF ServerStep
<1>12. CASE UNCHANGED vars
  BY <1>12, StutterInv
<1> QED
  BY <1>1, <1>2, <1>3, <1>4, <1>5, <1>6, <1>7, <1>8, <1>9, <1>10, <1>11, <1>12 DEF Next, Client

LEMMA Invariance == Spec => []IInv
<1>1. Init => IInv
  BY InitInv
<1>2. IInv /\ [Next]_vars => IInv'
  BY Inductive
<1> QED
  BY <1>1, <1>2, PTL DEF Spec

\* The values of the client and of the servers have their types, and the client's
\* loops stay in their arrays: list, limits and bad_tcp_sockets (client.c).
THEOREM TypeCorrect == Spec => []TypeOK
<1>1. IInv => TypeOK
  BY DEF IInv
<1> QED
  BY <1>1, Invariance, PTL

\* With at most one failure that the client has seen, a server that waits for
\* limits is sent limits, and one that waits to hear whether there is more is told
\* that: no server takes one for the other, whenever the other servers fail.
THEOREM InStepHolds == Spec => []InStep
<1>1. IInv => InStep
  <2> SUFFICES ASSUME IInv, Len(bad) <= 1, NEW s \in Server, inbox[s] # <<>>, pc[s] \in {"limits", "need"}
               PROVE  Head(inbox[s]).kind = pc[s]
    BY DEF IInv, InStep, Expected
  <2>1. PICK n \in DOMAIN list : list[n] = s
    <3>1. s \in ToSet(list)
      BY Listed DEF Unheard
    <3> QED
      BY <3>1 DEF ToSet
  <2>2. PICK c : Follows(n, c)
    <3>1. InboxOf(n) /\ ~Dead(list[n]) /\ pc[list[n]] # "astray"
      BY <2>1 DEF IInv, InboxInv, Dead
    <3> QED
      BY <3>1 DEF InboxOf
  <2>3. inbox[s] \in Seq(Messages) /\ 1 \in DOMAIN inbox[s] /\ Head(inbox[s]) = inbox[s][1]
    <3>1. inbox[s] \in Seq(Messages)
      BY DEF IInv, TypeOK
    <3> QED
      BY <3>1
  <2>4. PICK r : r = c - Len(inbox[s])
    OBVIOUS
  <2>5. Head(inbox[s]) = Message(n, r + 1) /\ Placed(n, r)
    BY <2>1, <2>2, <2>3, <2>4 DEF Follows
  <2>6. CASE pc[s] = "limits"
    <3>1. r = 0 \/ (r = 2 /\ bad # <<>>)
      BY <2>1, <2>5, <2>6 DEF Placed
    <3>2. Message(n, r + 1).kind = "limits"
      BY <3>1 DEF Message, Limits
    <3> QED
      BY <2>5, <2>6, <3>2
  <2>7. CASE pc[s] = "need"
    <3>1. r = 1 \/ r = 3
      BY <2>1, <2>5, <2>7 DEF Placed
    <3>2. Message(n, r + 1).kind = "need"
      BY <3>1 DEF Message, Need
    <3> QED
      BY <2>5, <2>7, <3>2
  <2> QED
    BY <2>6, <2>7
<1> QED
  BY <1>1, Invariance, PTL

\* The client is killed only in the recalculation with no server left, or by a
\* server that failed after its connection was last found to be good.
THEOREM KilledLateHolds == Spec => []KilledLate
<1>1. IInv => KilledLate
  BY DEF IInv
<1> QED
  BY <1>1, Invariance, PTL

---------------------------------------------------------------------------
(***************************************************************************)
(* The printed result.                                                     *)
(***************************************************************************)
Has(q, x) == x \in result[q].a .. result[q].b - 1

LEMMA CoveredOnce ==
  ASSUME NEW x, NEW q \in DOMAIN result, Has(q, x), \A p \in DOMAIN result : Has(p, x) => p = q
  PROVE  Covers(x) = 1
<1>1. {n \in DOMAIN result : x \in result[n].a .. result[n].b - 1} = {q}
  BY DEF Has
<1>2. Cardinality({q}) = 1
  BY FS_Singleton
<1> QED
  BY <1>1, <1>2 DEF Covers

\* The ends of the parts of the first round.
Ends1 == [n \in 0 .. Len(list) |-> Grain * Sums(list, {})[n]]

LEMMA FirstEnds ==
  ASSUME TypeOK
  PROVE  /\ Bounds(Ends1, Len(list)) /\ Ends1[0] = 0
         /\ Segment = 0 .. Ends1[Len(list)] - 1
         /\ \A n \in 1 .. Len(list) : First(n).a = Ends1[n - 1] /\ First(n).b = Ends1[n] /\ Ends1[n - 1] < Ends1[n]
<1> DEFINE S == Sums(list, {})
           L == Len(list)
<1>1. list \in Seq(Server) /\ L \in Nat
  BY ListFacts
<1>2. SumsOf(list, {}, S)
  BY <1>1, SumsFacts
<1>3. S \in [0 .. L -> Nat] /\ S[0] = 0 /\ \A n \in 1 .. L : S[n] = S[n - 1] + Cpus[list[n]]
  BY <1>2 DEF SumsOf
<1> HIDE DEF S, L
<1>4. Ends1 = [n \in 0 .. L |-> Grain * S[n]]
  BY DEF Ends1, S, L
<1>5. \A n \in 0 .. L : Ends1[n] = Grain * S[n] /\ Ends1[n] \in Nat
  BY <1>3, <1>4, Product, NetAssumption
<1>6. ASSUME NEW n \in 1 .. L
      PROVE  First(n).a = Ends1[n - 1] /\ First(n).b = Ends1[n] /\ Ends1[n - 1] < Ends1[n]
  <2>1. n - 1 \in 0 .. L /\ n \in 0 .. L /\ n \in DOMAIN list
    BY <1>1, <1>6, ListFacts DEF L
  <2>2. Cpus[list[n]] \in Nat \ {0} /\ S[n - 1] \in Nat /\ S[n] = S[n - 1] + Cpus[list[n]]
    BY <1>3, <1>6, <2>1, ListFacts
  <2>3. Grain * (S[n - 1] + Cpus[list[n]]) = Grain * S[n - 1] + Grain * Cpus[list[n]]
    BY <2>2, Product, NetAssumption
  <2>4. Grain * S[n - 1] \in Nat /\ Grain * Cpus[list[n]] \in Nat /\ Grain * Cpus[list[n]] # 0
    BY <2>2, Product, NetAssumption
  <2>5. Ends1[n - 1] = Grain * S[n - 1] /\ Ends1[n] = Grain * S[n - 1] + Grain * Cpus[list[n]]
    BY <1>5, <2>1, <2>2, <2>3
  <2>6. First(n) = [a |-> Grain * S[n - 1], b |-> Grain * S[n - 1] + Grain * Cpus[list[n]]]
    BY DEF First, S
  <2>7. Ends1[n - 1] < Ends1[n]
    <3>1. PICK u, v : u = Grain * S[n - 1] /\ v = Grain * Cpus[list[n]]
      OBVIOUS
    <3>2. u \in Nat /\ v \in Nat /\ v # 0
      BY <2>4, <3>1
    <3>3. u < u + v
      BY ONLY <3>2
    <3> QED
      BY <2>5, <3>1, <3>3
  <2> QED
    BY <2>5, <2>6, <2>7
<1>7. Ends1[0] = 0
  BY <1>1, <1>3, <1>5, Product, NetAssumption
<1>8. Bounds(Ends1, L)
  <2>1. Ends1 \in [0 .. L -> Nat]
    BY <1>4, <1>5
  <2>2. ASSUME NEW n \in 1 .. L PROVE Ends1[n - 1] <= Ends1[n]
    <3>1. n - 1 \in 0 .. L /\ n \in 0 .. L
      BY <1>1
    <3>2. Ends1[n - 1] \in Nat /\ Ends1[n] \in Nat /\ Ends1[n - 1] < Ends1[n]
      BY <1>5, <1>6, <3>1
    <3> QED
      BY <3>2
  <2> QED
    BY <1>1, <2>1, <2>2 DEF Bounds
<1>9. Segment = 0 .. Ends1[L] - 1
  <2>1. L \in 0 .. L
    BY <1>1
  <2>2. Ends1[L] = Grain * S[L]
    BY <1>5, <2>1
  <2> QED
    BY <2>2 DEF Segment, S, L
<1> QED
  BY <1>6, <1>7, <1>8, <1>9 DEF L

\* A piece of the segment is in the part of exactly one server.
LEMMA InFirst ==
  ASSUME TypeOK, NEW x \in Segment
  PROVE  \E n \in 1 .. Len(list) : InStepOf(Ends1, n, x) /\ \A k \in 1 .. Len(list) : InStepOf(Ends1, k, x) => k = n
<1>1. Bounds(Ends1, Len(list)) /\ Ends1[0] = 0 /\ Segment = 0 .. Ends1[Len(list)] - 1
  BY FirstEnds
<1>2. Len(list) \in Nat /\ Len(list) \in 0 .. Len(list) /\ Ends1[Len(list)] \in Nat
  BY <1>1 DEF Bounds
<1>3. x \in Nat /\ Ends1[0] <= x /\ x < Ends1[Len(list)]
  <2>1. x \in 0 .. Ends1[Len(list)] - 1
    BY <1>1
  <2> QED
    BY <1>1, <1>2, <2>1
<1> QED
  BY <1>1, <1>3, OneStep

LEMMA Between ==
  \A x, u, v \in Nat : x \in u .. v - 1 <=> u <= x /\ x < v
OBVIOUS

LEMMA HasFirst ==
  ASSUME TypeOK, NEW x \in Nat, NEW q, NEW n \in 1 .. Len(list), result[q] = First(n)
  PROVE  Has(q, x) <=> InStepOf(Ends1, n, x)
<1>1. First(n).a = Ends1[n - 1] /\ First(n).b = Ends1[n] /\ Bounds(Ends1, Len(list))
  BY FirstEnds
<1>2. n - 1 \in 0 .. Len(list) /\ n \in 0 .. Len(list)
  BY ListFacts
<1>3. Ends1[n - 1] \in Nat /\ Ends1[n] \in Nat
  BY <1>1, <1>2 DEF Bounds
<1> QED
  BY <1>1, <1>3, Between DEF Has, InStepOf

LEMMA LastInSegment ==
  ASSUME TypeOK, NEW n \in 1 .. Len(list), NEW x \in Nat, Ends1[n - 1] < x, x <= Ends1[n]
  PROVE  x - 1 \in Segment
<1>1. Bounds(Ends1, Len(list)) /\ Segment = 0 .. Ends1[Len(list)] - 1
  BY FirstEnds
<1>2. n - 1 \in 0 .. Len(list) /\ n \in 0 .. Len(list) /\ Len(list) \in 0 .. Len(list) /\ n <= Len(list)
  BY ListFacts
<1>3. Ends1[n] <= Ends1[Len(list)]
  BY <1>1, <1>2, Rising
<1>4. Ends1[n - 1] \in Nat /\ Ends1[n] \in Nat /\ Ends1[Len(list)] \in Nat
  BY <1>1, <1>2 DEF Bounds
<1>5. x - 1 \in 0 .. Ends1[Len(list)] - 1
  BY <1>3, <1>4
<1> QED
  BY <1>1, <1>5

LEMMA WholeUnbroken ==
  ASSUME IInv, at = "done", bad = <<>>
  PROVE  /\ \A x \in Segment : Covers(x) = 1
         /\ \A n \in DOMAIN result : result[n].b - 1 \in Segment
<1> DEFINE L == Len(list)
<1>1. TypeOK /\ L \in Nat /\ result \in Seq(Parts) /\ Len(bad) = 0
  BY ListFacts DEF IInv, TypeOK
<1>2. Alive = L /\ L - 0 = L
  BY <1>1 DEF Alive
<1>3. /\ Len(result) = Alive
      /\ \A q \in DOMAIN result : result[q] = IF q <= Alive THEN First(Skip(q)) ELSE Second(Skip(q - Alive))
  BY <1>1 DEF IInv, ResultInv, Over
<1>4. DOMAIN result = 1 .. L
  BY <1>1, <1>2, <1>3
<1>5. ASSUME NEW q \in 1 .. L PROVE result[q] = First(q)
  <2>1. q <= Alive /\ Skip(q) = q
    BY <1>1, <1>2, <1>5 DEF Skip
  <2> QED
    BY <1>3, <1>4, <1>5, <2>1
<1>6. ASSUME NEW x \in Segment PROVE Covers(x) = 1
  <2>1. x \in Nat
    BY <1>1, <1>6, FirstEnds
  <2>2. PICK n \in 1 .. L : InStepOf(Ends1, n, x) /\ \A k \in 1 .. L : InStepOf(Ends1, k, x) => k = n
    BY <1>1, <1>6, InFirst
  <2>3. \A q \in 1 .. L : Has(q, x) <=> InStepOf(Ends1, q, x)
    BY <1>1, <1>5, <2>1, HasFirst
  <2> QED
    BY <1>4, <2>2, <2>3, CoveredOnce
<1>7. ASSUME NEW n \in 1 .. L PROVE result[n].b - 1 \in Segment
  <2>1. result[n].b = Ends1[n] /\ Ends1[n - 1] < Ends1[n] /\ Bounds(Ends1, L)
    BY <1>1, <1>5, <1>7, FirstEnds
  <2>2. n \in 0 .. L
    BY <1>1
  <2>3. Ends1[n] \in Nat /\ Ends1[n] <= Ends1[n]
    BY <2>1, <2>2 DEF Bounds
  <2> QED
    BY <1>1, <2>1, <2>3, LastInSegment
<1> QED
  BY <1>4, <1>6, <1>7

\* The ends of the parts of the second round, when the m-th server has failed.
Ends2(m) == [n \in 0 .. Len(list) |-> Ends1[m - 1] + dx * Sums(list, {m})[n]]
Divides(m) ==
  /\ Bounds(Ends2(m), Len(list))
  /\ Ends2(m)[0] = Ends1[m - 1] /\ Ends2(m)[Len(list)] = Ends1[m]
  /\ ~(Ends2(m)[m - 1] < Ends2(m)[m])
  /\ \A n \in 1 .. Len(list) \ {m} :
       Second(n).a = Ends2(m)[n - 1] /\ Second(n).b = Ends2(m)[n] /\ Ends2(m)[n - 1] < Ends2(m)[n]

LEMMA SecondEnds ==
  ASSUME TypeOK, NEW m \in 1 .. Len(list), bad[1] = m, dx \in Nat \ {0},
         dx * Sums(list, {m})[Len(list)] = Grain * Cpus[list[m]]
  PROVE  Divides(m)
<1> DEFINE S == Sums(list, {m})
           L == Len(list)
           G == Ends2(m)
           c == Ends1[m - 1]
<1>1. list \in Seq(Server) /\ L \in Nat
  BY ListFacts
<1>2. SumsOf(list, {m}, S)
  BY <1>1, SumsFacts
<1>3. /\ S \in [0 .. L -> Nat] /\ S[0] = 0 /\ S[m] = S[m - 1]
      /\ \A n \in 1 .. L : n # m => S[n] = S[n - 1] + Cpus[list[n]]
  <2>1. /\ S \in [0 .. L -> Nat] /\ S[0] = 0
        /\ \A n \in 1 .. L : S[n] = S[n - 1] + (IF n = m THEN 0 ELSE Cpus[list[n]])
    BY <1>2 DEF SumsOf
  <2>2. m - 1 \in 0 .. L
    BY <1>1
  <2>3. S[m - 1] \in Nat /\ S[m] = S[m - 1] + 0
    BY <2>1, <2>2
  <2>4. S[m] = S[m - 1]
    BY <2>3
  <2> QED
    BY <2>1, <2>4
<1>4. c \in Nat /\ First(m).a = c /\ First(m).b = Ends1[m] /\ Ends1[m] \in Nat
  <2>1. m - 1 \in 0 .. L /\ m \in 0 .. L
    BY <1>1
  <2> QED
    BY <2>1, FirstEnds DEF Bounds
<1>5. Ends1[m] = c + dx * S[L]
  <2>1. m \in DOMAIN list
    BY <1>1, ListFacts
  <2>2. Ends1[m] - c = Grain * Cpus[list[m]]
    BY <1>4, <2>1, FirstFacts
  <2>3. PICK u : u = Grain * Cpus[list[m]]
    OBVIOUS
  <2>4. dx * S[L] = u /\ Ends1[m] - c = u
    BY <2>2, <2>3
  <2>5. Ends1[m] = c + u
    <3>1. PICK v : v = Ends1[m]
      OBVIOUS
    <3>2. v \in Nat /\ v - c = u /\ c \in Nat
      BY <1>4, <2>4, <3>1
    <3> HIDE DEF c
    <3>3. v = c + u
      BY ONLY <3>2
    <3> QED
      BY <3>1, <3>3
  <2> QED
    BY <2>4, <2>5
<1> HIDE DEF S, L, c
<1>6. G = [n \in 0 .. L |-> c + dx * S[n]]
  BY DEF Ends2, S, L, c
<1> HIDE DEF G
<1>7. \A n \in 0 .. L : dx * S[n] \in Nat
  BY <1>3, Product
<1>8. \A n \in 0 .. L : G[n] = c + dx * S[n] /\ G[n] \in Nat
  BY <1>4, <1>6, <1>7
<1>9. G[m] = G[m - 1]
  <2>1. m - 1 \in 0 .. L /\ m \in 0 .. L
    BY <1>1 DEF L
  <2> QED
    BY <1>3, <1>8, <2>1
<1>10. ASSUME NEW n \in 1 .. L, n # m
       PROVE  Second(n).a = G[n - 1] /\ Second(n).b = G[n] /\ G[n - 1] < G[n]
  <2>1. n - 1 \in 0 .. L /\ n \in 0 .. L /\ n \in DOMAIN list
    BY <1>1, <1>10, ListFacts DEF L
  <2>2. Cpus[list[n]] \in Nat \ {0} /\ S[n - 1] \in Nat /\ S[n] = S[n - 1] + Cpus[list[n]]
    BY <1>3, <1>10, <2>1, ListFacts
  <2>3. dx * (S[n - 1] + Cpus[list[n]]) = dx * S[n - 1] + dx * Cpus[list[n]]
    BY <2>2, Product
  <2>4. PICK u, v : u = dx * S[n - 1] /\ v = dx * Cpus[list[n]]
    OBVIOUS
  <2>5. u \in Nat /\ v \in Nat /\ v # 0
    <3>1. PICK w \in Nat : w = Cpus[list[n]] /\ w # 0
      BY <2>2
    <3>2. dx \in Nat /\ dx # 0 /\ dx * w \in Nat /\ dx * w # 0
      BY <3>1, Product
    <3> QED
      BY <1>7, <2>1, <2>4, <3>1, <3>2
  <2>6. G[n - 1] = c + u /\ G[n] = c + (u + v)
    BY <1>8, <2>1, <2>2, <2>3, <2>4
  <2>7. Second(n) = [a |-> c + u, b |-> (c + u) + v]
    BY <1>4, <2>4 DEF Second, S
  <2>8. (c + u) + v = c + (u + v) /\ c + u < c + (u + v)
    BY ONLY <1>4, <2>5
  <2> QED
    BY <2>6, <2>7, <2>8
<1>11. G[0] = c /\ G[L] = Ends1[m]
  <2>1. 0 \in 0 .. L /\ L \in 0 .. L
    BY <1>1 DEF L
  <2>2. dx * S[0] = 0 /\ c + 0 = c
    BY <1>3, <1>4, Product
  <2> QED
    BY <1>5, <1>8, <2>1, <2>2
<1>12. Bounds(G, L)
  <2>1. G \in [0 .. L -> Nat]
    BY <1>6, <1>8
  <2>2. ASSUME NEW n \in 1 .. L PROVE G[n - 1] <= G[n]
    <3>1. n - 1 \in 0 .. L /\ n \in 0 .. L
      BY <1>1 DEF L
    <3>2. G[n - 1] \in Nat /\ G[n] \in Nat /\ (G[n - 1] < G[n] \/ G[n] = G[n - 1])
      BY <1>8, <1>9, <1>10, <3>1
    <3> QED
      BY <3>2
  <2> QED
    BY <1>1, <2>1, <2>2 DEF Bounds, L
<1>13. ~(G[m - 1] < G[m])
  <2>1. m \in 0 .. L
    BY <1>1 DEF L
  <2>2. G[m] \in Nat
    BY <1>8, <2>1
  <2> QED
    BY <1>9, <2>2
<1> QED
  BY <1>10, <1>11, <1>12, <1>13 DEF Divides, G, L, c

LEMMA HasSecond ==
  ASSUME TypeOK, NEW m, Divides(m), NEW x \in Nat, NEW q, NEW n \in 1 .. Len(list), n # m, result[q] = Second(n)
  PROVE  Has(q, x) <=> InStepOf(Ends2(m), n, x)
<1> DEFINE G == Ends2(m)
<1> HIDE DEF G
<1>1. Second(n).a = G[n - 1] /\ Second(n).b = G[n] /\ Bounds(G, Len(list))
  BY DEF Divides, G
<1>2. n - 1 \in 0 .. Len(list) /\ n \in 0 .. Len(list)
  BY ListFacts
<1>3. G[n - 1] \in Nat /\ G[n] \in Nat
  BY <1>1, <1>2 DEF Bounds
<1> QED
  BY <1>1, <1>3, Between DEF Has, InStepOf, G

\* The parts of the second round are within the part of the m-th server.
LEMMA WithinLost ==
  ASSUME TypeOK, NEW m \in 1 .. Len(list), Divides(m), NEW x \in Nat
  PROVE  /\ \A n \in 1 .. Len(list) : InStepOf(Ends2(m), n, x) => InStepOf(Ends1, m, x)
         /\ InStepOf(Ends1, m, x) =>
              \E n \in 1 .. Len(list) : /\ n # m /\ InStepOf(Ends2(m), n, x)
                                        /\ \A k \in 1 .. Len(list) : InStepOf(Ends2(m), k, x) => k = n
<1> DEFINE G == Ends2(m)
           L == Len(list)
<1>1. /\ Bounds(G, L) /\ G[0] = Ends1[m - 1] /\ G[L] = Ends1[m] /\ ~(G[m - 1] < G[m])
  BY DEF Divides
<1> HIDE DEF G
<1>2. L \in Nat /\ G \in [0 .. L -> Nat]
  BY <1>1 DEF Bounds
<1>3. ASSUME NEW n \in 1 .. L, InStepOf(G, n, x) PROVE InStepOf(Ends1, m, x)
  <2>1. /\ 0 \in 0 .. L /\ n - 1 \in 0 .. L /\ n \in 0 .. L /\ L \in 0 .. L /\ 0 <= n - 1 /\ n <= L
    BY <1>2
  <2>2. G[0] <= G[n - 1] /\ G[n] <= G[L]
    BY <1>1, <2>1, Rising
  <2>3. G[0] \in Nat /\ G[n - 1] \in Nat /\ G[n] \in Nat /\ G[L] \in Nat
    BY <1>2, <2>1
  <2>4. G[n - 1] <= x /\ x < G[n]
    BY <1>3 DEF InStepOf
  <2>5. G[0] <= x /\ x < G[L]
    BY <2>2, <2>3, <2>4
  <2> QED
    BY <1>1, <2>5 DEF InStepOf
<1>4. ASSUME InStepOf(Ends1, m, x)
      PROVE  \E n \in 1 .. L : n # m /\ InStepOf(G, n, x) /\ \A k \in 1 .. L : InStepOf(G, k, x) => k = n
  <2>1. G[0] <= x /\ x < G[L]
    BY <1>1, <1>4 DEF InStepOf
  <2>2. PICK n \in 1 .. L : InStepOf(G, n, x) /\ \A k \in 1 .. L : InStepOf(G, k, x) => k = n
    BY <1>1, <2>1, OneStep
  <2>3. n # m
    <3> SUFFICES ASSUME n = m PROVE FALSE
      OBVIOUS
    <3>1. m - 1 \in 0 .. L /\ m \in 0 .. L
      BY <1>2
    <3>2. G[m - 1] \in Nat /\ G[m] \in Nat /\ G[m - 1] <= x /\ x < G[m]
      BY <1>2, <2>2, <3>1 DEF InStepOf
    <3> QED
      BY <1>1, <3>2
  <2> QED
    BY <2>2, <2>3
<1> QED
  BY <1>3, <1>4 DEF G

LEMMA WholeMended ==
  ASSUME IInv, at = "done", bad # <<>>, Mended
  PROVE  /\ \A x \in Segment : Covers(x) = 1
         /\ \A n \in DOMAIN result : result[n].b - 1 \in Segment
<1> DEFINE L == Len(list)
           A == Alive
<1>1. /\ Len(bad) = 1 /\ Cpus[list[bad[1]]] = Cpus[list[1]]
      /\ (Grain * Cpus[list[1]]) % number_of_cpus = 0
      /\ \A n \in DOMAIN list : ~Late(n)
  BY DEF Mended
<1>2. /\ TypeOK /\ L \in Nat /\ result \in Seq(Parts) /\ bad \in Seq(1 .. L)
      /\ number_of_cpus # 0 /\ dx = (Grain * Cpus[list[1]]) \div number_of_cpus
  BY <1>1, ListFacts DEF IInv, TypeOK, LimitsInv
<1>3. PICK m \in 1 .. L : m = bad[1]
  BY <1>1, <1>2
<1>4. Divides(m)
  <2>1. number_of_cpus = Sums(list, {m})[L]
    <3>1. ToSet(bad) = {m}
      BY <1>1, <1>2, <1>3, OneBad
    <3>2. (L + 1) - 1 = L
      BY <1>2
    <3> QED
      BY <3>1, <3>2 DEF number_of_cpus, OpenCpus
  <2>2. number_of_cpus \in Nat /\ Grain \in Nat /\ Grain # 0
    BY <1>2, OpenFacts, NetAssumption
  <2>3. PICK w \in Nat : w = Cpus[list[1]] /\ w = Cpus[list[m]] /\ w # 0
    <3>1. m \in DOMAIN list
      BY <1>2, ListFacts
    <3>2. Cpus[list[m]] \in Nat \ {0}
      BY <1>2, <3>1, ListFacts
    <3> QED
      BY <1>1, <1>3, <3>2
  <2>4. Grain * w \in Nat /\ Grain * w # 0
    BY <2>2, <2>3, Product
  <2>5. PICK u, d : u = Grain * w /\ d = number_of_cpus
    OBVIOUS
  <2>6. dx \in Nat /\ dx * d = u
    <3>1. u \in Nat /\ d \in Nat /\ d # 0 /\ u % d = 0 /\ dx = u \div d
      BY <1>1, <1>2, <2>2, <2>3, <2>4, <2>5
    <3> QED
      BY <3>1, Quotient
  <2>7. dx # 0
    <3>1. dx = 0 => dx * d = 0
      BY <2>2, <2>5
    <3> QED
      BY <2>4, <2>5, <2>6, <3>1
  <2>8. dx * Sums(list, {m})[L] = Grain * Cpus[list[m]]
    BY <2>1, <2>3, <2>5, <2>6
  <2> QED
    BY <1>2, <1>3, <2>6, <2>7, <2>8, SecondEnds
<1>5. /\ Len(result) = 2 * A
      /\ \A q \in DOMAIN result : result[q] = IF q <= A THEN First(Skip(q)) ELSE Second(Skip(q - A))
  BY <1>1 DEF IInv, ResultInv, Over
<1>6. A \in Nat /\ L = A + 1
  BY <1>1, <1>2, <1>3 DEF Alive
<1> HIDE DEF L, A
<1>7. DOMAIN result = 1 .. 2 * A
  BY <1>2, <1>5
<1>8. \A q \in 1 .. A : /\ Skip(q) = (IF q >= m THEN q + 1 ELSE q)
                        /\ Skip(q) \in 1 .. L /\ Skip(q) # m
  BY <1>3, <1>6 DEF Skip
<1>9. \A q \in 1 .. A : q \in 1 .. 2 * A /\ q + A \in 1 .. 2 * A /\ result[q] = First(Skip(q)) /\ result[q + A] = Second(Skip(q))
  <2> SUFFICES ASSUME NEW q \in 1 .. A
               PROVE  q \in 1 .. 2 * A /\ q + A \in 1 .. 2 * A /\ result[q] = First(Skip(q)) /\ result[q + A] = Second(Skip(q))
    OBVIOUS
  <2>1. q \in 1 .. 2 * A /\ q + A \in 1 .. 2 * A /\ q <= A /\ ~(q + A <= A) /\ (q + A) - A = q
    BY <1>6
  <2> QED
    BY <1>5, <1>7, <2>1
<1>10. \A p \in 1 .. 2 * A : p \in 1 .. A \/ \E q \in 1 .. A : p = q + A
  <2> SUFFICES ASSUME NEW p \in 1 .. 2 * A, p \notin 1 .. A PROVE p - A \in 1 .. A /\ p = (p - A) + A
    OBVIOUS
  <2> QED
    BY <1>6
<1>11. \A p, q \in 1 .. A : Skip(p) = Skip(q) => p = q
  BY <1>3, <1>8
<1>12. \A n \in 1 .. L : n # m => \E q \in 1 .. A : Skip(q) = n
  <2> SUFFICES ASSUME NEW n \in 1 .. L, n # m PROVE \E q \in 1 .. A : Skip(q) = n
    OBVIOUS
  <2>1. CASE n < m
    <3>1. n \in 1 .. A /\ ~(n >= m)
      BY <1>3, <1>6, <2>1
    <3> QED
      BY <1>8, <3>1
  <2>2. CASE n > m
    <3>1. n - 1 \in 1 .. A /\ n - 1 >= m /\ (n - 1) + 1 = n
      BY <1>3, <1>6, <2>2
    <3> QED
      BY <1>8, <3>1
  <2> QED
    BY <1>3, <2>1, <2>2
<1>13. ASSUME NEW x \in Segment PROVE Covers(x) = 1
  <2>1. x \in Nat
    BY <1>2, <1>13, FirstEnds
  <2>2. PICK n \in 1 .. L : InStepOf(Ends1, n, x) /\ \A k \in 1 .. L : InStepOf(Ends1, k, x) => k = n
    BY <1>2, <1>13, InFirst DEF L
  <2>3. \A q \in 1 .. A : Has(q, x) <=> InStepOf(Ends1, Skip(q), x)
    BY <1>2, <1>8, <1>9, <2>1, HasFirst DEF L
  <2>4. \A q \in 1 .. A : Has(q + A, x) <=> InStepOf(Ends2(m), Skip(q), x)
    BY <1>2, <1>4, <1>8, <1>9, <2>1, HasSecond DEF L
  <2>5. CASE n # m
    <3>1. PICK q \in 1 .. A : Skip(q) = n
      BY <1>12, <2>5
    <3>2. Has(q, x) /\ q \in DOMAIN result
      BY <1>7, <1>9, <2>2, <2>3, <3>1
    <3>3. ASSUME NEW p \in DOMAIN result, Has(p, x) PROVE p = q
      <4>1. CASE p \in 1 .. A
        <5>1. Skip(p) = n
          BY <1>8, <2>2, <2>3, <3>3, <4>1
        <5> QED
          BY <1>11, <3>1, <4>1, <5>1
      <4>2. ASSUME NEW r \in 1 .. A, p = r + A PROVE FALSE
        <5>1. InStepOf(Ends2(m), Skip(r), x) /\ Skip(r) \in 1 .. L
          BY <1>8, <2>4, <3>3, <4>2
        <5>2. InStepOf(Ends1, m, x)
          BY <1>2, <1>4, <2>1, <5>1, WithinLost DEF L
        <5> QED
          BY <2>2, <2>5, <5>2
      <4> QED
        BY <1>7, <1>10, <3>3, <4>1, <4>2
    <3> QED
      BY <3>2, <3>3, CoveredOnce
  <2>6. CASE n = m
    <3>1. PICK k \in 1 .. L : /\ k # m /\ InStepOf(Ends2(m), k, x)
                              /\ \A h \in 1 .. L : InStepOf(Ends2(m), h, x) => h = k
      BY <1>2, <1>4, <2>1, <2>2, <2>6, WithinLost DEF L
    <3>2. PICK r \in 1 .. A : Skip(r) = k
      BY <1>12, <3>1
    <3>3. Has(r + A, x) /\ r + A \in DOMAIN result
      BY <1>7, <1>9, <2>4, <3>1, <3>2
    <3>4. ASSUME NEW p \in DOMAIN result, Has(p, x) PROVE p = r + A
      <4>1. CASE p \in 1 .. A
        <5>1. Skip(p) = m
          BY <1>8, <2>2, <2>3, <2>6, <3>4, <4>1
        <5> QED
          BY <1>8, <4>1, <5>1
      <4>2. ASSUME NEW t \in 1 .. A, p = t + A PROVE p = r + A
        <5>1. Skip(t) = k
          BY <1>8, <2>4, <3>1, <3>4, <4>2
        <5> QED
          BY <1>11, <3>2, <4>2, <5>1
      <4> QED
        BY <1>7, <1>10, <3>4, <4>1, <4>2
    <3> QED
      BY <3>3, <3>4, CoveredOnce
  <2> QED
    BY <2>5, <2>6
<1>14. ASSUME NEW p \in DOMAIN result PROVE result[p].b - 1 \in Segment
  <2>1. ASSUME NEW q \in 1 .. A, p = q PROVE result[p].b - 1 \in Segment
    <3>1. Skip(q) \in 1 .. Len(list) /\ result[p] = First(Skip(q))
      BY <1>8, <1>9, <2>1 DEF L
    <3>2. PICK k \in 1 .. Len(list) : k = Skip(q)
      BY <3>1
    <3>3. result[p].b = Ends1[k] /\ Ends1[k - 1] < Ends1[k] /\ Bounds(Ends1, Len(list))
      BY <1>2, <3>1, <3>2, FirstEnds
    <3>4. k \in 0 .. Len(list)
      BY <1>2 DEF L
    <3>5. Ends1[k] \in Nat /\ Ends1[k] <= Ends1[k]
      BY <3>3, <3>4 DEF Bounds
    <3> QED
      BY <1>2, <3>3, <3>5, LastInSegment
  <2>2. ASSUME NEW q \in 1 .. A, p = q + A PROVE result[p].b - 1 \in Segment
    <3> DEFINE G == Ends2(m)
    <3>1. PICK k \in 1 .. Len(list) : k = Skip(q) /\ k # m
      BY <1>8 DEF L
    <3>2. result[p].b = G[k] /\ G[k - 1] < G[k] /\ Bounds(G, Len(list)) /\ G[0] = Ends1[m - 1] /\ G[Len(list)] = Ends1[m]
      BY <1>4, <1>9, <2>2, <3>1 DEF Divides
    <3> HIDE DEF G
    <3>3. /\ k \in 0 .. Len(list) /\ k - 1 \in 0 .. Len(list) /\ 0 \in 0 .. Len(list)
          /\ Len(list) \in 0 .. Len(list) /\ 0 <= k - 1 /\ k <= Len(list)
      BY <1>2 DEF L
    <3>4. G[0] <= G[k - 1] /\ G[k] <= G[Len(list)]
      BY <3>2, <3>3, Rising
    <3>5. G[0] \in Nat /\ G[k - 1] \in Nat /\ G[k] \in Nat /\ G[Len(list)] \in Nat
      BY <3>2, <3>3 DEF Bounds
    <3>6. Ends1[m - 1] < G[k] /\ G[k] <= Ends1[m]
      BY <3>2, <3>4, <3>5
    <3> QED
      BY <1>2, <3>2, <3>5, <3>6, LastInSegment DEF L
  <2> QED
    BY <1>7, <1>10, <1>14, <2>1, <2>2
<1> QED
  BY <1>13, <1>14

\* The printed result is the integral over the whole segment, no piece of which is
\* left out or added twice: where the client saw no server fail, and where it saw
\* one whose part the recalculation can share out (see Mended).
THEOREM WholeHolds == Spec => []Whole
<1>1. IInv => Whole
  BY WholeUnbroken, WholeMended DEF Whole
<1> QED
  BY <1>1, Invariance, PTL
===========================================================================

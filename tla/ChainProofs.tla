---------------------------- MODULE ChainProofs ----------------------------
(***************************************************************************)
(* Theorems about the two programs whose children pass something on in     *)
(* order: PipeChain, for any number of children, any file and any sizes of *)
(* the pipes and of the buffers, and, in the second half, MsgRing, for any *)
(* number of children and any forks that fail.                             *)
(***************************************************************************)
EXTENDS PipeChain, MsgRing, SequenceTheorems, WellFoundedInduction, TLAPS

(***************************************************************************)
(* Induction on a set of naturals.                                         *)
(***************************************************************************)
LEMMA LessOnNat ==
  \E R : IsWellFoundedOn(R, Nat) /\ \A x, y \in Nat : x < y => <<x, y>> \in R
<1>1. IsWellFoundedOn(OpToRel(<, Nat), Nat)
  BY NatLessThanWellFounded, Zenon
<1>2. \A x, y \in Nat : x < y => <<x, y>> \in OpToRel(<, Nat)
  BY DEF OpToRel
<1> QED
  BY <1>1, <1>2, Zenon

LEMMA NatInSet ==
  ASSUME NEW T, 0 \in T, \A n \in Nat : n \in T => n + 1 \in T
  PROVE  \A n \in Nat : n \in T
<1>1. PICK R : IsWellFoundedOn(R, Nat) /\ \A x, y \in Nat : x < y => <<x, y>> \in R
  BY LessOnNat
<1>2. SUFFICES ASSUME Nat \ T # {} PROVE FALSE
  OBVIOUS
<1>3. PICK x \in Nat \ T : \A y \in Nat \ T : <<y, x>> \notin R
  <2>1. Nat \ T \subseteq Nat
    OBVIOUS
  <2> QED
    BY <2>1, <1>1, <1>2, WFMin
<1>4. x - 1 \in Nat /\ x - 1 < x /\ (x - 1) + 1 = x
  OBVIOUS
<1>5. x - 1 \in T
  BY <1>1, <1>3, <1>4
<1> QED
  BY <1>3, <1>4, <1>5

---------------------------------------------------------------------------
(***************************************************************************)
(* Sequences: what a read takes and leaves, and pieces of one sequence.    *)
(***************************************************************************)
LEMMA ReadFacts ==
  ASSUME NEW S, NEW s \in Seq(S), NEW n \in Nat \ {0}
  PROVE  /\ Taken(s, n) \in Seq(S) /\ Rest(s, n) \in Seq(S)
         /\ Taken(s, n) \o Rest(s, n) = s
         /\ Len(Taken(s, n)) <= n /\ Len(Rest(s, n)) <= Len(s)
         /\ s # <<>> => Taken(s, n) # <<>>
         /\ s = <<>> => Taken(s, n) = <<>> /\ Rest(s, n) = <<>>
<1> DEFINE m == IF Len(s) < n THEN Len(s) ELSE n
<1>1. m \in 0 .. Len(s) /\ m <= n /\ (s # <<>> => m > 0) /\ (s = <<>> => m = 0) /\ Len(s) \in Nat
  BY EmptySeq
<1> HIDE DEF m
<1>2. /\ SubSeq(s, 1, m) \in Seq(S) /\ Len(SubSeq(s, 1, m)) = m
  BY <1>1, SubSeqProperties
<1>3. /\ SubSeq(s, m + 1, Len(s)) \in Seq(S)
      /\ Len(SubSeq(s, m + 1, Len(s))) = Len(s) - m
  BY <1>1
<1>4. SubSeq(s, 1, m) \o SubSeq(s, m + 1, Len(s)) = s
  <2>1. SubSeq(s, 1, m) \o SubSeq(s, m + 1, Len(s)) = SubSeq(s, 1, Len(s))
    <3>1. 1 \in 1 .. Len(s) + 1 /\ m \in 1 - 1 .. Len(s) /\ Len(s) \in m .. Len(s)
      BY <1>1
    <3> QED
      BY <3>1, ConcatAdjacentSubSeq
  <2> QED
    BY <2>1, SubSeqFull
<1>5. Taken(s, n) = SubSeq(s, 1, m) /\ Rest(s, n) = SubSeq(s, m + 1, Len(s))
  BY <1>2 DEF Taken, Rest, m
<1>6. s = <<>> => SubSeq(s, 1, m) = <<>> /\ SubSeq(s, m + 1, Len(s)) = <<>>
  BY <1>1, <1>2, <1>3
<1>7. s # <<>> => SubSeq(s, 1, m) # <<>>
  BY <1>1, <1>2
<1>8. Len(SubSeq(s, 1, m)) <= n /\ Len(SubSeq(s, m + 1, Len(s))) <= Len(s)
  BY <1>1, <1>2, <1>3
<1> QED
  BY <1>2, <1>3, <1>4, <1>5, <1>6, <1>7, <1>8, Zenon

LEMMA EmptyPiece ==
  ASSUME NEW s, NEW a \in Nat
  PROVE  SubSeq(s, a + 1, a) = <<>>
BY SubSeqEmpty

\* Two pieces that meet.
Meet(s, a, b, c) == SubSeq(s, a + 1, b) \o SubSeq(s, b + 1, c) = SubSeq(s, a + 1, c)

LEMMA JoinPieces ==
  ASSUME NEW S, NEW s \in Seq(S), NEW a \in Nat, NEW b \in Nat, NEW c \in Nat,
         a <= b, b <= c, c <= Len(s)
  PROVE  Meet(s, a, b, c)
<1>1. /\ a + 1 \in 1 .. Len(s) + 1 /\ b \in (a + 1) - 1 .. Len(s) /\ c \in b .. Len(s)
      /\ Len(s) \in Nat
  OBVIOUS
<1> QED
  BY <1>1, ConcatAdjacentSubSeq DEF Meet

\* A piece is cut in two.
Halves(s, a, b, t, r) ==
  /\ Len(t) \in Nat /\ a + Len(t) <= b
  /\ t = SubSeq(s, a + 1, a + Len(t))
  /\ r = SubSeq(s, a + Len(t) + 1, b)

LEMMA SplitPiece ==
  ASSUME NEW S, NEW s \in Seq(S), NEW a \in Nat, NEW b \in Nat, a <= b, b <= Len(s),
         NEW t \in Seq(S), NEW r \in Seq(S), NEW p, p = SubSeq(s, a + 1, b), p = t \o r
  PROVE  Halves(s, a, b, t, r)
<1>1. Len(s) \in Nat /\ Len(t) \in Nat /\ Len(r) \in Nat /\ a \in Nat /\ b \in Nat
  OBVIOUS
<1>2. /\ p \in Seq(S) /\ Len(p) = b - a
      /\ \A i \in 1 .. b - a : p[i] = s[a + i]
  BY <1>1
<1>3. /\ Len(t \o r) = Len(t) + Len(r)
      /\ \A i \in 1 .. Len(t) + Len(r) :
            (t \o r)[i] = IF i <= Len(t) THEN t[i] ELSE r[i - Len(t)]
  BY ConcatProperties
<1>4. Len(t) + Len(r) = b - a
  BY <1>2, <1>3
<1>5. \A i \in 1 .. Len(t) : t[i] = s[a + i]
  BY <1>1, <1>2, <1>3, <1>4
<1>6. \A i \in 1 .. Len(r) : r[i] = s[a + Len(t) + i]
  <2> TAKE i \in 1 .. Len(r)
  <2>1. Len(t) + i \in 1 .. Len(t) + Len(r) /\ ~(Len(t) + i <= Len(t))
        /\ (Len(t) + i) - Len(t) = i
    BY <1>1
  <2>2. (t \o r)[Len(t) + i] = r[i]
    BY <1>3, <2>1
  <2>3. p[Len(t) + i] = s[a + (Len(t) + i)]
    BY <1>2, <1>4, <2>1
  <2> QED
    BY <2>2, <2>3, <1>1
<1>7. /\ \A i \in a + 1 .. a + Len(t) : s[i] \in S
      /\ \A i \in a + Len(t) + 1 .. b : s[i] \in S
  BY <1>1, <1>4, SMTT(30)
<1>8. t = SubSeq(s, a + 1, a + Len(t))
  <2> DEFINE u == SubSeq(s, a + 1, a + Len(t))
  <2>1. u \in Seq(S) /\ Len(u) = Len(t) /\ \A i \in 1 .. Len(t) : u[i] = s[a + i]
    BY <1>1, <1>4, <1>7, SubSeqProperties
  <2> HIDE DEF u
  <2>2. u = t
    BY <2>1, <1>5, SeqEqual
  <2> QED
    BY <2>2 DEF u
<1>9. r = SubSeq(s, a + Len(t) + 1, b)
  <2> DEFINE u == SubSeq(s, a + Len(t) + 1, b)
  <2>1. u \in Seq(S) /\ Len(u) = Len(r) /\ \A i \in 1 .. Len(r) : u[i] = s[a + Len(t) + i]
    BY <1>1, <1>4, <1>7, SubSeqProperties
  <2> HIDE DEF u
  <2>2. u = r
    BY <2>1, <1>6, SeqEqual
  <2> QED
    BY <2>2 DEF u
<1> QED
  BY <1>1, <1>4, <1>8, <1>9 DEF Halves

\* The pieces of q, flattened, are one piece.
Flattened(s, q, at, m) ==
  at[0] <= at[m] /\ FlattenSeq(q) = SubSeq(s, at[0] + 1, at[m])

\* By induction on their number.
LEMMA FlattenPieces ==
  ASSUME NEW S, NEW s \in Seq(S), NEW m \in Nat \ {0}, NEW q, Len(q) = m,
         NEW at \in [0 .. m -> 0 .. Len(s)],
         \A n \in 1 .. m : at[n - 1] <= at[n] /\ q[n] = SubSeq(s, at[n - 1] + 1, at[n])
  PROVE  Flattened(s, q, at, m)
<1> DEFINE fl == CHOOSE g : g = [i \in 1 .. m |-> IF i = 1 THEN q[i] ELSE g[i - 1] \o q[i]]
           w == [i \in 1 .. m |-> SubSeq(s, at[0] + 1, at[i])]
<1>1. FlattenSeq(q) = fl[m]
  BY DEF FlattenSeq
<1>2. \A n \in 0 .. m : at[n] \in 0 .. Len(s)
  OBVIOUS
<1>3. \A n \in 0 .. m : at[0] <= at[n]
  <2> DEFINE T == {n \in Nat : n <= m => at[0] <= at[n]}
  <2>1. 0 \in T
    BY <1>2
  <2>2. ASSUME NEW n \in Nat, n \in T PROVE n + 1 \in T
    <3>1. CASE n + 1 <= m
      <4>1. n + 1 \in 1 .. m /\ (n + 1) - 1 = n /\ n \in 0 .. m /\ n + 1 \in 0 .. m /\ 0 \in 0 .. m
        BY <3>1
      <4>2. PICK x \in Int, y \in Int, z \in Int : x = at[0] /\ y = at[n] /\ z = at[n + 1]
        <5>1. at[0] \in Int /\ at[n] \in Int /\ at[n + 1] \in Int
          BY <4>1, <1>2
        <5> QED
          BY <5>1, Zenon
      <4>3. x <= y /\ y <= z
        BY <4>1, <4>2, <2>2
      <4> QED
        BY <4>2, <4>3
    <3> QED
      BY <3>1, <2>2
  <2> HIDE DEF T
  <2>3. \A n \in Nat : n \in T
    BY <2>1, <2>2, NatInSet
  <2> QED
    BY <2>3 DEF T
<1>4. \A i \in 1 .. m : w[i] = IF i = 1 THEN q[i] ELSE w[i - 1] \o q[i]
  <2> TAKE i \in 1 .. m
  <2>1. CASE i = 1
    <3>1. i - 1 = 0
      BY <2>1
    <3>3. q[i] = SubSeq(s, at[i - 1] + 1, at[i])
      BY Zenon
    <3>2. w[i] = SubSeq(s, at[0] + 1, at[i])
      BY Zenon
    <3> QED
      BY <3>1, <3>2, <3>3, <2>1, Zenon
  <2>2. CASE i # 1
    <3>1. i - 1 \in 1 .. m /\ i - 1 \in 0 .. m /\ i \in 0 .. m /\ 0 \in 0 .. m
      BY <2>2
    <3>2. PICK x \in 0 .. Len(s), y \in 0 .. Len(s), z \in 0 .. Len(s) :
            x = at[0] /\ y = at[i - 1] /\ z = at[i]
      BY <3>1, <1>2
    <3>3. x <= y /\ y <= z
      BY <3>1, <3>2, <1>3
    <3>4. Meet(s, x, y, z)
      <4>1. x \in Nat /\ y \in Nat /\ z \in Nat /\ z <= Len(s)
        OBVIOUS
      <4> QED
        BY <3>3, <4>1, JoinPieces, Zenon
    <3>5. w[i] = SubSeq(s, x + 1, z) /\ w[i - 1] = SubSeq(s, x + 1, y) /\ q[i] = SubSeq(s, y + 1, z)
      BY <3>1, <3>2
    <3> QED
      BY <3>4, <3>5, <2>2, Zenon DEF Meet
  <2> QED
    BY <2>1, <2>2
<1>5. w = [i \in 1 .. m |-> IF i = 1 THEN q[i] ELSE w[i - 1] \o q[i]]
  BY <1>4
<1> HIDE DEF w
<1>6. fl = [i \in 1 .. m |-> IF i = 1 THEN q[i] ELSE fl[i - 1] \o q[i]]
  BY <1>5
<1> HIDE DEF fl
<1>7. \A n \in Nat : n \in 1 .. m => fl[n] = w[n]
  <2> DEFINE T == {n \in Nat : n \in 1 .. m => fl[n] = w[n]}
  <2>1. 0 \in T
    OBVIOUS
  <2>2. ASSUME NEW n \in Nat, n \in T PROVE n + 1 \in T
    <3>1. CASE n + 1 \in 1 .. m
      <4>1. fl[n + 1] = IF n + 1 = 1 THEN q[n + 1] ELSE fl[(n + 1) - 1] \o q[n + 1]
        BY <3>1, <1>6
      <4>2. w[n + 1] = IF n + 1 = 1 THEN q[n + 1] ELSE w[(n + 1) - 1] \o q[n + 1]
        BY <3>1, <1>4
      <4>3. n + 1 # 1 => n \in 1 .. m /\ (n + 1) - 1 = n
        BY <3>1
      <4>4. n + 1 # 1 => fl[n] = w[n]
        BY <4>3, <2>2
      <4>5. fl[n + 1] = w[n + 1]
        BY <4>1, <4>2, <4>3, <4>4
      <4> QED
        BY <4>5, SMTT(30)
    <3> QED
      BY <3>1
  <2> HIDE DEF T
  <2>3. \A n \in Nat : n \in T
    BY <2>1, <2>2, NatInSet
  <2> QED
    BY <2>3 DEF T
<1>8. fl[m] = w[m]
  BY <1>7
<1>9. w[m] = SubSeq(s, at[0] + 1, at[m])
  <2>1. m \in 1 .. m
    OBVIOUS
  <2> QED
    BY <2>1, Zenon DEF w
<1>10. at[0] <= at[m]
  BY <1>3
<1> QED
  BY <1>1, <1>8, <1>9, <1>10, Zenon DEF Flattened

---------------------------------------------------------------------------
(***************************************************************************)
(* The pieces of the file.                                                 *)
(***************************************************************************)
\* The beginning of one piece becomes the end of the next.
LEMMA MovePiece ==
  ASSUME NEW f \in [0 .. nchs + 1 -> Seq(Bytes)], Pieces(f),
         NEW k \in 0 .. nchs, NEW t \in Seq(Bytes), NEW r \in Seq(Bytes), f[k] = t \o r
  PROVE  Pieces([f EXCEPT ![k] = r, ![k + 1] = @ \o t])
<1>1. PICK cut \in [0 .. nchs + 2 -> 0 .. Len(Input)] :
        /\ cut[0] = Len(Input) /\ cut[nchs + 2] = 0
        /\ \A m \in 0 .. nchs + 1 :
             /\ cut[m + 1] <= cut[m]
             /\ f[m] = SubSeq(Input, cut[m + 1] + 1, cut[m])
  BY DEF Pieces
<1>2. nchs \in Nat \ {0} /\ Len(Input) \in Nat /\ Input \in Seq(Bytes)
  BY ChainAssumption
<1>3. PICK a \in 0 .. Len(Input), b \in 0 .. Len(Input), z \in 0 .. Len(Input) :
        a = cut[k + 1] /\ b = cut[k] /\ z = cut[k + 2]
  <2>1. k \in 0 .. nchs + 2 /\ k + 1 \in 0 .. nchs + 2 /\ k + 2 \in 0 .. nchs + 2
    BY <1>2
  <2>2. /\ cut[k] \in 0 .. Len(Input) /\ cut[k + 1] \in 0 .. Len(Input)
        /\ cut[k + 2] \in 0 .. Len(Input)
    BY <2>1, Zenon
  <2> QED
    BY <2>2, Zenon
<1>4. z <= a /\ a <= b /\ f[k] = SubSeq(Input, a + 1, b) /\ f[k + 1] = SubSeq(Input, z + 1, a)
  <2>1. k \in 0 .. nchs + 1 /\ k + 1 \in 0 .. nchs + 1 /\ (k + 1) + 1 = k + 2
    BY <1>2
  <2> QED
    BY <1>1, <1>3, <2>1
<1>5. /\ Len(t) \in Nat /\ a + Len(t) <= b
      /\ t = SubSeq(Input, a + 1, a + Len(t))
      /\ r = SubSeq(Input, a + Len(t) + 1, b)
  <2>1. a \in Nat /\ b \in Nat /\ b <= Len(Input)
    BY <1>2
  <2>2. Halves(Input, a, b, t, r)
    BY <1>2, <1>4, <2>1, SplitPiece, Zenon
  <2> QED
    BY <2>2 DEF Halves
<1>6. PICK e \in 0 .. Len(Input) : e = a + Len(t) /\ a <= e /\ e <= b
  BY <1>2, <1>4, <1>5
<1>7. f[k + 1] \o t = SubSeq(Input, z + 1, e)
  <2>1. Meet(Input, z, a, e)
    <3>1. a \in Nat /\ e \in Nat /\ z \in Nat /\ e <= Len(Input)
      BY <1>2
    <3> QED
      BY <1>2, <1>4, <1>6, <3>1, JoinPieces, Zenon
  <2> QED
    BY <1>4, <1>5, <1>6, <2>1, Zenon DEF Meet
<1> DEFINE c == [cut EXCEPT ![k + 1] = a + Len(t)]
           g == [f EXCEPT ![k] = r, ![k + 1] = @ \o t]
<1>8. c \in [0 .. nchs + 2 -> 0 .. Len(Input)]
  BY <1>6
<1>9. c[0] = Len(Input) /\ c[nchs + 2] = 0
  BY <1>1, <1>2
<1>10. ASSUME NEW m \in 0 .. nchs + 1
       PROVE  c[m + 1] <= c[m] /\ g[m] = SubSeq(Input, c[m + 1] + 1, c[m])
  <2>1. CASE m = k
    <3>1. c[m + 1] = e /\ c[m] = b /\ g[m] = r
      BY <1>2, <1>3, <1>6, <2>1
    <3> QED
      BY <3>1, <1>5, <1>6
  <2>2. CASE m = k + 1
    <3>1. c[m + 1] = z /\ c[m] = e /\ g[m] = f[k + 1] \o t
      <4>1. k + 1 # k /\ k + 1 \in 0 .. nchs + 1 /\ k + 2 # k + 1 /\ m + 1 = k + 2
            /\ k + 1 \in 0 .. nchs + 2
        BY <1>2, <2>2
      <4>2. c[k + 2] = cut[k + 2] /\ c[k + 1] = a + Len(t)
        BY <4>1, <1>2
      <4>3. g[k + 1] = f[k + 1] \o t
        BY <4>1
      <4> QED
        BY <4>1, <4>2, <4>3, <1>3, <1>6, <2>2
    <3> HIDE DEF c, g
    <3>2. z <= e
      BY <1>4, <1>6
    <3> QED
      BY <3>1, <3>2, <1>7, <1>6, Zenon
  <2>3. CASE m # k /\ m # k + 1
    <3>1. c[m + 1] = cut[m + 1] /\ c[m] = cut[m] /\ g[m] = f[m]
      BY <1>2, <2>3
    <3> QED
      BY <3>1, <1>1
  <2> QED
    BY <2>1, <2>2, <2>3
<1> HIDE DEF c, g
<1>11. Pieces(g)
  BY <1>8, <1>9, <1>10 DEF Pieces
<1> QED
  BY <1>11 DEF g

\* What a stage holds, by its four parts.
Four(b, u, c, d) == b \o u \o c \o d

Assoc(x, y, z) == (x \o y) \o z = x \o (y \o z)

LEMMA ConcatAssoc ==
  ASSUME NEW S, NEW x \in Seq(S), NEW y \in Seq(S), NEW z \in Seq(S)
  PROVE  Assoc(x, y, z)
BY SMT DEF Assoc

LEMMA ConcatSeq ==
  ASSUME NEW S, NEW x \in Seq(S), NEW y \in Seq(S)
  PROVE  x \o y \in Seq(S)
BY ConcatProperties, Zenon

LEMMA EmptyConcat ==
  ASSUME NEW S, NEW x \in Seq(S)
  PROVE  x \o <<>> = x /\ <<>> \o x = x
BY ConcatEmptySeq

LEMMA FourSeq ==
  ASSUME NEW S, NEW b \in Seq(S), NEW u \in Seq(S), NEW c \in Seq(S), NEW d \in Seq(S)
  PROVE  Four(b, u, c, d) \in Seq(S)
BY ConcatSeq DEF Four

LEMMA FourRest ==
  ASSUME NEW S, NEW u \in Seq(S), NEW c \in Seq(S), NEW d \in Seq(S)
  PROVE  Four(<<>>, u, c, d) \in Seq(S)
<1>1. <<>> \in Seq(S)
  OBVIOUS
<1> DEFINE e == <<>>
<1>2. e \in Seq(S)
  BY <1>1
<1> HIDE DEF e
<1>3. Four(e, u, c, d) \in Seq(S)
  BY <1>2, FourSeq
<1> QED
  BY <1>3 DEF e

LEMMA FourDown ==
  ASSUME NEW S, NEW b \in Seq(S), NEW u \in Seq(S), NEW t \in Seq(S), NEW r \in Seq(S)
  PROVE  Four(b, u, <<>>, t \o r) = Four(b, u, t, r)
<1>1. (b \o u) \o <<>> = b \o u
  BY ConcatSeq, EmptyConcat
<1>2. Assoc(b \o u, t, r)
  BY ConcatSeq, ConcatAssoc, Zenon
<1> QED
  BY <1>1, <1>2, Zenon DEF Four, Assoc

LEMMA FourWritten ==
  ASSUME NEW S, NEW b \in Seq(S), NEW u \in Seq(S), NEW c \in Seq(S), NEW d \in Seq(S)
  PROVE  Four(b, u \o c, <<>>, d) = Four(b, u, c, d)
<1>1. (b \o (u \o c)) \o <<>> = b \o (u \o c)
  BY ConcatSeq, EmptyConcat
<1>2. Assoc(b, u, c)
  BY ConcatAssoc, Zenon
<1> QED
  BY <1>1, <1>2, Zenon DEF Four, Assoc

LEMMA FourTaken ==
  ASSUME NEW S, NEW t \in Seq(S), NEW r \in Seq(S), NEW c \in Seq(S), NEW d \in Seq(S)
  PROVE  Four(<<>>, t \o r, c, d) = Four(t, r, c, d)
<1>1. <<>> \o (t \o r) = t \o r
  BY ConcatSeq, EmptyConcat
<1> QED
  BY <1>1, Zenon DEF Four

\* What is added to the end of a stage, what is taken from its beginning.
Fed(b, u, t) == Four(b, u, t, <<>>) = Four(b, u, <<>>, <<>>) \o t
Headed(b, u, c, d) == Four(b, u, c, d) = b \o Four(<<>>, u, c, d)
Tailed(b, u, c, d, t) == Four(b, u, c, d \o t) = Four(b, u, c, d) \o t

LEMMA FourFed ==
  ASSUME NEW S, NEW b \in Seq(S), NEW u \in Seq(S), NEW t \in Seq(S)
  PROVE  Fed(b, u, t)
<1>1. ((b \o u) \o t) \o <<>> = (b \o u) \o t /\ (b \o u) \o <<>> = b \o u
  BY ConcatSeq, EmptyConcat
<1> QED
  BY <1>1, Zenon DEF Four, Fed

LEMMA FourHead ==
  ASSUME NEW S, NEW b \in Seq(S), NEW u \in Seq(S), NEW c \in Seq(S), NEW d \in Seq(S)
  PROVE  Headed(b, u, c, d)
<1>1. <<>> \o u = u
  BY EmptyConcat
<1>2. Assoc(b, u, c) /\ Assoc(b, u \o c, d)
  BY ConcatSeq, ConcatAssoc, Zenon
<1> QED
  BY <1>1, <1>2, Zenon DEF Four, Headed, Assoc

LEMMA FourTail ==
  ASSUME NEW S, NEW b \in Seq(S), NEW u \in Seq(S), NEW c \in Seq(S), NEW d \in Seq(S),
         NEW t \in Seq(S)
  PROVE  Tailed(b, u, c, d, t)
<1>1. Assoc((b \o u) \o c, d, t)
  BY ConcatSeq, ConcatAssoc, Zenon
<1> QED
  BY <1>1, Zenon DEF Four, Tailed, Assoc

LEMMA HeldFacts ==
  ASSUME TypeOK
  PROVE  /\ \A i \in Child : InStage(i) \in Seq(Bytes)
         /\ Held \in [0 .. nchs + 1 -> Seq(Bytes)]
         /\ Held[0] = left /\ Held[nchs + 1] = out
         /\ \A i \in Child : Held[i + 1] = InStage(i)
<1>1. nchs \in Nat \ {0}
  BY ChainAssumption
<1>2. ASSUME NEW i \in Child PROVE InStage(i) \in Seq(Bytes)
  <2>1. /\ buf[i] \in Seq(Bytes) /\ up[i] \in Seq(Bytes)
        /\ cbuf[i] \in Seq(Bytes) /\ down[i] \in Seq(Bytes)
    BY DEF TypeOK
  <2>2. Four(buf[i], up[i], cbuf[i], down[i]) \in Seq(Bytes)
    BY <2>1, FourSeq, Zenon
  <2> QED
    BY <2>2 DEF InStage, Four
<1>3. ASSUME NEW k \in 0 .. nchs + 1
      PROVE  (IF k = 0 THEN left ELSE IF k = nchs + 1 THEN out ELSE InStage(k - 1)) \in Seq(Bytes)
  <2>1. k # 0 /\ k # nchs + 1 => k - 1 \in Child
    BY <1>1 DEF Child
  <2>2. left \in Seq(Bytes) /\ out \in Seq(Bytes)
    BY DEF TypeOK
  <2> QED
    BY <1>2, <2>1, <2>2
<1>4. Held \in [0 .. nchs + 1 -> Seq(Bytes)]
  BY <1>3 DEF Held
<1>5. Held[0] = left /\ Held[nchs + 1] = out
  <2>1. 0 \in 0 .. nchs + 1 /\ nchs + 1 \in 0 .. nchs + 1 /\ nchs + 1 # 0
    BY <1>1
  <2> QED
    BY <2>1, Zenon DEF Held
<1>6. ASSUME NEW i \in Child PROVE Held[i + 1] = InStage(i)
  <2>1. i + 1 \in 0 .. nchs + 1 /\ i + 1 # 0 /\ i + 1 # nchs + 1 /\ (i + 1) - 1 = i
    BY <1>1 DEF Child
  <2>2. Held[i + 1] = InStage((i + 1) - 1)
    BY <2>1, Zenon DEF Held
  <2> QED
    BY <2>1, <2>2, Zenon
<1> QED
  BY <1>2, <1>4, <1>5, <1>6

---------------------------------------------------------------------------
(***************************************************************************)
(* The inductive invariant.                                                *)
(***************************************************************************)
LEMMA BufSize == \A i \in Child : buf_size(i) \in Nat \ {0}
<1> TAKE i \in Child
<1>1. PICK n \in Nat \ {0} : n = nchs - i + 1
  BY ChainAssumption DEF Child
<1>2. Unit \in Nat \ {0}
  BY ChainAssumption
<1>3. Unit * n \in Nat \ {0}
  BY <1>2
<1> QED
  BY <1>1, <1>3 DEF buf_size

LEMMA InitInv == Init => IInv
<1> SUFFICES ASSUME Init PROVE IInv
  OBVIOUS
<1>1. nchs \in Nat \ {0} /\ Input \in Seq(Bytes) /\ Len(Input) \in Nat /\ PipeRoom \in Nat
  BY ChainAssumption
<1>2. TypeOK
  <2>1. <<>> \in Seq(Bytes) /\ Len(<<>>) = 0
    OBVIOUS
  <2>2. \A i \in Child : /\ Len(cbuf[i]) <= BUF_SIZE /\ Len(buf[i]) <= buf_size(i)
                         /\ Len(up[i]) <= PipeRoom /\ Len(down[i]) <= PipeRoom
    BY <2>1, BufSize, ChainAssumption DEF Init
  <2> QED
    BY <1>1, <2>1, <2>2 DEF Init, TypeOK, Child
<1>3. Births /\ Idle /\ GoneDry /\ ShutDry /\ Asked /\ AllShut
  BY <1>1 DEF Init, Births, Idle, GoneDry, ShutDry, Asked, AllShut, Child
<1>4. down[0] = <<>>
  BY <1>1 DEF Init, Child
<1>5. Pieces(Held)
  <2> DEFINE cut == [k \in 0 .. nchs + 2 |-> IF k = 0 THEN Len(Input) ELSE 0]
  <2>1. cut \in [0 .. nchs + 2 -> 0 .. Len(Input)] /\ cut[0] = Len(Input) /\ cut[nchs + 2] = 0
    BY <1>1
  <2>2. ASSUME NEW k \in 0 .. nchs + 1
        PROVE  cut[k + 1] <= cut[k] /\ Held[k] = SubSeq(Input, cut[k + 1] + 1, cut[k])
    <3>1. cut[k + 1] = 0 /\ cut[k] = IF k = 0 THEN Len(Input) ELSE 0
      BY <1>1
    <3>2. CASE k = 0
      <4>1. Held[k] = Input
        BY <1>2, <3>2, HeldFacts DEF Init
      <4>2. SubSeq(Input, 0 + 1, Len(Input)) = Input
        BY <1>1, SubSeqFull
      <4> HIDE DEF cut
      <4>3. cut[k] = Len(Input) /\ cut[k + 1] = 0
        BY <3>1, <3>2
      <4> QED
        BY <1>1, <4>1, <4>2, <4>3
    <3>3. CASE k # 0
      <4>1. Held[k] = <<>>
        <5>1. CASE k = nchs + 1
          BY <1>2, <5>1, HeldFacts DEF Init
        <5>2. CASE k # nchs + 1
          <6>1. k - 1 \in Child /\ (k - 1) + 1 = k
            BY <1>1, <3>3, <5>2 DEF Child
          <6>2. InStage(k - 1) = <<>>
            BY <6>1 DEF Init, InStage
          <6> QED
            BY <1>2, <6>1, <6>2, HeldFacts
        <5> QED
          BY <5>1, <5>2
      <4>2. SubSeq(Input, 0 + 1, 0) = <<>>
        BY EmptyPiece
      <4> HIDE DEF cut
      <4>3. cut[k] = 0 /\ cut[k + 1] = 0
        BY <3>1, <3>3
      <4> QED
        BY <4>1, <4>2, <4>3
    <3> QED
      BY <3>2, <3>3
  <2> HIDE DEF cut
  <2> QED
    BY <2>1, <2>2 DEF Pieces
<1> QED
  BY <1>2, <1>3, <1>4, <1>5 DEF IInv

\* A step that moves no byte from one piece to the next.
LEMMA HeldSame ==
  ASSUME Pieces(Held), UNCHANGED <<left, out>>, \A i \in Child : InStage(i)' = InStage(i)
  PROVE  Pieces(Held)'
<1>1. \A k \in 0 .. nchs + 1 : k # 0 /\ k # nchs + 1 => k - 1 \in Child
  BY ChainAssumption DEF Child
<1>2. Held' = Held
  BY <1>1 DEF Held
<1>3. Pieces(Held')
  BY <1>2, Zenon
<1> QED
  BY <1>3 DEF Pieces

\* A step that moves the bytes t from piece k to the next.
LEMMA MoveHeld ==
  ASSUME TypeOK, Pieces(Held), NEW k \in 0 .. nchs, NEW t \in Seq(Bytes), NEW r \in Seq(Bytes),
         Held[k] = t \o r, Held'[k] = r, Held'[k + 1] = Held[k + 1] \o t,
         \A m \in 0 .. nchs + 1 : m # k /\ m # k + 1 => Held'[m] = Held[m]
  PROVE  Pieces(Held)'
<1> DEFINE g == [Held EXCEPT ![k] = r, ![k + 1] = @ \o t]
<1>1. k \in 0 .. nchs + 1 /\ k + 1 \in 0 .. nchs + 1 /\ k # k + 1
  BY ChainAssumption
<1>2. Held \in [0 .. nchs + 1 -> Seq(Bytes)]
  BY HeldFacts
<1>3. Pieces(g)
  BY <1>2, MovePiece
<1>4. Held' = g
  <2>1. Held' = [m \in 0 .. nchs + 1 |-> Held'[m]]
    BY Zenon DEF Held
  <2>2. g = [m \in 0 .. nchs + 1 |-> g[m]]
    BY <1>2
  <2>3. ASSUME NEW m \in 0 .. nchs + 1 PROVE Held'[m] = g[m]
    BY <1>1, <1>2
  <2> HIDE DEF g
  <2> QED
    BY <2>1, <2>2, <2>3
<1> HIDE DEF g
<1>5. Pieces(Held')
  BY <1>3, <1>4, Zenon
<1> QED
  BY <1>5 DEF Pieces

LEMMA UpEndsKept ==
  ASSUME \A j \in Child : /\ cpc[j] = "gone" => cpc'[j] = "gone"
                          /\ cpc[j] # "new" => cpc'[j] # "new"
  PROVE  \A j \in Child : UpEnds(j) => UpEnds(j)'
<1>1. \A j \in Child : \A m \in 0 .. j : m \in Child
  BY ChainAssumption DEF Child
<1> QED
  BY <1>1 DEF UpEnds

LEMMA ForkInv == ASSUME IInv, Fork PROVE IInv'
<1> USE ChainAssumption DEF IInv, Fork, Child, LastChild
<1>1. TypeOK'
  <2>1. cpc' \in [Child -> {"none", "new", "read", "write", "gone"}]
    BY DEF TypeOK
  <2>2. forked' \in 0 .. nchs /\ ppc' \in {"fork", "select", "serve", "done", "exited"}
    BY DEF TypeOK, Births
  <2> QED
    BY <2>1, <2>2 DEF TypeOK, pipes, sets
<1>2. Births'
  <2>1. forked \in Child /\ forked' = forked + 1
    BY DEF TypeOK, Births
  <2>2. \A j \in Child : cpc'[j] = IF j = forked THEN "new" ELSE cpc[j]
    BY DEF TypeOK
  <2>3. \A j \in Child : j >= forked' <=> j >= forked /\ j # forked
    BY <2>1
  <2>4. \A j \in Child : cpc'[j] = "none" <=> j >= forked'
    BY <2>2, <2>3 DEF Births
  <2>5. IF ppc' = "fork" THEN forked' < nchs ELSE forked' = nchs
    BY <2>1
  <2> QED
    BY <2>4, <2>5 DEF Births
<1>3. cpc[forked] = "none" /\ ~shut[forked]
  BY DEF TypeOK, Births, ShutDry
<1>4. Idle' /\ GoneDry' /\ ShutDry'
  BY <1>3 DEF TypeOK, Idle, GoneDry, ShutDry, pipes, sets
<1>5. Asked' /\ AllShut' /\ (down[0] = <<>>)'
  BY DEF Asked, AllShut, pipes
<1>6. Pieces(Held)'
  <2>1. UNCHANGED <<left, out>> /\ \A j \in Child : InStage(j)' = InStage(j)
    BY DEF InStage, pipes
  <2> QED
    BY <2>1, HeldSame
<1> QED
  BY <1>1, <1>2, <1>4, <1>5, <1>6

LEMMA CloseFdsInv == ASSUME IInv, NEW i \in Child, CloseFds(i) PROVE IInv'
<1> USE ChainAssumption DEF IInv, CloseFds, Child
<1>1. TypeOK'
  BY DEF TypeOK, pipes, sets
<1>2. Births' /\ Idle' /\ GoneDry' /\ ShutDry'
  BY DEF TypeOK, Births, Idle, GoneDry, ShutDry, pipes, sets
<1>3. Asked'
  <2>1. \A j \in Child : UpEnds(j) => UpEnds(j)'
    BY UpEndsKept DEF TypeOK
  <2>2. \A j \in Child : HasRoom(j) => HasRoom(j)'
    BY DEF HasRoom, pipes
  <2> QED
    BY <2>1, <2>2 DEF Asked, pipes, sets
<1>4. AllShut' /\ (down[0] = <<>>)'
  BY DEF AllShut, pipes
<1>5. Pieces(Held)'
  <2>1. UNCHANGED <<left, out>> /\ \A j \in Child : InStage(j)' = InStage(j)
    BY DEF InStage, pipes
  <2> QED
    BY <2>1, HeldSame
<1> QED
  BY <1>1, <1>2, <1>3, <1>4, <1>5

LEMMA ChildWriteInv == ASSUME IInv, NEW i \in Child, ChildWrite(i) PROVE IInv'
<1> USE ChainAssumption DEF IInv, ChildWrite, Child
<1>1. /\ up[i] \in Seq(Bytes) /\ cbuf[i] \in Seq(Bytes) /\ buf[i] \in Seq(Bytes)
      /\ down[i] \in Seq(Bytes) /\ <<>> \in Seq(Bytes)
  BY DEF TypeOK
<1>2. /\ up[i] \o cbuf[i] \in Seq(Bytes)
      /\ Len(up[i] \o cbuf[i]) = Len(up[i]) + Len(cbuf[i])
      /\ up[i] # <<>> => up[i] \o cbuf[i] # <<>>
  BY <1>1
<1>3. TypeOK'
  <2>1. up' \in [Child -> Seq(Bytes)] /\ cbuf' \in [Child -> Seq(Bytes)]
    BY <1>1, <1>2 DEF TypeOK
  <2>2. Len(up'[i]) <= PipeRoom /\ Len(cbuf'[i]) <= BUF_SIZE
    BY <1>1, <1>2 DEF TypeOK
  <2>3. \A j \in Child : j # i => up'[j] = up[j] /\ cbuf'[j] = cbuf[j]
    BY DEF TypeOK
  <2> QED
    BY <2>1, <2>2, <2>3 DEF TypeOK, sets
<1>4. Births' /\ Idle' /\ GoneDry' /\ ShutDry'
  BY DEF TypeOK, Births, Idle, GoneDry, ShutDry, sets
<1>5. Asked'
  <2>1. \A j \in Child : UpEnds(j) => UpEnds(j)'
    BY UpEndsKept DEF TypeOK
  <2>2. \A j \in Child : HasRoom(j) => HasRoom(j)'
    BY DEF HasRoom
  <2>3. \A j \in Child : up[j] # <<>> => up'[j] # <<>>
    BY <1>2 DEF TypeOK
  <2> QED
    BY <2>1, <2>2, <2>3 DEF Asked, sets
<1>6. AllShut' /\ (down[0] = <<>>)'
  BY DEF AllShut
<1>7. Pieces(Held)'
  <2>1. ASSUME NEW j \in Child PROVE InStage(j)' = InStage(j)
    <3>1. CASE j = i
      <4>1. Four(buf[i], up[i] \o cbuf[i], <<>>, down[i]) = Four(buf[i], up[i], cbuf[i], down[i])
        BY ONLY <1>1, FourWritten, SMT
      <4>2. /\ buf'[i] = buf[i] /\ up'[i] = up[i] \o cbuf[i] /\ cbuf'[i] = <<>>
            /\ down'[i] = down[i]
        BY DEF TypeOK
      <4> QED
        BY <3>1, <4>1, <4>2, Zenon DEF InStage, Four
    <3>2. CASE j # i
      BY <3>2 DEF InStage, TypeOK
    <3> QED
      BY <3>1, <3>2
  <2>2. UNCHANGED <<left, out>>
    OBVIOUS
  <2> QED
    BY <2>1, <2>2, HeldSame
<1> QED
  BY <1>3, <1>4, <1>5, <1>6, <1>7

\* Child 0 reads from the file.
LEMMA ReadFileInv ==
  ASSUME IInv, cpc[0] = "read", left # <<>>,
         cbuf' = [cbuf EXCEPT ![0] = Taken(left, BUF_SIZE)],
         cpc' = [cpc EXCEPT ![0] = "write"],
         left' = Rest(left, BUF_SIZE),
         UNCHANGED <<forked, up, down, ppc, stage, sets, buf, shut, out>>
  PROVE  IInv'
<1> DEFINE t == Taken(left, BUF_SIZE)
           r == Rest(left, BUF_SIZE)
<1>1. /\ nchs \in Nat \ {0} /\ 0 \in Child /\ BUF_SIZE \in Nat \ {0}
      /\ \A j \in Child : j \in Nat
  BY ChainAssumption DEF Child
<1>2. /\ left \in Seq(Bytes) /\ buf[0] \in Seq(Bytes) /\ up[0] \in Seq(Bytes)
      /\ down[0] = <<>> /\ cbuf[0] = <<>>
  BY <1>1 DEF IInv, TypeOK, Idle
<1>3. /\ t \in Seq(Bytes) /\ r \in Seq(Bytes) /\ t \o r = left /\ Len(t) <= BUF_SIZE
  BY <1>1, <1>2, ReadFacts
<1> HIDE DEF t, r
<1>4. /\ cbuf' = [cbuf EXCEPT ![0] = t] /\ left' = r
  BY DEF t, r
<1>5. TypeOK'
  BY <1>1, <1>3, <1>4, SMTT(30) DEF IInv, TypeOK, sets
<1>6. Births' /\ Idle'
  BY <1>1, <1>4 DEF IInv, TypeOK, Births, Idle
<1>7. GoneDry'
  BY <1>1, <1>4, SMTT(30) DEF IInv, TypeOK, GoneDry
<1>8. ShutDry'
  BY <1>1 DEF IInv, TypeOK, ShutDry
<1>9. Asked'
  <2>1. \A j \in Child : UpEnds(j) => UpEnds(j)'
    BY <1>1, UpEndsKept DEF IInv, TypeOK
  <2>2. \A j \in Child : HasRoom(j) => HasRoom(j)'
    BY DEF HasRoom
  <2> QED
    BY <2>1, <2>2 DEF IInv, Asked, sets
<1>10. AllShut' /\ (down[0] = <<>>)'
  BY DEF IInv, AllShut
<1>11. Pieces(Held)'
  <2>1. InStage(0)' = InStage(0) \o t
    <3>1. Fed(buf[0], up[0], t)
      <4>1. buf[0] \in Seq(Bytes) /\ up[0] \in Seq(Bytes) /\ t \in Seq(Bytes)
        BY <1>2, <1>3
      <4> QED
        BY ONLY <4>1, FourFed, SMT
    <3>2. cbuf'[0] = t /\ buf'[0] = buf[0] /\ up'[0] = up[0] /\ down'[0] = <<>>
      BY <1>1, <1>2, <1>4 DEF IInv, TypeOK
    <3> QED
      BY <1>2, <3>1, <3>2, Zenon DEF InStage, Four, Fed
  <2>2. \A i \in Child : i # 0 => InStage(i)' = InStage(i)
    BY DEF InStage, IInv, TypeOK
  <2>3. Held[0] = t \o r /\ Held'[0] = r /\ Held'[0 + 1] = Held[0 + 1] \o t
    BY <1>1, <1>3, <1>4, <2>1 DEF Held
  <2>4. \A m \in 0 .. nchs + 1 : m # 0 /\ m # 0 + 1 => Held'[m] = Held[m]
    BY <1>1, <2>2 DEF Held, Child
  <2>5. 0 \in 0 .. nchs
    BY <1>1
  <2> QED
    BY <1>3, <2>3, <2>4, <2>5, MoveHeld DEF IInv
<1> QED
  BY <1>5, <1>6, <1>7, <1>8, <1>9, <1>10, <1>11 DEF IInv

\* Another child reads what the parent wrote.
LEMMA ReadPipeInv ==
  ASSUME IInv, NEW i \in Child, i # 0, cpc[i] = "read", down[i] # <<>>,
         cbuf' = [cbuf EXCEPT ![i] = Taken(down[i], BUF_SIZE)],
         cpc' = [cpc EXCEPT ![i] = "write"],
         down' = [down EXCEPT ![i] = Rest(@, BUF_SIZE)],
         UNCHANGED <<left, forked, up, ppc, stage, sets, buf, shut, out>>
  PROVE  IInv'
<1> DEFINE t == Taken(down[i], BUF_SIZE)
           r == Rest(down[i], BUF_SIZE)
<1>1. /\ nchs \in Nat \ {0} /\ BUF_SIZE \in Nat \ {0} /\ PipeRoom \in Nat /\ i - 1 \in Child
      /\ \A j \in Child : j \in Nat
  BY ChainAssumption DEF Child
<1>2. /\ buf[i] \in Seq(Bytes) /\ up[i] \in Seq(Bytes) /\ down[i] \in Seq(Bytes)
      /\ cbuf[i] = <<>> /\ Len(down[i]) <= PipeRoom
  BY <1>1 DEF IInv, TypeOK, Idle
<1>3. /\ t \in Seq(Bytes) /\ r \in Seq(Bytes) /\ t \o r = down[i] /\ Len(t) <= BUF_SIZE
      /\ Len(r) <= Len(down[i])
  BY <1>1, <1>2, ReadFacts
<1> HIDE DEF t, r
<1>4. /\ cbuf' = [cbuf EXCEPT ![i] = t] /\ down' = [down EXCEPT ![i] = r]
  BY DEF t, r
<1>5. Len(r) <= PipeRoom
  BY <1>1, <1>2, <1>3
<1>6. TypeOK'
  BY <1>1, <1>3, <1>4, <1>5, ZenonT(40) DEF IInv, TypeOK, sets
<1>7. Births' /\ Idle'
  BY <1>1, <1>4 DEF IInv, TypeOK, Births, Idle
<1>8. GoneDry' /\ ShutDry'
  BY <1>1, <1>4 DEF IInv, TypeOK, GoneDry, ShutDry
<1>9. Asked'
  <2>1. \A j \in Child : UpEnds(j) => UpEnds(j)'
    BY <1>1, UpEndsKept DEF IInv, TypeOK
  <2>2. ASSUME NEW j \in Child, HasRoom(j) PROVE HasRoom(j)'
    <3>1. CASE j + 1 = i
      <4>1. down'[j + 1] = r /\ buf[j] \in Seq(Bytes)
        BY <1>4, <3>1 DEF IInv, TypeOK
      <4> QED
        <5>1. PICK x \in Nat, y \in Nat, z \in Nat :
                x = Len(r) /\ y = Len(down[i]) /\ z = Len(buf[j])
          BY <1>2, <1>3, <4>1
        <5>2. x <= y
          BY <1>3, <5>1
        <5>3. j < LastChild => y + z <= PipeRoom
          BY <2>2, <3>1, <5>1 DEF HasRoom
        <5>4. j < LastChild => x + z <= PipeRoom
          BY <1>1, <5>2, <5>3
        <5> QED
          BY <3>1, <4>1, <5>1, <5>4 DEF HasRoom
    <3>2. CASE j + 1 # i
      <4>1. j < LastChild => down'[j + 1] = down[j + 1]
        BY <1>1, <1>4, <3>2 DEF IInv, TypeOK, Child, LastChild
      <4> QED
        BY <2>2, <4>1 DEF HasRoom
    <3> QED
      BY <3>1, <3>2
  <2> QED
    BY <2>1, <2>2 DEF IInv, Asked, sets
<1>10. AllShut' /\ (down[0] = <<>>)'
  <2>1. AllShut'
    BY DEF IInv, AllShut
  <2>2. down'[0] = down[0]
    BY <1>1, <1>4 DEF IInv, TypeOK, Child
  <2> QED
    BY <2>1, <2>2 DEF IInv
<1>11. Pieces(Held)'
  <2>1. InStage(i)' = InStage(i)
    <3>1. Four(buf[i], up[i], <<>>, t \o r) = Four(buf[i], up[i], t, r)
      <4>1. /\ buf[i] \in Seq(Bytes) /\ up[i] \in Seq(Bytes)
            /\ t \in Seq(Bytes) /\ r \in Seq(Bytes)
        BY <1>2, <1>3
      <4> QED
        BY ONLY <4>1, FourDown, SMT
    <3>2. cbuf'[i] = t /\ buf'[i] = buf[i] /\ up'[i] = up[i] /\ down'[i] = r
      BY <1>1, <1>2, <1>4 DEF IInv, TypeOK
    <3> QED
      BY <1>2, <1>3, <3>1, <3>2, Zenon DEF InStage, Four
  <2>2. \A j \in Child : j # i => InStage(j)' = InStage(j)
    BY <1>4 DEF InStage, IInv, TypeOK
  <2> QED
    BY <2>1, <2>2, HeldSame DEF IInv
<1> QED
  BY <1>6, <1>7, <1>8, <1>9, <1>10, <1>11 DEF IInv

\* A child comes to the end of what it reads.
LEMMA ReadEndInv ==
  ASSUME IInv, NEW i \in Child, cpc[i] = "read",
         IF i = 0 THEN left = <<>> ELSE down[i] = <<>> /\ DownEnds(i),
         cpc' = [cpc EXCEPT ![i] = "gone"],
         UNCHANGED <<cbuf, left, down, forked, up, ppc, stage, sets, buf, shut, out>>
  PROVE  IInv'
<1>1. /\ nchs \in Nat \ {0} /\ \A j \in Child : j \in Nat
  BY ChainAssumption DEF Child
<1>2. TypeOK'
  BY DEF IInv, TypeOK, sets
<1>3. Births' /\ Idle'
  BY DEF IInv, TypeOK, Births, Idle
<1>4. GoneDry'
  BY <1>1 DEF IInv, TypeOK, GoneDry, DownEnds
<1>5. ShutDry'
  BY DEF IInv, TypeOK, ShutDry
<1>6. Asked'
  <2>1. \A j \in Child : UpEnds(j) => UpEnds(j)'
    BY UpEndsKept DEF IInv, TypeOK
  <2>2. \A j \in Child : HasRoom(j) => HasRoom(j)'
    BY DEF HasRoom
  <2> QED
    BY <2>1, <2>2 DEF IInv, Asked, sets
<1>7. AllShut' /\ (down[0] = <<>>)'
  BY DEF IInv, AllShut
<1>8. Pieces(Held)'
  <2>1. UNCHANGED <<left, out>> /\ \A j \in Child : InStage(j)' = InStage(j)
    BY DEF InStage
  <2> QED
    BY <2>1, HeldSame DEF IInv
<1> QED
  BY <1>2, <1>3, <1>4, <1>5, <1>6, <1>7, <1>8 DEF IInv

LEMMA ChildReadInv == ASSUME IInv, NEW i \in Child, ChildRead(i) PROVE IInv'
<1>1. CASE i = 0 /\ left # <<>>
  BY <1>1, ReadFileInv DEF ChildRead
<1>2. CASE i # 0 /\ down[i] # <<>>
  BY <1>2, ReadPipeInv DEF ChildRead
<1>3. CASE IF i = 0 THEN left = <<>> ELSE down[i] = <<>>
  BY <1>3, ReadEndInv DEF ChildRead
<1> QED
  BY <1>1, <1>2, <1>3

---------------------------------------------------------------------------
LEMMA SelectInv == ASSUME IInv, Select PROVE IInv'
<1>1. nchs \in Nat \ {0}
  BY ChainAssumption
<1>2. TypeOK'
  <2>1. UNCHANGED <<left, forked, cpc, cbuf, up, down, buf, shut, out>>
    BY DEF Select, child, pipes
  <2>2. /\ ppc' \in {"serve", "done"} /\ rfds' \subseteq Child /\ wfds' \subseteq Child
        /\ stage' \in Child
    <3>1. Readable \subseteq Child /\ Writable \subseteq Child /\ 0 \in Child
      BY <1>1 DEF Readable, Writable, Child
    <3>2. stage \in Child /\ rfds \subseteq Child /\ wfds \subseteq Child
      BY DEF IInv, TypeOK
    <3> QED
      BY <3>1, <3>2 DEF Select, sets
  <2> QED
    BY <2>1, <2>2 DEF IInv, TypeOK
<1>3. Births' /\ Idle' /\ GoneDry' /\ ShutDry'
  BY DEF IInv, Select, Births, Idle, GoneDry, ShutDry, child, pipes, sets
<1>4. Asked'
  <2>1. ASSUME ppc' = "serve" PROVE rfds' = Readable /\ wfds' = Writable
    BY <2>1 DEF Select
  <2>2. UNCHANGED <<cpc, cbuf, up, down, buf, shut>>
    BY DEF Select, child, pipes
  <2>3. \A j \in Child : (UpEnds(j) => UpEnds(j)') /\ (HasRoom(j) => HasRoom(j)')
    BY <2>2 DEF UpEnds, HasRoom
  <2> QED
    BY <2>1, <2>2, <2>3 DEF Asked, Readable, Writable
<1>5. AllShut' /\ (down[0] = <<>>)'
  BY DEF IInv, Select, AllShut, pipes
<1>6. Pieces(Held)'
  <2>1. UNCHANGED <<left, out>> /\ \A j \in Child : InStage(j)' = InStage(j)
    BY DEF Select, child, pipes, InStage
  <2> QED
    BY <2>1, HeldSame DEF IInv
<1> QED
  BY <1>2, <1>3, <1>4, <1>5, <1>6 DEF IInv

\* The parent goes on to the next stage.
Onward ==
  /\ ppc = "serve"
  /\ stage' = IF stage = LastChild THEN 0 ELSE stage + 1
  /\ ppc' = IF stage = LastChild THEN "select" ELSE "serve"
  /\ UNCHANGED <<left, forked, cpc, cbuf, rfds, wfds>>

LEMMA OnwardPlaces ==
  ASSUME IInv, Onward
  PROVE  Births' /\ Idle' /\ AllShut' /\ stage' \in Child
         /\ ppc' \in {"fork", "select", "serve", "done", "exited"}
<1>1. nchs \in Nat \ {0} /\ stage \in Child
  BY ChainAssumption DEF IInv, TypeOK
<1> QED
  BY <1>1 DEF IInv, Onward, Births, Idle, AllShut, Child, LastChild

\* What was said of the later stages still holds.
LEMMA OnwardAsked ==
  ASSUME IInv, Onward,
         \A j \in Child : j > stage =>
           /\ shut'[j] = shut[j] /\ buf'[j] = buf[j] /\ up'[j] = up[j]
           /\ HasRoom(j) => HasRoom(j)'
  PROVE  Asked'
<1>1. ASSUME ppc' = "serve" PROVE \A j \in Child : j >= stage' => j > stage /\ j >= stage
  BY <1>1, ChainAssumption DEF IInv, TypeOK, Onward, Child, LastChild
<1>2. \A j \in Child : UpEnds(j) => UpEnds(j)'
  BY UpEndsKept DEF Onward
<1> QED
  BY <1>1, <1>2 DEF IInv, Asked, Onward

\* The parent reads what child i wrote, or the end of it.
LEMMA ServeReadInv ==
  ASSUME IInv, Onward, NEW i \in Child, i = stage, i \in rfds,
         buf' = [buf EXCEPT ![i] = Taken(up[i], buf_size(i))],
         up' = [up EXCEPT ![i] = Rest(@, buf_size(i))],
         shut' = [shut EXCEPT ![i] = up[i] = <<>>],
         UNCHANGED <<down, out>>
  PROVE  IInv'
<1> DEFINE t == Taken(up[i], buf_size(i))
           r == Rest(up[i], buf_size(i))
<1>1. /\ nchs \in Nat \ {0} /\ buf_size(i) \in Nat \ {0} /\ PipeRoom \in Nat
      /\ \A j \in Child : j \in Nat
  BY ChainAssumption, BufSize DEF Child
<1>2. /\ up[i] \in Seq(Bytes) /\ cbuf[i] \in Seq(Bytes) /\ down[i] \in Seq(Bytes)
      /\ buf[i] = <<>> /\ ~shut[i] /\ Len(up[i]) <= PipeRoom
      /\ up[i] = <<>> => UpEnds(i)
  <2>1. i >= stage
    BY <1>1
  <2> QED
    BY <2>1 DEF IInv, TypeOK, Asked, Onward
<1>3. /\ t \in Seq(Bytes) /\ r \in Seq(Bytes) /\ t \o r = up[i] /\ Len(t) <= buf_size(i)
      /\ Len(r) <= Len(up[i]) /\ up[i] = <<>> => t = <<>> /\ r = <<>>
  BY <1>1, <1>2, ReadFacts
<1> HIDE DEF t, r
<1>4. /\ buf' = [buf EXCEPT ![i] = t] /\ up' = [up EXCEPT ![i] = r]
  BY DEF t, r
<1>5. Len(r) <= PipeRoom
  <2>1. PICK x \in Nat, y \in Nat : x = Len(r) /\ y = Len(up[i])
    BY <1>2, <1>3
  <2> QED
    BY <1>1, <1>2, <1>3, <2>1
<1>6. Births' /\ Idle' /\ AllShut' /\ stage' \in Child
      /\ ppc' \in {"fork", "select", "serve", "done", "exited"}
  BY OnwardPlaces
<1>7. TypeOK'
  <2>1. /\ buf' \in [Child -> Seq(Bytes)] /\ up' \in [Child -> Seq(Bytes)]
        /\ shut' \in [Child -> BOOLEAN]
    BY <1>3, <1>4 DEF IInv, TypeOK
  <2>2. \A j \in Child : Len(buf'[j]) <= buf_size(j) /\ Len(up'[j]) <= PipeRoom
    BY <1>3, <1>4, <1>5 DEF IInv, TypeOK
  <2> QED
    BY <1>6, <2>1, <2>2 DEF IInv, TypeOK, Onward
<1>8. GoneDry'
  <2>1. \A j \in Child : shut[j] => shut'[j]
    BY <1>2 DEF IInv, TypeOK
  <2>2. \A j \in Child : j # 0 => j - 1 \in Child
    BY <1>1 DEF Child
  <2> QED
    BY <2>1, <2>2 DEF IInv, GoneDry, Onward
<1>9. ShutDry'
  <2>1. up[i] = <<>> => cpc[i] = "gone" /\ buf'[i] = <<>> /\ up'[i] = <<>>
    BY <1>2, <1>3, <1>4 DEF IInv, TypeOK, UpEnds
  <2>2. shut'[i] <=> up[i] = <<>>
    BY DEF IInv, TypeOK
  <2>3. \A j \in Child : j # i => shut'[j] = shut[j] /\ buf'[j] = buf[j] /\ up'[j] = up[j]
    BY <1>4 DEF IInv, TypeOK
  <2> QED
    BY <2>1, <2>2, <2>3 DEF IInv, ShutDry, Onward
<1>10. Asked'
  <2>1. ASSUME NEW j \in Child, j > stage
        PROVE  /\ shut'[j] = shut[j] /\ buf'[j] = buf[j] /\ up'[j] = up[j]
               /\ HasRoom(j) => HasRoom(j)'
    <3>1. j # i
      BY <1>1, <2>1
    <3>2. shut'[j] = shut[j] /\ buf'[j] = buf[j] /\ up'[j] = up[j]
      BY <1>4, <3>1 DEF IInv, TypeOK
    <3> QED
      BY <3>2 DEF HasRoom
  <2> QED
    BY <2>1, OnwardAsked
<1>11. (down[0] = <<>>)'
  BY DEF IInv
<1>12. Pieces(Held)'
  <2>1. InStage(i)' = InStage(i)
    <3>1. Four(<<>>, t \o r, cbuf[i], down[i]) = Four(t, r, cbuf[i], down[i])
      <4>1. /\ t \in Seq(Bytes) /\ r \in Seq(Bytes)
            /\ cbuf[i] \in Seq(Bytes) /\ down[i] \in Seq(Bytes)
        BY <1>2, <1>3
      <4> QED
        BY ONLY <4>1, FourTaken, SMT
    <3>2. cbuf'[i] = cbuf[i] /\ buf'[i] = t /\ up'[i] = r /\ down'[i] = down[i]
      BY <1>4 DEF IInv, TypeOK, Onward
    <3> QED
      BY <1>2, <1>3, <3>1, <3>2, Zenon DEF InStage, Four
  <2>2. \A j \in Child : j # i => InStage(j)' = InStage(j)
    BY <1>4 DEF InStage, IInv, TypeOK, Onward
  <2>3. UNCHANGED <<left, out>>
    BY DEF Onward
  <2> QED
    BY <2>1, <2>2, <2>3, HeldSame DEF IInv
<1> QED
  BY <1>6, <1>7, <1>8, <1>9, <1>10, <1>11, <1>12 DEF IInv

\* The parent hands what it has of child i to the next child.
LEMMA ServeDownInv ==
  ASSUME IInv, Onward, NEW i \in Child, i = stage, i \in wfds, i # LastChild, HasRoom(i),
         buf' = [buf EXCEPT ![i] = <<>>],
         down' = [down EXCEPT ![i + 1] = @ \o buf[i]],
         UNCHANGED <<up, shut, out>>
  PROVE  IInv'
<1>1. /\ nchs \in Nat \ {0} /\ i + 1 \in Child /\ i < LastChild /\ i + 1 # i
      /\ PipeRoom \in Nat /\ i + 1 # 0 /\ (i + 1) - 1 = i /\ i \in 0 .. nchs - 2
      /\ \A j \in Child : j \in Nat /\ buf_size(j) \in Nat
  BY ChainAssumption, BufSize DEF Child, LastChild
<1>2. /\ buf[i] \in Seq(Bytes) /\ up[i] \in Seq(Bytes) /\ cbuf[i] \in Seq(Bytes)
      /\ down[i] \in Seq(Bytes) /\ <<>> \in Seq(Bytes)
  BY DEF IInv, TypeOK
<1>3. /\ buf[i + 1] \in Seq(Bytes) /\ up[i + 1] \in Seq(Bytes) /\ cbuf[i + 1] \in Seq(Bytes)
      /\ down[i + 1] \in Seq(Bytes)
  BY <1>1 DEF IInv, TypeOK
<1> DEFINE d == down[i + 1] \o buf[i]
<1>4. d \in Seq(Bytes) /\ Len(d) = Len(down[i + 1]) + Len(buf[i])
  BY <1>2, <1>3
<1>5. Len(d) <= PipeRoom
  BY <1>1, <1>4 DEF HasRoom
<1>6. down' = [down EXCEPT ![i + 1] = d]
  OBVIOUS
<1> HIDE DEF d
<1>7. Births' /\ Idle' /\ AllShut' /\ stage' \in Child
      /\ ppc' \in {"fork", "select", "serve", "done", "exited"}
  BY OnwardPlaces
<1>8. TypeOK'
  <2>1. buf' \in [Child -> Seq(Bytes)] /\ down' \in [Child -> Seq(Bytes)]
    <3>1. buf \in [Child -> Seq(Bytes)] /\ down \in [Child -> Seq(Bytes)]
      BY DEF IInv, TypeOK
    <3> QED
      BY <1>1, <1>2, <1>4, <1>6, <3>1
  <2>2. ASSUME NEW j \in Child PROVE Len(buf'[j]) <= buf_size(j) /\ Len(down'[j]) <= PipeRoom
    <3>1. Len(buf[j]) <= buf_size(j) /\ Len(down[j]) <= PipeRoom
      BY DEF IInv, TypeOK
    <3>2. Len(buf'[j]) <= buf_size(j)
      <4>1. buf'[j] = IF j = i THEN <<>> ELSE buf[j]
        BY DEF IInv, TypeOK
      <4> QED
        BY <1>1, <3>1, <4>1
    <3>3. Len(down'[j]) <= PipeRoom
      <4>1. down'[j] = IF j = i + 1 THEN d ELSE down[j]
        BY <1>1, <1>6 DEF IInv, TypeOK
      <4> QED
        BY <1>5, <3>1, <4>1
    <3> QED
      BY <3>2, <3>3
  <2> QED
    BY <1>7, <2>1, <2>2 DEF IInv, TypeOK, Onward
<1>9. buf[i] # <<>> /\ ~shut[i]
  <2>1. i >= stage
    BY <1>1
  <2> QED
    BY <2>1 DEF IInv, Asked, ShutDry, Onward
<1>10. GoneDry'
  <2>1. cpc[i + 1] # "gone"
    BY <1>1, <1>9 DEF IInv, GoneDry
  <2>2. \A j \in Child : cpc[j] = "gone" => j # i + 1 /\ down'[j] = down[j]
    BY <2>1, <1>6 DEF IInv, TypeOK
  <2> QED
    BY <2>2 DEF IInv, GoneDry, Onward
<1>11. ShutDry'
  BY <1>9 DEF IInv, TypeOK, ShutDry, Onward
<1>12. Asked'
  <2>1. ASSUME NEW j \in Child, j > stage
        PROVE  /\ shut'[j] = shut[j] /\ buf'[j] = buf[j] /\ up'[j] = up[j]
               /\ HasRoom(j) => HasRoom(j)'
    <3>1. j # i /\ j + 1 # i + 1
      BY <1>1, <2>1
    <3>2. shut'[j] = shut[j] /\ buf'[j] = buf[j] /\ up'[j] = up[j]
      BY <3>1 DEF IInv, TypeOK
    <3>3. j < LastChild => down'[j + 1] = down[j + 1]
      BY <1>1, <1>6, <3>1 DEF IInv, TypeOK, Child, LastChild
    <3> QED
      BY <3>2, <3>3 DEF HasRoom
  <2> QED
    BY <2>1, OnwardAsked
<1>13. (down[0] = <<>>)'
  BY <1>1, <1>6 DEF IInv, TypeOK, Child
<1>14. Pieces(Held)'
  <2> DEFINE r == Four(<<>>, up[i], cbuf[i], down[i])
  <2>0. /\ buf[i] \in Seq(Bytes) /\ up[i] \in Seq(Bytes) /\ cbuf[i] \in Seq(Bytes)
        /\ down[i] \in Seq(Bytes)
    BY <1>2
  <2>1. r \in Seq(Bytes)
    <3>1. Four(<<>>, up[i], cbuf[i], down[i]) \in Seq(Bytes)
      BY ONLY <2>0, FourRest, Zenon
    <3> QED
      BY <3>1
  <2>2. InStage(i) = buf[i] \o r
    <3>1. Headed(buf[i], up[i], cbuf[i], down[i])
      BY ONLY <2>0, FourHead, SMT
    <3> QED
      BY <3>1, Zenon DEF InStage, Four, Headed
  <2>3. InStage(i)' = r
    <3>1. cbuf'[i] = cbuf[i] /\ buf'[i] = <<>> /\ up'[i] = up[i] /\ down'[i] = down[i]
      BY <1>1, <1>6 DEF IInv, TypeOK, Onward
    <3> QED
      BY <3>1, Zenon DEF InStage, Four
  <2> HIDE DEF r
  <2>4. InStage(i + 1)' = InStage(i + 1) \o buf[i]
    <3>1. Tailed(buf[i + 1], up[i + 1], cbuf[i + 1], down[i + 1], buf[i])
      <4>1. buf[i] \in Seq(Bytes)
        BY <1>2
      <4> QED
        BY ONLY <1>3, <4>1, FourTail, SMT
    <3>2. /\ cbuf'[i + 1] = cbuf[i + 1] /\ buf'[i + 1] = buf[i + 1] /\ up'[i + 1] = up[i + 1]
          /\ down'[i + 1] = down[i + 1] \o buf[i]
      BY <1>1, <1>6 DEF IInv, TypeOK, Onward, d
    <3> QED
      BY <3>1, <3>2, Zenon DEF InStage, Four, Tailed
  <2>5. \A j \in Child : j # i /\ j # i + 1 => InStage(j)' = InStage(j)
    BY <1>1, <1>6 DEF InStage, IInv, TypeOK, Onward
  <2>6. /\ i + 1 \in 0 .. nchs /\ i + 1 \in 0 .. nchs + 1 /\ (i + 1) + 1 \in 0 .. nchs + 1
        /\ i + 1 # 0 /\ i + 1 # nchs + 1 /\ (i + 1) + 1 # 0 /\ (i + 1) + 1 # nchs + 1
        /\ ((i + 1) + 1) - 1 = i + 1
    BY <1>1
  <2>7. /\ Held[i + 1] = InStage(i) /\ Held'[i + 1] = InStage(i)'
        /\ Held[(i + 1) + 1] = InStage(i + 1) /\ Held'[(i + 1) + 1] = InStage(i + 1)'
    BY <1>1, <2>6 DEF Held
  <2>8. UNCHANGED <<left, out>>
    BY DEF Onward
  <2>9. ASSUME NEW m \in 0 .. nchs + 1, m # i + 1, m # (i + 1) + 1 PROVE Held'[m] = Held[m]
    <3>1. m # 0 /\ m # nchs + 1 => m - 1 \in Child /\ m - 1 # i /\ m - 1 # i + 1
      BY <1>1, <2>9 DEF Child
    <3> QED
      BY <2>5, <2>8, <3>1 DEF Held
  <2> QED
    BY <1>2, <2>1, <2>2, <2>3, <2>4, <2>6, <2>7, <2>9, MoveHeld, ZenonT(40) DEF IInv
<1> QED
  BY <1>7, <1>8, <1>10, <1>11, <1>12, <1>13, <1>14 DEF IInv

\* The parent writes what it has of the last child to the standard output.
LEMMA ServeOutInv ==
  ASSUME IInv, Onward, NEW i \in Child, i = stage, i = LastChild,
         buf' = [buf EXCEPT ![i] = <<>>],
         out' = out \o buf[i],
         UNCHANGED <<up, down, shut>>
  PROVE  IInv'
<1>1. /\ nchs \in Nat \ {0} /\ i + 1 = nchs /\ i + 1 \in 0 .. nchs + 1 /\ i + 1 \in 0 .. nchs
      /\ \A j \in Child : j \in Nat /\ j <= i /\ buf_size(j) \in Nat
  BY ChainAssumption, BufSize DEF Child, LastChild
<1>2. /\ buf[i] \in Seq(Bytes) /\ up[i] \in Seq(Bytes) /\ cbuf[i] \in Seq(Bytes)
      /\ down[i] \in Seq(Bytes) /\ <<>> \in Seq(Bytes) /\ out \in Seq(Bytes)
  BY DEF IInv, TypeOK
<1>3. out' \in Seq(Bytes)
  BY <1>2
<1>4. Births' /\ Idle' /\ AllShut' /\ stage' \in Child
      /\ ppc' \in {"fork", "select", "serve", "done", "exited"}
  BY OnwardPlaces
<1>5. TypeOK'
  <2>1. buf' \in [Child -> Seq(Bytes)]
    BY <1>2 DEF IInv, TypeOK
  <2>2. \A j \in Child : Len(buf'[j]) <= buf_size(j)
    BY <1>1 DEF IInv, TypeOK
  <2> QED
    BY <1>3, <1>4, <2>1, <2>2 DEF IInv, TypeOK, Onward
<1>6. GoneDry' /\ ShutDry'
  BY DEF IInv, TypeOK, GoneDry, ShutDry, Onward
<1>7. Asked'
  <2>1. \A j \in Child : ~(j > stage)
    BY <1>1
  <2> QED
    BY <2>1, OnwardAsked
<1>8. (down[0] = <<>>)'
  BY DEF IInv
<1>9. Pieces(Held)'
  <2> DEFINE r == Four(<<>>, up[i], cbuf[i], down[i])
  <2>0. /\ buf[i] \in Seq(Bytes) /\ up[i] \in Seq(Bytes) /\ cbuf[i] \in Seq(Bytes)
        /\ down[i] \in Seq(Bytes)
    BY <1>2
  <2>1. r \in Seq(Bytes)
    <3>1. Four(<<>>, up[i], cbuf[i], down[i]) \in Seq(Bytes)
      BY ONLY <2>0, FourRest, Zenon
    <3> QED
      BY <3>1
  <2>2. InStage(i) = buf[i] \o r
    <3>1. Headed(buf[i], up[i], cbuf[i], down[i])
      BY ONLY <2>0, FourHead, SMT
    <3> QED
      BY <3>1, Zenon DEF InStage, Four, Headed
  <2>3. InStage(i)' = r
    <3>1. cbuf'[i] = cbuf[i] /\ buf'[i] = <<>> /\ up'[i] = up[i] /\ down'[i] = down[i]
      BY DEF IInv, TypeOK, Onward
    <3> QED
      BY <3>1, Zenon DEF InStage, Four
  <2> HIDE DEF r
  <2>4. \A j \in Child : j # i => InStage(j)' = InStage(j)
    BY DEF InStage, IInv, TypeOK, Onward
  <2>5. /\ Held[i + 1] = InStage(i) /\ Held'[i + 1] = InStage(i)'
        /\ Held[(i + 1) + 1] = out /\ Held'[(i + 1) + 1] = out'
    BY <1>1, SMTT(30) DEF Held
  <2>6. ASSUME NEW m \in 0 .. nchs + 1, m # i + 1, m # (i + 1) + 1 PROVE Held'[m] = Held[m]
    <3>1. m # nchs + 1 /\ (m # 0 => m - 1 \in Child /\ m - 1 # i)
      BY <1>1, <2>6 DEF Child
    <3>2. left' = left
      BY DEF Onward
    <3> QED
      BY <2>4, <3>1, <3>2 DEF Held
  <2> QED
    BY <1>1, <1>2, <2>1, <2>2, <2>3, <2>5, <2>6, MoveHeld DEF IInv
<1> QED
  BY <1>4, <1>5, <1>6, <1>7, <1>8, <1>9 DEF IInv

\* Nothing was said of this stage.
LEMMA ServeNothingInv ==
  ASSUME IInv, Onward, UNCHANGED <<buf, up, down, shut, out>>
  PROVE  IInv'
<1>1. Births' /\ Idle' /\ AllShut' /\ stage' \in Child
      /\ ppc' \in {"fork", "select", "serve", "done", "exited"}
  BY OnwardPlaces
<1>2. TypeOK'
  BY <1>1 DEF IInv, TypeOK, Onward
<1>3. GoneDry' /\ ShutDry' /\ (down[0] = <<>>)'
  BY DEF IInv, GoneDry, ShutDry, Onward
<1>4. Asked'
  <2>1. \A j \in Child : HasRoom(j) => HasRoom(j)'
    BY DEF HasRoom
  <2> QED
    BY <2>1, OnwardAsked
<1>5. Pieces(Held)'
  <2>1. UNCHANGED <<left, out>> /\ \A j \in Child : InStage(j)' = InStage(j)
    BY DEF Onward, InStage
  <2> QED
    BY <2>1, HeldSame DEF IInv
<1> QED
  BY <1>1, <1>2, <1>3, <1>4, <1>5 DEF IInv

LEMMA ServeInv == ASSUME IInv, Serve PROVE IInv'
<1>1. Onward /\ stage \in Child
  BY DEF Serve, Onward, child, sets, IInv, TypeOK
<1>2. CASE /\ stage \in rfds
           /\ buf' = [buf EXCEPT ![stage] = Taken(up[stage], buf_size(stage))]
           /\ up' = [up EXCEPT ![stage] = Rest(@, buf_size(stage))]
           /\ shut' = [shut EXCEPT ![stage] = up[stage] = <<>>]
           /\ UNCHANGED <<down, out>>
  BY <1>1, <1>2, ServeReadInv
<1>3. CASE /\ stage \in wfds /\ HasRoom(stage) /\ stage = LastChild
           /\ buf' = [buf EXCEPT ![stage] = <<>>]
           /\ out' = out \o buf[stage] /\ UNCHANGED <<down, up, shut>>
  BY <1>1, <1>3, ServeOutInv
<1>4. CASE /\ stage \in wfds /\ HasRoom(stage) /\ stage # LastChild
           /\ buf' = [buf EXCEPT ![stage] = <<>>]
           /\ down' = [down EXCEPT ![stage + 1] = @ \o buf[stage]]
           /\ UNCHANGED <<out, up, shut>>
  BY <1>1, <1>4, ServeDownInv
<1>5. CASE UNCHANGED <<buf, up, down, shut, out>>
  BY <1>1, <1>5, ServeNothingInv
<1> QED
  BY <1>2, <1>3, <1>4, <1>5 DEF Serve, pipes

LEMMA Inductive == IInv /\ [Next]_vars => IInv'
<1> SUFFICES ASSUME IInv, [Next]_vars PROVE IInv'
  OBVIOUS
<1>1. CASE Fork
  BY <1>1, ForkInv
<1>2. CASE Select
  BY <1>2, SelectInv
<1>3. CASE Serve
  BY <1>3, ServeInv
<1>4. ASSUME UNCHANGED <<left, forked, cpc, cbuf, up, down, stage, rfds, wfds, buf, shut, out>>,
             ppc' = ppc \/ (ppc = "done" /\ ppc' = "exited")
      PROVE  IInv'
  <2>1. TypeOK'
    BY <1>4 DEF IInv, TypeOK
  <2>2. Births' /\ Idle' /\ GoneDry' /\ ShutDry' /\ AllShut' /\ (down[0] = <<>>)'
    BY <1>4 DEF IInv, Births, Idle, GoneDry, ShutDry, AllShut
  <2>3. Asked'
    <3>1. \A j \in Child : (UpEnds(j) => UpEnds(j)') /\ (HasRoom(j) => HasRoom(j)')
      BY <1>4 DEF UpEnds, HasRoom
    <3> QED
      BY <1>4, <3>1 DEF IInv, Asked
  <2>4. Pieces(Held)'
    <3>1. UNCHANGED <<left, out>> /\ \A j \in Child : InStage(j)' = InStage(j)
      BY <1>4 DEF InStage
    <3> QED
      BY <3>1, HeldSame DEF IInv
  <2> QED
    BY <2>1, <2>2, <2>3, <2>4 DEF IInv
<1>5. CASE Exit
  BY <1>4, <1>5 DEF Exit, child, pipes, sets
<1>6. ASSUME NEW i \in Child, ChildStep(i) PROVE IInv'
  BY <1>6, CloseFdsInv, ChildReadInv, ChildWriteInv DEF ChildStep
<1>7. CASE UNCHANGED vars
  BY <1>4, <1>7 DEF vars, child, pipes, sets
<1> QED
  BY <1>1, <1>2, <1>3, <1>5, <1>6, <1>7 DEF Next, Parent, Over

LEMMA Invariance == Spec => []IInv
BY InitInv, Inductive, PTL DEF Spec

---------------------------------------------------------------------------
(***************************************************************************)
(* What the invariant says.                                                *)
(***************************************************************************)
LEMMA NeverBlocksNow == IInv => NeverBlocks
<1> SUFFICES ASSUME IInv, ppc = "serve"
             PROVE  /\ stage \in rfds => up[stage] # <<>> \/ UpEnds(stage)
                    /\ stage \in wfds => HasRoom(stage)
  BY DEF NeverBlocks
<1>1. stage \in Child /\ stage >= stage
  BY ChainAssumption DEF IInv, TypeOK, Child
<1> QED
  BY <1>1 DEF IInv, Asked

LEMMA ClosedInOrderNow == IInv => ClosedInOrder
<1> SUFFICES ASSUME IInv, NEW i \in Child, shut[i]
             PROVE  cpc[i] = "gone" /\ InStage(i) = <<>> /\ (i > 0 => shut[i - 1])
  BY DEF ClosedInOrder
<1>1. cpc[i] = "gone" /\ up[i] = <<>> /\ buf[i] = <<>> /\ cbuf[i] = <<>> /\ down[i] = <<>>
  BY DEF IInv, ShutDry, Idle, GoneDry
<1>2. InStage(i) = <<>>
  <2>1. Four(<<>>, <<>>, <<>>, <<>>) = <<>>
    BY DEF Four
  <2> QED
    BY <1>1, <2>1, Zenon DEF InStage, Four
<1>3. i > 0 => shut[i - 1]
  BY <1>1, ChainAssumption DEF IInv, GoneDry, Child
<1> QED
  BY <1>1, <1>2, <1>3

LEMMA ConservedNow == IInv => Conserved
<1> SUFFICES ASSUME IInv PROVE out \o InFlight \o left = Input
  BY DEF IInv, Conserved
<1>1. nchs \in Nat \ {0} /\ Len(Input) \in Nat /\ Input \in Seq(Bytes)
  BY ChainAssumption
<1>2. PICK cut \in [0 .. nchs + 2 -> 0 .. Len(Input)] :
        /\ cut[0] = Len(Input) /\ cut[nchs + 2] = 0
        /\ \A k \in 0 .. nchs + 1 :
             /\ cut[k + 1] <= cut[k]
             /\ Held[k] = SubSeq(Input, cut[k + 1] + 1, cut[k])
  BY DEF IInv, Pieces
<1>3. /\ Held[0] = left /\ Held[nchs + 1] = out
      /\ \A i \in Child : Held[i + 1] = InStage(i)
  BY HeldFacts DEF IInv
<1> DEFINE q == [n \in 1 .. nchs |-> InStage(nchs - n)]
           at == [n \in 0 .. nchs |-> cut[nchs + 1 - n]]
<1>4. at \in [0 .. nchs -> 0 .. Len(Input)]
  BY <1>1
<1>5. Len(q) = nchs
  BY <1>1
<1>6. ASSUME NEW n \in 1 .. nchs
      PROVE  at[n - 1] <= at[n] /\ q[n] = SubSeq(Input, at[n - 1] + 1, at[n])
  <2>1. /\ n - 1 \in 0 .. nchs /\ n \in 0 .. nchs /\ nchs - n \in Child
        /\ (nchs - n) + 1 = nchs + 1 - n /\ nchs + 1 - (n - 1) = (nchs + 1 - n) + 1
        /\ nchs + 1 - n \in 0 .. nchs + 1
    BY <1>1 DEF Child
  <2>2. /\ at[n] = cut[nchs + 1 - n] /\ at[n - 1] = cut[(nchs + 1 - n) + 1]
        /\ q[n] = Held[nchs + 1 - n]
    BY <1>3, <2>1
  <2> HIDE DEF at, q
  <2> QED
    BY <1>2, <2>1, <2>2
<1>7. at[0] = cut[nchs + 1] /\ at[nchs] = cut[1]
  BY <1>1
<1> HIDE DEF at, q
<1>8. at[0] <= at[nchs] /\ FlattenSeq(q) = SubSeq(Input, at[0] + 1, at[nchs])
  <2>1. Flattened(Input, q, at, nchs)
    BY ONLY <1>1, <1>4, <1>5, <1>6, FlattenPieces, Zenon
  <2> QED
    BY <2>1, Zenon DEF Flattened
<1>9. PICK a \in 0 .. Len(Input), b \in 0 .. Len(Input) : a = cut[nchs + 1] /\ b = cut[1]
  <2>1. nchs + 1 \in 0 .. nchs + 2 /\ 1 \in 0 .. nchs + 2
    BY <1>1
  <2>2. cut[nchs + 1] \in 0 .. Len(Input) /\ cut[1] \in 0 .. Len(Input)
    BY <2>1, Zenon
  <2> QED
    BY <2>2, Zenon
<1>10. /\ a <= b /\ InFlight = SubSeq(Input, a + 1, b)
  BY <1>7, <1>8, <1>9, Zenon DEF InFlight, q
<1>11. out = SubSeq(Input, 0 + 1, a) /\ left = SubSeq(Input, b + 1, Len(Input))
  <2>1. 0 \in 0 .. nchs + 1 /\ nchs + 1 \in 0 .. nchs + 1 /\ (nchs + 1) + 1 = nchs + 2 /\ 0 + 1 = 1
    BY <1>1
  <2> QED
    BY <1>2, <1>3, <1>9, <2>1, Zenon
<1>12. /\ a \in Nat /\ b \in Nat /\ 0 \in Nat /\ 0 <= a /\ 0 <= b /\ b <= Len(Input)
       /\ Len(Input) <= Len(Input) /\ a <= Len(Input)
  BY <1>1, <1>9
<1>13. Meet(Input, 0, a, b)
  BY ONLY <1>1, <1>10, <1>12, JoinPieces, SMT
<1>14. Meet(Input, 0, b, Len(Input))
  BY ONLY <1>1, <1>12, JoinPieces, SMT
<1>15. SubSeq(Input, 0 + 1, Len(Input)) = Input
  BY <1>1, SubSeqFull
<1> QED
  BY <1>10, <1>11, <1>13, <1>14, <1>15, Zenon DEF Meet

\* The output is a beginning of the file.
LEMMA OutBegins == IInv => \E n \in 0 .. Len(Input) : out = SubSeq(Input, 1, n)
<1> SUFFICES ASSUME IInv PROVE \E n \in 0 .. Len(Input) : out = SubSeq(Input, 1, n)
  OBVIOUS
<1>1. nchs \in Nat \ {0} /\ Held[nchs + 1] = out
  BY HeldFacts, ChainAssumption DEF IInv
<1>2. PICK cut \in [0 .. nchs + 2 -> 0 .. Len(Input)] :
        /\ cut[nchs + 2] = 0
        /\ \A k \in 0 .. nchs + 1 : Held[k] = SubSeq(Input, cut[k + 1] + 1, cut[k])
  BY DEF IInv, Pieces
<1>3. nchs + 1 \in 0 .. nchs + 1 /\ nchs + 1 \in 0 .. nchs + 2 /\ (nchs + 1) + 1 = nchs + 2 /\ 0 + 1 = 1
  BY <1>1
<1>4. out = SubSeq(Input, 1, cut[nchs + 1])
  BY <1>1, <1>2, <1>3, Zenon
<1> QED
  BY <1>3, <1>4, Zenon

\* Once every stage is shut the whole file is in the output.
LEMMA AllWritten == ASSUME IInv, \A i \in Child : shut[i] PROVE out = Input
<1>1. nchs \in Nat \ {0} /\ Len(Input) \in Nat /\ Input \in Seq(Bytes)
  BY ChainAssumption
<1>2. PICK cut \in [0 .. nchs + 2 -> 0 .. Len(Input)] :
        /\ cut[0] = Len(Input) /\ cut[nchs + 2] = 0
        /\ \A k \in 0 .. nchs + 1 :
             /\ cut[k + 1] <= cut[k]
             /\ Held[k] = SubSeq(Input, cut[k + 1] + 1, cut[k])
  BY DEF IInv, Pieces
<1>3. /\ Held[0] = left /\ Held[nchs + 1] = out
      /\ \A i \in Child : Held[i + 1] = InStage(i)
  BY HeldFacts DEF IInv
<1>4. left = <<>> /\ \A i \in Child : InStage(i) = <<>>
  <2>1. 0 \in Child
    BY <1>1 DEF Child
  <2> QED
    BY <2>1, ClosedInOrderNow DEF ClosedInOrder, IInv, GoneDry
<1>5. ASSUME NEW k \in 0 .. nchs PROVE Held[k] = <<>>
  <2>1. k = 0 \/ (k - 1 \in Child /\ (k - 1) + 1 = k)
    BY <1>1 DEF Child
  <2> QED
    BY <1>3, <1>4, <2>1
<1>6. ASSUME NEW k \in 0 .. nchs PROVE cut[k + 1] = cut[k]
  <2>1. k \in 0 .. nchs + 1 /\ k \in 0 .. nchs + 2 /\ k + 1 \in 0 .. nchs + 2
    BY <1>1
  <2>2. PICK x \in 0 .. Len(Input), y \in 0 .. Len(Input) : x = cut[k + 1] /\ y = cut[k]
    BY <2>1, Zenon
  <2>3. x <= y /\ SubSeq(Input, x + 1, y) = <<>>
    BY <1>2, <1>5, <2>1, <2>2
  <2>4. Len(SubSeq(Input, x + 1, y)) = y - x
    BY <1>1, <2>3, SubSeqProperties, SMTT(30)
  <2>5. Len(SubSeq(Input, x + 1, y)) = 0
    BY <2>3
  <2> QED
    BY <1>1, <2>2, <2>4, <2>5, SMTT(30)
<1>7. cut[nchs + 1] = Len(Input)
  <2> DEFINE T == {k \in Nat : k <= nchs + 1 => cut[k] = Len(Input)}
  <2>1. 0 \in T
    BY <1>2
  <2>2. ASSUME NEW k \in Nat, k \in T PROVE k + 1 \in T
    BY <1>1, <1>6, <2>2
  <2> HIDE DEF T
  <2>3. \A k \in Nat : k \in T
    BY <2>1, <2>2, NatInSet
  <2> QED
    BY <1>1, <2>3 DEF T
<1>8. nchs + 1 \in 0 .. nchs + 1 /\ (nchs + 1) + 1 = nchs + 2 /\ 0 + 1 = 1
  BY <1>1
<1>9. out = SubSeq(Input, 1, Len(Input))
  <2>1. Held[nchs + 1] = SubSeq(Input, cut[(nchs + 1) + 1] + 1, cut[nchs + 1])
    BY <1>2, <1>8
  <2> QED
    BY <2>1, <1>2, <1>3, <1>7, <1>8
<1> QED
  BY <1>1, <1>9, SubSeqFull

\* The chain has ended once the parent has: it leaves the loop after all children.
LEMMA EndedNow ==
  ASSUME IInv PROVE (ppc = "exited" /\ \A i \in Child : cpc[i] = "gone") <=> ppc = "exited"
BY DEF IInv, AllShut, ShutDry

LEMMA CopyInit == Init => Copy!Init
BY DEF Init, Copy!Init

LEMMA CopyStep == IInv /\ IInv' /\ [Next]_vars => [Copy!Next]_(Copy!vars)
<1> DEFINE ended == ppc = "exited" /\ \A i \in Child : cpc[i] = "gone"
<1> SUFFICES ASSUME IInv, IInv', [Next]_vars
             PROVE  \/ out' = out /\ ended' = ended
                    \/ Copy!Write \/ Copy!End
  BY Zenon DEF Copy!Next, Copy!vars
<1>1. ended = (ppc = "exited") /\ ended' = (ppc' = "exited")
  <2>1. ended = (ppc = "exited")
    BY EndedNow DEF ended
  <2>2. ended' = (ppc' = "exited")
    BY DEF ended, IInv, AllShut, ShutDry
  <2> QED
    BY <2>1, <2>2
<1>2. CASE Exit
  <2>1. out = Input
    BY <1>2, AllWritten DEF Exit, IInv, AllShut
  <2>2. ~ended /\ ended' = TRUE /\ out' = out
    BY <1>1, <1>2 DEF Exit
  <2> QED
    BY <2>1, <2>2 DEF Copy!End
<1>3. CASE Serve /\ stage \in wfds /\ stage = LastChild /\ out' = out \o buf[stage]
  <2>1. ~ended /\ ~ended'
    BY <1>1, <1>3 DEF Serve
  <2>2. stage \in Child /\ buf[stage] # <<>> /\ buf[stage] \in Seq(Bytes) /\ out \in Seq(Bytes)
    <3>1. stage \in Child /\ stage >= stage /\ ppc = "serve"
      BY <1>3, ChainAssumption DEF IInv, TypeOK, Child, Serve
    <3> QED
      BY <1>3, <3>1 DEF IInv, TypeOK, Asked
  <2>3. Len(out') > Len(out) /\ Len(out) \in Nat
    <3>1. Len(out') = Len(out) + Len(buf[stage]) /\ Len(out) \in Nat
      BY <1>3, <2>2, ConcatProperties
    <3>2. Len(buf[stage]) \in Nat /\ Len(buf[stage]) # 0
      BY <2>2, EmptySeq
    <3> QED
      BY <3>1, <3>2
  <2>4. PICK n \in 0 .. Len(Input) : out' = SubSeq(Input, 1, n)
    <3>1. (\E n \in 0 .. Len(Input) : out = SubSeq(Input, 1, n))'
      BY OutBegins, PTL
    <3> QED
      BY <3>1
  <2>5. Input \in Seq(Bytes) /\ Len(Input) \in Nat
    BY ChainAssumption
  <2>6. Len(out') = n
    BY <2>4, <2>5, SubSeqProperties
  <2>7. n \in Len(out) + 1 .. Len(Input)
    BY <2>3, <2>5, <2>6
  <2> QED
    BY <2>1, <2>4, <2>7 DEF Copy!Write
<1>4. CASE out' = out /\ (ppc' = "exited") = (ppc = "exited")
  BY <1>1, <1>4
<1>5. CASE Fork \/ Select
  BY <1>4, <1>5 DEF Fork, Select, child, pipes
<1>6. CASE Serve /\ ~(stage \in wfds /\ stage = LastChild /\ out' = out \o buf[stage])
  BY <1>4, <1>6 DEF Serve, pipes
<1>7. ASSUME NEW i \in Child, ChildStep(i) PROVE out' = out /\ ppc' = ppc
  BY <1>7 DEF ChildStep, CloseFds, ChildRead, ChildWrite, pipes
<1>8. CASE UNCHANGED vars
  BY <1>4, <1>8 DEF vars
<1> QED
  BY <1>2, <1>3, <1>4, <1>5, <1>6, <1>7, <1>8 DEF Next, Parent, Over

---------------------------------------------------------------------------
(***************************************************************************)
(* The theorems.                                                           *)
(***************************************************************************)
\* Every buffer and every pipe holds bytes of the file and no more than it can,
\* wherever the children and the parent's loop are.
THEOREM TypeCorrect == Spec => []TypeOK
<1>1. IInv => TypeOK
  BY DEF IInv
<1> QED
  BY <1>1, Invariance, PTL

\* Nothing is lost, doubled or overtaken on its way through the pipes and the
\* buffers: output, what is under way and what is not read are the file.
THEOREM NothingLost == Spec => []Conserved
BY ConservedNow, Invariance, PTL

\* What select() said of a stage still holds when the parent's loop comes to it,
\* so no read() or write() of the parent blocks it.
THEOREM ParentNeverBlocks == Spec => []NeverBlocks
BY NeverBlocksNow, Invariance, PTL

\* A stage is closed after the one before it, its child gone and its buffers and
\* pipes empty.
THEOREM StagesCloseInOrder == Spec => []ClosedInOrder
BY ClosedInOrderNow, Invariance, PTL

\* Every step of the chain appends to the output the next bytes of the file, or
\* ends it with all of them written, or is not seen from outside.
THEOREM ChainCopiesInOrder == Spec => Copy!Safe
BY CopyInit, CopyStep, Invariance, PTL DEF Spec, Copy!Safe

---------------------------------------------------------------------------
(***************************************************************************)
(* MsgRing.  A step of it may disturb where the turn is (OneTurn), whose   *)
(* turn was last (PcInv) and what is printed (InLine).                     *)
(***************************************************************************)
USE RingAssumption


LEMMA RingInitInv == RingInit => RingInv
BY DEF RingInit, RingInv, RingTypeOK, InLine, PcInv, QueueInv, EndInv, OneTurn, Printer, Kind,
       Holders, Waiting

\* A step that takes no turn and sends no message leaves the turn where it is.
LEMMA TurnStays ==
  ASSUME OneTurn, Holders' \subseteq Holders, Waiting' \subseteq Waiting,
         main' = "fork" \/ main # "fork"
  PROVE  OneTurn'
BY DEF OneTurn

\* The parent's loop: the child it makes comes after all that have printed.
LEMMA ForkNextInv == RingInv /\ ForkNext => RingInv'
<1> SUFFICES ASSUME RingInv, ForkNext PROVE RingInv'
  OBVIOUS
<1> USE DEF RingInv, Printer, Kind
<1>1. RingTypeOK'
  BY DEF RingTypeOK, ForkNext, Begun
<1>2. InLine'
  BY DEF RingTypeOK, InLine, ForkNext
<1>3. PcInv'
  BY DEF RingTypeOK, InLine, PcInv, ForkNext, Begun
<1>4. QueueInv' /\ EndInv'
  BY DEF QueueInv, EndInv, ForkNext
<1>5. OneTurn'
  <2>1. Waiting' = Waiting /\ main' = "fork"
    BY DEF ForkNext, Waiting
  <2>2. CASE started = 0
    <3>1. Holders = {} /\ Waiting = {}
      BY <2>2 DEF RingTypeOK, InLine, PcInv, QueueInv, Holders, Waiting
    <3>2. \A i \in Holders' : i = 1
      BY <2>2, <3>1 DEF RingTypeOK, ForkNext, Holders
    <3> QED
      BY <2>1, <3>1, <3>2 DEF OneTurn
  <2>3. CASE started # 0
    <3>1. Holders' \subseteq Holders
      BY <2>3 DEF RingTypeOK, ForkNext, Begun, Holders
    <3> QED
      BY <2>1, <3>1, TurnStays
  <2> QED
    BY <2>2, <2>3
<1> QED
  BY <1>1, <1>2, <1>3, <1>4, <1>5

LEMMA ReceiveInv == ASSUME NEW i \in Printer, RingInv, Receive(i) PROVE RingInv'
<1> USE DEF RingInv, Printer, Kind
<1>1. main = "fork" /\ queued[i] = 1 /\ i = Len(printed) + 1
  BY DEF RingTypeOK, PcInv, QueueInv, EndInv, Receive, Msgrcv, Removed
<1>2. RingTypeOK'
  BY <1>1 DEF RingTypeOK, Receive, Msgrcv, Removed
<1>3. InLine' /\ EndInv'
  BY DEF InLine, EndInv, Receive
<1>4. PcInv'
  BY <1>1 DEF RingTypeOK, PcInv, Receive
<1>5. QueueInv'
  BY <1>1 DEF RingTypeOK, QueueInv, Receive, Msgrcv, Removed
<1>6. OneTurn'
  <2>1. Holders = {} /\ \A t \in Waiting : t = i
    BY <1>1 DEF OneTurn, Waiting
  <2>2. Waiting' = {}
    BY <1>1, <2>1 DEF RingTypeOK, Receive, Msgrcv, Removed, Waiting
  <2>3. \A j \in Holders' : j = i
    BY <2>1 DEF RingTypeOK, Receive, Holders
  <2>4. main' = "fork"
    BY <1>1 DEF Receive
  <2> QED
    BY <2>2, <2>3, <2>4 DEF OneTurn
<1> QED
  BY <1>2, <1>3, <1>4, <1>5, <1>6

LEMMA PrintInv == ASSUME NEW i \in Printer, RingInv, PrintNumber(i) PROVE RingInv'
<1> USE DEF RingInv, Printer, Kind
<1>1. main = "fork" /\ i = Len(printed) + 1 /\ i <= started /\ printed \in Seq(Printer)
  <2>1. i \in Holders /\ i <= started
    BY DEF RingTypeOK, PcInv, Holders, PrintNumber
  <2>2. main = "fork"
    BY <2>1 DEF OneTurn
  <2> QED
    BY <2>1, <2>2 DEF RingTypeOK, PcInv, PrintNumber
<1>2. Len(printed') = i /\ \A j \in 1 .. i : printed'[j] = IF j = i THEN i ELSE printed[j]
  BY <1>1 DEF PrintNumber
<1>3. RingTypeOK'
  BY <1>1 DEF RingTypeOK, PrintNumber
<1>4. InLine' /\ EndInv'
  BY <1>1, <1>2 DEF RingTypeOK, InLine, EndInv, PrintNumber
<1>5. \A j \in Printer : pc[j] = "send" => FALSE
  BY <1>1 DEF OneTurn, Holders, PcInv, PrintNumber
<1>6. PcInv'
  BY <1>1, <1>2, <1>5 DEF RingTypeOK, PcInv, OneTurn, Holders, PrintNumber
<1>7. QueueInv'
  BY <1>1, <1>2 DEF RingTypeOK, QueueInv, OneTurn, Holders, Waiting, PrintNumber
<1>8. OneTurn'
  <2>1. Holders' \subseteq Holders /\ Waiting' = Waiting /\ main' = "fork"
    BY <1>1 DEF RingTypeOK, PrintNumber, Holders, Waiting
  <2> QED
    BY <2>1, TurnStays
<1> QED
  BY <1>3, <1>4, <1>6, <1>7, <1>8

LEMMA SendInv == ASSUME NEW i \in Printer, RingInv, Send(i) PROVE RingInv'
<1> USE DEF RingInv, Printer, Kind
<1>1. main = "fork" /\ i = Len(printed) /\ i + 1 \in Kind /\ queued[i + 1] = 0
  <2>1. i \in Holders /\ i + 1 \in Kind
    BY DEF Holders, Send
  <2>2. main = "fork" /\ i + 1 \notin Waiting
    BY <2>1 DEF OneTurn
  <2> QED
    BY <2>1, <2>2 DEF RingTypeOK, PcInv, Send, Waiting
<1>2. RingTypeOK'
  BY <1>1 DEF RingTypeOK, Send, Msgsnd, Removed
<1>3. InLine' /\ EndInv'
  BY DEF InLine, EndInv, Send
<1>4. PcInv'
  BY <1>1 DEF RingTypeOK, PcInv, InLine, Send
<1>5. QueueInv'
  BY <1>1 DEF RingTypeOK, QueueInv, Send, Msgsnd, Removed
<1>6. OneTurn'
  <2>1. Waiting = {} /\ \A j \in Holders : j = i
    BY DEF OneTurn, Holders, Send
  <2>2. Holders' = {}
    BY <2>1 DEF RingTypeOK, Send, Holders
  <2>3. \A t \in Waiting' : t = i + 1
    BY <1>1, <2>1 DEF RingTypeOK, Send, Msgsnd, Removed, Waiting
  <2>4. main' = "fork"
    BY <1>1 DEF Send
  <2> QED
    BY <2>2, <2>3, <2>4 DEF OneTurn
<1> QED
  BY <1>2, <1>3, <1>4, <1>5, <1>6

LEMMA WaitInv == RingInv /\ Wait => RingInv'
<1> SUFFICES ASSUME RingInv, Wait PROVE RingInv'
  OBVIOUS
<1> USE DEF RingInv, Printer, Kind
<1>1. queued[N + 1] = 1 /\ Len(printed) = N
  BY DEF RingTypeOK, InLine, QueueInv, Wait, Msgrcv, Removed
<1>2. RingTypeOK'
  BY <1>1 DEF RingTypeOK, Wait, Msgrcv, Removed
<1>3. InLine' /\ EndInv' /\ PcInv'
  BY <1>1 DEF InLine, EndInv, PcInv, Wait
<1>4. QueueInv'
  BY <1>1 DEF RingTypeOK, QueueInv, Wait, Msgrcv, Removed
<1>5. OneTurn'
  <2>1. Holders = {} /\ \A t \in Waiting : t = N + 1
    BY <1>1 DEF OneTurn, Waiting
  <2>2. Waiting' = {} /\ Holders' = {}
    BY <1>1, <2>1 DEF RingTypeOK, Wait, Msgrcv, Removed, Waiting, Holders
  <2> QED
    BY <2>2 DEF OneTurn
<1> QED
  BY <1>2, <1>3, <1>4, <1>5

LEMMA EndOfRingInv == RingInv /\ (RemoveQueue \/ ExitMain \/ UNCHANGED ringVars) => RingInv'
<1> SUFFICES ASSUME RingInv, RemoveQueue \/ ExitMain \/ UNCHANGED ringVars PROVE RingInv'
  OBVIOUS
<1>1. UNCHANGED <<started, pc, printed>> /\ Waiting' \subseteq Waiting /\ Holders' = Holders
  BY DEF RemoveQueue, ExitMain, ringVars, Waiting, Holders
<1>2. main' = main \/ (main # "fork" /\ main' \in {"removed", "exited"})
  BY DEF RemoveQueue, ExitMain, ringVars
<1>3. queued' = queued \/ queued' = [t \in Kind |-> 0]
  BY DEF RemoveQueue, ExitMain, ringVars
<1>4. RingTypeOK'
  BY <1>1, <1>2, <1>3 DEF RingInv, RingTypeOK
<1>5. InLine' /\ PcInv' /\ EndInv'
  BY <1>1, <1>2 DEF RingInv, InLine, PcInv, EndInv
<1>6. QueueInv'
  BY <1>1, <1>3 DEF RingInv, QueueInv
<1>7. OneTurn'
  BY <1>1, <1>2, TurnStays DEF RingInv
<1> QED
  BY <1>4, <1>5, <1>6, <1>7 DEF RingInv

\* RingInv holds of every state of every run.
THEOREM RingInductive == RingSpec => []RingInv
<1>1. ASSUME RingInv, [RingNext]_ringVars PROVE RingInv'
  BY <1>1, ForkNextInv, ReceiveInv, PrintInv, SendInv, WaitInv, EndOfRingInv
     DEF RingNext, MainStep, PrinterStep, AllOver
<1> QED
  BY RingInitInv, <1>1, PTL DEF RingSpec

\* Every variable has its type; no message is in the queue twice.
THEOREM RingTypeCorrect == RingSpec => []RingTypeOK
<1>1. RingInv => RingTypeOK
  BY DEF RingInv
<1> QED
  BY RingInductive, <1>1, PTL

\* The turn is never in two places.
THEOREM OneTurnHolds == RingSpec => []OneTurn
<1>1. RingInv => OneTurn
  BY DEF RingInv
<1> QED
  BY RingInductive, <1>1, PTL

\* The queue is never removed under a child that is to use it.
THEOREM RemovedLastHolds == RingSpec => []RemovedLast
<1>1. RingInv => RemovedLast
  BY DEF RingInv, RemovedLast, RingTypeOK, PcInv, EndInv, OneTurn, Holders, Printer
<1> QED
  BY RingInductive, <1>1, PTL

\* The children print 1, 2, 3 and so on and the parent ends after N, whichever
\* forks fail.
THEOREM OrderedHolds == RingSpec => Ordered
<1> DEFINE Numbers == [i \in Printer |-> i]
<1>1. RingInit => Count!Init
  BY DEF RingInit, Count!Init
<1>2. ASSUME RingInv, NEW i \in Printer, PrintNumber(i) PROVE Count!Next
  <2>1. i = Len(printed) + 1 /\ printed \in Seq(Printer) /\ main = "fork"
    BY <1>2 DEF RingInv, RingTypeOK, PcInv, OneTurn, Holders, PrintNumber
  <2>2. Numbers \in Seq(Printer) /\ Len(Numbers) = N
    BY DEF Printer
  <2>3. printed' = SubSeq(Numbers, 1, i)
    <3>1. printed' \in Seq(Printer) /\ Len(printed') = i
      BY <1>2, <2>1 DEF PrintNumber
    <3>2. SubSeq(Numbers, 1, i) \in Seq(Printer) /\ Len(SubSeq(Numbers, 1, i)) = i
      <4> HIDE DEF Numbers
      <4>1. i \in Int /\ 1 <= i /\ i - 1 + 1 = i
        BY DEF Printer
      <4>2. \A j \in 1 .. i : Numbers[j] \in Printer
        BY DEF Numbers, Printer
      <4> QED
        BY <4>1, <4>2, SubSeqProperties
    <3>3. \A j \in 1 .. i : printed'[j] = j /\ SubSeq(Numbers, 1, i)[j] = j
      BY <1>2, <2>1, <2>2 DEF PrintNumber, RingInv, InLine, Printer
    <3> QED
      BY <3>1, <3>2, <3>3
  <2> QED
    <3>1. i \in Len(printed) + 1 .. Len(Numbers) /\ main # "exited" /\ main' = main
      BY <1>2, <2>1, <2>2 DEF PrintNumber, Printer
    <3>2. Count!Write
      BY <2>3, <3>1 DEF Count!Write
    <3> QED
      BY <3>2 DEF Count!Next
<1>3. ASSUME RingInv, ExitMain PROVE Count!Next
  <2>1. Len(printed) = N /\ printed \in Seq(Printer) /\ \A i \in 1 .. N : printed[i] = i
    BY <1>3 DEF ExitMain, RingInv, RingTypeOK, EndInv, InLine
  <2>2. printed = Numbers
    BY <2>1 DEF Printer
  <2> QED
    BY <1>3, <2>2 DEF Count!Next, Count!End, ExitMain
<1>4. ASSUME RingInv, [RingNext]_ringVars PROVE [Count!Next]_Count!vars
  <2>1. CASE ForkNext \/ Wait \/ RemoveQueue
    BY <2>1 DEF ForkNext, Wait, RemoveQueue, Count!vars
  <2>2. ASSUME NEW i \in Printer, Receive(i) \/ Send(i) PROVE UNCHANGED Count!vars
    BY <2>2 DEF Receive, Send, Count!vars
  <2>3. CASE UNCHANGED ringVars
    BY <2>3 DEF ringVars, Count!vars
  <2> QED
    BY <1>2, <1>3, <1>4, <2>1, <2>2, <2>3 DEF RingNext, MainStep, PrinterStep, AllOver
<1> QED
  BY RingInductive, <1>1, <1>4, PTL DEF RingSpec, Ordered, Count!Safe
===========================================================================

----------------------------- MODULE FifoProofs -----------------------------
(***************************************************************************)
(* Theorems about Fifo, for any writers, readers, files and size of pipes. *)
(***************************************************************************)
EXTENDS Fifo, SequenceTheorems, TLAPS

Place == {"start", "sync", "opening", "name", "close", "sleep", "open", "copy",
          "unlink", "done", "failed", "sigpipe", "killed"}

\* Appending, and taking the head.
LEMMA AppendFacts ==
  ASSUME NEW S, NEW x \in Seq(S), NEW e \in S
  PROVE  /\ Append(x, e) \in Seq(S) /\ Len(x) \in Nat /\ Len(Append(x, e)) = Len(x) + 1
         /\ \A k \in 1 .. Len(x) : Append(x, e)[k] = x[k]
         /\ Append(x, e)[Len(x) + 1] = e
OBVIOUS

LEMMA TailFacts ==
  ASSUME NEW S, NEW x \in Seq(S), x # <<>>
  PROVE  /\ Tail(x) \in Seq(S) /\ Len(x) \in Nat \ {0} /\ Len(Tail(x)) = Len(x) - 1
         /\ Head(x) = x[1] /\ Head(x) \in S
         /\ \A k \in 1 .. Len(x) - 1 : Tail(x)[k] = x[k + 1]
OBVIOUS

LEMMA InitInv == Init => IInv
<1> SUFFICES ASSUME Init PROVE IInv
  OBVIOUS
<1> USE FifoAssumption DEF Init
<1>1. TypeOK
  <2>1. pc \in [Writers \cup Readers -> Place] /\ size \in [Writers -> Sizes]
    BY DEF Place
  <2>2. pos \in [Writers -> Nat] /\ \A w \in Writers : pos[w] <= size[w]
    <3>1. \A w \in Writers : size[w] \in Nat /\ pos[w] = 0
      BY <2>1
    <3> QED
      BY <3>1
  <2>3. /\ got \in [Readers -> Writers \cup {NoName}] /\ out \in [Readers -> Seq(Writers \X Nat)]
        /\ names \in Seq(Writers) /\ there \subseteq Writers
    OBVIOUS
  <2>4. pipe \in [Writers -> Seq(Writers \X Nat)] /\ \A v \in Writers : Len(pipe[v]) <= Room
    OBVIOUS
  <2> QED
    BY <2>1, <2>2, <2>3, <2>4 DEF TypeOK, Place
<1>2. PlaceInv /\ NameInv
  BY DEF PlaceInv, NameInv, Unsent
<1>3. FlowInv
  BY DEF FlowInv, Unopened
<1> QED
  BY <1>1, <1>2, <1>3 DEF IInv

---------------------------------------------------------------------------
(***************************************************************************)
(* Steps that change places only.                                          *)
(***************************************************************************)
\* What a writer may become, and what a reader.
WriterMay(w) ==
  /\ pc'[w] \notin {"open", "failed"}
  /\ pc'[w] \in {"unlink", "done"} => pos[w] = size[w]
  /\ Unsent(w)' => Unsent(w)
  /\ pc[w] \in {"killed", "sigpipe"} => pc'[w] \in {"killed", "sigpipe"}

ReaderMay(r) ==
  \/ pc'[r] = pc[r]
  \/ pc[r] \in {"start", "opening", "name"} /\ pc'[r] \in {"opening", "name"}
  \/ pc[r] = "close" /\ pc'[r] = "open"
  \/ pc'[r] = "killed"
  \/ /\ pc'[r] = "done" /\ got[r] \in Writers
     /\ pc[got[r]] \in {"killed", "sigpipe"} \/ Len(out[r]) = size[got[r]]

LEMMA PlacesInv ==
  ASSUME IInv, pc' \in [Writers \cup Readers -> Place],
         \A w \in Writers : WriterMay(w), \A r \in Readers : ReaderMay(r),
         UNCHANGED <<size, pos, got, out>>, there' \subseteq Writers,
         names' \in {names, <<>>},
         pipe' \in [Writers -> Seq(Writers \X Nat)],
         \A v \in Writers : pipe'[v] \in {pipe[v], <<>>},
         \A r \in Readers : pc[r] = "copy" /\ pc'[r] = "copy" => pipe'[got[r]] = pipe[got[r]]
  PROVE  IInv'
<1> USE FifoAssumption DEF IInv
<1>1. TypeOK'
  <2>1. \A v \in Writers : Len(pipe'[v]) <= Room
    BY DEF TypeOK
  <2>2. names' \in Seq(Writers)
    <3>1. names \in Seq(Writers) /\ <<>> \in Seq(Writers)
      BY DEF TypeOK
    <3> QED
      BY <3>1
  <2> QED
    BY <2>1, <2>2 DEF TypeOK, Place
<1>2. PlaceInv'
  <2>1. ASSUME NEW w \in Writers
        PROVE  /\ pc'[w] \notin {"open", "failed"}
               /\ pc'[w] \in {"unlink", "done"} => pos[w] = size[w]
    BY DEF WriterMay
  <2>2. ASSUME NEW r \in Readers
        PROVE  /\ pc'[r] \notin {"sync", "sleep", "unlink", "sigpipe"}
               /\ pc'[r] \in {"start", "opening", "name"} => got[r] = NoName
               /\ pc'[r] \in {"close", "open", "copy", "failed", "done"} => got[r] \in Writers
    BY DEF ReaderMay, PlaceInv
  <2> QED
    BY <2>1, <2>2 DEF PlaceInv
<1>3. NameInv'
  <2> DEFINE Gone(w) == pc'[w] \notin {"start", "sync", "opening", "name"}
  <2>1. \A w \in Writers : ~Unsent(w) => Gone(w)
    BY DEF WriterMay, Unsent
  <2>2. \A k \in 1 .. Len(names) : names[k] \in Writers
    BY DEF TypeOK
  <2>3. \A k \in 1 .. Len(names) : Gone(names[k])
    BY <2>1, <2>2 DEF NameInv
  <2>4. \A r \in Readers : got[r] \in Writers => Gone(got[r])
    BY <2>1 DEF NameInv
  <2>5. \A r, s \in Readers : got[r] = got[s] /\ got[r] # NoName => r = s
    BY DEF NameInv
  <2> HIDE DEF Gone
  <2>6. /\ \A k, l \in 1 .. Len(names') : names'[k] = names'[l] => k = l
        /\ \A k \in 1 .. Len(names') :
             Gone(names'[k]) /\ \A r \in Readers : got[r] # names'[k]
    <3>1. CASE names' = names
      BY <2>3, <3>1 DEF NameInv
    <3>2. CASE names' = <<>>
      BY <3>2
    <3> QED
      BY <3>1, <3>2
  <2> USE DEF Gone
  <2> QED
    BY <2>4, <2>5, <2>6 DEF NameInv, Unsent
<1>4. FlowInv'
  <2>1. \A r \in Readers : Unopened(r)' => Unopened(r)
    BY DEF ReaderMay, Unopened
  <2>2. ASSUME NEW w \in Writers, \A r \in Readers : got[r] = w => Unopened(r)'
        PROVE  pos[w] = 0 /\ pipe'[w] = <<>>
    BY <2>1, <2>2 DEF FlowInv
  <2>3. ASSUME NEW r \in Readers
        PROVE  /\ got[r] = NoName \/ Unopened(r)' => out[r] = <<>>
               /\ got[r] \in Writers => BeginningOf(out[r], got[r])
               /\ pc'[r] = "copy" =>
                    /\ Len(out[r]) + Len(pipe'[got[r]]) = pos[got[r]]
                    /\ \A k \in 1 .. Len(pipe'[got[r]]) :
                         pipe'[got[r]][k] = <<got[r], Len(out[r]) + k>>
    <3>1. (got[r] = NoName \/ Unopened(r)' => out[r] = <<>>)
      BY <2>1 DEF FlowInv
    <3>2. got[r] \in Writers => BeginningOf(out[r], got[r])
      BY DEF FlowInv
    <3>3. pc'[r] = "copy" => pc[r] = "copy"
      BY DEF ReaderMay
    <3>4. ASSUME pc'[r] = "copy"
          PROVE  /\ Len(out[r]) + Len(pipe'[got[r]]) = pos[got[r]]
                 /\ \A k \in 1 .. Len(pipe'[got[r]]) :
                      pipe'[got[r]][k] = <<got[r], Len(out[r]) + k>>
      <4>1. pc[r] = "copy" /\ pipe'[got[r]] = pipe[got[r]]
        BY <3>3, <3>4
      <4>2. /\ Len(out[r]) + Len(pipe[got[r]]) = pos[got[r]]
            /\ \A k \in 1 .. Len(pipe[got[r]]) : pipe[got[r]][k] = <<got[r], Len(out[r]) + k>>
        BY <4>1 DEF FlowInv
      <4> QED
        BY <4>1, <4>2
    <3> QED
      BY <3>1, <3>2, <3>4
  <2>4. ASSUME NEW r \in Readers, pc'[r] = "done"
        PROVE  pc'[got[r]] \in {"killed", "sigpipe"} \/ Len(out[r]) = size[got[r]]
    <3>1. got[r] \in Writers /\ (pc[got[r]] \in {"killed", "sigpipe"} \/ Len(out[r]) = size[got[r]])
      BY <2>4 DEF FlowInv, ReaderMay, PlaceInv
    <3> QED
      BY <3>1 DEF WriterMay
  <2>5. \A r \in Readers, w \in Writers : BeginningOf(out[r], w)' <=> BeginningOf(out[r], w)
    BY DEF BeginningOf
  <2> QED
    BY <2>2, <2>3, <2>4, <2>5 DEF FlowInv
<1> QED
  BY <1>1, <1>2, <1>3, <1>4

\* Closing what is open empties no pipe that a reader has open.
LEMMA ClosedFacts ==
  ASSUME IInv, Closed, UNCHANGED got
  PROVE  /\ names' \in {names, <<>>}
         /\ pipe' \in [Writers -> Seq(Writers \X Nat)]
         /\ \A v \in Writers : pipe'[v] \in {pipe[v], <<>>}
         /\ \A r \in Readers : got[r] \in Writers /\ pc'[r] = "copy" => pipe'[got[r]] = pipe[got[r]]
<1> USE DEF IInv
<1> DEFINE Open(v) == DataReaders(v)' \cup DataWriters(v)'
<1>1. names' \in {names, <<>>}
  BY DEF Closed
<1>2. pipe' = [v \in Writers |-> IF Open(v) = {} THEN <<>> ELSE pipe[v]]
  BY DEF Closed
<1>3. \A r \in Readers : pc'[r] = "copy" => Open(got[r]) # {}
  BY DEF DataReaders
<1> HIDE DEF Open
<1>4. \A v \in Writers : pipe'[v] = pipe[v] \/ pipe'[v] = <<>>
  BY <1>2
<1>5. \A v \in Writers : pipe[v] \in Seq(Writers \X Nat)
  BY DEF TypeOK
<1>6. pipe' \in [Writers -> Seq(Writers \X Nat)]
  BY <1>2, <1>5
<1>7. \A r \in Readers : got[r] \in Writers /\ pc'[r] = "copy" => pipe'[got[r]] = pipe[got[r]]
  BY <1>2, <1>3
<1> QED
  BY <1>1, <1>4, <1>6, <1>7

\* A process that ends, or closes something, where the code lets it.
LEMMA EndInv ==
  ASSUME IInv, NEW p \in Writers \cup Readers, NEW how \in Place, End(p, how),
         p \in Writers => WriterMay(p), p \in Readers => ReaderMay(p)
  PROVE  IInv'
<1> USE FifoAssumption
<1>1. /\ pc' = [pc EXCEPT ![p] = how] /\ pc \in [Writers \cup Readers -> Place]
      /\ UNCHANGED <<size, pos, got, out, there>> /\ there \subseteq Writers
  BY DEF End, IInv, TypeOK, Place
<1>2. pc' \in [Writers \cup Readers -> Place] /\ \A q \in Writers \cup Readers : q # p => pc'[q] = pc[q]
  BY <1>1
<1>3. ASSUME NEW w \in Writers PROVE WriterMay(w)
  <2>1. CASE w = p
    BY <2>1
  <2>2. CASE w # p
    BY <1>2, <2>2 DEF WriterMay, IInv, PlaceInv, Unsent
  <2> QED
    BY <2>1, <2>2
<1>4. ASSUME NEW r \in Readers PROVE ReaderMay(r)
  BY <1>2 DEF ReaderMay
<1>5. Closed
  BY DEF End
<1>6. \A r \in Readers : pc[r] = "copy" /\ pc'[r] = "copy" => pipe'[got[r]] = pipe[got[r]]
  BY <1>1, <1>5, ClosedFacts DEF IInv, PlaceInv
<1> QED
  BY <1>1, <1>2, <1>3, <1>4, <1>5, <1>6, ClosedFacts, PlacesInv

\* A step that changes where processes are, and nothing that is in a pipe.
LEMMA MoveInv ==
  ASSUME IInv, pc' \in [Writers \cup Readers -> Place],
         \A w \in Writers : WriterMay(w), \A r \in Readers : ReaderMay(r),
         UNCHANGED <<size, pos, got, out, names, pipe>>, there' \subseteq Writers
  PROVE  IInv'
<1>1. pipe \in [Writers -> Seq(Writers \X Nat)]
  BY DEF IInv, TypeOK
<1> QED
  BY <1>1, PlacesInv

LEMMA OpenSyncInv ==
  ASSUME IInv, NEW p \in Writers \cup Readers, NEW others, OpenSync(p, others),
         p \in Writers => pc[p] = "sync", p \in Readers => pc[p] = "start",
         UNCHANGED <<size, pos, got, out, names, there, pipe>>
  PROVE  IInv'
<1> USE FifoAssumption
<1>1. pc \in [Writers \cup Readers -> Place] /\ there \subseteq Writers
  BY DEF IInv, TypeOK, Place
<1>2. pc' \in [Writers \cup Readers -> Place]
  BY <1>1 DEF OpenSync, Place
<1>3. pc'[p] \in {"opening", "name"}
  BY <1>1 DEF OpenSync
<1>4. \A q \in Writers \cup Readers : q # p =>
        pc'[q] = pc[q] \/ (pc[q] = "opening" /\ pc'[q] = "name")
  BY <1>1 DEF OpenSync
<1>5. ASSUME NEW w \in Writers PROVE WriterMay(w)
  BY <1>3, <1>4 DEF WriterMay, IInv, PlaceInv, Unsent
<1>6. ASSUME NEW r \in Readers PROVE ReaderMay(r)
  BY <1>3, <1>4 DEF ReaderMay
<1> QED
  BY <1>1, <1>2, <1>5, <1>6, MoveInv

\* One writer moves on.
LEMMA WriterMoves ==
  ASSUME IInv, NEW w \in Writers, NEW to \in Place, pc' = [pc EXCEPT ![w] = to],
         UNCHANGED <<size, pos, got, out, names, pipe>>, there' \subseteq Writers,
         WriterMay(w)
  PROVE  IInv'
<1> USE FifoAssumption
<1>1. pc \in [Writers \cup Readers -> Place]
  BY DEF IInv, TypeOK, Place
<1>2. pc' \in [Writers \cup Readers -> Place] /\ \A q \in Writers \cup Readers : q # w => pc'[q] = pc[q]
  BY <1>1
<1>3. ASSUME NEW v \in Writers PROVE WriterMay(v)
  BY <1>2 DEF WriterMay, IInv, PlaceInv, Unsent
<1>4. ASSUME NEW r \in Readers PROVE ReaderMay(r)
  BY <1>2 DEF ReaderMay
<1> QED
  BY <1>2, <1>3, <1>4, MoveInv
---------------------------------------------------------------------------
(***************************************************************************)
(* Names: one is left, one is taken.                                       *)
(***************************************************************************)
LEMMA WriteNameInv ==
  ASSUME IInv, NEW w \in Writers, WriteName(w)
  PROVE  IInv'
<1> USE FifoAssumption
<1>1. CASE End(w, "sigpipe")
  <2>1. WriterMay(w)
    <3>1. pc'[w] = "sigpipe"
      BY <1>1 DEF End, IInv, TypeOK
    <3> QED
      BY <3>1 DEF WriterMay, Unsent
  <2> QED
    BY <1>1, <2>1, EndInv DEF Place
<1>2. CASE /\ names' = Append(names, name(w))
           /\ pc' = [pc EXCEPT ![w] = "close"]
           /\ UNCHANGED <<size, pos, got, out, there, pipe>>
  <2> USE DEF IInv
  <2>1. /\ names \in Seq(Writers) /\ pc \in [Writers \cup Readers -> Place]
        /\ names' = Append(names, w) /\ pc[w] = "name"
    BY <1>2 DEF TypeOK, Place, name, WriteName
  <2>2. /\ names' \in Seq(Writers) /\ Len(names) \in Nat /\ Len(names') = Len(names) + 1
        /\ \A k \in 1 .. Len(names) : names'[k] = names[k] /\ names[k] \in Writers
        /\ names'[Len(names) + 1] = w
    BY <2>1, AppendFacts
  <2>3. pc' \in [Writers \cup Readers -> Place] /\ pc'[w] = "close"
        /\ \A q \in Writers \cup Readers : q # w => pc'[q] = pc[q]
    BY <1>2, <2>1 DEF Place
  <2>4. TypeOK'
    BY <1>2, <2>2, <2>3 DEF TypeOK, Place
  <2>5. PlaceInv'
    BY <1>2, <2>1, <2>3 DEF PlaceInv
  <2>6. /\ \A k \in 1 .. Len(names) : names[k] # w
        /\ \A r \in Readers : got[r] # w
    BY <2>1 DEF NameInv, Unsent
  <2>7. \A v \in Writers : Unsent(v)' => Unsent(v) /\ v # w
    BY <2>3 DEF Unsent
  <2>8. NameInv'
    <3> DEFINE Gone(v) == pc'[v] \notin {"start", "sync", "opening", "name"}
    <3>1. \A v \in Writers : ~Unsent(v) \/ v = w => Gone(v)
      BY <2>7 DEF Unsent
    <3>2. \A k \in 1 .. Len(names) : Gone(names[k]) /\ \A r \in Readers : got[r] # names[k]
      BY <2>2, <3>1 DEF NameInv
    <3>3. \A r \in Readers : got[r] \in Writers => Gone(got[r])
      BY <3>1 DEF NameInv
    <3>4. \A r, s \in Readers : got[r] = got[s] /\ got[r] # NoName => r = s
      BY DEF NameInv
    <3>5. \A k, l \in 1 .. Len(names) : names[k] = names[l] => k = l
      BY DEF NameInv
    <3>6. \A k \in 1 .. Len(names') : k \in 1 .. Len(names) \/ k = Len(names) + 1
      BY <2>2
    <3>7. Gone(w)
      BY <3>1
    <3> HIDE DEF Gone
    <3>8. \A k, l \in 1 .. Len(names') : names'[k] = names'[l] => k = l
      BY <2>2, <2>6, <3>5, <3>6
    <3>9. \A k \in 1 .. Len(names') : Gone(names'[k]) /\ \A r \in Readers : got[r] # names'[k]
      BY <2>2, <2>6, <3>2, <3>6, <3>7
    <3> USE DEF Gone
    <3> QED
      BY <1>2, <3>3, <3>4, <3>8, <3>9 DEF NameInv, Unsent
  <2>9. FlowInv'
    <3>1. \A r \in Readers : pc'[r] = pc[r]
      BY <2>3
    <3>2. \A v \in Writers : pc[v] \in {"killed", "sigpipe"} => pc'[v] = pc[v]
      BY <2>1, <2>3
    <3>3. \A r \in Readers : pc[r] = "done" => got[r] \in Writers
      BY DEF PlaceInv
    <3>4. \A r \in Readers : pc[r] = "done" =>
            pc'[got[r]] \in {"killed", "sigpipe"} \/ Len(out[r]) = size[got[r]]
      BY <3>2, <3>3 DEF FlowInv
    <3> QED
      BY <1>2, <3>1, <3>4, ZenonT(40) DEF FlowInv, Unopened, BeginningOf
  <2> QED
    BY <2>4, <2>5, <2>8, <2>9
<1> QED
  BY <1>1, <1>2 DEF WriteName

LEMMA ReadNameInv ==
  ASSUME IInv, NEW r \in Readers, ReadName(r)
  PROVE  IInv'
<1> USE FifoAssumption DEF IInv
<1> DEFINE w == Head(names)
<1>1. /\ pc[r] = "name" /\ names # <<>> /\ names' = Tail(names)
      /\ got' = [got EXCEPT ![r] = w] /\ pc' = [pc EXCEPT ![r] = "close"]
      /\ UNCHANGED <<size, pos, out, there, pipe>>
  BY DEF ReadName
<1>2. /\ names \in Seq(Writers) /\ pc \in [Writers \cup Readers -> Place]
      /\ got \in [Readers -> Writers \cup {NoName}]
  BY DEF TypeOK, Place
<1>3. /\ names' \in Seq(Writers) /\ Len(names) \in Nat \ {0} /\ Len(names') = Len(names) - 1
      /\ w \in Writers /\ w = names[1]
      /\ \A k \in 1 .. Len(names') : names'[k] = names[k + 1]
  BY <1>1, <1>2, TailFacts
<1> HIDE DEF w
<1>4. /\ pc' \in [Writers \cup Readers -> Place] /\ pc'[r] = "close"
      /\ \A q \in Writers \cup Readers : q # r => pc'[q] = pc[q]
      /\ got' \in [Readers -> Writers \cup {NoName}] /\ got'[r] = w
      /\ \A s \in Readers : s # r => got'[s] = got[s]
  BY <1>1, <1>2, <1>3 DEF Place
<1>5. /\ got[r] = NoName /\ ~Unsent(w)
      /\ \A s \in Readers : got[s] # w
  BY <1>1, <1>3 DEF PlaceInv, NameInv
<1>6. TypeOK'
  BY <1>1, <1>3, <1>4 DEF TypeOK, Place
<1>7. PlaceInv'
  BY <1>1, <1>3, <1>4 DEF PlaceInv
<1>8. NameInv'
  <2> DEFINE Gone(v) == pc'[v] \notin {"start", "sync", "opening", "name"}
  <2>1. \A v \in Writers : ~Unsent(v) => Gone(v)
    BY <1>4 DEF Unsent
  <2>2. \A k \in 1 .. Len(names) : names[k] \in Writers
    BY <1>2
  <2>3. \A k \in 1 .. Len(names) : Gone(names[k]) /\ \A s \in Readers : got[s] # names[k]
    BY <2>1, <2>2 DEF NameInv
  <2>4. \A k, l \in 1 .. Len(names) : names[k] = names[l] => k = l
    BY DEF NameInv
  <2>5. \A s \in Readers : got[s] \in Writers => Gone(got[s])
    BY <2>1 DEF NameInv
  <2>6. Gone(w)
    BY <1>3, <1>5, <2>1
  <2>7. \A s, u \in Readers : got[s] = got[u] /\ got[s] # NoName => s = u
    BY DEF NameInv
  <2> HIDE DEF Gone
  <2>8. \A k \in 1 .. Len(names') : k + 1 \in 1 .. Len(names) /\ k + 1 # 1
    BY <1>3
  <2>9. \A k \in 1 .. Len(names') : names'[k] # w
    <3> TAKE k \in 1 .. Len(names')
    <3>1. k + 1 \in 1 .. Len(names) /\ k + 1 # 1 /\ 1 \in 1 .. Len(names)
      BY <1>3, <2>8
    <3> QED
      BY <1>3, <2>4, <3>1
  <2>10. \A k, l \in 1 .. Len(names') : names'[k] = names'[l] => k = l
    <3> TAKE k, l \in 1 .. Len(names')
    <3>1. k + 1 = l + 1 => k = l
      BY <1>3
    <3> QED
      BY <1>3, <2>4, <2>8, <3>1
  <2>11. \A k \in 1 .. Len(names') : Gone(names'[k]) /\ \A s \in Readers : got'[s] # names'[k]
    BY <1>3, <1>4, <2>3, <2>8, <2>9
  <2>12. \A s \in Readers : got'[s] \in Writers => Gone(got'[s])
    BY <1>4, <2>5, <2>6
  <2>13. \A s, u \in Readers : got'[s] = got'[u] /\ got'[s] # NoName => s = u
    BY <1>4, <1>5, <2>7
  <2> USE DEF Gone
  <2> QED
    BY <2>10, <2>11, <2>12, <2>13 DEF NameInv, Unsent
<1>9. FlowInv'
  <2>1. ASSUME NEW v \in Writers, \A s \in Readers : got'[s] = v => Unopened(s)'
        PROVE  pos[v] = 0 /\ pipe[v] = <<>>
    <3>1. \A s \in Readers : got[s] = v => s # r
      BY <1>5
    <3>2. \A s \in Readers : got[s] = v => Unopened(s)
      BY <1>4, <2>1, <3>1 DEF Unopened
    <3> QED
      BY <3>2 DEF FlowInv
  <2>2. out[r] = <<>> /\ BeginningOf(out[r], w)
    <3>1. out[r] = <<>> /\ size[w] \in Nat
      BY <1>3, <1>5 DEF FlowInv, TypeOK
    <3> QED
      BY <3>1 DEF BeginningOf
  <2>3. \A s \in Readers : s # r /\ pc'[s] = "done" =>
          pc'[got[s]] \in {"killed", "sigpipe"} \/ Len(out[s]) = size[got[s]]
    <3>1. \A s \in Readers : pc[s] = "done" => got[s] \in Writers
      BY DEF PlaceInv
    <3> QED
      BY <1>4, <3>1 DEF FlowInv
  <2>4. ASSUME NEW s \in Readers
        PROVE  /\ got'[s] = NoName \/ Unopened(s)' => out[s] = <<>>
               /\ got'[s] \in Writers => BeginningOf(out[s], got'[s])
               /\ pc'[s] = "copy" =>
                    /\ Len(out[s]) + Len(pipe[got'[s]]) = pos[got'[s]]
                    /\ \A k \in 1 .. Len(pipe[got'[s]]) :
                         pipe[got'[s]][k] = <<got'[s], Len(out[s]) + k>>
               /\ pc'[s] = "done" =>
                    pc'[got'[s]] \in {"killed", "sigpipe"} \/ Len(out[s]) = size[got'[s]]
    <3>1. CASE s = r
      BY <1>4, <2>2, <3>1
    <3>2. CASE s # r
      <4>1. pc'[s] = pc[s] /\ got'[s] = got[s]
        BY <1>4, <3>2
      <4>2. /\ got[s] = NoName \/ Unopened(s) => out[s] = <<>>
            /\ got[s] \in Writers => BeginningOf(out[s], got[s])
            /\ pc[s] = "copy" =>
                 /\ Len(out[s]) + Len(pipe[got[s]]) = pos[got[s]]
                 /\ \A k \in 1 .. Len(pipe[got[s]]) :
                      pipe[got[s]][k] = <<got[s], Len(out[s]) + k>>
        BY DEF FlowInv
      <4>3. Unopened(s)' <=> Unopened(s)
        BY <4>1 DEF Unopened
      <4> QED
        BY <2>3, <3>2, <4>1, <4>2, <4>3
    <3> QED
      BY <3>1, <3>2
  <2>5. UNCHANGED <<size, pos, out, pipe>>
    BY <1>1
  <2> QED
    BY <2>1, <2>4, <2>5, ZenonT(40) DEF FlowInv, BeginningOf
<1> QED
  BY <1>6, <1>7, <1>8, <1>9
---------------------------------------------------------------------------
(***************************************************************************)
(* Blocks: a reader opens the pipe, one is written, one is read.           *)
(***************************************************************************)
\* The clauses of FlowInv for one reader.
Flow(r) ==
  /\ got[r] = NoName \/ Unopened(r) => out[r] = <<>>
  /\ got[r] \in Writers => BeginningOf(out[r], got[r])
  /\ pc[r] = "copy" =>
       /\ Len(out[r]) + Len(pipe[got[r]]) = pos[got[r]]
       /\ \A k \in 1 .. Len(pipe[got[r]]) : pipe[got[r]][k] = <<got[r], Len(out[r]) + k>>
  /\ pc[r] = "done" =>
       pc[got[r]] \in {"killed", "sigpipe"} \/ Len(out[r]) = size[got[r]]

LEMMA FlowParts ==
  FlowInv <=> /\ \A w \in Writers :
                   (\A r \in Readers : got[r] = w => Unopened(r)) => pos[w] = 0 /\ pipe[w] = <<>>
              /\ \A r \in Readers : Flow(r)
BY DEF FlowInv, Flow

LEMMA OpenDataInv ==
  ASSUME IInv, NEW r \in Readers, OpenData(r)
  PROVE  IInv'
<1> USE FifoAssumption DEF IInv
<1>1. /\ pc[r] = "open" /\ pc' = [pc EXCEPT ![r] = IF got[r] \in there THEN "copy" ELSE "failed"]
      /\ UNCHANGED <<size, pos, got, out, names, there, pipe>>
  BY DEF OpenData
<1>2. pc \in [Writers \cup Readers -> Place]
  BY DEF TypeOK, Place
<1>3. /\ pc' \in [Writers \cup Readers -> Place] /\ pc'[r] \in {"copy", "failed"}
      /\ \A q \in Writers \cup Readers : q # r => pc'[q] = pc[q]
  BY <1>1, <1>2 DEF Place
<1>4. TypeOK'
  BY <1>1, <1>3 DEF TypeOK, Place
<1>5. PlaceInv'
  BY <1>1, <1>3 DEF PlaceInv
<1>6. NameInv'
  <2>1. \A w \in Writers : pc'[w] = pc[w]
    BY <1>3
  <2>2. \A k \in 1 .. Len(names) : names[k] \in Writers
    BY DEF TypeOK
  <2> QED
    BY <1>1, <2>1, <2>2 DEF NameInv, Unsent
<1>7. got[r] \in Writers /\ \A s \in Readers : got[s] = got[r] => s = r
  BY <1>1 DEF PlaceInv, NameInv
<1>8. out[r] = <<>> /\ pos[got[r]] = 0 /\ pipe[got[r]] = <<>>
  BY <1>1, <1>7 DEF FlowInv, Unopened
<1>9. \A w \in Writers :
        (\A s \in Readers : got[s] = w => Unopened(s)') => pos[w] = 0 /\ pipe[w] = <<>>
  BY <1>1, <1>3, <1>7, <1>8 DEF FlowInv, Unopened
<1>10. ASSUME NEW s \in Readers PROVE Flow(s)'
  <2>1. Flow(s) /\ (BeginningOf(out[s], got[s])' <=> BeginningOf(out[s], got[s]))
    BY <1>1, FlowParts DEF BeginningOf
  <2>2. CASE s = r
    <3>1. /\ out'[r] = <<>> /\ pos'[got[r]] = 0 /\ pipe'[got[r]] = <<>> /\ got'[r] = got[r]
          /\ got[r] \in Writers /\ BeginningOf(out[r], got[r])' /\ got[r] # NoName
      BY <1>1, <1>7, <1>8, <2>1, <2>2 DEF Flow
    <3>2. pc'[r] # "done" /\ (pc'[r] = "copy" \/ Unopened(r)')
      BY <1>3 DEF Unopened
    <3> QED
      BY <2>2, <3>1, <3>2 DEF Flow
  <2>3. CASE s # r
    <3>1. pc'[s] = pc[s] /\ (got[s] \in Writers => pc'[got[s]] = pc[got[s]])
          /\ (pc[s] = "done" => got[s] \in Writers)
      BY <1>3, <2>3 DEF PlaceInv
    <3> QED
      BY <1>1, <2>1, <3>1 DEF Flow, Unopened
  <2> QED
    BY <2>2, <2>3
<1>11. FlowInv'
  BY <1>1, <1>9, <1>10 DEF FlowInv, Flow
<1> QED
  BY <1>4, <1>5, <1>6, <1>11

LEMMA WriteBlockInv ==
  ASSUME IInv, NEW w \in Writers, WriteBlock(w)
  PROVE  IInv'
<1> USE FifoAssumption
<1>1. CASE End(w, "sigpipe")
  <2>1. WriterMay(w)
    <3>1. pc'[w] = "sigpipe"
      BY <1>1 DEF End, IInv, TypeOK
    <3> QED
      BY <3>1 DEF WriterMay, Unsent
  <2> QED
    BY <1>1, <2>1, EndInv DEF Place
<1>2. CASE /\ DataReaders(name(w)) # {} /\ Len(pipe[name(w)]) < Room
           /\ pos' = [pos EXCEPT ![w] = @ + 1]
           /\ pipe' = [pipe EXCEPT ![name(w)] = Append(@, <<w, pos'[w]>>)]
           /\ UNCHANGED <<size, pc, got, out, names, there>>
  <2> USE DEF IInv
  <2>1. /\ pc[w] = "copy" /\ pos[w] < size[w] /\ DataReaders(w) # {} /\ Len(pipe[w]) < Room
        /\ pos' = [pos EXCEPT ![w] = @ + 1]
        /\ pipe' = [pipe EXCEPT ![w] = Append(@, <<w, pos'[w]>>)]
        /\ UNCHANGED <<size, pc, got, out, names, there>>
    BY <1>2 DEF WriteBlock, name
  <2>2. /\ pos \in [Writers -> Nat] /\ size[w] \in Nat
        /\ pipe \in [Writers -> Seq(Writers \X Nat)]
    BY DEF TypeOK
  <2>3. /\ pos' \in [Writers -> Nat] /\ pos'[w] = pos[w] + 1 /\ pos'[w] \in Nat
        /\ \A v \in Writers : v # w => pos'[v] = pos[v]
    BY <2>1, <2>2
  <2> DEFINE e == <<w, pos'[w]>>
  <2>4. /\ pipe[w] \in Seq(Writers \X Nat) /\ e \in Writers \X Nat
        /\ pipe'[w] = Append(pipe[w], e)
        /\ \A v \in Writers : v # w => pipe'[v] = pipe[v]
    BY <2>1, <2>2, <2>3
  <2> HIDE DEF e
  <2>5. /\ pipe'[w] \in Seq(Writers \X Nat) /\ Len(pipe[w]) \in Nat
        /\ Len(pipe'[w]) = Len(pipe[w]) + 1
        /\ \A k \in 1 .. Len(pipe[w]) : pipe'[w][k] = pipe[w][k]
        /\ pipe'[w][Len(pipe[w]) + 1] = e
    <3> HIDE DEF IInv
    <3> QED
      BY <2>4, AppendFacts
  <2>6. TypeOK'
    <3>1. pipe' \in [Writers -> Seq(Writers \X Nat)]
      BY <2>1, <2>2, <2>4, <2>5
    <3>2. \A v \in Writers : pos'[v] <= size[v]
      BY <2>1, <2>2, <2>3 DEF TypeOK
    <3>3. \A v \in Writers : Len(pipe'[v]) <= Room
      BY <2>1, <2>4, <2>5 DEF TypeOK
    <3> QED
      BY <2>1, <2>3, <3>1, <3>2, <3>3 DEF TypeOK
  <2>7. PlaceInv'
    BY <2>1, <2>3 DEF PlaceInv
  <2>8. NameInv'
    BY <2>1 DEF NameInv, Unsent
  <2>9. PICK r \in Readers : got[r] = w /\ pc[r] = "copy"
    BY <2>1 DEF DataReaders
  <2>10. \A s \in Readers : got[s] = w => s = r
    BY <2>9 DEF NameInv
  <2>11. \A v \in Writers :
           (\A s \in Readers : got[s] = v => Unopened(s)) => pos'[v] = 0 /\ pipe'[v] = <<>>
    <3> TAKE v \in Writers
    <3>1. CASE v = w
      BY <2>9, <3>1 DEF Unopened
    <3>2. CASE v # w
      BY <2>3, <2>4, <3>2 DEF FlowInv
    <3> QED
      BY <3>1, <3>2
  <2>12. ASSUME NEW s \in Readers PROVE Flow(s)'
    <3>1. Flow(s) /\ (BeginningOf(out[s], got[s])' <=> BeginningOf(out[s], got[s]))
      BY <2>1, FlowParts DEF BeginningOf
    <3>2. CASE s = r
      <4>1. /\ Len(out[r]) + Len(pipe[w]) = pos[w]
            /\ \A k \in 1 .. Len(pipe[w]) : pipe[w][k] = <<w, Len(out[r]) + k>>
        <5>1. Flow(r) /\ pc[r] = "copy" /\ got[r] = w
          BY <2>9, <3>1, <3>2
        <5> HIDE DEF IInv
        <5> QED
          BY <5>1, Zenon DEF Flow
      <4>2. Len(out[r]) + Len(pipe'[w]) = pos'[w]
        <5>1. out \in [Readers -> Seq(Writers \X Nat)] /\ w \in Writers /\ r \in Readers
          BY DEF TypeOK
        <5>2. Len(pipe'[w]) = Len(pipe[w]) + 1 /\ pos'[w] = pos[w] + 1
          BY <2>3, <2>5
        <5>3. Len(out[r]) + (Len(pipe[w]) + 1) = pos[w] + 1
          BY <2>2, <4>1, <5>1
        <5> QED
          BY <5>2, <5>3, Zenon
      <4>3. ASSUME NEW k \in 1 .. Len(pipe'[w]) PROVE pipe'[w][k] = <<w, Len(out[r]) + k>>
        <5>1. CASE k \in 1 .. Len(pipe[w])
          BY <2>5, <4>1, <5>1
        <5>2. CASE k = Len(pipe[w]) + 1
          <6>1. Len(out[r]) + k = pos'[w]
            BY <2>5, <4>2, <5>2
          <6>2. pipe'[w][k] = <<w, pos'[w]>>
            BY <2>5, <5>2 DEF e
          <6> QED
            BY <6>1, <6>2
        <5> QED
          BY <2>5, <5>1, <5>2
      <4> QED
        BY <2>1, <2>9, <3>1, <3>2, <4>2, <4>3 DEF Flow, Unopened
    <3>3. CASE s # r
      <4>1. got[s] # w /\ (pc[s] = "copy" => got[s] \in Writers)
        BY <2>10, <3>3 DEF PlaceInv
      <4>2. pc[s] = "copy" => pipe'[got[s]] = pipe[got[s]] /\ pos'[got[s]] = pos[got[s]]
        BY <2>3, <2>4, <4>1
      <4> QED
        BY <2>1, <3>1, <4>2 DEF Flow, Unopened
    <3> QED
      BY <3>2, <3>3
  <2>13. FlowInv'
    BY <2>1, <2>11, <2>12 DEF FlowInv, Flow, Unopened
  <2> QED
    BY <2>6, <2>7, <2>8, <2>13
<1> QED
  BY <1>1, <1>2 DEF WriteBlock

LEMMA ReadBlockInv ==
  ASSUME IInv, NEW r \in Readers, ReadBlock(r)
  PROVE  IInv'
<1> USE FifoAssumption DEF IInv
<1> DEFINE w == got[r]
           e == Head(pipe[w])
<1>1. /\ pc[r] = "copy" /\ pipe[w] # <<>>
      /\ out' = [out EXCEPT ![r] = Append(@, e)] /\ pipe' = [pipe EXCEPT ![w] = Tail(@)]
      /\ UNCHANGED <<size, pc, pos, got, names, there>>
  BY DEF ReadBlock
<1>2. w \in Writers /\ \A s \in Readers : got[s] = w => s = r
  BY <1>1 DEF PlaceInv, NameInv
<1> HIDE DEF w
<1>3. /\ pos \in [Writers -> Nat] /\ pipe \in [Writers -> Seq(Writers \X Nat)]
      /\ out \in [Readers -> Seq(Writers \X Nat)] /\ size \in [Writers -> Nat]
  BY DEF TypeOK
<1>4. /\ pipe[w] \in Seq(Writers \X Nat) /\ out[r] \in Seq(Writers \X Nat)
      /\ pipe'[w] = Tail(pipe[w]) /\ out'[r] = Append(out[r], e)
      /\ \A v \in Writers : v # w => pipe'[v] = pipe[v]
      /\ \A s \in Readers : s # r => out'[s] = out[s]
  BY <1>1, <1>2, <1>3
<1>5. /\ pipe'[w] \in Seq(Writers \X Nat) /\ Len(pipe[w]) \in Nat \ {0}
      /\ Len(pipe'[w]) = Len(pipe[w]) - 1 /\ e = pipe[w][1] /\ e \in Writers \X Nat
      /\ \A k \in 1 .. Len(pipe[w]) - 1 : pipe'[w][k] = pipe[w][k + 1]
  <2> DEFINE q == pipe[w]
  <2>1. q \in Seq(Writers \X Nat) /\ q # <<>>
    BY <1>1, <1>4
  <2>2. pipe'[w] = Tail(q) /\ e = Head(q) /\ q = pipe[w]
    BY <1>4
  <2> HIDE DEF q, e, IInv
  <2>3. /\ Tail(q) \in Seq(Writers \X Nat) /\ Len(q) \in Nat \ {0} /\ Len(Tail(q)) = Len(q) - 1
        /\ Head(q) = q[1] /\ Head(q) \in Writers \X Nat
        /\ \A k \in 1 .. Len(q) - 1 : Tail(q)[k] = q[k + 1]
    BY <2>1, TailFacts
  <2> QED
    BY <2>2, <2>3
<1> HIDE DEF e
<1>6. /\ out'[r] \in Seq(Writers \X Nat) /\ Len(out[r]) \in Nat /\ Len(out'[r]) = Len(out[r]) + 1
      /\ \A k \in 1 .. Len(out[r]) : out'[r][k] = out[r][k]
      /\ out'[r][Len(out[r]) + 1] = e
  <2> HIDE DEF IInv
  <2> QED
    BY <1>4, <1>5, AppendFacts
<1>7. TypeOK'
  <2>1. pipe' \in [Writers -> Seq(Writers \X Nat)] /\ out' \in [Readers -> Seq(Writers \X Nat)]
    BY <1>1, <1>3, <1>4, <1>5, <1>6
  <2>2. \A v \in Writers : Len(pipe'[v]) <= Room
    <3> TAKE v \in Writers
    <3>1. CASE v = w
      <4>1. Len(pipe[w]) <= Room
        BY <1>2 DEF TypeOK
      <4> QED
        BY <1>5, <3>1, <4>1
    <3>2. CASE v # w
      BY <1>4, <3>2 DEF TypeOK
    <3> QED
      BY <3>1, <3>2
  <2> QED
    BY <1>1, <2>1, <2>2 DEF TypeOK
<1>8. PlaceInv'
  BY <1>1 DEF PlaceInv
<1>9. NameInv'
  BY <1>1 DEF NameInv, Unsent
<1>10. /\ Len(out[r]) + Len(pipe[w]) = pos[w] /\ pos[w] <= size[w]
       /\ \A k \in 1 .. Len(pipe[w]) : pipe[w][k] = <<w, Len(out[r]) + k>>
       /\ BeginningOf(out[r], w)
  BY <1>1, <1>2 DEF FlowInv, TypeOK, w
<1>11. e = <<w, Len(out[r]) + 1>>
  BY <1>5, <1>10
<1>12. \A v \in Writers :
         (\A s \in Readers : got[s] = v => Unopened(s)) => pos[v] = 0 /\ pipe'[v] = <<>>
  <2> TAKE v \in Writers
  <2>1. CASE v = w
    BY <1>1, <2>1 DEF Unopened, w
  <2>2. CASE v # w
    BY <1>4, <2>2 DEF FlowInv
  <2> QED
    BY <2>1, <2>2
<1>13. BeginningOf(out'[r], w)
  <2>1. Len(out'[r]) <= size[w]
    BY <1>2, <1>3, <1>5, <1>6, <1>10
  <2>2. ASSUME NEW k \in 1 .. Len(out'[r]) PROVE out'[r][k] = <<w, k>>
    <3>1. CASE k \in 1 .. Len(out[r])
      BY <1>6, <1>10, <3>1 DEF BeginningOf
    <3>2. CASE k = Len(out[r]) + 1
      BY <1>6, <1>11, <3>2
    <3> QED
      BY <1>6, <3>1, <3>2
  <2> QED
    BY <2>1, <2>2 DEF BeginningOf
<1>14. Len(out'[r]) + Len(pipe'[w]) = pos[w]
  BY <1>2, <1>3, <1>5, <1>6, <1>10
<1>15. ASSUME NEW k \in 1 .. Len(pipe'[w]) PROVE pipe'[w][k] = <<w, Len(out'[r]) + k>>
  <2>1. k \in 1 .. Len(pipe[w]) - 1 /\ k + 1 \in 1 .. Len(pipe[w])
    BY <1>5
  <2>2. pipe'[w][k] = <<w, Len(out[r]) + (k + 1)>>
    BY <1>5, <1>10, <2>1
  <2>3. Len(out[r]) + (k + 1) = Len(out'[r]) + k
    <3>1. Len(out[r]) + (k + 1) = (Len(out[r]) + 1) + k
      BY <1>3, <2>1
    <3> QED
      BY <1>6, <3>1, Zenon
  <2> QED
    BY <2>2, <2>3
<1>16. ASSUME NEW s \in Readers PROVE Flow(s)'
  <2>1. CASE s = r
    <3>1. BeginningOf(out[r], got[r])'
      BY <1>1, <1>13 DEF BeginningOf, w
    <3>2. /\ got[r] = w /\ got'[r] = w /\ w \in Writers /\ w # NoName /\ pc'[r] = "copy"
          /\ ~Unopened(r)' /\ pos' = pos
      BY <1>1, <1>2 DEF Unopened, w
    <3>3. Len(out'[r]) + Len(pipe'[got'[r]]) = pos'[got'[r]]
      BY <1>14, <3>2, Zenon
    <3>4. \A k \in 1 .. Len(pipe'[got'[r]]) : pipe'[got'[r]][k] = <<got'[r], Len(out'[r]) + k>>
      BY <1>15, <3>2, Zenon
    <3>5. Flow(r)'
      BY <3>1, <3>2, <3>3, <3>4, Zenon DEF Flow
    <3> QED
      BY <2>1, <3>5, Zenon
  <2>2. CASE s # r
    <3>1. Flow(s) /\ (BeginningOf(out[s], got[s])' <=> BeginningOf(out[s], got[s]))
      BY <1>1, <1>4, <2>2, FlowParts DEF BeginningOf
    <3>2. got[s] # w /\ (pc[s] = "copy" => got[s] \in Writers)
      BY <1>2, <2>2 DEF PlaceInv
    <3>3. pc[s] = "copy" => pipe'[got[s]] = pipe[got[s]]
      BY <1>4, <3>2
    <3>4. out'[s] = out[s] /\ pc' = pc /\ got' = got /\ pos' = pos /\ size' = size
      BY <1>1, <1>4, <2>2
    <3>5. BeginningOf(out[s], got[s])' <=> BeginningOf(out[s], got[s])
      BY <3>1
    <3>6. /\ got[s] = NoName \/ Unopened(s) => out[s] = <<>>
          /\ got[s] \in Writers => BeginningOf(out[s], got[s])
          /\ pc[s] = "copy" =>
               /\ Len(out[s]) + Len(pipe'[got[s]]) = pos[got[s]]
               /\ \A k \in 1 .. Len(pipe'[got[s]]) :
                    pipe'[got[s]][k] = <<got[s], Len(out[s]) + k>>
          /\ pc[s] = "done" =>
               pc[got[s]] \in {"killed", "sigpipe"} \/ Len(out[s]) = size[got[s]]
      BY <3>1, <3>3 DEF Flow
    <3>7. Unopened(s)' <=> Unopened(s)
      BY <3>4 DEF Unopened
    <3> QED
      BY <3>4, <3>5, <3>6, <3>7, Zenon DEF Flow
  <2> QED
    BY <2>1, <2>2
<1>17. FlowInv'
  BY <1>1, <1>12, <1>16 DEF FlowInv, Flow, Unopened
<1> QED
  BY <1>7, <1>8, <1>9, <1>17

\* The end of the pipe is the end of the file: the writer has sent all of it, or
\* came to a sudden end.
LEMMA ReadEndInv ==
  ASSUME IInv, NEW r \in Readers, ReadEnd(r)
  PROVE  IInv'
<1> USE FifoAssumption DEF IInv
<1> DEFINE w == got[r]
<1>1. pc[r] = "copy" /\ pipe[w] = <<>> /\ DataWriters(w) = {} /\ End(r, "done")
  BY DEF ReadEnd
<1>2. w \in Writers /\ Len(out[r]) + Len(pipe[w]) = pos[w] /\ ~Unsent(w)
  BY <1>1 DEF PlaceInv, FlowInv, NameInv
<1>3. out \in [Readers -> Seq(Writers \X Nat)] /\ pos \in [Writers -> Nat]
  BY DEF TypeOK
<1>4. Len(out[r]) = pos[w]
  <2>1. Len(pipe[w]) = 0
    BY <1>1
  <2> HIDE DEF w, IInv
  <2> QED
    BY <1>2, <1>3, <2>1
<1>5. Ended(w) \/ pc[w] = "unlink"
  <2>1. pc[w] \in {"start", "unlink"} \/ Ended(w)
    BY <1>1, <1>2 DEF DataWriters, name
  <2> QED
    BY <1>2, <2>1 DEF Unsent
<1>6. pc[w] \in {"killed", "sigpipe"} \/ pos[w] = size[w]
  BY <1>2, <1>5 DEF Ended, PlaceInv
<1>7. pc'[r] = "done"
  BY <1>1 DEF End, TypeOK
<1>8. ReaderMay(r)
  BY <1>2, <1>4, <1>6, <1>7 DEF ReaderMay
<1> QED
  BY <1>1, <1>8, EndInv DEF Place

LEMMA KillInv ==
  ASSUME IInv, NEW p \in Writers \cup Readers, Kill(p)
  PROVE  IInv'
<1>1. pc \in [Writers \cup Readers -> Place] /\ ~Ended(p) /\ End(p, "killed")
  BY DEF Kill, IInv, TypeOK, Place
<1>2. pc'[p] = "killed"
  BY <1>1 DEF End
<1>3. p \in Writers => WriterMay(p)
  BY <1>2 DEF WriterMay, Unsent
<1>4. p \in Readers => ReaderMay(p)
  BY <1>2 DEF ReaderMay
<1> QED
  BY <1>1, <1>3, <1>4, EndInv DEF Place
---------------------------------------------------------------------------
(***************************************************************************)
(* Every step keeps the invariant.                                         *)
(***************************************************************************)
LEMMA WriterInv ==
  ASSUME IInv, NEW w \in Writers, Writer(w)
  PROVE  IInv'
<1> USE FifoAssumption
<1>1. pc \in [Writers \cup Readers -> Place] /\ there \subseteq Writers
  BY DEF IInv, TypeOK, Place
<1>2. CASE Create(w)
  <2>1. pc' = [pc EXCEPT ![w] = "sync"] /\ WriterMay(w)
    BY <1>1, <1>2 DEF Create, WriterMay, Unsent
  <2>2. there' \subseteq Writers
    BY <1>1, <1>2 DEF Create, name
  <2> QED
    BY <1>2, <2>1, <2>2, WriterMoves DEF Create, Place
<1>3. CASE OpenSyncWriting(w)
  BY <1>3, OpenSyncInv DEF OpenSyncWriting
<1>4. CASE CloseSyncWriting(w)
  <2>1. pc[w] = "close" /\ End(w, "sleep") /\ pc'[w] = "sleep"
    BY <1>1, <1>4 DEF CloseSyncWriting, End
  <2>2. WriterMay(w)
    BY <2>1 DEF WriterMay, Unsent
  <2> QED
    BY <2>1, <2>2, EndInv DEF Place
<1>5. CASE Sleep(w)
  <2>1. pc' = [pc EXCEPT ![w] = "copy"] /\ WriterMay(w)
    BY <1>1, <1>5 DEF Sleep, WriterMay, Unsent
  <2> QED
    BY <1>1, <1>5, <2>1, WriterMoves DEF Sleep, Place
<1>6. CASE CloseData(w)
  <2>1. pc[w] = "copy" /\ pos[w] = size[w] /\ End(w, "unlink") /\ pc'[w] = "unlink"
    BY <1>1, <1>6 DEF CloseData, End
  <2>2. WriterMay(w)
    BY <2>1 DEF WriterMay, Unsent
  <2> QED
    BY <2>1, <2>2, EndInv DEF Place
<1>7. CASE Unlink(w)
  <2>1. pc' = [pc EXCEPT ![w] = "done"] /\ pos[w] = size[w] /\ WriterMay(w)
    BY <1>1, <1>7 DEF Unlink, WriterMay, Unsent, IInv, PlaceInv
  <2>2. there' \subseteq Writers
    BY <1>1, <1>7 DEF Unlink
  <2> QED
    BY <1>7, <2>1, <2>2, WriterMoves DEF Unlink, Place
<1> QED
  BY <1>2, <1>3, <1>4, <1>5, <1>6, <1>7, WriteNameInv, WriteBlockInv DEF Writer

LEMMA ReaderInv ==
  ASSUME IInv, NEW r \in Readers, Reader(r)
  PROVE  IInv'
<1> USE FifoAssumption
<1>1. CASE OpenSyncReading(r)
  BY <1>1, OpenSyncInv DEF OpenSyncReading
<1>2. CASE CloseSyncReading(r)
  <2>1. pc[r] = "close" /\ End(r, "open") /\ pc'[r] = "open"
    BY <1>2 DEF CloseSyncReading, End, IInv, TypeOK
  <2>2. ReaderMay(r)
    BY <2>1 DEF ReaderMay
  <2> QED
    BY <2>1, <2>2, EndInv DEF Place
<1> QED
  BY <1>1, <1>2, ReadNameInv, OpenDataInv, ReadBlockInv, ReadEndInv DEF Reader

\* The invariant holds in every state the processes reach.
THEOREM Inductive == Spec => []IInv
<1>1. IInv /\ [Next]_vars => IInv'
  <2> SUFFICES ASSUME IInv, [Next]_vars PROVE IInv'
    OBVIOUS
  <2>1. CASE UNCHANGED vars
    <3>1. /\ UNCHANGED <<size, pos, got, out, names, pipe, pc, there>>
          /\ there \subseteq Writers /\ pc \in [Writers \cup Readers -> Place]
      BY <2>1 DEF vars, IInv, TypeOK, Place
    <3>2. \A w \in Writers : WriterMay(w)
      BY <3>1 DEF WriterMay, IInv, PlaceInv, Unsent
    <3>3. \A r \in Readers : ReaderMay(r)
      BY <3>1 DEF ReaderMay
    <3> QED
      BY <3>1, <3>2, <3>3, MoveInv
  <2> QED
    BY <2>1, WriterInv, ReaderInv, KillInv DEF Next
<1> QED
  BY <1>1, InitInv, PTL DEF Spec

\* Whatever the files, the size of the pipes and the order in which writers and
\* readers are started and killed: what a reader writes is a beginning of one file,
\* and no two readers share one.
THEOREM OneFileHolds == Spec => []OneFile
<1>1. IInv => OneFile
  <2> SUFFICES ASSUME IInv PROVE OneFile
    OBVIOUS
  <2>1. ASSUME NEW r \in Readers, out[r] # <<>>
        PROVE  got[r] \in Writers /\ BeginningOf(out[r], got[r])
    BY <2>1 DEF IInv, TypeOK, FlowInv
  <2> QED
    BY <2>1 DEF OneFile, IInv, NameInv
<1> QED
  BY <1>1, Inductive, PTL

\* And a reader that ends by itself has the whole file, or its writer had no end.
THEOREM WholeHolds == Spec => []Whole
<1>1. IInv => Whole
  <2> SUFFICES ASSUME IInv PROVE Whole
    OBVIOUS
  <2> USE FifoAssumption DEF IInv
  <2>1. \A r \in Readers : pc[r] = "done" =>
          pc[got[r]] \in {"killed", "sigpipe"} \/ Len(out[r]) = size[got[r]]
    BY DEF FlowInv
  <2>2. ASSUME NEW w \in Writers, pc[w] = "done", size[w] > 0
        PROVE  \E r \in Readers :
                 /\ got[r] = w
                 /\ \/ pc[r] \in {"killed", "done"}
                    \/ pc[r] = "copy" /\ Len(out[r]) + Len(pipe[w]) = size[w]
    <3>1. pos[w] = size[w] /\ pos[w] # 0
      BY <2>2 DEF PlaceInv, TypeOK
    <3>2. PICK r \in Readers : got[r] = w /\ ~Unopened(r)
      BY <3>1 DEF FlowInv
    <3>3. pc[r] \in {"copy", "killed", "done"}
      BY <3>2 DEF PlaceInv, TypeOK, Unopened
    <3>4. pc[r] = "copy" => Len(out[r]) + Len(pipe[w]) = size[w]
      BY <3>1, <3>2 DEF FlowInv
    <3> QED
      BY <3>2, <3>3, <3>4
  <2> QED
    BY <2>1, <2>2 DEF Whole
<1> QED
  BY <1>1, Inductive, PTL
=============================================================================

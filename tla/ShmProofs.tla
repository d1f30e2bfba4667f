----------------------------- MODULE ShmProofs -----------------------------
(***************************************************************************)
(* Theorems about ShmSems, for any number of writers, any files and any    *)
(* number of kills; those about who meets whom are for one reader.         *)
(***************************************************************************)
EXTENDS ShmSems, FiniteSetTheorems, SequenceTheorems, TLAPS

---------------------------------------------------------------------------
(***************************************************************************)
(* What the calls of semop do.                                             *)
(***************************************************************************)
LEMMA ProcFacts ==
  ASSUME NEW p \in Procs
  PROVE  /\ Own(p) \in {"WR", "RD"} /\ Peer(p) \in {"WR", "RD"} /\ Own(p) # Peer(p)
         /\ p \in Writers => Own(p) = "WR" /\ Peer(p) = "RD" /\ p \notin Readers
         /\ p \in Readers => Own(p) = "RD" /\ Peer(p) = "WR" /\ p \notin Writers
BY ShmAssumption DEF Own, Peer, Procs

LEMMA CallFacts ==
  ASSUME TypeOK, NEW p \in Procs
  PROVE  /\ val \in [Sem -> Nat] /\ adj \in [Procs -> [Sem -> {0, -2}]]
         /\ adj[p] \in [Sem -> {0, -2}]
         /\ "SHM" \in Sem /\ Own(p) \in Sem /\ Peer(p) \in Sem /\ Peer(p) # "SHM"
         /\ [adj EXCEPT ![p] = adj[p]] = adj
BY ProcFacts DEF TypeOK, Sem

\* One operation: an undone call stays as it is, and one that would make the caller
\* wait leaves the call undone.
LEMMA TryUndone ==
  ASSUME NEW call, NEW o, call.result # "done"
  PROVE  Try(call, o) = call
BY DEF Try

LEMMA TryStuck ==
  ASSUME NEW v, NEW a, NEW o, Stuck(v, o)
  PROVE  Try([val |-> v, adj |-> a, result |-> "done"], o).result # "done"
BY DEF Try

\* The entry: nobody of this kind is inside, and two units are left.
LEMMA EnterCall ==
  ASSUME TypeOK, NEW p \in Procs, Done(p, EnterOps(Own(p)), "pair")
  PROVE  /\ val[Own(p)] = 0
         /\ val' = [val EXCEPT ![Own(p)] = 2]
         /\ adj' = [adj EXCEPT ![p] = [adj[p] EXCEPT ![Own(p)] = adj[p][Own(p)] - 2]]
         /\ pc' = [pc EXCEPT ![p] = "pair"]
<1> DEFINE s == Own(p)
           a == adj[p]
<1>1. s \in Sem /\ val \in [Sem -> Nat] /\ a \in [Sem -> {0, -2}]
  BY CallFacts
<1>2. Semop(val, a, EnterOps(s)).result = "done"
  BY DEF Done
<1>3. val' = Semop(val, a, EnterOps(s)).val /\ adj' = [adj EXCEPT ![p] = Semop(val, a, EnterOps(s)).adj]
      /\ pc' = [pc EXCEPT ![p] = "pair"]
  BY DEF Done, Goto
<1> HIDE DEF s, a
<1> DEFINE c0 == [val |-> val, adj |-> a, result |-> "done"]
           c1 == Try(c0, Sop(s, 0, TRUE, FALSE))
<1>9. Semop(val, a, EnterOps(s)) = Try(c1, Sop(s, 2, FALSE, TRUE))
  BY DEF Semop, EnterOps
<1>10. c1.result = "done"
  <2> HIDE DEF c1
  <2> QED
    BY <1>2, <1>9, TryUndone
<1>4. val[s] = 0
  <2>1. ~Stuck(val, Sop(s, 0, TRUE, FALSE))
    BY <1>10, TryStuck
  <2> QED
    BY <2>1 DEF Stuck, Sop
<1>5. [val EXCEPT ![s] = val[s] + 0] = val
  BY <1>1
<1>6. Semop(val, a, EnterOps(s)) = Try([val |-> val, adj |-> a, result |-> "done"], Sop(s, 2, FALSE, TRUE))
  <2>1. c1 = c0
    BY <1>1, <1>4, <1>5 DEF Try, Stuck, Sop
  <2> QED
    BY <1>9, <2>1
<1>7. /\ Semop(val, a, EnterOps(s)).val = [val EXCEPT ![s] = val[s] + 2]
      /\ Semop(val, a, EnterOps(s)).adj = [a EXCEPT ![s] = a[s] - 2]
  BY <1>1, <1>4, <1>6 DEF Try, Stuck, Sop
<1>8. [val EXCEPT ![s] = val[s] + 2] = [val EXCEPT ![s] = 2]
  BY <1>4
<1> QED
  BY <1>3, <1>4, <1>7, <1>8 DEF s, a

\* One of the peer's units is taken for good.
LEMMA PairCall ==
  ASSUME TypeOK, NEW p \in Procs, Done(p, PairOps(Peer(p)), "guard")
  PROVE  /\ val[Peer(p)] >= 1
         /\ val' = [val EXCEPT ![Peer(p)] = @ - 1]
         /\ UNCHANGED adj
         /\ pc' = [pc EXCEPT ![p] = "guard"]
<1> DEFINE s == Peer(p)
           a == adj[p]
           call == Semop(val, a, PairOps(s))
<1>1. s \in Sem /\ val \in [Sem -> Nat] /\ a \in [Sem -> {0, -2}] /\ [adj EXCEPT ![p] = a] = adj
  BY CallFacts
<1>2. call.result = "done"
  BY DEF Done
<1>3. val' = call.val /\ adj' = [adj EXCEPT ![p] = call.adj] /\ pc' = [pc EXCEPT ![p] = "guard"]
  BY DEF Done, Goto
<1> HIDE DEF s, a
<1>4. val[s] >= 1
  BY <1>1, <1>2 DEF Semop, PairOps, Try, Stuck, Sop
<1>7. call = Try([val |-> val, adj |-> a, result |-> "done"], Sop(s, -1, FALSE, FALSE))
  BY DEF Semop, PairOps
<1> HIDE DEF call
<1>5. call.val = [val EXCEPT ![s] = val[s] + (-1)] /\ call.adj = a
  BY <1>1, <1>4, <1>7 DEF Try, Stuck, Sop
<1>6. [val EXCEPT ![s] = val[s] + (-1)] = [val EXCEPT ![s] = val[s] - 1]
  BY <1>1
<1> QED
  BY <1>1, <1>3, <1>4, <1>5, <1>6 DEF s, a

\* The guard changes nothing but what the exit does to SHM.
LEMMA GuardCall ==
  ASSUME TypeOK, NEW p \in Procs, Done(p, GuardOps, "check")
  PROVE  /\ UNCHANGED val
         /\ adj' = [adj EXCEPT ![p] = [adj[p] EXCEPT !["SHM"] = adj[p]["SHM"] - 2]]
         /\ pc' = [pc EXCEPT ![p] = "check"]
<1> DEFINE a == adj[p]
           b == [a EXCEPT !["SHM"] = a["SHM"] - 2]
           v == [val EXCEPT !["SHM"] = val["SHM"] + 2]
           w == [v EXCEPT !["SHM"] = v["SHM"] + (-2)]
           c1 == Try([val |-> val, adj |-> a, result |-> "done"], Sop("SHM", 2, FALSE, TRUE))
           c2 == Try(c1, Sop("SHM", -2, FALSE, FALSE))
<1>1. val \in [Sem -> Nat] /\ a \in [Sem -> {0, -2}] /\ "SHM" \in Sem
  BY CallFacts
<1>2. val' = Semop(val, a, GuardOps).val /\ adj' = [adj EXCEPT ![p] = Semop(val, a, GuardOps).adj]
      /\ pc' = [pc EXCEPT ![p] = "check"]
  BY DEF Done, Goto
<1> HIDE DEF a
<1>3. Semop(val, a, GuardOps) = c2
  BY DEF Semop, GuardOps
<1>4. c1 = [val |-> v, adj |-> b, result |-> "done"]
  BY <1>1 DEF Try, Stuck, Sop
<1>5. v \in [Sem -> Int] /\ v["SHM"] = val["SHM"] + 2 /\ \A x \in Sem : x # "SHM" => v[x] = val[x]
  BY <1>1
<1> HIDE DEF c1, v, b
<1>6. w = val
  <2>1. w \in [Sem -> Int] /\ \A x \in Sem : w[x] = val[x]
    BY <1>1, <1>5
  <2> HIDE DEF w
  <2> QED
    BY <1>1, <2>1
<1>7. c2 = [val |-> w, adj |-> b, result |-> "done"]
  <2>1. v["SHM"] + (-2) >= 0
    BY <1>1, <1>5
  <2> QED
    BY <1>1, <1>4, <1>5, <2>1 DEF Try, Stuck, Sop
<1> HIDE DEF c2, w
<1> QED
  BY <1>2, <1>3, <1>6, <1>7 DEF a, b

\* The head of either loop: the peer has a unit left; the last operation is d on SHM.
LEMMA CheckCall ==
  ASSUME TypeOK, NEW p \in Procs, NEW d \in {0, -1}, NEW place, Done(p, CheckOps(Peer(p), d), place)
  PROVE  /\ val[Peer(p)] >= 1
         /\ IF d = 0 THEN val["SHM"] = 0 ELSE val["SHM"] >= 1
         /\ val' = [val EXCEPT !["SHM"] = @ + d]
         /\ UNCHANGED adj
         /\ pc' = [pc EXCEPT ![p] = place]
<1> DEFINE s == Peer(p)
           a == adj[p]
           call == Semop(val, a, CheckOps(s, d))
<1>1. /\ s \in Sem /\ val \in [Sem -> Nat] /\ a \in [Sem -> {0, -2}] /\ "SHM" \in Sem /\ s # "SHM"
      /\ [adj EXCEPT ![p] = a] = adj
  BY CallFacts
<1>2. call.result = "done"
  BY DEF Done
<1>3. val' = call.val /\ adj' = [adj EXCEPT ![p] = call.adj] /\ pc' = [pc EXCEPT ![p] = place]
  BY DEF Done, Goto
<1> HIDE DEF s, a
<1> DEFINE c0 == [val |-> val, adj |-> a, result |-> "done"]
           c1 == Try(c0, Sop(s, -1, TRUE, FALSE))
           c2 == Try(c1, Sop(s, 1, FALSE, FALSE))
<1>7. call = Try(c2, Sop("SHM", d, FALSE, FALSE))
  BY DEF Semop, CheckOps
<1>9. c1.result = "done"
  <2> HIDE DEF c1
  <2>1. c2.result = "done"
    <3> HIDE DEF c2, call
    <3> QED
      BY <1>2, <1>7, TryUndone
  <2> QED
    BY <2>1, TryUndone
<1>4. val[s] >= 1
  <2>1. ~Stuck(val, Sop(s, -1, TRUE, FALSE))
    BY <1>9, TryStuck
  <2> QED
    BY <1>1, <2>1 DEF Stuck, Sop
<1> DEFINE v == [val EXCEPT ![s] = val[s] + (-1)]
           w == [v EXCEPT ![s] = v[s] + 1]
<1>5. w = val
  <2>1. v \in [Sem -> Int] /\ v[s] = val[s] + (-1) /\ \A x \in Sem : x # s => v[x] = val[x]
    BY <1>1
  <2> HIDE DEF v
  <2>2. w \in [Sem -> Int] /\ \A x \in Sem : w[x] = val[x]
    BY <1>1, <2>1
  <2> HIDE DEF w
  <2> QED
    BY <1>1, <2>2
<1>8. c2 = c0
  <2>1. c1 = [val |-> v, adj |-> a, result |-> "done"]
    BY <1>1, <1>4 DEF Try, Stuck, Sop
  <2>2. v[s] + 1 >= 0 /\ v \in [Sem -> Int] /\ s \in Sem
    BY <1>1, <1>4
  <2> HIDE DEF c1, v
  <2>3. c2 = [val |-> w, adj |-> a, result |-> "done"]
    BY <2>1, <2>2 DEF Try, Stuck, Sop
  <2> HIDE DEF w, c2
  <2> QED
    BY <1>5, <2>3
<1>10. call = Try([val |-> val, adj |-> a, result |-> "done"], Sop("SHM", d, FALSE, FALSE))
  BY <1>7, <1>8
<1> HIDE DEF call
<1>6. IF d = 0 THEN val["SHM"] = 0 ELSE val["SHM"] >= 1
  <2>1. ~Stuck(val, Sop("SHM", d, FALSE, FALSE))
    BY <1>2, <1>10, TryStuck
  <2> QED
    BY <1>1, <2>1 DEF Stuck, Sop
<1>11. call.val = [val EXCEPT !["SHM"] = @ + d] /\ call.adj = a
  BY <1>1, <1>6, <1>10 DEF Try, Stuck, Sop
<1> QED
  BY <1>1, <1>3, <1>4, <1>6, <1>11 DEF s, a

\* The posts of the writer and of the reader.
LEMMA ShmCall ==
  ASSUME TypeOK, NEW p \in Procs, NEW d \in {2, -1}, NEW place,
         Done(p, <<Sop("SHM", d, FALSE, FALSE)>>, place)
  PROVE  /\ val["SHM"] + d >= 0
         /\ val' = [val EXCEPT !["SHM"] = @ + d]
         /\ UNCHANGED adj
         /\ pc' = [pc EXCEPT ![p] = place]
<1> DEFINE a == adj[p]
           call == Semop(val, a, <<Sop("SHM", d, FALSE, FALSE)>>)
<1>1. /\ val \in [Sem -> Nat] /\ a \in [Sem -> {0, -2}] /\ "SHM" \in Sem
      /\ [adj EXCEPT ![p] = a] = adj
  BY CallFacts
<1>2. call.result = "done"
  BY DEF Done
<1>3. val' = call.val /\ adj' = [adj EXCEPT ![p] = call.adj] /\ pc' = [pc EXCEPT ![p] = place]
  BY DEF Done, Goto
<1> HIDE DEF a
<1>4. val["SHM"] + d >= 0
  BY <1>1, <1>2 DEF Semop, Try, Stuck, Sop
<1>6. call = Try([val |-> val, adj |-> a, result |-> "done"], Sop("SHM", d, FALSE, FALSE))
  BY DEF Semop
<1> HIDE DEF call
<1>5. call.val = [val EXCEPT !["SHM"] = val["SHM"] + d] /\ call.adj = a
  BY <1>1, <1>4, <1>6 DEF Try, Stuck, Sop
<1> QED
  BY <1>1, <1>3, <1>4, <1>5 DEF a

---------------------------------------------------------------------------
(***************************************************************************)
(* The set of semaphores, for any number of processes.                     *)
(***************************************************************************)
LEMMA Moves ==
  ASSUME TypeOK, NEW p \in Procs, NEW b, pc' = [pc EXCEPT ![p] = b]
  PROVE  /\ pc'[p] = b /\ \A q \in Procs : q # p => pc'[q] = pc[q]
         /\ \A w \in Writers : w \in Procs /\ (w # p => pc'[w] = pc[w])
         /\ \A r \in Readers : r \in Procs /\ (r # p => pc'[r] = pc[r])
BY DEF TypeOK, Procs

LEMMA BetweenFacts == IsFiniteSet(Between) /\ Cardinality(Between) \in Nat
BY ShmAssumption, FS_Subset, FS_CardinalityType DEF Between

LEMMA BetweenNext == IsFiniteSet(Between') /\ Cardinality(Between') \in Nat
BY ShmAssumption, FS_Subset, FS_CardinalityType DEF Between

\* With no writer inside there is nothing in SHM.
LEMMA SegmentsClean ==
  ASSUME Segments, val["SHM"] \in Nat, \A w \in Writers : ~Active(w)
  PROVE  val["SHM"] = 0
<1>1. Between = {}
  BY DEF Between, Active
<1>2. Cardinality(Between) = 0
  BY <1>1, FS_EmptySet
<1> QED
  BY <1>2 DEF Segments

LEMMA SegmentsKeep ==
  ASSUME SetInv, TypeOK', val'["SHM"] <= val["SHM"],
         \A w \in Writers : pc[w] \in {"check", "leave"} => pc'[w] \in {"check", "leave"}
  PROVE  Segments'
<1>1. Between \subseteq Between'
  BY DEF Between
<1>2. Cardinality(Between) <= Cardinality(Between')
  BY <1>1, BetweenNext, FS_Subset
<1>3. "SHM" \in Sem /\ val["SHM"] \in Nat /\ val'["SHM"] \in Nat
  BY DEF SetInv, TypeOK, Sem
<1>4. val["SHM"] <= 2 * Cardinality(Between)
  BY DEF SetInv, Segments
<1>5. val'["SHM"] <= 2 * Cardinality(Between')
  <2>1. PICK a \in Nat, b \in Nat : a = Cardinality(Between) /\ b = Cardinality(Between')
    BY BetweenFacts, BetweenNext
  <2>2. PICK x \in Nat, y \in Nat : x = val["SHM"] /\ y = val'["SHM"]
    BY <1>3
  <2> QED
    BY <1>2, <1>4, <2>1, <2>2
<1> QED
  BY <1>5 DEF Segments

\* A step of a process that was inside and stays there.
LEMMA SetKeep ==
  ASSUME SetInv, TypeOK', NEW p \in Procs, NEW b, pc' = [pc EXCEPT ![p] = b],
         Active(p), b \notin {"start", "gone"}, b \in {"pair", "guard"} <=> pc[p] \in {"pair", "guard"},
         UNCHANGED adj, val'["WR"] <= val["WR"], val'["RD"] <= val["RD"],
         Segments', NotYet', Fills'
  PROVE  SetInv'
<1>1. TypeOK
  BY DEF SetInv
<1>2. \A q \in Procs : Active(q)' = Active(q) /\ (pc'[q] \in {"pair", "guard"} <=> pc[q] \in {"pair", "guard"})
  BY <1>1, Moves DEF Active
<1>3. Undoes'
  BY <1>2 DEF SetInv, Undoes
<1>4. \A s \in Sem : val[s] \in Nat /\ val'[s] \in Nat
  BY <1>1 DEF TypeOK
<1>5. "WR" \in Sem /\ "RD" \in Sem /\ "SHM" \in Sem
  BY DEF Sem
<1>6. Entries'
  BY <1>4, <1>5 DEF SetInv, Entries
<1>7. Clean'
  <2>1. ASSUME \A w \in Writers : ~Active(w)' PROVE val'["WR"] = 0 /\ val'["SHM"] = 0
    <3>1. val["WR"] = 0
      BY <1>2, <2>1 DEF SetInv, Clean, Procs
    <3>2. (Segments /\ val["SHM"] \in Nat /\ (\A w \in Writers : ~Active(w)) => val["SHM"] = 0)'
      BY SegmentsClean, PTL
    <3> QED
      BY <1>4, <1>5, <2>1, <3>1, <3>2
  <2>2. ASSUME \A r \in Readers : ~Active(r)' PROVE val'["RD"] = 0
    <3>1. val["RD"] = 0
      BY <1>2, <2>2 DEF SetInv, Clean, Procs
    <3> QED
      BY <1>4, <1>5, <3>1
  <2> QED
    BY <2>1, <2>2 DEF Clean
<1> QED
  BY <1>3, <1>6, <1>7 DEF SetInv

LEMMA SetInit == Init => SetInv
<1> SUFFICES ASSUME Init PROVE SetInv
  OBVIOUS
<1>1. TypeOK
  BY ShmAssumption DEF Init, TypeOK, Sem, WriterPlaces, ReaderPlaces, Contents, Sizes, Ends, Fates, Procs
<1>2. /\ val["WR"] = 0 /\ val["RD"] = 0 /\ val["SHM"] = 0
      /\ \A q \in Procs : pc[q] = "start" /\ \A s \in Sem : adj[q][s] = 0
      /\ \A w \in Writers : pc[w] = "start" /\ taken[w] = 0
      /\ \A r \in Readers : pc[r] = "start"
  BY DEF Init, Sem, Procs
<1>3. Undoes /\ Entries /\ Clean /\ NotYet /\ Fills
  BY <1>2 DEF Undoes, Entries, Clean, NotYet, Fills, Active
<1>4. Segments
  BY <1>2, BetweenFacts DEF Segments
<1> QED
  BY <1>1, <1>3, <1>4 DEF SetInv

LEMMA EnterSet ==
  ASSUME SetInv, NEW p \in Procs, Enter(p)
  PROVE  SetInv'
<1>1. TypeOK /\ pc[p] = "start" /\ UNCHANGED <<data, size, taken, real, out, kills>>
  BY DEF SetInv, Enter, segment
<1>2. CASE Done(p, EnterOps(Own(p)), "pair") /\ UNCHANGED said
  <2>1. /\ val[Own(p)] = 0 /\ val' = [val EXCEPT ![Own(p)] = 2]
        /\ adj' = [adj EXCEPT ![p] = [adj[p] EXCEPT ![Own(p)] = adj[p][Own(p)] - 2]]
        /\ pc' = [pc EXCEPT ![p] = "pair"]
    BY <1>1, <1>2, EnterCall
  <2>2. /\ val \in [Sem -> Nat] /\ adj \in [Procs -> [Sem -> {0, -2}]] /\ Own(p) \in Sem
        /\ Own(p) \in {"WR", "RD"} /\ "WR" \in Sem /\ "RD" \in Sem /\ "SHM" \in Sem
        /\ adj[p] \in [Sem -> {0, -2}]
    BY <1>1, CallFacts, ProcFacts DEF Sem
  <2>3. \A s \in Sem : adj[p][s] = 0
    BY <1>1 DEF SetInv, Undoes, Active
  <2>4. \A s \in Sem : /\ val'[s] = IF s = Own(p) THEN 2 ELSE val[s]
                       /\ adj'[p][s] = IF s = Own(p) THEN -2 ELSE 0
                       /\ \A q \in Procs : q # p => adj'[q] = adj[q]
    BY <2>1, <2>2, <2>3
  <2>5. TypeOK'
    <3>1. adj' \in [Procs -> [Sem -> {0, -2}]]
      <4>1. [adj[p] EXCEPT ![Own(p)] = adj[p][Own(p)] - 2] \in [Sem -> {0, -2}]
        BY <2>2, <2>3
      <4> QED
        BY <2>1, <2>2, <4>1
    <3>2. val' \in [Sem -> Nat]
      BY <2>1, <2>2
    <3>3. pc' \in [Procs -> WriterPlaces \cup ReaderPlaces] /\ (\A w \in Writers : pc'[w] \in WriterPlaces)
          /\ \A r \in Readers : pc'[r] \in ReaderPlaces
      BY <1>1, <2>1 DEF TypeOK, WriterPlaces, ReaderPlaces, Procs
    <3> QED
      BY <1>1, <1>2, <3>1, <3>2, <3>3 DEF TypeOK
  <2>6. /\ pc'[p] = "pair" /\ \A q \in Procs : q # p => pc'[q] = pc[q]
    BY <1>1, <2>1, Moves
  <2>7. Undoes'
    <3>1. ASSUME NEW q \in Procs, NEW s \in Sem
          PROVE  adj'[q][s] = IF \/ s = Own(q) /\ Active(q)'
                                 \/ s = "SHM" /\ Active(q)' /\ pc'[q] \notin {"pair", "guard"}
                              THEN -2 ELSE 0
      <4>1. CASE q = p
        BY <2>2, <2>4, <2>6, <4>1 DEF Active
      <4>2. CASE q # p
        BY <2>4, <2>6, <4>2 DEF SetInv, Undoes, Active
      <4> QED
        BY <4>1, <4>2
    <3> QED
      BY <3>1 DEF Undoes, Own
  <2>8. Entries'
    BY <2>2, <2>4 DEF SetInv, Entries
  <2>9. Clean'
    <3>1. Own(p) = IF p \in Writers THEN "WR" ELSE "RD"
      BY DEF Own
    <3>2. \A q \in Procs : Active(q) => Active(q)'
      BY <2>6 DEF Active
    <3>3. Active(p)'
      BY <2>6 DEF Active
    <3>4. p \in Writers \/ p \in Readers
      BY DEF Procs
    <3> QED
      BY <2>2, <2>4, <3>1, <3>2, <3>3, <3>4, ShmAssumption DEF SetInv, Clean, Procs
  <2>10. Segments'
    <3>1. \A w \in Writers : pc[w] \in {"check", "leave"} => pc'[w] \in {"check", "leave"}
      BY <1>1, <2>6 DEF Procs
    <3>2. val'["SHM"] <= val["SHM"]
      BY <2>2, <2>4
    <3> QED
      BY <2>5, <3>1, <3>2, SegmentsKeep
  <2>11. NotYet' /\ Fills'
    BY <1>1, <2>6 DEF SetInv, NotYet, Fills, Procs
  <2> QED
    BY <2>5, <2>7, <2>8, <2>9, <2>10, <2>11 DEF SetInv
<1>3. CASE Fails(p, EnterOps(Own(p)), "gone", "refused")
  <2>1. /\ UNCHANGED <<val, adj>> /\ pc' = [pc EXCEPT ![p] = "gone"]
        /\ said' = [said EXCEPT ![p] = "refused"]
    BY <1>3 DEF Fails, Goto, kernel
  <2>2. TypeOK'
    BY <1>1, <2>1 DEF TypeOK, WriterPlaces, ReaderPlaces, Fates, Procs
  <2>3. /\ pc'[p] = "gone" /\ \A q \in Procs : q # p => pc'[q] = pc[q]
    BY <1>1, <2>1, Moves
  <2>4. \A q \in Procs : Active(q)' = Active(q) /\ (Active(q) => pc'[q] = pc[q])
    BY <1>1, <2>3 DEF Active
  <2>5. Undoes' /\ Entries' /\ Clean' /\ NotYet' /\ Fills'
    BY <1>1, <2>1, <2>3, <2>4 DEF SetInv, Undoes, Entries, Clean, NotYet, Fills, Procs
  <2>6. Segments'
    <3>1. \A w \in Writers : pc[w] \in {"check", "leave"} => pc'[w] \in {"check", "leave"}
      BY <1>1, <2>3 DEF Procs
    <3>2. val'["SHM"] <= val["SHM"]
      BY <2>1, <1>1 DEF TypeOK, Sem
    <3> QED
      BY <2>2, <3>1, <3>2, SegmentsKeep
  <2> QED
    BY <2>2, <2>5, <2>6 DEF SetInv
<1> QED
  BY <1>2, <1>3 DEF Enter

LEMMA PairSet ==
  ASSUME SetInv, NEW p \in Procs, Pair(p)
  PROVE  SetInv'
<1>1. TypeOK /\ pc[p] = "pair" /\ UNCHANGED <<data, size, taken, real, out, said, kills>>
  BY DEF SetInv, Pair, segment
<1>2. /\ val[Peer(p)] >= 1 /\ val' = [val EXCEPT ![Peer(p)] = @ - 1] /\ UNCHANGED adj
      /\ pc' = [pc EXCEPT ![p] = "guard"]
  BY <1>1, PairCall DEF Pair
<1>3. /\ val \in [Sem -> Nat] /\ Peer(p) \in Sem /\ Peer(p) # "SHM"
      /\ "WR" \in Sem /\ "RD" \in Sem /\ "SHM" \in Sem
  BY <1>1, CallFacts DEF Sem
<1>4. \A s \in Sem : val'[s] \in Nat /\ val'[s] <= val[s]
  BY <1>2, <1>3
<1>5. TypeOK'
  <2>1. val' \in [Sem -> Nat]
    BY <1>2, <1>3
  <2> QED
    BY <1>1, <1>2, <2>1 DEF TypeOK, WriterPlaces, ReaderPlaces, Procs
<1>6. /\ pc'[p] = "guard" /\ \A q \in Procs : q # p => pc'[q] = pc[q]
  BY <1>1, <1>2, Moves
<1>7. Segments'
  <2>1. \A w \in Writers : pc[w] \in {"check", "leave"} => pc'[w] \in {"check", "leave"}
    BY <1>1, <1>6 DEF Procs
  <2> QED
    BY <1>3, <1>4, <1>5, <2>1, SegmentsKeep
<1>8. NotYet' /\ Fills'
  BY <1>1, <1>6 DEF SetInv, NotYet, Fills, Procs
<1> QED
  BY <1>1, <1>2, <1>3, <1>4, <1>5, <1>7, <1>8, SetKeep DEF Active

LEMMA GuardSet ==
  ASSUME SetInv, NEW p \in Procs, Guard(p)
  PROVE  SetInv'
<1>1. TypeOK /\ pc[p] = "guard" /\ UNCHANGED <<data, size, taken, real, out, said, kills>>
  BY DEF SetInv, Guard, segment
<1>2. /\ UNCHANGED val /\ pc' = [pc EXCEPT ![p] = "check"]
      /\ adj' = [adj EXCEPT ![p] = [adj[p] EXCEPT !["SHM"] = adj[p]["SHM"] - 2]]
  BY <1>1, GuardCall DEF Guard
<1>3. /\ adj \in [Procs -> [Sem -> {0, -2}]] /\ adj[p] \in [Sem -> {0, -2}] /\ "SHM" \in Sem
      /\ val["SHM"] \in Nat /\ Own(p) # "SHM"
  BY <1>1, CallFacts, ProcFacts
<1>4. adj[p]["SHM"] = 0
  BY <1>1, <1>3 DEF SetInv, Undoes
<1>5. TypeOK'
  <2>1. adj' \in [Procs -> [Sem -> {0, -2}]]
    <3>1. [adj[p] EXCEPT !["SHM"] = adj[p]["SHM"] - 2] \in [Sem -> {0, -2}]
      BY <1>3, <1>4
    <3> QED
      BY <1>2, <1>3, <3>1
  <2> QED
    BY <1>1, <1>2, <2>1 DEF TypeOK, WriterPlaces, ReaderPlaces, Procs
<1>6. /\ pc'[p] = "check" /\ \A q \in Procs : q # p => pc'[q] = pc[q]
  BY <1>1, <1>2, Moves
<1>7. \A s \in Sem : /\ adj'[p][s] = IF s = "SHM" THEN -2 ELSE adj[p][s]
                     /\ \A q \in Procs : q # p => adj'[q] = adj[q]
  BY <1>2, <1>3, <1>4
<1>8. Undoes'
  <2>1. ASSUME NEW q \in Procs, NEW s \in Sem
        PROVE  adj'[q][s] = IF \/ s = Own(q) /\ Active(q)'
                               \/ s = "SHM" /\ Active(q)' /\ pc'[q] \notin {"pair", "guard"}
                            THEN -2 ELSE 0
    <3>1. CASE q = p
      BY <1>1, <1>6, <1>7, <3>1 DEF SetInv, Undoes, Active
    <3>2. CASE q # p
      BY <1>6, <1>7, <3>2 DEF SetInv, Undoes, Active
    <3> QED
      BY <3>1, <3>2
  <2> QED
    BY <2>1 DEF Undoes, Own
<1>9. Segments'
  <2>1. \A w \in Writers : pc[w] \in {"check", "leave"} => pc'[w] \in {"check", "leave"}
    BY <1>1, <1>6 DEF Procs
  <2> QED
    BY <1>2, <1>3, <1>5, <2>1, SegmentsKeep
<1>10. Entries' /\ Clean'
  <2>1. \A q \in Procs : Active(q)' = Active(q)
    BY <1>1, <1>6 DEF Active
  <2> QED
    BY <1>2, <2>1 DEF SetInv, Entries, Clean, Procs
<1>11. NotYet' /\ Fills'
  BY <1>1, <1>6 DEF SetInv, NotYet, Fills, Procs
<1> QED
  BY <1>5, <1>8, <1>9, <1>10, <1>11 DEF SetInv

LEMMA CheckSet ==
  ASSUME SetInv, NEW p \in Procs, NEW d \in {0, -1}, NEW place, CheckAlive(p, d, place),
         IF p \in Writers THEN d = 0 /\ place = "fill" ELSE d = -1 /\ place = "scan"
  PROVE  SetInv'
<1>1. TypeOK /\ pc[p] = "check" /\ UNCHANGED <<data, size, taken, real, out, kills>>
  BY DEF SetInv, CheckAlive, segment
<1>2. CASE Done(p, CheckOps(Peer(p), d), place) /\ UNCHANGED said
  <2>1. /\ IF d = 0 THEN val["SHM"] = 0 ELSE val["SHM"] >= 1
        /\ val' = [val EXCEPT !["SHM"] = @ + d] /\ UNCHANGED adj
        /\ pc' = [pc EXCEPT ![p] = place]
    BY <1>1, <1>2, CheckCall
  <2>2. val \in [Sem -> Nat] /\ "WR" \in Sem /\ "RD" \in Sem /\ "SHM" \in Sem
    BY <1>1, CallFacts DEF Sem
  <2>3. \A s \in Sem : val'[s] \in Nat /\ val'[s] <= val[s]
    BY <2>1, <2>2
  <2>4. TypeOK'
    <3>1. val' \in [Sem -> Nat]
      BY <2>1, <2>2
    <3>2. /\ pc' \in [Procs -> WriterPlaces \cup ReaderPlaces]
          /\ \A w \in Writers : pc'[w] \in WriterPlaces
          /\ \A r \in Readers : pc'[r] \in ReaderPlaces
      BY <1>1, <2>1, ShmAssumption DEF TypeOK, WriterPlaces, ReaderPlaces, Procs
    <3> QED
      BY <1>1, <1>2, <2>1, <3>1, <3>2 DEF TypeOK
  <2>5. /\ pc'[p] = place /\ \A q \in Procs : q # p => pc'[q] = pc[q]
    BY <1>1, <2>1, Moves
  <2>6. Segments'
    <3>1. CASE p \in Writers
      <4>1. val'["SHM"] = 0
        BY <2>1, <2>2, <3>1
      <4>2. PICK n \in Nat : n = Cardinality(Between')
        BY BetweenNext
      <4>3. val'["SHM"] <= 2 * n
        BY <4>1
      <4> QED
        BY <4>2, <4>3 DEF Segments
    <3>2. CASE p \notin Writers
      <4>1. \A w \in Writers : pc[w] \in {"check", "leave"} => pc'[w] \in {"check", "leave"}
        BY <2>5, <3>2 DEF Procs
      <4> QED
        BY <2>2, <2>3, <2>4, <4>1, SegmentsKeep
    <3> QED
      BY <3>1, <3>2
  <2>7. NotYet' /\ Fills'
    BY <1>1, <2>5 DEF SetInv, NotYet, Fills, Procs
  <2>8. place \notin {"start", "gone", "pair", "guard"}
    OBVIOUS
  <2> QED
    BY <1>1, <2>1, <2>2, <2>3, <2>4, <2>6, <2>7, <2>8, SetKeep DEF Active
<1>3. CASE Fails(p, CheckOps(Peer(p), d), "leave", "alone")
  <2>1. /\ UNCHANGED <<val, adj>> /\ pc' = [pc EXCEPT ![p] = "leave"]
        /\ said' = [said EXCEPT ![p] = "alone"]
    BY <1>3 DEF Fails, Goto, kernel
  <2>2. TypeOK'
    BY <1>1, <2>1 DEF TypeOK, WriterPlaces, ReaderPlaces, Fates, Procs
  <2>3. /\ pc'[p] = "leave" /\ \A q \in Procs : q # p => pc'[q] = pc[q]
    BY <1>1, <2>1, Moves
  <2>4. val'["SHM"] <= val["SHM"] /\ val'["WR"] <= val["WR"] /\ val'["RD"] <= val["RD"]
    BY <1>1, <2>1 DEF TypeOK, Sem
  <2>5. Segments'
    <3>1. \A w \in Writers : pc[w] \in {"check", "leave"} => pc'[w] \in {"check", "leave"}
      BY <1>1, <2>3 DEF Procs
    <3> QED
      BY <2>2, <2>4, <3>1, SegmentsKeep
  <2>6. NotYet' /\ Fills'
    BY <1>1, <2>3 DEF SetInv, NotYet, Fills, Procs
  <2> QED
    BY <1>1, <2>1, <2>2, <2>4, <2>5, <2>6, SetKeep DEF Active
<1> QED
  BY <1>2, <1>3 DEF CheckAlive

\* A step of a process on its way through its loop that does not touch the set.
LEMMA QuietSet ==
  ASSUME SetInv, TypeOK', NEW p \in Procs, NEW b, pc' = [pc EXCEPT ![p] = b],
         pc[p] \in {"fill", "filling", "record", "scan", "write"},
         b \in {"filling", "record", "post", "write", "ack"}, UNCHANGED <<val, adj>>,
         \A w \in Writers : w # p => taken'[w] = taken[w],
         b = "filling" => taken'[p] < Blocks[p]
  PROVE  SetInv'
<1>1. TypeOK
  BY DEF SetInv
<1>2. /\ pc'[p] = b /\ \A q \in Procs : q # p => pc'[q] = pc[q]
  BY <1>1, Moves
<1>3. val'["SHM"] <= val["SHM"] /\ val'["WR"] <= val["WR"] /\ val'["RD"] <= val["RD"]
  BY <1>1 DEF TypeOK, Sem
<1>4. Segments'
  <2>1. \A w \in Writers : pc[w] \in {"check", "leave"} => pc'[w] \in {"check", "leave"}
    BY <1>2 DEF Procs
  <2> QED
    BY <1>3, <2>1, SegmentsKeep
<1>5. NotYet' /\ Fills'
  BY <1>2 DEF SetInv, NotYet, Fills, Procs
<1> QED
  BY <1>3, <1>4, <1>5, SetKeep DEF Active

LEMMA FillSet ==
  ASSUME SetInv, NEW w \in Writers, Fill(w)
  PROVE  SetInv'
<1>1. TypeOK /\ w \in Procs /\ pc[w] = "fill" /\ UNCHANGED <<val, adj, size, taken, out, said, kills>>
  BY DEF SetInv, Fill, kernel, Procs
<1>2. taken[w] \in Nat /\ Blocks[w] \in Nat
  BY <1>1, ShmAssumption DEF TypeOK
<1>3. CASE /\ taken[w] < Blocks[w] /\ data' = Torn
           /\ real' = [real EXCEPT ![w] = SizeOf(w, taken[w] + 1)]
           /\ pc' = [pc EXCEPT ![w] = "filling"]
  <2>1. TypeOK'
    BY <1>1, <1>3 DEF TypeOK, WriterPlaces, ReaderPlaces, Sizes, SizeOf, Contents, Procs
  <2> QED
    BY <1>1, <1>3, <2>1, QuietSet
<1>4. CASE /\ real' = [real EXCEPT ![w] = "eof"] \/ real' = [real EXCEPT ![w] = "error"]
           /\ pc' = [pc EXCEPT ![w] = "record"] /\ UNCHANGED data
  <2>1. TypeOK'
    BY <1>1, <1>4 DEF TypeOK, WriterPlaces, ReaderPlaces, Sizes, Ends, Procs
  <2> QED
    BY <1>1, <1>4, <2>1, QuietSet
<1> QED
  BY <1>3, <1>4 DEF Fill, Goto

LEMMA FilledSet ==
  ASSUME SetInv, NEW w \in Writers, Filled(w)
  PROVE  SetInv'
<1>1. /\ TypeOK /\ w \in Procs /\ pc[w] = "filling" /\ UNCHANGED <<val, adj, size, real, out, said, kills>>
      /\ taken' = [taken EXCEPT ![w] = @ + 1] /\ data' = <<w, taken[w] + 1>>
      /\ pc' = [pc EXCEPT ![w] = "record"]
  BY DEF SetInv, Filled, Goto, kernel, Procs
<1>2. taken[w] \in Nat /\ Blocks[w] \in Nat /\ taken[w] < Blocks[w]
  BY <1>1, ShmAssumption DEF SetInv, TypeOK, Fills
<1>3. data' \in Contents
  BY <1>1, <1>2 DEF Contents
<1>4. taken' \in [Writers -> Nat] /\ \A v \in Writers : taken'[v] <= Blocks[v]
  BY <1>1, <1>2 DEF TypeOK
<1>5. TypeOK'
  BY <1>1, <1>3, <1>4 DEF TypeOK, WriterPlaces, ReaderPlaces, Procs
<1>6. \A v \in Writers : v # w => taken'[v] = taken[v]
  BY <1>1 DEF TypeOK
<1> QED
  BY <1>1, <1>5, <1>6, QuietSet

LEMMA RecordSet ==
  ASSUME SetInv, NEW w \in Writers, RecordSize(w)
  PROVE  SetInv'
<1>1. /\ TypeOK /\ w \in Procs /\ pc[w] = "record" /\ pc' = [pc EXCEPT ![w] = "post"]
      /\ size' = real[w] /\ UNCHANGED <<val, adj, data, taken, real, out, said, kills>>
  BY DEF SetInv, RecordSize, Goto, kernel, Procs
<1>2. TypeOK'
  BY <1>1 DEF TypeOK, WriterPlaces, ReaderPlaces, Procs
<1> QED
  BY <1>1, <1>2, QuietSet

LEMMA ScanSet ==
  ASSUME SetInv, NEW r \in Readers, ScanSize(r)
  PROVE  SetInv'
<1>1. /\ TypeOK /\ r \in Procs /\ pc[r] = "scan" /\ pc' = [pc EXCEPT ![r] = "write"]
      /\ real' = [real EXCEPT ![r] = size] /\ UNCHANGED <<val, adj, data, size, taken, out, said, kills>>
  BY DEF SetInv, ScanSize, Goto, kernel, segment, Procs
<1>2. TypeOK'
  BY <1>1 DEF TypeOK, WriterPlaces, ReaderPlaces, Procs
<1> QED
  BY <1>1, <1>2, QuietSet

LEMMA WriteSet ==
  ASSUME SetInv, NEW r \in Readers, WriteOut(r)
  PROVE  SetInv'
<1>1. /\ TypeOK /\ r \in Procs /\ pc[r] = "write" /\ pc' = [pc EXCEPT ![r] = "ack"]
      /\ UNCHANGED <<val, adj, data, size, taken, real, said, kills>>
  BY DEF SetInv, WriteOut, Goto, kernel, segment, Procs
<1>2. out' \in [Readers -> Seq(Contents \X {"full", "part"})]
  <2>1. CASE real[r] \in Ends
    BY <1>1, <2>1 DEF WriteOut, TypeOK
  <2>2. CASE real[r] \notin Ends
    <3>1. <<data, real[r]>> \in Contents \X {"full", "part"}
      BY <1>1, <2>2 DEF TypeOK, Sizes
    <3>2. out' = [out EXCEPT ![r] = Append(out[r], <<data, real[r]>>)]
      BY <2>2 DEF WriteOut
    <3>3. out[r] \in Seq(Contents \X {"full", "part"})
      BY <1>1 DEF TypeOK
    <3>4. Append(out[r], <<data, real[r]>>) \in Seq(Contents \X {"full", "part"})
      BY <3>1, <3>3
    <3> QED
      BY <1>1, <3>2, <3>4 DEF TypeOK
  <2> QED
    BY <2>1, <2>2
<1>3. TypeOK'
  BY <1>1, <1>2 DEF TypeOK, WriterPlaces, ReaderPlaces, Procs
<1> QED
  BY <1>1, <1>3, QuietSet

\* What a post does, the writer's with two units and the reader's with minus one.
LEMMA PostCall ==
  ASSUME SetInv, NEW p \in Procs, NEW d \in {2, -1},
         Done(p, <<Sop("SHM", d, FALSE, FALSE)>>, IF real[p] \in Ends THEN "leave" ELSE "check")
  PROVE  /\ val["SHM"] + d >= 0 /\ val' = [val EXCEPT !["SHM"] = @ + d] /\ UNCHANGED adj
         /\ val' \in [Sem -> Nat] /\ val'["SHM"] = val["SHM"] + d
         /\ val'["WR"] = val["WR"] /\ val'["RD"] = val["RD"]
         /\ pc' = [pc EXCEPT ![p] = IF real[p] \in Ends THEN "leave" ELSE "check"]
<1>1. TypeOK
  BY DEF SetInv
<1>2. /\ val["SHM"] + d >= 0 /\ val' = [val EXCEPT !["SHM"] = @ + d] /\ UNCHANGED adj
      /\ pc' = [pc EXCEPT ![p] = IF real[p] \in Ends THEN "leave" ELSE "check"]
  BY <1>1, ShmCall
<1>3. val \in [Sem -> Nat] /\ "WR" \in Sem /\ "RD" \in Sem /\ "SHM" \in Sem
  BY <1>1 DEF TypeOK, Sem
<1> QED
  BY <1>2, <1>3

LEMMA PostSet ==
  ASSUME SetInv, NEW w \in Writers, Post(w)
  PROVE  SetInv'
<1>1. /\ TypeOK /\ w \in Procs /\ pc[w] = "post" /\ UNCHANGED <<data, size, taken, real, out, kills>>
      /\ said' = [said EXCEPT ![w] = IF real[w] \in Ends THEN "finished" ELSE @]
  BY DEF SetInv, Post, segment, Procs
<1> DEFINE b == IF real[w] \in Ends THEN "leave" ELSE "check"
<1>2. /\ UNCHANGED adj /\ val' \in [Sem -> Nat] /\ val'["SHM"] = val["SHM"] + 2
      /\ val'["WR"] = val["WR"] /\ val'["RD"] = val["RD"] /\ pc' = [pc EXCEPT ![w] = b]
  BY <1>1, PostCall DEF Post
<1>3. b \in {"leave", "check"}
  OBVIOUS
<1> HIDE DEF b
<1>4. TypeOK'
  BY <1>1, <1>2, <1>3 DEF TypeOK, WriterPlaces, ReaderPlaces, Fates, Procs
<1>5. /\ pc'[w] = b /\ \A q \in Procs : q # w => pc'[q] = pc[q]
  BY <1>1, <1>2, Moves
<1>6. Segments'
  <2>1. Between' = Between \cup {w} /\ w \notin Between
    BY <1>1, <1>3, <1>5 DEF Between, Procs
  <2>2. Cardinality(Between') = Cardinality(Between) + 1
    BY <2>1, BetweenFacts, FS_AddElement
  <2>3. PICK n \in Nat : n = Cardinality(Between)
    BY BetweenFacts
  <2>4. val["SHM"] <= 2 * n /\ val["SHM"] \in Nat
    BY <1>1, <2>3 DEF SetInv, Segments, TypeOK, Sem
  <2>5. val'["SHM"] <= 2 * (n + 1)
    BY <1>2, <2>4
  <2> QED
    BY <2>2, <2>3, <2>5 DEF Segments
<1>7. NotYet' /\ Fills'
  BY <1>1, <1>3, <1>5 DEF SetInv, NotYet, Fills, Procs
<1>8. val'["WR"] <= val["WR"] /\ val'["RD"] <= val["RD"]
  BY <1>1, <1>2 DEF TypeOK, Sem
<1>9. b \notin {"start", "gone"} /\ (b \in {"pair", "guard"} <=> pc[w] \in {"pair", "guard"}) /\ Active(w)
  BY <1>1, <1>3 DEF Active
<1> QED
  BY <1>1, <1>2, <1>4, <1>6, <1>7, <1>8, <1>9, SetKeep

LEMMA AckSet ==
  ASSUME SetInv, NEW r \in Readers, Ack(r)
  PROVE  SetInv'
<1>1. /\ TypeOK /\ r \in Procs /\ pc[r] = "ack" /\ UNCHANGED <<data, size, taken, real, out, kills>>
      /\ said' = [said EXCEPT ![r] = IF real[r] \in Ends THEN "finished" ELSE @]
  BY DEF SetInv, Ack, segment, Procs
<1> DEFINE b == IF real[r] \in Ends THEN "leave" ELSE "check"
<1>2. /\ UNCHANGED adj /\ val' \in [Sem -> Nat] /\ val'["SHM"] = val["SHM"] - 1
      /\ val'["WR"] = val["WR"] /\ val'["RD"] = val["RD"] /\ pc' = [pc EXCEPT ![r] = b]
  <2>1. val'["SHM"] = val["SHM"] + (-1) /\ val["SHM"] \in Nat
    BY <1>1, PostCall DEF Ack, TypeOK, Sem
  <2> QED
    BY <1>1, <2>1, PostCall DEF Ack
<1>3. b \in {"leave", "check"}
  OBVIOUS
<1> HIDE DEF b
<1>4. TypeOK'
  BY <1>1, <1>2, <1>3 DEF TypeOK, WriterPlaces, ReaderPlaces, Fates, Procs
<1>5. /\ pc'[r] = b /\ \A q \in Procs : q # r => pc'[q] = pc[q]
  BY <1>1, <1>2, Moves
<1>6. val'["WR"] <= val["WR"] /\ val'["RD"] <= val["RD"] /\ val'["SHM"] <= val["SHM"]
  BY <1>1, <1>2 DEF TypeOK, Sem
<1>7. Segments'
  <2>1. \A w \in Writers : pc[w] \in {"check", "leave"} => pc'[w] \in {"check", "leave"}
    BY <1>3, <1>5 DEF Procs
  <2> QED
    BY <1>4, <1>6, <2>1, SegmentsKeep
<1>8. NotYet' /\ Fills'
  BY <1>1, <1>3, <1>5 DEF SetInv, NotYet, Fills, Procs
<1>9. b \notin {"start", "gone"} /\ (b \in {"pair", "guard"} <=> pc[r] \in {"pair", "guard"}) /\ Active(r)
  BY <1>1, <1>3 DEF Active
<1> QED
  BY <1>1, <1>2, <1>4, <1>6, <1>7, <1>8, <1>9, SetKeep

\* What the exit of a process that was inside does to the set.
LEMMA GoneFacts ==
  ASSUME SetInv, NEW p \in Procs, Active(p), Gone(p)
  PROVE  /\ val' \in [Sem -> Nat] /\ adj' \in [Procs -> [Sem -> {0, -2}]]
         /\ pc' = [pc EXCEPT ![p] = "gone"]
         /\ \A s \in Sem : /\ val'[s] <= val[s]
                           /\ val'[s] = IF val[s] + adj[p][s] < 0 THEN 0 ELSE val[s] + adj[p][s]
                           /\ adj'[p][s] = 0
         /\ \A q \in Procs : q # p => adj'[q] = adj[q]
         /\ val'[Own(p)] = 0 /\ val'[Peer(p)] = val[Peer(p)]
<1>1. TypeOK /\ val \in [Sem -> Nat] /\ adj \in [Procs -> [Sem -> {0, -2}]] /\ adj[p] \in [Sem -> {0, -2}]
      /\ Own(p) \in Sem /\ Peer(p) \in Sem /\ Own(p) \in {"WR", "RD"} /\ Peer(p) \in {"WR", "RD"}
      /\ Own(p) # Peer(p)
  BY CallFacts, ProcFacts DEF SetInv
<1>2. /\ val' = Undone(val, adj[p]) /\ adj' = [adj EXCEPT ![p] = [s \in Sem |-> 0]]
      /\ pc' = [pc EXCEPT ![p] = "gone"]
  BY DEF Gone, Goto
<1>3. val' = [s \in Sem |-> IF val[s] + adj[p][s] < 0 THEN 0 ELSE val[s] + adj[p][s]]
  BY <1>1, <1>2 DEF Undone
<1>4. \A s \in Sem : val[s] \in Nat /\ adj[p][s] \in {0, -2}
  BY <1>1
<1>5. \A s \in Sem :
        /\ (IF val[s] + adj[p][s] < 0 THEN 0 ELSE val[s] + adj[p][s]) \in Nat
        /\ (IF val[s] + adj[p][s] < 0 THEN 0 ELSE val[s] + adj[p][s]) <= val[s]
  BY <1>4
<1>6. adj[p][Own(p)] = -2 /\ adj[p][Peer(p)] = 0
  BY <1>1 DEF SetInv, Undoes
<1>7. val[Own(p)] <= 2
  BY <1>1 DEF SetInv, Entries
<1>8. val'[Own(p)] = 0 /\ val'[Peer(p)] = val[Peer(p)]
  BY <1>1, <1>3, <1>4, <1>6, <1>7
<1>9. adj' \in [Procs -> [Sem -> {0, -2}]]
  BY <1>1, <1>2
<1>10. val' \in [Sem -> Nat]
  BY <1>3, <1>5
<1>11. \A s \in Sem : adj'[p][s] = 0
  BY <1>1, <1>2
<1>12. \A q \in Procs : q # p => adj'[q] = adj[q]
  BY <1>1, <1>2
<1> QED
  BY <1>2, <1>3, <1>5, <1>8, <1>9, <1>10, <1>11, <1>12

LEMMA GoneSet ==
  ASSUME SetInv, NEW p \in Procs, Active(p), Gone(p), TypeOK', UNCHANGED taken
  PROVE  SetInv'
<1>1. TypeOK
  BY DEF SetInv
<1>2. /\ pc'[p] = "gone" /\ \A q \in Procs : q # p => pc'[q] = pc[q]
  BY <1>1, GoneFacts, Moves, ZenonT(40)
<1>3. /\ \A s \in Sem : /\ val'[s] <= val[s] /\ val[s] \in Nat /\ val'[s] \in Nat
                        /\ val'[s] = IF val[s] + adj[p][s] < 0 THEN 0 ELSE val[s] + adj[p][s]
                        /\ adj'[p][s] = 0
      /\ \A q \in Procs : q # p => adj'[q] = adj[q]
      /\ val'[Own(p)] = 0 /\ val'[Peer(p)] = val[Peer(p)]
  BY <1>1, GoneFacts DEF TypeOK
<1>4. "WR" \in Sem /\ "RD" \in Sem /\ "SHM" \in Sem
  BY DEF Sem
<1>5. Undoes'
  <2>1. ASSUME NEW q \in Procs, NEW s \in Sem
        PROVE  adj'[q][s] = IF \/ s = Own(q) /\ Active(q)'
                               \/ s = "SHM" /\ Active(q)' /\ pc'[q] \notin {"pair", "guard"}
                            THEN -2 ELSE 0
    <3>1. CASE q = p
      BY <1>2, <1>3, <3>1 DEF Active
    <3>2. CASE q # p
      BY <1>2, <1>3, <3>2 DEF SetInv, Undoes, Active
    <3> QED
      BY <3>1, <3>2
  <2> QED
    BY <2>1 DEF Undoes, Own
<1>6. Entries'
  BY <1>3, <1>4 DEF SetInv, Entries
<1>7. Segments'
  <2>1. CASE p \in Between
    <3>1. Between' = Between \ {p}
      BY <1>2 DEF Between, Procs
    <3>2. Cardinality(Between') = Cardinality(Between) - 1
      BY <2>1, <3>1, BetweenFacts, FS_RemoveElement
    <3>3. adj[p]["SHM"] = -2
      BY <1>4, <2>1 DEF SetInv, Undoes, Between, Active
    <3>4. PICK n \in Nat, m \in Nat : n = Cardinality(Between) /\ m = Cardinality(Between')
      BY BetweenFacts, BetweenNext
    <3>5. m = n - 1 /\ val["SHM"] <= 2 * n
      BY <3>2, <3>4 DEF SetInv, Segments
    <3>6. val'["SHM"] = IF val["SHM"] + (-2) < 0 THEN 0 ELSE val["SHM"] + (-2)
      BY <1>3, <1>4, <3>3
    <3>7. val'["SHM"] <= 2 * m
      BY <1>3, <1>4, <3>4, <3>5, <3>6
    <3> QED
      BY <3>4, <3>7 DEF Segments
  <2>2. CASE p \notin Between
    <3>1. \A w \in Writers : pc[w] \in {"check", "leave"} => pc'[w] \in {"check", "leave"}
      BY <1>2, <2>2 DEF Between, Procs
    <3> QED
      BY <1>3, <1>4, <3>1, SegmentsKeep
  <2> QED
    BY <2>1, <2>2
<1>8. Clean'
  <2>1. ASSUME \A w \in Writers : ~Active(w)' PROVE val'["WR"] = 0 /\ val'["SHM"] = 0
    <3>1. val'["WR"] = 0
      <4>1. CASE p \in Writers
        BY <1>3, <4>1 DEF Own
      <4>2. CASE p \notin Writers
        BY <1>2, <1>3, <1>4, <2>1, <4>2 DEF SetInv, Clean, Active, Procs
      <4> QED
        BY <4>1, <4>2
    <3>2. (Segments /\ val["SHM"] \in Nat /\ (\A w \in Writers : ~Active(w)) => val["SHM"] = 0)'
      BY SegmentsClean, PTL
    <3> QED
      BY <1>3, <1>4, <1>7, <2>1, <3>1, <3>2
  <2>2. ASSUME \A r \in Readers : ~Active(r)' PROVE val'["RD"] = 0
    <3>1. CASE p \in Writers
      BY <1>2, <1>3, <1>4, <2>2, <3>1, ShmAssumption DEF SetInv, Clean, Active, Procs
    <3>2. CASE p \notin Writers
      BY <1>3, <3>2 DEF Own
    <3> QED
      BY <3>1, <3>2
  <2> QED
    BY <2>1, <2>2 DEF Clean
<1>9. NotYet' /\ Fills'
  BY <1>2 DEF SetInv, NotYet, Fills, Procs
<1> QED
  BY <1>5, <1>6, <1>7, <1>8, <1>9 DEF SetInv

LEMMA LeaveSet ==
  ASSUME SetInv, NEW p \in Procs, Leave(p)
  PROVE  SetInv'
<1>1. TypeOK /\ Gone(p) /\ Active(p) /\ UNCHANGED <<data, size, taken, real, out, said, kills>>
  BY DEF SetInv, Leave, segment, Active
<1>2. TypeOK'
  BY <1>1, GoneFacts DEF TypeOK, WriterPlaces, ReaderPlaces, Procs
<1> QED
  BY <1>1, <1>2, GoneSet

LEMMA KillSet ==
  ASSUME SetInv, NEW p \in Procs, Kill(p)
  PROVE  SetInv'
<1>1. /\ TypeOK /\ Gone(p) /\ Active(p) /\ UNCHANGED <<data, size, taken, real, out>>
      /\ kills < MaxKills /\ kills' = kills + 1 /\ said' = [said EXCEPT ![p] = "killed"]
  BY DEF SetInv, Kill, segment
<1>2. TypeOK'
  <2>1. kills' \in 0 .. MaxKills
    BY <1>1, ShmAssumption DEF TypeOK
  <2> QED
    BY <1>1, <2>1, GoneFacts DEF TypeOK, WriterPlaces, ReaderPlaces, Fates, Procs
<1> QED
  BY <1>1, <1>2, GoneSet

LEMMA SetInductive == SetInv /\ [Next]_vars => SetInv'
<1> SUFFICES ASSUME SetInv, [Next]_vars PROVE SetInv'
  OBVIOUS
<1>1. ASSUME NEW p \in Procs, Common(p) PROVE SetInv'
  BY <1>1, EnterSet, PairSet, GuardSet, LeaveSet DEF Common
<1>2. ASSUME NEW w \in Writers, Writer(w) PROVE SetInv'
  <2>1. w \in Procs /\ 0 \in {0, -1}
    BY DEF Procs
  <2>2. CASE WriterCheck(w)
    BY <2>1, <2>2, CheckSet DEF WriterCheck
  <2> QED
    BY <1>1, <1>2, <2>1, <2>2, FillSet, FilledSet, RecordSet, PostSet DEF Writer
<1>3. ASSUME NEW r \in Readers, Reader(r) PROVE SetInv'
  <2>1. r \in Procs /\ r \notin Writers /\ -1 \in {0, -1}
    BY ShmAssumption DEF Procs
  <2>2. CASE ReaderCheck(r)
    BY <2>1, <2>2, CheckSet DEF ReaderCheck
  <2> QED
    BY <1>1, <1>3, <2>1, <2>2, ScanSet, WriteSet, AckSet DEF Reader
<1>4. ASSUME NEW p \in Procs, Kill(p) PROVE SetInv'
  BY <1>4, KillSet
<1>5. CASE UNCHANGED vars
  BY <1>5 DEF vars, kernel, segment, SetInv, TypeOK, Undoes, Entries, Clean, Segments, NotYet, Fills,
              Active, Between
<1> QED
  BY <1>2, <1>3, <1>4, <1>5 DEF Next

LEMMA SetInvariance == Spec => []SetInv
BY SetInit, SetInductive, PTL DEF Spec

---------------------------------------------------------------------------
(***************************************************************************)
(* One reader and any number of writers.                                   *)
(***************************************************************************)
OneReader(r) == Readers = {r}

\* What PairInv says when r is the only reader, and the types it rests on.
Served1(r) ==
  /\ OneWriter /\ Kept /\ val["SHM"] <= 2
  /\ Fresh(r) /\ Served(r)
  /\ \A w \in Writers : First(w, r) /\ Alone(w, r) /\ Finished(w, r)

LEMMA PairParts ==
  ASSUME NEW r, OneReader(r)
  PROVE  /\ PairInv <=> SetInv /\ Served1(r)
         /\ PairInv' <=> SetInv' /\ Served1(r)'
BY DEF OneReader, PairInv, Served1

Here(r) ==
  /\ SetInv /\ TypeOK /\ Served1(r)
  /\ r \in Readers /\ r \in Procs /\ r \notin Writers
  /\ \A w \in Writers : w \in Procs /\ w # r
  /\ \A p \in Procs : p = r \/ p \in Writers
  /\ val \in [Sem -> Nat] /\ "WR" \in Sem /\ "RD" \in Sem /\ "SHM" \in Sem
  /\ val["WR"] \in Nat /\ val["RD"] \in Nat /\ val["SHM"] \in Nat

LEMMA Context ==
  ASSUME PairInv, NEW r, OneReader(r)
  PROVE  Here(r)
BY PairParts, ShmAssumption DEF OneReader, SetInv, TypeOK, Procs, Sem, Here

LEMMA SameOut ==
  ASSUME UNCHANGED out, NEW r, NEW w
  PROVE  Begins(r, w)' = Begins(r, w)
BY DEF Begins

\* Nobody comes in, and WR is as it was.
LEMMA KeptKeep ==
  ASSUME NEW r, OneReader(r), Served1(r), val'["WR"] = val["WR"],
         \A w \in Writers : Active(w)' => Active(w),
         pc'[r] \in {"start", "pair"} => pc[r] \in {"start", "pair"}
  PROVE  OneWriter' /\ Kept'
BY DEF Served1, OneWriter, Kept, OneReader

LEMMA EnterPair ==
  ASSUME PairInv, SetInv', NEW r, OneReader(r), NEW p \in Procs, Enter(p)
  PROVE  PairInv'
<1>1. Here(r)
  BY Context
<1>2. pc[p] = "start" /\ UNCHANGED <<data, size, taken, real, out, kills>>
  BY DEF Enter, segment
<1>3. \A w \in Writers : Begins(r, w)' = Begins(r, w)
  BY <1>2, SameOut
<1>4. CASE Done(p, EnterOps(Own(p)), "pair") /\ UNCHANGED said
  <2>1. val[Own(p)] = 0 /\ val' = [val EXCEPT ![Own(p)] = 2] /\ pc' = [pc EXCEPT ![p] = "pair"]
    BY <1>1, <1>4, EnterCall DEF Here
  <2>2. pc'[p] = "pair" /\ \A q \in Procs : q # p => pc'[q] = pc[q]
    BY <1>1, <2>1, Moves DEF Here
  <2>3. \A s \in Sem : val'[s] = IF s = Own(p) THEN 2 ELSE val[s]
    BY <1>1, <2>1, CallFacts DEF Here
  <2>4. CASE p \in Writers
    <3>1. Own(p) = "WR"
      BY <2>4 DEF Own
    <3>2. val["WR"] = 0 /\ val'["WR"] = 2 /\ val'["RD"] = val["RD"] /\ val'["SHM"] = val["SHM"]
      BY <1>1, <2>1, <2>3, <3>1 DEF Here
    <3>3. \A w \in Writers : ~Active(w)
      BY <1>1, <3>2 DEF Here, Served1, Kept
    <3>4. OneWriter' /\ Kept'
      BY <1>1, <2>2, <3>2, <3>3 DEF Here, OneWriter, Kept, Active
    <3>5. pc'[r] = pc[r]
      BY <1>1, <2>2, <2>4 DEF Here
    <3>6. Fresh(r)' /\ Served(r)'
      BY <1>1, <1>2, <1>3, <1>4, <2>2, <3>2, <3>5 DEF Here, Served1, Fresh, Served, Pending, Block, Taking
    <3>7. ASSUME NEW w \in Writers PROVE First(w, r)' /\ Alone(w, r)' /\ Finished(w, r)'
      <4>1. pc'[w] \in {"guard", "check", "fill", "filling", "record", "post"} => pc'[w] = pc[w]
        BY <1>1, <2>2 DEF Here
      <4> QED
        BY <1>1, <1>2, <1>3, <1>4, <2>2, <3>2, <3>5, <4>1 DEF Here, Served1, First, Alone, Finished, Block, Taking, Filling
    <3> QED
      BY <1>1, <3>2, <3>4, <3>6, <3>7, PairParts DEF Here, Served1
  <2>5. CASE p = r
    <3>1. Own(p) = "RD"
      BY <1>1, <2>5 DEF Here, Own
    <3>2. val["RD"] = 0 /\ val'["RD"] = 2 /\ val'["WR"] = val["WR"] /\ val'["SHM"] = val["SHM"]
      BY <1>1, <2>1, <2>3, <3>1 DEF Here
    <3>3. /\ \A w \in Writers : pc'[w] = pc[w] /\ pc[w] \in {"start", "pair", "gone"} /\ said[w] # "finished"
          /\ pc[r] = "start" /\ pc'[r] = "pair" /\ val["SHM"] = 0 /\ out[r] = <<>>
      BY <1>1, <1>2, <2>2, <2>5 DEF Here, Served1, Fresh
    <3>4. OneWriter' /\ Kept'
      BY <1>1, <3>2, <3>3, KeptKeep DEF Here, Active
    <3>5. Fresh(r)' /\ Served(r)'
      BY <1>1, <1>2, <1>3, <1>4, <3>2, <3>3 DEF Here, Served1, Fresh, Served, Taking
    <3>6. ASSUME NEW w \in Writers PROVE First(w, r)' /\ Alone(w, r)' /\ Finished(w, r)'
      BY <1>4, <3>3 DEF First, Alone, Finished, Filling
    <3> QED
      BY <1>1, <3>2, <3>4, <3>5, <3>6, PairParts DEF Here, Served1
  <2> QED
    BY <1>1, <2>4, <2>5 DEF Here
<1>5. CASE Fails(p, EnterOps(Own(p)), "gone", "refused")
  <2>1. /\ UNCHANGED val /\ pc' = [pc EXCEPT ![p] = "gone"]
        /\ said' = [said EXCEPT ![p] = "refused"]
    BY <1>5 DEF Fails, Goto, kernel
  <2>2. pc'[p] = "gone" /\ \A q \in Procs : q # p => pc'[q] = pc[q]
    BY <1>1, <2>1, Moves DEF Here
  <2>3. OneWriter' /\ Kept'
    BY <1>1, <2>1, <2>2, KeptKeep DEF Here, Active
  <2>4. \A q \in Procs : said'[q] = "finished" => said[q] = "finished"
    BY <1>1, <2>1 DEF Here, TypeOK
  <2>5. Fresh(r)' /\ Served(r)'
    BY <1>1, <1>2, <1>3, <2>1, <2>2, <2>4 DEF Here, Served1, Fresh, Served, Pending, Block, Taking
  <2>6. ASSUME NEW w \in Writers PROVE First(w, r)' /\ Alone(w, r)' /\ Finished(w, r)'
    BY <1>1, <1>2, <1>3, <2>1, <2>2, <2>4 DEF Here, Served1, First, Alone, Finished, Block, Taking, Filling
  <2> QED
    BY <1>1, <2>1, <2>3, <2>5, <2>6, PairParts DEF Here, Served1
<1> QED
  BY <1>4, <1>5 DEF Enter

LEMMA PairPair ==
  ASSUME PairInv, SetInv', NEW r, OneReader(r), NEW p \in Procs, Pair(p)
  PROVE  PairInv'
<1>1. Here(r)
  BY Context
<1>2. pc[p] = "pair" /\ UNCHANGED <<data, size, taken, real, out, said, kills>>
  BY DEF Pair, segment
<1>3. \A w \in Writers : Begins(r, w)' = Begins(r, w)
  BY <1>2, SameOut
<1>4. val[Peer(p)] >= 1 /\ val' = [val EXCEPT ![Peer(p)] = @ - 1] /\ pc' = [pc EXCEPT ![p] = "guard"]
  BY <1>1, PairCall DEF Here, Pair
<1>5. pc'[p] = "guard" /\ \A q \in Procs : q # p => pc'[q] = pc[q]
  BY <1>1, <1>4, Moves DEF Here
<1>6. \A s \in Sem : val'[s] = IF s = Peer(p) THEN val[s] - 1 ELSE val[s]
  BY <1>1, <1>4 DEF Here
<1>7. CASE p \in Writers
  <2>1. Peer(p) = "RD"
    BY <1>7 DEF Peer
  <2>2. /\ val["RD"] >= 1 /\ val'["RD"] = val["RD"] - 1 /\ val["RD"] <= 2
        /\ val'["WR"] = val["WR"] /\ val'["SHM"] = val["SHM"]
    BY <1>1, <1>4, <1>6, <2>1 DEF Here, SetInv, Entries
  <2>3. pc'[r] = pc[r] /\ pc[r] # "start"
    <3>1. Active(r)
      BY <1>1, <2>2 DEF Here, SetInv, Clean, Served1, OneReader
    <3> QED
      BY <1>1, <1>5, <1>7, <3>1 DEF Here, Active
  <2>4. OneWriter' /\ Kept'
    BY <1>1, <1>2, <1>5, <2>2, <2>3, KeptKeep DEF Here, Active
  <2>5. Fresh(r)' /\ Served(r)'
    BY <1>1, <1>2, <1>3, <2>2, <2>3 DEF Here, Served1, Fresh, Served, Pending, Block, Taking
  <2>6. ASSUME NEW w \in Writers PROVE First(w, r)'
    <3>1. CASE w = p
      BY <1>1, <1>2, <1>5, <2>2, <2>3, <3>1 DEF Here, Served1, Fresh, First, Taking
    <3>2. CASE w # p
      <4>1. ~Active(w)
        BY <1>1, <1>2, <1>7, <3>2 DEF Here, Served1, OneWriter, Active
      <4> QED
        BY <1>1, <1>5, <3>2, <4>1 DEF Here, First, Active
    <3> QED
      BY <3>1, <3>2
  <2>7. ASSUME NEW w \in Writers PROVE Alone(w, r)'
    BY <1>1, <1>2, <1>3, <1>5, <2>2, <2>3 DEF Here, Served1, Alone, Filling, Taking, Block
  <2>8. ASSUME NEW w \in Writers PROVE Finished(w, r)'
    <3>1. SUFFICES ASSUME said[w] = "finished" PROVE Finished(w, r)'
      BY <1>2 DEF Finished
    <3>2. /\ val["RD"] <= 1 /\ val'["RD"] = 0 /\ size \in Ends /\ (pc[r] = "write" => real[r] \in Ends)
          /\ \A v \in Writers : ~Filling(v)
          /\ real[w] = "eof" => Begins(r, w) /\ Len(out[r]) = Blocks[w]
      BY <1>1, <2>2, <3>1 DEF Here, Served1, Finished
    <3> QED
      BY <1>1, <1>2, <1>3, <1>5, <2>3, <3>2 DEF Here, Finished, Filling
  <2> QED
    BY <1>1, <2>2, <2>4, <2>5, <2>6, <2>7, <2>8, PairParts DEF Here, Served1
<1>8. CASE p = r
  <2>1. Peer(p) = "WR"
    BY <1>1, <1>8 DEF Here, Peer
  <2>2. /\ val["WR"] >= 1 /\ val'["WR"] = val["WR"] - 1
        /\ val'["RD"] = val["RD"] /\ val'["SHM"] = val["SHM"]
    BY <1>1, <1>4, <1>6, <2>1 DEF Here
  <2>3. pc[r] = "pair" /\ pc'[r] = "guard" /\ \A w \in Writers : pc'[w] = pc[w]
    BY <1>1, <1>2, <1>5, <1>8 DEF Here
  <2>4. OneWriter' /\ Kept'
    BY <1>1, <2>2, <2>3 DEF Here, Served1, OneWriter, Kept, Active, OneReader
  <2>5. Fresh(r)' /\ Served(r)'
    BY <1>1, <1>2, <1>3, <2>2, <2>3 DEF Here, Served1, Fresh, Served, Pending, Block, Taking
  <2>6. ASSUME NEW w \in Writers PROVE First(w, r)' /\ Alone(w, r)' /\ Finished(w, r)'
    BY <1>1, <1>2, <1>3, <2>2, <2>3 DEF Here, Served1, First, Alone, Finished, Block, Taking, Filling
  <2> QED
    BY <1>1, <2>2, <2>4, <2>5, <2>6, PairParts DEF Here, Served1
<1> QED
  BY <1>1, <1>7, <1>8 DEF Here

LEMMA GuardPair ==
  ASSUME PairInv, SetInv', NEW r, OneReader(r), NEW p \in Procs, Guard(p)
  PROVE  PairInv'
<1>1. Here(r)
  BY Context
<1>2. pc[p] = "guard" /\ UNCHANGED <<data, size, taken, real, out, said, kills>>
  BY DEF Guard, segment
<1>3. \A w \in Writers : Begins(r, w)' = Begins(r, w)
  BY <1>2, SameOut
<1>4. UNCHANGED val /\ pc' = [pc EXCEPT ![p] = "check"]
  BY <1>1, GuardCall DEF Here, Guard
<1>5. pc'[p] = "check" /\ \A q \in Procs : q # p => pc'[q] = pc[q]
  BY <1>1, <1>4, Moves DEF Here
<1>6. OneWriter' /\ Kept'
  BY <1>1, <1>2, <1>4, <1>5, KeptKeep DEF Here, Active
<1>7. Fresh(r)' /\ Served(r)'
  BY <1>1, <1>2, <1>3, <1>4, <1>5 DEF Here, Served1, Fresh, Served, Pending, Block, Taking
<1>8. ASSUME NEW w \in Writers PROVE First(w, r)'
  <2>1. CASE w = p
    <3>1. SUFFICES ASSUME val["RD"] = 1 PROVE First(w, r)'
      BY <1>4, <1>5, <2>1 DEF First
    <3>2. /\ val["SHM"] = 0 /\ out[r] = <<>> /\ ~Taking(r) /\ pc'[r] = pc[r] /\ taken[w] = 0
      BY <1>1, <1>2, <1>5, <2>1, <3>1 DEF Here, Served1, First, SetInv, NotYet
    <3>3. Len(out[r]) = 0 /\ Begins(r, w)
      BY <3>2, ShmAssumption DEF Begins
    <3> QED
      BY <1>2, <1>3, <1>4, <1>5, <2>1, <3>2, <3>3 DEF First, Taking
  <2>2. CASE w # p
    BY <1>1, <1>2, <1>3, <1>4, <1>5, <2>2 DEF Here, Served1, First, Block, Taking
  <2> QED
    BY <2>1, <2>2
<1>9. ASSUME NEW w \in Writers PROVE Alone(w, r)' /\ Finished(w, r)'
  BY <1>1, <1>2, <1>3, <1>4, <1>5 DEF Here, Served1, Alone, Finished, Block, Taking, Filling
<1> QED
  BY <1>1, <1>4, <1>6, <1>7, <1>8, <1>9, PairParts DEF Here, Served1

LEMMA WriterCheckPair ==
  ASSUME PairInv, SetInv', NEW r, OneReader(r), NEW p \in Writers, WriterCheck(p)
  PROVE  PairInv'
<1>1. Here(r) /\ p \in Procs /\ p # r
  BY Context DEF Here
<1>2. pc[p] = "check" /\ UNCHANGED <<data, size, taken, real, out, kills>>
  BY DEF WriterCheck, CheckAlive, segment
<1>3. \A w \in Writers : Begins(r, w)' = Begins(r, w)
  BY <1>2, SameOut
<1>4. \A w \in Writers : w # p => ~Active(w)
  BY <1>1, <1>2 DEF Here, Served1, OneWriter, Active
<1>5. CASE Done(p, CheckOps(Peer(p), 0), "fill") /\ UNCHANGED said
  <2>1. Peer(p) = "RD" /\ 0 \in {0, -1}
    BY DEF Peer
  <2>2. /\ val["RD"] >= 1 /\ val["SHM"] = 0 /\ val' = [val EXCEPT !["SHM"] = @ + 0]
        /\ pc' = [pc EXCEPT ![p] = "fill"]
    BY <1>1, <1>5, <2>1, CheckCall DEF Here
  <2>3. pc'[p] = "fill" /\ \A q \in Procs : q # p => pc'[q] = pc[q]
    BY <1>1, <2>2, Moves DEF Here
  <2>4. val'["RD"] = val["RD"] /\ val'["SHM"] = 0 /\ val'["WR"] = val["WR"]
    BY <1>1, <2>2 DEF Here
  <2>5. val["RD"] = 1 /\ pc[r] # "start"
    <3>1. val["RD"] <= 2
      BY <1>1 DEF Here, SetInv, Entries
    <3>2. pc[r] # "start" /\ val["RD"] # 2
      BY <1>1, <1>2 DEF Here, Served1, Fresh
    <3> QED
      BY <1>1, <2>2, <3>1, <3>2 DEF Here
  <2>6. ~Taking(r) /\ Begins(r, p) /\ Len(out[r]) = taken[p]
    BY <1>1, <1>2, <2>2, <2>5 DEF Here, Served1, First
  <2>7. \A w \in Writers : said[w] # "finished"
    BY <1>1, <1>2, <2>5 DEF Here, Served1, Finished
  <2>8. pc'[r] = pc[r]
    BY <1>1, <2>3 DEF Here
  <2>9. OneWriter' /\ Kept'
    BY <1>1, <1>2, <2>3, <2>4, <2>8, KeptKeep DEF Here, Active
  <2>10. Fresh(r)' /\ Served(r)'
    BY <1>1, <1>2, <1>3, <2>4, <2>5, <2>8, <2>2 DEF Here, Served1, Fresh, Served, Pending, Block, Taking
  <2>11. ASSUME NEW w \in Writers PROVE First(w, r)' /\ Alone(w, r)' /\ Finished(w, r)'
    <3>1. CASE w = p
      BY <1>1, <1>2, <1>3, <1>5, <2>3, <2>4, <2>5, <2>6, <2>7, <2>8, <3>1 DEF Here, First, Alone, Finished, Taking
    <3>2. CASE w # p
      <4>1. pc'[w] \in {"start", "gone"}
        BY <1>1, <1>4, <2>3, <3>2 DEF Here, Active
      <4> QED
        BY <1>5, <2>7, <4>1 DEF First, Alone, Finished, Filling
    <3> QED
      BY <3>1, <3>2
  <2> QED
    BY <1>1, <2>4, <2>9, <2>10, <2>11, PairParts DEF Here, Served1
<1>6. CASE Fails(p, CheckOps(Peer(p), 0), "leave", "alone")
  <2>1. UNCHANGED val /\ pc' = [pc EXCEPT ![p] = "leave"] /\ said' = [said EXCEPT ![p] = "alone"]
    BY <1>6 DEF Fails, Goto, kernel
  <2>2. pc'[p] = "leave" /\ \A q \in Procs : q # p => pc'[q] = pc[q]
    BY <1>1, <2>1, Moves DEF Here
  <2>3. \A q \in Procs : said'[q] = "finished" => said[q] = "finished"
    BY <1>1, <2>1 DEF Here, TypeOK
  <2>4. OneWriter' /\ Kept'
    BY <1>1, <1>2, <2>1, <2>2, KeptKeep DEF Here, Active
  <2>5. Fresh(r)' /\ Served(r)'
    BY <1>1, <1>2, <1>3, <2>1, <2>2, <2>3 DEF Here, Served1, Fresh, Served, Pending, Block, Taking
  <2>6. ASSUME NEW w \in Writers PROVE First(w, r)' /\ Alone(w, r)' /\ Finished(w, r)'
    BY <1>1, <1>2, <1>3, <2>1, <2>2, <2>3 DEF Here, Served1, First, Alone, Finished, Block, Taking, Filling
  <2> QED
    BY <1>1, <2>1, <2>4, <2>5, <2>6, PairParts DEF Here, Served1
<1> QED
  BY <1>5, <1>6 DEF WriterCheck, CheckAlive

LEMMA ReaderCheckPair ==
  ASSUME PairInv, SetInv', NEW r, OneReader(r), ReaderCheck(r)
  PROVE  PairInv'
<1>1. Here(r)
  BY Context
<1>2. pc[r] = "check" /\ UNCHANGED <<data, size, taken, real, out, kills>>
  BY DEF ReaderCheck, CheckAlive, segment
<1>3. \A w \in Writers : Begins(r, w)' = Begins(r, w)
  BY <1>2, SameOut
<1>4. CASE Done(r, CheckOps(Peer(r), -1), "scan") /\ UNCHANGED said
  <2>1. -1 \in {0, -1} /\ -1 # 0
    OBVIOUS
  <2>2. val["SHM"] >= 1 /\ val' = [val EXCEPT !["SHM"] = @ + (-1)] /\ pc' = [pc EXCEPT ![r] = "scan"]
    BY <1>1, <1>4, <2>1, CheckCall DEF Here
  <2>3. pc'[r] = "scan" /\ \A w \in Writers : pc'[w] = pc[w]
    BY <1>1, <2>2, Moves DEF Here
  <2>4. val'["RD"] = val["RD"] /\ val'["SHM"] = val["SHM"] - 1 /\ val'["WR"] = val["WR"]
    BY <1>1, <2>2 DEF Here
  <2>5. OneWriter' /\ Kept'
    BY <1>1, <1>2, <2>3, <2>4, KeptKeep DEF Here, Active
  <2>9. val'["SHM"] <= 2
    BY <1>1, <2>4 DEF Here, Served1
  <2>6. Fresh(r)' /\ Served(r)'
    BY <1>1, <1>2, <1>3, <2>2, <2>3, <2>4 DEF Here, Served1, Fresh, Served, Pending, Block, Taking
  <2>7. ASSUME NEW w \in Writers PROVE First(w, r)'
    <3>1. CASE pc[w] = "check" /\ val["RD"] = 1
      <4>1. val["SHM"] = 2
        BY <1>1, <1>2, <2>2, <3>1 DEF Here, Served1, First, Taking
      <4>2. Begins(r, w) /\ Len(out[r]) + 1 = taken[w] /\ Block(r, w, size)
        BY <1>1, <1>2, <3>1, <4>1 DEF Here, Served1, First
      <4> QED
        BY <1>2, <1>3, <2>3, <2>4, <3>1, <4>1, <4>2 DEF First, Block, Taking
    <3>2. CASE pc[w] = "guard" /\ val["RD"] = 1
      BY <1>1, <2>2, <3>2 DEF Here, Served1, First
    <3> QED
      BY <2>3, <2>4, <3>1, <3>2 DEF First
  <2>8. ASSUME NEW w \in Writers PROVE Alone(w, r)' /\ Finished(w, r)'
    BY <1>1, <1>2, <1>3, <1>4, <2>2, <2>3, <2>4 DEF Here, Served1, Alone, Finished, Filling
  <2> QED
    BY <1>1, <2>5, <2>6, <2>7, <2>8, <2>9, PairParts DEF Here, Served1
<1>5. CASE Fails(r, CheckOps(Peer(r), -1), "leave", "alone")
  <2>1. UNCHANGED val /\ pc' = [pc EXCEPT ![r] = "leave"] /\ said' = [said EXCEPT ![r] = "alone"]
    BY <1>5 DEF Fails, Goto, kernel
  <2>2. pc'[r] = "leave" /\ \A w \in Writers : pc'[w] = pc[w] /\ said'[w] = said[w]
    BY <1>1, <2>1, Moves DEF Here, TypeOK
  <2>3. OneWriter' /\ Kept'
    BY <1>1, <1>2, <2>1, <2>2, KeptKeep DEF Here, Active
  <2>4. Fresh(r)' /\ Served(r)'
    BY <1>1, <1>2, <1>3, <2>1, <2>2 DEF Here, Served1, Fresh, Served, Taking
  <2>5. ASSUME NEW w \in Writers PROVE First(w, r)' /\ Alone(w, r)' /\ Finished(w, r)'
    BY <1>1, <1>2, <1>3, <2>1, <2>2 DEF Here, Served1, First, Alone, Finished, Block, Taking, Filling
  <2> QED
    BY <1>1, <2>1, <2>3, <2>4, <2>5, PairParts DEF Here, Served1
<1> QED
  BY <1>4, <1>5 DEF ReaderCheck, CheckAlive

\* The segment belongs to the writer between its check and its post.
LEMMA FillPair ==
  ASSUME PairInv, SetInv', NEW r, OneReader(r), NEW p \in Writers, Fill(p)
  PROVE  PairInv'
<1>1. Here(r) /\ p \in Procs /\ p # r
  BY Context DEF Here
<1>2. pc[p] = "fill" /\ UNCHANGED <<val, size, taken, out, said, kills>>
  BY DEF Fill, kernel
<1>3. \A w \in Writers : Begins(r, w)' = Begins(r, w)
  BY <1>2, SameOut
<1>4. \A w \in Writers : w # p => ~Active(w)
  BY <1>1, <1>2 DEF Here, Served1, OneWriter, Active
<1>5. /\ val["RD"] <= 1 /\ val["SHM"] = 0 /\ pc[r] # "start" /\ ~Taking(r)
      /\ Begins(r, p) /\ Len(out[r]) = taken[p] /\ \A w \in Writers : said[w] # "finished"
  BY <1>1, <1>2 DEF Here, Served1, Alone, Finished, Filling
<1>6. PICK b : /\ pc' = [pc EXCEPT ![p] = b]
               /\ \/ b = "filling" /\ real' = [real EXCEPT ![p] = SizeOf(p, taken[p] + 1)]
                  \/ /\ b = "record"
                     /\ \/ real' = [real EXCEPT ![p] = "eof"] /\ taken[p] = Blocks[p]
                        \/ real' = [real EXCEPT ![p] = "error"]
  BY DEF Fill, Goto
<1>7. pc'[p] = b /\ \A q \in Procs : q # p => pc'[q] = pc[q]
  BY <1>1, <1>6, Moves DEF Here
<1>8. pc'[r] = pc[r] /\ real'[r] = real[r]
  BY <1>1, <1>6, <1>7 DEF Here, TypeOK
<1>9. OneWriter' /\ Kept'
  BY <1>1, <1>2, <1>6, <1>7, <1>8, KeptKeep DEF Here, Active
<1>10. Fresh(r)' /\ Served(r)'
  BY <1>1, <1>2, <1>3, <1>5, <1>8 DEF Here, Served1, Fresh, Served, Taking
<1>11. ASSUME NEW w \in Writers PROVE First(w, r)' /\ Alone(w, r)' /\ Finished(w, r)'
  <2>1. CASE w = p
    <3>1. First(w, r)' /\ Finished(w, r)'
      BY <1>2, <1>5, <1>6, <1>7, <2>1 DEF First, Finished
    <3>2. \/ b = "filling" /\ real'[p] = SizeOf(p, taken[p] + 1)
          \/ b = "record" /\ real'[p] \in Ends /\ (real'[p] = "eof" => taken[p] = Blocks[p])
      BY <1>1, <1>6 DEF Here, TypeOK, Ends
    <3>3. Alone(w, r)'
      BY <1>2, <1>3, <1>5, <1>7, <1>8, <2>1, <3>2 DEF Alone, Taking
    <3> QED
      BY <3>1, <3>3
  <2>2. CASE w # p
    <3>1. pc'[w] \in {"start", "gone"}
      BY <1>1, <1>4, <1>7, <2>2 DEF Here, Active
    <3> QED
      BY <1>2, <1>5, <3>1 DEF First, Alone, Finished, Filling
  <2> QED
    BY <2>1, <2>2
<1> QED
  BY <1>1, <1>2, <1>9, <1>10, <1>11, PairParts DEF Here, Served1

LEMMA FilledPair ==
  ASSUME PairInv, SetInv', NEW r, OneReader(r), NEW p \in Writers, Filled(p)
  PROVE  PairInv'
<1>1. Here(r) /\ p \in Procs /\ p # r
  BY Context DEF Here
<1>2. /\ pc[p] = "filling" /\ UNCHANGED <<val, size, real, out, said, kills>>
      /\ taken' = [taken EXCEPT ![p] = @ + 1] /\ data' = <<p, taken[p] + 1>>
      /\ pc' = [pc EXCEPT ![p] = "record"]
  BY DEF Filled, Goto, kernel
<1>3. \A w \in Writers : Begins(r, w)' = Begins(r, w)
  BY <1>2, SameOut
<1>4. \A w \in Writers : w # p => ~Active(w)
  BY <1>1, <1>2 DEF Here, Served1, OneWriter, Active
<1>5. /\ val["RD"] <= 1 /\ val["SHM"] = 0 /\ pc[r] # "start" /\ ~Taking(r)
      /\ Begins(r, p) /\ Len(out[r]) = taken[p] /\ real[p] = SizeOf(p, taken[p] + 1)
      /\ \A w \in Writers : said[w] # "finished"
  BY <1>1, <1>2 DEF Here, Served1, Alone, Finished, Filling
<1>6. taken[p] < Blocks[p] /\ taken[p] \in Nat /\ taken'[p] = taken[p] + 1
  BY <1>1, <1>2 DEF Here, SetInv, TypeOK, Fills
<1>7. pc'[p] = "record" /\ \A q \in Procs : q # p => pc'[q] = pc[q]
  BY <1>1, <1>2, Moves DEF Here
<1>8. pc'[r] = pc[r]
  BY <1>1, <1>7 DEF Here
<1>9. OneWriter' /\ Kept'
  BY <1>1, <1>2, <1>7, <1>8, KeptKeep DEF Here, Active
<1>10. Fresh(r)' /\ Served(r)'
  BY <1>1, <1>2, <1>3, <1>5, <1>8 DEF Here, Served1, Fresh, Served, Taking
<1>11. ASSUME NEW w \in Writers PROVE First(w, r)' /\ Alone(w, r)' /\ Finished(w, r)'
  <2>1. CASE w = p
    <3>1. First(w, r)' /\ Finished(w, r)'
      BY <1>2, <1>5, <1>7, <2>1 DEF First, Finished
    <3>2. Block(r, p, real[p])' /\ Len(out'[r]) + 1 = taken'[p]
      BY <1>2, <1>3, <1>5, <1>6 DEF Block
    <3>3. Alone(w, r)'
      BY <1>2, <1>3, <1>5, <1>7, <1>8, <2>1, <3>2 DEF Alone, Taking
    <3> QED
      BY <3>1, <3>3
  <2>2. CASE w # p
    <3>1. pc'[w] \in {"start", "gone"}
      BY <1>1, <1>4, <1>7, <2>2 DEF Here, Active
    <3> QED
      BY <1>2, <1>5, <3>1 DEF First, Alone, Finished, Filling
  <2> QED
    BY <2>1, <2>2
<1> QED
  BY <1>1, <1>2, <1>9, <1>10, <1>11, PairParts DEF Here, Served1

LEMMA RecordPair ==
  ASSUME PairInv, SetInv', NEW r, OneReader(r), NEW p \in Writers, RecordSize(p)
  PROVE  PairInv'
<1>1. Here(r) /\ p \in Procs /\ p # r
  BY Context DEF Here
<1>2. /\ pc[p] = "record" /\ UNCHANGED <<val, data, taken, real, out, said, kills>>
      /\ size' = real[p] /\ pc' = [pc EXCEPT ![p] = "post"]
  BY DEF RecordSize, Goto, kernel
<1>3. \A w \in Writers : Begins(r, w)' = Begins(r, w)
  BY <1>2, SameOut
<1>4. \A w \in Writers : w # p => ~Active(w)
  BY <1>1, <1>2 DEF Here, Served1, OneWriter, Active
<1>5. /\ val["RD"] <= 1 /\ val["SHM"] = 0 /\ pc[r] # "start" /\ ~Taking(r)
      /\ \A w \in Writers : said[w] # "finished"
  BY <1>1, <1>2 DEF Here, Served1, Alone, Finished, Filling
<1>6. pc'[p] = "post" /\ \A q \in Procs : q # p => pc'[q] = pc[q]
  BY <1>1, <1>2, Moves DEF Here
<1>7. pc'[r] = pc[r]
  BY <1>1, <1>6 DEF Here
<1>8. OneWriter' /\ Kept'
  BY <1>1, <1>2, <1>6, <1>7, KeptKeep DEF Here, Active
<1>9. Fresh(r)' /\ Served(r)'
  BY <1>1, <1>2, <1>3, <1>5, <1>7 DEF Here, Served1, Fresh, Served, Taking
<1>10. ASSUME NEW w \in Writers PROVE First(w, r)' /\ Alone(w, r)' /\ Finished(w, r)'
  <2>1. CASE w = p
    <3>1. First(w, r)' /\ Finished(w, r)'
      BY <1>2, <1>5, <1>6, <2>1 DEF First, Finished
    <3>2. Alone(w, r)'
      BY <1>1, <1>2, <1>3, <1>5, <1>6, <1>7, <2>1 DEF Here, Served1, Alone, Filling, Taking, Block
    <3> QED
      BY <3>1, <3>2
  <2>2. CASE w # p
    <3>1. pc'[w] \in {"start", "gone"}
      BY <1>1, <1>4, <1>6, <2>2 DEF Here, Active
    <3> QED
      BY <1>2, <1>5, <3>1 DEF First, Alone, Finished, Filling
  <2> QED
    BY <2>1, <2>2
<1> QED
  BY <1>1, <1>2, <1>8, <1>9, <1>10, PairParts DEF Here, Served1

LEMMA PostPair ==
  ASSUME PairInv, SetInv', NEW r, OneReader(r), NEW p \in Writers, Post(p)
  PROVE  PairInv'
<1>1. Here(r) /\ p \in Procs /\ p # r
  BY Context DEF Here
<1>2. /\ pc[p] = "post" /\ UNCHANGED <<data, size, taken, real, out, kills>>
      /\ said' = [said EXCEPT ![p] = IF real[p] \in Ends THEN "finished" ELSE @]
  BY DEF Post, segment
<1>3. \A w \in Writers : Begins(r, w)' = Begins(r, w)
  BY <1>2, SameOut
<1>4. \A w \in Writers : w # p => ~Active(w)
  BY <1>1, <1>2 DEF Here, Served1, OneWriter, Active
<1>5. /\ val["RD"] <= 1 /\ val["SHM"] = 0 /\ pc[r] # "start" /\ ~Taking(r) /\ Begins(r, p)
      /\ size = real[p]
      /\ \/ real[p] \in Ends /\ Len(out[r]) = taken[p] /\ (real[p] = "eof" => taken[p] = Blocks[p])
         \/ Block(r, p, real[p]) /\ Len(out[r]) + 1 = taken[p]
      /\ \A w \in Writers : said[w] # "finished"
  BY <1>1, <1>2 DEF Here, Served1, Alone, Finished, Filling
<1> DEFINE b == IF real[p] \in Ends THEN "leave" ELSE "check"
<1>6. /\ val'["SHM"] = 2 /\ val'["WR"] = val["WR"] /\ val'["RD"] = val["RD"]
      /\ pc' = [pc EXCEPT ![p] = b]
  <2>1. /\ val'["SHM"] = val["SHM"] + 2
        /\ val'["WR"] = val["WR"] /\ val'["RD"] = val["RD"] /\ pc' = [pc EXCEPT ![p] = b]
    BY <1>1, PostCall DEF Here, Post
  <2> QED
    BY <1>5, <2>1
<1>14. b \in {"leave", "check"} /\ (b = "leave" <=> real[p] \in Ends)
  OBVIOUS
<1> HIDE DEF b
<1>7. pc'[p] = b /\ \A q \in Procs : q # p => pc'[q] = pc[q]
  BY <1>1, <1>6, Moves DEF Here
<1>8. pc'[r] = pc[r] /\ b \in {"leave", "check"} /\ (b = "leave" <=> real[p] \in Ends)
  BY <1>1, <1>7, <1>14 DEF Here
<1>9. \A w \in Writers : said'[w] = "finished" <=> w = p /\ b = "leave"
  BY <1>1, <1>2, <1>5, <1>8 DEF Here, TypeOK
<1>10. OneWriter' /\ Kept'
  BY <1>1, <1>2, <1>6, <1>7, <1>8, KeptKeep DEF Here, Active
<1>11. Fresh(r)'
  BY <1>1, <1>5, <1>6, <1>8 DEF Here, Fresh
<1>12. Served(r)'
  BY <1>1, <1>2, <1>3, <1>5, <1>8 DEF Here, Served1, Served, Pending, Block, Taking
<1>13. ASSUME NEW w \in Writers PROVE First(w, r)' /\ Alone(w, r)' /\ Finished(w, r)'
  <2>1. CASE w = p
    <3>1. First(w, r)'
      BY <1>2, <1>3, <1>5, <1>6, <1>7, <1>8, <2>1 DEF First, Taking, Block
    <3>2. Alone(w, r)'
      BY <1>7, <1>8, <2>1 DEF Alone, Filling
    <3>3. \A v \in Writers : ~Filling(v)' /\ (pc'[v] \in {"guard", "check"} => v = p /\ b = "check")
      BY <1>1, <1>4, <1>7, <1>8 DEF Here, Filling, Active
    <3>4. Finished(w, r)'
      BY <1>2, <1>3, <1>5, <1>6, <1>8, <1>9, <2>1, <3>3 DEF Finished, Taking, Block, SizeOf, Ends
    <3> QED
      BY <3>1, <3>2, <3>4
  <2>2. CASE w # p
    <3>1. pc'[w] \in {"start", "gone"}
      BY <1>1, <1>4, <1>7, <2>2 DEF Here, Active
    <3> QED
      BY <1>9, <2>2, <3>1 DEF First, Alone, Finished, Filling
  <2> QED
    BY <2>1, <2>2
<1> QED
  BY <1>1, <1>6, <1>10, <1>11, <1>12, <1>13, PairParts DEF Here, Served1

LEMMA ScanPair ==
  ASSUME PairInv, SetInv', NEW r, OneReader(r), ScanSize(r)
  PROVE  PairInv'
<1>1. Here(r)
  BY Context
<1>2. /\ pc[r] = "scan" /\ UNCHANGED <<val, data, size, taken, out, said, kills>>
      /\ real' = [real EXCEPT ![r] = size] /\ pc' = [pc EXCEPT ![r] = "write"]
  BY DEF ScanSize, Goto, kernel, segment
<1>3. \A w \in Writers : Begins(r, w)' = Begins(r, w)
  BY <1>2, SameOut
<1>4. /\ pc'[r] = "write" /\ real'[r] = size
      /\ \A w \in Writers : pc'[w] = pc[w] /\ real'[w] = real[w]
  BY <1>1, <1>2, Moves DEF Here, TypeOK
<1>5. OneWriter' /\ Kept'
  BY <1>1, <1>2, <1>4, KeptKeep DEF Here, Active
<1>6. Fresh(r)' /\ Served(r)'
  BY <1>1, <1>2, <1>3, <1>4 DEF Here, Served1, Fresh, Served, Pending, Block, Taking
<1>7. ASSUME NEW w \in Writers PROVE First(w, r)' /\ Alone(w, r)' /\ Finished(w, r)'
  BY <1>1, <1>2, <1>3, <1>4 DEF Here, Served1, First, Alone, Finished, Block, Taking, Filling
<1> QED
  BY <1>1, <1>2, <1>5, <1>6, <1>7, PairParts DEF Here, Served1

\* The block r was to write next is written.
LEMMA Written ==
  ASSUME NEW r \in Readers, NEW w \in Writers, NEW S, out[r] \in Seq(S), Block(r, w, real[r]),
         out'[r] = Append(out[r], <<data, real[r]>>)
  PROVE  Begins(r, w)' /\ Len(out'[r]) = Len(out[r]) + 1
<1>1. Len(out'[r]) = Len(out[r]) + 1 /\ Len(out[r]) \in Nat
  OBVIOUS
<1>2. \A i \in 1 .. Len(out[r]) : out'[r][i] = out[r][i]
  OBVIOUS
<1>3. out'[r][Len(out[r]) + 1] = <<data, real[r]>>
  OBVIOUS
<1>4. /\ Len(out[r]) < Blocks[w] /\ data = <<w, Len(out[r]) + 1>> /\ real[r] = SizeOf(w, Len(out[r]) + 1)
      /\ \A i \in 1 .. Len(out[r]) : out[r][i] = <<<<w, i>>, SizeOf(w, i)>>
  BY DEF Block, Begins
<1>5. Len(out'[r]) <= Blocks[w]
  BY <1>1, <1>4, ShmAssumption
<1>6. \A i \in 1 .. Len(out[r]) + 1 : out'[r][i] = <<<<w, i>>, SizeOf(w, i)>>
  <2> TAKE i \in 1 .. Len(out[r]) + 1
  <2>1. i \in 1 .. Len(out[r]) \/ i = Len(out[r]) + 1
    BY <1>1
  <2> QED
    BY <2>1, <1>2, <1>3, <1>4
<1> QED
  BY <1>1, <1>5, <1>6 DEF Begins, SizeOf

LEMMA WritePair ==
  ASSUME PairInv, SetInv', NEW r, OneReader(r), WriteOut(r)
  PROVE  PairInv'
<1>1. Here(r)
  BY Context
<1>2. /\ pc[r] = "write" /\ UNCHANGED <<val, data, size, taken, real, said, kills>>
      /\ pc' = [pc EXCEPT ![r] = "ack"]
      /\ out' = [out EXCEPT ![r] = IF real[r] \in Ends THEN @ ELSE Append(@, <<data, real[r]>>)]
  BY DEF WriteOut, Goto, kernel, segment
<1>3. pc'[r] = "ack" /\ \A w \in Writers : pc'[w] = pc[w]
  BY <1>1, <1>2, Moves DEF Here
<1>4. OneWriter' /\ Kept'
  BY <1>1, <1>2, <1>3, KeptKeep DEF Here, Active
<1>5. Fresh(r)'
  BY <1>1, <1>2, <1>3 DEF Here, Served1, Fresh, Taking
<1>6. \A w \in Writers : ~Filling(w) /\ (pc[w] = "guard" => val["RD"] # 1)
  BY <1>1, <1>2 DEF Here, Served1, Alone, First, Taking
<1>7. \A w \in Writers : Alone(w, r)' /\ (pc'[w] = "guard" => val'["RD"] # 1)
  BY <1>2, <1>3, <1>6 DEF Alone, Filling
<1>8. CASE real[r] \in Ends
  <2>1. out'[r] = out[r]
    BY <1>1, <1>2, <1>8 DEF Here, TypeOK
  <2>2. \A w \in Writers : Begins(r, w)' = Begins(r, w)
    BY <2>1 DEF Begins
  <2>3. Served(r)'
    BY <1>1, <1>2, <1>3, <2>2 DEF Here, Served1, Served, Taking
  <2>4. ASSUME NEW w \in Writers PROVE ~(pc[w] = "check" /\ val["RD"] = 1)
    BY <1>1, <1>2, <1>8 DEF Here, Served1, First, Taking, Block, SizeOf, Ends
  <2>5. ASSUME NEW w \in Writers PROVE First(w, r)' /\ Finished(w, r)'
    BY <1>1, <1>2, <1>3, <1>7, <2>1, <2>2, <2>4 DEF Here, Served1, First, Finished, Filling
  <2> QED
    BY <1>1, <1>2, <1>4, <1>5, <1>7, <2>3, <2>5, PairParts DEF Here, Served1
<1>9. CASE real[r] \notin Ends
  <2>1. out[r] \in Seq(Contents \X {"full", "part"}) /\ out'[r] = Append(out[r], <<data, real[r]>>)
    BY <1>1, <1>2, <1>9 DEF Here, TypeOK
  <2>2. ASSUME NEW w \in Writers, Block(r, w, real[r])
        PROVE  Begins(r, w)' /\ Len(out'[r]) = Len(out[r]) + 1
    BY <1>1, <2>1, <2>2, Written DEF Here
  <2>3. \E w \in Writers : Block(r, w, real[r])
    BY <1>1, <1>2, <1>9 DEF Here, Served1, Served, Pending
  <2>4. Served(r)'
    BY <1>1, <1>2, <1>3, <2>2, <2>3 DEF Here, Served1, Served, Taking
  <2>5. \A w \in Writers : said[w] # "finished"
    BY <1>1, <1>2, <1>9 DEF Here, Served1, Finished
  <2>6. ASSUME NEW w \in Writers PROVE First(w, r)' /\ Finished(w, r)'
    <3>1. CASE pc[w] = "check" /\ val["RD"] = 1
      <4>1. /\ val["SHM"] = 1 /\ Len(out[r]) + 1 = taken[w] /\ Block(r, w, real[r])
        BY <1>1, <1>2, <3>1 DEF Here, Served1, First, Taking
      <4>2. Begins(r, w)' /\ Len(out'[r]) = taken'[w]
        BY <1>2, <2>2, <4>1
      <4> QED
        BY <1>2, <1>3, <2>5, <3>1, <4>1, <4>2 DEF First, Finished, Taking
    <3>2. CASE ~(pc[w] = "check" /\ val["RD"] = 1)
      BY <1>2, <1>3, <1>7, <2>5, <3>2 DEF First, Finished
    <3> QED
      BY <3>1, <3>2
  <2> QED
    BY <1>1, <1>2, <1>4, <1>5, <1>7, <2>4, <2>6, PairParts DEF Here, Served1
<1> QED
  BY <1>8, <1>9

LEMMA AckPair ==
  ASSUME PairInv, SetInv', NEW r, OneReader(r), Ack(r)
  PROVE  PairInv'
<1>1. Here(r)
  BY Context
<1>2. /\ pc[r] = "ack" /\ UNCHANGED <<data, size, taken, real, out, kills>>
      /\ said' = [said EXCEPT ![r] = IF real[r] \in Ends THEN "finished" ELSE @]
  BY DEF Ack, segment
<1>3. \A w \in Writers : Begins(r, w)' = Begins(r, w)
  BY <1>2, SameOut
<1> DEFINE b == IF real[r] \in Ends THEN "leave" ELSE "check"
<1>4. /\ val["SHM"] = 1 /\ val'["SHM"] = 0 /\ val'["WR"] = val["WR"] /\ val'["RD"] = val["RD"]
      /\ pc' = [pc EXCEPT ![r] = b]
  <2>1. val["SHM"] <= 1
    BY <1>1, <1>2 DEF Here, Served1, Served, Taking
  <2>2. /\ val["SHM"] + (-1) >= 0 /\ val'["SHM"] = val["SHM"] + (-1)
        /\ val'["WR"] = val["WR"] /\ val'["RD"] = val["RD"] /\ pc' = [pc EXCEPT ![r] = b]
    BY <1>1, PostCall DEF Here, Ack
  <2> QED
    BY <1>1, <2>1, <2>2 DEF Here
<1>5. b \in {"leave", "check"}
  OBVIOUS
<1> HIDE DEF b
<1>6. pc'[r] = b /\ \A w \in Writers : pc'[w] = pc[w] /\ said'[w] = said[w]
  BY <1>1, <1>2, <1>4, Moves DEF Here, TypeOK
<1>7. OneWriter' /\ Kept'
  BY <1>1, <1>4, <1>5, <1>6, KeptKeep DEF Here, Active
<1>8. Fresh(r)' /\ Served(r)'
  BY <1>1, <1>2, <1>3, <1>4, <1>5, <1>6 DEF Here, Served1, Fresh, Served, Taking
<1>9. ASSUME NEW w \in Writers PROVE First(w, r)' /\ Alone(w, r)' /\ Finished(w, r)'
  BY <1>1, <1>2, <1>3, <1>4, <1>5, <1>6 DEF Here, Served1, First, Alone, Finished, Taking, Filling
<1> QED
  BY <1>1, <1>4, <1>7, <1>8, <1>9, PairParts DEF Here, Served1

\* SEM_UNDO leaves the reader with what it has, and the others with no reader or
\* no writer.
LEMMA GonePair ==
  ASSUME PairInv, SetInv', NEW r, OneReader(r), NEW p \in Procs, Active(p), Gone(p),
         UNCHANGED <<data, size, taken, real, out>>,
         \A q \in Procs : said'[q] = "finished" => said[q] = "finished"
  PROVE  PairInv'
<1>1. Here(r)
  BY Context
<1>2. \A w \in Writers : Begins(r, w)' = Begins(r, w)
  BY SameOut
<1>3. /\ pc' = [pc EXCEPT ![p] = "gone"]
      /\ \A s \in Sem : /\ val'[s] \in Nat /\ val'[s] <= val[s]
                        /\ val'[s] = IF val[s] + adj[p][s] < 0 THEN 0 ELSE val[s] + adj[p][s]
      /\ val'[Own(p)] = 0 /\ val'[Peer(p)] = val[Peer(p)]
  BY <1>1, GoneFacts DEF Here
<1>4. pc'[p] = "gone" /\ \A q \in Procs : q # p => pc'[q] = pc[q]
  BY <1>1, <1>3, Moves DEF Here
<1>5. val'["SHM"] <= 2 /\ (val["SHM"] = 0 => val'["SHM"] = 0)
  BY <1>1, <1>3 DEF Here, Served1
<1>6. CASE p \in Writers
  <2>1. Own(p) = "WR" /\ Peer(p) = "RD"
    BY <1>6 DEF Own, Peer
  <2>2. val'["WR"] = 0 /\ val'["RD"] = val["RD"] /\ pc'[r] = pc[r]
    BY <1>1, <1>3, <1>4, <1>6, <2>1 DEF Here
  <2>3. \A w \in Writers : w # p => pc'[w] = pc[w] /\ ~Active(w)
    BY <1>1, <1>4, <1>6 DEF Here, Served1, OneWriter
  <2>4. \A w \in Writers : pc'[w] \in {"start", "gone"}
    BY <1>4, <2>3 DEF Active
  <2>5. OneWriter' /\ Kept'
    BY <2>4 DEF OneWriter, Kept, Active
  <2>6. Fresh(r)'
    BY <1>1, <1>4, <1>5, <2>2, <2>4 DEF Here, Served1, Fresh, Taking
  <2>7. Served(r)'
    <3>1. val["SHM"] <= 1 => val'["SHM"] <= 1
      BY <1>1, <1>3 DEF Here
    <3>2. val'["SHM"] > 0 => val["SHM"] > 0
      BY <1>1, <1>3 DEF Here
    <3> QED
      BY <1>1, <1>2, <2>2, <3>1, <3>2 DEF Here, Served1, Served, Pending, Block, Taking
  <2>8. ASSUME NEW w \in Writers PROVE First(w, r)' /\ Alone(w, r)' /\ Finished(w, r)'
    BY <1>1, <1>2, <2>2, <2>4 DEF Here, Served1, First, Alone, Finished, Filling
  <2> QED
    BY <1>1, <1>5, <2>5, <2>6, <2>7, <2>8, PairParts DEF Here, Served1
<1>7. CASE p = r
  <2>1. Own(p) = "RD" /\ Peer(p) = "WR"
    BY <1>1, <1>7 DEF Here, Own, Peer
  <2>2. val'["RD"] = 0 /\ val'["WR"] = val["WR"] /\ pc'[r] = "gone" /\ \A w \in Writers : pc'[w] = pc[w]
    BY <1>1, <1>3, <1>4, <1>7, <2>1 DEF Here
  <2>3. OneWriter' /\ Kept'
    BY <1>1, <2>2, KeptKeep DEF Here, Active
  <2>4. Fresh(r)' /\ Served(r)'
    BY <1>1, <1>2, <2>2 DEF Here, Served1, Fresh, Served, Taking
  <2>5. ASSUME NEW w \in Writers PROVE First(w, r)' /\ Alone(w, r)' /\ Finished(w, r)'
    BY <1>1, <1>2, <1>5, <2>2 DEF Here, Served1, First, Alone, Finished, Block, Taking, Filling
  <2> QED
    BY <1>1, <1>5, <2>3, <2>4, <2>5, PairParts DEF Here, Served1
<1> QED
  BY <1>1, <1>6, <1>7 DEF Here

LEMMA PairInit ==
  ASSUME Writers # {}, NEW r, OneReader(r), Init
  PROVE  PairInv
<1>1. SetInv /\ r \in Readers /\ r \in Procs
  BY SetInit DEF OneReader, Procs
<1>2. /\ \A q \in Procs : pc[q] = "start" /\ said[q] = "nothing"
      /\ \A w \in Writers : w \in Procs
      /\ out[r] = <<>> /\ Len(out[r]) = 0 /\ val["SHM"] = 0 /\ val["RD"] = 0
  BY <1>1 DEF Init, Procs, Sem
<1>3. \A w \in Writers : Begins(r, w)
  BY <1>2, ShmAssumption DEF Begins
<1>4. OneWriter /\ Kept /\ Fresh(r)
  BY <1>1, <1>2 DEF OneWriter, Kept, Fresh, Active, Taking
<1>5. Served(r)
  BY <1>1, <1>2, <1>3 DEF Served, Taking
<1>6. ASSUME NEW w \in Writers PROVE First(w, r) /\ Alone(w, r) /\ Finished(w, r)
  BY <1>2 DEF First, Alone, Finished, Filling
<1> QED
  BY <1>1, <1>2, <1>4, <1>5, <1>6, PairParts DEF Served1

LEMMA PairInductive ==
  ASSUME NEW r, OneReader(r), PairInv, [Next]_vars
  PROVE  PairInv'
<1>1. SetInv'
  BY SetInductive DEF PairInv
<1>2. Here(r) /\ \A q \in Readers : q = r
  BY Context DEF OneReader
<1>3. ASSUME NEW p \in Procs, Leave(p) PROVE PairInv'
  <2>1. Active(p) /\ Gone(p) /\ UNCHANGED <<data, size, taken, real, out, said>>
    BY <1>3 DEF Leave, Active, segment
  <2> QED
    BY <1>1, <2>1, GonePair
<1>4. ASSUME NEW p \in Procs, Kill(p) PROVE PairInv'
  <2>1. /\ Active(p) /\ Gone(p) /\ UNCHANGED <<data, size, taken, real, out>>
        /\ said' = [said EXCEPT ![p] = "killed"]
    BY <1>4 DEF Kill, segment
  <2>2. \A q \in Procs : said'[q] = "finished" => said[q] = "finished"
    BY <1>2, <2>1 DEF Here, TypeOK
  <2> QED
    BY <1>1, <2>1, <2>2, GonePair
<1>5. ASSUME NEW p \in Procs, Common(p) PROVE PairInv'
  BY <1>1, <1>3, <1>5, EnterPair, PairPair, GuardPair DEF Common
<1>6. ASSUME NEW w \in Writers, Writer(w) PROVE PairInv'
  <2>1. w \in Procs
    BY DEF Procs
  <2> QED
    BY <1>1, <1>5, <1>6, <2>1, WriterCheckPair, FillPair, FilledPair, RecordPair, PostPair DEF Writer
<1>7. ASSUME NEW q \in Readers, Reader(q) PROVE PairInv'
  <2>1. q = r /\ r \in Procs
    BY <1>2 DEF Here
  <2> QED
    BY <1>1, <1>5, <1>7, <2>1, ReaderCheckPair, ScanPair, WritePair, AckPair DEF Reader
<1>8. CASE UNCHANGED vars
  <2>1. \A w \in Writers : Begins(r, w)' = Begins(r, w)
    BY <1>8, SameOut DEF vars
  <2>2. Served1(r)'
    BY <1>2, <1>8, <2>1 DEF Here, vars, kernel, segment, Served1, OneWriter, Kept, Fresh, Served, First,
                           Alone, Finished, Active, Filling, Taking, Pending, Block
  <2> QED
    BY <1>1, <2>2, PairParts
<1> QED
  BY <1>4, <1>6, <1>7, <1>8 DEF Next

---------------------------------------------------------------------------
(***************************************************************************)
(* The copy of one file, with one process of each kind.                    *)
(***************************************************************************)
\* A writer that has seen the end of its file has had every block written out.
Eof(w, r) ==
  real[w] = "eof" => pc[w] \in {"record", "post", "leave", "gone"} /\ Len(out[r]) = Blocks[w]

\* What is written is as much of the file.
LEMMA OutPart ==
  ASSUME NEW w \in Writers, NEW r \in Readers, NEW S, out[r] \in Seq(S), Begins(r, w)
  PROVE  out[r] = SubSeq(FileOf(w), 1, Len(out[r])) /\ (Len(out[r]) = Blocks[w] => out[r] = FileOf(w))
<1> DEFINE f == FileOf(w)
           n == Len(out[r])
           T == S \cup {<<<<w, i>>, SizeOf(w, i)>> : i \in 1 .. Blocks[w]}
<1>1. Blocks[w] \in Nat /\ n \in Nat /\ n <= Blocks[w]
  BY ShmAssumption DEF Begins
<1>2. f \in Seq(T) /\ Len(f) = Blocks[w] /\ \A k \in 1 .. Blocks[w] : f[k] = <<<<w, k>>, SizeOf(w, k)>>
  <2>1. f \in [1 .. Blocks[w] -> T]
    BY DEF FileOf
  <2> QED
    BY <1>1, <2>1, SeqDef DEF FileOf
<1>3. ASSUME NEW k \in 1 .. n PROVE out[r][k] = f[k]
  <2>1. k \in 1 .. Blocks[w] /\ k \in 1 .. Len(out[r])
    BY <1>1
  <2> QED
    BY <1>2, <2>1 DEF Begins
<1>7. out[r] \in Seq(T)
  BY SeqMonotonic
<1> HIDE DEF f, n, T
<1>4. /\ SubSeq(f, 1, n) \in Seq(T) /\ Len(SubSeq(f, 1, n)) = n
      /\ \A k \in 1 .. n : SubSeq(f, 1, n)[k] = f[k]
  BY <1>1, <1>2, SubSeqProperties
<1>5. out[r] = SubSeq(f, 1, n)
  BY <1>3, <1>4, <1>7, SeqEqual DEF n
<1>6. n = Blocks[w] => out[r] = f
  BY <1>2, <1>3, <1>7, SeqEqual DEF n
<1> QED
  BY <1>5, <1>6 DEF f, n

OneFile(w, r) == Writers = {w} /\ Readers = {r}

LEMMA CopyContext ==
  ASSUME NEW w, NEW r, OneFile(w, r), PairInv
  PROVE  /\ w \in Writers /\ r \in Readers /\ w \in Procs /\ r \in Procs /\ w # r
         /\ TheWriter = w /\ TheReader = r
         /\ \A p \in Procs : p = w \/ p = r
         /\ TypeOK /\ Begins(r, w) /\ Alone(w, r)
         /\ out[r] = SubSeq(FileOf(w), 1, Len(out[r])) /\ (Len(out[r]) = Blocks[w] => out[r] = FileOf(w))
         /\ Len(out[r]) \in Nat /\ Len(out[r]) <= Blocks[w] /\ Blocks[w] \in Nat
<1>1. w \in Writers /\ r \in Readers /\ w \in Procs /\ r \in Procs /\ w # r
  BY ShmAssumption DEF OneFile, Procs
<1>2. TheWriter = w /\ TheReader = r /\ \A p \in Procs : p = w \/ p = r
  BY DEF OneFile, TheWriter, TheReader, Procs
<1>3. TypeOK /\ Begins(r, w) /\ Alone(w, r)
  BY <1>1 DEF OneFile, PairInv, SetInv, Served
<1>4. out[r] \in Seq(Contents \X {"full", "part"})
  BY <1>1, <1>3 DEF TypeOK
<1>5. Len(out[r]) \in Nat /\ Len(out[r]) <= Blocks[w] /\ Blocks[w] \in Nat
  BY <1>1, <1>3, <1>4, ShmAssumption DEF Begins
<1> QED
  BY <1>1, <1>2, <1>3, <1>4, <1>5, OutPart

\* A step that neither writes nor looks for the next block.
LEMMA NoCopy ==
  ASSUME NEW w, NEW r, OneFile(w, r), PairInv, [Next]_vars, ~WriteOut(r), ~Fill(w)
  PROVE  /\ out' = out /\ real'[w] = real[w]
         /\ pc[w] \in {"record", "post", "leave", "gone"} /\ real[w] = "eof"
              => pc'[w] \in {"record", "post", "leave", "gone"}
<1> DEFINE End == {"record", "post", "leave", "gone"}
<1>1. w \in Procs /\ r \in Procs /\ w # r /\ real \in [Procs -> Sizes] /\ pc \in [Procs -> WriterPlaces \cup ReaderPlaces]
  BY CopyContext DEF TypeOK
<1> USE <1>1
<1>2. ASSUME NEW p \in Procs, Leave(p) \/ Kill(p)
      PROVE  out' = out /\ real' = real /\ (pc[w] \in End => pc'[w] \in End)
  BY <1>2 DEF Leave, Kill, Gone, Goto
<1>3. ASSUME NEW p \in Procs, Enter(p) \/ Pair(p) \/ Guard(p)
      PROVE  out' = out /\ real' = real /\ (pc[w] \in End => pc'[w] = pc[w])
  BY <1>3 DEF Enter, Pair, Guard, Done, Fails, Goto
<1>4. ASSUME NEW p \in Procs, NEW d, NEW place, CheckAlive(p, d, place)
      PROVE  out' = out /\ real' = real /\ (pc[w] \in End => pc'[w] = pc[w])
  BY <1>4 DEF CheckAlive, Done, Fails, Goto
<1>5. CASE Filled(w) \/ RecordSize(w)
  BY <1>5 DEF Filled, RecordSize, Goto
<1>6. CASE Post(w)
  BY <1>6 DEF Post, Done, Goto, Ends
<1>7. CASE ScanSize(r) \/ Ack(r)
  BY <1>7 DEF ScanSize, Ack, Done, Goto
<1>8. CASE UNCHANGED vars
  BY <1>8 DEF vars
<1>9. CASE \E p \in Procs : Kill(p)
  BY <1>2, <1>9
<1>10. CASE Writer(w)
  BY <1>2, <1>3, <1>4, <1>5, <1>6, <1>10 DEF Writer, Common, WriterCheck
<1>11. CASE Reader(r)
  BY <1>2, <1>3, <1>4, <1>7, <1>11 DEF Reader, Common, ReaderCheck
<1> QED
  BY <1>8, <1>9, <1>10, <1>11 DEF Next, OneFile

Part(w, r) ==
  /\ out[r] = SubSeq(FileOf(w), 1, Len(out[r]))
  /\ Len(out[r]) <= Blocks[w] /\ Len(out[r]) \in Nat

LEMMA CopyNext ==
  ASSUME NEW w, NEW r, OneFile(w, r), PairInv, Part(w, r)', Eof(w, r), [Next]_vars
  PROVE  Eof(w, r)' /\ [Copy!Next]_(Copy!vars)
<1>1. /\ w \in Writers /\ r \in Readers /\ w \in Procs /\ r \in Procs /\ w # r
      /\ TheWriter = w /\ TheReader = r
      /\ TypeOK /\ Begins(r, w) /\ Alone(w, r)
      /\ (Len(out[r]) = Blocks[w] => out[r] = FileOf(w))
      /\ Len(out[r]) \in Nat /\ Len(out[r]) <= Blocks[w] /\ Blocks[w] \in Nat
  BY CopyContext
<1>2. out'[r] = SubSeq(FileOf(w), 1, Len(out'[r])) /\ Len(out'[r]) <= Blocks[w] /\ Len(out'[r]) \in Nat
  BY DEF Part
<1>3. Len(FileOf(w)) = Blocks[w]
  BY <1>1 DEF FileOf
<1> SUFFICES Eof(w, r)' /\ (\/ out'[r] = out[r] /\ (real'[w] = "eof") = (real[w] = "eof")
                            \/ Copy!Write \/ Copy!End)
  BY <1>1, Zenon DEF Copy!Next, Copy!vars
<1>4. CASE WriteOut(r)
  <2>1. /\ real' = real /\ pc' = [pc EXCEPT ![r] = "ack"]
        /\ out' = [out EXCEPT ![r] = IF real[r] \in Ends THEN @ ELSE Append(@, <<data, real[r]>>)]
    BY <1>4 DEF WriteOut, Goto
  <2>2. pc'[w] = pc[w]
    BY <1>1, <2>1 DEF TypeOK
  <2>3. out'[r] = out[r] \/ Len(out'[r]) = Len(out[r]) + 1
    BY <1>1, <2>1 DEF TypeOK
  <2>4. CASE out'[r] = out[r]
    BY <2>1, <2>2, <2>4 DEF Eof
  <2>5. CASE Len(out'[r]) = Len(out[r]) + 1
    <3>1. real[w] # "eof"
      BY <1>1, <1>2, <2>5 DEF Eof
    <3>2. Len(out'[r]) \in Len(out[r]) + 1 .. Len(FileOf(w))
      BY <1>1, <1>2, <1>3, <2>5
    <3> QED
      BY <1>1, <1>2, <2>1, <3>1, <3>2 DEF Eof, Copy!Write
  <2> QED
    BY <2>3, <2>4, <2>5
<1>5. CASE Fill(w)
  <2>1. pc[w] = "fill" /\ out' = out /\ real[w] # "eof" /\ Len(out[r]) = taken[w]
    BY <1>1, <1>5 DEF Fill, Eof, Alone, Filling
  <2>2. real'[w] = "eof" => pc'[w] = "record" /\ taken[w] = Blocks[w]
    BY <1>1, <1>5 DEF Fill, Goto, TypeOK, SizeOf
  <2> QED
    BY <1>1, <2>1, <2>2 DEF Eof, Copy!End
<1>6. CASE ~WriteOut(r) /\ ~Fill(w)
  BY <1>6, NoCopy DEF Eof
<1> QED
  BY <1>4, <1>5, <1>6

---------------------------------------------------------------------------
(***************************************************************************)
(* The theorems.                                                           *)
(***************************************************************************)
\* One reader is started and any number of writers.  With two readers WR is used up
\* while its writer is inside, and the entry lets a second one in.
SingleReader == Writers # {} /\ \E r : Readers = {r}

LEMMA PairInvariance == SingleReader => (Spec => []PairInv)
<1> SUFFICES ASSUME Writers # {}, NEW r, Readers = {r} PROVE Spec => []PairInv
  BY DEF SingleReader
<1>1. OneReader(r)
  BY DEF OneReader
<1>2. Init => PairInv
  BY <1>1, PairInit
<1>3. PairInv /\ [Next]_vars => PairInv'
  BY <1>1, PairInductive
<1> QED
  BY <1>2, <1>3, PTL DEF Spec

\* No semaphore is ever negative, an adjustment is two units, and every process
\* is at a place of its program, however many processes are started and killed.
THEOREM TypeCorrect == Spec => []TypeOK
<1>1. SetInv => TypeOK
  BY DEF SetInv
<1> QED
  BY <1>1, SetInvariance, PTL

\* Whoever was killed, with no writer inside nothing is left in WR and SHM, with
\* no reader nothing in RD: SEM_UNDO is all the cleaning up there need be.
THEOREM CleanHolds == Spec => []Clean
<1>1. SetInv => Clean
  BY DEF SetInv
<1> QED
  BY <1>1, SetInvariance, PTL

\* With one reader the entry lets one writer in at a time.
THEOREM OneWriterHolds == SingleReader => (Spec => []OneWriter)
<1>1. PairInv => OneWriter
  BY DEF PairInv
<1> QED
  BY <1>1, PairInvariance, PTL

\* With one reader the segment is never filled while a block is taken from it.
THEOREM NoRaceHolds == SingleReader => (Spec => []NoRace)
<1>1. PairInv => NoRace
  BY DEF PairInv, NoRace, Alone, Filling, Taking
<1> QED
  BY <1>1, PairInvariance, PTL

\* The reader writes the beginning of one file, and all of it when a writer came
\* to the end of its file, whichever processes are killed or fail to read.
THEOREM OneSourceHolds == SingleReader => (Spec => []OneSource)
<1> SUFFICES ASSUME SingleReader PROVE Spec => []OneSource
  OBVIOUS
<1>1. PairInv => OneSource
  <2> SUFFICES ASSUME NEW r, Readers = {r}, PairInv PROVE OneSource
    BY DEF SingleReader
  <2>1. r \in Readers /\ \A q \in Readers : q = r
    OBVIOUS
  <2>2. \E w \in Writers : Begins(r, w)
    BY <2>1 DEF PairInv, Served
  <2>3. \A w \in Writers : said[w] = "finished" /\ real[w] = "eof" => Begins(r, w) /\ Len(out[r]) = Blocks[w]
    BY <2>1 DEF PairInv, Finished
  <2> QED
    BY <2>1, <2>2, <2>3 DEF OneSource
<1>2. Spec => []PairInv
  BY PairInvariance
<1> QED
  BY <1>1, <1>2, PTL

\* With one writer and one reader each step writes out the next block of the file, or
\* finds its end when all is written, or is not seen in the output; nothing follows
\* the end, whichever of the two is killed and when.
THEOREM TransfersHolds ==
  ASSUME NEW w, NEW r, Writers = {w}, Readers = {r}
  PROVE  Spec => Transfers
<1>1. OneFile(w, r) /\ SingleReader /\ OneReader(r)
  BY DEF OneFile, SingleReader, OneReader
<1>2. Init => Copy!Init /\ Eof(w, r)
  <2>1. TheWriter = w /\ TheReader = r /\ w \in Procs /\ r \in Readers
    BY DEF TheWriter, TheReader, Procs
  <2> QED
    BY <2>1 DEF Init, Copy!Init, Eof
<1>3. PairInv => Part(w, r)
  BY <1>1, CopyContext DEF Part
<1>4. PairInv /\ Part(w, r)' /\ Eof(w, r) /\ [Next]_vars => Eof(w, r)' /\ [Copy!Next]_(Copy!vars)
  BY <1>1, CopyNext
<1>5. Spec => []PairInv
  BY <1>1, PairInvariance
<1> QED
  BY <1>2, <1>4, <1>5, <1>3, PTL DEF Spec, Transfers, Copy!Safe
===========================================================================

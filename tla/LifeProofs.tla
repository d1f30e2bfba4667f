---------------------------- MODULE LifeProofs ----------------------------
(***************************************************************************)
(* Theorems about Life, for every field, number of workers, of iterations  *)
(* and of runs.                                                            *)
(***************************************************************************)
EXTENDS Life, FiniteSetTheorems, TLAPS

---------------------------------------------------------------------------
(***************************************************************************)
(* The rows of the workers.                                                *)
(***************************************************************************)
\* Multiplication by a natural number is monotone.
LEMMA TimesMonotone ==
  ASSUME NEW q \in Nat, NEW a \in Nat, NEW b \in Nat, a <= b
  PROVE  q * a \in Nat /\ q * b \in Nat /\ q * a <= q * b
<1>1. b = a + (b - a) /\ b - a \in Nat
  OBVIOUS
<1>2. q * b = q * a + q * (b - a)
  BY <1>1, SMT
<1>3. q * (b - a) \in Nat /\ q * a \in Nat
  BY <1>1, SMT
<1>4. QED
  BY <1>2, <1>3

\* Division of the rows among n workers.
LEMMA Division ==
  ASSUME NEW n \in Nat \ {0}
  PROVE  /\ SizeY \div n \in Nat
         /\ SizeY % n \in 0 .. n - 1
         /\ SizeY = n * (SizeY \div n) + (SizeY % n)
BY FieldAssumption, SMT

\* With at least as many rows as workers the remainder loop moves no bound:
\* worker t starts at row q * t and the last one takes the remainder.
LEMMA ManyRows ==
  ASSUME NEW n \in Nat \ {0}, n <= SizeY, NEW t \in Sems(n)
  PROVE  /\ SizeY \div n \in Nat \ {0}
         /\ StartY(t, n) = (SizeY \div n) * t
         /\ EndY(t, n) = IF t = n - 1 THEN SizeY ELSE (SizeY \div n) * (t + 1)
<1> DEFINE q == SizeY \div n
           m == SizeY % n
<1>1. q \in Nat /\ m \in 0 .. n - 1 /\ SizeY = n * q + m
  BY Division
<1>2. q # 0
  BY <1>1, FieldAssumption, SMT
<1> HIDE DEF q, m
<1>3. n * q >= n
  <2>1. q \in Nat /\ 1 <= q
    BY <1>1, <1>2
  <2>2. n * 1 <= n * q
    BY <2>1, TimesMonotone
  <2>3. QED
    BY <2>2
<1>4. \A r \in SizeY - (m - 1) .. SizeY - 1 : r > n
  <2>1. n * q \in Nat
    BY <1>1, SMT
  <2>2. QED
    BY <1>1, <1>3, <2>1, FieldAssumption
<1>5. {r \in Rs(n) : t >= r} = {} /\ {r \in Rs(n) : t >= r - 1} = {}
  BY <1>4 DEF Rs, Sems, m
<1>6. Cardinality({}) = 0
  BY FS_EmptySet
<1>7. q * t \in Nat /\ q * (t + 1) \in Nat
  BY <1>1, SMT DEF Sems
<1>8. StartY(t, n) = q * t + 0
  BY <1>5, <1>6 DEF StartY, q
<1>9. EndY(t, n) = IF t = n - 1 THEN SizeY ELSE q * (t + 1) + 0
  BY <1>5, <1>6 DEF EndY, q
<1>10. q * t + 0 = q * t /\ q * (t + 1) + 0 = q * (t + 1)
  BY <1>7
<1>11. QED
  BY <1>1, <1>2, <1>8, <1>9, <1>10 DEF q

\* With fewer rows than workers each worker has one row, in order; the last
\* worker has the last row and those before it have none.
LEMMA FewRows ==
  ASSUME NEW n \in Nat \ {0}, n > SizeY, NEW t \in Sems(n)
  PROVE  /\ StartY(t, n) = IF t <= SizeY - 1 THEN t ELSE SizeY - 1
         /\ EndY(t, n) = IF t = n - 1 THEN SizeY
                         ELSE IF t + 1 <= SizeY - 1 THEN t + 1 ELSE SizeY - 1
<1> DEFINE s == IF t <= SizeY - 1 THEN t ELSE SizeY - 1
           e == IF t + 1 <= SizeY - 1 THEN t + 1 ELSE SizeY - 1
<1>1. SizeY \div n = 0 /\ SizeY % n = SizeY
  BY FieldAssumption, SMT
<1>2. Rs(n) = 1 .. SizeY - 1
  BY <1>1, FieldAssumption DEF Rs
<1>3. {r \in Rs(n) : t >= r} = 1 .. s /\ {r \in Rs(n) : t >= r - 1} = 1 .. e
  BY <1>2, FieldAssumption DEF Sems
<1>4. s \in Nat /\ e \in Nat
  BY FieldAssumption DEF Sems
<1>5. \A b \in Nat : Cardinality(1 .. b) = b
  BY FS_Interval
<1> HIDE DEF s, e
<1>6. Cardinality({r \in Rs(n) : t >= r}) = s /\ Cardinality({r \in Rs(n) : t >= r - 1}) = e
  BY <1>3, <1>4, <1>5
<1>7. 0 * t = 0 /\ 0 * (t + 1) = 0
  BY SMT DEF Sems
<1>8. StartY(t, n) = 0 + s
  BY <1>1, <1>6, <1>7 DEF StartY
<1>9. EndY(t, n) = IF t = n - 1 THEN SizeY ELSE 0 + e
  BY <1>1, <1>6, <1>7 DEF EndY
<1>10. QED
  BY <1>4, <1>8, <1>9 DEF s, e

\* A worker's rows are rows of the field.
LEMMA RowBounds ==
  ASSUME NEW n \in Nat \ {0}, NEW t \in Sems(n)
  PROVE  StartY(t, n) \in Nat /\ EndY(t, n) \in Nat /\ EndY(t, n) <= SizeY
<1>1. CASE n <= SizeY
  <2> DEFINE q == SizeY \div n
  <2>1. q \in Nat /\ n * q <= SizeY
    BY Division, FieldAssumption
  <2>2. q * (t + 1) <= q * n /\ q * (t + 1) \in Nat /\ q * t \in Nat
    BY <2>1, TimesMonotone DEF Sems
  <2>3. q * n = n * q
    BY <2>1, SMT
  <2>4. QED
    BY <1>1, <2>1, <2>2, <2>3, ManyRows, FieldAssumption
<1>2. CASE n > SizeY
  BY <1>2, FewRows, FieldAssumption DEF Sems
<1>3. QED
  BY <1>1, <1>2, FieldAssumption

\* Every row has exactly one worker, for every size of the field and every n.
THEOREM EveryRowOwned ==
  ASSUME NEW n \in Nat \ {0}
  PROVE  Owned(n)
<1> SUFFICES ASSUME NEW y \in Row
             PROVE  \E t \in Sems(n) : \A u \in Sems(n) : y \in RowsOf(u, n) <=> u = t
  BY DEF Owned
<1> USE FieldAssumption
<1>1. CASE n <= SizeY
  <2> DEFINE q == SizeY \div n
  <2>1. q \in Nat \ {0} /\ n - 1 \in Sems(n)
    BY <1>1, ManyRows DEF Sems
  <2>2. \A u \in Sems(n) : y \in RowsOf(u, n) <=>
                            (q * u <= y /\ (u # n - 1 => y < q * (u + 1)))
    <3>1. \A u \in Sems(n) : q * u \in Nat /\ q * (u + 1) \in Nat
      BY <2>1, TimesMonotone DEF Sems
    <3>2. QED
      BY <1>1, <2>1, <3>1, ManyRows DEF RowsOf, Row
  <2> HIDE DEF q
  <2>3. PICK t \in Sems(n) : q * t <= y /\ (t # n - 1 => y < q * (t + 1))
    <3>1. CASE q * (n - 1) <= y
      BY <2>1, <3>1
    <3>2. CASE ~(q * (n - 1) <= y)
      <4> DEFINE t == y \div q
      <4>1. t \in Nat /\ q * t <= y /\ y < q * t + q
        BY <2>1, SMT DEF Row
      <4>2. q * (t + 1) = q * t + q
        BY <2>1, <4>1, SMT
      <4>3. t < n - 1
        <5>1. SUFFICES ASSUME n - 1 <= t PROVE FALSE
          BY <4>1
        <5>2. q * (n - 1) <= q * t /\ q * (n - 1) \in Nat /\ q * t \in Nat
          BY <2>1, <4>1, <5>1, TimesMonotone
        <5>3. QED
          BY <3>2, <4>1, <5>2 DEF Row
      <4>4. QED
        BY <4>1, <4>2, <4>3 DEF Sems
    <3>3. QED
      BY <3>1, <3>2
  <2>4. ASSUME NEW u \in Sems(n), u # t
        PROVE  ~(q * u <= y /\ (u # n - 1 => y < q * (u + 1)))
    <3>1. CASE u < t
      <4>1. q * (u + 1) <= q * t /\ q * (u + 1) \in Nat /\ q * t \in Nat
        BY <2>1, <3>1, TimesMonotone DEF Sems
      <4>2. QED
        BY <2>3, <3>1, <4>1 DEF Sems, Row
    <3>2. CASE t < u
      <4>1. q * (t + 1) <= q * u /\ q * (t + 1) \in Nat /\ q * u \in Nat
        BY <2>1, <3>2, TimesMonotone DEF Sems
      <4>2. QED
        BY <2>3, <3>2, <4>1 DEF Sems, Row
    <3>3. QED
      BY <2>4, <3>1, <3>2 DEF Sems
  <2>5. QED
    BY <2>2, <2>3, <2>4
<1>2. CASE n > SizeY
  <2> DEFINE t == IF y = SizeY - 1 THEN n - 1 ELSE y
  <2>1. t \in Sems(n)
    BY <1>2 DEF Sems, Row
  <2>2. \A u \in Sems(n) : y \in RowsOf(u, n) <=> u = t
    BY <1>2, FewRows DEF RowsOf, Row, Sems
  <2>3. QED
    BY <2>1, <2>2
<1>3. QED
  BY <1>1, <1>2
---------------------------------------------------------------------------
(***************************************************************************)
(* The inductive invariant.                                                *)
(***************************************************************************)
\* Rule and Generation give cells and fields.
LEMMA RuleType ==
  /\ \A g, x, y : Rule(g, x, y) \in Cell
  /\ \A g : Generation(g) \in Grid
BY DEF Rule, Cell, Generation, Grid

\* The number of created workers.
LEMMA CountCreated ==
  ASSUME NEW c \in Nat, Created = Sems(c)
  PROVE  Cardinality(Created) = c
BY FS_Interval DEF Sems

LEMMA InitIInv == Init => IInv
<1> SUFFICES ASSUME Init PROVE IInv
  OBVIOUS
<1> USE FieldAssumption, ThreadAssumption DEF Init
<1>1. TypeOK
  <2>1. Created = {} /\ Sems(0) = {} /\ 0 \in 0 .. nthr
    BY DEF Created, Sems
  <2>2. \E c \in 0 .. nthr : Created = Sems(c)
    BY <2>1
  <2>3. pc \in [{} -> {"wait", "step", "exit"}] /\ k \in [{} -> 0 .. ITER] /\ at \in [{} -> Nat \X Col]
    OBVIOUS
  <2>4. sem \in [Sems(nsems) -> Nat]
    BY <2>1
  <2>5. pc \in [Created -> {"wait", "step", "exit"}] /\ k \in [Created -> 0 .. ITER] /\ at \in [Created -> Nat \X Col]
    BY <2>1, <2>3
  <2>6. ~Loaded /\ main \in MainPlaces
    BY DEF Loaded, MainPlaces
  <2>7. nsems \in Nat /\ nthr = 0 /\ copied \in 0 .. SizeY /\ round \in 0 .. ITER - 1 /\ runs \in 0 .. MaxRuns
    OBVIOUS
  <2>8. attached \in BOOLEAN
    OBVIOUS
  <2>9. QED
    BY <2>2, <2>4, <2>5, <2>6, <2>7, <2>8 DEF TypeOK
<1>2. ShapeInv /\ HeldInv /\ RowInv /\ CopyInv /\ TokenInv /\ LedgerInv
  BY DEF ShapeInv, HeldInv, RowInv, CopyInv, TokenInv, LedgerInv, Created, Running
<1>3. QED
  BY <1>1, <1>2 DEF IInv

\* The cell a worker steps is a cell of the field.
LEMMA SteppedCell ==
  ASSUME TypeOK, ShapeInv, NEW t \in Created, at[t][1] < EndY(t, nthr), pc[t] = "step"
  PROVE  /\ nthr \in Nat \ {0} /\ t \in Threads
         /\ at[t][1] \in Row /\ at[t][2] \in Col /\ at[t] = <<at[t][1], at[t][2]>>
         /\ Loaded /\ (attached => t \in DOMAIN sem)
<1> USE FieldAssumption, ThreadAssumption
<1>1. nthr \in Nat \ {0} /\ t \in Threads
  BY SMTT(30) DEF TypeOK, ShapeInv, Created, Sems, Threads, MainPlaces
<1>2. at[t] \in Nat \X Col
  BY DEF TypeOK
<1>3. EndY(t, nthr) <= SizeY /\ EndY(t, nthr) \in Nat
  BY <1>1, RowBounds DEF Threads
<1>4. Loaded /\ Running
  BY DEF ShapeInv, TypeOK, MainPlaces, Loaded, Running, Created
<1>5. QED
  BY <1>1, <1>2, <1>3, <1>4, SMTT(30) DEF Row, ShapeInv, TypeOK, Sems, Threads

\* A worker that calls finish_run or wait_and_run owns a semaphore of the set.
LEMMA OwnSemaphore ==
  ASSUME TypeOK, ShapeInv, NEW t \in Created, pc[t] # "exit"
  PROVE  /\ nthr \in Nat \ {0} /\ t \in Threads
         /\ attached => t \in DOMAIN sem /\ sem[t] \in Nat
         /\ main \in {"create", "wait", "copy"}
<1>1. nthr \in Nat \ {0} /\ t \in Threads
  BY ThreadAssumption DEF TypeOK, ShapeInv, Created, Sems, Threads, MainPlaces
<1>2. main \in {"create", "wait", "copy"}
  BY DEF ShapeInv, TypeOK, MainPlaces, Created
<1>3. QED
  BY <1>1, <1>2 DEF ShapeInv, TypeOK, Sems, Threads, Running

\* No workers are workers of the right type.
LEMMA NoWorkersType ==
  ASSUME NoWorkers, nthr' \in Nat
  PROVE  /\ Created' = {}
         /\ \E c \in 0 .. nthr' : Created' = Sems(c)
         /\ pc' \in [Created' -> {"wait", "step", "exit"}]
         /\ k' \in [Created' -> 0 .. ITER]
         /\ at' \in [Created' -> Nat \X Col]
<1>1. Created' = {} /\ Sems(0) = {} /\ 0 \in 0 .. nthr'
  BY DEF NoWorkers, Created, Sems
<1>2. pc' \in [{} -> {"wait", "step", "exit"}] /\ k' \in [{} -> 0 .. ITER] /\ at' \in [{} -> Nat \X Col]
  BY DEF NoWorkers
<1>3. QED
  BY <1>1, <1>2

LEMMA TypeStep ==
  ASSUME IInv, [Next]_vars
  PROVE  TypeOK'
<1> USE FieldAssumption, ThreadAssumption DEF IInv
<1>1. ASSUME NEW n \in ThreadCounts, Start(n) PROVE TypeOK'
  <2>1. nsems' \in Nat /\ sem' \in [Sems(nsems') -> Nat]
    BY <1>1 DEF Start, TypeOK, Sems
  <2>2. NoWorkers /\ nthr' \in Nat
    BY <1>1 DEF Start
  <2>3. QED
    BY <1>1, <2>1, <2>2, NoWorkersType DEF Start, NoField, TypeOK, MainPlaces, Loaded
<1>2. CASE SetUp
  <2>1. sem' \in [Sems(nsems) -> Nat]
    BY <1>2 DEF SetUp, AddToAll, TypeOK
  <2>2. QED
    BY <1>2, <2>1 DEF SetUp, TypeOK, MainPlaces, Loaded, Created, process, workers, field
<1>3. CASE InitField
  BY <1>3 DEF InitField, TypeOK, MainPlaces, Loaded, Created, kernel, process, workers
<1>4. CASE CreateThread
  <2>1. PICK c \in 0 .. nthr : Created = Sems(c)
    BY DEF TypeOK
  <2>2. nthr \in Nat /\ c < nthr /\ Cardinality(Created) = c
    BY <1>4, <2>1, CountCreated DEF CreateThread, ShapeInv, TypeOK, Threads
  <2>3. Created' = Sems(c + 1) /\ c + 1 \in 0 .. nthr
    BY <1>4, <2>2 DEF CreateThread, Created, Sems
  <2>4. StartY(c, nthr) \in Nat
    BY <2>2, RowBounds DEF Sems
  <2>5. pc' \in [Created' -> {"wait", "step", "exit"}] /\ k' \in [Created' -> 0 .. ITER]
    BY <1>4, <2>1, <2>2, <2>3 DEF CreateThread, TypeOK, Sems
  <2>6. at' \in [Created' -> Nat \X Col]
    BY <1>4, <2>1, <2>2, <2>3, <2>4 DEF CreateThread, TypeOK, Sems, Col
  <2>7. QED
    BY <1>4, <2>3, <2>5, <2>6 DEF CreateThread, TypeOK, MainPlaces, Loaded, kernel, process, field
<1>5. CASE WaitAndUpdate
  BY <1>5 DEF WaitAndUpdate, TypeOK, MainPlaces, Loaded, Created, kernel, process, workers
<1>6. CASE CopyRow
  <2>1. now' \in Grid
    BY <1>6 DEF CopyRow, TypeOK, Loaded, Grid, Row
  <2>2. QED
    BY <1>6, <2>1 DEF CopyRow, TypeOK, MainPlaces, Loaded, Created, kernel, process, workers
<1>7. CASE FinishUpdate
  <2>1. sem' \in [Sems(nsems) -> Nat]
    BY <1>7 DEF FinishUpdate, AddToAll, TypeOK
  <2>2. QED
    BY <1>7, <2>1 DEF FinishUpdate, TypeOK, MainPlaces, Loaded, Created, process, workers, field
<1>8. CASE Join
  BY <1>8 DEF Join, TypeOK, MainPlaces, Loaded, Created, process, workers, field, Sems
<1>9. ASSUME NEW t \in AllThreads, WaitAndRun(t) PROVE TypeOK'
  <2>1. t \in Threads /\ nthr \in Nat \ {0}
    BY <1>9, OwnSemaphore DEF WaitAndRun
  <2>2. StartY(t, nthr) \in Nat
    BY <2>1, RowBounds DEF Threads
  <2>3. pc' \in [Created -> {"wait", "step", "exit"}] /\ at' \in [Created -> Nat \X Col]
    BY <1>9, <2>2 DEF WaitAndRun, TypeOK, Col
  <2>4. Created' = Created
    BY <2>3 DEF Created, TypeOK
  <2>5. QED
    BY <1>9, <2>3, <2>4 DEF WaitAndRun, TypeOK, MainPlaces, Loaded, kernel, process, field
<1>10. ASSUME NEW t \in AllThreads, StepCell(t) PROVE TypeOK'
  <2>1. at[t][1] \in Row /\ at[t][2] \in Col /\ Loaded
    BY <1>10, SteppedCell DEF StepCell
  <2>2. at' \in [Created -> Nat \X Col]
    BY <1>10, <2>1 DEF StepCell, TypeOK, Row, Col
  <2>3. next' \in Grid
    <3>1. PICK d \in Cell : next' = [next EXCEPT ![at[t][1]][at[t][2]] = d]
      BY <1>10, RuleType DEF StepCell, Cell
    <3>2. QED
      BY <2>1, <3>1 DEF TypeOK, Grid
  <2>4. QED
    BY <1>10, <2>2, <2>3 DEF StepCell, TypeOK, MainPlaces, Loaded, Created, kernel, process
<1>11. ASSUME NEW t \in AllThreads, FinishRun(t) PROVE TypeOK'
  <2>1. sem' \in [Sems(nsems) -> Nat]
    <3>1. CASE attached
      <4>1. t \in Sems(nsems) /\ sem[t] \in Nat /\ sem[t] >= 1
        BY <1>11, <3>1, OwnSemaphore DEF FinishRun, TypeOK, Passes
      <4>2. sem' = [sem EXCEPT ![t] = sem[t] - 1]
        BY <1>11, <3>1 DEF FinishRun
      <4>3. QED
        BY <4>1, <4>2 DEF TypeOK
    <3>2. CASE ~attached
      BY <1>11, <3>2 DEF FinishRun, TypeOK
    <3>3. QED
      BY <3>1, <3>2
  <2>2. k' \in [Created -> 0 .. ITER] /\ pc' \in [Created -> {"wait", "step", "exit"}]
    BY <1>11 DEF FinishRun, TypeOK, ShapeInv
  <2>3. Created' = Created
    BY <2>2 DEF Created, TypeOK
  <2>4. QED
    BY <1>11, <2>1, <2>2, <2>3 DEF FinishRun, TypeOK, MainPlaces, Loaded, process, field
<1>12. CASE Kill
  <2>1. NoWorkers /\ nthr' \in Nat
    BY <1>12 DEF Kill, process, TypeOK
  <2>2. QED
    BY <1>12, <2>1, NoWorkersType DEF Kill, NoField, TypeOK, MainPlaces, Loaded, kernel, process
<1>13. CASE UNCHANGED vars
  BY <1>13 DEF vars, kernel, process, workers, field, TypeOK, Loaded, Created
<1>14. QED
  BY <1>1, <1>2, <1>3, <1>4, <1>5, <1>6, <1>7, <1>8, <1>9, <1>10, <1>11, <1>12, <1>13
     DEF Next, MainStep, Worker, Rest

LEMMA ShapeStep ==
  ASSUME IInv, [Next]_vars
  PROVE  ShapeInv'
<1> USE FieldAssumption, ThreadAssumption DEF IInv, ShapeInv, Running, Threads
<1>0. TypeOK'
  BY TypeStep
<1>1. ASSUME NEW n \in ThreadCounts, Start(n) PROVE ShapeInv'
  <2>1. Created' = {} /\ nthr' = n
    BY <1>1, NoWorkersType DEF Start
  <2>2. runs' >= 1 /\ main' = "setup" /\ round' = 0
    BY <1>1 DEF Start, TypeOK
  <2>3. attached' => n <= nsems'
    <3>1. attached' = (nsems = 0 \/ n <= nsems) /\ nsems' = IF nsems = 0 THEN n ELSE nsems
      BY <1>1 DEF Start
    <3>2. attached' => nsems = 0 \/ n <= nsems
      BY <3>1, Zenon
    <3>3. QED
      BY <3>1, <3>2
  <2>4. QED
    BY <2>1, <2>2, <2>3
<1>2. CASE SetUp
  BY <1>2 DEF SetUp, Created, process, workers
<1>3. CASE InitField
  <2>1. nthr \in Nat \ {0} /\ Created = {}
    BY <1>3 DEF InitField
  <2>2. 0 \in Threads
    BY <2>1 DEF Sems
  <2>3. QED
    BY <1>3, <2>1, <2>2 DEF InitField, Created, kernel, process, workers
<1>4. CASE CreateThread
  <2>1. PICK c \in 0 .. nthr : Created = Sems(c)
    BY DEF TypeOK
  <2>2. nthr \in Nat /\ c < nthr /\ Cardinality(Created) = c
    BY <1>4, <2>1, CountCreated DEF CreateThread, TypeOK
  <2>3. Created' = Sems(c + 1)
    BY <1>4, <2>2 DEF CreateThread, Created, Sems
  <2>4. c < nthr - 1 => Sems(c + 1) # Sems(nthr)
    BY <2>2 DEF Sems
  <2>5. \A u \in Created' : u = c \/ u \in Created
    BY <2>1, <2>2, <2>3 DEF Sems
  <2>6. \A u \in Created' : /\ pc'[u] = IF u = c THEN "wait" ELSE pc[u]
                            /\ k'[u] = IF u = c THEN 0 ELSE k[u]
                            /\ u # c => at'[u] = at[u]
    BY <1>4, <2>2, <2>3 DEF CreateThread, Sems
  <2>7. /\ main' = "create" => Created' # Sems(nthr)
        /\ main' = "wait" => Created' = Sems(nthr)
        /\ main' \in {"create", "wait"}
    BY <1>4, <2>2, <2>3, <2>4 DEF CreateThread
  <2>8. \A u \in Created' : /\ pc'[u] # "exit" => k'[u] < ITER
                            /\ pc'[u] = "step" => at'[u][1] >= StartY(u, nthr)
    BY <2>5, <2>6
  <2>9. QED
    BY <1>4, <2>7, <2>8 DEF CreateThread, kernel, process
<1>5. CASE WaitAndUpdate
  BY <1>5 DEF WaitAndUpdate, TypeOK, Created, kernel, process, workers
<1>6. CASE CopyRow
  BY <1>6 DEF CopyRow, Created, kernel, process, workers
<1>7. CASE FinishUpdate
  BY <1>7 DEF FinishUpdate, Created, process, workers
<1>8. CASE Join
  BY <1>8 DEF Join, Created, process, workers
<1>9. ASSUME NEW t \in AllThreads, WaitAndRun(t) PROVE ShapeInv'
  <2>1. t \in Threads /\ nthr \in Nat \ {0} /\ main \in {"create", "wait", "copy"}
    BY <1>9, OwnSemaphore DEF WaitAndRun
  <2>2. StartY(t, nthr) \in Nat
    BY <2>1, RowBounds DEF Threads
  <2>3. Created' = Created /\ t \in Created /\ pc[t] = "wait"
    BY <1>9 DEF WaitAndRun, TypeOK, Created
  <2>4. \A u \in Created : /\ pc'[u] = IF u = t THEN "step" ELSE pc[u]
                           /\ at'[u] = IF u = t THEN <<StartY(t, nthr), 0>> ELSE at[u]
    BY <1>9 DEF WaitAndRun, TypeOK
  <2>5. QED
    BY <1>9, <2>1, <2>2, <2>3, <2>4 DEF WaitAndRun, kernel, process
<1>10. ASSUME NEW t \in AllThreads, StepCell(t) PROVE ShapeInv'
  <2>1. at[t][1] \in Row /\ nthr \in Nat \ {0} /\ t \in Threads
    BY <1>10, SteppedCell DEF StepCell
  <2>2. StartY(t, nthr) \in Nat
    BY <2>1, RowBounds DEF Threads
  <2>3. Created' = Created
    BY <1>10 DEF StepCell, Created
  <2>4. \A u \in Created : /\ u # t => at'[u] = at[u]
                           /\ u = t => at'[u][1] >= at[u][1]
    BY <1>10, <2>1 DEF StepCell, TypeOK, Row
  <2>5. \A u \in Created : at[u][1] \in Nat /\ at'[u][1] \in Nat
    BY <1>0, <2>3 DEF TypeOK
  <2>6. \A u \in Created : pc[u] = "step" => at'[u][1] >= StartY(u, nthr)
    BY <1>10, <2>1, <2>2, <2>4, <2>5 DEF StepCell
  <2>7. QED
    BY <1>10, <2>3, <2>6 DEF StepCell, kernel, process
<1>11. ASSUME NEW t \in AllThreads, FinishRun(t) PROVE ShapeInv'
  <2>1. Created' = Created /\ t \in Created /\ pc[t] = "step"
    BY <1>11 DEF FinishRun, TypeOK, Created
  <2>2. main \in {"create", "wait", "copy"}
    BY <2>1, OwnSemaphore
  <2>3. \A u \in Created : /\ pc'[u] = IF u # t THEN pc[u] ELSE IF k[t] + 1 = ITER THEN "exit" ELSE "wait"
                           /\ k'[u] = IF u = t THEN k[t] + 1 ELSE k[u]
    BY <1>11 DEF FinishRun, TypeOK
  <2>4. \A u \in Created : k[u] \in 0 .. ITER
    BY DEF TypeOK
  <2>5. \A u \in Created : pc'[u] # "exit" => k'[u] < ITER
    BY <2>1, <2>3, <2>4
  <2>6. QED
    BY <1>11, <2>1, <2>2, <2>3, <2>5 DEF FinishRun, process
<1>12. CASE Kill
  <2>1. Created' = {}
    BY <1>12, NoWorkersType DEF Kill, process, TypeOK
  <2>2. QED
    BY <1>12, <2>1 DEF Kill
<1>13. CASE UNCHANGED vars
  BY <1>13 DEF vars, kernel, process, workers, field, Created
<1>14. QED
  BY <1>1, <1>2, <1>3, <1>4, <1>5, <1>6, <1>7, <1>8, <1>9, <1>10, <1>11, <1>12, <1>13
     DEF Next, MainStep, Worker, Rest

LEMMA HeldStep ==
  ASSUME IInv, [Next]_vars
  PROVE  HeldInv'
<1> USE FieldAssumption, ThreadAssumption DEF IInv, HeldInv, Threads
<1>0. TypeOK' /\ ShapeInv'
  BY TypeStep, ShapeStep
<1>1. ASSUME NEW n \in ThreadCounts, Start(n) PROVE HeldInv'
  BY <1>1, NoWorkersType DEF Start
<1>2. CASE SetUp
  <2>1. attached => \A t \in Threads : sem'[t] >= 1
    BY <1>2 DEF SetUp, AddToAll, ShapeInv, Running, TypeOK, Sems
  <2>2. QED
    BY <1>2, <2>1 DEF SetUp, process, workers, Created, ShapeInv
<1>3. CASE InitField
  BY <1>3 DEF InitField, kernel, process, workers, Created
<1>4. CASE CreateThread
  <2>1. PICK c \in 0 .. nthr : Created = Sems(c)
    BY DEF TypeOK
  <2>2. nthr \in Nat /\ c < nthr /\ Cardinality(Created) = c
    BY <1>4, <2>1, CountCreated DEF CreateThread, TypeOK, ShapeInv
  <2>3. Created' = Sems(c + 1)
    BY <1>4, <2>2 DEF CreateThread, Created, Sems
  <2>4. Created \subseteq Created' /\ \A u \in Created' : u = c \/ u \in Created
    BY <2>1, <2>2, <2>3 DEF Sems
  <2>5. \A u \in Created' : pc'[u] = IF u = c THEN "wait" ELSE pc[u]
    BY <1>4, <2>2, <2>3 DEF CreateThread, Sems
  <2>6. QED
    BY <1>4, <2>4, <2>5 DEF CreateThread, kernel, process
<1>5. CASE WaitAndUpdate
  BY <1>5 DEF WaitAndUpdate, Passes, kernel, process, workers, Created
<1>6. CASE CopyRow
  BY <1>6 DEF CopyRow, kernel, process, workers, Created
<1>7. CASE FinishUpdate
  <2>1. attached => \A t \in Threads : sem'[t] >= 1
    BY <1>7 DEF FinishUpdate, AddToAll, ShapeInv, Running, TypeOK, Sems
  <2>2. Created = Threads
    BY <1>7 DEF FinishUpdate, ShapeInv
  <2>3. QED
    BY <1>7, <2>1, <2>2 DEF FinishUpdate, process, workers, Created
<1>8. CASE Join
  <2>1. \A t \in Created : pc[t] # "step"
    BY <1>8 DEF Join, ShapeInv
  <2>2. QED
    BY <1>8, <2>1 DEF Join, process, workers, Created
<1>9. ASSUME NEW t \in AllThreads, WaitAndRun(t) PROVE HeldInv'
  <2>1. Created' = Created /\ t \in Created
    BY <1>9 DEF WaitAndRun, TypeOK, Created
  <2>2. \A u \in Created : pc'[u] = IF u = t THEN "step" ELSE pc[u]
    BY <1>9 DEF WaitAndRun, TypeOK
  <2>3. QED
    BY <1>9, <2>1, <2>2 DEF WaitAndRun, Passes, kernel, process
<1>10. ASSUME NEW t \in AllThreads, StepCell(t) PROVE HeldInv'
  BY <1>10 DEF StepCell, kernel, process, Created
<1>11. ASSUME NEW t \in AllThreads, FinishRun(t) PROVE HeldInv'
  <2>1. Created' = Created /\ t \in Created /\ pc[t] = "step" /\ t \in Threads
    BY <1>11, OwnSemaphore DEF FinishRun, TypeOK, Created
  <2>2. \A u \in Created : pc'[u] = "step" => u # t /\ pc[u] = "step"
    BY <1>11 DEF FinishRun, TypeOK
  <2>3. CASE attached
    <3>0. nthr <= nsems /\ nthr \in Nat /\ nsems \in Nat
      BY <2>1, <2>3, OwnSemaphore DEF ShapeInv, Running, TypeOK
    <3>1. \A u \in Threads : sem'[u] = IF u = t THEN sem[t] - 1 ELSE sem[u]
      BY <1>11, <2>1, <2>3, <3>0 DEF FinishRun, TypeOK, Sems
    <3>2. sem[t] >= 1 /\ main # "copy"
      BY <2>1, <2>3, OwnSemaphore
    <3>3. Created \subseteq Threads
      BY OwnSemaphore DEF TypeOK, Sems
    <3>4. QED
      BY <1>11, <2>1, <2>2, <2>3, <3>1, <3>2, <3>3 DEF FinishRun, process
  <2>4. CASE ~attached
    BY <1>11, <2>4 DEF FinishRun, process
  <2>5. QED
    BY <2>3, <2>4
<1>12. CASE Kill
  <2>1. Created' = {}
    BY <1>12, NoWorkersType DEF Kill, process, TypeOK
  <2>2. QED
    BY <1>12, <2>1 DEF Kill
<1>13. CASE UNCHANGED vars
  BY <1>13 DEF vars, kernel, process, workers, field, Created
<1>14. QED
  BY <1>1, <1>2, <1>3, <1>4, <1>5, <1>6, <1>7, <1>8, <1>9, <1>10, <1>11, <1>12, <1>13
     DEF Next, MainStep, Worker, Rest

LEMMA RowStep ==
  ASSUME IInv, [Next]_vars
  PROVE  RowInv'
<1> USE FieldAssumption, ThreadAssumption DEF IInv, RowInv
<1>1. ASSUME NEW n \in ThreadCounts, Start(n) PROVE RowInv'
  BY <1>1 DEF Start
<1>2. CASE SetUp
  BY <1>2 DEF SetUp
<1>3. CASE InitField
  BY <1>3 DEF InitField, workers, Created, ShapeInv
<1>4. CASE CreateThread
  <2>1. PICK c \in 0 .. nthr : Created = Sems(c)
    BY DEF TypeOK
  <2>2. nthr \in Nat /\ c < nthr /\ Cardinality(Created) = c
    BY <1>4, <2>1, CountCreated DEF CreateThread, TypeOK, ShapeInv, Threads
  <2>3. Created' = Sems(c + 1)
    BY <1>4, <2>2 DEF CreateThread, Created, Sems
  <2>4. \A u \in Created' : u = c \/ u \in Created
    BY <2>1, <2>2, <2>3 DEF Sems
  <2>5. \A u \in Created' : /\ pc'[u] = IF u = c THEN "wait" ELSE pc[u]
                            /\ u # c => at'[u] = at[u]
    BY <1>4, <2>2, <2>3 DEF CreateThread, Sems
  <2>6. attached => sem[c] >= 1 /\ sem[c] # 0
    <3>1. c \in Threads \ Created
      BY <2>1, <2>2 DEF Threads, Sems
    <3>2. attached => c \in Sems(nsems)
      BY <1>4, <2>2 DEF CreateThread, ShapeInv, Running, TypeOK, Sems
    <3>3. QED
      BY <1>4, <3>1, <3>2 DEF CreateThread, HeldInv, TypeOK
  <2>7. ASSUME attached, NEW u \in Created', NEW x, NEW y, Stepped(u, x, y)'
        PROVE  u \in Created /\ Stepped(u, x, y)
    <3>1. sem' = sem
      BY <1>4 DEF CreateThread, kernel
    <3>2. u # c
      BY <2>5, <2>6, <2>7, <3>1 DEF Stepped
    <3>3. QED
      BY <2>4, <2>5, <2>7, <3>1, <3>2 DEF Stepped
  <2>8. QED
    BY <1>4, <2>7 DEF CreateThread, kernel, process, field, RowsOf
<1>5. CASE WaitAndUpdate
  BY <1>5 DEF WaitAndUpdate
<1>6. CASE CopyRow
  BY <1>6 DEF CopyRow
<1>7. CASE FinishUpdate
  <2>1. Created' = Created /\ Created = Threads /\ pc' = pc
    BY <1>7 DEF FinishUpdate, Created, workers, ShapeInv
  <2>2. attached => \A u \in Created : pc[u] # "step" /\ sem'[u] # 0
    <3>1. attached => nthr <= nsems
      BY <1>7 DEF FinishUpdate, ShapeInv, Running
    <3>2. attached => \A u \in Created : sem[u] = 0 /\ sem'[u] = 1
      BY <1>7, <2>1, <3>1 DEF FinishUpdate, AddToAll, HeldInv, TypeOK, Threads, Sems
    <3>3. QED
      BY <2>1, <3>2 DEF HeldInv
  <2>3. QED
    BY <1>7, <2>1, <2>2 DEF FinishUpdate, Stepped, process
<1>8. CASE Join
  BY <1>8 DEF Join
<1>9. ASSUME NEW t \in AllThreads, WaitAndRun(t) PROVE RowInv'
  <2>1. Created' = Created /\ t \in Created /\ pc[t] = "wait"
    BY <1>9 DEF WaitAndRun, TypeOK, Created
  <2>2. \A u \in Created : /\ pc'[u] = IF u = t THEN "step" ELSE pc[u]
                           /\ at'[u] = IF u = t THEN <<StartY(t, nthr), 0>> ELSE at[u]
    BY <1>9 DEF WaitAndRun, TypeOK
  <2>3. t \in Threads /\ nthr \in Nat \ {0}
    BY <2>1, OwnSemaphore
  <2>4. StartY(t, nthr) \in Nat /\ EndY(t, nthr) \in Nat
    BY <2>3, RowBounds DEF Threads
  <2>5. \A u \in Created : \A y \in RowsOf(u, nthr), x \in Col :
           Stepped(u, x, y)' => Stepped(u, x, y)
    BY <1>9, <2>1, <2>2, <2>4 DEF WaitAndRun, Stepped, RowsOf, Col, kernel
  <2>6. QED
    BY <1>9, <2>1, <2>5 DEF WaitAndRun, process, field, RowsOf
<1>10. ASSUME NEW t \in AllThreads, StepCell(t) PROVE RowInv'
  <2> DEFINE y0 == at[t][1]
             x0 == at[t][2]
  <2>1. y0 \in Row /\ x0 \in Col /\ nthr \in Nat \ {0} /\ t \in Threads /\ Loaded
    BY <1>10, SteppedCell DEF StepCell
  <2>2. Created' = Created /\ t \in Created /\ pc[t] = "step" /\ pc' = pc
    BY <1>10 DEF StepCell, Created
  <2>3. \A u \in Created :
          at'[u] = IF u # t THEN at[u] ELSE IF x0 = SizeX - 1 THEN <<y0 + 1, 0>> ELSE <<y0, x0 + 1>>
    BY <1>10 DEF StepCell, TypeOK
  <2>4. \A u \in Created : \A y \in RowsOf(u, nthr), x \in Col :
          Stepped(u, x, y)' => Stepped(u, x, y) \/ (y = y0 /\ x = x0)
    <3>1. \A u \in Sems(nthr) : RowsOf(u, nthr) \subseteq Nat
      BY <2>1, RowBounds DEF RowsOf
    <3>2. Created \subseteq Sems(nthr)
      BY <2>1 DEF TypeOK, Sems
    <3>3. QED
      BY <1>10, <2>1, <2>2, <2>3, <3>1, <3>2 DEF StepCell, Stepped, kernel, Col, Row
  <2>5. CASE attached
    <3>1. next' = [next EXCEPT ![y0][x0] = Rule(now, x0, y0)] /\ now' = now
      BY <1>10, <2>5 DEF StepCell
    <3>2. next \in Grid
      BY <2>1 DEF TypeOK
    <3>3. next'[y0][x0] = Rule(now, x0, y0)
      BY <2>1, <3>1, <3>2 DEF Grid
    <3>4. \A y \in Row, x \in Col : ~(y = y0 /\ x = x0) => next'[y][x] = next[y][x]
      BY <2>1, <3>1, <3>2 DEF Grid
    <3>5. \A u \in Created : RowsOf(u, nthr) \subseteq Row
      <4>1. \A u \in Sems(nthr) : RowsOf(u, nthr) \subseteq Row
        BY <2>1, RowBounds DEF RowsOf, Row
      <4>2. Created \subseteq Sems(nthr)
        BY <2>1 DEF TypeOK, Sems
      <4>3. QED
        BY <4>1, <4>2
    <3>6. QED
      BY <1>10, <2>2, <2>4, <2>5, <3>1, <3>3, <3>4, <3>5 DEF StepCell, process, RowsOf
  <2>6. CASE ~attached
    BY <1>10, <2>6 DEF StepCell, process
  <2>7. QED
    BY <2>5, <2>6
<1>11. ASSUME NEW t \in AllThreads, FinishRun(t) PROVE RowInv'
  <2>1. Created' = Created /\ t \in Created /\ pc[t] = "step"
    BY <1>11 DEF FinishRun, TypeOK, Created
  <2>2. t \in Threads /\ nthr \in Nat \ {0} /\ at[t][1] \in Nat
    BY <2>1, OwnSemaphore DEF TypeOK
  <2>3. StartY(t, nthr) \in Nat /\ EndY(t, nthr) \in Nat
    BY <2>2, RowBounds DEF Threads
  <2>4. \A y \in RowsOf(t, nthr), x \in Col : Stepped(t, x, y)
    BY <1>11, <2>1, <2>2, <2>3 DEF FinishRun, Stepped, RowsOf
  <2>5. \A u \in Created : u # t => pc'[u] = pc[u] /\ sem'[u] = sem[u]
    BY <1>11 DEF FinishRun, TypeOK
  <2>6. \A u \in Created : \A y \in RowsOf(u, nthr), x \in Col :
          Stepped(u, x, y)' => Stepped(u, x, y)
    BY <1>11, <2>4, <2>5 DEF FinishRun, Stepped
  <2>7. QED
    BY <1>11, <2>1, <2>6 DEF FinishRun, process, field, RowsOf
<1>12. CASE Kill
  BY <1>12 DEF Kill
<1>13. CASE UNCHANGED vars
  BY <1>13 DEF vars, kernel, process, workers, field, Created, Stepped, RowsOf
<1>14. QED
  BY <1>1, <1>2, <1>3, <1>4, <1>5, <1>6, <1>7, <1>8, <1>9, <1>10, <1>11, <1>12, <1>13
     DEF Next, MainStep, Worker, Rest

\* When main's wait_and_update passes, next is the next generation: every row
\* has an owner, and every owner has used its tokens.
LEMMA AllStepped ==
  ASSUME IInv, attached, main = "wait", \A s \in Threads : sem[s] = 0
  PROVE  next = Generation(now)
<1> USE DEF IInv
<1>1. Created = Threads /\ nthr \in Nat \ {0} /\ next \in Grid
  BY ThreadAssumption DEF ShapeInv, TypeOK, Loaded
<1>2. ASSUME NEW y \in Row, NEW x \in Col
      PROVE  next[y][x] = Rule(now, x, y)
  <2>1. PICK t \in Sems(nthr) : y \in RowsOf(t, nthr)
    BY <1>1, EveryRowOwned DEF Owned
  <2>2. QED
    BY <1>1, <2>1 DEF RowInv, Stepped, Threads
<1>3. QED
  BY <1>1, <1>2 DEF Generation, Grid

LEMMA CopyStep ==
  ASSUME IInv, [Next]_vars
  PROVE  CopyInv'
<1> USE FieldAssumption, ThreadAssumption DEF IInv, CopyInv
<1>1. ASSUME NEW n \in ThreadCounts, Start(n) PROVE CopyInv'
  BY <1>1 DEF Start
<1>2. CASE SetUp \/ InitField \/ CreateThread \/ FinishUpdate \/ Join \/ Kill
  BY <1>2 DEF SetUp, InitField, CreateThread, FinishUpdate, Join, Kill
<1>3. CASE WaitAndUpdate
  <2>1. attached => next = Generation(now)
    BY <1>3, AllStepped DEF WaitAndUpdate, Passes
  <2>2. \A y \in Row : ~(y < copied')
    BY <1>3 DEF WaitAndUpdate, Row
  <2>3. QED
    BY <1>3, <2>1, <2>2 DEF WaitAndUpdate, process
<1>4. CASE CopyRow
  <2>1. now \in Grid /\ copied \in Row /\ copied' = copied + 1
    BY <1>4 DEF CopyRow, TypeOK, Loaded, Row
  <2>2. \A y \in Row : now'[y] = IF y = copied THEN next[y] ELSE now[y]
    BY <1>4, <2>1 DEF CopyRow, Grid
  <2>3. \A y \in Row : y < copied' => y < copied \/ y = copied
    BY <2>1 DEF Row
  <2>4. QED
    BY <1>4, <2>1, <2>2, <2>3 DEF CopyRow, process, Row
<1>5. ASSUME NEW t \in AllThreads, Worker(t) PROVE CopyInv'
  <2>1. CASE WaitAndRun(t)
    BY <2>1 DEF WaitAndRun, process, field
  <2>2. CASE StepCell(t)
    <3>1. ~(attached /\ main = "copy")
      <4>1. SUFFICES ASSUME attached, main = "copy" PROVE FALSE
        OBVIOUS
      <4>2. t \in Threads /\ sem[t] >= 1
        BY <2>2, <4>1, OwnSemaphore DEF StepCell, HeldInv
      <4>3. QED
        BY <4>1, <4>2 DEF HeldInv
    <3>2. QED
      BY <2>2, <3>1 DEF StepCell, process
  <2>3. CASE FinishRun(t)
    BY <2>3 DEF FinishRun, process, field
  <2>4. QED
    BY <1>5, <2>1, <2>2, <2>3 DEF Worker
<1>6. CASE UNCHANGED vars
  BY <1>6 DEF vars, process, field
<1>7. QED
  BY <1>1, <1>2, <1>3, <1>4, <1>5, <1>6 DEF Next, MainStep, Rest

LEMMA TokenStep ==
  ASSUME IInv, [Next]_vars
  PROVE  TokenInv'
<1> USE FieldAssumption, ThreadAssumption DEF IInv, TokenInv
<1>0. sem \in [Sems(nsems) -> Nat] /\ nsems \in Nat /\ runs \in Nat /\ TypeOK'
  BY TypeStep DEF TypeOK
<1>1. ASSUME NEW n \in ThreadCounts, Start(n) PROVE TokenInv'
  <2>1. ASSUME NEW s \in Sems(nsems')
        PROVE  /\ s = 0 => sem'[s] <= IF attached' THEN 0 ELSE 1
               /\ s # 0 => sem'[s] <= runs' - 1
    <3>1. runs' = runs + 1 /\ sem'[s] = IF nsems = 0 \/ (s = 0 /\ attached') THEN 0 ELSE sem[s]
      BY <1>1, <2>1 DEF Start
    <3>2. nsems # 0 => s \in Sems(nsems)
      BY <1>1 DEF Start
    <3>3. nsems # 0 => /\ s = 0 => sem[s] <= 1
                       /\ s # 0 => sem[s] <= runs
                       /\ sem[s] \in Nat
      BY <1>0, <1>1, <3>2 DEF Start, ShapeInv
    <3>4. CASE nsems = 0 \/ (s = 0 /\ attached')
      BY <1>0, <3>1, <3>4
    <3>5. CASE ~(nsems = 0 \/ (s = 0 /\ attached'))
      BY <1>0, <3>1, <3>3, <3>5
    <3>6. QED
      BY <3>4, <3>5
  <2>2. DOMAIN sem' = Sems(nsems')
    BY <1>1 DEF Start
  <2>3. QED
    BY <1>1, <2>1, <2>2 DEF Start
<1>2. CASE SetUp
  <2>1. runs >= 1
    BY <1>2 DEF SetUp, ShapeInv
  <2>2. CASE attached
    BY <1>0, <1>2, <2>1, <2>2 DEF SetUp, AddToAll, process
  <2>3. CASE ~attached
    BY <1>0, <1>2, <2>1, <2>3 DEF SetUp, AddToAll, process
  <2>4. QED
    BY <2>2, <2>3
<1>3. CASE InitField \/ CreateThread \/ WaitAndUpdate \/ CopyRow
  BY <1>3 DEF InitField, CreateThread, WaitAndUpdate, CopyRow, kernel, process
<1>4. CASE FinishUpdate
  <2>1. runs >= 1
    BY <1>4 DEF FinishUpdate, ShapeInv
  <2>2. CASE attached
    <3>1. \A s \in Sems(nsems) : s < nthr => sem[s] = 0
      BY <1>0, <1>4, <2>2 DEF FinishUpdate, HeldInv, Threads, Sems, TypeOK
    <3>2. QED
      BY <1>0, <1>4, <2>1, <2>2, <3>1 DEF FinishUpdate, AddToAll, process
  <2>3. CASE ~attached
    BY <1>4, <2>3 DEF FinishUpdate, AddToAll, process
  <2>4. QED
    BY <2>2, <2>3
<1>5. CASE Join
  BY <1>0, <1>5 DEF Join, process, Sems
<1>6. ASSUME NEW t \in AllThreads, Worker(t) PROVE TokenInv'
  <2>1. CASE WaitAndRun(t) \/ StepCell(t)
    BY <2>1 DEF WaitAndRun, StepCell, kernel, process
  <2>2. CASE FinishRun(t)
    <3>1. DOMAIN sem' = DOMAIN sem /\ \A s \in DOMAIN sem : sem'[s] <= sem[s] /\ sem'[s] \in Nat
      BY <1>0, <2>2 DEF FinishRun, TypeOK
    <3>2. main' = main /\ runs' = runs /\ attached' = attached
      BY <2>2 DEF FinishRun, process
    <3>3. ASSUME NEW s \in DOMAIN sem
          PROVE  /\ s = 0 => sem'[s] <= IF main = "setup" /\ attached THEN 0 ELSE 1
                 /\ s # 0 => sem'[s] <= IF main = "setup" THEN runs - 1 ELSE runs
      BY <1>0, <3>1, <3>3
    <3>4. QED
      BY <3>1, <3>2, <3>3
  <2>3. QED
    BY <1>6, <2>1, <2>2 DEF Worker
<1>7. CASE Kill
  <2>1. sem' = sem /\ runs' = runs /\ main' = "off"
    BY <1>7 DEF Kill, kernel, process
  <2>2. QED
    BY <1>0, <2>1
<1>8. CASE UNCHANGED vars
  BY <1>8 DEF vars, kernel, process
<1>9. QED
  BY <1>1, <1>2, <1>3, <1>4, <1>5, <1>6, <1>7, <1>8 DEF Next, MainStep, Rest

LEMMA LedgerStep ==
  ASSUME IInv, [Next]_vars
  PROVE  LedgerInv'
<1> USE FieldAssumption, ThreadAssumption DEF IInv, LedgerInv
<1>0. TypeOK /\ TypeOK' /\ ShapeInv'
  BY TypeStep, ShapeStep
<1>1. ASSUME NEW n \in ThreadCounts, Start(n) PROVE LedgerInv'
  <2>1. runs' = runs + 1 /\ runs \in Nat /\ main' = "setup" /\ nthr' = n
    BY <1>0, <1>1 DEF Start, TypeOK
  <2>2. runs' = 1 => \A t \in Threads' : sem'[t] = 0
    BY <1>1, <2>1 DEF Start, Threads, Sems
  <2>3. QED
    BY <2>1, <2>2
<1>2. CASE SetUp
  <2>1. runs = 1 /\ attached => \A t \in Threads : sem'[t] = 1
    BY <1>0, <1>2 DEF SetUp, AddToAll, ShapeInv, Running, TypeOK, Threads, Sems
  <2>2. QED
    BY <1>2, <2>1 DEF SetUp, process, workers, Created, Threads
<1>3. CASE InitField
  BY <1>3 DEF InitField, kernel, process, workers, Created, Threads, ShapeInv
<1>4. CASE CreateThread
  <2>1. PICK c \in 0 .. nthr : Created = Sems(c)
    BY <1>0 DEF TypeOK
  <2>2. nthr \in Nat /\ c < nthr /\ Cardinality(Created) = c
    BY <1>0, <1>4, <2>1, CountCreated DEF CreateThread, TypeOK, ShapeInv, Threads
  <2>3. Created' = Sems(c + 1) /\ c \in Threads \ Created
    BY <1>4, <2>1, <2>2 DEF CreateThread, Created, Threads, Sems
  <2>4. Created \subseteq Created' /\ \A u \in Created' : u = c \/ u \in Created
    BY <2>1, <2>2, <2>3 DEF Sems
  <2>5. \A u \in Created' : k'[u] = IF u = c THEN 0 ELSE k[u]
    BY <1>4, <2>2, <2>3 DEF CreateThread, Sems
  <2>6. round = 0 /\ round' = 0 /\ sem' = sem /\ runs' = runs /\ attached' = attached /\ nthr' = nthr /\ nsems' = nsems /\ main' \in {"create", "wait"}
    BY <1>4 DEF CreateThread, ShapeInv, kernel, process
  <2>7. runs = 1 /\ attached => \A u \in Created' : sem[u] + k'[u] = 1
    BY <1>4, <2>3, <2>4, <2>5, <2>6 DEF CreateThread
  <2>8. runs = 1 /\ attached => \A u \in Threads' \ Created' : sem[u] = 1
    BY <1>4, <2>4, <2>6 DEF CreateThread, Threads
  <2>9. runs' = 1 /\ attached' => /\ \A u \in Threads' \ Created' : sem'[u] = 1
                                 /\ \A u \in Created' : sem'[u] + k'[u] = round' + 1
    BY <2>6, <2>7, <2>8
  <2>10. runs' # 0
    BY <1>0, <1>4, <2>6 DEF CreateThread, ShapeInv, TypeOK
  <2>11. QED
    BY <2>6, <2>9, <2>10
<1>5. CASE WaitAndUpdate
  BY <1>0, <1>5 DEF WaitAndUpdate, kernel, process, workers, Created, TypeOK
<1>6. CASE CopyRow
  BY <1>6 DEF CopyRow, kernel, process, workers, Created, Threads
<1>7. CASE FinishUpdate
  <2>1. Created' = Created /\ Created = Threads /\ k' = k
    BY <1>7 DEF FinishUpdate, workers, Created, ShapeInv
  <2>2. ASSUME attached PROVE \A t \in Threads : sem[t] = 0 /\ sem'[t] = 1
    <3>1. nthr <= nsems /\ nsems \in Nat /\ nthr \in Nat
      BY <1>0, <1>7, <2>2 DEF FinishUpdate, ShapeInv, Running, TypeOK
    <3>2. \A t \in Threads : t \in Sems(nsems) /\ t < nthr /\ sem[t] = 0
      BY <1>7, <2>2, <3>1 DEF FinishUpdate, HeldInv, Threads, Sems
    <3>3. QED
      BY <1>7, <2>2, <3>2 DEF FinishUpdate, AddToAll
  <2>3. \A t \in Created : k[t] \in Nat
    BY <1>0 DEF TypeOK
  <2>4. runs = 1 /\ attached => \A t \in Created : sem'[t] + k[t] = round + 1
    BY <1>0, <1>7, <2>1, <2>2, <2>3 DEF FinishUpdate, TypeOK
  <2>5. QED
    BY <1>7, <2>1, <2>4 DEF FinishUpdate, process
<1>8. CASE Join
  <2>1. Created' = Created /\ k' = k /\ Created = Threads
    BY <1>8 DEF Join, workers, Created, ShapeInv
  <2>2. runs = 1 /\ attached => \A t \in Created : k[t] <= round + 1
    <3>0. attached => nthr <= nsems /\ nsems \in Nat /\ nthr \in Nat
      BY <1>0, <1>8 DEF Join, ShapeInv, Running, TypeOK
    <3>1. attached => \A t \in Created : t \in Sems(nsems)
      BY <2>1, <3>0 DEF Threads, Sems
    <3>2. attached => \A t \in Created : sem[t] \in Nat /\ k[t] \in Nat
      BY <1>0, <3>1 DEF TypeOK
    <3>3. QED
      BY <1>0, <1>8, <3>2 DEF Join, TypeOK
  <2>3. QED
    BY <1>8, <2>1, <2>2 DEF Join, process, ShapeInv
<1>9. ASSUME NEW t \in AllThreads, WaitAndRun(t) PROVE LedgerInv'
  BY <1>0, <1>9 DEF WaitAndRun, kernel, process, Created, Threads, TypeOK
<1>10. ASSUME NEW t \in AllThreads, StepCell(t) PROVE LedgerInv'
  BY <1>10 DEF StepCell, kernel, process, Created, Threads
<1>11. ASSUME NEW t \in AllThreads, FinishRun(t) PROVE LedgerInv'
  <2>1. Created' = Created /\ t \in Created /\ pc[t] = "step" /\ t \in Threads
    BY <1>0, <1>11, OwnSemaphore DEF FinishRun, TypeOK, Created
  <2>2. main \in {"create", "wait", "copy"} /\ (attached => sem[t] \in Nat /\ t \in DOMAIN sem /\ sem[t] >= 1)
    BY <1>0, <2>1, OwnSemaphore DEF HeldInv
  <2>3. attached => main # "copy"
    BY <2>1, <2>2 DEF HeldInv
  <2>4. \A u \in Created : k'[u] = IF u = t THEN k[t] + 1 ELSE k[u]
    BY <1>0, <1>11 DEF FinishRun, TypeOK
  <2>5. attached => sem'[t] = sem[t] - 1 /\ \A u : u # t => sem'[u] = sem[u]
    BY <1>11, <2>2 DEF FinishRun
  <2>6. k[t] \in Nat /\ round \in Nat
    BY <1>0, <2>1 DEF TypeOK
  <2>7. runs = 1 /\ attached => \A u \in Created : sem'[u] + k'[u] = round + 1
    BY <2>1, <2>2, <2>3, <2>4, <2>5, <2>6
  <2>8. runs = 1 /\ attached => \A u \in Threads \ Created : sem'[u] = sem[u]
    BY <2>1, <2>5
  <2>9. QED
    BY <1>11, <2>1, <2>2, <2>3, <2>7, <2>8 DEF FinishRun, process, Threads
<1>12. CASE Kill
  BY <1>12 DEF Kill, kernel, process
<1>13. CASE UNCHANGED vars
  BY <1>13 DEF vars, kernel, process, workers, Created, Threads
<1>14. QED
  BY <1>1, <1>2, <1>3, <1>4, <1>5, <1>6, <1>7, <1>8, <1>9, <1>10, <1>11, <1>12, <1>13
     DEF Next, MainStep, Worker, Rest
---------------------------------------------------------------------------
\* IInv holds in every state the program reaches.
THEOREM Inductive == Spec => []IInv
<1>1. IInv /\ [Next]_vars => IInv'
  BY TypeStep, ShapeStep, HeldStep, RowStep, CopyStep, TokenStep, LedgerStep DEF IInv
<1>2. QED
  BY InitIInv, <1>1, PTL DEF Spec

\* Type correctness, with any number of starts, kills and workers.
THEOREM TypeCorrect == Spec => []TypeOK
<1>1. IInv => TypeOK
  BY DEF IInv
<1>2. QED
  BY Inductive, <1>1, PTL

\* main copies the field only while no worker steps a cell of it.
THEOREM BarrierHolds == Spec => []Barrier
<1>1. IInv => Barrier
  <2> SUFFICES ASSUME IInv, main = "copy", attached, NEW t \in Created, pc[t] = "step"
               PROVE  FALSE
    BY DEF Barrier
  <2>1. t \in Threads /\ sem[t] >= 1
    BY OwnSemaphore DEF IInv, HeldInv
  <2>2. QED
    BY <2>1 DEF IInv, HeldInv
<1>2. QED
  BY Inductive, <1>1, PTL

\* What main begins to copy is the whole next generation.
THEOREM WholeGenerationHolds == Spec => []WholeGeneration
<1>1. IInv => WholeGeneration
  BY DEF IInv, CopyInv, WholeGeneration
<1>2. QED
  BY Inductive, <1>1, PTL

\* The rows of the running workers partition the field.
THEOREM PartitionHolds == Spec => []Partition
<1>1. IInv => Partition
  <2>1. IInv /\ Loaded => nthr \in Nat \ {0}
    BY ThreadAssumption DEF IInv, ShapeInv, Loaded
  <2>2. QED
    BY <2>1, EveryRowOwned DEF Partition
<1>2. QED
  BY Inductive, <1>1, PTL

\* Each start leaves at most one token behind, and none on semaphore 0.
THEOREM TokensHold == Spec => []Tokens
<1>1. IInv => Tokens
  BY DEF IInv, TypeOK, TokenInv, Tokens
<1>2. QED
  BY Inductive, <1>1, PTL

\* In a run of a new set no worker starts an iteration main has not allowed.
THEOREM AllowedHolds == Spec => []Allowed
<1>1. IInv => Allowed
  <2> SUFFICES ASSUME IInv, attached, runs = 1, NEW t \in Created
               PROVE  k[t] <= round + 1 /\ (main = "copy" => k[t] = round)
    BY DEF Allowed
  <2>1. k[t] \in Nat /\ round \in Nat /\ main \in MainPlaces
    BY DEF IInv, TypeOK
  <2>2. t \in Threads /\ nthr \in Nat
    BY ThreadAssumption DEF IInv, TypeOK, ShapeInv, Threads, Sems
  <2>3. Running => sem[t] \in Nat
    BY <2>2 DEF IInv, TypeOK, ShapeInv, Threads, Sems
  <2>4. CASE main = "copy"
    BY <2>1, <2>2, <2>4 DEF IInv, LedgerInv, HeldInv
  <2>5. CASE main \in {"create", "wait"}
    BY <2>1, <2>3, <2>5 DEF IInv, LedgerInv, Running
  <2>6. CASE main = "done"
    BY <2>1, <2>6 DEF IInv, LedgerInv
  <2>7. QED
    BY <2>1, <2>4, <2>5, <2>6 DEF IInv, ShapeInv, MainPlaces
<1>2. QED
  BY Inductive, <1>1, PTL
---------------------------------------------------------------------------
(***************************************************************************)
(* Refinement: with one start, or the same argv[1] at every start, the set *)
(* is always large enough, and the program is the synchronous game of life.*)
(***************************************************************************)
SameCount == MaxRuns <= 1 \/ \A m, n \in ThreadCounts : m = n

AttachedInv ==
  /\ main # "off" => attached
  /\ nsems # 0 => nsems \in ThreadCounts

LEMMA AttachedStep ==
  ASSUME SameCount, IInv, AttachedInv, [Next]_vars
  PROVE  AttachedInv'
<1> USE DEF AttachedInv
<1>1. ASSUME NEW n \in ThreadCounts, Start(n) PROVE AttachedInv'
  <2>1. attached' = (nsems = 0 \/ n <= nsems) /\ nsems' = IF nsems = 0 THEN n ELSE nsems
    BY <1>1 DEF Start
  <2>2. nsems = 0 \/ n <= nsems
    <3>1. nsems # 0 => nsems = n
      <4>1. CASE \A l, m \in ThreadCounts : l = m
        BY <4>1
      <4>2. CASE MaxRuns <= 1
        <5>1. runs = 0
          BY <1>1, <4>2, ThreadAssumption DEF Start, IInv, TypeOK
        <5>2. QED
          BY <5>1 DEF IInv, LedgerInv
      <4>3. QED
        BY <4>1, <4>2 DEF SameCount
    <3>2. n \in Nat
      BY ThreadAssumption
    <3>3. QED
      BY <3>1, <3>2
  <2>3. attached'
    BY <2>1, <2>2, Zenon
  <2>4. QED
    BY <1>1, <2>1, <2>3
<1>2. CASE MainStep
  BY <1>2 DEF MainStep, SetUp, InitField, CreateThread, WaitAndUpdate, CopyRow, FinishUpdate, Join, kernel, process
<1>3. ASSUME NEW t \in AllThreads, Worker(t) PROVE AttachedInv'
  BY <1>3 DEF Worker, WaitAndRun, StepCell, FinishRun, kernel, process
<1>4. CASE Kill
  BY <1>4 DEF Kill, kernel, process
<1>5. CASE UNCHANGED vars
  BY <1>5 DEF vars, kernel, process
<1>6. QED
  BY <1>1, <1>2, <1>3, <1>4, <1>5 DEF Next, Rest

\* Every step is a step of the synchronous game or changes nothing it shows.
LEMMA SyncStep ==
  ASSUME IInv, AttachedInv, [Next]_vars
  PROVE  [Sync!Next]_(Sync!vars)
<1> SUFFICES \/ Number' = -1 /\ Shown' = <<>>
             \/ Shown' \in Patterns /\ Number' = 0
             \/ Number \in 0 .. ITER - 2 /\ Number' = Number + 1 /\ Shown' = Generation(Shown)
             \/ Number' = Number /\ Shown' = Shown
  BY DEF Sync!Next, Sync!vars, Sync!Load, Sync!Tick, Sync!Vanish, Sync!Vanished, Shown, Number
<1> USE DEF IInv, Shown, Number, Loaded
<1>1. ASSUME NEW n \in ThreadCounts, Start(n) PROVE Number' = -1 /\ Shown' = <<>>
  BY <1>1 DEF Start
<1>2. CASE SetUp
  BY <1>2 DEF SetUp
<1>3. CASE InitField
  BY <1>3 DEF InitField, ShapeInv
<1>4. CASE CreateThread
  BY <1>4 DEF CreateThread, field
<1>5. CASE WaitAndUpdate
  <2>1. next = Generation(now)
    BY <1>5, AllStepped DEF WaitAndUpdate, Passes, AttachedInv
  <2>2. round \in 0 .. ITER - 2
    BY <1>5, FieldAssumption DEF WaitAndUpdate, TypeOK
  <2>3. QED
    BY <1>5, <2>1, <2>2 DEF WaitAndUpdate
<1>6. CASE CopyRow
  BY <1>6 DEF CopyRow
<1>7. CASE FinishUpdate
  <2>1. now \in Grid /\ next \in Grid /\ attached
    BY <1>7 DEF FinishUpdate, TypeOK, AttachedInv
  <2>2. \A y \in Row : now[y] = next[y]
    BY <1>7, <2>1, FieldAssumption DEF FinishUpdate, CopyInv, Row
  <2>3. now = next
    BY <2>1, <2>2 DEF Grid
  <2>4. QED
    BY <1>7, <2>3 DEF FinishUpdate, field
<1>8. CASE Join
  BY <1>8 DEF Join, field
<1>9. ASSUME NEW t \in AllThreads, Worker(t) PROVE Number' = Number /\ Shown' = Shown
  <2>1. CASE WaitAndRun(t)
    BY <2>1 DEF WaitAndRun, field
  <2>2. CASE StepCell(t)
    <3>1. t \in Threads /\ attached /\ sem[t] >= 1
      BY <2>2, OwnSemaphore DEF StepCell, HeldInv, AttachedInv, ShapeInv
    <3>2. main # "copy"
      BY <3>1 DEF HeldInv
    <3>3. QED
      BY <2>2, <3>2 DEF StepCell
  <2>3. CASE FinishRun(t)
    BY <2>3 DEF FinishRun, field
  <2>4. QED
    BY <1>9, <2>1, <2>2, <2>3 DEF Worker
<1>10. CASE Kill
  BY <1>10 DEF Kill
<1>11. CASE UNCHANGED vars
  BY <1>11 DEF vars, field
<1>12. QED
  BY <1>1, <1>2, <1>3, <1>4, <1>5, <1>6, <1>7, <1>8, <1>9, <1>10, <1>11 DEF Next, MainStep, Rest

\* The threads, the semaphores and the two buffers implement the rule applied
\* to all cells at once, across kills and restarts.
THEOREM Implements == SameCount => (Spec => Synchronous)
<1> SUFFICES ASSUME SameCount PROVE Spec => Synchronous
  OBVIOUS
<1>1. Init => AttachedInv /\ Sync!Init
  BY DEF Init, AttachedInv, Sync!Init, Sync!Vanished, Loaded, Shown, Number
<1>2. IInv /\ AttachedInv /\ [Next]_vars => AttachedInv' /\ [Sync!Next]_(Sync!vars)
  BY AttachedStep, SyncStep
<1>3. QED
  BY <1>1, <1>2, Inductive, PTL DEF Spec, Synchronous, Sync!Spec
===========================================================================

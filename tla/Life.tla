------------------------------- MODULE Life -------------------------------
(***************************************************************************)
(* The threaded game of life of MPI-progs/life/life.cpp.  Worker t owns    *)
(* the rows StartY(t) .. EndY(t) - 1; a System V semaphore per worker      *)
(* holds the iterations it may still run, and main copies next to now when *)
(* every semaphore is zero.  The semaphore set belongs to the kernel: a    *)
(* killed process leaves it behind, with its values, for the next run.     *)
(***************************************************************************)
EXTENDS LifeGrid

CONSTANTS
  ThreadCounts,   \* the values of argv[1] that runs are started with
  MaxRuns         \* bound: how many times the program is started

ASSUME ThreadAssumption ==
  /\ ThreadCounts \subseteq Nat \ {0}
  /\ MaxRuns \in Nat

VARIABLES
  nsems, sem,     \* the kernel's set: its size (0: no set) and its values
  main,           \* where main() is
  nthr,           \* Npthrds of this run
  attached,       \* sem_id is a valid identifier
  pc,             \* where each created worker is
  k,              \* iterations each worker has finished
  at,             \* the cell <<row, column>> each worker is about to step
  now, next,      \* the two buffers of Field_t
  copied,         \* rows Field_t::update has copied
  round,          \* updates main has begun
  runs            \* starts so far

kernel == <<nsems, sem>>
workers == <<pc, k, at>>
field == <<now, next, copied>>
process == <<nthr, attached, runs>>
vars == <<kernel, main, process, workers, field, round>>

Sems(n) == 0 .. n - 1
Threads == Sems(nthr)
Created == DOMAIN pc
---------------------------------------------------------------------------
(***************************************************************************)
(* The rows of worker t of n.  The loop at the head of thread_func runs    *)
(* SizeY % n - 1 times with r going down from SizeY - 1, and moves a bound *)
(* by one for each r it reaches.                                           *)
(***************************************************************************)
Rs(n) == SizeY - ((SizeY % n) - 1) .. SizeY - 1

StartY(t, n) == (SizeY \div n) * t + Cardinality({r \in Rs(n) : t >= r})

\* Fault: no row for the last worker when the rows do not divide evenly.
EndYEven(t, n) == (SizeY \div n) * (t + 1)

EndY(t, n) ==
  IF t = n - 1 THEN SizeY
  ELSE (SizeY \div n) * (t + 1) + Cardinality({r \in Rs(n) : t >= r - 1})

RowsOf(t, n) == StartY(t, n) .. EndY(t, n) - 1
---------------------------------------------------------------------------
(***************************************************************************)
(* semop blocks while an operation of the set cannot be done.  With an     *)
(* invalid identifier it returns -1 at once, and no caller looks.          *)
(***************************************************************************)
Passes(P) == attached => P

\* Fault: the last worker gets no token.
AddToAllButLast ==
  IF attached THEN [s \in Sems(nsems) |-> IF s < nthr - 1 THEN sem[s] + 1 ELSE sem[s]]
  ELSE sem

\* finish_update: one more iteration for each of this run's workers.
AddToAll ==
  IF attached THEN [s \in Sems(nsems) |-> IF s < nthr THEN sem[s] + 1 ELSE sem[s]]
  ELSE sem

NoWorkers ==
  /\ pc' = [t \in {} |-> "wait"]
  /\ k' = [t \in {} |-> 0]
  /\ at' = [t \in {} |-> <<0, 0>>]

NoField == now' = <<>> /\ next' = <<>> /\ copied' = 0

Init ==
  /\ nsems = 0 /\ sem = [s \in {} |-> 0]
  /\ main = "off" /\ nthr = 0 /\ attached = FALSE /\ runs = 0
  /\ pc = [t \in {} |-> "wait"] /\ k = [t \in {} |-> 0] /\ at = [t \in {} |-> <<0, 0>>]
  /\ now = <<>> /\ next = <<>> /\ copied = 0 /\ round = 0

\* Fault: the constructor does not clear semaphore 0.
StartUncleared(n) ==
  /\ main \in {"off", "done"}
  /\ runs < MaxRuns
  /\ runs' = runs + 1
  /\ main' = "setup"
  /\ nthr' = n
  /\ attached' = (nsems = 0 \/ n <= nsems)
  /\ nsems' = IF nsems = 0 THEN n ELSE nsems
  /\ sem' = [s \in Sems(nsems') |-> IF nsems = 0 THEN 0 ELSE sem[s]]
  /\ round' = 0
  /\ NoWorkers
  /\ NoField

(***************************************************************************)
(* A start up to the end of the constructor of semafor: an existing set is *)
(* taken as it is, unless it is too small (EINVAL); only semaphore 0 is    *)
(* cleared.  (A kill between the two calls is that of the next state: the  *)
(* next start clears semaphore 0 again.)                                   *)
(***************************************************************************)
Start(n) ==
  /\ main \in {"off", "done"}
  /\ runs < MaxRuns
  /\ runs' = runs + 1
  /\ main' = "setup"
  /\ nthr' = n
  /\ attached' = (nsems = 0 \/ n <= nsems)
  /\ nsems' = IF nsems = 0 THEN n ELSE nsems
  /\ sem' = [s \in Sems(nsems') |-> IF nsems = 0 \/ (s = 0 /\ attached') THEN 0 ELSE sem[s]]
  /\ round' = 0
  /\ NoWorkers
  /\ NoField

\* set_up is finish_update under another name.
SetUp ==
  /\ main = "setup"
  /\ main' = "init"
  /\ sem' = AddToAll
  /\ UNCHANGED <<nsems, process, workers, field, round>>

\* Field_t::init reads now from the file and copies it to next.
InitField ==
  /\ main = "init"
  /\ main' = "create"
  /\ now' \in Patterns
  /\ next' = now'
  /\ UNCHANGED <<kernel, process, workers, copied, round>>

CreateThread ==
  LET t == Cardinality(Created)
  IN
  /\ main = "create"
  /\ pc' = [u \in 0 .. t |-> IF u = t THEN "wait" ELSE pc[u]]
  /\ k' = [u \in 0 .. t |-> IF u = t THEN 0 ELSE k[u]]
  /\ at' = [u \in 0 .. t |-> IF u = t THEN <<StartY(t, nthr), 0>> ELSE at[u]]
  /\ main' = IF t = nthr - 1 THEN "wait" ELSE "create"
  /\ UNCHANGED <<kernel, process, field, round>>
---------------------------------------------------------------------------
\* wait_and_run: -1 and +1 in one semop, a test that the semaphore is positive.
WaitAndRun(t) ==
  /\ t \in Created
  /\ pc[t] = "wait"
  /\ Passes(sem[t] >= 1)
  /\ pc' = [pc EXCEPT ![t] = "step"]
  /\ at' = [at EXCEPT ![t] = <<StartY(t, nthr), 0>>]
  /\ UNCHANGED <<kernel, main, process, k, field, round>>

(***************************************************************************)
(* One call of Field_t::step.  Behind the barrier now does not change      *)
(* under it; without one it races with Field_t::update and may count       *)
(* neighbours of both generations.                                         *)
(***************************************************************************)
StepCell(t) ==
  LET y == at[t][1]
      x == at[t][2]
  IN
  /\ t \in Created
  /\ pc[t] = "step"
  /\ y < EndY(t, nthr)
  /\ \E c \in IF attached THEN {Rule(now, x, y)} ELSE {"#", "."} :
       next' = [next EXCEPT ![y][x] = c]
  /\ at' = [at EXCEPT ![t] = IF x = SizeX - 1 THEN <<y + 1, 0>> ELSE <<y, x + 1>>]
  /\ UNCHANGED <<kernel, main, process, pc, k, now, copied, round>>

\* Fault: the worker keeps its token.
FinishRunKeeping(t) ==
  /\ t \in Created
  /\ pc[t] = "step"
  /\ at[t][1] >= EndY(t, nthr)
  /\ k' = [k EXCEPT ![t] = @ + 1]
  /\ pc' = [pc EXCEPT ![t] = IF k[t] + 1 = ITER THEN "exit" ELSE "wait"]
  /\ UNCHANGED <<kernel, main, process, at, field, round>>

\* finish_run, and the test of the worker's loop.
FinishRun(t) ==
  /\ t \in Created
  /\ pc[t] = "step"
  /\ at[t][1] >= EndY(t, nthr)
  /\ Passes(sem[t] >= 1)
  /\ sem' = IF attached THEN [sem EXCEPT ![t] = @ - 1] ELSE sem
  /\ k' = [k EXCEPT ![t] = @ + 1]
  /\ pc' = [pc EXCEPT ![t] = IF k[t] + 1 = ITER THEN "exit" ELSE "wait"]
  /\ UNCHANGED <<nsems, main, process, at, field, round>>

\* Fault: main looks at its first semaphore only.
WaitForFirst ==
  /\ main = "wait"
  /\ round < ITER - 1
  /\ Passes(sem[0] = 0)
  /\ main' = "copy"
  /\ round' = round + 1
  /\ copied' = 0
  /\ UNCHANGED <<kernel, process, workers, now, next>>

\* wait_and_update: zero on every semaphore of the run, in one semop.
WaitAndUpdate ==
  /\ main = "wait"
  /\ round < ITER - 1
  /\ Passes(\A s \in Threads : sem[s] = 0)
  /\ main' = "copy"
  /\ round' = round + 1
  /\ copied' = 0
  /\ UNCHANGED <<kernel, process, workers, now, next>>

\* Fault: the copy goes the other way.
CopyRowBack ==
  /\ main = "copy"
  /\ copied < SizeY
  /\ next' = [next EXCEPT ![copied] = now[copied]]
  /\ copied' = copied + 1
  /\ UNCHANGED <<kernel, main, process, workers, now, round>>

\* Field_t::update, one memcpy.
CopyRow ==
  /\ main = "copy"
  /\ copied < SizeY
  /\ now' = [now EXCEPT ![copied] = next[copied]]
  /\ copied' = copied + 1
  /\ UNCHANGED <<kernel, main, process, workers, next, round>>

FinishUpdate ==
  /\ main = "copy"
  /\ copied = SizeY
  /\ main' = "wait"
  /\ sem' = AddToAll
  /\ UNCHANGED <<nsems, process, workers, field, round>>

\* All workers joined; the destructor of semafor removes the set.
Join ==
  /\ main = "wait"
  /\ round = ITER - 1
  /\ \A t \in Threads : pc[t] = "exit"
  /\ main' = "done"
  /\ nsems' = IF attached THEN 0 ELSE nsems
  /\ sem' = [s \in Sems(nsems') |-> sem[s]]
  /\ UNCHANGED <<process, workers, field, round>>
---------------------------------------------------------------------------
\* A signal ends the process with its threads.  Bound: the last run is left alone.
Kill ==
  /\ main \notin {"off", "done"}
  /\ runs < MaxRuns
  /\ main' = "off"
  /\ NoWorkers
  /\ NoField
  /\ round' = 0
  /\ UNCHANGED <<kernel, process>>

\* Nobody starts the program again.
Rest ==
  /\ main \in {"off", "done"}
  /\ UNCHANGED vars

MainStep ==
  \/ SetUp \/ InitField \/ CreateThread
  \/ WaitAndUpdate \/ CopyRow \/ FinishUpdate \/ Join

Worker(t) == WaitAndRun(t) \/ StepCell(t) \/ FinishRun(t)

AllThreads == UNION {Sems(n) : n \in ThreadCounts}

Next ==
  \/ \E n \in ThreadCounts : Start(n)
  \/ MainStep
  \/ \E t \in AllThreads : Worker(t)
  \/ Kill
  \/ Rest

Spec == Init /\ [][Next]_vars

\* The kernel runs every thread that can run; nobody has to start or kill anything.
FairSpec ==
  /\ Spec
  /\ WF_vars(MainStep)
  /\ \A t \in AllThreads : WF_vars(Worker(t))
---------------------------------------------------------------------------
MainPlaces == {"off", "setup", "init", "create", "wait", "copy", "done"}
Loaded == main \in {"create", "wait", "copy", "done"}

\* Values have the types of the code's variables; workers are created in order.
TypeOK ==
  /\ nsems \in Nat
  /\ sem \in [Sems(nsems) -> Nat]
  /\ main \in MainPlaces
  /\ nthr \in ThreadCounts \cup {0}
  /\ attached \in BOOLEAN
  /\ \E c \in 0 .. nthr : Created = Sems(c)
  /\ pc \in [Created -> {"wait", "step", "exit"}]
  /\ k \in [Created -> 0 .. ITER]
  /\ at \in [Created -> Nat \X Col]
  /\ Loaded => now \in Grid /\ next \in Grid
  /\ copied \in 0 .. SizeY
  /\ round \in 0 .. ITER - 1
  /\ runs \in 0 .. MaxRuns

\* Every row of the field belongs to exactly one worker, whatever argv[1] is:
\* the remainder loop of thread_func leaves no row out and gives none away twice.
Owned(n) ==
  \A y \in Row : \E t \in Sems(n) : \A u \in Sems(n) : y \in RowsOf(u, n) <=> u = t

Partition == Loaded => Owned(nthr)

\* While main copies next to now no worker reads the one or writes the other:
\* wait_and_update only passes when every worker has finished, also in a set
\* that an earlier, killed run left behind.
Barrier == main = "copy" /\ attached => \A t \in Created : pc[t] # "step"

\* What main sees when wait_and_update lets it through is a whole generation:
\* each row was stepped after the last update, by whichever worker owns it.
WholeGeneration ==
  main = "copy" /\ attached /\ copied = 0 => next = Generation(now)

\* The tokens bound the workers: none starts an iteration main has not allowed,
\* so a worker ahead of main by more than one was let ahead by an older run.
Allowed ==
  (attached /\ runs = 1) =>
    \A t \in Created : k[t] <= round + 1 /\ (main = "copy" => k[t] = round)

\* Every start adds at most one token that nobody took, except to semaphore 0,
\* which the constructor clears; so it takes two kills to leave two.
Tokens == \A s \in DOMAIN sem : sem[s] <= IF s = 0 THEN 1 ELSE runs

\* A run whose workers find at most one token too many (one killed run before
\* it) ends.  With two or more, the last wait_and_update waits for a zero that
\* no worker is left to produce.
Ends ==
  (main = "create" /\ \A t \in Threads : attached => sem[t] <= 2)
    ~> main \in {"off", "done"}

\* The generation main has reached and its number, while a field is loaded.
Shown == IF main = "copy" THEN next ELSE IF Loaded THEN now ELSE <<>>
Number == IF Loaded THEN round ELSE -1

Sync == INSTANCE LifeSync WITH grid <- Shown, age <- Number

\* Every field main reaches is the next generation of the one before it: threads,
\* semaphores and buffers implement the rule applied to all cells at once, as
\* long as no run is larger than the set it finds.
Synchronous == Sync!Spec
---------------------------------------------------------------------------
(***************************************************************************)
(* The inductive invariant behind the theorems of LifeProofs.              *)
(***************************************************************************)
Running == main \notin {"off", "done"}

\* Where main is, which workers exist and what they may index.
ShapeInv ==
  /\ main # "off" => nthr \in ThreadCounts /\ runs >= 1
  /\ main \in {"off", "setup", "init"} => Created = {}
  /\ main = "create" => Created # Threads
  /\ main \in {"wait", "copy", "done"} => Created = Threads
  /\ Running /\ attached => nthr <= nsems
  /\ main \in {"setup", "init", "create"} => round = 0
  /\ main = "copy" => round >= 1
  /\ main = "done" => \A t \in Created : pc[t] = "exit"
  /\ \A t \in Created : pc[t] # "exit" => k[t] < ITER
  /\ \A t \in Created : pc[t] = "step" => at[t][1] >= StartY(t, nthr)

\* A worker inside its iteration holds a token; main copies when there is none.
HeldInv ==
  attached =>
    /\ \A t \in Created : pc[t] = "step" => sem[t] >= 1
    /\ main = "copy" => \A t \in Threads : sem[t] = 0
    /\ main \in {"init", "create"} => \A t \in Threads \ Created : sem[t] >= 1

\* Worker t has stepped cell (x, y) since the last update: it has used all of
\* its tokens, or it has come past the cell in this iteration.
Stepped(t, x, y) ==
  \/ sem[t] = 0
  \/ /\ pc[t] = "step"
     /\ y < at[t][1] \/ (y = at[t][1] /\ x < at[t][2])

RowInv ==
  attached /\ main \in {"create", "wait"} =>
    \A t \in Created : \A y \in RowsOf(t, nthr), x \in Col :
      Stepped(t, x, y) => next[y][x] = Rule(now, x, y)

\* The rows update has copied; before the first, next is the next generation.
CopyInv ==
  attached /\ main = "copy" =>
    /\ \A y \in Row : y < copied => now[y] = next[y]
    /\ copied = 0 => next = Generation(now)

\* Before set_up a run finds at most one token of each run before it.
TokenInv ==
  \A s \in DOMAIN sem :
    /\ s = 0 => sem[s] <= IF main = "setup" /\ attached THEN 0 ELSE 1
    /\ s # 0 => sem[s] <= IF main = "setup" THEN runs - 1 ELSE runs

\* In a run of a new set a worker's tokens and iterations add up.
LedgerInv ==
  /\ runs = 0 => nsems = 0 /\ main = "off"
  /\ runs = 1 /\ attached =>
       /\ main = "setup" => \A t \in Threads : sem[t] = 0
       /\ main \in {"init", "create"} => \A t \in Threads \ Created : sem[t] = 1
       /\ main \in {"create", "wait"} => \A t \in Created : sem[t] + k[t] = round + 1
       /\ main = "copy" => \A t \in Created : sem[t] + k[t] = round
       /\ main = "done" => \A t \in Created : k[t] <= round + 1

IInv ==
  /\ TypeOK /\ ShapeInv /\ HeldInv /\ RowInv /\ CopyInv /\ TokenInv /\ LedgerInv
===========================================================================

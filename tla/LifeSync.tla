----------------------------- MODULE LifeSync -----------------------------
(***************************************************************************)
(* What MPI-progs/life/life.cpp computes, without its threads and          *)
(* semaphores: generations that follow each other by a rule applied to all *)
(* cells at once.  Life.tla shows that the threaded program implements     *)
(* this for the rule of Field_t::step.                                     *)
(***************************************************************************)
EXTENDS Integers

CONSTANTS
  ITER,            \* iterations of each worker
  Patterns,        \* the fields config.txt may hold
  Generation(_)    \* the field that follows a field

VARIABLES
  grid,   \* the current generation, empty while no run is under way
  age     \* its number, -1 while no run is under way

vars == <<grid, age>>

Vanished == grid = <<>> /\ age = -1

Init == Vanished

\* A run reads its field from the file.
Load == grid' \in Patterns /\ age' = 0

\* Main updates the field ITER - 1 times.
Tick ==
  /\ age \in 0 .. ITER - 2
  /\ age' = age + 1
  /\ grid' = Generation(grid)

\* The process is killed, or the next one replaces it.
Vanish == Vanished'

Next == Load \/ Tick \/ Vanish

Spec == Init /\ [][Next]_vars
===========================================================================

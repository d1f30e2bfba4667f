----------------------------- MODULE LifeGrid -----------------------------
(***************************************************************************)
(* The field of MPI-progs/life/life.cpp and the rule of Field_t::step.     *)
(***************************************************************************)
EXTENDS Integers, FiniteSets

CONSTANTS
  SizeX, SizeY,   \* columns and rows of the field
  ITER,           \* iterations of each worker
  Patterns        \* the fields config.txt may hold

(***************************************************************************)
(* A cell holds '#', '.' or any other byte: Field_t::init reads whatever   *)
(* the file has, and shorter lines leave other bytes behind.               *)
(***************************************************************************)
Cell == {"#", ".", "other"}
Row == 0 .. SizeY - 1
Col == 0 .. SizeX - 1
Grid == [Row -> [Col -> Cell]]

ASSUME FieldAssumption ==
  /\ SizeX \in Nat \ {0}
  /\ SizeY \in Nat \ {0}
  /\ ITER \in Nat \ {0}
  /\ Patterns \subseteq Grid

\* The eight neighbours of a cell, as offsets.
Around == ((-1 .. 1) \X (-1 .. 1)) \ {<<0, 0>>}

\* Live neighbours of cell (x, y); the field wraps at its edges.
Neighbours(g, x, y) ==
  Cardinality({d \in Around :
                 g[(SizeY + y + d[2]) % SizeY][(SizeX + x + d[1]) % SizeX] = "#"})

\* Field_t::step: a byte that is not '.' survives like a live cell.
Rule(g, x, y) ==
  IF Neighbours(g, x, y) = 3 \/ (g[y][x] # "." /\ Neighbours(g, x, y) = 2)
  THEN "#" ELSE "."

Generation(g) == [y \in Row |-> [x \in Col |-> Rule(g, x, y)]]
===========================================================================

------------------------------ MODULE MCLife ------------------------------
(***************************************************************************)
(* Instances of Life for TLC: a small torus and some fields on it.         *)
(***************************************************************************)
EXTENDS Life

Blank == [y \in Row |-> [x \in Col |-> "."]]

\* A bar that turns, cut by the edge of the torus.
Blinker == [Blank EXCEPT ![0] = [x \in Col |-> IF x < 3 THEN "#" ELSE "."]]

\* A block with one byte of something else in it.
Odd == [y \in Row |-> [x \in Col |->
          IF x = 1 /\ y = 1 THEN "other" ELSE IF x < 2 /\ y < 2 THEN "#" ELSE "."]]

SomePatterns == {Blinker, Odd}

\* On a torus of two cells every cell is its own neighbour, and all of them die.
Crowded == {[y \in Row |-> [x \in Col |-> "#"]]}
===========================================================================

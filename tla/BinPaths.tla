------------------------------ MODULE BinPaths -----------------------------
(***************************************************************************)
(* What Linux-progs/bintree promises about a tree and one iterator on it:  *)
(* the tree is a set of paths from its head, with every path its prefixes; *)
(* the iterator is one of them.  There are no addresses and no memory.     *)
(***************************************************************************)
EXTENDS Integers, Sequences, FiniteSets

CONSTANTS Side, MaxNodes

VARIABLES
  tree,     \* the paths of the nodes; the head is <<>>
  at,       \* the iterator's path, or Nowhere
  nnodes    \* what the tree says of its size

vars == <<tree, at, nnodes>>

Nowhere == <<-1>>   \* no path has it

Front(p) == SubSeq(p, 1, Len(p) - 1)
Below(p) == {q \in tree : Len(q) >= Len(p) /\ SubSeq(q, 1, Len(p)) = p}

Init == tree = {} /\ at = Nowhere /\ nnodes = 0

Become(paths) == tree' = paths /\ nnodes' = Cardinality(paths)

Plant == tree = {} /\ Become({<<>>}) /\ at' = Nowhere

Fell == tree # {} /\ Become({}) /\ at' = Nowhere

Place == tree # {} /\ at' = <<>> /\ UNCHANGED <<tree, nnodes>>

Down(s) ==
  /\ at # Nowhere /\ Append(at, s) \in tree
  /\ at' = Append(at, s)
  /\ UNCHANGED <<tree, nnodes>>

Up ==
  /\ at # Nowhere
  /\ at' = IF at = <<>> THEN Nowhere ELSE Front(at)
  /\ UNCHANGED <<tree, nnodes>>

\* The new node takes the place of the whole subtree that is there.
Graft(s) ==
  /\ at # Nowhere
  /\ LET new == Append(at, s)
     IN  Become((tree \ Below(new)) \cup {new})
  /\ Cardinality(tree') <= MaxNodes
  /\ UNCHANGED at

Cut ==
  /\ at \notin {Nowhere, <<>>}
  /\ Become(tree \ Below(at))
  /\ at' = Front(at)

Next ==
  \/ Plant \/ Fell \/ Place \/ Up \/ Cut
  \/ \E s \in Side : Down(s) \/ Graft(s)

Spec == Init /\ [][Next]_vars
===========================================================================

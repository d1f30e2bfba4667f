------------------------------ MODULE BinTree ------------------------------
(***************************************************************************)
(* The tree of Linux-progs/bintree/btlib.c, with its nodes, their pointers *)
(* and the memory they are in, the iterator that walks on it and the one   *)
(* that is to visit each node.                                             *)
(*                                                                         *)
(* The caller keeps to what the library leaves to it: an iterator is made  *)
(* on the tree it is used with, the head is not deleted as an item, and    *)
(* the tree is not changed during a foreach.  malloc() succeeds.           *)
(***************************************************************************)
EXTENDS Integers, Sequences, FiniteSets

CONSTANTS
  Node,   \* addresses of nodes
  NULL

ASSUME HeapAssumption == IsFiniteSet(Node) /\ NULL \notin Node

LEFT == 0
RIGHT == 1
Side == {LEFT, RIGHT}

VARIABLES
  heap,      \* the addresses in use
  head,      \* the head of the tree, NULL when there is no tree
  nnodes,
  child,     \* child[n][LEFT] and child[n][RIGHT]
  parent,
  passed,    \* the nodes whose passed is 1
  it,        \* *it of the walking iterator
  each,      \* the foreach_t, or Closed
  visited    \* what foreach_current() has given since foreach_init()

tree == <<heap, head, nnodes, child, parent>>
foreach == <<passed, each, visited>>
vars == <<tree, it, foreach>>

Ptr == Node \cup {NULL}
Closed == [node |-> NULL, nnodes |-> 0, i |-> 0]

Init ==
  /\ heap = {} /\ head = NULL /\ nnodes = 0
  /\ child = [n \in Node |-> [s \in Side |-> NULL]]
  /\ parent = [n \in Node |-> NULL]
  /\ passed = {}
  /\ it = NULL /\ each = Closed /\ visited = <<>>

\* The nodes a walk from n comes to when the pointers of x lead to links[x]:
\* the least set of nodes with n and what its members lead to.
Reached(n, links) ==
  LET closed == {S \in SUBSET Node : n \in S /\ \A x \in S : links[x] \cap Node \subseteq S}
  IN  {m \in Node : n \in Node /\ \A S \in closed : m \in S}

\* The nodes delete_node(n) frees, whose number it returns.
Subtree(n) == Reached(n, [x \in Node |-> {child[x][s] : s \in Side}])
---------------------------------------------------------------------------
\* Memory that nobody has a use for is the same to everyone.
Freed(f, gone, value) == [n \in Node |-> IF n \in gone THEN value ELSE f[n]]
Leafless == [s \in Side |-> NULL]

init_tree ==
  /\ head = NULL
  /\ \E n \in Node :
       /\ head' = n /\ heap' = {n}
       /\ child' = [child EXCEPT ![n] = Leafless]
       /\ parent' = [parent EXCEPT ![n] = NULL]
       /\ passed' = {}
  /\ nnodes' = 1
  /\ UNCHANGED <<it, each, visited>>

delete_tree ==
  /\ head # NULL /\ each = Closed
  /\ heap' = heap \ Subtree(head)
  /\ child' = Freed(child, Subtree(head), Leafless)
  /\ parent' = Freed(parent, Subtree(head), NULL)
  /\ passed' = passed \ Subtree(head)
  /\ head' = NULL /\ nnodes' = 0
  /\ it' = NULL
  /\ UNCHANGED <<each, visited>>

\* Fault: the place is taken, the subtree that was there is not.
insert_item_keeping(side) ==
  /\ it # NULL /\ each = Closed
  /\ \E n \in Node \ heap :
       /\ heap' = heap \cup {n}
       /\ child' = [child EXCEPT ![it][side] = n, ![n] = Leafless]
       /\ parent' = [parent EXCEPT ![n] = it]
       /\ passed' = passed \ {n}
  /\ nnodes' = nnodes + 1
  /\ UNCHANGED <<head, it, each, visited>>

\* The new node takes the place of a subtree, which is freed first.
insert_item(side) ==
  LET old == Subtree(child[it][side])
  IN
  /\ it # NULL /\ each = Closed
  /\ \E n \in (Node \ heap) \cup old :
       /\ heap' = (heap \ old) \cup {n}
       /\ child' = [Freed(child, old, Leafless) EXCEPT ![it][side] = n, ![n] = Leafless]
       /\ parent' = [Freed(parent, old, NULL) EXCEPT ![n] = it]
       /\ passed' = (passed \ old) \ {n}
  /\ nnodes' = nnodes - Cardinality(old) + 1
  /\ UNCHANGED <<head, it, each, visited>>

\* Fault: the right child is taken for the item.
delete_item_right ==
  LET up == parent[it]
      side == RIGHT
      old == Subtree(child[up][side])
  IN
  /\ it # NULL /\ it # head /\ each = Closed
  /\ it' = up
  /\ heap' = heap \ old
  /\ child' = [Freed(child, old, Leafless) EXCEPT ![up][side] = NULL]
  /\ parent' = Freed(parent, old, NULL)
  /\ passed' = passed \ old
  /\ nnodes' = nnodes - Cardinality(old)
  /\ UNCHANGED <<head, each, visited>>

\* The iterator moves up first, so that it does not point to what is freed.
delete_item ==
  LET up == parent[it]
      side == IF child[up][LEFT] = it THEN LEFT ELSE RIGHT
      old == Subtree(child[up][side])
  IN
  /\ it # NULL /\ it # head /\ each = Closed
  /\ it' = up
  /\ heap' = heap \ old
  /\ child' = [Freed(child, old, Leafless) EXCEPT ![up][side] = NULL]
  /\ parent' = Freed(parent, old, NULL)
  /\ passed' = passed \ old
  /\ nnodes' = nnodes - Cardinality(old)
  /\ UNCHANGED <<head, each, visited>>
---------------------------------------------------------------------------
it_init ==
  /\ head # NULL
  /\ it' = head
  /\ UNCHANGED <<tree, foreach>>

\* it_left() and it_right(); where there is no child they stay.
it_down(side) ==
  /\ it # NULL /\ child[it][side] # NULL
  /\ it' = child[it][side]
  /\ UNCHANGED <<tree, foreach>>

\* Above the head there is nothing: every call then returns at once.
it_up ==
  /\ it # NULL
  /\ it' = parent[it]
  /\ UNCHANGED <<tree, foreach>>
---------------------------------------------------------------------------
isEnd(e) == e.i >= e.nnodes

\* Fault: the marks of the last foreach are left.
foreach_init_stale ==
  /\ head # NULL /\ each = Closed
  /\ each' = [node |-> head, nnodes |-> nnodes, i |-> 0]
  /\ passed' = passed
  /\ visited' = <<head>>
  /\ UNCHANGED <<tree, it>>

\* Every node of the tree loses its mark.
foreach_init ==
  /\ head # NULL /\ each = Closed
  /\ each' = [node |-> head, nnodes |-> nnodes, i |-> 0]
  /\ passed' = passed \ Subtree(head)
  /\ visited' = <<head>>
  /\ UNCHANGED <<tree, it>>

\* n and the nodes foreach_next() comes to when it goes up from n.
Above(n) == Reached(n, [x \in Node |-> {parent[x]}])

\* The children of n the walk has not left.
Open(n, marks) == {s \in Side : child[n][s] \notin marks \cup {NULL}}

\* Fault: a node the walk leaves upwards gets no mark.
StepUnmarked(e, marks) ==
  LET stops == {a \in Above(e.node) : Open(a, marks) # {}}
      up == IF stops = {} THEN NULL ELSE CHOOSE a \in stops : stops \subseteq Above(a)
      gone == Above(e.node) \ Above(up)
  IN
  [each |-> [e EXCEPT !.node = IF up = NULL THEN NULL
                               ELSE IF LEFT \in Open(up, marks) THEN child[up][LEFT]
                               ELSE child[up][RIGHT],
                      !.i = @ + Cardinality(gone) + IF up = NULL THEN 0 ELSE 1],
   marks |-> marks]

\* Up to the first node with a child that has no mark, or above the head, with a
\* mark in every node on the way; then down to that child.  The count goes up
\* by one for every call, which is one for every node on the way.
Step(e, marks) ==
  LET left(a) == Above(e.node) \ Above(a)
      stops == {a \in Above(e.node) : Open(a, marks \cup left(a)) # {}}
      up == IF stops = {} THEN NULL ELSE CHOOSE a \in stops : stops \subseteq Above(a)
      all == marks \cup left(up)
  IN
  [each |-> [e EXCEPT !.node = IF up = NULL THEN NULL
                               ELSE IF LEFT \in Open(up, all) THEN child[up][LEFT]
                               ELSE child[up][RIGHT],
                      !.i = @ + Cardinality(left(up)) + IF up = NULL THEN 0 ELSE 1],
   marks |-> all]

\* foreach_next(), and what foreach_current() then gives.
foreach_next ==
  /\ each # Closed /\ ~isEnd(each)
  /\ LET r == Step(each, passed)
     IN  /\ each' = r.each
         /\ passed' = r.marks
         /\ visited' = IF isEnd(r.each) THEN visited ELSE Append(visited, r.each.node)
  /\ UNCHANGED <<tree, it>>

foreach_delete ==
  /\ each # Closed
  /\ each' = Closed /\ visited' = <<>>
  /\ UNCHANGED <<tree, it, passed>>

Next ==
  \/ init_tree \/ delete_tree \/ delete_item
  \/ it_init \/ it_up
  \/ \E side \in Side : insert_item(side) \/ it_down(side)
  \/ foreach_init \/ foreach_next \/ foreach_delete

Spec == Init /\ [][Next]_vars
---------------------------------------------------------------------------
\* Pointers lead to nodes or nowhere; what the code reads is there to read.
TypeOK ==
  /\ heap \subseteq Node /\ passed \subseteq heap
  /\ head \in heap \cup {NULL} /\ it \in heap \cup {NULL}
  /\ nnodes \in 0 .. Cardinality(Node)
  /\ child \in [Node -> [Side -> Ptr]] /\ parent \in [Node -> Ptr]
  /\ each # Closed => /\ each.node \in heap \cup {NULL}
                      /\ each.i \in 0 .. 2 * each.nnodes
  /\ visited \in Seq(Ptr)

\* The memory in use is one tree: the addresses in use are those reached from
\* the head, every child knows its parent and is its child on one side, the
\* head is nobody's child, and nnodes is their number.
Sound ==
  /\ TypeOK
  /\ heap = Subtree(head) /\ nnodes = Cardinality(heap)
  /\ \A n \in heap, s \in Side : child[n][s] # NULL => parent[child[n][s]] = n
  /\ \A n \in heap : child[n][LEFT] = child[n][RIGHT] => child[n][LEFT] = NULL
  /\ head # NULL => parent[head] = NULL

\* foreach_current() never reads through a null pointer: the count is at its
\* end before the walk leaves the head.
CurrentIsThere == each # Closed /\ ~isEnd(each) => each.node # NULL

\* The nodes in the left subtree of a node that has n in its right one.
LeftOf(n) ==
  {m \in heap : \E a \in heap : m \in Subtree(child[a][LEFT]) /\ n \in Subtree(child[a][RIGHT])}

\* The order in which dump_node() shows the nodes, each before its left
\* subtree and that before its right one.
Before(m, n) == m # n /\ (n \in Subtree(m) \/ m \in LeftOf(n))

\* What a foreach gives is the beginning of the tree in preorder: each node
\* comes after all the nodes that are before it, and after no other.
InPreorder ==
  \A k \in DOMAIN visited :
    /\ visited[k] \in heap
    /\ {visited[j] : j \in 1 .. k - 1} = {m \in heap : Before(m, visited[k])}

\* The way from the head to n: the side of every node on it but the head.
Depth(n) == Cardinality(Above(n)) - 1
Path(n) ==
  IF n = NULL THEN <<-1>>
  ELSE [k \in 1 .. Depth(n) |->
          IF \E b \in Above(n) : Depth(b) = k /\ child[parent[b]][LEFT] = b THEN LEFT ELSE RIGHT]

\* A caller that does not see the memory sees a set of paths: nothing it does
\* to one part of the tree shows in another.
AllPaths == {Path(n) : n \in heap}
Paths == INSTANCE BinPaths
           WITH tree <- AllPaths, at <- Path(it), MaxNodes <- Cardinality(Node)
IsPaths == Paths!Spec
---------------------------------------------------------------------------
(***************************************************************************)
(* The inductive invariant.  As long as foreach_current() may be called,   *)
(* the marks are in the nodes to the left of the one it gives and the      *)
(* count is not below their number.                                        *)
(***************************************************************************)
WalkInv ==
  IF each = Closed THEN visited = <<>>
  ELSE /\ each \in [node : Ptr, nnodes : Nat, i : Nat]
       /\ each.nnodes = nnodes /\ head # NULL
       /\ ~isEnd(each) =>
            /\ each.node \in heap
            /\ visited # <<>> /\ visited[Len(visited)] = each.node
            /\ passed = LeftOf(each.node)
            /\ each.i >= Cardinality(passed)

IInv == Sound /\ WalkInv /\ InPreorder
===========================================================================

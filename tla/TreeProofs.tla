----------------------------- MODULE TreeProofs ----------------------------
(***************************************************************************)
(* Theorems about BinTree, for any number of addresses.                    *)
(***************************************************************************)
EXTENDS BinTree, FiniteSetTheorems, SequenceTheorems, TLAPS

(***************************************************************************)
(* What is reached from a node along any links.                            *)
(***************************************************************************)
LEMMA ReachedIn == ASSUME NEW n, NEW links PROVE Reached(n, links) \subseteq Node
BY DEF Reached

LEMMA ReachedFirst == ASSUME NEW n \in Node, NEW links PROVE n \in Reached(n, links)
BY DEF Reached

LEMMA ReachedOn ==
  ASSUME NEW n, NEW links, NEW x \in Reached(n, links), NEW y \in links[x], y \in Node
  PROVE  y \in Reached(n, links)
BY DEF Reached

\* The induction on a walk: a set that has n and is not left has all of it.
LEMMA ReachedLeast ==
  ASSUME NEW n, NEW links, NEW S \in SUBSET Node, n \in S,
         \A x \in S : links[x] \cap Node \subseteq S
  PROVE  Reached(n, links) \subseteq S
BY DEF Reached

---------------------------------------------------------------------------
(***************************************************************************)
(* The tree, as far as its pointers go.                                    *)
(***************************************************************************)
Shape ==
  /\ heap \subseteq Node /\ head \in heap \cup {NULL}
  /\ child \in [Node -> [Side -> Ptr]] /\ parent \in [Node -> Ptr]
  /\ heap = Subtree(head)
  /\ \A n \in heap, s \in Side : child[n][s] # NULL => parent[child[n][s]] = n
  /\ \A n \in heap : child[n][LEFT] = child[n][RIGHT] => child[n][LEFT] = NULL
  /\ head # NULL => parent[head] = NULL

LEMMA SoundShape == Sound => Shape
BY DEF Sound, TypeOK, Shape

LEMMA Sides == LEFT \in Side /\ RIGHT \in Side /\ LEFT # RIGHT /\ \A s \in Side : s = LEFT \/ s = RIGHT
BY DEF Side, LEFT, RIGHT

LEMMA SubtreeIn == ASSUME NEW n PROVE Subtree(n) \subseteq Node
BY ReachedIn DEF Subtree

LEMMA SubtreeNull == Subtree(NULL) = {}
BY HeapAssumption DEF Subtree, Reached

LEMMA SubtreeFirst == ASSUME NEW n \in Node PROVE n \in Subtree(n)
BY ReachedFirst DEF Subtree

LEMMA SubtreeDown ==
  ASSUME NEW n, NEW x \in Subtree(n), NEW s \in Side, child[x][s] \in Node
  PROVE  child[x][s] \in Subtree(n)
<1> DEFINE links == [y \in Node |-> {child[y][t] : t \in Side}]
<1>1. x \in Node /\ child[x][s] \in links[x]
  BY SubtreeIn
<1> HIDE DEF links
<1>2. Subtree(n) = Reached(n, links)
  BY DEF Subtree, links
<1> QED
  BY <1>1, <1>2, ReachedOn

LEMMA SubtreeLeast ==
  ASSUME NEW n, NEW S \in SUBSET Node, n \in S,
         \A x \in S, s \in Side : child[x][s] \in Node => child[x][s] \in S
  PROVE  Subtree(n) \subseteq S
<1> DEFINE links == [y \in Node |-> {child[y][t] : t \in Side}]
<1>1. \A x \in S : links[x] \cap Node \subseteq S
  OBVIOUS
<1> HIDE DEF links
<1> QED
  BY <1>1, ReachedLeast DEF Subtree, links

LEMMA HeapDown ==
  ASSUME Shape, NEW x \in heap, NEW s \in Side PROVE child[x][s] \in heap \cup {NULL}
<1>1. child[x][s] \in Ptr /\ x \in Subtree(head)
  BY DEF Shape
<1> QED
  BY <1>1, SubtreeDown DEF Shape, Ptr

LEMMA HeapInNode == ASSUME Shape PROVE heap \subseteq Node /\ NULL \notin heap
BY HeapAssumption DEF Shape

\* A set of nodes in use that has the head and is not left is the whole tree.
LEMMA HeapLeast ==
  ASSUME Shape, NEW S \in SUBSET heap, head \in S,
         \A x \in S, s \in Side : child[x][s] # NULL => child[x][s] \in S
  PROVE  S = heap
<1>1. S \in SUBSET Node /\ \A x \in S, s \in Side : child[x][s] \in Node => child[x][s] \in S
  BY HeapAssumption, HeapInNode
<1>2. Subtree(head) \subseteq S
  BY <1>1, SubtreeLeast
<1> QED
  BY <1>2 DEF Shape

LEMMA SubtreeInHeap == ASSUME Shape, NEW n \in heap PROVE Subtree(n) \subseteq heap
<1>1. \A x \in heap, s \in Side : child[x][s] \in Node => child[x][s] \in heap
  BY HeapDown, HeapAssumption
<1> QED
  BY <1>1, HeapInNode, SubtreeLeast

LEMMA SubtreeChild ==
  ASSUME Shape, NEW n \in heap, NEW x \in Subtree(n), NEW s \in Side, child[x][s] # NULL
  PROVE  child[x][s] \in Subtree(n)
<1>1. child[x][s] \in Node
  BY SubtreeInHeap, HeapDown, HeapInNode
<1> QED
  BY <1>1, SubtreeDown

LEMMA SubtreeTrans ==
  ASSUME Shape, NEW n \in heap, NEW m \in Subtree(n) PROVE Subtree(m) \subseteq Subtree(n)
<1>1. \A x \in Subtree(n), s \in Side : child[x][s] \in Node => child[x][s] \in Subtree(n)
  BY SubtreeDown
<1> QED
  BY <1>1, SubtreeIn, SubtreeLeast

\* Who is in a subtree and not its root has its parent in it.
LEMMA SubtreeUp ==
  ASSUME Shape, NEW n \in heap, NEW m \in Subtree(n), m # n
  PROVE  parent[m] \in Subtree(n) /\ \E s \in Side : child[parent[m]][s] = m
<1>1. PICK x \in Subtree(n), s \in Side : child[x][s] = m
  <2>1. SUFFICES ASSUME \A x \in Subtree(n), s \in Side : child[x][s] # m PROVE FALSE
    OBVIOUS
  <2> DEFINE S == Subtree(n) \ {m}
  <2>2. n \in S /\ S \in SUBSET Node
    BY HeapInNode, SubtreeFirst, SubtreeIn
  <2>3. \A x \in S, s \in Side : child[x][s] \in Node => child[x][s] \in S
    BY <2>1, SubtreeDown
  <2> HIDE DEF S
  <2>4. Subtree(n) \subseteq S
    BY <2>2, <2>3, SubtreeLeast
  <2> QED
    BY <2>4 DEF S
<1>2. m # NULL /\ x \in heap
  BY SubtreeInHeap, HeapInNode
<1>3. parent[m] = x
  BY <1>1, <1>2 DEF Shape
<1> QED
  BY <1>1, <1>3

LEMMA HeapUp ==
  ASSUME Shape, NEW m \in heap, m # head
  PROVE  parent[m] \in heap /\ \E s \in Side : child[parent[m]][s] = m
<1>1. head \in heap /\ m \in Subtree(head) /\ Subtree(head) = heap
  BY SubtreeNull DEF Shape
<1> QED
  BY <1>1, SubtreeUp

LEMMA HeadInHeap == ASSUME Shape, NEW m \in heap PROVE head \in heap
BY SubtreeNull DEF Shape

\* The head is below nobody but itself.
LEMMA HeadTop == ASSUME Shape, NEW n \in heap, head \in Subtree(n) PROVE n = head
<1>1. SUFFICES ASSUME n # head PROVE FALSE
  OBVIOUS
<1>2. head # NULL /\ parent[head] \in Subtree(n)
  BY <1>1, SubtreeUp, HeadInHeap, HeapInNode
<1>3. parent[head] = NULL
  BY <1>2 DEF Shape
<1> QED
  BY <1>2, <1>3, SubtreeIn, HeapAssumption

LEMMA ChildNotHead ==
  ASSUME Shape, NEW p \in heap, NEW s \in Side, child[p][s] # NULL
  PROVE  child[p][s] \in heap /\ child[p][s] # head /\ parent[child[p][s]] = p
<1>1. child[p][s] \in heap /\ parent[child[p][s]] = p
  BY HeapDown DEF Shape
<1>2. child[p][s] # head
  BY <1>1, HeapInNode DEF Shape
<1> QED
  BY <1>1, <1>2

\* Nobody is below its own child.
LEMMA Acyclic ==
  ASSUME Shape, NEW p \in heap, NEW s \in Side, child[p][s] # NULL
  PROVE  p \notin Subtree(child[p][s])
<1> DEFINE c == child[p][s]
<1>1. c \in heap /\ c # head /\ parent[c] = p
  BY ChildNotHead
<1> HIDE DEF c
<1>2. SUFFICES ASSUME p \in Subtree(c) PROVE FALSE
  BY DEF c
<1> DEFINE S == heap \ Subtree(c)
<1>3. head \in S
  BY <1>1, HeadTop, HeadInHeap
<1>4. ASSUME NEW x \in S, NEW t \in Side, child[x][t] # NULL PROVE child[x][t] \in S
  <2>1. child[x][t] \in heap /\ parent[child[x][t]] = x
    BY <1>4, ChildNotHead
  <2>2. SUFFICES ASSUME child[x][t] \in Subtree(c) PROVE FALSE
    BY <2>1
  <2>3. CASE child[x][t] = c
    BY <1>1, <1>2, <2>1, <2>3
  <2>4. CASE child[x][t] # c
    BY <1>1, <2>1, <2>2, <2>4, SubtreeUp
  <2> QED
    BY <2>3, <2>4
<1> HIDE DEF S
<1>5. S = heap
  BY <1>3, <1>4, HeapLeast DEF S
<1> QED
  BY <1>1, <1>5, SubtreeFirst, HeapInNode DEF S

\* Who is below a node and is not it is below one of its children.
LEMMA SubtreeSplit ==
  ASSUME Shape, NEW n \in heap, NEW m \in Subtree(n), m # n
  PROVE  \E s \in Side : child[n][s] # NULL /\ m \in Subtree(child[n][s])
<1> DEFINE Below == UNION {Subtree(child[n][s]) : s \in Side}
           S == {n} \cup Below
<1>1. S \in SUBSET Node /\ n \in S
  BY SubtreeIn, HeapInNode
<1>2. ASSUME NEW x \in S, NEW t \in Side, child[x][t] \in Node PROVE child[x][t] \in S
  <2>1. CASE x = n
    BY <1>2, <2>1, SubtreeFirst
  <2>2. ASSUME NEW s \in Side, x \in Subtree(child[n][s]) PROVE child[x][t] \in S
    BY <1>2, <2>2, SubtreeDown
  <2> QED
    BY <2>1, <2>2
<1> HIDE DEF S
<1>3. Subtree(n) \subseteq S
  BY <1>1, <1>2, SubtreeLeast
<1> QED
  BY <1>3, SubtreeNull DEF S

LEMMA SubtreeSame ==
  ASSUME Shape, NEW m \in heap, NEW n \in heap, m \in Subtree(n), n \in Subtree(m)
  PROVE  m = n
<1>1. SUFFICES ASSUME m # n PROVE FALSE
  OBVIOUS
<1>2. PICK s \in Side : child[n][s] # NULL /\ m \in Subtree(child[n][s])
  BY <1>1, SubtreeSplit
<1>3. n \in Subtree(child[n][s])
  BY <1>2, ChildNotHead, SubtreeTrans
<1> QED
  BY <1>2, <1>3, Acyclic

\* Two subtrees with a node in common: one is in the other.
LEMMA Nested ==
  ASSUME Shape, NEW m \in heap, NEW n \in heap, Subtree(m) \cap Subtree(n) # {}
  PROVE  m \in Subtree(n) \/ n \in Subtree(m)
<1>1. SUFFICES ASSUME m \notin Subtree(n), n \notin Subtree(m) PROVE FALSE
  OBVIOUS
<1> DEFINE Both == Subtree(m) \cap Subtree(n)
           S == heap \ Both
<1>2. head \in S
  BY <1>1, HeadTop, HeadInHeap, SubtreeFirst, HeapInNode
<1>3. ASSUME NEW x \in S, NEW t \in Side, child[x][t] # NULL PROVE child[x][t] \in S
  <2>1. child[x][t] \in heap /\ parent[child[x][t]] = x
    BY <1>3, ChildNotHead
  <2>2. SUFFICES ASSUME child[x][t] \in Both PROVE FALSE
    BY <2>1
  <2>3. x \in Subtree(m) /\ x \in Subtree(n)
    BY <1>1, <2>1, <2>2, SubtreeUp
  <2> QED
    BY <2>3
<1>4. S \in SUBSET heap
  OBVIOUS
<1> HIDE DEF S
<1>5. S = heap
  BY <1>2, <1>3, <1>4, HeapLeast
<1> QED
  BY <1>5, SubtreeInHeap DEF S

\* The two sides of a node have nothing in common.
LEMMA Apart ==
  ASSUME Shape, NEW p \in heap
  PROVE  Subtree(child[p][LEFT]) \cap Subtree(child[p][RIGHT]) = {}
<1> DEFINE l == child[p][LEFT]
           r == child[p][RIGHT]
<1>1. SUFFICES ASSUME Subtree(l) \cap Subtree(r) # {} PROVE FALSE
  OBVIOUS
<1>2. l # NULL /\ r # NULL
  BY <1>1, SubtreeNull
<1>3. l \in heap /\ r \in heap /\ parent[l] = p /\ parent[r] = p
  BY <1>2, ChildNotHead, Sides
<1>4. l # r
  BY <1>2 DEF Shape
<1>5. p \notin Subtree(l) /\ p \notin Subtree(r)
  BY <1>2, Acyclic, Sides
<1> HIDE DEF l, r
<1> QED
  BY <1>1, <1>3, <1>4, <1>5, Nested, SubtreeUp

---------------------------------------------------------------------------
(***************************************************************************)
(* The way up.                                                             *)
(***************************************************************************)
LEMMA AboveFirst == ASSUME NEW n \in Node PROVE n \in Above(n)
BY ReachedFirst DEF Above

LEMMA AboveNull == Above(NULL) = {}
BY HeapAssumption DEF Above, Reached

LEMMA AboveUp ==
  ASSUME NEW n, NEW x \in Above(n), parent[x] \in Node PROVE parent[x] \in Above(n)
<1> DEFINE links == [y \in Node |-> {parent[y]}]
<1>1. x \in Node /\ parent[x] \in links[x]
  BY ReachedIn DEF Above
<1> HIDE DEF links
<1>2. Above(n) = Reached(n, links)
  BY DEF Above, links
<1> QED
  BY <1>1, <1>2, ReachedOn

LEMMA AboveLeast ==
  ASSUME NEW n, NEW S \in SUBSET Node, n \in S,
         \A x \in S : parent[x] \in Node => parent[x] \in S
  PROVE  Above(n) \subseteq S
<1> DEFINE links == [y \in Node |-> {parent[y]}]
<1>1. \A x \in S : links[x] \cap Node \subseteq S
  OBVIOUS
<1> HIDE DEF links
<1> QED
  BY <1>1, ReachedLeast DEF Above, links

\* The nodes above n are those that have n below them.
LEMMA AboveIs ==
  ASSUME Shape, NEW n \in heap PROVE Above(n) = {m \in heap : n \in Subtree(m)}
<1> DEFINE S == {m \in heap : n \in Subtree(m)}
<1>1. Above(n) \subseteq S
  <2>1. n \in S /\ S \in SUBSET Node
    BY HeapInNode, SubtreeFirst
  <2>2. ASSUME NEW x \in S, parent[x] \in Node PROVE parent[x] \in S
    <3>1. x # head
      BY <2>2, HeapInNode, HeapAssumption DEF Shape
    <3>2. PICK s \in Side : parent[x] \in heap /\ child[parent[x]][s] = x
      BY <3>1, HeapUp
    <3>3. x \in Subtree(parent[x])
      BY <2>2, <3>2, SubtreeFirst, SubtreeDown, HeapInNode
    <3> QED
      BY <3>2, <3>3, SubtreeTrans
  <2> HIDE DEF S
  <2> QED
    BY <2>1, <2>2, AboveLeast
<1>2. ASSUME NEW m \in heap, n \in Subtree(m) PROVE m \in Above(n)
  <2> DEFINE T == {x \in heap : m \in Above(x)}
  <2>1. m \in T /\ T \in SUBSET Node
    BY HeapInNode, AboveFirst
  <2>2. ASSUME NEW x \in T, NEW s \in Side, child[x][s] \in Node PROVE child[x][s] \in T
    <3>1. child[x][s] \in heap /\ parent[child[x][s]] = x
      BY <2>2, ChildNotHead, HeapAssumption
    <3>2. x \in Above(child[x][s])
      BY <3>1, AboveFirst, AboveUp, HeapInNode
    <3>3. Above(x) \subseteq Above(child[x][s])
      <4>1. Above(child[x][s]) \in SUBSET Node
        BY ReachedIn DEF Above
      <4> QED
        BY <3>2, <4>1, AboveUp, AboveLeast
    <3> QED
      BY <3>1, <3>3
  <2> HIDE DEF T
  <2>3. Subtree(m) \subseteq T
    BY <2>1, <2>2, SubtreeLeast
  <2> QED
    BY <1>2, <2>3 DEF T
<1> QED
  BY <1>1, <1>2

LEMMA AboveFacts ==
  ASSUME Shape, NEW n \in heap
  PROVE  /\ Above(n) \subseteq heap /\ n \in Above(n) /\ head \in Above(n)
         /\ \A m \in Above(n) : Above(m) \subseteq Above(n) /\ n \in Subtree(m)
<1>1. n \in Above(n) /\ Above(n) = {m \in heap : n \in Subtree(m)}
  BY AboveFirst, AboveIs, HeapInNode
<1>2. head \in Above(n)
  BY <1>1, HeadInHeap DEF Shape
<1>3. \A m \in Above(n) : Above(m) \subseteq Above(n)
  <2>1. ASSUME NEW m \in Above(n), NEW x \in Above(m) PROVE x \in Above(n)
    <3>1. m \in heap /\ x \in heap /\ m \in Subtree(x) /\ n \in Subtree(m)
      BY <1>1, <2>1, AboveIs
    <3> QED
      BY <1>1, <3>1, SubtreeTrans
  <2> QED
    BY <2>1
<1> QED
  BY <1>1, <1>2, <1>3

\* Above a node that is not the head there are the node and what is above its
\* parent.
LEMMA AboveParent ==
  ASSUME Shape, NEW n \in heap, n # head
  PROVE  /\ parent[n] \in heap /\ n \notin Above(parent[n])
         /\ Above(n) = {n} \cup Above(parent[n])
<1> DEFINE p == parent[n]
<1>1. PICK s \in Side : p \in heap /\ child[p][s] = n
  BY HeapUp
<1>2. n \in Above(n) /\ p \in Above(n)
  BY <1>1, AboveFirst, AboveUp, HeapInNode
<1>3. Above(p) \subseteq Above(n)
  BY <1>2, AboveFacts
<1>4. n \notin Above(p)
  <2>1. SUFFICES ASSUME n \in Above(p) PROVE FALSE
    OBVIOUS
  <2>2. p \in Subtree(n)
    BY <1>1, <2>1, AboveFacts
  <2> QED
    BY <1>1, <2>2, Acyclic, HeapInNode
<1>5. Above(n) \subseteq {n} \cup Above(p)
  <2> DEFINE S == {n} \cup Above(p)
  <2>1. S \in SUBSET Node /\ n \in S
    BY <1>1, AboveFacts, HeapInNode
  <2>2. ASSUME NEW x \in S, parent[x] \in Node PROVE parent[x] \in S
    <3>1. CASE x = n
      BY <1>1, <3>1, AboveFirst, HeapInNode
    <3>2. CASE x \in Above(p)
      BY <2>2, <3>2, AboveUp
    <3> QED
      BY <3>1, <3>2
  <2> HIDE DEF S
  <2>3. Above(n) \subseteq S
    BY <2>1, <2>2, AboveLeast
  <2> QED
    BY <2>3 DEF S
<1> QED
  BY <1>1, <1>2, <1>3, <1>4, <1>5

LEMMA AboveHead == ASSUME Shape, head # NULL PROVE Above(head) = {head}
<1>1. head \in heap /\ head \in Node
  BY HeapInNode DEF Shape
<1> QED
  BY <1>1, AboveIs, HeadTop, SubtreeFirst

---------------------------------------------------------------------------
(***************************************************************************)
(* What is left of a node.                                                 *)
(***************************************************************************)
LEMMA LeftOfWitness ==
  ASSUME NEW n, NEW a \in heap, n \in Subtree(child[a][RIGHT]),
         NEW m \in heap, m \in Subtree(child[a][LEFT])
  PROVE  m \in LeftOf(n)
BY DEF LeftOf

LEMMA LeftOfOut ==
  ASSUME Shape, NEW n \in heap, NEW m \in LeftOf(n)
  PROVE  m \in heap /\ m \notin Subtree(n) /\ n \notin Subtree(m)
<1>1. PICK a \in heap : m \in Subtree(child[a][LEFT]) /\ n \in Subtree(child[a][RIGHT])
  BY DEF LeftOf
<1>2. m \in heap /\ child[a][LEFT] # NULL /\ child[a][RIGHT] # NULL
  BY <1>1, SubtreeNull DEF LeftOf
<1>3. Subtree(m) \subseteq Subtree(child[a][LEFT]) /\ Subtree(n) \subseteq Subtree(child[a][RIGHT])
  BY <1>1, <1>2, ChildNotHead, Sides, SubtreeTrans
<1> QED
  BY <1>1, <1>2, <1>3, Apart

LEMMA LeftOfHead == ASSUME Shape, head # NULL PROVE LeftOf(head) = {}
<1>1. SUFFICES ASSUME NEW a \in heap, head \in Subtree(child[a][RIGHT]) PROVE FALSE
  BY DEF LeftOf
<1>2. child[a][RIGHT] # NULL
  BY <1>1, SubtreeNull
<1> QED
  BY <1>1, <1>2, HeadTop, ChildNotHead, Sides

\* The left of a node's child: a child is in a right subtree if its parent is,
\* or if it is the right child.
LEMMA RightSubtree ==
  ASSUME Shape, NEW p \in heap, NEW s \in Side, child[p][s] # NULL, NEW a \in heap,
         child[p][s] \in Subtree(child[a][RIGHT])
  PROVE  p \in Subtree(child[a][RIGHT]) \/ (a = p /\ s = RIGHT)
<1> DEFINE c == child[p][s]
           r == child[a][RIGHT]
<1>1. c \in heap /\ parent[c] = p
  BY ChildNotHead
<1>2. r \in heap /\ parent[r] = a
  BY SubtreeNull, ChildNotHead, Sides
<1>3. CASE c # r
  <2> HIDE DEF c, r
  <2> QED
    BY <1>1, <1>2, <1>3, SubtreeUp DEF c, r
<1>4. CASE c = r
  <2>1. a = p /\ child[p][s] = child[p][RIGHT]
    BY <1>1, <1>2, <1>4
  <2> QED
    BY <2>1, Sides DEF Shape
<1> QED
  BY <1>3, <1>4

LEMMA LeftOfLeft ==
  ASSUME Shape, NEW p \in heap, child[p][LEFT] # NULL
  PROVE  LeftOf(child[p][LEFT]) = LeftOf(p)
<1> DEFINE l == child[p][LEFT]
<1>1. ASSUME NEW a \in heap PROVE l \in Subtree(child[a][RIGHT]) <=> p \in Subtree(child[a][RIGHT])
  <2>1. ASSUME p \in Subtree(child[a][RIGHT]) PROVE l \in Subtree(child[a][RIGHT])
    BY <2>1, SubtreeNull, ChildNotHead, SubtreeChild, Sides
  <2> QED
    BY <2>1, RightSubtree, Sides
<1> QED
  BY <1>1 DEF LeftOf

LEMMA LeftOfRight ==
  ASSUME Shape, NEW p \in heap, child[p][RIGHT] # NULL
  PROVE  LeftOf(child[p][RIGHT]) = LeftOf(p) \cup Subtree(child[p][LEFT])
<1> DEFINE r == child[p][RIGHT]
<1>1. r \in heap
  BY ChildNotHead, Sides
<1>2. ASSUME NEW m \in LeftOf(r) PROVE m \in LeftOf(p) \cup Subtree(child[p][LEFT])
  <2>1. PICK a \in heap : m \in heap /\ m \in Subtree(child[a][LEFT]) /\ r \in Subtree(child[a][RIGHT])
    BY <1>2 DEF LeftOf
  <2>2. p \in Subtree(child[a][RIGHT]) \/ a = p
    BY <2>1, RightSubtree, Sides
  <2> QED
    BY <2>1, <2>2 DEF LeftOf
<1>3. ASSUME NEW m \in Subtree(child[p][LEFT]) PROVE m \in LeftOf(r)
  <2>1. m \in heap
    BY <1>3, SubtreeNull, ChildNotHead, SubtreeInHeap, Sides
  <2>2. r \in Subtree(child[p][RIGHT])
    BY <1>1, SubtreeFirst, HeapInNode
  <2> QED
    BY <1>3, <2>1, <2>2 DEF LeftOf
<1>4. ASSUME NEW m \in LeftOf(p) PROVE m \in LeftOf(r)
  <2>1. PICK a \in heap : m \in heap /\ m \in Subtree(child[a][LEFT]) /\ p \in Subtree(child[a][RIGHT])
    BY <1>4 DEF LeftOf
  <2>2. r \in Subtree(child[a][RIGHT])
    BY <2>1, SubtreeNull, ChildNotHead, SubtreeChild, Sides
  <2> QED
    BY <2>1, <2>2 DEF LeftOf
<1> QED
  BY <1>2, <1>3, <1>4

\* What is left of a node is left of all that is below it.
LEMMA LeftOfBelow ==
  ASSUME Shape, NEW n \in heap, NEW c \in Subtree(n) PROVE LeftOf(n) \subseteq LeftOf(c)
<1>1. ASSUME NEW m \in LeftOf(n) PROVE m \in LeftOf(c)
  <2>1. PICK a \in heap : m \in heap /\ m \in Subtree(child[a][LEFT]) /\ n \in Subtree(child[a][RIGHT])
    BY <1>1 DEF LeftOf
  <2>2. c \in Subtree(child[a][RIGHT])
    BY <2>1, SubtreeNull, ChildNotHead, SubtreeTrans, Sides
  <2> QED
    BY <2>1, <2>2 DEF LeftOf
<1> QED
  BY <1>1

LEMMA LeftOfDown ==
  ASSUME Shape, NEW n \in heap, NEW x \in LeftOf(n), NEW s \in Side, child[x][s] # NULL
  PROVE  child[x][s] \in LeftOf(n)
<1>1. PICK a \in heap : x \in Subtree(child[a][LEFT]) /\ n \in Subtree(child[a][RIGHT])
  BY DEF LeftOf
<1>2. x \in heap /\ child[a][LEFT] \in heap
  BY <1>1, SubtreeNull, ChildNotHead, Sides DEF LeftOf
<1>3. child[x][s] \in Subtree(child[a][LEFT]) /\ child[x][s] \in heap
  BY <1>1, <1>2, SubtreeChild, ChildNotHead
<1> QED
  BY <1>1, <1>3 DEF LeftOf

---------------------------------------------------------------------------
(***************************************************************************)
(* One step of the walk.                                                   *)
(***************************************************************************)
\* Of some nodes above n one is the first on the way up.
LEMMA FirstAbove ==
  ASSUME Shape, NEW n \in heap, NEW T \in SUBSET Above(n), T # {}
  PROVE  \E a \in T : T \subseteq Above(a)
<1>1. SUFFICES ASSUME \A a \in T : ~(T \subseteq Above(a)) PROVE FALSE
  OBVIOUS
<1> DEFINE G == {x \in Above(n) : T \subseteq Above(x)}
<1>2. n \in G /\ G \in SUBSET Node
  BY AboveFacts, HeapInNode
<1>3. ASSUME NEW x \in G, parent[x] \in Node PROVE parent[x] \in G
  <2>1. x \in heap /\ x \notin T /\ T \subseteq Above(x)
    BY <1>1, AboveFacts
  <2>2. x # head
    BY <1>3, <2>1, HeapInNode, HeapAssumption DEF Shape
  <2>3. T \subseteq Above(parent[x])
    BY <2>1, <2>2, AboveParent
  <2>4. parent[x] \in Above(n)
    BY <1>3, AboveUp
  <2> QED
    BY <2>3, <2>4
<1> HIDE DEF G
<1>4. Above(n) \subseteq G
  BY <1>2, <1>3, AboveLeast
<1>5. PICK t \in T : t \in G
  BY <1>4
<1> QED
  BY <1>1, <1>5 DEF G

\* What foreach_next() leaves on its way from n up to a, and all it has left.
Way(n, a) == Above(n) \ Above(a)
Gone(n, a) == LeftOf(n) \cup Way(n, a)

LEMMA WayInWay ==
  ASSUME Shape, NEW n \in heap, NEW a \in Above(n) \cup {NULL}, NEW x \in Way(n, a)
  PROVE  Way(n, x) \subseteq Way(n, a)
<1>1. CASE a = NULL
  BY <1>1, AboveNull DEF Way
<1>2. CASE a \in Above(n)
  <2>1. x \in heap /\ a \in heap /\ n \in Subtree(x) /\ n \in Subtree(a)
    BY <1>2, AboveFacts DEF Way
  <2>2. x \notin Above(a)
    BY DEF Way
  <2>3. a \in Subtree(x) \/ x \in Subtree(a)
    BY <2>1, Nested
  <2>4. a \in Above(x)
    BY <2>1, <2>2, <2>3, AboveIs
  <2>5. Above(a) \subseteq Above(x)
    BY <2>1, <2>4, AboveFacts
  <2> QED
    BY <2>5 DEF Way
<1> QED
  BY <1>1, <1>2

\* With no open node on the way, what is left is left with all below it.
LEMMA GoneDown ==
  ASSUME Shape, NEW n \in heap, NEW a \in Above(n) \cup {NULL},
         \A x \in Way(n, a) : Open(x, LeftOf(n) \cup Way(n, x)) = {},
         NEW x \in Gone(n, a), NEW s \in Side, child[x][s] # NULL
  PROVE  child[x][s] \in Gone(n, a)
<1>1. CASE x \in LeftOf(n)
  BY <1>1, LeftOfDown DEF Gone
<1>2. CASE x \in Way(n, a)
  <2>1. child[x][s] \in LeftOf(n) \cup Way(n, x)
    BY <1>2 DEF Open
  <2> QED
    BY <1>2, <2>1, WayInWay DEF Gone
<1> QED
  BY <1>1, <1>2 DEF Gone

\* Above the head: the whole tree has been left.
LEMMA GoneAll ==
  ASSUME Shape, NEW n \in heap,
         \A x \in Way(n, NULL) : Open(x, LeftOf(n) \cup Way(n, x)) = {}
  PROVE  Gone(n, NULL) = heap
<1>1. Gone(n, NULL) \in SUBSET heap /\ head \in Gone(n, NULL)
  BY AboveFacts, AboveNull DEF Gone, Way, LeftOf
<1> QED
  BY <1>1, GoneDown, HeapLeast

LEMMA WayBelow ==
  ASSUME Shape, NEW n \in heap, NEW a \in Above(n), a # n
  PROVE  \E s \in Side : /\ child[a][s] \in heap /\ child[a][s] \in Above(n)
                         /\ n \in Subtree(child[a][s])
<1>1. a \in heap /\ n \in Subtree(a)
  BY AboveFacts
<1>2. PICK s \in Side : child[a][s] # NULL /\ n \in Subtree(child[a][s])
  BY <1>1, SubtreeSplit
<1>3. child[a][s] \in heap
  BY <1>1, <1>2, ChildNotHead
<1> QED
  BY <1>2, <1>3, AboveIs

\* Below the node the way goes up to: all of that side, and what is left of it.
LEMMA GoneSide ==
  ASSUME Shape, NEW n \in heap, NEW a \in Above(n), NEW s \in Side,
         child[a][s] \in heap, n \in Subtree(child[a][s]),
         \A x \in Way(n, a) : Open(x, LeftOf(n) \cup Way(n, x)) = {}
  PROVE  Gone(n, a) = LeftOf(child[a][s]) \cup Subtree(child[a][s])
<1> DEFINE b == child[a][s]
<1>1. a \in heap /\ b \in Above(n) /\ parent[b] = a /\ b # NULL
  BY AboveFacts, AboveIs, HeapInNode, ChildNotHead
<1>2. b # head /\ Above(b) = {b} \cup Above(a)
  BY <1>1, ChildNotHead, AboveParent
<1>3. b \in Way(n, a)
  BY <1>1, <1>2, AboveParent DEF Way
<1> HIDE DEF b
<1>4. b \in heap /\ n \in Subtree(b)
  BY DEF b
<1>5. Subtree(b) \subseteq Gone(n, a)
  <2>1. Gone(n, a) \in SUBSET Node /\ b \in Gone(n, a)
    BY <1>3, AboveFacts, HeapInNode DEF Gone, Way, LeftOf
  <2>2. \A x \in Gone(n, a), t \in Side : child[x][t] \in Node => child[x][t] \in Gone(n, a)
    BY GoneDown, HeapAssumption
  <2> QED
    BY <2>1, <2>2, SubtreeLeast
<1>6. LeftOf(b) \subseteq Gone(n, a)
  BY <1>4, LeftOfBelow DEF Gone
<1>7. Way(n, a) \subseteq Subtree(b)
  <2>1. ASSUME NEW x \in Way(n, a) PROVE x \in Subtree(b)
    <3>1. x \in heap /\ n \in Subtree(x) /\ x \notin Above(a)
      BY <2>1, AboveFacts DEF Way
    <3>2. x \in Subtree(b) \/ b \in Subtree(x)
      BY <1>4, <3>1, Nested
    <3>3. b \in Subtree(x) => x = b
      BY <1>2, <1>4, <3>1, AboveIs
    <3> QED
      BY <1>4, <3>2, <3>3, SubtreeFirst, HeapInNode
  <2> QED
    BY <2>1
<1>8. LeftOf(n) \subseteq LeftOf(b) \cup Subtree(b)
  <2>1. ASSUME NEW m \in LeftOf(n), m \notin Subtree(b) PROVE m \in LeftOf(b)
    <3>1. PICK e \in heap : m \in heap /\ m \in Subtree(child[e][LEFT]) /\ n \in Subtree(child[e][RIGHT])
      BY <2>1 DEF LeftOf
    <3>2. child[e][LEFT] \in heap /\ child[e][RIGHT] \in heap /\ parent[child[e][RIGHT]] = e
      BY <3>1, SubtreeNull, ChildNotHead, Sides
    <3>3. e \notin Subtree(b)
      <4>1. m \in Subtree(e)
        BY <3>1, <3>2, SubtreeFirst, SubtreeChild, SubtreeTrans, Sides, HeapInNode
      <4> QED
        BY <1>4, <2>1, <4>1, SubtreeTrans
    <3>4. child[e][RIGHT] \notin Subtree(b) \/ child[e][RIGHT] = b
      BY <1>4, <3>2, <3>3, SubtreeUp
    <3>5. b \in Subtree(child[e][RIGHT])
      BY <1>4, <3>1, <3>2, <3>4, Nested, SubtreeFirst, HeapInNode
    <3> QED
      BY <3>1, <3>5 DEF LeftOf
  <2> QED
    BY <2>1
<1> QED
  BY <1>5, <1>6, <1>7, <1>8 DEF Gone, b

\* Down from the node the way goes up to: what has been left is what is left of
\* the node it comes to.
LEMMA OpenSide ==
  ASSUME Shape, NEW n \in heap, NEW a \in Above(n),
         \A x \in Way(n, a) : Open(x, LeftOf(n) \cup Way(n, x)) = {},
         NEW t \in Side, t \in Open(a, Gone(n, a)),
         t = LEFT \/ LEFT \notin Open(a, Gone(n, a))
  PROVE  child[a][t] \in heap /\ LeftOf(child[a][t]) = Gone(n, a)
<1>1. a \in heap /\ child[a][t] # NULL /\ child[a][t] \notin Gone(n, a)
  BY AboveFacts DEF Open
<1>2. child[a][t] \in heap
  BY <1>1, ChildNotHead
<1>3. CASE a = n
  <2>1. Gone(n, a) = LeftOf(n)
    BY <1>3 DEF Gone, Way
  <2>2. CASE t = LEFT
    BY <1>1, <1>2, <1>3, <2>1, <2>2, LeftOfLeft
  <2>3. CASE t = RIGHT /\ LEFT \notin Open(a, Gone(n, a))
    <3>1. child[n][LEFT] \in LeftOf(n) \cup {NULL}
      BY <1>3, <2>1, <2>3, Sides DEF Open
    <3>2. child[n][LEFT] = NULL
      <4>1. SUFFICES ASSUME child[n][LEFT] # NULL PROVE FALSE
        OBVIOUS
      <4>2. child[n][LEFT] \in Subtree(n)
        BY <4>1, SubtreeFirst, SubtreeChild, HeapInNode, Sides
      <4> QED
        BY <3>1, <4>1, <4>2, LeftOfOut
    <3> QED
      BY <1>1, <1>2, <1>3, <2>1, <2>3, <3>2, LeftOfRight, SubtreeNull
  <2> QED
    BY <2>2, <2>3, Sides
<1>4. CASE a # n
  <2>1. PICK s \in Side : child[a][s] \in heap /\ n \in Subtree(child[a][s])
    BY <1>4, WayBelow
  <2>2. Gone(n, a) = LeftOf(child[a][s]) \cup Subtree(child[a][s])
    BY <2>1, GoneSide
  <2>3. child[a][s] # NULL /\ child[a][s] \in Gone(n, a)
    BY <2>1, <2>2, SubtreeFirst, HeapInNode
  <2>4. s # t
    BY <1>1, <2>3
  <2>5. CASE s = LEFT
    <3>1. t = RIGHT
      BY <2>4, <2>5, Sides
    <3> QED
      BY <1>1, <1>2, <2>2, <2>3, <2>5, <3>1, LeftOfLeft, LeftOfRight
  <2>6. CASE s = RIGHT
    <3>1. t = LEFT
      BY <2>4, <2>6, Sides
    <3>2. child[a][LEFT] \in Subtree(child[a][LEFT])
      BY <1>2, <3>1, SubtreeFirst, HeapInNode
    <3>3. Subtree(child[a][LEFT]) \subseteq Gone(n, a)
      BY <1>1, <2>2, <2>3, <2>6, LeftOfRight
    <3> QED
      BY <1>1, <3>1, <3>2, <3>3
  <2> QED
    BY <2>5, <2>6, Sides
<1> QED
  BY <1>3, <1>4

\* foreach_next() from n goes above the head when all has been left, or to a
\* node that has to its left just what has been left.
LEMMA StepGoes ==
  ASSUME Shape, NEW e \in [node : Ptr, nnodes : Nat, i : Nat], e.node \in heap
  PROVE  LET n == e.node
             r == Step(e, LeftOf(n))
         IN  \E a \in Above(n) \cup {NULL} :
               /\ r.marks = Gone(n, a)
               /\ a = NULL =>
                    /\ r.marks = heap
                    /\ r.each = [node |-> NULL, nnodes |-> e.nnodes,
                                 i |-> e.i + Cardinality(Way(n, a)) + 0]
               /\ a # NULL => \E s \in Side :
                    /\ child[a][s] \in heap /\ LeftOf(child[a][s]) = r.marks
                    /\ r.each = [node |-> child[a][s], nnodes |-> e.nnodes,
                                 i |-> e.i + Cardinality(Way(n, a)) + 1]
<1> DEFINE n == e.node
           marks == LeftOf(n)
           stops == {a \in Above(n) : Open(a, marks \cup Way(n, a)) # {}}
           up == IF stops = {} THEN NULL ELSE CHOOSE a \in stops : stops \subseteq Above(a)
           all == marks \cup Way(n, up)
           to == IF up = NULL THEN NULL
                 ELSE IF LEFT \in Open(up, all) THEN child[up][LEFT] ELSE child[up][RIGHT]
           r == Step(e, marks)
<1>1. /\ r.marks = Gone(n, up)
      /\ r.each = [node |-> to, nnodes |-> e.nnodes,
                   i |-> e.i + Cardinality(Way(n, up)) + IF up = NULL THEN 0 ELSE 1]
  BY DEF Step, Way, Gone
<1>2. up \in Above(n) \cup {NULL} /\ (up = NULL <=> stops = {})
      /\ (stops # {} => up \in stops /\ stops \subseteq Above(up))
  <2>1. stops \in SUBSET Above(n) /\ NULL \notin Above(n)
    BY AboveFacts, HeapInNode
  <2> HIDE DEF stops
  <2>2. stops # {} => \E a \in stops : stops \subseteq Above(a)
    BY <2>1, FirstAbove
  <2> QED
    BY <2>1, <2>2
<1>3. \A x \in Way(n, up) : Open(x, LeftOf(n) \cup Way(n, x)) = {}
  <2>1. ASSUME NEW x \in Way(n, up) PROVE x \notin stops
    BY <1>2, <2>1 DEF Way
  <2> QED
    BY <2>1 DEF Way
<1>4. CASE up = NULL
  <2>1. Gone(n, up) = heap
    BY <1>3, <1>4, GoneAll
  <2> HIDE DEF r, stops
  <2> QED
    BY <1>1, <1>2, <1>4, <2>1 DEF r
<1>5. CASE up # NULL
  <2>1. up \in Above(n) /\ Open(up, Gone(n, up)) # {} /\ all = Gone(n, up)
    BY <1>2, <1>5 DEF Gone
  <2>2. PICK t \in Side : /\ t \in Open(up, Gone(n, up)) /\ to = child[up][t]
                          /\ t = LEFT \/ LEFT \notin Open(up, Gone(n, up))
    <3>1. Open(up, Gone(n, up)) \subseteq Side
      BY DEF Open
    <3> HIDE DEF up, all
    <3> QED
      BY <1>5, <2>1, <3>1, Sides
  <2>a. n \in heap
    OBVIOUS
  <2>b. r.each = [node |-> to, nnodes |-> e.nnodes,
                 i |-> e.i + Cardinality(Way(n, up)) + 1]
    BY <1>1, <1>5
  <2> HIDE DEF r, up, to, all, stops, marks, n
  <2>3. child[up][t] \in heap /\ LeftOf(child[up][t]) = Gone(n, up)
    BY <1>3, <2>a, <2>1, <2>2, OpenSide
  <2>4. /\ LeftOf(child[up][t]) = r.marks
        /\ r.each = [node |-> child[up][t], nnodes |-> e.nnodes,
                     i |-> e.i + Cardinality(Way(n, up)) + 1]
    BY <1>1, <2>b, <2>2, <2>3
  <2> QED
    BY <1>1, <1>5, <2>1, <2>3, <2>4 DEF r, marks, n
<1> QED
  BY <1>4, <1>5

---------------------------------------------------------------------------
(***************************************************************************)
(* What insert_item() and delete_item() do to the tree.                    *)
(***************************************************************************)
LEMMA Pruned ==
  ASSUME Shape, NEW p \in heap, NEW s \in Side
  PROVE  LET old == Subtree(child[p][s])
         IN  /\ old \subseteq heap /\ p \notin old /\ head \notin old
             /\ \A x \in heap \ old, t \in Side : child[x][t] \in old => x = p /\ t = s
             /\ \A x \in old, t \in Side : child[x][t] \in old \cup {NULL}
<1> DEFINE c == child[p][s]
           old == Subtree(c)
<1>1. CASE c = NULL
  BY <1>1, SubtreeNull
<1>2. CASE c # NULL
  <2>1. c \in heap /\ c # head /\ parent[c] = p /\ p \notin old
    BY <1>2, ChildNotHead, Acyclic
  <2>2. old \subseteq heap /\ head \notin old
    BY <2>1, SubtreeInHeap, HeadTop
  <2>3. ASSUME NEW x \in heap \ old, NEW t \in Side, child[x][t] \in old PROVE x = p /\ t = s
    <3>1. child[x][t] # NULL /\ parent[child[x][t]] = x
      BY <2>2, <2>3, HeapInNode, ChildNotHead
    <3>2. child[x][t] = c
      <4> HIDE DEF c
      <4> QED
        BY <2>1, <2>3, <3>1, SubtreeUp
    <3>3. x = p
      BY <2>1, <3>1, <3>2
    <3> QED
      BY <3>1, <3>2, <3>3, Sides DEF Shape
  <2>4. ASSUME NEW x \in old, NEW t \in Side PROVE child[x][t] \in old \cup {NULL}
    <3> HIDE DEF c
    <3> QED
      BY <2>1, <2>4, SubtreeChild
  <2> HIDE DEF old
  <2> QED
    BY <2>1, <2>2, <2>3, <2>4 DEF old
<1> QED
  BY <1>1, <1>2

\* The nodes reached from the head after a step.
LEMMA SubtreeNext ==
  ASSUME NEW S \in SUBSET Node, head' \in S,
         \A x \in S, t \in Side : child'[x][t] \in Node => child'[x][t] \in S,
         \A T \in SUBSET S :
           head' \in T /\ (\A x \in T, t \in Side : child'[x][t] \in Node => child'[x][t] \in T)
             => T = S
  PROVE  Subtree(head)' = S
<1> DEFINE links == [y \in Node |-> {child'[y][t] : t \in Side}]
           T == Reached(head', links)
<1>1. Subtree(head)' = T
  BY DEF Subtree
<1>2. \A x \in S : links[x] \cap Node \subseteq S
  OBVIOUS
<1>3. T \subseteq Node /\ \A x \in Node, t \in Side : child'[x][t] \in links[x]
  BY ReachedIn
<1> HIDE DEF links
<1>4. T \in SUBSET S /\ head' \in T
  BY <1>2, ReachedLeast, ReachedFirst
<1>5. \A x \in T, t \in Side : child'[x][t] \in Node => child'[x][t] \in T
  BY <1>3, ReachedOn
<1> HIDE DEF T
<1>6. T = S
  BY <1>4, <1>5
<1> QED
  BY <1>1, <1>6

\* A node, or nothing, in the place of a subtree.
LEMMA Grafted ==
  ASSUME Shape, NEW p \in heap, NEW s \in Side, NEW old, old = Subtree(child[p][s]),
         NEW new \in Ptr, new \notin heap \ old,
         head' = head, heap' = (heap \ old) \cup ({new} \cap Node),
         child' \in [Node -> [Side -> Ptr]], parent' \in [Node -> Ptr],
         child'[p][s] = new,
         \A x \in heap \ old, t \in Side : (x # p \/ t # s) => child'[x][t] = child[x][t],
         \A x \in heap \ old : parent'[x] = parent[x],
         new # NULL => parent'[new] = p /\ \A t \in Side : child'[new][t] = NULL
  PROVE  Shape'
<1> DEFINE kept == heap \ old
<1>1. /\ old \subseteq heap /\ p \in kept /\ head \in kept
      /\ \A x \in kept, t \in Side : child[x][t] \in old => x = p /\ t = s
      /\ \A x \in old, t \in Side : child[x][t] \in old \cup {NULL}
  BY Pruned, HeadInHeap
<1>2. kept \subseteq Node /\ NULL \notin Node /\ NULL \notin kept
  BY HeapInNode, HeapAssumption
<1>3. \A x \in kept, t \in Side : child[x][t] \in heap \cup {NULL}
  BY HeapDown
<1>4. \A x \in kept, t \in Side : (x # p \/ t # s) => child'[x][t] \in kept \cup {NULL}
  BY <1>1, <1>3
<1>5. \A x \in heap', t \in Side : child'[x][t] \in Node => child'[x][t] \in heap'
  BY <1>2, <1>4
<1>6. ASSUME NEW T \in SUBSET heap', head' \in T,
             \A x \in T, t \in Side : child'[x][t] \in Node => child'[x][t] \in T
      PROVE  T = heap'
  <2> DEFINE U == (T \cap kept) \cup old
  <2>1. U \in SUBSET heap /\ head \in U
    BY <1>1, <1>6
  <2>2. ASSUME NEW x \in U, NEW t \in Side, child[x][t] # NULL PROVE child[x][t] \in U
    <3>1. CASE x \in old
      BY <1>1, <2>2, <3>1
    <3>2. CASE x \in kept /\ child[x][t] \notin old
      <4>1. child[x][t] \in kept
        BY <1>3, <2>2, <3>2
      <4>2. x # p \/ t # s
        <5>1. SUFFICES ASSUME x = p, t = s PROVE FALSE
          OBVIOUS
        <5>2. child[p][s] \in Subtree(child[p][s])
          BY <1>2, <4>1, <5>1, SubtreeFirst
        <5> QED
          BY <3>2, <5>1, <5>2
      <4>3. child'[x][t] = child[x][t] /\ x \in T
        BY <2>2, <3>2, <4>2
      <4> QED
        BY <1>2, <1>6, <4>1, <4>3
    <3> QED
      BY <2>2, <3>1, <3>2
  <2>3. U = heap
    <3> HIDE DEF U
    <3> QED
      BY <2>1, <2>2, HeapLeast
  <2>4. kept \subseteq T
    BY <2>3
  <2>5. new \in Node => new \in T
    BY <1>1, <1>6, <2>4
  <2> QED
    BY <2>4, <2>5
<1>7. Subtree(head)' = heap'
  <2>1. heap' \in SUBSET Node /\ head' \in heap'
    BY <1>1, <1>2
  <2> QED
    BY <1>5, <1>6, <2>1, SubtreeNext
<1>8. ASSUME NEW x \in heap', NEW t \in Side, child'[x][t] # NULL PROVE parent'[child'[x][t]] = x
  <2>1. CASE x \in kept /\ (x # p \/ t # s)
    BY <1>2, <1>4, <1>8, <2>1 DEF Shape
  <2>2. CASE x = p /\ t = s
    BY <1>8, <2>2
  <2>3. CASE x = new
    BY <1>2, <1>8, <2>3
  <2> QED
    BY <2>1, <2>2, <2>3
<1>9. ASSUME NEW x \in heap', child'[x][LEFT] = child'[x][RIGHT] PROVE child'[x][LEFT] = NULL
  <2>1. CASE x \in kept /\ x # p
    BY <1>9, <2>1, Sides DEF Shape
  <2>2. CASE x = p
    BY <1>1, <1>4, <1>9, <2>2, Sides
  <2>3. CASE x = new /\ x \in Node
    BY <1>2, <2>3, Sides
  <2> QED
    BY <2>1, <2>2, <2>3
<1>10. heap' \subseteq Node /\ head' \in heap' /\ parent'[head'] = NULL
  BY <1>1, <1>2 DEF Shape
<1> QED
  BY <1>7, <1>8, <1>9, <1>10 DEF Shape

---------------------------------------------------------------------------
(***************************************************************************)
(* Every call keeps the invariant.                                         *)
(***************************************************************************)
LEMMA Counted ==
  ASSUME NEW S \in SUBSET Node
  PROVE  IsFiniteSet(S) /\ Cardinality(S) \in Nat /\ Cardinality(S) \in 0 .. Cardinality(Node)
<1>1. IsFiniteSet(S) /\ Cardinality(S) <= Cardinality(Node)
  BY HeapAssumption, FS_Subset
<1>2. Cardinality(S) \in Nat /\ Cardinality(Node) \in Nat
  BY <1>1, HeapAssumption, FS_CardinalityType
<1> QED
  BY <1>1, <1>2

\* What is the same when the tree is.
LEMMA SameTree ==
  ASSUME UNCHANGED <<heap, head, child, parent>>
  PROVE  /\ Shape => Shape'
         /\ \A n : LeftOf(n)' = LeftOf(n)
         /\ \A m, n : Before(m, n)' = Before(m, n)
<1>1. \A n : Subtree(n)' = Subtree(n)
  BY DEF Subtree
<1>2. Subtree(head)' = Subtree(head)
  BY DEF Subtree
<1>3. Shape => Shape'
  BY <1>2 DEF Shape
<1>4. \A n : LeftOf(n)' = LeftOf(n)
  BY <1>1 DEF LeftOf, Subtree
<1>5. \A m, n : Before(m, n)' = Before(m, n)
  BY <1>1, <1>4 DEF Before
<1> QED
  BY <1>3, <1>4, <1>5

LEMMA InitInv == Init => IInv
<1> SUFFICES ASSUME Init PROVE IInv
  OBVIOUS
<1>1. Subtree(head) = {}
  BY SubtreeNull DEF Init
<1>2. Cardinality({}) = 0 /\ Cardinality(Node) \in Nat
  BY FS_EmptySet, HeapAssumption, FS_CardinalityType
<1>3. Sound
  BY <1>1, <1>2 DEF Init, Sound, TypeOK, Ptr, Closed
<1>4. WalkInv /\ InPreorder
  BY DEF Init, WalkInv, InPreorder
<1> QED
  BY <1>3, <1>4 DEF IInv

\* With no foreach a step that leaves it alone is about the tree only.
LEMMA NoWalk ==
  ASSUME IInv, each = Closed, each' = each, visited' = visited,
         Shape', passed' \subseteq heap', it' \in heap' \cup {NULL},
         nnodes' = Cardinality(heap')
  PROVE  IInv'
<1>1. visited' = <<>>
  BY DEF IInv, WalkInv
<1>2. nnodes' \in 0 .. Cardinality(Node)
  BY Counted DEF Shape
<1>3. Sound'
  BY <1>1, <1>2 DEF Sound, TypeOK, Shape, Closed
<1>4. WalkInv' /\ InPreorder'
  BY <1>1 DEF WalkInv, InPreorder, Closed
<1> QED
  BY <1>3, <1>4 DEF IInv

LEMMA InitTreeInv == IInv /\ init_tree => IInv'
<1> SUFFICES ASSUME IInv, init_tree PROVE IInv'
  OBVIOUS
<1>1. PICK n \in Node :
        /\ head' = n /\ heap' = {n} /\ passed' = {}
        /\ child' = [child EXCEPT ![n] = Leafless]
        /\ parent' = [parent EXCEPT ![n] = NULL]
  BY DEF init_tree
<1>2. /\ head = NULL /\ nnodes' = 1 /\ each = Closed /\ it = NULL
      /\ UNCHANGED <<it, each, visited>>
  <2>1. head = NULL /\ nnodes' = 1 /\ UNCHANGED <<it, each, visited>>
    BY DEF init_tree
  <2>2. heap = {}
    BY <2>1, SubtreeNull DEF IInv, Sound
  <2> QED
    BY <2>1, <2>2 DEF IInv, Sound, TypeOK, WalkInv
<1>3. /\ child' \in [Node -> [Side -> Ptr]] /\ parent' \in [Node -> Ptr]
      /\ \A t \in Side : child'[n][t] = NULL
      /\ parent'[n] = NULL
  BY <1>1 DEF IInv, Sound, TypeOK, Leafless, Ptr
<1>4. Subtree(head)' = {n}
  <2> DEFINE S == {n}
  <2>1. S \in SUBSET Node /\ head' \in S
    BY <1>1
  <2>2. \A x \in S, t \in Side : child'[x][t] \in Node => child'[x][t] \in S
    BY <1>3, HeapAssumption
  <2>3. \A T \in SUBSET S :
          head' \in T /\ (\A x \in T, t \in Side : child'[x][t] \in Node => child'[x][t] \in T)
            => T = S
    BY <1>1
  <2> HIDE DEF S
  <2>4. Subtree(head)' = S
    BY <2>1, <2>2, <2>3, SubtreeNext
  <2> QED
    BY <2>4 DEF S
<1>5. Shape'
  BY <1>1, <1>3, <1>4, Sides DEF Shape
<1>6. nnodes' = Cardinality(heap')
  BY <1>1, <1>2, FS_Singleton
<1> QED
  BY <1>1, <1>2, <1>5, <1>6, NoWalk

LEMMA DeleteTreeInv == IInv /\ delete_tree => IInv'
<1> SUFFICES ASSUME IInv, delete_tree PROVE IInv'
  OBVIOUS
<1>1. heap' = {} /\ head' = NULL /\ nnodes' = 0 /\ it' = NULL /\ passed' = {}
  BY DEF IInv, Sound, TypeOK, delete_tree
<1>2. Subtree(head)' = {}
  BY <1>1, HeapAssumption DEF Subtree, Reached
<1>3. child' \in [Node -> [Side -> Ptr]] /\ parent' \in [Node -> Ptr]
  BY DEF IInv, Sound, TypeOK, delete_tree, Freed, Leafless, Ptr
<1>4. Shape'
  BY <1>1, <1>2, <1>3 DEF Shape
<1> QED
  BY <1>1, <1>4, NoWalk, FS_EmptySet DEF delete_tree

LEMMA InsertItemInv == ASSUME NEW side \in Side, IInv, insert_item(side) PROVE IInv'
<1> DEFINE old == Subtree(child[it][side])
           kept == heap \ old
<1>1. PICK n \in (Node \ heap) \cup old :
        /\ heap' = kept \cup {n} /\ passed' = (passed \ old) \ {n}
        /\ child' = [Freed(child, old, Leafless) EXCEPT ![it][side] = n, ![n] = Leafless]
        /\ parent' = [Freed(parent, old, NULL) EXCEPT ![n] = it]
  BY DEF insert_item
<1>2. /\ it # NULL /\ each = Closed /\ nnodes' = nnodes - Cardinality(old) + 1
      /\ UNCHANGED <<head, it, each, visited>>
  BY DEF insert_item
<1>3. Shape /\ it \in heap /\ nnodes = Cardinality(heap) /\ passed \subseteq heap
  BY <1>2, SoundShape DEF IInv, Sound, TypeOK
<1>4. old \subseteq heap /\ it \in kept
  BY <1>3, Pruned
<1>5. n \in Node /\ n \notin kept /\ kept \subseteq Node /\ n # it /\ n # NULL
  BY <1>1, <1>3, <1>4, HeapInNode, HeapAssumption
<1>6. Shape'
  <2>1. child \in [Node -> [Side -> Ptr]] /\ parent \in [Node -> Ptr] /\ n \in Ptr /\ it \in Ptr
        /\ NULL \in Ptr
    BY <1>3, <1>5, HeapInNode DEF Shape, Ptr
  <2> HIDE DEF old, kept
  <2>2. Freed(child, old, Leafless) \in [Node -> [Side -> Ptr]]
    BY <2>1 DEF Freed, Leafless
  <2>3. /\ child' \in [Node -> [Side -> Ptr]]
        /\ child'[it][side] = n /\ \A t \in Side : child'[n][t] = NULL
        /\ \A x \in kept, t \in Side : (x # it \/ t # side) => child'[x][t] = Freed(child, old, Leafless)[x][t]
    BY <1>1, <1>4, <1>5, <2>1, <2>2 DEF Leafless
  <2>4. \A x \in kept, t \in Side : Freed(child, old, Leafless)[x][t] = child[x][t]
    BY <1>5 DEF Freed, kept
  <2>5. parent' \in [Node -> Ptr] /\ parent'[n] = it /\ \A x \in kept : parent'[x] = parent[x]
    BY <1>1, <1>5, <2>1 DEF Freed, kept
  <2>6. old = Subtree(child[it][side]) /\ kept = heap \ old
    BY DEF old, kept
  <2>7. head' = head /\ heap' = (heap \ old) \cup ({n} \cap Node)
    BY <1>1, <1>2, <1>5, <2>6
  <2>8. \A x \in heap \ old, t \in Side : (x # it \/ t # side) => child'[x][t] = child[x][t]
    BY <2>3, <2>4, <2>6
  <2> QED
    BY <1>3, <1>5, <2>1, <2>3, <2>5, <2>6, <2>7, <2>8, Grafted
<1>7. nnodes' = Cardinality(heap')
  <2>1. IsFiniteSet(heap) /\ IsFiniteSet(kept) /\ heap \cap old = old
    BY <1>3, <1>4, <1>5, HeapInNode, Counted
  <2>2. Cardinality(kept) = Cardinality(heap) - Cardinality(old)
    BY <2>1, FS_Difference
  <2>3. Cardinality(kept \cup {n}) = Cardinality(kept) + 1
    BY <1>5, <2>1, FS_AddElement
  <2> QED
    BY <1>1, <1>2, <1>3, <2>2, <2>3
<1> QED
  BY <1>1, <1>2, <1>3, <1>4, <1>6, <1>7, NoWalk

LEMMA DeleteItemInv == IInv /\ delete_item => IInv'
<1> SUFFICES ASSUME IInv, delete_item PROVE IInv'
  OBVIOUS
<1> DEFINE up == parent[it]
           side == IF child[up][LEFT] = it THEN LEFT ELSE RIGHT
           old == Subtree(child[up][side])
           kept == heap \ old
<1>1. /\ it # NULL /\ it # head /\ each = Closed /\ it' = up
      /\ heap' = kept /\ passed' = passed \ old
      /\ child' = [Freed(child, old, Leafless) EXCEPT ![up][side] = NULL]
      /\ parent' = Freed(parent, old, NULL)
      /\ nnodes' = nnodes - Cardinality(old)
      /\ UNCHANGED <<head, each, visited>>
  BY DEF delete_item
<1>2. Shape /\ it \in heap /\ nnodes = Cardinality(heap) /\ passed \subseteq heap
  BY <1>1, SoundShape DEF IInv, Sound, TypeOK
<1>3. up \in heap /\ side \in Side /\ child[up][side] = it
  BY <1>1, <1>2, HeapUp, Sides
<1>4. old \subseteq heap /\ up \in kept /\ kept \subseteq Node
  BY <1>2, <1>3, Pruned, HeapInNode
<1>5. Shape'
  <2>1. child \in [Node -> [Side -> Ptr]] /\ parent \in [Node -> Ptr] /\ NULL \in Ptr
        /\ NULL \notin Node /\ NULL \notin heap
    BY <1>2, HeapInNode, HeapAssumption DEF Shape, Ptr
  <2>2. old = Subtree(child[up][side]) /\ kept = heap \ old
    OBVIOUS
  <2> HIDE DEF up, side, old, kept
  <2>3. Freed(child, old, Leafless) \in [Node -> [Side -> Ptr]]
    BY <2>1 DEF Freed, Leafless
  <2>4. /\ child' \in [Node -> [Side -> Ptr]] /\ child'[up][side] = NULL
        /\ \A x \in kept, t \in Side : (x # up \/ t # side) => child'[x][t] = Freed(child, old, Leafless)[x][t]
    BY <1>1, <1>3, <1>4, <2>1, <2>3
  <2>5. \A x \in kept, t \in Side : Freed(child, old, Leafless)[x][t] = child[x][t]
    BY <1>4, <2>2 DEF Freed
  <2>6. parent' \in [Node -> Ptr] /\ \A x \in kept : parent'[x] = parent[x]
    BY <1>1, <1>4, <2>1, <2>2 DEF Freed
  <2>7. head' = head /\ heap' = (heap \ old) \cup ({NULL} \cap Node)
    BY <1>1, <2>1, <2>2
  <2>8. \A x \in heap \ old, t \in Side : (x # up \/ t # side) => child'[x][t] = child[x][t]
    BY <2>2, <2>4, <2>5
  <2> QED
    BY <1>2, <1>3, <2>1, <2>2, <2>4, <2>6, <2>7, <2>8, Grafted
<1>6. nnodes' = Cardinality(heap')
  <2>1. IsFiniteSet(heap) /\ heap \cap old = old
    BY <1>2, <1>4, HeapInNode, Counted
  <2>2. Cardinality(kept) = Cardinality(heap) - Cardinality(old)
    BY <2>1, FS_Difference
  <2> QED
    BY <1>1, <1>2, <2>2
<1> QED
  BY <1>1, <1>2, <1>4, <1>5, <1>6, NoWalk

\* The walking iterator does not change what it walks on.
LEMMA IteratorInv ==
  ASSUME IInv, it_init \/ it_up \/ \E side \in Side : it_down(side) PROVE IInv'
<1>1. UNCHANGED <<heap, head, nnodes, child, parent, passed, each, visited>>
  BY DEF it_init, it_up, it_down, tree, foreach
<1>2. Shape /\ it \in heap \cup {NULL}
  BY SoundShape DEF IInv, Sound, TypeOK
<1>3. it' \in heap \cup {NULL}
  <2>1. CASE it_init
    BY <2>1, <1>2 DEF it_init, Shape
  <2>2. CASE it_up
    <3>1. it \in heap /\ it' = parent[it]
      BY <1>2, <2>2 DEF it_up
    <3>2. it = head => parent[it] = NULL
      BY <1>2, <3>1, HeapInNode DEF Shape
    <3> QED
      BY <1>2, <3>1, <3>2, HeapUp
  <2>3. ASSUME NEW side \in Side, it_down(side) PROVE it' \in heap \cup {NULL}
    BY <1>2, <2>3, HeapDown DEF it_down
  <2> QED
    BY <2>1, <2>2, <2>3
<1>4. Shape' /\ LeftOf(each.node)' = LeftOf(each.node) /\ \A m, n : Before(m, n)' = Before(m, n)
  BY <1>1, <1>2, SameTree
<1>5. Sound'
  BY <1>1, <1>3, <1>4 DEF IInv, Sound, TypeOK, Shape
<1>6. WalkInv'
  BY <1>1, <1>4 DEF IInv, WalkInv, isEnd
<1>7. InPreorder'
  BY <1>1, <1>4 DEF IInv, InPreorder
<1> QED
  BY <1>5, <1>6, <1>7 DEF IInv

LEMMA ForeachInitInv == IInv /\ foreach_init => IInv'
<1> SUFFICES ASSUME IInv, foreach_init PROVE IInv'
  OBVIOUS
<1>1. UNCHANGED <<heap, head, nnodes, child, parent, it>>
  BY DEF foreach_init, tree
<1>2. /\ head # NULL /\ each' = [node |-> head, nnodes |-> nnodes, i |-> 0]
      /\ visited' = <<head>> /\ passed' = passed \ Subtree(head)
  BY DEF foreach_init
<1>3. Shape /\ head \in heap /\ heap = Subtree(head) /\ passed \subseteq heap /\ nnodes = Cardinality(heap)
  BY <1>2, SoundShape DEF IInv, Sound, TypeOK
<1>4. passed' = {} /\ LeftOf(head) = {} /\ Above(head) = {head} /\ Cardinality({}) = 0
  BY <1>2, <1>3, LeftOfHead, AboveHead, FS_EmptySet
<1>5. nnodes \in Nat /\ head \in Node
  BY <1>3, HeapInNode, Counted
<1>6. Shape' /\ LeftOf(head)' = {} /\ \A m, n : Before(m, n)' = Before(m, n)
  <2>1. LeftOf(head)' = LeftOf(head)
    BY <1>1 DEF LeftOf, Subtree
  <2> QED
    BY <1>1, <1>3, <1>4, <2>1, SameTree
<1>7. Sound'
  BY <1>1, <1>2, <1>4, <1>5, <1>6, <1>3 DEF IInv, Sound, TypeOK, Shape, Ptr
<1>8. WalkInv'
  <2>1. each'.node = head /\ each'.nnodes = nnodes /\ each'.i = 0
        /\ each' \in [node : Ptr, nnodes : Nat, i : Nat]
    BY <1>2, <1>5 DEF Ptr
  <2>2. LeftOf(each.node)' = {}
    <3>1. LeftOf(each.node)' = LeftOf(each'.node)
      BY <1>1, SameTree
    <3> QED
      BY <1>4, <2>1, <3>1
  <2>3. each' # Closed
    BY <1>2, <2>1 DEF Closed
  <2> QED
    BY <1>1, <1>2, <1>3, <1>4, <2>1, <2>2, <2>3 DEF WalkInv, Closed
<1>9. InPreorder'
  <2>1. \A m \in heap : ~Before(m, head)
    BY <1>3, <1>4, HeadTop DEF Before
  <2> QED
    BY <1>1, <1>2, <1>3, <1>6, <2>1 DEF InPreorder
<1> QED
  BY <1>7, <1>8, <1>9 DEF IInv

LEMMA ForeachDeleteInv == IInv /\ foreach_delete => IInv'
<1> SUFFICES ASSUME IInv, foreach_delete PROVE IInv'
  OBVIOUS
<1>1. /\ UNCHANGED <<heap, head, nnodes, child, parent, it, passed>>
      /\ each' = Closed /\ visited' = <<>>
  BY DEF foreach_delete, tree
<1>2. Shape'
  BY <1>1, SoundShape, SameTree DEF IInv
<1>3. Sound'
  BY <1>1, <1>2 DEF IInv, Sound, TypeOK, Shape, Closed
<1> QED
  BY <1>1, <1>3 DEF IInv, WalkInv, InPreorder, Closed

\* What the preorder has before a node is what is left of it and above it.
LEMMA BeforeSet ==
  ASSUME Shape, NEW n \in heap
  PROVE  {m \in heap : Before(m, n)} = LeftOf(n) \cup (Above(n) \ {n})
<1>1. n \notin LeftOf(n)
  BY LeftOfOut, SubtreeFirst, HeapInNode
<1>2. LeftOf(n) \subseteq heap
  BY DEF LeftOf
<1> QED
  BY <1>1, <1>2, AboveIs DEF Before

\* With a node more the walk is still a beginning of the preorder: before the
\* node it goes to there are the ones it gave, and no other.
LEMMA AppendInPreorder ==
  ASSUME Shape, InPreorder, NEW n \in heap, visited \in Seq(Ptr), visited # <<>>,
         visited[Len(visited)] = n,
         NEW a \in Above(n), NEW s \in Side, child[a][s] \in heap,
         LeftOf(child[a][s]) = Gone(n, a),
         visited' = Append(visited, child[a][s]),
         UNCHANGED <<heap, head, child, parent>>
  PROVE  InPreorder'
<1> DEFINE c == child[a][s]
           len == Len(visited)
<1>1. a \in heap /\ c # NULL /\ c # head /\ parent[c] = a
  BY AboveFacts, HeapInNode, ChildNotHead
<1>2. Above(c) \ {c} = Above(a)
  BY <1>1, AboveParent
<1>3. {m \in heap : Before(m, c)} = LeftOf(n) \cup Above(n)
  <2>1. Above(a) \subseteq Above(n)
    BY AboveFacts
  <2>2. {m \in heap : Before(m, c)} = Gone(n, a) \cup Above(a)
    BY <1>2, BeforeSet
  <2> QED
    BY <2>1, <2>2 DEF Gone, Way
<1>4. len \in Nat /\ len >= 1 /\ DOMAIN visited = 1 .. len
  BY EmptySeq
<1>5. /\ Len(visited') = len + 1 /\ DOMAIN visited' = 1 .. len + 1
      /\ visited'[len + 1] = c /\ \A j \in 1 .. len : visited'[j] = visited[j]
  BY <1>4
<1> HIDE DEF c, len
<1>6. {visited[j] : j \in 1 .. len} = LeftOf(n) \cup Above(n)
  <2>1. {visited[j] : j \in 1 .. len - 1} = LeftOf(n) \cup (Above(n) \ {n})
    <3>1. len \in DOMAIN visited /\ visited[len] = n
      BY <1>4 DEF len
    <3>2. {visited[j] : j \in 1 .. len - 1} = {m \in heap : Before(m, n)}
      BY <3>1 DEF InPreorder
    <3> QED
      BY <3>2, BeforeSet
  <2>2. {visited[j] : j \in 1 .. len} = {visited[j] : j \in 1 .. len - 1} \cup {n}
    BY <1>4 DEF len
  <2>3. n \in Above(n)
    BY AboveFacts
  <2> QED
    BY <2>1, <2>2, <2>3
<1>7. ASSUME NEW k \in 1 .. len + 1
      PROVE  /\ visited'[k] \in heap
             /\ {visited'[j] : j \in 1 .. k - 1} = {m \in heap : Before(m, visited'[k])}
  <2>1. CASE k = len + 1
    <3>1. 1 .. k - 1 = 1 .. len
      BY <1>4, <2>1
    <3>2. {visited'[j] : j \in 1 .. k - 1} = {visited[j] : j \in 1 .. len}
      BY <1>5, <3>1
    <3>3. visited'[k] = c /\ c \in heap
      BY <1>5, <2>1 DEF c
    <3> QED
      BY <1>3, <1>6, <3>2, <3>3
  <2>2. CASE k \in 1 .. len
    <3>1. \A j \in 1 .. k - 1 : j \in 1 .. len
      BY <1>4, <2>2
    <3>2. {visited'[j] : j \in 1 .. k - 1} = {visited[j] : j \in 1 .. k - 1}
      BY <1>5, <3>1
    <3>3. visited'[k] = visited[k]
      BY <1>5, <2>2
    <3>4. visited[k] \in heap /\ {visited[j] : j \in 1 .. k - 1} = {m \in heap : Before(m, visited[k])}
      BY <1>4, <2>2 DEF InPreorder
    <3> QED
      BY <3>2, <3>3, <3>4
  <2> QED
    BY <1>4, <2>1, <2>2
<1>8. heap' = heap /\ \A m, k : Before(m, k)' = Before(m, k)
  BY SameTree
<1> QED
  BY <1>5, <1>7, <1>8 DEF InPreorder

LEMMA ForeachNextInv == IInv /\ foreach_next => IInv'
<1> SUFFICES ASSUME IInv, foreach_next PROVE IInv'
  OBVIOUS
<1> DEFINE n == each.node
           r == Step(each, passed)
<1>1. /\ UNCHANGED <<heap, head, nnodes, child, parent, it>>
      /\ each # Closed /\ ~isEnd(each) /\ each' = r.each /\ passed' = r.marks
      /\ visited' = IF isEnd(each') THEN visited ELSE Append(visited, each'.node)
  BY DEF foreach_next, tree
<1>2. /\ each \in [node : Ptr, nnodes : Nat, i : Nat] /\ each.nnodes = nnodes /\ head # NULL
      /\ n \in heap /\ visited # <<>> /\ visited[Len(visited)] = n
      /\ passed = LeftOf(n) /\ each.i >= Cardinality(passed)
  BY <1>1 DEF IInv, WalkInv
<1>3. Shape /\ nnodes = Cardinality(heap) /\ passed \subseteq heap /\ visited \in Seq(Ptr)
  BY SoundShape DEF IInv, Sound, TypeOK
<1>4. Shape' /\ (\A m : LeftOf(m)' = LeftOf(m)) /\ \A m, k : Before(m, k)' = Before(m, k)
  BY <1>1, <1>3, SameTree
<1>5. PICK a \in Above(n) \cup {NULL} :
        /\ r.marks = Gone(n, a)
        /\ a = NULL =>
             /\ r.marks = heap
             /\ r.each = [node |-> NULL, nnodes |-> each.nnodes,
                          i |-> each.i + Cardinality(Way(n, a)) + 0]
        /\ a # NULL => \E s \in Side :
             /\ child[a][s] \in heap /\ LeftOf(child[a][s]) = r.marks
             /\ r.each = [node |-> child[a][s], nnodes |-> each.nnodes,
                          i |-> each.i + Cardinality(Way(n, a)) + 1]
  BY <1>2, <1>3, StepGoes
<1> HIDE DEF r
<1> DEFINE steps == Cardinality(Way(n, a))
<1>6. steps \in Nat /\ steps <= nnodes /\ Cardinality(passed) \in Nat /\ nnodes \in Nat
  <2>1. Way(n, a) \subseteq heap /\ heap \subseteq Node
    BY <1>2, <1>3, AboveFacts, HeapInNode DEF Way
  <2>2. IsFiniteSet(heap) /\ Cardinality(heap) \in Nat /\ Cardinality(passed) \in Nat
        /\ Cardinality(Way(n, a)) \in Nat
    BY <1>3, <2>1, Counted
  <2>3. Cardinality(Way(n, a)) <= Cardinality(heap)
    BY <2>1, <2>2, FS_Subset
  <2> QED
    BY <1>3, <2>2, <2>3
<1>7. Cardinality(passed') \in Nat /\ Cardinality(passed') <= Cardinality(passed) + steps
  <2>1. passed' = passed \cup Way(n, a)
    BY <1>1, <1>2, <1>5 DEF Gone
  <2>2. Way(n, a) \in SUBSET Node /\ passed \in SUBSET Node
    BY <1>2, <1>3, AboveFacts, HeapInNode DEF Way
  <2>3. IsFiniteSet(passed) /\ IsFiniteSet(Way(n, a)) /\ passed \cap Way(n, a) \in SUBSET Node
        /\ passed \cup Way(n, a) \in SUBSET Node
    BY <2>2, Counted
  <2>4. Cardinality(passed \cup Way(n, a)) = Cardinality(passed) + steps - Cardinality(passed \cap Way(n, a))
    BY <2>3, FS_Union
  <2>5. Cardinality(passed \cap Way(n, a)) \in Nat /\ Cardinality(passed \cup Way(n, a)) \in Nat
    BY <2>3, Counted
  <2> QED
    BY <1>6, <2>1, <2>4, <2>5
<1>8. each.i \in Nat /\ each.i < nnodes /\ each.i >= Cardinality(passed)
  BY <1>1, <1>2, <1>6 DEF isEnd
<1> HIDE DEF steps
<1>9. /\ each' \in [node : Ptr, nnodes : Nat, i : Nat] /\ each'.nnodes = nnodes
      /\ each'.node \in heap \cup {NULL} /\ each'.i \in 0 .. 2 * nnodes /\ each'.i >= Cardinality(passed')
      /\ each' # Closed
  <2>1. each'.node \in heap \cup {NULL} /\ each'.nnodes = nnodes /\ each'.i \in {each.i + steps + 0, each.i + steps + 1}
        /\ each' = [node |-> each'.node, nnodes |-> each'.nnodes, i |-> each'.i]
    <3>1. CASE a = NULL
      <4>1. each' = [node |-> NULL, nnodes |-> each.nnodes, i |-> each.i + steps + 0]
        BY <1>1, <1>5, <3>1 DEF steps
      <4> QED
        BY <1>2, <4>1
    <3>2. CASE a # NULL
      <4>1. PICK s \in Side :
              /\ child[a][s] \in heap
              /\ each' = [node |-> child[a][s], nnodes |-> each.nnodes, i |-> each.i + steps + 1]
        BY <1>1, <1>5, <3>2 DEF steps
      <4> QED
        BY <1>2, <4>1
    <3> QED
      BY <3>1, <3>2
  <2>2. each'.i \in Nat /\ each'.i >= Cardinality(passed') /\ each'.i <= 2 * nnodes /\ nnodes # 0
    BY <1>6, <1>7, <1>8, <2>1
  <2>3. each' # Closed
    BY <2>1, <2>2 DEF Closed
  <2>4. each'.node \in Ptr
    BY <1>3, <2>1, HeapInNode DEF Ptr
  <2> QED
    BY <1>6, <2>1, <2>2, <2>3, <2>4
<1>10. a = NULL => isEnd(each')
  <2>1. SUFFICES ASSUME a = NULL PROVE each'.i >= nnodes
    BY <1>9 DEF isEnd
  <2>2. passed' = heap
    BY <1>1, <1>5, <2>1
  <2> QED
    BY <1>3, <1>9, <2>2
<1>11. ~isEnd(each') => /\ a # NULL /\ a \in Above(n)
                       /\ each'.node \in heap /\ LeftOf(each'.node) = passed'
                       /\ visited' = Append(visited, each'.node)
                       /\ \E s \in Side : each'.node = child[a][s]
  <2> SUFFICES ASSUME ~isEnd(each')
               PROVE  /\ a # NULL /\ a \in Above(n)
                      /\ each'.node \in heap /\ LeftOf(each'.node) = passed'
                      /\ visited' = Append(visited, each'.node)
                      /\ \E s \in Side : each'.node = child[a][s]
    OBVIOUS
  <2>1. a # NULL /\ a \in Above(n)
    BY <1>10
  <2>2. PICK s \in Side :
          /\ child[a][s] \in heap /\ LeftOf(child[a][s]) = passed'
          /\ each' = [node |-> child[a][s], nnodes |-> each.nnodes,
                      i |-> each.i + Cardinality(Way(n, a)) + 1]
    BY <1>1, <1>5, <2>1
  <2>3. each'.node = child[a][s]
    BY <2>2
  <2>4. visited' = Append(visited, each'.node)
    BY <1>1
  <2> QED
    BY <2>1, <2>2, <2>3, <2>4
<1>12. Sound'
  <2>1. passed' \subseteq heap
    BY <1>1, <1>2, <1>3, <1>5, AboveFacts DEF Gone, Way
  <2>2. visited' \in Seq(Ptr)
    BY <1>1, <1>3, <1>9
  <2> QED
    BY <1>1, <1>4, <1>9, <2>1, <2>2 DEF IInv, Sound, TypeOK, Shape
<1>13. WalkInv'
  <2>1. ~isEnd(each') => visited' # <<>> /\ visited'[Len(visited')] = each'.node
    BY <1>3, <1>9, <1>11
  <2> QED
    BY <1>1, <1>2, <1>4, <1>9, <1>11, <2>1 DEF WalkInv, Closed, isEnd
<1>14. InPreorder'
  <2>1. CASE isEnd(each')
    BY <1>1, <1>4, <2>1 DEF IInv, InPreorder
  <2>2. CASE ~isEnd(each')
    <3>1. PICK s \in Side : each'.node = child[a][s]
      BY <1>11, <2>2
    <3>2. child[a][s] \in heap /\ LeftOf(child[a][s]) = Gone(n, a) /\ a \in Above(n)
          /\ visited' = Append(visited, child[a][s])
      BY <1>1, <1>5, <1>11, <2>2, <3>1
    <3> HIDE DEF n
    <3> QED
      BY <1>1, <1>2, <1>3, <3>2, AppendInPreorder DEF IInv
  <2> QED
    BY <2>1, <2>2
<1> QED
  BY <1>12, <1>13, <1>14 DEF IInv

---------------------------------------------------------------------------
(***************************************************************************)
(* The paths: what there is to prove of the refinement.                    *)
(***************************************************************************)
LEMMA DepthFacts ==
  ASSUME Shape
  PROVE  /\ \A n \in heap : Depth(n) \in Nat
         /\ head # NULL => Depth(head) = 0
         /\ \A p \in heap, s \in Side : child[p][s] # NULL => Depth(child[p][s]) = Depth(p) + 1
         /\ \A n \in heap : \A b \in Above(n) : Depth(b) <= Depth(n)
<1>1. ASSUME NEW n \in heap
      PROVE  /\ IsFiniteSet(Above(n)) /\ Cardinality(Above(n)) \in Nat \ {0}
             /\ \A b \in Above(n) : Cardinality(Above(b)) <= Cardinality(Above(n))
  <2>1. Above(n) \in SUBSET Node /\ n \in Above(n)
    BY AboveFacts, HeapInNode
  <2>2. IsFiniteSet(Above(n)) /\ Cardinality(Above(n)) \in Nat
    BY <2>1, Counted
  <2>3. Cardinality(Above(n)) # 0
    BY <2>1, <2>2, FS_EmptySet
  <2>4. ASSUME NEW b \in Above(n) PROVE Cardinality(Above(b)) <= Cardinality(Above(n))
    BY <2>2, AboveFacts, FS_Subset
  <2> QED
    BY <2>2, <2>3, <2>4
<1>2. head # NULL => Cardinality(Above(head)) = 1
  BY AboveHead, FS_Singleton
<1>3. ASSUME NEW p \in heap, NEW s \in Side, child[p][s] # NULL
      PROVE  Cardinality(Above(child[p][s])) = Cardinality(Above(p)) + 1
  <2> DEFINE c == child[p][s]
  <2>1. c \in heap /\ c # head /\ parent[c] = p
    BY <1>3, ChildNotHead
  <2> HIDE DEF c
  <2>2. Above(c) = Above(p) \cup {c} /\ c \notin Above(p)
    BY <2>1, AboveParent
  <2>3. Cardinality(Above(c)) = Cardinality(Above(p)) + 1
    BY <1>1, <2>2, FS_AddElement
  <2> QED
    BY <2>3 DEF c
<1>4. \A n \in heap : \A b \in Above(n) : b \in heap
  BY AboveFacts
<1>5. \A n \in heap : Depth(n) \in Nat
  BY <1>1 DEF Depth
<1>6. head # NULL => Depth(head) = 0
  BY <1>2 DEF Depth
<1>7. ASSUME NEW p \in heap, NEW s \in Side, child[p][s] # NULL
      PROVE  Depth(child[p][s]) = Depth(p) + 1
  BY <1>1, <1>3, <1>7 DEF Depth
<1>8. ASSUME NEW n \in heap, NEW b \in Above(n) PROVE Depth(b) <= Depth(n)
  BY <1>1, <1>4 DEF Depth
<1> QED
  BY <1>5, <1>6, <1>7, <1>8

LEMMA PathSeq == ASSUME Shape, NEW n \in heap PROVE Path(n) \in Seq(Side) /\ Len(Path(n)) = Depth(n)
<1>1. n # NULL /\ Depth(n) \in Nat
  BY DepthFacts, HeapInNode
<1> DEFINE side(k) == IF \E b \in Above(n) : Depth(b) = k /\ child[parent[b]][LEFT] = b THEN LEFT ELSE RIGHT
<1>2. Path(n) = [k \in 1 .. Depth(n) |-> side(k)]
  BY <1>1 DEF Path
<1>3. \A k : side(k) \in Side
  BY Sides
<1> HIDE DEF side
<1> QED
  BY <1>1, <1>2, <1>3

LEMMA PathHead == ASSUME Shape, head # NULL PROVE head \in heap /\ Path(head) = <<>>
<1>1. head \in heap
  BY DEF Shape
<1>2. Len(Path(head)) = 0 /\ Path(head) \in Seq(Side)
  BY <1>1, PathSeq, DepthFacts
<1> QED
  BY <1>1, <1>2, EmptySeq

\* The path of a child is that of its parent and its side.
LEMMA PathChild ==
  ASSUME Shape, NEW p \in heap, NEW s \in Side, child[p][s] # NULL
  PROVE  child[p][s] \in heap /\ Path(child[p][s]) = Append(Path(p), s)
<1> DEFINE c == child[p][s]
<1>1. c \in heap /\ c # head /\ parent[c] = p /\ c # NULL
  BY ChildNotHead
<1>2. Depth(c) = Depth(p) + 1 /\ Depth(p) \in Nat /\ \A b \in Above(p) : Depth(b) <= Depth(p)
  BY DepthFacts
<1>3. (child[p][LEFT] = c) = (s = LEFT)
  <2>1. CASE s = LEFT
    BY <2>1
  <2>2. CASE s = RIGHT
    <3>1. child[p][LEFT] # child[p][RIGHT]
      BY <1>1, <2>2 DEF Shape
    <3> QED
      BY <2>2, <3>1, Sides
  <2> QED
    BY <2>1, <2>2, Sides
<1> HIDE DEF c
<1>4. Above(c) = {c} \cup Above(p)
  BY <1>1, AboveParent
<1>5. /\ Path(c) \in Seq(Side) /\ Len(Path(c)) = Depth(p) + 1
      /\ Path(p) \in Seq(Side) /\ Len(Path(p)) = Depth(p)
  BY <1>1, <1>2, PathSeq
<1>6. /\ Append(Path(p), s) \in Seq(Side) /\ Len(Append(Path(p), s)) = Depth(p) + 1
      /\ \A k \in 1 .. Depth(p) : Append(Path(p), s)[k] = Path(p)[k]
      /\ Append(Path(p), s)[Depth(p) + 1] = s
  BY <1>5, AppendProperties
<1>7. ASSUME NEW n \in heap, NEW k \in 1 .. Depth(n)
      PROVE  Path(n)[k] = IF \E b \in Above(n) : Depth(b) = k /\ child[parent[b]][LEFT] = b
                          THEN LEFT ELSE RIGHT
  BY HeapInNode DEF Path
<1>8. ASSUME NEW k \in 1 .. Depth(p) PROVE Path(c)[k] = Path(p)[k]
  <2>1. k \in 1 .. Depth(c) /\ k # Depth(c)
    BY <1>2
  <2>2. (\E b \in Above(c) : Depth(b) = k /\ child[parent[b]][LEFT] = b)
          <=> (\E b \in Above(p) : Depth(b) = k /\ child[parent[b]][LEFT] = b)
    BY <1>4, <2>1
  <2> QED
    BY <1>1, <1>7, <2>1, <2>2
<1>9. Path(c)[Depth(p) + 1] = s
  <2>1. (\E b \in Above(c) : Depth(b) = Depth(p) + 1 /\ child[parent[b]][LEFT] = b) <=> s = LEFT
    <3>1. \A b \in Above(c) : Depth(b) = Depth(p) + 1 <=> b = c
      BY <1>2, <1>4, DepthFacts, AboveFacts
    <3> QED
      BY <1>1, <1>3, <1>4, <3>1
  <2>2. Depth(p) + 1 \in 1 .. Depth(c)
    BY <1>2
  <2> QED
    BY <1>1, <1>7, <2>1, <2>2, Sides
<1>10. \A k \in 1 .. Depth(p) + 1 : Path(c)[k] = Append(Path(p), s)[k]
  BY <1>2, <1>6, <1>8, <1>9
<1>11. Path(c) = Append(Path(p), s)
  BY <1>5, <1>6, <1>10, SeqEqual
<1> QED
  BY <1>1, <1>11 DEF c

\* Who is not the head has the path of its parent and its side.
LEMMA PathUp ==
  ASSUME Shape, NEW n \in heap, n # head
  PROVE  /\ parent[n] \in heap
         /\ \E s \in Side : child[parent[n]][s] = n /\ Path(n) = Append(Path(parent[n]), s)
         /\ Path(n) # <<>>
<1>1. PICK s \in Side : parent[n] \in heap /\ child[parent[n]][s] = n
  BY HeapUp
<1>2. Path(n) = Append(Path(parent[n]), s)
  BY <1>1, PathChild, HeapInNode
<1> QED
  BY <1>1, <1>2, PathSeq, AppendProperties

\* Two nodes have two paths.
LEMMA PathOne == ASSUME Shape, NEW m \in heap, NEW n \in heap, Path(m) = Path(n) PROVE m = n
<1> DEFINE S == {x \in heap : \A y \in heap : Path(y) = Path(x) => y = x}
<1>1. head \in heap /\ head # NULL
  BY HeadInHeap, HeapInNode
<1>2. head \in S
  BY <1>1, PathHead, PathUp
<1>3. ASSUME NEW x \in S, NEW s \in Side, child[x][s] # NULL PROVE child[x][s] \in S
  <2> DEFINE c == child[x][s]
  <2>1. c \in heap /\ Path(c) = Append(Path(x), s) /\ Path(x) \in Seq(Side) /\ x \in heap
    BY <1>3, PathChild, PathSeq
  <2>2. ASSUME NEW y \in heap, Path(y) = Path(c) PROVE y = c
    <3>1. y # head
      BY <1>1, <2>1, <2>2, PathHead, AppendProperties
    <3>2. PICK t \in Side : /\ parent[y] \in heap /\ child[parent[y]][t] = y
                            /\ Path(y) = Append(Path(parent[y]), t)
      BY <3>1, PathUp
    <3>3. Path(parent[y]) = Path(x) /\ t = s
      <4>1. Path(parent[y]) \in Seq(Side) /\ Append(Path(parent[y]), t) = Append(Path(x), s)
        BY <2>1, <2>2, <3>2, PathSeq
      <4> QED
        BY <2>1, <4>1, AppendInjective
    <3>4. parent[y] = x
      BY <3>2, <3>3
    <3> QED
      BY <3>2, <3>3, <3>4
  <2> QED
    BY <2>1, <2>2
<1> HIDE DEF S
<1>4. S = heap
  <2>1. S \in SUBSET heap
    BY DEF S
  <2> QED
    BY <1>2, <1>3, <2>1, HeapLeast
<1> QED
  BY <1>4 DEF S

LEMMA PathsCounted == ASSUME Shape PROVE Cardinality({Path(n) : n \in heap}) = Cardinality(heap)
<1> DEFINE T == {Path(n) : n \in heap}
           f == [n \in heap |-> Path(n)]
<1>1. f \in [heap -> T] /\ (\A t \in T : \E n \in heap : f[n] = t)
      /\ \A m \in heap, n \in heap : f[m] = f[n] => m = n
  BY PathOne
<1>2. IsFiniteSet(heap)
  BY HeapInNode, Counted
<1> HIDE DEF T, f
<1>3. f \in Bijection(heap, T)
  BY <1>1 DEF Bijection, Injection, IsInjective, Surjection
<1>4. Cardinality(T) = Cardinality(heap)
  BY <1>2, <1>3, FS_Bijection DEF ExistsBijection
<1> QED
  BY <1>4 DEF T

LEMMA AppendFront ==
  ASSUME NEW S, NEW s \in Seq(S), NEW e \in S
  PROVE  /\ \A n \in 0 .. Len(s) : SubSeq(Append(s, e), 1, n) = SubSeq(s, 1, n)
         /\ SubSeq(Append(s, e), 1, Len(s) + 1) = Append(s, e)
<1>1. Append(s, e) \in Seq(S) /\ Len(Append(s, e)) = Len(s) + 1 /\ Len(s) \in Nat
      /\ \A i \in 1 .. Len(s) : Append(s, e)[i] = s[i]
  BY AppendProperties
<1>2. ASSUME NEW n \in 0 .. Len(s) PROVE SubSeq(Append(s, e), 1, n) = SubSeq(s, 1, n)
  <2>1. n \in Int /\ 1 \in Int /\ \A i \in 1 .. n : s[i] \in S /\ Append(s, e)[i] \in S
    BY <1>1
  <2> DEFINE u == SubSeq(s, 1, n)
             v == SubSeq(Append(s, e), 1, n)
  <2>2. u \in Seq(S) /\ Len(u) = n /\ \A i \in 1 .. n : u[i] = s[i]
    BY <2>1, SubSeqProperties
  <2>3. v \in Seq(S) /\ Len(v) = n /\ \A i \in 1 .. n : v[i] = Append(s, e)[i]
    BY <2>1, SubSeqProperties
  <2> HIDE DEF u, v
  <2>4. u = v
    BY <1>1, <2>2, <2>3, SeqEqual
  <2> QED
    BY <2>4 DEF u, v
<1> QED
  BY <1>1, <1>2, SubSeqFull

\* Below a place there are the paths of its subtree, whether it is taken or not.
LEMMA BelowSubtree ==
  ASSUME Shape, NEW p \in heap, NEW s \in Side
  PROVE  Paths!Below(Append(Path(p), s)) = {Path(m) : m \in Subtree(child[p][s])}
<1> DEFINE new == Append(Path(p), s)
           old == Subtree(child[p][s])
           In(q) == Len(q) >= Len(new) /\ SubSeq(q, 1, Len(new)) = new
<1>1. Path(p) \in Seq(Side) /\ new \in Seq(Side) /\ Len(new) \in Nat \ {0}
  BY PathSeq, AppendProperties
<1>2. old \subseteq heap /\ \A x \in old, t \in Side : child[x][t] \in old \cup {NULL}
  BY Pruned
<1>3. ASSUME NEW x \in heap, NEW t \in Side, child[x][t] # NULL
      PROVE  In(Path(child[x][t])) <=> In(Path(x)) \/ (x = p /\ t = s)
  <2> DEFINE c == child[x][t]
  <2>1. Path(c) = Append(Path(x), t) /\ Path(x) \in Seq(Side) /\ Len(Path(c)) = Len(Path(x)) + 1
    BY <1>3, PathChild, PathSeq, AppendProperties
  <2>2. SubSeq(Path(c), 1, Len(Path(x)) + 1) = Path(c)
        /\ \A n \in 0 .. Len(Path(x)) : SubSeq(Path(c), 1, n) = SubSeq(Path(x), 1, n)
    BY <2>1, AppendFront
  <2>3. Path(c) = new <=> x = p /\ t = s
    <3>1. Path(c) = new <=> Path(x) = Path(p) /\ t = s
      BY <1>1, <2>1, AppendInjective
    <3> QED
      BY <3>1, PathOne
  <2> HIDE DEF new, c
  <2>4. CASE Len(new) = Len(Path(x)) + 1
    BY <2>1, <2>2, <2>3, <2>4 DEF c
  <2>5. CASE Len(new) <= Len(Path(x))
    <3>1. Len(new) \in 0 .. Len(Path(x)) /\ Len(Path(x)) \in Nat
      BY <1>1, <2>1, <2>5
    <3>2. Path(c) # new
      BY <2>1, <3>1
    <3> QED
      BY <2>1, <2>2, <2>3, <3>1, <3>2 DEF c
  <2>6. CASE Len(new) > Len(Path(x)) + 1
    BY <1>1, <2>1, <2>3, <2>6 DEF c
  <2> QED
    BY <1>1, <2>1, <2>4, <2>5, <2>6
<1> HIDE DEF In
<1>4. ASSUME NEW m \in old PROVE In(Path(m))
  <2> DEFINE S == {x \in old : In(Path(x))}
             c == child[p][s]
  <2>1. c # NULL
    BY SubtreeNull
  <2>2. c \in heap /\ c \in old
    BY <2>1, ChildNotHead, SubtreeFirst, HeapInNode
  <2>3. c \in S
    BY <1>3, <2>1, <2>2
  <2>4. ASSUME NEW x \in S, NEW t \in Side, child[x][t] \in Node PROVE child[x][t] \in S
    BY <1>2, <1>3, <2>4, HeapAssumption
  <2>5. S \in SUBSET Node
    BY <1>2, HeapInNode
  <2> HIDE DEF S
  <2>6. old \subseteq S
    BY <2>3, <2>4, <2>5, SubtreeLeast
  <2> QED
    BY <2>6 DEF S
<1>5. ASSUME NEW m \in heap, In(Path(m)) PROVE m \in old
  <2> DEFINE S == {x \in heap : In(Path(x)) => x \in old}
  <2>1. head \in heap /\ head # NULL
    BY HeadInHeap, HeapInNode
  <2>2. ~In(Path(head))
    BY <1>1, <2>1, PathHead DEF In
  <2>3. ASSUME NEW x \in S, NEW t \in Side, child[x][t] # NULL PROVE child[x][t] \in S
    <3>1. child[x][t] \in heap /\ x \in heap
      BY <2>3, PathChild
    <3>2. ASSUME In(Path(child[x][t])) PROVE child[x][t] \in old
      <4>1. CASE In(Path(x))
        BY <1>2, <2>3, <4>1
      <4>2. CASE x = p /\ t = s
        BY <3>1, <4>2, SubtreeFirst, HeapInNode
      <4> QED
        BY <1>3, <2>3, <3>1, <3>2, <4>1, <4>2
    <3> QED
      BY <3>1, <3>2
  <2>4. head \in S /\ S \in SUBSET heap
    BY <2>1, <2>2
  <2> HIDE DEF S
  <2>5. S = heap
    BY <2>3, <2>4, HeapLeast
  <2> QED
    BY <1>5, <2>5 DEF S
<1>6. Paths!Below(new) = {q \in {Path(n) : n \in heap} : In(q)}
  BY DEF Paths!Below, AllPaths, In
<1> HIDE DEF new, old
<1>7. {q \in {Path(n) : n \in heap} : In(q)} = {Path(m) : m \in old}
  BY <1>2, <1>4, <1>5
<1> QED
  BY <1>6, <1>7 DEF new, old

LEMMA BelowGone ==
  ASSUME Shape, NEW p \in heap, NEW s \in Side
  PROVE  AllPaths \ Paths!Below(Append(Path(p), s)) = {Path(m) : m \in heap \ Subtree(child[p][s])}
<1> DEFINE old == Subtree(child[p][s])
<1>1. old \subseteq heap
  BY Pruned
<1>2. Paths!Below(Append(Path(p), s)) = {Path(m) : m \in old}
  BY BelowSubtree
<1> HIDE DEF old
<1>3. {Path(n) : n \in heap} \ {Path(m) : m \in old} = {Path(m) : m \in heap \ old}
  BY <1>1, PathOne
<1> QED
  BY <1>2, <1>3 DEF AllPaths, old

LEMMA FrontOf ==
  ASSUME Shape, NEW p \in heap, NEW s \in Side PROVE Paths!Front(Append(Path(p), s)) = Path(p)
<1>1. Path(p) \in Seq(Side) /\ Len(Append(Path(p), s)) - 1 = Len(Path(p)) /\ Len(Path(p)) \in 0 .. Len(Path(p))
  BY PathSeq, AppendProperties
<1> QED
  BY <1>1, AppendFront, SubSeqFull DEF Paths!Front

\* The same facts in one formula, which is true in the next state too.
PathFacts ==
  /\ \A n \in heap : n = head => Path(n) = <<>>
  /\ \A p \in heap, c \in heap, s \in Side : child[p][s] = c => Path(c) = Append(Path(p), s)
  /\ Cardinality(AllPaths) = Cardinality(heap)

LEMMA PathFactsHold == Shape => PathFacts
<1> SUFFICES ASSUME Shape PROVE PathFacts
  OBVIOUS
<1>1. \A n \in heap : n = head => Path(n) = <<>>
  BY PathHead, HeapInNode
<1>2. \A p \in heap, c \in heap, s \in Side : child[p][s] = c => Path(c) = Append(Path(p), s)
  BY PathChild, HeapInNode
<1>3. Cardinality(AllPaths) = Cardinality(heap)
  BY PathsCounted DEF AllPaths
<1> QED
  BY <1>1, <1>2, <1>3 DEF PathFacts

LEMMA SamePaths ==
  ASSUME UNCHANGED <<heap, head, child, parent>>
  PROVE  AllPaths' = AllPaths /\ \A n : Path(n)' = Path(n)
<1>1. \A n : Above(n)' = Above(n)
  BY DEF Above
<1>2. \A n : Depth(n)' = Depth(n)
  BY <1>1 DEF Depth
<1>3. \A n : Path(n)' = Path(n)
  BY <1>1, <1>2 DEF Path
<1> QED
  BY <1>3 DEF AllPaths

LEMMA PlaceNext == ASSUME NEW n, it' = n PROVE Path(it)' = Path(n)'
BY DEF Path, Depth, Above, Reached

LEMMA NowherePath ==
  /\ Path(NULL) = Paths!Nowhere
  /\ Shape => \A n \in heap : Path(n) # Paths!Nowhere
<1>1. Path(NULL) = Paths!Nowhere
  BY DEF Path, Paths!Nowhere
<1>2. ASSUME Shape, NEW n \in heap, Path(n) = <<-1>> PROVE FALSE
  BY <1>2, PathSeq, Sides DEF LEFT, RIGHT
<1> QED
  BY <1>1, <1>2 DEF Paths!Nowhere

\* A node that a change at one place leaves in the tree keeps its path.
LEMMA PathsKept ==
  ASSUME Shape, Shape', head' = head, NEW p \in heap, NEW s \in Side,
         NEW old, old = Subtree(child[p][s]), heap \ old \subseteq heap',
         \A x \in heap \ old, t \in Side : (x # p \/ t # s) => child'[x][t] = child[x][t]
  PROVE  \A n \in heap \ old : Path(n)' = Path(n)
<1> DEFINE S == {x \in heap : x \in old \/ Path(x)' = Path(x)}
<1>1. /\ old \subseteq heap /\ p \notin old /\ head \notin old
      /\ \A x \in heap \ old, t \in Side : child[x][t] \in old => x = p /\ t = s
      /\ \A x \in old, t \in Side : child[x][t] \in old \cup {NULL}
  BY Pruned
<1>2. PathFacts /\ PathFacts'
  <2>1. PathFacts'
    BY PathFactsHold, PTL
  <2> QED
    BY <2>1, PathFactsHold
<1>3. head \in S
  <2>1. PICK h : h = head
    OBVIOUS
  <2>2. h \in heap /\ h \in heap' /\ h = head'
    BY <1>1, <2>1, HeadInHeap
  <2>3. Path(h) = <<>> /\ Path(h)' = <<>>
    BY <1>2, <2>1, <2>2 DEF PathFacts
  <2> QED
    BY <2>1, <2>2, <2>3
<1>4. ASSUME NEW x \in S, NEW t \in Side, child[x][t] # NULL PROVE child[x][t] \in S
  <2>1. PICK c \in heap : c = child[x][t]
    BY <1>4, PathChild
  <2>2. SUFFICES ASSUME c \notin old PROVE Path(c)' = Path(c)
    BY <2>1
  <2>3. x \in heap \ old /\ Path(x)' = Path(x)
    BY <1>1, <1>4, <2>1, <2>2
  <2>4. child'[x][t] = c
    <3>1. CASE x = p /\ t = s
      BY <2>1, <2>2, <3>1, SubtreeFirst, HeapInNode
    <3>2. CASE x # p \/ t # s
      BY <2>1, <2>3, <3>2
    <3> QED
      BY <3>1, <3>2
  <2>5. Path(c)' = Append(Path(x)', t)
    BY <1>2, <2>2, <2>3, <2>4 DEF PathFacts
  <2>6. Path(c) = Append(Path(x), t)
    BY <1>2, <2>1, <2>3 DEF PathFacts
  <2> QED
    BY <2>3, <2>5, <2>6
<1>5. S \in SUBSET heap
  OBVIOUS
<1> HIDE DEF S
<1>6. S = heap
  BY <1>3, <1>4, <1>5, HeapLeast
<1> QED
  BY <1>6 DEF S

---------------------------------------------------------------------------
(***************************************************************************)
(* Every call is one of BinPaths, or changes nothing it sees.              *)
(***************************************************************************)
LEMMA InitPaths == Init => Paths!Init
BY NowherePath DEF Init, AllPaths, Paths!Init

\* BinPaths counts with its own instance of FiniteSets.
LEMMA SameCardinality == \A S : Paths!Cardinality(S) = Cardinality(S)
BY Zenon DEF Cardinality, Paths!Cardinality

\* What a call leaves in the tree is counted by nnodes.
LEMMA NowMany ==
  ASSUME IInv', NEW P, AllPaths' = P PROVE Paths!Become(P) /\ Cardinality(P) <= Cardinality(Node)
<1>1. Shape' /\ nnodes' = Cardinality(heap')
  BY DEF IInv, Sound, TypeOK, Shape
<1>2. PathFacts'
  BY <1>1, PathFactsHold, PTL
<1>3. Cardinality(P) = nnodes'
  BY <1>1, <1>2 DEF PathFacts
<1>4. Cardinality(heap') <= Cardinality(Node)
  <2>1. heap' \in SUBSET Node
    BY <1>1 DEF Shape
  <2> QED
    BY <2>1, HeapAssumption, FS_Subset
<1> QED
  BY <1>1, <1>3, <1>4, SameCardinality DEF Paths!Become

LEMMA InitTreePaths == ASSUME IInv, IInv', init_tree PROVE Paths!Plant
<1>1. PICK n \in Node : head' = n /\ heap' = {n}
  BY DEF init_tree
<1>2. heap = {} /\ it = NULL /\ it' = NULL
  BY SubtreeNull DEF init_tree, IInv, Sound, TypeOK
<1>3. AllPaths = {}
  BY <1>2 DEF AllPaths
<1>4. Path(n)' = <<>>
  <2>1. PathFacts'
    <3>1. Shape'
      BY DEF IInv, Sound, TypeOK, Shape
    <3> QED
      BY <3>1, PathFactsHold, PTL
  <2> QED
    BY <1>1, <2>1 DEF PathFacts
<1>5. AllPaths' = {<<>>}
  BY <1>1, <1>4 DEF AllPaths
<1>6. Path(it)' = Paths!Nowhere
  BY <1>2 DEF Path, Paths!Nowhere
<1> QED
  BY <1>3, <1>5, <1>6, NowMany DEF Paths!Plant

LEMMA DeleteTreePaths == ASSUME IInv, IInv', delete_tree PROVE Paths!Fell
<1>1. heap' = {} /\ it' = NULL /\ head \in heap
  BY DEF delete_tree, IInv, Sound, TypeOK
<1>2. AllPaths # {} /\ AllPaths' = {}
  BY <1>1 DEF AllPaths
<1>3. Path(it)' = Paths!Nowhere
  BY <1>1 DEF Path, Paths!Nowhere
<1> QED
  BY <1>2, <1>3, NowMany DEF Paths!Fell

LEMMA ItInitPaths == ASSUME IInv, it_init PROVE Paths!Place
<1>1. Shape /\ head # NULL /\ it' = head /\ UNCHANGED <<heap, head, nnodes, child, parent>>
  BY SoundShape DEF it_init, tree, IInv
<1>2. AllPaths' = AllPaths /\ \A n : Path(n)' = Path(n)
  BY <1>1, SamePaths
<1>3. PICK h \in heap : h = head /\ Path(h) = <<>>
  BY <1>1, PathHead
<1>4. Path(it)' = <<>>
  BY <1>1, <1>2, <1>3, PlaceNext
<1>5. AllPaths # {}
  BY <1>3 DEF AllPaths
<1> QED
  BY <1>1, <1>2, <1>4, <1>5 DEF Paths!Place

LEMMA ItDownPaths == ASSUME IInv, NEW side \in Side, it_down(side) PROVE Paths!Down(side)
<1>1. Shape /\ it \in heap /\ child[it][side] # NULL /\ it' = child[it][side]
      /\ UNCHANGED <<heap, head, nnodes, child, parent>>
  BY SoundShape DEF it_down, tree, IInv, Sound, TypeOK
<1>2. AllPaths' = AllPaths /\ \A n : Path(n)' = Path(n)
  BY <1>1, SamePaths
<1>3. PICK c \in heap : c = child[it][side] /\ Path(c) = Append(Path(it), side)
  BY <1>1, PathChild
<1>4. Path(it)' = Append(Path(it), side)
  BY <1>1, <1>2, <1>3, PlaceNext
<1>5. Append(Path(it), side) \in AllPaths
  BY <1>3 DEF AllPaths
<1>6. Path(it) # Paths!Nowhere
  BY <1>1, NowherePath
<1> QED
  BY <1>1, <1>2, <1>4, <1>5, <1>6 DEF Paths!Down

LEMMA ItUpPaths == ASSUME IInv, it_up PROVE Paths!Up
<1>1. Shape /\ it \in heap /\ it' = parent[it] /\ UNCHANGED <<heap, head, nnodes, child, parent>>
  BY SoundShape DEF it_up, tree, IInv, Sound, TypeOK
<1>2. AllPaths' = AllPaths /\ \A n : Path(n)' = Path(n)
  BY <1>1, SamePaths
<1>3. Path(it) # Paths!Nowhere
  BY <1>1, NowherePath
<1>4. CASE it = head
  <2>1. it' = NULL
    BY <1>1, <1>4, HeapInNode DEF Shape
  <2>2. Path(it)' = Paths!Nowhere
    BY <2>1 DEF Path, Paths!Nowhere
  <2>3. Path(it) = <<>>
    BY <1>1, <1>4, PathHead, HeapInNode
  <2> QED
    BY <1>1, <1>2, <1>3, <2>2, <2>3 DEF Paths!Up
<1>5. CASE it # head
  <2>1. PICK s \in Side, p \in heap :
          p = parent[it] /\ Path(it) = Append(Path(p), s) /\ Path(it) # <<>>
    BY <1>1, <1>5, PathUp
  <2>2. Path(it)' = Path(p)
    BY <1>1, <1>2, <2>1, PlaceNext
  <2>3. Paths!Front(Path(it)) = Path(p)
    BY <1>1, <2>1, FrontOf
  <2> QED
    BY <1>1, <1>2, <1>3, <2>1, <2>2, <2>3 DEF Paths!Up
<1> QED
  BY <1>4, <1>5

LEMMA InsertItemPaths == ASSUME IInv, IInv', NEW side \in Side, insert_item(side) PROVE Paths!Graft(side)
<1> DEFINE old == Subtree(child[it][side])
           new == Append(Path(it), side)
<1>1. PICK n \in (Node \ heap) \cup old :
        /\ heap' = (heap \ old) \cup {n}
        /\ child' = [Freed(child, old, Leafless) EXCEPT ![it][side] = n, ![n] = Leafless]
        /\ head' = head /\ it' = it
  BY DEF insert_item
<1>2. Shape /\ Shape' /\ it \in heap
  BY SoundShape DEF insert_item, IInv, Sound, TypeOK, Shape
<1>3. old \subseteq heap /\ it \in heap \ old
  BY <1>2, Pruned
<1>4. n \in Node /\ n \notin heap \ old /\ n # it /\ heap \subseteq Node
      /\ child \in [Node -> [Side -> Ptr]]
  BY <1>1, <1>2, <1>3, HeapInNode DEF Shape
<1> HIDE DEF old
<1>5. child'[it][side] = n /\ \A x \in heap \ old, t \in Side : (x # it \/ t # side) => child'[x][t] = child[x][t]
  <2>1. Freed(child, old, Leafless) \in [Node -> [Side -> Ptr]]
    BY <1>4 DEF Freed, Leafless, Ptr
  <2>2. /\ child'[it][side] = n
        /\ \A x \in heap \ old, t \in Side : (x # it \/ t # side) => child'[x][t] = Freed(child, old, Leafless)[x][t]
    BY <1>1, <1>3, <1>4, <2>1
  <2> QED
    BY <1>4, <2>2 DEF Freed
<1>6. \A m \in heap \ old : Path(m)' = Path(m)
  <2>1. old = Subtree(child[it][side]) /\ heap \ old \subseteq heap' /\ head' = head
    BY <1>1 DEF old
  <2> QED
    BY <1>2, <1>5, <2>1, PathsKept
<1>7. PICK i \in heap \ old : i = it /\ i \in heap' /\ n \in heap'
  BY <1>1, <1>3
<1>8. Path(n)' = new
  <2>1. PathFacts'
    BY <1>2, PathFactsHold, PTL
  <2>2. Path(n)' = Append(Path(i)', side)
    BY <1>5, <1>7, <2>1 DEF PathFacts
  <2> QED
    BY <1>6, <1>7, <2>2
<1>9. Path(it)' = Path(it)
  BY <1>1, <1>6, <1>7, PlaceNext
<1>10. AllPaths' = {Path(m) : m \in heap \ old} \cup {new}
  BY <1>1, <1>6, <1>8 DEF AllPaths
<1>11. AllPaths \ Paths!Below(new) = {Path(m) : m \in heap \ old}
  BY <1>2, <1>3, BelowGone DEF old
<1>12. Path(it) # Paths!Nowhere
  BY <1>2, NowherePath
<1> HIDE DEF new
<1>13. AllPaths' = (AllPaths \ Paths!Below(new)) \cup {new}
  BY <1>10, <1>11
<1>14. Paths!Become((AllPaths \ Paths!Below(new)) \cup {new}) /\ Cardinality(AllPaths') <= Cardinality(Node)
  BY <1>13, NowMany
<1> QED
  BY <1>1, <1>9, <1>12, <1>14, SameCardinality DEF Paths!Graft, new

LEMMA DeleteItemPaths == ASSUME IInv, IInv', delete_item PROVE Paths!Cut
<1> DEFINE up == parent[it]
           side == IF child[up][LEFT] = it THEN LEFT ELSE RIGHT
           old == Subtree(child[up][side])
<1>1. /\ it # head /\ it' = up /\ heap' = heap \ old /\ head' = head
      /\ child' = [Freed(child, old, Leafless) EXCEPT ![up][side] = NULL]
  BY DEF delete_item
<1>2. Shape /\ Shape' /\ it \in heap
  BY SoundShape DEF delete_item, IInv, Sound, TypeOK, Shape
<1>3. up \in heap /\ side \in Side /\ child[up][side] = it
  BY <1>1, <1>2, HeapUp, Sides
<1>4. up \in heap \ old /\ heap \subseteq Node /\ child \in [Node -> [Side -> Ptr]]
  BY <1>2, <1>3, Pruned, HeapInNode DEF Shape
<1>5. old = Subtree(child[up][side])
  OBVIOUS
<1> HIDE DEF up, side, old
<1>6. \A x \in heap \ old, t \in Side : (x # up \/ t # side) => child'[x][t] = child[x][t]
  <2>1. Freed(child, old, Leafless) \in [Node -> [Side -> Ptr]]
    BY <1>4 DEF Freed, Leafless, Ptr
  <2>2. \A x \in heap \ old, t \in Side : (x # up \/ t # side) => child'[x][t] = Freed(child, old, Leafless)[x][t]
    BY <1>1, <1>3, <1>4, <2>1
  <2> QED
    BY <1>4, <2>2 DEF Freed
<1>7. \A m \in heap \ old : Path(m)' = Path(m)
  BY <1>1, <1>2, <1>3, <1>5, <1>6, PathsKept
<1>8. PICK u \in heap \ old : u = up
  BY <1>4
<1>9. Path(it) = Append(Path(u), side)
  BY <1>2, <1>3, <1>8, PathChild, HeapInNode
<1>10. Path(it) # <<>> /\ Path(it) # Paths!Nowhere /\ Paths!Front(Path(it)) = Path(u)
  <2>1. Append(Path(u), side) # <<>>
    BY <1>2, <1>3, PathSeq, AppendProperties
  <2> QED
    BY <1>2, <1>3, <1>9, <2>1, FrontOf, NowherePath
<1>11. Path(it)' = Path(u)
  BY <1>1, <1>7, <1>8, PlaceNext
<1>12. AllPaths' = {Path(m) : m \in heap \ old}
  BY <1>1, <1>7 DEF AllPaths
<1>13. AllPaths \ Paths!Below(Path(it)) = {Path(m) : m \in heap \ old}
  BY <1>2, <1>3, <1>5, <1>8, <1>9, BelowGone
<1>14. Paths!Become(AllPaths \ Paths!Below(Path(it)))
  BY <1>12, <1>13, NowMany
<1> QED
  BY <1>10, <1>11, <1>14 DEF Paths!Cut

LEMMA PathsStep == IInv /\ IInv' /\ [Next]_vars => [Paths!Next]_(Paths!vars)
<1> SUFFICES ASSUME IInv, IInv', [Next]_vars
             PROVE  Paths!Next \/ (AllPaths' = AllPaths /\ Path(it)' = Path(it) /\ nnodes' = nnodes)
  BY DEF Paths!vars
<1>1. CASE UNCHANGED <<tree, it>>
  <2>1. PICK i : i = it
    OBVIOUS
  <2>2. AllPaths' = AllPaths /\ Path(i)' = Path(i) /\ it' = i /\ nnodes' = nnodes
    BY <1>1, <2>1, SamePaths DEF tree
  <2> QED
    BY <2>1, <2>2, PlaceNext
<1>2. CASE foreach_init \/ foreach_next \/ foreach_delete \/ UNCHANGED vars
  BY <1>1, <1>2 DEF foreach_init, foreach_next, foreach_delete, vars
<1>3. CASE init_tree \/ delete_tree \/ delete_item \/ it_init \/ it_up
  BY <1>3, InitTreePaths, DeleteTreePaths, DeleteItemPaths, ItInitPaths, ItUpPaths DEF Paths!Next
<1>4. ASSUME NEW side \in Side, insert_item(side) \/ it_down(side) PROVE Paths!Next
  BY <1>4, InsertItemPaths, ItDownPaths DEF Paths!Next
<1> QED
  BY <1>2, <1>3, <1>4 DEF Next

---------------------------------------------------------------------------
(***************************************************************************)
(* The theorems.                                                           *)
(***************************************************************************)
LEMMA Inductive == Spec => []IInv
<1>1. ASSUME IInv, [Next]_vars PROVE IInv'
  <2>1. CASE UNCHANGED vars
    <3>1. UNCHANGED <<heap, head, nnodes, child, parent, it, passed, each, visited>>
      BY <2>1 DEF vars, tree, foreach
    <3>2. (\A n : LeftOf(n)' = LeftOf(n)) /\ (\A m, n : Before(m, n)' = Before(m, n)) /\ Shape'
      BY <1>1, <3>1, SameTree, SoundShape DEF IInv
    <3>3. LeftOf(each.node)' = LeftOf(each.node)
      BY <3>1, <3>2
    <3>4. Sound' /\ WalkInv'
      BY <1>1, <3>1, <3>2, <3>3 DEF IInv, Sound, TypeOK, Shape, WalkInv, isEnd
    <3>5. InPreorder'
      BY <1>1, <3>1, <3>2 DEF IInv, InPreorder
    <3> QED
      BY <3>4, <3>5 DEF IInv
  <2> QED
    BY <1>1, <2>1, InitTreeInv, DeleteTreeInv, InsertItemInv, DeleteItemInv, IteratorInv,
       ForeachInitInv, ForeachNextInv, ForeachDeleteInv DEF Next
<1> QED
  BY InitInv, <1>1, PTL DEF Spec

\* After any calls the memory in use is one tree: what is reached from the head,
\* each node once, with links back, and nnodes is its size.
THEOREM SoundHolds == Spec => []Sound
<1>1. IInv => Sound
  BY DEF IInv
<1> QED
  BY Inductive, <1>1, PTL

\* foreach_current() never reads through a null pointer, for any tree.
THEOREM CurrentIsThereHolds == Spec => []CurrentIsThere
<1>1. IInv => CurrentIsThere
  BY SoundShape, HeapInNode DEF IInv, WalkInv, CurrentIsThere
<1> QED
  BY Inductive, <1>1, PTL

\* For any tree a foreach gives a beginning of its preorder, whatever an earlier
\* one has left marked.
THEOREM InPreorderHolds == Spec => []InPreorder
<1>1. IInv => InPreorder
  BY DEF IInv
<1> QED
  BY Inductive, <1>1, PTL

\* To a caller who sees no memory the library is a set of paths and one place:
\* what is done to one part of the tree shows nowhere else.
THEOREM ImplementsPaths == Spec => IsPaths
<1>1. IInv /\ IInv' /\ [Next]_vars => [Paths!Next]_(Paths!vars)
  BY PathsStep
<1> QED
  BY InitPaths, Inductive, <1>1, PTL DEF Spec, IsPaths, Paths!Spec
===========================================================================

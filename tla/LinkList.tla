------------------------------ MODULE LinkList ------------------------------
(***************************************************************************)
(* The doubly linked list of the plugins (xx_link_list.c): a ring with two  *)
(* header nodes, flag 0, and one node per datum, flag 1.  Nodes are inserted *)
(* before the first header, so that the list is read in the order in which  *)
(* it was filled.  A heap maps the nodes that are allocated to their fields; *)
(* malloc gives the lowest number that is free.  The loops of clear and get *)
(* are given by their steps: what one iteration does.                      *)
(***************************************************************************)
EXTENDS Integers

CONSTANT MaxNode   \* bound: nodes allocated at a time

ASSUME ListAssumption == MaxNode \in Nat

Header   == 1
NoData == [start |-> 0, end |-> 0]
Null   == 0

Node(flag, previous, next, pdata) ==
  [flag |-> flag, previous |-> previous, next |-> next, pdata |-> pdata]

\* A node with other links.
Relink(x, previous, next) == Node(x.flag, previous, next, x.pdata)

NoHeap       == [x \in {} |-> Node(0, Null, Null, NoData)]
xx_list_init == [x \in 1..2 |-> Node(0, 3 - x, 3 - x, NoData)]

\* new is what malloc returns in the heap h.
Malloc(h, new) == new \in (1..MaxNode) \ DOMAIN h /\ 1..(new - 1) \subseteq DOMAIN h

\* Mutant: the node before the header is not told of the new node.
InsertHalf(h, n, new, d) ==
  [x \in DOMAIN h \cup {new} |->
     IF x = new THEN Node(1, h[n].previous, n, d)
     ELSE Relink(h[x], IF x = n THEN new ELSE h[x].previous, h[x].next)]

\* Mutant: the new node is put behind the header.
InsertBehind(h, n, new, d) ==
  [x \in DOMAIN h \cup {new} |->
     IF x = new THEN Node(1, n, h[n].next, d)
     ELSE Relink(h[x], IF x = h[n].next THEN new ELSE h[x].previous,
                       IF x = n THEN new ELSE h[x].next)]

xx_list_insert(h, n, new, d) ==
  [x \in DOMAIN h \cup {new} |->
     IF x = new THEN Node(1, h[n].previous, n, d)
     ELSE Relink(h[x], IF x = n THEN new ELSE h[x].previous,
                       IF x = h[n].previous THEN new ELSE h[x].next)]

\* xx_list_clear stops between four headers, and frees the first of its two
\* nodes otherwise, when it holds a datum.
Cleared(h, n1, n2) ==
  \A x \in {n1, n2, h[n1].previous, h[n2].next} : h[x].flag = 0
xx_list_clear(h, n1, n2) ==
  IF h[n1].flag = 0 THEN h
  ELSE [x \in DOMAIN h \ {n1} |->
          Relink(h[x], IF x = n2 THEN h[n1].previous ELSE h[x].previous,
                       IF x = h[n1].previous THEN n2 ELSE h[x].next)]

-----------------------------------------------------------------------------

\* The nodes with a datum.
Data(h) == {x \in DOMAIN h : h[x].flag = 1}

\* Every node is reached from the header, the two directions agree, and no
\* link leads to a node that was freed.
IsRing(h) ==
  /\ \A x \in DOMAIN h : /\ h[x].next \in DOMAIN h /\ h[h[x].next].previous = x
                         /\ h[x].previous \in DOMAIN h /\ h[h[x].previous].next = x
  /\ \A S \in SUBSET DOMAIN h :
       (Header \in S /\ \A x \in S : h[x].next \in S) => S = DOMAIN h
=============================================================================

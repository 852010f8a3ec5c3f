------------------------- MODULE MemoryFilesProofs -------------------------
(* What holds of the memory files for every process, every sequence of     *)
(* analyses and accesses, and any number of failures of the system.        *)
EXTENDS MemoryFiles, FiniteSetTheorems, WellFoundedInduction, TLAPS

-----------------------------------------------------------------------------
(* The inductive invariant.                                                *)

\* The types, and that data nodes hold a range.
Typed ==
    /\ TypeOK
    /\ \A x \in Data(heap) : heap[x].pdata \in Ranges
    /\ pc \in {"load"} \cup Running => xx_link = Header
    /\ pc \in Running => addr = Top

\* The ring in numbers: the headers 1 and 2 and the data k..n.
Chain(h, k, n) ==
    /\ k \in Nat /\ n \in Nat /\ 2 <= n /\ 3 <= k /\ k <= n + 1
    /\ DOMAIN h = (1..2) \cup (k..n)
    /\ \A x \in DOMAIN h :
         /\ h[x].flag = IF x <= 2 THEN 0 ELSE 1
         /\ h[x].next = IF x = 1 THEN 2
                        ELSE IF x = 2 THEN (IF k <= n THEN k ELSE 1)
                        ELSE IF x = n THEN 1 ELSE x + 1
         /\ h[x].previous = IF x = 1 THEN (IF k <= n THEN n ELSE 2)
                            ELSE IF x = 2 THEN 1
                            ELSE IF x = k THEN 2 ELSE x - 1

\* Between operations nothing is missing; while it is cleared the list lacks
\* the first of its data, and the clear stands at a header or at what is left.
Linked ==
    /\ xx_link = Null => pc = "idle" /\ heap = NoHeap
    /\ xx_link = Header /\ pc # "clear" => \E n \in 2..MaxNode+2 : Chain(heap, 3, n)
    /\ pc = "clear" =>
         /\ xx_link = Header
         /\ \E n \in 2..MaxNode+2 : \E k \in 3..n+1 :
              Chain(heap, k, n) /\ here \in {1, 2, k} /\ here \in DOMAIN heap
         /\ node2 = heap[here].next
    /\ pc = "delete" => Data(heap) = {}

\* The traversal: the data it has passed do not hold the address.
Passed ==
    /\ pc \in {"search", "access"} => here \in DOMAIN heap
    /\ pc = "search" => /\ xx_node_start = Header
                        /\ \A x \in Data(heap) : x <= here => ~Holds(heap[x].pdata, op.addr)
    /\ pc = "gen" => \A x \in Data(heap) : ~Holds(heap[x].pdata, op.addr)
    /\ pc = "access" => here \in First(op.addr)

\* A file that is listed is one of the regions that VirtualQueryEx describes,
\* and before the analysis starts its bytes are those of the process.
IsRegion(d) ==
    /\ PageStart[d.start] = d.start /\ d.start < d.end
    /\ image.region[d.start].commit /\ RunsTo(d.start, d.end)
Copied ==
    pc \in {"load"} \cup Running =>
      /\ \A x \in Data(heap) : IsRegion(heap[x].pdata)
      /\ pc = "load" =>
           /\ \A x \in Data(heap) : Whole(heap[x].pdata)
           /\ \A f \in DOMAIN dir : \A k \in DOMAIN dir[f] : dir[f][k] = image.bytes[f.start + k]

\* Copies are nested; without a failure, so far those of whole regions are
\* apart and none is missing below the address the loading has got to.
Share(d, e) == \E a \in Addr : Holds(d, a) /\ Holds(e, a)
Pairs(h, count) ==
    \A x, y \in Data(h) :
      x < y /\ Share(h[x].pdata, h[y].pdata) =>
        /\ h[x].pdata.end = h[y].pdata.end
        /\ h[y].pdata.start <= h[x].pdata.start
        /\ count = 0 => h[y].pdata.start < h[x].pdata.start /\ ~Whole(h[y].pdata)
Below(h, top) == \A x \in Data(h) : h[x].pdata.end <= top
Complete(h, top) ==
    \A a \in Addr :
      a < top /\ image.region[a].commit /\ image.region[a].base = a =>
        \E x \in Data(h) : h[x].pdata.start = a
Apart ==
    pc \in {"load"} \cup Running =>
      /\ Pairs(heap, faults)
      /\ faults = 0 => (pc = "load" => Below(heap, addr)) /\ Complete(heap, addr)

IInv == Typed /\ Linked /\ Passed /\ FilesThere /\ Copied /\ Apart

-----------------------------------------------------------------------------
(* Numbers.                                                                *)

\* A set of naturals that is not empty has a least element.
LEMMA Least ==
  ASSUME NEW T \in SUBSET Nat, T # {}
  PROVE  \E y \in T : \A z \in T : y <= z
<1> DEFINE Segments == {1..y : y \in T}
           R == StrictSubsetOrdering(Nat)
<1>1. \A y \in T : 1..y \in FiniteSubsetsOf(Nat)
  BY FS_Interval DEF FiniteSubsetsOf
<1>2. Segments \subseteq FiniteSubsetsOf(Nat) /\ Segments # {}
  BY <1>1
<1>3. PICK b \in Segments : \A c \in Segments : ~(<<c, b>> \in R)
  BY <1>2, FS_StrictSubsetOrderingWellFounded, WFMin
<1>4. PICK y \in T : b = 1..y
  BY <1>3
<1>5. ASSUME NEW z \in T, z < y PROVE FALSE
  <2>1. 1..z \in Segments /\ 1..z \in SUBSET Nat /\ b \in SUBSET Nat
    BY <1>4
  <2>2. 1..z \subseteq b /\ y \in b /\ y \notin 1..z
    BY <1>4, <1>5
  <2> QED BY <2>1, <2>2, <1>3 DEF StrictSubsetOrdering
<1> QED BY <1>5

-----------------------------------------------------------------------------
(* The list.                                                               *)

NodeSet == [flag : 0..1, previous : Nat, next : Nat, pdata : Ranges \cup {NoData}]

LEMMA Relinked ==
  ASSUME NEW y \in NodeSet, NEW p \in Nat, NEW q \in Nat
  PROVE  Relink(y, p, q) \in NodeSet
<1>1. y.flag \in 0..1 /\ y.pdata \in Ranges \cup {NoData}
  BY DEF NodeSet
<1> QED BY <1>1 DEF NodeSet, Relink, Node

LEMMA RelinkedFields ==
  ASSUME NEW y, NEW p, NEW q
  PROVE  /\ Relink(y, p, q).flag = y.flag /\ Relink(y, p, q).pdata = y.pdata
         /\ Relink(y, p, q).next = q /\ Relink(y, p, q).previous = p
  BY DEF Relink, Node

LEMMA Fields ==
  ASSUME NEW y \in NodeSet
  PROVE  y.flag \in 0..1 /\ y.previous \in Nat /\ y.next \in Nat /\ y.pdata \in Ranges \cup {NoData}
  BY DEF NodeSet

\* The first insertion makes node 3, and each one the node after the last.
LEMMA InsertChain ==
  ASSUME NEW h, NEW n \in Nat, NEW new \in Nat, NEW d \in Ranges,
         \A x \in DOMAIN h : h[x] \in NodeSet,
         Chain(h, 3, n), Malloc(h, new)
  PROVE  LET g == xx_list_insert(h, Header, new, d)
         IN  /\ new = n + 1 /\ Chain(g, 3, n + 1)
             /\ \A x \in DOMAIN g : g[x] \in NodeSet
             /\ Data(g) = Data(h) \cup {new} /\ new \notin Data(h)
             /\ \A x \in Data(h) : x < new /\ g[x].pdata = h[x].pdata
             /\ g[new].pdata = d
<1> DEFINE g == xx_list_insert(h, Header, new, d)
<1>1. DOMAIN h = 1..n /\ 2 <= n
  BY DEF Chain
<1>2. new = n + 1
  BY <1>1, ListAssumption DEF Malloc
<1>3. DOMAIN g = 1..n+1
  BY <1>1, <1>2 DEF xx_list_insert
<1>4. h[1].previous = n
  BY <1>1 DEF Chain
<1>5. g[new] = Node(1, n, 1, d)
  BY <1>1, <1>2, <1>3, <1>4 DEF xx_list_insert, Header
<1>6. \A x \in 1..n :
        g[x] = Relink(h[x], IF x = 1 THEN new ELSE h[x].previous, IF x = n THEN new ELSE h[x].next)
  BY <1>1, <1>2, <1>4 DEF xx_list_insert, Header
<1>7. \A x \in 1..n :
        /\ g[x] \in NodeSet
        /\ g[x].flag = h[x].flag /\ g[x].pdata = h[x].pdata
        /\ g[x].next = IF x = n THEN new ELSE h[x].next
        /\ g[x].previous = IF x = 1 THEN new ELSE h[x].previous
  <2> SUFFICES ASSUME NEW x \in 1..n
               PROVE  /\ g[x] \in NodeSet
                      /\ g[x].flag = h[x].flag /\ g[x].pdata = h[x].pdata
                      /\ g[x].next = IF x = n THEN new ELSE h[x].next
                      /\ g[x].previous = IF x = 1 THEN new ELSE h[x].previous
    OBVIOUS
  <2> DEFINE p == IF x = 1 THEN new ELSE h[x].previous
             q == IF x = n THEN new ELSE h[x].next
  <2>1. h[x] \in NodeSet
    BY <1>1
  <2>2. p \in Nat /\ q \in Nat
    BY <2>1, Fields
  <2>3. g[x] = Relink(h[x], p, q)
    BY <1>6
  <2> HIDE DEF g, p, q
  <2>4. /\ g[x] \in NodeSet /\ g[x].flag = h[x].flag /\ g[x].pdata = h[x].pdata
        /\ g[x].next = q /\ g[x].previous = p
    <3>1. g[x] \in NodeSet
      BY <2>1, <2>2, <2>3, Relinked, Zenon
    <3> QED BY <2>3, <3>1, RelinkedFields
  <2> QED BY <2>4 DEF p, q
<1>8. g[new] \in NodeSet /\ g[new].flag = 1 /\ g[new].next = 1 /\ g[new].previous = n /\ g[new].pdata = d
  BY <1>1, <1>5 DEF Node, NodeSet
<1> HIDE DEF g
<1>9. Chain(g, 3, n + 1)
  BY <1>1, <1>2, <1>3, <1>7, <1>8 DEF Chain
<1>10. \A x \in 1..n+1 : x = new \/ x \in 1..n
  BY <1>1, <1>2
<1>11. Data(g) = Data(h) \cup {new} /\ new \notin Data(h) /\ \A x \in Data(h) : x \in 1..n /\ x < new
  BY <1>1, <1>2, <1>3, <1>7, <1>8, <1>10 DEF Data
<1> QED
  BY <1>2, <1>3, <1>7, <1>8, <1>9, <1>10, <1>11 DEF g

\* The first two nodes are a chain with no data.
LEMMA InitChain ==
  /\ Chain(xx_list_init, 3, 2) /\ Data(xx_list_init) = {}
  /\ \A x \in DOMAIN xx_list_init : xx_list_init[x] \in NodeSet
<1>1. DOMAIN xx_list_init = 1..2
  BY DEF xx_list_init
<1>2. \A x \in 1..2 : xx_list_init[x] = Node(0, 3 - x, 3 - x, NoData)
  BY DEF xx_list_init
<1>3. \A x \in 1..2 : xx_list_init[x] \in NodeSet /\ xx_list_init[x].flag = 0
                       /\ xx_list_init[x].next = 3 - x /\ xx_list_init[x].previous = 3 - x
  BY <1>2 DEF Node, NodeSet
<1> QED
  BY <1>1, <1>3 DEF Chain, Data

\* A step of the clear at node k takes it from the chain.
LEMMA ClearChain ==
  ASSUME NEW h, NEW n \in Nat, NEW k \in Nat,
         \A x \in DOMAIN h : h[x] \in NodeSet,
         Chain(h, k, n), k <= n
  PROVE  LET g == xx_list_clear(h, k, h[k].next)
         IN  /\ Chain(g, k + 1, n)
             /\ \A x \in DOMAIN g : g[x] \in NodeSet
             /\ DOMAIN g = DOMAIN h \ {k}
             /\ \A x \in DOMAIN g : g[x].flag = h[x].flag /\ g[x].pdata = h[x].pdata
             /\ h[k].next \in DOMAIN g
             /\ h[h[k].next].next = g[h[k].next].next
             /\ h[k].next \in {1, k + 1}
<1> DEFINE to == h[k].next
           g  == xx_list_clear(h, k, to)
<1>1. /\ 3 <= k /\ k <= n /\ DOMAIN h = (1..2) \cup (k..n)
      /\ h[k].flag = 1 /\ h[k].previous = 2 /\ to = IF k = n THEN 1 ELSE k + 1
  BY DEF Chain
<1>2. g = [x \in DOMAIN h \ {k} |->
             Relink(h[x], IF x = to THEN 2 ELSE h[x].previous, IF x = 2 THEN to ELSE h[x].next)]
  BY <1>1 DEF xx_list_clear
<1>3. DOMAIN g = (1..2) \cup (k+1..n)
  BY <1>1, <1>2
<1>4. \A x \in DOMAIN g :
        /\ g[x] \in NodeSet
        /\ g[x].flag = h[x].flag /\ g[x].pdata = h[x].pdata
        /\ g[x].next = IF x = 2 THEN to ELSE h[x].next
        /\ g[x].previous = IF x = to THEN 2 ELSE h[x].previous
  <2> SUFFICES ASSUME NEW x \in DOMAIN g
               PROVE  /\ g[x] \in NodeSet
                      /\ g[x].flag = h[x].flag /\ g[x].pdata = h[x].pdata
                      /\ g[x].next = IF x = 2 THEN to ELSE h[x].next
                      /\ g[x].previous = IF x = to THEN 2 ELSE h[x].previous
    OBVIOUS
  <2> DEFINE p == IF x = to THEN 2 ELSE h[x].previous
             q == IF x = 2 THEN to ELSE h[x].next
  <2>1. x \in DOMAIN h \ {k} /\ h[x] \in NodeSet
    BY <1>2
  <2>2. p \in Nat /\ q \in Nat
    BY <1>1, <2>1, Fields
  <2>3. g[x] = Relink(h[x], p, q)
    BY <1>2, <2>1
  <2> HIDE DEF g, p, q
  <2>4. /\ g[x] \in NodeSet /\ g[x].flag = h[x].flag /\ g[x].pdata = h[x].pdata
        /\ g[x].next = q /\ g[x].previous = p
    <3>1. g[x] \in NodeSet
      BY <2>1, <2>2, <2>3, Relinked, Zenon
    <3> QED BY <2>3, <3>1, RelinkedFields
  <2> QED BY <2>4 DEF p, q
<1> HIDE DEF g, to
<1>5. Chain(g, k + 1, n)
  BY <1>1, <1>3, <1>4 DEF Chain
<1>6. DOMAIN g = DOMAIN h \ {k} /\ to \in DOMAIN g /\ to # 2 /\ to \in {1, k + 1}
  BY <1>1, <1>3
<1> QED
  BY <1>4, <1>5, <1>6 DEF g, to

\* A chain is a ring.
LEMMA ChainIsRing ==
  ASSUME NEW h, NEW k, NEW n, Chain(h, k, n)
  PROVE  IsRing(h)
<1>1. /\ k \in Nat /\ n \in Nat /\ 2 <= n /\ 3 <= k /\ k <= n + 1
      /\ DOMAIN h = (1..2) \cup (k..n)
  BY DEF Chain
<1>2. \A x \in DOMAIN h :
        /\ h[x].next = IF x = 1 THEN 2
                       ELSE IF x = 2 THEN (IF k <= n THEN k ELSE 1)
                       ELSE IF x = n THEN 1 ELSE x + 1
        /\ h[x].previous = IF x = 1 THEN (IF k <= n THEN n ELSE 2)
                           ELSE IF x = 2 THEN 1
                           ELSE IF x = k THEN 2 ELSE x - 1
  BY DEF Chain
<1>3. ASSUME NEW x \in DOMAIN h
      PROVE  /\ h[x].next \in DOMAIN h /\ h[h[x].next].previous = x
             /\ h[x].previous \in DOMAIN h /\ h[h[x].previous].next = x
  <2>1. x \in Nat /\ (x = 1 \/ x = 2 \/ (k <= x /\ x <= n))
    BY <1>1
  <2>2. h[x].next \in DOMAIN h /\ h[x].previous \in DOMAIN h
    BY <1>1, <1>2, <2>1
  <2>3. h[h[x].next].previous = x
    BY <1>1, <1>2, <2>1, <2>2
  <2>4. h[h[x].previous].next = x
    BY <1>1, <1>2, <2>1, <2>2
  <2> QED BY <2>2, <2>3, <2>4
<1>4. ASSUME NEW Part \in SUBSET DOMAIN h, Header \in Part, \A x \in Part : h[x].next \in Part,
             Part # DOMAIN h
      PROVE  FALSE
  <2> DEFINE T == DOMAIN h \ Part
  <2>1. T \in SUBSET Nat /\ T # {}
    BY <1>1, <1>4
  <2> HIDE DEF T
  <2>2. PICK y \in T : \A z \in T : y <= z
    BY <2>1, Least
  <2>3. y \in DOMAIN h /\ y \notin Part /\ \A z \in DOMAIN h : z < y => z \in Part
    BY <1>1, <2>2 DEF T
  <2>4. y # 1 /\ 1 \in Part /\ h[1].next = 2
    BY <1>1, <1>2, <1>4, <2>3 DEF Header
  <2>5. CASE y = 2
    BY <1>4, <2>3, <2>4, <2>5
  <2>6. CASE y = k
    <3>1. 2 \in Part /\ h[2].next = k
      BY <1>1, <1>2, <2>3, <2>6
    <3> QED BY <1>4, <2>3, <2>6, <3>1
  <2>7. CASE y # 2 /\ y # k
    <3>1. k < y /\ y <= n /\ y \in Nat
      BY <1>1, <2>3, <2>4, <2>7
    <3>2. y - 1 \in DOMAIN h /\ y - 1 < y /\ y - 1 # 1 /\ y - 1 # 2 /\ y - 1 # n
      BY <1>1, <3>1
    <3>3. h[y - 1].next = y
      BY <1>2, <3>1, <3>2
    <3> QED BY <1>4, <2>3, <3>2, <3>3
  <2> QED BY <2>5, <2>6, <2>7
<1> QED BY <1>3, <1>4 DEF IsRing

\* With the types and the list in numbers, the list is whole.
LEMMA LinkedIsWhole ==
  ASSUME Typed, Linked, Passed
  PROVE  ListWhole
<1>1. xx_link # Null => xx_link = Header
  BY DEF Typed, TypeOK
<1>2. xx_link # Null => IsRing(heap)
  BY <1>1, ChainIsRing DEF Linked
<1>3. pc = "clear" => here \in DOMAIN heap /\ node2 \in DOMAIN heap
  BY <1>2 DEF Linked, IsRing, Null, Header
<1> QED BY <1>2, <1>3 DEF ListWhole, Passed

-----------------------------------------------------------------------------
(* Regions and pages.                                                      *)

LEMMA Addresses ==
  ASSUME NEW a \in Addr
  PROVE  a \in Nat /\ a < Top /\ Top \in Nat
  BY MemoryAssumption DEF Addr

LEMMA PageBelow ==
  ASSUME NEW a \in Addr
  PROVE  PageStart[a] \in Addr /\ PageStart[a] <= a
  BY MemoryAssumption

LEMMA PageOf ==
  ASSUME NEW a \in Addr, NEW b \in Addr, PageStart[a] <= b, b <= a
  PROVE  PageStart[b] = PageStart[a]
<1>1. b \in PageStart[a]..a
  BY PageBelow, Addresses
<1> QED BY <1>1, MemoryAssumption

LEMMA PageOnce ==
  ASSUME NEW a \in Addr
  PROVE  PageStart[PageStart[a]] = PageStart[a]
<1>1. PageStart[a] \in Addr /\ PageStart[a] <= a /\ PageStart[a] <= PageStart[a]
  BY PageBelow, Addresses
<1> QED BY <1>1, PageOf

LEMMA Image ==
  ASSUME image \in Images
  PROVE  /\ image.bytes \in [Addr -> Byte]
         /\ \A a \in Addr : /\ image.region[PageStart[a]] = image.region[a]
                            /\ image.region[a].base \in 0..a
                            /\ image.region[a].commit \in BOOLEAN
  BY MemoryAssumption

LEMMA SamePageAttributes ==
  ASSUME image \in Images, NEW a \in Addr, NEW b \in Addr, PageStart[a] = PageStart[b]
  PROVE  image.region[a] = image.region[b]
<1>1. image.region[PageStart[a]] = image.region[a] /\ image.region[PageStart[b]] = image.region[b]
  BY Image
<1> QED BY <1>1

LEMMA RangeIs ==
  ASSUME NEW d \in Ranges
  PROVE  /\ d.start \in Addr /\ d.start \in Nat /\ d.end \in Nat /\ Top \in Nat
         /\ d.start < Top /\ d.end <= Top
<1>1. d.start \in Addr /\ d.end \in 1..Top
  BY DEF Ranges
<1>2. d.start \in Nat /\ d.start < Top /\ Top \in Nat
  BY <1>1, Addresses
<1> QED BY <1>1, <1>2

LEMMA Inner ==
  ASSUME NEW a \in Nat, NEW b \in Addr, a <= b
  PROVE  a \in Addr
<1>1. b \in Nat /\ b < Top /\ Top \in Nat
  BY Addresses
<1> QED BY <1>1 DEF Addr

\* The pages of two addresses are one or apart.
LEMMA PagesApart ==
  ASSUME NEW a \in Addr, NEW b \in Addr, NEW s \in Addr, PageStart[a] = PageStart[b],
         PageStart[s] = s, s <= a
  PROVE  s <= b
<1>1. /\ PageStart[a] \in Nat /\ PageStart[a] <= b /\ s \in Nat /\ b \in Nat
  BY PageBelow, Addresses
<1>2. CASE s <= PageStart[a]
  BY <1>1, <1>2
<1>3. CASE PageStart[a] <= s
  <2>1. PageStart[s] = PageStart[a]
    BY <1>3, PageOf
  <2> QED BY <1>1, <2>1
<1> QED BY <1>1, <1>2, <1>3

\* All of a region has the attributes of its start.
LEMMA InRun ==
  ASSUME NEW d \in Ranges, IsRegion(d), NEW a \in Addr, Holds(d, a)
  PROVE  /\ image.region[a] = image.region[d.start]
         /\ image.region[a].commit
<1>1. a \in Nat
  BY Addresses
<1>2. a \in d.start..(d.end - 1)
  BY <1>1, RangeIs DEF Holds
<1> QED BY <1>2 DEF IsRegion, RunsTo

\* What follows a region has other attributes.
LEMMA Beyond ==
  ASSUME NEW d \in Ranges, RunsTo(d.start, d.end), NEW a \in Addr, d.end <= a
  PROVE  d.end \in Addr /\ image.region[d.end] # image.region[d.start]
<1>1. d.end \in Nat /\ a \in Nat /\ a < Top /\ Top \in Nat
  BY RangeIs, Addresses
<1>2. d.end \in Addr /\ d.end < Top
  BY <1>1, Inner
<1> QED BY <1>2 DEF RunsTo

\* VirtualQueryEx describes pages around the address, those of a region if
\* they are committed.
LEMMA QueryHolds ==
  ASSUME image \in Images, NEW a \in Nat, NEW d \in Ranges, Query(a, d)
  PROVE  /\ a \in Addr /\ Holds(d, a) /\ PageStart[d.start] = d.start
         /\ d.start = PageStart[a]
         /\ image.region[d.start].commit => IsRegion(d)
         /\ \A b \in Addr : Holds(d, b) => image.region[b] = image.region[d.start]
<1>1. a \in Addr
  BY MemoryAssumption DEF Query, Addr
<1>2. d.start = PageStart[a] /\ RunsTo(d.start, d.end) /\ d.end \in (d.start + 1)..Top
  BY DEF Query
<1>3. d.start < d.end
  BY <1>2, RangeIs
<1>4. PageStart[d.start] = d.start /\ d.start <= a
  BY <1>1, <1>2, PageOnce, PageBelow
<1>5. ASSUME d.end <= a PROVE FALSE
  <2>1. d.end \in Addr /\ image.region[d.end] # image.region[d.start]
    BY <1>1, <1>2, <1>5, Beyond
  <2>2. PageStart[d.end] = PageStart[a]
    <3>1. PageStart[a] <= d.end
      BY <1>2, <1>3, RangeIs
    <3> QED BY <1>1, <1>5, <2>1, <3>1, PageOf
  <2>3. PageStart[d.end] = PageStart[d.start]
    BY <1>2, <1>4, <2>2
  <2> QED BY <2>1, <2>3, RangeIs, SamePageAttributes
<1>6. Holds(d, a)
  BY <1>4, <1>5, RangeIs DEF Holds
<1>7. ASSUME NEW b \in Addr, Holds(d, b) PROVE image.region[b] = image.region[d.start]
  <2>1. b \in d.start..(d.end - 1)
    BY <1>7, RangeIs, Addresses DEF Holds
  <2> QED BY <1>2, <2>1 DEF RunsTo
<1> QED BY <1>1, <1>2, <1>3, <1>4, <1>6, <1>7 DEF IsRegion

\* Regions that share an address have one end and the same attributes.
LEMMA SameRun ==
  ASSUME NEW d \in Ranges, NEW e \in Ranges, IsRegion(d), IsRegion(e), Share(d, e)
  PROVE  d.end = e.end /\ image.region[d.start] = image.region[e.start]
<1>1. PICK a \in Addr : Holds(d, a) /\ Holds(e, a)
  BY DEF Share
<1>2. image.region[d.start] = image.region[e.start]
  BY <1>1, InRun
<1>3. a \in Nat /\ a < d.end /\ a < e.end /\ d.start <= a /\ e.start <= a
  BY <1>1, Addresses DEF Holds
<1>4. ASSUME NEW f \in Ranges, NEW g \in Ranges, IsRegion(f), IsRegion(g), f.end < g.end,
             a < f.end, g.start <= a, image.region[f.start] = image.region[g.start]
      PROVE  FALSE
  <2>1. f.end \in g.start..(g.end - 1) /\ f.end < Top
    BY <1>3, <1>4, RangeIs
  <2> QED BY <1>4, <2>1 DEF IsRegion, RunsTo
<1>5. ~(d.end < e.end)
  BY <1>2, <1>3, <1>4
<1>6. ~(e.end < d.end)
  BY <1>2, <1>3, <1>4
<1> QED BY <1>2, <1>5, <1>6, RangeIs

\* A file holds all of a page or nothing of it.
LEMMA PageHeld ==
  ASSUME image \in Images, NEW d \in Ranges, IsRegion(d),
         NEW a \in Addr, NEW b \in Addr, PageStart[a] = PageStart[b], Holds(d, a)
  PROVE  Holds(d, b)
<1>1. /\ PageStart[d.start] = d.start /\ d.start <= a /\ a < d.end /\ RunsTo(d.start, d.end)
  BY DEF IsRegion, Holds
<1>2. d.start <= b
  BY <1>1, RangeIs, PagesApart
<1>3. ASSUME d.end <= b PROVE FALSE
  <2>1. d.end \in Addr /\ image.region[d.end] # image.region[d.start]
    BY <1>1, <1>3, Beyond
  <2>2. PageStart[b] <= d.end
    <3>1. PageStart[b] <= a /\ PageStart[b] \in Nat /\ a \in Nat
      BY PageBelow, Addresses
    <3> QED BY <1>1, <3>1, RangeIs
  <2>3. PageStart[d.end] = PageStart[b]
    BY <1>3, <2>1, <2>2, PageOf
  <2>4. image.region[d.end] = image.region[a] /\ image.region[a] = image.region[d.start]
    BY <2>1, <2>3, SamePageAttributes, InRun
  <2> QED BY <2>1, <2>4
<1> QED BY <1>2, <1>3, RangeIs, Addresses DEF Holds

-----------------------------------------------------------------------------
(* Files.                                                                  *)

DirOK(f) == /\ DOMAIN f \subseteq Ranges
            /\ \A d \in DOMAIN f : \E n \in 0..(d.end - d.start) : f[d] \in [0..(n - 1) -> Byte]

LEMMA Faults ==
  ASSUME faults \in 0..MaxFaults, Fault
  PROVE  faults' \in 0..MaxFaults /\ faults' # 0
  BY MemoryAssumption DEF Fault

LEMMA CopyTyped ==
  ASSUME image \in Images, NEW d \in Ranges, NEW n \in 0..(d.end - d.start)
  PROVE  Copy(d, n) \in [0..(n - 1) -> Byte]
<1>1. \A k \in 0..(n - 1) : d.start + k \in Nat /\ d.start + k < Top
  BY RangeIs
<1>2. \A k \in 0..(n - 1) : d.start + k \in Addr
  BY <1>1, RangeIs DEF Addr
<1> QED BY <1>2, Image DEF Copy

\* Either way of writing a file leaves the others as they are.
LEMMA Covered ==
  ASSUME image \in Images, NEW d \in Ranges, DirOK(dir), NEW n \in 0..(d.end - d.start),
         dir' = [f \in DOMAIN dir \cup {d} |-> IF f = d THEN Copy(d, n) ELSE dir[f]]
  PROVE  /\ DirOK(dir') /\ DOMAIN dir' = DOMAIN dir \cup {d}
         /\ dir'[d] = Copy(d, n) /\ \A f \in DOMAIN dir : f # d => dir'[f] = dir[f]
<1>1. Copy(d, n) \in [0..(n - 1) -> Byte]
  BY CopyTyped
<1>2. DOMAIN dir' = DOMAIN dir \cup {d} /\ dir'[d] = Copy(d, n)
      /\ \A f \in DOMAIN dir : f # d => dir'[f] = dir[f]
  BY Zenon
<1> QED BY <1>1, <1>2 DEF DirOK

LEMMA CoverIs ==
  ASSUME image \in Images, NEW d \in Ranges, DirOK(dir), faults \in 0..MaxFaults, xx_cover_file(d)
  PROVE  /\ DirOK(dir') /\ faults' \in 0..MaxFaults
         /\ \E n \in 0..(d.end - d.start) : dir'[d] = Copy(d, n)
         /\ DOMAIN dir' = DOMAIN dir \cup {d} /\ \A f \in DOMAIN dir : f # d => dir'[f] = dir[f]
         /\ faults' = 0 => faults = 0
<1>1. PICK n \in 1..(d.end - d.start) :
        /\ dir' = [f \in DOMAIN dir \cup {d} |-> IF f = d THEN Copy(d, n) ELSE dir[f]]
        /\ IF n = d.end - d.start THEN UNCHANGED faults ELSE Fault
  BY DEF xx_cover_file
<1>2. n \in 0..(d.end - d.start)
  BY <1>1, RangeIs
<1>3. faults' \in 0..MaxFaults /\ (faults' = 0 => faults = 0)
  BY <1>1, Faults
<1> QED BY <1>1, <1>2, <1>3, Covered

LEMMA CoverFailsIs ==
  ASSUME image \in Images, NEW d \in Ranges, DirOK(dir), faults \in 0..MaxFaults, CoverFails(d),
         d.start < d.end
  PROVE  /\ DirOK(dir') /\ faults' \in 0..MaxFaults /\ faults' # 0
         /\ DOMAIN dir \subseteq DOMAIN dir' /\ DOMAIN dir' \subseteq DOMAIN dir \cup {d}
         /\ \A f \in DOMAIN dir : f # d => dir'[f] = dir[f]
         /\ dir' = dir \/ dir'[d] = Copy(d, 0)
<1>1. faults' \in 0..MaxFaults /\ faults' # 0
  BY Faults DEF CoverFails
<1>2. CASE dir' = dir
  BY <1>1, <1>2
<1>3. CASE dir' = [f \in DOMAIN dir \cup {d} |-> IF f = d THEN Copy(d, 0) ELSE dir[f]]
  <2>1. 0 \in 0..(d.end - d.start)
    BY RangeIs
  <2>2. /\ DirOK(dir') /\ DOMAIN dir' = DOMAIN dir \cup {d}
        /\ dir'[d] = Copy(d, 0) /\ \A f \in DOMAIN dir : f # d => dir'[f] = dir[f]
    BY <1>3, <2>1, Covered
  <2> QED BY <1>1, <2>2
<1> QED BY <1>2, <1>3 DEF CoverFails

-----------------------------------------------------------------------------
(* Types.                                                                  *)

HeapOK(h) == /\ DOMAIN h \subseteq (1..MaxNode) \cup (1..2)
             /\ \A x \in DOMAIN h : h[x] \in NodeSet
             /\ \A x \in Data(h) : h[x].pdata \in Ranges

\* The parts of Typed, one by one.
Basic ==
    /\ image \in Images
    /\ xx_link \in {Null, Header} /\ xx_node_start \in {Null, Header}
    /\ here \in Nat /\ node2 \in Nat
    /\ fmempath \in BOOLEAN /\ starting \in BOOLEAN
    /\ pc \in {"idle", "clear", "delete", "load"} \cup Running
    /\ addr \in 0..Top /\ faults \in 0..MaxFaults
    /\ op \in Accesses \cup {NoAccess}
    /\ pc \in {"search", "gen", "access"} <=> op # NoAccess
    /\ pc \in {"load"} \cup Running => xx_link = Header
    /\ pc \in Running => addr = Top

LEMMA TypedIs == Typed <=> Basic /\ HeapOK(heap) /\ DirOK(dir)
  BY DEF Typed, TypeOK, Basic, HeapOK, DirOK, NodeSet

LEMMA TypedNext == Typed' <=> Basic' /\ HeapOK(heap') /\ DirOK(dir')
  BY DEF Typed, TypeOK, Basic, HeapOK, DirOK, NodeSet

LEMMA QueryIs ==
  ASSUME NEW a \in Nat, NEW d \in Ranges, Query(a, d)
  PROVE  d.start < d.end /\ d.end \in 0..Top /\ d.start \in 0..Top
<1>1. d.end \in (d.start + 1)..Top
  BY DEF Query
<1> QED BY <1>1, RangeIs

LEMMA Asks ==
  /\ NoAccess \notin Accesses
  /\ \A o \in Accesses : /\ o.kind \in {"read", "write"} /\ o.addr \in Nat
                         /\ \E n \in 1..MaxSize : o.data \in [0..(n - 1) -> Byte]
<1>1. NoAccess.kind \notin {"read", "write"}
  BY DEF NoAccess
<1> QED BY <1>1, MemoryAssumption

LEMMA TypedInit == Init => Typed
<1> SUFFICES ASSUME Init PROVE Typed
  OBVIOUS
<1> USE DEF Init
<1>1. HeapOK(heap)
  BY DEF HeapOK, NoHeap, Data
<1>2. DirOK(dir)
  BY DEF DirOK
<1>3. Top \in Nat /\ MaxFaults \in Nat
  BY MemoryAssumption
<1>4. addr \in 0..Top /\ faults \in 0..MaxFaults
  BY <1>3
<1>5. Basic
  BY <1>4 DEF Basic, Running, Null
<1> QED BY <1>1, <1>2, <1>5, TypedIs

\* An insertion into the list of an analysis.
LEMMA Inserted ==
  ASSUME Typed, Linked, pc \in {"load"} \cup Running, NEW d \in Ranges, NEW new \in 1..MaxNode,
         Malloc(heap, new), heap' = xx_list_insert(heap, xx_link, new, d)
  PROVE  /\ HeapOK(heap') /\ \E n \in 2..MaxNode+2 : Chain(heap', 3, n)
         /\ Data(heap') = Data(heap) \cup {new} /\ new \notin Data(heap)
         /\ \A x \in Data(heap) : x \in Nat /\ x < new /\ heap'[x].pdata = heap[x].pdata
         /\ heap'[new].pdata = d /\ new \in DOMAIN heap' /\ DOMAIN heap \subseteq DOMAIN heap'
<1>1. xx_link = Header /\ pc # "clear" /\ HeapOK(heap)
  BY TypedIs DEF Basic, Running
<1>2. PICK n \in 2..MaxNode+2 : Chain(heap, 3, n)
  BY <1>1 DEF Linked
<1>3. n \in Nat /\ new \in Nat
  BY ListAssumption
<1>4. /\ new = n + 1 /\ Chain(heap', 3, n + 1)
      /\ \A x \in DOMAIN heap' : heap'[x] \in NodeSet
      /\ Data(heap') = Data(heap) \cup {new} /\ new \notin Data(heap)
      /\ \A x \in Data(heap) : x < new /\ heap'[x].pdata = heap[x].pdata
      /\ heap'[new].pdata = d
  BY <1>1, <1>2, <1>3, InsertChain DEF HeapOK
<1>5. n + 1 \in 2..MaxNode+2 /\ new \in 1..MaxNode
  BY <1>3, <1>4, ListAssumption
<1>6. DOMAIN heap' = DOMAIN heap \cup {new}
  BY <1>1 DEF xx_list_insert
<1>7. \A x \in Data(heap') : heap'[x].pdata \in Ranges
  BY <1>1, <1>4 DEF HeapOK
<1>8. \A x \in Data(heap) : x \in Nat
  BY <1>1, ListAssumption DEF HeapOK, Data
<1>9. HeapOK(heap')
  BY <1>1, <1>4, <1>5, <1>6, <1>7 DEF HeapOK
<1> QED BY <1>3, <1>4, <1>5, <1>6, <1>8, <1>9

\* What every action but an insertion does to the list: no datum is added.
LEMMA Shrinks ==
  ASSUME Typed, Linked, pc = "clear", ~Cleared(heap, here, node2),
         heap' = xx_list_clear(heap, here, node2), here' = node2, node2' = heap[node2].next
  PROVE  /\ HeapOK(heap') /\ here' \in Nat /\ node2' \in Nat
         /\ \E n \in 2..MaxNode+2 : \E k \in 3..n+1 :
              Chain(heap', k, n) /\ here' \in {1, 2, k} /\ here' \in DOMAIN heap'
         /\ node2' = heap'[here'].next
         /\ Data(heap') \subseteq Data(heap)
         /\ \A x \in Data(heap') : heap'[x].pdata = heap[x].pdata
<1>1. HeapOK(heap) /\ node2 = heap[here].next /\ \A x \in DOMAIN heap : heap[x] \in NodeSet
  BY TypedIs DEF Linked, HeapOK
<1>2. PICK n \in 2..MaxNode+2 : \E k \in 3..n+1 :
        Chain(heap, k, n) /\ here \in {1, 2, k} /\ here \in DOMAIN heap
  BY DEF Linked
<1>3. PICK k \in 3..n+1 : Chain(heap, k, n) /\ here \in {1, 2, k} /\ here \in DOMAIN heap
  BY <1>2
<1>4. /\ n \in Nat /\ k \in Nat /\ n <= MaxNode + 2 /\ 2 <= n /\ 3 <= k /\ k <= n + 1
      /\ DOMAIN heap = (1..2) \cup (k..n)
  BY <1>3, ListAssumption DEF Chain
<1>5. CASE here \in {1, 2}
  <2>1. heap[here].flag = 0 /\ heap' = heap
    BY <1>3, <1>5, <1>4 DEF xx_list_clear, Chain
  <2>2. here' \in {1, 2, k} /\ here' \in DOMAIN heap
    BY <1>1, <1>3, <1>4, <1>5 DEF Chain
  <2>3. node2' = heap'[here'].next /\ node2' \in Nat /\ here' \in Nat
    BY <1>1, <1>4, <2>1, <2>2, Fields
  <2> QED BY <1>1, <1>3, <2>1, <2>2, <2>3
<1>6. CASE here = k /\ here \notin {1, 2}
  <2>1. k <= n /\ node2 = heap[k].next
    BY <1>1, <1>3, <1>4, <1>6
  <2>2. heap' = xx_list_clear(heap, k, heap[k].next)
    BY <1>1, <1>6
  <2>3. /\ Chain(heap', k + 1, n)
        /\ \A x \in DOMAIN heap' : heap'[x] \in NodeSet
        /\ DOMAIN heap' = DOMAIN heap \ {k}
        /\ \A x \in DOMAIN heap' : heap'[x].flag = heap[x].flag /\ heap'[x].pdata = heap[x].pdata
        /\ node2 \in DOMAIN heap'
        /\ heap[node2].next = heap'[node2].next
        /\ node2 \in {1, k + 1}
    <3> DEFINE g == xx_list_clear(heap, k, heap[k].next)
    <3>1. /\ Chain(g, k + 1, n)
          /\ \A x \in DOMAIN g : g[x] \in NodeSet
          /\ DOMAIN g = DOMAIN heap \ {k}
          /\ \A x \in DOMAIN g : g[x].flag = heap[x].flag /\ g[x].pdata = heap[x].pdata
          /\ heap[k].next \in DOMAIN g
          /\ heap[heap[k].next].next = g[heap[k].next].next
          /\ heap[k].next \in {1, k + 1}
      BY <1>1, <1>3, <1>4, <2>1, ClearChain
    <3>2. heap' = g
      BY <2>2
    <3> HIDE DEF g
    <3> QED BY <2>1, <3>1, <3>2
  <2>4. Data(heap') \subseteq Data(heap) /\ \A x \in Data(heap') : heap'[x].pdata = heap[x].pdata
    BY <2>3 DEF Data
  <2>5. HeapOK(heap')
    BY <1>1, <2>3, <2>4 DEF HeapOK
  <2>6. k + 1 \in 3..n+1 /\ here' \in {1, 2, k + 1} /\ here' \in Nat
    BY <1>4, <2>1, <2>3
  <2>7. node2' = heap'[here'].next /\ node2' \in Nat
    BY <2>3, Fields
  <2> QED BY <2>3, <2>4, <2>5, <2>6, <2>7
<1> QED BY <1>3, <1>5, <1>6

\* When the clear ends no datum is left.
LEMMA ClearedAll ==
  ASSUME Typed, Linked, pc = "clear", Cleared(heap, here, node2)
  PROVE  Data(heap) = {} /\ Chain(heap, 3, 2)
<1>1. node2 = heap[here].next
  BY DEF Linked
<1>2. PICK n \in 2..MaxNode+2 : \E k \in 3..n+1 :
        Chain(heap, k, n) /\ here \in {1, 2, k} /\ here \in DOMAIN heap
  BY DEF Linked
<1>3. PICK k \in 3..n+1 : Chain(heap, k, n) /\ here \in {1, 2, k} /\ here \in DOMAIN heap
  BY <1>2
<1>4. /\ n \in Nat /\ k \in Nat /\ 2 <= n /\ 3 <= k /\ k <= n + 1
      /\ DOMAIN heap = (1..2) \cup (k..n)
  BY <1>3, ListAssumption DEF Chain
<1>5. heap[here].flag = 0 /\ heap[node2].flag = 0 /\ heap[heap[here].previous].flag = 0
  BY DEF Cleared
<1>6. ASSUME k <= n PROVE FALSE
  <2>1. heap[k].flag = 1 /\ heap[n].flag = 1 /\ heap[1].previous = n /\ heap[2].next = k
    BY <1>3, <1>4, <1>6 DEF Chain
  <2> QED BY <1>1, <1>3, <1>5, <2>1
<1>7. DOMAIN heap = 1..2 /\ heap[1].previous = 2 /\ heap[2].next = 1 /\ k = n + 1
  BY <1>3, <1>4, <1>6 DEF Chain
<1>8. \A x \in 1..2 : heap[x].flag = 0
  BY <1>3, <1>7 DEF Chain
<1>9. heap[1].next = 2 /\ heap[2].previous = 1
  BY <1>3, <1>7 DEF Chain
<1> QED BY <1>7, <1>8, <1>9 DEF Data, Chain

\* Once there is a list its header is there.
LEMMA HeaderThere ==
  ASSUME Linked, xx_link = Header, pc # "clear"
  PROVE  Header \in DOMAIN heap
<1>1. PICK n \in 2..MaxNode+2 : Chain(heap, 3, n)
  BY DEF Linked
<1>2. DOMAIN heap = (1..2) \cup (3..n)
  BY <1>1 DEF Chain
<1> QED BY <1>2 DEF Header

LEMMA TypedFree ==
  ASSUME Typed, Linked, StartInit \/ StartFree \/ Free
  PROVE  Typed'
<1> USE TypedIs
<1>1. CASE StartInit
  <2>1. xx_link' = Header /\ pc' = "clear" /\ pc = "idle"
    BY <1>1 DEF StartInit, ClearFrom
  <2>2. heap' = xx_list_init \/ heap' = heap
    BY <1>1 DEF StartInit
  <2>3. HeapOK(heap')
    <3>1. HeapOK(xx_list_init)
      BY InitChain DEF HeapOK, xx_list_init
    <3> QED BY <2>2, <3>1
  <2>4. Header \in DOMAIN heap'
    <3>1. CASE xx_link = Null
      BY <1>1, <3>1 DEF StartInit, xx_list_init, Header
    <3>2. CASE xx_link = Header
      <4>1. heap' = heap
        BY <1>1, <3>2 DEF StartInit, Header, Null
      <4> QED BY <2>1, <3>2, <4>1, HeaderThere
    <3> QED BY <3>1, <3>2 DEF Basic
  <2>5. here' = Header /\ node2' = heap'[Header].next /\ here' \in Nat /\ node2' \in Nat
    BY <1>1, <2>3, <2>4, Fields DEF StartInit, ClearFrom, HeapOK, Header
  <2>6. Basic'
    BY <1>1, <2>1, <2>5 DEF Basic, StartInit, Running
  <2> QED BY <1>1, <2>3, <2>6, TypedNext DEF StartInit
<1>2. CASE StartFree
  <2>1. xx_link = Header /\ pc = "ready" /\ pc' = "clear" /\ heap' = heap
    BY <1>2 DEF StartFree, ClearFrom, Basic, Running
  <2>2. Header \in DOMAIN heap
    BY <2>1, HeaderThere
  <2>3. here' \in Nat /\ node2' \in Nat
    BY <1>2, <2>2, Fields DEF StartFree, ClearFrom, HeapOK, Header
  <2>4. Basic'
    BY <1>2, <2>1, <2>3 DEF Basic, StartFree, Running
  <2> QED BY <1>2, <2>1, <2>4, TypedNext DEF StartFree
<1>3. CASE Clear
  <2>1. HeapOK(heap') /\ here' \in Nat /\ node2' \in Nat
    BY <1>3, Shrinks DEF Clear
  <2>2. Basic'
    BY <1>3, <2>1 DEF Clear, Basic, Running
  <2> QED BY <1>3, <2>1, <2>2, TypedNext DEF Clear
<1>4. CASE ClearEnds
  <2>1. Basic'
    BY <1>4 DEF ClearEnds, Basic, list, Running
  <2> QED BY <1>4, <2>1, TypedNext DEF ClearEnds, list
<1>5. CASE Delete
  <2>1. pc = "delete" /\ pc' \in {"idle", "load"} /\ addr' \in {0, addr} /\ fmempath' \in BOOLEAN
        /\ faults' \in 0..MaxFaults
    BY <1>5, Faults DEF Delete, Basic
  <2>2. xx_link = Header
    BY <2>1 DEF Linked, Basic
  <2>3. 0 \in 0..Top
    BY MemoryAssumption
  <2>4. Basic'
    BY <1>5, <2>1, <2>2, <2>3 DEF Delete, Basic, list, Running
  <2>5. DirOK(dir')
    BY <1>5 DEF Delete, DirOK
  <2> QED BY <1>5, <2>4, <2>5, TypedNext DEF Delete, list
<1>6. CASE DeleteFails
  <2>1. faults' \in 0..MaxFaults
    BY <1>6, Faults DEF DeleteFails, Basic
  <2>2. Basic'
    BY <1>6, <2>1 DEF DeleteFails, Basic, list, Running
  <2>3. DirOK(dir')
    BY <1>6 DEF DeleteFails, DirOK
  <2> QED BY <1>6, <2>2, <2>3, TypedNext DEF DeleteFails, list
<1> QED BY <1>1, <1>2, <1>3, <1>4, <1>5, <1>6 DEF Free

LEMMA TypedLoad ==
  ASSUME Typed, Linked, Load
  PROVE  Typed'
<1> USE TypedIs
<1>1. pc = "load" /\ addr \in Nat /\ addr \in 0..Top /\ Top \in Nat
  BY MemoryAssumption DEF Load, LoadFile, LoadSkip, LoadNotRead, LoadNotWritten, LoadEnds, Basic
<1>2. CASE LoadFile
  <2>1. PICK d \in Ranges, new \in 1..MaxNode :
          /\ Query(addr, d) /\ Whole(d) /\ xx_cover_file(d)
          /\ Malloc(heap, new) /\ heap' = xx_list_insert(heap, xx_link, new, d) /\ addr' = d.end
    BY <1>2 DEF LoadFile
  <2>2. HeapOK(heap')
    BY <1>1, <2>1, Inserted
  <2>3. DirOK(dir') /\ faults' \in 0..MaxFaults
    BY <2>1, CoverIs DEF Basic
  <2>4. addr' \in 0..Top
    BY <1>1, <2>1, QueryIs
  <2>5. Basic'
    BY <1>2, <2>3, <2>4 DEF LoadFile, Basic, Running
  <2> QED BY <2>2, <2>3, <2>5, TypedNext
<1>3. CASE LoadSkip
  <2>1. addr' \in 0..Top
    BY <1>1, <1>3, QueryIs DEF LoadSkip
  <2>2. Basic'
    BY <1>3, <2>1 DEF LoadSkip, Basic, list, Running
  <2> QED BY <1>3, <2>2, TypedNext DEF LoadSkip, list
<1>4. CASE LoadNotRead
  <2>1. addr' \in 0..Top /\ faults' \in 0..MaxFaults
    BY <1>1, <1>4, Faults DEF LoadNotRead, Basic
  <2>2. Basic'
    BY <1>4, <2>1 DEF LoadNotRead, Basic, list, Running
  <2> QED BY <1>4, <2>2, TypedNext DEF LoadNotRead, list
<1>5. CASE LoadNotWritten
  <2>1. PICK d \in Ranges : Query(addr, d) /\ Whole(d) /\ CoverFails(d) /\ addr' = d.end
    BY <1>5 DEF LoadNotWritten
  <2>2. d.start < d.end /\ addr' \in 0..Top
    BY <1>1, <2>1, QueryIs
  <2>3. DirOK(dir') /\ faults' \in 0..MaxFaults
    BY <2>1, <2>2, CoverFailsIs DEF Basic
  <2>4. Basic'
    BY <1>5, <2>2, <2>3 DEF LoadNotWritten, Basic, list, Running
  <2> QED BY <1>5, <2>3, <2>4, TypedNext DEF LoadNotWritten, list
<1>6. CASE LoadEnds
  <2>1. addr = Top /\ addr' = addr
    BY <1>1, <1>6 DEF LoadEnds
  <2>2. faults' \in 0..MaxFaults /\ pc' \in {"ready", "idle"}
    BY <1>6, Faults DEF LoadEnds, Basic
  <2>3. Basic'
    BY <1>1, <1>6, <2>1, <2>2 DEF LoadEnds, Basic, list, Running
  <2> QED BY <1>6, <2>3, TypedNext DEF LoadEnds, list
<1> QED BY <1>2, <1>3, <1>4, <1>5, <1>6 DEF Load
\* A traversal goes on from a node of the list to the next one.
LEMMA NextThere ==
  ASSUME Typed, Linked, pc = "search", here \in DOMAIN heap
  PROVE  heap[here].next \in DOMAIN heap /\ heap[here].next \in Nat
<1>1. xx_link = Header
  BY TypedIs DEF Basic, Running
<1>2. IsRing(heap)
  BY <1>1, ChainIsRing DEF Linked
<1>3. heap[here] \in NodeSet
  BY TypedIs DEF HeapOK
<1> QED BY <1>2, <1>3, Fields DEF IsRing

\* The end of an access.
LEMMA TypedAnswer ==
  ASSUME Basic, Answer(Failed(op)) \/ (\E v : Answer(Done(op, v))), pc \in {"gen", "access"},
         UNCHANGED <<image, xx_link, xx_node_start, here, node2, fmempath, starting, addr>>,
         faults' \in 0..MaxFaults
  PROVE  Basic'
<1>1. pc' = "ready" /\ op' = NoAccess
  BY DEF Answer
<1> QED BY <1>1 DEF Basic, Running

\* A file that is written keeps its length.
LEMMA Written ==
  ASSUME DirOK(dir), NEW o \in Accesses, NEW f \in DOMAIN dir, NEW m \in Int,
         dir' = [dir EXCEPT ![f] =
                   [k \in DOMAIN @ |-> IF k - m \in DOMAIN o.data THEN o.data[k - m] ELSE @[k]]]
  PROVE  /\ DirOK(dir') /\ DOMAIN dir' = DOMAIN dir
         /\ \A g \in DOMAIN dir : g # f => dir'[g] = dir[g]
         /\ DOMAIN dir'[f] = DOMAIN dir[f]
         /\ \A k \in DOMAIN dir[f] :
              dir'[f][k] = IF k - m \in DOMAIN o.data THEN o.data[k - m] ELSE dir[f][k]
<1>1. PICK n \in 0..(f.end - f.start) : dir[f] \in [0..(n - 1) -> Byte]
  BY DEF DirOK
<1>2. PICK s \in 1..MaxSize : o.data \in [0..(s - 1) -> Byte]
  BY Asks
<1> DEFINE w == [k \in DOMAIN dir[f] |-> IF k - m \in DOMAIN o.data THEN o.data[k - m] ELSE dir[f][k]]
<1>3. \A j \in DOMAIN o.data : o.data[j] \in Byte
  BY <1>2
<1>4. w \in [0..(n - 1) -> Byte]
  BY <1>1, <1>3
<1>5. /\ DOMAIN w = DOMAIN dir[f]
      /\ \A k \in DOMAIN dir[f] : w[k] = IF k - m \in DOMAIN o.data THEN o.data[k - m] ELSE dir[f][k]
  OBVIOUS
<1>6. dir' = [dir EXCEPT ![f] = w]
  OBVIOUS
<1> HIDE DEF w
<1>7. DOMAIN dir' = DOMAIN dir /\ dir'[f] = w /\ \A g \in DOMAIN dir : g # f => dir'[g] = dir[g]
  BY <1>6
<1>8. DirOK(dir')
  BY <1>4, <1>7 DEF DirOK
<1> QED BY <1>5, <1>7, <1>8

\* Where an access is, its file is there.
LEMMA FileThere ==
  ASSUME Typed, Passed, FilesThere, pc = "access"
  PROVE  /\ here \in Data(heap) /\ File \in Ranges /\ File \in DOMAIN dir /\ Holds(File, op.addr)
         /\ op \in Accesses /\ op.addr \in Nat /\ Offset \in Nat
<1>1. here \in Data(heap) /\ Holds(File, op.addr)
  BY DEF Passed, First, File
<1>2. File \in DOMAIN dir /\ File \in Ranges
  BY <1>1, TypedIs DEF FilesThere, Listed, File, HeapOK
<1>3. op \in Accesses /\ op.addr \in Nat
  BY TypedIs, Asks DEF Basic
<1> QED BY <1>1, <1>2, <1>3, RangeIs DEF Holds, Offset

LEMMA TypedAccess ==
  ASSUME Typed, Linked, Passed, FilesThere, Resume \/ Ask \/ Access
  PROVE  Typed'
<1> USE TypedIs
<1>1. CASE Resume
  <2>1. Basic'
    BY <1>1 DEF Resume, Basic, list, Running
  <2> QED BY <1>1, <2>1, TypedNext DEF Resume, list
<1>2. CASE Ask
  <2>1. op' # NoAccess
    BY <1>2, Asks DEF Ask
  <2>2. Basic'
    BY <1>2, <2>1 DEF Ask, Basic, Running, Header, Null
  <2> QED BY <1>2, <2>2, TypedNext DEF Ask
<1>3. CASE Search
  <2>1. here' \in Nat /\ pc = "search" /\ pc' \in {"search", "access", "gen"}
    BY <1>3, NextThere DEF Search, Passed
  <2>2. Basic'
    BY <1>3, <2>1 DEF Search, Basic, Running
  <2> QED BY <1>3, <2>2, TypedNext DEF Search
<1>4. CASE Gen
  <2>1. PICK d \in Ranges, new \in 1..MaxNode :
          /\ xx_cover_file(d) /\ here' = new
          /\ Malloc(heap, new) /\ heap' = xx_list_insert(heap, xx_link, new, d)
    BY <1>4 DEF Gen
  <2>2. HeapOK(heap') /\ pc = "gen"
    BY <1>4, <2>1, Inserted DEF Gen, Running
  <2>3. DirOK(dir') /\ faults' \in 0..MaxFaults
    BY <2>1, CoverIs DEF Basic
  <2>4. here' \in Nat
    BY <2>1
  <2>5. Basic'
    BY <1>4, <2>3, <2>4 DEF Gen, Basic, Running
  <2> QED BY <2>2, <2>3, <2>5, TypedNext
<1>5. CASE GenFails
  <2>1. DirOK(dir') /\ faults' \in 0..MaxFaults
    <3>1. CASE UNCHANGED <<dir, faults>>
      BY <3>1 DEF Basic
    <3>2. CASE Fault /\ dir' = dir
      BY <3>2, Faults DEF Basic
    <3>3. CASE \E d \in Ranges : Query(op.addr, d) /\ CoverFails(d)
      <4>1. PICK d \in Ranges : Query(op.addr, d) /\ CoverFails(d)
        BY <3>3
      <4>2. op.addr \in Nat
        BY <1>5, Asks DEF GenFails, Basic
      <4>3. d.start < d.end
        BY <4>1, <4>2, QueryIs
      <4> QED BY <4>1, <4>3, CoverFailsIs DEF Basic
    <3> QED BY <1>5, <3>1, <3>2, <3>3 DEF GenFails
  <2>2. Basic'
    BY <1>5, <2>1, TypedAnswer DEF GenFails, list
  <2> QED BY <1>5, <2>1, <2>2, TypedNext DEF GenFails, list
<1>6. CASE Read
  <2>1. Basic'
    <3>1. faults' \in 0..MaxFaults
      BY <1>6 DEF Read, Basic
    <3> QED BY <1>6, <3>1, TypedAnswer DEF Read, list
  <2> QED BY <1>6, <2>1, TypedNext DEF Read, list
<1>7. CASE Write
  <2>1. Basic'
    <3>1. faults' \in 0..MaxFaults
      BY <1>7 DEF Write, Basic
    <3> QED BY <1>7, <3>1, TypedAnswer DEF Write, list
  <2>2. DirOK(dir')
    <3>1. pc = "access" /\ Offset \in Int /\ File \in DOMAIN dir /\ op \in Accesses
      BY <1>7, FileThere DEF Write
    <3>2. dir' = [dir EXCEPT ![File] =
                    [k \in DOMAIN @ |-> IF k - Offset \in DOMAIN op.data THEN op.data[k - Offset] ELSE @[k]]]
      BY <1>7 DEF Write
    <3> QED BY <3>1, <3>2, Written
  <2> QED BY <1>7, <2>1, <2>2, TypedNext DEF Write, list
<1>8. CASE AccessFails
  <2>1. Basic'
    <3>1. faults' \in 0..MaxFaults
      BY <1>8, Faults DEF AccessFails, Basic
    <3> QED BY <1>8, <3>1, TypedAnswer DEF AccessFails, list
  <2> QED BY <1>8, <2>1, TypedNext DEF AccessFails, list
<1> QED BY <1>1, <1>2, <1>3, <1>4, <1>5, <1>6, <1>7, <1>8 DEF Access

\* A step keeps the types.
LEMMA TypedStep ==
  ASSUME Typed, Linked, Passed, FilesThere, [Next]_vars
  PROVE  Typed'
<1>1. CASE UNCHANGED vars
  BY <1>1 DEF vars, list, Typed, TypeOK, Data, Running, Ranges, Addr
<1> QED BY <1>1, TypedFree, TypedLoad, TypedAccess DEF Next
-----------------------------------------------------------------------------
(* The list in numbers.                                                    *)

\* What leaves the list alone.
LEMMA LinkedStill ==
  ASSUME Linked, heap' = heap, xx_link' = xx_link, pc # "clear", pc' \notin {"clear", "delete"},
         xx_link = Null => pc' = "idle"
  PROVE  Linked'
  BY DEF Linked

LEMMA LinkedInsert ==
  ASSUME Typed, Linked, pc \in {"load"} \cup Running, NEW d \in Ranges, NEW new \in 1..MaxNode,
         Malloc(heap, new), heap' = xx_list_insert(heap, xx_link, new, d),
         xx_link' = xx_link, pc' \in {"load"} \cup Running
  PROVE  Linked'
<1>1. \E n \in 2..MaxNode+2 : Chain(heap', 3, n)
  BY Inserted
<1>2. xx_link' = Header /\ xx_link' # Null /\ pc' \notin {"clear", "delete"}
  BY TypedIs DEF Basic, Running, Null, Header
<1> QED BY <1>1, <1>2 DEF Linked

\* A clear that starts.
LEMMA LinkedClear ==
  ASSUME NEW n \in 2..MaxNode+2, Chain(heap', 3, n), xx_link' = Header, ClearFrom(heap')
  PROVE  Linked'
<1>1. here' = 1 /\ node2' = heap'[here'].next /\ pc' = "clear"
  BY DEF ClearFrom, Header
<1>2. 3 \in 3..n+1 /\ 1 \in DOMAIN heap'
  BY ListAssumption DEF Chain
<1> QED BY <1>1, <1>2 DEF Linked, Header, Null

LEMMA LinkedInit == Init => Linked
  BY DEF Init, Linked, Null, Header

LEMMA LinkedStep ==
  ASSUME Typed, Linked, Passed, [Next]_vars
  PROVE  Linked'
<1> USE TypedIs
<1>1. CASE StartInit
  <2>1. xx_link' = Header /\ ClearFrom(heap') /\ pc = "idle"
    BY <1>1 DEF StartInit
  <2>2. \E n \in 2..MaxNode+2 : Chain(heap', 3, n)
    <3>1. CASE xx_link = Null
      <4>1. heap' = xx_list_init /\ 2 \in 2..MaxNode+2
        BY <1>1, <3>1, ListAssumption DEF StartInit
      <4> QED BY <4>1, InitChain
    <3>2. CASE xx_link = Header
      BY <1>1, <2>1, <3>2 DEF StartInit, Linked, Header, Null
    <3> QED BY <3>1, <3>2 DEF Basic
  <2> QED BY <2>1, <2>2, LinkedClear
<1>2. CASE StartFree
  <2>1. xx_link' = Header /\ ClearFrom(heap') /\ heap' = heap /\ pc = "ready" /\ xx_link = Header
    BY <1>2 DEF StartFree, Basic, Running, ClearFrom
  <2>2. \E n \in 2..MaxNode+2 : Chain(heap', 3, n)
    BY <2>1 DEF Linked
  <2> QED BY <2>1, <2>2, LinkedClear
<1>3. CASE Clear
  <2>1. /\ \E n \in 2..MaxNode+2 : \E k \in 3..n+1 :
             Chain(heap', k, n) /\ here' \in {1, 2, k} /\ here' \in DOMAIN heap'
        /\ node2' = heap'[here'].next
    BY <1>3, Shrinks DEF Clear
  <2>2. pc' = "clear" /\ xx_link' = Header
    BY <1>3 DEF Clear, Linked
  <2> QED BY <2>1, <2>2 DEF Linked, Header, Null
<1>4. CASE ClearEnds
  <2>1. Data(heap) = {} /\ Chain(heap, 3, 2) /\ heap' = heap /\ xx_link' = Header /\ pc' = "delete"
    BY <1>4, ClearedAll DEF ClearEnds, list, Linked
  <2>2. 2 \in 2..MaxNode+2
    BY ListAssumption
  <2> QED BY <2>1, <2>2 DEF Linked, Header, Null
<1>5. CASE Delete \/ DeleteFails
  <2>1. pc = "delete" /\ pc' \in {"idle", "load"} /\ heap' = heap /\ xx_link' = xx_link
    BY <1>5 DEF Delete, DeleteFails, list
  <2>2. xx_link # Null
    BY <2>1 DEF Linked
  <2> QED BY <2>1, <2>2, LinkedStill
<1>6. CASE LoadFile
  <2>1. pc = "load" /\ pc' = "load" /\ xx_link' = xx_link
    BY <1>6 DEF LoadFile
  <2> QED BY <1>6, <2>1, LinkedInsert DEF LoadFile
<1>7. CASE Gen
  <2>1. pc \in Running /\ pc' \in Running /\ xx_link' = xx_link
    BY <1>7 DEF Gen, Running
  <2> QED BY <1>7, <2>1, LinkedInsert DEF Gen
<1>8. CASE LoadSkip \/ LoadNotRead \/ LoadNotWritten \/ LoadEnds
  <2>1. /\ pc = "load" /\ pc' \in {"load", "ready", "idle"} /\ heap' = heap /\ xx_link' = xx_link
        /\ xx_link # Null
    BY <1>8 DEF LoadSkip, LoadNotRead, LoadNotWritten, LoadEnds, list, Linked
  <2> QED BY <2>1, LinkedStill
<1>9. CASE Ask \/ Search \/ GenFails \/ Read \/ Write \/ AccessFails
  <2>1. /\ pc \in Running /\ pc' \in Running /\ heap' = heap /\ xx_link' = xx_link
    BY <1>9 DEF Ask, Search, GenFails, Read, Write, AccessFails, list, Running, Answer
  <2>2. pc \notin {"clear", "idle"} /\ pc' \notin {"clear", "delete"}
    BY <2>1 DEF Running
  <2>3. xx_link # Null
    BY <2>2 DEF Linked
  <2> QED BY <2>1, <2>2, <2>3, LinkedStill
<1>10. CASE Resume
  BY <1>10, LinkedStill DEF Resume, list
<1>11. CASE UNCHANGED vars
  BY <1>11 DEF vars, list, Linked
<1> QED
  BY <1>1, <1>2, <1>3, <1>4, <1>5, <1>6, <1>7, <1>8, <1>9, <1>10, <1>11
  DEF Next, Free, Load, Access

-----------------------------------------------------------------------------
(* The traversal.                                                          *)

\* The nodes of a list in numbers, and the next of each.
LEMMA Nodes ==
  ASSUME NEW h, NEW n, Chain(h, 3, n)
  PROVE  /\ Header \in DOMAIN h /\ Data(h) = 3..n /\ n \in Nat /\ n >= 2
         /\ \A x \in DOMAIN h : x \in Nat /\ x > 0 /\ (h[x].flag = 1 <=> x >= 3) /\ (x \in Data(h) <=> x >= 3)
         /\ \A x \in DOMAIN h : h[x].next = IF x = n THEN 1 ELSE x + 1
<1>1. n \in Nat /\ 2 <= n /\ DOMAIN h = (1..2) \cup (3..n)
  BY DEF Chain
<1>2. \A x \in DOMAIN h : h[x].flag = IF x <= 2 THEN 0 ELSE 1
  BY DEF Chain
<1>3. \A x \in DOMAIN h : h[x].next = IF x = n THEN 1 ELSE x + 1
  BY <1>1 DEF Chain
<1>4. Data(h) = 3..n
  BY <1>1, <1>2 DEF Data
<1> QED BY <1>1, <1>2, <1>3, <1>4 DEF Header

LEMMA PassedInit == Init => Passed
  BY DEF Init, Passed

LEMMA PassedSearch ==
  ASSUME Typed, Linked, Passed, Search
  PROVE  Passed'
<1>1. pc = "search" /\ here' = heap[here].next /\ UNCHANGED <<heap, op, xx_node_start>>
  BY DEF Search
<1>2. here \in DOMAIN heap /\ xx_node_start = Header /\ xx_link = Header
      /\ \A x \in Data(heap) : x <= here => ~Holds(heap[x].pdata, op.addr)
  BY <1>1, TypedIs DEF Passed, Basic, Running
<1>3. PICK n \in 2..MaxNode+2 : Chain(heap, 3, n)
  BY <1>1, <1>2 DEF Linked
<1>4. /\ Header \in DOMAIN heap /\ Data(heap) = 3..n /\ n \in Nat /\ n >= 2
      /\ \A x \in DOMAIN heap :
           x \in Nat /\ x > 0 /\ (heap[x].flag = 1 <=> x >= 3) /\ (x \in Data(heap) <=> x >= 3)
      /\ \A x \in DOMAIN heap : heap[x].next = IF x = n THEN 1 ELSE x + 1
  BY <1>3, Nodes
<1>5. here' \in DOMAIN heap
  BY <1>1, <1>2, NextThere
<1>6. here' = IF here = n THEN 1 ELSE here + 1
  BY <1>1, <1>2, <1>4
<1>7. CASE heap[here'].flag = 1 /\ Holds(heap[here'].pdata, op.addr)
  <2>1. pc' = "access"
    BY <1>1, <1>7 DEF Search
  <2>2. here' \in Data(heap) /\ here' = here + 1
    BY <1>2, <1>4, <1>5, <1>6, <1>7
  <2>3. ASSUME NEW y \in Data(heap), Holds(heap[y].pdata, op.addr) PROVE here' <= y
    BY <1>2, <1>4, <2>2, <2>3
  <2>4. (here \in First(op.addr))'
    BY <1>1, <1>7, <2>2, <2>3 DEF First
  <2> QED BY <1>1, <1>5, <2>1, <2>4 DEF Passed
<1>8. CASE heap[here'].flag = 1 /\ ~Holds(heap[here'].pdata, op.addr)
  <2>1. pc' = "search"
    BY <1>1, <1>8 DEF Search
  <2>2. here' = here + 1 /\ here' \in Data(heap)
    BY <1>2, <1>4, <1>5, <1>6, <1>8
  <2>3. ASSUME NEW x \in Data(heap), x <= here' PROVE ~Holds(heap[x].pdata, op.addr)
    BY <1>2, <1>4, <1>8, <2>2, <2>3
  <2> QED BY <1>1, <1>2, <1>5, <2>1, <2>3 DEF Passed
<1>9. CASE heap[here'].flag # 1 /\ here' = xx_node_start
  <2>1. pc' = "gen"
    BY <1>1, <1>9 DEF Search
  <2>2. here = n
    BY <1>2, <1>4, <1>6, <1>9 DEF Header
  <2>3. \A x \in Data(heap) : ~Holds(heap[x].pdata, op.addr)
    BY <1>2, <1>4, <2>2
  <2> QED BY <1>1, <2>1, <2>3 DEF Passed
<1>10. CASE heap[here'].flag # 1 /\ here' # xx_node_start
  <2>1. pc' = "search"
    BY <1>1, <1>10 DEF Search
  <2>2. here' <= 2
    BY <1>4, <1>5, <1>10
  <2>3. \A x \in Data(heap) : ~(x <= here')
    BY <1>4, <1>5, <2>2
  <2> QED BY <1>1, <1>2, <1>5, <2>1, <2>3 DEF Passed
<1> QED BY <1>7, <1>8, <1>9, <1>10

LEMMA PassedGen ==
  ASSUME Typed, Linked, Passed, Gen
  PROVE  Passed'
<1>1. pc = "gen" /\ pc' = "access" /\ op' = op /\ op.addr \in Nat /\ pc \in Running /\ image \in Images
  BY TypedIs, Asks DEF Gen, Running, Basic
<1>2. PICK d \in Ranges, new \in 1..MaxNode :
        /\ Query(op.addr, d) /\ here' = new
        /\ Malloc(heap, new) /\ heap' = xx_list_insert(heap, xx_link, new, d)
  BY DEF Gen
<1>3. /\ Data(heap') = Data(heap) \cup {new} /\ new \notin Data(heap)
      /\ \A x \in Data(heap) : x \in Nat /\ x < new /\ heap'[x].pdata = heap[x].pdata
      /\ heap'[new].pdata = d /\ new \in DOMAIN heap'
  BY <1>1, <1>2, Inserted
<1>4. Holds(d, op.addr)
  BY <1>1, <1>2, QueryHolds
<1>5. \A x \in Data(heap) : ~Holds(heap'[x].pdata, op.addr)
  BY <1>1, <1>3 DEF Passed
<1>6. new \in Data(heap') /\ Holds(heap'[new].pdata, op.addr)
      /\ \A y \in Data(heap') : Holds(heap'[y].pdata, op.addr) => new <= y
  BY <1>3, <1>4, <1>5
<1>7. (here \in First(op.addr))'
  BY <1>1, <1>2, <1>6 DEF First
<1> QED BY <1>1, <1>2, <1>3, <1>7 DEF Passed

LEMMA PassedStep ==
  ASSUME Typed, Linked, Passed, [Next]_vars
  PROVE  Passed'
<1>1. CASE Search
  BY <1>1, PassedSearch
<1>2. CASE Gen
  BY <1>2, PassedGen
<1>3. CASE Ask
  <2>1. pc' = "search" /\ here' = xx_link /\ xx_node_start' = xx_link /\ heap' = heap
        /\ xx_link = Header /\ pc = "ready"
    BY <1>3, TypedIs DEF Ask, Basic, Running
  <2>2. PICK n \in 2..MaxNode+2 : Chain(heap, 3, n)
    BY <2>1 DEF Linked
  <2>3. Header \in DOMAIN heap /\ Data(heap) = 3..n
    BY <2>2, Nodes
  <2>4. \A x \in Data(heap) : ~(x <= Header)
    BY <2>3 DEF Header
  <2> QED BY <2>1, <2>3, <2>4 DEF Passed
<1>4. CASE UNCHANGED vars
  BY <1>4 DEF vars, list, Passed, First
<1>5. CASE Resume \/ StartInit \/ StartFree \/ Free \/ Load \/ GenFails \/ Read \/ Write \/ AccessFails
  <2>1. pc' \notin {"search", "gen", "access"}
    BY <1>5 DEF Resume, StartInit, StartFree, Free, Clear, ClearEnds, Delete, DeleteFails, ClearFrom,
                Load, LoadFile, LoadSkip, LoadNotRead, LoadNotWritten, LoadEnds,
                GenFails, Read, Write, AccessFails, Answer
  <2> QED BY <2>1 DEF Passed
<1> QED BY <1>1, <1>2, <1>3, <1>4, <1>5 DEF Next, Access
-----------------------------------------------------------------------------
(* The files of the list.                                                  *)

\* Nothing is added to the list, and no file is lost.
LEMMA ThereStill ==
  ASSUME FilesThere, Data(heap') \subseteq Data(heap),
         \A x \in Data(heap') : heap'[x].pdata = heap[x].pdata,
         DOMAIN dir \subseteq DOMAIN dir'
  PROVE  FilesThere'
  BY DEF FilesThere, Listed

LEMMA ThereInsert ==
  ASSUME Typed, Linked, FilesThere, pc \in {"load"} \cup Running, NEW d \in Ranges,
         NEW new \in 1..MaxNode, xx_cover_file(d),
         Malloc(heap, new), heap' = xx_list_insert(heap, xx_link, new, d)
  PROVE  FilesThere'
<1>1. /\ Data(heap') = Data(heap) \cup {new} /\ heap'[new].pdata = d
      /\ \A x \in Data(heap) : heap'[x].pdata = heap[x].pdata
  BY Inserted
<1>2. DOMAIN dir' = DOMAIN dir \cup {d}
  BY TypedIs, CoverIs DEF Basic
<1> QED BY <1>1, <1>2 DEF FilesThere, Listed

LEMMA ThereInit == Init => FilesThere
  BY DEF Init, FilesThere, Listed, Data, NoHeap

\* What a write does to the directory.
LEMMA WriteIs ==
  ASSUME Typed, Passed, FilesThere, Write
  PROVE  /\ DirOK(dir') /\ DOMAIN dir' = DOMAIN dir
         /\ \A g \in DOMAIN dir : g # File => dir'[g] = dir[g]
         /\ DOMAIN dir'[File] = DOMAIN dir[File]
         /\ \A k \in DOMAIN dir[File] :
              dir'[File][k] = IF k - Offset \in DOMAIN op.data THEN op.data[k - Offset] ELSE dir[File][k]
<1>1. pc = "access" /\ Offset \in Int /\ File \in DOMAIN dir /\ op \in Accesses /\ DirOK(dir)
  BY FileThere, TypedIs DEF Write
<1>2. dir' = [dir EXCEPT ![File] =
                [k \in DOMAIN @ |-> IF k - Offset \in DOMAIN op.data THEN op.data[k - Offset] ELSE @[k]]]
  BY DEF Write
<1> QED BY <1>1, <1>2, Written

\* Failing to copy on demand leaves every file but the one it is about.
LEMMA GenFailsIs ==
  ASSUME Typed, GenFails
  PROVE  \/ UNCHANGED <<dir, faults>>
         \/ UNCHANGED dir /\ faults' # 0
         \/ \E d \in Ranges : Query(op.addr, d) /\ CoverFails(d) /\ d.start < d.end
                              /\ image.region[d.start].commit
<1>1. op.addr \in Nat
  BY TypedIs, Asks DEF GenFails, Basic
<1>2. ASSUME NEW d \in Ranges, Query(op.addr, d), CoverFails(d), image.region[d.start].commit
      PROVE  \E e \in Ranges : Query(op.addr, e) /\ CoverFails(e) /\ e.start < e.end
                               /\ image.region[e.start].commit
  BY <1>1, <1>2, QueryIs
<1>3. Fault => faults' # 0
  BY TypedIs, Faults DEF Basic
<1> QED BY <1>2, <1>3 DEF GenFails

LEMMA ThereStep ==
  ASSUME Typed, Linked, Passed, FilesThere, [Next]_vars
  PROVE  FilesThere'
<1>1. CASE StartInit
  <2>1. heap' = xx_list_init \/ heap' = heap
    BY <1>1 DEF StartInit
  <2>2. Data(heap') = {} \/ heap' = heap
    BY <2>1, InitChain
  <2> QED BY <1>1, <2>2, ThereStill DEF StartInit
<1>2. CASE Clear
  <2>1. Data(heap') \subseteq Data(heap) /\ \A x \in Data(heap') : heap'[x].pdata = heap[x].pdata
    BY <1>2, Shrinks DEF Clear
  <2> QED BY <1>2, <2>1, ThereStill DEF Clear
<1>3. CASE Delete \/ DeleteFails
  <2>1. pc = "delete" /\ heap' = heap
    BY <1>3 DEF Delete, DeleteFails, list
  <2>2. Data(heap') = {}
    BY <2>1 DEF Linked
  <2> QED BY <2>2 DEF FilesThere, Listed
<1>4. CASE LoadFile
  BY <1>4, ThereInsert DEF LoadFile
<1>5. CASE Gen
  <2>1. pc \in Running
    BY <1>5 DEF Gen, Running
  <2> QED BY <1>5, <2>1, ThereInsert DEF Gen
<1>6. CASE LoadNotWritten
  <2>1. PICK d \in Ranges : Query(addr, d) /\ CoverFails(d)
    BY <1>6 DEF LoadNotWritten
  <2>2. addr \in Nat
    BY TypedIs, MemoryAssumption DEF Basic
  <2>3. d.start < d.end
    BY <2>1, <2>2, QueryIs
  <2>4. DOMAIN dir \subseteq DOMAIN dir'
    BY <2>1, <2>3, TypedIs, CoverFailsIs DEF Basic
  <2> QED BY <1>6, <2>4, ThereStill DEF LoadNotWritten, list
<1>7. CASE GenFails
  <2>1. DOMAIN dir \subseteq DOMAIN dir'
    BY <1>7, GenFailsIs, TypedIs, CoverFailsIs DEF Basic
  <2> QED BY <1>7, <2>1, ThereStill DEF GenFails, list
<1>8. CASE Write
  BY <1>8, WriteIs, ThereStill DEF Write, list
<1>9. CASE \/ UNCHANGED vars \/ Resume \/ StartFree \/ ClearEnds \/ LoadSkip \/ LoadNotRead \/ LoadEnds
           \/ Ask \/ Search \/ Read \/ AccessFails
  <2>1. heap' = heap /\ dir' = dir
    BY <1>9 DEF vars, list, Resume, StartFree, ClearEnds, LoadSkip, LoadNotRead, LoadEnds,
                Ask, Search, Read, AccessFails
  <2> QED BY <2>1, ThereStill
<1> QED
  BY <1>1, <1>2, <1>3, <1>4, <1>5, <1>6, <1>7, <1>8, <1>9 DEF Next, Free, Load, Access
-----------------------------------------------------------------------------
(* What the files hold.                                                    *)

\* The region of a file is a matter of the process.
Regions == \A x \in Data(heap) : IsRegion(heap[x].pdata)
Wholes  == \A x \in Data(heap) : Whole(heap[x].pdata)
LEMMA RegionsStill ==
  ASSUME image' = image
  PROVE  /\ Regions' <=> \A x \in Data(heap') : IsRegion(heap'[x].pdata)
         /\ Wholes' <=> \A x \in Data(heap') : Whole(heap'[x].pdata)
<1>1. Regions' <=> \A x \in Data(heap') : IsRegion(heap'[x].pdata)
  BY DEF IsRegion, RunsTo, Regions
<1>2. Wholes' <=> \A x \in Data(heap') : Whole(heap'[x].pdata)
  BY DEF Whole, Wholes
<1> QED BY <1>1, <1>2

\* In an analysis that goes on with the list as it is.
LEMMA CopiedStill ==
  ASSUME Copied, pc \in {"load"} \cup Running, image' = image, heap' = heap,
         pc' = "load" => pc = "load" /\ dir' = dir
  PROVE  Copied'
<1>1. \A x \in Data(heap) : IsRegion(heap[x].pdata)
  BY DEF Copied, Regions, Wholes
<1>2. Regions'
  BY <1>1, RegionsStill
<1>3. CASE pc' = "load"
  <2>1. /\ \A x \in Data(heap) : Whole(heap[x].pdata)
        /\ \A f \in DOMAIN dir : \A k \in DOMAIN dir[f] : dir[f][k] = image.bytes[f.start + k]
    BY <1>3 DEF Copied, Regions, Wholes
  <2>2. Wholes'
    BY <2>1, RegionsStill
  <2> QED BY <1>2, <1>3, <2>1, <2>2 DEF Copied, Regions, Wholes
<1> QED BY <1>2, <1>3 DEF Copied, Regions, Wholes

LEMMA CopiedLoad ==
  ASSUME Typed, Linked, Copied, LoadFile
  PROVE  Copied'
<1>1. pc = "load" /\ pc' = "load" /\ image' = image /\ addr \in Nat /\ image \in Images
  BY TypedIs, MemoryAssumption DEF LoadFile, Basic
<1>2. PICK d \in Ranges, new \in 1..MaxNode :
        /\ Query(addr, d) /\ Whole(d) /\ xx_cover_file(d)
        /\ Malloc(heap, new) /\ heap' = xx_list_insert(heap, xx_link, new, d)
  BY DEF LoadFile
<1>3. IsRegion(d)
  BY <1>1, <1>2, QueryHolds DEF Whole
<1>4. /\ Data(heap') = Data(heap) \cup {new} /\ heap'[new].pdata = d
      /\ \A x \in Data(heap) : heap'[x].pdata = heap[x].pdata
  BY <1>1, <1>2, Inserted
<1>5. /\ \A x \in Data(heap) : IsRegion(heap[x].pdata) /\ Whole(heap[x].pdata)
      /\ \A f \in DOMAIN dir : \A k \in DOMAIN dir[f] : dir[f][k] = image.bytes[f.start + k]
  BY <1>1 DEF Copied, Regions, Wholes
<1>6. \A x \in Data(heap') : IsRegion(heap'[x].pdata) /\ Whole(heap'[x].pdata)
  BY <1>2, <1>3, <1>4, <1>5
<1>7. Regions' /\ Wholes'
  BY <1>1, <1>6, RegionsStill
<1>8. /\ \E n \in 0..(d.end - d.start) : dir'[d] = Copy(d, n)
      /\ DOMAIN dir' = DOMAIN dir \cup {d} /\ \A f \in DOMAIN dir : f # d => dir'[f] = dir[f]
  BY <1>1, <1>2, TypedIs, CoverIs DEF Basic
<1>9. \A k \in DOMAIN dir'[d] : dir'[d][k] = image.bytes[d.start + k]
  BY <1>8 DEF Copy
<1>10. \A f \in DOMAIN dir' : \A k \in DOMAIN dir'[f] : dir'[f][k] = image'.bytes[f.start + k]
  BY <1>1, <1>5, <1>8, <1>9
<1> QED BY <1>1, <1>7, <1>10 DEF Copied, Regions, Wholes

LEMMA CopiedNotWritten ==
  ASSUME Typed, Linked, Copied, LoadNotWritten
  PROVE  Copied'
<1>1. pc = "load" /\ pc' = "load" /\ image' = image /\ heap' = heap /\ addr \in Nat /\ image \in Images
  BY TypedIs, MemoryAssumption DEF LoadNotWritten, Basic, list
<1>2. PICK d \in Ranges : Query(addr, d) /\ CoverFails(d)
  BY DEF LoadNotWritten
<1>3. d.start < d.end
  BY <1>1, <1>2, QueryIs
<1>4. /\ DOMAIN dir' \subseteq DOMAIN dir \cup {d}
      /\ \A f \in DOMAIN dir : f # d => dir'[f] = dir[f]
      /\ dir' = dir \/ dir'[d] = Copy(d, 0)
  BY <1>2, <1>3, TypedIs, CoverFailsIs DEF Basic
<1>5. /\ \A x \in Data(heap) : IsRegion(heap[x].pdata) /\ Whole(heap[x].pdata)
      /\ \A f \in DOMAIN dir : \A k \in DOMAIN dir[f] : dir[f][k] = image.bytes[f.start + k]
  BY <1>1 DEF Copied, Regions, Wholes
<1>6. Regions' /\ Wholes'
  BY <1>1, <1>5, RegionsStill
<1>7. \A f \in DOMAIN dir' : \A k \in DOMAIN dir'[f] : dir'[f][k] = image.bytes[f.start + k]
  <2>1. CASE dir' = dir
    BY <1>5, <2>1
  <2>2. CASE dir'[d] = Copy(d, 0)
    <3>1. \A k \in DOMAIN dir'[d] : dir'[d][k] = image.bytes[d.start + k]
      BY <2>2 DEF Copy
    <3> QED BY <1>4, <1>5, <3>1
  <2> QED BY <1>4, <2>1, <2>2
<1> QED BY <1>1, <1>6, <1>7 DEF Copied, Regions, Wholes

LEMMA CopiedGen ==
  ASSUME Typed, Linked, Copied, Gen
  PROVE  Copied'
<1>1. /\ pc \in Running /\ pc' = "access" /\ image' = image /\ op.addr \in Nat /\ image \in Images
  BY TypedIs, Asks DEF Gen, Basic, Running
<1>2. PICK d \in Ranges, new \in 1..MaxNode :
        /\ Query(op.addr, d) /\ image.region[d.start].commit
        /\ Malloc(heap, new) /\ heap' = xx_list_insert(heap, xx_link, new, d)
  BY DEF Gen
<1>3. IsRegion(d)
  BY <1>1, <1>2, QueryHolds
<1>4. /\ Data(heap') = Data(heap) \cup {new} /\ heap'[new].pdata = d
      /\ \A x \in Data(heap) : heap'[x].pdata = heap[x].pdata
  BY <1>1, <1>2, Inserted
<1>5. \A x \in Data(heap) : IsRegion(heap[x].pdata)
  BY <1>1 DEF Copied, Regions, Wholes
<1>6. \A x \in Data(heap') : IsRegion(heap'[x].pdata)
  BY <1>2, <1>3, <1>4, <1>5
<1>7. Regions'
  BY <1>1, <1>6, RegionsStill
<1> QED BY <1>1, <1>7 DEF Copied, Regions, Wholes

LEMMA CopiedInit == Init => Copied
  BY DEF Init, Copied, Running

\* Whatever ends an analysis, or does not begin one.
LEMMA NotRunning ==
  ASSUME Resume \/ StartInit \/ StartFree \/ Clear \/ ClearEnds \/ DeleteFails
  PROVE  pc' \notin {"load"} \cup Running
<1>1. pc' \in {"idle", "clear", "delete"}
  BY DEF Resume, StartInit, StartFree, Clear, ClearEnds, DeleteFails, ClearFrom
<1> QED BY <1>1 DEF Running

\* What goes on with an analysis and adds nothing to the list.
LEMMA GoesOn ==
  ASSUME \/ LoadSkip \/ LoadNotRead \/ LoadEnds
         \/ Ask \/ Search \/ GenFails \/ Read \/ Write \/ AccessFails
  PROVE  /\ pc \in {"load"} \cup Running /\ image' = image /\ heap' = heap
         /\ pc' = "load" => pc = "load" /\ dir' = dir /\ (LoadSkip \/ LoadNotRead)
  BY DEF LoadSkip, LoadNotRead, LoadEnds, Ask, Search, GenFails, Read, Write, AccessFails,
         list, Running, Answer

LEMMA CopiedStep ==
  ASSUME Typed, Linked, Copied, [Next]_vars
  PROVE  Copied'
<1>1. CASE Resume \/ StartInit \/ StartFree \/ Clear \/ ClearEnds \/ DeleteFails
  BY <1>1, NotRunning DEF Copied, Regions, Wholes
<1>2. CASE Delete
  <2>1. Data(heap') = {} /\ DOMAIN dir' = {}
    BY <1>2 DEF Delete, list, Linked
  <2> QED BY <2>1 DEF Copied, Regions, Wholes
<1>3. CASE \/ LoadSkip \/ LoadNotRead \/ LoadEnds
           \/ Ask \/ Search \/ GenFails \/ Read \/ Write \/ AccessFails
  BY <1>3, GoesOn, CopiedStill
<1>4. CASE UNCHANGED vars
  <2>1. UNCHANGED <<image, heap, pc, dir>>
    BY <1>4 DEF vars, list
  <2>2. CASE pc \in {"load"} \cup Running
    BY <2>1, <2>2, CopiedStill
  <2>3. CASE pc \notin {"load"} \cup Running
    BY <2>1, <2>3 DEF Copied, Running
  <2> QED BY <2>2, <2>3
<1> QED
  BY <1>1, <1>2, <1>3, <1>4, CopiedLoad, CopiedNotWritten, CopiedGen DEF Next, Free, Load, Access
-----------------------------------------------------------------------------
(* How copies overlap.                                                     *)

LEMMA ApartNext ==
  ASSUME image' = image
  PROVE  Apart' <=> (pc' \in {"load"} \cup Running =>
           /\ Pairs(heap', faults')
           /\ faults' = 0 => (pc' = "load" => Below(heap', addr')) /\ Complete(heap', addr'))
<1>1. Pairs(heap, faults)' <=> Pairs(heap', faults')
  BY DEF Pairs, Whole
<1>2. Complete(heap, addr)' <=> Complete(heap', addr')
  BY DEF Complete
<1>3. Below(heap, addr)' <=> Below(heap', addr')
  BY DEF Below
<1> QED BY <1>1, <1>2, <1>3 DEF Apart, Running

\* An address in a region that is the start of its allocation starts the
\* region, if the region is described from no later than the address.
LEMMA StartsThere ==
  ASSUME image \in Images, NEW a \in Nat, NEW d \in Ranges, Query(a, d),
         NEW b \in Addr, a <= b, b < d.end, image.region[b].commit, image.region[b].base = b
  PROVE  b = d.start /\ Whole(d)
<1>1. a \in Addr /\ Holds(d, a) /\ \A c \in Addr : Holds(d, c) => image.region[c] = image.region[d.start]
  BY QueryHolds
<1>2. b \in Nat /\ d.start \in Addr /\ d.start \in Nat /\ d.start <= a
  BY <1>1, RangeIs, Addresses DEF Holds
<1>3. Holds(d, b)
  BY <1>2 DEF Holds
<1>4. image.region[b] = image.region[d.start]
  BY <1>1, <1>3
<1>5. image.region[d.start].base \in 0..d.start
  BY <1>2, Image
<1>6. b <= d.start
  BY <1>2, <1>4, <1>5
<1> QED BY <1>2, <1>4, <1>6 DEF Whole

\* The loading has dealt with the region it goes beyond.
LEMMA CompleteMore ==
  ASSUME image \in Images, addr \in Nat, NEW d \in Ranges, Query(addr, d), Complete(heap, addr),
         NEW h, \A a \in Addr : (\E x \in Data(heap) : heap[x].pdata.start = a)
                                  => \E x \in Data(h) : h[x].pdata.start = a,
         Whole(d) => \E x \in Data(h) : h[x].pdata.start = d.start
  PROVE  Complete(h, d.end)
<1> SUFFICES ASSUME NEW a \in Addr, a < d.end, image.region[a].commit, image.region[a].base = a
             PROVE  \E x \in Data(h) : h[x].pdata.start = a
  BY DEF Complete
<1>1. a \in Nat
  BY Addresses
<1>2. CASE a < addr
  BY <1>2 DEF Complete
<1>3. CASE addr <= a
  BY <1>3, StartsThere
<1> QED BY <1>1, <1>2, <1>3

\* In an analysis that goes on with the list as it is.
LEMMA ApartStill ==
  ASSUME Apart, pc \in {"load"} \cup Running, image' = image, heap' = heap,
         faults' = 0 => /\ faults = 0 /\ addr' = addr
                        /\ pc' = "load" => pc = "load"
  PROVE  Apart'
<1>1. Pairs(heap', faults')
  BY DEF Apart, Pairs
<1>2. faults' = 0 => (pc' = "load" => Below(heap', addr')) /\ Complete(heap', addr')
  BY DEF Apart, Below, Complete
<1> QED BY <1>1, <1>2, ApartNext

LEMMA ApartSkip ==
  ASSUME Typed, Apart, LoadSkip
  PROVE  Apart'
<1>1. pc = "load" /\ pc' = "load" /\ UNCHANGED <<image, heap, faults>> /\ addr \in Nat /\ image \in Images
  BY TypedIs, MemoryAssumption DEF LoadSkip, Basic, list
<1>2. PICK d \in Ranges : Query(addr, d) /\ ~Whole(d) /\ addr' = d.end
  BY DEF LoadSkip
<1>3. addr < addr' /\ addr' \in Nat
  BY <1>1, <1>2, QueryHolds, RangeIs DEF Holds
<1>4. Pairs(heap', faults')
  BY <1>1 DEF Apart
<1>5. ASSUME faults' = 0 PROVE Below(heap', addr') /\ Complete(heap', addr')
  <2>1. Below(heap, addr) /\ Complete(heap, addr)
    BY <1>1, <1>5 DEF Apart
  <2>2. \A x \in Data(heap) : heap[x].pdata.end \in Nat
    BY TypedIs, RangeIs DEF HeapOK
  <2>3. Below(heap, addr')
    BY <1>1, <1>3, <2>1, <2>2 DEF Below
  <2>4. Complete(heap, addr')
    BY <1>1, <1>2, <2>1, CompleteMore
  <2> QED BY <1>1, <2>3, <2>4
<1> QED BY <1>1, <1>4, <1>5, ApartNext

\* An insertion keeps the pairs if the new copy is where it should be.
LEMMA PairsInsert ==
  ASSUME Typed, Linked, Apart, pc \in {"load"} \cup Running, NEW d \in Ranges,
         NEW new \in 1..MaxNode, Malloc(heap, new), heap' = xx_list_insert(heap, xx_link, new, d),
         faults' = 0 => faults = 0,
         \A x \in Data(heap) : Share(heap[x].pdata, d) =>
           /\ heap[x].pdata.end = d.end /\ d.start <= heap[x].pdata.start
           /\ faults = 0 => d.start < heap[x].pdata.start /\ ~Whole(d)
  PROVE  Pairs(heap', faults')
<1>1. /\ Data(heap') = Data(heap) \cup {new} /\ new \notin Data(heap) /\ heap'[new].pdata = d
      /\ \A x \in Data(heap) : x \in Nat /\ x < new /\ heap'[x].pdata = heap[x].pdata
  BY Inserted
<1>2. Pairs(heap, faults)
  BY DEF Apart
<1> SUFFICES ASSUME NEW x \in Data(heap'), NEW y \in Data(heap'), x < y,
                    Share(heap'[x].pdata, heap'[y].pdata)
             PROVE  /\ heap'[x].pdata.end = heap'[y].pdata.end
                    /\ heap'[y].pdata.start <= heap'[x].pdata.start
                    /\ faults' = 0 => /\ heap'[y].pdata.start < heap'[x].pdata.start
                                      /\ ~Whole(heap'[y].pdata)
  BY DEF Pairs
<1>3. CASE x \in Data(heap) /\ y \in Data(heap)
  BY <1>1, <1>2, <1>3 DEF Pairs
<1>4. CASE x \in Data(heap) /\ y = new
  BY <1>1, <1>4
<1>5. CASE x = new
  <2>1. new \in Nat /\ ~(new < new) /\ \A z \in Data(heap) : ~(new < z)
    BY <1>1, ListAssumption
  <2>2. ~(new < y)
    BY <1>1, <2>1, Zenon
  <2> QED BY <1>5, <2>2, Zenon
<1> QED BY <1>1, <1>3, <1>4, <1>5

LEMMA ApartLoad ==
  ASSUME Typed, Linked, Copied, Apart, LoadFile
  PROVE  Apart'
<1>1. pc = "load" /\ pc' = "load" /\ image' = image /\ addr \in Nat /\ image \in Images
  BY TypedIs, MemoryAssumption DEF LoadFile, Basic
<1>2. PICK d \in Ranges, new \in 1..MaxNode :
        /\ Query(addr, d) /\ Whole(d) /\ xx_cover_file(d) /\ addr' = d.end
        /\ Malloc(heap, new) /\ heap' = xx_list_insert(heap, xx_link, new, d)
  BY DEF LoadFile
<1>3. IsRegion(d) /\ Holds(d, addr)
  BY <1>1, <1>2, QueryHolds DEF Whole
<1>4. faults' = 0 => faults = 0
  BY <1>1, <1>2, TypedIs, CoverIs DEF Basic
<1>5. addr < d.end /\ d.end \in Nat
  BY <1>3, RangeIs DEF Holds
<1>6. \A x \in Data(heap) : heap[x].pdata \in Ranges /\ IsRegion(heap[x].pdata) /\ Whole(heap[x].pdata)
  BY <1>1, TypedIs DEF Copied, HeapOK
<1>7. faults = 0 => Below(heap, addr) /\ Complete(heap, addr)
  BY <1>1 DEF Apart
<1>8. ASSUME NEW x \in Data(heap), Share(heap[x].pdata, d)
      PROVE  /\ heap[x].pdata.end = d.end /\ d.start <= heap[x].pdata.start
             /\ faults = 0 => d.start < heap[x].pdata.start /\ ~Whole(d)
  <2>1. heap[x].pdata.end = d.end /\ image.region[heap[x].pdata.start] = image.region[d.start]
    BY <1>3, <1>6, <1>8, SameRun
  <2>2. heap[x].pdata.start = d.start /\ d.start \in Nat
    BY <1>2, <1>6, <2>1, RangeIs DEF Whole
  <2>3. ASSUME faults = 0 PROVE FALSE
    BY <1>1, <1>5, <1>7, <2>1, <2>3 DEF Below
  <2> QED BY <2>1, <2>2, <2>3
<1>9. Pairs(heap', faults')
  BY <1>1, <1>2, <1>4, <1>8, PairsInsert
<1>10. /\ Data(heap') = Data(heap) \cup {new} /\ heap'[new].pdata = d
       /\ \A x \in Data(heap) : heap'[x].pdata = heap[x].pdata
  BY <1>1, <1>2, Inserted
<1>11. ASSUME faults' = 0 PROVE Below(heap', addr') /\ Complete(heap', addr')
  <2>1. Below(heap', addr')
    <3>1. \A x \in Data(heap) : heap[x].pdata.end \in Nat /\ heap[x].pdata.end <= addr
      BY <1>4, <1>6, <1>7, <1>11, RangeIs DEF Below
    <3>2. \A x \in Data(heap) : heap[x].pdata.end <= d.end
      BY <1>1, <1>5, <3>1
    <3> QED BY <1>2, <1>5, <1>10, <3>2 DEF Below
  <2>2. Complete(heap', addr')
    <3>1. \A a \in Addr : (\E x \in Data(heap) : heap[x].pdata.start = a)
                            => \E x \in Data(heap') : heap'[x].pdata.start = a
      BY <1>10
    <3>2. \E x \in Data(heap') : heap'[x].pdata.start = d.start
      BY <1>10
    <3>3. Complete(heap, addr)
      BY <1>4, <1>7, <1>11
    <3> QED BY <1>1, <1>2, <3>1, <3>2, <3>3, CompleteMore
  <2> QED BY <2>1, <2>2
<1> QED BY <1>1, <1>9, <1>11, ApartNext

LEMMA ApartGen ==
  ASSUME Typed, Linked, Passed, Copied, Apart, Gen
  PROVE  Apart'
<1>1. /\ pc = "gen" /\ pc \in Running /\ pc' = "access" /\ UNCHANGED <<image, addr>>
      /\ op.addr \in Nat /\ image \in Images /\ addr = Top
  BY TypedIs, Asks DEF Gen, Basic, Running
<1>2. PICK d \in Ranges, new \in 1..MaxNode :
        /\ Query(op.addr, d) /\ image.region[d.start].commit /\ xx_cover_file(d)
        /\ Malloc(heap, new) /\ heap' = xx_list_insert(heap, xx_link, new, d)
  BY DEF Gen
<1>3. IsRegion(d) /\ Holds(d, op.addr)
  BY <1>1, <1>2, QueryHolds
<1>4. faults' = 0 => faults = 0
  BY <1>1, <1>2, TypedIs, CoverIs DEF Basic
<1>5. d.start \in Addr /\ d.start \in Nat /\ d.end \in Nat /\ d.start <= op.addr /\ op.addr < d.end
      /\ d.start < Top
  BY <1>3, RangeIs DEF Holds
<1>6. \A x \in Data(heap) : /\ heap[x].pdata \in Ranges /\ IsRegion(heap[x].pdata)
                            /\ ~Holds(heap[x].pdata, op.addr)
  BY <1>1, TypedIs DEF Copied, HeapOK, Passed
<1>7. faults = 0 => Complete(heap, addr)
  BY <1>1 DEF Apart
<1>8. ASSUME NEW x \in Data(heap), Share(heap[x].pdata, d)
      PROVE  heap[x].pdata.end = d.end /\ d.start < heap[x].pdata.start
  <2>1. heap[x].pdata.end = d.end
    BY <1>3, <1>6, <1>8, SameRun
  <2>2. heap[x].pdata.start \in Nat /\ ~(heap[x].pdata.start <= op.addr)
    BY <1>1, <1>5, <1>6, <2>1, RangeIs DEF Holds
  <2> QED BY <1>1, <1>5, <2>1, <2>2
<1>9. ASSUME faults = 0, Whole(d) PROVE FALSE
  <2>1. PICK z \in Data(heap) : heap[z].pdata.start = d.start
    BY <1>1, <1>5, <1>7, <1>9 DEF Complete, Whole
  <2>2. heap[z].pdata \in Ranges /\ IsRegion(heap[z].pdata)
    BY <1>6
  <2>3. Holds(heap[z].pdata, d.start) /\ Holds(d, d.start)
    BY <1>3, <1>5, <2>1, <2>2 DEF IsRegion, Holds
  <2>4. heap[z].pdata.end = d.end
    BY <1>3, <1>5, <2>2, <2>3, SameRun DEF Share
  <2>5. Holds(heap[z].pdata, op.addr)
    BY <1>3, <2>1, <2>4 DEF Holds
  <2> QED BY <1>6, <2>5
<1>10. \A x \in Data(heap) : Share(heap[x].pdata, d) => d.start <= heap[x].pdata.start
  BY <1>5, <1>6, <1>8, RangeIs
<1>11. Pairs(heap', faults')
  BY <1>1, <1>2, <1>4, <1>8, <1>9, <1>10, PairsInsert
<1>12. /\ Data(heap') = Data(heap) \cup {new}
       /\ \A x \in Data(heap) : heap'[x].pdata = heap[x].pdata
  BY <1>1, <1>2, Inserted
<1>13. faults' = 0 => Complete(heap', addr')
  BY <1>1, <1>4, <1>7, <1>12 DEF Complete
<1> QED BY <1>1, <1>11, <1>13, ApartNext

LEMMA ApartInit == Init => Apart
  BY DEF Init, Apart, Running

LEMMA ApartStep ==
  ASSUME Typed, Linked, Passed, Copied, Apart, [Next]_vars
  PROVE  Apart'
<1>1. CASE Resume \/ StartInit \/ StartFree \/ Clear \/ ClearEnds \/ DeleteFails
  BY <1>1, NotRunning DEF Apart
<1>2. CASE Delete
  <2>1. Data(heap') = {} /\ image' = image /\ (pc' = "load" => addr' = 0) /\ pc' \in {"load", "idle"}
    BY <1>2 DEF Delete, list, Linked
  <2>2. \A a \in Addr : ~(a < 0)
    BY Addresses
  <2>3. CASE pc' = "load"
    <3>1. Pairs(heap', faults') /\ Below(heap', addr') /\ Complete(heap', addr')
      BY <2>1, <2>2, <2>3 DEF Pairs, Below, Complete
    <3> QED BY <2>1, <3>1, ApartNext
  <2>4. CASE pc' = "idle"
    BY <2>4 DEF Apart, Running
  <2> QED BY <2>1, <2>3, <2>4
<1>3. CASE LoadNotRead \/ LoadNotWritten
  <2>1. pc = "load" /\ UNCHANGED <<image, heap>> /\ faults' # 0
    BY <1>3, TypedIs, Faults DEF LoadNotRead, LoadNotWritten, CoverFails, list, Basic
  <2> QED BY <2>1, ApartStill
<1>4. CASE LoadEnds \/ Ask \/ Search \/ GenFails \/ Read \/ Write \/ AccessFails
  <2>1. pc \in {"load"} \cup Running /\ image' = image /\ heap' = heap
    BY <1>4, GoesOn
  <2>2. addr' = addr /\ pc' # "load"
    BY <1>4 DEF LoadEnds, Ask, Search, GenFails, Read, Write, AccessFails, Answer
  <2>3. faults' = 0 => faults = 0
    BY <1>4, GenFailsIs, TypedIs, Faults DEF LoadEnds, Ask, Search, GenFails, Read, Write, AccessFails,
                                             Basic, CoverFails
  <2> QED BY <2>1, <2>2, <2>3, ApartStill
<1>5. CASE UNCHANGED vars
  <2>1. UNCHANGED <<image, heap, pc, addr, faults>>
    BY <1>5 DEF vars, list
  <2>2. CASE pc \in {"load"} \cup Running
    BY <2>1, <2>2, ApartStill
  <2>3. CASE pc \notin {"load"} \cup Running
    BY <2>1, <2>3 DEF Apart, Running
  <2> QED BY <2>2, <2>3
<1> QED
  BY <1>1, <1>2, <1>3, <1>4, <1>5, ApartLoad, ApartGen, ApartSkip DEF Next, Free, Load, Access

-----------------------------------------------------------------------------
(* The invariant.                                                          *)

LEMMA IInvInit == Init => IInv
  BY TypedInit, LinkedInit, PassedInit, ThereInit, CopiedInit, ApartInit DEF IInv

LEMMA IInvStep == IInv /\ [Next]_vars => IInv'
  BY TypedStep, LinkedStep, PassedStep, ThereStep, CopiedStep, ApartStep DEF IInv

LEMMA Inductive == Spec => []IInv
  BY IInvInit, IInvStep, PTL DEF Spec

\* The type invariant (xx_execute.c, xx_link_list.c).
THEOREM Typing == Spec => []TypeOK
<1>1. IInv => TypeOK
  BY DEF IInv, Typed
<1> QED BY <1>1, Inductive, PTL

\* The list is one ring of allocated nodes, and the code stands on such nodes,
\* however an insertion, a clear or a traversal stands (xx_link_list.c).
THEOREM ListIsWhole == Spec => []ListWhole
<1>1. IInv => ListWhole
  BY LinkedIsWhole DEF IInv
<1> QED BY <1>1, Inductive, PTL

\* Every node of the list has its file, whatever failed (xx_gen_fmem,
\* free_mem_file).
THEOREM ListedFilesThere == Spec => []FilesThere
<1>1. IInv => FilesThere
  BY DEF IInv
<1> QED BY <1>1, Inductive, PTL

\* Copies of the same memory end where it ends, a later one begins no later;
\* without failures it begins before, and a whole region is copied once
\* (init_mem_file, xx_get_fmem).
THEOREM CopiesNested == Spec => []Nested
<1>1. IInv => Nested
  BY DEF IInv, Apart, Pairs, Share, Nested
<1> QED BY <1>1, Inductive, PTL

-----------------------------------------------------------------------------
(* The snapshot.                                                           *)

FirstIn(h, a) == {x \in Data(h) : /\ Holds(h[x].pdata, a)
                                  /\ \A y \in Data(h) : Holds(h[y].pdata, a) => x <= y}
ByteAt(i, h, f, a) ==
  IF \E x \in FirstIn(h, a) : a - h[x].pdata.start \in DOMAIN f[h[x].pdata]
  THEN LET x == CHOOSE x \in FirstIn(h, a) : TRUE IN f[h[x].pdata][a - h[x].pdata.start]
  ELSE i.bytes[a]

LEMMA MemIs ==
  ASSUME pc \in Running
  PROVE  mem = [a \in Addr |-> ByteAt(image, heap, dir, a)]
  BY DEF mem, First, FirstIn, ByteAt

LEMMA MemNext ==
  ASSUME pc' \in Running
  PROVE  mem' = [a \in Addr |-> ByteAt(image', heap', dir', a)]
  BY DEF mem, First, FirstIn, ByteAt, Running

LEMMA MemClosed ==
  ASSUME image \in Images, pc \notin Running
  PROVE  mem = image.bytes
<1>1. mem = [a \in Addr |-> image.bytes[a]]
  BY DEF mem
<1> QED BY <1>1, Image

LEMMA MemClosedNext ==
  ASSUME image' \in Images, pc' \notin Running
  PROVE  mem' = image'.bytes
<1>1. mem' = [a \in Addr |-> image'.bytes[a]]
  BY DEF mem, Running
<1>2. image'.bytes \in [Addr -> Byte]
  BY MemoryAssumption
<1> QED BY <1>1, <1>2

\* The byte of an address is in the first file that holds it.
LEMMA ByteFirst ==
  ASSUME NEW i, NEW h, NEW f, NEW a, HeapOK(h), NEW x \in FirstIn(h, a)
  PROVE  ByteAt(i, h, f, a) = IF a - h[x].pdata.start \in DOMAIN f[h[x].pdata]
                              THEN f[h[x].pdata][a - h[x].pdata.start] ELSE i.bytes[a]
<1>1. \A y \in Data(h) : y \in Nat
  BY ListAssumption DEF HeapOK, Data
<1>2. ASSUME NEW y \in FirstIn(h, a) PROVE y = x
  <2>1. x \in Nat /\ y \in Nat /\ x <= y /\ y <= x
    BY <1>1 DEF FirstIn
  <2> QED BY <2>1
<1>3. FirstIn(h, a) = {x}
  BY <1>2
<1>4. (CHOOSE y \in FirstIn(h, a) : TRUE) = x
  BY <1>3
<1> QED BY <1>3, <1>4 DEF ByteAt

LEMMA ByteNone ==
  ASSUME NEW i, NEW h, NEW f, NEW a, FirstIn(h, a) = {}
  PROVE  ByteAt(i, h, f, a) = i.bytes[a]
  BY DEF ByteAt

\* If files hold an address one of them is the first.
LEMMA FirstThere ==
  ASSUME NEW h, NEW a, HeapOK(h), NEW y \in Data(h), Holds(h[y].pdata, a)
  PROVE  FirstIn(h, a) # {}
<1> DEFINE T == {z \in Data(h) : Holds(h[z].pdata, a)}
<1>1. T \in SUBSET Nat /\ T # {}
  BY ListAssumption DEF HeapOK, Data
<1> HIDE DEF T
<1>2. PICK x \in T : \A z \in T : x <= z
  BY <1>1, Least
<1>3. x \in FirstIn(h, a)
  BY <1>2 DEF T, FirstIn
<1> QED BY <1>3

\* What the bytes depend on.
LEMMA ByteSame ==
  ASSUME NEW i, NEW h, NEW f, NEW g, NEW a, HeapOK(h),
         \A x \in FirstIn(h, a) : g[h[x].pdata] = f[h[x].pdata]
  PROVE  ByteAt(i, h, g, a) = ByteAt(i, h, f, a)
<1>1. CASE FirstIn(h, a) = {}
  BY <1>1, ByteNone
<1>2. CASE FirstIn(h, a) # {}
  <2>1. PICK x \in FirstIn(h, a) : TRUE
    BY <1>2
  <2>2. g[h[x].pdata] = f[h[x].pdata]
    BY <2>1
  <2>3. /\ ByteAt(i, h, g, a) = IF a - h[x].pdata.start \in DOMAIN g[h[x].pdata]
                                THEN g[h[x].pdata][a - h[x].pdata.start] ELSE i.bytes[a]
        /\ ByteAt(i, h, f, a) = IF a - h[x].pdata.start \in DOMAIN f[h[x].pdata]
                                THEN f[h[x].pdata][a - h[x].pdata.start] ELSE i.bytes[a]
    BY <2>1, ByteFirst
  <2> QED BY <2>2, <2>3
<1> QED BY <1>1, <1>2

\* The list and the process stay, and so do the files listed.
LEMMA MemStill ==
  ASSUME Typed, pc \in Running, pc' \in Running, image' = image, heap' = heap,
         \A x \in Data(heap) : dir'[heap[x].pdata] = dir[heap[x].pdata]
  PROVE  mem' = mem
<1>1. HeapOK(heap)
  BY TypedIs
<1>2. ASSUME NEW a \in Addr PROVE ByteAt(image', heap', dir', a) = ByteAt(image, heap, dir, a)
  <2>1. \A x \in FirstIn(heap, a) : dir'[heap[x].pdata] = dir[heap[x].pdata]
    BY DEF FirstIn
  <2> QED BY <1>1, <2>1, ByteSame
<1> QED BY <1>2, MemIs, MemNext

\* When the analysis starts the files are as the process is.
LEMMA MemOpens ==
  ASSUME IInv, LoadEnds, pc' = "ready"
  PROVE  mem' = mem
<1>1. /\ pc = "load" /\ pc \notin Running /\ pc' \in Running /\ UNCHANGED <<image, heap, dir>>
      /\ image \in Images /\ HeapOK(heap)
  BY TypedIs DEF LoadEnds, list, Running, Basic, IInv
<1>2. mem = image.bytes /\ image.bytes \in [Addr -> Byte]
  BY <1>1, MemClosed, Image
<1>3. ASSUME NEW a \in Addr PROVE ByteAt(image, heap, dir, a) = image.bytes[a]
  <2>1. CASE FirstIn(heap, a) = {}
    BY <2>1, ByteNone
  <2>2. CASE FirstIn(heap, a) # {}
    <3>1. PICK x \in FirstIn(heap, a) : TRUE
      BY <2>2
    <3> DEFINE f == heap[x].pdata
    <3>2. f \in Ranges /\ f \in DOMAIN dir
      BY <1>1, <3>1 DEF FirstIn, HeapOK, IInv, FilesThere, Listed
    <3>3. \A k \in DOMAIN dir[f] : dir[f][k] = image.bytes[f.start + k]
      BY <1>1, <3>2 DEF IInv, Copied
    <3>4. f.start + (a - f.start) = a
      BY <3>2, RangeIs, Addresses
    <3>5. ByteAt(image, heap, dir, a) = IF a - f.start \in DOMAIN dir[f] THEN dir[f][a - f.start]
                                        ELSE image.bytes[a]
      BY <1>1, <3>1, ByteFirst
    <3> QED BY <3>3, <3>4, <3>5
  <2> QED BY <2>1, <2>2
<1>4. mem' = [a \in Addr |-> image.bytes[a]]
  BY <1>1, <1>3, MemNext
<1> QED BY <1>2, <1>4

\* A copy made on demand is seen only where there was none, and there it is
\* as the process is.
LEMMA MemGen ==
  ASSUME IInv, Gen
  PROVE  mem' = mem
<1>1. /\ pc = "gen" /\ pc \in Running /\ pc' \in Running /\ image' = image
      /\ op.addr \in Nat /\ image \in Images /\ HeapOK(heap) /\ Typed /\ Linked
  BY TypedIs, Asks DEF Gen, Basic, Running, IInv
<1>2. PICK d \in Ranges, new \in 1..MaxNode :
        /\ Query(op.addr, d) /\ xx_cover_file(d)
        /\ Malloc(heap, new) /\ heap' = xx_list_insert(heap, xx_link, new, d)
  BY DEF Gen
<1>3. Holds(d, op.addr)
  BY <1>1, <1>2, QueryHolds
<1>4. \A x \in Data(heap) : heap[x].pdata # d /\ heap[x].pdata \in DOMAIN dir
  BY <1>1, <1>3 DEF IInv, Passed, FilesThere, Listed
<1>5. /\ Data(heap') = Data(heap) \cup {new} /\ new \notin Data(heap) /\ heap'[new].pdata = d
      /\ \A x \in Data(heap) : x \in Nat /\ x < new /\ heap'[x].pdata = heap[x].pdata
      /\ HeapOK(heap')
  BY <1>1, <1>2, Inserted
<1>6. /\ \E n \in 0..(d.end - d.start) : dir'[d] = Copy(d, n)
      /\ \A f \in DOMAIN dir : f # d => dir'[f] = dir[f]
  BY <1>1, <1>2, TypedIs, CoverIs DEF Basic
<1>7. ASSUME NEW a \in Addr PROVE ByteAt(image', heap', dir', a) = ByteAt(image, heap, dir, a)
  <2>1. CASE FirstIn(heap, a) # {}
    <3>1. PICK x \in FirstIn(heap, a) : TRUE
      BY <2>1
    <3>2. x \in Data(heap) /\ heap'[x].pdata = heap[x].pdata /\ dir'[heap[x].pdata] = dir[heap[x].pdata]
      BY <1>4, <1>5, <1>6, <3>1 DEF FirstIn
    <3>3. x \in FirstIn(heap', a)
      BY <1>5, <3>1, <3>2 DEF FirstIn
    <3>4. ByteAt(image', heap', dir', a) = IF a - heap'[x].pdata.start \in DOMAIN dir'[heap'[x].pdata]
            THEN dir'[heap'[x].pdata][a - heap'[x].pdata.start] ELSE image'.bytes[a]
      BY <1>5, <3>3, ByteFirst
    <3>5. ByteAt(image, heap, dir, a) = IF a - heap[x].pdata.start \in DOMAIN dir[heap[x].pdata]
            THEN dir[heap[x].pdata][a - heap[x].pdata.start] ELSE image.bytes[a]
      BY <1>1, <3>1, ByteFirst
    <3> QED BY <1>1, <3>2, <3>4, <3>5
  <2>2. CASE FirstIn(heap, a) = {}
    <3>1. ByteAt(image, heap, dir, a) = image.bytes[a]
      BY <2>2, ByteNone
    <3>2. \A x \in Data(heap) : ~Holds(heap[x].pdata, a)
      BY <1>1, <2>2, FirstThere
    <3>3. CASE Holds(d, a)
      <4>1. new \in FirstIn(heap', a)
        BY <1>5, <3>2, <3>3 DEF FirstIn
      <4>2. ByteAt(image', heap', dir', a) = IF a - d.start \in DOMAIN dir'[d]
              THEN dir'[d][a - d.start] ELSE image'.bytes[a]
        BY <1>5, <4>1, ByteFirst
      <4>3. d.start + (a - d.start) = a
        BY RangeIs, Addresses
      <4>4. a - d.start \in DOMAIN dir'[d] => dir'[d][a - d.start] = image.bytes[a]
        BY <1>6, <4>3 DEF Copy
      <4> QED BY <1>1, <3>1, <4>2, <4>4
    <3>4. CASE ~Holds(d, a)
      <4>1. FirstIn(heap', a) = {}
        BY <1>5, <3>2, <3>4 DEF FirstIn
      <4> QED BY <1>1, <3>1, <4>1, ByteNone
    <3> QED BY <3>3, <3>4
  <2> QED BY <2>1, <2>2
<1> QED BY <1>1, <1>7, MemIs, MemNext

\* A copy that fails empties at most a file that is not listed.
LEMMA MemGenFails ==
  ASSUME IInv, GenFails
  PROVE  mem' = mem
<1>1. /\ pc = "gen" /\ pc \in Running /\ pc' \in Running /\ UNCHANGED <<image, heap>>
      /\ op.addr \in Nat /\ image \in Images /\ Typed
  BY TypedIs, Asks DEF GenFails, Basic, Running, IInv, Answer, list
<1>2. CASE dir' = dir
  BY <1>1, <1>2, MemStill
<1>3. CASE \E d \in Ranges : Query(op.addr, d) /\ CoverFails(d) /\ d.start < d.end
  <2>1. PICK d \in Ranges : Query(op.addr, d) /\ CoverFails(d) /\ d.start < d.end
    BY <1>3
  <2>2. Holds(d, op.addr)
    BY <1>1, <2>1, QueryHolds
  <2>3. \A x \in Data(heap) : heap[x].pdata # d /\ heap[x].pdata \in DOMAIN dir
    BY <1>1, <2>2 DEF IInv, Passed, FilesThere, Listed
  <2>4. \A f \in DOMAIN dir : f # d => dir'[f] = dir[f]
    BY <1>1, <2>1, TypedIs, CoverFailsIs DEF Basic
  <2> QED BY <1>1, <2>3, <2>4, MemStill
<1> QED BY <1>1, <1>2, <1>3, GenFailsIs

-----------------------------------------------------------------------------
(* An access and the snapshot.                                             *)

\* Where an access stands: in the first file that holds its address, and so
\* for the rest of the page.
LEMMA Standing ==
  ASSUME IInv, pc = "access"
  PROVE  /\ Typed /\ pc \in Running /\ image \in Images /\ HeapOK(heap) /\ DirOK(dir)
         /\ here \in Data(heap) /\ File \in Ranges /\ File \in DOMAIN dir /\ IsRegion(File)
         /\ Holds(File, op.addr) /\ op.addr \in Addr /\ op \in Accesses /\ op # NoAccess
         /\ Offset \in Nat /\ Offset = op.addr - File.start
         /\ \A a \in Addr : PageStart[a] = PageStart[op.addr] => here \in FirstIn(heap, a)
<1>1. Typed /\ Passed /\ FilesThere /\ pc \in Running
  BY DEF IInv, Running
<1>2. /\ here \in Data(heap) /\ File \in Ranges /\ File \in DOMAIN dir /\ Holds(File, op.addr)
      /\ op \in Accesses /\ op.addr \in Nat /\ Offset \in Nat
  BY <1>1, FileThere
<1>3. image \in Images /\ HeapOK(heap) /\ DirOK(dir) /\ op # NoAccess
  BY <1>1, TypedIs DEF Basic
<1>4. op.addr \in Addr
  <2>1. op.addr < Top /\ Top \in Nat
    BY <1>2, RangeIs DEF Holds
  <2> QED BY <1>2, <2>1 DEF Addr
<1>5. \A x \in Data(heap) : heap[x].pdata \in Ranges /\ IsRegion(heap[x].pdata)
  BY <1>1, <1>3 DEF IInv, Copied, HeapOK
<1>6. here \in FirstIn(heap, op.addr)
  BY <1>1 DEF Passed, First, FirstIn
<1>7. ASSUME NEW a \in Addr, PageStart[a] = PageStart[op.addr] PROVE here \in FirstIn(heap, a)
  <2>1. \A x \in Data(heap) : Holds(heap[x].pdata, a) <=> Holds(heap[x].pdata, op.addr)
    BY <1>3, <1>4, <1>5, <1>7, PageHeld
  <2> QED BY <1>6, <2>1 DEF FirstIn
<1> QED BY <1>1, <1>2, <1>3, <1>4, <1>5, <1>7 DEF File, Offset

\* The bytes of an access that is inside its file.
LEMMA InsideIs ==
  ASSUME IInv, pc = "access", Inside, NEW k \in DOMAIN op.data
  PROVE  /\ k \in Nat /\ op.addr + k \in Addr /\ Holds(File, op.addr + k)
         /\ Offset + k \in DOMAIN dir[File] /\ Offset + k = (op.addr + k) - File.start
         /\ dir[File][Offset + k] \in Byte
         /\ image.region[op.addr + k].commit
         /\ image.region[op.addr + k] = image.region[op.addr]
<1>1. /\ File \in Ranges /\ File \in DOMAIN dir /\ IsRegion(File) /\ DirOK(dir) /\ op \in Accesses
      /\ Offset \in Nat /\ Offset = op.addr - File.start /\ op.addr \in Addr /\ Holds(File, op.addr)
  BY Standing
<1>2. /\ File.start \in Nat /\ File.end \in Nat /\ File.end <= Top /\ op.addr \in Nat /\ Top \in Nat
  BY <1>1, RangeIs, Addresses
<1>3. PICK s \in 1..MaxSize : op.data \in [0..(s - 1) -> Byte]
  BY <1>1, Asks
<1>4. k \in Nat
  BY <1>3
<1>5. PICK n \in 0..(File.end - File.start) : dir[File] \in [0..(n - 1) -> Byte]
  BY <1>1 DEF DirOK
<1>6. Offset + k \in DOMAIN dir[File] /\ Offset + k \in 0..(n - 1)
  BY <1>5 DEF Inside
<1>7. dir[File][Offset + k] \in Byte
  BY <1>5, <1>6
<1>8. Offset + k = (op.addr + k) - File.start /\ op.addr + k < File.end /\ File.start <= op.addr + k
  <2>1. Offset = op.addr - File.start /\ Offset \in Nat
    BY <1>1
  <2>2. Offset + k <= n - 1 /\ n - 1 < File.end - File.start /\ n \in Int
    BY <1>2, <1>5, <1>6
  <2> QED
    BY <1>2, <1>4, <2>1, <2>2
<1>9. op.addr + k \in Addr /\ Holds(File, op.addr + k)
  BY <1>2, <1>4, <1>8 DEF Addr, Holds
<1>10. image.region[op.addr + k] = image.region[File.start] /\ image.region[op.addr + k].commit
       /\ image.region[op.addr] = image.region[File.start]
  BY <1>1, <1>9, InRun
<1> QED BY <1>4, <1>6, <1>7, <1>8, <1>9, <1>10

LEMMA ReadMaps ==
  ASSUME IInv, Read
  PROVE  S!ReadDone
<1>1. pc = "access" /\ op.kind = "read" /\ Inside /\ pc' = "ready" /\ UNCHANGED <<image, heap, dir>>
      /\ op' = NoAccess /\ out' = Done(op, [k \in DOMAIN op.data |-> dir[File][Offset + k]])
  BY DEF Read, list, Answer
<1>2. /\ Typed /\ pc \in Running /\ HeapOK(heap) /\ here \in Data(heap) /\ op # NoAccess
      /\ \A a \in Addr : PageStart[a] = PageStart[op.addr] => here \in FirstIn(heap, a)
  BY <1>1, Standing
<1>3. pc' \in Running
  BY <1>1 DEF Running
<1>4. mem' = mem
  BY <1>1, <1>2, <1>3, MemStill
<1> DEFINE v == [k \in DOMAIN op.data |-> dir[File][Offset + k]]
<1>5. v \in [DOMAIN op.data -> Byte]
  BY <1>1, InsideIs
<1>6. S!InRegion(op)
  BY <1>1, InsideIs DEF S!InRegion, S!Addr, Addr
<1>7. ASSUME NEW k \in DOMAIN op.data, PageStart[op.addr + k] = PageStart[op.addr]
      PROVE  v[k] = mem[op.addr + k]
  <2>1. /\ op.addr + k \in Addr /\ Offset + k \in DOMAIN dir[File]
        /\ Offset + k = (op.addr + k) - File.start
    BY <1>1, InsideIs
  <2>2. here \in FirstIn(heap, op.addr + k)
    BY <1>2, <1>7, <2>1
  <2>3. ByteAt(image, heap, dir, op.addr + k) =
          IF (op.addr + k) - heap[here].pdata.start \in DOMAIN dir[heap[here].pdata]
          THEN dir[heap[here].pdata][(op.addr + k) - heap[here].pdata.start]
          ELSE image.bytes[op.addr + k]
    BY <1>2, <2>2, ByteFirst
  <2>4. ByteAt(image, heap, dir, op.addr + k) = dir[File][Offset + k]
    BY <2>1, <2>3 DEF File
  <2>5. mem[op.addr + k] = ByteAt(image, heap, dir, op.addr + k)
    BY <1>2, <2>1, MemIs
  <2> QED BY <2>4, <2>5
<1>8. S!Answered(S!Done(op, v))
  BY <1>1, <1>2, <1>3 DEF S!Answered, S!Done, Done, S!NoAccess, NoAccess
<1> HIDE DEF v
<1> QED BY <1>1, <1>4, <1>5, <1>6, <1>7, <1>8 DEF S!ReadDone, S!SamePage

\* What is read of the snapshot is a byte.
LEMMA ByteTyped ==
  ASSUME image \in Images, HeapOK(heap), NEW f, DirOK(f), NEW a \in Addr,
         \A x \in Data(heap) : heap[x].pdata \in DOMAIN f
  PROVE  ByteAt(image, heap, f, a) \in Byte
<1>1. image.bytes[a] \in Byte
  BY Image
<1>2. CASE FirstIn(heap, a) = {}
  BY <1>1, <1>2, ByteNone
<1>3. CASE FirstIn(heap, a) # {}
  <2>1. PICK x \in FirstIn(heap, a) : TRUE
    BY <1>3
  <2>2. heap[x].pdata \in DOMAIN f
    BY <2>1 DEF FirstIn
  <2>3. \A k \in DOMAIN f[heap[x].pdata] : f[heap[x].pdata][k] \in Byte
    BY <2>2 DEF DirOK
  <2>4. ByteAt(image, heap, f, a) = IF a - heap[x].pdata.start \in DOMAIN f[heap[x].pdata]
          THEN f[heap[x].pdata][a - heap[x].pdata.start] ELSE image.bytes[a]
    BY <2>1, ByteFirst
  <2> QED BY <1>1, <2>3, <2>4
<1> QED BY <1>2, <1>3

\* A byte of the snapshot after a write.
LEMMA WriteByte ==
  ASSUME IInv, Write, NEW a \in Addr
  PROVE  LET k == a - op.addr
         IN  IF k \notin DOMAIN op.data
             THEN ByteAt(image, heap, dir', a) = ByteAt(image, heap, dir, a)
             ELSE \/ ByteAt(image, heap, dir', a) = op.data[k]
                  \/ /\ ByteAt(image, heap, dir', a) = ByteAt(image, heap, dir, a)
                     /\ PageStart[a] # PageStart[op.addr]
<1> DEFINE k == a - op.addr
<1>1. pc = "access" /\ Inside
  BY DEF Write
<1>2. /\ Typed /\ HeapOK(heap) /\ here \in Data(heap) /\ File \in Ranges /\ File \in DOMAIN dir
      /\ op.addr \in Addr /\ Offset \in Nat /\ Offset = op.addr - File.start
      /\ PageStart[a] = PageStart[op.addr] => here \in FirstIn(heap, a)
  BY <1>1, Standing
<1>3. /\ \A g \in DOMAIN dir : g # File => dir'[g] = dir[g]
      /\ DOMAIN dir'[File] = DOMAIN dir[File]
      /\ \A m \in DOMAIN dir[File] :
           dir'[File][m] = IF m - Offset \in DOMAIN op.data THEN op.data[m - Offset] ELSE dir[File][m]
  BY WriteIs DEF IInv
<1>4. \A x \in Data(heap) : heap[x].pdata \in DOMAIN dir
  BY DEF IInv, FilesThere, Listed
<1>5. a \in Nat /\ op.addr \in Nat /\ File.start \in Nat /\ (a - File.start) - Offset = k
  BY <1>2, RangeIs, Addresses
<1>6. ASSUME k \in DOMAIN op.data PROVE Holds(File, a) /\ a - File.start \in DOMAIN dir[File]
  <2>1. op.addr + k = a
    BY <1>5
  <2>2. Holds(File, op.addr + k) /\ Offset + k \in DOMAIN dir[File] /\ Offset + k = (op.addr + k) - File.start
    BY <1>1, <1>6, InsideIs
  <2> QED BY <2>1, <2>2
<1> HIDE DEF k
<1>7. CASE FirstIn(heap, a) = {}
  <2>1. k \notin DOMAIN op.data
    BY <1>2, <1>6, <1>7, FirstThere DEF File
  <2> QED BY <1>7, <2>1, ByteNone DEF k
<1>8. CASE FirstIn(heap, a) # {}
  <2>1. PICK x \in FirstIn(heap, a) : TRUE
    BY <1>8
  <2> DEFINE f == heap[x].pdata
  <2>2. f \in DOMAIN dir
    BY <1>4, <2>1 DEF FirstIn
  <2>3. ByteAt(image, heap, dir, a) = IF a - f.start \in DOMAIN dir[f]
                                      THEN dir[f][a - f.start] ELSE image.bytes[a]
    BY <1>2, <2>1, ByteFirst
  <2>4. ByteAt(image, heap, dir', a) = IF a - f.start \in DOMAIN dir'[f]
                                       THEN dir'[f][a - f.start] ELSE image.bytes[a]
    BY <1>2, <2>1, ByteFirst
  <2>5. ASSUME here \in FirstIn(heap, a) PROVE f = File
    <3>1. here \in Nat /\ x \in Nat /\ here <= x /\ x <= here
      BY <1>2, <2>1, <2>5, ListAssumption DEF FirstIn, HeapOK, Data
    <3> QED BY <3>1 DEF File
  <2> HIDE DEF f
  <2>6. CASE f # File
    <3>1. ByteAt(image, heap, dir', a) = ByteAt(image, heap, dir, a)
      BY <1>3, <2>2, <2>3, <2>4, <2>6
    <3>2. PageStart[a] # PageStart[op.addr]
      BY <1>2, <2>5, <2>6
    <3> QED BY <3>1, <3>2
  <2>7. CASE f = File /\ k \in DOMAIN op.data
    <3>1. ByteAt(image, heap, dir', a) = op.data[k]
      BY <1>3, <1>5, <1>6, <2>4, <2>7
    <3> QED BY <2>7, <3>1 DEF k
  <2>8. CASE f = File /\ k \notin DOMAIN op.data
    <3>1. ByteAt(image, heap, dir', a) = ByteAt(image, heap, dir, a)
      BY <1>3, <1>5, <2>3, <2>4, <2>8
    <3> QED BY <2>8, <3>1 DEF k
  <2> QED BY <2>6, <2>7, <2>8
<1> QED BY <1>7, <1>8

LEMMA WriteMaps ==
  ASSUME IInv, Write
  PROVE  S!WriteDone
<1>1. pc = "access" /\ op.kind = "write" /\ Inside /\ pc' = "ready" /\ UNCHANGED <<image, heap>>
      /\ op' = NoAccess /\ out' = Done(op, op.data)
  BY DEF Write, list, Answer
<1>2. Typed /\ pc \in Running /\ image \in Images /\ HeapOK(heap) /\ op # NoAccess /\ pc' \in Running
  BY <1>1, Standing DEF Running
<1>3. S!InRegion(op)
  BY <1>1, InsideIs DEF S!InRegion, S!Addr, Addr
<1>4. mem = [a \in Addr |-> ByteAt(image, heap, dir, a)]
      /\ mem' = [a \in Addr |-> ByteAt(image, heap, dir', a)]
  BY <1>1, <1>2, MemIs, MemNext
<1>5. mem' \in [Addr -> Byte]
  <2>1. DirOK(dir') /\ DOMAIN dir' = DOMAIN dir
    BY WriteIs DEF IInv
  <2>2. \A x \in Data(heap) : heap[x].pdata \in DOMAIN dir
    BY DEF IInv, FilesThere, Listed
  <2>3. \A a \in Addr : ByteAt(image, heap, dir', a) \in Byte
    BY <1>2, <2>1, <2>2, ByteTyped
  <2> QED BY <1>4, <2>3
<1>6. ASSUME NEW a \in Addr
      PROVE  LET k == a - op.addr
             IN  IF k \notin DOMAIN op.data THEN mem'[a] = mem[a]
                 ELSE mem'[a] = op.data[k] \/ (mem'[a] = mem[a] /\ ~S!SamePage(a, op.addr))
  BY <1>4, WriteByte DEF S!SamePage
<1>7. S!Answered(S!Done(op, op.data))
  BY <1>1, <1>2 DEF S!Answered, S!Done, Done, S!NoAccess, NoAccess
<1>8. S!Addr = Addr
  BY DEF S!Addr, Addr
<1> QED BY <1>1, <1>3, <1>5, <1>6, <1>7, <1>8 DEF S!WriteDone

LEMMA NotDoneMaps ==
  ASSUME IInv, GenFails \/ AccessFails
  PROVE  S!NotDone
<1>1. /\ pc \in {"gen", "access"} /\ pc' = "ready" /\ UNCHANGED <<image, heap>>
      /\ op' = NoAccess /\ out' = Failed(op)
  BY DEF GenFails, AccessFails, list, Answer
<1>2. pc \in Running /\ pc' \in Running /\ op # NoAccess /\ Typed
  BY <1>1, TypedIs DEF Running, IInv, Basic
<1>3. mem' = mem
  <2>1. CASE GenFails
    BY <2>1, MemGenFails
  <2>2. CASE AccessFails
    BY <1>1, <1>2, <2>2, MemStill DEF AccessFails
  <2> QED BY <2>1, <2>2
<1>4. S!Answered(S!Failed(op))
  BY <1>1, <1>2 DEF S!Answered, S!Failed, Failed, S!NoAccess, NoAccess
<1> QED BY <1>3, <1>4 DEF S!NotDone

-----------------------------------------------------------------------------
(* The refinement.                                                         *)

LEMMA SnapshotInit == Init => S!SInit
<1> SUFFICES ASSUME Init PROVE S!SInit
  OBVIOUS
<1>1. image \in Images /\ pc \notin Running /\ op = S!NoAccess /\ out = S!Silent
  BY DEF Init, Running, NoAccess, Silent, S!NoAccess, S!Silent
<1>2. mem = image.bytes
  BY <1>1, MemClosed
<1> QED BY <1>1, <1>2 DEF S!SInit

\* What happens outside of an analysis, or clears or loads.
LEMMA ClosedStill ==
  ASSUME IInv, image' = image, op' = op, out' = out, pc \notin Running, pc' \notin Running
  PROVE  UNCHANGED S!svars
<1>1. image \in Images
  BY TypedIs DEF IInv, Basic
<1>2. mem = image.bytes /\ mem' = image'.bytes
  BY <1>1, MemClosed, MemClosedNext
<1>3. (pc \in Running)' = (pc \in Running)
  BY DEF Running
<1> QED BY <1>2, <1>3 DEF S!svars

LEMMA OpenStill ==
  ASSUME image' = image, op' = op, out' = out, pc \in Running, pc' \in Running, mem' = mem
  PROVE  UNCHANGED S!svars
<1>1. (pc \in Running)' = (pc \in Running)
  BY DEF Running
<1> QED BY <1>1 DEF S!svars

LEMMA SnapshotStep ==
  ASSUME IInv, [Next]_vars
  PROVE  [S!SNext]_(S!svars)
<1>1. Typed /\ Basic /\ image \in Images
  BY TypedIs DEF IInv, Basic
<1>2. CASE Resume
  <2>1. pc = "idle" /\ image' \in Images /\ UNCHANGED <<pc, op, out>>
    BY <1>2 DEF Resume
  <2>2. mem' = image'.bytes /\ pc \notin Running /\ (pc \in Running)' = (pc \in Running)
    BY <2>1, MemClosedNext DEF Running
  <2>3. S!Resumed
    BY <2>1, <2>2 DEF S!Resumed
  <2> QED BY <2>3 DEF S!SNext
<1>3. CASE \/ StartInit \/ Free \/ LoadFile \/ LoadSkip \/ LoadNotRead \/ LoadNotWritten
           \/ LoadEnds /\ pc' = "idle"
  <2>1. UNCHANGED <<image, op, out>> /\ pc \in {"idle", "clear", "delete", "load"}
        /\ pc' \in {"idle", "clear", "delete", "load"}
    BY <1>3 DEF StartInit, ClearFrom, Free, Clear, ClearEnds, Delete, DeleteFails,
                LoadFile, LoadSkip, LoadNotRead, LoadNotWritten, LoadEnds
  <2> QED BY <2>1, ClosedStill DEF Running
<1>4. CASE StartFree
  <2>1. pc = "ready" /\ pc' = "clear" /\ UNCHANGED <<image, op, out>>
    BY <1>4 DEF StartFree, ClearFrom
  <2>2. pc \in Running /\ pc' \notin Running /\ op = NoAccess
    BY <1>1, <2>1 DEF Running, Basic
  <2>3. mem' = image.bytes /\ (pc \in Running)' = FALSE
    BY <1>1, <2>1, <2>2, MemClosedNext DEF Running
  <2>4. S!Closed
    BY <2>1, <2>2, <2>3 DEF S!Closed, S!NoAccess, NoAccess
  <2> QED BY <2>4 DEF S!SNext
<1>5. CASE LoadEnds /\ pc' = "ready"
  <2>1. pc = "load" /\ UNCHANGED <<image, op, out>>
    BY <1>5 DEF LoadEnds
  <2>2. pc \notin Running /\ (pc \in Running)' = TRUE /\ mem' = mem
    BY <1>5, <2>1, MemOpens DEF Running
  <2>3. S!Opened
    BY <2>1, <2>2 DEF S!Opened
  <2> QED BY <2>3 DEF S!SNext
<1>6. CASE Ask
  <2>1. pc = "ready" /\ pc' = "search" /\ op' \in Accesses /\ out' = Silent /\ UNCHANGED <<image, heap, dir>>
    BY <1>6 DEF Ask
  <2>2. pc \in Running /\ pc' \in Running /\ op = NoAccess
    BY <1>1, <2>1 DEF Running, Basic
  <2>3. mem' = mem /\ (pc \in Running)' = (pc \in Running)
    BY <1>1, <2>1, <2>2, MemStill DEF Running
  <2>4. S!Asked
    BY <2>1, <2>2, <2>3 DEF S!Asked, S!NoAccess, NoAccess, S!Silent, Silent
  <2> QED BY <2>4 DEF S!SNext
<1>7. CASE Search
  <2>1. pc \in Running /\ pc' \in Running /\ UNCHANGED <<image, heap, dir, op, out>>
    BY <1>7 DEF Search, Running
  <2>2. mem' = mem
    BY <1>1, <2>1, MemStill
  <2> QED BY <2>1, <2>2, OpenStill
<1>8. CASE Gen
  <2>1. pc \in Running /\ pc' \in Running /\ UNCHANGED <<image, op, out>>
    BY <1>8 DEF Gen, Running
  <2>2. mem' = mem
    BY <1>8, MemGen
  <2> QED BY <2>1, <2>2, OpenStill
<1>9. CASE GenFails \/ AccessFails
  BY <1>9, NotDoneMaps DEF S!SNext
<1>10. CASE Read
  BY <1>10, ReadMaps DEF S!SNext
<1>11. CASE Write
  BY <1>11, WriteMaps DEF S!SNext
<1>12. CASE UNCHANGED vars
  <2>1. UNCHANGED <<image, heap, dir, pc, op, out>>
    BY <1>12 DEF vars, list
  <2>2. CASE pc \in Running
    <3>1. mem' = mem
      BY <1>1, <2>1, <2>2, MemStill
    <3> QED BY <2>1, <2>2, <3>1, OpenStill
  <2>3. CASE pc \notin Running
    BY <2>1, <2>3, ClosedStill
  <2> QED BY <2>2, <2>3
<1>13. LoadEnds => pc' \in {"ready", "idle"}
  BY DEF LoadEnds
<1> QED
  BY <1>2, <1>3, <1>4, <1>5, <1>6, <1>7, <1>8, <1>9, <1>10, <1>11, <1>12, <1>13
  DEF Next, Load, Access

\* The memory files are a snapshot of the process, as far as an access stays
\* on a page: every step of the list, the files and the traversal is one of
\* the snapshot or changes nothing it is made of (init_mem_file,
\* xx_get_fmem, xx_read_fmem, xx_write_fmem, free_mem_file).
THEOREM FilesAreSnapshot == Spec => IsSnapshot
<1>1. Spec => [][Next]_vars /\ Init
  BY PTL DEF Spec
<1> QED
  BY <1>1, SnapshotInit, SnapshotStep, Inductive, PTL DEF IsSnapshot, S!SSpec
=============================================================================

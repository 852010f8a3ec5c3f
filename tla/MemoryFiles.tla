---------------------------- MODULE MemoryFiles ----------------------------
(***************************************************************************)
(* The memory files of the plugins (xx_execute.c): before an analysis       *)
(* init_mem_file copies the regions of the process to files and lists them, *)
(* xx_read_fmem and xx_write_fmem look an address up in the list and copy   *)
(* the memory behind it on demand, free_mem_file clears the list and        *)
(* deletes the files.  One thread does all this, one access at a time; the  *)
(* process stands still meanwhile.  In this plugin nothing sets the hooks   *)
(* that stand in for memory that is not there.                             *)
(*                                                                         *)
(* VirtualQueryEx describes the pages from the one of an address to the     *)
(* first whose attributes differ.  The memory of other regions that are    *)
(* reserved is as good as free.                                            *)
(***************************************************************************)
EXTENDS LinkList

CONSTANTS
    Top,        \* end of the address space
    Byte,       \* values of a byte
    PageStart,  \* first address of the page of an address
    Images,     \* processes: bytes and, for each address, commit, base (AllocationBase), kind
    Accesses,   \* what the emulation may ask for
    MaxSize,    \* bytes of the largest access
    MaxFaults   \* bound: failures of the system

Addr == 0..(Top - 1)

ASSUME MemoryAssumption ==
    /\ Top \in Nat \ {0} /\ {MaxSize, MaxFaults} \subseteq Nat
    /\ PageStart \in [Addr -> Addr]
    /\ \A a \in Addr : PageStart[a] <= a /\ \A b \in PageStart[a]..a : PageStart[b] = PageStart[a]
    /\ \A i \in Images :
         /\ i.bytes \in [Addr -> Byte]
         /\ DOMAIN i.region = Addr
         /\ \A a \in Addr : /\ i.region[a].commit \in BOOLEAN /\ i.region[a].base \in 0..a
                            /\ i.region[PageStart[a]] = i.region[a]
    /\ \A o \in Accesses : /\ o.kind \in {"read", "write"} /\ o.addr \in Nat
                           /\ \E n \in 1..MaxSize : o.data \in [0..(n - 1) -> Byte]
                           /\ o = [kind |-> o.kind, addr |-> o.addr, data |-> o.data]

VARIABLES
    image,          \* the process
    xx_link, heap,  \* the list
    xx_node_start,  \* where its traversal began
    here, node2,    \* where it stands; with here, the two nodes of xx_list_clear
    dir,            \* the files: their contents by start and end
    fmempath,       \* the directory has a name
    pc,             \* what runs
    starting,       \* free_mem_file was called by init_mem_file
    addr,           \* its next address
    op, out,        \* the access under way, the answer to the last one
    faults          \* counter of the bound

list == <<xx_link, heap, xx_node_start, here, node2>>
vars == <<image, list, dir, fmempath, pc, starting, addr, op, out, faults>>

NoAccess == [kind |-> "none", addr |-> 0, data |-> <<>>]
Silent   == [ok |-> FALSE, kind |-> "none", addr |-> 0, data |-> <<>>]
Failed(o) == [ok |-> FALSE, kind |-> o.kind, addr |-> o.addr, data |-> <<>>]
Done(o, v) == [ok |-> TRUE, kind |-> o.kind, addr |-> o.addr, data |-> v]

Fault == faults < MaxFaults /\ faults' = faults + 1

Init ==
    /\ image \in Images
    /\ xx_link = Null /\ heap = NoHeap /\ xx_node_start = Null /\ here = Null /\ node2 = Null
    /\ dir = [f \in {} |-> <<>>] /\ fmempath = FALSE
    /\ pc = "idle" /\ starting = FALSE /\ addr = 0
    /\ op = NoAccess /\ out = Silent /\ faults = 0

-----------------------------------------------------------------------------
(* The system: regions of memory and files.                                *)

\* The pages from a on that VirtualQueryEx describes as one end at e.
RunsTo(a, e) ==
    /\ \A b \in a..(e - 1) : image.region[b] = image.region[a]
    /\ e < Top => image.region[e] # image.region[a]
Query(a, d) ==
    /\ a < Top /\ d.start = PageStart[a] /\ d.end \in (d.start + 1)..Top
    /\ RunsTo(d.start, d.end)

Ranges == [start : Addr, end : 1..Top]

\* n bytes of the memory behind d.
Copy(d, n) == [k \in 0..(n - 1) |-> image.bytes[d.start + k]]
\* xx_cover_file: a write that stops short counts as done.
xx_cover_file(d) ==
    \E n \in 1..(d.end - d.start) :
      /\ dir' = [f \in DOMAIN dir \cup {d} |-> IF f = d THEN Copy(d, n) ELSE dir[f]]
      /\ IF n = d.end - d.start THEN UNCHANGED faults ELSE Fault
\* It fails before or after it has emptied the file.
CoverFails(d) ==
    /\ Fault
    /\ \/ dir' = dir
       \/ dir' = [f \in DOMAIN dir \cup {d} |-> IF f = d THEN Copy(d, 0) ELSE dir[f]]

-----------------------------------------------------------------------------
(* The process runs while no analysis does.                                *)

Resume ==
    /\ pc = "idle" /\ image' \in Images
    /\ UNCHANGED <<list, dir, fmempath, pc, starting, addr, op, out, faults>>

-----------------------------------------------------------------------------
(* init_mem_file and free_mem_file.                                        *)

\* xx_list_clear begins at the header.
ClearFrom(h) == here' = Header /\ node2' = h[Header].next /\ pc' = "clear"

StartInit ==
    /\ pc = "idle" /\ starting' = TRUE
    /\ xx_link' = Header /\ heap' = IF xx_link = Null THEN xx_list_init ELSE heap
    /\ ClearFrom(heap')
    /\ UNCHANGED <<image, xx_node_start, dir, fmempath, addr, op, out, faults>>

\* Mutant: the files are deleted and the list is left as it is.
StartFreeOnly ==
    /\ pc = "ready" /\ starting' = FALSE
    /\ pc' = "delete" /\ UNCHANGED <<here, node2>>
    /\ UNCHANGED <<image, xx_link, heap, xx_node_start, dir, fmempath, addr, op, out, faults>>

StartFree ==
    /\ pc = "ready" /\ starting' = FALSE
    /\ ClearFrom(heap)
    /\ UNCHANGED <<image, xx_link, heap, xx_node_start, dir, fmempath, addr, op, out, faults>>

Clear ==
    /\ pc = "clear" /\ ~Cleared(heap, here, node2)
    /\ heap' = xx_list_clear(heap, here, node2)
    /\ here' = node2 /\ node2' = heap[node2].next
    /\ UNCHANGED <<image, xx_link, xx_node_start, dir, fmempath, pc, starting, addr, op, out, faults>>

ClearEnds ==
    /\ pc = "clear" /\ Cleared(heap, here, node2)
    /\ pc' = "delete"
    /\ UNCHANGED <<image, list, dir, fmempath, starting, addr, op, out, faults>>

\* The directory goes with its files.  init_mem_file then names another and
\* goes on from address 0, unless it lacks the path or the memory to.
Delete ==
    /\ pc = "delete" /\ dir' = [f \in {} |-> <<>>]
    /\ \/ starting /\ pc' = "load" /\ fmempath' = TRUE /\ addr' = 0 /\ UNCHANGED faults
       \/ starting /\ pc' = "idle" /\ fmempath' = FALSE /\ Fault /\ UNCHANGED addr
       \/ ~starting /\ pc' = "idle" /\ fmempath' = FALSE /\ UNCHANGED <<addr, faults>>
    /\ UNCHANGED <<image, list, starting, op, out>>

\* A file cannot be deleted, or the next one not be found: those before it
\* are gone, and the directory keeps its name.
DeleteFails ==
    /\ pc = "delete" /\ fmempath /\ Fault
    /\ \E left \in SUBSET DOMAIN dir : dir' = [f \in left |-> dir[f]]
    /\ pc' = "idle"
    /\ UNCHANGED <<image, list, fmempath, starting, addr, op, out>>

-----------------------------------------------------------------------------
(* The loop of init_mem_file, with xx_gen_fmem(addr, &buf_fmem, 0).         *)

Whole(d) == image.region[d.start].commit /\ image.region[d.start].base = d.start

LoadFile ==
    /\ pc = "load"
    /\ \E d \in Ranges, new \in 1..MaxNode :
         /\ Query(addr, d) /\ Whole(d)
         /\ xx_cover_file(d)
         /\ Malloc(heap, new) /\ heap' = xx_list_insert(heap, xx_link, new, d)
         /\ addr' = d.end
    /\ UNCHANGED <<image, xx_link, xx_node_start, here, node2, fmempath, pc, starting, op, out>>

\* Mutant: the end of a region that is not copied is not set.
LoadSkipStays ==
    /\ pc = "load"
    /\ \E d \in Ranges : Query(addr, d) /\ ~Whole(d) /\ addr' = d.start
    /\ UNCHANGED <<image, list, dir, fmempath, pc, starting, op, out, faults>>

LoadSkip ==
    /\ pc = "load"
    /\ \E d \in Ranges : Query(addr, d) /\ ~Whole(d) /\ addr' = d.end
    /\ UNCHANGED <<image, list, dir, fmempath, pc, starting, op, out, faults>>

\* The memory cannot be allocated or read: buf_fmem.end is still 0, and the
\* loop begins again.
LoadNotRead ==
    /\ pc = "load" /\ Fault
    /\ \E d \in Ranges : Query(addr, d) /\ Whole(d)
    /\ addr' = 0
    /\ UNCHANGED <<image, list, dir, fmempath, pc, starting, op, out>>

LoadNotWritten ==
    /\ pc = "load"
    /\ \E d \in Ranges : Query(addr, d) /\ Whole(d) /\ CoverFails(d) /\ addr' = d.end
    /\ UNCHANGED <<image, list, fmempath, pc, starting, op, out>>

\* The end of the address space; the analysis starts, unless there is no
\* process, which leaves the list and the files.
LoadEnds ==
    /\ pc = "load" /\ addr >= Top
    /\ \/ pc' = "ready" /\ UNCHANGED faults
       \/ pc' = "idle" /\ Fault
    /\ UNCHANGED <<image, list, dir, fmempath, starting, addr, op, out>>

-----------------------------------------------------------------------------
(* xx_read_fmem and xx_write_fmem: xx_get_fmem goes through the list with   *)
(* xx_list_get, one link at a time.                                        *)

Ask ==
    /\ pc = "ready"
    /\ op' \in Accesses /\ out' = Silent
    /\ here' = xx_link /\ xx_node_start' = xx_link
    /\ pc' = "search"
    /\ UNCHANGED <<image, xx_link, heap, node2, dir, fmempath, starting, addr, faults>>

\* Mutant: the last address of a file is taken for the next one's.
HoldsShort(d, a) == a >= d.start /\ a < d.end - 1
Holds(d, a) == a >= d.start /\ a < d.end

Search ==
    /\ pc = "search" /\ here' = heap[here].next
    /\ pc' = IF heap[here'].flag = 1
             THEN IF Holds(heap[here'].pdata, op.addr) THEN "access" ELSE "search"
             ELSE IF here' = xx_node_start THEN "gen" ELSE "search"
    /\ UNCHANGED <<image, xx_link, heap, xx_node_start, node2, dir, fmempath, starting, addr, op,
                   out, faults>>

Answer(a) == pc' = "ready" /\ op' = NoAccess /\ out' = a

\* The memory behind the address is copied now, from its page to the end of
\* its region.
Gen ==
    /\ pc = "gen"
    /\ \E d \in Ranges, new \in 1..MaxNode :
         /\ Query(op.addr, d) /\ image.region[d.start].commit
         /\ xx_cover_file(d)
         /\ Malloc(heap, new) /\ heap' = xx_list_insert(heap, xx_link, new, d)
         /\ here' = new
    /\ pc' = "access"
    /\ UNCHANGED <<image, xx_link, xx_node_start, node2, fmempath, starting, addr, op, out>>

\* No memory is there, or it cannot be read or written to a file.
GenFails ==
    /\ pc = "gen"
    /\ \/ op.addr >= Top /\ UNCHANGED <<dir, faults>>
       \/ \E d \in Ranges :
            /\ Query(op.addr, d)
            /\ IF ~image.region[d.start].commit THEN UNCHANGED <<dir, faults>>
               ELSE (Fault /\ dir' = dir) \/ CoverFails(d)
    /\ Answer(Failed(op))
    /\ UNCHANGED <<image, list, fmempath, starting, addr>>

\* xx_read_file and xx_scover_file, at the offset of the address: neither
\* goes beyond the end of the file.
File   == heap[here].pdata
Offset == op.addr - File.start
Inside == \A k \in DOMAIN op.data : Offset + k \in DOMAIN dir[File]

Read ==
    /\ pc = "access" /\ op.kind = "read" /\ Inside
    /\ Answer(Done(op, [k \in DOMAIN op.data |-> dir[File][Offset + k]]))
    /\ UNCHANGED <<image, list, dir, fmempath, starting, addr, faults>>

\* Mutant: only the first byte is looked for, and the file grows.
WriteGrows ==
    /\ pc = "access" /\ op.kind = "write" /\ Offset \in DOMAIN dir[File]
    /\ dir' = [dir EXCEPT ![File] =
                 [k \in DOMAIN @ \cup {Offset + n : n \in DOMAIN op.data} |->
                    IF k - Offset \in DOMAIN op.data THEN op.data[k - Offset] ELSE @[k]]]
    /\ Answer(Done(op, op.data))
    /\ UNCHANGED <<image, list, fmempath, starting, addr, faults>>

Write ==
    /\ pc = "access" /\ op.kind = "write" /\ Inside
    /\ dir' = [dir EXCEPT ![File] =
                 [k \in DOMAIN @ |-> IF k - Offset \in DOMAIN op.data THEN op.data[k - Offset] ELSE @[k]]]
    /\ Answer(Done(op, op.data))
    /\ UNCHANGED <<image, list, fmempath, starting, addr, faults>>

\* Beyond the end, or the file cannot be opened.
AccessFails ==
    /\ pc = "access"
    /\ (~Inside /\ UNCHANGED faults) \/ Fault
    /\ Answer(Failed(op))
    /\ UNCHANGED <<image, list, dir, fmempath, starting, addr>>

-----------------------------------------------------------------------------

Free   == Clear \/ ClearEnds \/ Delete \/ DeleteFails
Load   == LoadFile \/ LoadSkip \/ LoadNotRead \/ LoadNotWritten \/ LoadEnds
Access == Search \/ Gen \/ GenFails \/ Read \/ Write \/ AccessFails

Next == Resume \/ StartInit \/ StartFree \/ Ask \/ Free \/ Load \/ Access

\* The thread goes on with what it does; nobody has to ask it for anything.
Spec == Init /\ [][Next]_vars /\ WF_vars(Free \/ Load \/ Access)

-----------------------------------------------------------------------------
(* Properties                                                              *)

Running == {"ready", "search", "gen", "access"}
Busy    == pc \notin {"idle", "ready"}

TypeOK ==
    /\ image \in Images
    /\ xx_link \in {Null, Header} /\ xx_node_start \in {Null, Header}
    /\ DOMAIN heap \subseteq 1..MaxNode \cup 1..2
    /\ \A x \in DOMAIN heap :
         heap[x] \in [flag : 0..1, previous : Nat, next : Nat, pdata : Ranges \cup {NoData}]
    /\ here \in Nat /\ node2 \in Nat
    /\ DOMAIN dir \subseteq Ranges
    /\ \A f \in DOMAIN dir : \E n \in 0..(f.end - f.start) : dir[f] \in [0..(n - 1) -> Byte]
    /\ fmempath \in BOOLEAN /\ starting \in BOOLEAN
    /\ pc \in {"idle", "clear", "delete", "load"} \cup Running
    /\ addr \in 0..Top /\ faults \in 0..MaxFaults
    /\ op \in Accesses \cup {NoAccess}
    /\ pc \in {"search", "gen", "access"} <=> op # NoAccess

\* However an insertion, a clear or a traversal stands, the list is one ring
\* of nodes that are allocated, and so are the nodes the code stands on
\* (xx_link_list.c).
ListWhole ==
    /\ xx_link # Null => IsRing(heap)
    /\ pc = "clear" => {here, node2} \subseteq DOMAIN heap
    /\ pc \in {"search", "access"} => here \in DOMAIN heap

Listed == {heap[x].pdata : x \in Data(heap)}

\* Copies of the same memory are nested: a later file that shares an address
\* with an earlier one ends where that ends and does not begin after it; if
\* nothing has failed it begins before it, and does not begin where its
\* region was allocated: such a region is copied once (init_mem_file,
\* xx_get_fmem).
Nested ==
    pc \in Running =>
      \A x, y \in Data(heap) :
        LET d == heap[x].pdata
            e == heap[y].pdata
        IN  x < y /\ (\E a \in Addr : Holds(d, a) /\ Holds(e, a)) =>
              /\ d.end = e.end /\ e.start <= d.start
              /\ faults = 0 => e.start < d.start /\ ~Whole(e)

\* What is listed is there: every node of the list has its file, whatever
\* failed (xx_gen_fmem, free_mem_file).
FilesThere == Listed \subseteq DOMAIN dir

\* init_mem_file, free_mem_file and every access come to an end.
Ends == Busy ~> ~Busy

\* The copy an address is looked up in: the first of the list, whose nodes
\* are numbered in its order.
First(a) == {x \in Data(heap) : /\ Holds(heap[x].pdata, a)
                                /\ \A y \in Data(heap) : Holds(heap[y].pdata, a) => x <= y}
mem == [a \in Addr |->
          IF pc \in Running /\ \E x \in First(a) : a - heap[x].pdata.start \in DOMAIN dir[heap[x].pdata]
          THEN LET x == CHOOSE x \in First(a) : TRUE
               IN  dir[heap[x].pdata][a - heap[x].pdata.start]
          ELSE image.bytes[a]]

\* The memory files are a snapshot of the process, as far as an access stays
\* on a page (xx_get_fmem).
S == INSTANCE Snapshot WITH open <- pc \in Running
IsSnapshot == S!SSpec
=============================================================================

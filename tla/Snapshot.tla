------------------------------ MODULE Snapshot ------------------------------
(***************************************************************************)
(* What the emulation is promised of its memory files: a copy of the        *)
(* memory of the process, taken when an analysis starts, that reads and     *)
(* writes go to.  An access that fails leaves the copy as it is.  An access  *)
(* is to memory of one region, and the promise is about the bytes on the    *)
(* page of its address: bytes on a page further on may be those of an older *)
(* copy, or be written to one.                                             *)
(***************************************************************************)
EXTENDS Integers

CONSTANTS Top, Byte, PageStart, Images, Accesses

VARIABLES
    image,  \* the process: its bytes and the regions of its address space
    open,   \* an analysis runs
    mem,    \* the copy
    op,     \* the access asked for
    out     \* the answer to the last one

svars == <<image, open, mem, op, out>>

Addr == 0..(Top - 1)

NoAccess == [kind |-> "none", addr |-> 0, data |-> <<>>]
Silent   == [ok |-> FALSE, kind |-> "none", addr |-> 0, data |-> <<>>]
Failed(o) == [ok |-> FALSE, kind |-> o.kind, addr |-> o.addr, data |-> <<>>]
Done(o, v) == [ok |-> TRUE, kind |-> o.kind, addr |-> o.addr, data |-> v]

SamePage(a, b) == PageStart[a] = PageStart[b]

\* The addresses of an access, when all of them are committed memory of one
\* region.
InRegion(o) ==
  \A k \in DOMAIN o.data :
     /\ o.addr + k \in Addr
     /\ image.region[o.addr + k].commit
     /\ image.region[o.addr + k] = image.region[o.addr]

SInit ==
    /\ image \in Images /\ open = FALSE /\ mem = image.bytes
    /\ op = NoAccess /\ out = Silent

\* The process runs while no analysis does.
Resumed ==
    /\ ~open /\ image' \in Images /\ mem' = image'.bytes
    /\ UNCHANGED <<open, op, out>>

Opened ==
    /\ ~open /\ open' = TRUE
    /\ UNCHANGED <<image, mem, op, out>>

Closed ==
    /\ open /\ op = NoAccess
    /\ open' = FALSE /\ mem' = image.bytes
    /\ UNCHANGED <<image, op, out>>

Asked ==
    /\ open /\ op = NoAccess
    /\ op' \in Accesses /\ out' = Silent
    /\ UNCHANGED <<image, open, mem>>

Answered(a) == open /\ op # NoAccess /\ op' = NoAccess /\ out' = a /\ UNCHANGED <<image, open>>

ReadDone ==
    /\ op.kind = "read" /\ InRegion(op)
    /\ \E v \in [DOMAIN op.data -> Byte] :
         /\ \A k \in DOMAIN op.data :
              SamePage(op.addr + k, op.addr) => v[k] = mem[op.addr + k]
         /\ Answered(Done(op, v))
    /\ UNCHANGED mem

WriteDone ==
    /\ op.kind = "write" /\ InRegion(op)
    /\ mem' \in [Addr -> Byte]
    /\ \A a \in Addr :
         LET k == a - op.addr
         IN  IF k \notin DOMAIN op.data THEN mem'[a] = mem[a]
             ELSE mem'[a] = op.data[k] \/ (mem'[a] = mem[a] /\ ~SamePage(a, op.addr))
    /\ Answered(Done(op, op.data))

NotDone == Answered(Failed(op)) /\ UNCHANGED mem

SNext == Resumed \/ Opened \/ Closed \/ Asked \/ ReadDone \/ WriteDone \/ NotDone

SSpec == SInit /\ [][SNext]_svars
=============================================================================

--------------------------- MODULE MCMemoryFiles ---------------------------
(***************************************************************************)
(* Memory files of small processes: five pages of two bytes.               *)
(***************************************************************************)
EXTENDS MemoryFiles

MCTop  == 10
MCByte == 0..1
MCPageStart == [a \in 0..(MCTop - 1) |-> a - (a % 2)]

Unused == [commit |-> FALSE, base |-> 0, kind |-> "free"]
At(base, kind) == [commit |-> kind # "reserved", base |-> base, kind |-> kind]

\* A process is given by its pages and the value of its bytes.
Process(pages, b) ==
  [bytes  |-> [a \in 0..(MCTop - 1) |-> b],
   region |-> [a \in 0..(MCTop - 1) |-> pages[1 + a \div 2]]]

\* A region of code, and a stack whose committed pages grow down from the
\* end; the stack again, with two protections and all of it committed.
MCImages ==
  { Process(<<At(0, "code"), At(2, "reserved"), At(2, "stack"), At(2, "stack"), At(2, "stack")>>, 0),
    Process(<<At(0, "code"), At(0, "code"), At(0, "data"), Unused, At(8, "data")>>, 1) }

\* One and two bytes, on a page, across its end, outside of all regions.
MCAccesses ==
  [kind : {"read"}, addr : {1, 3, 5, 7, 8, 10}, data : [0..0 -> {0}] \cup [0..1 -> {0}]] \cup
  [kind : {"write"}, addr : {7, 9}, data : [0..0 -> {1}] \cup [0..1 -> {1}]]
=============================================================================

----------------------------- MODULE OpmzListing -----------------------------
(* What xx_opmz() promises of the listing of a piece, whatever its passes   *)
(* do: instructions leave it and never come back, each is accounted for     *)
(* once, by an instruction that is still listed at that moment, and the     *)
(* line that stands for them is at the place of the last of them.           *)
EXTENDS Integers

CONSTANT N

VARIABLES shown,    \* instructions that would be printed
          place,    \* for one that left, the instruction that made it leave
          lines     \* instructions at which a restored line is printed

listing == <<shown, place, lines>>

Init == shown = 1..N /\ place = [i \in 1..N |-> 0] /\ lines = {}

UpTo(r) == {i \in shown : i <= r}
Leave(S, k) ==
    /\ shown' = shown \ S
    /\ place' = [i \in 1..N |-> IF i \in S THEN k ELSE place[i]]

\* The pop of the flags that an earlier instruction pushed.
HideFlags == \E m \in shown : \E k \in 1..m-1 : Leave({m}, k) /\ UNCHANGED lines

\* Instructions are replaced by a line; an expression that is to be ignored
\* leaves no line.
Consume == \E r \in shown : \E S \in SUBSET UpTo(r) :
             r \in S /\ Leave(S, r) /\ lines' \in {lines, lines \cup {r}}

\* Instructions are replaced by another meaning of the last of them, which
\* stays.
Replace == \E r \in shown : \E S \in SUBSET UpTo(r-1) : Leave(S, r) /\ UNCHANGED lines

Next == HideFlags \/ Consume \/ Replace

Spec == Init /\ [][Next]_listing
=============================================================================

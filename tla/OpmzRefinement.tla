--------------------------- MODULE OpmzRefinement ---------------------------
(* The passes of xx_opmz implement the listing that OpmzListing promises:   *)
(* opmz_flag decides what is shown, popmz_inst[] where the lines are.       *)
EXTENDS OpmzPass

Listing == INSTANCE OpmzListing WITH
             shown <- {i \in 1..N : ~Hidden(i)},
             place <- owner,
             lines <- {i \in 1..N : line[i] # NoLine}

\* Every step of the passes is a step of the listing or leaves it as it is:
\* no instruction comes back, is consumed twice or makes another one leave
\* after it left itself, and a line never appears at the place of an
\* instruction that stays.
ImplementsListing == Listing!Spec
=============================================================================

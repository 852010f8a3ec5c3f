----------------------------- MODULE MCPrograms -----------------------------
(* Traced programs for the instances of Recording. *)
EXTENDS Recording

\* The forms of the handlers; a byte is popped as each build expects it.
F(b, mem, step, leave) == [mem |-> mem, step |-> step, leave |-> leave, pop |-> IF b = "vm32" THEN "byte" ELSE "word"]
Forms(b) == {F(b, "mreg", "add", "jmp"), F(b, "mdis", "lea", "jmp"), F(b, "mreg", "lea", "ret")}
Scratch(k) ==
  CASE ShapeOf(k).form = "double" -> {<<"eax", "edx", "ecx">>, <<"edx", "eax", "ecx">>}
    [] ShapeOf(k).form = "shift"  -> {<<"eax", "ecx", "edx">>, <<"edx", "ecx", "eax">>}
    [] OTHER                      -> {<<"eax", "edx", "ecx">>, <<"ecx", "eax", "edx">>}

W(k, t, f, junk, at) == [kind |-> k, t |-> t, f |-> f, junk |-> junk, at |-> at]
\* Not the entry and the end, nor rows that match no handler.
AllKinds(b) == ({rows[b][n] : n \in DOMAIN rows[b]} \ ({"0000", "0800", "1200", "1400"} \cup IF WORD = 8 THEN {"1100", "1300"} ELSE {})) \cup {"none"}
\* Each handler in each form.
Plain(b) == UNION {{W(k, t, f, <<>>, 0) : t \in Scratch(k), f \in Forms(b)} : k \in AllKinds(b)}

\* Each register in each role; one assignment of registers.
Rotations == {[sp |-> "esi", op |-> "edi", ip |-> "ebp"], [sp |-> "edi", op |-> "ebp", ip |-> "esi"],
              [sp |-> "ebp", op |-> "esi", ip |-> "edi"]}
OneStart == {[sp |-> "esi", op |-> "edi", ip |-> "ebp"]}

\* Dead code in one form of each handler.
Ahead         == One("jmp", Imm(64, 4))
FlagsOnly(t)  == {I("test", Dw(t[1]), Dw(t[2])), I("cmp", Wo(t[2]), Wo("esp")), Ahead}
\* Code that writes the third scratch register, which is free before the
\* handler begins and after its flags are stored.
Writes(t) == {One("not", Dw(t[3])), I("mov", Dw(t[3]), Dw(t[1])), I("lea", Dw(t[3]), MDis("esp", 8, 4)),
              I("add", Dw(t[3]), Dw(t[1]))}
EaxFirst(k) == {t \in Scratch(k) : t[1] = "eax"}
Dead(b) == UNION {
  {W(k, t, f, <<j>>, at) : t \in EaxFirst(k), f \in {F(b, "mreg", "add", "jmp")},
                           j \in FlagsOnly(CHOOSE t \in EaxFirst(k) : TRUE), at \in 0..7}
  \cup {W(k, t, f, <<j>>, at) : t \in EaxFirst(k), f \in {F(b, "mreg", "add", "jmp")},
                           j \in Writes(CHOOSE t \in EaxFirst(k) : TRUE), at \in {0, 20}} : k \in AllKinds(b)}

\* Few handlers, for recordings of several.
Short(b) == UNION {{W(k, t, F(b, "mreg", "add", "ret"), <<>>, 0) : t \in EaxFirst(k)} : k \in AllKinds(b)}
=============================================================================

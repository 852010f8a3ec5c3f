----------------------------- MODULE MCRecording -----------------------------
(* Recording with the handlers of xx_vm32 and of xx_vm_x32. *)
EXTENDS MCPrograms

Vm32 == INSTANCE VmHandles
X32  == INSTANCE VmHandlesX32

Rows == [vm32 |-> Vm32!st_handle_func, x32 |-> X32!st_handle_func]
Handle(b, h, w, c, e)      == IF b = "vm32" THEN Vm32!func_handle(h, w, c, e) ELSE X32!func_handle(h, w, c, e)
Sregs(b, w, before)        == IF b = "vm32" THEN Vm32!init_vmsreg2(w, before) ELSE X32!init_vmsreg2(w, before)
Goes(b, unknown, failed)   == IF b = "vm32" THEN Vm32!GoesOn(unknown, failed) ELSE X32!GoesOn(unknown, failed)
Keep(b, i)                 == IF b = "vm32" THEN TRUE ELSE X32!Keeps(i)
Patience == [vm32 |-> 3, x32 |-> 5]

Plain32 == Plain("vm32")
PlainX  == Plain("x32")
Dead32  == Dead("vm32")
DeadX   == Dead("x32")
Few     == {w \in Short("vm32") : w.kind \in {"0100", "0300", "0400", "0900", "0b10", "1300", "0f00", "none"}}
Two     == {w \in Short("x32") : w.kind \in {"0100", "none"}}

\* One handler of any kind and form in each assignment of registers; one with
\* dead code in it; several, of which one may fail, with little room; a known
\* and an unknown one in every order.
Plan(b, from, of, max, failures, room) ==
  [build |-> b, starts |-> from, windows |-> of, max |-> max, faults |-> failures, room |-> room]
Traces ==
  [plain |-> Plan("vm32", Rotations, Plain32, 1, 0, 30),
   dead  |-> Plan("vm32", OneStart, Dead32, 1, 0, 30),
   short |-> Plan("vm32", OneStart, Few, 3, 1, 12),
   x32   |-> Plan("x32", Rotations, PlainX, 1, 0, 30),
   dead2 |-> Plan("x32", OneStart, DeadX, 1, 0, 30),
   lost  |-> Plan("x32", OneStart, Two, 6, 0, 30)]
=============================================================================

---------------------------- MODULE MCRecording64 ----------------------------
(* Recording with the handlers of xx_vm_x64. *)
EXTENDS MCPrograms

X64 == INSTANCE VmHandles64

Rows == [x64 |-> X64!st_handle_func]
Handle(b, h, w, c, e)    == X64!func_handle(h, w, c, e)
Sregs(b, w, before)      == X64!init_vmsreg2(w, before)
Goes(b, unknown, failed) == X64!GoesOn(unknown, failed)
Keep(b, i)               == X64!Keeps(i)
Patience == [x64 |-> 5]

\* The handlers that are recorded in xx_vm_x64 alone or otherwise.
Plain64 == Plain("x64")
Dead64  == Dead("x64")
Few == {w \in Short("x64") : w.kind \in {"0100", "10303", "10500", "0703", "0b11", "0f01", "none"}}

\* One handler of any kind and form in each assignment of registers; one with
\* dead code in it; several, of which one may fail, with little room.
Plan(from, of, max, failures, room) ==
  [build |-> "x64", starts |-> from, windows |-> of, max |-> max, faults |-> failures, room |-> room]
Traces ==
  [plain |-> Plan(Rotations, Plain64, 1, 0, 30),
   dead  |-> Plan(OneStart, Dead64, 1, 0, 30),
   short |-> Plan(OneStart, Few, 2, 1, 12)]
=============================================================================

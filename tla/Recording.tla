------------------------------ MODULE Recording ------------------------------
(***************************************************************************)
(* xx_start_execute: the loop that emulates the traced program             *)
(* one window at a time (get_inst_context), finds the registers of the     *)
(* virtual machine in it (init_vmsreg2), tells the handler it is           *)
(* (vm_handle) and appends an instruction and its item to the recording.   *)
(*                                                                         *)
(* The traced program is chosen handler by handler by Choose and is not    *)
(* part of the system.                                                     *)
(***************************************************************************)
EXTENDS VmPatterns, VmCode, SequencesExt

CONSTANTS
    Plans,                  \* the programs: [build, starts, windows, max, faults, room] by name, where build is
                            \* the plugin that traces it, starts are the assignments of registers it may begin
                            \* with, windows the handlers it may consist of ([kind, t, f, junk, at]), and the
                            \* bounds are max handlers between entry and end, faults windows in which
                            \* something fails, and room instructions of a window (MAX_INST)
    rows,                   \* the rows of st_handle_func, by build
    handle(_, _, _, _, _),  \* the handlers of its rows
    sregs(_, _, _),         \* init_vmsreg2
    goes_on(_, _, _),       \* whether the loop goes on
    keeps(_, _),            \* whether an instruction stays in the window
    patience                \* the unknown handlers in a row that end a recording, by build

ASSUME PlansAssumption ==
    \A p \in DOMAIN Plans : /\ Plans[p].starts \subseteq Roles
                            /\ Plans[p].max \in Nat /\ Plans[p].faults \in Nat /\ Plans[p].room \in Nat \ {0}
\* No row is named as what is written for an unknown handler.
ASSUME RowsAssumption ==
    \A p \in DOMAIN Plans : \A n \in DOMAIN rows[Plans[p].build] : rows[Plans[p].build][n] \notin {"1", "-1"}
\* The loop loses its patience with unknown handlers, and before that with
\* nothing but windows without registers.
ASSUME PatienceAssumption ==
    \A p \in DOMAIN Plans : LET b == Plans[p].build IN
        /\ patience[b] \in Nat \ {0}
        /\ \A u \in 0..patience[b], f \in 0..Plans[p].max + 2 : goes_on(b, u, f) => u < patience[b]
        /\ \A u \in 0..patience[b] - 1 : goes_on(b, u, 0)

VARIABLES
    plan,          \* the program that is traced
    traced,        \* registers of the traced machine
    handler,       \* the handler that is executed
    pending,       \* the instructions of it still to execute
    length,        \* the number of all its instructions
    windows,       \* handlers so far
    faults,        \* windows in which something failed
    pc,            \* where xx_start_execute is
    g_inst,        \* the window
    g_context,     \* the context before each instruction of it, and the last
    in_context,    \* the context a window starts with
    vm,            \* vm_sp, vm_ip, vm_opcode and those of the window before
    env_flag,      \* windows in a row without registers
    unknow_num,    \* unknown handlers in a row
    pause_flag,
    vm_opmz_x,     \* vm_opmz.x
    vm_opmz_data   \* vm_opmz_data.x

program == <<plan, traced, handler, pending, length, windows>>
vars == <<program, faults, pc, g_inst, g_context, in_context, vm, env_flag, unknow_num, pause_flag,
          vm_opmz_x, vm_opmz_data>>

Unset == [sp |-> None, ip |-> None, opcode |-> None, osp |-> None, oip |-> None, oopcode |-> None]
MAX_INST == Plans[plan].room
build    == Plans[plan].build
MayFail  == faults < Plans[plan].faults

Init ==
    /\ plan \in DOMAIN Plans /\ traced \in Plans[plan].starts
    /\ handler = "none" /\ pending = <<>> /\ length = 0 /\ windows = 0 /\ faults = 0
    /\ pc = "loop" /\ g_inst = <<>> /\ g_context = <<>>
    /\ in_context = [r |-> [r \in {"eax", "ebx", "ecx", "edx", "esi", "edi", "ebp", "esp"} |->
                              IF r = "esp" THEN Ptr("stack", 0) ELSE Bytes(Term(r, 0, <<>>), WORD)],
                     eflag |-> Bytes(Term("eflag", 0, <<>>), WORD), mem |-> <<>>, step |-> 0]
    /\ vm = Unset
    /\ env_flag = 0 /\ unknow_num = 0 /\ pause_flag = FALSE
    /\ vm_opmz_x = <<>> /\ vm_opmz_data = <<>>

-----------------------------------------------------------------------------
(* The program.                                                            *)

\* The instructions of window v: dead code v.junk stands before position
\* v.at of its first part, or before the jump to the next handler.
Mixed(c, v) ==
  IF v.at <= Len(c[1]) THEN SubSeq(c[1], 1, v.at) \o v.junk \o SubSeq(c[1], v.at + 1, Len(c[1])) \o c[2]
  ELSE c[1] \o c[2] \o v.junk
Body(v) == Mixed(Code(v.kind, traced, v.t, v.f), v) \o Leave(traced, v.t[3], v.f)
\* A handler no row knows.
Nameless(v) == <<I("mov", Dw("eax"), Dw("ecx"))>> \o Leave(traced, v.t[3], v.f)

\* The jump that assigns the registers of the machine anew, and how it does.
TurningJump == IF WORD = 8 THEN "0f01" ELSE "0f00"
Turned == [sp |-> traced.op, op |-> traced.ip, ip |-> traced.sp]

\* The next window starts: memset of g_inst and g_context.
Choose ==
    /\ pc = "loop"
    /\ pc' = "execute" /\ g_inst' = <<>> /\ g_context' = <<in_context>>
    /\ windows' = windows + 1 /\ plan' = plan
    /\ \/ /\ windows = 0 /\ handler' = "0000" /\ traced' = traced
          /\ \E v \in Plans[plan].windows : pending' = Entry(traced, v.f) \o Leave(traced, "ecx", v.f)
       \/ /\ windows > 0 /\ windows <= Plans[plan].max
          /\ \E v \in Plans[plan].windows :
               /\ handler' = v.kind
               /\ CASE v.kind = TurningJump -> traced' = Turned /\ pending' = Jump(traced, Turned, "ecx", v.f) \o Leave(Turned, "ecx", v.f)
                    [] v.kind = "0f00" /\ WORD = 8 -> traced' = traced /\ pending' = Turn(traced) \o Leave(traced, "ecx", v.f)
                    [] v.kind = "none" -> traced' = traced /\ pending' = Nameless(v)
                    [] OTHER           -> traced' = traced /\ pending' = Body(v)
       \/ windows = Plans[plan].max + 1 /\ handler' = "1200" /\ traced' = traced /\ pending' = End(traced)
    /\ length' = Len(SelectSeq(pending', LAMBDA i : keeps(build, i)))
    /\ UNCHANGED <<faults, in_context, vm, env_flag, unknow_num, pause_flag, vm_opmz_x, vm_opmz_data>>

\* The user asks for a pause.
AskPause ==
    /\ pc # "end" /\ ~pause_flag /\ MayFail
    /\ pause_flag' = TRUE /\ faults' = faults + 1
    /\ UNCHANGED <<program, pc, g_inst, g_context, in_context, vm, env_flag, unknow_num, vm_opmz_x, vm_opmz_data>>

-----------------------------------------------------------------------------
(* get_inst_context.                                                       *)

Pause ==
    /\ pc = "execute" /\ pause_flag
    /\ pause_flag' = FALSE /\ pc' = "end"
    /\ UNCHANGED <<program, faults, g_inst, g_context, in_context, vm, env_flag, unknow_num, vm_opmz_x, vm_opmz_data>>

\* The program reaches an API, an address that cannot be read, or an
\* instruction that is not known or not emulated.
GiveUp ==
    /\ pc = "execute" /\ ~pause_flag /\ MayFail
    /\ faults' = faults + 1 /\ pc' = "end"
    /\ UNCHANGED <<program, g_inst, g_context, in_context, vm, env_flag, unknow_num, pause_flag, vm_opmz_x, vm_opmz_data>>

\* Mutant: one instruction too many fits.
ExecuteTooMany ==
    /\ pc = "execute" /\ ~pause_flag /\ keeps(build, Head(pending))
    /\ LET i   == Head(pending)
           n   == Len(g_inst) + 1
           out == xx_execute(i, g_context[n])
       IN /\ pending' = Tail(pending)
          /\ IF EndsWindow(i) \/ n <= MAX_INST
             THEN g_inst' = Append(g_inst, i) /\ g_context' = Append(g_context, out)
             ELSE g_inst' = <<>> /\ g_context' = <<out>>
          /\ pc' = IF EndsWindow(i) THEN "init" ELSE "execute"
    /\ UNCHANGED <<plan, traced, handler, length, windows, faults, in_context, vm, env_flag, unknow_num, pause_flag, vm_opmz_x, vm_opmz_data>>
Execute ==
    /\ pc = "execute" /\ ~pause_flag /\ keeps(build, Head(pending))
    /\ LET i   == Head(pending)
           n   == Len(g_inst) + 1
           out == xx_execute(i, g_context[n])
       IN /\ pending' = Tail(pending)
          /\ IF EndsWindow(i) \/ n < MAX_INST
             THEN g_inst' = Append(g_inst, i) /\ g_context' = Append(g_context, out)
             ELSE g_inst' = <<>> /\ g_context' = <<out>>
          /\ pc' = IF EndsWindow(i) THEN "init" ELSE "execute"
    /\ UNCHANGED <<plan, traced, handler, length, windows, faults, in_context, vm, env_flag, unknow_num, pause_flag, vm_opmz_x, vm_opmz_data>>

\* A jump to an address is executed and not kept: the next instruction takes
\* its place in g_inst and its context in g_context.
Skip ==
    /\ pc = "execute" /\ ~pause_flag /\ ~keeps(build, Head(pending))
    /\ pending' = Tail(pending)
    /\ g_context' = [g_context EXCEPT ![Len(g_context)] = xx_execute(Head(pending), @)]
    /\ UNCHANGED <<plan, traced, handler, length, windows, faults, pc, g_inst, in_context, vm, env_flag, unknow_num,
                   pause_flag, vm_opmz_x, vm_opmz_data>>

-----------------------------------------------------------------------------
(* init_vmsreg2.                                                           *)

InitVmsreg2 ==
    /\ pc = "init" /\ pc' = "handle"
    /\ \E found \in sregs(build, g_inst, vm) :
         LET old(now, before) == IF now = None THEN before ELSE now
         IN /\ env_flag' = IF found.ok THEN 0 ELSE env_flag + 1
            /\ vm' = found.roles @@ [osp |-> old(vm.sp, vm.osp), oip |-> old(vm.ip, vm.oip),
                                    oopcode |-> old(vm.opcode, vm.oopcode)]
    /\ UNCHANGED <<program, faults, g_inst, g_context, in_context, unknow_num, pause_flag, vm_opmz_x, vm_opmz_data>>

-----------------------------------------------------------------------------
(* vm_handle, and the rest of the loop.                                    *)

Codes == {rows[build][n] : n \in DOMAIN rows[build]}
What(n) == handle(build, rows[build][n], g_inst, g_context, vm)
\* The rows that recognise the window.
Matching   == {n \in DOMAIN rows[build] : What(n).match}
First(n, S) == n \in S /\ \A m \in S : n <= m

Written(idef, out) == [src_seq |-> Len(vm_opmz_x), idef |-> idef, var |-> out]

\* Mutant: a handler that is recognised does not end the row of unknown ones.
LoopOn(iret) ==
    /\ unknow_num' = IF iret = "-1" THEN unknow_num + 1 ELSE unknow_num
    /\ IF iret = "1200" \/ ~goes_on(build, unknow_num', env_flag)
       THEN pc' = "end" /\ UNCHANGED in_context
       ELSE pc' = "loop" /\ in_context' = g_context[Len(g_context)]
\* After vm_handle has returned iret.
Loop(iret) ==
    /\ unknow_num' = IF iret = "-1" THEN unknow_num + 1 ELSE 0
    /\ IF iret = "1200" \/ ~goes_on(build, unknow_num', env_flag)
       THEN pc' = "end" /\ UNCHANGED in_context
       ELSE pc' = "loop" /\ in_context' = g_context[Len(g_context)]

VmHandle ==
    /\ pc = "handle"
    /\ \E found \in {Matching}, fails \in {"nothing", "item", "instruction"} :
       LET left == {n \in found : fails = "item" => ~First(n, found)}
       IN  \* The item of the first row or the instruction cannot be appended.
           /\ fails # "nothing" => MayFail /\ found # {}
           /\ faults' = IF fails = "nothing" THEN faults ELSE faults + 1
           /\ \/ \E n \in left :
                  /\ First(n, left)
                  /\ vm_opmz_data' = Append(vm_opmz_data, What(n).item)
                  /\ \/ /\ fails # "instruction"
                        /\ vm_opmz_x' = Append(vm_opmz_x, Written(rows[build][n], What(n).out))
                        /\ Loop(rows[build][n])
                     \/ fails = "instruction" /\ UNCHANGED vm_opmz_x /\ Loop("-1")
              \/ /\ left = {} /\ fails # "instruction"
                 /\ vm_opmz_x' = Append(vm_opmz_x, Written("1", Zeros(WORD)))
                 /\ vm_opmz_data' = Append(vm_opmz_data, Blank)
                 /\ Loop("-1")
    /\ UNCHANGED <<program, g_inst, g_context, vm, env_flag, pause_flag>>

Next == Choose \/ AskPause \/ Pause \/ GiveUp \/ Execute \/ Skip \/ InitVmsreg2 \/ VmHandle

Spec == Init /\ [][Next]_vars

-----------------------------------------------------------------------------
(* Properties.                                                             *)

\* The counts stay in their bounds and there is a context before each
\* instruction of the window and one after the last.
TypeOK ==
    /\ traced \in Roles /\ windows \in 0..Plans[plan].max + 2 /\ faults \in 0..Plans[plan].faults
    /\ pc \in {"loop", "execute", "init", "handle", "end"}
    /\ Len(g_inst) <= MAX_INST /\ (windows > 0 => Len(g_context) = Len(g_inst) + 1)
    /\ unknow_num \in 0..patience[build] /\ env_flag \in 0..windows

\* The last handler has been recorded, all its instructions were in the
\* window, and nothing failed.
Recorded == pc \in {"loop", "end"} /\ windows > 0 /\ Len(vm_opmz_x) = windows
Entire    == Recorded /\ faults = 0 /\ Len(g_inst) = length
Last1    == vm_opmz_x[Len(vm_opmz_x)]

\* xx_vm_x64 does not find vm_sp in a jump, whose first address is that of an
\* lea without a base.  After one that assigns the registers anew it looks for
\* the end of the machine with the old vm_sp until another handler shows it.
LostEnd == WORD = 8 /\ handler = "1200" /\ vm.osp # <<traced.sp, Whole>>

\* A handler is recorded as the instruction it is, whatever registers and
\* forms it uses and whatever dead code stands in it; one that no row
\* describes is recorded as unknown.
Recognised == Entire /\ ~LostEnd => Last1.idef = IF handler = "none" THEN "1" ELSE handler

\* The registers init_vmsreg2 finds are those of the traced machine, also
\* across a jump that assigns them anew.  (xx_vm_x64 finds vm_sp only where
\* the window reads or writes its stack through it.)
Registers == Entire /\ handler # "1200" =>
    /\ vm.sp = <<traced.sp, Whole>> \/ (WORD = 8 /\ handler \in {"0f00", "0f01", "none"} /\ vm.sp = None)
    /\ vm.ip = <<traced.ip, Whole>> /\ vm.opcode = <<traced.op, Whole>>

\* Handlers whose items are wrong: the operands of nand (in xx_vm_x64 of nor
\* too) are written over each other, and div leaves its first place empty.
\* xx_vm_x64 records the address of a store in as many bytes as are stored, the
\* value a product is computed from twice and the other factor not at all, and
\* nothing of popfq.
Misfiled == {"0900", "0901", "0902", "0a00", "0a10",
             "10900", "10901", "10902", "10903", "10d00", "10d01", "10d02", "10d03", "10a00", "10a10", "10a23", "10a33",
             "10500", "10610", "10611", "10612", "10c00", "10c10", "10c23", "10c33", "1303"}

\* The item and the instruction that are recorded for a handler hold its
\* operands as they were on the stack of the machine when it started and its
\* result as it is there when it ended, and the item of an operation the flags
\* it leaves there.  (A constant stored through [sp + 0] instead of [sp] is
\* recorded as its own result by xx_vm32.)
Tells(d, t) ==
    /\ d.item_num = Len(t.var) /\ SubSeq(d.var, 1, d.item_num) = t.var
    /\ (build = "vm32" /\ handler = "0200") \/ d.result = t.result
    /\ Last1.var = t.out
TellsWhatHappened == Entire =>
    LET data == vm_opmz_data[Len(vm_opmz_data)]
        last == g_context[Len(g_context)]
    IN  /\ handler \in Codes \ Misfiled => Tells(data, Truth(handler, g_context[1], last, traced))
        /\ handler \in WithFlags => data.flag_end = FlagsOf(last, traced)

\* Whatever fails and whatever part of a window is lost to MAX_INST, a handler
\* is never recorded as another instruction, and would not be if the table
\* were sorted otherwise: no window fits two rows.
NotAnother ==
    /\ pc = "handle" => Cardinality(Matching) <= 1
    /\ Recorded => Last1.idef \in {handler, "1"}

\* Three unknown handlers in a row (five in the builds for x64dbg) end the
\* recording, and nothing but the end of the machine, such a row, a failure or
\* a window that is too long does.
UnknownRow(n) == n >= patience[build] /\ \A k \in n - patience[build] + 1..n : vm_opmz_x[k].idef = "1"
StopsWhenLost ==
    /\ \A n \in 1..Len(vm_opmz_x) - 1 : ~UnknownRow(n)
    /\ pc = "end" /\ Entire => Last1.idef = "1200" \/ UnknownRow(Len(vm_opmz_x))
=============================================================================

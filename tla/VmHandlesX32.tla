---------------------------- MODULE VmHandlesX32 ----------------------------
(***************************************************************************)
(* vm_sreg.c, vm_handle_*.c and the loop of xx_vm_x32, the plugin for the  *)
(* 32-bit x64dbg.  Its sources began as a copy of those of xx_vm32; the    *)
(* rows and the search for the registers are the same except where a       *)
(* definition of its own stands here.                                      *)
(***************************************************************************)
EXTENDS VmPatterns

Vm32 == INSTANCE VmHandles

init_vmsreg2(w, before) == Vm32!init_vmsreg2(w, before)

\* Five unknown handlers, or three windows without registers, end the loop.
GoesOn(unknown, failed) == unknown < 5 /\ failed <= 2
\* A jump to an address does not stay in the window.
Keeps(i) == ~(i.op = "jmp" /\ i.item[1].t # "REG")

----------------------------------------------------------------------------
(* The rows that are not those of xx_vm32.                                 *)

\* Stored through [sp] or through [sp + 0], the result is the address.
H0200(w, c, e) ==
  LET to == Foremost(Stores(w, e.sp, 0, {4}, LAMBDA o : o.size = 4))
      v  == R(c, to, w[to].item[2].def, 4)
  IN  Check(/\ Grows(w, e.sp, 4) /\ to # 0
            /\ Cardinality(Finds(w, movx, IsReg, LAMBDA o : Vm32!OfOpcode(o, e))) = 2
            /\ ~FromRegs(w) /\ ~Vm32!SetsKey(w),
            With(Seen(c, to, 1, <<v>>, ESP(c, to)), v))

\* A word is read for the byte that is popped.
H0302(w, c, e) == PopAs(w, c, e, 2, 1, 2, LAMBDA d, t : InReg(t, d))

\* The constant that is added to sp must be 4.
H1300(w, c, e) ==
  LET at == Hindmost({n \in DOMAIN w : w[n].op = "popfd"})
  IN  Check(/\ Finds(w, {"push"}, LAMBDA o : At(o, e.sp, 0) /\ o.size = 4, AnyReg) # {}
            /\ Shrinks(w, e.sp, 4) /\ at # 0,
            Seen(c, at, 1, <<ESP(c, at)>>, c[at + 1].eflag))

----------------------------------------------------------------------------
(* The others.                                                             *)

H0000(w, c, e) == Vm32!H0000(w, c, e)
H0f00(w, c, e) == Vm32!H0f00(w, c, e)
H1200(w, c, e) == Vm32!H1200(w, c, e)
H1400(w, c, e) == Vm32!H1400(w, c, e)
H0100(w, c, e) == Vm32!H0100(w, c, e)
H0101(w, c, e) == Vm32!H0101(w, c, e)
H0102(w, c, e) == Vm32!H0102(w, c, e)
H0201(w, c, e) == Vm32!H0201(w, c, e)
H0202(w, c, e) == Vm32!H0202(w, c, e)
H0300(w, c, e) == Vm32!H0300(w, c, e)
H0301(w, c, e) == Vm32!H0301(w, c, e)
H0400(w, c, e) == Vm32!H0400(w, c, e)
H0401(w, c, e) == Vm32!H0401(w, c, e)
H0402(w, c, e) == Vm32!H0402(w, c, e)
H0b00(w, c, e) == Vm32!H0b00(w, c, e)
H0b01(w, c, e) == Vm32!H0b01(w, c, e)
H0b02(w, c, e) == Vm32!H0b02(w, c, e)
H0e00(w, c, e) == Vm32!H0e00(w, c, e)
H0e01(w, c, e) == Vm32!H0e01(w, c, e)
H0e02(w, c, e) == Vm32!H0e02(w, c, e)
H0b10(w, c, e) == Vm32!H0b10(w, c, e)
H0e10(w, c, e) == Vm32!H0e10(w, c, e)
H0900(w, c, e) == Vm32!H0900(w, c, e)
H0901(w, c, e) == Vm32!H0901(w, c, e)
H0902(w, c, e) == Vm32!H0902(w, c, e)
H0d00(w, c, e) == Vm32!H0d00(w, c, e)
H0d01(w, c, e) == Vm32!H0d01(w, c, e)
H0d02(w, c, e) == Vm32!H0d02(w, c, e)
H0c00(w, c, e) == Vm32!H0c00(w, c, e)
H0c10(w, c, e) == Vm32!H0c10(w, c, e)
H0a00(w, c, e) == Vm32!H0a00(w, c, e)
H0a10(w, c, e) == Vm32!H0a10(w, c, e)
H0500(w, c, e) == Vm32!H0500(w, c, e)
H0501(w, c, e) == Vm32!H0501(w, c, e)
H0502(w, c, e) == Vm32!H0502(w, c, e)
H0600(w, c, e) == Vm32!H0600(w, c, e)
H0601(w, c, e) == Vm32!H0601(w, c, e)
H0602(w, c, e) == Vm32!H0602(w, c, e)
H0700(w, c, e) == Vm32!H0700(w, c, e)
H0701(w, c, e) == Vm32!H0701(w, c, e)
H0800(w, c, e) == Vm32!H0800(w, c, e)
H1000(w, c, e) == Vm32!H1000(w, c, e)
H1001(w, c, e) == Vm32!H1001(w, c, e)
H1100(w, c, e) == Vm32!H1100(w, c, e)

----------------------------------------------------------------------------
\* The rows of the table in the order vm_handle() tries them.
st_handle_func ==
  <<"0000", "0100", "0101", "0102", "0200", "0201", "0202", "0300", "0301", "0302",
    "0400", "0401", "0402", "0500", "0501", "0502", "0600", "0601", "0602", "0700", "0701", "0800",
    "0900", "0901", "0902", "0a00", "0a10", "0b00", "0b01", "0b02", "0b10", "0c00", "0c10",
    "0d00", "0d01", "0d02", "0e00", "0e01", "0e02", "0e10", "0f00",
    "1000", "1001", "1100", "1200", "1300", "1400">>
func_handle(code, w, c, e) ==
  CASE code = "0000" -> H0000(w, c, e) [] code = "0f00" -> H0f00(w, c, e)
    [] code = "1200" -> H1200(w, c, e) [] code = "1400" -> H1400(w, c, e)
    [] code = "0100" -> H0100(w, c, e) [] code = "0101" -> H0101(w, c, e)
    [] code = "0102" -> H0102(w, c, e) [] code = "0200" -> H0200(w, c, e)
    [] code = "0201" -> H0201(w, c, e) [] code = "0202" -> H0202(w, c, e)
    [] code = "0300" -> H0300(w, c, e) [] code = "0301" -> H0301(w, c, e)
    [] code = "0302" -> H0302(w, c, e) [] code = "0400" -> H0400(w, c, e)
    [] code = "0401" -> H0401(w, c, e) [] code = "0402" -> H0402(w, c, e)
    [] code = "0b00" -> H0b00(w, c, e) [] code = "0b01" -> H0b01(w, c, e)
    [] code = "0b02" -> H0b02(w, c, e) [] code = "0e00" -> H0e00(w, c, e)
    [] code = "0e01" -> H0e01(w, c, e) [] code = "0e02" -> H0e02(w, c, e)
    [] code = "0b10" -> H0b10(w, c, e) [] code = "0e10" -> H0e10(w, c, e)
    [] code = "0900" -> H0900(w, c, e) [] code = "0901" -> H0901(w, c, e)
    [] code = "0902" -> H0902(w, c, e) [] code = "0d00" -> H0d00(w, c, e)
    [] code = "0d01" -> H0d01(w, c, e) [] code = "0d02" -> H0d02(w, c, e)
    [] code = "0c00" -> H0c00(w, c, e) [] code = "0c10" -> H0c10(w, c, e)
    [] code = "0a00" -> H0a00(w, c, e) [] code = "0a10" -> H0a10(w, c, e)
    [] code = "0500" -> H0500(w, c, e) [] code = "0501" -> H0501(w, c, e)
    [] code = "0502" -> H0502(w, c, e) [] code = "0600" -> H0600(w, c, e)
    [] code = "0601" -> H0601(w, c, e) [] code = "0602" -> H0602(w, c, e)
    [] code = "0700" -> H0700(w, c, e) [] code = "0701" -> H0701(w, c, e)
    [] code = "0800" -> H0800(w, c, e) [] code = "1000" -> H1000(w, c, e)
    [] code = "1001" -> H1001(w, c, e) [] code = "1100" -> H1100(w, c, e)
    [] code = "1300" -> H1300(w, c, e)
=============================================================================

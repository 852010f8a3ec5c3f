--------------------------- MODULE RecordingProofs ---------------------------
(* What holds of a recording for every table of handlers, every program and *)
(* every search for the registers of the virtual machine.                   *)
EXTENDS Recording, TLAPS

-----------------------------------------------------------------------------
(* Sequences.                                                              *)

IsSeq(s) == \E S : s \in Seq(S)

LEMMA EmptyIsSeq == ASSUME NEW s, s = <<>> PROVE IsSeq(s) /\ Len(s) = 0
<1>1. s \in Seq({}) /\ Len(s) = 0
  OBVIOUS
<1> QED
  BY <1>1 DEF IsSeq

\* Appending keeps what was there.
LEMMA AppendSeq ==
    ASSUME NEW s, IsSeq(s), NEW e
    PROVE  /\ IsSeq(Append(s, e)) /\ Len(s) \in Nat /\ Len(Append(s, e)) = Len(s) + 1
           /\ Append(s, e)[Len(s) + 1] = e
           /\ \A k \in 1..Len(s) : Append(s, e)[k] = s[k]
<1>1. PICK S : s \in Seq(S)
  BY DEF IsSeq
<1>2. s \in Seq(S \cup {e}) /\ e \in S \cup {e}
  BY <1>1
<1>3. Append(s, e) \in Seq(S \cup {e})
  BY <1>2
<1> QED
  BY <1>2, <1>3 DEF IsSeq

LEMMA ReplaceSeq ==
    ASSUME NEW s, IsSeq(s), NEW k \in 1..Len(s), NEW e
    PROVE  IsSeq([s EXCEPT ![k] = e]) /\ Len([s EXCEPT ![k] = e]) = Len(s)
<1>1. PICK S : s \in Seq(S)
  BY DEF IsSeq
<1>2. s \in Seq(S \cup {e}) /\ e \in S \cup {e}
  BY <1>1
<1>3. /\ [s EXCEPT ![k] = e] \in Seq(S \cup {e})
      /\ Len([s EXCEPT ![k] = e]) = Len(s)
  BY <1>2
<1> QED
  BY <1>3 DEF IsSeq

-----------------------------------------------------------------------------
(* The inductive invariant.                                                *)

\* A window has room for one more instruction while it is executed, there is a
\* context around each instruction, and each window counts once.
Counts ==
    /\ pc # "loop" => windows > 0
    /\ pc = "execute" => Len(g_inst) < MAX_INST
    /\ pc \in {"execute", "init"} => env_flag < windows
    /\ pc # "end" => unknow_num < patience[build]
    /\ pause_flag => faults > 0

\* What the loop counts are the unknown handlers at the end of the recording;
\* one that could not be recorded counts with them.
Trailing ==
    LET m == Len(vm_opmz_x) IN
    /\ faults = 0 => /\ unknow_num <= m
                     /\ \A k \in 1..m : k > m - unknow_num => vm_opmz_x[k].idef = "1"
    /\ unknow_num < m => \E k \in m - unknow_num..m : vm_opmz_x[k].idef # "1"

\* Each window is recorded once, when its handler has been looked for, unless
\* its instruction could not be appended.
OnePerWindow == faults = 0 =>
    /\ pc \in {"execute", "init", "handle"} => Len(vm_opmz_x) = windows - 1
    /\ pc = "loop" => Len(vm_opmz_x) = windows
    /\ pc = "end" => Len(vm_opmz_x) \in {windows - 1, windows}

\* No row of unknown handlers is followed by another record, and a recording
\* in which nothing failed ends for a reason.
NoRowInside == \A m \in 1..Len(vm_opmz_x) - 1 : ~UnknownRow(m)
EndsForAReason ==
    pc = "end" /\ Recorded /\ faults = 0 /\ env_flag = 0 =>
        Last1.idef = "1200" \/ unknow_num >= patience[build]

RInv ==
    /\ plan \in DOMAIN Plans
    /\ IsSeq(g_inst) /\ IsSeq(g_context) /\ IsSeq(vm_opmz_x)
    /\ TypeOK /\ Counts /\ Trailing /\ OnePerWindow /\ NoRowInside /\ EndsForAReason

LEMMA PlanFacts ==
    ASSUME plan \in DOMAIN Plans
    PROVE  /\ Plans[plan].starts \subseteq Roles
           /\ Plans[plan].max \in Nat /\ Plans[plan].faults \in Nat
           /\ MAX_INST \in Nat \ {0} /\ patience[build] \in Nat \ {0}
           /\ \A u \in 0..patience[build], f \in 0..Plans[plan].max + 2 :
                goes_on(build, u, f) => u < patience[build]
           /\ \A u \in 0..patience[build] - 1 : goes_on(build, u, 0)
           /\ \A k \in DOMAIN rows[build] : rows[build][k] \notin {"1", "-1"}
BY PlansAssumption, PatienceAssumption, RowsAssumption DEF MAX_INST, build

LEMMA RInit == Init => RInv
<1> SUFFICES ASSUME Init PROVE RInv
  OBVIOUS
<1> USE PlanFacts DEF Init
<1>1. IsSeq(g_inst) /\ IsSeq(g_context) /\ IsSeq(vm_opmz_x) /\ Len(g_inst) = 0 /\ Len(vm_opmz_x) = 0
  BY EmptyIsSeq
<1>2. TypeOK
  BY <1>1 DEF TypeOK
<1>3. Counts /\ Trailing /\ OnePerWindow
  BY <1>1 DEF Counts, Trailing, OnePerWindow
<1>4. NoRowInside /\ EndsForAReason
  BY <1>1 DEF NoRowInside, EndsForAReason, Recorded
<1> QED
  BY <1>1, <1>2, <1>3, <1>4 DEF RInv

\* Nothing is recorded by the steps that only execute the program.
LEMMA NothingRecorded ==
    ASSUME RInv, UNCHANGED <<plan, vm_opmz_x, unknow_num>>,
           pc' = "end" => faults' > 0, faults' = 0 => faults = 0
    PROVE  Trailing' /\ NoRowInside' /\ EndsForAReason' /\ IsSeq(vm_opmz_x)'
BY DEF RInv, TypeOK, Trailing, NoRowInside, UnknownRow, EndsForAReason, Recorded, Last1, build

\* The machine's registers stay a permutation when a jump assigns them anew.
LEMMA TurnedRoles == traced \in Roles => Turned \in Roles
BY DEF Roles, Turned

LEMMA ChooseInv == RInv /\ Choose => RInv'
<1> SUFFICES ASSUME RInv, Choose PROVE RInv'
  OBVIOUS
<1> USE PlanFacts DEF RInv
<1>1. /\ pc = "loop" /\ pc' = "execute" /\ g_inst' = <<>> /\ g_context' = <<in_context>>
      /\ windows' = windows + 1 /\ plan' = plan
      /\ UNCHANGED <<faults, env_flag, unknow_num, pause_flag, vm_opmz_x>>
  BY DEF Choose
<1>2. windows <= Plans[plan].max + 1
  BY DEF Choose, TypeOK
<1>3. traced' \in Roles
  <2>1. traced' \in {traced, Turned}
    BY DEF Choose
  <2> QED
    BY <2>1, TurnedRoles DEF TypeOK
<1>4. IsSeq(g_inst)' /\ Len(g_inst)' = 0 /\ IsSeq(g_context)' /\ Len(g_context)' = 1
  <2>1. <<in_context>> \in Seq({in_context}) /\ Len(<<in_context>>) = 1
    OBVIOUS
  <2> QED
    BY <1>1, <2>1, EmptyIsSeq DEF IsSeq
<1>5. TypeOK'
  BY <1>1, <1>2, <1>3, <1>4 DEF TypeOK, MAX_INST, build
<1>6. Counts' /\ OnePerWindow'
  BY <1>1, <1>4 DEF Counts, OnePerWindow, TypeOK, MAX_INST, build
<1> QED
  BY <1>1, <1>4, <1>5, <1>6, NothingRecorded

LEMMA ExecuteInv == RInv /\ Execute => RInv'
<1> SUFFICES ASSUME RInv, Execute PROVE RInv'
  OBVIOUS
<1> USE PlanFacts DEF RInv
<1>1. /\ pc = "execute" /\ pc' \in {"init", "execute"}
      /\ UNCHANGED <<plan, traced, windows, faults, env_flag, unknow_num, pause_flag, vm_opmz_x>>
  BY DEF Execute
<1>2. Len(g_context) = Len(g_inst) + 1 /\ Len(g_inst) < MAX_INST /\ windows > 0
  BY <1>1 DEF Counts, TypeOK
<1>3. \E i, c : \/ /\ g_inst' = Append(g_inst, i) /\ g_context' = Append(g_context, c)
                   /\ pc' = "execute" => Len(g_inst) + 1 < MAX_INST
                \/ g_inst' = <<>> /\ g_context' = <<c>>
  BY DEF Execute
<1>4. PICK i, c : \/ /\ g_inst' = Append(g_inst, i) /\ g_context' = Append(g_context, c)
                     /\ pc' = "execute" => Len(g_inst) + 1 < MAX_INST
                  \/ g_inst' = <<>> /\ g_context' = <<c>>
  BY <1>3
<1>5. /\ IsSeq(g_inst)' /\ IsSeq(g_context)'
      /\ Len(g_inst)' <= MAX_INST /\ Len(g_context)' = Len(g_inst)' + 1
      /\ pc' = "execute" => Len(g_inst)' < MAX_INST
  <2>1. CASE g_inst' = Append(g_inst, i) /\ g_context' = Append(g_context, c)
             /\ (pc' = "execute" => Len(g_inst) + 1 < MAX_INST)
    <3>1. /\ IsSeq(Append(g_inst, i)) /\ Len(Append(g_inst, i)) = Len(g_inst) + 1
          /\ Len(g_inst) \in Nat
      BY AppendSeq
    <3>2. IsSeq(Append(g_context, c)) /\ Len(Append(g_context, c)) = Len(g_context) + 1
      BY AppendSeq
    <3> QED
      BY <2>1, <3>1, <3>2, <1>2
  <2>2. CASE g_inst' = <<>> /\ g_context' = <<c>>
    <3>1. <<c>> \in Seq({c}) /\ Len(<<c>>) = 1
      OBVIOUS
    <3>2. IsSeq(g_inst') /\ Len(g_inst') = 0
      BY <2>2, EmptyIsSeq
    <3>3. IsSeq(g_context') /\ Len(g_context') = 1
      BY <2>2, <3>1 DEF IsSeq
    <3> QED
      BY <3>2, <3>3
  <2> QED
    BY <1>4, <2>1, <2>2
<1>6. TypeOK'
  BY <1>1, <1>2, <1>5 DEF TypeOK, MAX_INST, build
<1>7. Counts' /\ OnePerWindow'
  BY <1>1, <1>2, <1>5 DEF Counts, OnePerWindow, MAX_INST, build
<1> QED
  BY <1>1, <1>5, <1>6, <1>7, NothingRecorded

LEMMA SkipInv == RInv /\ Skip => RInv'
<1> SUFFICES ASSUME RInv, Skip PROVE RInv'
  OBVIOUS
<1> USE PlanFacts DEF RInv
<1>1. /\ pc = "execute"
      /\ UNCHANGED <<plan, traced, pc, g_inst, windows, faults, env_flag, unknow_num, pause_flag, vm_opmz_x>>
      /\ \E c : g_context' = [g_context EXCEPT ![Len(g_context)] = c]
  BY DEF Skip
<1>2. Len(g_context) = Len(g_inst) + 1 /\ Len(g_inst) \in Nat
  BY <1>1, AppendSeq DEF Counts, TypeOK
<1>3. IsSeq(g_context)' /\ Len(g_context)' = Len(g_context)
  <2>1. PICK c : g_context' = [g_context EXCEPT ![Len(g_context)] = c]
    BY <1>1
  <2>2. Len(g_context) \in 1..Len(g_context)
    BY <1>2
  <2> QED
    BY <2>1, <2>2, ReplaceSeq
<1>4. TypeOK'
  BY <1>1, <1>2, <1>3 DEF TypeOK, MAX_INST, build
<1>5. Counts' /\ OnePerWindow'
  BY <1>1 DEF Counts, OnePerWindow, MAX_INST, build
<1> QED
  BY <1>1, <1>3, <1>4, <1>5, NothingRecorded

LEMMA StopsInv == RInv /\ (AskPause \/ Pause \/ GiveUp) => RInv'
<1> SUFFICES ASSUME RInv, AskPause \/ Pause \/ GiveUp PROVE RInv'
  OBVIOUS
<1> USE PlanFacts DEF RInv
<1>1. UNCHANGED <<plan, traced, windows, g_inst, g_context, env_flag, unknow_num, vm_opmz_x>>
  BY DEF AskPause, Pause, GiveUp, program
<1>2. /\ faults' \in 0..Plans[plan].faults
      /\ pc' = "end" \/ pc' = pc
      /\ pc' = "end" => faults' > 0 /\ pc \in {"execute"}
      /\ pause_flag' => faults' > 0
      /\ faults' = 0 => faults = 0
  BY DEF AskPause, Pause, GiveUp, Counts, TypeOK, MayFail
<1>3. TypeOK'
  BY <1>1, <1>2 DEF TypeOK, MAX_INST, build
<1>4. Counts' /\ OnePerWindow'
  BY <1>1, <1>2 DEF Counts, OnePerWindow, MAX_INST, build
<1> QED
  BY <1>1, <1>2, <1>3, <1>4, NothingRecorded

LEMMA InitVmsreg2Inv == RInv /\ InitVmsreg2 => RInv'
<1> SUFFICES ASSUME RInv, InitVmsreg2 PROVE RInv'
  OBVIOUS
<1> USE PlanFacts DEF RInv
<1>1. /\ pc = "init" /\ pc' = "handle" /\ env_flag' \in {0, env_flag + 1}
      /\ UNCHANGED <<plan, traced, windows, faults, g_inst, g_context, unknow_num, pause_flag, vm_opmz_x>>
  BY DEF InitVmsreg2, program
<1>2. TypeOK'
  BY <1>1 DEF TypeOK, Counts, MAX_INST, build
<1>3. Counts' /\ OnePerWindow'
  BY <1>1 DEF Counts, OnePerWindow, MAX_INST, build
<1> QED
  BY <1>1, <1>2, <1>3, NothingRecorded

\* One more record, of an unknown handler or of another one.
LEMMA RecordInv ==
    ASSUME RInv, pc = "handle", NEW x, vm_opmz_x' = Append(vm_opmz_x, x),
           \/ x.idef = "1" /\ Loop("-1")
           \/ x.idef \notin {"1", "-1"} /\ Loop(x.idef),
           UNCHANGED <<plan, traced, windows, g_inst, g_context, env_flag, pause_flag>>,
           faults' \in 0..Plans[plan].faults, faults' >= faults
    PROVE  RInv'
<1> DEFINE m == Len(vm_opmz_x)
<1> USE PlanFacts DEF RInv
<1>1. /\ IsSeq(vm_opmz_x)' /\ m \in Nat /\ Len(vm_opmz_x)' = m + 1 /\ vm_opmz_x'[m + 1] = x
      /\ \A k \in 1..m : vm_opmz_x'[k] = vm_opmz_x[k]
  BY AppendSeq
<1>2. /\ unknow_num \in 0..patience[build] - 1 /\ windows > 0
      /\ env_flag \in 0..Plans[plan].max + 2
      /\ patience[build] \in Nat \ {0} /\ build' = build /\ MAX_INST' = MAX_INST
  <2>1. patience[build] \in Nat \ {0}
    OBVIOUS
  <2>2. /\ unknow_num \in 0..patience[build] /\ unknow_num < patience[build] /\ windows > 0
        /\ env_flag \in 0..windows /\ windows \in 0..Plans[plan].max + 2
    BY DEF Counts, TypeOK
  <2>3. build' = build /\ MAX_INST' = MAX_INST
    BY DEF build, MAX_INST
  <2>4. Plans[plan].max \in Nat
    OBVIOUS
  <2> QED
    BY <2>1, <2>2, <2>3, <2>4
<1>3. /\ unknow_num' = IF x.idef = "1" THEN unknow_num + 1 ELSE 0
      /\ pc' \in {"loop", "end"}
      /\ pc' = "loop" => goes_on(build, unknow_num', env_flag)
      /\ pc' = "end" => x.idef = "1200" \/ ~goes_on(build, unknow_num', env_flag)
  BY DEF Loop
<1>4. unknow_num' \in 0..patience[build] /\ (pc' # "end" => unknow_num' < patience[build])
  BY <1>2, <1>3
<1>5. TypeOK'
  BY <1>2, <1>3, <1>4 DEF TypeOK
<1>6. Counts' /\ OnePerWindow'
  BY <1>1, <1>2, <1>3, <1>4 DEF Counts, OnePerWindow, TypeOK
<1>7. Trailing'
  <2>0. faults' = 0 => faults = 0
    BY DEF TypeOK
  <2>1. CASE x.idef = "1"
    <3> DEFINE M == Len(vm_opmz_x')
    <3>0. unknow_num' = unknow_num + 1 /\ unknow_num \in Nat /\ m \in Nat /\ M = m + 1
      BY <2>1, <1>1, <1>2, <1>3
    <3> HIDE DEF M
    <3>1. ASSUME faults' = 0
          PROVE  /\ unknow_num' <= M
                 /\ \A k \in 1..M : k > M - unknow_num' => vm_opmz_x'[k].idef = "1"
      <4>1. unknow_num <= m /\ \A k \in 1..m : k > m - unknow_num => vm_opmz_x[k].idef = "1"
        BY <2>0, <3>1 DEF Trailing
      <4>2. ASSUME NEW k \in 1..M, k > M - unknow_num'
            PROVE  vm_opmz_x'[k].idef = "1"
        <5>1. CASE k = m + 1
          BY <5>1, <2>1, <1>1
        <5>2. CASE k # m + 1
          <6>1. k \in 1..m /\ k > m - unknow_num
            BY <5>2, <4>2, <3>0
          <6> QED
            BY <6>1, <4>1, <1>1
        <5> QED
          BY <5>1, <5>2
      <4> QED
        BY <4>1, <4>2, <3>0
    <3>2. ASSUME unknow_num' < M
          PROVE  \E k \in M - unknow_num'..M : vm_opmz_x'[k].idef # "1"
      <4>1. unknow_num < m
        BY <3>0, <3>2
      <4>2. PICK k \in m - unknow_num..m : vm_opmz_x[k].idef # "1"
        BY <4>1 DEF Trailing
      <4>3. k \in 1..m /\ k \in M - unknow_num'..M
        BY <3>0, <4>1, <4>2
      <4> QED
        BY <1>1, <4>2, <4>3
    <3> QED
      BY <3>1, <3>2, Zenon DEF Trailing, M
  <2>2. CASE x.idef # "1"
    BY <2>2, <1>1, <1>2, <1>3 DEF Trailing
  <2> QED
    BY <2>1, <2>2
<1>8. NoRowInside'
  <2> SUFFICES ASSUME NEW k \in 1..m, UnknownRow(k)'
               PROVE  FALSE
    BY <1>1 DEF NoRowInside
  <2>1. k >= patience[build] /\ \A j \in k - patience[build] + 1..k : vm_opmz_x[j].idef = "1"
    <3>1. k >= patience[build] /\ \A j \in k - patience[build] + 1..k : vm_opmz_x'[j].idef = "1"
      BY <1>2 DEF UnknownRow
    <3>2. \A j \in k - patience[build] + 1..k : j \in 1..m
      BY <3>1, <1>1, <1>2
    <3> QED
      BY <3>1, <3>2, <1>1
  <2>2. k \notin 1..m - 1
    BY <2>1 DEF NoRowInside, UnknownRow
  <2>3. k = m /\ m - unknow_num..m \subseteq k - patience[build] + 1..k /\ unknow_num < m
    BY <2>1, <2>2, <1>1, <1>2
  <2> QED
    BY <2>1, <2>3 DEF Trailing
<1>9. EndsForAReason'
  <2> SUFFICES ASSUME pc' = "end", faults' = 0, env_flag = 0, x.idef # "1200"
               PROVE  unknow_num' >= patience[build]
    BY <1>1, <1>2 DEF EndsForAReason, Last1
  <2> QED
    BY <1>2, <1>3, <1>4
<1> QED
  BY <1>1, <1>5, <1>6, <1>7, <1>8, <1>9

\* A handler that was recognised and could not be recorded counts as unknown.
LEMMA UnrecordedInv ==
    ASSUME RInv, pc = "handle", UNCHANGED vm_opmz_x, Loop("-1"),
           UNCHANGED <<plan, traced, windows, g_inst, g_context, env_flag, pause_flag>>,
           faults' \in 0..Plans[plan].faults, faults' > 0
    PROVE  RInv'
<1> USE PlanFacts DEF RInv
<1>1. /\ unknow_num \in 0..patience[build] - 1 /\ windows > 0
      /\ patience[build] \in Nat \ {0} /\ build' = build /\ MAX_INST' = MAX_INST
      /\ Len(vm_opmz_x) \in Nat
  <2>1. patience[build] \in Nat \ {0}
    OBVIOUS
  <2>2. unknow_num \in 0..patience[build] /\ unknow_num < patience[build] /\ windows > 0
    BY DEF Counts, TypeOK
  <2>3. build' = build /\ MAX_INST' = MAX_INST
    BY DEF build, MAX_INST
  <2>4. Len(vm_opmz_x) \in Nat
    BY AppendSeq
  <2> QED
    BY <2>1, <2>2, <2>3, <2>4
<1>2. /\ unknow_num' = unknow_num + 1
      /\ pc' \in {"loop", "end"}
      /\ pc' = "loop" => goes_on(build, unknow_num', env_flag)
  BY DEF Loop
<1>3. unknow_num' \in 0..patience[build] /\ (pc' # "end" => unknow_num' < patience[build])
  <2>1. env_flag \in 0..Plans[plan].max + 2
    BY DEF TypeOK
  <2> QED
    BY <1>1, <1>2, <2>1
<1>4. TypeOK'
  BY <1>1, <1>2, <1>3 DEF TypeOK
<1>5. Counts' /\ OnePerWindow' /\ EndsForAReason'
  BY <1>1, <1>2, <1>3 DEF Counts, OnePerWindow, EndsForAReason, TypeOK
<1>6. Trailing'
  BY <1>1, <1>2 DEF Trailing
<1>7. NoRowInside'
  BY <1>1 DEF NoRowInside, UnknownRow
<1> QED
  BY <1>4, <1>5, <1>6, <1>7

LEMMA VmHandleInv == RInv /\ VmHandle => RInv'
<1> SUFFICES ASSUME RInv, VmHandle PROVE RInv'
  OBVIOUS
<1> USE PlanFacts DEF RInv
<1>1. /\ pc = "handle"
      /\ UNCHANGED <<plan, traced, windows, g_inst, g_context, env_flag, pause_flag>>
  BY DEF VmHandle, program
<1>2. faults' \in 0..Plans[plan].faults /\ faults' >= faults
  BY DEF VmHandle, MayFail, TypeOK
<1> DEFINE Kept(k) == /\ vm_opmz_x' = Append(vm_opmz_x, Written(rows[build][k], What(k).out))
                      /\ Loop(rows[build][k])
           Blanked == vm_opmz_x' = Append(vm_opmz_x, Written("1", Zeros(WORD))) /\ Loop("-1")
<1>3. \/ UNCHANGED vm_opmz_x /\ Loop("-1") /\ faults' > 0
      \/ \E x : /\ vm_opmz_x' = Append(vm_opmz_x, x)
                /\ \/ x.idef = "1" /\ Loop("-1")
                   \/ x.idef \notin {"1", "-1"} /\ Loop(x.idef)
  <2>1. \/ \E k \in DOMAIN rows[build] : Kept(k)
        \/ Blanked
        \/ faults' = faults + 1 /\ UNCHANGED vm_opmz_x /\ Loop("-1")
    BY DEF VmHandle, Matching
  <2>2. \A h, o : Written(h, o).idef = h
    BY DEF Written
  <2>3. CASE \E k \in DOMAIN rows[build] : Kept(k)
    <3>1. PICK k \in DOMAIN rows[build] : Kept(k)
      BY <2>3
    <3>2. Written(rows[build][k], What(k).out).idef = rows[build][k]
      BY <2>2
    <3>3. rows[build][k] \notin {"1", "-1"}
      OBVIOUS
    <3> QED
      BY <3>1, <3>2, <3>3
  <2>4. CASE Blanked
    BY <2>2, <2>4
  <2>5. CASE faults' = faults + 1 /\ UNCHANGED vm_opmz_x /\ Loop("-1")
    <3>1. faults \in Nat
      BY DEF TypeOK
    <3> QED
      BY <3>1, <2>5
  <2> QED
    BY <2>1, <2>3, <2>4, <2>5
<1> QED
  BY <1>1, <1>2, <1>3, RecordInv, UnrecordedInv

LEMMA RStep == RInv /\ [Next]_vars => RInv'
<1>1. RInv /\ UNCHANGED vars => RInv'
  BY DEF vars, program, RInv, TypeOK, Counts, Trailing, OnePerWindow, NoRowInside, UnknownRow,
         EndsForAReason, Recorded, Last1, MAX_INST, build
<1> QED
  BY <1>1, ChooseInv, ExecuteInv, SkipInv, StopsInv, InitVmsreg2Inv, VmHandleInv DEF Next

-----------------------------------------------------------------------------
(* The theorems.                                                           *)

\* The window never outgrows MAX_INST, each of its instructions has a context
\* before and after it, and the counters keep their bounds, for every program
\* and every table.
THEOREM RecordingInvariant == Spec => []RInv
BY RInit, RStep, PTL DEF Spec

THEOREM TypeCorrect == Spec => []TypeOK
<1>1. RInv => TypeOK
  BY DEF RInv
<1> QED
  BY <1>1, RecordingInvariant, PTL

LEMMA StopsFromRInv == RInv => NoRowInside /\ (env_flag = 0 => StopsWhenLost)
<1> SUFFICES ASSUME RInv PROVE NoRowInside /\ (env_flag = 0 => StopsWhenLost)
  OBVIOUS
<1> USE PlanFacts DEF RInv
<1>1. ASSUME pc = "end", Entire, env_flag = 0, Last1.idef # "1200"
      PROVE  UnknownRow(Len(vm_opmz_x))
  <2>1. unknow_num = patience[build] /\ patience[build] \in Nat /\ Len(vm_opmz_x) \in Nat
    BY <1>1, AppendSeq DEF EndsForAReason, Entire, TypeOK
  <2> QED
    BY <2>1, <1>1 DEF Trailing, UnknownRow, Entire
<1> QED
  BY <1>1 DEF NoRowInside, StopsWhenLost

\* Unknown handlers in a row end the recording, so no such row has a record
\* after it; and a recording in which nothing failed and the registers were
\* found ends with the machine or with such a row (xx_start_execute), whatever
\* the handlers and their table.
THEOREM LostRecordingsStop == Spec => [](NoRowInside /\ (env_flag = 0 => StopsWhenLost))
BY StopsFromRInv, RecordingInvariant, PTL
=============================================================================

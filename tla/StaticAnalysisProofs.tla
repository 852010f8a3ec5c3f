------------------------ MODULE StaticAnalysisProofs ------------------------
(* What holds of the threads of the static analysis for every program, any *)
(* number of commands, cycles and pauses, and any bound on failures.       *)
EXTENDS StaticAnalysis, FiniteSetTheorems, SequenceTheorems, TLAPS

-----------------------------------------------------------------------------
(* The inductive invariants.                                               *)

PCs == {"none", "begin", "clear", "run", "end", "check", "signal", "zero", "done"}

States == [pc : PCs, piece : Nat, step : Nat, unknown : 0..3]

\* The types of all variables; TypeOK in a form that is preserved: an
\* analysis that goes on has seen at most two unknown instructions in a row,
\* and a command that waits has made more semaphores than it finished cycles.
Typed ==
    /\ prog \in Seq(Seq(Kinds)) /\ rule \in Rules
    /\ cmd \in {"none", "init", "cycle", "entry", "wait", "stop", "clean", "ended"}
    /\ cycle \in Nat /\ mine \in 0..MaxThreads /\ saly \in 0..MaxThreads
    /\ cycle <= mine /\ (cmd \in {"entry", "wait", "stop"} => cycle < mine)
    /\ stop \in [{"menu", "command"} -> {"no", "exit", "flag", "sleep", "signal", "zero"}]
    /\ an \in [Threads -> States]
    /\ \A s \in Threads : an[s].pc = "run" => an[s].unknown <= 2
    /\ sem \in [Threads -> 0..1] /\ pause \in 0..1 /\ start \in 0..Len(prog)+1
    /\ mem \in BOOLEAN /\ handle \in BOOLEAN
    /\ cmd = "wait" => an[mine].pc # "none"
    /\ insts \in Seq(Nat \X Nat) /\ items \in Seq(Nat \X Nat)
    /\ stops \in Nat /\ faults \in Nat

\* As long as nobody asked for a pause and no wait was given up, an analysis
\* that has not yet told its end is the one the command waits for, the
\* memory files are there for it, and no semaphore counts before its analysis
\* has told.
Active(s) == an[s].pc \in {"begin", "clear", "run", "end", "check", "signal"}
Ordered ==
    stops = 0 =>
      /\ \A t \in {"menu", "command"} : stop[t] = "no"
      /\ cmd # "stop"
      /\ saly <= mine
      /\ \A s \in Threads : an[s].pc # "none" => s <= mine
      /\ cmd = "entry" => an[mine].pc = "none"
      /\ \A s \in Threads : Active(s) => s = mine /\ cmd = "wait" /\ sem[mine] = 0
      /\ \A s \in Threads : s > mine => sem[s] = 0
      /\ cmd = "entry" => sem[mine] = 0
      /\ cmd \in {"cycle", "entry", "wait"} => mem

IInv == Typed /\ Ordered

\* The files as long as one cycle runs and nobody asked for a pause: they are
\* equal until an append fails, then their lengths differ unless both
\* records of the instruction were appended after all.
Early == {"none", "begin", "clear"}
Paired ==
    rule = "normal" /\ stops = 0 =>
      /\ cycle = 0
      /\ \A s \in Threads : an[s].pc \in Early => an[s].step = 1 /\ Recorded(s) = {}
      /\ faults = 0 => Len(insts) = Len(items)
      /\ Len(insts) = Len(items) =>
           /\ insts = items
           /\ \A s \in Threads : Cardinality(Recorded(s)) = an[s].step - 1

-----------------------------------------------------------------------------
(* Each action preserves them.                                             *)

USE DEF files, shared, command, counts, Threads, PCs

LEMMA Bounds == MaxThreads \in Nat /\ MaxMishaps \in Nat /\ \A p \in Programs : p \in Seq(Seq(Kinds))
BY AnalysisAssumption

\* A thread that only goes on keeps the rest of its state.
LEMMA GoesOn ==
    ASSUME Typed, NEW s \in Threads, NEW to \in PCs, an' = [an EXCEPT ![s].pc = to]
    PROVE  /\ an' \in [Threads -> States]
           /\ an'[s].pc = to
           /\ an'[s].unknown = an[s].unknown /\ an'[s].step = an[s].step
           /\ \A r \in Threads \ {s} : an'[r] = an[r]
<1> DEFINE a == an[s]
           b == [pc |-> to, piece |-> a.piece, step |-> a.step, unknown |-> a.unknown]
<1>1. a \in States /\ an \in [Threads -> States]
  BY DEF Typed
<1>2. [a EXCEPT !.pc = to] = b /\ b \in States
  BY <1>1 DEF States
<1>3. an' = [an EXCEPT ![s] = b]
  BY <1>2
<1> HIDE DEF b
<1>4. an' \in [Threads -> States] /\ an'[s] = b /\ \A r \in Threads \ {s} : an'[r] = an[r]
  BY <1>1, <1>2, <1>3
<1> QED
  BY <1>4 DEF b

LEMMA InitInv == Init => IInv
<1> SUFFICES ASSUME Init PROVE IInv
  OBVIOUS
<1>1. prog \in Seq(Seq(Kinds)) /\ Len(prog) \in Nat
  BY Bounds DEF Init
<1>2. \A s \in Threads : an[s] = NoThread
  BY DEF Init
<1>3. NoThread \in States /\ NoThread.pc = "none" /\ NoThread.unknown = 0
  BY DEF NoThread, States
<1>4. an \in [Threads -> States]
  BY <1>3 DEF Init
<1>5. insts \in Seq(Nat \X Nat) /\ items \in Seq(Nat \X Nat)
  BY EmptySeq DEF Init
<1>6. Typed
  <2>1. /\ rule \in Rules /\ cmd = "none" /\ cycle = 0 /\ mine = 0 /\ saly = 0
        /\ stop = [t \in {"menu", "command"} |-> "no"]
        /\ sem = [s \in Threads |-> 0] /\ pause = 0 /\ start = 0
        /\ mem = FALSE /\ handle = FALSE /\ stops = 0 /\ faults = 0
    BY DEF Init
  <2>2. \A s \in Threads : an[s].pc = "none"
    BY <1>2, <1>3
  <2>3. /\ stop \in [{"menu", "command"} -> {"no", "exit", "flag", "sleep", "signal", "zero"}]
        /\ sem \in [Threads -> 0..1]
    BY <2>1
  <2>4. cycle \in Nat /\ mine \in 0..MaxThreads /\ saly \in 0..MaxThreads /\ start \in 0..Len(prog)+1
    BY <1>1, <2>1, Bounds
  <2>5. cycle <= mine /\ ~(cmd \in {"entry", "wait", "stop"}) /\ cmd # "wait"
        /\ pause \in 0..1 /\ stops \in Nat /\ faults \in Nat
        /\ cmd \in {"none", "init", "cycle", "entry", "wait", "stop", "clean", "ended"}
    BY <2>1
  <2>6. \A s \in Threads : an[s].pc # "run"
    BY <2>2
  <2>7. rule \in Rules /\ mem \in BOOLEAN /\ handle \in BOOLEAN
    BY <2>1, Zenon
  <2> QED
    BY <1>1, <1>4, <1>5, <2>3, <2>4, <2>5, <2>6, <2>7 DEF Typed
<1>7. Ordered
  BY <1>2, <1>3, Bounds DEF Init, Ordered, Active
<1> QED
  BY <1>6, <1>7 DEF IInv

LEMMA ProgramLength == Typed => Len(prog) \in Nat
BY DEF Typed

LEMMA MenuStaticInv == IInv /\ MenuStatic => IInv'
BY Bounds DEF IInv, Typed, Ordered, Active, MenuStatic

LEMMA MenuPauseInv == IInv /\ MenuPause => IInv'
BY Bounds DEF IInv, Typed, Ordered, Active, MenuPause

LEMMA StopInv == IInv /\ Stop => IInv'
<1> SUFFICES ASSUME IInv, NEW t \in {"menu", "command"},
                    StopExit(t) \/ StopFlag(t) \/ StopCheck(t) \/ StopSignal(t) \/ StopZero(t)
             PROVE  IInv'
  BY DEF Stop
<1>0. stops # 0
  BY DEF IInv, Ordered, Typed, StopStep, StopExit, StopFlag, StopCheck, StopSignal, StopZero
<1> USE Bounds, <1>0 DEF IInv, Typed, Ordered, StopStep
<1>1. CASE StopExit(t)
  BY <1>1 DEF StopExit
<1>2. CASE StopFlag(t)
  BY <1>2 DEF StopFlag
<1>3. CASE StopCheck(t)
  BY <1>3 DEF StopCheck
<1>4. CASE StopSignal(t)
  BY <1>4 DEF StopSignal, Release
<1>5. CASE StopZero(t)
  BY <1>5 DEF StopZero
<1> QED
  BY <1>1, <1>2, <1>3, <1>4, <1>5

LEMMA CommandInitInv == IInv /\ CommandInit => IInv'
<1> SUFFICES ASSUME IInv, CommandInit PROVE IInv'
  OBVIOUS
<1> USE Bounds DEF IInv, CommandInit
<1>1. Typed'
  BY DEF Typed
<1>2. Ordered'
  BY DEF Typed, Ordered, Active
<1> QED
  BY <1>1, <1>2

LEMMA CommandCycleInv == IInv /\ CommandCycle => IInv'
<1> SUFFICES ASSUME IInv, CommandCycle PROVE IInv'
  OBVIOUS
<1> USE Bounds DEF IInv, CommandCycle
<1>1. Typed'
  BY DEF Typed
<1>2. Ordered'
  BY DEF Typed, Ordered, Active
<1> QED
  BY <1>1, <1>2

LEMMA CommandLimitInv == IInv /\ CommandLimit => IInv'
<1> SUFFICES ASSUME IInv, CommandLimit PROVE IInv'
  OBVIOUS
<1> USE Bounds DEF IInv, CommandLimit
<1>1. Typed'
  BY DEF Typed
<1>2. Ordered'
  BY DEF Typed, Ordered, Active
<1> QED
  BY <1>1, <1>2

LEMMA CommandBreakInv == IInv /\ CommandBreak => IInv'
<1> SUFFICES ASSUME IInv, CommandBreak PROVE IInv'
  OBVIOUS
<1> USE Bounds DEF IInv, CommandBreak
<1>1. Typed'
  BY DEF Typed
<1>2. Ordered'
  BY DEF Typed, Ordered, Active
<1> QED
  BY <1>1, <1>2

LEMMA CommandCreateInv == IInv /\ CommandCreate => IInv'
<1> SUFFICES ASSUME IInv, CommandCreate PROVE IInv'
  OBVIOUS
<1>1. mine \in Threads /\ an' = [an EXCEPT ![mine].pc = "begin"] /\ cmd' = "wait"
  BY DEF IInv, Typed, CommandCreate
<1>2. /\ an' \in [Threads -> States] /\ an'[mine].pc = "begin"
      /\ \A r \in Threads \ {mine} : an'[r] = an[r]
  BY <1>1, GoesOn DEF IInv
<1>3. items' \in Seq(Nat \X Nat)
  <2>1. items \in Seq(Nat \X Nat) /\ <<0, 0>> \in Nat \X Nat
    BY DEF IInv, Typed
  <2>2. Append(items, <<0, 0>>) \in Seq(Nat \X Nat)
    BY <2>1, AppendProperties
  <2> QED
    BY <2>1, <2>2 DEF CommandCreate
<1>4. Typed'
  BY Bounds, <1>1, <1>2, <1>3 DEF IInv, Typed, CommandCreate
<1>5. Ordered'
  BY <1>1, <1>2 DEF IInv, Typed, Ordered, Active, CommandCreate
<1> QED
  BY <1>4, <1>5 DEF IInv

LEMMA CommandWakeInv == IInv /\ CommandWake => IInv'
<1> SUFFICES ASSUME IInv, CommandWake PROVE IInv'
  OBVIOUS
<1> USE Bounds DEF IInv, CommandWake
<1>0. sem' \in [Threads -> 0..1] /\ cycle' \in Nat /\ cycle' <= mine' /\ cmd' \in {"clean", "cycle", "ended"}
  BY DEF Typed
<1>1. Typed'
  BY <1>0 DEF Typed
<1>2. Ordered'
  BY DEF Typed, Ordered, Active
<1> QED
  BY <1>1, <1>2

LEMMA CommandStoppedInv == IInv /\ CommandStopped => IInv'
<1> SUFFICES ASSUME IInv, CommandStopped PROVE IInv'
  OBVIOUS
<1> USE Bounds DEF IInv, CommandStopped
<1>1. Typed'
  BY DEF Typed
<1>2. Ordered'
  BY DEF Typed, Ordered, Active
<1> QED
  BY <1>1, <1>2

LEMMA CommandCleanInv == IInv /\ CommandClean => IInv'
<1> SUFFICES ASSUME IInv, CommandClean PROVE IInv'
  OBVIOUS
<1> USE Bounds DEF IInv, CommandClean, Release
<1>0. sem' \in [Threads -> 0..1] /\ cycle' \in Nat /\ cycle' <= mine' /\ cmd' \in {"clean", "cycle", "ended"}
  BY DEF Typed
<1>1. Typed'
  BY <1>0 DEF Typed
<1>2. Ordered'
  BY DEF Typed, Ordered, Active
<1> QED
  BY <1>1, <1>2

LEMMA CommandTimeoutInv == IInv /\ CommandTimeout => IInv'
<1> SUFFICES ASSUME IInv, CommandTimeout PROVE IInv'
  OBVIOUS
<1> USE Bounds DEF IInv, CommandTimeout
<1>1. Typed'
  BY DEF Typed
<1>2. Ordered'
  BY DEF Typed, Ordered, Active
<1> QED
  BY <1>1, <1>2

LEMMA AnalysisBeginInv == ASSUME IInv, NEW s \in Threads, AnalysisBegin(s) PROVE IInv'
<1>1. PICK to \in PCs : an[s].pc = "begin" /\ an' = [an EXCEPT ![s].pc = to] /\ to \notin {"none", "run"}
  BY DEF AnalysisBegin, Goes
<1>2. /\ an' \in [Threads -> States] /\ an'[s].pc = to
      /\ \A r \in Threads \ {s} : an'[r] = an[r]
  BY <1>1, GoesOn DEF IInv
<1>3. Typed'
  BY Bounds, <1>1, <1>2 DEF IInv, Typed, AnalysisBegin
<1>4. Ordered'
  BY <1>1, <1>2 DEF IInv, Typed, Ordered, Active, AnalysisBegin, Goes
<1> QED
  BY <1>3, <1>4 DEF IInv

LEMMA AnalysisFailsInv == ASSUME IInv, NEW s \in Threads, AnalysisFails(s) PROVE IInv'
<1>1. PICK to \in PCs : an[s].pc = "run" /\ an' = [an EXCEPT ![s].pc = to] /\ to \notin {"none", "run"}
  BY DEF AnalysisFails, Goes
<1>2. /\ an' \in [Threads -> States] /\ an'[s].pc = to
      /\ \A r \in Threads \ {s} : an'[r] = an[r]
  BY <1>1, GoesOn DEF IInv
<1>3. Typed'
  BY Bounds, ProgramLength, <1>1, <1>2 DEF IInv, Typed, AnalysisFails
<1>4. Ordered'
  BY <1>1, <1>2 DEF IInv, Typed, Ordered, Active, AnalysisFails, Goes
<1> QED
  BY <1>3, <1>4 DEF IInv

LEMMA AnalysisEndInv == ASSUME IInv, NEW s \in Threads, AnalysisEnd(s) PROVE IInv'
<1>1. PICK to \in PCs : an[s].pc = "end" /\ an' = [an EXCEPT ![s].pc = to] /\ to \notin {"none", "run"}
  BY DEF AnalysisEnd, Goes
<1>2. /\ an' \in [Threads -> States] /\ an'[s].pc = to
      /\ \A r \in Threads \ {s} : an'[r] = an[r]
  BY <1>1, GoesOn DEF IInv
<1>3. Typed'
  BY Bounds, <1>1, <1>2 DEF IInv, Typed, AnalysisEnd
<1>4. Ordered'
  BY <1>1, <1>2 DEF IInv, Typed, Ordered, Active, AnalysisEnd, Goes
<1> QED
  BY <1>3, <1>4 DEF IInv

LEMMA AnalysisCheckInv == ASSUME IInv, NEW s \in Threads, AnalysisCheck(s) PROVE IInv'
<1>1. PICK to \in PCs : an[s].pc = "check" /\ an' = [an EXCEPT ![s].pc = to] /\ to \notin {"none", "run"}
  BY DEF AnalysisCheck, Goes
<1>2. /\ an' \in [Threads -> States] /\ an'[s].pc = to
      /\ \A r \in Threads \ {s} : an'[r] = an[r]
  BY <1>1, GoesOn DEF IInv
<1>3. Typed'
  BY Bounds, <1>1, <1>2 DEF IInv, Typed, AnalysisCheck
<1>4. Ordered'
  BY <1>1, <1>2 DEF IInv, Typed, Ordered, Active, AnalysisCheck, Goes
<1> QED
  BY <1>3, <1>4 DEF IInv

LEMMA AnalysisSignalInv == ASSUME IInv, NEW s \in Threads, AnalysisSignal(s) PROVE IInv'
<1>1. PICK to \in PCs : an[s].pc = "signal" /\ an' = [an EXCEPT ![s].pc = to] /\ to \notin {"none", "run"}
  BY DEF AnalysisSignal, Goes
<1>2. /\ an' \in [Threads -> States] /\ an'[s].pc = to
      /\ \A r \in Threads \ {s} : an'[r] = an[r]
  BY <1>1, GoesOn DEF IInv
<1>3. Typed'
  BY Bounds, <1>1, <1>2 DEF IInv, Typed, AnalysisSignal, Release
<1>4. Ordered'
  BY <1>1, <1>2 DEF IInv, Typed, Ordered, Active, AnalysisSignal, Goes, Release
<1> QED
  BY <1>3, <1>4 DEF IInv

LEMMA AnalysisZeroInv == ASSUME IInv, NEW s \in Threads, AnalysisZero(s) PROVE IInv'
<1>1. PICK to \in PCs : an[s].pc = "zero" /\ an' = [an EXCEPT ![s].pc = to] /\ to \notin {"none", "run"}
  BY DEF AnalysisZero, Goes
<1>2. /\ an' \in [Threads -> States] /\ an'[s].pc = to
      /\ \A r \in Threads \ {s} : an'[r] = an[r]
  BY <1>1, GoesOn DEF IInv
<1>3. Typed'
  BY Bounds, <1>1, <1>2 DEF IInv, Typed, AnalysisZero
<1>4. Ordered'
  BY <1>1, <1>2 DEF IInv, Typed, Ordered, Active, AnalysisZero, Goes
<1> QED
  BY <1>3, <1>4 DEF IInv

LEMMA AnalysisClearInv == ASSUME IInv, NEW s \in Threads, AnalysisClear(s) PROVE IInv'
<1> DEFINE b == [pc |-> "run", piece |-> start, step |-> 1, unknown |-> 0]
<1>1. an[s].pc = "clear" /\ an' = [an EXCEPT ![s] = b]
  BY DEF AnalysisClear
<1>2. b \in States /\ b.pc = "run" /\ b.unknown = 0
  BY DEF IInv, Typed, States
<1> HIDE DEF b
<1>3. /\ an' \in [Threads -> States] /\ an'[s] = b
      /\ \A r \in Threads \ {s} : an'[r] = an[r]
  BY <1>1, <1>2 DEF IInv, Typed
<1>4. Typed'
  BY Bounds, <1>1, <1>2, <1>3 DEF IInv, Typed, AnalysisClear
<1>5. Ordered'
  BY <1>1, <1>2, <1>3 DEF IInv, Typed, Ordered, Active, AnalysisClear
<1> QED
  BY <1>4, <1>5 DEF IInv

\* What an analysis may append, by the number of appends that failed.
Appended(o) ==
    \/ o.inst = TRUE /\ o.item = TRUE
    \/ o.inst = TRUE /\ o.item = FALSE /\ o.failed >= 1
    \/ o.inst = FALSE /\ o.item = TRUE /\ o.failed >= 1
    \/ o.inst = FALSE /\ o.item = FALSE /\ o.failed >= 2

LEMMA OutcomeTypes ==
    ASSUME NEW k \in BOOLEAN, NEW o \in Outcomes(k)
    PROVE  o.failed \in Nat /\ Appended(o)
<1>1. ASSUME NEW f \in Nat, o \in Invalid(f)
      PROVE  \/ o = Appends(TRUE, TRUE, FALSE, f)
             \/ o = Appends(TRUE, FALSE, FALSE, f + 1)
             \/ o = Appends(FALSE, TRUE, FALSE, f + 1)
             \/ o = Appends(FALSE, FALSE, FALSE, f + 2)
  BY <1>1 DEF Invalid
<1>2. ASSUME NEW x \in BOOLEAN, NEW y \in BOOLEAN, NEW z \in BOOLEAN, NEW f, o = Appends(x, y, z, f)
      PROVE  o.inst = x /\ o.item = y /\ o.failed = f
  BY <1>2, Zenon DEF Appends
<1>3. \/ o = Appends(TRUE, TRUE, TRUE, 0) \/ o = Appends(FALSE, TRUE, FALSE, 1)
      \/ o \in Invalid(0) \/ o \in Invalid(1)
  BY Zenon DEF Outcomes
<1>4. CASE o = Appends(TRUE, TRUE, TRUE, 0)
  <2>1. o.inst = TRUE /\ o.item = TRUE /\ o.failed = 0
    BY <1>2, <1>4
  <2> QED
    BY <2>1 DEF Appended
<1>5. CASE o = Appends(FALSE, TRUE, FALSE, 1)
  <2>1. o.inst = FALSE /\ o.item = TRUE /\ o.failed = 1
    BY <1>2, <1>5
  <2> QED
    BY <2>1 DEF Appended
<1>6. ASSUME NEW f \in Nat, o \in Invalid(f) PROVE o.failed \in Nat /\ Appended(o)
  <2>1. CASE o = Appends(TRUE, TRUE, FALSE, f)
    <3>1. o.inst = TRUE /\ o.item = TRUE /\ o.failed = f
      BY <1>2, <2>1
    <3> QED
      BY <3>1 DEF Appended
  <2>2. CASE o = Appends(TRUE, FALSE, FALSE, f + 1)
    <3>1. o.inst = TRUE /\ o.item = FALSE /\ o.failed = f + 1
      BY <1>2, <2>2
    <3> QED
      BY <3>1 DEF Appended
  <2>3. CASE o = Appends(FALSE, TRUE, FALSE, f + 1)
    <3>1. o.inst = FALSE /\ o.item = TRUE /\ o.failed = f + 1
      BY <1>2, <2>3
    <3> QED
      BY <3>1 DEF Appended
  <2>4. CASE o = Appends(FALSE, FALSE, FALSE, f + 2)
    <3>1. o.inst = FALSE /\ o.item = FALSE /\ o.failed = f + 2
      BY <1>2, <2>4
    <3> QED
      BY <3>1 DEF Appended
  <2> QED
    BY <1>1, <1>6, <2>1, <2>2, <2>3, <2>4
<1> QED
  BY <1>3, <1>4, <1>5, <1>6

\* The analysis of thread s takes one VM instruction, and failed appends fail.
Takes(s, failed) ==
    LET rec == <<s, an[s].step>>
        onInsts == insts' = Append(insts, rec)
        onItems == items' = Append(items, rec)
    IN  /\ an[s].pc = "run" /\ an'[s].pc \in {"run", "end"}
        /\ an' \in [Threads -> States]
        /\ an'[s].pc = "run" => an'[s].unknown <= 2
        /\ an'[s].step = an[s].step + 1
        /\ \A r \in Threads \ {s} : an'[r] = an[r]
        /\ stops + faults + failed <= MaxMishaps /\ faults' = faults + failed
        /\ start' \in 0..Len(prog)+1
        /\ \/ onInsts /\ onItems
           \/ onInsts /\ items' = items /\ failed >= 1
           \/ insts' = insts /\ onItems /\ failed >= 1
           \/ insts' = insts /\ items' = items /\ failed >= 2

LEMMA Handles ==
    ASSUME Typed, NEW s \in Threads, AnalysisHandles(s)
    PROVE  \E failed \in Nat : Takes(s, failed)
<1> DEFINE k == KindAt(s) # "unknown"
<1>1. PICK o \in Outcomes(k) :
         LET unknown == IF o.known THEN 0 ELSE an[s].unknown + 1
             exits == KindAt(s) = "exit" /\ o.known
         IN  /\ stops + faults + o.failed <= MaxMishaps /\ faults' = faults + o.failed
             /\ insts' = IF o.inst THEN Append(insts, <<s, an[s].step>>) ELSE insts
             /\ items' = IF o.item THEN Append(items, <<s, an[s].step>>) ELSE items
             /\ start' = IF exits THEN an[s].piece + 1 ELSE start
             /\ an' = [an EXCEPT
                        ![s].pc = IF TooMany(unknown) \/ exits \/ KindAt(s) = "env" THEN "end" ELSE "run",
                        ![s].unknown = unknown, ![s].step = @ + 1]
  BY DEF AnalysisHandles
<1> DEFINE unknown == IF o.known THEN 0 ELSE an[s].unknown + 1
           to == IF TooMany(unknown) \/ (KindAt(s) = "exit" /\ o.known) \/ KindAt(s) = "env" THEN "end" ELSE "run"
           b == [pc |-> to, piece |-> an[s].piece, step |-> an[s].step + 1, unknown |-> unknown]
<1>2. an[s].pc = "run" /\ an[s].unknown <= 2 /\ an \in [Threads -> States] /\ an[s] \in States
  BY DEF AnalysisHandles, Typed
<1>3. o.failed \in Nat /\ Appended(o)
  BY OutcomeTypes
<1>4. unknown \in 0..3 /\ to \in {"run", "end"} /\ (to = "run" => unknown <= 2)
  BY <1>2 DEF States, TooMany
<1>5. b \in States
  BY <1>2, <1>4 DEF States
<1>6. an' = [an EXCEPT ![s] = b]
  BY <1>1, <1>2 DEF States
<1>7. KindAt(s) = "exit" => an[s].piece \in 1..Len(prog)
  BY <1>2 DEF KindAt, EntryAt, Typed
<1>8. start' = start \/ (start' = an[s].piece + 1 /\ KindAt(s) = "exit")
  BY <1>1, Zenon
<1>9. start' \in 0..Len(prog)+1
  <2>1. Len(prog) \in Nat /\ start \in 0..Len(prog)+1
    BY ProgramLength DEF Typed
  <2> QED
    BY <1>7, <1>8, <2>1
<1>10. b.pc = to /\ b.unknown = unknown /\ b.step = an[s].step + 1
  OBVIOUS
<1> HIDE DEF b
<1>11. an' \in [Threads -> States] /\ an'[s] = b /\ \A r \in Threads \ {s} : an'[r] = an[r]
  BY <1>2, <1>5, <1>6
<1>12. /\ o.inst = TRUE => insts' = Append(insts, <<s, an[s].step>>)
       /\ o.inst = FALSE => insts' = insts
       /\ o.item = TRUE => items' = Append(items, <<s, an[s].step>>)
       /\ o.item = FALSE => items' = items
  BY <1>1, Zenon
<1> HIDE DEF to, unknown
<1>13. Takes(s, o.failed)
  BY <1>1, <1>2, <1>3, <1>4, <1>9, <1>10, <1>11, <1>12 DEF Takes, Appended
<1> QED
  BY <1>3, <1>13

LEMMA AnalysisHandlesInv == ASSUME IInv, NEW s \in Threads, AnalysisHandles(s) PROVE IInv'
<1>1. PICK failed \in Nat : Takes(s, failed)
  BY Handles DEF IInv
<1>2. <<s, an[s].step>> \in Nat \X Nat
  BY Bounds DEF IInv, Typed, States
<1>3. insts' \in Seq(Nat \X Nat) /\ items' \in Seq(Nat \X Nat)
  <2>1. insts \in Seq(Nat \X Nat) /\ items \in Seq(Nat \X Nat)
    BY DEF IInv, Typed
  <2>2. /\ Append(insts, <<s, an[s].step>>) \in Seq(Nat \X Nat)
        /\ Append(items, <<s, an[s].step>>) \in Seq(Nat \X Nat)
    BY <1>2, <2>1, AppendProperties
  <2> QED
    BY <1>1, <2>1, <2>2 DEF Takes
<1>4. /\ UNCHANGED <<prog, rule, command, stop, sem, saly, pause, handle, starts, stops>>
      /\ faults' \in Nat
  BY <1>1 DEF AnalysisHandles, Takes, IInv, Typed
<1>5. /\ an' \in [Threads -> States] /\ an'[s].pc \in {"run", "end"} /\ an[s].pc = "run"
      /\ an'[s].pc = "run" => an'[s].unknown <= 2
      /\ \A r \in Threads \ {s} : an'[r] = an[r]
      /\ start' \in 0..Len(prog)+1
  BY <1>1 DEF Takes
<1>6. Typed'
  <2>1. \A r \in Threads : an'[r].pc = "run" => an'[r].unknown <= 2
    BY <1>5 DEF IInv, Typed
  <2>2. cmd' = "wait" => an'[mine'].pc # "none"
    BY <1>4, <1>5 DEF IInv, Typed
  <2> QED
    BY <1>3, <1>4, <1>5, <2>1, <2>2, Bounds DEF IInv, Typed
<1>7. Ordered'
  BY <1>4, <1>5 DEF IInv, Typed, Ordered, Active
<1> QED
  BY <1>6, <1>7 DEF IInv

LEMMA StutterInv == IInv /\ UNCHANGED vars => IInv'
BY DEF IInv, Typed, Ordered, Active, vars

LEMMA NextInv == IInv /\ [Next]_vars => IInv'
<1> SUFFICES ASSUME IInv, [Next]_vars PROVE IInv'
  OBVIOUS
<1>1. CASE MenuStatic \/ MenuPause \/ Stop
  BY <1>1, MenuStaticInv, MenuPauseInv, StopInv
<1>2. CASE Command
  BY <1>2, CommandInitInv, CommandCycleInv, CommandLimitInv, CommandBreakInv, CommandCreateInv,
     CommandWakeInv, CommandStoppedInv, CommandCleanInv DEF Command
<1>3. CASE CommandTimeout
  BY <1>3, CommandTimeoutInv
<1>4. CASE Analysis
  BY <1>4, AnalysisBeginInv, AnalysisClearInv, AnalysisFailsInv, AnalysisHandlesInv, AnalysisEndInv,
     AnalysisCheckInv, AnalysisSignalInv, AnalysisZeroInv DEF Analysis
<1>5. CASE UNCHANGED vars
  BY <1>5, StutterInv
<1> QED
  BY <1>1, <1>2, <1>3, <1>4, <1>5 DEF Next

-----------------------------------------------------------------------------
(* The theorems.                                                           *)

THEOREM Invariant == Spec => []IInv
BY InitInv, NextInv, PTL DEF Spec

\* The control state of every thread and the shared variables keep their
\* types, whatever the threads do to each other.
THEOREM TypeCorrect == Spec => []TypeOK
<1>1. IInv => TypeOK
  BY Bounds DEF IInv, Typed, TypeOK, States
<1> QED
  BY <1>1, Invariant, PTL

\* Until a pause or a given up wait, all analyses that execute are the one the
\* command waits for.
THEOREM AnalysesAreOne == Spec => []OneAnalysis
<1>1. IInv => OneAnalysis
  <2> SUFFICES ASSUME IInv, stops = 0 PROVE Cardinality(Analysing) <= 1
    BY DEF OneAnalysis
  <2>1. Analysing \subseteq {mine}
    BY DEF Analysing, IInv, Ordered, Active
  <2>2. IsFiniteSet({mine}) /\ Cardinality({mine}) = 1
    BY FS_Singleton
  <2> QED
    BY <2>1, <2>2, FS_Subset
<1> QED
  BY <1>1, Invariant, PTL

\* Until then the memory files are there for as long as an analysis executes
\* on them.
THEOREM MemoryIsHeld == Spec => []MemoryHeld
<1>1. IInv => MemoryHeld
  BY DEF IInv, Ordered, Active, MemoryHeld, Analysing
<1> QED
  BY <1>1, Invariant, PTL

-----------------------------------------------------------------------------
(* The two files.                                                          *)

LEMMA InitPaired == Init => Paired
<1> SUFFICES ASSUME Init PROVE Paired
  OBVIOUS
<1>1. \A s \in Threads : an[s].pc = "none" /\ an[s].step = 1
  BY DEF Init, NoThread
<1>2. \A s \in Threads : Recorded(s) = {}
  BY EmptySeq DEF Init, Recorded
<1>3. Cardinality({}) = 0
  BY FS_EmptySet
<1>4. cycle = 0 /\ insts = items /\ Len(insts) = Len(items)
  BY DEF Init
<1>5. \A s \in Threads : Cardinality(Recorded(s)) = an[s].step - 1
  BY <1>1, <1>2, <1>3
<1> QED
  BY <1>1, <1>2, <1>4, <1>5 DEF Paired

\* A step that appends nothing and goes back to no earlier place.
LEMMA KeepsPaired ==
    ASSUME Paired, insts' = insts, items' = items, rule' = rule, faults' = faults,
           stops' = 0 => stops = 0,
           rule = "normal" /\ stops' = 0 /\ cycle = 0 => cycle' = 0,
           \A r \in Threads : an'[r].step = an[r].step,
           \A r \in Threads : an'[r].pc \in Early => an[r].pc \in Early
    PROVE  Paired'
<1>1. \A r \in Threads : Recorded(r)' = Recorded(r)
  BY DEF Recorded
<1> QED
  BY <1>1 DEF Paired

LEMMA RecordedAppend ==
    ASSUME IInv, NEW s \in Threads, NEW k, insts' = Append(insts, <<s, k>>)
    PROVE  /\ Recorded(s)' = Recorded(s) \cup {Len(insts) + 1}
           /\ Cardinality(Recorded(s)') = Cardinality(Recorded(s)) + 1
           /\ \A r \in Threads \ {s} : Recorded(r)' = Recorded(r)
<1>1. insts \in Seq(Nat \X Nat) /\ Len(insts) \in Nat
  BY LenProperties DEF IInv, Typed
<1>2. /\ Len(insts') = Len(insts) + 1 /\ insts'[Len(insts) + 1] = <<s, k>>
      /\ \A j \in 1..Len(insts) : insts'[j] = insts[j]
  BY <1>1
<1>3. \A r \in Threads : Recorded(r)' = {j \in 1..Len(insts) + 1 : insts'[j][1] = r}
  BY <1>2 DEF Recorded
<1>4. \A r \in Threads : Recorded(r) = {j \in 1..Len(insts) : insts'[j][1] = r}
  BY <1>2 DEF Recorded
<1>5. 1..Len(insts) + 1 = (1..Len(insts)) \cup {Len(insts) + 1}
  BY <1>1
<1>6. insts'[Len(insts) + 1][1] = s
  BY <1>2
<1>7. Recorded(s)' = Recorded(s) \cup {Len(insts) + 1} /\ Len(insts) + 1 \notin Recorded(s)
  BY <1>1, <1>3, <1>4, <1>5, <1>6
<1>8. \A r \in Threads \ {s} : Recorded(r)' = Recorded(r)
  <2> TAKE r \in Threads \ {s}
  <2>1. Recorded(r)' = {j \in 1..Len(insts) + 1 : insts'[j][1] = r}
    BY <1>3
  <2>2. Recorded(r) = {j \in 1..Len(insts) : insts'[j][1] = r}
    BY <1>4
  <2> QED
    BY <1>5, <1>6, <2>1, <2>2
<1>9. IsFiniteSet(Recorded(s))
  <2>1. IsFiniteSet(1..Len(insts)) /\ Recorded(s) \subseteq 1..Len(insts)
    BY <1>1, FS_Interval DEF Recorded
  <2> QED
    BY <2>1, FS_Subset
<1> QED
  BY <1>7, <1>8, <1>9, FS_AddElement

LEMMA HandlesPaired ==
    ASSUME IInv, Paired, MaxMishaps <= 1, NEW s \in Threads, AnalysisHandles(s)
    PROVE  Paired'
<1> SUFFICES ASSUME rule = "normal", stops = 0 PROVE Paired'
  BY DEF AnalysisHandles, Paired
<1>1. PICK failed \in Nat : Takes(s, failed)
  BY Handles DEF IInv
<1> DEFINE rec == <<s, an[s].step>>
<1>2. /\ insts \in Seq(Nat \X Nat) /\ items \in Seq(Nat \X Nat)
      /\ Len(insts) \in Nat /\ Len(items) \in Nat /\ an[s].step \in Nat /\ faults \in Nat
  BY LenProperties DEF IInv, Typed, States
<1>3. /\ cycle' = cycle /\ cycle = 0 /\ an[s].pc = "run" /\ an'[s].pc \notin Early
      /\ an'[s].step = an[s].step + 1 /\ \A r \in Threads \ {s} : an'[r] = an[r]
      /\ faults + failed <= 1 /\ faults' = faults + failed /\ stops' = stops /\ rule' = rule
  <2>1. cycle' = cycle /\ stops' = stops /\ rule' = rule
    BY DEF AnalysisHandles
  <2>2. cycle = 0
    BY DEF Paired
  <2>3. faults + failed <= 1 /\ faults' = faults + failed
    BY <1>1, <1>2, Bounds DEF Takes
  <2>4. /\ an[s].pc = "run" /\ an'[s].pc \notin Early
        /\ an'[s].step = an[s].step + 1 /\ \A r \in Threads \ {s} : an'[r] = an[r]
    BY <1>1 DEF Takes, Early
  <2> QED
    BY <2>1, <2>2, <2>3, <2>4
<1>4. Len(Append(insts, rec)) = Len(insts) + 1 /\ Len(Append(items, rec)) = Len(items) + 1
  BY <1>2
<1>5. \A r \in Threads : an'[r].pc \in Early => an'[r].step = 1 /\ Recorded(r)' = {}
  <2> SUFFICES ASSUME NEW r \in Threads, an'[r].pc \in Early PROVE an'[r].step = 1 /\ Recorded(r)' = {}
    OBVIOUS
  <2>1. r # s /\ an'[r] = an[r] /\ Recorded(r) = {} /\ an[r].step = 1
    BY <1>3 DEF Paired
  <2>2. CASE insts' = insts
    BY <2>1, <2>2 DEF Recorded
  <2>3. CASE insts' = Append(insts, rec)
    BY <2>1, <2>3, RecordedAppend
  <2> QED
    BY <1>1, <2>1, <2>2, <2>3 DEF Takes
<1>6. CASE insts' = Append(insts, rec) /\ items' = Append(items, rec)
  <2>1. Len(insts') = Len(insts) + 1 /\ Len(items') = Len(items) + 1
    BY <1>4, <1>6
  <2>2. faults' = 0 => Len(insts') = Len(items')
    BY <1>2, <1>3, <2>1 DEF Paired
  <2>3. ASSUME Len(insts') = Len(items')
        PROVE  insts' = items' /\ \A r \in Threads : Cardinality(Recorded(r)') = an'[r].step - 1
    <3>1. insts = items /\ \A r \in Threads : Cardinality(Recorded(r)) = an[r].step - 1
      BY <1>2, <2>1, <2>3 DEF Paired
    <3>2. Cardinality(Recorded(s)') = an'[s].step - 1
      <4>1. Cardinality(Recorded(s)') = Cardinality(Recorded(s)) + 1
        BY <1>6, RecordedAppend
      <4>2. Cardinality(Recorded(s)) = an[s].step - 1
        BY <3>1
      <4> QED
        BY <1>2, <1>3, <4>1, <4>2
    <3>3. \A r \in Threads \ {s} : Cardinality(Recorded(r)') = an'[r].step - 1
      BY <1>3, <1>6, <3>1, RecordedAppend
    <3> QED
      BY <1>6, <3>1, <3>2, <3>3
  <2> QED
    BY <1>3, <1>5, <2>2, <2>3 DEF Paired
<1>7. CASE \/ insts' = Append(insts, rec) /\ items' = items /\ failed >= 1
           \/ insts' = insts /\ items' = Append(items, rec) /\ failed >= 1
  <2>1. faults = 0 /\ faults' = 1
    BY <1>2, <1>3, <1>7
  <2>2. Len(insts) = Len(items)
    BY <2>1 DEF Paired
  <2>3. Len(insts') # Len(items')
    BY <1>2, <1>4, <1>7, <2>2
  <2> QED
    BY <1>3, <1>5, <2>1, <2>3 DEF Paired
<1> QED
  BY <1>1, <1>2, <1>3, <1>6, <1>7 DEF Takes

LEMMA NextPaired == IInv /\ Paired /\ MaxMishaps <= 1 /\ [Next]_vars => Paired'
<1> SUFFICES ASSUME IInv, Paired, MaxMishaps <= 1, [Next]_vars PROVE Paired'
  OBVIOUS
<1>1. CASE MenuStatic \/ MenuPause \/ CommandTimeout \/ UNCHANGED vars
  <2>1. /\ insts' = insts /\ items' = items /\ rule' = rule /\ faults' = faults /\ cycle' = cycle
        /\ an' = an
    BY <1>1 DEF MenuStatic, MenuPause, CommandTimeout, vars
  <2>2. stops' = stops \/ stops' = stops + 1
    BY <1>1 DEF MenuStatic, MenuPause, CommandTimeout, vars
  <2>3. stops' = 0 => stops = 0
    BY <2>2 DEF IInv, Typed
  <2> QED
    BY <2>1, <2>3, KeepsPaired
<1>2. CASE Stop
  BY <1>2, KeepsPaired DEF Stop, StopExit, StopFlag, StopCheck, StopSignal, StopZero
<1>3. CASE Command /\ ~CommandCreate
  BY <1>3, KeepsPaired DEF Command, CommandInit, CommandCycle, CommandLimit, CommandBreak,
                           CommandWake, CommandStopped, CommandClean
<1>4. CASE CommandCreate
  <2>1. mine \in Threads /\ an' = [an EXCEPT ![mine].pc = "begin"]
    BY <1>4 DEF IInv, Typed, CommandCreate
  <2>2. /\ an'[mine].step = an[mine].step
        /\ \A r \in Threads \ {mine} : an'[r] = an[r]
    BY <2>1, GoesOn DEF IInv
  <2>3. stops = 0 => an[mine].pc \in Early
    BY <1>4 DEF IInv, Ordered, CommandCreate, Early
  <2>4. rule = "normal" /\ stops = 0 => items' = items
    BY <1>4 DEF Paired, CommandCreate
  <2>5. /\ insts' = insts /\ rule' = rule /\ faults' = faults /\ stops' = stops /\ cycle' = cycle
    BY <1>4 DEF CommandCreate
  <2>6. \A r \in Threads : an'[r].step = an[r].step
    BY <2>2
  <2>7. stops = 0 => \A r \in Threads : an'[r].pc \in Early => an[r].pc \in Early
    BY <2>2, <2>3
  <2>8. CASE rule = "normal" /\ stops = 0
    BY <2>4, <2>5, <2>6, <2>7, <2>8, KeepsPaired
  <2>9. CASE ~(rule = "normal" /\ stops = 0)
    BY <2>5, <2>9 DEF Paired
  <2> QED
    BY <2>8, <2>9
<1>5. ASSUME NEW s \in Threads,
             AnalysisBegin(s) \/ AnalysisFails(s) \/ AnalysisEnd(s) \/ AnalysisCheck(s)
               \/ AnalysisSignal(s) \/ AnalysisZero(s)
      PROVE  Paired'
  <2>1. PICK to \in PCs : /\ an' = [an EXCEPT ![s].pc = to]
                          /\ to \in Early => an[s].pc \in Early
    BY <1>5 DEF AnalysisBegin, AnalysisFails, AnalysisEnd, AnalysisCheck, AnalysisSignal, AnalysisZero,
                Goes, Early
  <2>2. /\ an'[s].pc = to /\ an'[s].step = an[s].step
        /\ \A r \in Threads \ {s} : an'[r] = an[r]
    BY <2>1, GoesOn DEF IInv
  <2>3. /\ insts' = insts /\ items' = items /\ rule' = rule /\ faults' = faults
        /\ stops' = stops /\ cycle' = cycle
    BY <1>5 DEF AnalysisBegin, AnalysisFails, AnalysisEnd, AnalysisCheck, AnalysisSignal, AnalysisZero
  <2> QED
    BY <2>1, <2>2, <2>3, KeepsPaired
<1>6. ASSUME NEW s \in Threads, AnalysisClear(s) PROVE Paired'
  <2>1. an[s].pc = "clear" /\ an' = [an EXCEPT ![s] = [pc |-> "run", piece |-> start, step |-> 1, unknown |-> 0]]
    BY <1>6 DEF AnalysisClear
  <2>2. /\ an'[s].pc = "run" /\ an'[s].step = 1 /\ \A r \in Threads \ {s} : an'[r] = an[r]
    BY <2>1 DEF IInv, Typed
  <2>3. /\ insts' = insts /\ items' = items /\ rule' = rule /\ faults' = faults
        /\ stops' = stops /\ cycle' = cycle
    BY <1>6 DEF AnalysisClear
  <2>4. CASE rule = "normal" /\ stops = 0
    <3>1. an[s].step = 1
      BY <2>1, <2>4 DEF Paired, Early
    <3> QED
      BY <2>2, <2>3, <3>1, KeepsPaired DEF Early
  <2>5. CASE ~(rule = "normal" /\ stops = 0)
    BY <2>3, <2>5 DEF Paired
  <2> QED
    BY <2>4, <2>5
<1>7. CASE Analysis
  BY <1>5, <1>6, <1>7, HandlesPaired DEF Analysis
<1> QED
  BY <1>1, <1>2, <1>3, <1>4, <1>7 DEF Next, Command

\* When at most one append can fail, it shows: the files differ in length, or
\* every instruction that was executed is there with its own data item.
THEOREM DamageIsVisible == ASSUME MaxMishaps <= 1 PROVE Spec => []DamageShows
<1>1. Init => IInv /\ Paired
  BY InitInv, InitPaired
<1>2. IInv /\ Paired /\ [Next]_vars => (IInv /\ Paired)'
  BY NextInv, NextPaired
<1>3. Paired => DamageShows
  BY DEF Paired, DamageShows
<1> QED
  BY <1>1, <1>2, <1>3, PTL DEF Spec
=============================================================================

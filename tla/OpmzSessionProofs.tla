-------------------------- MODULE OpmzSessionProofs --------------------------
(* What holds of a recording for every number of processes, instructions   *)
(* and mishaps.                                                            *)
EXTENDS OpmzSession, SequenceTheorems, TLAPS

-----------------------------------------------------------------------------
(* The inductive invariants.                                               *)

Insts == [n : Nat, cut : BOOLEAN]
PCs == Steps \cup BakSteps \cup {"idle", "refused", "ended", "crashed"}
Kinds == {"debugger", "crash", "append", "piece", "copy", "delete", "cycle", "beside", "second"}
Analysis ==
    \/ AnalysisStart \/ AnalysisItem \/ AnalysisInst \/ InvalidInst \/ InvalidItem
    \/ CycleItem \/ AnalysisEnd \/ AnalysisCrash

Typed ==
    /\ DOMAIN file = Files /\ file["x"] \in Seq(Insts) /\ file["data"] \in Seq(Nat)
    /\ DOMAIN bak = Files /\ bak["x"] \in Seq(Insts)
    /\ rec \in {"off", "next", "inst", "item"} /\ recorded \in 0..MaxRecords
    /\ pc \in [Optimizers -> PCs] /\ at \in [Optimizers -> Files]
    /\ num \in [Optimizers -> Nat] /\ from \in [Optimizers -> Nat]
    /\ buf \in [Optimizers -> Seq(Insts)] /\ log \in [Optimizers -> Seq(Nat)]
    /\ mishaps \in Seq(Kinds) /\ Len(mishaps) <= MaxMishaps

\* What a process has logged is a beginning of its recording, cut where a
\* piece begins as long as no piece failed.
Fresh(o) == pc[o] \in {"idle", "exists", "size", "compare", "read"}
Forward(o) ==
    /\ Fresh(o) => log[o] = <<>> /\ from[o] = 0
    /\ Len(log[o]) <= Len(buf[o]) /\ \A i \in 1..Len(log[o]) : log[o][i] = buf[o][i].n
    /\ from[o] <= Len(buf[o])
    /\ pc[o] = "piece" => /\ Len(log[o]) = from[o] /\ Len(buf[o]) > 0
                          /\ 0 < from[o] /\ from[o] < Len(buf[o]) => buf[o][from[o] + 1].cut
    /\ pc[o] \in BakSteps /\ ~Happened("piece") =>
          \/ Len(log[o]) = Len(buf[o])
          \/ Len(log[o]) = Len(buf[o]) - 1 /\ (buf[o][Len(buf[o])].cut \/ Len(buf[o]) = 1)
Progress == \A o \in Optimizers : Forward(o)

\* Who runs beside another is known.
Alone ==
    /\ \A o, p \in Optimizers : o \in Alive /\ p \in Alive /\ o # p => Happened("second")
    /\ \A o \in Optimizers : o \in Alive /\ rec # "off" => Happened("beside")

\* The number of instructions that are out of the hands of the analysis.
Done == IF rec = "inst" THEN recorded - 1 ELSE recorded
\* A process that has read the recording and not yet deleted it.
Holds(o) == pc[o] = "piece" \/ (pc[o] \in BakSteps /\ at[o] = "x")
Rising(f) == \A i, j \in 1..Len(f) : i < j => f[i].n < f[j].n
InDone(f) == \A i \in 1..Len(f) : f[i].n \in 1..Done
Begins(b, f) == Len(b) <= Len(f) /\ \A i \in 1..Len(b) : b[i] = f[i]
Reader(o) ==
    /\ Fresh(o) => at[o] = "x" /\ buf[o] = <<>>
    /\ pc[o] = "piece" => at[o] = "x"
    /\ Holds(o) => /\ buf[o] # <<>>
                   /\ ~Happened("second") => Begins(buf[o], file["x"])
                   /\ ~Happened("second") /\ ~Happened("beside") => buf[o] = file["x"]
    /\ InDone(buf[o])
Numbered ==
    /\ rec \in {"inst", "item"} => recorded > 0
    /\ Rising(file["x"]) /\ InDone(file["x"]) /\ InDone(bak["x"])
    /\ \A o \in Optimizers : Reader(o)

InFile(n, f) == \E i \in 1..Len(f) : f[i].n = n
\* An instruction that is still in the file was logged by nobody but the
\* process that holds it.
Held(o) == \A i \in 1..Len(log[o]) : InFile(log[o][i], file["x"]) => Holds(o)
Apart(o, p) == \A i \in 1..Len(log[o]), j \in 1..Len(log[p]) : log[o][i] # log[p][j]
Once ==
    \/ Happened("crash") \/ Happened("delete") \/ Happened("second")
    \/ /\ \A o \in Optimizers : Held(o)
       /\ \A o, p \in Optimizers : o # p => Apart(o, p)

\* The numbers in a file have no gap and end with the instruction, the item,
\* that was appended last, so the lengths tell whether the files are even.
LastItem == IF rec = "item" THEN recorded - 1 ELSE recorded
InARow ==
    /\ \A i \in 1..Len(file["x"]) : file["x"][i].n = Done - Len(file["x"]) + i
    /\ \A i \in 1..Len(file["data"]) : file["data"][i] = LastItem - Len(file["data"]) + i
Level == Len(file["data"]) - Len(file["x"]) = LastItem - Done
Even == InARow /\ Level
\* After a mishap of the analysis they may be level no more, and then no
\* process gets past xx_opmz_file_check.
Odd == ~Level /\ Len(mishaps) = 1 /\ \A o \in Optimizers : pc[o] \notin {"piece"} \cup BakSteps
Between(o) == pc[o] \in BakSteps /\ at[o] = "data"
Own == \A p \in pairs : p[1] = p[2]
Matches(o) == \A i \in 1..Len(buf[o]) : i \in 1..Len(file["data"]) => buf[o][i].n = file["data"][i]
\* A process that has not deleted vm_opmz.x finds the files even, or it will
\* not read on, or nobody appends any more to what it reads.
Uneven(o) ==
    /\ rec = "off" /\ Len(mishaps) = 1
    /\ pc[o] = "compare" => file["x"] = <<>> \/ num[o] = Len(file["x"])
    /\ pc[o] = "read" => file["x"] = <<>>
    /\ pc[o] = "piece" => Matches(o)
ItemsOf(o) ==
    /\ o \in Alive /\ ~Between(o) =>
          Uneven(o) \/ (Even /\ (Holds(o) => Begins(buf[o], file["x"])))
    /\ Between(o) => Happened("beside") \/ Happened("delete") \/ file["x"] = <<>>
Items ==
    Len(mishaps) <= 1 =>
      /\ Own /\ (InARow \/ Odd)
      /\ \A o \in Optimizers : ItemsOf(o)
      /\ Len(mishaps) = 0 /\ (\A o \in Optimizers : ~Between(o)) => Even

\* What leaves vm_opmz.x was copied before, and a backup is older than the
\* recording that replaces it.
Kept(n) == InFile(n, file["x"]) \/ InFile(n, bak["x"]) \/ (\E o \in Optimizers : buf[o] # <<>> /\ n < buf[o][1].n)
BakOf(o) ==
    at[o] = "x" => /\ pc[o] = "copy" => bak["x"] = <<>>
                   /\ pc[o] = "delete" => bak["x"] = file["x"]
Older ==
    \A i \in 1..Len(bak["x"]) :
       \/ InFile(bak["x"][i].n, file["x"])
       \/ \A j \in 1..Len(file["x"]) : bak["x"][i].n < file["x"][j].n
Disturbed ==
    Happened("beside") \/ Happened("second") \/ Happened("copy") \/ Happened("debugger") \/ Happened("append")
Backed ==
    Disturbed
    \/ /\ \A o \in Optimizers : BakOf(o)
       /\ Older
       /\ \A n \in 1..Done : Kept(n)

IInv == Typed /\ Progress
\* What the invariants on the contents of the files build on.
Base == IInv /\ Alone /\ Numbered
-----------------------------------------------------------------------------
(* Lemmas on the operators of the model.                                    *)

USE DEF Files, Steps, BakSteps, PCs, Kinds, Fresh, process, results

LEMMA Bounds == MaxRecords \in Nat /\ MaxMishaps \in Nat
BY SessionAssumption

\* Whatever goes wrong is noted, after what went wrong before.
LEMMA MishapAdds ==
    ASSUME mishaps \in Seq(Kinds), NEW kind \in Kinds, Mishap(kind)
    PROVE  /\ mishaps' \in Seq(Kinds) /\ Len(mishaps') = Len(mishaps) + 1
           /\ Len(mishaps') <= MaxMishaps
           /\ \A k : Happened(k)' <=> (Happened(k) \/ k = kind)
<1>1. Len(mishaps) \in Nat /\ DOMAIN mishaps = 1..Len(mishaps)
  BY LenProperties
<1>2. mishaps' = Append(mishaps, kind) /\ Len(mishaps) < MaxMishaps
  BY DEF Mishap
<1>3. /\ mishaps' \in Seq(Kinds) /\ Len(mishaps') = Len(mishaps) + 1
      /\ \A i \in 1..Len(mishaps) : mishaps'[i] = mishaps[i]
      /\ mishaps'[Len(mishaps) + 1] = kind
  <2> DEFINE m == Append(mishaps, kind)
  <2> HIDE DEF Kinds
  <2>1. /\ m \in Seq(Kinds) /\ Len(m) = Len(mishaps) + 1
        /\ \A i \in 1..Len(mishaps) : m[i] = mishaps[i]
        /\ m[Len(mishaps) + 1] = kind
    BY AppendProperties
  <2> QED
    BY <1>2, <2>1
<1>4. DOMAIN mishaps' = 1..Len(mishaps) + 1
  BY <1>3, LenProperties, Zenon
<1> HIDE DEF Kinds
<1>5. Happened(kind)'
  <2>1. Len(mishaps) + 1 \in DOMAIN mishaps'
    BY <1>1, <1>4
  <2> QED
    BY <1>3, <2>1, Zenon DEF Happened, Range
<1>6. ASSUME NEW k, Happened(k) PROVE Happened(k)'
  <2>1. PICK i \in 1..Len(mishaps) : k = mishaps[i]
    BY <1>1, <1>6, Zenon DEF Happened, Range
  <2>2. i \in DOMAIN mishaps'
    BY <1>1, <1>4
  <2> QED
    BY <1>3, <2>1, <2>2, Zenon DEF Happened, Range
<1>7. ASSUME NEW k, Happened(k)', k # kind PROVE Happened(k)
  <2>1. PICK i \in 1..Len(mishaps) + 1 : k = mishaps'[i]
    BY <1>4, <1>7, Zenon DEF Happened, Range
  <2>2. i \in 1..Len(mishaps) /\ k = mishaps[i]
    BY <1>1, <1>3, <1>7, <2>1
  <2> QED
    BY <1>1, <2>2, Zenon DEF Happened, Range
<1> QED
  BY <1>1, <1>2, <1>3, <1>5, <1>6, <1>7, Bounds

\* What a piece appends to the log.
LEMMA LogsAppends ==
    ASSUME Typed, NEW o \in Optimizers, NEW end \in from[o]..Len(buf[o]), Logs(o, end)
    PROVE  /\ log' \in [Optimizers -> Seq(Nat)]
           /\ \A p \in Optimizers \ {o} : log'[p] = log[p]
           /\ Len(log'[o]) = Len(log[o]) + (end - from[o])
           /\ \A i \in 1..Len(log[o]) : log'[o][i] = log[o][i]
           /\ \A i \in 1..end - from[o] : log'[o][Len(log[o]) + i] = buf[o][from[o] + i].n
<1> DEFINE b == buf[o]
           sub == SubSeq(b, from[o] + 1, end)
           add == Numbers(sub)
<1>1. b \in Seq(Insts) /\ Len(b) \in Nat /\ from[o] \in Nat /\ log[o] \in Seq(Nat) /\ end \in Nat
      /\ end - from[o] \in Nat /\ log \in [Optimizers -> Seq(Nat)] /\ Len(log[o]) \in Nat
  BY LenProperties DEF Typed
<1>2. \A i \in from[o] + 1..end : b[i] \in Insts
  BY <1>1, ElementOfSeq
<1>3. /\ sub \in Seq(Insts) /\ Len(sub) = end - from[o]
      /\ \A i \in 1..end - from[o] : sub[i] = b[from[o] + i]
  <2>1. from[o] + 1 \in Int /\ end \in Int
    BY <1>1
  <2> HIDE DEF b
  <2>2. /\ sub \in Seq(Insts)
        /\ Len(sub) = IF from[o] + 1 <= end THEN end - (from[o] + 1) + 1 ELSE 0
        /\ \A i \in 1..end - (from[o] + 1) + 1 : sub[i] = b[from[o] + 1 + i - 1]
    BY <1>2, <2>1, SubSeqProperties
  <2> HIDE DEF sub
  <2> DEFINE m == end - from[o]
  <2>3. m \in Nat /\ end - (from[o] + 1) + 1 = m
    BY <1>1
  <2>4. Len(sub) = m
    <3>1. IF from[o] + 1 <= end THEN end - (from[o] + 1) + 1 = m ELSE m = 0
      BY <1>1
    <3> QED
      BY <2>2, <3>1
  <2>5. ASSUME NEW i \in 1..m PROVE sub[i] = b[from[o] + i]
    <3>1. from[o] + 1 + i - 1 = from[o] + i
      BY <1>1
    <3> HIDE DEF m
    <3>2. sub[i] = b[from[o] + 1 + i - 1]
      BY <2>2, <2>3, <2>5
    <3> QED
      BY <3>1, <3>2
  <2> QED
    BY <2>2, <2>4, <2>5
<1> HIDE DEF sub
<1>4. /\ add \in Seq(Nat) /\ Len(add) = end - from[o]
      /\ \A i \in 1..end - from[o] : add[i] = b[from[o] + i].n
  <2>1. DOMAIN sub = 1..end - from[o]
    BY <1>3, LenProperties
  <2>2. add = [i \in 1..end - from[o] |-> sub[i].n]
    BY <2>1 DEF Numbers
  <2>3. \A i \in 1..end - from[o] : sub[i].n \in Nat /\ sub[i].n = b[from[o] + i].n
    <3> SUFFICES ASSUME NEW i \in 1..end - from[o] PROVE sub[i].n \in Nat /\ sub[i].n = b[from[o] + i].n
      OBVIOUS
    <3>1. from[o] + i \in from[o] + 1..end
      BY <1>1
    <3>2. sub[i] = b[from[o] + i] /\ sub[i] \in Insts
      BY <1>2, <1>3, <3>1
    <3> QED
      BY <3>2 DEF Insts
  <2>4. add \in Seq(Nat) /\ Len(add) = end - from[o] /\ \A i \in 1..end - from[o] : add[i] = sub[i].n
    <3> DEFINE k == end - from[o]
               f == [i \in 1..k |-> sub[i].n]
    <3>1. k \in Nat /\ \A i \in 1..k : f[i] = sub[i].n /\ f[i] \in Nat
      BY <1>1, <2>3
    <3>2. f \in [1..k -> Nat]
      BY <3>1
    <3>3. f \in Seq(Nat) /\ Len(f) = k
      BY <3>1, <3>2
    <3> QED
      BY <2>2, <3>1, <3>3
  <2> QED
    BY <2>3, <2>4
<1> HIDE DEF add
<1>5. log' = [log EXCEPT ![o] = log[o] \o add]
  BY DEF Logs, add, sub
<1> HIDE DEF b
<1>6. /\ log[o] \o add \in Seq(Nat)
      /\ Len(log[o] \o add) = Len(log[o]) + (end - from[o])
      /\ \A i \in 1..Len(log[o]) + (end - from[o]) :
           (log[o] \o add)[i] = IF i <= Len(log[o]) THEN log[o][i] ELSE add[i - Len(log[o])]
  <2>1. /\ log[o] \o add \in Seq(Nat)
        /\ Len(log[o] \o add) = Len(log[o]) + Len(add)
        /\ \A i \in 1..Len(log[o]) + Len(add) :
             (log[o] \o add)[i] = IF i <= Len(log[o]) THEN log[o][i] ELSE add[i - Len(log[o])]
    BY <1>1, <1>4, ConcatProperties
  <2> QED
    BY <1>4, <2>1
<1> DEFINE new == log[o] \o add
<1>7. log'[o] = new /\ log' \in [Optimizers -> Seq(Nat)] /\ \A p \in Optimizers \ {o} : log'[p] = log[p]
  BY <1>1, <1>5, <1>6
<1> HIDE DEF new
<1>8. /\ \A i \in 1..Len(log[o]) : new[i] = log[o][i]
      /\ \A i \in 1..end - from[o] : new[Len(log[o]) + i] = b[from[o] + i].n
  BY <1>1, <1>4, <1>6 DEF new
<1> QED
  BY <1>6, <1>7, <1>8 DEF new, b

LEMMA EndsAfter ==
    ASSUME Typed, NEW o \in Optimizers, More(o), NEW end \in Ends(o)
    PROVE  /\ end \in from[o] + 1..Len(buf[o]) /\ from[o] \in Nat /\ Len(buf[o]) \in Nat
           /\ end < Len(buf[o]) => buf[o][end + 1].cut
BY LenProperties DEF Typed, Ends, PieceSeq

-----------------------------------------------------------------------------
(* Types and the progress of a process.                                     *)

LEMMA InitIInv == Init => IInv
<1> SUFFICES ASSUME Init PROVE IInv
  OBVIOUS
<1>1. <<>> \in Seq(Insts) /\ <<>> \in Seq(Nat) /\ <<>> \in Seq(Kinds) /\ Len(<<>>) = 0
  BY EmptySeq
<1>2. Typed
  <2>1. /\ DOMAIN file = Files /\ file["x"] = <<>> /\ file["data"] = <<>>
        /\ DOMAIN bak = Files /\ bak["x"] = <<>> /\ mishaps = <<>>
    BY DEF Init
  <2>2. /\ pc \in [Optimizers -> PCs] /\ at \in [Optimizers -> Files]
        /\ num \in [Optimizers -> Nat] /\ from \in [Optimizers -> Nat]
        /\ buf \in [Optimizers -> Seq(Insts)] /\ log \in [Optimizers -> Seq(Nat)]
    BY <1>1 DEF Init
  <2> QED
    BY <1>1, <2>1, <2>2, Bounds DEF Init, Typed
<1>3. Progress
  BY <1>1 DEF Init, Progress, Forward
<1> QED
  BY <1>2, <1>3 DEF IInv

\* A process of which nothing changes is where it was.
LEMMA ForwardKept ==
    ASSUME NEW o \in Optimizers, Forward(o),
           pc'[o] = pc[o], buf'[o] = buf[o], from'[o] = from[o], log'[o] = log[o],
           Happened("piece") => Happened("piece")'
    PROVE  Forward(o)'
BY DEF Forward

LEMMA GoesTyped ==
    ASSUME Typed, NEW o \in Optimizers, NEW step, NEW next \in PCs, Goes(o, step, next)
    PROVE  /\ pc' \in [Optimizers -> PCs] /\ pc'[o] = next /\ pc[o] = step
           /\ \A p \in Optimizers \ {o} : pc'[p] = pc[p]
BY DEF Goes, Typed

LEMMA HappenedKept == ASSUME UNCHANGED mishaps, NEW k PROVE Happened(k)' <=> Happened(k)
BY DEF Happened

LEMMA ReadDataTyped == Typed => Len(file["data"]) \in Nat /\ Len(file["x"]) \in Nat
BY LenProperties DEF Typed

\* What a step of the analysis may do to the files, and what may go wrong.
LEMMA AnalysisEffect ==
    ASSUME Typed, Analysis
    PROVE  /\ UNCHANGED <<bak, pc, num, buf, from, at, log, pairs>>
           /\ UNCHANGED mishaps \/ \E kind \in {"debugger", "append", "cycle", "beside"} : Mishap(kind)
           /\ rec' \in {"off", "next", "inst", "item"} /\ recorded' \in 0..MaxRecords
           /\ rec' \in {"inst", "item"} => recorded' > 0
           /\ rec = "off" => Lonely("beside")
           /\ DOMAIN file' = Files
           /\ \/ file'["data"] = file["data"]
              \/ \E n \in Nat : file'["data"] = Append(file["data"], n)
           /\ \/ /\ file'["x"] = file["x"] /\ Done' \in {Done, Done + 1}
                 /\ Done' # Done => Mishap("debugger") \/ Mishap("append")
              \/ /\ rec # "off" /\ UNCHANGED mishaps /\ Done' = Done + 1
                 /\ \E c \in BOOLEAN : file'["x"] = Append(file["x"], Inst(Done', c))
<1>1. DOMAIN file = Files /\ recorded \in Nat /\ recorded <= MaxRecords /\ MaxRecords \in Nat
  BY Bounds DEF Typed
<1>2. CASE AnalysisStart \/ AnalysisEnd \/ AnalysisCrash
  BY <1>1, <1>2 DEF AnalysisStart, AnalysisEnd, AnalysisCrash, Lonely, Typed, Done
<1>3. CASE AnalysisItem
  <2>1. rec = "next" /\ rec' = "inst" /\ recorded' = recorded + 1 /\ recorded' \in 0..MaxRecords
    BY <1>1, <1>3 DEF AnalysisItem, Handles
  <2> QED
    BY <1>1, <1>3, <2>1 DEF AnalysisItem, Appends, Done
<1>4. CASE CycleItem
  BY <1>1, <1>4 DEF CycleItem, Appends, Typed, Done
<1>5. CASE InvalidItem
  BY <1>1, <1>5 DEF InvalidItem, Appends, AppendsOrFails, Done
<1>6. CASE AnalysisInst
  <2>0. rec = "inst" /\ rec' = "next" /\ recorded' = recorded /\ Done = recorded - 1 /\ Done' = recorded
    BY <1>6 DEF AnalysisInst, Done
  <2>1. PICK c \in BOOLEAN : AppendsOrFails("x", Inst(recorded, c))
    BY <1>6 DEF AnalysisInst
  <2>2. CASE Appends("x", Inst(recorded, c)) /\ UNCHANGED mishaps
    <3>1. DOMAIN file' = Files /\ file'["x"] = Append(file["x"], Inst(Done', c)) /\ file'["data"] = file["data"]
      BY <1>1, <2>0, <2>2 DEF Appends
    <3>2. Done' = Done + 1
      BY <1>1, <2>0
    <3> QED
      BY <1>1, <1>6, <2>0, <2>2, <3>1, <3>2 DEF AnalysisInst
  <2>3. CASE Mishap("append") /\ UNCHANGED file
    BY <1>1, <1>6, <2>0, <2>3 DEF AnalysisInst
  <2> QED
    BY <2>1, <2>2, <2>3 DEF AppendsOrFails
<1>7. CASE InvalidInst
  <2>0. /\ rec = "next" /\ rec' = "item" /\ recorded' = recorded + 1 /\ recorded' \in 0..MaxRecords
        /\ Done = recorded /\ Done' = recorded'
    BY <1>1, <1>7 DEF InvalidInst, Handles, Done
  <2>1. PICK c \in BOOLEAN : AppendsOrFails("x", Inst(recorded', c))
    BY <1>7 DEF InvalidInst
  <2>2. CASE Appends("x", Inst(recorded', c)) /\ UNCHANGED mishaps
    <3>1. DOMAIN file' = Files /\ file'["x"] = Append(file["x"], Inst(Done', c)) /\ file'["data"] = file["data"]
      BY <1>1, <2>0, <2>2 DEF Appends
    <3> QED
      BY <1>1, <1>7, <2>0, <2>2, <3>1 DEF InvalidInst
  <2>3. CASE Mishap("append") /\ UNCHANGED file
    BY <1>1, <1>7, <2>0, <2>3 DEF InvalidInst
  <2> QED
    BY <2>1, <2>2, <2>3 DEF AppendsOrFails
<1> QED
  BY <1>2, <1>3, <1>4, <1>5, <1>6, <1>7 DEF Analysis

\* The file with one more instruction.
LEMMA AppendInst ==
    ASSUME Typed, NEW n \in Nat, NEW c \in BOOLEAN, NEW g, g = Append(file["x"], Inst(n, c))
    PROVE  /\ g \in Seq(Insts) /\ Len(file["x"]) \in Nat /\ Len(g) = Len(file["x"]) + 1
           /\ \A i \in 1..Len(file["x"]) : g[i] = file["x"][i]
           /\ g[Len(file["x"]) + 1].n = n
<1> DEFINE f == file["x"]
           e == Inst(n, c)
<1>1. f \in Seq(Insts) /\ e \in Insts /\ e.n = n
  <2>1. e \in Insts /\ e.n = n
    BY Zenon DEF Inst, Insts
  <2> QED
    BY <2>1 DEF Typed
<1>2. g = Append(f, e)
  OBVIOUS
<1> HIDE DEF f, e
<1>3. /\ g \in Seq(Insts) /\ Len(g) = Len(f) + 1 /\ Len(f) \in Nat
      /\ \A i \in 1..Len(f) : g[i] = f[i]
      /\ g[Len(f) + 1] = e
  BY <1>1, <1>2, AppendProperties, LenProperties
<1> QED
  BY <1>1, <1>3 DEF f

LEMMA AnalysisIInv == IInv /\ Analysis => IInv'
<1> SUFFICES ASSUME IInv, Analysis PROVE IInv'
  OBVIOUS
<1>0. Typed /\ Progress
  BY DEF IInv
<1>1. /\ UNCHANGED <<bak, pc, num, buf, from, at, log, pairs>>
      /\ UNCHANGED mishaps \/ \E kind \in Kinds : Mishap(kind)
      /\ rec' \in {"off", "next", "inst", "item"} /\ recorded' \in 0..MaxRecords
      /\ DOMAIN file' = Files
      /\ \/ file'["data"] = file["data"]
         \/ \E n \in Nat : file'["data"] = Append(file["data"], n)
      /\ \/ file'["x"] = file["x"]
         \/ Done' = Done + 1 /\ \E c \in BOOLEAN : file'["x"] = Append(file["x"], Inst(Done', c))
  BY <1>0, AnalysisEffect
<1>2. mishaps' \in Seq(Kinds) /\ Len(mishaps') <= MaxMishaps /\ (Happened("piece") => Happened("piece")')
  <2>1. CASE UNCHANGED mishaps
    BY <1>0, <2>1, HappenedKept DEF Typed
  <2>2. CASE ~UNCHANGED mishaps
    <3>1. PICK kind \in Kinds : Mishap(kind)
      BY <1>1, <2>2
    <3> QED
      BY <1>0, <3>1, MishapAdds DEF Typed
  <2> QED
    BY <2>1, <2>2
<1>3. Progress'
  BY <1>0, <1>1, <1>2, ForwardKept DEF Progress
<1>4. file'["data"] \in Seq(Nat)
  <2>1. \A s \in Seq(Nat), n \in Nat : Append(s, n) \in Seq(Nat)
    BY AppendProperties
  <2>2. file["data"] \in Seq(Nat)
    BY <1>0 DEF Typed
  <2> QED
    BY <1>1, <2>1, <2>2, Zenon
<1>5. file'["x"] \in Seq(Insts)
  <2>1. CASE file'["x"] = file["x"]
    BY <1>0, <2>1 DEF Typed
  <2>2. CASE ~(file'["x"] = file["x"])
    <3>1. Done' = Done + 1 /\ \E c \in BOOLEAN : file'["x"] = Append(file["x"], Inst(Done', c))
      BY <1>1, <2>2
    <3>2. Done \in Int /\ Done >= -1
      BY <1>0, Bounds DEF Done, Typed
    <3>3. Done' \in Nat
      BY <3>1, <3>2
    <3> QED
      BY <1>0, <3>1, <3>3, AppendInst
  <2> QED
    BY <2>1, <2>2
<1>6. Typed'
  BY <1>0, <1>1, <1>2, <1>4, <1>5 DEF Typed
<1> QED
  BY <1>3, <1>6 DEF IInv

LEMMA OptimizeIInv == ASSUME IInv, NEW o \in Optimizers, Optimize(o) PROVE IInv'
<1>0. Typed /\ Progress
  BY DEF IInv
<1>1. /\ pc' \in [Optimizers -> PCs] /\ pc'[o] = "exists" /\ pc[o] = "idle"
      /\ \A p \in Optimizers \ {o} : pc'[p] = pc[p]
      /\ UNCHANGED <<file, bak, rec, recorded, num, buf, from, at, log>>
  BY <1>0 DEF Typed, Optimize
<1>2. mishaps' \in Seq(Kinds) /\ Len(mishaps') <= MaxMishaps /\ (Happened("piece") => Happened("piece")')
  <2>1. CASE UNCHANGED mishaps
    BY <1>0, <2>1, HappenedKept DEF Typed
  <2>2. CASE Mishap("second")
    BY <1>0, <2>2, MishapAdds DEF Typed
  <2> QED
    BY <2>1, <2>2 DEF Optimize, Lonely
<1>3. Typed'
  BY <1>0, <1>1, <1>2 DEF Typed
<1>4. Forward(o)'
  BY <1>0, <1>1 DEF Progress, Forward
<1>5. \A p \in Optimizers \ {o} : Forward(p)'
  BY <1>0, <1>1, <1>2, ForwardKept DEF Progress
<1> QED
  BY <1>3, <1>4, <1>5 DEF IInv, Progress

LEMMA ChecksIInv ==
    ASSUME IInv, NEW o \in Optimizers, Exists(o) \/ CheckSize(o) \/ CheckCompare(o)
    PROVE  IInv'
<1>0. Typed /\ Progress
  BY DEF IInv
<1>1. \E step \in {"exists", "size", "compare"}, next \in {"refused", "size", "compare", "read"} : Goes(o, step, next)
  BY DEF Exists, CheckSize, CheckCompare
<1>2. /\ pc' \in [Optimizers -> PCs] /\ pc'[o] \in {"refused", "size", "compare", "read"}
      /\ pc[o] \in {"exists", "size", "compare"}
      /\ \A p \in Optimizers \ {o} : pc'[p] = pc[p]
  BY <1>0, <1>1, GoesTyped
<1>3. num' \in [Optimizers -> Nat]
  BY <1>0, ReadDataTyped DEF Typed, Exists, CheckSize, CheckCompare
<1>4. UNCHANGED <<file, bak, rec, recorded, buf, from, at, log, mishaps>>
  BY DEF Exists, CheckSize, CheckCompare
<1>5. Typed'
  BY <1>0, <1>2, <1>3, <1>4 DEF Typed
<1>6. Forward(o)'
  BY <1>0, <1>2, <1>4 DEF Progress, Forward
<1>7. \A p \in Optimizers \ {o} : Forward(p)'
  BY <1>0, <1>2, <1>4, ForwardKept, HappenedKept DEF Progress
<1> QED
  BY <1>5, <1>6, <1>7 DEF IInv, Progress

LEMMA ReadInstIInv == ASSUME IInv, NEW o \in Optimizers, ReadInst(o) PROVE IInv'
<1>0. Typed /\ Progress
  BY DEF IInv
<1>1. \E next \in {"refused", "piece"} : Goes(o, "read", next) /\ (next = "piece" => file["x"] # <<>>)
  BY DEF ReadInst
<1>2. /\ pc' \in [Optimizers -> PCs] /\ pc'[o] \in {"refused", "piece"} /\ pc[o] = "read"
      /\ pc'[o] = "piece" => file["x"] # <<>>
      /\ \A p \in Optimizers \ {o} : pc'[p] = pc[p]
  BY <1>0, <1>1, GoesTyped
<1>3. /\ buf' \in [Optimizers -> Seq(Insts)] /\ buf'[o] = file["x"]
      /\ \A p \in Optimizers \ {o} : buf'[p] = buf[p]
      /\ UNCHANGED <<file, bak, rec, recorded, num, from, at, log, mishaps>>
  BY <1>0 DEF Typed, ReadInst
<1>4. Typed'
  BY <1>0, <1>2, <1>3 DEF Typed
<1>5. Len(file["x"]) \in Nat /\ (file["x"] # <<>> => Len(file["x"]) > 0) /\ Len(<<>>) = 0
  BY <1>0, EmptySeq, LenProperties DEF Typed
<1>6. Forward(o)'
  BY <1>0, <1>2, <1>3, <1>5 DEF Progress, Forward
<1>7. \A p \in Optimizers \ {o} : Forward(p)'
  BY <1>0, <1>2, <1>3, ForwardKept, HappenedKept DEF Progress
<1> QED
  BY <1>4, <1>6, <1>7 DEF IInv, Progress

\* A log of a piece, or of a part of it.
LEMMA PieceLogged ==
    ASSUME IInv, NEW o \in Optimizers, pc[o] = "piece", NEW end \in from[o]..Len(buf[o]), Logs(o, end)
    PROVE  /\ log' \in [Optimizers -> Seq(Nat)]
           /\ \A p \in Optimizers \ {o} : log'[p] = log[p]
           /\ Len(log[o]) = from[o] /\ Len(log'[o]) = end
           /\ \A i \in 1..end : log'[o][i] = buf[o][i].n
<1>1. Typed /\ Forward(o) /\ from[o] \in Nat /\ Len(buf[o]) \in Nat /\ Len(log[o]) = from[o]
  BY LenProperties DEF IInv, Progress, Forward, Typed
<1>2. /\ log' \in [Optimizers -> Seq(Nat)] /\ \A p \in Optimizers \ {o} : log'[p] = log[p]
      /\ Len(log'[o]) = Len(log[o]) + (end - from[o])
      /\ \A i \in 1..Len(log[o]) : log'[o][i] = log[o][i]
      /\ \A i \in 1..end - from[o] : log'[o][Len(log[o]) + i] = buf[o][from[o] + i].n
  BY <1>1, LogsAppends
<1>3. \A i \in 1..end : log'[o][i] = buf[o][i].n
  <2> SUFFICES ASSUME NEW i \in 1..end PROVE log'[o][i] = buf[o][i].n
    OBVIOUS
  <2>1. CASE i <= from[o]
    BY <1>1, <1>2, <2>1 DEF Forward
  <2>2. CASE i > from[o]
    <3>1. i - from[o] \in 1..end - from[o] /\ from[o] + (i - from[o]) = i
      BY <1>1, <2>2
    <3> QED
      BY <1>1, <1>2, <3>1
  <2> QED
    BY <1>1, <2>1, <2>2
<1> QED
  BY <1>1, <1>2, <1>3

LEMMA OptimizePieceIInv == ASSUME IInv, NEW o \in Optimizers, OptimizePiece(o) PROVE IInv'
<1>0. Typed /\ Progress /\ Forward(o)
  BY DEF IInv, Progress
<1>1. PICK end \in Ends(o) : Logs(o, end) /\ from' = [from EXCEPT ![o] = end]
  BY DEF OptimizePiece
<1>2. /\ pc' \in [Optimizers -> PCs] /\ pc'[o] = "piece" /\ pc[o] = "piece"
      /\ \A p \in Optimizers \ {o} : pc'[p] = pc[p]
  BY <1>0, GoesTyped DEF OptimizePiece
<1>3. /\ end \in from[o] + 1..Len(buf[o]) /\ from[o] \in Nat /\ Len(buf[o]) \in Nat
      /\ end < Len(buf[o]) => buf[o][end + 1].cut
  BY <1>0, <1>1, EndsAfter DEF OptimizePiece
<1>4. /\ log' \in [Optimizers -> Seq(Nat)] /\ \A p \in Optimizers \ {o} : log'[p] = log[p]
      /\ Len(log'[o]) = end /\ \A i \in 1..end : log'[o][i] = buf[o][i].n
  BY <1>1, <1>2, <1>3, PieceLogged
<1>5. /\ from' \in [Optimizers -> Nat] /\ from'[o] = end /\ \A p \in Optimizers \ {o} : from'[p] = from[p]
      /\ UNCHANGED <<file, bak, rec, recorded, num, buf, at, mishaps>>
  BY <1>0, <1>1, <1>3 DEF Typed, OptimizePiece
<1>6. Typed'
  BY <1>0, <1>2, <1>4, <1>5 DEF Typed
<1>7. Forward(o)'
  BY <1>0, <1>2, <1>3, <1>4, <1>5 DEF Forward
<1>8. \A p \in Optimizers \ {o} : Forward(p)'
  BY <1>0, <1>2, <1>4, <1>5, ForwardKept, HappenedKept DEF Progress
<1> QED
  BY <1>6, <1>7, <1>8 DEF IInv, Progress

LEMMA LogsSomeLogged ==
    ASSUME IInv, NEW o \in Optimizers, pc[o] = "piece", More(o), NEW less \in {0, 1}, LogsSome(o, less)
    PROVE  \E k \in from[o]..Len(buf[o]) : Logs(o, k)
BY EndsAfter DEF IInv, LogsSome

LEMMA StopsIInv ==
    ASSUME IInv, NEW o \in Optimizers, PieceFails(o) \/ OptimizerCrash(o)
    PROVE  IInv'
<1>0. Typed /\ Progress /\ Forward(o) /\ Len(log[o]) \in Nat /\ Len(buf[o]) \in Nat /\ from[o] \in Nat
  BY LenProperties DEF IInv, Progress, Typed
<1>1. /\ pc' \in [Optimizers -> PCs] /\ pc'[o] \in {"forget", "crashed"}
      /\ \A p \in Optimizers \ {o} : pc'[p] = pc[p]
      /\ UNCHANGED <<file, bak, rec, recorded, num, buf, from, at>>
  BY <1>0 DEF Typed, PieceFails, OptimizerCrash, Goes
<1>2. /\ log' \in [Optimizers -> Seq(Nat)]
      /\ \A p \in Optimizers \ {o} : log'[p] = log[p]
      /\ Len(log'[o]) <= Len(buf[o]) /\ \A i \in 1..Len(log'[o]) : log'[o][i] = buf[o][i].n
  <2>1. CASE UNCHANGED log
    BY <1>0, <2>1 DEF Typed, Forward
  <2>2. CASE log' # log
    <3>1. pc[o] = "piece" /\ More(o) /\ \E less \in {0, 1} : LogsSome(o, less)
      BY <2>2 DEF PieceFails, OptimizerCrash, Goes
    <3>2. PICK k \in from[o]..Len(buf[o]) : Logs(o, k)
      BY <3>1, LogsSomeLogged
    <3> QED
      BY <1>0, <3>1, <3>2, PieceLogged
  <2> QED
    BY <2>1, <2>2
<1>3. /\ mishaps' \in Seq(Kinds) /\ Len(mishaps') <= MaxMishaps
      /\ pc'[o] = "forget" => Happened("piece")'
      /\ Happened("piece") => Happened("piece")'
  <2>1. CASE PieceFails(o)
    BY <1>0, <2>1, MishapAdds DEF PieceFails, Typed
  <2>2. CASE OptimizerCrash(o)
    <3>1. pc'[o] = "crashed"
      BY <1>0, <2>2 DEF OptimizerCrash, Typed
    <3> QED
      BY <1>0, <2>2, <3>1, MishapAdds DEF OptimizerCrash, Typed
  <2> QED
    BY <2>1, <2>2
<1>4. Typed'
  BY <1>0, <1>1, <1>2, <1>3 DEF Typed
<1>5. Forward(o)'
  BY <1>0, <1>1, <1>2, <1>3 DEF Forward
<1>6. \A p \in Optimizers \ {o} : Forward(p)'
  BY <1>0, <1>1, <1>2, <1>3, ForwardKept DEF Progress
<1> QED
  BY <1>4, <1>5, <1>6 DEF IInv, Progress

LEMMA LoopEndsIInv == ASSUME IInv, NEW o \in Optimizers, LoopEnds(o) PROVE IInv'
<1>0. Typed /\ Progress /\ Forward(o) /\ Len(buf[o]) \in Nat /\ from[o] \in Nat /\ Len(buf[o]) <= from[o] + 1
  BY LenProperties DEF IInv, Progress, Typed, LoopEnds, More
<1>1. /\ pc' \in [Optimizers -> PCs] /\ pc'[o] = "forget" /\ pc[o] = "piece"
      /\ \A p \in Optimizers \ {o} : pc'[p] = pc[p]
  BY <1>0, GoesTyped DEF LoopEnds
<1>2. UNCHANGED <<file, bak, rec, recorded, num, buf, from, at, log, mishaps>>
  BY DEF LoopEnds
<1>3. Typed'
  BY <1>0, <1>1, <1>2 DEF Typed
<1>4. \/ Len(log[o]) = Len(buf[o])
      \/ Len(log[o]) = Len(buf[o]) - 1 /\ (buf[o][Len(buf[o])].cut \/ Len(buf[o]) = 1)
  <2>1. CASE from[o] = Len(buf[o])
    BY <1>0, <1>1, <2>1 DEF Forward
  <2>2. CASE from[o] = 0 /\ Len(buf[o]) = 1
    <3>1. Len(log[o]) = from[o]
      BY <1>0, <1>1 DEF Forward
    <3> QED
      BY <2>2, <3>1
  <2>3. CASE from[o] = Len(buf[o]) - 1 /\ from[o] > 0
    <3>1. from[o] + 1 = Len(buf[o]) /\ buf[o][from[o] + 1].cut
      BY <1>0, <1>1, <2>3 DEF Forward
    <3> QED
      BY <1>0, <1>1, <2>3, <3>1 DEF Forward
  <2>4. from[o] = Len(buf[o]) \/ from[o] = Len(buf[o]) - 1
    BY <1>0 DEF Forward
  <2>5. ASSUME from[o] = Len(buf[o]) - 1, ~(from[o] > 0) PROVE from[o] = 0 /\ Len(buf[o]) = 1
    <3> DEFINE L == Len(buf[o])
               n == from[o]
    <3>1. L \in Nat /\ n \in Nat /\ n = L - 1 /\ ~(n > 0)
      BY <1>0, <2>5
    <3> HIDE DEF L, n
    <3>2. n = 0 /\ L = 1
      BY <3>1
    <3> QED
      BY <3>2 DEF L, n
  <2> QED
    BY <2>1, <2>2, <2>3, <2>4, <2>5
<1>5. Forward(o)'
  BY <1>0, <1>1, <1>2, <1>4 DEF Forward
<1>6. \A p \in Optimizers \ {o} : Forward(p)'
  BY <1>0, <1>1, <1>2, ForwardKept, HappenedKept DEF Progress
<1> QED
  BY <1>3, <1>5, <1>6 DEF IInv, Progress

LEMMA BakIInv ==
    ASSUME IInv, NEW o \in Optimizers, BakForget(o) \/ BakCopy(o) \/ BakDelete(o)
    PROVE  IInv'
<1>0. Typed /\ Progress /\ Forward(o) /\ at[o] \in Files
  BY DEF IInv, Progress, Typed
<1>1. \E step \in BakSteps, next \in {"copy", "delete", "forget", "ended"} : Goes(o, step, next)
  BY DEF BakForget, BakCopy, BakDelete
<1>2. /\ pc' \in [Optimizers -> PCs] /\ pc[o] \in BakSteps /\ pc'[o] \in BakSteps \cup {"ended"}
      /\ \A p \in Optimizers \ {o} : pc'[p] = pc[p]
  BY <1>0, <1>1, GoesTyped
<1>3. UNCHANGED <<rec, recorded, num, buf, from, log>>
  BY DEF BakForget, BakCopy, BakDelete
<1>4. /\ mishaps' \in Seq(Kinds) /\ Len(mishaps') <= MaxMishaps
      /\ Happened("piece") <=> Happened("piece")'
  <2>1. CASE UNCHANGED mishaps
    BY <1>0, <2>1, HappenedKept DEF Typed
  <2>2. CASE Mishap("copy") \/ Mishap("delete")
    BY <1>0, <2>2, MishapAdds DEF Typed
  <2> QED
    BY <2>1, <2>2 DEF BakForget, BakCopy, BakDelete
<1>5. at' \in [Optimizers -> Files]
  BY <1>0 DEF Typed, BakForget, BakCopy, BakDelete
<1>6. /\ DOMAIN file' = Files /\ file'["x"] \in Seq(Insts) /\ file'["data"] \in Seq(Nat)
      /\ DOMAIN bak' = Files /\ bak'["x"] \in Seq(Insts)
  <2>1. <<>> \in Seq(Insts) /\ <<>> \in Seq(Nat)
    BY EmptySeq
  <2>2. /\ file["x"] \in Seq(Insts) /\ file["data"] \in Seq(Nat) /\ bak["x"] \in Seq(Insts)
        /\ DOMAIN file = Files /\ DOMAIN bak = Files
    BY <1>0 DEF Typed
  <2>3. \/ UNCHANGED <<file, bak>>
        \/ UNCHANGED file /\ (\E f \in Files : \E v \in {<<>>, file[f]} : bak' = [bak EXCEPT ![f] = v])
        \/ UNCHANGED bak /\ (\E f \in Files : file' = [file EXCEPT ![f] = <<>>])
    BY <1>0 DEF BakForget, BakCopy, BakDelete
  <2> QED
    BY <2>1, <2>2, <2>3
<1>7. Typed'
  BY <1>0, <1>2, <1>3, <1>4, <1>5, <1>6 DEF Typed
<1>8. Forward(o)'
  BY <1>0, <1>2, <1>3, <1>4 DEF Forward
<1>9. \A p \in Optimizers \ {o} : Forward(p)'
  BY <1>0, <1>2, <1>3, <1>4, ForwardKept DEF Progress
<1> QED
  BY <1>7, <1>8, <1>9 DEF IInv, Progress

LEMMA NextIInv == IInv /\ [Next]_vars => IInv'
<1> SUFFICES ASSUME IInv, [Next]_vars PROVE IInv'
  OBVIOUS
<1>1. CASE UNCHANGED vars
  <2>1. UNCHANGED <<file, bak, rec, recorded, pc, num, buf, from, at, log, mishaps>>
    BY <1>1 DEF vars
  <2>2. Typed'
    BY <2>1 DEF IInv, Typed
  <2>3. Progress'
    BY <2>1, ForwardKept, HappenedKept DEF IInv, Progress
  <2> QED
    BY <2>2, <2>3 DEF IInv
<1>2. CASE Analysis
  BY <1>2, AnalysisIInv
<1>3. ASSUME NEW o \in Optimizers, Optimize(o) \/ WinMain(o) \/ OptimizerCrash(o) PROVE IInv'
  BY <1>3, OptimizeIInv, ChecksIInv, ReadInstIInv, OptimizePieceIInv, StopsIInv, LoopEndsIInv, BakIInv
     DEF WinMain
<1> QED
  BY <1>1, <1>2, <1>3 DEF Next, Analysis

\* The state of the processes and of their files stays within its types,
\* whatever crashes and however many processes run (WinMain, xx_vm_opmz).
THEOREM TypeCorrect == Spec => []TypeOK
<1>1. IInv => TypeOK
  <2> SUFFICES ASSUME IInv PROVE TypeOK
    OBVIOUS
  <2>1. \A o \in Optimizers : from[o] \in 0..Len(buf[o])
    BY LenProperties DEF IInv, Typed, Progress, Forward
  <2> QED
    BY <2>1 DEF IInv, Typed, TypeOK
<1> QED
  BY <1>1, InitIInv, NextIInv, PTL DEF Spec

\* A process optimizes its recording in order and leaves out at most one
\* instruction unless a piece fails (the loop of WinMain), for any number of
\* processes and recordings.
THEOREM RecordingIsWhole == Spec => []WholeRecording
<1>1. IInv => WholeRecording
  <2> SUFFICES ASSUME IInv, NEW o \in Optimizers
               PROVE  /\ IsPrefix(log[o], Numbers(buf[o]))
                      /\ pc[o] \in BakSteps /\ ~Happened("piece") =>
                            \/ Len(log[o]) = Len(buf[o])
                            \/ Len(log[o]) = Len(buf[o]) - 1 /\ (Last(buf[o]).cut \/ Len(buf[o]) = 1)
    BY DEF WholeRecording
  <2>1. log[o] \in Seq(Nat) /\ buf[o] \in Seq(Insts) /\ Len(log[o]) \in Nat /\ Len(buf[o]) \in Nat
    BY LenProperties DEF IInv, Typed
  <2>2. Len(log[o]) <= Len(buf[o]) /\ \A i \in 1..Len(log[o]) : log[o][i] = buf[o][i].n
    BY DEF IInv, Progress, Forward
  <2>3. /\ DOMAIN Numbers(buf[o]) = 1..Len(buf[o]) /\ \A i \in 1..Len(buf[o]) : Numbers(buf[o])[i] = buf[o][i].n
    BY <2>1, LenProperties DEF Numbers
  <2>4. Len(Numbers(buf[o])) = Len(buf[o])
    BY <2>1, <2>3
  <2>5. SubSeq(log[o], 1, Len(log[o])) = SubSeq(Numbers(buf[o]), 1, Len(log[o]))
    BY <2>1, <2>2, <2>3
  <2> QED
    BY <2>2, <2>4, <2>5 DEF IsPrefix, Last, IInv, Progress, Forward
<1> QED
  BY <1>1, InitIInv, NextIInv, PTL DEF Spec

-----------------------------------------------------------------------------
(* Who runs beside whom, and what processes have read.                      *)

\* Every step of a process is one of a process that is alive.
LEMMA WinMainAlive ==
    ASSUME Typed, NEW o \in Optimizers, WinMain(o) \/ OptimizerCrash(o)
    PROVE  /\ o \in Alive /\ UNCHANGED <<rec, recorded>>
           /\ \A p \in Optimizers \ {o} : pc'[p] = pc[p]
<1>1. WinMain(o) => \E step \in Steps \cup BakSteps, next \in PCs : Goes(o, step, next)
  BY DEF WinMain, Exists, CheckSize, CheckCompare, ReadInst, OptimizePiece, PieceFails, LoopEnds,
         BakForget, BakCopy, BakDelete
<1>2. UNCHANGED <<rec, recorded>>
  BY DEF WinMain, Exists, CheckSize, CheckCompare, ReadInst, OptimizePiece, PieceFails, LoopEnds,
         BakForget, BakCopy, BakDelete, OptimizerCrash
<1>3. CASE WinMain(o)
  BY <1>1, <1>2, <1>3, GoesTyped DEF Alive
<1>4. CASE OptimizerCrash(o)
  BY <1>2, <1>4 DEF OptimizerCrash, Alive, Typed
<1> QED
  BY <1>3, <1>4

LEMMA MishapsGrow ==
    ASSUME Typed, [Next]_vars
    PROVE  /\ Len(mishaps) \in Nat
           /\ UNCHANGED mishaps \/ \E kind \in Kinds : Mishap(kind)
           /\ UNCHANGED mishaps \/ Len(mishaps') = Len(mishaps) + 1
           /\ \A k : Happened(k) => Happened(k)'
<1>1. UNCHANGED mishaps \/ \E kind \in Kinds : Mishap(kind)
  <2>1. CASE \E o \in Optimizers : WinMain(o) \/ Optimize(o) \/ OptimizerCrash(o)
    BY <2>1 DEF WinMain, Exists, CheckSize, CheckCompare, ReadInst, OptimizePiece, PieceFails, LoopEnds,
         BakForget, BakCopy, BakDelete, OptimizerCrash, Optimize, Lonely
  <2>2. CASE Analysis
    BY <2>2, AnalysisEffect
  <2>3. CASE UNCHANGED vars
    BY <2>3 DEF vars
  <2> QED
    BY <2>1, <2>2, <2>3 DEF Next, Analysis
<1>2. Len(mishaps) \in Nat
  BY LenProperties DEF Typed
<1>3. CASE UNCHANGED mishaps
  BY <1>2, <1>3, HappenedKept
<1>4. CASE \E kind \in Kinds : Mishap(kind)
  BY <1>2, <1>4, MishapAdds DEF Typed
<1> QED
  BY <1>1, <1>3, <1>4

LEMMA AloneInv == ASSUME Typed, Alone, [Next]_vars PROVE Alone'
<1>0. \A k : Happened(k) => Happened(k)'
  BY MishapsGrow
<1>1. CASE UNCHANGED vars
  BY <1>0, <1>1 DEF Alone, Alive, vars
<1>2. CASE Analysis
  <2>1. UNCHANGED pc /\ (rec = "off" => Lonely("beside"))
    BY <1>2, AnalysisEffect
  <2>2. CASE rec # "off"
    BY <1>0, <2>1, <2>2 DEF Alone, Alive
  <2>3. CASE Alive = {}
    BY <2>1, <2>3 DEF Alone, Alive
  <2>4. CASE Mishap("beside")
    <3>1. Happened("beside")'
      BY <2>4, MishapAdds DEF Typed
    <3> QED
      BY <1>0, <2>1, <3>1 DEF Alone, Alive
  <2> QED
    BY <2>1, <2>2, <2>3, <2>4 DEF Lonely
<1>3. ASSUME NEW o \in Optimizers, Optimize(o) PROVE Alone'
  <2>1. rec' = "off" /\ Lonely("second") /\ \A p \in Optimizers \ {o} : pc'[p] = pc[p]
    BY <1>3 DEF Optimize, Typed
  <2>2. CASE Alive = {}
    BY <2>1, <2>2 DEF Alone, Alive
  <2>3. CASE Mishap("second")
    <3>1. Happened("second")'
      BY <2>3, MishapAdds DEF Typed
    <3> QED
      BY <2>1, <3>1 DEF Alone
  <2> QED
    BY <2>1, <2>2, <2>3 DEF Lonely
<1>4. ASSUME NEW o \in Optimizers, WinMain(o) \/ OptimizerCrash(o) PROVE Alone'
  <2>1. o \in Alive /\ UNCHANGED rec /\ \A p \in Optimizers \ {o} : pc'[p] = pc[p]
    BY <1>4, WinMainAlive
  <2>2. Alive' \subseteq Alive
    BY <2>1 DEF Alive
  <2> QED
    BY <1>0, <2>1, <2>2 DEF Alone
<1> QED
  BY <1>1, <1>2, <1>3, <1>4 DEF Next, Analysis

\* Who holds the recording is alive, and nobody else is unless that is known.
LEMMA HoldsAlone ==
    ASSUME Alone, NEW o \in Optimizers, NEW p \in Optimizers, o \in Alive, p # o, ~Happened("second")
    PROVE  p \notin Alive /\ ~Holds(p) /\ ~Between(p)
BY DEF Alone, Alive, Holds, Between

LEMMA DoneGrows ==
    ASSUME Typed, rec \in {"inst", "item"} => recorded > 0, [Next]_vars
    PROVE  /\ Done \in Nat /\ Done' \in Nat /\ Done <= Done'
           /\ rec' \in {"inst", "item"} => recorded' > 0
<1>1. recorded \in Nat
  BY Bounds DEF Typed
<1>2. Done \in Nat
  BY <1>1 DEF Done
<1>3. CASE Analysis
  BY <1>2, <1>3, AnalysisEffect
<1>4. CASE UNCHANGED <<rec, recorded>>
  BY <1>1, <1>4 DEF Done
<1>5. ASSUME NEW o \in Optimizers, Optimize(o) \/ WinMain(o) \/ OptimizerCrash(o)
      PROVE  UNCHANGED <<rec, recorded>>
  BY <1>5, WinMainAlive DEF Optimize
<1> QED
  BY <1>3, <1>4, <1>5 DEF Next, Analysis, vars

LEMMA InDoneKept == ASSUME NEW f, NEW g, g = f, InDone(f), Done \in Nat, Done' \in Nat, Done <= Done'
                    PROVE  \A i \in 1..Len(g) : g[i].n \in 1..Done'
BY DEF InDone

\* A process of which nothing changes, while the file stays, grows or is read
\* by others as well.
LEMMA ReaderKept ==
    ASSUME NEW o \in Optimizers, Reader(o), Done \in Nat, Done' \in Nat, Done <= Done',
           pc'[o] = pc[o], buf'[o] = buf[o], at'[o] = at[o],
           \A k : Happened(k) => Happened(k)',
           Holds(o) => \/ file'["x"] = file["x"]
                       \/ Happened("second")
                       \/ Happened("beside") /\ Begins(file["x"], file'["x"]),
           Len(buf[o]) \in Nat, Len(file["x"]) \in Nat, Len(file'["x"]) \in Nat
    PROVE  Reader(o)'
<1>1. InDone(buf[o])'
  BY InDoneKept DEF Reader, InDone
<1>2. ASSUME Holds(o), ~Happened("second")' PROVE Begins(buf[o], file["x"])'
  <2>1. Begins(buf[o], file["x"]) /\ (file'["x"] = file["x"] \/ Begins(file["x"], file'["x"]))
    BY <1>2 DEF Reader
  <2> QED
    BY <2>1 DEF Begins
<1>3. ASSUME Holds(o), ~Happened("second")', ~Happened("beside")' PROVE buf[o] = file'["x"]
  BY <1>3 DEF Reader
<1> QED
  BY <1>1, <1>2, <1>3 DEF Reader, Holds, Begins

LEMMA InitNumbered == Init => Alone /\ Numbered
<1> SUFFICES ASSUME Init PROVE Alone /\ Numbered
  OBVIOUS
<1>1. Alone
  BY DEF Init, Alone, Alive
<1>2. Len(<<>>) = 0
  OBVIOUS
<1> QED
  BY <1>1, <1>2 DEF Init, Numbered, Rising, InDone, Reader, Holds

LEMMA AnalysisNumbered == ASSUME IInv, Alone, Numbered, Analysis, [Next]_vars PROVE Numbered'
<1>0. Typed /\ UNCHANGED <<bak, pc, buf, at>> /\ (\A k : Happened(k) => Happened(k)')
  BY AnalysisEffect, MishapsGrow DEF IInv
<1>1. /\ Done \in Nat /\ Done' \in Nat /\ Done <= Done' /\ (rec' \in {"inst", "item"} => recorded' > 0)
      /\ Len(file["x"]) \in Nat /\ \A o \in Optimizers : Len(buf[o]) \in Nat
  BY <1>0, DoneGrows, LenProperties DEF Numbered, Typed
<1>2. InDone(bak["x"])'
  BY <1>0, <1>1, InDoneKept DEF Numbered, InDone
<1>3. CASE file'["x"] = file["x"]
  <2>1. Rising(file["x"])' /\ InDone(file["x"])'
    BY <1>1, <1>3, InDoneKept DEF Numbered, InDone, Rising
  <2>2. \A o \in Optimizers : Reader(o)'
    BY <1>0, <1>1, <1>3, ReaderKept DEF Numbered
  <2> QED
    BY <1>1, <1>2, <2>1, <2>2 DEF Numbered
<1>4. CASE file'["x"] # file["x"]
  <2> DEFINE f == file["x"]
             g == file'["x"]
  <2>1. rec # "off" /\ Done' = Done + 1 /\ \E c \in BOOLEAN : g = Append(f, Inst(Done', c))
    BY <1>0, <1>4, AnalysisEffect
  <2>2. Len(g) = Len(f) + 1 /\ (\A i \in 1..Len(f) : g[i] = f[i]) /\ g[Len(f) + 1].n = Done'
    BY <1>0, <1>1, <2>1, AppendInst
  <2>3. \A i \in 1..Len(f) : f[i].n \in 1..Done
    BY DEF Numbered, InDone
  <2>4. \A i, j \in 1..Len(f) : i < j => f[i].n < f[j].n
    BY DEF Numbered, Rising
  <2>5. f = file["x"] /\ g = file'["x"] /\ Len(f) \in Nat
    BY <1>1
  <2> HIDE DEF f, g
  <2>6. \A i \in 1..Len(g) : g[i].n \in 1..Done'
    BY <1>1, <2>1, <2>2, <2>3, <2>5
  <2>7. \A i, j \in 1..Len(g) : i < j => g[i].n < g[j].n
    <3> SUFFICES ASSUME NEW i \in 1..Len(g), NEW j \in 1..Len(g), i < j PROVE g[i].n < g[j].n
      OBVIOUS
    <3>1. i \in 1..Len(f) /\ g[i] = f[i] /\ f[i].n \in 1..Done
      BY <2>2, <2>3, <2>5
    <3>2. CASE j \in 1..Len(f)
      BY <2>2, <2>4, <3>1, <3>2
    <3>3. CASE j = Len(f) + 1
      BY <1>1, <2>1, <2>2, <3>1, <3>3
    <3> QED
      BY <2>2, <2>5, <3>2, <3>3
  <2>8. Rising(file["x"])' /\ InDone(file["x"])'
    BY <2>5, <2>6, <2>7 DEF Rising, InDone
  <2>9. Begins(f, g) /\ Len(g) \in Nat
    BY <2>2, <2>5 DEF Begins
  <2>10. \A o \in Optimizers : Holds(o) => Happened("beside")
    BY <2>1 DEF Alone, Alive, Holds
  <2>11. ASSUME NEW o \in Optimizers PROVE Reader(o)'
    <3>1. Reader(o)
      BY DEF Numbered
    <3> QED
      BY <1>0, <1>1, <2>5, <2>9, <2>10, <3>1, ReaderKept
  <2> QED
    BY <1>1, <1>2, <2>8, <2>11 DEF Numbered
<1> QED
  BY <1>3, <1>4

LEMMA ProcessNumbered ==
    ASSUME IInv, Alone, Numbered, [Next]_vars, NEW o \in Optimizers, WinMain(o) \/ OptimizerCrash(o)
    PROVE  Numbered'
<1>0. /\ Typed /\ Typed' /\ o \in Alive /\ UNCHANGED <<rec, recorded>>
      /\ \A p \in Optimizers \ {o} : pc'[p] = pc[p]
      /\ \A k : Happened(k) => Happened(k)'
  BY WinMainAlive, NextIInv, MishapsGrow DEF IInv
<1>1. /\ Done \in Nat /\ Done' \in Nat /\ Done <= Done' /\ (rec' \in {"inst", "item"} => recorded' > 0)
      /\ Done' = Done
  BY <1>0, DoneGrows DEF Numbered, Done
<1>2. UNCHANGED file \/ (BakDelete(o) /\ file'["x"] \in {file["x"], <<>>})
  BY <1>0 DEF WinMain, Exists, CheckSize, CheckCompare, ReadInst, OptimizePiece, PieceFails, LoopEnds,
         BakForget, BakCopy, BakDelete, OptimizerCrash, Typed
<1>3. bak'["x"] \in {bak["x"], file["x"], <<>>}
  BY <1>0 DEF WinMain, Exists, CheckSize, CheckCompare, ReadInst, OptimizePiece, PieceFails, LoopEnds,
         BakForget, BakCopy, BakDelete, OptimizerCrash, Typed
<1>4. Len(<<>>) = 0
  OBVIOUS
<1>5. Rising(file["x"])' /\ InDone(file["x"])' /\ InDone(bak["x"])'
  <2>1. Rising(file["x"]) /\ InDone(file["x"]) /\ InDone(bak["x"])
    BY DEF Numbered
  <2>2. file'["x"] = file["x"] \/ file'["x"] = <<>>
    BY <1>2
  <2>3. Rising(file["x"])'
    BY <1>4, <2>1, <2>2 DEF Rising
  <2>4. InDone(file["x"])'
    BY <1>1, <1>4, <2>1, <2>2 DEF InDone
  <2>5. InDone(bak["x"])'
    BY <1>1, <1>3, <1>4, <2>1 DEF InDone
  <2> QED
    BY <2>3, <2>4, <2>5
<1>6. \A p \in Optimizers \ {o} : buf'[p] = buf[p] /\ at'[p] = at[p]
  BY <1>0 DEF WinMain, Exists, CheckSize, CheckCompare, ReadInst, OptimizePiece, PieceFails, LoopEnds,
         BakForget, BakCopy, BakDelete, OptimizerCrash, Typed
<1>7. ASSUME NEW p \in Optimizers \ {o} PROVE Reader(p)'
  <2>1. Len(buf[p]) \in Nat /\ Len(file["x"]) \in Nat /\ Len(file'["x"]) \in Nat
    BY <1>0, LenProperties DEF Typed
  <2>2. Holds(p) => Happened("second")
    BY <1>0, HoldsAlone
  <2> QED
    BY <1>0, <1>1, <1>6, <2>1, <2>2, ReaderKept DEF Numbered
<1>8. buf'[o] \in {buf[o], file["x"]} /\ InDone(buf[o])'
  <2>1. buf'[o] \in {buf[o], file["x"]}
    BY <1>0 DEF WinMain, Exists, CheckSize, CheckCompare, ReadInst, OptimizePiece, PieceFails, LoopEnds,
         BakForget, BakCopy, BakDelete, OptimizerCrash, Typed
  <2> QED
    BY <1>1, <2>1 DEF Numbered, Reader, InDone
<1>9. Reader(o)'
  <2> USE <1>0 DEF Typed
  <2>0. Reader(o)
    BY DEF Numbered
  <2>1. CASE Exists(o) \/ CheckSize(o) \/ CheckCompare(o)
    <3>1. Fresh(o) /\ pc'[o] \in {"refused", "size", "compare", "read"} /\ buf'[o] = buf[o] /\ at'[o] = at[o]
      BY <2>1 DEF Exists, CheckSize, CheckCompare, Goes
    <3> QED
      BY <1>8, <2>0, <3>1 DEF Reader, Holds
  <2>2. CASE ReadInst(o)
    <3>1. /\ Fresh(o) /\ pc'[o] \in {"refused", "piece"} /\ at'[o] = at[o] /\ buf'[o] = file'["x"]
          /\ pc'[o] = "piece" => file'["x"] # <<>>
      BY <2>2 DEF ReadInst, Goes
    <3>2. Begins(buf[o], file["x"])'
      BY <3>1, LenProperties DEF Begins
    <3> QED
      BY <1>8, <2>0, <3>1, <3>2 DEF Reader, Holds
  <2>3. CASE OptimizePiece(o) \/ PieceFails(o) \/ LoopEnds(o)
    <3>1. /\ pc[o] = "piece" /\ pc'[o] \in {"piece", "forget"} /\ at'[o] = at[o] /\ buf'[o] = buf[o]
          /\ UNCHANGED file
      BY <2>3 DEF OptimizePiece, PieceFails, LoopEnds, Goes
    <3> QED
      BY <1>8, <2>0, <3>1 DEF Reader, Holds, Begins
  <2>4. CASE BakForget(o) \/ BakCopy(o)
    <3>1. /\ pc[o] \in BakSteps /\ pc'[o] \in BakSteps /\ at'[o] = at[o] /\ buf'[o] = buf[o]
          /\ UNCHANGED file
      BY <2>4 DEF BakForget, BakCopy, Goes
    <3> QED
      BY <1>8, <2>0, <3>1 DEF Reader, Holds, Begins
  <2>5. CASE BakDelete(o)
    <3>1. pc'[o] \in {"forget", "ended"} /\ at'[o] = "data"
      BY <2>5 DEF BakDelete, Goes
    <3> QED
      BY <1>8, <3>1 DEF Reader, Holds
  <2>6. CASE OptimizerCrash(o)
    <3>1. pc'[o] = "crashed"
      BY <2>6 DEF OptimizerCrash
    <3> QED
      BY <1>8, <3>1 DEF Reader, Holds
  <2> QED
    BY <2>1, <2>2, <2>3, <2>4, <2>5, <2>6 DEF WinMain
<1> QED
  BY <1>1, <1>5, <1>7, <1>9 DEF Numbered

LEMMA NumberedInv == ASSUME IInv, Alone, Numbered, [Next]_vars PROVE Numbered'
<1>1. CASE UNCHANGED vars
  <2>1. UNCHANGED <<file, bak, rec, recorded, pc, buf, at, mishaps>>
    BY <1>1 DEF vars
  <2> QED
    BY <2>1 DEF Numbered, Rising, InDone, Reader, Holds, Begins, Done, Happened
<1>2. CASE Analysis
  BY <1>2, AnalysisNumbered
<1>3. ASSUME NEW o \in Optimizers, Optimize(o) PROVE Numbered'
  <2>1. /\ pc[o] = "idle" /\ pc'[o] = "exists" /\ \A p \in Optimizers \ {o} : pc'[p] = pc[p]
        /\ UNCHANGED <<file, bak, rec, recorded, buf, at>> /\ Typed
        /\ \A k : Happened(k) => Happened(k)'
    BY <1>3, MishapsGrow DEF Optimize, IInv, Typed
  <2>2. /\ Done \in Nat /\ Done' \in Nat /\ Done <= Done' /\ (rec' \in {"inst", "item"} => recorded' > 0)
        /\ Done' = Done
    BY <2>1, DoneGrows DEF Numbered, Done
  <2>3. Rising(file["x"])' /\ InDone(file["x"])' /\ InDone(bak["x"])'
    BY <2>1, <2>2 DEF Numbered, Rising, InDone
  <2>4. Reader(o)'
    BY <2>1, <2>2 DEF Numbered, Reader, Holds, InDone
  <2>5. ASSUME NEW p \in Optimizers \ {o} PROVE Reader(p)'
    <3>1. Len(buf[p]) \in Nat /\ Len(file["x"]) \in Nat
      BY <2>1, LenProperties DEF Typed
    <3> QED
      BY <2>1, <2>2, <3>1, ReaderKept DEF Numbered
  <2> QED
    BY <2>2, <2>3, <2>4, <2>5 DEF Numbered
<1>4. ASSUME NEW o \in Optimizers, WinMain(o) \/ OptimizerCrash(o) PROVE Numbered'
  BY <1>4, ProcessNumbered
<1> QED
  BY <1>1, <1>2, <1>3, <1>4 DEF Next, Analysis

LEMMA InitBase == Init => Base
BY InitIInv, InitNumbered DEF Base

LEMMA BaseInv == ASSUME Base, [Next]_vars PROVE Base'
<1>1. Typed /\ IInv /\ Alone /\ Numbered
  BY DEF Base, IInv
<1> QED
  BY <1>1, NextIInv, AloneInv, NumberedInv DEF Base

-----------------------------------------------------------------------------
(* No instruction is optimized by two processes.                            *)

\* Logged numbers are numbers of the recording that was read.
LEMMA LoggedDone ==
    ASSUME Base, NEW o \in Optimizers, NEW i \in 1..Len(log[o])
    PROVE  log[o][i] \in 1..Done /\ i \in 1..Len(buf[o]) /\ log[o][i] = buf[o][i].n
<1>1. Len(log[o]) \in Nat /\ Len(buf[o]) \in Nat
  BY LenProperties DEF Base, IInv, Typed
<1>2. i \in 1..Len(buf[o]) /\ log[o][i] = buf[o][i].n
  BY <1>1 DEF Base, IInv, Progress, Forward
<1> QED
  BY <1>2 DEF Base, Numbered, Reader, InDone

LEMMA OnceKept ==
    ASSUME Once, UNCHANGED log, \A k : Happened(k) => Happened(k)',
           \/ file'["x"] = <<>>
           \/ file'["x"] = file["x"] /\ \A o \in Optimizers : Holds(o) => Holds(o)'
    PROVE  Once'
<1>1. Len(<<>>) = 0
  OBVIOUS
<1> QED
  BY <1>1 DEF Once, Held, Apart, InFile

\* The analysis records only what is new.
LEMMA OnceAnalysis == ASSUME Base, Once, Analysis, [Next]_vars PROVE Once'
<1>0. Typed /\ UNCHANGED <<pc, at, log>> /\ (\A k : Happened(k) => Happened(k)')
  BY AnalysisEffect, MishapsGrow DEF Base, IInv
<1>1. CASE file'["x"] = file["x"]
  BY <1>0, <1>1, OnceKept DEF Holds
<1>2. CASE file'["x"] # file["x"]
  <2> DEFINE f == file["x"]
             g == file'["x"]
  <2>1. Done' = Done + 1 /\ \E c \in BOOLEAN : g = Append(f, Inst(Done', c))
    BY <1>0, <1>2, AnalysisEffect
  <2>2. Done \in Nat /\ Done' \in Nat
    BY <1>0, DoneGrows DEF Base, Numbered
  <2>3. /\ Len(f) \in Nat /\ Len(g) = Len(f) + 1 /\ (\A i \in 1..Len(f) : g[i] = f[i])
        /\ g[Len(f) + 1].n = Done'
    BY <1>0, <2>1, <2>2, AppendInst
  <2>4. f = file["x"] /\ g = file'["x"]
    OBVIOUS
  <2> HIDE DEF f, g
  <2>5. ASSUME NEW n, InFile(n, g), n # Done' PROVE InFile(n, f)
    BY <2>3, <2>5 DEF InFile
  <2>6. \A o \in Optimizers : \A i \in 1..Len(log[o]) : log[o][i] # Done'
    BY <2>1, <2>2, LoggedDone
  <2>7. ASSUME NEW o \in Optimizers, Held(o) PROVE Held(o)'
    BY <1>0, <2>4, <2>5, <2>6, <2>7 DEF Held, Holds
  <2>8. ASSUME NEW o \in Optimizers, NEW p \in Optimizers, Apart(o, p) PROVE Apart(o, p)'
    BY <1>0, <2>8 DEF Apart
  <2> QED
    BY <1>0, <2>7, <2>8 DEF Once
<1> QED
  BY <1>1, <1>2

LEMMA OncePiece ==
    ASSUME Base, Once, [Next]_vars, NEW o \in Optimizers, OptimizePiece(o) \/ PieceFails(o)
    PROVE  Once'
<1>0. /\ pc[o] = "piece" /\ o \in Alive /\ Holds(o) /\ at[o] = "x" /\ pc'[o] \in {"piece", "forget"}
      /\ UNCHANGED <<file, at, buf>> /\ \A p \in Optimizers \ {o} : pc'[p] = pc[p]
  BY DEF OptimizePiece, PieceFails, Goes, Alive, Holds, Base, Numbered, Reader, IInv, Typed
<1>1. PICK k \in from[o]..Len(buf[o]) : Logs(o, k)
  <2>1. CASE OptimizePiece(o)
    <3>1. PICK end \in Ends(o) : Logs(o, end)
      BY <2>1 DEF OptimizePiece
    <3>2. end \in from[o]..Len(buf[o])
      BY <2>1, EndsAfter DEF OptimizePiece, Base, IInv
    <3> QED
      BY <3>1, <3>2
  <2>2. CASE PieceFails(o)
    BY <1>0, <2>2, LogsSomeLogged DEF PieceFails, Base
  <2> QED
    BY <2>1, <2>2
<1>2. /\ \A p \in Optimizers \ {o} : log'[p] = log[p]
      /\ Len(log'[o]) = k /\ \A i \in 1..k : log'[o][i] = buf[o][i].n
  BY <1>0, <1>1, PieceLogged DEF Base
<1>3. Typed /\ (\A k2 : Happened(k2) => Happened(k2)')
  BY MishapsGrow DEF Base, IInv
<1>4. ASSUME ~Happened("crash"), ~Happened("delete"), ~Happened("second") PROVE Once'
  <2>0. /\ k \in Nat /\ k <= Len(file["x"]) /\ Len(file["x"]) \in Nat
        /\ \A i \in 1..k : buf[o][i] = file["x"][i]
    <3>1. Begins(buf[o], file["x"])
      BY <1>0, <1>4 DEF Base, Numbered, Reader
    <3>2. Len(buf[o]) \in Nat /\ from[o] \in Nat /\ Len(file["x"]) \in Nat
      BY <1>3, LenProperties DEF Typed
    <3> QED
      BY <3>1, <3>2 DEF Begins
  <2>1. \A i \in 1..Len(log'[o]) : InFile(log'[o][i], file["x"])
    BY <1>2, <2>0 DEF InFile
  <2>2. \A p \in Optimizers : Held(p)
    BY <1>4 DEF Once
  <2>3. Holds(o)' /\ \A p \in Optimizers \ {o} : ~Holds(p)
    BY <1>0, <1>4, HoldsAlone DEF Holds, Base
  <2>4. ASSUME NEW p \in Optimizers PROVE Held(p)'
    <3>1. CASE p = o
      BY <2>3, <3>1 DEF Held
    <3>2. CASE p # o
      BY <1>0, <1>2, <2>2, <2>3, <3>2 DEF Held
    <3> QED
      BY <3>1, <3>2
  <2>5. ASSUME NEW p \in Optimizers \ {o}, NEW i \in 1..Len(log'[o]), NEW j \in 1..Len(log'[p])
        PROVE  log'[o][i] # log'[p][j]
    <3>1. ~InFile(log[p][j], file["x"])
      BY <1>2, <2>2, <2>3 DEF Held
    <3> QED
      BY <1>2, <2>1, <3>1
  <2>6. \A p, q \in Optimizers : p # q => Apart(p, q)'
    <3>1. \A p, q \in Optimizers \ {o} : p # q => Apart(p, q)'
      BY <1>2, <1>4 DEF Once, Apart
    <3>2. \A q \in Optimizers \ {o} : Apart(o, q)' /\ Apart(q, o)'
      BY <2>5 DEF Apart
    <3> QED
      BY <3>1, <3>2
  <2> QED
    BY <2>4, <2>6 DEF Once
<1> QED
  BY <1>3, <1>4 DEF Once

LEMMA OnceInv == ASSUME Base, Once, [Next]_vars PROVE Once'
<1>0. /\ Typed /\ (\A o \in Optimizers : Reader(o)) /\ \A k : Happened(k) => Happened(k)'
  BY MishapsGrow DEF Base, IInv, Numbered
<1>1. CASE UNCHANGED vars
  <2>1. UNCHANGED <<pc, at, log>> /\ file'["x"] = file["x"]
    BY <1>1 DEF vars
  <2> QED
    BY <1>0, <2>1, OnceKept DEF Holds
<1>2. CASE Analysis
  BY <1>2, OnceAnalysis
<1>3. ASSUME NEW o \in Optimizers, Optimize(o) \/ Exists(o) \/ CheckSize(o) \/ CheckCompare(o) \/ ReadInst(o)
      PROVE  Once'
  <2>1. /\ UNCHANGED <<at, log, file>> /\ ~Holds(o)
        /\ \A p \in Optimizers \ {o} : pc'[p] = pc[p]
    BY <1>0, <1>3 DEF Optimize, Exists, CheckSize, CheckCompare, ReadInst, Goes, Typed, Holds
  <2> QED
    BY <1>0, <2>1, OnceKept DEF Holds
<1>4. ASSUME NEW o \in Optimizers, OptimizePiece(o) \/ PieceFails(o) PROVE Once'
  BY <1>4, OncePiece
<1>5. ASSUME NEW o \in Optimizers, LoopEnds(o) \/ BakForget(o) \/ BakCopy(o) PROVE Once'
  <2>1. /\ UNCHANGED <<at, log, file>> /\ pc'[o] \in BakSteps /\ (Holds(o) => at[o] = "x")
        /\ \A p \in Optimizers \ {o} : pc'[p] = pc[p]
    BY <1>0, <1>5 DEF LoopEnds, BakForget, BakCopy, Goes, Typed, Holds, Reader
  <2> QED
    BY <1>0, <2>1, OnceKept DEF Holds
<1>6. ASSUME NEW o \in Optimizers, BakDelete(o), at[o] = "data" PROVE Once'
  <2>1. /\ UNCHANGED <<log>> /\ ~Holds(o) /\ file'["x"] = file["x"]
        /\ \A p \in Optimizers \ {o} : pc'[p] = pc[p] /\ at'[p] = at[p]
    BY <1>0, <1>6 DEF BakDelete, Goes, Typed, Holds
  <2> QED
    BY <1>0, <2>1, OnceKept DEF Holds
<1>7. ASSUME NEW o \in Optimizers, BakDelete(o), at[o] = "x" PROVE Once'
  <2>1. CASE Mishap("delete")
    <3>1. Happened("delete")'
      BY <1>0, <2>1, MishapAdds DEF Typed
    <3> QED
      BY <3>1 DEF Once
  <2>2. CASE ~Mishap("delete")
    <3>1. UNCHANGED log /\ file'["x"] = <<>>
      BY <1>0, <1>7, <2>2 DEF BakDelete, Typed
    <3> QED
      BY <1>0, <3>1, OnceKept
  <2> QED
    BY <2>1, <2>2
<1>8. ASSUME NEW o \in Optimizers, OptimizerCrash(o) PROVE Once'
  <2>1. Happened("crash")'
    BY <1>0, <1>8, MishapAdds DEF Typed, OptimizerCrash
  <2> QED
    BY <2>1 DEF Once
<1>9. \A o \in Optimizers : at[o] \in Files
  BY <1>0 DEF Typed
<1> QED
  BY <1>1, <1>2, <1>3, <1>4, <1>5, <1>6, <1>7, <1>8, <1>9 DEF Next, WinMain, Analysis

\* No instruction is optimized by two processes unless one crashed, could not
\* delete the files or was started beside the other (xx_opmz_bak: "repeating
\* the optimization is not allowed"), however many processes there are, however
\* long the recordings and whatever an analysis appends in between.
THEOREM OptimizedOnce == Spec => []NotOptimizedTwice
<1>1. Init => Base /\ Once
  <2> SUFFICES ASSUME Init PROVE Once
    BY InitBase
  <2>1. Len(<<>>) = 0
    OBVIOUS
  <2> QED
    BY <2>1 DEF Init, Once, Held, Apart
<1>2. Base /\ Once /\ [Next]_vars => (Base /\ Once)'
  BY BaseInv, OnceInv
<1>3. Base /\ Once => NotOptimizedTwice
  <2> SUFFICES ASSUME Base, Once, ~Happened("crash"), ~Happened("delete"), ~Happened("second"),
                      NEW o \in Optimizers, NEW p \in Optimizers, o # p,
                      NEW n \in Range(log[o]) \cap Range(log[p])
               PROVE  FALSE
    BY DEF NotOptimizedTwice
  <2>1. DOMAIN log[o] = 1..Len(log[o]) /\ DOMAIN log[p] = 1..Len(log[p])
    BY LenProperties DEF Base, IInv, Typed
  <2>2. PICK i \in 1..Len(log[o]) : n = log[o][i]
    BY <2>1, Zenon DEF Range
  <2>3. PICK j \in 1..Len(log[p]) : n = log[p][j]
    BY <2>1, Zenon DEF Range
  <2> QED
    BY <2>2, <2>3 DEF Once, Apart
<1> QED
  BY <1>1, <1>2, <1>3, PTL DEF Spec

-----------------------------------------------------------------------------
(* An item is read for the instruction it belongs to.                       *)

\* The data file with one more item.
LEMMA AppendItem ==
    ASSUME Typed, NEW n \in Nat, NEW g, g = Append(file["data"], n)
    PROVE  /\ Len(file["data"]) \in Nat /\ Len(g) = Len(file["data"]) + 1
           /\ \A i \in 1..Len(file["data"]) : g[i] = file["data"][i]
           /\ g[Len(file["data"]) + 1] = n
<1> DEFINE f == file["data"]
<1>1. f \in Seq(Nat)
  BY DEF Typed
<1>2. g = Append(f, n)
  OBVIOUS
<1> HIDE DEF f
<1>3. /\ Len(g) = Len(f) + 1 /\ Len(f) \in Nat
      /\ \A i \in 1..Len(f) : g[i] = f[i]
      /\ g[Len(f) + 1] = n
  BY <1>1, <1>2, AppendProperties, LenProperties
<1> QED
  BY <1>3 DEF f

\* An append that nothing interrupts is the next one of its file.
LEMMA AnalysisRow ==
    ASSUME Typed, Analysis, UNCHANGED mishaps
    PROVE  /\ \/ file'["x"] = file["x"] /\ Done' = Done
              \/ Done' = Done + 1 /\ \E c \in BOOLEAN : file'["x"] = Append(file["x"], Inst(Done', c))
           /\ \/ file'["data"] = file["data"] /\ LastItem' = LastItem
              \/ LastItem' = LastItem + 1 /\ file'["data"] = Append(file["data"], LastItem')
<1>1. DOMAIN file = Files /\ recorded \in Nat
  BY Bounds DEF Typed
<1>2. \A kind \in Kinds : ~Mishap(kind)
  <2> SUFFICES ASSUME NEW kind \in Kinds, Mishap(kind) PROVE FALSE
    OBVIOUS
  <2>1. Len(mishaps') = Len(mishaps) + 1 /\ Len(mishaps) \in Nat
    BY MishapAdds, LenProperties DEF Typed
  <2> QED
    BY <2>1
<1>3. CASE AnalysisStart \/ AnalysisEnd \/ AnalysisCrash \/ CycleItem
  BY <1>1, <1>2, <1>3 DEF AnalysisStart, AnalysisEnd, AnalysisCrash, CycleItem, Done, LastItem
<1>4. CASE AnalysisItem
  <2>1. rec = "next" /\ rec' = "inst" /\ recorded' = recorded + 1 /\ Appends("data", recorded')
    BY <1>4 DEF AnalysisItem, Handles
  <2>2. file'["x"] = file["x"] /\ file'["data"] = Append(file["data"], recorded')
    BY <1>1, <2>1 DEF Appends
  <2> QED
    BY <1>1, <2>1, <2>2 DEF Done, LastItem
<1>5. CASE AnalysisInst
  <2>1. /\ rec = "inst" /\ rec' = "next" /\ recorded' = recorded
        /\ \E c \in BOOLEAN : Appends("x", Inst(recorded, c))
    BY <1>2, <1>5 DEF AnalysisInst, AppendsOrFails
  <2>2. /\ file'["data"] = file["data"]
        /\ \E c \in BOOLEAN : file'["x"] = Append(file["x"], Inst(recorded, c))
    BY <1>1, <2>1 DEF Appends
  <2>3. Done = recorded - 1 /\ Done' = recorded /\ LastItem = recorded /\ LastItem' = recorded
    BY <2>1 DEF Done, LastItem
  <2> QED
    BY <1>1, <2>2, <2>3
<1>6. CASE InvalidInst
  <2>1. /\ rec = "next" /\ rec' = "item" /\ recorded' = recorded + 1
        /\ \E c \in BOOLEAN : Appends("x", Inst(recorded', c))
    BY <1>2, <1>6 DEF InvalidInst, Handles, AppendsOrFails
  <2>2. /\ file'["data"] = file["data"]
        /\ \E c \in BOOLEAN : file'["x"] = Append(file["x"], Inst(recorded', c))
    BY <1>1, <2>1 DEF Appends
  <2>3. Done = recorded /\ Done' = recorded' /\ LastItem = recorded /\ LastItem' = recorded' - 1
    BY <2>1 DEF Done, LastItem
  <2> QED
    BY <1>1, <2>1, <2>2, <2>3
<1>7. CASE InvalidItem
  <2>1. rec = "item" /\ rec' = "next" /\ recorded' = recorded /\ Appends("data", recorded)
    BY <1>2, <1>7 DEF InvalidItem, AppendsOrFails
  <2>2. file'["x"] = file["x"] /\ file'["data"] = Append(file["data"], recorded)
    BY <1>1, <2>1 DEF Appends
  <2> QED
    BY <1>1, <2>1, <2>2 DEF Done, LastItem
<1> QED
  BY <1>3, <1>4, <1>5, <1>6, <1>7 DEF Analysis

\* What interrupts one shows in the lengths.
LEMMA AnalysisBreaks ==
    ASSUME Typed, Analysis, ~UNCHANGED mishaps
    PROVE  \/ UNCHANGED file /\ Done' = Done /\ LastItem' = LastItem
           \/ Level => ~Level'
<1>1. DOMAIN file = Files /\ recorded \in Nat /\ Len(file["x"]) \in Nat /\ Len(file["data"]) \in Nat
  BY Bounds, LenProperties DEF Typed
<1>2. CASE AnalysisStart \/ AnalysisEnd \/ AnalysisItem
  BY <1>1, <1>2 DEF AnalysisStart, AnalysisEnd, AnalysisItem, Done, LastItem
<1>3. CASE AnalysisCrash
  BY <1>1, <1>3 DEF AnalysisCrash, Level, Done, LastItem, Typed
<1>4. CASE AnalysisInst \/ InvalidInst \/ InvalidItem
  <2>1. UNCHANGED file
    BY <1>4 DEF AnalysisInst, InvalidInst, InvalidItem, AppendsOrFails
  <2> QED
    BY <1>1, <1>4, <2>1 DEF AnalysisInst, InvalidInst, InvalidItem, Handles, Level, Done, LastItem
<1>5. CASE CycleItem
  <2>1. UNCHANGED <<rec, recorded>> /\ file'["x"] = file["x"] /\ file'["data"] = Append(file["data"], 0)
    BY <1>1, <1>5 DEF CycleItem, Appends
  <2>2. Len(file'["data"]) = Len(file["data"]) + 1
    BY <2>1, AppendItem
  <2>3. Done' = Done /\ LastItem' = LastItem /\ LastItem - Done \in Int
    BY <1>1, <2>1 DEF Done, LastItem
  <2> QED
    BY <1>1, <2>1, <2>2, <2>3 DEF Level
<1> QED
  BY <1>2, <1>3, <1>4, <1>5 DEF Analysis

LEMMA RowGrows ==
    ASSUME Typed, Base, Analysis, [Next]_vars, UNCHANGED mishaps
    PROVE  /\ InARow => InARow'
           /\ Level' <=> Level
           /\ Begins(file["x"], file'["x"])
<1> DEFINE f == file["x"]
           g == file'["x"]
           d == file["data"]
           e == file'["data"]
<1>1. /\ Done \in Nat /\ Done' \in Nat /\ LastItem \in Nat /\ LastItem' \in Nat
      /\ Len(f) \in Nat /\ Len(d) \in Nat
  <2>1. Done \in Nat /\ Done' \in Nat /\ recorded \in Nat
    BY DoneGrows, Bounds DEF Base, Numbered, Typed
  <2>2. Len(f) \in Nat /\ Len(d) \in Nat
    BY LenProperties DEF Typed
  <2>3. rec \in {"inst", "item"} => recorded > 0
    BY DEF Base, Numbered
  <2>4. LastItem \in Nat
    BY <2>1, <2>3 DEF LastItem
  <2>5. LastItem' \in Nat
    BY <2>4, AnalysisRow
  <2> QED
    BY <2>1, <2>2, <2>4, <2>5
<1>2. \/ g = f /\ Done' = Done
      \/ /\ Done' = Done + 1 /\ Len(g) = Len(f) + 1
         /\ \A i \in 1..Len(f) : g[i] = f[i]
         /\ g[Len(f) + 1].n = Done'
  BY <1>1, AnalysisRow, AppendInst
<1>3. \/ e = d /\ LastItem' = LastItem
      \/ /\ LastItem' = LastItem + 1 /\ Len(e) = Len(d) + 1
         /\ \A i \in 1..Len(d) : e[i] = d[i]
         /\ e[Len(d) + 1] = LastItem'
  BY <1>1, AnalysisRow, AppendItem
<1>4. InARow <=> /\ \A i \in 1..Len(f) : f[i].n = Done - Len(f) + i
                 /\ \A i \in 1..Len(d) : d[i] = LastItem - Len(d) + i
  BY DEF InARow
<1>5. InARow' <=> /\ \A i \in 1..Len(g) : g[i].n = Done' - Len(g) + i
                  /\ \A i \in 1..Len(e) : e[i] = LastItem' - Len(e) + i
  BY DEF InARow
<1>6. /\ Level <=> Len(d) - Len(f) = LastItem - Done
      /\ Level' <=> Len(e) - Len(g) = LastItem' - Done'
  BY DEF Level
<1> HIDE DEF f, g, d, e
<1>7. ASSUME \A i \in 1..Len(f) : f[i].n = Done - Len(f) + i
      PROVE  \A i \in 1..Len(g) : g[i].n = Done' - Len(g) + i
  <2>1. CASE g = f /\ Done' = Done
    BY <1>7, <2>1
  <2>2. CASE ~(g = f /\ Done' = Done)
    <3> SUFFICES ASSUME NEW i \in 1..Len(g) PROVE g[i].n = Done' - Len(g) + i
      OBVIOUS
    <3>1. CASE i \in 1..Len(f)
      <4>1. g[i].n = Done - Len(f) + i
        BY <1>2, <1>7, <2>2, <3>1
      <4>2. Done' = Done + 1 /\ Len(g) = Len(f) + 1
        BY <1>2, <2>2
      <4>3. Done - Len(f) + i = Done' - Len(g) + i
        BY <1>1, <4>2
      <4> QED
        BY <4>1, <4>3
    <3>2. CASE i = Len(f) + 1
      <4>1. g[Len(f) + 1].n = Done' /\ Len(g) = Len(f) + 1
        BY <1>2, <2>2
      <4> QED
        BY <1>1, <3>2, <4>1
    <3>3. Len(g) = Len(f) + 1
      BY <1>2, <2>2
    <3> QED
      BY <1>1, <3>1, <3>2, <3>3
  <2> QED
    BY <2>1, <2>2
<1>8. ASSUME \A i \in 1..Len(d) : d[i] = LastItem - Len(d) + i
      PROVE  \A i \in 1..Len(e) : e[i] = LastItem' - Len(e) + i
  <2> DEFINE k == LastItem'
  <2>1. \/ e = d /\ k = LastItem
        \/ /\ k = LastItem + 1 /\ Len(e) = Len(d) + 1
           /\ \A i \in 1..Len(d) : e[i] = d[i]
           /\ e[Len(d) + 1] = k
    BY <1>3
  <2> HIDE DEF k
  <2>2. ASSUME NEW i \in 1..Len(e) PROVE e[i] = k - Len(e) + i
    <3>1. CASE e = d /\ k = LastItem
      BY <1>8, <3>1
    <3>2. CASE /\ k = LastItem + 1 /\ Len(e) = Len(d) + 1
               /\ \A j \in 1..Len(d) : e[j] = d[j]
               /\ e[Len(d) + 1] = k
      <4>1. CASE i = Len(d) + 1
        BY <1>1, <3>2, <4>1
      <4>2. CASE i \in 1..Len(d)
        <5>1. e[i] = LastItem - Len(d) + i
          BY <1>8, <3>2, <4>2
        <5> QED
          BY <1>1, <3>2, <4>2, <5>1
      <4>3. i = Len(d) + 1 \/ i \in 1..Len(d)
        BY <1>1, <2>2, <3>2
      <4> QED
        BY <4>1, <4>2, <4>3
    <3> QED
      BY <2>1, <3>1, <3>2
  <2> QED
    BY <2>2 DEF k
<1>9. Level' <=> Level
  BY <1>1, <1>2, <1>3, <1>6
<1>10. Begins(f, g)
  BY <1>1, <1>2 DEF Begins
<1> QED
  BY <1>4, <1>5, <1>7, <1>8, <1>9, <1>10 DEF f, g

\* Two kinds of mishap are two mishaps.
LEMMA TwoKinds ==
    ASSUME Typed, NEW j, NEW k, Happened(j), Happened(k), Len(mishaps) <= 1
    PROVE  j = k /\ Len(mishaps) = 1
<1>1. Len(mishaps) \in Nat /\ DOMAIN mishaps = 1..Len(mishaps)
  BY LenProperties DEF Typed
<1>2. PICK a \in 1..Len(mishaps) : j = mishaps[a]
  BY <1>1, Zenon DEF Happened, Range
<1>3. PICK b \in 1..Len(mishaps) : k = mishaps[b]
  BY <1>1, Zenon DEF Happened, Range
<1>4. Len(mishaps) = 1 /\ a = b
  BY <1>1
<1> QED
  BY <1>2, <1>3, <1>4

\* What holds while at most one thing has gone wrong.
LEMMA ItemsFacts ==
    ASSUME Base, Items, Len(mishaps) <= 1
    PROVE  /\ Typed /\ Own /\ (InARow \/ Odd) /\ (\A o \in Optimizers : ItemsOf(o))
           /\ Len(mishaps) = 0 \/ Len(mishaps) = 1
           /\ Len(mishaps) = 0 => \A k : ~Happened(k)
           /\ (Len(mishaps) = 0 /\ \A o \in Optimizers : ~Between(o)) => Even
           /\ Len(mishaps) = 0 => InARow
<1>1. Len(mishaps) \in Nat /\ DOMAIN mishaps = 1..Len(mishaps) /\ Typed
  BY LenProperties DEF Base, IInv, Typed
<1>2. Len(mishaps) = 0 \/ Len(mishaps) = 1
  BY <1>1
<1>3. ASSUME Len(mishaps) = 0, NEW k PROVE ~Happened(k)
  BY <1>1, <1>3 DEF Happened, Range
<1> QED
  BY <1>1, <1>2, <1>3 DEF Items, Odd

LEMMA FewMishaps ==
    ASSUME Typed, [Next]_vars, Len(mishaps') <= 1
    PROVE  /\ Len(mishaps) \in Nat /\ Len(mishaps) <= 1
           /\ Len(mishaps') = 0 \/ Len(mishaps') = 1
           /\ UNCHANGED mishaps \/ (Len(mishaps) = 0 /\ Len(mishaps') = 1)
<1> DEFINE l == Len(mishaps)
           m == Len(mishaps')
<1>1. l \in Nat /\ (UNCHANGED mishaps \/ m = l + 1) /\ m <= 1
  BY MishapsGrow
<1>2. UNCHANGED mishaps => m = l
  OBVIOUS
<1> HIDE DEF l, m
<1>3. l <= 1 /\ (m = 0 \/ m = 1) /\ (UNCHANGED mishaps \/ (l = 0 /\ m = 1))
  BY <1>1, <1>2
<1> QED
  BY <1>1, <1>3 DEF l, m

\* Files that are even hold the items of their instructions.
LEMMA EvenOwn ==
    ASSUME Typed, Base, Even, NEW b \in Seq(Insts), Begins(b, file["x"]),
           NEW i \in 1..Len(b), i \in 1..Len(file["data"])
    PROVE  b[i].n = file["data"][i]
<1> DEFINE f == file["x"]
           d == file["data"]
<1>1. Len(f) \in Nat /\ Len(d) \in Nat /\ Len(b) \in Nat /\ Done \in Int /\ LastItem \in Int
  BY Bounds, LenProperties DEF Typed, Done, LastItem
<1>2. b[i] = f[i] /\ i \in 1..Len(f) /\ i \in Int
  BY <1>1 DEF Begins
<1>3. f[i].n = Done - Len(f) + i /\ d[i] = LastItem - Len(d) + i /\ Len(d) - Len(f) = LastItem - Done
  BY <1>2 DEF Even, InARow, Level
<1> HIDE DEF f, d
<1>4. f[i].n = d[i]
  BY <1>1, <1>2, <1>3
<1> QED
  BY <1>2, <1>4 DEF f, d

LEMMA AnalysisItems == ASSUME Base, Items, Analysis, [Next]_vars PROVE Items'
<1>0. /\ Typed /\ UNCHANGED <<pc, num, buf, at, pairs>> /\ (rec = "off" => Lonely("beside"))
      /\ UNCHANGED mishaps \/ \E kind \in {"debugger", "append", "cycle", "beside"} : Mishap(kind)
      /\ \A k : Happened(k) => Happened(k)'
  BY AnalysisEffect, MishapsGrow DEF Base, IInv
<1> SUFFICES ASSUME Len(mishaps') <= 1 PROVE Items'
  BY DEF Items
<1>1. /\ Len(mishaps) \in Nat /\ (Len(mishaps') = 0 \/ Len(mishaps') = 1)
      /\ UNCHANGED mishaps \/ (Len(mishaps) = 0 /\ Len(mishaps') = 1)
  BY <1>0, FewMishaps
<1>2. Len(mishaps) <= 1
  BY <1>0, FewMishaps
<1>3. /\ Own /\ (InARow \/ Odd) /\ (\A o \in Optimizers : ItemsOf(o))
      /\ Len(mishaps) = 0 \/ Len(mishaps) = 1
      /\ Len(mishaps) = 0 => \A k : ~Happened(k)
      /\ (Len(mishaps) = 0 /\ \A o \in Optimizers : ~Between(o)) => Even
      /\ Len(mishaps) = 0 => InARow
  BY <1>2, ItemsFacts
<1>4. Own' /\ \A o \in Optimizers : /\ Between(o)' <=> Between(o)
                                    /\ Holds(o)' <=> Holds(o)
                                    /\ o \in Alive' <=> o \in Alive
  BY <1>0, <1>3 DEF Own, Between, Holds, Alive
<1>5. CASE UNCHANGED mishaps
  <2>1. (InARow => InARow') /\ (Level' <=> Level) /\ Begins(file["x"], file'["x"])
    BY <1>0, <1>5, RowGrows
  <2>2. InARow' \/ Odd'
    BY <1>0, <1>3, <1>5, <2>1 DEF Odd
  <2>3. Even => Even'
    BY <2>1 DEF Even
  <2>4. ASSUME NEW o \in Optimizers, o \in Alive PROVE rec # "off" /\ Happened("beside")
    <3>1. ~Mishap("beside")
      BY <1>0, <1>1, <1>5, MishapAdds DEF Typed
    <3>2. rec # "off"
      BY <1>0, <2>4, <3>1 DEF Lonely
    <3> QED
      BY <2>4, <3>2 DEF Base, Alone
  <2>5. ASSUME NEW o \in Optimizers PROVE ItemsOf(o)'
    <3>1. CASE o \in Alive /\ ~Between(o)
      <4>1. Even /\ (Holds(o) => Begins(buf[o], file["x"]))
        BY <1>3, <2>4, <3>1 DEF ItemsOf, Uneven
      <4>2. Holds(o) => Begins(buf[o], file'["x"])
        <5>1. Len(buf[o]) \in Nat /\ Len(file["x"]) \in Nat
          BY <1>0, LenProperties DEF Typed
        <5>2. Len(file'["x"]) \in Nat
          BY <1>0, NextIInv, LenProperties DEF Base, IInv, Typed
        <5> QED
          BY <2>1, <4>1, <5>1, <5>2 DEF Begins
      <4> QED
        BY <1>0, <1>4, <2>3, <3>1, <4>1, <4>2 DEF ItemsOf
    <3>2. CASE Between(o)
      <4>1. o \in Alive
        BY <3>2 DEF Between, Alive
      <4> QED
        BY <1>0, <1>4, <2>4, <3>2, <4>1 DEF ItemsOf
    <3>3. CASE o \notin Alive /\ ~Between(o)
      BY <1>4, <3>3 DEF ItemsOf
    <3> QED
      BY <3>1, <3>2, <3>3
  <2>6. Len(mishaps') = 0 /\ (\A o \in Optimizers : ~Between(o)') => Even'
    BY <1>3, <1>4, <1>5, <2>3
  <2> QED
    BY <1>4, <2>2, <2>5, <2>6 DEF Items
<1>6. CASE ~UNCHANGED mishaps
  <2>1. Len(mishaps) = 0 /\ Len(mishaps') = 1
    BY <1>1, <1>3, <1>6
  <2>2. CASE UNCHANGED file /\ Done' = Done /\ LastItem' = LastItem
    <3>1. InARow' /\ (Even => Even')
      BY <1>3, <2>1, <2>2 DEF InARow, Level, Even
    <3>2. ASSUME NEW o \in Optimizers PROVE ItemsOf(o)'
      <4>1. ~Uneven(o)
        BY <2>1 DEF Uneven
      <4>2. o \in Alive /\ ~Between(o) => Even' /\ (Holds(o) => Begins(buf[o], file'["x"]))
        BY <1>3, <2>2, <3>1, <4>1 DEF ItemsOf
      <4>3. Between(o) => file["x"] = <<>>
        BY <1>3, <2>1 DEF ItemsOf
      <4> QED
        BY <1>0, <1>4, <2>2, <4>2, <4>3 DEF ItemsOf, Begins
    <3> QED
      BY <1>4, <2>1, <3>1, <3>2 DEF Items
  <2>3. CASE Level => ~Level'
    <3>1. CASE \E o \in Optimizers : o \in Alive
      <4>1. UNCHANGED file /\ Done' = Done /\ LastItem' = LastItem
        <5>1. rec = "off"
          BY <1>3, <2>1, <3>1 DEF Base, Alone
        <5> QED
          BY <5>1, <1>0 DEF Analysis, AnalysisStart, AnalysisItem, AnalysisInst, InvalidInst, InvalidItem,
             CycleItem, AnalysisEnd, AnalysisCrash, Handles, Done, LastItem
      <4> QED
        BY <2>2, <4>1
    <3>2. CASE \A o \in Optimizers : o \notin Alive
      <4>1. \A o \in Optimizers : ~Between(o) /\ pc[o] \notin {"piece"} \cup BakSteps
        BY <3>2 DEF Alive, Between
      <4>2. ~Level'
        BY <1>3, <2>1, <2>3, <4>1 DEF Even
      <4>3. Odd'
        BY <1>0, <2>1, <4>1, <4>2 DEF Odd
      <4>4. \A o \in Optimizers : ItemsOf(o)'
        BY <1>4, <3>2, <4>1 DEF ItemsOf
      <4> QED
        BY <1>4, <2>1, <4>3, <4>4 DEF Items
    <3> QED
      BY <3>1, <3>2
  <2> QED
    BY <1>0, <1>6, <2>2, <2>3, AnalysisBreaks
<1> QED
  BY <1>5, <1>6

LEMMA OptimizeItems == ASSUME Base, Items, NEW o \in Optimizers, Optimize(o), [Next]_vars PROVE Items'
<1>0. /\ Typed /\ UNCHANGED <<file, rec, recorded, num, buf, at, pairs>> /\ rec = "off"
      /\ pc[o] = "idle" /\ pc'[o] = "exists" /\ \A p \in Optimizers \ {o} : pc'[p] = pc[p]
      /\ Lonely("second") /\ \A k : Happened(k) => Happened(k)'
  BY MishapsGrow DEF Base, IInv, Typed, Optimize
<1> SUFFICES ASSUME Len(mishaps') <= 1 PROVE Items'
  BY DEF Items
<1>1. /\ Len(mishaps) \in Nat /\ (Len(mishaps') = 0 \/ Len(mishaps') = 1)
      /\ UNCHANGED mishaps \/ (Len(mishaps) = 0 /\ Len(mishaps') = 1)
  BY <1>0, FewMishaps
<1>2. Len(mishaps) <= 1
  BY <1>0, FewMishaps
<1>3. /\ Own /\ (InARow \/ Odd) /\ (\A p \in Optimizers : ItemsOf(p))
      /\ Len(mishaps) = 0 \/ Len(mishaps) = 1
      /\ Len(mishaps) = 0 => \A k : ~Happened(k)
      /\ (Len(mishaps) = 0 /\ \A p \in Optimizers : ~Between(p)) => Even
      /\ Len(mishaps) = 0 => InARow
  BY <1>2, ItemsFacts
<1>4. /\ Own' /\ (InARow' <=> InARow) /\ (Even' <=> Even) /\ (Level' <=> Level)
      /\ \A p \in Optimizers : Between(p)' <=> Between(p)
  BY <1>0, <1>3 DEF Own, InARow, Even, Level, Done, LastItem, Between
<1>5. InARow' \/ Odd'
  BY <1>0, <1>1, <1>3, <1>4 DEF Odd
<1>6. Len(mishaps') = 0 /\ (\A p \in Optimizers : ~Between(p)') => Even'
  BY <1>1, <1>3, <1>4
<1>7. ItemsOf(o)'
  <2>1. ~Between(o) /\ ~Holds(o)'
    BY <1>0 DEF Between, Holds
  <2>2. CASE Len(mishaps') = 1
    BY <1>0, <1>4, <2>1, <2>2 DEF ItemsOf, Uneven
  <2>3. CASE Len(mishaps') = 0
    <3>1. Alive = {}
      BY <1>0, <2>3, MishapAdds DEF Typed, Lonely
    <3>2. \A p \in Optimizers : ~Between(p)
      BY <3>1 DEF Alive, Between
    <3> QED
      BY <1>4, <1>6, <2>1, <2>3, <3>2 DEF ItemsOf
  <2> QED
    BY <1>1, <2>2, <2>3
<1>8. ASSUME NEW p \in Optimizers \ {o} PROVE ItemsOf(p)'
  <2>1. (p \in Alive' <=> p \in Alive) /\ (Holds(p)' <=> Holds(p)) /\ ItemsOf(p)
    BY <1>0, <1>3 DEF Alive, Holds
  <2>2. Uneven(p) => Uneven(p)'
    BY <1>0, <1>1 DEF Uneven, Matches
  <2> QED
    BY <1>0, <1>4, <2>1, <2>2 DEF ItemsOf, Begins
<1> QED
  BY <1>4, <1>5, <1>6, <1>7, <1>8 DEF Items

\* While the files stay, every other process is where it was.
LEMMA OthersItems ==
    ASSUME Base, Items, [Next]_vars, NEW o \in Optimizers, WinMain(o) \/ OptimizerCrash(o),
           UNCHANGED file, Len(mishaps') <= 1
    PROVE  /\ (InARow' <=> InARow) /\ (Level' <=> Level) /\ (Even' <=> Even)
           /\ \A p \in Optimizers \ {o} : ItemsOf(p)'
           /\ (\A p \in Optimizers : Between(p) => Between(p)') =>
                 (Len(mishaps') = 0 /\ (\A p \in Optimizers : ~Between(p)') => Even')
           /\ pc'[o] \notin {"piece"} \cup BakSteps => InARow' \/ Odd'
<1>0. /\ Typed /\ UNCHANGED <<rec, recorded>> /\ \A p \in Optimizers \ {o} : pc'[p] = pc[p]
      /\ \A k : Happened(k) => Happened(k)'
  BY WinMainAlive, MishapsGrow DEF Base, IInv
<1>1. /\ Len(mishaps) <= 1 /\ (Len(mishaps') = 0 \/ Len(mishaps') = 1)
      /\ UNCHANGED mishaps \/ (Len(mishaps) = 0 /\ Len(mishaps') = 1)
  BY <1>0, FewMishaps
<1>2. /\ (InARow \/ Odd) /\ (\A p \in Optimizers : ItemsOf(p))
      /\ (Len(mishaps) = 0 /\ \A p \in Optimizers : ~Between(p)) => Even
      /\ Len(mishaps) = 0 => InARow
  BY <1>1, ItemsFacts
<1>3. (InARow' <=> InARow) /\ (Level' <=> Level) /\ (Even' <=> Even)
  BY <1>0 DEF InARow, Even, Level, Done, LastItem
<1>4. \A p \in Optimizers \ {o} : buf'[p] = buf[p] /\ at'[p] = at[p] /\ num'[p] = num[p]
  BY <1>0 DEF WinMain, Exists, CheckSize, CheckCompare, ReadInst, OptimizePiece, PieceFails, LoopEnds,
         BakForget, BakCopy, BakDelete, OptimizerCrash, Typed
<1>5. ASSUME NEW p \in Optimizers \ {o} PROVE ItemsOf(p)'
  <2>1. (p \in Alive' <=> p \in Alive) /\ (Holds(p)' <=> Holds(p)) /\ (Between(p)' <=> Between(p)) /\ ItemsOf(p)
    BY <1>0, <1>2, <1>4 DEF Alive, Holds, Between
  <2>2. Uneven(p) => Uneven(p)'
    BY <1>0, <1>1, <1>4 DEF Uneven, Matches
  <2> QED
    BY <1>0, <1>3, <1>4, <2>1, <2>2 DEF ItemsOf, Begins
<1>6. ASSUME \A p \in Optimizers : Between(p) => Between(p)', Len(mishaps') = 0, \A p \in Optimizers : ~Between(p)'
      PROVE  Even'
  BY <1>1, <1>2, <1>3, <1>6
<1>7. ASSUME pc'[o] \notin {"piece"} \cup BakSteps PROVE InARow' \/ Odd'
  BY <1>0, <1>1, <1>2, <1>3, <1>7 DEF Odd
<1> QED
  BY <1>3, <1>5, <1>6, <1>7

\* The process that deletes one of the files.
LEMMA DeleteItems ==
    ASSUME Base, Items, [Next]_vars, NEW o \in Optimizers, BakDelete(o), Len(mishaps') <= 1
    PROVE  Items'
<1>0. /\ Typed /\ o \in Alive /\ UNCHANGED <<rec, recorded, num, buf, pairs>>
      /\ \A p \in Optimizers \ {o} : pc'[p] = pc[p] /\ at'[p] = at[p]
      /\ pc[o] = "delete" /\ pc'[o] = (IF at[o] = "x" THEN "forget" ELSE "ended") /\ at'[o] = "data"
      /\ \A k : Happened(k) => Happened(k)'
      /\ \/ file' = [file EXCEPT ![at[o]] = <<>>] /\ UNCHANGED mishaps
         \/ Mishap("delete") /\ UNCHANGED file
  BY MishapsGrow DEF Base, IInv, Typed, BakDelete, Goes, Alive
<1>1. /\ Len(mishaps) <= 1 /\ (Len(mishaps') = 0 \/ Len(mishaps') = 1)
      /\ UNCHANGED mishaps \/ (Len(mishaps) = 0 /\ Len(mishaps') = 1)
  BY <1>0, FewMishaps
<1>2. /\ Own /\ (InARow \/ Odd) /\ (\A p \in Optimizers : ItemsOf(p))
      /\ Len(mishaps) = 0 \/ Len(mishaps) = 1
      /\ Len(mishaps) = 0 => \A k : ~Happened(k)
      /\ Len(mishaps) = 0 => InARow
  BY <1>1, ItemsFacts
<1>3. InARow /\ Own'
  BY <1>0, <1>2 DEF Odd, Own
<1>4. WinMain(o) /\ at[o] \in Files
  BY <1>0 DEF WinMain, Typed
<1>5. CASE UNCHANGED file
  <2>1. /\ \A p \in Optimizers \ {o} : ItemsOf(p)'
        /\ (InARow' <=> InARow) /\ (Even' <=> Even)
    BY <1>4, <1>5, OthersItems
  <2>2. CASE Mishap("delete")
    <3>1. Happened("delete")' /\ Len(mishaps') # 0
      BY <1>0, <1>1, <2>2, MishapAdds DEF Typed
    <3>2. ItemsOf(o)'
      BY <1>0, <3>1 DEF ItemsOf, Between, Alive
    <3> QED
      BY <1>3, <2>1, <3>1, <3>2 DEF Items
  <2>3. CASE UNCHANGED mishaps /\ file' = [file EXCEPT ![at[o]] = <<>>]
    <3>1. file[at[o]] = <<>>
      BY <1>0, <1>4, <1>5, <2>3 DEF Typed
    <3>2. ItemsOf(o)'
      BY <1>0, <1>4, <1>5, <3>1 DEF ItemsOf, Between, Alive
    <3>3. Len(mishaps') = 0 /\ (\A p \in Optimizers : ~Between(p)') => Even'
      <4> SUFFICES ASSUME Len(mishaps') = 0, \A p \in Optimizers : ~Between(p)' PROVE Even'
        OBVIOUS
      <4>1. at[o] = "data" /\ Between(o)
        BY <1>0, <1>4 DEF Between
      <4>2. file["x"] = <<>> /\ file["data"] = <<>> /\ rec = "off"
        BY <1>0, <1>1, <1>2, <3>1, <4>1 DEF ItemsOf, Base, Alone
      <4>3. Done = LastItem /\ Done \in Nat
        <5>1. recorded \in Nat
          BY <1>0, Bounds DEF Typed
        <5> QED
          BY <4>2, <5>1 DEF Done, LastItem
      <4>4. Level
        BY <4>2, <4>3 DEF Level
      <4> QED
        BY <1>3, <2>1, <4>4 DEF Even
    <3> QED
      BY <1>3, <2>1, <3>2, <3>3 DEF Items
  <2> QED
    BY <1>0, <2>2, <2>3
<1>6. CASE file' = [file EXCEPT ![at[o]] = <<>>] /\ UNCHANGED mishaps
  <2>0. Done' = Done /\ LastItem' = LastItem /\ DOMAIN file = Files /\ recorded \in Nat
    BY <1>0, Bounds DEF Done, LastItem, Typed
  <2>1. InARow'
    BY <1>3, <1>4, <1>6, <2>0 DEF InARow
  <2>2. ASSUME NEW p \in Optimizers \ {o}, p \in Alive
        PROVE  Len(mishaps) = 1 /\ rec = "off" /\ ~Happened("beside") /\ ~Happened("delete")
    <3>1. Happened("second")
      BY <1>0, <2>2 DEF Base, Alone
    <3>2. ~Happened("beside") /\ ~Happened("delete") /\ Len(mishaps) = 1
      BY <1>0, <1>1, <3>1, TwoKinds
    <3> QED
      BY <1>0, <3>2 DEF Base, Alone
  <2>3. CASE at[o] = "x"
    <3>1. file'["x"] = <<>> /\ file'["data"] = file["data"]
      BY <1>6, <2>0, <2>3
    <3>2. Between(o)' /\ ItemsOf(o)'
      BY <1>0, <2>3, <3>1 DEF Between, ItemsOf
    <3>3. ASSUME NEW p \in Optimizers \ {o} PROVE ItemsOf(p)'
      <4>1. (p \in Alive' <=> p \in Alive) /\ (Between(p)' <=> Between(p)) /\ ItemsOf(p)
        BY <1>0, <1>2 DEF Alive, Between
      <4>2. CASE p \in Alive /\ ~Between(p)
        <5>1. pc[p] = "piece" => Matches(p)
          <6>1. CASE Uneven(p)
            BY <6>1 DEF Uneven
          <6>2. CASE Even /\ (Holds(p) => Begins(buf[p], file["x"])) /\ pc[p] = "piece"
            <7>1. Begins(buf[p], file["x"]) /\ buf[p] \in Seq(Insts)
              BY <1>0, <6>2 DEF Holds, Typed
            <7> QED
              BY <1>0, <6>2, <7>1, EvenOwn DEF Matches
          <6> QED
            BY <4>1, <4>2, <6>1, <6>2 DEF ItemsOf
        <5>2. Uneven(p)'
          BY <1>0, <1>6, <2>2, <3>1, <4>2, <5>1 DEF Uneven, Matches
        <5> QED
          BY <4>1, <4>2, <5>2 DEF ItemsOf
      <4>3. CASE Between(p)
        BY <1>0, <3>1, <4>1, <4>3 DEF ItemsOf
      <4>4. CASE p \notin Alive /\ ~Between(p)
        BY <4>1, <4>4 DEF ItemsOf
      <4> QED
        BY <4>2, <4>3, <4>4
    <3> QED
      BY <1>3, <2>1, <3>2, <3>3 DEF Items
  <2>4. CASE at[o] = "data"
    <3>1. file'["x"] = file["x"] /\ file'["data"] = <<>> /\ Between(o) /\ pc'[o] = "ended"
      BY <1>0, <1>6, <2>0, <2>4 DEF Between
    <3>2. ItemsOf(o)'
      BY <3>1 DEF ItemsOf, Between, Alive
    <3>3. ASSUME NEW p \in Optimizers \ {o} PROVE ItemsOf(p)'
      <4>1. (p \in Alive' <=> p \in Alive) /\ (Between(p)' <=> Between(p)) /\ ItemsOf(p)
        BY <1>0, <1>2 DEF Alive, Between
      <4>2. CASE p \in Alive
        <5>1. Len(mishaps) = 1 /\ rec = "off" /\ file["x"] = <<>>
          BY <1>2, <2>2, <3>1, <4>2 DEF ItemsOf
        <5>2. Uneven(p)'
          <6>1. Len(<<>>) = 0
            OBVIOUS
          <6> QED
            BY <1>0, <1>6, <3>1, <5>1, <6>1 DEF Uneven, Matches
        <5> QED
          BY <1>0, <3>1, <5>1, <5>2 DEF ItemsOf
      <4>3. CASE p \notin Alive
        BY <4>1, <4>3 DEF ItemsOf, Between, Alive
      <4> QED
        BY <4>2, <4>3
    <3>4. Len(mishaps') = 0 => Even'
      <4> SUFFICES ASSUME Len(mishaps') = 0 PROVE Even'
        OBVIOUS
      <4>1. file["x"] = <<>> /\ rec = "off"
        BY <1>0, <1>1, <1>2, <3>1 DEF ItemsOf, Base, Alone
      <4>2. Level'
        BY <1>0, <2>0, <3>1, <4>1 DEF Level, Done, LastItem
      <4> QED
        BY <2>1, <4>2 DEF Even
    <3> QED
      BY <1>3, <2>1, <3>2, <3>3, <3>4 DEF Items
  <2> QED
    BY <1>4, <2>3, <2>4
<1> QED
  BY <1>0, <1>5, <1>6

LEMMA ProcessItems ==
    ASSUME Base, Items, [Next]_vars, NEW o \in Optimizers, WinMain(o) \/ OptimizerCrash(o)
    PROVE  Items'
<1>0. /\ Typed /\ Reader(o) /\ o \in Alive /\ UNCHANGED <<rec, recorded>>
      /\ \A p \in Optimizers \ {o} : pc'[p] = pc[p]
      /\ \A k : Happened(k) => Happened(k)'
  BY WinMainAlive, MishapsGrow DEF Base, IInv, Numbered
<1> SUFFICES ASSUME Len(mishaps') <= 1 PROVE Items'
  BY DEF Items
<1>1. /\ Len(mishaps) <= 1 /\ (Len(mishaps') = 0 \/ Len(mishaps') = 1)
      /\ UNCHANGED mishaps \/ (Len(mishaps) = 0 /\ Len(mishaps') = 1)
  BY <1>0, FewMishaps
<1>2. /\ Own /\ (InARow \/ Odd) /\ ItemsOf(o)
      /\ Len(mishaps) = 0 => \A k : ~Happened(k)
      /\ Len(mishaps) = 0 => InARow
  BY <1>1, ItemsFacts
<1>3. CASE BakDelete(o)
  BY <1>3, DeleteItems
<1>4. CASE ~BakDelete(o)
  <2>1. UNCHANGED file
    BY <1>0, <1>4 DEF WinMain, Exists, CheckSize, CheckCompare, ReadInst, OptimizePiece, PieceFails, LoopEnds,
       BakForget, BakCopy, OptimizerCrash
  <2>2. /\ (InARow' <=> InARow) /\ (Level' <=> Level) /\ (Even' <=> Even)
        /\ \A p \in Optimizers \ {o} : ItemsOf(p)'
        /\ (\A p \in Optimizers : Between(p) => Between(p)') =>
              (Len(mishaps') = 0 /\ (\A p \in Optimizers : ~Between(p)') => Even')
        /\ pc'[o] \notin {"piece"} \cup BakSteps => InARow' \/ Odd'
    BY <2>1, OthersItems
  <2>3. \A p \in Optimizers \ {o} : at'[p] = at[p]
    BY <1>0, <1>4 DEF WinMain, Exists, CheckSize, CheckCompare, ReadInst, OptimizePiece, PieceFails, LoopEnds,
       BakForget, BakCopy, OptimizerCrash
  <2>4. ASSUME Between(o) => Between(o)' \/ Len(mishaps') = 1, Own', ItemsOf(o)', InARow' \/ Odd'
        PROVE  Items'
    <3>1. \A p \in Optimizers \ {o} : Between(p) => Between(p)'
      BY <1>0, <2>3 DEF Between
    <3>2. Len(mishaps') = 0 /\ (\A p \in Optimizers : ~Between(p)') => Even'
      BY <2>2, <2>4, <3>1
    <3> QED
      BY <2>2, <2>4, <3>2 DEF Items
  <2>5. CASE Exists(o) \/ CheckSize(o)
    <3>1. /\ UNCHANGED <<at, pairs, mishaps, rec, buf>> /\ pc[o] \in {"exists", "size"}
          /\ pc'[o] \in {"refused", "size", "compare"}
          /\ pc'[o] = "compare" => num'[o] = Len(file["x"])
      BY <1>0, <2>5 DEF Exists, CheckSize, Goes, Typed
    <3>2. ItemsOf(o)'
      BY <1>2, <2>1, <2>2, <3>1 DEF ItemsOf, Uneven, Between, Holds, Alive
    <3> QED
      BY <1>2, <2>2, <2>4, <3>1, <3>2 DEF Own, Between
  <2>6. CASE CheckCompare(o)
    <3>1. /\ UNCHANGED <<at, pairs, mishaps, rec, buf, num>> /\ pc[o] = "compare"
          /\ pc'[o] \in {"refused", "read"}
          /\ pc'[o] = "read" => Len(file["data"]) = num[o]
      BY <1>0, <2>6 DEF CheckCompare, Goes, Typed
    <3>2. ASSUME pc'[o] = "read", Uneven(o), file["x"] # <<>> PROVE Even
      <4>1. rec = "off" /\ Len(file["data"]) = Len(file["x"])
        BY <3>1, <3>2 DEF Uneven
      <4>2. Level
        BY <1>0, <4>1, Bounds, LenProperties DEF Level, Done, LastItem, Typed
      <4> QED
        BY <1>2, <4>2 DEF Even, Odd
    <3>3. ItemsOf(o)'
      <4>1. ~Between(o) /\ ~Holds(o)' /\ ~Between(o)'
        BY <3>1 DEF Between, Holds
      <4>2. Uneven(o) \/ Even
        BY <1>0, <1>2, <4>1 DEF ItemsOf
      <4>3. Uneven(o) /\ file["x"] = <<>> => Uneven(o)'
        BY <1>0, <2>1, <3>1 DEF Uneven
      <4> QED
        BY <2>2, <3>1, <3>2, <4>1, <4>2, <4>3 DEF ItemsOf, Alive
    <3> QED
      BY <1>2, <2>2, <2>4, <3>1, <3>3 DEF Own, Between
  <2>7. CASE ReadInst(o)
    <3>1. /\ UNCHANGED <<at, pairs, mishaps, rec>> /\ pc[o] = "read" /\ at[o] = "x"
          /\ pc'[o] \in {"refused", "piece"} /\ buf'[o] = file["x"]
          /\ pc'[o] = "piece" => file["x"] # <<>>
      BY <1>0, <2>7 DEF ReadInst, Goes, Typed, Reader
    <3>2. pc'[o] = "piece" => Even
      BY <1>0, <1>2, <3>1 DEF ItemsOf, Uneven, Between
    <3>3. Begins(buf'[o], file'["x"])
      BY <1>0, <2>1, <3>1, LenProperties DEF Begins, Typed
    <3>4. ItemsOf(o)'
      BY <2>2, <3>1, <3>2, <3>3 DEF ItemsOf, Between, Alive
    <3>5. InARow' \/ Odd'
      BY <2>2, <3>1, <3>2 DEF Even
    <3> QED
      BY <1>2, <2>4, <3>1, <3>4, <3>5 DEF Own, Between
  <2>8. CASE LoopEnds(o) \/ PieceFails(o)
    <3>1. /\ UNCHANGED <<at, pairs, buf, num>> /\ pc[o] = "piece" /\ at[o] = "x" /\ pc'[o] = "forget"
      BY <1>0, <2>8 DEF LoopEnds, PieceFails, Goes, Typed, Reader
    <3>2. ItemsOf(o)'
      BY <1>0, <1>1, <1>2, <2>1, <2>2, <3>1 DEF ItemsOf, Uneven, Between, Holds
    <3>3. InARow'
      BY <1>2, <2>2, <3>1 DEF Odd
    <3> QED
      BY <1>2, <2>4, <3>1, <3>2, <3>3 DEF Own, Between
  <2>9. CASE OptimizePiece(o)
    <3>1. /\ UNCHANGED <<at, buf, num, mishaps>> /\ pc[o] = "piece" /\ at[o] = "x" /\ pc'[o] = "piece"
      BY <1>0, <2>9 DEF OptimizePiece, Goes, Typed, Reader
    <3>2. PICK end \in Ends(o) : pairs' = pairs \cup Read(o, end)
      BY <2>9 DEF OptimizePiece
    <3>3. end \in from[o] + 1..Len(buf[o]) /\ from[o] \in Nat /\ Len(buf[o]) \in Nat
      BY <1>0, <2>9, <3>2, EndsAfter DEF OptimizePiece
    <3>4. DOMAIN file["data"] = 1..Len(file["data"]) /\ buf[o] \in Seq(Insts)
      BY <1>0, LenProperties DEF Typed
    <3>5. ASSUME NEW i \in ((from[o] + 1)..end) \cap DOMAIN file["data"]
          PROVE  buf[o][i].n = file["data"][i]
      <4>1. i \in 1..Len(buf[o]) /\ i \in 1..Len(file["data"])
        BY <3>3, <3>4
      <4>2. CASE Uneven(o)
        BY <3>1, <4>1, <4>2 DEF Uneven, Matches
      <4>3. CASE Even /\ Begins(buf[o], file["x"])
        BY <1>0, <3>4, <4>1, <4>3, EvenOwn
      <4> QED
        BY <1>0, <1>2, <3>1, <4>2, <4>3 DEF ItemsOf, Between, Holds
    <3>6. Own'
      BY <1>2, <3>2, <3>5 DEF Own, Read
    <3>7. ItemsOf(o)' /\ InARow'
      BY <1>0, <1>2, <2>1, <2>2, <3>1 DEF ItemsOf, Uneven, Matches, Between, Holds, Begins, Alive, Odd
    <3> QED
      BY <2>4, <3>1, <3>6, <3>7 DEF Between
  <2>10. CASE BakForget(o) \/ BakCopy(o)
    <3>1. /\ UNCHANGED <<at, pairs, buf, num>> /\ pc[o] \in BakSteps /\ pc'[o] \in BakSteps
      BY <1>0, <2>10 DEF BakForget, BakCopy, Goes, Typed
    <3>2. (Between(o)' <=> Between(o)) /\ (Holds(o)' <=> Holds(o)) /\ (Uneven(o) => Uneven(o)')
      BY <1>0, <1>1, <3>1 DEF Between, Holds, Uneven
    <3>3. ItemsOf(o)'
      BY <1>0, <1>2, <2>1, <2>2, <3>1, <3>2 DEF ItemsOf
    <3>4. InARow'
      BY <1>2, <2>2, <3>1 DEF Odd
    <3> QED
      BY <1>2, <2>4, <3>1, <3>2, <3>3, <3>4 DEF Own
  <2>11. CASE OptimizerCrash(o)
    <3>1. UNCHANGED pairs /\ pc'[o] = "crashed" /\ Len(mishaps') = 1
      BY <1>0, <1>1, <2>11, MishapAdds DEF OptimizerCrash, Typed
    <3>2. ItemsOf(o)'
      BY <3>1 DEF ItemsOf, Between, Alive
    <3> QED
      BY <1>2, <2>2, <2>4, <3>1, <3>2 DEF Own
  <2> QED
    BY <1>4, <2>5, <2>6, <2>7, <2>8, <2>9, <2>10, <2>11 DEF WinMain
<1> QED
  BY <1>3, <1>4

LEMMA ItemsInv == ASSUME Base, Items, [Next]_vars PROVE Items'
<1>1. CASE UNCHANGED vars
  <2>1. UNCHANGED <<file, rec, recorded, pc, num, buf, at, pairs, mishaps>>
    BY <1>1 DEF vars
  <2> QED
    BY <2>1 DEF Items, Own, ItemsOf, Even, Odd, Uneven, Matches, InARow, Level, LastItem, Done, Begins, Holds,
       Between, Alive, Happened
<1> QED
  BY <1>1, AnalysisItems, OptimizeItems, ProcessItems DEF Next, Analysis

\* Whatever single thing goes wrong, an item is never read for an instruction
\* it does not belong to (the lengths xx_opmz_file_check compares tell), for
\* recordings of any length, any number of processes, recognised and invalid
\* instructions in any order.
THEOREM ItemsAreOwn == Spec => []OwnItems
<1>1. Init => Base /\ Items
  <2> SUFFICES ASSUME Init PROVE Items
    BY InitBase
  <2>1. Len(<<>>) = 0
    OBVIOUS
  <2>2. Own /\ Even
    BY <2>1 DEF Init, Own, Even, InARow, Level, Done, LastItem
  <2>3. \A o \in Optimizers : ItemsOf(o)
    BY DEF Init, ItemsOf, Between, Alive
  <2> QED
    BY <2>2, <2>3 DEF Items, Even
<1>2. Base /\ Items /\ [Next]_vars => (Base /\ Items)'
  BY BaseInv, ItemsInv
<1>3. Items => OwnItems
  BY DEF Items, Own, OwnItems
<1> QED
  BY <1>1, <1>2, <1>3, PTL DEF Spec

-----------------------------------------------------------------------------
(* What was recorded is not lost.                                           *)

LEMMA DisturbedGrows ==
    ASSUME Typed, [Next]_vars
    PROVE  /\ Disturbed => Disturbed'
           /\ \A kind \in {"beside", "second", "copy", "debugger", "append"} : Mishap(kind) => Disturbed'
BY MishapsGrow, MishapAdds DEF Typed, Disturbed

\* Nothing gets lost while the files, the backup and the buffers stay.
LEMMA BackedKept ==
    ASSUME Backed, Done' = Done, file'["x"] = file["x"], bak'["x"] = bak["x"],
           \A p \in Optimizers : buf'[p] = buf[p] \/ buf[p] = <<>>,
           \A p \in Optimizers : BakOf(p)',
           Disturbed => Disturbed'
    PROVE  Backed'
<1>1. ASSUME NEW n, Kept(n) PROVE Kept(n)'
  BY <1>1 DEF Kept, InFile
<1>2. Older' = Older
  BY DEF Older, InFile
<1> QED
  BY <1>1, <1>2 DEF Backed

LEMMA BackedAnalysis == ASSUME Base, Backed, Analysis, [Next]_vars PROVE Backed'
<1>0. /\ Typed /\ UNCHANGED <<bak, buf, pc, at>> /\ (Disturbed => Disturbed')
      /\ Mishap("debugger") \/ Mishap("append") => Disturbed'
  BY AnalysisEffect, DisturbedGrows DEF Base, IInv
<1>1. Done \in Nat /\ Done' \in Nat /\ Len(file["x"]) \in Nat
  BY <1>0, DoneGrows, LenProperties DEF Base, Numbered, Typed
<1>2. CASE Disturbed'
  BY <1>2 DEF Backed, Disturbed
<1>3. CASE ~Disturbed' /\ file'["x"] = file["x"]
  <2>1. Done' = Done
    <3>1. \A c : Append(file["x"], c) # file["x"]
      <4> SUFFICES ASSUME NEW c, Append(file["x"], c) = file["x"] PROVE FALSE
        OBVIOUS
      <4>1. Len(Append(file["x"], c)) = Len(file["x"]) + 1
        BY <1>0, <1>1 DEF Typed
      <4> QED
        BY <1>1, <4>1
    <3> QED
      BY <1>0, <1>3, <3>1, AnalysisEffect
  <2>2. ~Disturbed /\ \A p \in Optimizers : BakOf(p)'
    BY <1>0, <1>3 DEF Backed, BakOf
  <2> QED
    BY <1>0, <1>3, <2>1, <2>2, BackedKept
<1>4. CASE ~Disturbed' /\ file'["x"] # file["x"]
  <2> DEFINE f == file["x"]
             g == file'["x"]
             b == bak["x"]
  <2>0. rec # "off" /\ Done' = Done + 1 /\ \E c \in BOOLEAN : g = Append(f, Inst(Done', c))
    BY <1>0, <1>4, AnalysisEffect
  <2>1. /\ Len(g) = Len(f) + 1 /\ (\A i \in 1..Len(f) : g[i] = f[i])
        /\ g[Len(f) + 1].n = Done'
    BY <1>0, <1>1, <2>0, AppendInst
  <2>2. ~Disturbed /\ Older /\ \A n \in 1..Done : Kept(n)
    BY <1>0, <1>4 DEF Backed
  <2>3. \A i \in 1..Len(b) : b[i].n \in 1..Done
    BY DEF Base, Numbered, InDone
  <2>4. f = file["x"] /\ g = file'["x"] /\ b = bak["x"] /\ b = bak'["x"] /\ Len(f) \in Nat
    BY <1>0, <1>1
  <2>5. \A i \in 1..Len(b) : InFile(b[i].n, f) \/ \A j \in 1..Len(f) : b[i].n < f[j].n
    BY <2>2 DEF Older
  <2> HIDE DEF f, g, b
  <2>6. InFile(Done', g) /\ \A n : InFile(n, f) => InFile(n, g)
    BY <2>1, <2>4 DEF InFile
  <2>7. \A o \in Optimizers : BakOf(o)'
    BY <1>0, <2>0, <2>2 DEF Base, Alone, Alive, BakOf, Disturbed
  <2>8. \A i \in 1..Len(b) : InFile(b[i].n, g) \/ \A j \in 1..Len(g) : b[i].n < g[j].n
    <3> SUFFICES ASSUME NEW i \in 1..Len(b), ~InFile(b[i].n, g), NEW j \in 1..Len(g)
                 PROVE  b[i].n < g[j].n
      OBVIOUS
    <3>1. \A k \in 1..Len(f) : b[i].n < f[k].n
      BY <2>5, <2>6
    <3>2. CASE j \in 1..Len(f)
      BY <2>1, <3>1, <3>2
    <3>3. CASE j = Len(f) + 1
      BY <1>1, <2>0, <2>1, <2>3, <3>3
    <3> QED
      BY <2>1, <2>4, <3>2, <3>3
  <2>9. Older'
    BY <2>4, <2>8 DEF Older
  <2>10. ASSUME NEW n \in 1..Done' PROVE Kept(n)'
    <3>1. CASE n = Done'
      BY <2>4, <2>6, <3>1 DEF Kept
    <3>2. CASE n # Done'
      <4>1. Kept(n)
        BY <1>1, <2>0, <2>2, <3>2
      <4> QED
        BY <1>0, <2>4, <2>6, <4>1 DEF Kept
    <3> QED
      BY <3>1, <3>2
  <2> QED
    BY <2>7, <2>9, <2>10 DEF Backed
<1> QED
  BY <1>2, <1>3, <1>4

\* The three steps of xx_opmz_bak on vm_opmz.x.
LEMMA BackedBak ==
    ASSUME Base, Backed, NEW o \in Optimizers, at[o] = "x", BakForget(o) \/ BakCopy(o) \/ BakDelete(o),
           ~Disturbed, ~Mishap("copy")
    PROVE  Older' /\ BakOf(o)' /\ \A n \in 1..Done : Kept(n)'
<1>0. /\ Typed /\ Holds(o) /\ buf[o] = file["x"] /\ buf[o] # <<>> /\ Len(file["x"]) \in Nat
      /\ DOMAIN file = Files /\ DOMAIN bak = Files /\ UNCHANGED buf
  <2>1. Typed /\ Holds(o)
    BY DEF Base, IInv, Holds, BakForget, BakCopy, BakDelete, Goes
  <2> QED
    BY <2>1, LenProperties DEF Base, Numbered, Reader, Typed, BakForget, BakCopy, BakDelete, Disturbed
<1>1. Len(file["x"]) > 0
  BY <1>0, EmptySeq DEF Typed
<1>2. BakOf(o) /\ Older /\ \A n \in 1..Done : Kept(n)
  BY DEF Backed
<1>3. CASE BakForget(o)
  <2>1. bak'["x"] = <<>> /\ UNCHANGED file /\ pc'[o] = "copy" /\ Len(<<>>) = 0
    BY <1>0, <1>3 DEF BakForget, Goes, Typed
  <2>2. ASSUME NEW n, Kept(n) PROVE Kept(n)'
    <3>1. CASE InFile(n, bak["x"]) /\ ~InFile(n, file["x"])
      <4>1. n < buf[o][1].n
        BY <1>0, <1>1, <1>2, <3>1 DEF InFile, Older
      <4> QED
        BY <1>0, <4>1 DEF Kept
    <3>2. CASE ~InFile(n, bak["x"]) \/ InFile(n, file["x"])
      BY <1>0, <2>1, <2>2, <3>2 DEF Kept
    <3> QED
      BY <3>1, <3>2
  <2> QED
    BY <1>2, <2>1, <2>2 DEF Older, BakOf
<1>4. CASE BakCopy(o)
  <2>1. bak'["x"] = file["x"] /\ UNCHANGED file /\ pc'[o] = "delete" /\ bak["x"] = <<>> /\ at'[o] = "x"
    BY <1>0, <1>2, <1>4 DEF BakCopy, Goes, Typed, BakOf
  <2>2. Len(<<>>) = 0
    OBVIOUS
  <2>3. ASSUME NEW n, Kept(n) PROVE Kept(n)'
    BY <1>0, <2>1, <2>2, <2>3 DEF Kept, InFile
  <2> QED
    BY <1>2, <2>1, <2>3 DEF Older, BakOf, InFile
<1>5. CASE BakDelete(o)
  <2>1. /\ UNCHANGED bak /\ bak["x"] = file["x"] /\ at'[o] = "data"
        /\ file'["x"] \in {<<>>, file["x"]}
    BY <1>0, <1>2, <1>5 DEF BakDelete, Goes, Typed, BakOf
  <2>2. Len(<<>>) = 0
    OBVIOUS
  <2>3. ASSUME NEW n, Kept(n) PROVE Kept(n)'
    BY <1>0, <2>1, <2>3 DEF Kept
  <2>4. Older'
    BY <1>2, <2>1, <2>2 DEF Older
  <2> QED
    BY <1>2, <2>1, <2>3, <2>4 DEF BakOf
<1> QED
  BY <1>3, <1>4, <1>5

LEMMA BackedInv == ASSUME Base, Backed, [Next]_vars PROVE Backed'
<1>0. /\ Typed /\ (\A o \in Optimizers : Reader(o)) /\ (Disturbed => Disturbed')
      /\ \A kind \in {"second", "copy"} : Mishap(kind) => Disturbed'
  BY DisturbedGrows DEF Base, IInv, Numbered
<1>1. CASE Disturbed'
  BY <1>1 DEF Backed, Disturbed
<1>2. CASE UNCHANGED vars
  <2>1. UNCHANGED <<pc, at, buf, file, bak, rec, recorded, mishaps>>
    BY <1>2 DEF vars
  <2> QED
    BY <2>1 DEF Backed, BakOf, Older, InFile, Kept, Done, Disturbed, Happened
<1>3. CASE Analysis
  BY <1>3, BackedAnalysis
<1>4. ASSUME NEW o \in Optimizers, Optimize(o), ~Disturbed' PROVE Backed'
  <2>1. /\ UNCHANGED <<file, bak, buf, at, rec, recorded>> /\ pc'[o] = "exists"
        /\ \A p \in Optimizers \ {o} : pc'[p] = pc[p]
    BY <1>0, <1>4 DEF Optimize, Typed
  <2>2. \A p \in Optimizers : BakOf(p)'
    BY <1>0, <1>4, <2>1 DEF Backed, BakOf
  <2> QED
    BY <1>0, <2>1, <2>2, BackedKept DEF Done
<1>5. ASSUME NEW o \in Optimizers, WinMain(o) \/ OptimizerCrash(o), ~Disturbed' PROVE Backed'
  <2>0. ~Disturbed /\ ~Mishap("copy")
    BY <1>0, <1>5
  <2>1. /\ o \in Alive /\ UNCHANGED <<rec, recorded>> /\ Done' = Done
        /\ \A p \in Optimizers \ {o} : pc'[p] = pc[p] /\ p \notin Alive
    BY <1>0, <1>5, <2>0, WinMainAlive, HoldsAlone DEF Base, Done, Disturbed
  <2>2. \A p \in Optimizers \ {o} : BakOf(p)'
    BY <2>1 DEF BakOf, Alive
  <2>3. CASE at[o] = "x" /\ (BakForget(o) \/ BakCopy(o) \/ BakDelete(o))
    BY <2>0, <2>1, <2>2, <2>3, BackedBak DEF Backed
  <2>4. CASE at[o] # "x" /\ (BakForget(o) \/ BakCopy(o) \/ BakDelete(o))
    <3>1. file'["x"] = file["x"] /\ bak'["x"] = bak["x"] /\ UNCHANGED buf /\ at'[o] # "x"
      BY <1>0, <2>4 DEF BakForget, BakCopy, BakDelete, Typed
    <3>2. BakOf(o)'
      BY <3>1 DEF BakOf
    <3> QED
      BY <1>0, <2>1, <2>2, <3>1, <3>2, BackedKept
  <2>5. CASE ~(BakForget(o) \/ BakCopy(o) \/ BakDelete(o))
    <3>1. /\ UNCHANGED <<file, bak, at>> /\ pc'[o] \notin {"copy", "delete"}
          /\ \A p \in Optimizers : buf'[p] = buf[p] \/ buf[p] = <<>>
      <4>1. CASE ReadInst(o)
        BY <1>0, <4>1 DEF ReadInst, Goes, Typed, Reader
      <4>2. CASE ~ReadInst(o)
        BY <1>0, <1>5, <2>5, <4>2 DEF WinMain, Exists, CheckSize, CheckCompare, OptimizePiece, PieceFails,
           LoopEnds, OptimizerCrash, Goes, Typed
      <4> QED
        BY <4>1, <4>2
    <3>2. BakOf(o)'
      BY <3>1 DEF BakOf
    <3> QED
      BY <1>0, <2>1, <2>2, <3>1, <3>2, BackedKept
  <2> QED
    BY <2>3, <2>4, <2>5
<1> QED
  BY <1>1, <1>2, <1>3, <1>4, <1>5 DEF Next, Analysis

\* As long as no process is started beside another, no copy or append fails
\* and the debugger does not crash, whatever was recorded is in vm_opmz.x, in
\* its backup or in the log until the next recording is backed up (xx_opmz_bak
\* deletes after it has copied), however long recordings are, whether pieces
\* and deletions fail and optimizers crash.
THEOREM RecordingsRecoverable == Spec => []Recoverable
<1>1. Init => Base /\ Backed
  <2> SUFFICES ASSUME Init PROVE Backed
    BY InitBase
  <2>1. Len(<<>>) = 0
    OBVIOUS
  <2> QED
    BY <2>1 DEF Init, Backed, BakOf, Older, Done
<1>2. Base /\ Backed /\ [Next]_vars => (Base /\ Backed)'
  BY BaseInv, BackedInv
<1>3. Base /\ Backed => Recoverable
  <2> SUFFICES ASSUME Base, Backed, ~Disturbed, NEW n \in Appended
               PROVE  n \in Stored(file["x"]) \cup Stored(bak["x"]) \/ Replaced(n)
    BY DEF Recoverable, Disturbed
  <2>1. Kept(n)
    BY DEF Backed, Appended, Done
  <2>2. DOMAIN file["x"] = 1..Len(file["x"]) /\ DOMAIN bak["x"] = 1..Len(bak["x"])
    BY LenProperties DEF Base, IInv, Typed
  <2> QED
    BY <2>1, <2>2 DEF Kept, InFile, Stored, Replaced
<1> QED
  BY <1>1, <1>2, <1>3, PTL DEF Spec

=============================================================================

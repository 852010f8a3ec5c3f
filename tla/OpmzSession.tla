----------------------------- MODULE OpmzSession -----------------------------
(***************************************************************************)
(* The life of a recording: the plugin appends it to two files, vm_opmz.x   *)
(* with the instructions and vm_opmz_data.x with their data items, and      *)
(* xx_opmz.exe (WinMain) checks the files, cuts the recording into pieces,  *)
(* optimizes and logs them one by one, backs both files up and deletes      *)
(* them.  Every process works on the same files, and the menu that starts   *)
(* them knows of the analysis thread but of no optimizer.                   *)
(***************************************************************************)
EXTENDS Integers, Sequences, SequencesExt

CONSTANTS
    Optimizers,    \* the processes that may be started, each once
    MaxRecords,    \* bound: instructions ever recorded
    MaxMishaps     \* bound: what goes wrong, see Mishap

ASSUME SessionAssumption == {MaxRecords, MaxMishaps} \subseteq Nat

VARIABLES
    file,       \* "x" and "data", the two files; a missing file is empty
    bak,        \* their backups
    rec,        \* the analysis: off, at its next instruction, or what is left
                \* to append of this one: the instruction, its item
    recorded,   \* the number of instructions it has executed
    pc,         \* WinMain, one per process
    num,        \* num1 of xx_opmz_file_check
    buf,        \* g_vm_inst
    from,       \* piece_seq0
    at,         \* the file xx_opmz_bak is at
    log,        \* xx_opmz.txt: the instructions each process optimized
    pairs,      \* the items read, each with the instruction it was read for
    mishaps     \* what has gone wrong, in order

process == <<pc, num, buf, from, at>>
results == <<log, pairs>>
vars == <<file, bak, rec, recorded, process, results, mishaps>>

Files == {"x", "data"}
Steps == {"exists", "size", "compare", "read", "piece"}
BakSteps == {"forget", "copy", "delete"}
Alive == {o \in Optimizers : pc[o] \in Steps \cup BakSteps}

\* An instruction of the recording, and whether a piece starts there.
Inst(n, cut) == [n |-> n, cut |-> cut]

\* The end of the "debugger" or of an optimizer ("crash"); an "append", a
\* "piece", a "copy" or a "delete" that fails; an analysis of more than one
\* "cycle"; and what the menu does not prevent: an analysis "beside" an
\* optimizer, a "second" optimizer beside a first.
Mishap(kind) == Len(mishaps) < MaxMishaps /\ mishaps' = Append(mishaps, kind)

Init ==
    /\ file = [f \in Files |-> <<>>] /\ bak = [f \in Files |-> <<>>]
    /\ rec = "off" /\ recorded = 0
    /\ pc = [o \in Optimizers |-> "idle"] /\ num = [o \in Optimizers |-> 0]
    /\ buf = [o \in Optimizers |-> <<>>] /\ from = [o \in Optimizers |-> 0]
    /\ at = [o \in Optimizers |-> "x"]
    /\ log = [o \in Optimizers |-> <<>>] /\ pairs = {} /\ mishaps = <<>>

-----------------------------------------------------------------------------
(* The plugin: an analysis, and the menu's way to the optimizer.            *)

\* xx_run_status looks at the analysis thread; nothing sets hthread_opmz.
Lonely(kind) == IF Alive = {} THEN UNCHANGED mishaps ELSE Mishap(kind)

AnalysisStart ==
    /\ rec = "off" /\ recorded < MaxRecords
    /\ rec' = "next" /\ Lonely("beside")
    /\ UNCHANGED <<file, bak, recorded, process, results>>

Appends(f, e) == file' = [file EXCEPT ![f] = Append(@, e)]
AppendsOrFails(f, e) ==
    \/ Appends(f, e) /\ UNCHANGED mishaps
    \/ Mishap("append") /\ UNCHANGED file
Handles(next) == rec = "next" /\ recorded < MaxRecords /\ recorded' = recorded + 1 /\ rec' = next

\* The handler that recognises an instruction appends its item, and then
\* vm_handle the instruction.
AnalysisItem ==
    /\ Handles("inst") /\ Appends("data", recorded')
    /\ UNCHANGED <<bak, process, results, mishaps>>

AnalysisInst ==
    /\ rec = "inst" /\ rec' = "next"
    /\ \E cut \in BOOLEAN : AppendsOrFails("x", Inst(recorded, cut))
    /\ UNCHANGED <<bak, recorded, process, results>>

\* Of an instruction that no handler recognises, or whose item could not be
\* appended, xx_opmz_write_invalid appends the instruction and a blank item.
InvalidInst ==
    /\ Handles("item")
    /\ \E cut \in BOOLEAN : AppendsOrFails("x", Inst(recorded', cut))
    /\ UNCHANGED <<bak, process, results>>

InvalidItem ==
    /\ rec = "item" /\ rec' = "next" /\ AppendsOrFails("data", recorded)
    /\ UNCHANGED <<bak, recorded, process, results>>

\* Before a cycle other than the first is_vm_entry asks the handler of the
\* entry, which appends an item that belongs to no instruction.
CycleItem ==
    /\ rec = "next" /\ Mishap("cycle") /\ Appends("data", 0)
    /\ UNCHANGED <<bak, rec, recorded, process, results>>

AnalysisEnd ==
    /\ rec = "next"
    /\ rec' = "off"
    /\ UNCHANGED <<file, bak, recorded, process, results, mishaps>>

AnalysisCrash ==
    /\ rec # "off" /\ Mishap("debugger")
    /\ rec' = "off"
    /\ UNCHANGED <<file, bak, recorded, process, results>>

Optimize(o) ==
    /\ pc[o] = "idle" /\ rec = "off"
    /\ pc' = [pc EXCEPT ![o] = "exists"] /\ Lonely("second")
    /\ UNCHANGED <<file, bak, rec, recorded, num, buf, from, at, results>>

-----------------------------------------------------------------------------
(* WinMain                                                                 *)

Goes(o, step, next) == pc[o] = step /\ pc' = [pc EXCEPT ![o] = next]

\* xx_opmz_init_file: "it's optimized already".
Exists(o) ==
    /\ Goes(o, "exists", IF file["x"] = <<>> THEN "refused" ELSE "size")
    /\ UNCHANGED <<file, bak, rec, recorded, num, buf, from, at, results, mishaps>>

\* xx_opmz_file_check, one file after the other.
CheckSize(o) ==
    /\ Goes(o, "size", IF file["x"] = <<>> THEN "refused" ELSE "compare")
    /\ num' = [num EXCEPT ![o] = Len(file["x"])]
    /\ UNCHANGED <<file, bak, rec, recorded, buf, from, at, results, mishaps>>

\* Mutant: data for some more instructions is accepted.
CheckAtLeast(o) ==
    /\ Goes(o, "compare", IF file["data"] # <<>> /\ Len(file["data"]) >= num[o]
                          THEN "read" ELSE "refused")
    /\ UNCHANGED <<file, bak, rec, recorded, num, buf, from, at, results, mishaps>>

CheckCompare(o) ==
    /\ Goes(o, "compare", IF file["data"] # <<>> /\ Len(file["data"]) = num[o]
                          THEN "read" ELSE "refused")
    /\ UNCHANGED <<file, bak, rec, recorded, num, buf, from, at, results, mishaps>>

ReadInst(o) ==
    /\ Goes(o, "read", IF file["x"] = <<>> THEN "refused" ELSE "piece")
    /\ buf' = [buf EXCEPT ![o] = file["x"]]
    /\ UNCHANGED <<file, bak, rec, recorded, num, from, at, results, mishaps>>

\* Mutant: a boundary ends the piece before it.
PieceSeqLate(insts, start) ==
    {i \in start..Len(insts) : /\ i < Len(insts) => i > start /\ insts[i].cut
                               /\ \A j \in (start + 1)..(i - 1) : ~insts[j].cut}

\* The 0-based index of the next instruction that starts a piece, or the end.
PieceSeq(insts, start) ==
    {i \in start..Len(insts) : /\ i < Len(insts) => insts[i + 1].cut
                               /\ \A j \in start..(i - 1) : ~insts[j + 1].cut}

More(o) == from[o] + 1 < Len(buf[o])
Ends(o) == PieceSeq(buf[o], from[o] + 1)
Numbers(insts) == [i \in DOMAIN insts |-> insts[i].n]
Logs(o, end) == log' = [log EXCEPT ![o] = @ \o Numbers(SubSeq(buf[o], from[o] + 1, end))]

\* xx_opmz on one piece reads the items it needs by the places of their
\* instructions in vm_opmz.x, as far as the file goes, and logs the piece.
Read(o, end) == {<<buf[o][i].n, file["data"][i]>> : i \in ((from[o] + 1)..end) \cap DOMAIN file["data"]}

\* Mutant: the next piece starts after the boundary it begins with.
OptimizePieceSkips(o) ==
    /\ More(o) /\ Goes(o, "piece", "piece")
    /\ \E end \in Ends(o) :
         Logs(o, end) /\ pairs' = pairs \cup Read(o, end) /\ from' = [from EXCEPT ![o] = end + 1]
    /\ UNCHANGED <<file, bak, rec, recorded, num, buf, at, mishaps>>

\* Mutant: piece_seq0 stays.
OptimizePieceAgain(o) ==
    /\ More(o) /\ Goes(o, "piece", "piece")
    /\ \E end \in Ends(o) : pairs' = pairs \cup Read(o, end)
    /\ UNCHANGED <<file, bak, rec, recorded, num, buf, from, at, log, mishaps>>

OptimizePiece(o) ==
    /\ More(o) /\ Goes(o, "piece", "piece")
    /\ \E end \in Ends(o) :
         Logs(o, end) /\ pairs' = pairs \cup Read(o, end) /\ from' = [from EXCEPT ![o] = end]
    /\ UNCHANGED <<file, bak, rec, recorded, num, buf, at, mishaps>>

\* The log is written line by line; the first piece that fails, before or
\* while it is logged, is the last one.
LogsSome(o, less) == \E end \in Ends(o) : \E k \in from[o]..end - less : Logs(o, k)

PieceFails(o) ==
    /\ More(o) /\ Goes(o, "piece", "forget") /\ Mishap("piece")
    /\ LogsSome(o, 1)
    /\ UNCHANGED <<file, bak, rec, recorded, num, buf, from, at, pairs>>

LoopEnds(o) ==
    /\ ~More(o) /\ Goes(o, "piece", "forget")
    /\ UNCHANGED <<file, bak, rec, recorded, num, buf, from, at, results, mishaps>>

\* xx_opmz_bak: for each file, delete its backup, copy it, delete it; nothing
\* looks at what these calls return.
BakForget(o) ==
    /\ Goes(o, "forget", "copy")
    /\ bak' = [bak EXCEPT ![at[o]] = <<>>]
    /\ UNCHANGED <<file, rec, recorded, num, buf, from, at, results, mishaps>>

\* Mutant: only the data file is copied.
BakCopyData(o) ==
    /\ Goes(o, "copy", "delete")
    /\ \/ bak' = [bak EXCEPT !["data"] = file["data"]] /\ UNCHANGED mishaps
       \/ Mishap("copy") /\ UNCHANGED bak
    /\ UNCHANGED <<file, rec, recorded, num, buf, from, at, results>>

BakCopy(o) ==
    /\ Goes(o, "copy", "delete")
    /\ \/ bak' = [bak EXCEPT ![at[o]] = file[at[o]]] /\ UNCHANGED mishaps
       \/ Mishap("copy") /\ UNCHANGED bak
    /\ UNCHANGED <<file, rec, recorded, num, buf, from, at, results>>

\* Mutant: the files stay.
BakKeeps(o) ==
    /\ Goes(o, "delete", IF at[o] = "x" THEN "forget" ELSE "ended")
    /\ at' = [at EXCEPT ![o] = "data"]
    /\ UNCHANGED <<file, bak, rec, recorded, num, buf, from, results, mishaps>>

BakDelete(o) ==
    /\ Goes(o, "delete", IF at[o] = "x" THEN "forget" ELSE "ended")
    /\ at' = [at EXCEPT ![o] = "data"]
    /\ \/ file' = [file EXCEPT ![at[o]] = <<>>] /\ UNCHANGED mishaps
       \/ Mishap("delete") /\ UNCHANGED file
    /\ UNCHANGED <<bak, rec, recorded, num, buf, from, results>>

WinMain(o) ==
    \/ Exists(o) \/ CheckSize(o) \/ CheckCompare(o) \/ ReadInst(o)
    \/ OptimizePiece(o) \/ PieceFails(o) \/ LoopEnds(o)
    \/ BakForget(o) \/ BakCopy(o) \/ BakDelete(o)

OptimizerCrash(o) ==
    /\ o \in Alive /\ Mishap("crash")
    /\ pc' = [pc EXCEPT ![o] = "crashed"]
    /\ IF pc[o] = "piece" /\ More(o) THEN LogsSome(o, 0) ELSE UNCHANGED log
    /\ UNCHANGED <<file, bak, rec, recorded, num, buf, from, at, pairs>>

Next ==
    \/ AnalysisStart \/ AnalysisItem \/ AnalysisInst \/ InvalidInst \/ InvalidItem
    \/ CycleItem \/ AnalysisEnd \/ AnalysisCrash
    \/ \E o \in Optimizers : Optimize(o) \/ WinMain(o) \/ OptimizerCrash(o)

\* A process that was started runs on; nobody has to start one.
Spec == Init /\ [][Next]_vars /\ \A o \in Optimizers : WF_vars(WinMain(o))

-----------------------------------------------------------------------------
TypeOK ==
    /\ rec \in {"off", "next", "inst", "item"} /\ recorded \in 0..MaxRecords
    /\ pc \in [Optimizers -> Steps \cup BakSteps \cup {"idle", "refused", "ended", "crashed"}]
    /\ \A o \in Optimizers : from[o] \in 0..Len(buf[o])
    /\ DOMAIN file = Files /\ DOMAIN bak = Files /\ Len(mishaps) <= MaxMishaps

Happened(kind) == kind \in Range(mishaps)

\* No instruction is optimized by two processes unless one of them crashed,
\* could not delete the files or was started beside the other: "repeating the
\* optimization is not allowed" (the comment at xx_opmz_bak).
NotOptimizedTwice ==
    \/ Happened("crash") \/ Happened("delete") \/ Happened("second")
    \/ \A o, p \in Optimizers : o # p => Range(log[o]) \cap Range(log[p]) = {}

\* A process optimizes its recording in order, each instruction once, and when
\* it goes on to the backup without a failure it has left out at most one
\* instruction: a boundary that ends the recording, or all of a recording of
\* one (the loop of WinMain).
WholeRecording ==
    \A o \in Optimizers :
        /\ IsPrefix(log[o], Numbers(buf[o]))
        /\ pc[o] \in BakSteps /\ ~Happened("piece") =>
              \/ Len(log[o]) = Len(buf[o])
              \/ Len(log[o]) = Len(buf[o]) - 1 /\ (Last(buf[o]).cut \/ Len(buf[o]) = 1)

\* When only one thing goes wrong, be it a crash between two appends, an
\* append, a copy or a deletion that fails, one further cycle or one process
\* beside another, an item is never read for an instruction it does not belong
\* to: the lengths that xx_opmz_file_check compares tell.  Two can cancel out,
\* as the item of a further cycle and a crash in xx_opmz_write_invalid do.
OwnItems == Len(mishaps) <= 1 => \A p \in pairs : p[1] = p[2]

\* As long as processes run one at a time, an instruction that was appended is
\* in vm_opmz.x, in its backup or in the log, whether pieces fail or optimizers
\* crash, until the next recording is read, whose backup replaces the one
\* before (xx_opmz_bak deletes after it has copied; nothing looks whether it
\* has).
Stored(f) == {f[i].n : i \in DOMAIN f}
Logged(n) == \E o \in Optimizers : n \in Range(log[o])
Appended == 1..(IF rec = "inst" THEN recorded - 1 ELSE recorded)
Replaced(n) == \E o \in Optimizers : buf[o] # <<>> /\ n < buf[o][1].n
Recoverable ==
    \/ Happened("beside") \/ Happened("second")
    \/ Happened("copy") \/ Happened("debugger") \/ Happened("append")
    \/ \A n \in Appended : n \in Stored(file["x"]) \cup Stored(bak["x"]) \/ Logged(n) \/ Replaced(n)

\* A process that was started comes to an end: refused, done or crashed.
OptimizerEnds ==
    \A o \in Optimizers : pc[o] = "exists" ~> pc[o] \in {"refused", "ended", "crashed"}
=============================================================================

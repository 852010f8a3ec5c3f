--------------------------- MODULE StaticAnalysis ---------------------------
(***************************************************************************)
(* Static analysis in the debugger plugin (xx_vm32): the menu starts a      *)
(* command thread, which runs an analysis thread per cycle and waits for it *)
(* on a semaphore; the menu can ask for a pause at any time.  The analysis  *)
(* appends every VM instruction it executes to two files, the instructions  *)
(* (opmz_file) and their data items (opmz_dfile), that the optimizer reads  *)
(* side by side.                                                           *)
(*                                                                         *)
(* The threads share saly_semaphore, pause_flag, curt_hthread and           *)
(* start_context without a lock; each action is one access to one of them.  *)
(***************************************************************************)
EXTENDS Integers, Sequences, FiniteSets

CONSTANTS
    Programs,    \* the traced programs: sequences of pieces of VM code
    Rules,       \* XX_ANA_RULE: "normal", "limited" or "cycle"
    Count,       \* XX_ANA_COUNT, the cycles of the rule "limited"
    MaxThreads,  \* bound: semaphores, hence analysis threads, ever created
    MaxStarts,   \* bound: analyses started from the menu
    MaxMishaps   \* bound: pauses asked for, waits given up and appends that fail

\* A piece is the sequence of what its VM instructions are to the analysis:
\* recognised or not, run in an environment that is not recognised, the exit
\* of the piece, or the point where the execution cannot go on.
Kinds == {"vm", "unknown", "env", "exit", "stop"}

ASSUME AnalysisAssumption ==
    /\ \A p \in Programs : p \in Seq(Seq(Kinds)) /\ p # <<>>
    /\ Rules \subseteq {"normal", "limited", "cycle"}
    /\ {Count, MaxThreads, MaxStarts, MaxMishaps} \subseteq Nat

VARIABLES
    prog, rule,  \* the traced program and the configured rule
    cmd,         \* dbg_cmd_ana_static
    cycle,       \* its loop index n
    mine,        \* its hSemaphore
    stop,        \* xx_saly_stop, run by the menu or by the command
    an,          \* xx_start_saly, one record per thread
    sem,         \* counts of the semaphores, by the thread they were made for
    saly,        \* saly_semaphore, 0 for the null handle
    pause,       \* pause_flag
    handle,      \* curt_hthread is not null
    start,       \* start_context: a piece, 0 when its ip is 0
    mem,         \* the memory files and their list are there
    insts, items,     \* the two files
    starts, stops, faults   \* counters of the bounds

files == <<insts, items>>
shared == <<sem, saly, pause, handle, start>>
command == <<cmd, cycle, mine, mem>>
counts == <<starts, stops, faults>>
vars == <<prog, rule, command, stop, an, shared, files, counts>>

Threads == 1..MaxThreads
NoThread == [pc |-> "none", piece |-> 0, step |-> 1, unknown |-> 0]
\* The threads that execute the traced program or are about to.
Analysing == {s \in Threads : an[s].pc \in {"begin", "clear", "run"}}
Ended == \A s \in Threads : an[s].pc \in {"none", "done"}

Release(h) == IF h = 0 THEN sem ELSE [sem EXCEPT ![h] = 1]
EntryAt(p) == p \in DOMAIN prog
KindAt(s) == IF EntryAt(an[s].piece) /\ an[s].step \in DOMAIN prog[an[s].piece]
             THEN prog[an[s].piece][an[s].step] ELSE "stop"

Init ==
    /\ prog \in Programs /\ rule \in Rules
    /\ cmd = "none" /\ cycle = 0 /\ mine = 0 /\ mem = FALSE
    /\ stop = [t \in {"menu", "command"} |-> "no"]
    /\ an = [s \in Threads |-> NoThread]
    /\ sem = [s \in Threads |-> 0] /\ saly = 0
    /\ pause = 0 /\ handle = FALSE /\ start = 0
    /\ insts = <<>> /\ items = <<>>
    /\ starts = 0 /\ stops = 0 /\ faults = 0

-----------------------------------------------------------------------------
(* The menu: xx_run_status lets an analysis start when there is no command  *)
(* thread; a pause is asked for at any time.                               *)

MenuStatic ==
    /\ stop["menu"] = "no" /\ cmd \in {"none", "ended"} /\ starts < MaxStarts
    /\ start' = 1 /\ cmd' = "init" /\ starts' = starts + 1
    /\ UNCHANGED <<prog, rule, cycle, mine, mem, stop, an, sem, saly, pause, handle, files,
                   stops, faults>>

MenuPause ==
    /\ stop["menu"] = "no" /\ stops + faults < MaxMishaps
    /\ stop' = [stop EXCEPT !["menu"] = "exit"] /\ stops' = stops + 1
    /\ UNCHANGED <<prog, rule, command, an, shared, files, starts, faults>>

-----------------------------------------------------------------------------
(* xx_saly_stop.  The handle it looks at is the pseudo handle of the        *)
(* current thread, hence of its caller, which is active.                   *)

StopStep(t, from, to) == stop[t] = from /\ stop' = [stop EXCEPT ![t] = to]

StopExit(t) ==
    /\ StopStep(t, "exit", IF handle THEN "flag" ELSE "no")
    /\ handle' = FALSE
    /\ UNCHANGED <<prog, rule, command, an, sem, saly, pause, start, files, counts>>

StopFlag(t) ==
    /\ StopStep(t, "flag", "sleep")
    /\ pause' = 1
    /\ UNCHANGED <<prog, rule, command, an, sem, saly, handle, start, files, counts>>

\* It sleeps for a second, whatever the other threads do meanwhile.
StopCheck(t) ==
    /\ StopStep(t, "sleep", IF saly = 0 THEN "no" ELSE "signal")
    /\ UNCHANGED <<prog, rule, command, an, shared, files, counts>>

StopSignal(t) ==
    /\ StopStep(t, "signal", "zero")
    /\ sem' = Release(saly)
    /\ UNCHANGED <<prog, rule, command, an, saly, pause, handle, start, files, counts>>

StopZero(t) ==
    /\ StopStep(t, "zero", "no")
    /\ saly' = 0
    /\ UNCHANGED <<prog, rule, command, an, sem, pause, handle, start, files, counts>>

Stop == \E t \in {"menu", "command"} :
          StopExit(t) \/ StopFlag(t) \/ StopCheck(t) \/ StopSignal(t) \/ StopZero(t)

-----------------------------------------------------------------------------
(* dbg_cmd_ana_static                                                      *)

\* init_mem_file, which frees what an analysis before left.
CommandInit ==
    /\ cmd = "init"
    /\ \E ok \in BOOLEAN : mem' = ok /\ cmd' = IF ok THEN "cycle" ELSE "ended"
    /\ cycle' = 0
    /\ UNCHANGED <<prog, rule, mine, stop, an, shared, files, counts>>

\* A cycle makes its semaphore and hands it to the analysis.
CommandCycle ==
    /\ cmd = "cycle" /\ (rule = "limited" => cycle < Count)
    /\ mine < MaxThreads /\ mine' = mine + 1 /\ saly' = mine'
    /\ cmd' = "entry"
    /\ UNCHANGED <<prog, rule, cycle, mem, stop, an, sem, pause, handle, start, files, counts>>

CommandLimit ==
    /\ cmd = "cycle" /\ rule = "limited" /\ cycle >= Count
    /\ cmd' = "clean"
    /\ UNCHANGED <<prog, rule, cycle, mine, mem, stop, an, shared, files, counts>>

\* is_vm_entry asks the handler of the entry instruction, which appends a
\* data item when it recognises one.
NotEntry == cycle > 0 /\ ~EntryAt(start)
CommandBreak ==
    /\ cmd = "entry" /\ (start = 0 \/ NotEntry)
    /\ cmd' = "clean"
    /\ UNCHANGED <<prog, rule, cycle, mine, mem, stop, an, shared, files, counts>>

\* Mutant: the analysis is not waited for.
CommandCreateOnly ==
    /\ cmd = "entry" /\ start # 0 /\ ~NotEntry
    /\ an' = [an EXCEPT ![mine].pc = "begin"]
    /\ items' = IF cycle > 0 THEN Append(items, <<0, 0>>) ELSE items
    /\ cmd' = "clean"
    /\ UNCHANGED <<prog, rule, cycle, mine, mem, stop, shared, insts, counts>>

CommandCreate ==
    /\ cmd = "entry" /\ start # 0 /\ ~NotEntry
    /\ an' = [an EXCEPT ![mine].pc = "begin"]
    /\ items' = IF cycle > 0 THEN Append(items, <<0, 0>>) ELSE items
    /\ cmd' = "wait"
    /\ UNCHANGED <<prog, rule, cycle, mine, mem, stop, shared, insts, counts>>

CommandWake ==
    /\ cmd = "wait" /\ sem[mine] = 1
    /\ sem' = [sem EXCEPT ![mine] = 0]
    /\ IF rule = "normal" THEN cmd' = "clean" /\ UNCHANGED cycle
                          ELSE cmd' = "cycle" /\ cycle' = cycle + 1
    /\ UNCHANGED <<prog, rule, mine, mem, stop, an, saly, pause, handle, start, files, counts>>

\* The wait is given up after 0x10000000 ms, three days.
CommandTimeout ==
    /\ cmd = "wait" /\ sem[mine] = 0 /\ stops + faults < MaxMishaps
    /\ cmd' = "stop" /\ stop' = [stop EXCEPT !["command"] = "exit"] /\ stops' = stops + 1
    /\ UNCHANGED <<prog, rule, cycle, mine, mem, an, shared, files, starts, faults>>

CommandStopped ==
    /\ cmd = "stop" /\ stop["command"] = "no"
    /\ cmd' = "clean"
    /\ UNCHANGED <<prog, rule, cycle, mine, mem, stop, an, shared, files, counts>>

\* clean_ret: free_mem_file.
CommandClean ==
    /\ cmd = "clean"
    /\ sem' = Release(mine) /\ mem' = FALSE /\ cmd' = "ended"
    /\ UNCHANGED <<prog, rule, cycle, mine, stop, an, saly, pause, handle, start, files, counts>>

Command == CommandInit \/ CommandCycle \/ CommandLimit \/ CommandBreak \/ CommandCreate
           \/ CommandWake \/ CommandStopped \/ CommandClean

-----------------------------------------------------------------------------
(* xx_start_saly                                                           *)

Goes(s, from, to) == an[s].pc = from /\ an' = [an EXCEPT ![s].pc = to]

\* The debugger may have no thread to analyse any more.
AnalysisBegin(s) ==
    /\ \E to \in {"clear", "end"} : Goes(s, "begin", to)
    /\ handle' = TRUE
    /\ UNCHANGED <<prog, rule, command, stop, sem, saly, pause, start, files, counts>>

AnalysisClear(s) ==
    /\ an[s].pc = "clear"
    /\ an' = [an EXCEPT ![s] = [pc |-> "run", piece |-> start, step |-> 1, unknown |-> 0]]
    /\ pause' = 0
    /\ UNCHANGED <<prog, rule, command, stop, sem, saly, handle, start, files, counts>>

\* get_inst_context fails, because of a pause or by itself; the analysis has
\* no next context.
AnalysisFails(s) ==
    /\ an[s].piece = 0 \/ pause = 1 \/ KindAt(s) = "stop"
    /\ Goes(s, "run", "end")
    /\ start' = 0
    /\ pause' = IF an[s].piece # 0 THEN 0 ELSE pause
    /\ UNCHANGED <<prog, rule, command, stop, sem, saly, handle, files, counts>>

\* What vm_handle may append of one VM instruction.  The handler that
\* recognises it appends its item, then vm_handle appends the instruction;
\* when the item cannot be appended the instruction is taken for invalid, and
\* both are appended unchecked.
Appends(inst, item, known, failed) ==
    [inst |-> inst, item |-> item, known |-> known, failed |-> failed]
Invalid(failed) ==
    {Appends(TRUE, TRUE, FALSE, failed), Appends(TRUE, FALSE, FALSE, failed + 1),
     Appends(FALSE, TRUE, FALSE, failed + 1), Appends(FALSE, FALSE, FALSE, failed + 2)}

\* Mutant: an instruction whose item cannot be appended is left out.
OutcomesSkipped(known) ==
    IF known THEN {Appends(TRUE, TRUE, TRUE, 0), Appends(FALSE, TRUE, FALSE, 1),
                   Appends(FALSE, FALSE, FALSE, 1)}
             ELSE Invalid(0)

Outcomes(known) ==
    IF known THEN {Appends(TRUE, TRUE, TRUE, 0), Appends(FALSE, TRUE, FALSE, 1)} \cup Invalid(1)
             ELSE Invalid(0)

\* Mutant: one unknown instruction more is let through.
TooManyLate(unknown) == unknown > 3
TooMany(unknown) == unknown >= 3

\* After an instruction: three unknown ones in a row, the exit of the piece
\* and an unknown environment end the analysis; only the exit leaves a next
\* context.
AnalysisHandles(s) ==
    /\ an[s].pc = "run" /\ an[s].piece # 0 /\ pause = 0 /\ KindAt(s) # "stop"
    /\ \E o \in Outcomes(KindAt(s) # "unknown") :
         LET rec == <<s, an[s].step>>
             unknown == IF o.known THEN 0 ELSE an[s].unknown + 1
             exits == KindAt(s) = "exit" /\ o.known
         IN  /\ stops + faults + o.failed <= MaxMishaps /\ faults' = faults + o.failed
             /\ insts' = IF o.inst THEN Append(insts, rec) ELSE insts
             /\ items' = IF o.item THEN Append(items, rec) ELSE items
             /\ start' = IF exits THEN an[s].piece + 1 ELSE start
             /\ an' = [an EXCEPT
                        ![s].pc = IF TooMany(unknown) \/ exits \/ KindAt(s) = "env" THEN "end" ELSE "run",
                        ![s].unknown = unknown, ![s].step = @ + 1]
    /\ UNCHANGED <<prog, rule, command, stop, sem, saly, pause, handle, starts, stops>>

AnalysisEnd(s) ==
    /\ Goes(s, "end", "check")
    /\ pause' = 0
    /\ UNCHANGED <<prog, rule, command, stop, sem, saly, handle, start, files, counts>>

AnalysisCheck(s) ==
    /\ Goes(s, "check", IF saly = 0 THEN "done" ELSE "signal")
    /\ UNCHANGED <<prog, rule, command, stop, shared, files, counts>>

\* Mutant: an analysis that ends does not tell.
AnalysisForgets(s) ==
    /\ Goes(s, "signal", "zero")
    /\ UNCHANGED <<prog, rule, command, stop, shared, files, counts>>

AnalysisSignal(s) ==
    /\ Goes(s, "signal", "zero")
    /\ sem' = Release(saly)
    /\ UNCHANGED <<prog, rule, command, stop, saly, pause, handle, start, files, counts>>

AnalysisZero(s) ==
    /\ Goes(s, "zero", "done")
    /\ saly' = 0
    /\ UNCHANGED <<prog, rule, command, stop, sem, pause, handle, start, files, counts>>

Analysis == \E s \in Threads :
    \/ AnalysisBegin(s) \/ AnalysisClear(s) \/ AnalysisFails(s) \/ AnalysisHandles(s)
    \/ AnalysisEnd(s) \/ AnalysisCheck(s) \/ AnalysisSignal(s) \/ AnalysisZero(s)

Next == MenuStatic \/ MenuPause \/ Stop \/ Command \/ CommandTimeout \/ Analysis

\* The scheduler runs every thread that can go on.  Nobody has to use the
\* menu, and the timeout is not something to wait for.
Spec == Init /\ [][Next]_vars /\ WF_vars(Stop) /\ WF_vars(Command) /\ WF_vars(Analysis)

-----------------------------------------------------------------------------
\* Types of the control state and of the shared variables.
TypeOK ==
    /\ cmd \in {"none", "init", "cycle", "entry", "wait", "stop", "clean", "ended"}
    /\ cycle \in 0..MaxThreads /\ mine \in 0..MaxThreads /\ saly \in 0..MaxThreads
    /\ stop \in [{"menu", "command"} -> {"no", "exit", "flag", "sleep", "signal", "zero"}]
    /\ \A s \in Threads : /\ an[s].pc \in {"none", "begin", "clear", "run", "end", "check",
                                          "signal", "zero", "done"}
                          /\ an[s].unknown \in 0..3
    /\ sem \in [Threads -> 0..1] /\ pause \in 0..1 /\ start \in 0..Len(prog)+1
    /\ cmd = "wait" => an[mine].pc # "none"

\* One analysis at a time executes the traced program, which is what lets
\* them share g_inst, g_context and the files: the next one is created when
\* the one before has told its end (the semaphore of dbg_cmd_ana_static).
OneAnalysis == stops = 0 => Cardinality(Analysing) <= 1

\* The memory files are there for as long as an analysis executes on them
\* (free_mem_file at clean_ret comes after the last wait).
MemoryHeld == stops = 0 /\ Analysing # {} => mem

\* One append that failed does not go unnoticed: the files differ in length,
\* which xx_opmz refuses, or every instruction that was executed is there with
\* its own data item (vm_handle appends the item first, and both again for an
\* instruction that it took for invalid).
Recorded(s) == {j \in 1..Len(insts) : insts[j][1] = s}
DamageShows ==
    rule = "normal" /\ stops = 0 /\ Len(insts) = Len(items) =>
        /\ insts = items
        /\ \A s \in Threads : Cardinality(Recorded(s)) = an[s].step - 1

\* The command of a single cycle ends, paused or not: the end of the analysis
\* or the pause signals the semaphore it waits for.
CommandEnds == cmd = "init" /\ rule = "normal" /\ starts = 1 ~> cmd = "ended"

-----------------------------------------------------------------------------
(* What comments of the plugin say.                                        *)

\* The end of an analysis is signalled to the command that waits for it
\* (xx_start_saly, "release the signal").
SignalReachesCommand == ~(cmd = "wait" /\ Ended /\ sem[mine] = 0 /\ stops = 0)
=============================================================================

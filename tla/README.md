# xxvm in TLA+

xxvm recovers code that a protector has turned into programs of a virtual machine. A plugin of the
debugger (`xx_vm32`, `xx_vm_x32`, `xx_vm_x64`) emulates the handlers of that machine, recognises each
handler as a *VM instruction* (`push dreg`, `add d[sp+4],d[sp]`, ...) and appends what it recognised to two
files; a separate program, `xx_opmz.exe`, reads them and restores lines of x86 assembly. This directory
holds the models of that pipeline, the TLC runs that check them and the theorems proved about them. The
paths below are relative to `src/`; many sources are in GBK with CRLF.

## Inventory

| part | state | operations | what makes it correct |
|---|---|---|---|
| `xx_opmz/xx_opmz/opmz_main.c`, the passes of a piece | `pvm_inst[]` (idef, var, `opmz_flag`), `ptree_inst[]`, `popmz_inst[]`, constant register | `xx_opmz_creg`, `_tree_inst`, `_lv1`, `_lv` (three levels), `_start`, `_log` | nothing disappears without a line, hidden stays hidden, boundaries, termination, the listing computes what the piece computed |
| `st_tree.c`, `st_node.c`, `opmz_tree.c`, `opmz_tree_cb.c`, `opmz_rule.c` | instruction trees | generate, merge, split, widen, rules, expression | a value is matched with the instruction that made it |
| `xx_def_api.c`, `xx_def_inst_lv2..4.h`, `xx_exp.c`, `xx_exp_cfg/.../xx_exp_tbl.h` | constant tables | look an instruction or an expression up | the rows agree with what the handlers do |
| `xx_opmz/xx_opmz/main.c`, WinMain | `vm_opmz.x`, `vm_opmz_data.x`, backups, `xx_opmz.txt` | check, read, cut into pieces, back up, delete | nothing twice, nothing lost, items belong to their instructions |
| `xx_vm32/xx_vm32/dbg_command.c`, `xx_execute.c`, `xx_vm.c`: static analysis | `saly_semaphore`, `pause_flag`, `curt_hthread`, `start_context`, `g_inst`, memory files | command thread, analysis threads, menu (start, pause) | one analysis at a time, on memory that is there, signals that arrive, files that pair |
| `xx_execute.c`, `func_op*.c` of `xx_vm32` (`xx_execute64.c` in `xx_vm_x64`): emulation | `g_inst[]`, `g_context[]` | fetch operands (`conv_item`), 100 operations, store results (`calc_item`), windows (`get_inst_context`) | the context is the one the processor would have, the window of `MAX_INST` |
| `vm_sreg.c`, `vm_handle.c`, `vm_handle_*.c`: recognition | the registers of the traced machine, `vm_opmz.x`, `vm_opmz_data.x` | find the registers, try 47 rows (67 in `xx_vm_x64`), record an instruction and its item | the right row, one row, operands and result as they were, unknown rather than wrong |
| `xx_execute.c` (`init_mem_file`, `free_mem_file`, `xx_read_fmem`, `xx_write_fmem`), `xx_link_list.c`: memory files | one file per copied region, their list, name of the directory, start of a traversal | copy the regions, look an address up, copy on demand, clear, delete | an access reads what was there when the analysis began and what was written since; the list stays a list |
| `xxdisasm64/xxdisasm64/xxdisasm.c`, `mod_*.c`, `seek_table.c`, `item_type_a.c`: the decoder (`xxdisasm32` is a copy) | `struct XX_INST`: bytes read, `next_mod`, sizes, rows found | one module per part of an instruction, a look-up in the tables of `data_*`, one function per kind of operand | operands, sizes and length are those of the manual: every other part reads the traced code through it |
| `xx_vm_iat*`, `xx_comm*`, `vmp38_restore.cpp`, `vmp39_restore.c` | sorted lists, file helpers | import tables, restoration of one protector version | mostly tables |

How they meet: the menu starts `dbg_cmd_ana_static` in a thread; that starts one analysis thread per cycle and
waits for it on a semaphore; the analysis appends to the files through `vm_handle` and the handlers; the menu
starts `xx_opmz.exe`, a process of its own, which works on the same files and knows of the plugin only
through them. What is hard: the passes rewrite the arrays they iterate over and undo it on failure;
the plugin's threads share unlocked globals; the two files must stay in step over failed appends, crashes and
restarts; several processes work on the same files. `PROJECT.json` lists these hazards at their lines.

## Modules

| module | models |
|---|---|
| `OpmzDef` | values of `opmz_flag` and the levels |
| `OpmzPass` | control of one `xx_opmz()` call, one action per step of each pass: every guard, break, early return, flag update and array write of `opmz_main.c`. Trees, merging and tables are CONSTANT operators |
| `OpmzListing` | abstract: which instructions are shown, who accounts for those that left, where lines are |
| `OpmzRefinement` | `OpmzPass` implements `OpmzListing` (shown = flag below LV2, place = owner, lines = `popmz_inst`) |
| `OpmzTrees` | the operators that `OpmzPass` takes: generation, merge with split and widen, low check, four rules, expression, numbering of variables, look-up in `exp_tbl`, and the rows of the tables |
| `OpmzVm` | reference semantics: what recorded instructions and x86 lines do, on terms, and what the recording keeps |
| `OpmzReplay` | the listing executed in printing order against the recorded piece |
| `StaticAnalysis` | the command, analysis and menu threads of the static analysis, each action one access to a shared variable; the two files |
| `LinkList` | the ring of `xx_link_list.c` on a heap of numbered nodes; one iteration of its loops is an operator |
| `MemoryFiles` | the memory files of the plugins: loading, lookup, copies on demand, deletion, with the failures of the system |
| `Snapshot` | abstract: one copy of the memory of the process, that reads and writes go to |
| `OpmzSession` | a recording across processes: appending, crashes, WinMain, pieces, backup |
| `Instruction` | an instruction as the disassembler returns it: operation and operands |
| `Processor` | external: what the processor does with an instruction, on numbers of `ByteBits` bits a byte |
| `Cpu` | the emulation beside it: `conv_item`, every operation, `calc_item` |
| `Emulator` | the same emulation on symbolic values, for the operations that handlers use, with words of 4 and of 8 bytes |
| `VmCode` | external: the handlers of the traced machine, for every assignment of registers, and what they mean |
| `VmPatterns` | what the patterns of handlers are made of, in all builds |
| `VmHandles`, `VmHandlesX32`, `VmHandles64` | `vm_sreg.c` and every row of the tables of `xx_vm32`, `xx_vm_x32` and `xx_vm_x64` |
| `Recording` | the loop of `xx_start_execute`: a window is executed, its registers are found, the rows are tried, an instruction and its item are recorded |
| `Disasm` | the decoder of `xxdisasm64`, one action per round of `xx_disasm_mod_dispatch`; the tables are CONSTANTS |
| `DisasmManual` | external: encodings of the manual's instructions and what they mean, and where the decoder is known to differ |
| `OpmzPassProofs`, `StaticAnalysisProofs`, `OpmzSessionProofs`, `MemoryFilesProofs`, `RecordingProofs` | theorems |
| `CpuForms` | the contexts a program can be in, and the forms of instructions (`Alike`) whose emulation is proved to be the processor's |
| `CpuLemmas`, `CpuOperations`, `CpuProofs` | theorems about `Cpu`: operators and operands; calculations, operations without operands and on one element of a string; conditions, moves, jumps and programs |
| `MCOpmz`, `MCStaticAnalysis`, `MCOpmzSession`, `MCMemoryFiles`, `MCCpu`, `MCRecording`, `MCRecording64` (with `MCPrograms`), `MCDisasm` | instances for TLC |

**`OpmzPass`.** C index `n` is `n + 1`. `pc` is the running pass, `root` is `num - 1` of `xx_opmz_start`, `low`
its loop index, `work` its tree. `owner` and `ignored` are history variables: the code keeps no record of
who consumed an instruction, the properties need one. The loop of `lv` is folded to "the first instruction from
`n` on that starts an analysis" (`Roots`), the loop of `xx_opmz_start` is one action per iteration (`SkipHidden`,
`MergeStep`) and one per way it is left (`Exhausted`, `Incomplete`, `Crash`, `Unmatched`, `Ignore`, `Middle`, `Asm`);
`Finish` is the code after the loop and part of each of the last. `ptree_inst[-1]` is read at the first instruction
of a piece: `Crash` and the offsets in `Stray` are the outcomes. The splitter starts to mark after the first
instruction of a recording, so `MarksFrom` says whether a piece is the first one. Failing `malloc` and failing writes
to the log are not in this module; `OpmzSession` has the piece that fails.

**`OpmzTrees`.** A register is `<<"r", i>>`, a constant or a recorded result a term. A text of the code is a sequence
of symbols, since what matters of an expression is which variables are equal: `xx_exp_gen` replaces every occurrence of a
text, constants before registers. The rows of `exp_tbl` are those that the modelled instructions reach. 64-bit rows
repeat the 32-bit ones.

**`StaticAnalysis`.** `cmd`, `stop[t]` and `an[s].pc` are program counters. `stop` is `xx_saly_stop`, run by the
menu or by a command whose wait was given up. `GetCurrentThread` returns a pseudo handle, so the "exit code of
the analysis thread" is the caller's, always active; `handle` is therefore only null or not. A piece of the traced
program is the sequence of what happens to the analysis at each VM instruction; `mem` says whether memory files are
loaded.

**`LinkList`, `MemoryFiles`.** `pc` says what the one thread does that uses the files: nothing (`idle`), `xx_list_clear` (`clear`), the rest of
`free_mem_file` (`delete`), the loop of `init_mem_file` (`load`), an analysis between two accesses (`ready`), or an access that goes through the list
(`search`), copies memory (`gen`) or is at the file (`access`). Loops are one action per iteration: `Clear` frees a node, `Search` follows a link,
`LoadFile`, `LoadSkip`, `LoadNotRead` and `LoadNotWritten` are the results of `xx_gen_fmem` in the loop of `init_mem_file`. `dir` maps the range that a file is named after to its
bytes; a file may be shorter than its range, since `xx_cover_file` accepts a short write. A file that is in place is read and written whole, and the memory of the list itself is never refused
(`xx_list_insert` does not check `malloc`). The hooks that stand in for missing memory are null in this plugin. `malloc` returns
the lowest number that is free, so the data nodes are numbered in the order of the list; nothing depends on the numbers of the code's addresses.
A process (`Images`) is its bytes and, per address, what `VirtualQueryEx` says of the page: whether it is committed, where its region was allocated, and the rest
(type, protection) as `kind`. `VirtualQueryEx` describes pages from the one of the address on, up to the first that differs, which is where the copies on
demand get their odd starts. `Resume` lets the process run, and change as a whole, between analyses only. That two threads use the files at a time, after a pause, is the subject of `StaticAnalysis`
(`MemoryHeld`).

`Snapshot` is what the emulation is promised. `MemoryFiles` implements it with `mem`: at an address, the byte of the first file of the list that holds it, and the byte
of the process where there is none. The promise is about the page of the address of an access. A region that is not copied as a whole is copied from the page of the first access to its end, and again, with the bytes of the process, when a lower page is
accessed: an access that begins on the lower page and goes on to the next reads there what the process held, not what the emulation has written. Without that restriction TLC finds a read of two bytes that
returns one of each.

**`OpmzSession`.** A file is the sequence of its records, an absent file is empty (`xx_get_file_size` returns 0 for
both). `pairs` and `log` remember what was optimized with which item and by whom. `rec` is the analysis: off, at its next instruction, or between
the two appends of one. They come in two orders: the handler that recognises an instruction appends its item before `vm_handle` appends the
instruction (`AnalysisItem`, `AnalysisInst`), and `xx_opmz_write_invalid` appends the instruction before a blank item (`InvalidInst`, `InvalidItem`;
also for an instruction whose item could not be appended). A cycle other than the first appends an item of the entry that belongs to no
instruction (`CycleItem`). The menu refuses an analysis or an optimizer while an analysis runs and knows of no optimizer, so both may be started
beside one (`Lonely`). `mishaps` lists in order what went wrong, so that a property can say what it does not hold after.

**`Cpu`.** `m` is the emulated context, `p` the one of the processor, `ran` the instructions so far. An operation with
inline assembly runs the instruction of the processor on the fetched operands (`Alu`); what the model says of its own is
which operands are fetched, in which size, which flags go in, and where the result is stored. `Stopped` is a return of 0.
A byte has `ByteBits` = 4 bits and `MemSize` is 48: a word of 4 bytes has 16 bits, which keeps each boundary (sign, carry,
half carry, part of a register) and lets TLC compute every operation.

**`Emulator`, `VmCode`.** A word is a sequence of bytes and a byte is "byte i of the result of step n", so two values are equal
only if they are the same result; offsets of the stack and constants are computed. `VmCode` generates handlers from the
listings in the comments at the head of `vm_handle_*.c`: a shape (push, pop, two operands, shift, ...) by operand size,
with three scratch registers, two ways to write a zero displacement, two to move a pointer and two to jump on.

**`VmHandles`, `VmHandles64`.** A row is a predicate over the window `w`, the contexts `c` and the registers found `e`. The code makes
one pass over the window per instruction it looks for and keeps the last hit (a flag that is set) or the first (`break`): `Hindmost`
and `Foremost`. Passes know nothing of each other's position, so the model has no order either. Reads of local arrays that
were not written (`vm_sreg.c`) are a choice between empty and what the last call left. `xx_vm_x32` is compiled from copies of the
sources of `xx_vm32`; `VmHandlesX32` takes the rows from there and has its own where the copy was changed (`vm_handle_0200.c`,
`vm_handle_0302.c`, `vm_handle_1300.c`, the conditions of the loop, and what stays in the window).

**`Recording`.** `Choose` takes the next handler of the traced program; `Execute` is one round of `get_inst_context` with the
wrap-around at `MAX_INST`, and `Skip` one whose instruction, a jump to an address, does not stay in the window (`xx_vm_x32` and
`xx_vm_x64`); `InitVmsreg2` and `VmHandle` follow, and `Loop` is the rest of `xx_start_execute`. The tables, their handlers, the search
for the registers, the condition of the loop and what stays in the window are constants by `build`, the plugin that traces the program.

**`Disasm`, `DisasmManual`.** `Prefix`, `Rex`, `OneOpcode`, `TwoOpcode`, `ThreeOpcode`, `ExtOneOpcode`, `ExtTwoOpcode`, `ExtThreeOpcode`, `Modrm`, `Sibs` and `Items` are the rounds of the dispatch; each consumes its bytes and
sets `next_mod` as the function of its name does. A constant is the sequence of its bytes, lowest first; addresses of relative operands are computed byte by
byte. `MCDisasm` gives the tables, with the rows of the data files that the encodings reach. `DisasmManual` assembles an instruction from what the manual
says of it (opcode, digit, kinds and sizes of operands, prefixes, ModRM, SIB) and says what operands it has; `Decoded` compares them, `Measured` compares
lengths. Where the code or its data say otherwise, an operator names the case and both properties leave out that case only: `FixedSizeWidened`, `JumpWidened` (REX.W on operands of
fixed size), `WordWidened`, `ImmediateHalved`, `WordPushWidened` (66), `CallNarrowed`, `RowSlips` (columns of rows), `SegmentLost`, `SegmentGiven` (fs), `ScaleLost`
(r12 as index), `OldNumbers` (segment, control and debug registers), `SseWithRex`, `AddressSizeKept`, `JumpNarrowed` (67), `LastChooses` (66 and 67 before an opcode that 66
selects), `HalfAdded` (a displacement of exactly half its range), `PrefixedThree` (prefixes before a three byte opcode).

`dbg_command.c` and the dialogs of `xx_vm_x32` and of `xx_vm_x64` are copies of those of `xx_vm32`; they are not modelled a second time.

## Runs

| run | question | bounds |
|---|---|---|
| `pieces` | do the passes advance, does the listing compute what the piece computed (`Faithful`), do lines cover what they consumed, does what left stay away | all pieces of 8 instructions of five families of blocks (dword sums and memory, addresses, words, shifts, moves); 8 is the least with which middle instructions are consumed by later analyses, words are joined and a shift is widened and stored |
| `faults` | do all early returns and breaks leave marks, listing and boundaries right, do the passes implement the abstract listing and return | pieces of 5 with unknown instructions, boundaries inside, flags without a pop, first pieces of a recording |
| `threads` | interleavings of command, analysis, menu | two analysis threads, two commands, one mishap (pause, timeout or failed append); two threads meet on `saly_semaphore`, a third adds nothing new to that |
| `files` | is a recording optimized once, whole, with its own items, and recoverable | two optimizers, three instructions, valid or not (two pieces and a boundary at the end), two mishaps of any kinds, processes beside each other included |
| `memory_files` | do the list and the files survive every failure, are copies nested, do the files implement a snapshot, does everything end | five pages of two bytes, one and two bytes per access; two processes (code and a stack whose first page is only reserved; a region with two protections, free memory and another region), any number of analyses and accesses, one failure; four copies of a process are the most, so `MaxNode = 8` refuses none |
| `handlers` | is every handler of `xx_vm32` and of `xx_vm_x32` recorded as what it is | one handler in each form and each of three assignments of registers (every register has every role once); one with dead code of seven kinds at each place where it may stand; recordings of three handlers with one failure and room for 12 instructions, so that windows wrap around; six known or unknown handlers in a row, more than either build bears |
| `handlers64` | the same for `xx_vm_x64`: recognised, told right, with the right registers | as above, with two handlers in the short recordings |
| `instructions` | is the emulated context the one of the processor | two instructions (a comparison or nothing, then any other) from 18 contexts whose numbers lie at the edges of their sizes; two are needed because conditions read what a comparison left |
| `decoder` | does the decoder read the operands and the length that the manual gives | about 100 forms of instructions, each in 32 and 64 bits, with no prefix, 66, 67 and 64, with three REX bytes, five addresses (register, displacement, direct, two with SIB) and three constants (positive, negative, a first byte of 128); two instructions with all 16 REX bytes and 48 shapes of ModRM and SIB with both signs |
| `rewritten`, `signal`, `jumps` | what a comment of the code says and the code does not do; see `findings` in `PROJECT.json` | the smallest instance that shows it |

The properties of the recording are checked when a whole handler was in the window and nothing failed (`Entire`); `NotAnother`, that a
handler is never recorded as another instruction, in every case. `Misfiled` names the rows whose items are wrong in the code, so that
`TellsWhatHappened` leaves them out: nand writes both operands to one place (`vm_handle_0900.c`), div leaves its first place empty, and in
`xx_vm_x64` also nor, stores, products and popfq. In `xx_vm_x64` a jump that assigns the registers anew hides the stack pointer of
the machine until the next handler that uses it, and an end right after it is not recognised (`LostEnd`); three such jumps in a row end the
recording (`env_flag`). Unknown handlers in a row end it when there are three, five in `xx_vm_x32` (`patience`).

`MCCpu` leaves out what the code does otherwise than the processor: `jg` (run `jumps`), `imul` with one operand (the disassembler lists the
accumulator as a second one, so `func_op6.c:546` takes it for the form with two and stores the product in the wrong register), `cmp`, `xor`,
`push` and `imul` with three operands and a negative constant of one byte, bit operations on memory with a register as index, a descending
overlapping `rep movs`, an fs prefix on `lea` and on operations on strings (`conv_item` adds `seg_fs` to every address), repeated operations whose count times their size exceeds 32 bits (`func_op10.c:648`), and operations without a function (`Unhandled`). `rdtsc`, `cli`, `sti` and `clac` have no model.

`Faithful` has premises, all stated as operators in `OpmzReplay`: values are not overwritten between reading and use
(`ReadsSettled`; without it `rewritten` fails), the constant register is written once (`CregSettled`), a widened
half was used (`HalvesUsed`), slots are written and read whole (`WholeSlots`), and no expression was ignored on
purpose. Pieces without a flag pop, with several, with and without a premise all occur in the families. It compares
sp, registers other than the flags, the stack from the final sp on and all stores in order.

Nothing keeps two optimizers, or an optimizer and an analysis, apart: `xx_run_status` looks at `hthread_opmz`, which nothing sets. The properties of
`files` that this breaks say so. `NotOptimizedTwice` has the premise that no process was started beside an optimizer by `Optimize` (`second`), crashed or could
not delete: a second optimizer logs the recording again, which the comment at `main.c:474` says must not be. `Recoverable` also excludes an analysis beside an
optimizer (`beside`), whose records are deleted when they come between the copy and the deletion, a copy or an append that fails, and a crash of the debugger.
`WholeRecording` and `OwnItems` hold whatever overlaps. `OwnItems` speaks of one mishap: two can cancel out, as the item of a further cycle and a crash
between the two appends of an invalid instruction do, after which the files are of one length and the items are shifted; without that premise TLC finds it.

`StaticAnalysis` keeps `stops = 0` in the safety
properties that a pause is meant to break (`xx_saly_stop` waits a second and goes on whatever the analysis does).

`CHECK_DEADLOCK FALSE` is said for the session, the threads, the recording and the emulation: the first two really come to rest when
nobody uses the menu, the others when their program ends. A finished call of `xx_opmz` stutters by `Terminating`, so deadlock is checked there.

## Fairness

`OpmzPass`: `WF_vars(Next)`; one thread runs until it returns. `StaticAnalysis`: weak fairness of the actions of the
command, of the analysis threads and of a running `xx_saly_stop`, which the scheduler of Windows gives to runnable
threads; none on the menu nor on the timeout, which takes three days. `OpmzSession`: weak fairness of `WinMain`
of each process, none on starting one, on crashes or on failures. `MemoryFiles`: weak fairness of `Free \/ Load \/ Access`, the thread that
loads, deletes or accesses goes on; nobody has to start an analysis or ask for an access. Failures are bounded (`MaxFaults`): memory that can
never be read keeps `init_mem_file` in its loop for ever. `Recording` and `Cpu` state none: they have no liveness property, and
the traced program need not end.

## Proofs

`OpmzPassProofs` proves for every number of instructions, every piece, every table, merge and restoration:

* `Invariant`, `Spec => []IInv`, with `IInv == TypeOK /\ MarksConfined /\ BoundariesHold /\ Renamed /\ Confined`. The
  three properties are not inductive by themselves. Which instruction may carry a temporary mark depends on where the
  loop stands (`MarksConfined` is in both); an instruction is hidden by `Finish` only if it is marked, and the
  analysis walked over trees and no boundary between it and the root, which only `Confined` (between `low` and `root`
  no tree is null and no flag is -1) remembers; a flag pop is not searched for twice because it was renamed (`Renamed`).
* `TypeCorrect`, `MarksAreConfined`, `BoundariesAlwaysHold` from it;
* `FinalityOfHidden` and `AlwaysAdvances`, action properties, one step per action;
* `Refinement`, `Spec => ImplementsListing`: initial states map to initial states, and each action maps to
  `HideFlags`, `Consume`, `Replace` or a stutter. `Finish` is the common lemma.

* `NothingIsLost` and `LinesAlwaysCover` from a second invariant on top of `IInv`, `AInv == Rewrites /\ FreshRoot /\ Accounted /\
  LinesCoverOwned`. `NothingLost` speaks of the finished listing; on the way there an owner may itself be undecided, so `Accounted` says what
  the owner of an instruction is at every moment: it pushed the flags, or was restored for good, or became a middle instruction. That the last
  kind is not analysed again and rewritten once more is `FreshRoot`, which needs `Rewrites`: an instruction that is listed is the recorded one or
  one of the definitions the optimizer makes up.

Assumptions: `N` positive, pieces are functions on `1..N`, a renamed flag pop is not a pop the pass looks for, the
splitter marks from 1 or 2; and `MadeUpAssumption`: the definitions the optimizer makes up (`MadeUp`: widened halves and middle
instructions) are not among the recorded ones, and no level analyses them. The code has them in the same tables as the
recorded ones: the rows whose names begin with `a` have `tree_analyze` 0, and no row of a handler writes such a name.
`MarksFromAssumption` only restricts what is instantiated; the proofs do not use it.

`StaticAnalysisProofs` proves for every program, any number of threads, cycles and pauses:

* `TypeCorrect`;
* `AnalysesAreOne` and `MemoryIsHeld`. Neither is inductive: that a second analysis does not start depends on what the command waits for, so
  the invariant says which state of the command goes with which state of the analysis of its cycle, and that a semaphore which was released
  belongs to an analysis past its last use of the memory;
* `DamageIsVisible`, from the assumption `MaxMishaps <= 1`: the lengths of the two files differ by what one failed append made them differ,
  and appends that succeed keep the difference. Two failures can hide each other, so the assumption is needed.

`OpmzSessionProofs` proves for recordings of any length, any number of processes and of mishaps, and without an assumption on who runs beside whom (what the
properties need is in their premises):

* `TypeCorrect` and `RecordingIsWhole`: what a process reads stays in its memory, so only its own position and log matter;
* `OptimizedOnce`: as long as no optimizer was started beside another there is only one (`Alone`), records are numbered in the order in which they were
  appended (`Numbered`), and a process alone deletes what it logged, so what is still in the file was not logged (`Once`);
* `ItemsAreOwn`: while nothing went wrong the files are in step up to the append that is due (`InARow`, `Level`); after one mishap they are level again, or
  their lengths differ and appends in pairs keep the difference, so that a process that starts to compare refuses them, or they have been read already (`Odd`, `Uneven`, `Items`);
* `RecordingsRecoverable`: what was appended is in the file, in its backup, in the log or followed by another recording (`Backed`).

`MemoryFilesProofs` proves for every set of processes and accesses, any number of analyses and any bound on failures:

* `Inductive`, `Spec => []IInv`, with `IInv == Typed /\ Linked /\ Passed /\ FilesThere /\ Copied /\ Apart`; from it `Typing`, `ListIsWhole`, `ListedFilesThere` and `CopiesNested`.
  `ListWhole` is about reachability along links, which no step can be seen to keep by itself: `Linked` says in numbers what the ring is
  (`Chain`: headers 1 and 2, data `k..n` in order) and where a clear stands in it. `Passed` remembers that a traversal met no file with the address, so that
  `Gen` adds one only where none is and `access` is at the first. `Copied` says that the ranges of the list are what `VirtualQueryEx` describes, and that while files are loaded
  their bytes are the process's. `Apart` is `Nested` while files are loaded, too; without failures it also says that all of them lie below `addr` (`Below`) and that all regions below are there
  (`Complete`), which is why a later copy that is nested in one of these is not a region as it was allocated.
* `FilesAreSnapshot`, the refinement of `Snapshot`, one step per action: `LoadEnds` maps to `Opened`, `StartFree` to `Closed`, `Read`, `Write` and the failures to the answers, the others to stutters. A copy on demand is a
  stutter because it is seen only where no file was, and what it holds is the process, which stands still. For `Read` and `Write` a page is in a file whole or not at all (`PageHeld`), so that the
  first file of the list for the address is the first for its page.

Assumptions: `MemoryAssumption` (pages are intervals, regions consist of pages and begin at or before their addresses, an access is to one byte at least) and `ListAssumption`.

`RecordingProofs` proves for every program, every table of handlers and every search for the registers:

* `TypeCorrect`;
* `LostRecordingsStop`: no row of unknown handlers is followed by another record, and a recording in which every search found its registers ends with the end of the
  machine, with such a row, or with a failure. `RInv` adds to the property what the loop counts: `unknow_num` is the number of unknown records at the
  end of the file and stands after a known one (`Trailing`), each window is recorded once (`OnePerWindow`), and there is room in the window
  while it is executed (`Counts`). Where the search failed (`env_flag`) a recording may also end after one such window (`xx_vm32`) or three, which is why that
  half has a premise; the runs check it without.

Assumptions: a plan starts with roles that exist and has room for an instruction; no row records the name of an unknown handler; the condition
of the loop ends it at `patience` unknown handlers and, when registers were found, not before.

`CpuLemmas`, `CpuOperations` and `CpuProofs` prove for programs of any length, every `MemSize` below a full address space and every context in `Starts`:

* `EmulationTracks`, from the assumption `OnlyAlike` that the instructions are of the forms in `CpuForms`. The invariant `CInv` says that the two contexts
  are equal and that each instruction of `ran` survived and left what the processor leaves. Its step is `Agrees`: for one instruction of a form, in every
  context with any numbers in its registers and memory, `xx_execute(i, s) = Run(i, s)`. It is proved per operation, `conv_item` and `calc_item` first: an operand
  that is fetched in 4 bytes and one that is fetched in its size have the same bytes where the operation looks (`SliceOfFit`), an operand of memory that is not
  there stops both, and what is written is cut to the operand.
* `ConditionsCompare`, from `CInv` and `Compared`: for all pairs of numbers of a size, each condition of the flags of their difference is the relation, with sign or
  without, that its name says.

`OnlyAlike` leaves out what the code does otherwise than the processor (below, under the run `instructions`, and `CpuForms`): negative constants of one byte for
`xor`, `cmp`, `test`, `mov` and `push`, strings of bits in memory, `jg`, and operations without a function. Operations on strings of bytes are in for one element; a repeated one, which
agrees in the runs, would be an induction over its count. `Cpu` writes constants, operands and memory with `ByteBits` = 4, and the proofs use that: they are
about every word of 16 bits, not about every width of a byte. `StartsAssumption` says that a context has numbers that fit.

Only model-checked:

* `Returns`, `CommandEnds`, `OptimizerEnds`, `Ends`: liveness.
* `Faithful`: its operators are recursive, out of reach of the prover.
* `Tracks` for repeated operations on strings of bytes: an induction over their count.
* `Recognised`, `TellsWhatHappened`, `Registers` and `NotAnother` of the recording, `Decoded` and `Measured` of the decoder: they say that concrete
  tables fit concrete handlers or encodings. For other tables they are false, and for these ones a proof would be the enumeration that TLC does.

## Not modelled

See `components`. Configuration and the table writer hold no state. Of the disassemblers, the text of an instruction (`inst_print.c`), the loading of the tables
from files or SQL, and the copy for 32 bits are left out. `vmp38`/`vmp39` restoration recognises one version of a protector by tables of patterns. The dynamic analysis is driven by pauses of the debugger; the import tables
(`xx_vm_iat*`) emulate with copies of the sources modelled here. In `Cpu` and `Emulator` memory is one function, not the files of `MemoryFiles`. Byte and quadword operands and the logical instructions of `OpmzTrees`
repeat the forms of the modelled rows. That trees of one clock tick never merge (`st_tree.c:515`) is abstracted: two trees are always
different. `xx_append_file` takes a write of a part of a record for a success (`xx_file.c:48`); records are whole in all modules. `Recording` has a handler's item or an
instruction that cannot be appended; that the appends of `xx_opmz_write_invalid` fail is in `StaticAnalysis` and `OpmzSession`. Of the 64-bit rows, `vm_handle_0801.c` and `vm_handle_21.c` are in no table and never run.

## Plan

1. Composition of `Recording` and `OpmzSession` on the same files: wrong items and what the optimizer makes of them; two pieces in one process,
   where the constant register outlives a piece whose item could not be read.
2. The emulation on the memory files: `Cpu` with an access that fails where `Snapshot` lets it fail.
3. The sorted list of `xx_vm_iat_*/st_slist.c` against sorted insertion without duplicates; the codec of `vmp38`.
4. More instruction families in `OpmzTrees` (byte operands, `and ~`, `or ~`, `shl`), more rows of `exp_tbl`.
5. The dynamic analysis as callbacks of the debugger.
6. Proofs: the refinement of the abstract recording.

Abstract specifications worth stating on the way: a recording as a sequence of (instruction, item) pairs that
`StaticAnalysis`, `Recording` and `OpmzSession` implement.

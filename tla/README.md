# A TLA+ verification of fakeLisp

fakeLisp is a LISP interpreter in C: a byte-code VM with preemptive OS threads
(`go`), Go-like channels, a stop-the-world mark-and-sweep collector, run-time
library import, a compiler with macros and reader macros, and bindings of
libuv. This directory holds TLA+ models of its concurrent core and of its
compiler, reader and arithmetic, the TLC configurations that check them on small
instances, and TLAPS proofs of what holds for every size.

## 1. The system: an inventory

Sources are relative to the repository root; `vm.h` is
`include/fakeLisp/vm.h`.

| Part | State it keeps | Operations | Where |
|---|---|---|---|
| Scheduler, idle loop | `FklVMqueue` (pre_running_q, running_q, running_count), `workq`/`work_num`, `gc->running`, per VM: `state`, `lock`, `notice_lock`, `atexit` | `fklVMidleLoop`, `vm_thread_cb`, `fklVMthreadStart`, `fklQueueWorkInIdleThread`, `fklVMgcCheckPoint`, `FKL_VM_UNLOCK_BLOCK` | `src/vmrun.c`, `vm.h` |
| Channels | ring buffer, `recvx`, `sendx`, `count`, `sendq`, `recvq`, one mutex | `fklChanlSend`, `fklChanlRecv`, `fklChanlRecvOk`, `chanl-msg->list`, the collector's walk | `src/vmvalue.c`, `src/builtin.c` |
| Library import | `import_state`, recursive lock, export slots of each `FklVMvalueLib` | `LOAD_LIB`, `load_lib`, `load_dll` | `src/vmdispatch.h`, `src/vmrun.c` |
| Collector | colours, gray list, weak list, object list, threshold | roots, propagate, weak references, collect, sweep, finalizers | `src/vmgc.c` |
| Symbol table | obarray of symbols and of keywords | intern under a lock, weak removal | `src/vmgc.c`, `src/vmvalue.c` |
| Frames and closures | frame chain, open variable references (`lref`, `lrefl`), value stack | call, tail call, return, close references, error frames | `src/vmrun.c`, `src/vmutils.c` |
| VM stack, memory regions | reserved and committed pages | grow, shrink, release | `src/mem_region.c`, `src/vmem.c` |
| `sync` | libuv mutex, rwlock, condition, semaphore, barrier objects | one builtin each, in unlocked sections | `src/sync/sync.c` |
| `fuv` | loop -> handles and requests, `gclist` | callbacks into the VM, close, delayed finalization | `src/fuv/` |
| `bdb` | debugger context, breakpoints, two threads handing control over | break, step, continue, eval | `src/bdb/` |
| Code generator, optimizer | environments with scopes, slots and references; a window over the code | one action per special form, peephole rules | `src/code_gen.c`, `src/code_utils.c`, `src/optimizer.c` |
| Integers | fixed integers of 61 bits, big integers of 30-bit digits | arithmetic, comparison, numerals | `src/bigint.c`, `src/vmutils.c`, `src/builtin.c` |
| Grammars and reader | productions, item sets, LALR tables; a stack of states | table construction, matching, shift, reduce, reading by lines | `src/grammer.c`, `src/parse.h`, `src/parser.c` |
| Byte code files | tables of values, prototypes and libraries | write, load | `src/code_lw.c`, `src/vmutils.c` |
| Regular expressions, REPL, line editor, disassembler, other modules | local data, files, terminal | sequential | the rest of `src/`, `main/` |

How they interact. The process has one *idle thread*, which runs
`fklVMidleLoop`, and one OS thread per VM. A VM thread owns the lock of its VM
while it executes VM code; it gives it up in blocking calls and, when its
`notice` flag is set, at the checkpoint after each step. The idle thread takes
all these locks to collect garbage or to run work queued for it, starts the VMs
that `go` puts on `pre_running_q`, joins finished threads and releases their
VMs. Threads exchange values through channels; the collector reads the
channels, and every other container, without their locks, because it has
stopped the world. Libraries are imported lazily by whichever thread executes
`LOAD_LIB` first. Text becomes a running program in a pipeline: the reader parses
it with tables made from a grammar the program may extend, the code generator
turns each form into byte code and every variable into a slot of a frame or a
reference to one, the optimizer rewrites the code, and the result is executed or
written to a file and loaded later.

What is hard: the interleavings of the idle thread with thread creation, thread
end and blocking calls; try-locks and starvation; parked threads whose wait
nodes live on C stacks; a message referenced from nowhere but a wait node; state
read before a lock and used after it; shutdown. In the sequential parts it is the
combinations: which slot is used again while a closure still refers to it, which
instructions a jump enters after others were rewritten, which grammars are read
wrongly although no conflict was reported, which operands carry through every
digit. `PROJECT.json` lists these
hazards at their lines with the properties that would catch them.

What makes each part correct: *scheduler* - stop-the-world is exclusive, only
finished threads are joined and released, the loop ends when and only when
nothing is left, every collection and every work item gets its turn (the code
falls short of this where a thread calls `exit`, section 6, and where a thread is
always faster with its lock than the idle thread, section 3);
*channels* - a FIFO queue of bounded capacity without lost wake-ups, in which
nothing in flight is collected; *library import* - a body runs once, nobody
sees a half-loaded library, every import ends; *collector* - exactly the
unreachable objects are freed, weak tables hold no dead entry, finalizers see
what they need; *compiler, optimizer and byte code machine together* - a
program means what its text says; *reader* - a grammar accepted without conflict
is read as the language it describes; *byte code files* - what is loaded is what
was written; *arithmetic* - equal to the integers.

## 2. Modules

| Module | Models | State and actions |
|---|---|---|
| `ChanlSpec` | what a channel promises: one queue of messages in which those beyond the capacity belong to blocked senders | abstract; refined by `Chanl` |
| `Chanl` | `FklVMvalueChanl` | the C fields one by one; `fklChanlSend`/`Recv`/`RecvOk` are one action each per way out (they hold the channel lock and the VM lock throughout), `Wake` is the return of `uv_cond_wait`, `GC` a collection that sees the channel |
| `VMsched` | the idle loop and the scheduling side of VM threads | `tpc`/`ipc` are program counters; one action per critical section or atomic access; each failing path (`GoFails`, `StartFails`) is an action |
| `LibImport` | `LOAD_LIB`, `load_lib`, `load_dll` | the unlocked first read, the lock, the second read, the body with nested imports, storing the state and releasing the lock are separate steps |
| `VMgc` | the collector, weak hash tables and the obarray | objects with what they mark, the lists they are on, their colours; mutator actions (create, link, read, drop, intern, weak put and get) while no collection runs, then one action per phase of a collection, one per object within propagation and sweep |
| `FuvLoop` | the event loop object of `fuv` and the handles and requests it owns | `link` is `data.loop`, `refs` and `gclist` the lists of the loop, `uv` what libuv knows of an object; operations of the program, steps of `uv_run` with the callbacks they make, and a collection that sweeps object by object, the loop's finalizer included |
| `FuvAsync` | `async-send` and the callback that takes its arguments | the three spin flags of the async handle (`fuv.h`), one action per access to them; `frame` is the C frame the arguments are on |
| `CodeGen` | the code generator | pure operators: `Gen` compiles an expression in the order in which the source's actions leave the action stack, threading the environments (scopes, slot flags, references, promises) |
| `Optimizer` | the peephole optimizer | pure operators: basic blocks, the rules over a window, relocation of jumps, repeated until nothing changes |
| `LangValue` | values and builtins | what `LangEval` and the machine share: values as tuples, what each builtin computes, the errors of its arguments |
| `LangEval` | what an expression means | reference definition: scopes as tables, without slots, references or code |
| `VMmachine` | the byte code machine | stack, frames, procedures and variable references; one action per instruction or group of alike ones, and per step of `pcall`, `xpcall` and `raise`; an error unwinds the frames up to its handler within the step that raises it. EXTENDS `LangValue` only. It runs any byte code; `VerifiedBy` says which code keeps the stack in order |
| `VMexec` | programs from text to result | EXTENDS `CodeGen`, `Optimizer`, `LangEval` and `VMmachine`: `Init` compiles a program, optimizes it or not, and the machine runs it. `CodeVerifies` follows the code to find the heights that `VerifiedBy` asks for |
| `BigInt`, `Numbers` | `bigint.c`; the integer builtins on top of it | pure operators on digit buffers (stale digits and fixed buffers included), and on tagged values with the two accumulators of the builtins |
| `Grammer`, `LalrTable`, `Parser` | first sets and LR(0) items; lookaheads, conflicts and actions; the parser and the line reader | pure operators, one per function of `grammer.c`, `parse.h` and `parser.c` |
| `CodeFile` | byte code files | pure operators: the walks that number values, prototypes and libraries, the writer, and the loader section by section |
| `ChanlProofs`, `VMschedProofs`, `LibImportProofs`, `VMgcProofs`, `FuvLoopProofs`, `FuvAsyncProofs`, `NumbersProofs`, `VMmachineProofs` | | theorems about the modules they are named after (`NumbersProofs` about `BigInt` too) and their proofs; each begins with its inductive invariant |
| `MCChanl`, `MCVMsched`, `MCLibImport`, `MCVMgc`, `MCFuvLoop`, `MCFuvAsync` | instances for TLC | symmetry sets and dependency functions |
| `MCLang`, `MCNumbers`, `MCReader`, `MCCodeFile` | inputs and reference definitions | the programs, operands, grammars and constants the operators are checked on; the last three also hold the pipeline as actions and its properties |

Operators named `Bug_...` are the mutants: each is the definition that follows it
with one plausible mistake, and `PROJECT.json` names the property that notices
it.

### Abstractions

* `Chanl`: messages are model values, a thread's stack is the one slot the
  channel reads and writes, `Drop` stands for the program letting go of a value.
  `uv_cond_wait` is taken to return after a signal only.
* `VMsched`: what a VM computes is left out; a step is one of the operations
  that touch shared state. `full` is the comparison of allocated size and
  threshold. The result channel of a thread is used as `go` intends, so the
  final send of a thread does not park. `running_q` is a set, its order is
  irrelevant because `lock_all_vm` rotates it. `exe->state` has two values for
  `FKL_VM_EXIT`: "EXIT", set by `vm_thread_cb`, `do_vm_atexit` and failed starts, and
  "EXIT_CALLED", set by `exit` (`builtin_exit`, or the callback in `PopIdleWork`) while
  the thread still has a checkpoint, a relock or handlers before it. No action tells
  them apart (`Exited`), only properties do. `exit` in the body of a library, which
  runs in a `fklRunVM` of its own, is left out.
* `LibImport`: the VM lock is left out (the collector takes no library lock),
  errors raised by an import may or may not be caught by the importing body, and
  imports are acyclic because the compiler rejects circular ones
  (`src/code_gen.c`, "Circular load file").

* `VMgc`: a "box" stands for every container whose atomic function marks all it
  refers to. The gray, weak and white lists are sets: an object is linked once,
  when its colour changes, and the order in which the lists are taken does not
  matter to what is marked or freed (it does to finalizers, which are not
  modelled yet). `VMsched` justifies that mutators and collection alternate. The
  obarray is a root of every collection and marks nothing. Static objects and
  immediate values, which the collector ignores, are left out.

* `FuvLoop`: one loop, used by one thread, as libuv demands. Every handle type
  is a handle that may have an event, every request type a request that completes
  at some time; callbacks are program code that does any operation of the module.
  The list `refs` is a set, with what unlinking an absent object does to it. An
  initialisation that fails is taken to leave the handle without a loop field, so
  that `fuvHandleClose` only unlinks it. Where libuv leaves the outcome undefined
  (a closed loop that is used, a loop closed from its own callback), an assertion
  of libuv fails, freed memory is written, or the finalizer would call program
  code, the model stops in a state of that name, and nothing is claimed beyond.

* `FuvAsync`: one handle; the number of a call stands for its arguments. libuv
  merges notifications (`pending` is one bit) and calls back only while the loop
  runs. The program may run the loop again and again, close the handle, and send
  from the loop's own thread.

* `CodeGen`, `Optimizer`, `VMmachine`: an instruction is one word, so that the wide
  encodings and their splitting are left out. Macros, `defconst`, import and export
  are left out; a quoted constant is in its instruction instead of a table. Of the
  procedures written in C there are `pcall`, `xpcall` and `raise`; errors have the
  types of the source. Integers and pairs stand for all values. `MUL` and `DIV` fold as `ADD` and `IDIV` do and are left
  out. The window of the optimizer is 4 wide (12 in the source): no modelled rule
  looks further. Block numbers are the positions before rewriting, which is what
  the source's `block_start` holds. Where the optimizer divides by zero the model
  ends in `Crash`.

* `BigInt`, `Numbers`: digits have `SHIFT` bits (30 in the code) and decimal
  groups `DECIMAL_SHIFT` digits (9); `int64_t` and the fixed integers are scaled
  so that they have two digits and 3 bits, and two digits, as in the code.
  Floating point is one value.

* `Grammer`, `LalrTable`, `Parser`: terminals are strings and composites of
  strings; regular expressions, keywords and builtin terminals pass through the
  same code as strings. Ignored text is one character, which also ends a line.
  Productions are tried in the order of the hash table they are in, which the
  variable `rank` of `MCReader` chooses. The values that reductions build are left
  out.

* `CodeFile`: a heap maps a value to its kind and the values it refers to; what
  a leaf is made of, the byte code itself and the bytes of the file are left out:
  the order of the writes and the ids in them are what can go wrong. Pre-compiled
  libraries are left out.

## 3. Runs

| Run | Instance | Shows |
|---|---|---|
| `chanl` | 3 threads, 3 messages, 0, 1 and 2 slots, fairness; 115,512 states | nobody is left parked next to a message (`NoMissedHandoff`), no wake-up lost or doubled (`WaitersAreQueued`), nothing in flight collected (`InFlightLive`), `chanl-msg->list` exact for channels that are not empty (`MsgListExact`), refinement of the queue (`ImplementsQueue`), parked threads are served (`WaitersServed`) |
| `sched` | 2 VMs, 2 atexit handlers each, weak fairness; 78,990 states | `StoppedMeansStopped`, `JoinsOnlyFinished`, `ReleasedIsUnused`, `RunningCountExact`, `ReturnsWhenOver`, no deadlock but the join of a thread that called `exit` (`Hangs`); a collection that starts ends (`CollectionEnds`), idle work is done (`WorkIsDone`) and new threads are started (`StartedOrOver`), the last two but for `Wedged` and `Overtaken` |
| `exit_hang` | 3 VMs, violation | see section 6 |
| `lib` | 2 threads, a library importing a shared object, 2 stack overflows, fairness; 31,599 states | `BodyRunsOnce`, `NeverUnreachable`, `GotIsComplete`, and every import ends (`ImportEnds`); no deadlock |
| `lib_leak` | 3 threads, violation | see section 6 |
| `gc` | 2 VMs, 3 objects with one reference each, 1 name, weak keys | nothing in use is freed (`NoDangling`), exactly the reachable objects are marked (`MarksReachable`), symbols stay unique (`SymbolsUnique`), weak tables lose exactly their dead entries (`WeakEntriesKept`) |
| `fuv` | 2 handles, 1 request, fairness | the list of a loop is exact (`RefsExact`), neither libuv nor the program keeps freed memory (`InUseIsAlive`, which is `LibuvObjectsLive` and `HeldIsAlive`), no finalizer follows a pointer to a freed loop that was open (`LoopTakesRefsAlong`), delayed objects go with their loop (`NothingStranded`), sweeps end (`SweepTerminates`) |
| `async` | the loop's thread and 2 more, 5 calls, fairness; 56,930 states | an accepted send reaches the procedure once, in order, with its own arguments (`DeliveredOnceInOrder`); neither side waits for ever (`HandshakeEnds`) |
| `lang` | 2,650 programs, optimized and not; 373,573 states | the program ends with what its text means (`MeansWhatItSays`), references stay inside live frames (`OpenRefsAreLive`), calls in last place use no stack (`SelfCallsDoNotStack`), jumps do not loop (`Terminates`), generated code keeps the stack in order, optimized or not (`CodeVerified`) |
| `numbers` | digits of 6 bits at the edges, up to 4 of them; 43,101 inputs | `BigIntExact`, `NumeralsExact`, `NumbersExact`: the operations compute the integers they should |
| `reader` | 6,348 grammars, texts up to 4 characters; 25,392 states | a table without conflict reads the language of its grammar (`ReadsTheLanguage`), by lines or at once (`LinesDoNotMatter`) |
| `code_file` | every graph of 4 compound values, and programs of 2 libraries; 375,570 states | `LoadsWhatWasWritten` |

Bounds. For `chanl` three threads are what it takes for every queue to hold two waiters
while a third thread acts, and for one thread to wait while two others race. In
`sched` the idle thread is the third; a second program thread lets one be created,
blocked or ending in each phase of a collection or of the work of another. Its safety
properties are proved for any number of threads (section 4); with three VMs under
`Spec` TLC finds them in 6,733,611 states too.
Two handlers are what it takes for one to call `exit` and another to be queued
after it.
Two slots make the ring wrap with a full, a part-filled and an empty buffer, none
makes every exchange a direct hand-over; three messages keep the buffer full next
to a parked sender. `MaxAtExit`, `MaxOverflows` bound how often a program
registers a handler or runs out of stack; the code treats each occurrence alike.
`lib` uses two threads because with three the code does stop (section 6,
`lib_leak`). In `gc` three objects make chains and cycles and a weak table with a
key and a value of its own; `MaxRefs` bounds the out-degree. The run makes tables
with weak keys, the mode the compiler uses; the theorems of `VMgcProofs` hold for
every mode and without these bounds. In `fuv` two handles and a request let one
object be swept before the loop, one after it, and a third be in any state; each
object is made once. The run does not check for deadlock because the program ends
(`Shutdown`) or stops as said above. `async` needs two senders besides the loop's
thread, and a third call while the flags of the first are still being cleared.

`lang` combines every way to bind a variable with every way to capture it and
with something that uses its slot again, every loop form with closures made in
its body, every place a last call can stand in, nests of two tests, constant
expressions, every kind of error raised below closures and half-made calls with
every way to catch it (nested, by type, in a handler), and the programs of `tests/test-loc.fkl`; `MCPrograms` is their list.
`numbers` takes the digits where carries, borrows and estimates change (0, 1, half
and all ones) in all positions. `reader` takes two nonterminals, every pair of 23
right parts of the second and six forms of the first, with and without ignored
text between symbols, with empty, left-recursive and ambiguous ones among them.
In `code_file` a constant can be shared, nested three deep and cyclic, and a
library can be used by several prototypes and by another library.

Runs of pure operators have exceptions, one named operator for each defect of the
code (section 6), so that the properties hold for everything else:
`KeepsOnAdd`/`KeepsOnSub` in `BigInt`, `OnlyFullGroups` and `Excepted` in `MCNumbers`,
`LosesLookahead`, `MixesItems`, `IgnoresEnd`, `SkipsTooMuch`, `PrefersLonger` and
`AsksLastAction` in `MCReader`, `SharedAtDepths` in `MCCodeFile`. In `MCReader`
some 1,500 of the grammars are left to the strictest form of `ReadsTheLanguage`
(every word is read), 1,000 of them with ignored text taken literally; the weaker
form (only words are read, and the parser ends) holds for all but those of
`MixesItems`. In `MCLang` the programs concerned are not in `MCPrograms` but in
`ScopeDefects` and `OptimizerDefects`: given to `Programs`, they violate
`MeansWhatItSays`, which is how the defects were found.

Fairness. The OS schedules runnable threads: weak fairness of each thread, of the
idle loop, and of each try-lock, which the idle loop repeats until it succeeds.
Nothing is assumed about blocking calls returning. For a collection that suffices,
because the STW state keeps a noticed thread from taking its lock back. For idle
work the code sets no such state: a noticed thread unlocks and locks again at once,
and nothing makes the idle thread's try fall in between. No fairness is assumed to
close that gap. `WorkIsDone` and `StartedOrOver` name it instead: they hold of every
behaviour in which the idle loop is not for ever in `lock_all_vm` before one and the same
thread that gives its lock up and takes it back (`Overtaken`), and up to the moment
the idle thread hangs in the join of a thread that called `exit` (`Wedged`). Both
exceptions are needed: without `Wedged` TLC finds both properties violated, without
`Overtaken` it finds `WorkIsDone` violated; for `StartedOrOver` that needs a third
VM, which the instance, kept at two for the time that liveness takes, does not have.
`chanl` assumes a program that keeps polling and sending, and a collector that
runs again and again. `lib` assumes that the bodies of libraries end and that a
mutex that is free again and again is given to one who waits for it. `async`
assumes that the program runs its loop again and again, and that a running loop
looks at what is pending; without it nobody would answer a sender. `lang` assumes
that the machine goes on (there is one thread). `fuv` assumes of the collector
that it goes on with a sweep, and of libuv that requests complete and closed handles get their
callback; nothing is assumed of the program.

## 4. Proofs

`VMschedProofs` proves, for any finite set of VMs containing the main one and
any bound on handlers, `Spec => []IndInv` and from it the safety properties of
`sched`. `StoppedMeansStopped` alone is not inductive. The argument: a thread
executes VM code exactly while it owns its lock (`LockOwned`); every created and
unfinished thread is on `running_q`, or is the one being put there while the
idle loop is at `count` (`StartedInRunq`, `RunqStarted`); once `lock_all_vm` is
through, the idle thread owns every lock of `running_q` (`LockedByIdle`); hence
nobody executes. State EXIT, where it is not `exit` that set it, is set when only the
final unlock is left (`ExitIsOver`), so such a thread whose lock the idle thread owns
has finished. A VM that `exit` marked is anywhere from the checkpoint of that step to its
next `fklRunVM` switch, or on its way back from idle work (`Leaving`). Together that
gives `JoinsOnlyFinished`, which has the exception the code has, and no more: a thread joined
too early called `exit`. `JoinHangs` proves that this join is a deadlock
(`HangIsForGood`, an action property): the thread needs its VM lock to end, and
the idle thread keeps it until the join is through. That a VM is never released
too early (`ReleasedIsUnused`) holds without an exception, because the idle thread
does not come to `remove_exited_thread` past such a join. `RunningCountExact` is a cardinality
argument: each step adds or removes at most one live thread. `PreqWaiting`,
`WorkCounted` and `NoneAlive` say what the queues hold and what the loop knows
when it leaves.

Assumptions used: `VMsAssumption` (finite, contains `Main`) and
`MaxAtExitAssumption`.

`VMgcProofs` proves the properties of `gc` for any sets of VMs, objects and names
and any modes of the weak tables. The inductive invariant `IInv` adds to the
properties: every object is on one list and the lists of the VMs are empty
during a collection (`Lists`); what is marked is allocated, contains the roots
and what the black objects mark, and lies in every closed set (`Marking`, the
tri-colour invariant and its converse); after the weak references are updated
the black objects and the obarray refer to black objects only (`WeakUpdated`);
an interned symbol is the one its name leads to (`Interned`). Safety of the
sweep follows because the kept objects are then exactly the black ones. The
assumptions are `NoObjAssumption` and `WeakModesAssumption`.

`ChanlProofs` proves the safety properties of `chanl`, and the refinement, for any
set of threads and messages and any capacity. `IndInv` says where in the ring the
slots in use are (`RingOK`: `sendx` is `count` slots behind `recvx`, around the
end), that the queues hold exactly the parked threads, each once (`Waiters`), and
that what is in a slot in use, with a parked sender or on a stack is allocated
(`InFlight`). `NoMissedHandoff` is part of it: a receiver that finds the ring
empty may take a sender's message past the ring only because nobody is parked
while slots are free. For the refinement every step of `Chanl` is shown to be a
step of `ChanlSpec` or a stutter under the mapping of `Chanl` (contents of the
ring, then the messages of the parked senders). The assumptions are that
capacities are naturals (`QSizesAssumption`) and that NIL and NULL are no
messages (`ValuesAssumption`).

`LibImportProofs` proves the safety properties of `lib` for any threads and
libraries. The argument: the bodies a thread is in lie along the dependencies,
by rank (`AlongDeps`), so it never meets the library it is importing itself
(`NoSelfWait`) although the lock is recursive; who imports a library holds its
lock (`ImporterHoldsLock`), a lock is held by an importer, by a thread just
past it, or for ever over a settled library (`HolderIsKnown`); IMPORTING is the
state of what a holder imports (`ImportingIsImported`), and the state tells how
often the body was begun (`BegunByState`). An action property, `SettledForGood`,
says that a settled state never changes. Assumed: shared objects import nothing
(`LibsAssumption`), imports are acyclic, which the compiler enforces
(`AcyclicAssumption`), `NoThread` is no thread and the bound on overflows a
natural.

`FuvLoopProofs` proves the safety properties of `fuv` for any handles and
requests and every order of a sweep. Its key is `SweptTogether`: an object still
linked to its loop is swept only together with it, because the loop marks what is
in `refs` and `RefsExact` holds. Then what libuv may call back for is linked or
delayed (`LibuvLinked`), delayed objects wait for a loop that this same
collection frees (`DelayedWait`), and a loop is freed with no link left to it
unless the program had closed it (`LinksCut`). The assumption is that loop,
handles and requests are different objects.

`FuvAsyncProofs` proves that an accepted send is delivered once and in order for
any number of threads and calls, and that the loop copies the arguments from a
frame that its sender has not left (`CopiesFromLiveFrame`). `Handshake` says who
may be where: one sender between the flags (`OneSender`), its notice pending, in
the callback, or answered (`NoticeOfSender`), and what the callback relies on
(`CallbackHasSender`); `History` relates the calls accepted and delivered.

`NumbersProofs` is about operators, for every width of a digit from four bits on
that is a multiple of three, and every length of a number: comparison, addition,
subtraction, multiplication, division and remainder of `bigint.c` compute those
of the integers the digits stand for, and the builtins `+ - * // / %` return
them for any number of arguments, fixed or big, in canonical form; `1+` and
`-1+` for fixed integers. What the code gets wrong is in the hypotheses by name,
and not wider than it is: `KeepsIsWrong` proves that whenever `x_sub` keeps top
digits the result is wrong, and `DivCallExact` says that a truncated quotient is
returned exactly when a remainder is overlooked. The division (`x_divrem`) needs
most of it: the normalizing shift makes the first digit of the divisor half the
base or more (`NormalizingShift`), the estimate of a digit is then right or one
too large (`EstimateClose`), a borrow happens at most once and is undone by one
addition (`BorrowOnce`, `DigitExact`), and the invariant `DivState` carries
this from digit to digit (`DivStepsExact`); no assertion of the source fails on the
way. The provers cannot use the library's induction theorems, so that induction
is done over sets (`UpInduction`, `DownInduction`: the set of the numbers for
which a claim holds), and `UpRecursion` and `DownRecursion` show that the
recursive functions of the model have the values their definitions give them.
Assumed are `ShiftAssumption`, and two facts on powers of two for which the provers
have no rules: that `Base` is a natural of 16 or more (`BaseAssumption`) and that
`2^(k+1)` is twice `2^k` (`PowerAssumption`); TLC evaluates both.

`VMmachineProofs` proves `OpenRefsAreLive`, the safety property of `lang` that is
about the machine alone, for all byte code that verifies and any number of calls,
closures and errors. The machine of the source checks nothing: it pops what is on
top, takes `bp` for the call that is being prepared and writes through a
reference without asking whether its frame is still there. It relies on the
generator, and what it relies on is `VerifiedBy(code, protos, at, tails)` of
`VMmachine`: for each instruction that can be reached, `at` gives the environment
it belongs to, how many values lie above the variables and at which of these
heights a call has been begun (the `SET_BP` not yet called), and the successors
of an instruction have what its effect leaves; `tails` are the instructions from
which nothing but leaving the procedure follows a call in last place. The source has
no such verifier. That the theorems speak of the code the machine is given is
therefore checked by TLC: `CodeVerified` computes `at` and `tails` for the code each
of the 2,650 programs of `lang` starts with, with and without the optimizer, so that
each behaviour of `VMexec` explored there is one of `MachineSpec`.

`OpenRefsAreLive` alone is not inductive: that an instruction stores to the cell of
its own variable, that a return removes its own frame and that `CLOSE_REF` finds the
frame that knows the reference all depend on where the frames lie. The invariant
`RunInv` says this. Every frame but the last waits for a call whose `bp` is where the
next frame begins, with the `bp` it has to get back in that cell (`Waiting`); the
last one runs, in one of four forms: at the first instruction of a procedure, at
another one with as many values as `at` says, between a last call and its `RET`, or
in a procedure written in C (`Runs`). A call that is being prepared kept the `bp`
before it (`Prepared`); a procedure on the stack has been made, and its entry is the
begin of a body with references for all it captures (`SoundStack`, `ProcsMade`);
who holds an open reference is one of the frames (`RefsHeld`). A `pcall` that has
taken an error no longer has cells of its own and is left out (`Caught`, `Live`).
Each action is then a change of the topmost frame, a frame more, or one or several
frames less, and the lemmas about such changes (`Stacked` of the changed frames)
carry most of the proof. Besides `OpenRefsAreLive` follow that a procedure that
returns leaves exactly one value, which `vmreturn.h` aborts on otherwise
(`OneValueLeft`), and that the variables of a frame end before the cell where the
next call begins, after a restarted last call and in a handler of `xpcall` too
(`FramesApart`).

`TypeOK` of each module, `OneValueLeft` and `FramesApart` of `VMmachineProofs`,
`AllWhite` of `VMgc` (between collections every object
is white and on a list), `SettledForGood`, `CopiesFromLiveFrame` and `DelayIsShort`
of `FuvLoop` (between collections no object is delayed) and `HangIsForGood` are proved and are not
properties of the runs.

Only model-checked:

* the liveness properties `WaitersServed`, `CollectionEnds`, `WorkIsDone`,
  `StartedOrOver`, `ImportEnds`, `SweepTerminates`, `HandshakeEnds` and
  `Terminates`: fairness and ENABLED are out of the prover's reach;
* `MeansWhatItSays`, `ReadsTheLanguage`, `LinesDoNotMatter`, `LoadsWhatWasWritten`:
  compiler, reader and byte code files are recursive operators, for which the
  prover has no backend;
* `SelfCallsDoNotStack`: it depends on which calls of a program are last ones, which
  the generator decides; `CodeVerified` is about the generator itself;
* `NumeralsExact`, of which the groups of decimal digits and the accumulators of
  the other bases remain to be done, and the properties `BigIntExact` and
  `NumbersExact` as such: the theorems say what they say, without the bounds, of
  the operations one by one.

## 5. Plan

1. More programs for `CodeVerified`: it looks at first states only, so that it can be
   checked for programs larger than those TLC can run.
2. Action properties of `VMgc` and `VMsched` (a marked object stays marked until the
   sweep; a VM is released once).
3. Composition of `Chanl` and `VMsched`: a thread that ends parks in the send of
   its result when the program itself has filled the channel `go` returned, marked
   EXIT already, and the next collection joins it (`vmrun.c:1024`), as it joins a
   thread that called `exit`.
4. Finalizers: the order of the sweep and types made at run time (`vmgc.c:289`).

## 6. Where the code and its own statements differ

What has a run of its own:

* `exit_hang`: `exit` sets `FKL_VM_EXIT` in the middle of a step (`builtin.c:4508`).
  If a collection is beginning, the checkpoint that follows (`vmrun.c:951`) gives the
  VM lock to the idle thread, which takes the thread for finished and joins it
  (`vmrun.c:1242`) before it gives the lock back, while the thread waits for it
  (`vm.h:954`): the program hangs. `tests/main.fkl:62` ends with `(exit err-count)`.
  The same happens when `exit` is called in idle work or in an `atexit` handler, which
  leaves the VM in that state while its thread waits to go on. Run: a program that
  starts 2,400 threads, eight at a time, each building a list and calling `exit`, hung in
  three of seven runs, one thread waiting in a join and one for a mutex; without the `exit`
  it never did.
* `lib_leak`: a thread that read NONE, waited for the lock and then finds the
  library settled never gives the lock back; a third thread waits for ever
  (`vmdispatch.h:315`).

What the models show and the properties leave out by name. The entries marked
(run) were reproduced with the programs built from this source.

Channels and `fuv`:

* `chanl-msg->list` of an empty channel lists all slots of the buffer, NULL
  pointers included: `recvx = sendx` is taken for "full" (`builtin.c:3150`). The
  collector makes the same mistake and marks stale slots, whose messages an
  earlier collection may have freed (`vmvalue.c:1495`).
* The finalizer of a loop that the program has closed does not unlink what is left
  in `refs` (`loop.c:50`). A request that `tcp-connect` made and libuv refused
  (`main.c:3036`), or a handle closed by `tcp-close-reset`, is left there; it is
  finalized after the loop was freed and hands itself to it, against the assertion
  of `fuvLoopAddGcObj`.
* An error raised by a callback of a handle that is being closed closes the handle
  again, which libuv asserts never happens (`CallbackRaises`); a handle collected
  during its own close callback is written to after it (`CallbackReturns`); a
  cancelled request is not held until libuv has called it back (`fuv_req_cancel`,
  the exception in `LibuvObjectsLive`). A `loop-run` that refuses its mode leaves
  `data.exe` set, so that a loop finalized with a request in flight calls program
  code from the collector (`DrainReq`, "reentered").
* `async-send` waits for ever if the handle is closed before the callback, or if
  it is called from the thread of the loop.

Compiler (all run):

* The branches of `if`, `and`, `or`, `do` without variables and the last clause of
  `cond` end their scope without `CLOSE_REF` and without freeing slots
  (`code_gen.c:4876`): a closure made in a branch reads the next variable.
  `tests/test-loc.fkl:30` states for other forms that it keeps its own.
* The values of a `letrec` are compiled before its variables have slots, and
  temporaries in them take the same ones (`codegen_letrec`).
* `fklResolveCgPreDef` marks the slot with the index of the reference instead of
  the variable (`code_utils.c:332`): a variable captured before its definition is
  never closed.
* A definition inside the value of a `let` takes the slot of the `let` variable.
* The optimizer folds a division after testing the dividend (`optimizer.c:874`):
  `(// 5 0)` kills the compiler. It compares the low bits only of the operand of
  `GET_VAR_REF` (`optimizer.c:1317`). Its table of block starts is not renewed
  while instructions move.
* A `cond` clause without a body jumps one instruction short.

Integers (all run):

* `x_sub` keeps leading digits that cancel (`bigint.c:825`): the difference of two
  numbers of equal length and equal first digits is wrong.
* `(1+ b)` and `(-1+ b)` of a big integer fail an assertion (`bigint.c:354`),
  unless the result is a fixed integer.
* The overflow test of a sum misses the smallest fixed integer added to itself
  (`utils.c:636`), that of a product the values that wrap to it (`utils.c:656`);
  its negative is itself (`(- 0 min)`, `(// min -1)`). `(/ 2 b)` is 0 for a big
  `b`, and so is `(/ b b 2)`: `fklProcessVMnumDivResult` asks whether each factor of
  the divisor leaves a remainder, never their product (`vmutils.c:1456`). Octal literals of a multiple of ten digits are misread.

Reader (1 to 4 run):

1. `compute_all_first_set` leaves a nonterminal at its first production that is
   not empty; `A B` with `B -> "b" | "c"` does not read "ac" (`grammer.c:1087`).
2. Lookaheads are not spread from an item set to itself (`grammer.c:2147`).
3. The end of the text never reduces in a state with several ways.
4. Spreading does not ask whether a link stands behind ignored text and puts items
   into sets they do not belong to; the parser then pops an empty stack.
5. Ignored text is accepted where `..` forbids it.
6. Whether an incomplete text may go on is asked of the last action tried only.
7. A composite wins over a string it begins with, without a conflict.

Byte code files (run):

* A value that a constant refers to at two depths is numbered before its parts,
  and `fakeLispc` stops at the assertion of `code_lw.c:261`, although the result
  of the macro was accepted as serializable.

## 7. Not modelled

* Regular expressions: the matcher looks one character ahead behind a repetition
  instead of backtracking, and no definition says what it should match.
* Macros, reader macros, imports and exports of the compiler; pre-compiled
  libraries; the wide instructions. They are further cases of what
  is modelled, without state of their own to go wrong concurrently.
* The containers (hash tables, vectors, strings, buffers) and the builtins on them:
  sequential, and covered by the tests of the repository.
* `sync`: each procedure is one call of libuv; the blocking ones are the `Block` of
  `VMsched`.
* `bdb`: debugger and program alternate in one thread; the rest is parsing
  commands.
* The memory regions, the disassembler, the REPL, the line editor and the modules
  that wrap one library call each: system calls, formatting and I/O.
* Vendored libuv and argtable3 are third-party; their mutexes, conditions, threads
  and event loop appear by contract. Spurious wake-ups of `uv_cond_wait` are left
  out (the code does not loop around its waits). Time and memory exhaustion other
  than stack overflow are left out.

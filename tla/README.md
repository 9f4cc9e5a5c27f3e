# A TLA+ model of NovaOS

NovaOS is a small x86-64 kernel for one CPU: Limine loads it, `_start`
(`kernel/kernel_main.cpp`) initialises the subsystems one after the other,
enables interrupts and becomes the shell. There are no user processes and no
locks; all concurrency is between task code and the interrupt handlers of the
timer (IRQ0) and the keyboard (IRQ1), and between the tasks that IRQ0 switches.

The modules here model the scheduler, the interrupt path from the descriptor
tables to the registers on the tasks' stacks, both memory allocators, the
keyboard driver, the console and the shell from their source. TLC checks them
on small instances; TLAPS proves their safety properties for every instance.

## Inventory of the system

| Part | State | Operations | Interacts with | Hard about it |
|---|---|---|---|---|
| Scheduler (`sched/scheduler.cpp`) | `s_tasks`, `s_count`, `s_current`, `s_ticks` | `sched_init`, `sched_create_task`, `sched_tick` | called by `_start` and by `irq_stub_0`; takes stacks from the heap | half-filled slots, fairness of the search, wrap of the tick counter |
| Context switch (`sched/context_switch.asm`) | the tasks' stacks and `rsp`, the registers, RFLAGS | `context_switch`, `setup_initial_stack` | called by `sched_tick` inside an interrupt | the order of pushes and pops; when `rsp` is saved; a new task does not leave the interrupt through `iretq` |
| Interrupt path (`arch/x86_64/idt.cpp`, `isr_stubs.asm`) | `idt`, RFLAGS.IF | `idt_init`, stubs, `isr_handler` | calls the PIT, PIC, keyboard and scheduler | order of EOI and switch; vectors without a gate; the bytes of a gate; error codes, alignment and `InterruptFrame`; the register dump |
| PIC, PIT drivers (`drivers/pic.cpp`, `pit.cpp`) | 8259 masks, requests, in-service bits; `s_ticks` | `pic_init`, `pic_enable_irq`, `pic_send_eoi`, `pit_init`, `pit_tick_handler` | programmed by `_start` before `sti` | what the firmware left behind; spurious interrupts |
| PMM (`mm/pmm.cpp`) | `bitmap`, `s_total_pages`, `s_free_pages` | `pmm_init`, `pmm_alloc`, `pmm_free` | reads the Limine memory map; used by the heap | ragged regions, regions past the bitmap, double frees |
| Heap (`mm/heap.cpp`) | `s_head` and the headers in the pool | `heap_init`, `kmalloc`, `kfree`, `kzalloc` | takes pages from the PMM; gives stacks to tasks | consecutive pages assumed; links after splits and merges; double frees; rounding |
| Keyboard (`drivers/keyboard.cpp`) | `kb_buf`, `kb_head`, `kb_tail`, `shift_held`, `caps_locked` | `keyboard_irq_handler`, `keyboard_getchar`, `keyboard_has_char`, `keyboard_peekchar` | IRQ1 writes, the shell reads, without a lock | interruption between test and `hlt`, between read and advance; full buffer |
| Shell (`shell/shell.cpp`) | `buf`, `idx` | `shell_task`, `shell_execute` | polls the keyboard, `hlt` | line buffer limit; one character per wake-up |
| VFS (`fs/vfs.cpp`) | a table of files | `vfs_init`, `vfs_create`, `vfs_open`, `vfs_list` | used by the shell | truncation, table limit |
| Console (`drivers/framebuffer.cpp`) | cursor, colours, pixels | `fb_putchar`, `fb_clear`, ... | used by the shell and the panic path | wrap and scroll at the last cell; tab near the right edge |
| Panic (`lib/panic.cpp`) | RFLAGS.IF | `kernel_panic` | `isr_handler`, `_start`, the shell | must never return, also when the shell calls it with interrupts enabled |
| GDT/TSS (`arch/x86_64/gdt.cpp`) | `full_gdt`, `kernel_tss`, GDTR, TR, the segment registers | `gdt_init` | the gates name its code segment | selectors and descriptors of three files must agree; split fields |
| Serial log (in `kernel_main.cpp`) | UART | `print_serial` | everyone | - |

What makes each part correct: one RUNNING task, no lost task, valid switch
targets, bounded waiting and exact slices (scheduler); no unexpected panic,
nothing left in service, a sleeper that can be woken, everyone keeps running, a
panic is final (interrupt path); every task has a CPU of its own, every trap finds its own stub, the register
dump is true (stubs, context switch, descriptor tables); a page has
one owner and the counters are true (PMM); the list tiles the pool, memory has
one owner, free neighbours merge (heap); accepted characters come out once and
in order, and always come out (keyboard); a line starts on an empty row and no
text is lost early (console); Enter executes what was typed, and the screen
shows it (shell).

## Modules

| Module | Models | Remarks |
|---|---|---|
| `Scheduler` | `scheduler.cpp`, and which frame `context_switch` resumes | one action per function; `skipped` and `ran` are history variables |
| `SchedulerProofs`, `PreemptProofs`, `PmmProofs`, `HeapProofs`, `KeyboardProofs`, `ScreenProofs`, `TrapsProofs` | - | the proofs; `PmmProofs` is about `Pmm` and `HeapPool`, `ScreenProofs` about `Console`, `Vfs` and `Shell`, `TrapsProofs` about `Descriptors`, `ContextSwitch` and `Traps` |
| `NumberLemmas` | - | facts about `%`, induction and recursion over numbers |
| `Preempt` | boot from the Limine checks to `sti`, RFLAGS.IF, 8259, IDT, the IRQ stubs, panics | composes `Scheduler` by INSTANCE |
| `SpuriousIrq` | `Preempt` on a PIC that raises spurious IRQ7s | |
| `TaskCpus` | - | what preemption promises: a CPU for every task |
| `ContextSwitch` | `isr_stubs.asm`, `context_switch.asm`, `setup_initial_stack`, `InterruptFrame` | refines `TaskCpus` |
| `Descriptors` | `gdt.cpp`, `idt.cpp` and their headers | the tables byte by byte, and as the CPU reads them |
| `Traps` | - | `Descriptors` and `ContextSwitch` together |
| `RegisterDump` | `u64_to_hex`, `print_serial` | one digit or character per step |
| `Pmm` | `pmm.cpp` | the passes of `pmm_init` take one map entry per step |
| `HeapPool` | `heap_init` | extends `Pmm` |
| `Heap` | `kmalloc`, `kfree`, `kzalloc`, `merge_next` | `kmalloc` walks one header per step |
| `BoundedFifo` | - | what the keyboard's ring buffer promises |
| `Keyboard` | `keyboard.cpp` | refines `BoundedFifo` |
| `Console` | `fb_init`, `fb_clear`, `fb_putchar` | the loop of a tab takes one blank per step |
| `Vfs` | `vfs.cpp` | operators: the table never changes after boot |
| `Shell` | `shell.cpp`, `fb_print`, `fb_print_dec`, `print_u64_dec` | composes `Console` and `Vfs` by INSTANCE |
| `MC*` | - | instances for TLC |

**Scheduler.** A slot of `s_tasks` is one function per field that is read.
`rsp` is abstracted to the kind of frame it points at: none, the hand-made
frame of `setup_initial_stack`, or one that `context_switch` pushed. An array
slot past `s_count` that a failed `kmalloc` left READY is kept, as in the code.
`sched_tick` is atomic because it only runs inside IRQ0 with interrupts off;
the creations are atomic because they only run before `sti`.

**Preempt.** An interrupt, from acknowledge to the instruction that leaves the
stub, is one step: all gates are interrupt gates, so IF is clear throughout.
What the step does to IF depends on the task it leaves to: `iretq` restores it
for a task that was preempted, the `ret` of `context_switch` leaves it clear
for a task that runs for the first time. Entry functions that execute `sti`
are the slots in `StiTasks`; the kernel's only task, the ticker, does not. The
8259 (priority, masks, edge-triggered requests, non-specific EOI) is modelled
from how the drivers use it. Boot begins with the checks of Limine's answers,
which may panic, and goes on with or without a heap; without one every
`sched_create_task` fails. `kernel_panic` is `cli` and `hlt` for ever.

**ContextSwitch** has one stack per task and one element per pushed word. When
`sched_tick` switches, and to whom, is `Scheduler`'s subject; here it may switch
at any tick to any other task. The C++ functions do to the registers what the
System V ABI allows: caller-saved ones are lost, callee-saved ones come back,
and `sched_tick` pushes those in `SchedUses`. The CPU aligns `rsp` and pushes
five words, and an error code where the vector has one. Exceptions are raised by
task code. That a stub may use the stack right below `rsp` and need not save
vector registers rests on the build's `-mno-red-zone` and `-mno-sse`.

**TaskCpus** is the abstract specification: a task's registers, instruction
pointer, interrupt flag and stack change by its own steps alone. The refinement
mapping `Virtual` reads, for a task that is not running, the frame on its stack.

**Descriptors** writes the fields of the GDT, TSS and IDT as the code shifts and
masks them, an address being its eight bytes, and decodes them as the CPU does.
A load that would fault ends the boot. **Traps** delivers a vector to the stub
whose address the gate holds, through the code segment its selector names; the
CPU shuts down where there is none. While the tables are built, the tasks'
stacks are shown as they are at `sti`, which comes later.

**RegisterDump** starts with arbitrary contents of the two bytes of the buffer
that `u64_to_hex` does not write.

**Pmm.** Callers free what they hold, what they freed before, and pages outside
the bitmap. The bitmap is kept as words of bits because `pmm_alloc` scans words.
The assumption on memory maps (usable entries do not overlap) is Limine's
guarantee; other entries may overlap anything.

**HeapPool** tracks which pages `heap_init` was given and which it then uses.
**Heap** works on offsets into that pool. `hdr` is a partial function: its
domain is where the magic number can be read, which includes the headers that
merging left behind. The caller of `kmalloc` overwrites all the bytes it asked
for, so stale headers there are gone. Callers free what they own, or `nullptr`,
or a pointer they freed before as long as its memory has not been given to
somebody else: a later double free is the caller's error and reads arbitrary
data.

**Keyboard** uses the source's two scancode tables in full. The reader is at
one of six points, and either interrupt may come at any of them; both end a
`hlt`. Keys go down, repeat and go up; codes arrive in the order the keyboard
sends them and none is lost on the way. An extended key (128 added to its code)
sends its code behind the prefix E0, which is an interrupt of its own; a key
that sends two extended codes, as Print Screen does, is two keys. Left out are
the inverted codes (E0 AA first) some keyboards put round the cursor keys while
Shift is held.

**Console** is a grid of cells, each with the glyph drawn last. Pixels and
colours are left out. When the height is not a multiple of `CHAR_H`, the strip
below the last row is never drawn on, so scrolling it into the last row brings
in background only. `fb_set_color` is not modelled: it changes no cell.

**Shell** handles a key in one step that puts everything it prints into `out`;
each further step gives one element of `out` to `Console`. The code prints
while it executes the command and resets `idx` afterwards; the difference
cannot be seen, since `buf` and `idx` belong to the shell and nobody else
writes to the console. Fixed wording is one glyph; sizes are printed digit by
digit, and an ASSUME of `MCShell` reads the digits back for 0 to 1200; the command words keep their
roles (exact, or a prefix with a blank) over a small alphabet. After `reboot`
and `panic` the shell stops.

## Runs

| Run | Instance | Shows |
|---|---|---|
| `scheduler` | 6 slots, slice 2, counter of 8 values | `OneRunning`, `SwitchTargetValid`, `BoundedWait`, `SliceExact` for 1 to 6 tasks, with every pattern of failed creations, through several wraps |
| `preempt` | 4 slots, lines 0, 1 and an unused one, any initial PIC state, with and without a heap, panics of `_start` and the shell | `NoInterruptPanic`, `NothingInService`, `ResumesEnabled`, `SleeperCanWake`, `PanicIsFinal`; under fairness `AllTasksRun`, for tasks that execute `sti` |
| `ticker` | 2 slots, the ticker as it is written | **violation** of `ShellKeepsRunning` |
| `spurious_irq` | 3 slots, otherwise as `preempt` | **violation** of `NoSpuriousFault` |
| `traps` | 3 tasks on stacks of either alignment, 2 pieces of code each, both interrupts, 11 exceptions | `SegmentsValid`, `EveryTrapHandled`, `CallsAligned`, `DumpTrue`; `ImplementsTaskCpus`, the refinement; no stack grows (`TrapTypeOK`) |
| `register_dump` | three register values, three values of an unwritten byte | **violation** of `AllDigitsShown` |
| `memory` | 12 pages in words of 2 bits, a pool of 3, 9 memory maps | `FreeCountExact`, `UsedNeverNegative`, `PagesConserved`, `LowestFirst`; `PoolExclusive` where the lowest run is long enough, `PoolKept` always |
| `heap_pool_hole` | the same | **violation** of `PoolBacked` |
| `heap` | a pool of 32 bytes: at most four blocks of 4 + 4 | `Tiling`, `UsedIffOwned`, `OwnedUntouched`, `AtLeastSize`, `Coalesced`, `NoFalseOom`; under fairness `KmallocReturns` |
| `keyboard` | a ring of 3, both Shift keys, Caps Lock, a letter, the extended Shift code of Print Screen | `ImplementsFifo`, `ShiftNotStuck`; under fairness `KeyDelivered` |
| `console` | 3 by 3 cells, tab stops every 2 columns | `FreshLine`, `TextKept`; under fairness `TabEnds` for stops on the line |
| `shell` | 6 by 2 cells, lines of 4 characters, all ten commands, two files | `EnterRunsTyped`, `LineShown` |

The type invariants of `Scheduler`, `Traps`, `Heap` and `Shell` (which includes
`Console`'s) are part of their runs.

*Why the bounds are enough.* The safety properties are proved below for all
values; for them the instances only guard against a mis-stated formula and
against a specification that cannot move. For liveness, and so that the instances have every case: three tasks
are the fewest for which a task can be passed over and a switch can lead to a
new, an old and the same task. Twelve pages in words of two bits give every
relation of a region to a word, to the pool and to the end of the bitmap. In
`traps`, three tasks let a saved frame wait while two others run and switch,
with a task's own stack empty or not on either alignment; two pieces of code
tell a register's current value from an older one of the same task; and the
exceptions are all those with an error code and two without. Four blocks give a
freed block every combination of free, used and missing neighbours on either
side, and 32 bytes allow remainders just above and below the split limit. A
ring of three slots can be empty, partly full, full and wrapped at every index.
Three rows and columns have a first, a last and one between. Lines of four
characters reach every command, with leading blanks where it is short enough,
and an unknown one whose message fills a row of six exactly.

*Fairness.* The CPU executes code that is not asleep, the PIT keeps raising
IRQ0 and the CPU takes a deliverable interrupt when IF is set; so the boot
steps from the Limine checks on, a new task's `sti`, the reader's steps, the walk of `kmalloc`, the loop of a tab, `Raise(0)`
and `Interrupt(0)` are weakly fair. Nothing is assumed of keys. That the reader
in `keyboard` keeps running presumes a scheduler that comes back to its task:
`KeyDelivered` is about the driver, and run `ticker` shows that the kernel as it
stands does not give the shell the CPU back.

### What the violations mean

* `ticker`: `sched_create_task` seeds a stack that `context_switch` enters with
  `ret`, inside IRQ0, with IF clear. `background_ticker_task` never sets it.
  Two ticks after `sti` the ticker has the CPU for good. The screenshots in the
  repository show a shell that accepts commands, so they were presumably taken
  of a different build; the source as it stands cannot return to the shell.
* `spurious_irq`: a vector without a gate is not silent, it faults.
* `heap_pool_hole`: the pool is correct only if the 64 lowest free pages above
  1 MB are consecutive. On QEMU's usual map they are.
* `register_dump`: the loop of `u64_to_hex` ends two digits early. The top byte
  of every register is missing, and the two bytes before the terminator are
  whatever the stack held, possibly a terminator.

Seen while modelling, without a run of their own: a tab in the last columns of
a line, from 76 of 80 on, never reaches its stop, since the line wraps first,
and `fb_putchar` prints blanks for ever (`TabEnds` has that premise; nothing in
the kernel prints a tab, the files have none and the shell drops it); vector 29
pushes an error code on some CPUs, but its stub expects none (the model never
raises it); `idt.hpp` says of `rsp` and `ss` "Only present on ring-3 → ring-0
transition", but in 64-bit mode they always are, and the dump relies on that; a
new task is entered by `ret` with a stack alignment the ABI does not have at a
function's entry (harmless without SSE); the way back in `isr_common_stub` is
dead code, since `isr_handler` never returns; a size within 7 bytes of 2^64
rounds to 0 in `kmalloc`, which then returns an empty block (no caller asks for
one); `keyboard_getchar` also returns Tab, which `keyboard.hpp`
excludes (the shell ignores it); on a screen of fewer than 136 columns a long
line wraps, and Backspace in column 0 does not return to the row above, so the
screen no longer shows what Enter will execute (`LineShown` has that premise);
`ls` breaks the line before the word "bytes"; `shift_held`
goes false when one of two held Shift keys is released; the prefix E0 is
forgotten, so an extended key is read as the plain key of the same code: a
cursor key types a digit of the keypad, and Print Screen, which puts E0 2A and
E0 AA round its own code, shifts while it is held; Shift together with
Caps Lock gives upper case, although `upper` is computed as their exclusive or;
the shell takes one character per wake-up, so a burst drains at the rate of
interrupts.

## Proofs

Every proof module shows `Init => IInv`, one lemma per action for
`IInv /\ [Next]_vars => IInv'`, and then the properties from `IInv`. The
constants have any value the named assumption allows; TLC evaluates the
assumption on every run. What `IInv` adds to the properties, and why:

**`SchedulerProofs`** (`SchedAssumption`: positive sizes, and `SCHED_SLICE`
divides `TICK_WRAP`, as 2 divides 2^32) proves `TypeOK`, `OneRunning`, `SwitchTargetValid`, `BoundedWait` and
`SliceExact`. `IInv` adds the state before `sti` (`Booting`, `Counted`);
`NearerEachTime`, because `BoundedWait` alone does not say where in the ring a
waiting task is: the number of times it has been passed over plus its distance
from the current slot never exceeds `s_count - 1`, and each switch trades one
for the other; and `SliceInPhase`, which ties the history variable `ran` to the
counter the code tests. The key lemmas are `NextReadyIsSuccessor` (the search
loop stops at its first probe, since every other task is READY) and
`NextTickPhase` (the slice test survives the wrap of the counter).

**`PreemptProofs`** (`PreemptAssumption`; any set of lines, any masks and
requests left by the firmware) first shows `ImplementsScheduler`: projected on
the scheduler's variables every step of the machine, panics and boot included,
is a step of `Scheduler` or none, so all of `SchedulerProofs` holds inside it.
It then proves `NoInterruptPanic`, `NothingInService`, `ResumesEnabled`,
`SleeperCanWake` and `PanicIsFinal`. `IInv` adds `InOrder` (which calls of
`_start` are over, and that IF is set only after the last), `OnlyHandledLines`
(an unmasked line has a gate and a handler, and the timer's is not masked
again), `PanicIsDeaf` (a panicked machine has IF clear) and `ShellAlert` (task 0
never has a hand-made frame, so every switch back to it sets IF; only it sleeps).

**`PmmProofs`** (`PmmAssumption`: usable regions do not overlap;
`HeapPagesAssumption`) proves `FreeCountExact`, `UsedNeverNegative`,
`PagesConserved`, `LowestFirst`, `PoolKept` and `PoolExclusive`. `IInv` adds
`InitPhases` (which regions the two passes of `pmm_init` have seen, and what
they have freed) and `TotalCovers` (`s_total_pages` is beyond every page of the
map, which keeps the unsigned subtraction from wrapping). The lemmas relate the
words of bits to sets of pages, among them that setting and clearing a run of
bits changes the count by the number of bits that differed, and that the scan
for a word that is not 0 followed by the scan in the word finds the least free
page. For the pool, `PoolPhases` says what `heap_init` has been given, and
`RunTaken` that it got a prefix of the lowest run of free pages, page by page.

**`HeapProofs`** (`HeapAssumption`) proves `TypeOK`, `Tiling`, `UsedIffOwned`,
`AtLeastSize`, `Coalesced`, `OwnedUntouched` and `NoFalseOom`, under the
hypothesis `RequestsFit` that rounding a request up does not wrap round: a
request within `ALIGN - 1` of 2^64 does (see above); the kernel's only caller,
`sched_create_task`, asks for the constant size of a stack. `Layout` states the
list as a relation between headers: neighbours meet, links are mutual
(`BackLinked`), and headers that merging left behind are free and inside a
block (`StaleFree`), which is what a double free then finds. `FreedNotOwned`
says that pointers a caller freed before own nothing, and `WalkSoFar` that the
blocks `kmalloc` has passed are too small or used, which makes a null result
real. A split and a merge are proved once, on values, and used for every action.

**`KeyboardProofs`** (`KeyboardAssumption`: at least two slots) proves
`TypeOK`, `ShiftNotStuck` and the refinement `ImplementsFifo`. `IInv` adds
`ReaderCommitted`: between the reader's test, its read and its advance the
character stays where it is, since the handler writes only at `kb_head`.

**`ScreenProofs`** (`ShellAssumption`: positive sizes, printable keys, text
files) proves `FreshLine` and `TextKept` of the console (with tabs: every cell
but the one drawn stays, or moves up with its row at the bottom), and
`TypeOK`, `EnterRunsTyped` and `LineShown` of the shell on that console. What a
character does is stated once, on values (`LineEffect`, `PutEffect`,
`EraseEffect`), and used for both instances of `Console`. The invariant of the
screen, `Good`, adds that nothing is written below the cursor's row and that the
last column of that row is blank: a character there would have ended the row.
`LineHeld` says that `buf` holds the line up to `idx` and nothing of what lies
behind, so that the NUL Enter writes cuts exactly there. `RowInStep` relates
the row of the cursor to what is still to be printed: a typed character on its
way, an erasure on its way, or the rest of a command's answer, which ends in a
new line and the prompt. That last fact, `ExecuteEnds`, is about the output of
every command and goes through the file table, `print_u64_dec` and `ls`.

**`TrapsProofs`** (`ContextAssumption`: any set of tasks that has task 0, any
sequence of callee-saved registers that `sched_tick` pushes, any alignment of
each stack; `TrapAssumption`: the stubs, the TSS and the stack have distinct
addresses of eight bytes, the IDT has a gate for vector 33 and fits the limit
of IDTR) proves `SegmentsValid`, `EveryTrapHandled`, `CallsAligned`, `DumpTrue`,
`TrapTypeOK` and the refinement `ImplementsTaskCpus`. The invariant `TrapsInv`
has two halves. `TablesInv` says, for each phase of the boot, which bytes of the
GDT, TSS and IDT are in place and what the CPU's registers have taken from them.
It rests on lemmas about the bytes: what the shifts and masks of
`set_gdt_entry`, `set_tss_descriptor` and `idt_set_gate` write is what the CPU
puts together again (`EntryBytes`, `TssBytes`, `GateBytes` and their `Reads`).
`HandlerIs` then gives every vector its own stub.
`CpuInv` says what is on every stack, for each place the CPU can be in:
where the interrupt frame lies and that it is aligned (`FrameAt`), what
`sched_tick` has put above it (`CurrentStack`), and for the other tasks that
they end in the two return addresses that lead back, or in the hand-made frame
(`Waiting`, `Fresh`). Without the return addresses `context_switch` and
`sched_tick_end` could leave to anywhere; without the height of the frame
`iretq` could take any words. `KernelRegs` (interrupts off, caller-saved registers
lost) is what a new task starts with, and `FaultShown` relates the words of an
exception's frame to the fields that `isr_handler` reads. For the refinement,
`Seen` is the CPU that a frame holds: the stubs fill it with the task's own
(`EnterSeen`), the kernel works above it (`SameSeen`), the switch leaves every
frame as it is (`SwitchSeen`) and `iretq` gives it back (`LeaveSeen`).

**`NumberLemmas`** derives division with remainder by a variable divisor, which
the SMT backend does not do alone, and from the library's least-element theorem
induction over sets of numbers and the existence of functions defined by
recursion (`RecursionOnNat`, `RecursionUpTo`). These are first-order: a proof
gives the set of numbers for which its claim holds, or the function that picks
the next value. They carry the proofs about `DigitsOf`, `vfs_init`, `vfs_list`
and concatenation.

Only model-checked: liveness (`AllTasksRun`, `KmallocReturns`, `KeyDelivered`,
`TabEnds`), since the prover has no support for fairness. Every invariant,
action property and refinement of the passing runs is also proved.

## Not modelled

The UART's registers and polling, pixels, colours, the font, the panic screen
and the texts of the exception names are output that nothing reads back.
`fb_print_hex`, `pic_disable_irq` and `pic_disable_all` are never called, and
the slave PIC's lines are never enabled. `pit_init`'s divisor is one division
of constants. `limine.h` declares a third party's protocol. The build and run
scripts keep no state of the running system.

## Plan

1. Proofs about the compositions: the frames of `ContextSwitch` under the
   scheduler of `Preempt`, the pool of `HeapPool` as the pool of `Heap`.
2. Compositions: tasks' stacks from the heap with the real constants (how many
   of the 15 stacks fit), the keyboard with the shell and the scheduler.

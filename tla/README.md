# gluKe: a model of the kernel in TLA+

gluKe is a small 32-bit kernel for the PC: a boot loader, paging, preemptive
tasks, virtual terminals, file handles, and a shell that starts and kills a few
built-in programs. One processor, no user mode: a program is a kernel task that
calls kernel functions directly. This directory models its core, checks it with
TLC on small instances, and proves its safety properties (all but one) with TLAPS
for all sizes.

## The system

Paths are relative to `src/`. What makes this kernel hard to test is that
critical sections are bracketed by `one()` / `all()`, a *counted* interrupt
disable in one global variable, and that many functions hold no section at all,
or leave theirs early.

| Component | State | Operations | Interacts with |
|---|---|---|---|
| Page allocator, `gluKe/rgn.c` | `free_als`, `reserved_als`: two tables of 300 blocks | `rgn_alloc`, `rgn_alloc_t`, `rgn_alloc_base`, `rgn_free`, `rgn_free_task_memory` | called by paging, tasks (stacks), drivers, node pool; swept by `task_kill` |
| Tasks, `gluKe/task.c` | list of `struct task` (plan, sleep, TSS), GDT descriptors, `killer_task_id_to_kill` | `task_newk`, `task_kill`, `task_kill_me` and the killer task, `sleep_mksec`, `task_switch` | handles and memory of the killed, scheduler |
| Scheduler, `gluKe/plan.c` | `last_planned_task` | `plan`, from the timer task | walks the list of tasks |
| Interrupts, `gluKe/int.c`, `int.S` | `off_count`, IF of every task, the PIC | `one`, `all`, `int_handle`, the timer task | everything |
| Terminals, `gluKe/drivers/term.c` | table of 10 terminals, `active_term_index`, pressed keys | open, read, write, ioctl, close; the keyboard handler | keyboard interrupt against readers |
| Handles and files, `gluKe/handle.c`, `file.c` | list of `struct handle` | `open`, `read`, `write`, `ioctl`, `close`, `handle_close_task_handles` | drivers, list, `task_kill` |
| Linked list, `mylib/linked_list.c` | head, tail, links | push, delete, walk, delete while walking | handles, tasks |
| Node pool, `mylib/mem_block.c` | chain of blocks, used flags and counts | `mb_alloc`, `mb_free` | takes blocks from the page allocator, gives them back |
| Mutexes, `gluKe/mutex.c` | name, lock count, usage count, owner in a handle | `mutex_open`, `mutex_lock`, `mutex_lock_nb`, `mutex_release`, `mutex_close` | handles, `sleep_mksec`, `task_kill` |
| Boot, `boot.s`, `entry16.S`, `entry32.c` | fixed memory regions | load, reserve, initialise in order | all |
| Paging, `sys_utils.c` | catalog and tables, identity | `init_paging` | page allocator |
| Shell, `ktasks/work.c`, with the tokenizer `mylib/mtok.c` and the conversions of `utils.c` | line, three words and the size they share | start, kill, commands that print | tasks |
| Programs, `ktasks/` | none of the kernel's | any kernel call | all |
| Life, `mylib/life.c`, `ktasks/ktask_life.c` | arena and counts of the generation | show a sample, a generation, end at a key | terminal in picture mode |
| Cpuid, build tools | none shared | sequential functions and scripts | |

What would make each correct:

* **Page allocator**: the two tables partition the RAM; free neighbours are
  joined; the lookup by base finds the live block though unused slots keep old
  bases; killing a task releases all it has and nothing of the boot; a release
  never fails.
* **Tasks and scheduler**: no pointer to a removed task; a dead task is not
  resumed; only planned and awake tasks are dispatched; exactly the running task
  is marked busy for the processor; ready tasks run, sleepers wake, dead tasks
  leave the list.
* **Interrupts**: no program is left with interrupts off; every key is served.
* **Terminals**: input count and output position in bounds; a line arrives as
  typed; a read returns when its line is complete; keys go to an open terminal;
  typing never brings the kernel down.
* **Handles**: list well formed; ids differ; every open terminal belongs to one
  handle; a killed task leaves none, and its end touches the files of no other; a
  lookup finds what is open.
* **Node pool**: no item is handed out twice; no block is given back under an
  item in use; blocks that are empty do go back.
* **Mutexes**: one task holds a mutex; one that a task has open stays as it is until
  the task closes it; a lock is never lost.
* **Shell**: no word overruns its buffer; a command removes the task its line
  names, and no other.
* **Life**: each generation follows the rules on a torus; no index leaves the
  arrays; the samples do what their names say.

The hard behaviours are interleavings (keyboard interrupt against a reader,
lookups against open, close and kill, ticks at any instruction with IF set),
partial failures that leave a section open, stale data in freed slots, list
nodes and terminals, kills at any point of a program, and full tables.
`PROJECT.json` lists them as hazards, each at its line.

## Modules

| Module | Models |
|---|---|
| `Rgn` | `rgn.c`, with the allocations of the boot |
| `PageStore` | the abstract allocator: a set of disjoint owned blocks |
| `Sched` | `task.c`, `plan.c`, `int.c`, and of the keyboard interrupt what touches the counter and the PIC |
| `Term` | `drivers/term.c` |
| `Handles` | `handle.c`, `file.c`, `linked_list.c`, and one block of `mem_block.c` |
| `FileTable` | the abstract table of open files: ids and terminals differ, a kill closes all files of a task at once |
| `MemBlock` | `mem_block.c`, a chain of any number of blocks |
| `Pool` | the abstract pool: an item has one holder at a time |
| `Mutex` | `mutex.c`, with the walks over the list of handles, `handle_open` and the end of a task; of `file.c` that handles of files come and go |
| `Locks` | the abstract locks: exclusive by name, nested, gone with their task |
| `Shell` | `ktasks/work.c`, `mylib/mtok.c`, `stoi` and `itos_ud` of `utils.c` |
| `Life` | `mylib/life.c` and its caller `ktasks/ktask_life.c` |
| `RgnProofs`, `SchedProofs`, `TermProofs`, `HandlesProofs`, `MemBlockProofs`, `MutexProofs`, `LifeProofs`, `ShellProofs` | theorems about the module of that name |
| `MCRgn`, `MCSched`, `MCTerm`, `MCHandles`, `MCMemBlock`, `MCMutex`, `MCShell`, `MCLife` | instances for TLC |

Operators marked "Faulty variant" are mutations used to see that each property
can fail; no specification uses them.

**What is one step.** Code between `one()` and `all()` runs without interruption
and is one step, except where it loops over a table while other properties look
at it (the sweeps in `Rgn` and `Handles`: one step per slot or node, during
which no other action is enabled). Code with interrupts on is split at each
access to shared state: the lookups in `Handles` and `Mutex` are a step per node,
`term_read` is scan, copy, move, subtract and an echo that goes symbol by symbol.

### Rgn
`free` and `reserved` are the two tables; addresses are page numbers, since all
bases and sizes are multiples of a page. `phase`, `booted` give the order of the
boot (`BootReserve`: `rgn_init`, `alloc_memory_not_in_use`; `BootPaging`:
`init_paging`). `Alloc`, `Free`, then `Kill`, `SweepSlot`, `SweepEnd` are
`rgn_alloc`, `rgn_free`, and `rgn_free_task_memory` in `task_kill`. `Free` takes
*any* page that is not the boot's, so double frees and frees of an address a
kill released before are included. Stale bases are kept as in the code:
`ReservedWithBase` compares unused slots as well, `TakeAt` does not write the
owner. `Kill` does not mark the task dead: ids are used again.

### Sched
One processor: `cur` runs. `ifl` is the IF bit saved with each task and
`off_count` the shared counter. `Tick` is the timer interrupt through its task
gate, which runs `plan(0)` and returns to the chosen task: one step, as the
timer task runs with IF clear. `Section` is any kernel call whose work is one
section. `SleepMksec`/`SleepSwitch`, `TaskKillMe`/`KillerRun` are split at the
points where IF may be set. The list of tasks is in the order of ids (a new id is
one more than the largest, appended at the end), so a set represents it and
`Ahead` gives the distance of the walk. A key is `KeyPlain` (the handler runs to
its end with IF clear) or `KeySwitch` and `KeyDone`: `switch_to_term` sets IF
before `int_complete`, so the second half may be preempted, or lost with its task.

`CountInRegister` chooses the build. `int_handle_timer` decrements `off_count`,
executes `iret`, and increments it when the next tick resumes it. The image in
the repository (`gluKe.bin`) keeps the variable in a register across the `iret`,
so what other tasks did to it is overwritten; another compiler need not.
(With the counts of `task_kill_me` and of the killer never given back, the shell
of such a build runs with interrupts off for ever after a program ends: the
faulty variant `CountReloaded`, which breaks `NeverLeftMasked`, is that build.)

`busy` are the busy flags of the TSS descriptors and `prev_task` the back links,
both moved by hand in `task_set_previous` so that the `iret` of a switch finds the
flag of its target set (`SetPrevious`). Back links are never cleared, so a switch
may clear the flag of a task that was its predecessor long ago, or is gone.

### Term
A terminal is a record with the fields of `struct term_data` that matter:
`iend`, `input`, `osize`, output mode, show, block and line flags. The picture is
abstracted to the output position `osize` in symbols. Symbols are newline,
backspace, carriage return, the 0 that ends a line, and plain; only newline,
backspace and plain can be typed. `typed` and `fresh` are history variables for
`LineIntact`. `Move` copies as many bytes as were read, as
`kmemcpy(td->input,td->input+i,i)` does, and not the rest of the buffer.

The echo of a line is `st_add_to_output` with interrupts on: `EchoSymbol` is a
round of the loop of `append_to_buffer`, `EchoScroll` the scroll, a copy of
the whole screen at the end of which `osize` comes back from past the screen,
`EchoTest` the question whether the terminal is active, and `EchoShow` the section
that shows it, which is shown then though the user may have switched since.
`term_write` holds a section for the whole text, so `TermWrite` is one step. Only the
task that has a terminal open writes to it; the one exception, the message of a
program whose `open` failed, which goes to the terminal of the kernel, is left out.

A key shows the terminal, wherever a task is. `Show` records the two ends that has
for the kernel: `died`, when `iend` is negative, for the count is passed as
unsigned; and `overrun`, when the position is past the screen and a symbol is
written there, which is past the copy of the screen on the stack. After either the
model ends.
`EraseRead` restricts the user: FALSE means that backspace is used only while
typing the first line after the input was cleared, never on a symbol that a read
may be taking out.

### Handles
`used`, `head`, `tail`, `next`, `prev` are the list over a pool whose nodes keep
their contents when freed; `id`, `task`, `term` the contents, `busy` the used
flags of the terminals. A kill may come while the victim is in a walk.
`new_handle_id` runs when the node is already in the list and counts the id its
last user left: contrary to the comment at `handle.c:7` the new id can be more
than one above the largest open id. Ids differ all the same.
`OpenFiles` is the abstract state: the handles in the list, less those of a task
being killed, which stop to count when `task_kill` begins and which the sweep has
yet to release.

### MemBlock
`chain` and `before` are the blocks and their order, `flags` and `used_items`
what each keeps of its items. `given` is a history variable: the holders of each
item, and the state of `Pool`. `AllocFurther` takes a block from the page
allocator when all are full, `FreeItem` gives one back when its count reaches 0.
`Kill` is the release of the memory of a killed task: a further block belongs to
the task that happened to run when it was taken, so a kill can take it away under
the items of all others. Nothing can be said of the memory after that; `swept`
records it and the model ends there. The properties hold up to that step.

### Mutex
A mutex is a node of the handle table: `listed` and `after` are the nodes in the
list and their order, `stale` the link of a node that was removed, `isMutex`,
`name`, `creator` what it keeps, and then come the fields of `struct mutex`. Only
the try of a lock, and release and close once they have found the mutex, hold a
section. All else is split where others may come between:

* A lookup, by name in `mutex_open` and by id in all other calls, is a walk that
  stands on a node (`at`) and goes on by its link, a step per node (`StandOn`,
  `OpenNext`, `CallNext`). A node removed under the walk leads on by the link it
  had, and ends the walk if it was appended again. So a walk may pass by a node
  that is there all the time: `mutex_open` then makes a second mutex of the name, and
  `mutex_lock`, `mutex_release` and `mutex_close` return -1 and have changed nothing.
  Other tasks append and remove mutexes and files (`FileOpen`, `FileClose`).
* `mutex_open` goes on with `handle_open`, the filling in of the node, and the
  count; `mutex_lock` tests for the owner, and tries.

The link a walk follows is read once: the image is built with `-O2`. A walk by id
compares ids, which differ in the list (`IdsDiffer` of `Handles`), and a node that
was removed keeps the id it had, so no walk by id finds a node that is not the one
asked for. `holds` is a history variable, the locks a task was granted and has not
released.

The code leaves six windows in which another task spoils the mutex, and the
history variable `faults` names the ones that were hit:

| Window | What happens |
|---|---|
| `twins` | a task makes a mutex of a name that has one, or is being given one: two opened it at once, or the lookup passed it by (`mutex.c:32`, `42`) |
| `found early` | a node taken by `handle_open` is found by the name of its last use before it is filled in |
| `reset` | opening a mutex that is held sets its `lock_count` to 0 (`mutex.c:56`) |
| `overtaken` | a task that was the last owner tests for that, another takes the free mutex, the first counts it up (`mutex.c:72`) |
| `gone` | the last user closes it between the lookup of another and its count, or it is removed while the lookup stands on it |
| `killed` | the creator's end removes it under its users, or a user ends and leaves its counts |

The model ends when one is hit. The properties say that until then the mutex is
exclusive, kept for its users and loses no lock, so that these six windows are *all*
that is wrong with it: any other way to two holders would be a counterexample. That a
call by id fails because its walk misses the mutex is no window: it leaves the locks
and the users right, and may be made again (`OpenIsKept`).
`Locks` says the same as a specification: a mutex is a lock of it when it is in
the list, in use and locked, by its fields alone (a node just made into a mutex
keeps the `lock_count` of its last use until `mutex_open` clears it, and is no
lock). `broken` is that a window was hit; nothing is promised from then on.
A program closes a mutex only when it has released it: `mutex_close` does not
look, and with other users left the mutex would stay locked for good. Left out are
an open of a file that fails, which removes its node in the section that appended
it, and the file of the kernel: it is always the first node, so that a walk leaves
it with its first step.

### Shell
`Read` is a round of the loop up to the three words; `StartKtask`, `KillTask`,
`Other` are the commands; `TaskEnds` comes at any time in between. `Mtok` returns
what the code returns, the size needed for a word too long included, and
`word_size` is the one variable all calls share. A symbol is a string of one
letter. `Stoi` wraps at `Width` bits, `ItosUd` negates what is negative as an
`int`. The reference definitions, in the properties, point at words in the line
(`WordOf`) and say which number digits write (`Written`, `Meaning`), by positions and
powers, whatever its size. `KillsTheNamed` is about the lines whose number an `int`
can hold (`FitsInt`); of larger ones it does not hold, see below.

### Life
The arena is the set of live indices, `count_arena` the function from the indices
counted at least once. A count at an index outside of the array stays in the
domain, where `InsideArena` sees it. `CountPass` and `UpdatePass` are the two
passes of `st_life`; `Target` is its wrapping of the index, row and column apart.
`KeyPressed` is the callback that finds a symbol, with the release of both arrays
and the change of the mode. Both arrays belong to one task, so no step of another
task matters between the passes.

## Runs

| Run | Shows |
|---|---|
| `rgn` | partition, merge, lookup, sweep, release, refinement of `PageStore` |
| `sched` | pointers, dead tasks, dispatch, whom the killer ends, interrupt flag, busy flags; ready tasks run, sleepers wake, plain keys are served |
| `term` | reads against typing, switching and closing |
| `handles` | opens, closes, kills and walks of two programs; refinement of `FileTable` |
| `memblock` | items, counts, refinement of `Pool`, in a chain that grows and shrinks |
| `mutex` | exclusion, users and locks of two tasks, with walks under which nodes go and come; a task that waits for a free mutex gets it, or another does; refinement of `Locks` |
| `shell` | words, sizes, numbers, and the task a command removes |
| `life` | 120 generations of the four samples on the arena of 80 x 25 |
| `sched_keys`, `sched_dead`, `term_erase`, `handles_walk` | counterexamples, below |

**Bounds.** `rgn`: 5 slots per table and 7 pages: two boot regions and a page of
paging leave two slots of the reserved table, enough to fill it, empty it, and
meet stale slots. (The free table has an empty slot in every state of the run:
once page 0 is reserved each free block follows a reserved one. A release
depends on that, which `FreeNeverFails` states; the proofs remove the bound.) `sched`: ids up to 6
and 2 starts, so two programs, a kill between the starts and an id used again,
enough for one to be overtaken by kills of the other; tick of 5 and a delay of
13, so three ticks: with two, a sleeper would be awake before the search came
round to it. `term`: two terminals, an input buffer
of 3 and reads of 2 and 3, so that lines fit exactly, do not fit, and fill the
buffer; a screen of 2 x 2 scrolls after every few symbols, so that keys meet every position
of an echo. `handles`: 4 nodes,
3 terminals, so that opens fail and nodes are reused; ids to 5. `memblock`: 4
blocks of 3 items, so that a block in the middle of the chain is emptied, given
back and taken again at the end. `mutex`: two tasks, one name, two nodes, so that
nodes are used again for a mutex or for a file, and a walk stands on a node that goes
and comes back; and two nested locks. All windows, lookups that miss a mutex, and
nodes matched after their removal are met. A second name or a third node makes the
run many times as long; that the mutex of another name is never touched is shown by the
proofs, which are for any number of names, nodes and tasks.

`shell`: lines of up to three words; a buffer of 4 bytes, so words of three
letters fit and of four do not; integers of 5 bits, so that 37 is 5 and numbers
of 16 and more are negative; ids to 10, so that decimal, octal and hexadecimal
differ.

`life`: the arena of the program itself, and 120 generations: the gliders are all
around both edges after 100, and every oscillator passes its period of 14, 15 or
30 at least four times.

Deadlock is not checked in `rgn`, where the kernel stops in `die()` when a boot
allocation fails, and in `life`, where "exit" ends the program. It is checked in
all the other runs.

**Type invariants** are proved (`TypeCorrect` in the modules of proofs; in that of
`Shell` the inductive invariant begins with the types), so only the run of `Term`,
whose types are the least obvious, checks one. `IdsDiffer` and `KillClosesAll` of
`Handles` are proved as well and not run: a second handle with an id, or one left
by the sweep, would break `ImplementsFileTable`. `Partition`, `LookupSound` and
`LocksHeld` are conjunctions, of `NoOverlap` and `NoLeak`, of `FoundIsOpen` and
`KernelFileFound`, of `HeldByOne` and `LockHasHolder`.

**Fairness.** `Sched!FairSpec`: the PIC latches an interrupt until it is
delivered, so an interrupt that can be delivered again and again is (strong
fairness of `Tick` and of key delivery). A task that is given the processor
again and again makes progress through straight-line code (strong fairness of
`KeyDone`, `KillerRun`, `SleepSwitch`; weak for the boot and the shell's start).
No fairness on what programs or the user decide. `Term!FairSpec`: a reader that
can go on does, which is `ReadyRuns` of the scheduler. `Mutex!FairSpec`: a task that
waits in `mutex_lock` tries again (`ReadyRuns`, and `SleeperWakes` after its sleep),
so a mutex that stays free is taken; nothing is assumed of other calls. That a waiting
task meets a moment at which a mutex taken in turns is free is not assumed either:
`FreeIsTaken` is about a mutex that nobody holds.

### Disagreements found

1. `sched_keys`: a CTRL+Fx key sets IF inside the keyboard handler; the handler
   can be preempted before the EOI. If it ran on the first task, which is not
   run again while the shell polls, or on a task that is then killed, the
   keyboard is dead.
2. `sched_dead`: a tick as the killer is first entered leaves the dead task in
   the list: the killer is never planned.
3. `term_erase`: backspace while a line is taken out makes `iend` negative; the
   next echo copies through memory, to a page fault.
4. `handles_walk`: `read` of an open file fails when nodes before it are freed
   and reused during the walk.

Met while modelling, without a run of their own:

* A key pressed while the echo of a line scrolls (`term.c:128-152`, reached from 384
  with interrupts on) finds `osize` past the screen. The keyboard handler copies that
  much and `append_to_buffer` then writes the symbols of the input line (line 139)
  past its array `output`, on the stack of whatever task was interrupted. `overrun`
  records it, and `OutputInside` says that it happens at no other moment.
* `work.c:35` says "kill arg - kill task with id=arg". `stoi` adds up in an unsigned
  `int` (`utils.c:128`) and never tells that it wrapped: `kill 4294967301` ends task 5,
  as `kill 37` does in run `shell`. `KillsTheNamed` leaves these numbers out and would
  not hold with them.
* The six windows of `mutex.c`, its calls that fail because their walk misses the
  mutex, and a pool block released with the task that happened to take it, above. No
  document promises otherwise, and the images of the repository do not get there: no
  program opens a mutex, and the first block of a pool is a page.
* `mtok.h:16-18` says that `cur_pos` stays where it was when the buffer is too
  small; `mtok.c:58` moves it behind the word before it looks at the size. The
  shell depends on the code: the next word is then the next word.
* `term.c:375` ends a line with a 0 for which the caller kept no place: one byte past
  the buffer when the line fits exactly. `reverse` and the shell pass 200 bytes, more
  than an input line has; the prompt of the game of life passes all 20 of its array.
* `term.c:203` asks whether the terminal is active before the section that shows it:
  a switch in between, and the screen shows a terminal that has not the keyboard. The
  step is modelled, the symbols on the screen are not.
* `itos_ud` and the other unsigned conversions pass their number as an `int`,
  and `itos` prints its distance from 0: wrong from 2^31 on. `KillsTheListed`
  holds below.
* `handle.c:7` and the ids of tasks: "one greater than max existing": the id of
  a task or handle that is gone may be given again at once, and the shell's user
  cannot tell.

## Proofs

All theorems hold for every value of the constants that the named assumptions
(`SizesAssumption`, `BootAssumption`, `OwnersAssumption`, `SchedAssumption`,
`TermAssumption`, `HandlesAssumption`, `MemBlockAssumption`, `MutexAssumption`,
`ShellAssumption`, `SizeAssumption`, `BoundAssumption`) allow: only that sizes are
natural numbers, owners are distinct and so on.

**RgnProofs.** The inductive invariant `TablesInv` is typing, `NoOverlap`,
`NoLeak`, `Coalesced` and `LookupFindsLive` together. None is inductive alone:
that a release keeps `NoOverlap` needs the lookup to find the live block, joining
needs `Coalesced` to have at most one neighbour on each side, and `NoLeak` bounds
the blocks. There are three table operations, and one lemma each
(`TakeFrontInv`, `TakeAtInv`, `FreeIndexInv`); `NextTables` says that every
action does one of them or nothing. The sweep adds `SweptClean` and that the
victim is a task. `RgnImplementsStore` shows each step to be a `Take`, a
`Release` or a stutter. `ReleaseNeverFails` counts: when the free table is full
every one of its blocks that does not begin the RAM has a reserved block right
before it, and if no free block ended at the block to release, mapping blocks to
their predecessors would put two blocks on one page.

**SchedProofs.** The inductive invariant `SchedInv` adds to the properties that
the four system tasks stay in the list (and the killer is told of programs only),
that the shell is planned and awake, and that ended programs are not planned.
The last two are why `plan()` is right: its search always meets the shell before
it falls through to the unchecked `last_planned_task`. `NeverLeftMasked` needs
`Unmasked`, and only for `CountInRegister`. `OneBusy` needs
besides only that the timer task is never planned and never the running one.
`KillerSpares` needs `KillerTold`: while the killer runs and its task is in the
list, `killer_task_id_to_kill` is a task that called `task_kill_me`. The variable
is never cleared and ids are given again, so the old id may be that of a new
program; what makes this harmless is that the killer runs only when it is
switched to, right after the variable was written, and is never planned.

**TermProofs.** `ActiveOpen` follows from a one to one relation of terminals in
use and tasks (`Owned`), whatever the user does. The others are about one task
and its terminal, `ReaderOK`: at each point of `term_read`, what the task has
counted, copied and moved agrees with the input line and with what was typed.
The inductive core is that a line being taken ends in a newline (`Counted`),
which a user who erases only the line being typed never takes back: so the count
stays at or above the bytes to subtract. All but `ActiveOpen` therefore assume
`~EraseRead`, and run `term_erase` shows that they need it. A full buffer ends
in a newline (`FullEnds`) except between move and subtraction.
`OutputOnScreen` and `TypeCorrect` hold whatever the user does. Their invariant
(`Echoers`) places each reader in its echo: the position of its terminal is at the end
of the screen exactly while the task is about to scroll, and on the screen at all
other steps, whatever keys, switches and closes come between, since a terminal has
one task (`Owned`) and a task in its echo is in no other call. So the step that
overruns the copy of the screen shows a terminal whose task is at its scroll
(`OverrunStep`), and nothing moves after it. The position
after a written text is a fold over its symbols, so they are inductions over its length:
the induction is over a *set* of lengths, through the least length outside of
it (`WFMin` of the library), as the provers cannot take a predicate as a parameter.

**HandlesProofs.** That `next` and `prev` are inverse does not make one list: a
ring beside it would do as well. The induction closes with the order of the ids:
each new one is the largest and goes to the end, so the list is sorted by id
(`Sorted`), head is the least and tail the greatest. `KillClosesAll` needs that
the sweep has the nodes of the victim ahead of it, which is again the order of
ids. For `FoundIsOpen` a walk is related to the nodes it cannot have left.
`KernelFound` says that run `handles_walk` is not about the kernel's terminal:
its node is the first from the boot on (`KernelFirst`), so a walk for it stands
on it from the start. `TableImplemented` maps every step to a step of `FileTable`:
the step that kills maps to the end with all files, the sweep, node by node, to
stutters, its last step to the moment at which files may change again. That an
open adds one file needs that the new row differs from all in id and terminal, and
a close takes one away needs that no two nodes have the same row (`RowsDiffer`),
which are `IdsDiffer` and `TermsHeldOnce` in all states before.

**MemBlockProofs.** `HeldIsLive` and `CountsRight` together: a block is dropped by
its count, so only the two show that no other of its items was in use. Steps
then map to `Take`, `GiveBack` or a stutter of `Pool`.

**MutexProofs.** Under `faults = {}` the invariant `Sound` has five parts: a lock
is exclusive because names are unique (`OneName`), a name stays unique because a
mutex in use is in the list (`Tied`), and it stays there because its users are
counted (`Counted`, a cardinality). Nothing of this depends on where walks stand, and
no lemma assumes that the links make a list: a walk may go anywhere and miss
anything, and what follows from a miss is either a window (`OpenCreate`, `OpenFound`)
or nothing (`LooksOnly`, `WaitsOnly`). So the theorems hold for lookups interrupted at
every node. `NoLockLeftOver` adds `Held`: every lock of a
mutex in use is one that a user was granted, count for count; a mutex not in use
says nothing, as its fields are those of an older use. `LocksImplemented` shows
steps to be an `Acquire`, a `GiveBack`, an `End` or a stutter of `Locks`, and every
step into a window a `Break`: the others leave all rows but one as they are
(`OneChanged`), and a kill takes away exactly the rows of the killed task.

**LifeProofs.** For every arena of at least 80 by 25, the size all four samples
fit on, `InsideArena` and `NextIsConway`. The wrapping of `st_life` is a step
around two rings, which can be taken back and never ends twice at one place when
a ring has three places or more; so the cells that count themselves at a cell
are, each once, its neighbours (a bijection), and the count is the number the
rules ask about. The invariant adds that each first pass begins with zeros.
`TypeCorrect` adds that a count, a character in the code, never exceeds eight.

**ShellProofs.** The invariant (`ShellInv`) is short: a buffer's size is what every
line begins with, and between the line and the command the first two words are
those of the line. The work is in the operators.
`FirstWord` and `SecondWord` show that the scan of `mtok` finds the parts that
`WordOf` points at, by counting the parts that begin no later than one.
`StoiIs` shows that a remainder taken after every digit leaves the remainder of
the value of all digits (`ModStep`), `WrittenIs` that the sum of the digits by the
weights of their places is that value, in whatever order a sum over a set takes its
members out (`SumAnyOrder`), and `DecimalIs` that the digits printed for a number
have its value and do not begin with a 0, which would make them octal.
`MeaningIs` puts them together: `stoi` makes of a word the number it means, less the
bits beyond an `int`.
`FoldLeft`, `MapThenSumSet` and `Decimal` are recursive functions: `ComputesExists`
and `FoldExists` first show that there are such functions, and inductions over sets
of numbers say what they return. `KillAsNamed` is about the numbers that an `int` holds,
of which no bits are lost (`IntHolds`); `KillAsListed` is about the ids that are positive as `int`.

**Only model-checked:** liveness (`ReadyRuns`, `SleeperWakes`, `PlainKeysServed`,
`LineReadReturns`, `FreeIsTaken`), since the prover has no rules for fairness
here; and the periods of `OscillatorsRepeat`, which are facts about three
pictures, by calculation. All other properties of the passing runs are proved.

## Not modelled

Contents of TSS, GDT and IDT other than busy flags and back links; exceptions,
which all end in `die()`; symbols on the screen and pixel mode; the message of a program that got no
terminal; scan codes; the
boot loader and build scripts, straight-line code; cpuid. Error paths that leave
a section open (`file.c:104` and others) need callers that no program in the
repository contains, or exhausted memory. Mutexes without a name, `mb_destroy`,
`ll_pop_back`, `ll_delete_all`, `stois`, `phex`, the single symbol tokens of
`mtok` and the boat of `life.c` have no caller.

## Plan

Done, most important first: `Rgn` with `PageStore`; `Sched`; `Term`; `Handles`;
`Life`; `Mutex`; `MemBlock` with `Pool`; `Shell`; proofs of all of
them; `FileTable` and `Locks`, with the proofs that they are implemented. Next:

1. A composition of kills: handles, terminals and memory released by one
   `task_kill`, against an abstract specification of resources by owner, of which
   `FileTable` and `PageStore` are the parts.
2. Callers that leave a section open: how long the kernel then goes without a
   tick, in `Sched`.

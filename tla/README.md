# A TLA+ development for ApnaOS

ApnaOS is a small 32-bit teaching kernel: a page heap, cooperative processes
with `fork`/`wait`/`exit`/`yield`, an in-memory file system, a keyboard and
screen driver and a command loop. These modules model it from its source, TLC
checks them on small instances, and TLAPS proves the safety properties of the
runs that hold, both refinements and the progress of the rebalancing loops for
every value of the constants.

## The system

| part | source | state | operations | talks to |
|---|---|---|---|---|
| heap | `memory/memory.c` | `page_table` (one tag per page), `last_page_index` | `kmalloc`, `kfree` | called by processes |
| ready queue | `process/process.c` | linked list of PCBs by `priority` | `enqueue_process`, `dequeue_process` | used by the scheduler and system calls |
| processes | `process/process.c`, `process/syscall.c` | PCBs, process table, `current_process`, `next_pid` | `create_process`, `schedule`, `fork`, `wait`, `exit`, `yield` | heap, queue, command loop |
| CFS queue | `process/rbtree.c` and two static functions | red-black tree | insert, erase | built, not called yet |
| file system | `filesystem/filesystem.c` | superblock, inodes, directory, bitmap, blocks | create, delete, chmod, read, write, append | command loop |
| command loop | `kernel.c` `cli_loop`, `keyboard/string.c` | the line, `strtok`'s static pointer | one command per line, cut into tokens in place | creates processes, calls `schedule()`, calls the file system; `schedule()` calls it back when no process is ready |
| keyboard | `keyboard/keyboard.c`, `kernel.c` `read_line` | line buffer, `input_line`, `input_ready` | interrupt handler, `read_line` | interrupts the command loop and every process |
| screen | `kernel.c` | cursor, video memory | `putchar`, `scroll_screen` | called from the loop, from processes and from the interrupt |
| interrupts, boot, serial log | `interrupts/`, `boot.asm`, `keyboard/gdt.*`, `serial.c` | tables, ports | set-up, dispatch, printing | below everything |
| sample programs | `test_processes/` | | system calls | run as processes |

What is hard here. One CPU, no preemption: the timer has no handler, so a
process keeps the CPU until it gives it up, and a call runs to the switch of
stacks undisturbed. The difficulty is in the orders in which processes call:
who is queued, blocked, freed or half-created when somebody else's call comes.
Only the keyboard interrupt is truly concurrent, with the command loop. Memory
and disk are finite and each failure leaves some of the work done.

What makes each part correct:

* heap: blocks never share pages, the tags let `kfree` find a block's end;
* queue and processes: every process is in exactly one place, nobody sleeps
  beside a finished child, `wait` reports the right child and status once,
  stacks are private, a process resumes where it stopped, equals take turns;
* file system: bitmap, inodes and directory agree; a file's bytes are what was
  written to it, whatever happens to other files;
* run queues: links and colours are right after any history, the rebalancing
  loops end, PCBs come out by key and, among equals, by arrival;
* command loop: a line leads to the call its words ask for, whatever earlier
  lines left behind;
* keyboard and screen: a line is read as it was typed, a line that is ready is
  taken, the cursor stays on the screen.

`PROJECT.json` lists the hazards line by line with the properties that cover
them, or the reason why none does: starvation by a smaller priority number, the
`wait` without children, the fork in a forked child, the PCB leaked when a stack
cannot be had and the depth of command loops are in the models, but the
repository promises nothing about them.

## Modules

**`Memory`** — `memory.c` as operators on a page table and a cursor. `Fits` is
the scan of `allocate_pages`: distances from the cursor at which the requested
number of free pages follow each other within one round, so a run that lies
across the cursor is not found, while a block may run past the last page and go
on at page 0. `Kfree` walks the tail tags but not past the end. Sizes are bytes
in `size_t` arithmetic (`SIZE_MOD`). A block is named by its first page, which
determines the address `kmalloc` returns.

**`PageAllocator`** — the heap under an arbitrary client. `live`, the blocks the
client holds, is a history variable.

**`ReadyQueue`** — the linked queue as a sequence, front first. `Position` is
where the walk of `enqueue_process` stops.

**`RunQueueNodes`, `LinkedQueue`, `RBTree`, `RunQueues`, `KeyedQueue`** — the run
queues pointer by pointer. `LinkedQueue` has `front`, `rear` and the `next` fields
as the three `enqueue_process*` functions (the same code on `priority`,
`deadline` and `time_to_run`) and `dequeue_process` leave them; the constant `Key`
stands for whichever field orders the queue. `RBTree` is `rbtree.c` with the side
as a parameter, where the code writes each case twice. `SetParent`, `SetKid`,
`Hang` and `InPlaceOf` are its groups of assignments; `Walk` (in `RunQueueNodes`)
is a loop that follows pointers. `Linked` is the descent of `cfs_enqueue`, `Unlinked` is `rb_erase` up to `color_fixup`, `InsertPass` and
`ErasePass` are one pass of the two loops. The fields an erased node keeps are
forgotten: `rb_link_node` sets all of them before they are read. `RunQueues` puts
both behind the same PCBs, a step per operation on the list and per pass in the
tree. `KeyedQueue` is what both promise, in terms of the same `ReadyQueue` that
`Processes` schedules with, so the list that the kernel runs on is shown to be the
sequence of `Processes`.

**`Processes`** — processes on the heap. A PCB is named by the heap page it lies
in, and `pcb[p]` survives `kfree`: a new PCB in a used page starts with the old
fields wherever the code forgets to set them. Every system call is one action up
to the switch of stacks; `wait_syscall` is two (`WaitBlock`, `WaitReturn`),
because it goes on after the switch back. The first search of `wait` is
`WaitReap`. `schedule` is an operator that all of them end in, called with the
PCBs and the queue they leave. A saved `user_stack_ptr` is modelled by what
happens when it is loaded (`resume`): the program starts, goes on after a yield,
goes on inside `wait`, returns 0 from `fork`, or runs on a frame that is gone
(`stale`) or on no stack of the process (`wild`). Loading one of the last two is
mode `crashed`. `mode` also tells the command loop of `kernel_main` from the one
nested in `schedule()`, whose `exit` command hangs. `fork_syscall` stores its own
frame in the parent's `user_stack_ptr`; the frame is gone when fork returns, so
`resume` stays `stale` while a process runs. `ParentPid` of a process without
parent is the word at physical address 0 (paging is off), `LOW_MEMORY`, assumed
not to look like a pid. `Calls` says which calls the programs of a run make.

**`ContextSwitch`** — `Processes` with what stacks hold across a switch. Each
action of `Processes` is conjoined with what it does to `kernel_depth` (how many
frames of `schedule()` lie above `kernel_stack_ptr`), to the depth of nested
command loops, and to `frame`, the user stack a program's frame pointer leads to.
The build does not optimise: `schedule()` leaves a frame of fixed size, and a
program reaches its variables through `ebp`, which `schedule()` pops from the
stack `fork_syscall` copied. `variable` is the one variable that takes the result
of fork; `forked` remembers that result. Beyond the end of a stack nothing is
modelled (`InBounds`).

**`FileSystem`** — all calls of `filesystem.c`, with the bytes of the blocks. A
call is one action per way it can end; `last` records what it returned.
`Allocations` is the set with the one assignment `allocate_blocks` makes.
`Transferred` and `Copied` are the copy loops, which stop at an empty pointer.
Permission bits are the set of modes they grant; the execute bit is never asked
for. Names are compared whole (`MAX_FILENAME_LEN` exceeds any command line).

**`FileStore`** — the promise of the file system: named files with bytes and
permissions, no inodes or blocks. `FileSystem!ImplementsFileStore` instantiates
it with the contents computed from inodes and blocks. It is a permissive promise:
a creation may fail at any time and a write or append may store any prefix of what
it was given. With a block for every pointer `RoomForEveryFile` limits the first
to a full directory; `files_short` shows that the code breaks the obvious limit to
the second.

**`Terminal`** — the keyboard driver, `read_line` and the screen's cursor.
`keyboard_handler` runs behind an interrupt gate, so each kind of key is one
action, echo included (`AfterGlyph`, `AfterNewline`; the echo of a backspace is
three characters, for `putchar` has no backspace). The main thread runs with
interrupts on: in `putchar`, `scroll_screen` and `read_line` it takes one action
per access to memory it shares with the handler, as the unoptimised build does
(`vga_row++` is a load and a store; the loop of `read_line` reads each character
twice). `pc` is its place, `reg` what it has loaded. Processes that print are the
same main thread. A character is its key and whether it is shifted; `typed`,
`line` and `candidates` are history variables: the line as edited, the last one
entered, and the lines a running `read_line` may have seen. An interrupt ends a
`hlt` (`Woken`, the processor's doing).

**`Strings`** — `keyboard/string.c` and `atoi` on memory, a function from
addresses to characters. Loops are the address they stop at. `strncpy` keeps its
wrap: a source that fills the destination makes the second loop clear everything
behind it. `memcpy` and `memset` are the copies and the clearing in `FileSystem`.

**`CommandLine`** — `cli_loop`: a step per line read, per `strtok` and per branch.
`input` keeps the text earlier lines left behind the terminator, and starts with
whatever the stack held. A character stands for a character or for a whole
keyword. `Start` goes on in the nested loop with a new `input`, because
`schedule()` does not return. Calls are recorded in `call`; what they do is in
`Processes` and `FileSystem`. `names` collects the fields `create_file` fills.

**`Least`** — the element a search from the lowest index stops at.

**`Least_proofs`, `Memory_proofs`, `PageAllocator_proofs`, `Processes_proofs`,
`FileSystem_proofs`, `Terminal_proofs`, `RunQueues_proofs`,
`CommandLine_proofs`** — the proofs. **`MCPageAllocator`, `MCProcesses`,
`MCFileSystem`, `MCTerminal`, `MCRunQueues`, `MCContextSwitch`,
`MCCommandLine`** — constants for TLC.

Definitions that only differ from the one behind them by a plausible mistake
(`WakesNobody`, `ReleasedButMarked`, ...) are mutants: `PROJECT.json` names the
property that notices each when it replaces the original. No specification uses
them.

## Runs

| run | result | what it shows |
|---|---|---|
| `heap` | holds | any client: blocks disjoint, tags exact, `kfree` of an unwrapped block frees exactly its pages, tags left by wrapped blocks do no harm |
| `processes` | holds | queue, states, wake-ups, results of `wait`, stacks and dispatch order under every order of all calls, nested forks and direct calls of `schedule()` that crash included, until memory is full |
| `processes_fair` | holds | without those two calls: every process resumes where it stopped, no pointer to a freed PCB; with equal priorities every ready process runs |
| `direct_schedule` | violated | a program that calls `schedule()` resumes on a dead frame |
| `files` | holds | consistency, counters and refinement with a block for every pointer, as in the source |
| `files_full` | holds | consistency and refinement with bytes told apart, on a disk that fills up: creations without a block, writes cut short, blocks that change owner |
| `files_short` | violated | a write into a file that shrank is cut short |
| `terminal` | holds | keys between any two accesses: lines intact or at worst mixed with what was entered meanwhile, cursor back on the screen, ready lines taken |
| `run_queues` | holds | list and tree: links, colours, ends of the list; rebalancing climbs; both implement a queue by key and arrival |
| `kernel_stack` | violated | every yield leaves `kernel_stack_ptr` a frame lower, until it is below the stack |
| `fork_frame` | violated | a child stores the 0 of its fork into its parent's variable |
| `commands` | holds | every line over every earlier one leads to the call its words ask for; `strtok` stays in the line; names match exactly |

Bounds. `heap`: seven pages, blocks of one, two and three pages, so each size
can wrap, be freed and meet every neighbour, and a size that overflows into a
request for no page. Processes: 16 pages of which a
process takes 1 + 2 + 2. As in the source (4096 pages, remainder 1 modulo 5)
exactly one page is left when the heap is full of processes, and pages of reaped
PCBs are the only ones to come back; the three processes it holds are a parent,
a child and a third. `MAX_PID` bounds creation attempts; beyond the heap's
capacity they only exercise failure. Files: two files of two blocks of two
bytes, so that every size below, at and above a block boundary and the largest
size occurs. `files` tells lengths, counters and permissions apart;
`files_full` bytes, with two blocks that one file can hold while the other has
none. Terminal: lines of three characters of which `read_line` takes two, so
that long lines are cut and short ones lie over the rest of longer ones; two
characters (the key shifted or not); two rows and two columns; `MAX_LINES`
bounds the lines one `read_line` meets to the one it came for and another.
`COUNT_MOD` stands for 2^32. Names are symmetric. `run_queues`: ten PCBs, the
fewest with which the loop of `rb_erase` takes a second pass, two of them with
equal keys; the list and the tree are used in turn. `kernel_stack`,
`fork_frame`: the heap of `processes`; a kernel stack of four frames (128 of 32
bytes in the source). `commands`: three lines; the first leaves text, a file or a
new loop behind, the second is any of up to four words (each keyword in its place
and out of it, names of one and two characters, numbers with sign and trailing
text), with one or two blanks between and perhaps one in front, some cut by
`MAX_INPUT_LENGTH`; the third asks for names again. `MAX_FILENAME_LEN` equals
`MAX_INPUT_LENGTH` there, the tightest the code allows (255 and 128).

Fairness. `FairSpec` makes a running program give up the CPU eventually (yield,
wait, exit or leave) and the kernel finish `wait_syscall`. That is what a
cooperative scheduler asks of its programs; nothing is assumed of the command
loop, so the liveness property speaks only of times when a process runs. In
`Terminal`, the CPU carries on with `read_line` and the timer ticks: `pic_remap`
keeps the firmware's mask, which has the timer on. Without ticks a line handled
between the test of `input_ready` and the `hlt` waits for the next key.

Deadlock is checked in all runs; a stopped kernel stutters (`Stop`).

What the violated runs mean for the kernel. `direct_schedule` and `fork_frame`
are met by the sample programs: `process_test` calls `schedule()`, and the parents
of `syscall_test.c` keep the pids of their children in the variables the children
overwrite, which `test_simple_fork` works around with a copy. `files_short` can be
met from the command line, with `append` and patience (four blocks are filled line
by line); a `write` that can be typed fits a block. `kernel_stack` takes a process
that yields 128 times, which no sample program does.

What else the models show, without a run of its own. A heap block that wraps
round the end of the page table leaves tail tags behind when it is freed, but the
kernel's own requests never wrap (`OwnStacks` would fail). `fork_syscall` does not
set the child's `user_stack_base`, so a fork in a forked child resumes outside its
stack (mode `crashed` of `processes`); a child may then be freed while its own
child still points to it as parent, which is why `NoDanglingPCB` belongs to
`processes_fair`. With two priorities the larger number starves; only equals take
turns (`processes_fair`). `wait` never returns -1 after blocking
(`WokenFindsZombie`); a process that waits without a child left is not woken at
all and sleeps for ever, which no property forbids.
`process syscall test x` and the like queue a process of priority 0: `atoi` of a
word without digits.

## Proofs

Every theorem holds for all values of the constants that satisfy the named
assumptions of the modules, and of the theorem where it has a hypothesis of its
own. The properties were checked by TLC on the instances of the runs before they
were proved, and so were the inductive invariants, except `RunInv`, which says
that sequences, positions and heights exist and is out of TLC's reach. Every
safety property of a passing run is proved, action properties and refinements
included.

| module | invariant | properties it gives |
|---|---|---|
| `PageAllocator_proofs` | `Consistent` | `TypeOK`, `NoOverlap`, `TagsMatchBlocks`, `OrphansAtTheBottom`, `KfreeExact` |
| `Processes_proofs` | `SchedulerInv` | `TypeOK`, `QueueDiscipline`, `DispatchesFirst`, `NoOvertaking` |
| | `WaitInv` | `NoLostWakeup`, `WokenFindsZombie`, the part `StatusDeliveredOnce` of `WaitTellsTheTruth` |
| | `ForksRecorded`, `FramesKept` | `ResumesOwnFrame`, if `PlainCalls` |
| | `LayoutInv` | `WaitTellsTheTruth`, `OwnStacks` |
| | `Families` | `NoDanglingPCB`, without nested forks |
| `FileSystem_proofs` | `Consistent` | `TypeOK`, `EntriesMatchInodes`, `BlocksAccounted`, `NoHoles` |
| | `Consistent`, `CountsKept` | `RoomForEveryFile`, `FreeCounts`, if `EnoughBlocks` |
| | `StoreInv` | `ImplementsFileStore` |
| `Terminal_proofs` | `CursorByPlace`, `BufferByPlace` | `CursorOnScreen`, `WritesNearScreen`, `TypeOK` |
| | `LineInv` | `NothingOlderShows`, `QuietLineIntact` |
| `RunQueues_proofs` | `RunInv` | `ListEndsAtRear`, `ParentsMatch`, `RedBlack`, `FixupClimbs`, `ImplementsKeyedQueue` |
| `CommandLine_proofs` | `CommandInv` | `StrtokInLine`, `NamesKeptApart` |
| | `CommandInv`, `MeaningInv` | `CallMeansLine` |

**Assumptions.** `HeapAssumption`, `SizesAssumption`, `ProcessAssumption`,
`FileSystemAssumption`, `TerminalAssumption` and `NodesAssumption` (finitely many
PCBs, `NULL` not one of them, whole keys) give constants their types and
sizes that are not zero. Four say more. `CommandLineAssumption`: a name field is
no shorter than the input array (255 and 128 in the source), a line that is typed
holds no newline and no terminator (`keyboard_handler` ends the line at the one and
has no key for the other), and no program is called `start`, `syscall` or `process`
(they are `dummy1` to `dummy3`). `LayoutAssumption`: a PCB takes one
page, a stack two, and the number of pages is 1 modulo 5, which are the source's
numbers (a PCB of about a hundred bytes, stacks of 4096 bytes behind a header, on 4096
pages of 4096 bytes). `NoNameAssumption`: the value that stands for "no file" is
not itself a file. `EnoughBlocks`, a hypothesis of two theorems and not of the
module: a block for every pointer of every inode; `filesystem.h` has 1024 blocks
for 256 files of 4.

**Heap.** `Memory_proofs` says what `kmalloc` and `kfree` do to a page table, for
both users of the heap. `PageAllocator_proofs` proves that the heap keeps

    Consistent == TypeOK /\ NoOverlap /\ TagsMatchBlocks /\ OrphansAtTheBottom

and from it the action property `KfreeExact`. `kfree` sees only tags, so the
whole argument is about its walk over tails. It cannot enter another block:
it would step on that block's head, or enter it through the bottom of the table,
and then the block would contain the head the walk began at
(`FreedMissesOthers`). It cannot run over tags a wrapped block left behind
either, because those lie below every head (`OrphansAtTheBottom`, which is why
that invariant is there). What it leaves of its own block are the wrapped pages,
the lowest of the table (`FreedCoversBlock`). `IndexFacts` and `BlockPagesFacts`
replace remainders by cases; `AllocateFacts` says that a block found is free.

**Scheduler.** `SchedulerInv` adds four parts to `TypeOK` and `QueueDiscipline`:
the process table has no page twice and all its pages are heads (`Listed`),
the current process is in it (`CurrentListed`), a page outside it looks neither
blocked nor running (`UnlistedQuiet`) and the queue is sorted (`QueueSorted`). The
third is what `exit_syscall` depends on, which follows a parent pointer that may
lead to a freed PCB and would queue it if it looked blocked. `Schedulable` is what `schedule()` expects of the PCBs and the queue it
is called with; `SwitchKeeps` proves once that it then keeps the invariant and
the order of service, and each call has a lemma that shows it leaves things
`Schedulable`. Inserting by priority keeps the order (`OrderKept`), and so does
doing it twice, for the parent `exit_syscall` wakes and the process `schedule()`
puts back.

**Wait and exit.** `NextShapes` reduces every step to six shapes (`Born`,
`Stillborn`, `Switches`, `Exits`, `Reaps`, `Quiet`), each a few equations; all
later proofs about processes have a case for each and do not look at the calls
again. `WaitInv` says that pids differ, that a sleeper has no zombie child and a
process queued inside `wait_syscall` has one (`WaitsMet`), and that the statuses
passed to `exit_syscall`, held in zombies and delivered agree
(`StatusesRecorded`): what was passed is in one of the two places and a delivered
pid is out of the process table, so nothing is lost or reported twice. `WaitsMet` is inductive because only the process itself
reaps its zombies, and it does not run while it sleeps. `FramesKept` follows
`resume`; it needs `ForksRecorded`, that a process that was not forked has its
own stack as the base that `fork_syscall` copies from, and `PlainCalls`: with a
nested fork or a direct `schedule()` the property fails, as `processes` reaches
and `direct_schedule` shows.

**Layout.** `create_process` and `fork_syscall` do not look at the address of
the kernel stack, and a block may wrap. That neither does harm rests on the
sizes. `LaidOut`: below the frontier, pages come in fives, a PCB's and two
stacks of two, of which only the first can ever become free again; above it all
are free. `RoomForProcess`: while the last page is free the three requests take
the next five pages. `NoRoomForProcess`: since the number of pages is 1 modulo 5
the last page goes to a PCB alone, and from then on no two neighbouring pages
are free, so the user stack is not found and the call fails where it does look.
Hence a page holds at most one process ever, which is what makes a parent
pointer name the same process as long as anyone can follow it (`ParentsKept`), and
`wait_syscall` deliver to the one who forked (`ResultsOfChildren`). `Families`: without
nested forks a parent has no parent, so nobody reaps it.

**File system.** From `FileSystemAssumption`, `Spec` keeps

    Consistent == TypeOK /\ EntriesMatchInodes /\ BlocksAccounted /\ NoHoles

The conjunction is needed: a new block is safe because an unmarked block has no
owner; deleting a file is safe because its entry names its own inode; the file
found has no hole below its size because allocation fills pointers from the
first on. `EntriesMatchInodes` is the useful surprise: both tables are searched
for the first free slot and are emptied together, so slot i of the directory
always names inode i, and no counting argument is needed for the unreachable
"Root directory full". There is one lemma per call, over facts on the helpers
(`AllocationFacts`, `TransferFacts`, `CopiedType`), on block arithmetic
(`CeilBelow`) and `LeastExists`, from the library's well-foundedness of `<`.

`free_blocks` is exact on every disk (`BlockCountExact`): what each call takes
and gives back is a finite set of blocks, and the 32-bit counter does not wrap.
`free_inodes` is not: a creation that finds an inode and no block has counted it
already. `RoomLeft` is the pigeonhole argument that this cannot happen with
`EnoughBlocks`: if all blocks were marked, each would hang on a pointer of one of
the other inodes, and those are too few.

The refinement (`StoreImplemented`) goes step by step. `Files` names the mapping
of `Store_`, `FilesMapped` says the two are the same, and each call has a lemma
(`CreateImplements`, `WriteImplements`, ...) that its action is the one of
`FileStore`, or leaves the files alone where it fails. The heart is `Contents`:
an index computed by division lands in a block that is this file's and no
other's, so a transfer changes exactly a range of bytes of one file. `Named`, the
addition to `Consistent`, says that a used entry has one of the `Names`.

**Terminal.** `CursorByPlace` says for each place of `putchar` whether row or
column may be one too large and what has been loaded; an echo that starts from
any such place ends on the screen (`EchoFacts`). `BufferByPlace` gives the array
bounds of `keyboard_handler` and `read_line`. `LineInv` is about the hand-over.
`TypedHeld` and `LineHeld`: `input_buffer` starts with the line being typed and
`input_line` holds the last one entered with its terminator, over whatever older
lines left. `CopiesMet`: what has been copied is, character for character, from
lines met, and as long as no terminator has been copied so is what the loop
will read next; the handler may put a terminator under the index between the
test and the copy, but what it hides from the test is already behind it.
`AloneCopied` is the sharper statement while only one line has been met. It needs
all of them: a line shows as typed only because nothing older is within reach.

**Run queues.** The list and the tree are about sequences of PCBs of any
length, so the invariant names them:

    RunInv == \E a, b : Holds(list, cfs_rq, fix, a, b)

The list holds the sequence `a` (`Links`: `next` leads from each PCB to the next
one, `front` and `rear` are its ends), the tree holds `b`, both are sorted, at most
one is not empty, and the colours are as the place of the loop has them
(`FixState`). The tree is described without following it (`Ordered`): every node has
a position in `b`, and every node and side an end, so that its subtree on that side
is exactly the nodes between its position and that end. A child lies in the
interval its parent leaves it. All of it is local, which is what makes rotations
provable: `RotatedEnds` moves two ends and no position. Linking a leaf shifts the
positions behind it (`LinkedPos`), cutting out a node with at most one child shifts
them back (`CutPos`), and a successor takes over the place of the node it replaces
(`Replaced`).

Colours are `Balanced`: some assignment of heights to nodes in which the black
nodes below both sides of each node are equally many. Between two passes of
`rb_insert_color` one red node may have a red parent (`InsertState`), between two of
`rb_erase` the side of one node may lack one black node (`EraseState`), and these
are the only flaws. Each case of the loops is proved to move the flaw up or to
remove it (`InsertPassed`, `ErasePassed`), and that the sibling `rb_erase`
dereferences unchecked is there follows from the lacking height. `FixupClimbs`
rests on the level of a node, counted along parent pointers.

The model follows pointers with recursive functions (`Walk`, the levels, the order
in which `KeyedQueue` sees list and tree). That they exist is shown from their
finite beginnings (`Beginnings`), and what holds at every step of them by taking the
least step at which it does not (`LeastExists`), since the library's induction
theorems cannot be used. `RunQueuesImplementKeyedQueue` goes step by step: each
operation inserts into or removes from `a` or `b` what `KeyedQueue` does
(`QueueStep`, `Simulates`), and the passes stutter.

**Command line.** `StopsAt` says where a walk over characters ends, and `Scan` is
there (`ScanIs`). `Cut` is what a `strtok` leaves: the terminator of the line
stands, `static_str` is not behind it, and only characters between have become
terminators. `TokensCut`, the part of `CommandInv` that is about tokens, says that
they follow each other, each with its own terminator before `static_str`, and that
after a missing one `static_str` rests on a terminator, so that none can follow.
A token is therefore shorter than the input array and fits the name field
(`TextIsName`), which is what `strncpy` needs not to wrap; a field holds its name
and nothing else (`FieldOf`), and `strncmp` finds it equal to that name only
(`StrncmpTells`).

`CallMeansLine` compares two readings of a line: the tokens, cut out in place, and
the words, counted over the line that was typed. `MeaningInv` relates them while a
command is being read. `Passed` says that as many words have begun as have ended
before `static_str`, so the word that `strtok` cuts next is the next one by count
(`NextWord`), or there is none (`NoWord`). `WordTokens` says which tokens are words,
and that the rest of the line is still as it was typed; a `strtok` at blanks adds one
to them (`BlankToken`), one at newlines yields what follows the third word and a
blank (`DataToken`). Hence `strcmp`, `atoi` and a reader of a token see what the word
says (`TokenMeans`); the two sums over digits, `atoi` from its address and `Number`
from the word, are both the one that `Decimal` describes (`DecimalUnique`). A line
fits at most one form (`BeginsOnce`), so each branch has to show only that its call
is what one form means (`OneFits`), or that the line fits none (`NoCommandRight`);
for that `Asked` remembers what the branches passed so far have told of the line.
The numbers are mathematical ones, in the code's `atoi` as in the property.

**Only model-checked.** Liveness (`EveryReadyProcessRuns`, `ReadyLineTaken`), for
which TLAPS has no fairness reasoning. The properties of violated runs are false.

## Not modelled

Boot, segment and gate tables, the remapping of the interrupt controller and the
serial log are straight-line set-up or output. Page tables of processes (`cr3`)
are always 0, so that branch of `fork_syscall` never runs. Formatting of numbers
(`itoa`, `int_to_hex`, `int_to_dec`, `int_to_str`) and printing are left out, and
of the contents of stacks all but what `ContextSwitch` follows. Numbers on a
command line are short enough not to overflow `atoi`. The sample programs are
covered by programs that make their calls in any order, not one by one. What
`test_scheduler` of `process_test.c` does besides, draining the ready queue by
hand, is left out.

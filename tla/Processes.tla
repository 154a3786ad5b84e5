------------------------------ MODULE Processes ------------------------------
(***************************************************************************)
(* Processes of ApnaOS: process/process.c and process/syscall.c on the heap *)
(* of memory/memory.c, driven by the process commands of cli_loop in        *)
(* kernel.c and by programs that make system calls in any order.            *)
(*                                                                         *)
(* There is one CPU and no preemption (the timer interrupt has no handler), *)
(* so a call runs from its entry to the switch of stacks without another    *)
(* process interleaving: it is one action.  wait_syscall, which goes on     *)
(* after the switch back, is two.                                          *)
(*                                                                         *)
(* A PCB is named by the heap page kmalloc put it in.  pcb[p] is the PCB    *)
(* stored in page p; kfree leaves it there and a new block in the page      *)
(* starts from it, so fields the code forgets to set keep their old value.  *)
(***************************************************************************)
EXTENDS Memory, ReadyQueue, FiniteSets

CONSTANTS
    PCB_SIZE,          (* sizeof(PCB)                                       *)
    STACK_SIZE,        (* user stack and KERNEL_STACK_SIZE: 4096 = a page   *)
    Priorities,        (* priorities given to processes                     *)
    Statuses,          (* values programs pass to exit_syscall              *)
    MAX_PID,           (* bound: get_new_pid hands out 1 .. MAX_PID         *)
    LOW_MEMORY,        (* the word at physical address 0, see ParentPid     *)
    Calls              (* what the programs of the workload do, see below   *)

(* "create", "yield", "fork", "wait", "exit": the calls of the kernel;     *)
(* "leave": current_process->state = STATE_EXIT; yield_syscall();          *)
(* "nested_fork": fork_syscall() in a process fork_syscall() created;      *)
(* "schedule": schedule() called by a program, as process_test does.       *)
AllCalls == {"create", "yield", "fork", "nested_fork", "wait", "exit",
             "leave", "schedule"}

ASSUME ProcessAssumption ==
    /\ Priorities \subseteq Int
    /\ Statuses \subseteq Int
    /\ MAX_PID \in Nat
    /\ LOW_MEMORY \in Int /\ LOW_MEMORY \notin 0 .. MAX_PID
    /\ Calls \subseteq AllCalls
    /\ PCB_SIZE \in Nat /\ STACK_SIZE \in Nat

(* The sizes of the source: sizeof(PCB) and its header fit a page, a stack *)
(* and its header take two, and 4096 % 5 = 1.                              *)
ASSUME LayoutAssumption ==
    /\ PagesFor(PCB_SIZE) = 1
    /\ PagesFor(STACK_SIZE) = 2
    /\ NUM_PAGES % 5 = 1

STATE_READY   == 0
STATE_RUNNING == 1
STATE_BLOCKED == 2
STATE_EXIT    == 4
STATE_ZOMBIE  == 5
States == {STATE_READY, STATE_RUNNING, STATE_BLOCKED, STATE_EXIT, STATE_ZOMBIE}

(***************************************************************************)
(* What user_stack_ptr designates, that is, what the process does when      *)
(* schedule() loads it:                                                    *)
(*   entry  the frame create_process built: the program starts;            *)
(*   yield  the frame of yield_syscall: the program goes on;               *)
(*   wait   the frame of the yield_syscall in wait_syscall: it goes on      *)
(*          there;                                                         *)
(*   fork   the child's copy of the frame of fork_syscall: fork returns 0;  *)
(*   stale  a frame the process has returned from, since overwritten;       *)
(*   wild   no stack of the process at all.                                *)
(***************************************************************************)
Resumes == {"entry", "yield", "wait", "fork", "stale", "wild"}

VARIABLES
    page_table, last_page_index,      (* memory.c                           *)
    pcb,               (* PCB contents by page                              *)
    process_table,     (* the list from process_table_head on               *)
    ready_queue,
    current_process,
    next_pid,
    mode,              (* where the CPU is, see Modes                       *)
    parentOf,          (* history: the pid of the process that forked a pid *)
    exitStatus,        (* history: what a pid passed to exit_syscall        *)
    delivered          (* history: results wait_syscall returned            *)

heapVars == <<page_table, last_page_index>>
historyVars == <<parentOf, exitStatus, delivered>>
vars == <<page_table, last_page_index, pcb, process_table, ready_queue,
          current_process, next_pid, mode, parentOf, exitStatus, delivered>>

(***************************************************************************)
(* cli         the command loop kernel_main called;                        *)
(* cli_nested  the command loop schedule() called, the queue being empty;   *)
(* user        current_process, in its program;                            *)
(* wait        current_process, in wait_syscall after its yield_syscall;    *)
(* halted      kernel_main after cli_loop returned to it;                   *)
(* hung        the while(1) behind the cli_loop() of schedule();            *)
(* crashed     schedule() loaded a stale or a wild user_stack_ptr.          *)
(***************************************************************************)
CLI == {"cli", "cli_nested"}
Stopped == {"halted", "hung", "crashed"}
Modes == CLI \cup {"user", "wait"} \cup Stopped

(* kernel_memory is zeroed by memory_init.                                 *)
ZeroPCB ==
    [pid |-> 0, state |-> STATE_READY, priority |-> 0, parent |-> NULL,
     exit_status |-> 0, is_new_child |-> FALSE, user_stack_base |-> NULL,
     kernel_stack_base |-> NULL, stack |-> NULL, resume |-> "wild"]

Init ==
    /\ page_table = InitPageTable
    /\ last_page_index = InitLastPageIndex
    /\ pcb = [p \in Page |-> ZeroPCB]
    /\ process_table = <<>>
    /\ ready_queue = <<>>
    /\ current_process = NULL
    /\ next_pid = 1
    /\ mode = "cli"
    /\ parentOf = [i \in 1 .. MAX_PID |-> 0]
    /\ exitStatus = [i \in 1 .. MAX_PID |-> {}]
    /\ delivered = {}

-----------------------------------------------------------------------------
(* The scheduler.                                                          *)

priorityOf(m) == [p \in Page |-> m[p].priority]

enqueue_process(q, m, p) == Enqueue(q, priorityOf(m), p)

(* The PCBs and the queue schedule() dequeues from, given the ones it is   *)
(* called with: a current process still running goes back to the queue.    *)
Requeues(m) == current_process # NULL /\ m[current_process].state = STATE_RUNNING

RequeuedPCBs(m) ==
    IF Requeues(m) THEN [m EXCEPT ![current_process].state = STATE_READY] ELSE m

RequeuedQueue(m, q) ==
    IF Requeues(m) THEN enqueue_process(q, m, current_process) ELSE q

(* Where the CPU goes on when schedule() loads the user_stack_ptr of n.    *)
ModeOn(m, n) ==
    CASE m[n].resume \in {"entry", "yield", "fork"} -> "user"
      [] m[n].resume = "wait"                       -> "wait"
      [] OTHER                                      -> "crashed"

(* schedule(), called with the PCBs m and the ready queue q.               *)
schedule(m, q) ==
    LET m1 == RequeuedPCBs(m)
        q1 == RequeuedQueue(m, q)
    IN  \/ /\ q1 = <<>>
           /\ pcb' = m1
           /\ ready_queue' = q1
           /\ mode' = "cli_nested"
           /\ UNCHANGED current_process
        \/ /\ q1 # <<>>
           /\ pcb' = [m1 EXCEPT ![Head(q1)].state = STATE_RUNNING,
                                ![Head(q1)].is_new_child = FALSE,
                                ![Head(q1)].resume = "stale"]
           /\ ready_queue' = Tail(q1)
           /\ current_process' = Head(q1)
           /\ mode' = ModeOn(m1, Head(q1))

-----------------------------------------------------------------------------
(* Creation.                                                               *)

heap == [page_table |-> page_table, last_page_index |-> last_page_index]

SetHeap(h) ==
    /\ page_table' = h.page_table
    /\ last_page_index' = h.last_page_index

KernelStackWithoutHeader(h) == Kmalloc(h, STACK_SIZE - HEADER)

(* allocate_kernel_stack().                                                *)
allocate_kernel_stack(h) == Kmalloc(h, STACK_SIZE)

(* The program of current_process, or the command loop, may call create.   *)
MayCreate == mode \in CLI \/ (mode = "user" /\ "create" \in Calls)

(* get_new_pid() and create_process(pid, entry_point, priority, ...).  The *)
(* kernel stack is not checked: kmalloc's NULL is stored as it is.  parent *)
(* and is_new_child keep what the page held.                               *)
CreateProcess(priority) ==
    LET h1 == Kmalloc(heap, PCB_SIZE)
        h2 == Kmalloc(h1, STACK_SIZE)
        h3 == allocate_kernel_stack(h2)
        new_process == h1.addr
        m  == [pcb EXCEPT ![new_process].pid = next_pid,
                          ![new_process].state = STATE_READY,
                          ![new_process].priority = priority,
                          ![new_process].user_stack_base = h2.addr,
                          ![new_process].kernel_stack_base = h3.addr,
                          ![new_process].stack = h2.addr,
                          ![new_process].resume = "entry"]
    IN  /\ MayCreate
        /\ next_pid <= MAX_PID
        /\ next_pid' = next_pid + 1
        /\ UNCHANGED <<current_process, mode, parentOf, exitStatus, delivered>>
        /\ \/ /\ h1.addr = NULL
              /\ UNCHANGED <<page_table, last_page_index, pcb, process_table,
                             ready_queue>>
           \/ /\ h1.addr # NULL /\ h2.addr = NULL
              /\ SetHeap(h1)
              /\ UNCHANGED <<pcb, process_table, ready_queue>>
           \/ /\ h1.addr # NULL /\ h2.addr # NULL
              /\ SetHeap(h3)
              /\ pcb' = m
              /\ process_table' = <<new_process>> \o process_table
              /\ ready_queue' = enqueue_process(ready_queue, m, new_process)

MayFork ==
    /\ mode = "user"
    /\ IF parentOf[pcb[current_process].pid] = 0 THEN "fork" \in Calls
                                                  ELSE "nested_fork" \in Calls

(* fork_syscall().  The child runs on the copy of the parent's stack at    *)
(* the parent's offset from user_stack_base, which is inside the copy only *)
(* if that field holds the parent's stack.  user_stack_base of the child   *)
(* is not set, nor is its cr3, so the page-table branch is never taken.    *)
(* The frame of fork_syscall it saves in the parent's user_stack_ptr is    *)
(* stale once it returns, like the one the field held before.              *)
Fork ==
    LET parent == current_process
        h1 == Kmalloc(heap, PCB_SIZE)
        h2 == Kmalloc(h1, STACK_SIZE)
        h3 == allocate_kernel_stack(h2)
        child == h1.addr
        m1 == [pcb EXCEPT ![child].pid = next_pid,
                          ![child].parent = parent,
                          ![child].priority = pcb[parent].priority]
        m2 == [m1 EXCEPT ![child].state = STATE_READY,
                         ![child].is_new_child = TRUE,
                         ![child].kernel_stack_base = h3.addr,
                         ![child].stack = h2.addr,
                         ![child].resume =
                            IF pcb[parent].user_stack_base = pcb[parent].stack
                            THEN "fork" ELSE "wild"]
    IN  /\ MayFork
        /\ next_pid <= MAX_PID
        /\ UNCHANGED <<current_process, mode, exitStatus, delivered>>
        /\ \/ /\ h1.addr = NULL
              /\ UNCHANGED <<page_table, last_page_index, pcb, process_table,
                             ready_queue, next_pid, parentOf>>
           \/ /\ h1.addr # NULL /\ h2.addr = NULL
              /\ SetHeap(h1)
              /\ pcb' = m1
              /\ next_pid' = next_pid + 1
              /\ UNCHANGED <<process_table, ready_queue, parentOf>>
           \/ /\ h1.addr # NULL /\ h2.addr # NULL
              /\ SetHeap(h3)
              /\ pcb' = m2
              /\ next_pid' = next_pid + 1
              /\ process_table' = <<child>> \o process_table
              /\ ready_queue' = enqueue_process(ready_queue, m2, child)
              /\ parentOf' = [parentOf EXCEPT ![next_pid] = pcb[parent].pid]

-----------------------------------------------------------------------------
(* Waiting and leaving.                                                    *)

(* current->parent->pid for the PCB p, whatever parent points to.  Paging  *)
(* is off: for a NULL parent it is the word at physical address 0.         *)
ParentPid(p) ==
    IF pcb[p].parent = NULL THEN LOW_MEMORY ELSE pcb[pcb[p].parent].pid

IsZombieChild(parent, p) ==
    ParentPid(p) = pcb[parent].pid /\ pcb[p].state = STATE_ZOMBIE

(* Positions in the process table at which find_zombie_child would stop.   *)
ZombieChildren(parent) ==
    {i \in 1 .. Len(process_table) : IsZombieChild(parent, process_table[i])}

UnlinkedNot(i) == process_table

(* The process table without its i-th entry.                               *)
Unlinked(i) ==
    [j \in 1 .. Len(process_table) - 1 |->
        IF j < i THEN process_table[j] ELSE process_table[j + 1]]

(* The part of wait_syscall that finds a zombie child, unlinks it, reports *)
(* it and frees its PCB; the child's stacks stay allocated.                *)
Reap(parent) ==
    \E i \in ZombieChildren(parent) :
        LET child == process_table[i]
        IN  /\ \A k \in ZombieChildren(parent) : i <= k
            /\ process_table' = Unlinked(i)
            /\ page_table' = Kfree(page_table, child)
            /\ delivered' = delivered \cup
                  {[by |-> pcb[parent].pid, pid |-> pcb[child].pid,
                    status |-> pcb[child].exit_status]}

(* wait_syscall() with a zombie child: it returns at once.                 *)
WaitReap ==
    /\ mode = "user" /\ "wait" \in Calls
    /\ Reap(current_process)
    /\ UNCHANGED <<last_page_index, pcb, ready_queue, current_process, next_pid,
                   mode, parentOf, exitStatus>>

(* wait_syscall() without one: the caller is blocked and yields, whether   *)
(* or not it has children.                                                 *)
WaitBlock ==
    /\ mode = "user" /\ "wait" \in Calls
    /\ ZombieChildren(current_process) = {}
    /\ schedule([pcb EXCEPT ![current_process].state = STATE_BLOCKED,
                            ![current_process].resume = "wait"],
                ready_queue)
    /\ UNCHANGED <<page_table, last_page_index, process_table, next_pid,
                   parentOf, exitStatus, delivered>>

(* The rest of wait_syscall() once the caller is scheduled again: a second *)
(* search, and -1 if it fails.                                             *)
WaitReturn ==
    /\ mode = "wait"
    /\ mode' = "user"
    /\ IF ZombieChildren(current_process) # {}
       THEN Reap(current_process)
       ELSE UNCHANGED <<process_table, page_table, delivered>>
    /\ UNCHANGED <<last_page_index, pcb, ready_queue, current_process, next_pid,
                   parentOf, exitStatus>>

ExitedNoZombie(proc, status) ==
    [pcb EXCEPT ![proc].exit_status = status, ![proc].state = STATE_EXIT]

(* The PCBs after the first assignments of exit_syscall.                   *)
Exited(proc, status) ==
    [pcb EXCEPT ![proc].exit_status = status, ![proc].state = STATE_ZOMBIE]

WakesAnyParent(m, parent) == parent # NULL

WakesNobody(m, parent) == FALSE

(* A parent blocked in wait_syscall is there to be woken.                  *)
Wakes(m, parent) == parent # NULL /\ m[parent].state = STATE_BLOCKED

(* exit_syscall(status): a parent blocked in wait_syscall is made ready.   *)
Exit(status) ==
    LET proc == current_process
        m1 == Exited(proc, status)
        parent == pcb[proc].parent
        wakes == Wakes(m1, parent)
        m2 == IF wakes THEN [m1 EXCEPT ![parent].state = STATE_READY] ELSE m1
        q  == IF wakes THEN enqueue_process(ready_queue, m2, parent)
                       ELSE ready_queue
    IN  /\ mode = "user" /\ "exit" \in Calls
        /\ schedule(m2, q)
        /\ exitStatus' = [exitStatus EXCEPT ![pcb[proc].pid] = @ \cup {status}]
        /\ UNCHANGED <<page_table, last_page_index, process_table, next_pid,
                       parentOf, delivered>>

YieldWithoutSave ==
    /\ mode = "user" /\ "yield" \in Calls
    /\ schedule(pcb, ready_queue)
    /\ UNCHANGED <<page_table, last_page_index, process_table, next_pid,
                   parentOf, exitStatus, delivered>>

(* yield_syscall().                                                        *)
Yield ==
    /\ mode = "user" /\ "yield" \in Calls
    /\ schedule([pcb EXCEPT ![current_process].resume = "yield"], ready_queue)
    /\ UNCHANGED <<page_table, last_page_index, process_table, next_pid,
                   parentOf, exitStatus, delivered>>

(* A test program's own way out: STATE_EXIT, then yield_syscall().         *)
Leave ==
    /\ mode = "user" /\ "leave" \in Calls
    /\ schedule([pcb EXCEPT ![current_process].state = STATE_EXIT,
                            ![current_process].resume = "yield"],
                ready_queue)
    /\ UNCHANGED <<page_table, last_page_index, process_table, next_pid,
                   parentOf, exitStatus, delivered>>

(* schedule() called by a program: user_stack_ptr is not saved first.      *)
ScheduleCall ==
    /\ mode = "user" /\ "schedule" \in Calls
    /\ schedule(pcb, ready_queue)
    /\ UNCHANGED <<page_table, last_page_index, process_table, next_pid,
                   parentOf, exitStatus, delivered>>

-----------------------------------------------------------------------------
(* The command loop.                                                       *)

(* "process start".                                                        *)
CliStart ==
    /\ mode \in CLI
    /\ schedule(pcb, ready_queue)
    /\ UNCHANGED <<page_table, last_page_index, process_table, next_pid,
                   parentOf, exitStatus, delivered>>

(* "exit": cli_loop returns to its caller.                                 *)
CliExit ==
    /\ mode \in CLI
    /\ mode' = IF mode = "cli" THEN "halted" ELSE "hung"
    /\ UNCHANGED <<page_table, last_page_index, pcb, process_table, ready_queue,
                   current_process, next_pid, parentOf, exitStatus, delivered>>

(* Nothing happens any more.                                               *)
Stop == mode \in Stopped /\ UNCHANGED vars

(* The steps by which a running program gives up the CPU.                  *)
GiveUp ==
    \/ Yield
    \/ WaitBlock
    \/ Leave
    \/ \E status \in Statuses : Exit(status)

Next ==
    \/ \E priority \in Priorities : CreateProcess(priority)
    \/ Fork
    \/ WaitReap
    \/ WaitReturn
    \/ GiveUp
    \/ ScheduleCall
    \/ CliStart
    \/ CliExit
    \/ Stop

Spec == Init /\ [][Next]_vars

(* Scheduling is cooperative: a program gives up the CPU after finitely    *)
(* many other calls, and the kernel finishes wait_syscall.  Nothing makes  *)
(* the user of the command loop type.                                      *)
FairSpec == Spec /\ WF_vars(GiveUp) /\ WF_vars(WaitReturn)

-----------------------------------------------------------------------------
(* Properties.                                                             *)

Procs == {process_table[i] : i \in 1 .. Len(process_table)}
Queued == {ready_queue[i] : i \in 1 .. Len(ready_queue)}
Running == mode \in {"user", "wait"}

PCBs == [pid : 0 .. MAX_PID, state : States, priority : Int,
         parent : Page \cup {NULL}, exit_status : Int, is_new_child : BOOLEAN,
         user_stack_base : Page \cup {NULL},
         kernel_stack_base : Page \cup {NULL},
         stack : Page \cup {NULL}, resume : Resumes]

(* Every variable has the type its declaration in the source gives it, and *)
(* the lists hold PCBs.                                                    *)
TypeOK ==
    /\ page_table \in [Page -> {FREE, HEAD, TAIL}]
    /\ last_page_index \in Page
    /\ pcb \in [Page -> PCBs]
    /\ process_table \in Seq(Page)
    /\ ready_queue \in Seq(Page)
    /\ current_process \in Page \cup {NULL}
    /\ next_pid \in 1 .. MAX_PID + 1
    /\ mode \in Modes

(* Each process is in exactly one place: the ready queue holds every ready *)
(* process once and nothing else, and the running process, if any, is the  *)
(* only one in STATE_RUNNING.  enqueue_process, called from four places,   *)
(* checks neither; a second insertion would tie a knot in the list.        *)
QueueDiscipline ==
    /\ \A i, j \in 1 .. Len(ready_queue) :
           i # j => ready_queue[i] # ready_queue[j]
    /\ Queued = {p \in Procs : pcb[p].state = STATE_READY}
    /\ \A p \in Procs : pcb[p].state = STATE_RUNNING <=>
           (p = current_process /\ mode \notin CLI \cup {"halted", "hung"})

(* No list, and neither current_process nor a parent pointer, leads to a   *)
(* PCB that wait_syscall has freed.                                        *)
NoDanglingPCB ==
    /\ \A p \in Procs : page_table[p] = HEAD
    /\ Queued \subseteq Procs
    /\ current_process \in Procs \cup {NULL}
    /\ \A p \in Procs : pcb[p].parent \in Procs \cup {NULL}

(* No process sleeps in wait_syscall beside a child that has exited: the   *)
(* check before STATE_BLOCKED and the wake-up in exit_syscall leave no gap.*)
NoLostWakeup ==
    \A p \in Procs : pcb[p].state = STATE_BLOCKED => ZombieChildren(p) = {}

(* A process woken inside wait_syscall finds the child that woke it, so    *)
(* the return of -1 after blocking is never taken.                         *)
WokenFindsZombie ==
    /\ mode = "wait" => ZombieChildren(current_process) # {}
    /\ \A p \in Queued : pcb[p].resume = "wait" => ZombieChildren(p) # {}

HeldByZombie(pid, status) ==
    \E p \in Procs : /\ pcb[p].pid = pid /\ pcb[p].state = STATE_ZOMBIE
                     /\ pcb[p].exit_status = status

Delivered(pid, status) == \E d \in delivered : d.pid = pid /\ d.status = status

(* A status passed to exit_syscall is held by a zombie find_zombie_child   *)
(* can still find, or was delivered by wait_syscall, so none is lost; and a *)
(* pid that was delivered is out of the process table, where a further     *)
(* wait_syscall would have to find it, so none is delivered twice.         *)
StatusDeliveredOnce ==
    /\ \A pid \in 1 .. MAX_PID : \A status \in exitStatus[pid] :
           HeldByZombie(pid, status) \/ Delivered(pid, status)
    /\ \A d \in delivered, p \in Procs : pcb[p].pid # d.pid

(* wait_syscall reports each exit of a child, once, and as it was: a pid   *)
(* the caller itself forked with the one status that pid passed to         *)
(* exit_syscall, although PCBs are freed and their pages used again.       *)
WaitTellsTheTruth ==
    /\ \A d \in delivered : /\ parentOf[d.pid] = d.by
                             /\ exitStatus[d.pid] = {d.status}
    /\ StatusDeliveredOnce

StackPages(p) == BlockPages(pcb[p].stack, PagesFor(STACK_SIZE))
KernelStackPages(p) ==
    BlockPages(pcb[p].kernel_stack_base, PagesFor(STACK_SIZE))
OwnPages(p) ==
    BlockPages(p, PagesFor(PCB_SIZE)) \cup StackPages(p) \cup KernelStackPages(p)

(* Every process has a user and a kernel stack of its own, each a run of   *)
(* pages inside kernel_memory that no PCB was ever stored in.  kmalloc may *)
(* return NULL for the kernel stack, and blocks that wrap; neither is      *)
(* checked, and the sizes the kernel asks for are what keeps them away.    *)
OwnStacks ==
    /\ \A p \in Procs :
          /\ pcb[p].stack # NULL /\ pcb[p].kernel_stack_base # NULL
          /\ \A a \in {pcb[p].stack, pcb[p].kernel_stack_base} :
                 a + PagesFor(STACK_SIZE) <= NUM_PAGES
          /\ StackPages(p) \cap KernelStackPages(p) = {}
          /\ p \notin StackPages(p) \cup KernelStackPages(p)
          /\ \A a \in StackPages(p) \cup KernelStackPages(p) :
                 page_table[a] # FREE /\ pcb[a] = ZeroPCB
    /\ \A p, r \in Procs : p # r => OwnPages(p) \cap OwnPages(r) = {}

(* schedule() only ever resumes a process at the point it stopped at, on   *)
(* its own stack.                                                          *)
ResumesOwnFrame == mode # "crashed"

(* The process schedule() picks is one of those with the least priority    *)
(* number among the ready ones.                                            *)
DispatchesFirst ==
    [][current_process' # current_process =>
          \A p \in Queued' : pcb'[current_process'].priority <= pcb'[p].priority]_vars

Ahead(q, a, b) == \E i, j \in 1 .. Len(q) : i < j /\ q[i] = a /\ q[j] = b

(* A process that waits in the ready queue is overtaken only by one with   *)
(* a smaller priority number: equals are served in order of arrival.       *)
NoOvertaking ==
    [][\A a \in Queued \cap Queued', b \in Queued' :
          Ahead(ready_queue', b, a) =>
             \/ Ahead(ready_queue, b, a)
             \/ b \notin Queued /\ pcb'[b].priority < pcb'[a].priority]_vars

(* While a process runs, every other process that is ready gets the CPU    *)
(* eventually.                                                             *)
EveryReadyProcessRuns ==
    \A p \in Page :
        (Running /\ p \in Queued) ~> (Running /\ current_process = p)
=============================================================================

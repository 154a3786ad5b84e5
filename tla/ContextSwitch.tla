--------------------------- MODULE ContextSwitch ---------------------------
(***************************************************************************)
(* Processes with what their stacks hold across a switch:                  *)
(*                                                                         *)
(* - how far down its kernel stack schedule() left kernel_stack_ptr.  The   *)
(*   unit is the frame of schedule(): yield_syscall loads kernel_stack_ptr  *)
(*   and calls schedule(), which stores the stack pointer it runs on.  When *)
(*   no process is ready schedule() does not come that far: it calls        *)
(*   cli_loop() on top, whose "process start" calls schedule() again.       *)
(*                                                                         *)
(* - in whose stack the variables of its program lie.  The build does not   *)
(*   optimise, so a program finds them by ebp, and schedule() resumes a     *)
(*   process by popping ebp from its stack.  fork_syscall copies the stack  *)
(*   of the parent word by word, the saved ebp included.  Of the variables  *)
(*   the model has the one that takes the result of fork_syscall.           *)
(*                                                                         *)
(* Every action of Processes is extended by what it does to these.          *)
(***************************************************************************)
EXTENDS Processes

CONSTANTS
    KERNEL_STACK_FRAMES,   (* KERNEL_STACK_SIZE in frames of schedule()     *)
    CLI_FRAMES             (* the frame of cli_loop() in the same unit      *)

VARIABLES
    kernel_depth,      (* by PCB: frames above kernel_stack_ptr, or OUTSIDE *)
    cli_stack,         (* where the command loop runs and                   *)
    cli_depth,         (* what schedule() and cli_loop() put there          *)
    frame,             (* by PCB: the user stack ebp leads to               *)
    variable,          (* by user stack: the variable in the frame there    *)
    forked             (* history: what fork_syscall returned to a process  *)

switchVars == <<kernel_depth, cli_stack, cli_depth, frame, variable, forked>>
stackVars == <<kernel_depth, cli_stack, cli_depth>>
frameVars == <<frame, variable, forked>>
allVars == <<vars, switchVars>>

OUTSIDE == -1          (* kernel_stack_ptr is not in the kernel stack       *)
NOTHING == -2          (* fork_syscall has not returned to the process      *)

SwitchInit ==
    /\ Init
    /\ kernel_depth = [p \in Page |-> 0]
    /\ cli_stack = "boot" /\ cli_depth = 0
    /\ frame = [p \in Page |-> NULL]
    /\ variable = [a \in Page |-> 0]
    /\ forked = [p \in Page |-> NOTHING]

-----------------------------------------------------------------------------
(* schedule() entered at depth d of a stack: what it leaves there.  The    *)
(* stack pointer is stored only once a next process is found.              *)
Entered(stack, d) ==
    IF mode' = "cli_nested"
    THEN /\ cli_stack' = stack
         /\ cli_depth' = d + 1 + CLI_FRAMES
         /\ UNCHANGED kernel_depth
    ELSE /\ kernel_depth' =
               IF current_process = NULL THEN kernel_depth ELSE
               [kernel_depth EXCEPT ![current_process] =
                   IF stack = "kernel" THEN d + 1 ELSE OUTSIDE]
         /\ UNCHANGED <<cli_stack, cli_depth>>

(* A child schedule() starts stores the 0 fork_syscall returns to it.      *)
Resumed ==
    IF mode' = "user" /\ pcb[current_process'].resume = "fork"
    THEN /\ variable' = [variable EXCEPT ![frame[current_process']] = 0]
         /\ forked' = [forked EXCEPT ![current_process'] = 0]
         /\ UNCHANGED frame
    ELSE UNCHANGED frameVars

Switches(stack, d) == Entered(stack, d) /\ Resumed

-----------------------------------------------------------------------------

New == Head(process_table')

SwitchCreate ==
    /\ \E priority \in Priorities : CreateProcess(priority)
    /\ IF process_table' = process_table THEN UNCHANGED switchVars ELSE
       /\ kernel_depth' = [kernel_depth EXCEPT ![New] = 0]
       /\ frame' = [frame EXCEPT ![New] = pcb'[New].stack]
       /\ forked' = [forked EXCEPT ![New] = NOTHING]
       /\ UNCHANGED <<cli_stack, cli_depth, variable>>

(* The ebp of the child's program is the one in the frame that was copied. *)
FrameOfChild(parent) == frame[parent]

SwitchFork ==
    LET parent == current_process
        failed == process_table' = process_table
        result == IF failed THEN -1 ELSE next_pid
        was    == [forked EXCEPT ![parent] = result]
    IN  /\ Fork
        /\ variable' = [variable EXCEPT ![frame[parent]] = result]
        /\ IF failed
           THEN forked' = was /\ UNCHANGED <<frame, stackVars>>
           ELSE /\ forked' = [was EXCEPT ![New] = NOTHING]
                /\ frame' = [frame EXCEPT ![New] = FrameOfChild(parent)]
                /\ kernel_depth' = [kernel_depth EXCEPT ![New] = 0]
                /\ UNCHANGED <<cli_stack, cli_depth>>

(* The calls that go through yield_syscall.                                *)
SwitchYield ==
    /\ Yield \/ WaitBlock \/ Leave
    /\ Switches("kernel", kernel_depth[current_process])

(* Those that call schedule() on the user stack.                           *)
SwitchOnUserStack ==
    /\ ScheduleCall \/ \E status \in Statuses : Exit(status)
    /\ Switches("user", 0)

SwitchStart == CliStart /\ Switches(cli_stack, cli_depth)

(* The kernel stacks of the processes that may still run, and the one a    *)
(* command loop runs on, have not been outgrown.                           *)
InBounds ==
    /\ \A p \in Page : kernel_depth[p] <= KERNEL_STACK_FRAMES
    /\ cli_stack = "kernel" => cli_depth <= KERNEL_STACK_FRAMES

(* What happens below the end of a stack is not modelled.                  *)
SwitchNext ==
    \/ /\ InBounds
       /\ \/ SwitchCreate
          \/ SwitchFork
          \/ SwitchYield
          \/ SwitchOnUserStack
          \/ SwitchStart
          \/ (WaitReap \/ WaitReturn \/ CliExit) /\ UNCHANGED switchVars
    \/ ~InBounds /\ UNCHANGED allVars
    \/ Stop /\ UNCHANGED switchVars

SwitchSpec == SwitchInit /\ [][SwitchNext]_allVars

-----------------------------------------------------------------------------
(* Properties.                                                             *)

(* What the comments on the fields say: kernel_stack_ptr of a process that *)
(* may still run lies in its kernel stack of KERNEL_STACK_SIZE.            *)
KernelStackFits ==
    \A p \in Procs :
        pcb[p].state \in {STATE_READY, STATE_RUNNING, STATE_BLOCKED} =>
            kernel_depth[p] \in 0 .. KERNEL_STACK_FRAMES

(* What the comments of the fork test say: the process that finds 0 in the *)
(* variable is the child, and the one that finds a pid the parent.  While  *)
(* a process runs, its variable holds what fork_syscall returned to it.    *)
ForkResultKept ==
    mode = "user" /\ forked[current_process] # NOTHING =>
        variable[frame[current_process]] = forked[current_process]
=============================================================================

--------------------------- MODULE RunQueueNodes ---------------------------
(***************************************************************************)
(* What the run queues of process/process.c link together: PCBs, each with  *)
(* the key its queue is ordered by (priority for enqueue_process, deadline  *)
(* and time_to_run for its EDF and SJF variants, vruntime for the CFS       *)
(* tree).  No code changes a key while its PCB is queued.                   *)
(***************************************************************************)
EXTENDS Integers, FiniteSets

CONSTANTS PCB, Key, NULL

ASSUME NodesAssumption ==
    /\ IsFiniteSet(PCB)
    /\ NULL \notin PCB
    /\ Key \in [PCB -> Int]

Ptr == PCB \cup {NULL}

(* The places of a loop that starts at p and goes from each to its step.   *)
Walk(step, p) ==
    LET at[k \in Nat] == IF k = 0 THEN p ELSE step[at[k - 1]]
    IN  at
=============================================================================

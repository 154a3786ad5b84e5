----------------------------- MODULE ReadyQueue -----------------------------
(***************************************************************************)
(* The singly linked queues of process/process.c as sequences of PCBs, the  *)
(* front first: the successor of an element is its next pointer, the last   *)
(* element is rear.  key is a function from PCBs to integers, the field     *)
(* that orders the queue: priority for enqueue_process, deadline and        *)
(* time_to_run for the EDF and SJF variants, whose code is the same.        *)
(***************************************************************************)
EXTENDS Integers, Sequences

(* Number of elements the new one goes behind: the walk from the front     *)
(* stops before the first element whose key is greater.                    *)
IsPosition(q, key, p, k) ==
    /\ k \in 0 .. Len(q)
    /\ \A i \in 1 .. k : key[q[i]] <= key[p]
    /\ k < Len(q) => key[p] < key[q[k + 1]]

PositionBeforeEquals(q, key, p) ==
    CHOOSE k \in 0 .. Len(q) :
        /\ \A i \in 1 .. k : key[q[i]] < key[p]
        /\ k < Len(q) => key[p] <= key[q[k + 1]]

PositionLast(q, key, p) == Len(q)

PositionSecond(q, key, p) == IF q = <<>> THEN 0 ELSE 1

Position(q, key, p) == CHOOSE k \in 0 .. Len(q) : IsPosition(q, key, p, k)

(* The queue q with p linked in behind its first k elements.               *)
InsertBehind(q, k, p) ==
    [i \in 1 .. Len(q) + 1 |->
        IF i <= k THEN q[i] ELSE IF i = k + 1 THEN p ELSE q[i - 1]]

Enqueue(q, key, p) == InsertBehind(q, Position(q, key, p), p)

(* dequeue_process takes Head(q) and leaves Tail(q).                       *)
=============================================================================

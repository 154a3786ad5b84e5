----------------------------- MODULE KeyedQueue -----------------------------
(***************************************************************************)
(* What a run queue promises: PCBs in the order of their keys, equals in    *)
(* the order of their arrival.  returned is what the last dequeue returned. *)
(***************************************************************************)
EXTENDS RunQueueNodes, ReadyQueue

VARIABLES queue, returned

vars == <<queue, returned>>

Members(q) == {q[i] : i \in 1 .. Len(q)}

Init == queue = <<>> /\ returned = NULL

Insert(p) ==
    /\ p \notin Members(queue)
    /\ queue' = Enqueue(queue, Key, p)
    /\ returned' = NULL

(* NULL if there is nothing to take.                                       *)
TakeFirst ==
    /\ queue' = IF queue = <<>> THEN queue ELSE Tail(queue)
    /\ returned' = IF queue = <<>> THEN NULL ELSE Head(queue)

Remove(p) ==
    /\ \E k \in 1 .. Len(queue) :
          /\ queue[k] = p
          /\ queue' = [i \in 1 .. Len(queue) - 1 |-> queue[IF i < k THEN i ELSE i + 1]]
    /\ returned' = NULL

Next == (\E p \in PCB : Insert(p) \/ Remove(p)) \/ TakeFirst

Spec == Init /\ [][Next]_vars
=============================================================================

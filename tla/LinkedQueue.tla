---------------------------- MODULE LinkedQueue ----------------------------
(***************************************************************************)
(* The singly linked ProcessQueue of process/process.c, pointer by pointer: *)
(* a queue is a record of front, rear and every PCB's next field.  The      *)
(* three enqueue functions are the same code on different keys.             *)
(***************************************************************************)
EXTENDS RunQueueNodes, Least

(* initialize_queue().                                                     *)
EmptyQueue == [front |-> NULL, rear |-> NULL, next |-> [p \in PCB |-> NULL]]

is_queue_empty(q) == q.front = NULL

(* How far a walk along the queue can be.                                  *)
Steps == 0 .. Cardinality(PCB)

(* Where k steps along the next pointers lead from the front.              *)
After(q) == Walk([p \in Ptr |-> IF p = NULL THEN NULL ELSE q.next[p]], q.front)

WalkStopsAtEqual(q, p, current) ==
    q.next[current] = NULL \/ Key[q.next[current]] >= Key[p]

(* The walk does not go on to current->next.                               *)
WalkStops(q, p, current) ==
    q.next[current] = NULL \/ Key[q.next[current]] > Key[p]

(* The element the walk of enqueue_process stops at.                       *)
Predecessor(q, p) ==
    LET after == After(q)
        stops == {k \in Steps : after[k] # NULL /\ WalkStops(q, p, after[k])}
    IN  after[CHOOSE k \in Steps : IsLeast(k, stops)]

RearKept(q, p, current) == q.rear

(* rear once p is linked in behind current.                                *)
RearBehind(q, p, current) == IF q.next[current] = NULL THEN p ELSE q.rear

(* enqueue_process(), enqueue_process_edf(), enqueue_process_sjf().        *)
enqueue_process(q, p) ==
    IF is_queue_empty(q)
    THEN [front |-> p, rear |-> p, next |-> [q.next EXCEPT ![p] = NULL]]
    ELSE IF Key[p] < Key[q.front]
    THEN [q EXCEPT !.front = p, !.next[p] = q.front]
    ELSE LET current == Predecessor(q, p)
         IN  [front |-> q.front,
              rear  |-> RearBehind(q, p, current),
              next  |-> [q.next EXCEPT ![p] = q.next[current], ![current] = p]]

(* dequeue_process() on a queue that is not empty; it returns the front.   *)
dequeue_process(q) ==
    LET second == q.next[q.front]
    IN  [front |-> second,
         rear  |-> IF second = NULL THEN NULL ELSE q.rear,
         next  |-> [q.next EXCEPT ![q.front] = NULL]]

(* The PCBs from the front to the NULL that ends the list.                 *)
ListOrder(q) ==
    LET after == After(q)
        length == CHOOSE k \in Steps : IsLeast(k, {j \in Steps : after[j] = NULL})
    IN  [i \in 1 .. length |-> after[i - 1]]
=============================================================================

----------------------------- MODULE RunQueues -----------------------------
(***************************************************************************)
(* The two run queues process/process.c has code for, the linked queue and  *)
(* the CFS tree, behind the same PCBs.  A PCB is in one of them at a time,  *)
(* and one of them is in use at a time.  An operation on the linked queue   *)
(* is one action; those on the tree take one action to link or unlink the   *)
(* node and one for each pass of the loop that restores the colours.        *)
(***************************************************************************)
EXTENDS LinkedQueue, RBTree

VARIABLES
    list,              (* a ProcessQueue                                    *)
    cfs_rq,            (* the tree                                          *)
    fix,               (* the loop the CPU is in, with its local variables  *)
    returned           (* what the last dequeue returns                     *)

vars == <<list, cfs_rq, fix, returned>>

Idle == [loop |-> "none"]
Inserting(node) == [loop |-> "insert", node |-> node]
Erasing(child, parent) == [loop |-> "erase", child |-> child, parent |-> parent]

Listed == {p \in PCB : p = list.rear \/ list.next[p] # NULL}
InTree == {p \in PCB : p = cfs_rq.root \/ cfs_rq.parent[p] # NULL}

Init ==
    /\ list = EmptyQueue
    /\ cfs_rq = EmptyTree
    /\ fix = Idle
    /\ returned = NULL

-----------------------------------------------------------------------------
(* The linked queue.                                                       *)

Enqueue(p) ==
    /\ InTree = {} /\ fix = Idle
    /\ p \notin Listed
    /\ list' = enqueue_process(list, p)
    /\ returned' = NULL
    /\ UNCHANGED <<cfs_rq, fix>>

Dequeue ==
    /\ InTree = {} /\ fix = Idle
    /\ list' = IF is_queue_empty(list) THEN list ELSE dequeue_process(list)
    /\ returned' = list.front
    /\ UNCHANGED <<cfs_rq, fix>>

-----------------------------------------------------------------------------
(* The tree.                                                               *)

(* cfs_enqueue() up to the loop of rb_insert_color.                        *)
CfsLink(p) ==
    /\ fix = Idle /\ Listed = {}
    /\ p \notin InTree
    /\ cfs_rq' = Linked(cfs_rq, p)
    /\ fix' = Inserting(p)
    /\ returned' = NULL
    /\ UNCHANGED list

InsertColorPass ==
    /\ fix.loop = "insert" /\ RedParent(cfs_rq, fix.node)
    /\ LET pass == InsertPass(cfs_rq, fix.node)
       IN  cfs_rq' = pass.tree /\ fix' = Inserting(pass.node)
    /\ UNCHANGED <<list, returned>>

(* The last statement of rb_insert_color.                                  *)
InsertColorDone ==
    /\ fix.loop = "insert" /\ ~RedParent(cfs_rq, fix.node)
    /\ cfs_rq' = Painted(cfs_rq, {cfs_rq.root}, FALSE)
    /\ fix' = Idle
    /\ UNCHANGED <<list, returned>>

(* rb_erase(node) up to its loop; there is none behind a red node.         *)
Erase(node) ==
    LET u == Unlinked(cfs_rq, node)
    IN  /\ cfs_rq' = u.tree
        /\ fix' = IF u.black THEN Erasing(u.child, u.parent) ELSE Idle

(* cfs_dequeue_min(): rb_first and rb_erase.                               *)
CfsDequeueMin ==
    /\ fix = Idle /\ Listed = {}
    /\ IF cfs_rq.root = NULL
       THEN returned' = NULL /\ UNCHANGED <<cfs_rq, fix>>
       ELSE LET n == Leftmost(cfs_rq, cfs_rq.root)
            IN  returned' = n /\ Erase(n)
    /\ UNCHANGED list

(* rb_erase() of any node, as its declaration allows.                      *)
CfsErase(p) ==
    /\ fix = Idle /\ Listed = {}
    /\ p \in InTree
    /\ Erase(p)
    /\ returned' = NULL
    /\ UNCHANGED list

EraseFixupPass ==
    /\ fix.loop = "erase" /\ LacksBlack(cfs_rq, fix.child)
    /\ LET pass == ErasePass(cfs_rq, fix.child, fix.parent)
       IN  cfs_rq' = pass.tree /\ fix' = Erasing(pass.child, pass.parent)
    /\ UNCHANGED <<list, returned>>

EraseFixupDone ==
    /\ fix.loop = "erase" /\ ~LacksBlack(cfs_rq, fix.child)
    /\ cfs_rq' = Painted(cfs_rq, {fix.child}, FALSE)
    /\ fix' = Idle
    /\ UNCHANGED <<list, returned>>

Next ==
    \/ \E p \in PCB : Enqueue(p) \/ CfsLink(p) \/ CfsErase(p)
    \/ Dequeue
    \/ CfsDequeueMin
    \/ InsertColorPass \/ InsertColorDone
    \/ EraseFixupPass \/ EraseFixupDone

Spec == Init /\ [][Next]_vars

-----------------------------------------------------------------------------
(* Properties.                                                             *)

(* The list runs from front to rear over every PCB that is queued: a PCB   *)
(* outside it has no next that could drag another list in behind it.       *)
ListEndsAtRear ==
    /\ list.rear = IF list.front = NULL THEN NULL
                   ELSE ListOrder(list)[Len(ListOrder(list))]
    /\ Len(ListOrder(list)) = Cardinality(Listed)

(* Also between the passes of the loops, parent pointers lead back over    *)
(* the links that lead down: rotations climb by them.                      *)
ParentsMatch ==
    /\ cfs_rq.root # NULL => cfs_rq.parent[cfs_rq.root] = NULL
    /\ \A n \in InTree, s \in Sides :
          cfs_rq.kid[n][s] # NULL => cfs_rq.parent[cfs_rq.kid[n][s]] = n

(* After each operation the tree is a red-black tree: the root is black, a *)
(* red node has no red child, and all ways down pass as many black nodes.  *)
RedBlack ==
    fix = Idle =>
        /\ ~IsRed(cfs_rq, cfs_rq.root)
        /\ \A n \in InTree, s \in Sides :
              cfs_rq.red[n] => ~IsRed(cfs_rq, cfs_rq.kid[n][s])
        /\ BlackHeights(cfs_rq) # {}

(* The loop goes on for another pass, and how deep in the tree it is.      *)
LoopsOn ==
    \/ fix.loop = "insert" /\ RedParent(cfs_rq, fix.node)
    \/ fix.loop = "erase" /\ LacksBlack(cfs_rq, fix.child)
LoopLevel ==
    IF fix.loop = "insert" THEN Level(cfs_rq, fix.node) ELSE Level(cfs_rq, fix.parent)

(* The loops of rb_insert_color and rb_erase end: a pass is the last one,  *)
(* or the next one works nearer to the root, rotations notwithstanding.    *)
FixupClimbs == [][LoopsOn /\ LoopsOn' => LoopLevel' < LoopLevel]_vars

(* Both queues hand out PCBs by key and arrival; rebalancing is invisible. *)
Abstract ==
    INSTANCE KeyedQueue WITH
        queue <- IF cfs_rq.root # NULL THEN TreeOrder(cfs_rq) ELSE ListOrder(list)

ImplementsKeyedQueue == Abstract!Spec
=============================================================================

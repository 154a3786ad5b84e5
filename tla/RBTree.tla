------------------------------- MODULE RBTree -------------------------------
(***************************************************************************)
(* process/rbtree.c and rbtree.h, pointer by pointer: a tree is a record of *)
(* the root and every node's children, parent and colour.  The code spells  *)
(* out each case twice, once per side; here the side is a parameter.  The   *)
(* loops of rb_insert_color and rb_erase are given by one pass each.        *)
(***************************************************************************)
EXTENDS RunQueueNodes, Sequences

Sides == {"left", "right"}
Other(s) == IF s = "left" THEN "right" ELSE "left"

(* RB_ROOT.                                                                *)
EmptyTree ==
    [root   |-> NULL,
     kid    |-> [n \in PCB |-> [s \in Sides |-> NULL]],
     parent |-> [n \in PCB |-> NULL],
     red    |-> [n \in PCB |-> FALSE]]

IsRed(t, n) == n # NULL /\ t.red[n]

(* The nodes of N, those that are there, painted.                          *)
Painted(t, N, red) == [t EXCEPT !.red = [n \in PCB |-> IF n \in N THEN red ELSE @[n]]]

(* The code asks whether a node is its parent's left child, and takes it   *)
(* for the right one otherwise.                                            *)
SideBelow(t, p, n) == IF t.kid[p]["left"] = n THEN "left" ELSE "right"

(* n gets the parent p, if there is an n.                                  *)
SetParent(t, n, p) == [t EXCEPT !.parent = [m \in PCB |-> IF m = n THEN p ELSE @[m]]]

SetKid(t, n, s, c) == [t EXCEPT !.kid[n][s] = c]

(* c hangs from n on side s.                                               *)
Hang(t, n, s, c) == SetParent(SetKid(t, n, s, c), c, n)

(* by hangs where n hung: from n's parent, or as the root.                 *)
InPlaceOf(t, n, by) ==
    LET p == t.parent[n]
    IN  SetParent(IF p = NULL THEN [t EXCEPT !.root = by]
                              ELSE SetKid(t, p, SideBelow(t, p, n), by),
                  by, p)

RotateForgettingParent(t, n, s) ==
    LET up == t.kid[n][Other(s)]
        inner == t.kid[up][s]
    IN  Hang(SetKid(InPlaceOf(t, n, up), n, Other(s), inner), up, s, n)

(* rb_rotate_left and rb_rotate_right: n goes down on side s and its child *)
(* on the other side comes up.                                             *)
Rotate(t, n, s) ==
    LET up == t.kid[n][Other(s)]
        inner == t.kid[up][s]
    IN  Hang(Hang(InPlaceOf(t, n, up), n, Other(s), inner), up, s, n)

-----------------------------------------------------------------------------
(* Paths.                                                                  *)

Depths == 0 .. Cardinality(PCB)

(* Where k steps lead that start at n and go to the side turn[m] at m.     *)
Path(t, n, turn) ==
    Walk([m \in Ptr |-> IF m = NULL THEN NULL ELSE t.kid[m][turn[m]]], n)

(* The last node on that path.                                             *)
PathEnd(t, n, turn) ==
    LET at == Path(t, n, turn)
    IN  at[CHOOSE k \in Depths : at[k] # NULL /\ at[k + 1] = NULL]

(* rb_first, also the search for the successor in rb_erase.                *)
Leftmost(t, n) == PathEnd(t, n, [m \in PCB |-> "left"])

-----------------------------------------------------------------------------
(* Insertion.                                                              *)

TurnLeftAtEqual(p) == [q \in PCB |-> IF Key[p] <= Key[q] THEN "left" ELSE "right"]

(* The way cfs_enqueue goes down.                                          *)
Turn(p) == [q \in PCB |-> IF Key[p] < Key[q] THEN "left" ELSE "right"]

(* The descent of cfs_enqueue with rb_link_node.                           *)
Linked(t, p) ==
    LET parent == IF t.root = NULL THEN NULL ELSE PathEnd(t, t.root, Turn(p))
        t1 == [t EXCEPT !.kid[p] = [s \in Sides |-> NULL],
                        !.parent[p] = parent,
                        !.red[p] = TRUE]
    IN  IF parent = NULL THEN [t1 EXCEPT !.root = p]
                         ELSE [t1 EXCEPT !.kid[parent][Turn(p)[parent]] = p]

(* The condition of the loop in rb_insert_color.                           *)
RedParent(t, node) == IsRed(t, t.parent[node])

(* One pass of that loop: the tree and the node it goes on with.           *)
InsertPass(t, node) ==
    LET parent == t.parent[node]
        gparent == t.parent[parent]
        s == SideBelow(t, gparent, parent)
        uncle == t.kid[gparent][Other(s)]
        inner == t.kid[parent][Other(s)] = node
        t1 == IF inner THEN Rotate(t, parent, s) ELSE t
        upper == IF inner THEN node ELSE parent
    IN  IF IsRed(t, uncle)
        THEN [tree |-> Painted(Painted(t, {parent, uncle}, FALSE), {gparent}, TRUE),
              node |-> gparent]
        ELSE [tree |-> Rotate(Painted(Painted(t1, {upper}, FALSE), {gparent}, TRUE),
                              gparent, Other(s)),
              node |-> IF inner THEN parent ELSE node]

-----------------------------------------------------------------------------
(* Deletion.                                                               *)

(* node is out of the tree.  The fields it keeps in the code are forgotten, *)
(* for rb_link_node sets all of them before anything reads them again.     *)
Forgotten(t, node) ==
    [t EXCEPT !.kid[node] = [s \in Sides |-> NULL], !.parent[node] = NULL,
              !.red[node] = FALSE]

(* rb_erase up to color_fixup.  black: the node that left its place was.   *)
(* With two children that is the successor, which takes node's place.      *)
Unlinked(t, node) ==
    LET l == t.kid[node]["left"]
        r == t.kid[node]["right"]
    IN  IF l = NULL \/ r = NULL
        THEN LET child == IF l = NULL THEN r ELSE l
             IN  [tree   |-> Forgotten(InPlaceOf(t, node, child), node),
                  child  |-> child,
                  parent |-> t.parent[node],
                  black  |-> ~t.red[node]]
        ELSE LET next == Leftmost(t, r)
                 child == t.kid[next]["right"]
                 parent == IF next = r THEN next ELSE t.parent[next]
                 t1 == [InPlaceOf(t, node, next) EXCEPT !.red[next] = t.red[node]]
                 t2 == IF next = r THEN t1 ELSE
                       Hang(Hang(t1, parent, "left", child), next, "right", r)
             IN  [tree   |-> Forgotten(Hang(t2, next, "left", l), node),
                  child  |-> child,
                  parent |-> parent,
                  black  |-> ~t.red[next]]

LacksBlackNode(t, child) == child # t.root /\ child # NULL /\ ~IsRed(t, child)

(* The condition of the loop behind color_fixup.                           *)
LacksBlack(t, child) == child # t.root /\ ~IsRed(t, child)

ErasePassStays(t, child, parent) ==
    [tree |-> Painted(t, {t.kid[parent][Other(SideBelow(t, parent, child))]}, TRUE),
     child |-> child, parent |-> parent]

(* One pass of that loop: the tree, child and parent it goes on with.      *)
ErasePass(t, child, parent) ==
    LET s  == SideBelow(t, parent, child)
        o  == Other(s)
        s0 == t.kid[parent][o]
        t1 == IF t.red[s0]
              THEN Rotate(Painted(Painted(t, {s0}, FALSE), {parent}, TRUE), parent, s)
              ELSE t
        s1 == t1.kid[parent][o]
        t2 == IF IsRed(t1, t1.kid[s1][o]) THEN t1 ELSE
              Rotate(Painted(Painted(t1, {t1.kid[s1][s]}, FALSE), {s1}, TRUE), s1, o)
        s2 == t2.kid[parent][o]
        t3 == Rotate(Painted([t2 EXCEPT !.red[s2] = t2.red[parent]],
                             {parent, t2.kid[s2][o]}, FALSE),
                     parent, s)
    IN  IF \A d \in Sides : ~IsRed(t1, t1.kid[s1][d])
        THEN [tree |-> Painted(t1, {s1}, TRUE), child |-> parent,
              parent |-> t1.parent[parent]]
        ELSE [tree |-> t3, child |-> t3.root, parent |-> parent]

-----------------------------------------------------------------------------
(* What a tree stands for.                                                 *)

(* The nodes below a node, itself included, from left to right, down to a  *)
(* number of levels.                                                       *)
InOrder(t) ==
    LET walk[d \in Nat] ==
            [m \in Ptr |-> IF d = 0 \/ m = NULL THEN <<>>
                           ELSE walk[d - 1][t.kid[m]["left"]] \o <<m>>
                                \o walk[d - 1][t.kid[m]["right"]]]
    IN  walk

TreeOrder(t) == InOrder(t)[Cardinality(PCB)][t.root]

(* The number of nodes above n.                                            *)
Level(t, n) ==
    LET above[m \in Ptr] == IF m = NULL THEN -1 ELSE 1 + above[t.parent[m]]
    IN  above[n]

(* Black nodes on a path down from a node, if all paths have the same      *)
(* number of them, else {}; down to a number of levels.                    *)
BlackHeight(t) ==
    LET bh[d \in Nat] ==
            [m \in Ptr |->
                IF m = NULL THEN {0} ELSE
                IF d = 0 THEN {} ELSE
                    {h + (IF t.red[m] THEN 0 ELSE 1) :
                        h \in bh[d - 1][t.kid[m]["left"]]
                              \cap bh[d - 1][t.kid[m]["right"]]}]
    IN  bh

BlackHeights(t) == BlackHeight(t)[Cardinality(PCB)][t.root]
=============================================================================

-------------------------- MODULE RunQueues_proofs --------------------------
(***************************************************************************)
(* Proofs that the linked queue and the red-black tree of process.c and     *)
(* rbtree.c keep their links, their order and their colours, for every set  *)
(* of PCBs, every choice of keys and every sequence of calls, and hand out  *)
(* PCBs by key and arrival.                                                 *)
(*                                                                         *)
(* First the tree: what its rotations, links and unlinks do to the order,   *)
(* the parent pointers and the colours of a tree of any size, and what the  *)
(* loops along its pointers reach.  Then the list, and both together.       *)
(***************************************************************************)
EXTENDS RunQueues, Least_proofs, FunctionTheorems, FiniteSetTheorems,
        SequenceTheorems, TLAPS

-----------------------------------------------------------------------------
(* Recursion.                                                              *)

(* The beginnings of length n of the walk that starts at x and steps by f. *)
Beginnings(V, x, f, n) ==
    {g \in [0 .. n -> V] : g[0] = x /\ \A k \in 0 .. n - 1 : g[k + 1] = f[g[k]]}

(* There is one of every length.                                           *)
LEMMA BeginningExists ==
    ASSUME NEW V, NEW x \in V, NEW f \in [V -> V]
    PROVE  \A n \in Nat : Beginnings(V, x, f, n) # {}
<1>. DEFINE Bad == {n \in Nat : Beginnings(V, x, f, n) = {}}
<1>1. SUFFICES ASSUME Bad # {} PROVE FALSE
    OBVIOUS
<1>2. PICK n \in Bad : IsLeast(n, Bad)
    BY <1>1, LeastExists
<1>3. CASE n = 0
    <2>1. [k \in 0 .. 0 |-> x] \in Beginnings(V, x, f, 0)
        BY DEF Beginnings
    <2>. QED  BY <1>2, <1>3, <2>1
<1>4. CASE n # 0
    <2>1. n - 1 \in Nat /\ n - 1 \notin Bad
        BY <1>2, <1>4 DEF IsLeast
    <2>2. PICK g : g \in Beginnings(V, x, f, n - 1)
        BY <2>1
    <2>. DEFINE h == [k \in 0 .. n |-> IF k = n THEN f[g[n - 1]] ELSE g[k]]
    <2>3. g \in [0 .. n - 1 -> V] /\ g[0] = x
          /\ \A k \in 0 .. n - 1 - 1 : g[k + 1] = f[g[k]]
        BY <2>2 DEF Beginnings
    <2>4. h \in [0 .. n -> V]
        BY <2>1, <2>3
    <2>5. h[0] = x
        BY <1>2, <1>4, <2>3
    <2>6. \A k \in 0 .. n - 1 : h[k + 1] = f[h[k]]
        BY <1>2, <2>1, <2>3
    <2>7. h \in Beginnings(V, x, f, n)
        BY <2>4, <2>5, <2>6 DEF Beginnings
    <2>. QED  BY <1>2, <2>7
<1>. QED  BY <1>3, <1>4

(* They agree as far as they go.                                           *)
LEMMA BeginningsAgree ==
    ASSUME NEW V, NEW x \in V, NEW f \in [V -> V], NEW n \in Nat, NEW m \in Nat,
           NEW g \in Beginnings(V, x, f, n), NEW h \in Beginnings(V, x, f, m)
    PROVE  \A k \in Nat : k <= n /\ k <= m => g[k] = h[k]
<1>. DEFINE Bad == {k \in Nat : k <= n /\ k <= m /\ g[k] # h[k]}
<1>1. SUFFICES ASSUME Bad # {} PROVE FALSE
    OBVIOUS
<1>2. PICK k \in Bad : IsLeast(k, Bad)
    BY <1>1, LeastExists
<1>3. k # 0
    BY <1>2 DEF Beginnings
<1>4. k - 1 \in Nat /\ k - 1 \notin Bad
    BY <1>2, <1>3 DEF IsLeast
<1>5. g[k - 1] = h[k - 1]
    BY <1>2, <1>4
<1>6. g[k] = f[g[k - 1]] /\ h[k] = f[h[k - 1]]
    <2>1. k - 1 \in 0 .. n - 1 /\ k - 1 \in 0 .. m - 1 /\ (k - 1) + 1 = k
        BY <1>2, <1>4
    <2>2. g[(k - 1) + 1] = f[g[k - 1]] /\ h[(k - 1) + 1] = f[h[k - 1]]
        BY <2>1 DEF Beginnings
    <2>. QED  BY <2>1, <2>2
<1>. QED  BY <1>2, <1>5, <1>6

(* A walk of a loop exists, whatever its steps.                            *)
LEMMA WalkExists ==
    ASSUME NEW V, NEW x \in V, NEW f \in [V -> V]
    PROVE  \E at \in [Nat -> V] : at[0] = x /\ \A k \in Nat : at[k + 1] = f[at[k]]
<1>. DEFINE B(n) == CHOOSE g : g \in Beginnings(V, x, f, n)
            at == [n \in Nat |-> B(n)[n]]
<1>1. \A n \in Nat : B(n) \in Beginnings(V, x, f, n)
    BY BeginningExists
<1>. HIDE DEF B
<1>2. at \in [Nat -> V] /\ at[0] = x
    BY <1>1 DEF Beginnings
<1>3. ASSUME NEW k \in Nat
      PROVE  at[k + 1] = f[at[k]]
    <2>1. B(k)[k] = B(k + 1)[k]
        BY <1>1, BeginningsAgree
    <2>2. B(k + 1) \in Beginnings(V, x, f, k + 1) /\ k \in 0 .. (k + 1) - 1
        BY <1>1
    <2>3. B(k + 1)[k + 1] = f[B(k + 1)[k]]
        BY <2>2 DEF Beginnings
    <2>. QED  BY <2>1, <2>3
<1>. QED  BY <1>2, <1>3

(* So the walk of the code is one.                                         *)
LEMMA WalkFacts ==
    ASSUME NEW V, NEW x \in V, NEW f \in [V -> V]
    PROVE  /\ Walk(f, x) \in [Nat -> V] /\ Walk(f, x)[0] = x
           /\ \A k \in Nat : Walk(f, x)[k + 1] = f[Walk(f, x)[k]]
<1>1. PICK at \in [Nat -> V] : at[0] = x /\ \A k \in Nat : at[k + 1] = f[at[k]]
    BY WalkExists
<1>2. at = [k \in Nat |-> IF k = 0 THEN x ELSE f[at[k - 1]]]
    <2>1. \A k \in Nat : k # 0 => k - 1 \in Nat /\ (k - 1) + 1 = k
        OBVIOUS
    <2>2. \A k \in Nat : at[k] = IF k = 0 THEN x ELSE f[at[k - 1]]
        BY <1>1, <2>1
    <2>. QED  BY <1>1, <2>2
<1>. DEFINE w == Walk(f, x)
<1>3. w = [k \in Nat |-> IF k = 0 THEN x ELSE f[w[k - 1]]]
    BY <1>2 DEF Walk
<1>. HIDE DEF w
<1>4. w[0] = x /\ \A k \in Nat : w[k + 1] = f[w[k]]
    BY <1>3
<1>. DEFINE Bad == {k \in Nat : w[k] \notin V}
<1>5. Bad = {}
    <2>1. SUFFICES ASSUME Bad # {} PROVE FALSE
        OBVIOUS
    <2>2. PICK k \in Bad : IsLeast(k, Bad)
        BY <2>1, LeastExists
    <2>3. k # 0
        BY <1>4, <2>2
    <2>4. k - 1 \in Nat /\ k - 1 \notin Bad /\ (k - 1) + 1 = k
        BY <2>2, <2>3 DEF IsLeast
    <2>. QED  BY <1>4, <2>2, <2>4
<1>6. w \in [Nat -> V]
    BY <1>3, <1>5
<1>. QED  BY <1>4, <1>6 DEF w

-----------------------------------------------------------------------------
(* Queues as sequences.                                                    *)

Elems(q) == {q[i] : i \in 1 .. Len(q)}

(* A queue: PCBs without repetition.                                       *)
IsQueue(q) ==
    /\ q \in Seq(PCB)
    /\ \A i, j \in 1 .. Len(q) : q[i] = q[j] => i = j

(* ... in the order of their keys.                                         *)
Sorted(q) == \A i, j \in 1 .. Len(q) : i <= j => Key[q[i]] <= Key[q[j]]

(* A queue has as many elements as its length, and no more than there are. *)
LEMMA QueueLength ==
    ASSUME NEW q, IsQueue(q)
    PROVE  /\ IsFiniteSet(Elems(q)) /\ Cardinality(Elems(q)) = Len(q)
           /\ Elems(q) \subseteq PCB
           /\ Len(q) \in Nat /\ Cardinality(PCB) \in Nat
           /\ Len(q) <= Cardinality(PCB)
<1>1. Len(q) \in Nat /\ q \in [1 .. Len(q) -> PCB]
    BY DEF IsQueue
<1>2. IsFiniteSet(1 .. Len(q)) /\ Cardinality(1 .. Len(q)) = Len(q)
    BY <1>1, FS_Interval
<1>3. q \in Bijection(1 .. Len(q), Elems(q))
    <2>1. q \in [1 .. Len(q) -> Elems(q)]
        BY <1>1 DEF Elems
    <2>2. \A i, j \in 1 .. Len(q) : q[i] = q[j] => i = j
        BY DEF IsQueue
    <2>3. \A e \in Elems(q) : \E i \in 1 .. Len(q) : q[i] = e
        BY DEF Elems
    <2>. QED  BY <2>1, <2>2, <2>3, Fun_IsBij
<1>4. IsFiniteSet(Elems(q)) /\ Cardinality(Elems(q)) = Len(q)
    <2>1. ExistsBijection(1 .. Len(q), Elems(q))
        BY <1>3 DEF ExistsBijection
    <2>. QED  BY <1>2, <2>1, FS_Bijection
<1>5. Elems(q) \subseteq PCB
    BY <1>1 DEF Elems
<1>6. IsFiniteSet(PCB)
    BY NodesAssumption
<1>7. Cardinality(PCB) \in Nat /\ Cardinality(Elems(q)) <= Cardinality(PCB)
    BY <1>5, <1>6, FS_Subset, FS_CardinalityType
<1>. QED  BY <1>1, <1>4, <1>5, <1>7

(* The queue with p behind its first k elements.                           *)
Inserted(q, k, p) ==
    [i \in 1 .. Len(q) + 1 |->
        IF i <= k THEN q[i] ELSE IF i = k + 1 THEN p ELSE q[i - 1]]

(* It is a queue, of one element more.                                     *)
LEMMA InsertedFacts ==
    ASSUME NEW q, IsQueue(q), NEW p \in PCB \ Elems(q), NEW k \in 0 .. Len(q)
    PROVE  /\ IsQueue(Inserted(q, k, p))
           /\ Len(Inserted(q, k, p)) = Len(q) + 1
           /\ Elems(Inserted(q, k, p)) = Elems(q) \cup {p}
<1>. DEFINE r == Inserted(q, k, p)
<1>1. Len(q) \in Nat /\ q \in [1 .. Len(q) -> PCB]
    BY DEF IsQueue
<1>2. r \in [1 .. Len(q) + 1 -> PCB]
    BY <1>1 DEF Inserted
<1>3. r \in Seq(PCB) /\ Len(r) = Len(q) + 1
    BY <1>1, <1>2
<1>4. \A i \in 1 .. Len(q) + 1 :
          r[i] = IF i <= k THEN q[i] ELSE IF i = k + 1 THEN p ELSE q[i - 1]
    BY DEF Inserted
<1>5. \A i \in 1 .. Len(q) : q[i] # p
    BY DEF Elems
<1>. HIDE DEF r
<1>6. ASSUME NEW i \in 1 .. Len(r), NEW j \in 1 .. Len(r), r[i] = r[j]
      PROVE  i = j
    BY <1>1, <1>3, <1>4, <1>5, <1>6 DEF IsQueue
<1>7. Elems(r) \subseteq Elems(q) \cup {p}
    <2>1. ASSUME NEW i \in 1 .. Len(r)
          PROVE  r[i] \in Elems(q) \cup {p}
        BY <1>1, <1>3, <1>4 DEF Elems
    <2>. QED  BY <2>1 DEF Elems
<1>8. Elems(q) \cup {p} \subseteq Elems(r)
    <2>1. p = r[k + 1] /\ k + 1 \in 1 .. Len(r)
        BY <1>1, <1>3, <1>4
    <2>2. ASSUME NEW i \in 1 .. Len(q)
          PROVE  q[i] \in Elems(r)
        <3>1. CASE i <= k
            BY <1>1, <1>3, <1>4, <3>1 DEF Elems
        <3>2. CASE i > k
            <4>1. i + 1 \in 1 .. Len(r) /\ r[i + 1] = q[i]
                BY <1>1, <1>3, <1>4, <3>2
            <4>. QED  BY <4>1 DEF Elems
        <3>. QED  BY <1>1, <3>1, <3>2
    <2>. QED  BY <2>1, <2>2 DEF Elems
<1>. QED  BY <1>3, <1>6, <1>7, <1>8 DEF r, IsQueue

(* Sorted, if p goes behind the smaller and equal keys and before others.  *)
LEMMA InsertedSorted ==
    ASSUME NEW q, IsQueue(q), Sorted(q), NEW p \in PCB, NEW k \in 0 .. Len(q),
           \A i \in 1 .. k : Key[q[i]] <= Key[p],
           k < Len(q) => Key[p] < Key[q[k + 1]]
    PROVE  Sorted(Inserted(q, k, p))
<1>. DEFINE r == Inserted(q, k, p)
<1>1. Len(q) \in Nat /\ q \in [1 .. Len(q) -> PCB] /\ Key \in [PCB -> Int]
    BY NodesAssumption DEF IsQueue
<1>2. Len(r) = Len(q) + 1
    BY <1>1 DEF Inserted
<1>3. \A i \in 1 .. Len(q) + 1 :
          r[i] = IF i <= k THEN q[i] ELSE IF i = k + 1 THEN p ELSE q[i - 1]
    BY DEF Inserted
<1>. HIDE DEF r
<1>4. \A i \in k + 1 .. Len(q) : Key[p] <= Key[q[i]]
    <2>1. SUFFICES ASSUME NEW i \in k + 1 .. Len(q)
                   PROVE  Key[p] <= Key[q[i]]
        OBVIOUS
    <2>2. k + 1 \in 1 .. Len(q) /\ i \in 1 .. Len(q) /\ k + 1 <= i /\ k < Len(q)
        BY <1>1
    <2>3. Key[q[k + 1]] <= Key[q[i]] /\ Key[p] < Key[q[k + 1]]
        BY <2>2 DEF Sorted
    <2>4. Key[q[k + 1]] \in Int /\ Key[q[i]] \in Int /\ Key[p] \in Int
        BY <1>1, <2>2
    <2>. QED  BY <2>3, <2>4
<1>5. SUFFICES ASSUME NEW i \in 1 .. Len(r), NEW j \in 1 .. Len(r), i <= j
               PROVE  Key[r[i]] <= Key[r[j]]
    BY DEF Sorted, r
<1>6. Key[p] \in Int /\ \A m \in 1 .. Len(q) : Key[q[m]] \in Int
    BY <1>1
<1>7. CASE j <= k
    BY <1>1, <1>2, <1>3, <1>5, <1>7 DEF Sorted
<1>8. CASE j = k + 1
    BY <1>1, <1>2, <1>3, <1>5, <1>6, <1>8
<1>9. CASE j > k + 1
    <2>1. j - 1 \in k + 1 .. Len(q) /\ r[j] = q[j - 1] /\ j - 1 \in 1 .. Len(q)
        BY <1>1, <1>2, <1>3, <1>9
    <2>2. CASE i <= k
        BY <1>1, <1>2, <1>3, <2>1, <2>2 DEF Sorted
    <2>3. CASE i = k + 1
        BY <1>1, <1>2, <1>3, <1>4, <2>1, <2>3
    <2>4. CASE i > k + 1
        <3>1. i - 1 \in 1 .. Len(q) /\ r[i] = q[i - 1] /\ i - 1 <= j - 1
            BY <1>1, <1>2, <1>3, <1>5, <2>4
        <3>. QED  BY <2>1, <3>1 DEF Sorted
    <2>. QED  BY <1>1, <2>2, <2>3, <2>4
<1>. QED  BY <1>1, <1>2, <1>7, <1>8, <1>9

(* The queue without its k-th element.                                     *)
Removed(q, k) == [i \in 1 .. Len(q) - 1 |-> q[IF i < k THEN i ELSE i + 1]]

(* It is a queue of one element less, and in the same order.               *)
LEMMA RemovedFacts ==
    ASSUME NEW q, IsQueue(q), NEW k \in 1 .. Len(q)
    PROVE  /\ IsQueue(Removed(q, k))
           /\ Len(Removed(q, k)) = Len(q) - 1
           /\ Elems(Removed(q, k)) = Elems(q) \ {q[k]}
           /\ Sorted(q) => Sorted(Removed(q, k))
<1>. DEFINE r == Removed(q, k)
<1>1. Len(q) \in Nat /\ q \in [1 .. Len(q) -> PCB] /\ Len(q) - 1 \in Nat
    BY DEF IsQueue
<1>2. r \in [1 .. Len(q) - 1 -> PCB]
    BY <1>1 DEF Removed
<1>3. r \in Seq(PCB) /\ Len(r) = Len(q) - 1
    <2>1. PICK n \in Nat : n = Len(q) - 1
        BY Zenon, <1>1
    <2>2. r \in [1 .. n -> PCB]
        BY <1>2, <2>1
    <2>3. r \in Seq(PCB) /\ Len(r) = n
        BY <2>2
    <2>. QED  BY <2>1, <2>3
<1>4. \A i \in 1 .. Len(q) - 1 : r[i] = q[IF i < k THEN i ELSE i + 1]
    BY DEF Removed
<1>. HIDE DEF r
<1>5. \A i, j \in 1 .. Len(r) : r[i] = r[j] => i = j
    BY <1>1, <1>3, <1>4 DEF IsQueue
<1>6. Elems(r) = Elems(q) \ {q[k]}
    <2>1. ASSUME NEW i \in 1 .. Len(r)
          PROVE  r[i] \in Elems(q) \ {q[k]}
        <3>. DEFINE j == IF i < k THEN i ELSE i + 1
        <3>1. j \in 1 .. Len(q) /\ j # k /\ r[i] = q[j]
            BY <1>1, <1>3, <1>4
        <3>. QED  BY <3>1 DEF Elems, IsQueue
    <2>2. ASSUME NEW j \in 1 .. Len(q), q[j] # q[k]
          PROVE  q[j] \in Elems(r)
        <3>. DEFINE i == IF j < k THEN j ELSE j - 1
        <3>1. i \in 1 .. Len(r) /\ r[i] = q[j]
            BY <1>1, <1>3, <1>4, <2>2
        <3>. QED  BY <3>1 DEF Elems
    <2>. QED  BY <2>1, <2>2 DEF Elems
<1>7. Sorted(q) => Sorted(r)
    BY <1>1, <1>3, <1>4 DEF Sorted
<1>. QED  BY <1>3, <1>5, <1>6, <1>7 DEF r, IsQueue

-----------------------------------------------------------------------------
(* The shape of a tree.                                                    *)

IsTree(t) ==
    t \in [root : Ptr, kid : [PCB -> [Sides -> Ptr]], parent : [PCB -> Ptr],
           red : [PCB -> BOOLEAN]]

Nodes(t) == {p \in PCB : p = t.root \/ t.parent[p] # NULL}

(* Links down and parent pointers agree, and no node has two places.       *)
Shaped(t) ==
    /\ IsTree(t)
    /\ t.root # NULL => t.parent[t.root] = NULL
    /\ \A n \in PCB, s \in Sides : t.kid[n][s] # NULL => t.parent[t.kid[n][s]] = n
    /\ \A n \in PCB : t.kid[n]["left"] # NULL => t.kid[n]["left"] # t.kid[n]["right"]
    /\ \A n \in PCB : t.parent[n] # NULL =>
          \E s \in Sides : t.kid[t.parent[n]][s] = n
    /\ \A n \in PCB \ Nodes(t), s \in Sides : t.kid[n][s] = NULL

(* The queue q is what the tree holds from left to right: pos is a node's  *)
(* place in q, and e the first and the last place of those below it.       *)
Places(t, q, pos, e) ==
    /\ IsQueue(q)
    /\ Elems(q) = Nodes(t)
    /\ pos \in [PCB -> Int]
    /\ e \in [PCB -> [Sides -> Int]]
    /\ \A n \in Nodes(t) : pos[n] \in 1 .. Len(q) /\ q[pos[n]] = n
    /\ \A n \in Nodes(t) : /\ 1 <= e[n]["left"] /\ e[n]["left"] <= pos[n]
                           /\ pos[n] <= e[n]["right"] /\ e[n]["right"] <= Len(q)
    /\ IF t.root = NULL THEN Len(q) = 0
       ELSE e[t.root]["left"] = 1 /\ e[t.root]["right"] = Len(q)

(* What a child's places are.                                              *)
Divided(t, pos, e) ==
    \A n \in Nodes(t) :
        /\ IF t.kid[n]["left"] = NULL THEN e[n]["left"] = pos[n]
           ELSE /\ e[t.kid[n]["left"]]["left"] = e[n]["left"]
                /\ e[t.kid[n]["left"]]["right"] = pos[n] - 1
        /\ IF t.kid[n]["right"] = NULL THEN e[n]["right"] = pos[n]
           ELSE /\ e[t.kid[n]["right"]]["right"] = e[n]["right"]
                /\ e[t.kid[n]["right"]]["left"] = pos[n] + 1

Ordered(t, q, pos, e) == Shaped(t) /\ Places(t, q, pos, e) /\ Divided(t, pos, e)

(* The number of places below a node.                                      *)
Span(e, n) == e[n]["right"] - e[n]["left"]

(* What the fields of a tree are.                                          *)
LEMMA TreeFields ==
    ASSUME NEW t, IsTree(t)
    PROVE  /\ t.root \in Ptr
           /\ t.kid \in [PCB -> [Sides -> Ptr]]
           /\ t.parent \in [PCB -> Ptr]
           /\ t.red \in [PCB -> BOOLEAN]
           /\ \A n \in PCB, s \in Sides : t.kid[n][s] \in Ptr
           /\ \A n \in PCB : t.parent[n] \in Ptr
    BY DEF IsTree

(* A child is a node, and a child of the node its parent field names.      *)
LEMMA KidFacts ==
    ASSUME NEW t, Shaped(t), NEW n \in PCB, NEW s \in Sides, t.kid[n][s] # NULL
    PROVE  /\ t.kid[n][s] \in PCB /\ t.kid[n][s] \in Nodes(t) /\ n \in Nodes(t)
           /\ t.parent[t.kid[n][s]] = n
           /\ t.kid[n][s] # t.root
           /\ t.kid[n][s] # t.kid[n][Other(s)]
<1>. DEFINE c == t.kid[n][s]
<1>1. c \in PCB
    BY TreeFields DEF Shaped, Ptr
<1>2. t.parent[c] = n /\ n # NULL
    BY NodesAssumption DEF Shaped
<1>3. c \in Nodes(t)
    BY <1>1, <1>2 DEF Nodes
<1>4. n \in Nodes(t)
    BY DEF Shaped
<1>5. c # t.root
    BY <1>1, <1>2, NodesAssumption DEF Shaped
<1>6. c # t.kid[n][Other(s)]
    <2>1. \A m \in PCB : t.kid[m]["left"] # NULL => t.kid[m]["left"] # t.kid[m]["right"]
        BY DEF Shaped
    <2>2. s = "left" \/ s = "right"
        BY DEF Sides
    <2>3. CASE s = "left"
        BY <2>1, <2>3 DEF Other
    <2>4. CASE s = "right"
        BY <2>1, <2>4 DEF Other
    <2>. QED  BY <2>2, <2>3, <2>4
<1>. QED  BY <1>1, <1>2, <1>3, <1>4, <1>5, <1>6

(* A node that is not the root hangs from its parent.                      *)
LEMMA ParentFacts ==
    ASSUME NEW t, Shaped(t), NEW n \in Nodes(t)
    PROVE  /\ n \in PCB /\ n # NULL
           /\ n = t.root <=> t.parent[n] = NULL
           /\ n # t.root =>
                 /\ t.parent[n] \in Nodes(t)
                 /\ t.parent[n] \in PCB
                 /\ t.kid[t.parent[n]][SideBelow(t, t.parent[n], n)] = n
<1>1. n \in PCB /\ n # NULL
    BY NodesAssumption DEF Nodes
<1>2. n = t.root => t.parent[n] = NULL
    BY <1>1 DEF Shaped
<1>3. n # t.root => t.parent[n] # NULL
    BY DEF Nodes
<1>4. ASSUME n # t.root
      PROVE  /\ t.parent[n] \in Nodes(t) /\ t.parent[n] \in PCB
             /\ t.kid[t.parent[n]][SideBelow(t, t.parent[n], n)] = n
    <2>1. t.parent[n] \in PCB
        BY <1>1, <1>3, <1>4, TreeFields DEF Shaped, Ptr
    <2>2. PICK s \in Sides : t.kid[t.parent[n]][s] = n
        BY <1>1, <1>3, <1>4 DEF Shaped
    <2>3. t.parent[n] \in Nodes(t)
        BY <1>1, <2>1, <2>2, KidFacts
    <2>4. t.kid[t.parent[n]][SideBelow(t, t.parent[n], n)] = n
        BY <2>2 DEF SideBelow, Sides
    <2>. QED  BY <2>1, <2>3, <2>4
<1>. QED  BY <1>1, <1>2, <1>3, <1>4

(* The places of a child are among its parent's, and fewer.                *)
LEMMA KidPlaces ==
    ASSUME NEW t, NEW q, NEW pos, NEW e, Ordered(t, q, pos, e),
           NEW n \in PCB, NEW s \in Sides, t.kid[n][s] # NULL
    PROVE  /\ Span(e, t.kid[n][s]) \in Nat /\ Span(e, n) \in Nat
           /\ Span(e, t.kid[n][s]) < Span(e, n)
           /\ e[t.kid[n][s]]["left"] >= e[n]["left"]
           /\ e[t.kid[n][s]]["right"] <= e[n]["right"]
<1>. DEFINE c == t.kid[n][s]
<1>1. c \in PCB /\ c \in Nodes(t) /\ n \in Nodes(t)
    BY KidFacts DEF Ordered
<1>2. /\ pos[n] \in Int /\ e[n]["left"] \in Int /\ e[n]["right"] \in Int
      /\ pos[c] \in Int /\ e[c]["left"] \in Int /\ e[c]["right"] \in Int
    BY <1>1 DEF Ordered, Places, Sides
<1>3. /\ e[n]["left"] <= pos[n] /\ pos[n] <= e[n]["right"]
      /\ e[c]["left"] <= pos[c] /\ pos[c] <= e[c]["right"]
    BY <1>1 DEF Ordered, Places
<1>4. CASE s = "left"
    <2>1. e[c]["left"] = e[n]["left"] /\ e[c]["right"] = pos[n] - 1
        BY <1>1, <1>4 DEF Ordered, Divided
    <2>. HIDE DEF c
    <2>2. /\ Span(e, c) \in Nat /\ Span(e, n) \in Nat /\ Span(e, c) < Span(e, n)
          /\ e[c]["left"] >= e[n]["left"] /\ e[c]["right"] <= e[n]["right"]
        BY <1>2, <1>3, <2>1 DEF Span
    <2>. QED  BY <2>2 DEF c
<1>5. CASE s = "right"
    <2>1. e[c]["right"] = e[n]["right"] /\ e[c]["left"] = pos[n] + 1
        BY <1>1, <1>5 DEF Ordered, Divided
    <2>. HIDE DEF c
    <2>2. /\ Span(e, c) \in Nat /\ Span(e, n) \in Nat /\ Span(e, c) < Span(e, n)
          /\ e[c]["left"] >= e[n]["left"] /\ e[c]["right"] <= e[n]["right"]
        BY <1>2, <1>3, <2>1 DEF Span
    <2>. QED  BY <2>2 DEF c
<1>. QED  BY <1>4, <1>5 DEF Sides

(* What the places of a node are bounded by.                               *)
LEMMA NodePlaces ==
    ASSUME NEW t, NEW q, NEW pos, NEW e, Ordered(t, q, pos, e), NEW n \in Nodes(t)
    PROVE  /\ n \in PCB /\ n # NULL /\ pos[n] \in Int /\ pos[n] \in 1 .. Len(q)
           /\ q[pos[n]] = n /\ Len(q) \in Nat
           /\ e[n]["left"] \in Int /\ e[n]["right"] \in Int
           /\ 1 <= e[n]["left"] /\ e[n]["left"] <= pos[n]
           /\ pos[n] <= e[n]["right"] /\ e[n]["right"] <= Len(q)
           /\ Span(e, n) \in Nat /\ Span(e, n) < Len(q)
           /\ Cardinality(PCB) \in Nat /\ Len(q) <= Cardinality(PCB)
<1>1. n \in PCB /\ n # NULL
    BY NodesAssumption DEF Nodes
<1>2. /\ pos[n] \in Int /\ e[n]["left"] \in Int /\ e[n]["right"] \in Int
      /\ 1 <= e[n]["left"] /\ e[n]["left"] <= pos[n]
      /\ pos[n] <= e[n]["right"] /\ e[n]["right"] <= Len(q)
      /\ IsQueue(q) /\ pos[n] \in 1 .. Len(q) /\ q[pos[n]] = n
    BY <1>1 DEF Ordered, Places, Sides
<1>3. Len(q) \in Nat /\ Cardinality(PCB) \in Nat /\ Len(q) <= Cardinality(PCB)
    BY <1>2, QueueLength
<1>. QED  BY <1>1, <1>2, <1>3 DEF Span

-----------------------------------------------------------------------------
(* What the helpers write.                                                 *)

(* Writing one parent pointer.                                             *)
LEMMA SetParentFields ==
    ASSUME NEW t, IsTree(t), NEW n, NEW p \in Ptr, NEW u, u = SetParent(t, n, p)
    PROVE  /\ IsTree(u) /\ u.root = t.root /\ u.kid = t.kid /\ u.red = t.red
           /\ \A m \in PCB : u.parent[m] = IF m = n THEN p ELSE t.parent[m]
<1>. DEFINE f == [m \in PCB |-> IF m = n THEN p ELSE t.parent[m]]
<1>1. t \in [root : Ptr, kid : [PCB -> [Sides -> Ptr]], parent : [PCB -> Ptr],
             red : [PCB -> BOOLEAN]]
    BY DEF IsTree
<1>2. u = [t EXCEPT !.parent = f]
    BY <1>1 DEF SetParent
<1>3. f \in [PCB -> Ptr] /\ \A m \in PCB : f[m] = IF m = n THEN p ELSE t.parent[m]
    BY <1>1
<1>. HIDE DEF f
<1>4. /\ u.root = t.root /\ u.kid = t.kid /\ u.red = t.red /\ u.parent = f
      /\ IsTree(u)
    BY <1>1, <1>2, <1>3 DEF IsTree
<1>. QED  BY <1>3, <1>4

(* Writing one child pointer.                                              *)
LEMMA SetKidFields ==
    ASSUME NEW t, IsTree(t), NEW n \in PCB, NEW s \in Sides, NEW c \in Ptr,
           NEW u, u = SetKid(t, n, s, c)
    PROVE  /\ IsTree(u) /\ u.root = t.root /\ u.parent = t.parent /\ u.red = t.red
           /\ \A m \in PCB, d \in Sides :
                 u.kid[m][d] = IF m = n /\ d = s THEN c ELSE t.kid[m][d]
<1>. DEFINE f == [t.kid EXCEPT ![n][s] = c]
<1>1. t \in [root : Ptr, kid : [PCB -> [Sides -> Ptr]], parent : [PCB -> Ptr],
             red : [PCB -> BOOLEAN]]
    BY DEF IsTree
<1>2. u = [t EXCEPT !.kid = f]
    BY <1>1 DEF SetKid
<1>3. t.kid \in [PCB -> [Sides -> Ptr]]
    BY <1>1
<1>4. /\ f \in [PCB -> [Sides -> Ptr]]
      /\ \A m \in PCB, d \in Sides : f[m][d] = IF m = n /\ d = s THEN c ELSE t.kid[m][d]
    BY <1>3
<1>. HIDE DEF f
<1>5. /\ u.root = t.root /\ u.kid = f /\ u.red = t.red /\ u.parent = t.parent
      /\ IsTree(u)
    BY <1>1, <1>2, <1>4 DEF IsTree
<1>. QED  BY <1>4, <1>5

(* Hanging c from n on side s.                                             *)
LEMMA HangFields ==
    ASSUME NEW t, IsTree(t), NEW n \in PCB, NEW s \in Sides, NEW c \in Ptr,
           NEW u, u = Hang(t, n, s, c)
    PROVE  /\ IsTree(u) /\ u.root = t.root /\ u.red = t.red
           /\ \A m \in PCB, d \in Sides :
                 u.kid[m][d] = IF m = n /\ d = s THEN c ELSE t.kid[m][d]
           /\ \A m \in PCB : u.parent[m] = IF m = c THEN n ELSE t.parent[m]
<1>1. PICK t1 : t1 = SetKid(t, n, s, c)
    OBVIOUS
<1>2. /\ IsTree(t1) /\ t1.root = t.root /\ t1.parent = t.parent /\ t1.red = t.red
      /\ \A m \in PCB, d \in Sides :
            t1.kid[m][d] = IF m = n /\ d = s THEN c ELSE t.kid[m][d]
    BY <1>1, SetKidFields
<1>3. u = SetParent(t1, c, n) /\ n \in Ptr
    BY <1>1 DEF Hang, Ptr
<1>4. /\ IsTree(u) /\ u.root = t1.root /\ u.kid = t1.kid /\ u.red = t1.red
      /\ \A m \in PCB : u.parent[m] = IF m = c THEN n ELSE t1.parent[m]
    BY <1>2, <1>3, SetParentFields
<1>. QED  BY <1>2, <1>4

(* by takes the one link that led to n, and n's parent.                    *)
LEMMA InPlaceOfFields ==
    ASSUME NEW t, Shaped(t), NEW n \in Nodes(t), NEW by \in Ptr, NEW u,
           u = InPlaceOf(t, n, by)
    PROVE  /\ IsTree(u) /\ u.red = t.red
           /\ u.root = (IF n = t.root THEN by ELSE t.root)
           /\ \A m \in PCB, d \in Sides :
                 u.kid[m][d] = IF t.kid[m][d] = n THEN by ELSE t.kid[m][d]
           /\ \A m \in PCB : u.parent[m] = IF m = by THEN t.parent[n] ELSE t.parent[m]
<1>. DEFINE p == t.parent[n]
            s == SideBelow(t, p, n)
<1>1. IsTree(t) /\ n \in PCB /\ n # NULL /\ (n = t.root <=> p = NULL) /\ s \in Sides
      /\ p \in Ptr
    BY ParentFacts, TreeFields DEF Shaped, SideBelow, Sides
<1>2. \A m \in PCB, d \in Sides : t.kid[m][d] = n => m = p
    BY <1>1, KidFacts
<1>3. PICK t1 : t1 = IF p = NULL THEN [t EXCEPT !.root = by]
                               ELSE SetKid(t, p, s, by)
    OBVIOUS
<1>4. /\ IsTree(t1) /\ t1.red = t.red /\ t1.parent = t.parent
      /\ t1.root = (IF n = t.root THEN by ELSE t.root)
      /\ \A m \in PCB, d \in Sides :
            t1.kid[m][d] = IF t.kid[m][d] = n THEN by ELSE t.kid[m][d]
    <2>1. CASE n = t.root
        <3>1. t1 = [t EXCEPT !.root = by]
            BY <1>1, <1>3, <2>1
        <3>2. /\ IsTree(t1) /\ t1.parent = t.parent /\ t1.red = t.red
              /\ t1.root = by /\ t1.kid = t.kid
            BY <1>1, <3>1 DEF IsTree
        <3>3. \A m \in PCB, d \in Sides : t.kid[m][d] # n
            BY <1>1, <1>2, <2>1, NodesAssumption
        <3>. QED  BY <2>1, <3>2, <3>3
    <2>2. CASE n # t.root
        <3>1. p \in PCB /\ t.kid[p][s] = n
            BY <2>2, ParentFacts
        <3>2. t1 = SetKid(t, p, s, by)
            BY <1>1, <1>3, <2>2
        <3>3. \A d \in Sides : t.kid[p][d] = n => d = s
            <4>1. ASSUME NEW d \in Sides, t.kid[p][d] = n, d # s
                  PROVE  FALSE
                <5>1. d = Other(s)
                    BY <1>1, <4>1 DEF Sides, Other
                <5>2. t.kid[p][s] # t.kid[p][Other(s)]
                    BY <1>1, <3>1, KidFacts
                <5>. QED  BY <3>1, <4>1, <5>1, <5>2
            <4>. QED  BY <4>1
        <3>. HIDE DEF s, p
        <3>4. /\ IsTree(t1) /\ t1.root = t.root /\ t1.parent = t.parent /\ t1.red = t.red
              /\ \A m \in PCB, d \in Sides :
                    t1.kid[m][d] = IF m = p /\ d = s THEN by ELSE t.kid[m][d]
            BY <1>1, <3>1, <3>2, SetKidFields
        <3>. QED  BY <1>2, <2>2, <3>1, <3>3, <3>4
    <2>. QED  BY <2>1, <2>2
<1>5. u = SetParent(t1, by, p)
    BY <1>3 DEF InPlaceOf
<1>. HIDE DEF p
<1>6. /\ IsTree(u) /\ u.root = t1.root /\ u.kid = t1.kid /\ u.red = t1.red
      /\ \A m \in PCB : u.parent[m] = IF m = by THEN p ELSE t1.parent[m]
    BY <1>1, <1>4, <1>5, SetParentFields
<1>. QED  BY <1>4, <1>6 DEF p

(* Painting changes colours only.                                          *)
LEMMA PaintedFields ==
    ASSUME NEW t, IsTree(t), NEW N, NEW c \in BOOLEAN, NEW u, u = Painted(t, N, c)
    PROVE  /\ IsTree(u) /\ u.root = t.root /\ u.kid = t.kid /\ u.parent = t.parent
           /\ \A m \in PCB : u.red[m] = IF m \in N THEN c ELSE t.red[m]
<1>1. u = [t EXCEPT !.red = [n \in PCB |-> IF n \in N THEN c ELSE t.red[n]]]
    BY DEF Painted, IsTree
<1>2. [n \in PCB |-> IF n \in N THEN c ELSE t.red[n]] \in [PCB -> BOOLEAN]
    BY DEF IsTree
<1>3. /\ u.root = t.root /\ u.kid = t.kid /\ u.parent = t.parent
      /\ u.red = [n \in PCB |-> IF n \in N THEN c ELSE t.red[n]]
    BY <1>1 DEF IsTree
<1>4. IsTree(u)
    BY <1>1, <1>2 DEF IsTree
<1>. QED  BY <1>3, <1>4

(* Trees that differ in colours only have the same shape and order.        *)
SameLinks(t, u) ==
    IsTree(u) /\ u.root = t.root /\ u.kid = t.kid /\ u.parent = t.parent

(* They hold the same queue.                                               *)
LEMMA SameLinksOrdered ==
    ASSUME NEW t, NEW u, SameLinks(t, u)
    PROVE  /\ Nodes(u) = Nodes(t)
           /\ Shaped(t) => Shaped(u)
           /\ \A q, pos, e : Ordered(t, q, pos, e) => Ordered(u, q, pos, e)
<1>1. Nodes(u) = Nodes(t)
    BY DEF Nodes, SameLinks
<1>2. Shaped(t) => Shaped(u)
    BY <1>1 DEF Shaped, SameLinks
<1>3. ASSUME NEW q, NEW pos, NEW e, Ordered(t, q, pos, e)
      PROVE  Ordered(u, q, pos, e)
    <2>1. Places(u, q, pos, e)
        BY <1>1, <1>3 DEF Ordered, Places, SameLinks
    <2>2. Divided(u, pos, e)
        BY <1>1, <1>3 DEF Ordered, Divided, SameLinks
    <2>. QED  BY <1>2, <1>3, <2>1, <2>2 DEF Ordered
<1>. QED  BY <1>1, <1>2, <1>3

-----------------------------------------------------------------------------
(* Rotations.                                                              *)

(* u is t with n rotated down on side s.                                   *)
Rotated(t, n, s, u) ==
    /\ IsTree(u) /\ u.red = t.red
    /\ u.root = IF n = t.root THEN t.kid[n][Other(s)] ELSE t.root
    /\ \A m \in PCB, d \in Sides :
          u.kid[m][d] =
              IF m = n /\ d = Other(s) THEN t.kid[t.kid[n][Other(s)]][s]
              ELSE IF m = t.kid[n][Other(s)] /\ d = s THEN n
              ELSE IF t.kid[m][d] = n THEN t.kid[n][Other(s)] ELSE t.kid[m][d]
    /\ \A m \in PCB :
          u.parent[m] =
              IF m = n THEN t.kid[n][Other(s)]
              ELSE IF m = t.kid[n][Other(s)] THEN t.parent[n]
              ELSE IF m = t.kid[t.kid[n][Other(s)]][s] THEN n ELSE t.parent[m]

(* Nodes that hang from one another are different ones.                    *)
LEMMA NoLoops ==
    ASSUME NEW t, NEW q, NEW pos, NEW e, Ordered(t, q, pos, e),
           NEW n \in PCB, NEW s \in Sides, t.kid[n][s] # NULL
    PROVE  /\ t.kid[n][s] # n
           /\ \A d \in Sides : t.kid[t.kid[n][s]][d] # n
           /\ \A d \in Sides : t.kid[t.kid[n][s]][d] # t.kid[n][s]
           /\ t.parent[n] # t.kid[n][s] /\ t.parent[n] # n
<1>. DEFINE c == t.kid[n][s]
<1>1. Shaped(t) /\ IsTree(t) /\ c \in PCB /\ n # NULL
    BY KidFacts, NodesAssumption DEF Ordered, Shaped
<1>2. Span(e, c) \in Nat /\ Span(e, n) \in Nat /\ Span(e, c) < Span(e, n)
    BY KidPlaces
<1>. HIDE DEF c
<1>3. \A d \in Sides : t.kid[c][d] # NULL =>
          Span(e, t.kid[c][d]) \in Nat /\ Span(e, t.kid[c][d]) < Span(e, c)
    BY <1>1, KidPlaces
<1>4. c # n
    BY <1>2
<1>5. \A d \in Sides : t.kid[c][d] # n /\ t.kid[c][d] # c
    <2>1. ASSUME NEW d \in Sides, t.kid[c][d] = n PROVE FALSE
        <3>1. Span(e, n) < Span(e, c)
            BY <1>1, <1>3, <2>1
        <3>. QED  BY <1>2, <3>1
    <2>2. ASSUME NEW d \in Sides, t.kid[c][d] = c PROVE FALSE
        <3>1. Span(e, c) < Span(e, c)
            BY <1>1, <1>3, <2>2, NodesAssumption
        <3>. QED  BY <1>2, <3>1
    <2>. QED  BY <2>1, <2>2
<1>6. t.parent[n] # c
    <2>1. SUFFICES ASSUME t.parent[n] = c PROVE FALSE
        OBVIOUS
    <2>2. \E d \in Sides : t.kid[c][d] = n
        BY <1>1, <2>1, NodesAssumption DEF Shaped
    <2>. QED  BY <1>5, <2>2
<1>7. t.parent[n] # n
    <2>1. SUFFICES ASSUME t.parent[n] = n PROVE FALSE
        OBVIOUS
    <2>2. PICK d \in Sides : t.kid[n][d] = n
        BY <1>1, <2>1 DEF Shaped
    <2>3. Span(e, n) < Span(e, n)
        BY <1>1, <2>2, KidPlaces
    <2>. QED  BY <1>2, <2>3
<1>. QED  BY <1>4, <1>5, <1>6, <1>7 DEF c

(* That is what the code's rotations do.                                   *)
LEMMA RotateFields ==
    ASSUME NEW t, NEW q, NEW pos, NEW e, Ordered(t, q, pos, e),
           NEW n \in PCB, NEW s \in Sides, t.kid[n][Other(s)] # NULL
    PROVE  Rotated(t, n, s, Rotate(t, n, s))
<1>. DEFINE o == Other(s)
            up == t.kid[n][o]
            inner == t.kid[up][s]
            t1 == InPlaceOf(t, n, up)
            t2 == Hang(t1, n, o, inner)
            u == Rotate(t, n, s)
<1>1. o \in Sides /\ s \in Sides /\ Shaped(t) /\ IsTree(t) /\ n \in PCB
    BY DEF Ordered, Shaped, Other, Sides
<1>2. up \in PCB /\ n \in Nodes(t) /\ up # NULL /\ up # t.root /\ t.parent[up] = n
    BY <1>1, KidFacts
<1>3. up # n /\ inner # n /\ inner # up
    BY <1>1, NoLoops
<1>4. inner \in Ptr /\ n \in Ptr /\ up \in Ptr
    BY <1>1, <1>2, TreeFields DEF Ptr
<1>5. u = Hang(t2, up, s, n)
    BY DEF Rotate
<1>. HIDE DEF o, up, inner, t1, u
<1>6. /\ IsTree(t1) /\ t1.red = t.red
      /\ t1.root = (IF n = t.root THEN up ELSE t.root)
      /\ \A m \in PCB, d \in Sides :
            t1.kid[m][d] = IF t.kid[m][d] = n THEN up ELSE t.kid[m][d]
      /\ \A m \in PCB : t1.parent[m] = IF m = up THEN t.parent[n] ELSE t.parent[m]
    BY <1>1, <1>2, <1>4, InPlaceOfFields DEF t1
<1>7. /\ IsTree(t2) /\ t2.root = t1.root /\ t2.red = t1.red
      /\ \A m \in PCB, d \in Sides :
            t2.kid[m][d] = IF m = n /\ d = o THEN inner ELSE t1.kid[m][d]
      /\ \A m \in PCB : t2.parent[m] = IF m = inner THEN n ELSE t1.parent[m]
    BY <1>1, <1>4, <1>6, HangFields
<1>. HIDE DEF t2
<1>8. /\ IsTree(u) /\ u.root = t2.root /\ u.red = t2.red
      /\ \A m \in PCB, d \in Sides :
            u.kid[m][d] = IF m = up /\ d = s THEN n ELSE t2.kid[m][d]
      /\ \A m \in PCB : u.parent[m] = IF m = n THEN up ELSE t2.parent[m]
    <2>1. IsTree(t2) /\ up \in PCB /\ s \in Sides /\ n \in Ptr
        BY <1>1, <1>2, <1>4, <1>7
    <2>. QED  BY <1>5, <2>1, HangFields
<1>9. \A m \in PCB, d \in Sides :
          u.kid[m][d] = IF m = n /\ d = o THEN inner
                        ELSE IF m = up /\ d = s THEN n
                        ELSE IF t.kid[m][d] = n THEN up ELSE t.kid[m][d]
    BY <1>3, <1>6, <1>7, <1>8
<1>10. \A m \in PCB : u.parent[m] = IF m = n THEN up ELSE IF m = up THEN t.parent[n]
                                     ELSE IF m = inner THEN n ELSE t.parent[m]
    BY <1>3, <1>6, <1>7, <1>8
<1>11. IsTree(u) /\ u.red = t.red /\ u.root = IF n = t.root THEN up ELSE t.root
    BY <1>6, <1>7, <1>8
<1>. QED  BY <1>9, <1>10, <1>11 DEF Rotated, o, up, inner, u

(* A rotation keeps the nodes and their links in shape.                    *)
LEMMA RotateShaped ==
    ASSUME NEW t, NEW q, NEW pos, NEW e, Ordered(t, q, pos, e),
           NEW n \in PCB, NEW s \in Sides, t.kid[n][Other(s)] # NULL,
           NEW u, Rotated(t, n, s, u)
    PROVE  Shaped(u) /\ Nodes(u) = Nodes(t)
<1>. DEFINE o == Other(s)
            up == t.kid[n][o]
            inner == t.kid[up][s]
<1>1. o \in Sides /\ s \in Sides /\ o # s /\ (\A d \in Sides : d = s \/ d = o)
      /\ Shaped(t) /\ IsTree(t)
    BY DEF Ordered, Shaped, Other, Sides
<1>2. up \in PCB /\ n \in Nodes(t) /\ up \in Nodes(t) /\ up # NULL /\ up # t.root
      /\ t.parent[up] = n /\ n # NULL /\ NULL \notin PCB
    BY <1>1, KidFacts, NodesAssumption
<1>3. /\ up # n /\ inner # n /\ inner # up /\ t.parent[n] # up /\ t.parent[n] # n
      /\ \A d \in Sides : t.kid[up][d] # n /\ t.kid[up][d] # up
    BY <1>1, NoLoops
<1>4. \A d \in Sides : t.kid[n][d] # n
    BY <1>1, <1>2, NoLoops
<1>5. inner # NULL => inner \in PCB /\ t.parent[inner] = up /\ inner # t.root
                      /\ inner # t.kid[up][o]
    BY <1>1, <1>2, KidFacts
<1>6. /\ IsTree(u)
      /\ u.root = IF n = t.root THEN up ELSE t.root
      /\ \A m \in PCB, d \in Sides :
            u.kid[m][d] = IF m = n /\ d = o THEN inner
                          ELSE IF m = up /\ d = s THEN n
                          ELSE IF t.kid[m][d] = n THEN up ELSE t.kid[m][d]
      /\ \A m \in PCB :
            u.parent[m] = IF m = n THEN up ELSE IF m = up THEN t.parent[n]
                          ELSE IF m = inner THEN n ELSE t.parent[m]
    BY DEF Rotated
<1>7. /\ \A m \in PCB, d \in Sides : t.kid[m][d] # NULL => t.parent[t.kid[m][d]] = m
      /\ \A m \in PCB : t.kid[m][s] # NULL => t.kid[m][s] # t.kid[m][o]
      /\ \A m \in PCB : t.kid[m][o] # NULL => t.kid[m][s] # t.kid[m][o]
      /\ \A m \in PCB, d \in Sides : t.kid[m][d] \in Ptr
    BY <1>1, KidFacts, TreeFields
<1>8. \A m \in PCB : t.parent[m] # NULL => \E d \in Sides : t.kid[t.parent[m]][d] = m
    BY <1>1 DEF Shaped
<1>9. t.kid[n][o] = up /\ t.kid[up][s] = inner
    OBVIOUS
<1>10. n = t.root <=> t.parent[n] = NULL
    BY <1>1, <1>2, ParentFacts
<1>11. t.parent[n] # NULL => t.parent[n] \in PCB /\ t.parent[n] \in Nodes(t)
    BY <1>1, <1>2, <1>10, ParentFacts
<1>. HIDE DEF o, up, inner
<1>12. Nodes(u) = Nodes(t)
    <2>1. ASSUME NEW m \in PCB
          PROVE  m \in Nodes(u) <=> m \in Nodes(t)
        BY <1>2, <1>3, <1>5, <1>6, <1>10 DEF Nodes
    <2>. QED  BY <2>1 DEF Nodes
<1>13. u.root # NULL => u.parent[u.root] = NULL
    <2>1. t.root # NULL => t.parent[t.root] = NULL /\ t.root \in PCB
        BY <1>1, TreeFields DEF Shaped, Ptr
    <2>. QED  BY <1>2, <1>3, <1>5, <1>6, <1>10, <2>1
<1>14. ASSUME NEW m \in PCB, NEW d \in Sides, u.kid[m][d] # NULL
       PROVE  u.parent[u.kid[m][d]] = m
    <2>1. CASE m = n /\ d = o
        BY <1>3, <1>5, <1>6, <1>14, <2>1
    <2>2. CASE m = up /\ d = s
        BY <1>3, <1>6, <2>2
    <2>3. CASE ~(m = n /\ d = o) /\ ~(m = up /\ d = s) /\ t.kid[m][d] = n
        <3>1. u.kid[m][d] = up /\ t.parent[n] = m
            BY <1>2, <1>6, <1>7, <2>3
        <3>. QED  BY <1>2, <1>3, <1>6, <3>1
    <2>4. CASE ~(m = n /\ d = o) /\ ~(m = up /\ d = s) /\ t.kid[m][d] # n
        <3>1. u.kid[m][d] = t.kid[m][d] /\ t.kid[m][d] # NULL /\ t.kid[m][d] \in PCB
              /\ t.parent[t.kid[m][d]] = m
            BY <1>6, <1>7, <1>14, <2>4 DEF Ptr
        <3>2. t.kid[m][d] # up
            <4>1. SUFFICES ASSUME t.kid[m][d] = up PROVE FALSE
                OBVIOUS
            <4>2. m = n /\ d = s
                BY <1>1, <1>2, <2>4, <3>1, <4>1
            <4>. QED  BY <1>2, <1>7, <1>9, <4>1, <4>2
        <3>3. t.kid[m][d] # inner
            <4>1. SUFFICES ASSUME t.kid[m][d] = inner PROVE FALSE
                OBVIOUS
            <4>2. m = up /\ d = o
                BY <1>1, <1>5, <2>4, <3>1, <4>1
            <4>. QED  BY <1>5, <3>1, <4>1, <4>2
        <3>. QED  BY <1>6, <2>4, <3>1, <3>2, <3>3
    <2>. QED  BY <2>1, <2>2, <2>3, <2>4
<1>15. ASSUME NEW m \in PCB, u.kid[m][s] # NULL
       PROVE  u.kid[m][s] # u.kid[m][o]
    <2>1. CASE m = n
        <3>1. u.kid[n][s] = t.kid[n][s] /\ u.kid[n][o] = inner
            BY <1>1, <1>2, <1>3, <1>4, <1>6
        <3>2. t.kid[n][s] # NULL /\ t.parent[t.kid[n][s]] = n
            BY <1>1, <1>7, <1>15, <2>1, <3>1
        <3>. QED  BY <1>2, <1>3, <1>5, <2>1, <3>1, <3>2
    <2>2. CASE m = up
        <3>1. u.kid[up][s] = n /\ u.kid[up][o] = t.kid[up][o]
            BY <1>1, <1>2, <1>3, <1>6
        <3>. QED  BY <1>1, <1>3, <2>2, <3>1
    <2>3. CASE m # n /\ m # up
        <3>1. \A d \in Sides :
                  u.kid[m][d] = IF t.kid[m][d] = n THEN up ELSE t.kid[m][d]
            BY <1>6, <2>3
        <3>2. \A d \in Sides : t.kid[m][d] # up
            BY <1>2, <1>7, <2>3
        <3>. QED  BY <1>1, <1>2, <1>7, <1>15, <3>1, <3>2
    <2>. QED  BY <2>1, <2>2, <2>3
<1>16. ASSUME NEW m \in PCB, u.parent[m] # NULL
       PROVE  \E d \in Sides : u.kid[u.parent[m]][d] = m
    <2>1. CASE m = n
        BY <1>1, <1>2, <1>3, <1>6, <2>1
    <2>2. CASE m = up
        <3>1. u.parent[up] = t.parent[n] /\ t.parent[n] \in PCB
            BY <1>2, <1>3, <1>6, <1>11, <1>16, <2>2
        <3>2. PICK d \in Sides : t.kid[t.parent[n]][d] = n
            BY <1>2, <1>8, <1>11, <3>1
        <3>3. u.kid[t.parent[n]][d] = up
            BY <1>3, <1>6, <3>1, <3>2
        <3>. QED  BY <2>2, <3>1, <3>3
    <2>3. CASE m = inner
        BY <1>1, <1>2, <1>3, <1>6, <2>3
    <2>4. CASE m # n /\ m # up /\ m # inner
        <3>1. u.parent[m] = t.parent[m]
            BY <1>6, <2>4
        <3>2. PICK d \in Sides : t.kid[t.parent[m]][d] = m
            BY <1>8, <1>16, <3>1
        <3>3. t.parent[m] \in PCB
            BY <1>1, <1>16, <3>1, TreeFields DEF Ptr
        <3>4. ~(t.parent[m] = n /\ d = o) /\ ~(t.parent[m] = up /\ d = s)
            BY <1>9, <2>4, <3>2
        <3>5. u.kid[t.parent[m]][d] = m
            BY <1>6, <2>4, <3>2, <3>3, <3>4
        <3>. QED  BY <3>1, <3>5
    <2>. QED  BY <2>1, <2>2, <2>3, <2>4
<1>17. ASSUME NEW m \in PCB \ Nodes(u), NEW d \in Sides
       PROVE  u.kid[m][d] = NULL
    <2>1. m \notin Nodes(t) /\ m # n /\ m # up
        BY <1>2, <1>12
    <2>2. t.kid[m][d] = NULL
        BY <1>1, <2>1 DEF Shaped
    <2>. QED  BY <1>2, <1>6, <2>1, <2>2
<1>18. \A m \in PCB : u.kid[m]["left"] # NULL => u.kid[m]["left"] # u.kid[m]["right"]
    <2>1. CASE s = "left"
        BY <1>15, <2>1 DEF o, Other
    <2>2. CASE s = "right"
        <3>1. o = "left"
            BY <2>2 DEF o, Other
        <3>. QED  BY <1>15, <2>2, <3>1
    <2>. QED  BY <2>1, <2>2 DEF Sides
<1>19. Shaped(u)
    BY <1>6, <1>13, <1>14, <1>16, <1>17, <1>18 DEF Shaped
<1>. QED  BY <1>12, <1>19

(* The places behind a rotation: the node that comes up has the node's.    *)
RotatedEnds(t, n, s, pos, e) ==
    [m \in PCB |->
        IF m = t.kid[n][Other(s)] THEN e[n]
        ELSE IF m = n
        THEN [d \in Sides |->
                 IF d = s THEN e[n][s]
                 ELSE IF s = "left" THEN pos[t.kid[n]["right"]] - 1
                                    ELSE pos[t.kid[n]["left"]] + 1]
        ELSE e[m]]

(* A rotation keeps the order.                                             *)
LEMMA RotateOrdered ==
    ASSUME NEW t, NEW q, NEW pos, NEW e, Ordered(t, q, pos, e),
           NEW n \in PCB, NEW s \in Sides, t.kid[n][Other(s)] # NULL,
           NEW u, Rotated(t, n, s, u)
    PROVE  Nodes(u) = Nodes(t) /\ Ordered(u, q, pos, RotatedEnds(t, n, s, pos, e))
<1>. DEFINE o == Other(s)
            up == t.kid[n][o]
            inner == t.kid[up][s]
            f == RotatedEnds(t, n, s, pos, e)
<1>1. Shaped(u) /\ Nodes(u) = Nodes(t)
    BY RotateShaped
<1>2. o \in Sides /\ s \in Sides /\ o # s /\ Shaped(t) /\ IsTree(t)
    BY DEF Ordered, Shaped, Other, Sides
<1>3. up \in PCB /\ n \in Nodes(t) /\ up \in Nodes(t) /\ up # NULL /\ up # t.root
      /\ t.parent[up] = n /\ n # NULL /\ NULL \notin PCB
    BY <1>2, KidFacts, NodesAssumption
<1>4. up # n /\ inner # n /\ inner # up
      /\ \A d \in Sides : t.kid[up][d] # n /\ t.kid[up][d] # up
    BY <1>2, NoLoops
<1>5. \A d \in Sides : t.kid[n][d] # n
    BY <1>2, <1>3, NoLoops
<1>6. inner # NULL => inner \in Nodes(t)
    BY <1>2, <1>3, KidFacts
<1>7. /\ u.root = IF n = t.root THEN up ELSE t.root
      /\ \A m \in PCB, d \in Sides :
            u.kid[m][d] = IF m = n /\ d = o THEN inner
                          ELSE IF m = up /\ d = s THEN n
                          ELSE IF t.kid[m][d] = n THEN up ELSE t.kid[m][d]
    BY DEF Rotated
<1>8. \A m \in PCB, d \in Sides :
          t.kid[m][d] # NULL => t.parent[t.kid[m][d]] = m /\ t.kid[m][d] \in Nodes(t)
    BY <1>2, KidFacts
<1>9. \A m \in Nodes(t) :
          /\ m \in PCB /\ pos[m] \in Int
          /\ e[m]["left"] \in Int /\ e[m]["right"] \in Int
          /\ 1 <= e[m]["left"] /\ e[m]["left"] <= pos[m]
          /\ pos[m] <= e[m]["right"] /\ e[m]["right"] <= Len(q) /\ Len(q) \in Nat
    BY DEF Nodes, Ordered, Places, Sides, IsQueue
<1>10. /\ pos \in [PCB -> Int] /\ e \in [PCB -> [Sides -> Int]]
    BY DEF Ordered, Places
<1>11. f \in [PCB -> [Sides -> Int]]
    <2>1. \A d \in Sides : t.kid[n][d] # NULL => t.kid[n][d] \in PCB
        BY <1>8 DEF Nodes
    <2>2. CASE s = "left"
        <3>1. t.kid[n]["right"] \in PCB
            BY <1>3, <2>2 DEF Other
        <3>. QED  BY <1>3, <1>10, <2>2, <3>1 DEF RotatedEnds, Other
    <2>3. CASE s = "right"
        <3>1. t.kid[n]["left"] \in PCB
            BY <1>3, <2>3 DEF Other
        <3>. QED  BY <1>3, <1>10, <2>3, <3>1 DEF RotatedEnds, Other
    <2>. QED  BY <2>2, <2>3 DEF Sides
<1>12. f[up] = e[n] /\ \A m \in PCB : m # up /\ m # n => f[m] = e[m]
    BY <1>3 DEF RotatedEnds
<1>13. ASSUME NEW m \in PCB, NEW d \in Sides, m # n, m # up,
              t.kid[m][d] # n, t.kid[m][d] # NULL
       PROVE  f[t.kid[m][d]] = e[t.kid[m][d]]
    <2>1. t.kid[m][d] # up /\ t.kid[m][d] \in PCB
        BY <1>3, <1>8, <1>13 DEF Nodes
    <2>. QED  BY <1>12, <1>13, <2>1
<1>14. CASE s = "left"
    <2>1. o = "right"
        BY <1>14 DEF Other
    <2>2. f[n]["left"] = e[n]["left"] /\ f[n]["right"] = pos[up] - 1
        BY <1>4, <1>14, <2>1 DEF RotatedEnds, Sides
    <2>3. /\ e[up]["right"] = e[n]["right"] /\ e[up]["left"] = pos[n] + 1
          /\ IF t.kid[n]["left"] = NULL THEN e[n]["left"] = pos[n]
             ELSE /\ e[t.kid[n]["left"]]["left"] = e[n]["left"]
                  /\ e[t.kid[n]["left"]]["right"] = pos[n] - 1
          /\ IF inner = NULL THEN e[up]["left"] = pos[up]
             ELSE e[inner]["left"] = e[up]["left"] /\ e[inner]["right"] = pos[up] - 1
          /\ IF t.kid[up]["right"] = NULL THEN e[up]["right"] = pos[up]
             ELSE /\ e[t.kid[up]["right"]]["right"] = e[up]["right"]
                  /\ e[t.kid[up]["right"]]["left"] = pos[up] + 1
        BY <1>3, <1>14, <2>1 DEF Ordered, Divided
    <2>4. /\ u.kid[n]["right"] = inner /\ u.kid[n]["left"] = t.kid[n]["left"]
          /\ u.kid[up]["left"] = n /\ u.kid[up]["right"] = t.kid[up]["right"]
        BY <1>3, <1>4, <1>5, <1>7, <1>14, <2>1 DEF Sides
    <2>5. t.kid[n]["left"] # NULL => f[t.kid[n]["left"]] = e[t.kid[n]["left"]]
        <3>1. t.kid[n]["left"] # t.kid[n]["right"] \/ t.kid[n]["left"] = NULL
            BY <1>2 DEF Shaped, Sides
        <3>2. t.kid[n]["left"] # NULL => t.kid[n]["left"] \in PCB /\ t.kid[n]["left"] # n
            BY <1>5, <1>8 DEF Nodes, Sides
        <3>. QED  BY <1>12, <2>1, <3>1, <3>2
    <2>6. t.kid[up]["right"] # NULL => f[t.kid[up]["right"]] = e[t.kid[up]["right"]]
        BY <1>3, <1>4, <1>8, <1>12 DEF Nodes, Sides
    <2>7. inner # NULL => f[inner] = e[inner]
        BY <1>4, <1>6, <1>12 DEF Nodes
    <2>. HIDE DEF f, up, inner, o
    <2>8. ASSUME NEW m \in Nodes(u)
          PROVE  /\ 1 <= f[m]["left"] /\ f[m]["left"] <= pos[m]
                 /\ pos[m] <= f[m]["right"] /\ f[m]["right"] <= Len(q)
        <3>1. m \in Nodes(t) /\ m \in PCB
            BY <1>1, <1>9
        <3>2. /\ \A k \in {n, up} :
                    /\ pos[k] \in Int /\ e[k]["left"] \in Int /\ e[k]["right"] \in Int
                    /\ 1 <= e[k]["left"] /\ e[k]["left"] <= pos[k]
                    /\ pos[k] <= e[k]["right"] /\ e[k]["right"] <= Len(q)
              /\ Len(q) \in Nat
            BY <1>3, <1>9
        <3>3. CASE m = n
            BY ONLY <2>2, <2>3, <3>3, <3>2
        <3>4. CASE m = up
            BY ONLY <1>12, <2>2, <2>3, <3>4, <3>2
        <3>5. CASE m # n /\ m # up
            BY <1>9, <1>12, <3>1, <3>5
        <3>. QED  BY <3>3, <3>4, <3>5
    <2>9. Divided(u, pos, f)
        <3>1. SUFFICES ASSUME NEW m \in Nodes(u)
              PROVE /\ IF u.kid[m]["left"] = NULL THEN f[m]["left"] = pos[m]
                       ELSE /\ f[u.kid[m]["left"]]["left"] = f[m]["left"]
                            /\ f[u.kid[m]["left"]]["right"] = pos[m] - 1
                    /\ IF u.kid[m]["right"] = NULL THEN f[m]["right"] = pos[m]
                       ELSE /\ f[u.kid[m]["right"]]["right"] = f[m]["right"]
                            /\ f[u.kid[m]["right"]]["left"] = pos[m] + 1
            BY DEF Divided
        <3>2. m \in Nodes(t) /\ m \in PCB
            BY <1>1, <3>1 DEF Nodes
        <3>3. CASE m = n
            BY <1>3, <1>9, <2>2, <2>3, <2>4, <2>5, <2>7, <3>3
        <3>4. CASE m = up
            BY Zenon, <1>3, <1>9, <1>12, <2>2, <2>3, <2>4, <2>6, <3>4
        <3>5. CASE m # n /\ m # up
            <4>1. /\ IF t.kid[m]["left"] = NULL THEN e[m]["left"] = pos[m]
                     ELSE /\ e[t.kid[m]["left"]]["left"] = e[m]["left"]
                          /\ e[t.kid[m]["left"]]["right"] = pos[m] - 1
                  /\ IF t.kid[m]["right"] = NULL THEN e[m]["right"] = pos[m]
                     ELSE /\ e[t.kid[m]["right"]]["right"] = e[m]["right"]
                          /\ e[t.kid[m]["right"]]["left"] = pos[m] + 1
                BY <3>2 DEF Ordered, Divided
            <4>2. f[m] = e[m] /\ f[up] = e[n]
                BY <1>12, <3>2, <3>5
            <4>3. \A d \in Sides :
                     u.kid[m][d] = IF t.kid[m][d] = n THEN up ELSE t.kid[m][d]
                BY <1>7, <3>2, <3>5
            <4>4. \A d \in Sides : u.kid[m][d] = NULL <=> t.kid[m][d] = NULL
                BY <1>3, <4>3
            <4>5. \A d \in Sides : t.kid[m][d] # NULL => f[u.kid[m][d]] = e[t.kid[m][d]]
                BY <1>13, <3>2, <3>5, <4>2, <4>3
            <4>6. "left" \in Sides /\ "right" \in Sides
                BY DEF Sides
            <4>. QED  BY <4>1, <4>2, <4>4, <4>5, <4>6
        <3>. QED  BY <3>3, <3>4, <3>5
    <2>10. Places(u, q, pos, f)
        <3>1. u.root # NULL => f[u.root]["left"] = 1 /\ f[u.root]["right"] = Len(q)
            <4>1. t.root # NULL => e[t.root]["left"] = 1 /\ e[t.root]["right"] = Len(q)
                BY DEF Ordered, Places
            <4>2. t.root \in Ptr
                BY <1>2, TreeFields
            <4>. QED  BY <1>3, <1>7, <1>12, <4>1, <4>2 DEF Ptr
        <3>2. t.root # NULL
            BY <1>2, <1>3, KidFacts, NodePlaces DEF Ordered, Places
        <3>3. u.root # NULL
            BY <1>3, <1>7, <3>2
        <3>. QED  BY <1>1, <1>11, <2>8, <3>1, <3>3 DEF Ordered, Places
    <2>. QED  BY <1>1, <2>9, <2>10 DEF Ordered, f
<1>15. CASE s = "right"
    <2>1. o = "left"
        BY <1>15 DEF Other
    <2>2. f[n]["right"] = e[n]["right"] /\ f[n]["left"] = pos[up] + 1
        BY <1>4, <1>15, <2>1 DEF RotatedEnds, Sides
    <2>3. /\ e[up]["left"] = e[n]["left"] /\ e[up]["right"] = pos[n] - 1
          /\ IF t.kid[n]["right"] = NULL THEN e[n]["right"] = pos[n]
             ELSE /\ e[t.kid[n]["right"]]["right"] = e[n]["right"]
                  /\ e[t.kid[n]["right"]]["left"] = pos[n] + 1
          /\ IF inner = NULL THEN e[up]["right"] = pos[up]
             ELSE e[inner]["right"] = e[up]["right"] /\ e[inner]["left"] = pos[up] + 1
          /\ IF t.kid[up]["left"] = NULL THEN e[up]["left"] = pos[up]
             ELSE /\ e[t.kid[up]["left"]]["left"] = e[up]["left"]
                  /\ e[t.kid[up]["left"]]["right"] = pos[up] - 1
        BY <1>3, <1>15, <2>1 DEF Ordered, Divided
    <2>4. /\ u.kid[n]["left"] = inner /\ u.kid[n]["right"] = t.kid[n]["right"]
          /\ u.kid[up]["right"] = n /\ u.kid[up]["left"] = t.kid[up]["left"]
        BY <1>3, <1>4, <1>5, <1>7, <1>15, <2>1 DEF Sides
    <2>5. t.kid[n]["right"] # NULL => f[t.kid[n]["right"]] = e[t.kid[n]["right"]]
        <3>1. t.kid[n]["right"] # t.kid[n]["left"] \/ t.kid[n]["right"] = NULL
            BY <1>2 DEF Shaped, Sides
        <3>2. t.kid[n]["right"] # NULL => t.kid[n]["right"] \in PCB /\ t.kid[n]["right"] # n
            BY <1>5, <1>8 DEF Nodes, Sides
        <3>. QED  BY <1>12, <2>1, <3>1, <3>2
    <2>6. t.kid[up]["left"] # NULL => f[t.kid[up]["left"]] = e[t.kid[up]["left"]]
        BY <1>3, <1>4, <1>8, <1>12 DEF Nodes, Sides
    <2>7. inner # NULL => f[inner] = e[inner]
        BY <1>4, <1>6, <1>12 DEF Nodes
    <2>. HIDE DEF f, up, inner, o
    <2>8. ASSUME NEW m \in Nodes(u)
          PROVE  /\ 1 <= f[m]["left"] /\ f[m]["left"] <= pos[m]
                 /\ pos[m] <= f[m]["right"] /\ f[m]["right"] <= Len(q)
        <3>1. m \in Nodes(t) /\ m \in PCB
            BY <1>1, <1>9
        <3>2. /\ \A k \in {n, up} :
                    /\ pos[k] \in Int /\ e[k]["left"] \in Int /\ e[k]["right"] \in Int
                    /\ 1 <= e[k]["left"] /\ e[k]["left"] <= pos[k]
                    /\ pos[k] <= e[k]["right"] /\ e[k]["right"] <= Len(q)
              /\ Len(q) \in Nat
            BY <1>3, <1>9
        <3>3. CASE m = n
            BY ONLY <2>2, <2>3, <3>3, <3>2
        <3>4. CASE m = up
            BY ONLY <1>12, <2>2, <2>3, <3>4, <3>2
        <3>5. CASE m # n /\ m # up
            BY <1>9, <1>12, <3>1, <3>5
        <3>. QED  BY <3>3, <3>4, <3>5
    <2>9. Divided(u, pos, f)
        <3>1. SUFFICES ASSUME NEW m \in Nodes(u)
              PROVE /\ IF u.kid[m]["left"] = NULL THEN f[m]["left"] = pos[m]
                       ELSE /\ f[u.kid[m]["left"]]["left"] = f[m]["left"]
                            /\ f[u.kid[m]["left"]]["right"] = pos[m] - 1
                    /\ IF u.kid[m]["right"] = NULL THEN f[m]["right"] = pos[m]
                       ELSE /\ f[u.kid[m]["right"]]["right"] = f[m]["right"]
                            /\ f[u.kid[m]["right"]]["left"] = pos[m] + 1
            BY DEF Divided
        <3>2. m \in Nodes(t) /\ m \in PCB
            BY <1>1, <3>1 DEF Nodes
        <3>3. CASE m = n
            BY <1>3, <1>9, <2>2, <2>3, <2>4, <2>5, <2>7, <3>3
        <3>4. CASE m = up
            BY Zenon, <1>3, <1>9, <1>12, <2>2, <2>3, <2>4, <2>6, <3>4
        <3>5. CASE m # n /\ m # up
            <4>1. /\ IF t.kid[m]["left"] = NULL THEN e[m]["left"] = pos[m]
                     ELSE /\ e[t.kid[m]["left"]]["left"] = e[m]["left"]
                          /\ e[t.kid[m]["left"]]["right"] = pos[m] - 1
                  /\ IF t.kid[m]["right"] = NULL THEN e[m]["right"] = pos[m]
                     ELSE /\ e[t.kid[m]["right"]]["right"] = e[m]["right"]
                          /\ e[t.kid[m]["right"]]["left"] = pos[m] + 1
                BY <3>2 DEF Ordered, Divided
            <4>2. f[m] = e[m] /\ f[up] = e[n]
                BY <1>12, <3>2, <3>5
            <4>3. \A d \in Sides :
                     u.kid[m][d] = IF t.kid[m][d] = n THEN up ELSE t.kid[m][d]
                BY <1>7, <3>2, <3>5
            <4>4. \A d \in Sides : u.kid[m][d] = NULL <=> t.kid[m][d] = NULL
                BY <1>3, <4>3
            <4>5. \A d \in Sides : t.kid[m][d] # NULL => f[u.kid[m][d]] = e[t.kid[m][d]]
                BY <1>13, <3>2, <3>5, <4>2, <4>3
            <4>6. "left" \in Sides /\ "right" \in Sides
                BY DEF Sides
            <4>. QED  BY <4>1, <4>2, <4>4, <4>5, <4>6
        <3>. QED  BY <3>3, <3>4, <3>5
    <2>10. Places(u, q, pos, f)
        <3>1. u.root # NULL => f[u.root]["left"] = 1 /\ f[u.root]["right"] = Len(q)
            <4>1. t.root # NULL => e[t.root]["left"] = 1 /\ e[t.root]["right"] = Len(q)
                BY DEF Ordered, Places
            <4>2. t.root \in Ptr
                BY <1>2, TreeFields
            <4>. QED  BY <1>3, <1>7, <1>12, <4>1, <4>2 DEF Ptr
        <3>2. t.root # NULL
            BY <1>2, <1>3, KidFacts, NodePlaces DEF Ordered, Places
        <3>3. u.root # NULL
            BY <1>3, <1>7, <3>2
        <3>. QED  BY <1>1, <1>11, <2>8, <3>1, <3>3 DEF Ordered, Places
    <2>. QED  BY <1>1, <2>9, <2>10 DEF Ordered, f
<1>. QED  BY <1>14, <1>15 DEF Sides

-----------------------------------------------------------------------------
(* Ways down.                                                              *)

(* A way down that keeps to S ends in S, at a node without a next one.     *)
LEMMA PathEndIn ==
    ASSUME NEW t, NEW q, NEW pos, NEW e, Ordered(t, q, pos, e),
           NEW S \in SUBSET Nodes(t), NEW n \in S, NEW turn \in [PCB -> Sides],
           \A m \in S : t.kid[m][turn[m]] # NULL => t.kid[m][turn[m]] \in S
    PROVE  /\ PathEnd(t, n, turn) \in S
           /\ t.kid[PathEnd(t, n, turn)][turn[PathEnd(t, n, turn)]] = NULL
<1>. DEFINE step == [m \in Ptr |-> IF m = NULL THEN NULL ELSE t.kid[m][turn[m]]]
            at == Path(t, n, turn)
<1>1. S \subseteq PCB /\ NULL \notin PCB /\ Shaped(t) /\ IsTree(t)
    BY NodesAssumption DEF Nodes, Ordered, Shaped
<1>2. step \in [Ptr -> Ptr]
    BY <1>1, TreeFields DEF Ptr
<1>3. \A m \in S : step[m] = t.kid[m][turn[m]]
    BY <1>1 DEF Ptr
<1>4. step[NULL] = NULL
    BY DEF Ptr
<1>5. at = Walk(step, n)
    BY DEF Path
<1>. HIDE DEF step, at
<1>6. n \in Ptr
    BY <1>1 DEF Ptr
<1>7. at \in [Nat -> Ptr] /\ at[0] = n /\ \A k \in Nat : at[k + 1] = step[at[k]]
    BY <1>2, <1>5, <1>6, WalkFacts
<1>8. Span(e, n) \in Nat /\ Span(e, n) < Cardinality(PCB) /\ Cardinality(PCB) \in Nat
    <2>1. n \in Nodes(t)
        OBVIOUS
    <2>2. /\ Span(e, n) \in Nat /\ Span(e, n) < Len(q) /\ Len(q) \in Nat
          /\ Cardinality(PCB) \in Nat /\ Len(q) <= Cardinality(PCB)
        BY <2>1, NodePlaces
    <2>. QED  BY <2>2
<1>. DEFINE Bad == {k \in Nat : ~(\/ at[k] = NULL
                                  \/ at[k] \in S /\ Span(e, at[k]) + k <= Span(e, n))}
<1>9. Bad = {}
    <2>1. SUFFICES ASSUME Bad # {} PROVE FALSE
        OBVIOUS
    <2>2. PICK k \in Bad : IsLeast(k, Bad)
        BY <2>1, LeastExists
    <2>3. k # 0
        BY <1>7, <1>8, <2>2
    <2>4. k - 1 \in Nat /\ k - 1 \notin Bad /\ (k - 1) + 1 = k
        BY <2>2, <2>3 DEF IsLeast
    <2>. DEFINE m == at[k - 1]
    <2>5. at[k] = step[m]
        BY <1>7, <2>4
    <2>6. CASE m = NULL
        BY <1>4, <2>2, <2>5, <2>6
    <2>7. CASE m # NULL
        <3>1. m \in S /\ Span(e, m) + (k - 1) <= Span(e, n)
            BY <2>4, <2>7
        <3>. HIDE DEF m
        <3>2. at[k] = t.kid[m][turn[m]]
            BY <1>3, <2>5, <3>1
        <3>3. CASE at[k] = NULL
            BY <2>2, <3>3
        <3>4. CASE at[k] # NULL
            <4>1. at[k] \in S /\ m \in PCB /\ turn[m] \in Sides
                BY <1>1, <3>1, <3>2, <3>4
            <4>2. Span(e, at[k]) \in Nat /\ Span(e, m) \in Nat /\ Span(e, at[k]) < Span(e, m)
                BY <3>2, <3>4, <4>1, KidPlaces
            <4>3. Span(e, at[k]) + k <= Span(e, n)
                BY <1>8, <2>4, <3>1, <4>2
            <4>. QED  BY <2>2, <4>1, <4>3
        <3>. QED  BY <3>3, <3>4
    <2>. QED  BY <2>6, <2>7
<1>10. \A k \in Nat : at[k] = NULL \/ (at[k] \in S /\ Span(e, at[k]) + k <= Span(e, n))
    BY <1>9
<1>. HIDE DEF Bad
<1>. DEFINE Out == {k \in Nat : at[k] = NULL}
<1>11. Span(e, n) + 1 \in Out
    <2>1. SUFFICES ASSUME at[Span(e, n) + 1] # NULL PROVE FALSE
        BY <1>8
    <2>. DEFINE m == at[Span(e, n) + 1]
    <2>2. m \in S /\ Span(e, m) + (Span(e, n) + 1) <= Span(e, n)
        BY <1>8, <1>10, <2>1
    <2>. HIDE DEF m
    <2>3. Span(e, m) \in Nat
        BY <2>2, NodePlaces
    <2>. QED  BY <1>8, <2>2, <2>3
<1>12. PICK j \in Out : IsLeast(j, Out)
    BY <1>11, LeastExists
<1>13. j # 0
    BY <1>1, <1>7, <1>12
<1>14. j - 1 \in Depths /\ at[j - 1] # NULL /\ at[(j - 1) + 1] = NULL
    <2>1. j \in Nat /\ j <= Span(e, n) + 1 /\ at[j] = NULL
        BY <1>11, <1>12 DEF IsLeast
    <2>2. j - 1 \in Nat /\ (j - 1) + 1 = j /\ j - 1 <= Cardinality(PCB)
        BY <1>8, <1>13, <2>1
    <2>3. j - 1 \notin Out
        BY <1>12, <2>1, <2>2 DEF IsLeast
    <2>. QED  BY <1>8, <2>1, <2>2, <2>3 DEF Depths
<1>. DEFINE k == CHOOSE i \in Depths : at[i] # NULL /\ at[i + 1] = NULL
<1>15. k \in Depths /\ at[k] # NULL /\ at[k + 1] = NULL
    BY <1>14
<1>16. PathEnd(t, n, turn) = at[k]
    BY DEF PathEnd, at
<1>. HIDE DEF k
<1>17. k \in Nat
    BY <1>8, <1>15 DEF Depths
<1>18. at[k] \in S
    BY <1>10, <1>15, <1>17
<1>19. t.kid[at[k]][turn[at[k]]] = NULL
    BY <1>3, <1>7, <1>15, <1>17, <1>18
<1>. QED  BY <1>16, <1>18, <1>19

(* rb_first finds the node with the first place below.                     *)
LEMMA LeftmostIs ==
    ASSUME NEW t, NEW q, NEW pos, NEW e, Ordered(t, q, pos, e), NEW n \in Nodes(t)
    PROVE  /\ Leftmost(t, n) \in Nodes(t)
           /\ pos[Leftmost(t, n)] = e[n]["left"]
           /\ t.kid[Leftmost(t, n)]["left"] = NULL
           /\ Leftmost(t, n) = q[e[n]["left"]]
<1>. DEFINE S == {m \in Nodes(t) : e[m]["left"] = e[n]["left"]}
            turn == [m \in PCB |-> "left"]
            l == PathEnd(t, n, turn)
<1>1. turn \in [PCB -> Sides]
    BY DEF Sides
<1>2. ASSUME NEW m \in S, t.kid[m]["left"] # NULL
      PROVE  t.kid[m]["left"] \in S
    <2>1. m \in PCB /\ "left" \in Sides
        BY DEF Nodes, Sides
    <2>2. t.kid[m]["left"] \in Nodes(t)
        BY <1>2, <2>1, KidFacts DEF Ordered
    <2>3. e[t.kid[m]["left"]]["left"] = e[m]["left"]
        BY <1>2 DEF Ordered, Divided
    <2>. QED  BY <2>2, <2>3
<1>3. \A m \in S : turn[m] = "left"
    BY DEF Nodes
<1>. HIDE DEF turn
<1>4. l \in S /\ t.kid[l][turn[l]] = NULL
    <2>1. S \in SUBSET Nodes(t) /\ n \in S
        OBVIOUS
    <2>2. \A m \in S : t.kid[m][turn[m]] # NULL => t.kid[m][turn[m]] \in S
        BY <1>2, <1>3
    <2>. HIDE DEF S
    <2>. QED  BY <1>1, <2>1, <2>2, PathEndIn
<1>5. Leftmost(t, n) = l
    BY DEF Leftmost, turn
<1>. HIDE DEF l
<1>6. l \in Nodes(t) /\ e[l]["left"] = e[n]["left"] /\ t.kid[l]["left"] = NULL
    BY <1>3, <1>4
<1>7. pos[l] = e[l]["left"]
    BY <1>6 DEF Ordered, Divided
<1>8. q[pos[l]] = l
    BY <1>6, NodePlaces
<1>. QED  BY <1>5, <1>6, <1>7, <1>8

(* p belongs behind the first k of q.                                      *)
Fits(q, k, p) ==
    /\ k \in 0 .. Len(q)
    /\ \A i \in 1 .. k : Key[q[i]] <= Key[p]
    /\ \A i \in k + 1 .. Len(q) : Key[p] < Key[q[i]]

(* There is such a place in a sorted queue.                                *)
LEMMA FitExists ==
    ASSUME NEW q, IsQueue(q), Sorted(q), NEW p \in PCB
    PROVE  \E k : Fits(q, k, p)
<1>. DEFINE S == {k \in 0 .. Len(q) : k < Len(q) => Key[p] < Key[q[k + 1]]}
<1>1. Len(q) \in Nat /\ q \in [1 .. Len(q) -> PCB] /\ Key \in [PCB -> Int]
    BY NodesAssumption DEF IsQueue
<1>2. Len(q) \in S /\ S \subseteq Nat
    BY <1>1
<1>3. PICK k \in S : IsLeast(k, S)
    BY <1>2, LeastExists
<1>4. Key[p] \in Int /\ \A i \in 1 .. Len(q) : Key[q[i]] \in Int
    BY <1>1
<1>5. ASSUME NEW i \in 1 .. k
      PROVE  Key[q[i]] <= Key[p]
    <2>1. i - 1 \in 0 .. Len(q) /\ i - 1 < k /\ i - 1 < Len(q) /\ (i - 1) + 1 = i
          /\ i \in 1 .. Len(q)
        BY <1>1
    <2>2. i - 1 \notin S
        BY <1>3, <2>1 DEF IsLeast
    <2>3. ~(Key[p] < Key[q[i]])
        BY <2>1, <2>2
    <2>. QED  BY <1>4, <2>1, <2>3
<1>6. ASSUME NEW i \in k + 1 .. Len(q)
      PROVE  Key[p] < Key[q[i]]
    <2>1. k + 1 \in 1 .. Len(q) /\ i \in 1 .. Len(q) /\ k + 1 <= i /\ k < Len(q)
        BY <1>1
    <2>2. Key[q[k + 1]] <= Key[q[i]] /\ Key[p] < Key[q[k + 1]]
        BY <2>1 DEF Sorted
    <2>. QED  BY <1>4, <2>1, <2>2
<1>. QED  BY <1>5, <1>6 DEF Fits

(* The descent of cfs_enqueue ends at a node next to that place.           *)
LEMMA DescentEnds ==
    ASSUME NEW t, NEW q, NEW pos, NEW e, Ordered(t, q, pos, e), t.root # NULL,
           NEW p \in PCB, NEW k, Fits(q, k, p), NEW n, n = PathEnd(t, t.root, Turn(p))
    PROVE  /\ n \in Nodes(t) /\ Turn(p)[n] \in Sides
           /\ t.kid[n][Turn(p)[n]] = NULL
           /\ k = IF Turn(p)[n] = "left" THEN pos[n] - 1 ELSE pos[n]
<1>. DEFINE S == {m \in Nodes(t) : e[m]["left"] - 1 <= k /\ k <= e[m]["right"]}
            turn == Turn(p)
<1>1. turn \in [PCB -> Sides]
    BY DEF Turn, Sides
<1>2. k \in 0 .. Len(q) /\ Len(q) \in Nat /\ k \in Int
    BY DEF Fits, Ordered, Places, IsQueue
<1>3. t.root \in S
    <2>1. t.root \in Nodes(t)
        BY TreeFields DEF Ordered, Shaped, Ptr, Nodes
    <2>2. e[t.root]["left"] = 1 /\ e[t.root]["right"] = Len(q)
        BY DEF Ordered, Places
    <2>. QED  BY <1>2, <2>1, <2>2
<1>4. ASSUME NEW m \in S
      PROVE  /\ turn[m] \in Sides
             /\ turn[m] = "left" => k < pos[m]
             /\ turn[m] # "left" => turn[m] = "right" /\ pos[m] <= k
    <2>1. m \in PCB /\ pos[m] \in 1 .. Len(q) /\ q[pos[m]] = m
        BY NodePlaces
    <2>2. turn[m] = IF Key[p] < Key[m] THEN "left" ELSE "right"
        BY <2>1 DEF Turn
    <2>3. Key[p] \in Int /\ Key[m] \in Int
        BY <2>1, NodesAssumption
    <2>4. CASE Key[p] < Key[m]
        <3>1. ~(pos[m] <= k)
            <4>1. SUFFICES ASSUME pos[m] <= k PROVE FALSE
                OBVIOUS
            <4>2. pos[m] \in 1 .. k
                BY <1>2, <2>1, <4>1
            <4>3. Key[q[pos[m]]] <= Key[p]
                BY <4>2 DEF Fits
            <4>. QED  BY <2>1, <2>3, <2>4, <4>3
        <3>. QED  BY <1>2, <2>1, <2>2, <2>4, <3>1 DEF Sides
    <2>5. CASE ~(Key[p] < Key[m])
        <3>1. ~(k < pos[m])
            <4>1. SUFFICES ASSUME k < pos[m] PROVE FALSE
                OBVIOUS
            <4>2. pos[m] \in k + 1 .. Len(q)
                BY <1>2, <2>1, <4>1
            <4>3. Key[p] < Key[q[pos[m]]]
                BY <4>2 DEF Fits
            <4>. QED  BY <2>1, <2>5, <4>3
        <3>. QED  BY <1>2, <2>1, <2>2, <2>5, <3>1 DEF Sides
    <2>. QED  BY <2>4, <2>5
<1>. HIDE DEF turn
<1>5. ASSUME NEW m \in S, t.kid[m][turn[m]] # NULL
      PROVE  t.kid[m][turn[m]] \in S
    <2>. DEFINE c == t.kid[m][turn[m]]
    <2>1. m \in PCB /\ turn[m] \in Sides
        BY <1>4, NodePlaces
    <2>2. c \in Nodes(t)
        BY <1>5, <2>1, KidFacts DEF Ordered
    <2>3. /\ pos[m] \in Int /\ e[m]["left"] \in Int /\ e[m]["right"] \in Int
          /\ e[c]["left"] \in Int /\ e[c]["right"] \in Int
        BY <2>2, NodePlaces
    <2>4. CASE turn[m] = "left"
        <3>1. e[c]["left"] = e[m]["left"] /\ e[c]["right"] = pos[m] - 1
            BY <1>5, <2>4 DEF Ordered, Divided
        <3>2. k < pos[m]
            BY <1>4, <2>4
        <3>. HIDE DEF c
        <3>3. e[m]["left"] - 1 <= k /\ k <= e[m]["right"]
            OBVIOUS
        <3>4. e[c]["left"] - 1 <= k /\ k <= e[c]["right"]
            BY <1>2, <2>3, <3>1, <3>2, <3>3
        <3>5. c \in S
            BY <2>2, <3>4
        <3>. QED  BY <3>5 DEF c
    <2>5. CASE turn[m] # "left"
        <3>1. turn[m] = "right" /\ pos[m] <= k
            BY <1>4, <2>5
        <3>2. e[c]["right"] = e[m]["right"] /\ e[c]["left"] = pos[m] + 1
            BY <1>5, <3>1 DEF Ordered, Divided
        <3>. HIDE DEF c
        <3>3. e[m]["left"] - 1 <= k /\ k <= e[m]["right"]
            OBVIOUS
        <3>4. e[c]["left"] - 1 <= k /\ k <= e[c]["right"]
            BY <1>2, <2>3, <3>1, <3>2, <3>3
        <3>5. c \in S
            BY <2>2, <3>4
        <3>. QED  BY <3>5 DEF c
    <2>. QED  BY <2>4, <2>5
<1>6. n \in S /\ t.kid[n][turn[n]] = NULL
    <2>1. S \in SUBSET Nodes(t)
        OBVIOUS
    <2>2. n = PathEnd(t, t.root, turn)
        BY DEF turn
    <2>3. \A m \in S : t.kid[m][turn[m]] # NULL => t.kid[m][turn[m]] \in S
        BY <1>5
    <2>. HIDE DEF S
    <2>4. /\ PathEnd(t, t.root, turn) \in S
          /\ t.kid[PathEnd(t, t.root, turn)][turn[PathEnd(t, t.root, turn)]] = NULL
        BY <1>1, <1>3, <2>1, <2>3, PathEndIn
    <2>. QED  BY <2>2, <2>4
<1>7. n \in Nodes(t) /\ e[n]["left"] - 1 <= k /\ k <= e[n]["right"]
    BY <1>6
<1>8. pos[n] \in Int /\ e[n]["left"] \in Int /\ e[n]["right"] \in Int
    BY <1>7, NodePlaces
<1>9. CASE turn[n] = "left"
    <2>1. e[n]["left"] = pos[n]
        BY <1>6, <1>7, <1>9 DEF Ordered, Divided
    <2>2. k < pos[n]
        BY <1>4, <1>6, <1>9
    <2>. QED  BY <1>2, <1>4, <1>6, <1>7, <1>8, <1>9, <2>1, <2>2 DEF turn
<1>10. CASE turn[n] # "left"
    <2>1. turn[n] = "right" /\ pos[n] <= k
        BY <1>4, <1>6, <1>10
    <2>2. e[n]["right"] = pos[n]
        BY <1>6, <1>7, <2>1 DEF Ordered, Divided
    <2>. QED  BY <1>2, <1>4, <1>6, <1>7, <1>8, <1>10, <2>1, <2>2 DEF turn
<1>. QED  BY <1>9, <1>10

-----------------------------------------------------------------------------
(* Insertion.                                                              *)

(* u is t with p as a red leaf below n on side s, or as the root.          *)
Leafed(t, p, n, s, u) ==
    /\ IsTree(u)
    /\ u.root = IF n = NULL THEN p ELSE t.root
    /\ \A m \in PCB, d \in Sides :
          u.kid[m][d] = IF m = p THEN NULL
                        ELSE IF m = n /\ d = s THEN p ELSE t.kid[m][d]
    /\ \A m \in PCB : u.parent[m] = IF m = p THEN n ELSE t.parent[m]
    /\ u.red[p] = TRUE /\ \A m \in PCB : m # p => u.red[m] = t.red[m]

(* The descent for p ends at n and would go on to side s.                  *)
DescendsTo(t, p, n, s) ==
    /\ n = IF t.root = NULL THEN NULL ELSE PathEnd(t, t.root, Turn(p))
    /\ s = Turn(p)[n]

(* That is what rb_link_node does.                                         *)
LEMMA LinkedFields ==
    ASSUME NEW t, IsTree(t), NEW p \in PCB, NEW n \in Ptr, n # p, NEW s,
           DescendsTo(t, p, n, s), n = NULL \/ s \in Sides
    PROVE  Leafed(t, p, n, s, Linked(t, p))
<1>1. t \in [root : Ptr, kid : [PCB -> [Sides -> Ptr]], parent : [PCB -> Ptr],
             red : [PCB -> BOOLEAN]]
    BY DEF IsTree
<1>2. PICK none : none = [d \in Sides |-> NULL]
    OBVIOUS
<1>3. PICK t1 : t1 = [t EXCEPT !.kid[p] = none, !.parent[p] = n, !.red[p] = TRUE]
    OBVIOUS
<1>4. PICK u : u = Linked(t, p)
    OBVIOUS
<1>5. u = IF n = NULL THEN [t1 EXCEPT !.root = p] ELSE SetKid(t1, n, s, p)
    BY <1>2, <1>3, <1>4 DEF Linked, SetKid, DescendsTo
<1>6. none \in [Sides -> Ptr] /\ \A d \in Sides : none[d] = NULL
    BY <1>2 DEF Ptr
<1>7. /\ t1.root = t.root /\ t1.kid = [t.kid EXCEPT ![p] = none]
      /\ t1.parent = [t.parent EXCEPT ![p] = n] /\ t1.red = [t.red EXCEPT ![p] = TRUE]
      /\ IsTree(t1)
    BY <1>1, <1>3, <1>6 DEF IsTree
<1>8. /\ \A m \in PCB, d \in Sides : t1.kid[m][d] = IF m = p THEN NULL ELSE t.kid[m][d]
      /\ \A m \in PCB : t1.parent[m] = IF m = p THEN n ELSE t.parent[m]
      /\ t1.red[p] = TRUE /\ \A m \in PCB : m # p => t1.red[m] = t.red[m]
      /\ t1.root = t.root /\ IsTree(t1)
    BY <1>1, <1>6, <1>7
<1>9. p \in Ptr
    BY DEF Ptr
<1>10. CASE n = NULL
    <2>1. u = [t1 EXCEPT !.root = p]
        BY <1>5, <1>10
    <2>2. /\ u.root = p /\ u.kid = t1.kid /\ u.parent = t1.parent /\ u.red = t1.red
          /\ IsTree(u)
        BY <1>8, <1>9, <2>1 DEF IsTree
    <2>3. \A m \in PCB : m # n
        BY <1>10, NodesAssumption
    <2>4. Leafed(t, p, n, s, u)
        BY <1>8, <1>10, <2>2, <2>3 DEF Leafed
    <2>. QED  BY <1>4, <2>4
<1>11. CASE n # NULL
    <2>1. u = SetKid(t1, n, s, p) /\ n \in PCB /\ s \in Sides
        BY <1>5, <1>11 DEF Ptr
    <2>2. /\ IsTree(u) /\ u.root = t1.root /\ u.parent = t1.parent /\ u.red = t1.red
          /\ \A m \in PCB, d \in Sides :
                u.kid[m][d] = IF m = n /\ d = s THEN p ELSE t1.kid[m][d]
        <3>1. IsTree(t1) /\ p \in Ptr /\ n \in PCB /\ s \in Sides
            BY <1>8, <1>9, <2>1
        <3>2. u = SetKid(t1, n, s, p)
            BY <2>1
        <3>. QED  BY ONLY <3>1, <3>2, SetKidFields
    <2>3. Leafed(t, p, n, s, u)
        BY <1>8, <1>11, <2>2 DEF Leafed
    <2>. QED  BY <1>4, <2>3
<1>. QED  BY <1>10, <1>11

(* A leaf keeps the shape.                                                 *)
LEMMA LeafShaped ==
    ASSUME NEW t, Shaped(t), NEW p \in PCB, p \notin Nodes(t),
           NEW n, NEW s,
           \/ n = NULL /\ t.root = NULL
           \/ n \in Nodes(t) /\ s \in Sides /\ t.kid[n][s] = NULL,
           NEW u, Leafed(t, p, n, s, u)
    PROVE  Shaped(u) /\ Nodes(u) = Nodes(t) \cup {p}
<1>1. /\ IsTree(u)
      /\ u.root = IF n = NULL THEN p ELSE t.root
      /\ \A m \in PCB, d \in Sides :
            u.kid[m][d] = IF m = p THEN NULL
                          ELSE IF m = n /\ d = s THEN p ELSE t.kid[m][d]
      /\ \A m \in PCB : u.parent[m] = IF m = p THEN n ELSE t.parent[m]
    BY DEF Leafed
<1>2. /\ IsTree(t) /\ NULL \notin PCB /\ p # NULL /\ n # p
      /\ t.parent[p] = NULL /\ p # t.root /\ NULL \notin Nodes(t)
      /\ n # NULL => n \in PCB /\ n \in Nodes(t)
    BY NodesAssumption DEF Shaped, Nodes
<1>3. \A m \in PCB, d \in Sides :
          t.kid[m][d] # NULL => /\ t.kid[m][d] \in PCB /\ t.kid[m][d] # p
                                /\ t.parent[t.kid[m][d]] = m
    BY <1>2, KidFacts
<1>4. Nodes(u) = Nodes(t) \cup {p}
    <2>1. n = NULL => t.root = NULL
        BY <1>2
    <2>2. ASSUME NEW m \in PCB
          PROVE  m \in Nodes(u) <=> m \in Nodes(t) \cup {p}
        BY <1>1, <1>2, <2>1 DEF Nodes
    <2>. QED  BY <2>2 DEF Nodes
<1>5. u.root # NULL => u.parent[u.root] = NULL
    BY <1>1, <1>2, TreeFields DEF Shaped, Ptr
<1>6. ASSUME NEW m \in PCB, NEW d \in Sides, u.kid[m][d] # NULL
      PROVE  u.parent[u.kid[m][d]] = m
    BY <1>1, <1>2, <1>3, <1>6
<1>7. ASSUME NEW m \in PCB, u.kid[m]["left"] # NULL
      PROVE  u.kid[m]["left"] # u.kid[m]["right"]
    <2>1. "left" \in Sides /\ "right" \in Sides
        BY DEF Sides
    <2>2. t.kid[m]["left"] # NULL => t.kid[m]["left"] # t.kid[m]["right"]
        BY DEF Shaped
    <2>. QED  BY <1>1, <1>2, <1>3, <1>7, <2>1, <2>2
<1>8. ASSUME NEW m \in PCB, u.parent[m] # NULL
      PROVE  \E d \in Sides : u.kid[u.parent[m]][d] = m
    <2>1. CASE m = p
        BY <1>1, <1>2, <1>8, <2>1
    <2>2. CASE m # p
        <3>1. u.parent[m] = t.parent[m] /\ t.parent[m] \in PCB
            BY <1>1, <1>2, <1>8, <2>2, TreeFields DEF Ptr
        <3>2. PICK d \in Sides : t.kid[t.parent[m]][d] = m
            BY <1>8, <3>1 DEF Shaped
        <3>3. t.parent[m] # p /\ ~(t.parent[m] = n /\ d = s)
            <4>1. t.parent[m] \in Nodes(t)
                BY <1>2, <3>1, <3>2, KidFacts
            <4>2. t.parent[m] = n /\ d = s => t.kid[n][s] = m
                BY <3>2
            <4>3. m # NULL
                BY <1>2
            <4>. QED  BY <1>2, <4>1, <4>2, <4>3
        <3>. QED  BY <1>1, <3>1, <3>2, <3>3
    <2>. QED  BY <2>1, <2>2
<1>9. ASSUME NEW m \in PCB \ Nodes(u), NEW d \in Sides
      PROVE  u.kid[m][d] = NULL
    <2>1. m # p /\ m \notin Nodes(t) /\ m # n
        BY <1>2, <1>4
    <2>2. t.kid[m][d] = NULL
        BY <2>1 DEF Shaped
    <2>. QED  BY <1>1, <2>1, <2>2
<1>. QED  BY <1>1, <1>4, <1>5, <1>6, <1>7, <1>8, <1>9 DEF Shaped

(* The first node of a tree.                                               *)
LEMMA RootOrdered ==
    ASSUME NEW t, NEW q, NEW pos, NEW e, Ordered(t, q, pos, e), t.root = NULL,
           NEW p \in PCB, NEW s, NEW u, Leafed(t, p, NULL, s, u)
    PROVE  /\ p \notin Nodes(t) /\ Nodes(u) = {p}
           /\ \E pos1, e1 : Ordered(u, Inserted(q, 0, p), pos1, e1)
<1>. DEFINE pos1 == [m \in PCB |-> 1]
            e1 == [m \in PCB |-> [d \in Sides |-> 1]]
            r == Inserted(q, 0, p)
<1>1. Shaped(t) /\ IsQueue(q) /\ Len(q) = 0 /\ Elems(q) = Nodes(t)
    BY DEF Ordered, Places
<1>2. Nodes(t) = {}
    BY <1>1 DEF Elems
<1>3. Shaped(u) /\ Nodes(u) = {p}
    <2>1. p \notin Nodes(t)
        BY <1>2
    <2>2. Shaped(u) /\ Nodes(u) = Nodes(t) \cup {p}
        BY <1>1, <2>1, LeafShaped
    <2>. QED  BY <1>2, <2>2
<1>4. IsQueue(r) /\ Len(r) = 1 /\ Elems(r) = {p}
    <2>1. p \in PCB \ Elems(q) /\ 0 \in 0 .. Len(q)
        BY <1>1, <1>2
    <2>2. IsQueue(r) /\ Len(r) = Len(q) + 1 /\ Elems(r) = Elems(q) \cup {p}
        BY <1>1, <2>1, InsertedFacts
    <2>. QED  BY <1>1, <1>2, <2>2
<1>5. r[1] = p
    <2>1. Elems(r) = {r[1]}
        BY <1>4 DEF Elems
    <2>. QED  BY <1>4, <2>1
<1>6. u.root = p /\ (\A d \in Sides : u.kid[p][d] = NULL) /\ p # NULL
    BY NodesAssumption DEF Leafed
<1>7. pos1 \in [PCB -> Int] /\ e1 \in [PCB -> [Sides -> Int]] /\ pos1[p] = 1
      /\ e1[p]["left"] = 1 /\ e1[p]["right"] = 1
    BY DEF Sides
<1>. HIDE DEF r, pos1, e1
<1>8. Places(u, r, pos1, e1)
    BY <1>3, <1>4, <1>5, <1>6, <1>7 DEF Places
<1>9. Divided(u, pos1, e1)
    BY <1>3, <1>6, <1>7 DEF Divided, Sides
<1>. QED  BY <1>2, <1>3, <1>8, <1>9 DEF Ordered, r

(* The places behind an insertion next to n.                               *)
LinkedPos(p, k, pos) ==
    [m \in PCB |-> IF m = p THEN k + 1 ELSE IF pos[m] > k THEN pos[m] + 1 ELSE pos[m]]
LinkedEnds(p, k, n, pos, e) ==
    [m \in PCB |->
        [d \in Sides |->
            IF m = p THEN k + 1
            ELSE IF d = "left"
            THEN IF e[m]["left"] > pos[n] THEN e[m]["left"] + 1 ELSE e[m]["left"]
            ELSE IF e[m]["right"] >= pos[n] THEN e[m]["right"] + 1 ELSE e[m]["right"]]]

(* A leaf next to n gets the place next to n's.                            *)
LEMMA LeafOrdered ==
    ASSUME NEW t, NEW q, NEW pos, NEW e, Ordered(t, q, pos, e),
           NEW p \in PCB, p \notin Nodes(t),
           NEW n \in Nodes(t), NEW s \in Sides, t.kid[n][s] = NULL,
           NEW u, Leafed(t, p, n, s, u),
           NEW k, k = IF s = "left" THEN pos[n] - 1 ELSE pos[n]
    PROVE  /\ k \in 0 .. Len(q)
           /\ Nodes(u) = Nodes(t) \cup {p}
           /\ Ordered(u, Inserted(q, k, p), LinkedPos(p, k, pos),
                      LinkedEnds(p, k, n, pos, e))
<1>. DEFINE r == Inserted(q, k, p)
            pos1 == LinkedPos(p, k, pos)
            e1 == LinkedEnds(p, k, n, pos, e)
<1>1. Shaped(t) /\ IsQueue(q) /\ Elems(q) = Nodes(t)
    BY DEF Ordered, Places
<1>2. Shaped(u) /\ Nodes(u) = Nodes(t) \cup {p}
    BY <1>1, LeafShaped
<1>3. pos[n] \in Int /\ pos[n] \in 1 .. Len(q) /\ Len(q) \in Nat /\ n \in PCB /\ n # NULL
    BY NodePlaces
<1>4. k \in 0 .. Len(q) /\ k \in Int
    BY <1>3
<1>5. IsQueue(r) /\ Len(r) = Len(q) + 1 /\ Elems(r) = Elems(q) \cup {p}
    BY <1>1, <1>4, InsertedFacts
<1>6. \A i \in 1 .. Len(q) + 1 :
          r[i] = IF i <= k THEN q[i] ELSE IF i = k + 1 THEN p ELSE q[i - 1]
    BY DEF Inserted
<1>7. pos \in [PCB -> Int] /\ e \in [PCB -> [Sides -> Int]]
    BY DEF Ordered, Places
<1>8. pos1 \in [PCB -> Int] /\ e1 \in [PCB -> [Sides -> Int]]
    <2>1. pos1 \in [PCB -> Int]
        BY <1>4, <1>7 DEF LinkedPos
    <2>2. \A m \in PCB : e[m]["left"] \in Int /\ e[m]["right"] \in Int
        BY <1>7 DEF Sides
    <2>3. e1 \in [PCB -> [Sides -> Int]]
        BY <1>3, <1>4, <2>2 DEF LinkedEnds
    <2>. QED  BY <2>1, <2>3
<1>9. pos1[p] = k + 1 /\ e1[p]["left"] = k + 1 /\ e1[p]["right"] = k + 1
    BY DEF LinkedPos, LinkedEnds, Sides
<1>10. \A m \in PCB : m # p =>
          /\ pos1[m] = (IF pos[m] > k THEN pos[m] + 1 ELSE pos[m])
          /\ e1[m]["left"] = (IF e[m]["left"] > pos[n] THEN e[m]["left"] + 1
                              ELSE e[m]["left"])
          /\ e1[m]["right"] = (IF e[m]["right"] >= pos[n] THEN e[m]["right"] + 1
                               ELSE e[m]["right"])
    BY DEF LinkedPos, LinkedEnds, Sides
<1>11. /\ u.root = t.root
       /\ \A m \in PCB, d \in Sides :
             u.kid[m][d] = IF m = p THEN NULL
                           ELSE IF m = n /\ d = s THEN p ELSE t.kid[m][d]
    BY <1>3 DEF Leafed
<1>12. p # NULL /\ n # p
    BY NodesAssumption
<1>. HIDE DEF r, pos1, e1
<1>13. \A m \in Nodes(t) :
          /\ m \in PCB /\ m # NULL /\ m # p /\ pos[m] \in 1 .. Len(q) /\ q[pos[m]] = m
          /\ pos[m] \in Int /\ e[m]["left"] \in Int /\ e[m]["right"] \in Int
          /\ 1 <= e[m]["left"] /\ e[m]["left"] <= pos[m]
          /\ pos[m] <= e[m]["right"] /\ e[m]["right"] <= Len(q)
    BY NodePlaces
<1>14. \A m \in Nodes(t) : pos[m] = pos[n] => m = n
    BY <1>13
<1>15. ASSUME NEW m \in Nodes(t)
       PROVE  /\ pos1[m] \in 1 .. Len(r) /\ r[pos1[m]] = m
              /\ 1 <= e1[m]["left"] /\ e1[m]["left"] <= pos1[m]
              /\ pos1[m] <= e1[m]["right"] /\ e1[m]["right"] <= Len(r)
    <2>1. /\ pos1[m] = (IF pos[m] > k THEN pos[m] + 1 ELSE pos[m])
          /\ e1[m]["left"] = (IF e[m]["left"] > pos[n] THEN e[m]["left"] + 1
                              ELSE e[m]["left"])
          /\ e1[m]["right"] = (IF e[m]["right"] >= pos[n] THEN e[m]["right"] + 1
                               ELSE e[m]["right"])
        BY <1>10, <1>13
    <2>2. /\ pos[m] \in 1 .. Len(q) /\ q[pos[m]] = m
          /\ pos[m] \in Int /\ e[m]["left"] \in Int /\ e[m]["right"] \in Int
          /\ 1 <= e[m]["left"] /\ e[m]["left"] <= pos[m]
          /\ pos[m] <= e[m]["right"] /\ e[m]["right"] <= Len(q)
        BY <1>13
    <2>3. pos1[m] \in 1 .. Len(q) + 1 /\ r[pos1[m]] = m
        <3>1. CASE pos[m] > k
            <4>1. /\ pos1[m] = pos[m] + 1 /\ pos[m] + 1 \in 1 .. Len(q) + 1
                  /\ ~(pos[m] + 1 <= k) /\ pos[m] + 1 # k + 1 /\ (pos[m] + 1) - 1 = pos[m]
                BY <1>3, <1>4, <2>1, <2>2, <3>1
            <4>. QED  BY <1>6, <2>2, <4>1
        <3>2. CASE ~(pos[m] > k)
            <4>1. pos1[m] = pos[m] /\ pos[m] \in 1 .. Len(q) + 1 /\ pos[m] <= k
                BY <1>3, <1>4, <2>1, <2>2, <3>2
            <4>. QED  BY <1>6, <2>2, <4>1
        <3>. QED  BY <3>1, <3>2
    <2>4. k = pos[n] - 1 \/ k = pos[n]
        OBVIOUS
    <2>5. /\ 1 <= e1[m]["left"] /\ e1[m]["left"] <= pos1[m]
          /\ pos1[m] <= e1[m]["right"] /\ e1[m]["right"] <= Len(q) + 1
        <3>1. 1 <= e1[m]["left"] /\ e1[m]["right"] <= Len(q) + 1
            BY ONLY <1>3, <1>4, <2>1, <2>2
        <3>2. e1[m]["left"] <= pos1[m]
            <4>1. CASE e[m]["left"] > pos[n]
                <5>1. pos[m] > k
                    BY ONLY <1>3, <1>4, <2>2, <2>4, <4>1
                <5>. QED  BY ONLY <2>1, <2>2, <4>1, <5>1
            <4>2. CASE ~(e[m]["left"] > pos[n])
                BY ONLY <1>4, <2>1, <2>2, <4>2
            <4>. QED  BY <4>1, <4>2
        <3>3. pos1[m] <= e1[m]["right"]
            <4>1. CASE pos[m] > k
                <5>1. e[m]["right"] >= pos[n]
                    BY ONLY <1>3, <1>4, <2>2, <2>4, <4>1
                <5>. QED  BY ONLY <2>1, <2>2, <4>1, <5>1
            <4>2. CASE ~(pos[m] > k)
                BY ONLY <1>4, <2>1, <2>2, <4>2
            <4>. QED  BY <4>1, <4>2
        <3>. QED  BY <3>1, <3>2, <3>3
    <2>. QED  BY <1>5, <2>3, <2>5
<1>16. Places(u, r, pos1, e1)
    <2>1. /\ pos1[p] \in 1 .. Len(r) /\ r[pos1[p]] = p
          /\ 1 <= e1[p]["left"] /\ e1[p]["left"] <= pos1[p]
          /\ pos1[p] <= e1[p]["right"] /\ e1[p]["right"] <= Len(r)
        BY <1>3, <1>4, <1>5, <1>6, <1>9
    <2>2. u.root # NULL /\ e1[u.root]["left"] = 1 /\ e1[u.root]["right"] = Len(r)
        <3>1. t.root # NULL
            BY <1>3 DEF Ordered, Places
        <3>2. t.root \in Nodes(t) /\ e[t.root]["left"] = 1 /\ e[t.root]["right"] = Len(q)
            BY <1>1, <3>1, TreeFields DEF Ordered, Places, Shaped, Ptr, Nodes
        <3>. QED  BY <1>3, <1>5, <1>10, <1>11, <1>13, <3>1, <3>2
    <2>. QED  BY <1>1, <1>2, <1>5, <1>8, <1>15, <2>1, <2>2 DEF Places
<1>17. Divided(u, pos1, e1)
    <2>1. SUFFICES ASSUME NEW m \in Nodes(u)
          PROVE /\ IF u.kid[m]["left"] = NULL THEN e1[m]["left"] = pos1[m]
                   ELSE /\ e1[u.kid[m]["left"]]["left"] = e1[m]["left"]
                        /\ e1[u.kid[m]["left"]]["right"] = pos1[m] - 1
                /\ IF u.kid[m]["right"] = NULL THEN e1[m]["right"] = pos1[m]
                   ELSE /\ e1[u.kid[m]["right"]]["right"] = e1[m]["right"]
                        /\ e1[u.kid[m]["right"]]["left"] = pos1[m] + 1
        BY DEF Divided
    <2>2. "left" \in Sides /\ "right" \in Sides /\ (s = "left" \/ s = "right")
        BY DEF Sides
    <2>3. CASE m = p
        BY <1>9, <1>11, <2>2, <2>3
    <2>4. CASE m # p
        <3>1. m \in Nodes(t) /\ m \in PCB
            BY <1>2, <1>13, <2>4
        <3>2. /\ IF t.kid[m]["left"] = NULL THEN e[m]["left"] = pos[m]
                 ELSE /\ e[t.kid[m]["left"]]["left"] = e[m]["left"]
                      /\ e[t.kid[m]["left"]]["right"] = pos[m] - 1
              /\ IF t.kid[m]["right"] = NULL THEN e[m]["right"] = pos[m]
                 ELSE /\ e[t.kid[m]["right"]]["right"] = e[m]["right"]
                      /\ e[t.kid[m]["right"]]["left"] = pos[m] + 1
            BY <3>1 DEF Ordered, Divided
        <3>3. \A d \in Sides : t.kid[m][d] # NULL => t.kid[m][d] \in Nodes(t)
            BY <1>1, <3>1, KidFacts
        <3>4. IF u.kid[m]["left"] = NULL THEN e1[m]["left"] = pos1[m]
              ELSE /\ e1[u.kid[m]["left"]]["left"] = e1[m]["left"]
                   /\ e1[u.kid[m]["left"]]["right"] = pos1[m] - 1
            <4>1. CASE m = n /\ s = "left"
                <5>1. u.kid[m]["left"] = p /\ e[n]["left"] = pos[n] /\ k = pos[n] - 1
                    BY <1>11, <2>2, <3>1, <3>2, <4>1, <2>4
                <5>. QED  BY <1>3, <1>9, <1>10, <1>12, <4>1, <5>1
            <4>2. CASE ~(m = n /\ s = "left")
                <5>1. u.kid[m]["left"] = t.kid[m]["left"]
                    BY <1>11, <2>2, <2>4, <3>1, <4>2
                <5>2. s = "left" => pos[m] # pos[n]
                    BY <1>14, <3>1, <4>2
                <5>3. CASE t.kid[m]["left"] = NULL
                    BY <1>3, <1>10, <1>13, <2>2, <2>4, <3>1, <3>2, <5>1, <5>2, <5>3
                <5>4. CASE t.kid[m]["left"] # NULL
                    <6>. DEFINE c == t.kid[m]["left"]
                    <6>1. c \in Nodes(t) /\ e[c]["left"] = e[m]["left"]
                          /\ e[c]["right"] = pos[m] - 1
                        BY <2>2, <3>2, <3>3, <5>4
                    <6>. HIDE DEF c
                    <6>2. e1[c]["left"] = e1[m]["left"]
                        BY <1>10, <1>13, <2>4, <3>1, <6>1
                    <6>3. pos[m] > k <=> e[c]["right"] >= pos[n]
                        BY <1>3, <1>13, <2>2, <3>1, <5>2, <6>1
                    <6>4. e1[c]["right"] = pos1[m] - 1
                        BY <1>3, <1>10, <1>13, <2>4, <3>1, <6>1, <6>3
                    <6>. QED  BY <5>1, <5>4, <6>2, <6>4 DEF c
                <5>. QED  BY <5>3, <5>4
            <4>. QED  BY <4>1, <4>2
        <3>5. IF u.kid[m]["right"] = NULL THEN e1[m]["right"] = pos1[m]
              ELSE /\ e1[u.kid[m]["right"]]["right"] = e1[m]["right"]
                   /\ e1[u.kid[m]["right"]]["left"] = pos1[m] + 1
            <4>1. CASE m = n /\ s = "right"
                <5>1. u.kid[m]["right"] = p /\ e[n]["right"] = pos[n] /\ k = pos[n]
                    BY <1>11, <2>2, <3>1, <3>2, <4>1, <2>4
                <5>. QED  BY <1>3, <1>9, <1>10, <1>12, <4>1, <5>1
            <4>2. CASE ~(m = n /\ s = "right")
                <5>1. u.kid[m]["right"] = t.kid[m]["right"]
                    BY <1>11, <2>2, <2>4, <3>1, <4>2
                <5>2. s = "right" => pos[m] # pos[n]
                    BY <1>14, <3>1, <4>2
                <5>3. CASE t.kid[m]["right"] = NULL
                    BY <1>3, <1>10, <1>13, <2>2, <2>4, <3>1, <3>2, <5>1, <5>2, <5>3
                <5>4. CASE t.kid[m]["right"] # NULL
                    <6>. DEFINE c == t.kid[m]["right"]
                    <6>1. c \in Nodes(t) /\ e[c]["right"] = e[m]["right"]
                          /\ e[c]["left"] = pos[m] + 1
                        BY <2>2, <3>2, <3>3, <5>4
                    <6>. HIDE DEF c
                    <6>2. e1[c]["right"] = e1[m]["right"] /\ e1[c]["left"] = pos1[m] + 1
                        BY <1>3, <1>10, <1>13, <2>2, <2>4, <3>1, <5>2, <6>1
                    <6>. QED  BY <5>1, <5>4, <6>2 DEF c
                <5>. QED  BY <5>3, <5>4
            <4>. QED  BY <4>1, <4>2
        <3>. QED  BY <3>4, <3>5
    <2>. QED  BY <2>3, <2>4
<1>. QED  BY <1>2, <1>4, <1>16, <1>17 DEF Ordered, r, pos1, e1

-----------------------------------------------------------------------------
(* Deletion.                                                               *)

(* c is the only child of x, or NULL if there is none.                     *)
OnlyKid(t, x, c) == \E d \in Sides : t.kid[x][d] = c /\ t.kid[x][Other(d)] = NULL

(* u is t without x, in whose place its only child c hangs.                *)
CutOut(t, x, c, u) ==
    /\ IsTree(u)
    /\ u.root = IF x = t.root THEN c ELSE t.root
    /\ \A m \in PCB, d \in Sides :
          u.kid[m][d] = IF m = x THEN NULL
                        ELSE IF t.kid[m][d] = x THEN c ELSE t.kid[m][d]
    /\ \A m \in PCB :
          u.parent[m] = IF m = x THEN NULL
                        ELSE IF m = c THEN t.parent[x] ELSE t.parent[m]
    /\ \A m \in PCB : m # x => u.red[m] = t.red[m]

(* Forgetting the fields of a node.                                        *)
LEMMA ForgottenFields ==
    ASSUME NEW t, IsTree(t), NEW x \in PCB, NEW u, u = Forgotten(t, x)
    PROVE  /\ IsTree(u) /\ u.root = t.root
           /\ \A m \in PCB, d \in Sides : u.kid[m][d] = IF m = x THEN NULL ELSE t.kid[m][d]
           /\ \A m \in PCB : u.parent[m] = IF m = x THEN NULL ELSE t.parent[m]
           /\ \A m \in PCB : m # x => u.red[m] = t.red[m]
<1>1. t \in [root : Ptr, kid : [PCB -> [Sides -> Ptr]], parent : [PCB -> Ptr],
             red : [PCB -> BOOLEAN]]
    BY DEF IsTree
<1>2. PICK none : none = [d \in Sides |-> NULL]
    OBVIOUS
<1>3. u = [t EXCEPT !.kid[x] = none, !.parent[x] = NULL, !.red[x] = FALSE]
    BY <1>2 DEF Forgotten
<1>4. none \in [Sides -> Ptr] /\ (\A d \in Sides : none[d] = NULL) /\ NULL \in Ptr
    BY <1>2 DEF Ptr
<1>5. /\ u.root = t.root /\ u.kid = [t.kid EXCEPT ![x] = none]
      /\ u.parent = [t.parent EXCEPT ![x] = NULL] /\ u.red = [t.red EXCEPT ![x] = FALSE]
    BY <1>1, <1>3
<1>6. /\ [t.kid EXCEPT ![x] = none] \in [PCB -> [Sides -> Ptr]]
      /\ [t.parent EXCEPT ![x] = NULL] \in [PCB -> Ptr]
      /\ [t.red EXCEPT ![x] = FALSE] \in [PCB -> BOOLEAN]
    BY <1>1, <1>4
<1>7. u = [t EXCEPT !.kid = [t.kid EXCEPT ![x] = none],
                    !.parent = [t.parent EXCEPT ![x] = NULL],
                    !.red = [t.red EXCEPT ![x] = FALSE]]
    BY <1>1, <1>3
<1>8. IsTree(u)
    BY <1>1, <1>6, <1>7 DEF IsTree
<1>. QED  BY <1>1, <1>4, <1>5, <1>8

(* rb_erase on a node with at most one child.                              *)
LEMMA CutFields ==
    ASSUME NEW t, NEW q, NEW pos, NEW e, Ordered(t, q, pos, e),
           NEW x \in Nodes(t), NEW c, OnlyKid(t, x, c)
    PROVE  CutOut(t, x, c, Forgotten(InPlaceOf(t, x, c), x))
<1>1. Shaped(t) /\ IsTree(t) /\ x \in PCB /\ x # NULL
    BY NodePlaces DEF Ordered, Shaped
<1>2. c \in Ptr
    BY <1>1, TreeFields DEF OnlyKid
<1>3. c # x
    BY <1>1, NoLoops DEF OnlyKid
<1>4. PICK t1 : t1 = InPlaceOf(t, x, c)
    OBVIOUS
<1>5. /\ IsTree(t1) /\ t1.red = t.red
      /\ t1.root = (IF x = t.root THEN c ELSE t.root)
      /\ \A m \in PCB, d \in Sides :
            t1.kid[m][d] = IF t.kid[m][d] = x THEN c ELSE t.kid[m][d]
      /\ \A m \in PCB : t1.parent[m] = IF m = c THEN t.parent[x] ELSE t.parent[m]
    BY <1>1, <1>2, <1>4, InPlaceOfFields
<1>6. PICK u : u = Forgotten(t1, x)
    OBVIOUS
<1>7. /\ IsTree(u) /\ u.root = t1.root
      /\ \A m \in PCB, d \in Sides : u.kid[m][d] = IF m = x THEN NULL ELSE t1.kid[m][d]
      /\ \A m \in PCB : u.parent[m] = IF m = x THEN NULL ELSE t1.parent[m]
      /\ \A m \in PCB : m # x => u.red[m] = t1.red[m]
    BY <1>1, <1>5, <1>6, ForgottenFields
<1>8. CutOut(t, x, c, u)
    BY <1>5, <1>7 DEF CutOut
<1>. QED  BY <1>4, <1>6, <1>8

(* A node with at most one child leaves the rest in shape.                 *)
LEMMA CutShaped ==
    ASSUME NEW t, NEW q, NEW pos, NEW e, Ordered(t, q, pos, e),
           NEW x \in Nodes(t), NEW c, OnlyKid(t, x, c), NEW u, CutOut(t, x, c, u)
    PROVE  Shaped(u) /\ Nodes(u) = Nodes(t) \ {x}
<1>1. Shaped(t) /\ IsTree(t) /\ x \in PCB /\ x # NULL /\ NULL \notin PCB
    BY NodePlaces, NodesAssumption DEF Ordered, Shaped
<1>2. /\ IsTree(u)
      /\ u.root = IF x = t.root THEN c ELSE t.root
      /\ \A m \in PCB, d \in Sides :
            u.kid[m][d] = IF m = x THEN NULL
                          ELSE IF t.kid[m][d] = x THEN c ELSE t.kid[m][d]
      /\ \A m \in PCB :
            u.parent[m] = IF m = x THEN NULL
                          ELSE IF m = c THEN t.parent[x] ELSE t.parent[m]
    BY DEF CutOut
<1>3. c # x /\ (c # NULL => c \in PCB /\ t.parent[c] = x /\ c # t.root)
    BY <1>1, NoLoops, KidFacts DEF OnlyKid
<1>4. \A d \in Sides : t.kid[x][d] = NULL \/ t.kid[x][d] = c
    BY DEF OnlyKid, Sides, Other
<1>5. \A m \in PCB, d \in Sides :
          t.kid[m][d] # NULL => t.kid[m][d] \in PCB /\ t.parent[t.kid[m][d]] = m
    BY <1>1, KidFacts
<1>6. x = t.root <=> t.parent[x] = NULL
    BY <1>1, ParentFacts
<1>7. t.parent[x] # x
    <2>1. SUFFICES ASSUME t.parent[x] = x PROVE FALSE
        OBVIOUS
    <2>2. PICK d \in Sides : t.kid[x][d] = x
        BY <1>1, <2>1 DEF Shaped
    <2>. QED  BY <1>1, <2>2, NoLoops
<1>8. Nodes(u) = Nodes(t) \ {x}
    <2>1. ASSUME NEW m \in PCB
          PROVE  m \in Nodes(u) <=> m \in Nodes(t) \ {x}
        <3>1. CASE m = x
            BY <1>2, <1>3, <3>1 DEF Nodes
        <3>2. CASE m # x /\ m = c
            BY <1>1, <1>2, <1>3, <1>6, <3>2 DEF Nodes
        <3>3. CASE m # x /\ m # c
            BY <1>1, <1>2, <1>3, <1>6, <3>3 DEF Nodes
        <3>. QED  BY <3>1, <3>2, <3>3
    <2>. QED  BY <2>1 DEF Nodes
<1>9. u.root # NULL => u.parent[u.root] = NULL
    <2>1. t.root # NULL => t.parent[t.root] = NULL /\ t.root \in PCB
        BY <1>1, TreeFields DEF Shaped, Ptr
    <2>. QED  BY <1>1, <1>2, <1>3, <1>6, <2>1
<1>10. ASSUME NEW m \in PCB, NEW d \in Sides, u.kid[m][d] # NULL
       PROVE  u.parent[u.kid[m][d]] = m
    <2>1. CASE t.kid[m][d] = x
        <3>1. u.kid[m][d] = c /\ t.parent[x] = m /\ m # x
            BY <1>1, <1>2, <1>5, <1>10, <2>1
        <3>. QED  BY <1>2, <1>3, <1>10, <3>1
    <2>2. CASE t.kid[m][d] # x
        <3>1. m # x /\ u.kid[m][d] = t.kid[m][d]
            BY <1>2, <1>10, <2>2
        <3>2. t.kid[m][d] \in PCB /\ t.parent[t.kid[m][d]] = m
            BY <1>5, <1>10, <3>1
        <3>3. t.kid[m][d] # c
            BY <1>1, <1>3, <1>10, <3>1, <3>2
        <3>. QED  BY <1>2, <2>2, <3>1, <3>2, <3>3
    <2>. QED  BY <2>1, <2>2
<1>11. ASSUME NEW m \in PCB, u.kid[m]["left"] # NULL
       PROVE  u.kid[m]["left"] # u.kid[m]["right"]
    <2>1. "left" \in Sides /\ "right" \in Sides
        BY DEF Sides
    <2>2. t.kid[m]["left"] # NULL => t.kid[m]["left"] # t.kid[m]["right"]
        BY <1>1 DEF Shaped
    <2>3. m # x
        BY <1>2, <1>11, <2>1
    <2>4. \A d \in Sides : t.kid[m][d] # c \/ c = NULL
        BY <1>3, <1>5, <2>3
    <2>. QED  BY <1>1, <1>2, <1>11, <2>1, <2>2, <2>3, <2>4
<1>12. ASSUME NEW m \in PCB, u.parent[m] # NULL
       PROVE  \E d \in Sides : u.kid[u.parent[m]][d] = m
    <2>1. m # x
        BY <1>2, <1>12
    <2>2. CASE m = c
        <3>1. u.parent[m] = t.parent[x] /\ x # t.root
            BY <1>2, <1>6, <1>12, <2>1, <2>2
        <3>2. PICK d \in Sides : t.kid[t.parent[x]][d] = x
            BY <1>1, <1>6, <3>1 DEF Shaped
        <3>3. t.parent[x] \in PCB
            BY <1>1, <3>1, ParentFacts
        <3>. QED  BY <1>2, <1>7, <2>2, <3>1, <3>2, <3>3
    <2>3. CASE m # c
        <3>1. u.parent[m] = t.parent[m] /\ t.parent[m] \in PCB
            BY <1>1, <1>2, <1>12, <2>1, <2>3, TreeFields DEF Ptr
        <3>2. PICK d \in Sides : t.kid[t.parent[m]][d] = m
            BY <1>1, <1>12, <3>1 DEF Shaped
        <3>3. t.parent[m] # x
            BY <1>1, <1>4, <2>3, <3>2
        <3>. QED  BY <1>2, <2>1, <3>1, <3>2, <3>3
    <2>. QED  BY <2>2, <2>3
<1>13. ASSUME NEW m \in PCB \ Nodes(u), NEW d \in Sides
       PROVE  u.kid[m][d] = NULL
    <2>1. m # x => m \notin Nodes(t)
        BY <1>8
    <2>2. m # x => t.kid[m][d] = NULL
        BY <1>1, <2>1 DEF Shaped
    <2>. QED  BY <1>1, <1>2, <2>2
<1>. QED  BY <1>2, <1>8, <1>9, <1>10, <1>11, <1>12, <1>13 DEF Shaped

(* The places behind the removal of the node at place i.                   *)
CutPos(i, pos) == [m \in PCB |-> IF pos[m] > i THEN pos[m] - 1 ELSE pos[m]]
CutEnds(i, e) ==
    [m \in PCB |->
        [d \in Sides |->
            IF d = "left"
            THEN IF e[m]["left"] > i THEN e[m]["left"] - 1 ELSE e[m]["left"]
            ELSE IF e[m]["right"] >= i THEN e[m]["right"] - 1 ELSE e[m]["right"]]]

(* A node with at most one child leaves the rest in order.                 *)
LEMMA CutOrdered ==
    ASSUME NEW t, NEW q, NEW pos, NEW e, Ordered(t, q, pos, e),
           NEW x \in Nodes(t), NEW c, OnlyKid(t, x, c), NEW u, CutOut(t, x, c, u)
    PROVE  /\ Nodes(u) = Nodes(t) \ {x}
           /\ Ordered(u, Removed(q, pos[x]), CutPos(pos[x], pos), CutEnds(pos[x], e))
<1>1. PICK i : i = pos[x]
    OBVIOUS
<1>. DEFINE r == Removed(q, i)
            pos1 == CutPos(i, pos)
            e1 == CutEnds(i, e)
<1>2. Shaped(t) /\ IsTree(t) /\ IsQueue(q) /\ Elems(q) = Nodes(t) /\ NULL \notin PCB
    BY NodesAssumption DEF Ordered, Places, Shaped
<1>3. Shaped(u) /\ Nodes(u) = Nodes(t) \ {x}
    BY CutShaped
<1>4. i \in Int /\ i \in 1 .. Len(q) /\ Len(q) \in Nat /\ q[i] = x /\ x \in PCB /\ x # NULL
    BY <1>1, NodePlaces
<1>5. IsQueue(r) /\ Len(r) = Len(q) - 1 /\ Elems(r) = Elems(q) \ {x}
    BY <1>2, <1>4, RemovedFacts
<1>6. \A j \in 1 .. Len(q) - 1 : r[j] = q[IF j < i THEN j ELSE j + 1]
    BY DEF Removed
<1>7. pos \in [PCB -> Int] /\ e \in [PCB -> [Sides -> Int]]
    BY DEF Ordered, Places
<1>8. pos1 \in [PCB -> Int] /\ e1 \in [PCB -> [Sides -> Int]]
    <2>1. pos1 \in [PCB -> Int]
        BY <1>4, <1>7 DEF CutPos
    <2>2. \A m \in PCB : e[m]["left"] \in Int /\ e[m]["right"] \in Int
        BY <1>7 DEF Sides
    <2>3. e1 \in [PCB -> [Sides -> Int]]
        BY <1>4, <2>2 DEF CutEnds
    <2>. QED  BY <2>1, <2>3
<1>9. \A m \in PCB :
          /\ pos1[m] = (IF pos[m] > i THEN pos[m] - 1 ELSE pos[m])
          /\ e1[m]["left"] = (IF e[m]["left"] > i THEN e[m]["left"] - 1
                              ELSE e[m]["left"])
          /\ e1[m]["right"] = (IF e[m]["right"] >= i THEN e[m]["right"] - 1
                               ELSE e[m]["right"])
    BY DEF CutPos, CutEnds, Sides
<1>10. /\ u.root = (IF x = t.root THEN c ELSE t.root)
       /\ \A m \in PCB, d \in Sides :
             u.kid[m][d] = IF m = x THEN NULL
                           ELSE IF t.kid[m][d] = x THEN c ELSE t.kid[m][d]
    BY DEF CutOut
<1>. HIDE DEF r, pos1, e1
<1>11. \A m \in Nodes(t) :
          /\ m \in PCB /\ m # NULL /\ pos[m] \in 1 .. Len(q) /\ q[pos[m]] = m
          /\ pos[m] \in Int /\ e[m]["left"] \in Int /\ e[m]["right"] \in Int
          /\ 1 <= e[m]["left"] /\ e[m]["left"] <= pos[m]
          /\ pos[m] <= e[m]["right"] /\ e[m]["right"] <= Len(q)
    BY NodePlaces
<1>12. \A m \in Nodes(t) : m # x => pos[m] # i
    BY <1>4, <1>11
<1>13. \A m \in Nodes(t) :
          /\ IF t.kid[m]["left"] = NULL THEN e[m]["left"] = pos[m]
             ELSE /\ e[t.kid[m]["left"]]["left"] = e[m]["left"]
                  /\ e[t.kid[m]["left"]]["right"] = pos[m] - 1
          /\ IF t.kid[m]["right"] = NULL THEN e[m]["right"] = pos[m]
             ELSE /\ e[t.kid[m]["right"]]["right"] = e[m]["right"]
                  /\ e[t.kid[m]["right"]]["left"] = pos[m] + 1
    BY DEF Ordered, Divided
<1>14. \A m \in PCB, d \in Sides : t.kid[m][d] # NULL => t.kid[m][d] \in Nodes(t)
    BY <1>2, KidFacts
<1>15. "left" \in Sides /\ "right" \in Sides
    BY DEF Sides
(* What hangs below x has the places of x but its own.                     *)
<1>16. /\ c = NULL => e[x]["left"] = i /\ e[x]["right"] = i
       /\ c # NULL => /\ c \in Nodes(t) /\ c # x
                      /\ \/ e[c]["left"] = e[x]["left"] /\ e[c]["right"] = i - 1
                            /\ e[x]["right"] = i
                         \/ e[c]["right"] = e[x]["right"] /\ e[c]["left"] = i + 1
                            /\ e[x]["left"] = i
    <2>1. PICK d \in Sides : t.kid[x][d] = c /\ t.kid[x][Other(d)] = NULL
        BY DEF OnlyKid
    <2>2. c # NULL => c \in Nodes(t) /\ c # x
        BY <1>4, <1>14, <2>1, NoLoops
    <2>3. CASE d = "left"
        <3>1. t.kid[x]["left"] = c /\ t.kid[x]["right"] = NULL
            BY <2>1, <2>3 DEF Other
        <3>. QED  BY <1>1, <1>13, <2>2, <3>1
    <2>4. CASE d = "right"
        <3>1. t.kid[x]["right"] = c /\ t.kid[x]["left"] = NULL
            BY <2>1, <2>4 DEF Other
        <3>. QED  BY <1>1, <1>13, <2>2, <3>1
    <2>. QED  BY <2>3, <2>4 DEF Sides
<1>17. c # NULL => e1[c]["left"] = e[x]["left"] /\ e1[c]["right"] = e[x]["right"] - 1
    <2>1. SUFFICES ASSUME c # NULL
          PROVE  e1[c]["left"] = e[x]["left"] /\ e1[c]["right"] = e[x]["right"] - 1
        OBVIOUS
    <2>2. /\ e[c]["left"] \in Int /\ e[c]["right"] \in Int /\ e[x]["left"] \in Int
          /\ e[x]["right"] \in Int /\ e[c]["left"] <= e[c]["right"] /\ c \in PCB
          /\ e[x]["left"] <= i /\ i <= e[x]["right"]
        BY <1>1, <1>11, <1>16, <2>1
    <2>3. /\ e1[c]["left"] = (IF e[c]["left"] > i THEN e[c]["left"] - 1 ELSE e[c]["left"])
          /\ e1[c]["right"] = (IF e[c]["right"] >= i THEN e[c]["right"] - 1
                               ELSE e[c]["right"])
        BY <1>9, <2>2
    <2>4. CASE e[c]["left"] = e[x]["left"] /\ e[c]["right"] = i - 1 /\ e[x]["right"] = i
        BY ONLY <1>4, <2>2, <2>3, <2>4
    <2>5. CASE e[c]["right"] = e[x]["right"] /\ e[c]["left"] = i + 1 /\ e[x]["left"] = i
        BY ONLY <1>4, <2>2, <2>3, <2>5
    <2>. QED  BY <1>16, <2>1, <2>4, <2>5
<1>18. ASSUME NEW m \in Nodes(u)
       PROVE  /\ pos1[m] \in 1 .. Len(r) /\ r[pos1[m]] = m
              /\ 1 <= e1[m]["left"] /\ e1[m]["left"] <= pos1[m]
              /\ pos1[m] <= e1[m]["right"] /\ e1[m]["right"] <= Len(r)
    <2>1. m \in Nodes(t) /\ m \in PCB /\ pos[m] # i
        BY <1>3, <1>11, <1>12
    <2>2. /\ pos[m] \in 1 .. Len(q) /\ q[pos[m]] = m
          /\ pos[m] \in Int /\ e[m]["left"] \in Int /\ e[m]["right"] \in Int
          /\ 1 <= e[m]["left"] /\ e[m]["left"] <= pos[m]
          /\ pos[m] <= e[m]["right"] /\ e[m]["right"] <= Len(q)
        BY <1>11, <2>1
    <2>3. /\ pos1[m] = (IF pos[m] > i THEN pos[m] - 1 ELSE pos[m])
          /\ e1[m]["left"] = (IF e[m]["left"] > i THEN e[m]["left"] - 1
                              ELSE e[m]["left"])
          /\ e1[m]["right"] = (IF e[m]["right"] >= i THEN e[m]["right"] - 1
                               ELSE e[m]["right"])
        BY <1>9, <2>1
    <2>4. CASE pos[m] > i
        <3>1. /\ pos1[m] = pos[m] - 1 /\ pos[m] - 1 \in 1 .. Len(q) - 1
              /\ ~(pos[m] - 1 < i) /\ (pos[m] - 1) + 1 = pos[m]
            BY ONLY <1>4, <2>2, <2>3, <2>4
        <3>2. r[pos1[m]] = m
            BY <1>6, <2>2, <3>1
        <3>3. e1[m]["right"] = e[m]["right"] - 1
            BY ONLY <1>4, <2>2, <2>3, <2>4
        <3>4. /\ 1 <= e1[m]["left"] /\ e1[m]["left"] <= pos1[m]
              /\ pos1[m] <= e1[m]["right"] /\ e1[m]["right"] <= Len(q) - 1
            BY ONLY <1>4, <2>2, <2>3, <2>4, <3>1, <3>3
        <3>. QED  BY <1>5, <3>1, <3>2, <3>4
    <2>5. CASE pos[m] < i
        <3>1. pos1[m] = pos[m] /\ pos[m] \in 1 .. Len(q) - 1
            BY ONLY <1>4, <2>2, <2>3, <2>5
        <3>2. r[pos1[m]] = m
            BY <1>6, <2>2, <2>5, <3>1
        <3>3. e1[m]["left"] = e[m]["left"]
            BY ONLY <1>4, <2>2, <2>3, <2>5
        <3>4. /\ 1 <= e1[m]["left"] /\ e1[m]["left"] <= pos1[m]
              /\ pos1[m] <= e1[m]["right"] /\ e1[m]["right"] <= Len(q) - 1
            BY ONLY <1>4, <2>2, <2>3, <2>5, <3>1, <3>3
        <3>. QED  BY <1>5, <3>1, <3>2, <3>4
    <2>. QED  BY <1>4, <2>1, <2>2, <2>4, <2>5
<1>19. Places(u, r, pos1, e1)
    <2>1. t.root # NULL /\ e[t.root]["left"] = 1 /\ e[t.root]["right"] = Len(q)
        BY <1>4 DEF Ordered, Places
    <2>2. t.root \in Nodes(t)
        BY <1>2, <2>1, TreeFields DEF Ptr, Nodes
    <2>3. CASE x = t.root
        <3>1. u.root = c
            BY <1>10, <2>3
        <3>2. c = NULL => Len(r) = 0
            BY <1>4, <1>5, <1>16, <2>1, <2>3
        <3>3. c # NULL => e1[c]["left"] = 1 /\ e1[c]["right"] = Len(r)
            BY <1>5, <1>17, <2>1, <2>3
        <3>. QED  BY <1>2, <1>3, <1>5, <1>8, <1>18, <3>1, <3>2, <3>3 DEF Places
    <2>4. CASE x # t.root
        <3>1. u.root = t.root
            BY <1>10, <2>4
        <3>2. t.root \in PCB /\ Len(q) >= i /\ ~(1 > i)
            BY <1>4, <1>11, <2>2
        <3>3. e1[t.root]["left"] = 1 /\ e1[t.root]["right"] = Len(r)
            BY <1>5, <1>9, <2>1, <3>2
        <3>. QED  BY <1>2, <1>3, <1>5, <1>8, <1>18, <2>1, <3>1, <3>3 DEF Places
    <2>. QED  BY <2>3, <2>4
<1>20. Divided(u, pos1, e1)
    <2>1. SUFFICES ASSUME NEW m \in Nodes(u)
          PROVE /\ IF u.kid[m]["left"] = NULL THEN e1[m]["left"] = pos1[m]
                   ELSE /\ e1[u.kid[m]["left"]]["left"] = e1[m]["left"]
                        /\ e1[u.kid[m]["left"]]["right"] = pos1[m] - 1
                /\ IF u.kid[m]["right"] = NULL THEN e1[m]["right"] = pos1[m]
                   ELSE /\ e1[u.kid[m]["right"]]["right"] = e1[m]["right"]
                        /\ e1[u.kid[m]["right"]]["left"] = pos1[m] + 1
        BY DEF Divided
    <2>2. m \in Nodes(t) /\ m \in PCB /\ m # x /\ pos[m] # i
        BY <1>3, <1>11, <1>12
    <2>3. /\ pos[m] \in Int /\ e[m]["left"] \in Int /\ e[m]["right"] \in Int
          /\ e[m]["left"] <= pos[m] /\ pos[m] <= e[m]["right"]
          /\ e[x]["left"] \in Int /\ e[x]["right"] \in Int
          /\ e[x]["left"] <= i /\ i <= e[x]["right"]
        BY <1>1, <1>11, <2>2
    <2>4. /\ pos1[m] = (IF pos[m] > i THEN pos[m] - 1 ELSE pos[m])
          /\ e1[m]["left"] = (IF e[m]["left"] > i THEN e[m]["left"] - 1
                              ELSE e[m]["left"])
          /\ e1[m]["right"] = (IF e[m]["right"] >= i THEN e[m]["right"] - 1
                               ELSE e[m]["right"])
        BY <1>9, <2>2
    <2>5. /\ IF t.kid[m]["left"] = NULL THEN e[m]["left"] = pos[m]
             ELSE /\ e[t.kid[m]["left"]]["left"] = e[m]["left"]
                  /\ e[t.kid[m]["left"]]["right"] = pos[m] - 1
          /\ IF t.kid[m]["right"] = NULL THEN e[m]["right"] = pos[m]
             ELSE /\ e[t.kid[m]["right"]]["right"] = e[m]["right"]
                  /\ e[t.kid[m]["right"]]["left"] = pos[m] + 1
        BY <1>13, <2>2
    <2>6. IF u.kid[m]["left"] = NULL THEN e1[m]["left"] = pos1[m]
          ELSE /\ e1[u.kid[m]["left"]]["left"] = e1[m]["left"]
               /\ e1[u.kid[m]["left"]]["right"] = pos1[m] - 1
        <3>1. CASE t.kid[m]["left"] = NULL
            <4>1. u.kid[m]["left"] = NULL
                BY <1>4, <1>10, <1>15, <2>2, <3>1
            <4>. QED  BY <1>4, <2>2, <2>3, <2>4, <2>5, <3>1, <4>1
        <3>2. CASE t.kid[m]["left"] = x
            <4>1. u.kid[m]["left"] = c /\ e[x]["left"] = e[m]["left"]
                  /\ e[x]["right"] = pos[m] - 1
                BY <1>4, <1>10, <1>15, <2>2, <2>5, <3>2
            <4>2. pos1[m] = pos[m] - 1 /\ e1[m]["left"] = e[m]["left"]
                BY ONLY <1>4, <2>3, <2>4, <4>1
            <4>3. CASE c = NULL
                <5>1. e[x]["left"] = i /\ e[x]["right"] = i
                    BY <1>16, <4>3
                <5>2. e1[m]["left"] = pos1[m]
                    BY ONLY <1>4, <2>3, <4>1, <4>2, <5>1
                <5>. QED  BY <4>1, <4>3, <5>2
            <4>4. CASE c # NULL
                <5>1. e1[c]["left"] = e1[m]["left"] /\ e1[c]["right"] = pos1[m] - 1
                    BY <1>17, <4>1, <4>2, <4>4
                <5>. QED  BY <4>1, <4>4, <5>1
            <4>. QED  BY <4>3, <4>4
        <3>3. CASE t.kid[m]["left"] # NULL /\ t.kid[m]["left"] # x
            <4>1. PICK y : y = t.kid[m]["left"]
                OBVIOUS
            <4>2. y # NULL /\ y \in Nodes(t) /\ u.kid[m]["left"] = y /\ y \in PCB
                BY <1>10, <1>11, <1>14, <1>15, <2>2, <3>3, <4>1
            <4>3. e[y]["left"] = e[m]["left"] /\ e[y]["right"] = pos[m] - 1
                BY <2>5, <3>3, <4>1
            <4>4. /\ e1[y]["left"] = (IF e[y]["left"] > i THEN e[y]["left"] - 1
                                      ELSE e[y]["left"])
                  /\ e1[y]["right"] = (IF e[y]["right"] >= i THEN e[y]["right"] - 1
                                       ELSE e[y]["right"])
                BY <1>9, <4>2
            <4>5. e1[y]["left"] = e1[m]["left"]
                BY ONLY <2>4, <4>3, <4>4
            <4>6. e1[y]["right"] = pos1[m] - 1
                <5>1. CASE pos[m] > i
                    BY ONLY <1>4, <2>3, <2>4, <4>3, <4>4, <5>1
                <5>2. CASE pos[m] < i
                    BY ONLY <1>4, <2>3, <2>4, <4>3, <4>4, <5>2
                <5>. QED  BY <1>4, <2>2, <2>3, <5>1, <5>2
            <4>. QED  BY <4>2, <4>5, <4>6
        <3>. QED  BY <3>1, <3>2, <3>3
    <2>7. IF u.kid[m]["right"] = NULL THEN e1[m]["right"] = pos1[m]
          ELSE /\ e1[u.kid[m]["right"]]["right"] = e1[m]["right"]
               /\ e1[u.kid[m]["right"]]["left"] = pos1[m] + 1
        <3>1. CASE t.kid[m]["right"] = NULL
            <4>1. u.kid[m]["right"] = NULL
                BY <1>4, <1>10, <1>15, <2>2, <3>1
            <4>. QED  BY <1>4, <2>2, <2>3, <2>4, <2>5, <3>1, <4>1
        <3>2. CASE t.kid[m]["right"] = x
            <4>1. u.kid[m]["right"] = c /\ e[x]["right"] = e[m]["right"]
                  /\ e[x]["left"] = pos[m] + 1
                BY <1>4, <1>10, <1>15, <2>2, <2>5, <3>2
            <4>2. pos1[m] = pos[m] /\ e1[m]["right"] = e[m]["right"] - 1
                BY ONLY <1>4, <2>3, <2>4, <4>1
            <4>3. CASE c = NULL
                <5>1. e[x]["left"] = i /\ e[x]["right"] = i
                    BY <1>16, <4>3
                <5>2. e1[m]["right"] = pos1[m]
                    BY ONLY <1>4, <2>3, <4>1, <4>2, <5>1
                <5>. QED  BY <4>1, <4>3, <5>2
            <4>4. CASE c # NULL
                <5>1. e1[c]["right"] = e1[m]["right"] /\ e1[c]["left"] = pos1[m] + 1
                    BY <1>17, <4>1, <4>2, <4>4
                <5>. QED  BY <4>1, <4>4, <5>1
            <4>. QED  BY <4>3, <4>4
        <3>3. CASE t.kid[m]["right"] # NULL /\ t.kid[m]["right"] # x
            <4>1. PICK y : y = t.kid[m]["right"]
                OBVIOUS
            <4>2. y # NULL /\ y \in Nodes(t) /\ u.kid[m]["right"] = y /\ y \in PCB
                BY <1>10, <1>11, <1>14, <1>15, <2>2, <3>3, <4>1
            <4>3. e[y]["right"] = e[m]["right"] /\ e[y]["left"] = pos[m] + 1
                BY <2>5, <3>3, <4>1
            <4>4. /\ e1[y]["left"] = (IF e[y]["left"] > i THEN e[y]["left"] - 1
                                      ELSE e[y]["left"])
                  /\ e1[y]["right"] = (IF e[y]["right"] >= i THEN e[y]["right"] - 1
                                       ELSE e[y]["right"])
                BY <1>9, <4>2
            <4>5. e1[y]["right"] = e1[m]["right"]
                BY ONLY <2>4, <4>3, <4>4
            <4>6. e1[y]["left"] = pos1[m] + 1
                <5>1. CASE pos[m] > i
                    BY ONLY <1>4, <2>3, <2>4, <4>3, <4>4, <5>1
                <5>2. CASE pos[m] < i
                    BY ONLY <1>4, <2>3, <2>4, <4>3, <4>4, <5>2
                <5>. QED  BY <1>4, <2>2, <2>3, <5>1, <5>2
            <4>. QED  BY <4>2, <4>5, <4>6
        <3>. QED  BY <3>1, <3>2, <3>3
    <2>. QED  BY <2>6, <2>7
<1>. QED  BY <1>1, <1>3, <1>19, <1>20 DEF Ordered, r, pos1, e1

(* u is t with x, which is not in it, in the place of y.                   *)
Replaced(t, y, x, u) ==
    /\ IsTree(u)
    /\ u.root = IF y = t.root THEN x ELSE t.root
    /\ \A m \in PCB, d \in Sides :
          u.kid[m][d] = IF m = y THEN NULL ELSE IF m = x THEN t.kid[y][d]
                        ELSE IF t.kid[m][d] = y THEN x ELSE t.kid[m][d]
    /\ \A m \in PCB :
          u.parent[m] = IF m = y THEN NULL ELSE IF m = x THEN t.parent[y]
                        ELSE IF t.parent[m] = y THEN x ELSE t.parent[m]
    /\ u.red[x] = t.red[y] /\ \A m \in PCB : m # x /\ m # y => u.red[m] = t.red[m]

(* The shape is the same.                                                  *)
LEMMA ReplaceShaped ==
    ASSUME NEW t, NEW q, NEW pos, NEW e, Ordered(t, q, pos, e),
           NEW y \in Nodes(t), NEW x \in PCB, x \notin Nodes(t),
           NEW u, Replaced(t, y, x, u)
    PROVE  Shaped(u) /\ Nodes(u) = (Nodes(t) \ {y}) \cup {x}
<1>1. Shaped(t) /\ IsTree(t) /\ y \in PCB /\ y # NULL /\ NULL \notin PCB /\ x # NULL
      /\ x # y
    BY NodePlaces, NodesAssumption DEF Ordered, Shaped
<1>2. /\ IsTree(u)
      /\ u.root = IF y = t.root THEN x ELSE t.root
      /\ \A m \in PCB, d \in Sides :
            u.kid[m][d] = IF m = y THEN NULL ELSE IF m = x THEN t.kid[y][d]
                          ELSE IF t.kid[m][d] = y THEN x ELSE t.kid[m][d]
      /\ \A m \in PCB :
            u.parent[m] = IF m = y THEN NULL ELSE IF m = x THEN t.parent[y]
                          ELSE IF t.parent[m] = y THEN x ELSE t.parent[m]
    BY DEF Replaced
<1>3. x # t.root /\ t.parent[x] = NULL /\ \A d \in Sides : t.kid[x][d] = NULL
    BY <1>1 DEF Shaped, Nodes
<1>4. \A m \in PCB, d \in Sides :
          t.kid[m][d] # NULL => /\ t.kid[m][d] \in PCB /\ t.parent[t.kid[m][d]] = m
                                /\ t.kid[m][d] # x
    BY <1>1, <1>3, KidFacts
<1>5. \A d \in Sides : t.kid[y][d] # y
    BY <1>1, NoLoops
<1>6. y = t.root <=> t.parent[y] = NULL
    BY <1>1, ParentFacts
<1>7. \A m \in PCB : t.parent[m] # NULL =>
          t.parent[m] \in PCB /\ t.parent[m] \in Nodes(t)
          /\ \E d \in Sides : t.kid[t.parent[m]][d] = m
    <2>1. SUFFICES ASSUME NEW m \in PCB, t.parent[m] # NULL
          PROVE  t.parent[m] \in PCB /\ t.parent[m] \in Nodes(t)
                 /\ \E d \in Sides : t.kid[t.parent[m]][d] = m
        OBVIOUS
    <2>2. t.parent[m] \in PCB
        BY <1>1, <2>1, TreeFields DEF Ptr
    <2>3. PICK d \in Sides : t.kid[t.parent[m]][d] = m
        BY <1>1, <2>1 DEF Shaped
    <2>4. t.parent[m] \in Nodes(t)
        BY <1>1, <2>2, <2>3, KidFacts
    <2>. QED  BY <2>2, <2>3, <2>4
<1>8. t.parent[y] # y
    BY <1>1, <1>5, <1>7
<1>9. Nodes(u) = (Nodes(t) \ {y}) \cup {x}
    <2>1. ASSUME NEW m \in PCB
          PROVE  m \in Nodes(u) <=> m \in (Nodes(t) \ {y}) \cup {x}
        <3>1. CASE m = y
            BY <1>1, <1>2, <1>3, <3>1 DEF Nodes
        <3>2. CASE m = x
            BY <1>1, <1>2, <1>6, <3>2 DEF Nodes
        <3>3. CASE m # y /\ m # x
            BY <1>1, <1>2, <3>3 DEF Nodes
        <3>. QED  BY <3>1, <3>2, <3>3
    <2>. QED  BY <2>1 DEF Nodes
<1>10. u.root # NULL => u.parent[u.root] = NULL
    <2>1. t.root # NULL => t.parent[t.root] = NULL /\ t.root \in PCB
        BY <1>1, TreeFields DEF Shaped, Ptr
    <2>. QED  BY <1>1, <1>2, <1>3, <1>6, <2>1
<1>11. ASSUME NEW m \in PCB, NEW d \in Sides, u.kid[m][d] # NULL
       PROVE  u.parent[u.kid[m][d]] = m
    <2>1. m # y
        BY <1>2, <1>11
    <2>2. CASE m = x
        <3>1. u.kid[m][d] = t.kid[y][d] /\ t.kid[y][d] # NULL
            BY <1>2, <1>11, <2>1, <2>2
        <3>2. t.kid[y][d] \in PCB /\ t.parent[t.kid[y][d]] = y /\ t.kid[y][d] # x
              /\ t.kid[y][d] # y
            BY <1>1, <1>4, <1>5, <3>1
        <3>. QED  BY <1>2, <2>2, <3>1, <3>2
    <2>3. CASE m # x /\ t.kid[m][d] = y
        <3>1. u.kid[m][d] = x /\ t.parent[y] = m
            BY <1>1, <1>2, <1>4, <2>1, <2>3
        <3>. QED  BY <1>1, <1>2, <3>1
    <2>4. CASE m # x /\ t.kid[m][d] # y
        <3>1. u.kid[m][d] = t.kid[m][d]
            BY <1>2, <2>1, <2>4
        <3>2. t.kid[m][d] \in PCB /\ t.parent[t.kid[m][d]] = m /\ t.kid[m][d] # x
            BY <1>4, <1>11, <3>1
        <3>. QED  BY <1>2, <2>1, <2>4, <3>1, <3>2
    <2>. QED  BY <2>2, <2>3, <2>4
<1>12. ASSUME NEW m \in PCB, u.kid[m]["left"] # NULL
       PROVE  u.kid[m]["left"] # u.kid[m]["right"]
    <2>1. "left" \in Sides /\ "right" \in Sides
        BY DEF Sides
    <2>2. \A n \in PCB : t.kid[n]["left"] # NULL => t.kid[n]["left"] # t.kid[n]["right"]
        BY <1>1 DEF Shaped
    <2>3. m # y
        BY <1>2, <1>12, <2>1
    <2>4. CASE m = x
        BY <1>1, <1>2, <1>12, <2>1, <2>2, <2>4
    <2>5. CASE m # x
        <3>1. /\ u.kid[m]["left"] = (IF t.kid[m]["left"] = y THEN x ELSE t.kid[m]["left"])
              /\ u.kid[m]["right"] = (IF t.kid[m]["right"] = y THEN x ELSE t.kid[m]["right"])
            BY <1>2, <2>1, <2>3, <2>5
        <3>2. t.kid[m]["left"] # x /\ t.kid[m]["right"] # x
            BY <1>1, <1>4, <2>1
        <3>. QED  BY <1>1, <1>12, <2>2, <3>1, <3>2
    <2>. QED  BY <2>4, <2>5
<1>13. ASSUME NEW m \in PCB, u.parent[m] # NULL
       PROVE  \E d \in Sides : u.kid[u.parent[m]][d] = m
    <2>1. m # y
        BY <1>2, <1>13
    <2>2. CASE m = x
        <3>1. u.parent[m] = t.parent[y] /\ t.parent[y] # NULL
            BY <1>2, <1>13, <2>1, <2>2
        <3>2. PICK d \in Sides : t.kid[t.parent[y]][d] = y
            BY <1>1, <1>7, <3>1
        <3>3. t.parent[y] \in PCB /\ t.parent[y] # x
            BY <1>1, <1>7, <3>1
        <3>4. u.kid[t.parent[y]][d] = x
            BY <1>2, <1>8, <3>2, <3>3
        <3>. QED  BY <2>2, <3>1, <3>4
    <2>3. CASE m # x /\ t.parent[m] = y
        <3>1. PICK d \in Sides : t.kid[y][d] = m
            BY <1>1, <1>7, <2>3
        <3>2. u.parent[m] = x
            BY <1>2, <2>1, <2>3
        <3>3. u.kid[x][d] = m
            BY <1>1, <1>2, <3>1
        <3>. QED  BY <3>2, <3>3
    <2>4. CASE m # x /\ t.parent[m] # y
        <3>1. u.parent[m] = t.parent[m]
            BY <1>2, <2>1, <2>4
        <3>2. PICK d \in Sides : t.kid[t.parent[m]][d] = m
            BY <1>7, <1>13, <3>1
        <3>3. t.parent[m] \in PCB /\ t.parent[m] # x
            BY <1>7, <1>13, <3>1
        <3>4. u.kid[t.parent[m]][d] = m
            BY <1>2, <2>1, <2>4, <3>2, <3>3
        <3>. QED  BY <3>1, <3>4
    <2>. QED  BY <2>2, <2>3, <2>4
<1>14. ASSUME NEW m \in PCB \ Nodes(u), NEW d \in Sides
       PROVE  u.kid[m][d] = NULL
    <2>1. m # x /\ (m # y => m \notin Nodes(t))
        BY <1>9
    <2>2. m # y => t.kid[m][d] = NULL
        BY <1>1, <2>1 DEF Shaped
    <2>. QED  BY <1>1, <1>2, <2>1, <2>2
<1>. QED  BY <1>2, <1>9, <1>10, <1>11, <1>12, <1>13, <1>14 DEF Shaped

(* So is the order, with x in the place of y.                              *)
LEMMA ReplaceOrdered ==
    ASSUME NEW t, NEW q, NEW pos, NEW e, Ordered(t, q, pos, e),
           NEW y \in Nodes(t), NEW x \in PCB, x \notin Nodes(t),
           NEW u, Replaced(t, y, x, u)
    PROVE  /\ Nodes(u) = (Nodes(t) \ {y}) \cup {x}
           /\ Ordered(u, [q EXCEPT ![pos[y]] = x], [pos EXCEPT ![x] = pos[y]],
                      [e EXCEPT ![x] = e[y]])
<1>1. PICK i : i = pos[y]
    OBVIOUS
<1>2. PICK r : r = [q EXCEPT ![i] = x]
    OBVIOUS
<1>3. PICK pos1 : pos1 = [pos EXCEPT ![x] = pos[y]]
    OBVIOUS
<1>4. PICK e1 : e1 = [e EXCEPT ![x] = e[y]]
    OBVIOUS
<1>5. Shaped(t) /\ IsTree(t) /\ IsQueue(q) /\ Elems(q) = Nodes(t) /\ NULL \notin PCB
    BY NodesAssumption DEF Ordered, Places, Shaped
<1>6. Shaped(u) /\ Nodes(u) = (Nodes(t) \ {y}) \cup {x}
    BY ReplaceShaped
<1>7. i \in 1 .. Len(q) /\ Len(q) \in Nat /\ q[i] = y /\ y \in PCB /\ y # NULL /\ x # y
      /\ x # NULL
    BY <1>1, <1>5, NodePlaces
<1>8. q \in [1 .. Len(q) -> PCB] /\ \A j, k \in 1 .. Len(q) : q[j] = q[k] => j = k
    BY <1>5 DEF IsQueue
<1>9. \A j \in 1 .. Len(q) : q[j] # x
    BY <1>5 DEF Elems
<1>10. /\ r \in Seq(PCB) /\ Len(r) = Len(q)
       /\ \A j \in 1 .. Len(q) : r[j] = IF j = i THEN x ELSE q[j]
    <2>1. r \in [1 .. Len(q) -> PCB]
        BY <1>2, <1>7, <1>8
    <2>2. \A j \in 1 .. Len(q) : r[j] = IF j = i THEN x ELSE q[j]
        BY <1>2, <1>7, <1>8
    <2>. QED  BY <1>7, <2>1, <2>2
<1>11. IsQueue(r)
    BY <1>7, <1>8, <1>9, <1>10 DEF IsQueue
<1>12. Elems(r) = Nodes(u)
    <2>1. ASSUME NEW j \in 1 .. Len(r)
          PROVE  r[j] \in Nodes(u)
        <3>1. CASE j = i
            BY <1>6, <1>7, <1>10, <3>1
        <3>2. CASE j # i
            <4>1. r[j] = q[j] /\ q[j] # y /\ j \in 1 .. Len(q)
                BY <1>7, <1>8, <1>10, <3>2
            <4>2. q[j] \in Nodes(t)
                BY <1>5, <4>1 DEF Elems
            <4>. QED  BY <1>6, <4>1, <4>2
        <3>. QED  BY <3>1, <3>2
    <2>2. ASSUME NEW m \in Nodes(u)
          PROVE  m \in Elems(r)
        <3>1. CASE m = x
            BY <1>7, <1>10, <3>1 DEF Elems
        <3>2. CASE m # x
            <4>1. m \in Elems(q) /\ m # y
                BY <1>5, <1>6, <3>2
            <4>2. PICK j \in 1 .. Len(q) : q[j] = m
                BY <4>1 DEF Elems
            <4>3. r[j] = m
                BY <1>7, <1>10, <4>1, <4>2
            <4>. QED  BY <1>10, <4>2, <4>3 DEF Elems
        <3>. QED  BY <3>1, <3>2
    <2>. QED  BY <2>1, <2>2 DEF Elems
<1>13. /\ pos \in [PCB -> Int] /\ e \in [PCB -> [Sides -> Int]]
    BY DEF Ordered, Places
<1>14. /\ pos1 \in [PCB -> Int] /\ e1 \in [PCB -> [Sides -> Int]]
       /\ pos1[x] = i /\ e1[x] = e[y]
       /\ \A m \in PCB : m # x => pos1[m] = pos[m] /\ e1[m] = e[m]
    BY <1>1, <1>3, <1>4, <1>7, <1>13
<1>15. \A m \in Nodes(t) :
          /\ m \in PCB /\ m # NULL /\ m # x /\ pos[m] \in 1 .. Len(q) /\ q[pos[m]] = m
          /\ 1 <= e[m]["left"] /\ e[m]["left"] <= pos[m]
          /\ pos[m] <= e[m]["right"] /\ e[m]["right"] <= Len(q)
    BY NodePlaces
<1>16. /\ u.root = IF y = t.root THEN x ELSE t.root
       /\ \A m \in PCB, d \in Sides :
            u.kid[m][d] = IF m = y THEN NULL ELSE IF m = x THEN t.kid[y][d]
                          ELSE IF t.kid[m][d] = y THEN x ELSE t.kid[m][d]
    BY DEF Replaced
<1>17. ASSUME NEW m \in Nodes(u)
       PROVE  /\ pos1[m] \in 1 .. Len(r) /\ r[pos1[m]] = m
              /\ 1 <= e1[m]["left"] /\ e1[m]["left"] <= pos1[m]
              /\ pos1[m] <= e1[m]["right"] /\ e1[m]["right"] <= Len(r)
    <2>1. CASE m = x
        BY <1>1, <1>7, <1>10, <1>14, <1>15, <2>1
    <2>2. CASE m # x
        <3>1. m \in Nodes(t) /\ m # y
            BY <1>6, <2>2
        <3>2. pos[m] # i /\ pos1[m] = pos[m] /\ e1[m] = e[m]
            BY <1>7, <1>14, <1>15, <2>2, <3>1
        <3>. QED  BY <1>10, <1>15, <3>1, <3>2
    <2>. QED  BY <2>1, <2>2
<1>18. Places(u, r, pos1, e1)
    <2>1. t.root # NULL /\ e[t.root]["left"] = 1 /\ e[t.root]["right"] = Len(q)
        BY <1>7 DEF Ordered, Places
    <2>2. t.root \in Nodes(t)
        BY <1>5, <2>1, TreeFields DEF Ptr, Nodes
    <2>3. u.root # NULL /\ e1[u.root]["left"] = 1 /\ e1[u.root]["right"] = Len(r)
        <3>1. CASE y = t.root
            <4>1. u.root = x
                BY <1>16, <3>1
            <4>. QED  BY <1>7, <1>10, <1>14, <2>1, <3>1, <4>1
        <3>2. CASE y # t.root
            <4>1. u.root = t.root
                BY <1>16, <3>2
            <4>2. e1[t.root] = e[t.root]
                BY <1>14, <1>15, <2>2
            <4>. QED  BY <1>10, <2>1, <4>1, <4>2
        <3>. QED  BY <3>1, <3>2
    <2>. QED  BY <1>10, <1>11, <1>12, <1>14, <1>17, <2>3 DEF Places
<1>19. Divided(u, pos1, e1)
    <2>1. SUFFICES ASSUME NEW m \in Nodes(u)
          PROVE /\ IF u.kid[m]["left"] = NULL THEN e1[m]["left"] = pos1[m]
                   ELSE /\ e1[u.kid[m]["left"]]["left"] = e1[m]["left"]
                        /\ e1[u.kid[m]["left"]]["right"] = pos1[m] - 1
                /\ IF u.kid[m]["right"] = NULL THEN e1[m]["right"] = pos1[m]
                   ELSE /\ e1[u.kid[m]["right"]]["right"] = e1[m]["right"]
                        /\ e1[u.kid[m]["right"]]["left"] = pos1[m] + 1
        BY DEF Divided
    <2>2. PICK z : z = IF m = x THEN y ELSE m
        OBVIOUS
    <2>3. z \in Nodes(t) /\ z \in PCB /\ m \in PCB /\ m # y
        BY <1>6, <1>7, <1>15, <2>2
    <2>4. pos1[m] = pos[z] /\ e1[m] = e[z]
        BY <1>1, <1>14, <2>2, <2>3
    <2>5. /\ IF t.kid[z]["left"] = NULL THEN e[z]["left"] = pos[z]
             ELSE /\ e[t.kid[z]["left"]]["left"] = e[z]["left"]
                  /\ e[t.kid[z]["left"]]["right"] = pos[z] - 1
          /\ IF t.kid[z]["right"] = NULL THEN e[z]["right"] = pos[z]
             ELSE /\ e[t.kid[z]["right"]]["right"] = e[z]["right"]
                  /\ e[t.kid[z]["right"]]["left"] = pos[z] + 1
        BY <2>3 DEF Ordered, Divided
    <2>6. \A d \in Sides : t.kid[y][d] # y
        BY <1>7, NoLoops
    <2>7. \A d \in Sides : u.kid[m][d] = IF t.kid[z][d] = y THEN x ELSE t.kid[z][d]
        BY <1>16, <2>2, <2>3, <2>6
    <2>8. \A d \in Sides : t.kid[z][d] # NULL => t.kid[z][d] \in Nodes(t)
        BY <1>5, <2>3, KidFacts
    <2>9. \A d \in Sides : t.kid[z][d] # NULL =>
              u.kid[m][d] # NULL /\ e1[u.kid[m][d]] = e[t.kid[z][d]]
        BY <1>7, <1>14, <1>15, <2>7, <2>8
    <2>10. \A d \in Sides : t.kid[z][d] = NULL => u.kid[m][d] = NULL
        BY <1>7, <2>7
    <2>11. "left" \in Sides /\ "right" \in Sides
        BY DEF Sides
    <2>. QED  BY <2>4, <2>5, <2>9, <2>10, <2>11
<1>20. Ordered(u, r, pos1, e1)
    BY <1>6, <1>18, <1>19 DEF Ordered
<1>. QED  BY <1>1, <1>2, <1>3, <1>4, <1>6, <1>20

(* The leftmost node below n is n or a left child.                         *)
LEMMA LeftmostHangs ==
    ASSUME NEW t, NEW q, NEW pos, NEW e, Ordered(t, q, pos, e), NEW n \in Nodes(t)
    PROVE  \/ Leftmost(t, n) = n
           \/ t.kid[t.parent[Leftmost(t, n)]]["left"] = Leftmost(t, n)
<1>. DEFINE S == {m \in Nodes(t) : m = n \/ t.kid[t.parent[m]]["left"] = m}
            turn == [m \in PCB |-> "left"]
<1>1. turn \in [PCB -> Sides] /\ S \in SUBSET Nodes(t) /\ n \in S /\ "left" \in Sides
    BY DEF Sides
<1>2. ASSUME NEW m \in S, t.kid[m][turn[m]] # NULL
      PROVE  t.kid[m][turn[m]] \in S
    <2>1. m \in PCB /\ turn[m] = "left"
        BY NodePlaces
    <2>2. t.kid[m]["left"] \in Nodes(t) /\ t.parent[t.kid[m]["left"]] = m
        BY <1>1, <1>2, <2>1, KidFacts DEF Ordered
    <2>. QED  BY <2>1, <2>2
<1>. HIDE DEF S
<1>3. PathEnd(t, n, turn) \in S
    BY <1>1, <1>2, PathEndIn
<1>4. Leftmost(t, n) \in S
    BY <1>3 DEF Leftmost
<1>. QED  BY <1>4 DEF S

(* The successor of a node with two children: the next in the queue, it    *)
(* has no left child, and hangs from the node or is a left child.          *)
Successor(t, y, x, c) ==
    /\ y \in Nodes(t) /\ \A d \in Sides : t.kid[y][d] # NULL
    /\ x = Leftmost(t, t.kid[y]["right"]) /\ c = t.kid[x]["right"]

(* What the walk left from the right child finds in rb_erase.              *)
LEMMA SuccessorFacts ==
    ASSUME NEW t, NEW q, NEW pos, NEW e, Ordered(t, q, pos, e),
           NEW y, NEW x, NEW c, Successor(t, y, x, c)
    PROVE  /\ x \in Nodes(t) /\ y \in Nodes(t) /\ x # y /\ pos[x] = pos[y] + 1
           /\ t.kid[x]["left"] = NULL /\ OnlyKid(t, x, c) /\ x # t.kid[y]["left"]
           /\ x # t.root
           /\ x # t.kid[y]["right"] =>
                /\ t.kid[t.parent[x]]["left"] = x
                /\ t.parent[x] # y /\ t.parent[x] # x /\ t.parent[x] \in PCB
<1>1. PICK r : r = t.kid[y]["right"]
    OBVIOUS
<1>2. PICK l : l = t.kid[y]["left"]
    OBVIOUS
<1>3. "left" \in Sides /\ "right" \in Sides /\ Other("right") = "left" /\ Shaped(t)
    BY DEF Sides, Other, Ordered
<1>4. y \in Nodes(t) /\ l # NULL /\ r # NULL /\ x = Leftmost(t, r) /\ c = t.kid[x]["right"]
    BY <1>1, <1>2, <1>3 DEF Successor
<1>5. y \in PCB
    BY <1>4, NodePlaces
<1>6. r \in Nodes(t) /\ l \in Nodes(t) /\ r \in PCB /\ t.parent[r] = y
    BY <1>1, <1>2, <1>3, <1>4, <1>5, KidFacts
<1>7. x \in Nodes(t) /\ pos[x] = e[r]["left"] /\ t.kid[x]["left"] = NULL
    BY <1>4, <1>6, LeftmostIs
<1>8. e[r]["left"] = pos[y] + 1 /\ e[l]["right"] = pos[y] - 1
    BY <1>1, <1>2, <1>4 DEF Ordered, Divided
<1>9. /\ pos[y] \in Int /\ pos[l] \in Int /\ e[l]["right"] \in Int
      /\ pos[l] <= e[l]["right"]
    BY <1>4, <1>6, NodePlaces
<1>10. pos[x] = pos[y] + 1 /\ x # y /\ x # l
    BY <1>7, <1>8, <1>9
<1>11. OnlyKid(t, x, c)
    BY <1>3, <1>4, <1>7 DEF OnlyKid
<1>12. x # t.root
    <2>1. SUFFICES ASSUME x = t.root PROVE FALSE
        OBVIOUS
    <2>2. pos[x] >= e[x]["left"] /\ e[x]["left"] = pos[x] /\ pos[x] \in Int
        BY <1>7, NodePlaces DEF Ordered, Divided
    <2>3. e[x]["left"] = 1
        <3>1. x # NULL
            BY <1>7, NodePlaces
        <3>. QED  BY <2>1, <3>1 DEF Ordered, Places
    <2>4. pos[y] >= 1
        BY <1>4, NodePlaces
    <2>. QED  BY <1>9, <1>10, <2>2, <2>3, <2>4
<1>13. ASSUME x # r
       PROVE  /\ t.kid[t.parent[x]]["left"] = x
              /\ t.parent[x] # y /\ t.parent[x] # x /\ t.parent[x] \in PCB
    <2>1. t.kid[t.parent[x]]["left"] = x
        BY <1>4, <1>6, <1>13, LeftmostHangs
    <2>2. t.parent[x] # y
        BY <1>2, <1>10, <2>1
    <2>3. t.parent[x] \in PCB
        BY <1>3, <1>7, <1>12, ParentFacts
    <2>4. x # NULL /\ x \in PCB
        BY <1>7, NodePlaces
    <2>5. t.parent[x] # x
        BY <1>3, <1>7, <2>1, <2>4
    <2>. QED  BY <2>1, <2>2, <2>3, <2>5
<1>. QED  BY <1>1, <1>2, <1>4, <1>7, <1>10, <1>11, <1>12, <1>13

(* The tree rb_erase makes when x, the successor, takes the place of y.    *)
LEMMA UnlinkedFields ==
    ASSUME NEW t, NEW q, NEW pos, NEW e, Ordered(t, q, pos, e),
           NEW y, NEW x, NEW c, Successor(t, y, x, c),
           NEW v, CutOut(t, x, c, v)
    PROVE  Replaced(v, y, x, Unlinked(t, y).tree)
<1>1. PICK l : l = t.kid[y]["left"]
    OBVIOUS
<1>2. PICK r : r = t.kid[y]["right"]
    OBVIOUS
<1>3. PICK p : p = IF x = r THEN x ELSE t.parent[x]
    OBVIOUS
<1>4. PICK t0 : t0 = InPlaceOf(t, y, x)
    OBVIOUS
<1>5. PICK t1 : t1 = [t0 EXCEPT !.red[x] = t.red[y]]
    OBVIOUS
<1>6. PICK t2a : t2a = Hang(t1, p, "left", c)
    OBVIOUS
<1>7. PICK t2b : t2b = Hang(t2a, x, "right", r)
    OBVIOUS
<1>8. PICK t2 : t2 = IF x = r THEN t1 ELSE t2b
    OBVIOUS
<1>9. PICK t3 : t3 = Hang(t2, x, "left", l)
    OBVIOUS
<1>10. PICK u : u = Forgotten(t3, y)
    OBVIOUS
<1>11. "left" \in Sides /\ "right" \in Sides /\ Other("right") = "left"
       /\ Other("left") = "right" /\ Shaped(t) /\ IsTree(t) /\ NULL \notin PCB
    BY NodesAssumption DEF Sides, Other, Ordered, Shaped
<1>12. /\ y \in Nodes(t) /\ l # NULL /\ r # NULL /\ x = Leftmost(t, r)
       /\ c = t.kid[x]["right"]
    BY <1>1, <1>2, <1>11 DEF Successor
<1>13. u = Unlinked(t, y).tree
    BY ONLY Zenon, <1>1, <1>2, <1>3, <1>4, <1>5, <1>6, <1>7, <1>8, <1>9, <1>10, <1>12
       DEF Unlinked
<1>14. /\ x \in Nodes(t) /\ x # y /\ x # l /\ x # t.root /\ t.kid[x]["left"] = NULL
       /\ x # r => /\ t.kid[p]["left"] = x /\ p # y /\ p # x /\ p \in PCB
                   /\ p = t.parent[x]
    BY <1>1, <1>2, <1>3, SuccessorFacts
<1>15. x \in PCB /\ y \in PCB /\ x # NULL /\ y # NULL
    BY <1>12, <1>14, NodePlaces
<1>16. /\ l \in PCB /\ r \in PCB /\ t.parent[l] = y /\ t.parent[r] = y /\ l # r
       /\ l # y /\ r # y
    BY <1>1, <1>2, <1>11, <1>12, <1>15, KidFacts, NoLoops
<1>17. c \in Ptr /\ (c # NULL => c \in PCB /\ t.parent[c] = x /\ c # x /\ c # y)
       /\ c # l /\ c # r
    <2>1. c \in Ptr
        BY <1>11, <1>12, <1>15, TreeFields
    <2>2. ASSUME c # NULL
          PROVE  c \in PCB /\ t.parent[c] = x /\ c # x
        BY <1>11, <1>12, <1>15, <2>2, KidFacts, NoLoops
    <2>3. ASSUME c # NULL
          PROVE  c # y
        <3>1. CASE x = r
            BY <1>2, <1>11, <1>12, <1>15, <2>3, <3>1, NoLoops
        <3>2. CASE x # r
            <4>1. pos[x] = pos[y] + 1 /\ pos[y] \in Int
                BY <1>12, SuccessorFacts, NodePlaces
            <4>2. c \in Nodes(t)
                BY <1>11, <1>12, <1>15, <2>3, KidFacts
            <4>3. pos[c] >= e[c]["left"] /\ e[c]["left"] = pos[x] + 1
                  /\ pos[c] \in Int
                BY <1>12, <1>14, <2>3, <4>2, NodePlaces DEF Ordered, Divided
            <4>. QED  BY <4>1, <4>3
        <3>. QED  BY <3>1, <3>2
    <2>4. c # l /\ c # r
        BY <1>12, <1>14, <1>16, <2>2
    <2>. QED  BY <2>1, <2>2, <2>3, <2>4
<1>18. /\ IsTree(t0) /\ t0.red = t.red
       /\ t0.root = (IF y = t.root THEN x ELSE t.root)
       /\ \A m \in PCB, d \in Sides :
             t0.kid[m][d] = IF t.kid[m][d] = y THEN x ELSE t.kid[m][d]
       /\ \A m \in PCB : t0.parent[m] = IF m = x THEN t.parent[y] ELSE t.parent[m]
    BY <1>4, <1>11, <1>12, <1>15, InPlaceOfFields DEF Ptr
<1>19. /\ IsTree(t1) /\ t1.root = t0.root /\ t1.kid = t0.kid /\ t1.parent = t0.parent
       /\ t1.red[x] = t.red[y] /\ \A m \in PCB : m # x => t1.red[m] = t.red[m]
    <2>1. t0 \in [root : Ptr, kid : [PCB -> [Sides -> Ptr]], parent : [PCB -> Ptr],
                  red : [PCB -> BOOLEAN]]
        BY <1>18 DEF IsTree
    <2>2. t.red[y] \in BOOLEAN
        BY <1>11, <1>15, TreeFields
    <2>3. t1.red = [t0.red EXCEPT ![x] = t.red[y]]
        BY <1>5, <2>1
    <2>4. t1.root = t0.root /\ t1.kid = t0.kid /\ t1.parent = t0.parent
        BY <1>5, <2>1
    <2>5. t0.red \in [PCB -> BOOLEAN]
        BY <2>1
    <2>6. t1.red \in [PCB -> BOOLEAN]
        BY <2>2, <2>3, <2>5
    <2>7. IsTree(t1)
        BY <1>5, <2>1, <2>2 DEF IsTree
    <2>8. t1.red[x] = t.red[y]
        BY <1>15, <2>3, <2>5
    <2>9. \A m \in PCB : m # x => t1.red[m] = t.red[m]
        BY <1>18, <2>3, <2>5
    <2>. QED  BY <2>4, <2>7, <2>8, <2>9
<1>20. /\ IsTree(t2) /\ t2.root = t1.root /\ t2.red = t1.red
       /\ \A m \in PCB, d \in Sides :
             t2.kid[m][d] = IF x # r /\ m = x /\ d = "right" THEN r
                            ELSE IF x # r /\ m = p /\ d = "left" THEN c ELSE t1.kid[m][d]
       /\ \A m \in PCB : t2.parent[m] = IF x # r /\ m = r THEN x
                                        ELSE IF x # r /\ m = c THEN p ELSE t1.parent[m]
    <2>1. CASE x = r
        BY ONLY <1>8, <1>19, <2>1
    <2>2. CASE x # r
        <3>1. /\ IsTree(t2a) /\ t2a.root = t1.root /\ t2a.red = t1.red
              /\ \A m \in PCB, d \in Sides :
                    t2a.kid[m][d] = IF m = p /\ d = "left" THEN c ELSE t1.kid[m][d]
              /\ \A m \in PCB : t2a.parent[m] = IF m = c THEN p ELSE t1.parent[m]
            <4>1. IsTree(t1) /\ p \in PCB /\ "left" \in Sides /\ c \in Ptr
                BY <1>11, <1>14, <1>17, <1>19, <2>2
            <4>. QED  BY ONLY <1>6, <4>1, HangFields
        <3>2. IsTree(t2a) /\ x \in PCB /\ "right" \in Sides /\ r \in Ptr
            BY <1>11, <1>15, <1>16, <3>1 DEF Ptr
        <3>3. /\ IsTree(t2b) /\ t2b.root = t2a.root /\ t2b.red = t2a.red
              /\ \A m \in PCB, d \in Sides :
                    t2b.kid[m][d] = IF m = x /\ d = "right" THEN r ELSE t2a.kid[m][d]
              /\ \A m \in PCB : t2b.parent[m] = IF m = r THEN x ELSE t2a.parent[m]
            BY ONLY <1>7, <3>2, HangFields
        <3>4. t2 = t2b
            BY <1>8, <2>2
        <3>. QED  BY ONLY <2>2, <3>1, <3>3, <3>4
    <2>. QED  BY <2>1, <2>2
<1>21. /\ IsTree(t3) /\ t3.root = t2.root /\ t3.red = t2.red
       /\ \A m \in PCB, d \in Sides :
             t3.kid[m][d] = IF m = x /\ d = "left" THEN l ELSE t2.kid[m][d]
       /\ \A m \in PCB : t3.parent[m] = IF m = l THEN x ELSE t2.parent[m]
    <2>1. IsTree(t2) /\ x \in PCB /\ "left" \in Sides /\ l \in Ptr
        BY <1>11, <1>15, <1>16, <1>20 DEF Ptr
    <2>. QED  BY ONLY <1>9, <2>1, HangFields
<1>22. /\ IsTree(u) /\ u.root = t3.root
       /\ \A m \in PCB, d \in Sides : u.kid[m][d] = IF m = y THEN NULL ELSE t3.kid[m][d]
       /\ \A m \in PCB : u.parent[m] = IF m = y THEN NULL ELSE t3.parent[m]
       /\ \A m \in PCB : m # y => u.red[m] = t3.red[m]
    <2>1. IsTree(t3) /\ y \in PCB
        BY <1>15, <1>21
    <2>. QED  BY ONLY <1>10, <2>1, ForgottenFields
<1>23. /\ v.root = IF x = t.root THEN c ELSE t.root
       /\ \A m \in PCB, d \in Sides :
             v.kid[m][d] = IF m = x THEN NULL
                           ELSE IF t.kid[m][d] = x THEN c ELSE t.kid[m][d]
       /\ \A m \in PCB :
             v.parent[m] = IF m = x THEN NULL
                           ELSE IF m = c THEN t.parent[x] ELSE t.parent[m]
       /\ \A m \in PCB : m # x => v.red[m] = t.red[m]
    BY DEF CutOut
<1>24. u.root = IF y = v.root THEN x ELSE v.root
    BY <1>14, <1>18, <1>19, <1>20, <1>21, <1>22, <1>23
<1>25. u.red[x] = v.red[y] /\ \A m \in PCB : m # x /\ m # y => u.red[m] = v.red[m]
    BY <1>14, <1>15, <1>19, <1>20, <1>21, <1>22, <1>23
<1>26. x = r => t.parent[x] = y
    BY <1>16
<1>27. ASSUME NEW m \in PCB
       PROVE  u.parent[m] = IF m = y THEN NULL ELSE IF m = x THEN v.parent[y]
                            ELSE IF v.parent[m] = y THEN x ELSE v.parent[m]
    <2>1. CASE m = y
        BY <1>22, <2>1
    <2>2. CASE m = x
        <3>1. v.parent[y] = t.parent[y]
            BY <1>14, <1>15, <1>17, <1>23
        <3>2. u.parent[x] = t.parent[y]
            BY <1>14, <1>15, <1>17, <1>18, <1>19, <1>20, <1>21, <1>22
        <3>. QED  BY <1>14, <2>2, <3>1, <3>2
    <2>3. CASE m = l
        BY <1>14, <1>16, <1>17, <1>21, <1>22, <1>23, <2>3
    <2>4. CASE m = r /\ m # x
        BY <1>14, <1>16, <1>17, <1>20, <1>21, <1>22, <1>23, <2>4
    <2>5. CASE m = c /\ m # x
        <3>1. c \in PCB /\ t.parent[c] = x /\ c # x /\ c # y /\ c # l /\ c # r
            BY <1>11, <1>17, <2>5
        <3>2. v.parent[m] = t.parent[x]
            BY <1>23, <2>5
        <3>3. CASE x = r
            BY <1>18, <1>19, <1>20, <1>21, <1>22, <1>26, <2>5, <3>1, <3>2, <3>3
        <3>4. CASE x # r
            BY <1>14, <1>20, <1>21, <1>22, <2>5, <3>1, <3>2, <3>4
        <3>. QED  BY <3>3, <3>4
    <2>6. CASE m # y /\ m # x /\ m # l /\ m # r /\ m # c
        <3>1. u.parent[m] = t.parent[m] /\ v.parent[m] = t.parent[m]
            BY <1>18, <1>19, <1>20, <1>21, <1>22, <1>23, <2>6
        <3>2. t.parent[m] # y
            <4>1. SUFFICES ASSUME t.parent[m] = y PROVE FALSE
                OBVIOUS
            <4>2. PICK d \in Sides : t.kid[y][d] = m
                BY <1>11, <1>15, <4>1 DEF Shaped
            <4>. QED  BY <1>1, <1>2, <2>6, <4>2 DEF Sides
        <3>. QED  BY <2>6, <3>1, <3>2
    <2>. QED  BY <2>1, <2>2, <2>3, <2>4, <2>5, <2>6
<1>28. ASSUME NEW m \in PCB, NEW d \in Sides
       PROVE  u.kid[m][d] = IF m = y THEN NULL ELSE IF m = x THEN v.kid[y][d]
                            ELSE IF v.kid[m][d] = y THEN x ELSE v.kid[m][d]
    <2>1. d = "left" \/ d = "right"
        BY DEF Sides
    <2>2. CASE m = y
        BY <1>22, <2>2
    <2>3. CASE m = x
        <3>1. v.kid[y]["left"] = l /\ v.kid[y]["right"] = IF x = r THEN c ELSE r
            BY <1>1, <1>2, <1>11, <1>14, <1>15, <1>23
        <3>2. u.kid[x]["left"] = l
            BY <1>11, <1>14, <1>15, <1>21, <1>22
        <3>3. u.kid[x]["right"] = IF x = r THEN c ELSE r
            <4>1. c # y
                BY <1>15, <1>17
            <4>. QED  BY <1>11, <1>12, <1>14, <1>15, <1>18, <1>19, <1>20, <1>21, <1>22, <4>1
        <3>. QED  BY <1>14, <2>1, <2>3, <3>1, <3>2, <3>3
    <2>4. CASE m # y /\ m # x /\ t.kid[m][d] = x
        <3>1. t.parent[x] = m
            BY <1>11, <1>15, <2>4, KidFacts
        <3>2. x # r /\ m = p
            BY <1>14, <1>26, <2>4, <3>1
        <3>3. d = "left"
            <4>1. t.kid[m][d] # t.kid[m][Other(d)]
                BY <1>11, <1>15, <2>4, KidFacts
            <4>2. t.kid[m]["left"] = x
                BY <1>14, <3>2
            <4>. QED  BY <1>11, <2>1, <2>4, <4>1, <4>2
        <3>4. u.kid[m][d] = c
            BY <1>20, <1>21, <1>22, <2>4, <3>2, <3>3
        <3>5. c # y
            BY <1>15, <1>17
        <3>. QED  BY <1>23, <2>4, <3>4, <3>5
    <2>5. CASE m # y /\ m # x /\ t.kid[m][d] # x
        <3>1. ~ (x # r /\ m = p /\ d = "left")
            BY <1>14, <2>5
        <3>2. u.kid[m][d] = t0.kid[m][d]
            BY <1>19, <1>20, <1>21, <1>22, <2>5, <3>1
        <3>3. v.kid[m][d] = t.kid[m][d]
            BY <1>23, <2>5
        <3>. QED  BY <1>18, <2>5, <3>2, <3>3
    <2>. QED  BY <2>2, <2>3, <2>4, <2>5
<1>29. Replaced(v, y, x, u)
    BY <1>22, <1>24, <1>25, <1>27, <1>28 DEF Replaced
<1>. QED  BY <1>13, <1>29

(* rb_erase takes y out itself, or y's successor, which then gets y's      *)
(* place.  w is what it goes on with.                                      *)
ErasesItself(t, y, w) ==
    \E c : /\ OnlyKid(t, y, c) /\ CutOut(t, y, c, w.tree)
           /\ w.child = c /\ w.parent = t.parent[y] /\ w.black = ~t.red[y]
ErasesSuccessor(t, y, w) ==
    \E x, c, v : /\ Successor(t, y, x, c) /\ CutOut(t, x, c, v)
                 /\ Replaced(v, y, x, w.tree)
                 /\ w.child = c /\ w.black = ~t.red[x]
                 /\ w.parent = IF x = t.kid[y]["right"] THEN x ELSE t.parent[x]

(* rb_erase takes out the node, or its successor and puts that in its place.*)
LEMMA UnlinkedCases ==
    ASSUME NEW t, NEW q, NEW pos, NEW e, Ordered(t, q, pos, e), NEW y \in Nodes(t)
    PROVE  ErasesItself(t, y, Unlinked(t, y)) \/ ErasesSuccessor(t, y, Unlinked(t, y))
<1>1. PICK l : l = t.kid[y]["left"]
    OBVIOUS
<1>2. PICK r : r = t.kid[y]["right"]
    OBVIOUS
<1>3. PICK w : w = Unlinked(t, y)
    OBVIOUS
<1>4. "left" \in Sides /\ "right" \in Sides /\ Other("right") = "left"
      /\ Other("left") = "right"
    BY DEF Sides, Other
<1>5. CASE l = NULL \/ r = NULL
    <2>1. PICK c : c = IF l = NULL THEN r ELSE l
        OBVIOUS
    <2>2. w = [tree   |-> Forgotten(InPlaceOf(t, y, c), y), child  |-> c,
               parent |-> t.parent[y], black  |-> ~t.red[y]]
        BY ONLY <1>1, <1>2, <1>3, <1>5, <2>1 DEF Unlinked
    <2>3. OnlyKid(t, y, c)
        BY ONLY <1>1, <1>2, <1>4, <1>5, <2>1 DEF OnlyKid
    <2>4. CutOut(t, y, c, Forgotten(InPlaceOf(t, y, c), y))
        BY <2>3, CutFields
    <2>5. /\ w.tree = Forgotten(InPlaceOf(t, y, c), y) /\ w.child = c
          /\ w.parent = t.parent[y] /\ w.black = ~t.red[y]
        BY ONLY <2>2
    <2>. QED  BY ONLY <1>3, <2>3, <2>4, <2>5 DEF ErasesItself
<1>6. CASE l # NULL /\ r # NULL
    <2>1. PICK x : x = Leftmost(t, r)
        OBVIOUS
    <2>2. PICK c : c = t.kid[x]["right"]
        OBVIOUS
    <2>3. PICK p : p = IF x = r THEN x ELSE t.parent[x]
        OBVIOUS
    <2>4. w.child = c /\ w.parent = p /\ w.black = ~t.red[x]
        BY ONLY <1>1, <1>2, <1>3, <1>6, <2>1, <2>2, <2>3 DEF Unlinked
    <2>5. Successor(t, y, x, c)
        BY <1>1, <1>2, <1>6, <2>1, <2>2 DEF Successor, Sides
    <2>6. x \in Nodes(t) /\ OnlyKid(t, x, c)
        BY <2>5, SuccessorFacts
    <2>7. PICK v : v = Forgotten(InPlaceOf(t, x, c), x)
        OBVIOUS
    <2>8. CutOut(t, x, c, v)
        BY <2>6, <2>7, CutFields
    <2>9. Replaced(v, y, x, w.tree)
        BY <1>3, <2>5, <2>8, UnlinkedFields
    <2>. QED  BY ONLY <1>2, <1>3, <2>3, <2>4, <2>5, <2>8, <2>9 DEF ErasesSuccessor
<1>. QED  BY <1>5, <1>6

(* Taking out an element's successor and putting it in the element's place *)
(* is taking out the element.                                              *)
LEMMA RemovedNext ==
    ASSUME NEW q, IsQueue(q), NEW i \in 1 .. Len(q), i + 1 \in 1 .. Len(q)
    PROVE  [Removed(q, i + 1) EXCEPT ![i] = q[i + 1]] = Removed(q, i)
<1>1. q \in Seq(PCB) /\ Len(q) \in Nat
    BY DEF IsQueue
<1>2. PICK a : a = Removed(q, i + 1)
    OBVIOUS
<1>3. PICK b : b = [a EXCEPT ![i] = q[i + 1]]
    OBVIOUS
<1>4. \A j \in 1 .. Len(q) - 1 : a[j] = q[IF j < i + 1 THEN j ELSE j + 1]
    BY <1>2 DEF Removed
<1>5. DOMAIN a = 1 .. Len(q) - 1 /\ DOMAIN b = 1 .. Len(q) - 1
      /\ b = [j \in 1 .. Len(q) - 1 |-> IF j = i THEN q[i + 1] ELSE a[j]]
    BY <1>2, <1>3 DEF Removed
<1>6. \A j \in 1 .. Len(q) - 1 : b[j] = q[IF j < i THEN j ELSE j + 1]
    BY <1>1, <1>4, <1>5
<1>7. b = Removed(q, i)
    BY <1>5, <1>6 DEF Removed
<1>. QED  BY <1>2, <1>3, <1>7

(* So rb_erase takes y out of the queue, and nothing else.                 *)
LEMMA UnlinkedOrdered ==
    ASSUME NEW t, NEW q, NEW pos, NEW e, Ordered(t, q, pos, e), NEW y \in Nodes(t)
    PROVE  /\ Nodes(Unlinked(t, y).tree) = Nodes(t) \ {y}
           /\ \E pos1, e1 : Ordered(Unlinked(t, y).tree, Removed(q, pos[y]), pos1, e1)
<1>1. PICK w : w = Unlinked(t, y)
    OBVIOUS
<1>2. CASE ErasesItself(t, y, w)
    <2>1. PICK c : OnlyKid(t, y, c) /\ CutOut(t, y, c, w.tree)
        BY <1>2 DEF ErasesItself
    <2>2. /\ Nodes(w.tree) = Nodes(t) \ {y}
          /\ Ordered(w.tree, Removed(q, pos[y]), CutPos(pos[y], pos), CutEnds(pos[y], e))
        BY <2>1, CutOrdered
    <2>. QED  BY <1>1, <2>2
<1>3. CASE ErasesSuccessor(t, y, w)
    <2>1. PICK x, c, v : Successor(t, y, x, c) /\ CutOut(t, x, c, v)
                         /\ Replaced(v, y, x, w.tree)
        BY <1>3 DEF ErasesSuccessor
    <2>2. x \in Nodes(t) /\ x # y /\ pos[x] = pos[y] + 1 /\ OnlyKid(t, x, c)
        BY <2>1, SuccessorFacts
    <2>3. PICK q1 : q1 = Removed(q, pos[x])
        OBVIOUS
    <2>4. PICK pos1 : pos1 = CutPos(pos[x], pos)
        OBVIOUS
    <2>5. PICK e1 : e1 = CutEnds(pos[x], e)
        OBVIOUS
    <2>6. Nodes(v) = Nodes(t) \ {x} /\ Ordered(v, q1, pos1, e1)
        BY <2>1, <2>2, <2>3, <2>4, <2>5, CutOrdered
    <2>7. y \in Nodes(v) /\ x \in PCB /\ x \notin Nodes(v)
        BY <2>2, <2>6, NodePlaces
    <2>8. /\ Nodes(w.tree) = (Nodes(v) \ {y}) \cup {x}
           /\ Ordered(w.tree, [q1 EXCEPT ![pos1[y]] = x], [pos1 EXCEPT ![x] = pos1[y]],
                      [e1 EXCEPT ![x] = e1[y]])
        <3>1. Replaced(v, y, x, w.tree)
            BY <2>1
        <3>. QED  BY ONLY <2>6, <2>7, <3>1, ReplaceOrdered
    <2>9. PICK pos2, e2 : Ordered(w.tree, [q1 EXCEPT ![pos1[y]] = x], pos2, e2)
        BY <2>8
    <2>10. Nodes(w.tree) = (Nodes(v) \ {y}) \cup {x}
        BY <2>8
    <2>11. /\ pos[y] \in 1 .. Len(q) /\ pos[x] \in 1 .. Len(q) /\ q[pos[x]] = x
           /\ IsQueue(q) /\ y \in PCB /\ pos[y] \in Int /\ pos[x] \in Int
        BY <2>2, NodePlaces DEF Ordered, Places
    <2>12. pos1[y] = pos[y]
        BY <2>2, <2>4, <2>11 DEF CutPos
    <2>13. [q1 EXCEPT ![pos1[y]] = x] = Removed(q, pos[y])
        BY <2>2, <2>3, <2>11, <2>12, RemovedNext
    <2>14. Nodes(w.tree) = Nodes(t) \ {y}
        BY <2>2, <2>6, <2>10
    <2>. QED  BY <1>1, <2>9, <2>13, <2>14
<1>. QED  BY <1>1, <1>2, <1>3, UnlinkedCases

-----------------------------------------------------------------------------
(* What a tree holds from left to right.                                   *)

(* InOrder is the function its recursive definition says.                  *)
LEMMA InOrderFacts ==
    ASSUME NEW t, IsTree(t)
    PROVE  /\ \A d \in Nat : InOrder(t)[d][NULL] = << >>
           /\ \A d \in Nat, m \in PCB :
                 InOrder(t)[d + 1][m] = InOrder(t)[d][t.kid[m]["left"]] \o <<m>>
                                        \o InOrder(t)[d][t.kid[m]["right"]]
<1>. DEFINE V == [Ptr -> Seq(PCB)]
            g(w) == [m \in Ptr |-> IF m = NULL THEN << >>
                                   ELSE w[t.kid[m]["left"]] \o <<m>>
                                        \o w[t.kid[m]["right"]]]
            f == [w \in V |-> g(w)]
            z == [m \in Ptr |-> << >>]
<1>1. \A m \in PCB : t.kid[m]["left"] \in Ptr /\ t.kid[m]["right"] \in Ptr
    BY TreeFields DEF Sides
<1>2. z \in V
    OBVIOUS
<1>3. ASSUME NEW w \in V
      PROVE  g(w) \in V
    <2>1. ASSUME NEW m \in Ptr, m # NULL
          PROVE  w[t.kid[m]["left"]] \o <<m>> \o w[t.kid[m]["right"]] \in Seq(PCB)
        <3>1. m \in PCB
            BY <2>1 DEF Ptr
        <3>2. w[t.kid[m]["left"]] \in Seq(PCB) /\ w[t.kid[m]["right"]] \in Seq(PCB)
              /\ <<m>> \in Seq(PCB)
            BY <1>1, <3>1
        <3>. QED  BY <3>2, ConcatProperties
    <2>. QED  BY <2>1
<1>4. f \in [V -> V]
    BY <1>3
<1>5. PICK at \in [Nat -> V] : at[0] = z /\ \A k \in Nat : at[k + 1] = f[at[k]]
    <2>. HIDE DEF V, f, z
    <2>. QED  BY <1>2, <1>4, WalkExists
<1>6. \A d \in Nat : at[d] = [m \in Ptr |->
            IF d = 0 \/ m = NULL THEN << >>
            ELSE at[d - 1][t.kid[m]["left"]] \o <<m>> \o at[d - 1][t.kid[m]["right"]]]
    <2>1. SUFFICES ASSUME NEW d \in Nat
          PROVE  at[d] = [m \in Ptr |->
                    IF d = 0 \/ m = NULL THEN << >>
                    ELSE at[d - 1][t.kid[m]["left"]] \o <<m>>
                         \o at[d - 1][t.kid[m]["right"]]]
        BY Zenon
    <2>2. CASE d = 0
        BY <1>5, <2>2
    <2>3. CASE d # 0
        <3>1. d - 1 \in Nat /\ (d - 1) + 1 = d
            BY <2>3
        <3>2. at[d] = f[at[d - 1]] /\ at[d - 1] \in V
            BY Zenon, <1>5, <3>1
        <3>3. at[d] = g(at[d - 1])
            BY Zenon, <3>2
        <3>. QED  BY Zenon, <2>3, <3>3
    <2>. QED  BY Zenon, <2>2, <2>3
<1>. DEFINE Is(w) == w = [d \in Nat |-> [m \in Ptr |->
            IF d = 0 \/ m = NULL THEN << >>
            ELSE w[d - 1][t.kid[m]["left"]] \o <<m>> \o w[d - 1][t.kid[m]["right"]]]]
<1>7. Is(at)
    BY Zenon, <1>5, <1>6
<1>8. InOrder(t) = CHOOSE w : Is(w)
    BY DEF InOrder
<1>9. Is(InOrder(t))
    <2>. HIDE DEF Is
    <2>. QED  BY <1>7, <1>8
<1>. DEFINE io == InOrder(t)
<1>10. \A d \in Nat : io[d] = [m \in Ptr |->
            IF d = 0 \/ m = NULL THEN << >>
            ELSE io[d - 1][t.kid[m]["left"]] \o <<m>> \o io[d - 1][t.kid[m]["right"]]]
    BY Zenon, <1>9
<1>. HIDE DEF io
<1>11. \A d \in Nat : io[d][NULL] = << >>
    BY Zenon, <1>10 DEF Ptr
<1>12. ASSUME NEW d \in Nat, NEW m \in PCB
       PROVE  io[d + 1][m] = io[d][t.kid[m]["left"]] \o <<m>> \o io[d][t.kid[m]["right"]]
    <2>1. d + 1 \in Nat /\ d + 1 # 0 /\ (d + 1) - 1 = d /\ m \in Ptr /\ m # NULL
        BY NodesAssumption DEF Ptr
    <2>2. io[d + 1] = [j \in Ptr |->
            IF d + 1 = 0 \/ j = NULL THEN << >>
            ELSE io[d][t.kid[j]["left"]] \o <<j>> \o io[d][t.kid[j]["right"]]]
        BY Zenon, <1>10, <2>1
    <2>. QED  BY Zenon, <2>1, <2>2
<1>. QED  BY Zenon, <1>11, <1>12 DEF io

(* A stretch of a queue, put together again around one of its elements.    *)
LEMMA SubSeqAround ==
    ASSUME NEW S, NEW q \in Seq(S), NEW lo \in Int, NEW p \in Int, NEW hi \in Int,
           1 <= lo, lo <= p, p <= hi, hi <= Len(q)
    PROVE  SubSeq(q, lo, p - 1) \o <<q[p]>> \o SubSeq(q, p + 1, hi) = SubSeq(q, lo, hi)
<1>1. Len(q) \in Nat /\ \A i \in 1 .. Len(q) : q[i] \in S
    BY ElementOfSeq
<1>2. PICK a : a = SubSeq(q, lo, p - 1)
    OBVIOUS
<1>3. PICK b : b = SubSeq(q, p + 1, hi)
    OBVIOUS
<1>4. PICK c : c = SubSeq(q, lo, hi)
    OBVIOUS
<1>5. PICK m : m = <<q[p]>>
    OBVIOUS
<1>6. a \in Seq(S) /\ Len(a) = p - lo /\ \A i \in 1 .. p - lo : a[i] = q[lo + i - 1]
    <2>1. p - 1 \in Int /\ \A i \in lo .. p - 1 : q[i] \in S
        BY <1>1
    <2>2. /\ SubSeq(q, lo, p - 1) \in Seq(S)
          /\ Len(SubSeq(q, lo, p - 1)) = IF lo <= p - 1 THEN (p - 1) - lo + 1 ELSE 0
          /\ \A i \in 1 .. (p - 1) - lo + 1 : SubSeq(q, lo, p - 1)[i] = q[lo + i - 1]
        BY ONLY <2>1, lo \in Int, SubSeqProperties
    <2>3. (p - 1) - lo + 1 = p - lo
        OBVIOUS
    <2>. QED  BY <1>2, <2>2, <2>3
<1>7. b \in Seq(S) /\ Len(b) = hi - p /\ \A i \in 1 .. hi - p : b[i] = q[p + i]
    <2>1. p + 1 \in Int /\ \A i \in p + 1 .. hi : q[i] \in S
        BY <1>1
    <2>2. /\ SubSeq(q, p + 1, hi) \in Seq(S)
          /\ Len(SubSeq(q, p + 1, hi)) = IF p + 1 <= hi THEN hi - (p + 1) + 1 ELSE 0
          /\ \A i \in 1 .. hi - (p + 1) + 1 : SubSeq(q, p + 1, hi)[i] = q[p + 1 + i - 1]
        BY ONLY <2>1, hi \in Int, SubSeqProperties
    <2>3. hi - (p + 1) + 1 = hi - p /\ \A i \in Int : p + 1 + i - 1 = p + i
        OBVIOUS
    <2>4. Len(b) = hi - p
        BY <1>3, <2>2
    <2>5. ASSUME NEW i \in 1 .. hi - p
          PROVE  b[i] = q[p + i]
        <3>1. i \in Int /\ i \in 1 .. hi - (p + 1) + 1
            BY <2>3
        <3>2. b[i] = q[p + 1 + i - 1] /\ p + 1 + i - 1 = p + i
            BY <1>3, <2>2, <2>3, <3>1
        <3>. QED  BY <3>2
    <2>. QED  BY <1>3, <2>2, <2>4, <2>5
<1>8. c \in Seq(S) /\ Len(c) = hi - lo + 1
      /\ \A i \in 1 .. hi - lo + 1 : c[i] = q[lo + i - 1]
    <2>1. \A i \in lo .. hi : q[i] \in S
        BY <1>1
    <2>. QED  BY <1>4, <2>1, SubSeqProperties
<1>9. m \in Seq(S) /\ Len(m) = 1 /\ m[1] = q[p]
    BY <1>1, <1>5
<1>10. PICK d : d = a \o m
    OBVIOUS
<1>11. d \in Seq(S) /\ Len(d) = p - lo + 1
       /\ \A i \in 1 .. p - lo + 1 : d[i] = IF i <= p - lo THEN a[i] ELSE m[i - (p - lo)]
    <2>1. /\ d \in Seq(S) /\ Len(d) = Len(a) + Len(m)
          /\ \A i \in 1 .. Len(a) + Len(m) : d[i] = IF i <= Len(a) THEN a[i]
                                                     ELSE m[i - Len(a)]
        BY ONLY <1>6, <1>9, <1>10, ConcatProperties
    <2>. QED  BY ONLY <1>6, <1>9, <2>1
<1>12. PICK w : w = d \o b
    OBVIOUS
<1>13. w \in Seq(S) /\ Len(w) = hi - lo + 1
       /\ \A i \in 1 .. hi - lo + 1 :
             w[i] = IF i <= p - lo + 1 THEN d[i] ELSE b[i - (p - lo + 1)]
    <2>1. Len(d) + Len(b) = hi - lo + 1
        BY <1>7, <1>11
    <2>2. /\ w \in Seq(S) /\ Len(w) = Len(d) + Len(b)
          /\ \A i \in 1 .. Len(d) + Len(b) : w[i] = IF i <= Len(d) THEN d[i]
                                                     ELSE b[i - Len(d)]
        BY ONLY <1>7, <1>11, <1>12, ConcatProperties
    <2>. QED  BY ONLY <1>11, <2>1, <2>2
<1>14. ASSUME NEW i \in 1 .. hi - lo + 1
       PROVE  w[i] = q[lo + i - 1]
    <2>1. CASE i <= p - lo
        BY <1>6, <1>11, <1>13, <2>1
    <2>2. CASE i = p - lo + 1
        <3>1. i - (p - lo) = 1 /\ lo + i - 1 = p /\ ~(i <= p - lo) /\ i <= p - lo + 1
              /\ i \in 1 .. p - lo + 1
            BY <2>2
        <3>. QED  BY <1>9, <1>11, <1>13, <3>1
    <2>3. CASE i > p - lo + 1
        <3>1. i - (p - lo + 1) \in 1 .. hi - p /\ p + (i - (p - lo + 1)) = lo + i - 1
            BY <2>3
        <3>2. w[i] = b[i - (p - lo + 1)]
            BY <1>13, <2>3
        <3>3. PICK j : j = i - (p - lo + 1)
            OBVIOUS
        <3>4. b[j] = q[p + j]
            BY <1>7, <3>1, <3>3
        <3>. QED  BY <3>1, <3>2, <3>3, <3>4
    <2>. QED  BY <2>1, <2>2, <2>3
<1>15. w = c
    BY Zenon, <1>8, <1>13, <1>14, SeqEqual
<1>. QED  BY <1>2, <1>3, <1>4, <1>5, <1>10, <1>12, <1>15

(* From left to right, the tree holds the queue.                           *)
LEMMA TreeOrderIs ==
    ASSUME NEW t, NEW q, NEW pos, NEW e, Ordered(t, q, pos, e)
    PROVE  TreeOrder(t) = q
<1>1. PICK io : io = InOrder(t)
    OBVIOUS
<1>2. /\ \A d \in Nat : io[d][NULL] = << >>
      /\ \A d \in Nat, m \in PCB :
            io[d + 1][m] = io[d][t.kid[m]["left"]] \o <<m>> \o io[d][t.kid[m]["right"]]
    <2>1. IsTree(t)
        BY DEF Ordered, Shaped
    <2>. QED  BY Zenon, <1>1, <2>1, InOrderFacts
<1>3. IsQueue(q) /\ q \in Seq(PCB) /\ Len(q) \in Nat
    BY DEF Ordered, Places, IsQueue
<1>4. "left" \in Sides /\ "right" \in Sides /\ Shaped(t)
    BY DEF Sides, Ordered
<1>. DEFINE Good(d) == \A m \in Nodes(t) : Span(e, m) < d =>
                           io[d][m] = SubSeq(q, e[m]["left"], e[m]["right"])
            Bad == {d \in Nat : ~Good(d)}
<1>5. ASSUME NEW d \in Nat, Good(d)
      PROVE  Good(d + 1)
    <2>1. SUFFICES ASSUME NEW m \in Nodes(t), Span(e, m) < d + 1
          PROVE  io[d + 1][m] = SubSeq(q, e[m]["left"], e[m]["right"])
        OBVIOUS
    <2>2. PICK l : l = t.kid[m]["left"]
        OBVIOUS
    <2>3. PICK r : r = t.kid[m]["right"]
        OBVIOUS
    <2>4. PICK lo : lo = e[m]["left"]
        OBVIOUS
    <2>5. PICK hi : hi = e[m]["right"]
        OBVIOUS
    <2>6. PICK p : p = pos[m]
        OBVIOUS
    <2>7. /\ m \in PCB /\ p \in Int /\ lo \in Int /\ hi \in Int /\ q[p] = m
          /\ 1 <= lo /\ lo <= p /\ p <= hi /\ hi <= Len(q) /\ Span(e, m) \in Nat
        BY <2>4, <2>5, <2>6, NodePlaces
    <2>8. io[d][l] = SubSeq(q, lo, p - 1)
        <3>1. CASE l = NULL
            <4>1. lo = p
                BY <2>1, <2>2, <2>4, <2>6, <3>1 DEF Ordered, Divided
            <4>2. SubSeq(q, lo, p - 1) = << >>
                <5>1. p - 1 \in Int /\ p - 1 < lo
                    BY <2>7, <4>1
                <5>. QED  BY ONLY <2>7, <5>1, SubSeqEmpty
            <4>. QED  BY <1>2, <3>1, <4>2
        <3>2. CASE l # NULL
            <4>1. l \in Nodes(t) /\ Span(e, l) \in Nat /\ Span(e, l) < Span(e, m)
                BY <1>4, <2>2, <2>7, <3>2, KidFacts, KidPlaces
            <4>2. e[l]["left"] = lo /\ e[l]["right"] = p - 1
                BY <2>1, <2>2, <2>4, <2>6, <3>2 DEF Ordered, Divided
            <4>3. Span(e, l) < d
                BY <2>1, <2>7, <4>1
            <4>4. io[d][l] = SubSeq(q, e[l]["left"], e[l]["right"])
                BY <1>5, <4>1, <4>3
            <4>. QED  BY <4>2, <4>4
        <3>. QED  BY <3>1, <3>2
    <2>9. io[d][r] = SubSeq(q, p + 1, hi)
        <3>1. CASE r = NULL
            <4>1. hi = p
                BY <2>1, <2>3, <2>5, <2>6, <3>1 DEF Ordered, Divided
            <4>2. SubSeq(q, p + 1, hi) = << >>
                <5>1. p + 1 \in Int /\ hi < p + 1
                    BY <2>7, <4>1
                <5>. QED  BY ONLY <2>7, <5>1, SubSeqEmpty
            <4>. QED  BY <1>2, <3>1, <4>2
        <3>2. CASE r # NULL
            <4>1. r \in Nodes(t) /\ Span(e, r) \in Nat /\ Span(e, r) < Span(e, m)
                BY <1>4, <2>3, <2>7, <3>2, KidFacts, KidPlaces
            <4>2. e[r]["left"] = p + 1 /\ e[r]["right"] = hi
                BY <2>1, <2>3, <2>5, <2>6, <3>2 DEF Ordered, Divided
            <4>3. Span(e, r) < d
                BY <2>1, <2>7, <4>1
            <4>4. io[d][r] = SubSeq(q, e[r]["left"], e[r]["right"])
                BY <1>5, <4>1, <4>3
            <4>. QED  BY <4>2, <4>4
        <3>. QED  BY <3>1, <3>2
    <2>10. io[d + 1][m] = io[d][l] \o <<m>> \o io[d][r]
        BY Zenon, <1>2, <2>2, <2>3, <2>7
    <2>11. SubSeq(q, lo, p - 1) \o <<q[p]>> \o SubSeq(q, p + 1, hi) = SubSeq(q, lo, hi)
        BY ONLY <1>3, <2>7, SubSeqAround
    <2>. QED  BY ONLY <2>4, <2>5, <2>7, <2>8, <2>9, <2>10, <2>11
<1>6. Good(0)
    BY NodePlaces
<1>7. Bad = {}
    <2>. HIDE DEF Good
    <2>1. SUFFICES ASSUME Bad # {} PROVE FALSE
        OBVIOUS
    <2>2. PICK k \in Bad : IsLeast(k, Bad)
        BY <2>1, LeastExists
    <2>3. k # 0
        BY <1>6, <2>2
    <2>4. k - 1 \in Nat /\ k - 1 \notin Bad /\ (k - 1) + 1 = k
        BY <2>2, <2>3 DEF IsLeast
    <2>. QED  BY <1>5, <2>2, <2>4
<1>8. Cardinality(PCB) \in Nat /\ Len(q) <= Cardinality(PCB)
    BY <1>3, QueueLength
<1>9. TreeOrder(t) = io[Cardinality(PCB)][t.root]
    BY <1>1 DEF TreeOrder
<1>10. CASE t.root = NULL
    <2>1. Len(q) = 0
        BY <1>10 DEF Ordered, Places
    <2>2. q = << >>
        BY <1>3, <2>1
    <2>. QED  BY <1>2, <1>8, <1>9, <1>10, <2>2
<1>11. CASE t.root # NULL
    <2>1. e[t.root]["left"] = 1 /\ e[t.root]["right"] = Len(q)
        BY <1>11 DEF Ordered, Places
    <2>2. t.root \in Nodes(t)
        <3>1. t.root \in PCB
            BY <1>4, <1>11, TreeFields DEF Shaped, Ptr
        <3>. QED  BY <3>1 DEF Nodes
    <2>3. Span(e, t.root) < Cardinality(PCB)
        BY <1>3, <1>8, <2>1, <2>2 DEF Span
    <2>4. io[Cardinality(PCB)][t.root] = SubSeq(q, 1, Len(q))
        BY <1>7, <1>8, <2>1, <2>2, <2>3
    <2>5. SubSeq(q, 1, Len(q)) = q
        BY <1>3
    <2>. QED  BY <1>9, <2>4, <2>5
<1>. QED  BY <1>10, <1>11

-----------------------------------------------------------------------------
(* Black heights.                                                          *)

Black(t, n) == IF t.red[n] THEN 0 ELSE 1

(* One black node too few below p on side d.                               *)
Lack(p, d, n, s) == IF n = p /\ s = d THEN 1 ELSE 0

(* b[n] is the number of black nodes on every way down from n, except that *)
(* those below p on side d lack one.                                       *)
Balanced(t, b, p, d) ==
    /\ b \in [Ptr -> Nat] /\ b[NULL] = 0
    /\ \A n \in Nodes(t), s \in Sides :
          b[n] = b[t.kid[n][s]] + Black(t, n) + Lack(p, d, n, s)

(* BlackHeight is the function its recursive definition says.              *)
LEMMA BlackHeightFacts ==
    ASSUME NEW t, IsTree(t)
    PROVE  /\ \A d \in Nat : BlackHeight(t)[d][NULL] = {0}
           /\ \A d \in Nat, m \in PCB :
                 BlackHeight(t)[d + 1][m] =
                    {h + (IF t.red[m] THEN 0 ELSE 1) :
                        h \in BlackHeight(t)[d][t.kid[m]["left"]]
                              \cap BlackHeight(t)[d][t.kid[m]["right"]]}
<1>. DEFINE V == [Ptr -> SUBSET Nat]
            g(w) == [m \in Ptr |-> IF m = NULL THEN {0} ELSE
                        {h + (IF t.red[m] THEN 0 ELSE 1) :
                            h \in w[t.kid[m]["left"]] \cap w[t.kid[m]["right"]]}]
            f == [w \in V |-> g(w)]
            z == [m \in Ptr |-> IF m = NULL THEN {0} ELSE {}]
<1>1. \A m \in PCB : t.kid[m]["left"] \in Ptr /\ t.kid[m]["right"] \in Ptr
    BY TreeFields DEF Sides
<1>2. z \in V
    OBVIOUS
<1>3. ASSUME NEW w \in V
      PROVE  g(w) \in V
    <2>1. ASSUME NEW m \in Ptr, m # NULL
          PROVE  {h + (IF t.red[m] THEN 0 ELSE 1) :
                    h \in w[t.kid[m]["left"]] \cap w[t.kid[m]["right"]]} \in SUBSET Nat
        <3>1. m \in PCB
            BY <2>1 DEF Ptr
        <3>2. w[t.kid[m]["left"]] \in SUBSET Nat
            BY <1>1, <3>1
        <3>. QED  BY <3>2
    <2>. QED  BY <2>1
<1>4. f \in [V -> V]
    BY <1>3
<1>5. PICK at \in [Nat -> V] : at[0] = z /\ \A k \in Nat : at[k + 1] = f[at[k]]
    <2>. HIDE DEF V, f, z
    <2>. QED  BY <1>2, <1>4, WalkExists
<1>6. \A d \in Nat : at[d] = [m \in Ptr |->
            IF m = NULL THEN {0} ELSE IF d = 0 THEN {} ELSE
            {h + (IF t.red[m] THEN 0 ELSE 1) :
                h \in at[d - 1][t.kid[m]["left"]] \cap at[d - 1][t.kid[m]["right"]]}]
    <2>1. SUFFICES ASSUME NEW d \in Nat
          PROVE  at[d] = [m \in Ptr |->
                    IF m = NULL THEN {0} ELSE IF d = 0 THEN {} ELSE
                    {h + (IF t.red[m] THEN 0 ELSE 1) :
                        h \in at[d - 1][t.kid[m]["left"]]
                              \cap at[d - 1][t.kid[m]["right"]]}]
        OBVIOUS
    <2>2. CASE d = 0
        BY <1>5, <2>2
    <2>3. CASE d # 0
        <3>1. d - 1 \in Nat /\ (d - 1) + 1 = d
            BY <2>3
        <3>2. at[d] = f[at[d - 1]] /\ at[d - 1] \in V
            BY <1>5, <3>1
        <3>3. at[d] = g(at[d - 1])
            BY <3>2
        <3>. QED  BY <2>3, <3>3
    <2>. QED  BY <2>2, <2>3
<1>. DEFINE Is(w) == w = [d \in Nat |-> [m \in Ptr |->
            IF m = NULL THEN {0} ELSE IF d = 0 THEN {} ELSE
            {h + (IF t.red[m] THEN 0 ELSE 1) :
                h \in w[d - 1][t.kid[m]["left"]] \cap w[d - 1][t.kid[m]["right"]]}]]
<1>7. Is(at)
    BY <1>5, <1>6
<1>8. BlackHeight(t) = CHOOSE w : Is(w)
    BY DEF BlackHeight
<1>9. Is(BlackHeight(t))
    <2>. HIDE DEF Is
    <2>. QED  BY <1>7, <1>8
<1>. DEFINE bh == BlackHeight(t)
<1>10. \A d \in Nat : bh[d] = [m \in Ptr |->
            IF m = NULL THEN {0} ELSE IF d = 0 THEN {} ELSE
            {h + (IF t.red[m] THEN 0 ELSE 1) :
                h \in bh[d - 1][t.kid[m]["left"]] \cap bh[d - 1][t.kid[m]["right"]]}]
    BY Zenon, <1>9
<1>. HIDE DEF bh
<1>11. \A d \in Nat : bh[d][NULL] = {0}
    BY <1>10 DEF Ptr
<1>12. ASSUME NEW d \in Nat, NEW m \in PCB
       PROVE  bh[d + 1][m] = {h + (IF t.red[m] THEN 0 ELSE 1) :
                    h \in bh[d][t.kid[m]["left"]] \cap bh[d][t.kid[m]["right"]]}
    <2>1. d + 1 \in Nat /\ d + 1 # 0 /\ (d + 1) - 1 = d /\ m \in Ptr /\ m # NULL
        BY NodesAssumption DEF Ptr
    <2>2. bh[d + 1] = [j \in Ptr |->
            IF j = NULL THEN {0} ELSE IF d + 1 = 0 THEN {} ELSE
            {h + (IF t.red[j] THEN 0 ELSE 1) :
                h \in bh[d][t.kid[j]["left"]] \cap bh[d][t.kid[j]["right"]]}]
        BY <1>10, <2>1
    <2>. QED  BY <2>1, <2>2
<1>. QED  BY <1>11, <1>12 DEF bh

(* In a balanced tree every way down has the same number of black nodes.   *)
LEMMA BlackHeightsIs ==
    ASSUME NEW t, NEW q, NEW pos, NEW e, Ordered(t, q, pos, e),
           NEW b, NEW s, Balanced(t, b, NULL, s)
    PROVE  BlackHeights(t) # {}
<1>1. PICK bh : bh = BlackHeight(t)
    OBVIOUS
<1>2. /\ \A d \in Nat : bh[d][NULL] = {0}
      /\ \A d \in Nat, m \in PCB :
            bh[d + 1][m] = {h + (IF t.red[m] THEN 0 ELSE 1) :
                    h \in bh[d][t.kid[m]["left"]] \cap bh[d][t.kid[m]["right"]]}
    <2>1. IsTree(t)
        BY DEF Ordered, Shaped
    <2>. QED  BY <1>1, <2>1, BlackHeightFacts
<1>3. IsQueue(q) /\ q \in Seq(PCB) /\ Len(q) \in Nat
    BY DEF Ordered, Places, IsQueue
<1>4. "left" \in Sides /\ "right" \in Sides /\ Shaped(t) /\ IsTree(t)
    BY DEF Sides, Ordered, Shaped
<1>. DEFINE Good(d) == \A m \in Nodes(t) : Span(e, m) < d => bh[d][m] = {b[m]}
            Bad == {d \in Nat : ~Good(d)}
<1>5. ASSUME NEW d \in Nat, Good(d)
      PROVE  Good(d + 1)
    <2>1. SUFFICES ASSUME NEW m \in Nodes(t), Span(e, m) < d + 1
          PROVE  bh[d + 1][m] = {b[m]}
        OBVIOUS
    <2>2. m \in PCB /\ m # NULL /\ Span(e, m) \in Nat
        BY NodePlaces
    <2>3. ASSUME NEW c \in Sides
          PROVE  bh[d][t.kid[m][c]] = {b[t.kid[m][c]]}
        <3>1. CASE t.kid[m][c] = NULL
            BY <1>2, <3>1 DEF Balanced
        <3>2. CASE t.kid[m][c] # NULL
            <4>1. t.kid[m][c] \in Nodes(t) /\ Span(e, t.kid[m][c]) \in Nat
                  /\ Span(e, t.kid[m][c]) < Span(e, m)
                BY <1>4, <2>2, <3>2, KidFacts, KidPlaces
            <4>2. Span(e, t.kid[m][c]) < d
                BY <2>1, <2>2, <4>1
            <4>. QED  BY <1>5, <4>1, <4>2
        <3>. QED  BY <3>1, <3>2
    <2>4. PICK k : k = b[t.kid[m]["left"]]
        OBVIOUS
    <2>5. b[m] = k + Black(t, m) /\ b[m] = b[t.kid[m]["right"]] + Black(t, m)
          /\ k \in Nat /\ b[t.kid[m]["right"]] \in Nat
        <3>1. t.kid[m]["left"] \in Ptr /\ t.kid[m]["right"] \in Ptr
            BY <1>4, <2>2, TreeFields
        <3>2. Black(t, m) \in Nat
            BY DEF Black
        <3>3. b[t.kid[m]["left"]] \in Nat /\ b[t.kid[m]["right"]] \in Nat
            BY <3>1 DEF Balanced
        <3>4. Lack(NULL, s, m, "left") = 0 /\ Lack(NULL, s, m, "right") = 0
            BY <2>2 DEF Lack
        <3>5. /\ b[m] = b[t.kid[m]["left"]] + Black(t, m) + Lack(NULL, s, m, "left")
              /\ b[m] = b[t.kid[m]["right"]] + Black(t, m) + Lack(NULL, s, m, "right")
            BY <1>4, <2>1 DEF Balanced
        <3>. QED  BY <2>4, <3>2, <3>3, <3>4, <3>5
    <2>6. b[t.kid[m]["right"]] = k
        <3>1. Black(t, m) \in Nat
            BY DEF Black
        <3>. QED  BY <2>5, <3>1
    <2>7. bh[d + 1][m] = {h + (IF t.red[m] THEN 0 ELSE 1) : h \in {k}}
        <3>1. bh[d][t.kid[m]["left"]] \cap bh[d][t.kid[m]["right"]] = {k}
            BY <1>4, <2>3, <2>4, <2>6
        <3>2. bh[d + 1][m] = {h + (IF t.red[m] THEN 0 ELSE 1) :
                    h \in bh[d][t.kid[m]["left"]] \cap bh[d][t.kid[m]["right"]]}
            BY <1>2, <2>2
        <3>. QED  BY ONLY <3>1, <3>2
    <2>. QED  BY <2>5, <2>7 DEF Black
<1>6. Good(0)
    BY NodePlaces
<1>7. Bad = {}
    <2>. HIDE DEF Good
    <2>1. SUFFICES ASSUME Bad # {} PROVE FALSE
        OBVIOUS
    <2>2. PICK k \in Bad : IsLeast(k, Bad)
        BY <2>1, LeastExists
    <2>3. k # 0
        BY <1>6, <2>2
    <2>4. k - 1 \in Nat /\ k - 1 \notin Bad /\ (k - 1) + 1 = k
        BY <2>2, <2>3 DEF IsLeast
    <2>. QED  BY <1>5, <2>2, <2>4
<1>8. Cardinality(PCB) \in Nat /\ Len(q) <= Cardinality(PCB)
    BY <1>3, QueueLength
<1>9. BlackHeights(t) = bh[Cardinality(PCB)][t.root]
    BY <1>1 DEF BlackHeights
<1>10. CASE t.root = NULL
    BY <1>2, <1>8, <1>9, <1>10
<1>11. CASE t.root # NULL
    <2>1. t.root \in Nodes(t)
        <3>1. t.root \in PCB
            BY <1>4, <1>11, TreeFields DEF Ptr
        <3>. QED  BY <3>1 DEF Nodes
    <2>2. Span(e, t.root) < Cardinality(PCB)
        BY <1>8, <2>1, NodePlaces
    <2>3. bh[Cardinality(PCB)][t.root] = {b[t.root]}
        BY <1>7, <1>8, <2>1, <2>2
    <2>. QED  BY <1>9, <2>3
<1>. QED  BY <1>10, <1>11

-----------------------------------------------------------------------------
(* Colours and rotations.                                                  *)

(* u has the links of t with n rotated down on side s and up come up,      *)
(* whatever its colours.                                                   *)
Turned(t, n, s, up, u) ==
    /\ n \in Nodes(t) /\ up \in Nodes(t) /\ n # up /\ t.kid[n][Other(s)] = up
    /\ Nodes(u) = Nodes(t)
    /\ u.root = IF n = t.root THEN up ELSE t.root
    /\ u.kid[n][s] = t.kid[n][s] /\ u.kid[n][Other(s)] = t.kid[up][s]
    /\ u.kid[up][s] = n /\ u.kid[up][Other(s)] = t.kid[up][Other(s)]
    /\ \A m \in Nodes(t) \ {n, up}, d \in Sides :
          /\ t.kid[m][d] # up
          /\ u.kid[m][d] = IF t.kid[m][d] = n THEN up ELSE t.kid[m][d]

(* A rotation behind some painting.                                        *)
LEMMA RotateTurns ==
    ASSUME NEW t, NEW q, NEW pos, NEW e, Ordered(t, q, pos, e),
           NEW n \in PCB, NEW s \in Sides, t.kid[n][Other(s)] # NULL,
           NEW v, SameLinks(t, v), NEW u, u = Rotate(v, n, s)
    PROVE  /\ Turned(t, n, s, t.kid[n][Other(s)], u)
           /\ u.red = v.red
           /\ \E e1 : Ordered(u, q, pos, e1)
<1>1. PICK o : o = Other(s)
    OBVIOUS
<1>2. PICK up : up = t.kid[n][o]
    OBVIOUS
<1>3. o \in Sides /\ o # s /\ Shaped(t) /\ Other(o) = s /\ up # NULL
    BY <1>1, <1>2 DEF Other, Sides, Ordered
<1>4. v.kid = t.kid /\ v.root = t.root /\ v.parent = t.parent
    BY DEF SameLinks
<1>5. Ordered(v, q, pos, e) /\ Nodes(v) = Nodes(t)
    BY SameLinksOrdered
<1>6. v.kid[n][Other(s)] # NULL
    BY <1>4
<1>7. Rotated(v, n, s, u)
    BY <1>5, <1>6, RotateFields
<1>8. Nodes(u) = Nodes(t) /\ \E e1 : Ordered(u, q, pos, e1)
    BY <1>5, <1>6, <1>7, RotateOrdered
<1>9. /\ u.red = v.red
      /\ u.root = IF n = t.root THEN up ELSE t.root
      /\ \A m \in PCB, d \in Sides :
            u.kid[m][d] =
                IF m = n /\ d = o THEN t.kid[up][s]
                ELSE IF m = up /\ d = s THEN n
                ELSE IF t.kid[m][d] = n THEN up ELSE t.kid[m][d]
    BY <1>1, <1>2, <1>4, <1>7 DEF Rotated
<1>10. up \in PCB /\ up \in Nodes(t) /\ n \in Nodes(t) /\ t.parent[up] = n
    BY <1>1, <1>2, <1>3, KidFacts
<1>11. up # n /\ (\A d \in Sides : t.kid[up][d] # n)
    BY <1>1, <1>2, <1>3, NoLoops
<1>12. \A d \in Sides : t.kid[n][d] # n
    BY <1>10, NoLoops, NodesAssumption
<1>13. u.kid[n][s] = t.kid[n][s] /\ u.kid[n][o] = t.kid[up][s]
       /\ u.kid[up][s] = n /\ u.kid[up][o] = t.kid[up][o]
    BY <1>3, <1>9, <1>10, <1>11, <1>12
<1>14. ASSUME NEW m \in Nodes(t) \ {n, up}, NEW d \in Sides
       PROVE  t.kid[m][d] # up /\ u.kid[m][d] = IF t.kid[m][d] = n THEN up ELSE t.kid[m][d]
    <2>1. m \in PCB /\ m # n /\ m # up
        BY DEF Nodes
    <2>2. t.kid[m][d] # up
        BY <1>3, <1>10, <2>1, KidFacts
    <2>. QED  BY <1>9, <2>1, <2>2
<1>15. Turned(t, n, s, up, u)
    BY <1>1, <1>2, <1>8, <1>9, <1>10, <1>11, <1>13, <1>14 DEF Turned
<1>. QED  BY <1>1, <1>2, <1>8, <1>9, <1>15

(* New black heights c behind a rotation: only the nodes in X have other   *)
(* colours and heights, and of those only n hangs from a node outside X.   *)
LEMMA TurnedBalanced ==
    ASSUME NEW t, IsTree(t), NEW n, NEW s \in Sides, NEW up, NEW u, Turned(t, n, s, up, u),
           NEW b, NEW p, NEW d, Balanced(t, b, p, d),
           NEW c \in [Ptr -> Nat], c[NULL] = 0, NEW p1, NEW d1,
           NEW X, n \in X, up \in X, c[up] = b[n],
           \A m \in Ptr \ X : c[m] = b[m],
           \A m \in Nodes(t) \ X, a \in Sides : t.kid[m][a] \in X => t.kid[m][a] = n,
           \A m \in Nodes(t) \ X : u.red[m] = t.red[m],
           \A m \in Nodes(t) \ X, a \in Sides : Lack(p1, d1, m, a) = Lack(p, d, m, a),
           \A m \in Nodes(t) \cap X, a \in Sides :
              c[m] = c[u.kid[m][a]] + Black(u, m) + Lack(p1, d1, m, a)
    PROVE  Balanced(u, c, p1, d1)
<1>1. SUFFICES ASSUME NEW m \in Nodes(u), NEW a \in Sides
      PROVE  c[m] = c[u.kid[m][a]] + Black(u, m) + Lack(p1, d1, m, a)
    BY DEF Balanced
<1>2. Nodes(u) = Nodes(t) /\ m \in PCB /\ m \in Ptr
    BY DEF Turned, Nodes, Ptr
<1>3. CASE m \in X
    BY <1>2, <1>3
<1>4. CASE m \notin X
    <2>1. u.kid[m][a] = IF t.kid[m][a] = n THEN up ELSE t.kid[m][a]
        BY <1>2, <1>4 DEF Turned
    <2>2. t.kid[m][a] \in Ptr
        BY <1>2, TreeFields
    <2>3. c[u.kid[m][a]] = b[t.kid[m][a]]
        BY <1>2, <1>4, <2>1, <2>2
    <2>4. Black(u, m) = Black(t, m) /\ Lack(p1, d1, m, a) = Lack(p, d, m, a) /\ c[m] = b[m]
        BY <1>2, <1>4 DEF Black
    <2>5. b[m] = b[t.kid[m][a]] + Black(t, m) + Lack(p, d, m, a)
        BY <1>2 DEF Balanced
    <2>. QED  BY <2>3, <2>4, <2>5
<1>. QED  BY <1>3, <1>4

(* The equation of a balanced node, with the numbers it is about.          *)
LEMMA BalancedNode ==
    ASSUME NEW t, IsTree(t), NEW b, NEW p, NEW d, Balanced(t, b, p, d),
           NEW n \in Nodes(t), NEW s \in Sides
    PROVE  /\ b[n] \in Nat /\ b[t.kid[n][s]] \in Nat /\ b[NULL] = 0
           /\ t.kid[n][s] \in Ptr /\ n \in Ptr /\ n # NULL
           /\ b[n] = b[t.kid[n][s]] + Black(t, n) + Lack(p, d, n, s)
<1>1. n \in PCB /\ n \in Ptr /\ n # NULL
    BY NodesAssumption DEF Nodes, Ptr
<1>2. t.kid[n][s] \in Ptr
    BY <1>1, TreeFields
<1>. QED  BY <1>1, <1>2 DEF Balanced

(* Who is who around a rotation.                                           *)
LEMMA TurnedApart ==
    ASSUME NEW t, NEW q, NEW pos, NEW e, Ordered(t, q, pos, e),
           NEW n, NEW s \in Sides, NEW up, NEW u, Turned(t, n, s, up, u)
    PROVE  /\ IsTree(t) /\ n \in PCB /\ up \in PCB /\ n # NULL /\ up # NULL /\ n # up
           /\ n \in Nodes(t) /\ up \in Nodes(t) /\ Other(s) \in Sides /\ Other(s) # s
           /\ t.kid[n][s] # n /\ t.kid[n][s] # up /\ t.kid[n][Other(s)] = up
           /\ \A d \in Sides : t.kid[up][d] # n /\ t.kid[up][d] # up
           /\ \A d \in Sides : d = s \/ d = Other(s)
<1>1. n \in Nodes(t) /\ up \in Nodes(t) /\ n # up /\ t.kid[n][Other(s)] = up
    BY DEF Turned
<1>2. n \in PCB /\ up \in PCB /\ n # NULL /\ up # NULL
    BY <1>1, NodePlaces
<1>3. Other(s) \in Sides /\ Other(s) # s /\ Other(Other(s)) = s
      /\ \A d \in Sides : d = s \/ d = Other(s)
    BY DEF Other, Sides
<1>4. t.kid[n][s] # up
    BY <1>1, <1>2, <1>3, KidFacts DEF Ordered
<1>5. t.kid[n][s] # n
    BY <1>2, NoLoops
<1>6. \A d \in Sides : t.kid[up][d] # n /\ t.kid[up][d] # up
    BY <1>1, <1>2, <1>3, NoLoops
<1>. QED  BY <1>1, <1>2, <1>3, <1>4, <1>5, <1>6 DEF Ordered, Shaped

(* up is red and n black, and in u it is the other way round.              *)
RedOnBlack(t, n, up) == t.red[n] = FALSE /\ t.red[up] = TRUE
TradeColours(t, n, up, u) ==
    /\ RedOnBlack(t, n, up) /\ RedOnBlack(u, up, n)
    /\ \A m \in Nodes(t) : m # n /\ m # up => u.red[m] = t.red[m]

(* A red child that comes up over its black parent and changes colours     *)
(* with it leaves the black heights as they are, but for their two.        *)
LEMMA SwapBalanced ==
    ASSUME NEW t, NEW q, NEW pos, NEW e, Ordered(t, q, pos, e),
           NEW n, NEW s \in Sides, NEW up, NEW u, Turned(t, n, s, up, u),
           NEW b, NEW p, NEW d, Balanced(t, b, p, d), p # up, p = n => d = s,
           TradeColours(t, n, up, u)
    PROVE  Balanced(u, [b EXCEPT ![n] = b[up], ![up] = b[n]], p, d)
<1>1. PICK c : c = [b EXCEPT ![n] = b[up], ![up] = b[n]]
    OBVIOUS
<1>2. PICK o : o = Other(s)
    OBVIOUS
<1>3. /\ IsTree(t) /\ n \in PCB /\ up \in PCB /\ n # NULL /\ up # NULL /\ n # up
      /\ n \in Nodes(t) /\ up \in Nodes(t) /\ o \in Sides /\ o # s
      /\ t.kid[n][s] # n /\ t.kid[n][s] # up /\ t.kid[n][o] = up
      /\ t.kid[up][s] # n /\ t.kid[up][s] # up /\ t.kid[up][o] # n /\ t.kid[up][o] # up
      /\ \A a \in Sides : a = s \/ a = o
    <2>1. /\ IsTree(t) /\ n \in PCB /\ up \in PCB /\ n # NULL /\ up # NULL /\ n # up
          /\ n \in Nodes(t) /\ up \in Nodes(t) /\ Other(s) \in Sides /\ Other(s) # s
          /\ t.kid[n][s] # n /\ t.kid[n][s] # up /\ t.kid[n][Other(s)] = up
          /\ \A a \in Sides : t.kid[up][a] # n /\ t.kid[up][a] # up
          /\ \A a \in Sides : a = s \/ a = Other(s)
        BY TurnedApart
    <2>. QED  BY <1>2, <2>1
<1>4. n \in Ptr /\ up \in Ptr /\ b \in [Ptr -> Nat] /\ b[NULL] = 0
    BY <1>3 DEF Ptr, Balanced
<1>5. c \in [Ptr -> Nat] /\ c[NULL] = 0 /\ c[n] = b[up] /\ c[up] = b[n]
      /\ \A m \in Ptr : m # n /\ m # up => c[m] = b[m]
    <2>1. b[up] \in Nat /\ b[n] \in Nat
        BY <1>4
    <2>2. c = [m \in Ptr |-> IF m = up THEN b[n] ELSE IF m = n THEN b[up] ELSE b[m]]
        BY ONLY <1>1, <1>3, <1>4
    <2>3. NULL \in Ptr
        BY DEF Ptr
    <2>. QED  BY ONLY <1>3, <1>4, <2>1, <2>2, <2>3
<1>6. /\ b[n] \in Nat /\ b[t.kid[n][s]] \in Nat
      /\ b[n] = b[t.kid[n][s]] + Black(t, n) + Lack(p, d, n, s) /\ t.kid[n][s] \in Ptr
    BY <1>3, BalancedNode
<1>7. /\ b[up] \in Nat /\ b[n] = b[up] + Black(t, n) + Lack(p, d, n, o)
    BY <1>3, BalancedNode
<1>8. /\ b[t.kid[up][s]] \in Nat /\ t.kid[up][s] \in Ptr
      /\ b[up] = b[t.kid[up][s]] + Black(t, up) + Lack(p, d, up, s)
    BY <1>3, BalancedNode
<1>9. /\ b[t.kid[up][o]] \in Nat /\ t.kid[up][o] \in Ptr
      /\ b[up] = b[t.kid[up][o]] + Black(t, up) + Lack(p, d, up, o)
    BY <1>3, BalancedNode
<1>10. Black(t, n) = 1 /\ Black(t, up) = 0 /\ Black(u, n) = 0 /\ Black(u, up) = 1
    BY DEF Black, TradeColours, RedOnBlack
<1>11. Lack(p, d, n, o) = 0 /\ Lack(p, d, up, s) = 0 /\ Lack(p, d, up, o) = 0
       /\ Lack(p, d, n, s) \in Nat
    BY <1>3 DEF Lack
<1>12. /\ u.kid[n][s] = t.kid[n][s] /\ u.kid[n][o] = t.kid[up][s]
       /\ u.kid[up][s] = n /\ u.kid[up][o] = t.kid[up][o]
    BY <1>2 DEF Turned
<1>13. /\ c[u.kid[n][s]] = b[t.kid[n][s]] /\ c[u.kid[n][o]] = b[t.kid[up][s]]
       /\ c[u.kid[up][s]] = b[up] /\ c[u.kid[up][o]] = b[t.kid[up][o]]
    BY <1>3, <1>5, <1>6, <1>8, <1>9, <1>12
<1>14. /\ c[n] = c[u.kid[n][s]] + Black(u, n) + Lack(p, d, n, s)
       /\ c[n] = c[u.kid[n][o]] + Black(u, n) + Lack(p, d, n, o)
       /\ c[up] = c[u.kid[up][s]] + Black(u, up) + Lack(p, d, up, s)
       /\ c[up] = c[u.kid[up][o]] + Black(u, up) + Lack(p, d, up, o)
    BY ONLY <1>5, <1>6, <1>7, <1>8, <1>9, <1>10, <1>11, <1>13
<1>15. \A m \in Nodes(t) \cap {n, up}, a \in Sides :
            c[m] = c[u.kid[m][a]] + Black(u, m) + Lack(p, d, m, a)
    BY <1>3, <1>14
<1>16. \A m \in Nodes(t) \ {n, up}, a \in Sides :
            t.kid[m][a] \in {n, up} => t.kid[m][a] = n
    BY DEF Turned
<1>17. Balanced(u, c, p, d)
    <2>1. PICK X : X = {n, up}
        OBVIOUS
    <2>2. /\ n \in X /\ up \in X /\ c[up] = b[n] /\ \A m \in Ptr \ X : c[m] = b[m]
          /\ \A m \in Nodes(t) \ X : u.red[m] = t.red[m]
          /\ \A m \in Nodes(t) \ X, a \in Sides : Lack(p, d, m, a) = Lack(p, d, m, a)
        BY <1>5, <2>1 DEF TradeColours
    <2>3. /\ \A m \in Nodes(t) \ X, a \in Sides : t.kid[m][a] \in X => t.kid[m][a] = n
          /\ \A m \in Nodes(t) \cap X, a \in Sides :
                c[m] = c[u.kid[m][a]] + Black(u, m) + Lack(p, d, m, a)
        BY <1>15, <1>16, <2>1
    <2>4. Turned(t, n, s, up, u) /\ Balanced(t, b, p, d) /\ s \in Sides /\ IsTree(t)
        BY <1>3
    <2>. QED  BY ONLY <1>5, <2>2, <2>3, <2>4, TurnedBalanced
<1>. QED  BY <1>1, <1>17

(* A red child that comes up over its red parent changes nothing.          *)
LEMMA RedBalanced ==
    ASSUME NEW t, NEW q, NEW pos, NEW e, Ordered(t, q, pos, e),
           NEW n, NEW s \in Sides, NEW up, NEW u, Turned(t, n, s, up, u),
           NEW b, NEW d, Balanced(t, b, NULL, d),
           t.red[n] = TRUE, t.red[up] = TRUE, u.red = t.red
    PROVE  Balanced(u, b, NULL, d)
<1>1. PICK o : o = Other(s)
    OBVIOUS
<1>2. /\ IsTree(t) /\ n \in PCB /\ up \in PCB /\ n # NULL /\ up # NULL /\ n # up
      /\ n \in Nodes(t) /\ up \in Nodes(t) /\ o \in Sides /\ o # s
      /\ t.kid[n][o] = up /\ \A a \in Sides : a = s \/ a = o
    BY <1>1, TurnedApart
<1>3. b \in [Ptr -> Nat] /\ b[NULL] = 0
    BY DEF Balanced
<1>4. /\ b[n] \in Nat /\ b[t.kid[n][s]] \in Nat
      /\ b[n] = b[t.kid[n][s]] + Black(t, n) + Lack(NULL, d, n, s)
    BY <1>2, BalancedNode
<1>5. /\ b[up] \in Nat /\ b[n] = b[up] + Black(t, n) + Lack(NULL, d, n, o)
    BY <1>2, BalancedNode
<1>6. /\ b[t.kid[up][s]] \in Nat
      /\ b[up] = b[t.kid[up][s]] + Black(t, up) + Lack(NULL, d, up, s)
    BY <1>2, BalancedNode
<1>7. /\ b[t.kid[up][o]] \in Nat
      /\ b[up] = b[t.kid[up][o]] + Black(t, up) + Lack(NULL, d, up, o)
    BY <1>2, BalancedNode
<1>8. Black(t, n) = 0 /\ Black(t, up) = 0 /\ Black(u, n) = 0 /\ Black(u, up) = 0
    BY DEF Black
<1>9. Lack(NULL, d, n, o) = 0 /\ Lack(NULL, d, up, s) = 0 /\ Lack(NULL, d, up, o) = 0
       /\ Lack(NULL, d, n, s) = 0
    BY <1>2 DEF Lack
<1>10. /\ u.kid[n][s] = t.kid[n][s] /\ u.kid[n][o] = t.kid[up][s]
       /\ u.kid[up][s] = n /\ u.kid[up][o] = t.kid[up][o]
    BY <1>1 DEF Turned
<1>11. /\ b[n] = b[u.kid[n][s]] + Black(u, n) + Lack(NULL, d, n, s)
       /\ b[n] = b[u.kid[n][o]] + Black(u, n) + Lack(NULL, d, n, o)
       /\ b[up] = b[u.kid[up][s]] + Black(u, up) + Lack(NULL, d, up, s)
       /\ b[up] = b[u.kid[up][o]] + Black(u, up) + Lack(NULL, d, up, o)
       /\ b[up] = b[n]
    BY ONLY <1>4, <1>5, <1>6, <1>7, <1>8, <1>9, <1>10
<1>12. \A m \in Nodes(t) \cap {n, up}, a \in Sides :
            b[m] = b[u.kid[m][a]] + Black(u, m) + Lack(NULL, d, m, a)
    BY <1>2, <1>11
<1>13. \A m \in Nodes(t) \ {n, up}, a \in Sides :
            t.kid[m][a] \in {n, up} => t.kid[m][a] = n
    BY DEF Turned
<1>. QED
    <2>1. PICK X : X = {n, up}
        OBVIOUS
    <2>2. /\ n \in X /\ up \in X /\ b[up] = b[n] /\ \A m \in Ptr \ X : b[m] = b[m]
          /\ \A m \in Nodes(t) \ X : u.red[m] = t.red[m]
          /\ \A m \in Nodes(t) \ X, a \in Sides : Lack(NULL, d, m, a) = Lack(NULL, d, m, a)
        BY <1>11, <2>1
    <2>3. /\ \A m \in Nodes(t) \ X, a \in Sides : t.kid[m][a] \in X => t.kid[m][a] = n
          /\ \A m \in Nodes(t) \cap X, a \in Sides :
                b[m] = b[u.kid[m][a]] + Black(u, m) + Lack(NULL, d, m, a)
        BY <1>12, <1>13, <2>1
    <2>4. Turned(t, n, s, up, u) /\ Balanced(t, b, NULL, d) /\ s \in Sides /\ IsTree(t)
        BY <1>2
    <2>. QED  BY ONLY <1>3, <2>2, <2>3, <2>4, TurnedBalanced

(* The colours before and after the last rotation of rb_erase.             *)
FinalColours(t, n, up, far, u) ==
    /\ t.red[up] = FALSE /\ t.red[far] = TRUE
    /\ u.red[up] = t.red[n] /\ u.red[n] = FALSE /\ u.red[far] = FALSE
    /\ \A m \in Nodes(t) : m # n /\ m # up /\ m # far => u.red[m] = t.red[m]

(* The last rotation of rb_erase: the sibling takes its parent's colour,   *)
(* the parent and the far nephew get black, and nothing is lacking.        *)
LEMMA FinalBalanced ==
    ASSUME NEW t, NEW q, NEW pos, NEW e, Ordered(t, q, pos, e),
           NEW n, NEW s \in Sides, NEW up, NEW u, Turned(t, n, s, up, u),
           NEW b, Balanced(t, b, n, s), NEW far, far = t.kid[up][Other(s)], far # NULL,
           FinalColours(t, n, up, far, u)
    PROVE  \E c : Balanced(u, c, NULL, s)
<1>1. /\ t.red[up] = FALSE /\ t.red[far] = TRUE
      /\ u.red[up] = t.red[n] /\ u.red[n] = FALSE /\ u.red[far] = FALSE
      /\ \A m \in Nodes(t) : m # n /\ m # up /\ m # far => u.red[m] = t.red[m]
    BY DEF FinalColours
<1>2. PICK o : o = Other(s)
    OBVIOUS
<1>3. PICK kn : kn = t.kid[n][s]
    OBVIOUS
<1>4. PICK ku : ku = t.kid[up][s]
    OBVIOUS
<1>5. /\ IsTree(t) /\ n \in PCB /\ up \in PCB /\ n # NULL /\ up # NULL /\ n # up
      /\ n \in Nodes(t) /\ up \in Nodes(t) /\ o \in Sides /\ o # s
      /\ kn # n /\ kn # up /\ t.kid[n][o] = up
      /\ ku # n /\ ku # up /\ far # n /\ far # up
      /\ \A a \in Sides : a = s \/ a = o
    <2>1. /\ IsTree(t) /\ n \in PCB /\ up \in PCB /\ n # NULL /\ up # NULL /\ n # up
          /\ n \in Nodes(t) /\ up \in Nodes(t) /\ Other(s) \in Sides /\ Other(s) # s
          /\ t.kid[n][s] # n /\ t.kid[n][s] # up /\ t.kid[n][Other(s)] = up
          /\ \A a \in Sides : t.kid[up][a] # n /\ t.kid[up][a] # up
          /\ \A a \in Sides : a = s \/ a = Other(s)
        BY TurnedApart
    <2>. QED  BY <1>2, <1>3, <1>4, <2>1
<1>6. Shaped(t)
    BY DEF Ordered
<1>7. far \in PCB /\ far \in Nodes(t) /\ t.parent[far] = up /\ far # ku
    <2>1. Other(o) = s /\ far = t.kid[up][o]
        BY <1>2 DEF Other, Sides
    <2>. QED  BY <1>4, <1>5, <1>6, <2>1, KidFacts
<1>8. kn # far
    <2>1. kn # NULL => t.parent[kn] = n
        BY <1>3, <1>5, <1>6, KidFacts
    <2>. QED  BY <1>5, <1>7, <2>1
<1>9. ASSUME NEW a \in Sides
      PROVE  t.kid[far][a] # n /\ t.kid[far][a] # up /\ t.kid[far][a] # far
    <2>1. t.kid[far][a] # up /\ t.kid[far][a] # far
        BY <1>2, <1>5, <1>7, NoLoops
    <2>2. ASSUME t.kid[far][a] = n
          PROVE  FALSE
        <3>1. Span(e, n) \in Nat /\ Span(e, far) \in Nat /\ Span(e, n) < Span(e, far)
            BY <1>5, <1>7, <2>2, KidPlaces
        <3>2. Span(e, up) \in Nat /\ Span(e, far) < Span(e, up)
            BY <1>2, <1>5, <1>7, KidPlaces
        <3>3. Span(e, up) < Span(e, n)
            BY <1>2, <1>5, KidPlaces
        <3>. QED  BY <3>1, <3>2, <3>3
    <2>. QED  BY <2>1, <2>2
<1>10. PICK c : c = [m \in Ptr |-> IF m = up THEN b[n] ELSE IF m = n \/ m = far THEN b[up]
                                  ELSE b[m]]
    OBVIOUS
<1>11. b \in [Ptr -> Nat] /\ b[NULL] = 0 /\ n \in Ptr /\ up \in Ptr /\ far \in Ptr
       /\ NULL \in Ptr /\ kn \in Ptr /\ ku \in Ptr
       /\ \A a \in Sides : t.kid[far][a] \in Ptr
    <2>1. kn \in Ptr /\ ku \in Ptr /\ \A a \in Sides : t.kid[far][a] \in Ptr
        BY <1>3, <1>4, <1>5, <1>7, TreeFields
    <2>. QED  BY <1>5, <1>7, <2>1 DEF Balanced, Ptr
<1>12. c \in [Ptr -> Nat] /\ c[NULL] = 0 /\ c[n] = b[up] /\ c[up] = b[n] /\ c[far] = b[up]
       /\ \A m \in Ptr : m # n /\ m # up /\ m # far => c[m] = b[m]
    BY ONLY <1>5, <1>7, <1>10, <1>11, far # NULL
<1>13. b[n] \in Nat /\ b[kn] \in Nat /\ b[n] = b[kn] + Black(t, n) + Lack(n, s, n, s)
    BY <1>3, <1>5, BalancedNode
<1>14. b[up] \in Nat /\ b[n] = b[up] + Black(t, n) + Lack(n, s, n, o)
    BY <1>5, BalancedNode
<1>15. b[ku] \in Nat /\ b[up] = b[ku] + Black(t, up) + Lack(n, s, up, s)
    BY <1>4, <1>5, BalancedNode
<1>16. b[far] \in Nat /\ b[up] = b[far] + Black(t, up) + Lack(n, s, up, o)
    BY <1>2, <1>5, BalancedNode
<1>17. \A a \in Sides : b[t.kid[far][a]] \in Nat
            /\ b[far] = b[t.kid[far][a]] + Black(t, far) + Lack(n, s, far, a)
    BY <1>5, <1>7, BalancedNode
<1>18. Black(t, up) = 1 /\ Black(t, far) = 0 /\ Black(u, n) = 1 /\ Black(u, far) = 1
       /\ Black(u, up) = Black(t, n) /\ Black(t, n) \in Nat
    BY <1>1 DEF Black
<1>19. /\ Lack(n, s, n, s) = 1 /\ Lack(n, s, n, o) = 0 /\ Lack(n, s, up, s) = 0
       /\ Lack(n, s, up, o) = 0 /\ \A a \in Sides : Lack(n, s, far, a) = 0
       /\ \A m, a : m # NULL => Lack(NULL, s, m, a) = 0
    BY <1>5 DEF Lack
<1>20. u.kid[n][s] = kn /\ u.kid[n][o] = ku /\ u.kid[up][s] = n /\ u.kid[up][o] = far
    BY <1>2, <1>3, <1>4 DEF Turned
<1>21. ASSUME NEW a \in Sides
       PROVE  u.kid[far][a] = t.kid[far][a]
    <2>1. u.kid[far][a] = IF t.kid[far][a] = n THEN up ELSE t.kid[far][a]
        BY <1>5, <1>7 DEF Turned
    <2>. QED  BY <1>9, <2>1
<1>22. /\ c[kn] = b[kn] /\ c[ku] = b[ku]
       /\ \A a \in Sides : c[t.kid[far][a]] = b[t.kid[far][a]]
    BY <1>5, <1>7, <1>8, <1>9, <1>11, <1>12
<1>23. /\ c[n] = c[kn] + Black(u, n) /\ c[n] = c[ku] + Black(u, n)
       /\ c[up] = c[n] + Black(u, up) /\ c[up] = c[far] + Black(u, up)
    BY ONLY <1>12, <1>13, <1>14, <1>15, <1>16, <1>18, <1>19, <1>22
<1>24. ASSUME NEW a \in Sides
       PROVE  c[far] = c[t.kid[far][a]] + Black(u, far)
    <2>1. b[t.kid[far][a]] \in Nat
          /\ b[far] = b[t.kid[far][a]] + Black(t, far) + Lack(n, s, far, a)
        BY <1>17
    <2>2. c[t.kid[far][a]] = b[t.kid[far][a]] /\ Lack(n, s, far, a) = 0
        BY <1>19, <1>22
    <2>. QED  BY ONLY <1>12, <1>16, <1>18, <1>19, <2>1, <2>2
<1>25. PICK X : X = {n, up, far}
    OBVIOUS
<1>26. ASSUME NEW m \in Nodes(t) \cap X, NEW a \in Sides
       PROVE  c[m] = c[u.kid[m][a]] + Black(u, m) + Lack(NULL, s, m, a)
    <2>1. Lack(NULL, s, m, a) = 0 /\ Black(u, m) \in Nat
        BY <1>5, <1>19, <1>25 DEF Black
    <2>2. c[u.kid[m][a]] \in Nat
        <3>1. u.kid[m][a] \in Ptr
            BY <1>5, <1>11, <1>20, <1>21, <1>25
        <3>. QED  BY <1>12, <3>1
    <2>3. c[m] = c[u.kid[m][a]] + Black(u, m)
        BY <1>5, <1>20, <1>21, <1>23, <1>24, <1>25
    <2>. QED  BY <2>1, <2>2, <2>3
<1>27. ASSUME NEW m \in Nodes(t) \ X, NEW a \in Sides, t.kid[m][a] \in X
       PROVE  t.kid[m][a] = n
    <2>1. t.kid[m][a] # up /\ m \in PCB /\ m # up
        BY <1>25 DEF Turned, Nodes
    <2>2. t.kid[m][a] # far
        BY <1>6, <1>7, <2>1, KidFacts
    <2>. QED  BY <1>25, <1>27, <2>1, <2>2
<1>28. /\ n \in X /\ up \in X /\ c[up] = b[n] /\ \A m \in Ptr \ X : c[m] = b[m]
       /\ \A m \in Nodes(t) \ X : u.red[m] = t.red[m]
    BY <1>1, <1>12, <1>25
<1>29. \A m \in Nodes(t) \ X, a \in Sides : Lack(NULL, s, m, a) = Lack(n, s, m, a)
    <2>1. \A m \in Nodes(t) \ X : m # n /\ m # NULL
        BY <1>25, NodesAssumption DEF Nodes
    <2>. QED  BY <2>1 DEF Lack
<1>30. Turned(t, n, s, up, u) /\ Balanced(t, b, n, s) /\ s \in Sides
    OBVIOUS
<1>31. Balanced(u, c, NULL, s)
    BY ONLY <1>5, <1>12, <1>26, <1>27, <1>28, <1>29, <1>30, TurnedBalanced
<1>. QED  BY <1>31

-----------------------------------------------------------------------------
(* The loop of rb_insert_color.                                            *)

(* No way down lacks a black node.                                         *)
Even(t) == \E b : Balanced(t, b, NULL, "left")

(* A red node has a red child only where one of them is x.                 *)
Clean(t, x) ==
    \A n \in Nodes(t), s \in Sides :
        t.red[n] /\ IsRed(t, t.kid[n][s]) => n = x \/ t.kid[n][s] = x

(* A red-black tree.                                                       *)
Coloured(t) == Clean(t, NULL) /\ ~IsRed(t, t.root) /\ Even(t)

(* ... but for the red node the loop is at.                                *)
InsertState(t, node) ==
    /\ node \in Nodes(t) /\ t.red[node] = TRUE
    /\ \A s \in Sides : ~IsRed(t, t.kid[node][s])
    /\ Clean(t, node)
    /\ IsRed(t, t.root) => t.root = node
    /\ Even(t)

(* ... where that node y and its parent x hang from g on the same side.    *)
Outer(t, g, s, x, y) ==
    /\ g \in Nodes(t) /\ t.red[g] = FALSE /\ t.kid[g][s] = x /\ x # NULL
    /\ t.kid[x][s] = y /\ y # NULL /\ t.red[x] = TRUE /\ t.red[y] = TRUE
    /\ ~IsRed(t, t.kid[g][Other(s)]) /\ ~IsRed(t, t.kid[x][Other(s)])
    /\ \A d \in Sides : ~IsRed(t, t.kid[y][d])
    /\ \A n \in Nodes(t), d \in Sides : t.red[n] /\ IsRed(t, t.kid[n][d]) => n = x
    /\ ~IsRed(t, t.root)

(* u is t with the nodes of N painted black, and those of R red.           *)
Recoloured(t, N, R, u) ==
    /\ SameLinks(t, u)
    /\ \A m \in PCB : m \in R => u.red[m] = TRUE
    /\ \A m \in PCB : m \in N \ R => u.red[m] = FALSE
    /\ \A m \in PCB : m \notin N \cup R => u.red[m] = t.red[m]

(* Painting black.                                                         *)
LEMMA PaintedBlack ==
    ASSUME NEW t, IsTree(t), NEW N, NEW R, R = {}, NEW c, c = FALSE
    PROVE  Recoloured(t, N, R, Painted(t, N, c))
<1>1. PICK u : u = Painted(t, N, c)
    OBVIOUS
<1>2. c \in BOOLEAN
    OBVIOUS
<1>3. /\ IsTree(u) /\ u.root = t.root /\ u.kid = t.kid /\ u.parent = t.parent
      /\ \A m \in PCB : u.red[m] = IF m \in N THEN c ELSE t.red[m]
    BY ONLY <1>1, <1>2, IsTree(t), PaintedFields
<1>4. Recoloured(t, N, R, u)
    BY <1>3 DEF SameLinks, Recoloured
<1>. QED  BY <1>1, <1>4

(* Painting red.                                                           *)
LEMMA PaintedRed ==
    ASSUME NEW t, IsTree(t), NEW N, N = {}, NEW R, NEW c, c = TRUE
    PROVE  Recoloured(t, N, R, Painted(t, R, c))
<1>1. PICK u : u = Painted(t, R, c)
    OBVIOUS
<1>2. c \in BOOLEAN
    OBVIOUS
<1>3. /\ IsTree(u) /\ u.root = t.root /\ u.kid = t.kid /\ u.parent = t.parent
      /\ \A m \in PCB : u.red[m] = IF m \in R THEN c ELSE t.red[m]
    BY ONLY <1>1, <1>2, IsTree(t), PaintedFields
<1>4. Recoloured(t, N, R, u)
    BY <1>3 DEF SameLinks, Recoloured
<1>. QED  BY <1>1, <1>4

(* Painting both.                                                          *)
LEMMA PaintedBoth ==
    ASSUME NEW t, IsTree(t), NEW N, NEW R, NEW c, c = FALSE, NEW d, d = TRUE
    PROVE  Recoloured(t, N, R, Painted(Painted(t, N, c), R, d))
<1>1. PICK v : v = Painted(t, N, c)
    OBVIOUS
<1>2. PICK u : u = Painted(v, R, d)
    BY Zenon
<1>3. PICK E : E = {}
    OBVIOUS
<1>4. Recoloured(t, N, E, v)
    BY ONLY <1>1, <1>3, IsTree(t), c = FALSE, PaintedBlack
<1>5. IsTree(v)
    BY <1>4 DEF Recoloured, SameLinks
<1>6. Recoloured(v, E, R, u)
    BY ONLY <1>2, <1>3, <1>5, d = TRUE, PaintedRed
<1>7. Recoloured(t, N, R, u)
    BY <1>3, <1>4, <1>6 DEF Recoloured, SameLinks
<1>. QED  BY <1>1, <1>2, <1>7

(* Where nothing is lacking, the place where it might be does not matter.  *)
LEMMA EvenIs ==
    ASSUME NEW t, NEW b, NEW d, Balanced(t, b, NULL, d)
    PROVE  Even(t)
<1>1. \A n \in Nodes(t), s \in Sides : Lack(NULL, d, n, s) = 0 /\ Lack(NULL, "left", n, s) = 0
    BY NodesAssumption DEF Lack, Nodes
<1>2. Balanced(t, b, NULL, "left")
    BY <1>1 DEF Balanced
<1>. QED  BY <1>2 DEF Even

(* The last rotation of the loop leaves a tree without red neighbours.     *)
LEMMA OuterRotates ==
    ASSUME NEW t, NEW q, NEW pos, NEW e, Ordered(t, q, pos, e), Even(t),
           NEW g, NEW s \in Sides, NEW x, NEW y, Outer(t, g, s, x, y),
           NEW u, u = Rotate(Painted(Painted(t, {x}, FALSE), {g}, TRUE), g, Other(s))
    PROVE  /\ \E e1 : Ordered(u, q, pos, e1)
           /\ InsertState(u, y) /\ ~RedParent(u, y)
<1>1. PICK o : o = Other(s)
    OBVIOUS
<1>2. PICK v : v = Painted(Painted(t, {x}, FALSE), {g}, TRUE)
    OBVIOUS
<1>3. o \in Sides /\ o # s /\ Other(o) = s /\ Shaped(t) /\ IsTree(t)
      /\ \A d \in Sides : d = s \/ d = o
    BY <1>1 DEF Other, Sides, Ordered, Shaped
<1>4. g \in PCB /\ g # NULL /\ g \in Nodes(t)
    BY NodePlaces DEF Outer
<1>5. t.kid[g][s] = x /\ x # NULL /\ t.kid[x][s] = y /\ y # NULL
    BY DEF Outer
<1>6. x \in PCB /\ x \in Nodes(t) /\ x # g
    BY <1>3, <1>4, <1>5, KidFacts, NoLoops
<1>7. y \in PCB /\ y \in Nodes(t) /\ y # x /\ y # g
    BY <1>3, <1>4, <1>5, <1>6, KidFacts, NoLoops
<1>8. /\ SameLinks(t, v) /\ v.red[g] = TRUE /\ v.red[x] = FALSE
      /\ \A m \in PCB : m # g /\ m # x => v.red[m] = t.red[m]
    <2>1. Recoloured(t, {x}, {g}, v)
        BY ONLY <1>2, <1>3, PaintedBoth
    <2>. QED  BY <1>4, <1>6, <2>1 DEF Recoloured
<1>9. u = Rotate(v, g, o) /\ t.kid[g][Other(o)] = x
    BY <1>1, <1>2, <1>3, <1>5
<1>10. Turned(t, g, o, x, u) /\ u.red = v.red /\ \E e1 : Ordered(u, q, pos, e1)
    <2>1. Ordered(t, q, pos, e) /\ o \in Sides /\ g \in PCB /\ t.kid[g][Other(o)] # NULL
          /\ SameLinks(t, v) /\ u = Rotate(v, g, o)
        BY <1>3, <1>4, <1>5, <1>8, <1>9
    <2>2. Turned(t, g, o, t.kid[g][Other(o)], u) /\ u.red = v.red
          /\ \E e1 : Ordered(u, q, pos, e1)
        BY ONLY <2>1, RotateTurns
    <2>. QED  BY <1>9, <2>2
<1>11. /\ t.red[g] = FALSE /\ t.red[x] = TRUE /\ t.red[y] = TRUE
       /\ u.red[g] = TRUE /\ u.red[x] = FALSE
       /\ \A m \in PCB : m # g /\ m # x => u.red[m] = t.red[m]
    BY <1>8, <1>10 DEF Outer
<1>12. Even(u)
    <2>1. PICK b : Balanced(t, b, NULL, "left")
        BY DEF Even
    <2>2. TradeColours(t, g, x, u)
        BY <1>11 DEF Nodes, TradeColours, RedOnBlack
    <2>3. Balanced(u, [b EXCEPT ![g] = b[x], ![x] = b[g]], NULL, "left")
        <3>1. Ordered(t, q, pos, e) /\ NULL # x /\ (NULL = g => "left" = o) /\ o \in Sides
            BY <1>3, <1>4, <1>5
        <3>. QED  BY ONLY <1>10, <2>1, <2>2, <3>1, SwapBalanced
    <2>. QED  BY <2>3, EvenIs
<1>13. /\ Nodes(u) = Nodes(t) /\ u.root = IF g = t.root THEN x ELSE t.root
       /\ u.kid[g][o] = t.kid[g][o] /\ u.kid[g][s] = t.kid[x][o]
       /\ u.kid[x][o] = g /\ u.kid[x][s] = y
       /\ \A m \in Nodes(t) \ {g, x}, d \in Sides :
             u.kid[m][d] = IF t.kid[m][d] = g THEN x ELSE t.kid[m][d]
    BY <1>3, <1>5, <1>10 DEF Turned
<1>14. ASSUME NEW m, IsRed(u, m), m = NULL \/ m \in PCB
       PROVE  m # x /\ (m # g => IsRed(t, m))
    BY <1>11, <1>14 DEF IsRed
<1>15. \A m \in PCB, d \in Sides : t.kid[m][d] \in Ptr
    BY <1>3, TreeFields
<1>16. ASSUME NEW d \in Sides
       PROVE  ~IsRed(u, u.kid[y][d])
    <2>1. u.kid[y][d] = IF t.kid[y][d] = g THEN x ELSE t.kid[y][d]
        BY <1>7, <1>13
    <2>2. ~IsRed(t, t.kid[y][d])
        BY DEF Outer
    <2>. QED  BY <1>6, <1>7, <1>14, <1>15, <2>1, <2>2 DEF Ptr
<1>17. ASSUME NEW m \in Nodes(t), NEW d \in Sides, u.red[m], IsRed(u, u.kid[m][d])
       PROVE  FALSE
    <2>1. m \in PCB /\ m # x
        BY <1>11, <1>17 DEF Nodes
    <2>2. CASE m = g
        <3>1. ~IsRed(t, t.kid[g][o]) /\ ~IsRed(t, t.kid[x][o])
            BY <1>1 DEF Outer
        <3>2. t.kid[g][o] # g /\ t.kid[x][o] # g
            BY <1>3, <1>4, <1>5, <1>6, NoLoops
        <3>3. /\ t.kid[g][o] = NULL \/ t.kid[g][o] \in PCB
              /\ t.kid[x][o] = NULL \/ t.kid[x][o] \in PCB
            BY <1>3, <1>4, <1>6, <1>15 DEF Ptr
        <3>4. ~IsRed(u, t.kid[g][o]) /\ ~IsRed(u, t.kid[x][o])
            BY <1>14, <3>1, <3>2, <3>3
        <3>5. u.kid[g][d] = t.kid[g][o] \/ u.kid[g][d] = t.kid[x][o]
            BY <1>3, <1>13
        <3>. QED  BY <1>17, <2>2, <3>4, <3>5
    <2>3. CASE m # g
        <3>1. u.kid[m][d] = IF t.kid[m][d] = g THEN x ELSE t.kid[m][d]
            BY <1>13, <1>17, <2>1, <2>3
        <3>2. t.kid[m][d] # g /\ IsRed(t, t.kid[m][d])
            BY <1>6, <1>14, <1>15, <1>17, <2>1, <3>1 DEF Ptr
        <3>3. t.red[m]
            BY <1>11, <1>17, <2>1, <2>3
        <3>. QED  BY <1>17, <2>1, <3>2, <3>3 DEF Outer
    <2>. QED  BY <2>2, <2>3
<1>18. Clean(u, y)
    BY <1>13, <1>17 DEF Clean
<1>19. ~IsRed(u, u.root)
    <2>1. ~IsRed(t, t.root) /\ t.root \in Ptr
        BY <1>3, TreeFields DEF Outer
    <2>. QED  BY <1>6, <1>13, <1>14, <2>1 DEF Ptr
<1>20. InsertState(u, y)
    BY <1>7, <1>11, <1>12, <1>13, <1>16, <1>18, <1>19 DEF InsertState
<1>21. u.parent[y] = x
    <2>1. Shaped(u)
        BY <1>10 DEF Ordered
    <2>2. \A m \in PCB, d \in Sides : u.kid[m][d] # NULL => u.parent[u.kid[m][d]] = m
        BY <2>1 DEF Shaped
    <2>. QED  BY <1>5, <1>6, <1>13, <2>2
<1>22. ~RedParent(u, y)
    BY <1>11, <1>21 DEF RedParent, IsRed
<1>. QED  BY <1>10, <1>20, <1>22

(* Who is who in a pass of rb_insert_color.                                *)
InsertKin(t, node, p, g, s) ==
    /\ p = t.parent[node] /\ g = t.parent[p] /\ s = SideBelow(t, g, p)

(* The red parent p is not the root, so there is a black grandparent g.    *)
InsertFamily(t, node, p, g, s) ==
    /\ node \in Nodes(t) /\ p \in Nodes(t) /\ g \in Nodes(t)
    /\ node \in PCB /\ p \in PCB /\ g \in PCB
    /\ node # NULL /\ p # NULL /\ g # NULL
    /\ node # p /\ node # g /\ p # g /\ node # t.root /\ p # t.root
    /\ s \in Sides /\ Other(s) \in Sides /\ Other(s) # s /\ Other(Other(s)) = s
    /\ t.kid[g][s] = p
    /\ t.kid[p][s] = node \/ t.kid[p][Other(s)] = node
    /\ t.red[node] = TRUE /\ t.red[p] = TRUE /\ t.red[g] = FALSE
    /\ ~IsRed(t, t.root)

(* That is so in every pass.                                               *)
LEMMA InsertKinFacts ==
    ASSUME NEW t, NEW q, NEW pos, NEW e, Ordered(t, q, pos, e), NEW node,
           InsertState(t, node), RedParent(t, node),
           NEW p, NEW g, NEW s, InsertKin(t, node, p, g, s)
    PROVE  InsertFamily(t, node, p, g, s)
<1>1. p = t.parent[node] /\ g = t.parent[p] /\ s = SideBelow(t, g, p)
    BY DEF InsertKin
<1>2. Shaped(t) /\ IsTree(t) /\ node \in Nodes(t)
    BY DEF Ordered, Shaped, InsertState
<1>3. node \in PCB /\ node # NULL /\ p # NULL /\ t.red[p]
    BY <1>1, <1>2, NodePlaces DEF RedParent, IsRed
<1>4. node # t.root
    BY <1>1, <1>2, <1>3, ParentFacts
<1>5. p \in Nodes(t) /\ p \in PCB /\ t.kid[p][SideBelow(t, p, node)] = node
    BY <1>1, <1>2, <1>4, ParentFacts
<1>6. SideBelow(t, p, node) \in Sides /\ s \in Sides
    BY <1>1 DEF SideBelow, Sides
<1>7. node # p
    BY <1>2, <1>3, <1>5, <1>6, NoLoops
<1>8. p # t.root
    BY <1>3, <1>5, <1>7 DEF InsertState, IsRed
<1>9. g \in Nodes(t) /\ g \in PCB /\ t.kid[g][s] = p
    BY <1>1, <1>2, <1>5, <1>8, ParentFacts
<1>10. g # NULL
    BY <1>9, NodesAssumption
<1>11. p # g /\ node # g
    BY <1>3, <1>5, <1>6, <1>9, NoLoops
<1>12. t.red[g] = FALSE
    <2>1. t.red[g] \in BOOLEAN
        BY <1>2, <1>9, TreeFields
    <2>2. ~t.red[g]
        BY <1>3, <1>6, <1>7, <1>9, <1>11 DEF InsertState, Clean, IsRed
    <2>. QED  BY <2>1, <2>2
<1>13. t.red[p] = TRUE /\ t.red[node] = TRUE
    <2>1. t.red[p] \in BOOLEAN
        BY <1>2, <1>5, TreeFields
    <2>. QED  BY <1>3, <2>1 DEF InsertState
<1>14. Other(s) \in Sides /\ Other(s) # s /\ Other(Other(s)) = s
       /\ \A d \in Sides : d = s \/ d = Other(s)
    BY <1>6 DEF Other, Sides
<1>15. t.kid[p][s] = node \/ t.kid[p][Other(s)] = node
    BY <1>5, <1>6, <1>14
<1>16. ~IsRed(t, t.root)
    BY <1>4 DEF InsertState
<1>. QED  BY <1>2, <1>3, <1>4, <1>5, <1>6, <1>7, <1>8, <1>9, <1>10, <1>11, <1>12,
             <1>13, <1>14, <1>15, <1>16 DEF InsertFamily

(* With a red uncle the pass repaints, and goes on at the grandparent.     *)
LEMMA RedUncle ==
    ASSUME NEW t, NEW q, NEW pos, NEW e, Ordered(t, q, pos, e), NEW node,
           InsertState(t, node), RedParent(t, node),
           NEW p, NEW g, NEW s, InsertKin(t, node, p, g, s),
           NEW w, w = t.kid[g][Other(s)], IsRed(t, w),
           NEW u, Recoloured(t, {p, w}, {g}, u)
    PROVE  InsertState(u, g)
<1>1. /\ node \in Nodes(t) /\ p \in Nodes(t) /\ g \in Nodes(t)
      /\ node \in PCB /\ p \in PCB /\ g \in PCB
      /\ node # p /\ node # g /\ p # g /\ node # t.root
      /\ s \in Sides /\ Other(s) \in Sides /\ Other(s) # s /\ Other(Other(s)) = s
      /\ t.kid[g][s] = p
      /\ t.kid[p][s] = node \/ t.kid[p][Other(s)] = node
      /\ t.red[p] = TRUE /\ t.red[g] = FALSE /\ ~IsRed(t, t.root) /\ g # NULL /\ p # NULL
    <2>1. InsertFamily(t, node, p, g, s)
        BY InsertKinFacts
    <2>. QED  BY <2>1 DEF InsertFamily
<1>2. PICK o : o = Other(s)
    OBVIOUS
<1>3. Shaped(t) /\ IsTree(t) /\ o \in Sides /\ \A d \in Sides : d = s \/ d = o
    BY <1>1, <1>2 DEF Ordered, Shaped, Sides, Other
<1>4. w # NULL /\ w \in PCB /\ w \in Nodes(t) /\ w # p /\ w # g /\ t.red[w] = TRUE
      /\ t.kid[g][o] = w
    <2>1. w # NULL /\ t.red[w]
        BY DEF IsRed
    <2>2. w \in PCB /\ w \in Nodes(t) /\ w # p /\ w # g
        BY <1>1, <1>2, <1>3, <2>1, KidFacts, NoLoops
    <2>3. t.red[w] \in BOOLEAN
        BY <1>3, <2>2, TreeFields
    <2>. QED  BY <1>2, <2>1, <2>2, <2>3
<1>5. /\ u.kid = t.kid /\ u.root = t.root /\ u.parent = t.parent /\ IsTree(u)
      /\ u.red[g] = TRUE /\ u.red[p] = FALSE /\ u.red[w] = FALSE
      /\ \A m \in PCB : m # g /\ m # p /\ m # w => u.red[m] = t.red[m]
    BY <1>1, <1>4 DEF Recoloured, SameLinks
<1>6. Nodes(u) = Nodes(t)
    BY <1>5 DEF Nodes
<1>7. \A d \in Sides : ~IsRed(u, u.kid[g][d])
    BY <1>1, <1>3, <1>4, <1>5 DEF IsRed
<1>8. Clean(u, g)
    <2>1. SUFFICES ASSUME NEW n \in Nodes(u), NEW d \in Sides, u.red[n],
                          IsRed(u, u.kid[n][d]), n # g, u.kid[n][d] # g
          PROVE  FALSE
        BY DEF Clean
    <2>2. PICK k : k = t.kid[n][d]
        OBVIOUS
    <2>3. n \in Nodes(t) /\ n \in PCB /\ k # NULL /\ u.red[k] /\ k # g
        BY <1>5, <1>6, <2>1, <2>2 DEF IsRed, Nodes
    <2>4. k \in PCB
        BY <1>3, <2>2, <2>3, KidFacts
    <2>5. n # p /\ n # w /\ k # p /\ k # w
        BY <1>5, <2>1, <2>3
    <2>6. t.red[n] /\ t.red[k]
        BY <1>5, <2>1, <2>3, <2>4, <2>5
    <2>7. n = node \/ k = node
        BY <2>1, <2>2, <2>3, <2>6 DEF InsertState, Clean, IsRed
    <2>8. n # node
        BY <2>1, <2>2, <2>3, <2>6 DEF InsertState, IsRed
    <2>9. t.parent[node] = n
        BY <1>3, <2>2, <2>3, <2>7, <2>8, KidFacts
    <2>. QED  BY <2>5, <2>9 DEF InsertKin
<1>9. IsRed(u, u.root) => u.root = g
    <2>1. t.root \in Ptr
        BY <1>3, TreeFields
    <2>. QED  BY <1>1, <1>4, <1>5, <2>1 DEF IsRed, Ptr
<1>10. Even(u)
    <2>1. PICK b : Balanced(t, b, NULL, "left")
        BY DEF InsertState, Even
    <2>2. b \in [Ptr -> Nat] /\ b[NULL] = 0 /\ p \in Ptr /\ w \in Ptr /\ g \in Ptr /\ NULL \in Ptr
        BY <1>1, <1>4, <2>1 DEF Balanced, Ptr
    <2>3. PICK c : c = [m \in Ptr |-> IF m = p \/ m = w THEN b[m] + 1 ELSE b[m]]
        OBVIOUS
    <2>4. c \in [Ptr -> Nat] /\ c[NULL] = 0 /\ c[p] = b[p] + 1 /\ c[w] = b[w] + 1
          /\ \A m \in Ptr : m # p /\ m # w => c[m] = b[m]
        BY <1>1, <1>4, <2>2, <2>3
    <2>5. ASSUME NEW n \in Nodes(t), NEW d \in Sides
          PROVE  c[n] = c[u.kid[n][d]] + Black(u, n) + Lack(NULL, "left", n, d)
        <3>1. PICK k : k = t.kid[n][d]
            OBVIOUS
        <3>2. /\ b[n] \in Nat /\ b[k] \in Nat /\ k \in Ptr /\ n \in Ptr /\ n # NULL
              /\ b[n] = b[k] + Black(t, n) + Lack(NULL, "left", n, d)
            BY <1>3, <2>1, <3>1, BalancedNode
        <3>3. Lack(NULL, "left", n, d) = 0
            BY <3>2 DEF Lack
        <3>4. u.kid[n][d] = k /\ n \in PCB
            BY <1>5, <3>1 DEF Nodes
        <3>5. CASE n = g
            <4>1. k = p \/ k = w
                BY <1>1, <1>3, <1>4, <3>1, <3>5
            <4>2. Black(t, n) = 1 /\ Black(u, n) = 0
                BY <1>1, <1>5, <3>5 DEF Black
            <4>3. c[n] = b[n] /\ c[k] = b[k] + 1
                BY <1>1, <1>4, <2>2, <2>4, <3>5, <4>1
            <4>. QED  BY <3>2, <3>3, <3>4, <4>2, <4>3
        <3>6. CASE n = p \/ n = w
            <4>1. k # p /\ k # w
                <5>1. \A m \in PCB, a \in Sides : t.kid[m][a] # NULL => t.parent[t.kid[m][a]] = m
                    BY <1>3 DEF Shaped
                <5>2. t.parent[p] = g /\ t.parent[w] = g
                    BY <1>1, <1>3, <1>4, <5>1
                <5>3. n # g
                    BY <1>1, <1>4, <3>6
                <5>. QED  BY <1>1, <1>4, <3>1, <3>4, <5>1, <5>2, <5>3
            <4>2. Black(t, n) = 0 /\ Black(u, n) = 1
                BY <1>1, <1>4, <1>5, <3>6 DEF Black
            <4>3. c[n] = b[n] + 1 /\ c[k] = b[k]
                BY <2>4, <3>2, <3>6, <4>1
            <4>. QED  BY <3>2, <3>3, <3>4, <4>2, <4>3
        <3>7. CASE n # g /\ n # p /\ n # w
            <4>1. k # p /\ k # w
                <5>1. \A m \in PCB, a \in Sides : t.kid[m][a] # NULL => t.parent[t.kid[m][a]] = m
                    BY <1>3 DEF Shaped
                <5>2. t.parent[p] = g /\ t.parent[w] = g
                    BY <1>1, <1>3, <1>4, <5>1
                <5>. QED  BY <1>1, <1>4, <3>1, <3>4, <3>7, <5>1, <5>2
            <4>2. Black(t, n) = Black(u, n)
                BY <1>5, <3>4, <3>7 DEF Black
            <4>3. c[n] = b[n] /\ c[k] = b[k]
                BY <2>4, <3>2, <3>7, <4>1
            <4>. QED  BY <3>2, <3>3, <3>4, <4>2, <4>3
        <3>. QED  BY <3>5, <3>6, <3>7
    <2>6. Balanced(u, c, NULL, "left")
        BY <1>6, <2>4, <2>5 DEF Balanced
    <2>. QED  BY <2>6, EvenIs
<1>. QED  BY <1>1, <1>5, <1>6, <1>7, <1>8, <1>9, <1>10 DEF InsertState

(* A node between its parent and its grandparent comes up over its parent. *)
LEMMA InnerRotates ==
    ASSUME NEW t, NEW q, NEW pos, NEW e, Ordered(t, q, pos, e), NEW node,
           InsertState(t, node), RedParent(t, node),
           NEW p, NEW g, NEW s, InsertKin(t, node, p, g, s),
           ~IsRed(t, t.kid[g][Other(s)]), t.kid[p][Other(s)] = node,
           NEW u, u = Rotate(t, p, s)
    PROVE  /\ \E e1 : Ordered(u, q, pos, e1)
           /\ Even(u) /\ Outer(u, g, s, node, p)
<1>1. PICK o : o = Other(s)
    OBVIOUS
<1>2. /\ node \in Nodes(t) /\ p \in Nodes(t) /\ g \in Nodes(t)
      /\ node \in PCB /\ p \in PCB /\ g \in PCB /\ node # NULL /\ p # NULL
      /\ node # p /\ node # g /\ p # g /\ p # t.root
      /\ s \in Sides /\ o \in Sides /\ o # s
      /\ t.kid[g][s] = p /\ t.kid[p][o] = node
      /\ t.red[node] = TRUE /\ t.red[p] = TRUE /\ t.red[g] = FALSE
      /\ ~IsRed(t, t.root)
    <2>1. InsertFamily(t, node, p, g, s)
        BY InsertKinFacts
    <2>. QED  BY <1>1, <2>1 DEF InsertFamily
<1>3. Shaped(t) /\ IsTree(t) /\ \A d \in Sides : d = s \/ d = o
    BY <1>1, <1>2 DEF Ordered, Shaped, Sides, Other
<1>4. Turned(t, p, s, node, u) /\ u.red = t.red /\ \E e1 : Ordered(u, q, pos, e1)
    <2>1. SameLinks(t, t)
        BY <1>3 DEF SameLinks
    <2>2. Ordered(t, q, pos, e) /\ t.kid[p][Other(s)] # NULL /\ u = Rotate(t, p, s)
          /\ t.kid[p][Other(s)] = node
        BY <1>2
    <2>3. Turned(t, p, s, t.kid[p][Other(s)], u) /\ u.red = t.red
          /\ \E e1 : Ordered(u, q, pos, e1)
        BY ONLY <1>2, <2>1, <2>2, RotateTurns
    <2>. QED  BY <2>2, <2>3
<1>5. Even(u)
    <2>1. PICK b : Balanced(t, b, NULL, "left")
        BY DEF InsertState, Even
    <2>2. Balanced(u, b, NULL, "left")
        <3>1. Ordered(t, q, pos, e) /\ s \in Sides /\ Turned(t, p, s, node, u)
            BY <1>2, <1>4
        <3>2. t.red[p] = TRUE /\ t.red[node] = TRUE /\ u.red = t.red
            BY <1>2, <1>4
        <3>. QED  BY ONLY <2>1, <3>1, <3>2, RedBalanced
    <2>. QED  BY <2>2 DEF Even
<1>6. /\ Nodes(u) = Nodes(t) /\ u.root = t.root
      /\ u.kid[p][s] = t.kid[p][s] /\ u.kid[p][o] = t.kid[node][s]
      /\ u.kid[node][s] = p /\ u.kid[node][o] = t.kid[node][o]
      /\ \A m \in Nodes(t) \ {p, node}, d \in Sides :
            u.kid[m][d] = IF t.kid[m][d] = p THEN node ELSE t.kid[m][d]
    BY <1>1, <1>2, <1>4 DEF Turned
<1>7. \A m : IsRed(u, m) <=> IsRed(t, m)
    BY <1>4 DEF IsRed
<1>8. t.kid[g][o] # p /\ t.kid[p][s] # node
    <2>1. \A n \in PCB : t.kid[n]["left"] # NULL => t.kid[n]["left"] # t.kid[n]["right"]
        BY <1>3 DEF Shaped
    <2>. QED  BY <1>2, <2>1 DEF Sides
<1>9. u.kid[g][s] = node /\ u.kid[g][o] = t.kid[g][o]
    BY <1>2, <1>6, <1>8
<1>10. \A d \in Sides : ~IsRed(t, t.kid[node][d])
    BY DEF InsertState
<1>11. ~IsRed(t, t.kid[p][s])
    <2>1. SUFFICES ASSUME IsRed(t, t.kid[p][s]) PROVE FALSE
        OBVIOUS
    <2>. QED  BY <1>2, <1>8, <2>1 DEF InsertState, Clean
<1>12. \A d \in Sides : ~IsRed(u, u.kid[p][d])
    BY <1>2, <1>3, <1>6, <1>7, <1>10, <1>11
<1>13. ASSUME NEW n \in Nodes(u), NEW d \in Sides, u.red[n], IsRed(u, u.kid[n][d])
       PROVE  n = node
    <2>1. SUFFICES ASSUME n # node PROVE FALSE
        OBVIOUS
    <2>2. n # p /\ n \in Nodes(t) /\ n \in PCB /\ t.red[n]
        BY <1>4, <1>6, <1>12, <1>13 DEF Nodes
    <2>3. u.kid[n][d] = IF t.kid[n][d] = p THEN node ELSE t.kid[n][d]
        BY <1>6, <1>13, <2>1, <2>2
    <2>4. \A m \in PCB, a \in Sides : t.kid[m][a] # NULL => t.parent[t.kid[m][a]] = m
        BY <1>3 DEF Shaped
    <2>5. t.parent[p] = g /\ t.parent[node] = p
        BY <1>2, <2>4
    <2>6. t.kid[n][d] # p /\ t.kid[n][d] # node
        BY <1>2, <2>2, <2>4, <2>5
    <2>7. IsRed(t, t.kid[n][d])
        BY <1>7, <1>13, <2>3, <2>6
    <2>. QED  BY <2>1, <2>2, <2>6, <2>7 DEF InsertState, Clean
<1>14. Outer(u, g, s, node, p)
    BY <1>1, <1>2, <1>4, <1>6, <1>7, <1>9, <1>10, <1>12, <1>13 DEF Outer
<1>. QED  BY <1>4, <1>5, <1>14

(* A node on the outer side is where the last rotation wants it.           *)
LEMMA OuterAlready ==
    ASSUME NEW t, NEW q, NEW pos, NEW e, Ordered(t, q, pos, e), NEW node,
           InsertState(t, node), RedParent(t, node),
           NEW p, NEW g, NEW s, InsertKin(t, node, p, g, s),
           ~IsRed(t, t.kid[g][Other(s)]), t.kid[p][Other(s)] # node
    PROVE  Outer(t, g, s, p, node)
<1>1. PICK o : o = Other(s)
    OBVIOUS
<1>2. /\ node \in Nodes(t) /\ p \in Nodes(t) /\ g \in Nodes(t)
      /\ node \in PCB /\ p \in PCB /\ g \in PCB /\ node # NULL /\ p # NULL
      /\ node # p /\ s \in Sides /\ o \in Sides
      /\ t.kid[g][s] = p /\ t.kid[p][s] = node
      /\ t.red[node] = TRUE /\ t.red[p] = TRUE /\ t.red[g] = FALSE
      /\ ~IsRed(t, t.root)
    <2>1. InsertFamily(t, node, p, g, s)
        BY InsertKinFacts
    <2>. QED  BY <1>1, <2>1 DEF InsertFamily
<1>3. \A m \in PCB, a \in Sides : t.kid[m][a] # NULL => t.parent[t.kid[m][a]] = m
    BY DEF Ordered, Shaped
<1>4. \A d \in Sides : ~IsRed(t, t.kid[node][d])
    BY DEF InsertState
<1>5. ASSUME NEW n \in Nodes(t), NEW d \in Sides, t.red[n], IsRed(t, t.kid[n][d])
      PROVE  n = p
    <2>1. n = node \/ t.kid[n][d] = node
        BY <1>5 DEF InsertState, Clean
    <2>2. n # node
        BY <1>4, <1>5
    <2>. QED  BY <1>2, <1>3, <2>1, <2>2 DEF Nodes
<1>6. ~IsRed(t, t.kid[p][o])
    <2>1. SUFFICES ASSUME IsRed(t, t.kid[p][o]) PROVE FALSE
        OBVIOUS
    <2>. QED  BY <1>1, <1>2, <2>1 DEF InsertState, Clean
<1>. QED  BY <1>1, <1>2, <1>4, <1>5, <1>6 DEF Outer

(* What a pass of rb_insert_color leaves: a tree that holds the same, and  *)
(* either the loop's last one or the same links and a node further up.     *)
InsertPassed(t, node, w) ==
    /\ InsertState(w.tree, w.node)
    /\ RedParent(w.tree, w.node) => /\ w.tree.parent = t.parent
                                    /\ w.node = t.parent[t.parent[node]]

(* A pass of the loop of rb_insert_color leaves the tree so.               *)
LEMMA InsertPassKeeps ==
    ASSUME NEW t, NEW q, NEW pos, NEW e, Ordered(t, q, pos, e), NEW node,
           InsertState(t, node), RedParent(t, node)
    PROVE  /\ \E e1 : Ordered(InsertPass(t, node).tree, q, pos, e1)
           /\ InsertPassed(t, node, InsertPass(t, node))
<1>1. PICK p : p = t.parent[node]
    OBVIOUS
<1>2. PICK g : g = t.parent[p]
    OBVIOUS
<1>3. PICK s : s = SideBelow(t, g, p)
    OBVIOUS
<1>4. PICK o : o = Other(s)
    OBVIOUS
<1>5. PICK w : w = InsertPass(t, node)
    OBVIOUS
<1>6. PICK uncle : uncle = t.kid[g][o]
    OBVIOUS
<1>7. InsertKin(t, node, p, g, s)
    BY <1>1, <1>2, <1>3 DEF InsertKin
<1>8. InsertFamily(t, node, p, g, s)
    BY <1>7, InsertKinFacts
<1>9. IsTree(t)
    BY DEF Ordered, Shaped
<1>10. CASE IsRed(t, uncle)
    <2>1. PICK u : u = Painted(Painted(t, {p, uncle}, FALSE), {g}, TRUE)
        BY Zenon
    <2>2. w.tree = u /\ w.node = g
        BY ONLY Zenon, <1>1, <1>2, <1>3, <1>4, <1>5, <1>6, <1>10, <2>1 DEF InsertPass
    <2>3. Recoloured(t, {p, uncle}, {g}, u)
        BY ONLY <1>9, <2>1, PaintedBoth
    <2>4. InsertState(u, g)
        <3>1. Ordered(t, q, pos, e) /\ InsertState(t, node) /\ RedParent(t, node)
              /\ uncle = t.kid[g][Other(s)]
            BY <1>4, <1>6
        <3>. QED  BY ONLY <1>7, <1>10, <2>3, <3>1, RedUncle
    <2>5. SameLinks(t, u)
        BY <2>3 DEF Recoloured
    <2>6. Ordered(u, q, pos, e)
        BY <2>5, SameLinksOrdered
    <2>7. u.parent = t.parent
        BY <2>5 DEF SameLinks
    <2>8. InsertPassed(t, node, w)
        BY <1>1, <1>2, <2>2, <2>4, <2>7 DEF InsertPassed
    <2>. QED  BY <1>5, <2>2, <2>6, <2>8
<1>11. CASE ~IsRed(t, uncle) /\ t.kid[p][o] = node
    <2>1. PICK t1 : t1 = Rotate(t, p, s)
        OBVIOUS
    <2>2. PICK u : u = Rotate(Painted(Painted(t1, {node}, FALSE), {g}, TRUE), g, o)
        OBVIOUS
    <2>3. w.tree = u /\ w.node = p
        BY ONLY <1>1, <1>2, <1>3, <1>4, <1>5, <1>6, <1>11, <2>1, <2>2 DEF InsertPass
    <2>4. (\E e1 : Ordered(t1, q, pos, e1)) /\ Even(t1) /\ Outer(t1, g, s, node, p)
        <3>1. Ordered(t, q, pos, e) /\ InsertState(t, node) /\ RedParent(t, node)
              /\ ~IsRed(t, t.kid[g][Other(s)]) /\ t.kid[p][Other(s)] = node
            BY <1>4, <1>6, <1>11
        <3>. QED  BY ONLY <1>7, <2>1, <3>1, InnerRotates
    <2>5. PICK e1 : Ordered(t1, q, pos, e1)
        BY <2>4
    <2>6. (\E e2 : Ordered(u, q, pos, e2)) /\ InsertState(u, p) /\ ~RedParent(u, p)
        <3>1. s \in Sides
            BY <1>8 DEF InsertFamily
        <3>. QED  BY ONLY <1>4, <2>2, <2>4, <2>5, <3>1, OuterRotates
    <2>7. InsertPassed(t, node, w)
        BY <2>3, <2>6 DEF InsertPassed
    <2>. QED  BY <1>5, <2>3, <2>6, <2>7
<1>12. CASE ~IsRed(t, uncle) /\ t.kid[p][o] # node
    <2>1. PICK u : u = Rotate(Painted(Painted(t, {p}, FALSE), {g}, TRUE), g, o)
        OBVIOUS
    <2>2. w.tree = u /\ w.node = node
        BY ONLY <1>1, <1>2, <1>3, <1>4, <1>5, <1>6, <1>12, <2>1 DEF InsertPass
    <2>3. Outer(t, g, s, p, node)
        <3>1. Ordered(t, q, pos, e) /\ InsertState(t, node) /\ RedParent(t, node)
              /\ ~IsRed(t, t.kid[g][Other(s)]) /\ t.kid[p][Other(s)] # node
            BY <1>4, <1>6, <1>12
        <3>. QED  BY ONLY <1>7, <3>1, OuterAlready
    <2>4. (\E e2 : Ordered(u, q, pos, e2)) /\ InsertState(u, node) /\ ~RedParent(u, node)
        <3>1. s \in Sides
            BY <1>8 DEF InsertFamily
        <3>2. Even(t) /\ Ordered(t, q, pos, e)
            BY DEF InsertState
        <3>. QED  BY ONLY <1>4, <2>1, <2>3, <3>1, <3>2, OuterRotates
    <2>5. InsertPassed(t, node, w)
        BY <2>2, <2>4 DEF InsertPassed
    <2>. QED  BY <1>5, <2>2, <2>4, <2>5
<1>. QED  BY <1>10, <1>11, <1>12

(* A red leaf in a red-black tree starts the loop.                         *)
LEMMA LeafStarts ==
    ASSUME NEW t, Shaped(t), Coloured(t), NEW p \in PCB, p \notin Nodes(t),
           NEW n, NEW s,
           \/ n = NULL /\ t.root = NULL
           \/ n \in Nodes(t) /\ s \in Sides /\ t.kid[n][s] = NULL,
           NEW u, Leafed(t, p, n, s, u)
    PROVE  InsertState(u, p)
<1>1. Nodes(u) = Nodes(t) \cup {p}
    BY LeafShaped
<1>2. /\ IsTree(u) /\ IsTree(t) /\ u.root = IF n = NULL THEN p ELSE t.root
      /\ \A m \in PCB, d \in Sides :
            u.kid[m][d] = IF m = p THEN NULL
                          ELSE IF m = n /\ d = s THEN p ELSE t.kid[m][d]
      /\ u.red[p] = TRUE /\ \A m \in PCB : m # p => u.red[m] = t.red[m]
    BY DEF Leafed, Shaped
<1>3. p # NULL /\ NULL \notin PCB /\ \A m \in Nodes(t) : m # p /\ m \in PCB /\ m # NULL
    BY NodesAssumption DEF Nodes
<1>4. \A m \in PCB, d \in Sides : t.kid[m][d] # p /\ t.kid[m][d] \in Ptr
          /\ (t.kid[m][d] # NULL => t.kid[m][d] \in PCB)
    BY <1>2, <1>3, KidFacts, TreeFields
<1>5. \A d \in Sides : ~IsRed(u, u.kid[p][d])
    BY <1>2 DEF IsRed
<1>6. Clean(u, p)
    <2>1. SUFFICES ASSUME NEW m \in Nodes(u), NEW d \in Sides, u.red[m],
                          IsRed(u, u.kid[m][d]), m # p, u.kid[m][d] # p
          PROVE  FALSE
        BY DEF Clean
    <2>2. m \in Nodes(t) /\ m \in PCB /\ m # NULL
        BY <1>1, <1>3, <2>1
    <2>3. u.kid[m][d] = t.kid[m][d] /\ t.red[m]
        BY <1>2, <2>1, <2>2
    <2>4. t.kid[m][d] # NULL /\ t.kid[m][d] \in PCB
        BY <1>4, <2>1, <2>2, <2>3 DEF IsRed
    <2>5. IsRed(t, t.kid[m][d])
        BY <1>2, <1>4, <2>1, <2>2, <2>3, <2>4 DEF IsRed
    <2>. QED  BY <2>1, <2>2, <2>3, <2>4, <2>5 DEF Coloured, Clean
<1>7. IsRed(u, u.root) => u.root = p
    <2>1. SUFFICES ASSUME u.root # p PROVE ~IsRed(u, u.root)
        OBVIOUS
    <2>2. u.root = t.root /\ t.root \in Ptr /\ ~IsRed(t, t.root)
        BY <1>2, <2>1, TreeFields DEF Coloured
    <2>. QED  BY <1>2, <2>1, <2>2 DEF IsRed, Ptr
<1>8. Even(u)
    <2>1. PICK b : Balanced(t, b, NULL, "left")
        BY DEF Coloured, Even
    <2>2. b \in [Ptr -> Nat] /\ b[NULL] = 0 /\ p \in Ptr /\ NULL \in Ptr
        BY <2>1 DEF Balanced, Ptr
    <2>3. PICK c : c = [b EXCEPT ![p] = 0]
        OBVIOUS
    <2>4. c \in [Ptr -> Nat] /\ c[NULL] = 0 /\ c[p] = 0 /\ \A m \in Ptr : m # p => c[m] = b[m]
        BY <1>3, <2>2, <2>3
    <2>5. ASSUME NEW m \in Nodes(u), NEW d \in Sides
          PROVE  c[m] = c[u.kid[m][d]] + Black(u, m) + Lack(NULL, "left", m, d)
        <3>1. CASE m = p
            <4>1. u.kid[m][d] = NULL /\ Black(u, m) = 0 /\ Lack(NULL, "left", m, d) = 0
                BY <1>2, <1>3, <3>1 DEF Black, Lack
            <4>. QED  BY <2>4, <3>1, <4>1
        <3>2. CASE m # p
            <4>1. m \in Nodes(t) /\ m \in PCB
                BY <1>1, <1>3, <3>2
            <4>2. /\ b[m] \in Nat /\ b[t.kid[m][d]] \in Nat /\ m \in Ptr /\ t.kid[m][d] \in Ptr
                  /\ b[m] = b[t.kid[m][d]] + Black(t, m) + Lack(NULL, "left", m, d)
                BY <1>2, <2>1, <4>1, BalancedNode
            <4>3. c[u.kid[m][d]] = b[t.kid[m][d]]
                <5>1. CASE m = n /\ d = s
                    <6>1. t.kid[m][d] = NULL /\ u.kid[m][d] = p
                        BY <1>2, <1>3, <3>2, <4>1, <5>1
                    <6>. QED  BY <2>2, <2>4, <6>1
                <5>2. CASE ~ (m = n /\ d = s)
                    <6>1. u.kid[m][d] = t.kid[m][d] /\ t.kid[m][d] # p
                        BY <1>2, <1>4, <3>2, <4>1, <5>2
                    <6>. QED  BY <2>4, <4>2, <6>1
                <5>. QED  BY <5>1, <5>2
            <4>4. Black(u, m) = Black(t, m) /\ c[m] = b[m]
                BY <1>2, <2>4, <3>2, <4>1, <4>2 DEF Black
            <4>. QED  BY <4>2, <4>3, <4>4
        <3>. QED  BY <3>1, <3>2
    <2>6. Balanced(u, c, NULL, "left")
        BY <2>4, <2>5 DEF Balanced
    <2>. QED  BY <2>6, EvenIs
<1>. QED  BY <1>1, <1>2, <1>5, <1>6, <1>7, <1>8 DEF InsertState

(* A root that gets black adds a black node to every way down.             *)
LEMMA BlackRoot ==
    ASSUME NEW t, Shaped(t), Even(t), NEW u, Recoloured(t, {t.root}, {}, u)
    PROVE  Even(u) /\ ~IsRed(u, u.root)
<1>1. /\ IsTree(t) /\ IsTree(u) /\ u.root = t.root /\ u.kid = t.kid /\ Nodes(u) = Nodes(t)
      /\ t.root \in Ptr
      /\ \A m \in PCB : m = t.root => u.red[m] = FALSE
      /\ \A m \in PCB : m # t.root => u.red[m] = t.red[m]
    BY TreeFields DEF Shaped, Recoloured, SameLinks, Nodes
<1>2. ~IsRed(u, u.root)
    BY <1>1 DEF IsRed, Ptr
<1>3. PICK b : Balanced(t, b, NULL, "left")
    BY DEF Even
<1>4. b \in [Ptr -> Nat] /\ b[NULL] = 0 /\ NULL \in Ptr
    BY <1>3 DEF Balanced, Ptr
<1>5. PICK c : c = [m \in Ptr |-> IF m = t.root /\ m # NULL THEN b[m] + Black(u, m) - Black(t, m)
                                  ELSE b[m]]
    OBVIOUS
<1>6. ASSUME NEW m \in Nodes(t)
      PROVE  /\ m \in Ptr /\ m # NULL /\ m \in PCB /\ Black(u, m) \in {0, 1}
             /\ Black(t, m) \in {0, 1}
             /\ m # t.root => Black(u, m) = Black(t, m)
             /\ m = t.root => Black(u, m) = 1
    BY <1>1, NodesAssumption DEF Black, Nodes, Ptr
<1>7. /\ c \in [Ptr -> Nat] /\ c[NULL] = 0
      /\ \A m \in Ptr : m # t.root => c[m] = b[m]
      /\ t.root # NULL => c[t.root] = b[t.root] + Black(u, t.root) - Black(t, t.root)
    <2>1. ASSUME NEW m \in Ptr, m = t.root, m # NULL
          PROVE  b[m] + Black(u, m) - Black(t, m) \in Nat
        <3>1. m \in Nodes(t)
            BY <2>1 DEF Nodes, Ptr
        <3>2. b[m] \in Nat
            BY <1>4, <2>1
        <3>. QED  BY <1>6, <2>1, <3>1, <3>2
    <2>. QED  BY <1>1, <1>4, <1>5, <2>1
<1>8. ASSUME NEW m \in Nodes(t), NEW d \in Sides
      PROVE  c[m] = c[u.kid[m][d]] + Black(u, m) + Lack(NULL, "left", m, d)
    <2>1. PICK k : k = t.kid[m][d]
        OBVIOUS
    <2>2. /\ b[m] \in Nat /\ b[k] \in Nat /\ m \in Ptr /\ k \in Ptr
          /\ b[m] = b[k] + Black(t, m) + Lack(NULL, "left", m, d)
        BY <1>1, <1>3, <2>1, BalancedNode
    <2>3. Lack(NULL, "left", m, d) = 0
        BY <1>6 DEF Lack
    <2>4. c[k] = b[k]
        <3>1. k # NULL => k # t.root
            BY <1>6, <2>1, KidFacts
        <3>. QED  BY <1>4, <1>7, <2>2, <3>1
    <2>5. u.kid[m][d] = k
        BY <1>1, <2>1
    <2>6. CASE m = t.root
        <3>1. c[m] = b[m] + Black(u, m) - Black(t, m)
            BY <1>6, <1>7, <2>6
        <3>. QED  BY <1>6, <2>2, <2>3, <2>4, <2>5, <3>1
    <2>7. CASE m # t.root
        <3>1. c[m] = b[m] /\ Black(u, m) = Black(t, m)
            BY <1>6, <1>7, <2>7
        <3>. QED  BY <2>2, <2>3, <2>4, <2>5, <3>1
    <2>. QED  BY <2>6, <2>7
<1>9. Balanced(u, c, NULL, "left")
    BY <1>1, <1>7, <1>8 DEF Balanced
<1>. QED  BY <1>2, <1>9, EvenIs

(* Behind the loop the root gets black, and the tree is a red-black tree.  *)
LEMMA InsertDone ==
    ASSUME NEW t, Shaped(t), NEW node, InsertState(t, node), ~RedParent(t, node),
           NEW u, u = Painted(t, {t.root}, FALSE)
    PROVE  SameLinks(t, u) /\ Coloured(u)
<1>1. Recoloured(t, {t.root}, {}, u)
    <2>1. PICK R : R = {}
        OBVIOUS
    <2>2. IsTree(t) /\ u = Painted(t, {t.root}, FALSE)
        BY DEF Shaped
    <2>. QED  BY ONLY <2>1, <2>2, PaintedBlack
<1>2. Even(u) /\ ~IsRed(u, u.root)
    BY <1>1, BlackRoot DEF InsertState
<1>3. /\ SameLinks(t, u) /\ u.kid = t.kid /\ u.root = t.root /\ Nodes(u) = Nodes(t)
      /\ \A m \in PCB : m = t.root => u.red[m] = FALSE
      /\ \A m \in PCB : m # t.root => u.red[m] = t.red[m]
    BY <1>1 DEF Recoloured, SameLinks, Nodes
<1>4. Clean(u, NULL)
    <2>1. SUFFICES ASSUME NEW n \in Nodes(u), NEW d \in Sides, u.red[n], IsRed(u, u.kid[n][d])
          PROVE  FALSE
        BY DEF Clean
    <2>2. PICK k : k = t.kid[n][d]
        OBVIOUS
    <2>3. n \in Nodes(t) /\ n \in PCB /\ k # NULL /\ u.red[k] /\ u.kid[n][d] = k
        BY <1>3, <2>1, <2>2 DEF IsRed, Nodes
    <2>4. k \in PCB /\ t.parent[k] = n
        BY <2>2, <2>3, KidFacts
    <2>5. t.red[n] /\ t.red[k]
        BY <1>3, <2>1, <2>3, <2>4
    <2>6. n = node \/ k = node
        BY <2>1, <2>2, <2>3, <2>5 DEF InsertState, Clean, IsRed
    <2>7. n # node
        BY <2>1, <2>2, <2>3, <2>5 DEF InsertState, IsRed
    <2>. QED  BY <2>3, <2>4, <2>5, <2>6, <2>7, NodesAssumption DEF RedParent, IsRed
<1>. QED  BY <1>2, <1>3, <1>4 DEF Coloured

-----------------------------------------------------------------------------
(* The loop of rb_erase.                                                   *)

(* The ways down through child, which hangs from p, lack a black node.     *)
Lacking(t, child, p) ==
    /\ p \in Nodes(t) /\ t.kid[p][SideBelow(t, p, child)] = child
    /\ \E b : Balanced(t, b, p, SideBelow(t, p, child))

(* A red-black tree but for child.                                         *)
EraseState(t, child, p) ==
    /\ Clean(t, child)
    /\ IsRed(t, t.root) => t.root = child
    /\ IF child = t.root THEN Even(t) ELSE Lacking(t, child, p)

(* The code finds the side that lacks a black node, even below a NULL: the *)
(* other side has one black node more.                                     *)
LEMMA LackingSide ==
    ASSUME NEW t, IsTree(t), NEW b, NEW p \in Nodes(t), NEW d \in Sides,
           Balanced(t, b, p, d)
    PROVE  /\ SideBelow(t, p, t.kid[p][d]) = d
           /\ t.kid[p][Other(d)] # NULL /\ t.kid[p][Other(d)] # t.kid[p][d]
           /\ b[t.kid[p][Other(d)]] = b[t.kid[p][d]] + 1
<1>1. Other(d) \in Sides /\ Other(d) # d
    BY DEF Other, Sides
<1>2. /\ b[p] \in Nat /\ b[t.kid[p][d]] \in Nat /\ b[NULL] = 0
      /\ b[p] = b[t.kid[p][d]] + Black(t, p) + Lack(p, d, p, d)
    BY BalancedNode
<1>3. /\ b[t.kid[p][Other(d)]] \in Nat
      /\ b[p] = b[t.kid[p][Other(d)]] + Black(t, p) + Lack(p, d, p, Other(d))
    BY <1>1, BalancedNode
<1>4. Lack(p, d, p, d) = 1 /\ Lack(p, d, p, Other(d)) = 0 /\ Black(t, p) \in Nat
    BY <1>1 DEF Lack, Black
<1>5. b[t.kid[p][Other(d)]] = b[t.kid[p][d]] + 1
    BY <1>2, <1>3, <1>4
<1>6. t.kid[p][Other(d)] # NULL /\ t.kid[p][Other(d)] # t.kid[p][d]
    BY <1>2, <1>5
<1>7. SideBelow(t, p, t.kid[p][d]) = d
    BY <1>6 DEF SideBelow, Other, Sides
<1>. QED  BY <1>5, <1>6, <1>7

(* Taking out a red node leaves a red-black tree; a black one starts the   *)
(* loop.                                                                   *)
LEMMA CutColours ==
    ASSUME NEW t, NEW q, NEW pos, NEW e, Ordered(t, q, pos, e), Coloured(t),
           NEW x \in Nodes(t), NEW c, OnlyKid(t, x, c), NEW u, CutOut(t, x, c, u)
    PROVE  IF t.red[x] THEN Coloured(u) ELSE EraseState(u, c, t.parent[x])
<1>1. Nodes(u) = Nodes(t) \ {x} /\ x \in PCB /\ x # NULL /\ Shaped(t) /\ IsTree(t)
      /\ NULL \notin PCB
    BY CutShaped, NodePlaces, NodesAssumption DEF Ordered, Shaped
<1>2. /\ IsTree(u) /\ u.root = IF x = t.root THEN c ELSE t.root
      /\ \A m \in PCB, d \in Sides :
            u.kid[m][d] = IF m = x THEN NULL
                          ELSE IF t.kid[m][d] = x THEN c ELSE t.kid[m][d]
      /\ \A m \in PCB : m # x => u.red[m] = t.red[m]
    BY DEF CutOut
<1>3. PICK d0 \in Sides : t.kid[x][d0] = c
    BY DEF OnlyKid
<1>4. c \in Ptr /\ c # x
    BY <1>1, <1>3, TreeFields, NoLoops
<1>5. \A n \in Nodes(t), d \in Sides : t.red[n] => ~IsRed(t, t.kid[n][d])
    BY <1>1 DEF Coloured, Clean, IsRed, Nodes
<1>6. \A m \in Ptr : m # x => (IsRed(u, m) <=> IsRed(t, m))
    BY <1>2 DEF IsRed, Ptr
<1>7. \A m \in PCB, d \in Sides : t.kid[m][d] \in Ptr
    BY <1>1, TreeFields
<1>8. Clean(u, c)
    <2>1. SUFFICES ASSUME NEW n \in Nodes(u), NEW d \in Sides, u.red[n],
                          IsRed(u, u.kid[n][d]), u.kid[n][d] # c
          PROVE  FALSE
        BY DEF Clean
    <2>2. n \in Nodes(t) /\ n # x /\ n \in PCB /\ t.red[n]
        BY <1>1, <1>2, <2>1 DEF Nodes
    <2>3. u.kid[n][d] = t.kid[n][d] /\ t.kid[n][d] # x
        BY <1>2, <2>1, <2>2
    <2>. QED  BY <1>5, <1>6, <1>7, <2>1, <2>2, <2>3
<1>9. IsRed(u, u.root) => u.root = c
    <2>1. t.root \in Ptr
        BY <1>1, TreeFields
    <2>. QED  BY <1>2, <1>6, <2>1 DEF Coloured
<1>10. PICK b : Balanced(t, b, NULL, "left")
    BY DEF Coloured, Even
<1>11. /\ b \in [Ptr -> Nat] /\ b[NULL] = 0 /\ b[x] \in Nat /\ b[c] \in Nat
       /\ b[x] = b[c] + Black(t, x)
    <2>1. /\ b[x] \in Nat /\ b[c] \in Nat /\ b[NULL] = 0
          /\ b[x] = b[c] + Black(t, x) + Lack(NULL, "left", x, d0)
        BY <1>1, <1>3, <1>10, BalancedNode
    <2>2. Lack(NULL, "left", x, d0) = 0 /\ Black(t, x) \in Nat
        BY <1>1 DEF Lack, Black
    <2>. QED  BY <1>10, <2>1, <2>2 DEF Balanced
<1>12. ASSUME NEW m \in Nodes(u), NEW d \in Sides
       PROVE  /\ m \in Nodes(t) /\ m \in PCB /\ m # NULL /\ b[t.kid[m][d]] \in Nat
              /\ b[m] = b[t.kid[m][d]] + Black(u, m) /\ Black(u, m) \in Nat
              /\ u.kid[m][d] = IF t.kid[m][d] = x THEN c ELSE t.kid[m][d]
    <2>1. m \in Nodes(t) /\ m # x /\ m \in PCB /\ m # NULL
        BY <1>1 DEF Nodes
    <2>2. /\ b[t.kid[m][d]] \in Nat
          /\ b[m] = b[t.kid[m][d]] + Black(t, m) + Lack(NULL, "left", m, d)
        BY <1>1, <1>10, <2>1, BalancedNode
    <2>3. Lack(NULL, "left", m, d) = 0 /\ Black(t, m) \in Nat /\ Black(u, m) = Black(t, m)
        BY <1>2, <2>1 DEF Lack, Black
    <2>. QED  BY <1>2, <2>1, <2>2, <2>3
<1>13. CASE t.red[x]
    <2>1. Black(t, x) = 0 /\ b[x] = b[c]
        BY <1>11, <1>13 DEF Black
    <2>2. Balanced(u, b, NULL, "left")
        <3>1. ASSUME NEW m \in Nodes(u), NEW d \in Sides
              PROVE  b[m] = b[u.kid[m][d]] + Black(u, m) + Lack(NULL, "left", m, d)
            <4>1. Lack(NULL, "left", m, d) = 0
                BY <1>12, <3>1 DEF Lack
            <4>2. b[u.kid[m][d]] = b[t.kid[m][d]]
                BY <1>12, <2>1, <3>1
            <4>. QED  BY <1>12, <3>1, <4>1, <4>2
        <3>. QED  BY <1>11, <3>1 DEF Balanced
    <2>3. ~IsRed(t, c) /\ x # t.root
        BY <1>1, <1>3, <1>5, <1>13 DEF Coloured, IsRed
    <2>4. ~IsRed(u, c)
        BY <1>4, <1>6, <2>3
    <2>5. Clean(u, NULL)
        <3>1. SUFFICES ASSUME NEW n \in Nodes(u), NEW d \in Sides, u.red[n],
                              IsRed(u, u.kid[n][d])
              PROVE  FALSE
            BY DEF Clean
        <3>2. n = c
            BY <1>8, <2>4, <3>1 DEF Clean
        <3>3. n # NULL
            BY <1>1 DEF Nodes
        <3>. QED  BY <2>4, <3>1, <3>2, <3>3 DEF IsRed
    <2>6. ~IsRed(u, u.root)
        BY <1>9, <2>4
    <2>7. Coloured(u)
        BY <2>2, <2>5, <2>6, EvenIs DEF Coloured
    <2>. QED  BY <1>13, <2>7
<1>14. CASE ~t.red[x]
    <2>1. b[x] = b[c] + 1
        BY <1>11, <1>14 DEF Black
    <2>2. CASE x = t.root
        <3>1. u.root = c
            BY <1>2, <2>2
        <3>2. ASSUME NEW m \in Nodes(u), NEW d \in Sides
              PROVE  b[m] = b[u.kid[m][d]] + Black(u, m) + Lack(NULL, "left", m, d)
            <4>1. Lack(NULL, "left", m, d) = 0
                BY <1>12, <3>2 DEF Lack
            <4>2. t.kid[m][d] # x
                BY <1>1, <1>12, <2>2, <3>2, KidFacts
            <4>. QED  BY <1>12, <3>2, <4>1, <4>2
        <3>3. Balanced(u, b, NULL, "left")
            BY <1>11, <3>2 DEF Balanced
        <3>4. Even(u)
            BY <3>3, EvenIs
        <3>. QED  BY <1>8, <1>9, <1>14, <3>1, <3>4 DEF EraseState
    <2>3. CASE x # t.root
        <3>1. PICK p : p = t.parent[x]
            OBVIOUS
        <3>2. p \in Nodes(t) /\ p \in PCB
            BY <1>1, <2>3, <3>1, ParentFacts
        <3>3. PICK s : s = SideBelow(t, p, x)
            OBVIOUS
        <3>4. s \in Sides /\ t.kid[p][s] = x
            BY <1>1, <2>3, <3>1, <3>3, ParentFacts DEF SideBelow, Sides
        <3>5. p # x
            BY <1>1, <3>2, <3>4, NoLoops
        <3>6. p \in Nodes(u) /\ u.kid[p][s] = c
            BY <1>1, <1>2, <3>2, <3>4, <3>5
        <3>7. ASSUME NEW m \in Nodes(u), NEW d \in Sides
              PROVE  b[m] = b[u.kid[m][d]] + Black(u, m) + Lack(p, s, m, d)
            <4>1. CASE m = p /\ d = s
                <5>1. Lack(p, s, m, d) = 1
                    BY <4>1 DEF Lack
                <5>2. b[m] = b[x] + Black(u, m) /\ Black(u, m) \in Nat
                    BY <1>12, <3>4, <3>7, <4>1
                <5>. QED  BY <1>11, <2>1, <3>6, <4>1, <5>1, <5>2
            <4>2. CASE ~ (m = p /\ d = s)
                <5>1. Lack(p, s, m, d) = 0
                    BY <4>2 DEF Lack
                <5>2. t.kid[m][d] # x
                    <6>1. SUFFICES ASSUME t.kid[m][d] = x PROVE FALSE
                        OBVIOUS
                    <6>2. m = p
                        BY <1>1, <1>12, <3>1, <3>7, <6>1, KidFacts
                    <6>3. t.kid[p][d] # t.kid[p][Other(d)]
                        BY <1>1, <3>2, <6>1, <6>2, KidFacts
                    <6>4. s = Other(d)
                        BY <3>4, <3>7, <4>2, <6>2 DEF Other, Sides
                    <6>. QED  BY <3>4, <6>1, <6>2, <6>3, <6>4
                <5>. QED  BY <1>12, <3>7, <5>1, <5>2
            <4>. QED  BY <4>1, <4>2
        <3>8. Balanced(u, b, p, s)
            BY <1>11, <3>7 DEF Balanced
        <3>9. SideBelow(u, p, c) = s
            BY <1>2, <3>4, <3>6, <3>8, LackingSide
        <3>10. Lacking(u, c, p)
            BY <3>6, <3>8, <3>9 DEF Lacking
        <3>11. c # u.root
            <4>1. c # NULL => c # t.root
                BY <1>1, <1>3, KidFacts
            <4>2. t.root # NULL
                <5>1. \A m \in Nodes(t) : Span(e, m) \in Nat /\ Span(e, m) < Len(q) /\ Len(q) \in Nat
                    BY NodePlaces
                <5>2. Len(q) # 0
                    BY <5>1
                <5>. QED  BY <5>2 DEF Ordered, Places
            <4>. QED  BY <1>2, <2>3, <4>1, <4>2
        <3>. QED  BY <1>8, <1>9, <1>14, <3>1, <3>10, <3>11 DEF EraseState
    <2>. QED  BY <2>2, <2>3
<1>. QED  BY <1>13, <1>14

(* Putting x in the place of y changes none of this: y is x from then on.  *)
LEMMA ReplaceBalanced ==
    ASSUME NEW t, NEW q, NEW pos, NEW e, Ordered(t, q, pos, e),
           NEW y \in Nodes(t), NEW x \in PCB, x \notin Nodes(t),
           NEW u, Replaced(t, y, x, u),
           NEW b, NEW p, p \in Nodes(t) \cup {NULL}, NEW d, Balanced(t, b, p, d)
    PROVE  \E c : Balanced(u, c, IF p = y THEN x ELSE p, d)
<1>1. /\ Nodes(u) = (Nodes(t) \ {y}) \cup {x} /\ Shaped(t) /\ IsTree(t) /\ NULL \notin PCB
      /\ y \in PCB /\ x # NULL /\ x # y /\ y # NULL
    BY ReplaceShaped, NodePlaces, NodesAssumption DEF Ordered, Shaped
<1>2. /\ \A m \in PCB, a \in Sides :
            u.kid[m][a] = IF m = y THEN NULL ELSE IF m = x THEN t.kid[y][a]
                          ELSE IF t.kid[m][a] = y THEN x ELSE t.kid[m][a]
      /\ u.red[x] = t.red[y] /\ \A m \in PCB : m # x /\ m # y => u.red[m] = t.red[m]
    BY DEF Replaced
<1>3. b \in [Ptr -> Nat] /\ b[NULL] = 0 /\ x \in Ptr /\ y \in Ptr /\ NULL \in Ptr
    BY <1>1 DEF Balanced, Ptr
<1>4. PICK c : c = [b EXCEPT ![x] = b[y]]
    OBVIOUS
<1>5. c \in [Ptr -> Nat] /\ c[NULL] = 0 /\ c[x] = b[y] /\ \A m \in Ptr : m # x => c[m] = b[m]
    BY <1>1, <1>3, <1>4
<1>6. PICK p1 : p1 = IF p = y THEN x ELSE p
    OBVIOUS
<1>7. p # x
    BY <1>1
<1>8. ASSUME NEW m \in Nodes(u), NEW a \in Sides
      PROVE  c[m] = c[u.kid[m][a]] + Black(u, m) + Lack(p1, d, m, a)
    <2>1. PICK z : z = IF m = x THEN y ELSE m
        OBVIOUS
    <2>2. z \in Nodes(t) /\ z # x /\ z \in PCB /\ m \in PCB /\ m # y
        BY <1>1, <2>1 DEF Nodes
    <2>3. /\ b[z] \in Nat /\ b[t.kid[z][a]] \in Nat /\ t.kid[z][a] \in Ptr /\ z \in Ptr
          /\ b[z] = b[t.kid[z][a]] + Black(t, z) + Lack(p, d, z, a)
        BY <1>1, <2>2, BalancedNode
    <2>4. c[m] = b[z]
        BY <1>5, <2>1, <2>2, <2>3
    <2>5. t.kid[z][a] # x
        BY <1>1, <2>2, KidFacts
    <2>6. t.kid[y][a] # y
        BY <1>1, NoLoops
    <2>7. u.kid[m][a] = IF t.kid[z][a] = y THEN x ELSE t.kid[z][a]
        BY <1>2, <2>1, <2>2, <2>6
    <2>8. c[u.kid[m][a]] = b[t.kid[z][a]]
        BY <1>5, <2>3, <2>5, <2>7
    <2>9. Black(u, m) = Black(t, z)
        BY <1>2, <2>1, <2>2 DEF Black
    <2>10. m = p1 <=> z = p
        BY <1>6, <1>7, <2>1, <2>2
    <2>11. Lack(p1, d, m, a) = Lack(p, d, z, a)
        BY <2>10 DEF Lack
    <2>. QED  BY <2>3, <2>4, <2>8, <2>9, <2>11
<1>9. Balanced(u, c, p1, d)
    BY <1>5, <1>8 DEF Balanced
<1>. QED  BY <1>6, <1>9

(* Putting a node in the place and colour of another keeps the colours.    *)
LEMMA ReplaceColours ==
    ASSUME NEW t, NEW q, NEW pos, NEW e, Ordered(t, q, pos, e),
           NEW y \in Nodes(t), NEW x \in PCB, x \notin Nodes(t),
           NEW u, Replaced(t, y, x, u)
    PROVE  /\ Coloured(t) => Coloured(u)
           /\ \A c, p : c # x /\ c # y /\ EraseState(t, c, p) =>
                           EraseState(u, c, IF p = y THEN x ELSE p)
<1>1. /\ Nodes(u) = (Nodes(t) \ {y}) \cup {x} /\ Shaped(t) /\ IsTree(t) /\ NULL \notin PCB
      /\ y \in PCB /\ x # NULL /\ x # y /\ y # NULL /\ Shaped(u) /\ IsTree(u)
    BY ReplaceShaped, NodePlaces, NodesAssumption DEF Ordered, Shaped
<1>2. /\ u.root = IF y = t.root THEN x ELSE t.root
      /\ \A m \in PCB, a \in Sides :
            u.kid[m][a] = IF m = y THEN NULL ELSE IF m = x THEN t.kid[y][a]
                          ELSE IF t.kid[m][a] = y THEN x ELSE t.kid[m][a]
      /\ u.red[x] = t.red[y] /\ \A m \in PCB : m # x /\ m # y => u.red[m] = t.red[m]
    BY DEF Replaced
<1>3. Even(t) => Even(u)
    <2>1. SUFFICES ASSUME Even(t) PROVE Even(u)
        OBVIOUS
    <2>2. PICK b : Balanced(t, b, NULL, "left")
        BY <2>1 DEF Even
    <2>3. PICK c : Balanced(u, c, IF NULL = y THEN x ELSE NULL, "left")
        BY <2>2, ReplaceBalanced
    <2>. QED  BY <1>1, <2>3, EvenIs
<1>4. ASSUME NEW k \in Ptr, k # x, NEW j, j = IF k = y THEN x ELSE k
      PROVE  IsRed(u, j) <=> IsRed(t, k)
    <2>1. CASE k = y
        BY <1>1, <1>2, <1>4, <2>1 DEF IsRed
    <2>2. CASE k # y
        BY <1>1, <1>2, <1>4, <2>2 DEF IsRed, Ptr
    <2>. QED  BY <2>1, <2>2
<1>5. t.root \in Ptr /\ t.root # x
    BY <1>1, TreeFields DEF Nodes
<1>6. IsRed(u, u.root) <=> IsRed(t, t.root)
    <2>1. u.root = IF t.root = y THEN x ELSE t.root
        BY <1>2
    <2>. QED  BY <1>4, <1>5, <2>1
<1>7. ASSUME NEW c, c # x, c # y, Clean(t, c)
      PROVE  Clean(u, c)
    <2>1. SUFFICES ASSUME NEW m \in Nodes(u), NEW a \in Sides, u.red[m],
                          IsRed(u, u.kid[m][a])
          PROVE  m = c \/ u.kid[m][a] = c
        BY DEF Clean
    <2>2. PICK z : z = IF m = x THEN y ELSE m
        OBVIOUS
    <2>3. z \in Nodes(t) /\ z # x /\ z \in PCB /\ m \in PCB /\ m # y
        BY <1>1, <2>2 DEF Nodes
    <2>4. t.kid[z][a] # x /\ t.kid[z][a] \in Ptr
        <3>1. t.kid[z][a] \in Ptr
            BY <1>1, <2>3, TreeFields
        <3>. QED  BY <1>1, <2>3, <3>1, KidFacts
    <2>5. t.kid[y][a] # y
        BY <1>1, NoLoops
    <2>6. u.kid[m][a] = IF t.kid[z][a] = y THEN x ELSE t.kid[z][a]
        BY <1>2, <2>2, <2>3, <2>5
    <2>7. IsRed(t, t.kid[z][a])
        BY <1>4, <2>1, <2>4, <2>6
    <2>8. t.red[z]
        BY <1>2, <2>1, <2>2, <2>3
    <2>9. z = c \/ t.kid[z][a] = c
        BY <1>7, <2>3, <2>7, <2>8 DEF Clean
    <2>. QED  BY <1>7, <2>2, <2>6, <2>9
<1>8. Coloured(t) => Coloured(u)
    BY <1>1, <1>3, <1>6, <1>7 DEF Coloured
<1>9. ASSUME NEW c, NEW p, c # x, c # y, EraseState(t, c, p)
      PROVE  EraseState(u, c, IF p = y THEN x ELSE p)
    <2>1. PICK p1 : p1 = IF p = y THEN x ELSE p
        OBVIOUS
    <2>2. Clean(u, c)
        BY <1>7, <1>9 DEF EraseState
    <2>3. c = u.root <=> c = t.root
        BY <1>2, <1>9
    <2>4. IsRed(u, u.root) => u.root = c
        BY <1>6, <1>9, <2>3 DEF EraseState
    <2>5. ASSUME c # t.root
          PROVE  Lacking(u, c, p1)
        <3>1. PICK s : s = SideBelow(t, p, c)
            OBVIOUS
        <3>2. /\ p \in Nodes(t) /\ t.kid[p][s] = c /\ s \in Sides
              /\ \E b : Balanced(t, b, p, s)
            BY <1>9, <2>5, <3>1 DEF EraseState, Lacking, SideBelow, Sides
        <3>3. PICK b : Balanced(t, b, p, s)
            BY <3>2
        <3>4. PICK b1 : Balanced(u, b1, p1, s)
            BY <2>1, <3>2, <3>3, ReplaceBalanced
        <3>5. p1 \in Nodes(u) /\ p \in PCB
            BY <1>1, <2>1, <3>2 DEF Nodes
        <3>6. u.kid[p1][s] = c
            <4>1. p # x
                BY <3>2
            <4>. QED  BY <1>1, <1>2, <1>9, <2>1, <3>2, <3>5, <4>1
        <3>7. SideBelow(u, p1, c) = s
            <4>1. IsTree(u) /\ s \in Sides
                BY <1>1, <3>2
            <4>2. SideBelow(u, p1, u.kid[p1][s]) = s
                BY ONLY <3>4, <3>5, <4>1, LackingSide
            <4>. QED  BY <3>6, <4>2
        <3>. QED  BY <3>4, <3>5, <3>6, <3>7 DEF Lacking
    <2>6. EraseState(u, c, p1)
        BY <1>3, <1>9, <2>2, <2>3, <2>4, <2>5 DEF EraseState
    <2>. QED  BY <2>1, <2>6
<1>. QED  BY <1>8, <1>9

(* So rb_erase goes into its loop with a tree that is as the loop wants it, *)
(* or leaves a red-black tree.                                             *)
LEMMA UnlinkedColours ==
    ASSUME NEW t, NEW q, NEW pos, NEW e, Ordered(t, q, pos, e), Coloured(t),
           NEW y \in Nodes(t), NEW w, w = Unlinked(t, y)
    PROVE  IF w.black THEN EraseState(w.tree, w.child, w.parent) ELSE Coloured(w.tree)
<1>1. CASE ErasesItself(t, y, w)
    <2>1. PICK c : /\ OnlyKid(t, y, c) /\ CutOut(t, y, c, w.tree)
                   /\ w.child = c /\ w.parent = t.parent[y] /\ w.black = ~t.red[y]
        BY <1>1 DEF ErasesItself
    <2>2. IF t.red[y] THEN Coloured(w.tree) ELSE EraseState(w.tree, c, t.parent[y])
        BY <2>1, CutColours
    <2>. QED  BY <2>1, <2>2
<1>2. CASE ErasesSuccessor(t, y, w)
    <2>1. PICK x, c, v : /\ Successor(t, y, x, c) /\ CutOut(t, x, c, v)
                         /\ Replaced(v, y, x, w.tree)
                         /\ w.child = c /\ w.black = ~t.red[x]
                         /\ w.parent = IF x = t.kid[y]["right"] THEN x ELSE t.parent[x]
        BY <1>2 DEF ErasesSuccessor
    <2>2. /\ x \in Nodes(t) /\ x # y /\ OnlyKid(t, x, c) /\ x # t.root
          /\ t.kid[x]["left"] = NULL /\ pos[x] = pos[y] + 1
          /\ x # t.kid[y]["right"] => t.parent[x] # y
        BY <2>1, SuccessorFacts
    <2>3. IF t.red[x] THEN Coloured(v) ELSE EraseState(v, c, t.parent[x])
        <3>1. Ordered(t, q, pos, e) /\ Coloured(t) /\ x \in Nodes(t) /\ OnlyKid(t, x, c)
              /\ CutOut(t, x, c, v)
            BY <2>1, <2>2
        <3>. QED  BY ONLY <3>1, CutColours
    <2>4. Nodes(v) = Nodes(t) \ {x}
          /\ Ordered(v, Removed(q, pos[x]), CutPos(pos[x], pos), CutEnds(pos[x], e))
        BY <2>1, <2>2, CutOrdered
    <2>5. x \in PCB /\ y \in PCB /\ x # NULL /\ y # NULL /\ Shaped(t)
          /\ "right" \in Sides /\ "left" \in Sides
        BY <2>2, NodePlaces DEF Ordered, Sides
    <2>6. x = t.kid[y]["right"] => t.parent[x] = y
        BY <2>5, KidFacts
    <2>7. c = t.kid[x]["right"]
        BY <2>1 DEF Successor
    <2>8. c # x /\ c # y
        <3>1. c # NULL => c # x /\ c \in Nodes(t)
            BY <2>5, <2>7, NoLoops, KidFacts
        <3>2. ASSUME c = y
              PROVE  FALSE
            <4>1. c # NULL
                BY <2>5, <3>2
            <4>2. e[c]["left"] = pos[x] + 1
                BY <2>2, <2>7, <4>1 DEF Ordered, Divided
            <4>3. e[c]["left"] \in Int /\ e[c]["left"] <= pos[c] /\ pos[c] \in Int
                  /\ pos[y] \in Int
                BY <3>1, <4>1, NodePlaces
            <4>. QED  BY <2>2, <3>2, <4>2, <4>3
        <3>. QED  BY <2>5, <3>1, <3>2
    <2>9. /\ Coloured(v) => Coloured(w.tree)
          /\ \A c1, p : c1 # x /\ c1 # y /\ EraseState(v, c1, p) =>
                           EraseState(w.tree, c1, IF p = y THEN x ELSE p)
        <3>1. y \in Nodes(v) /\ x \notin Nodes(v) /\ Replaced(v, y, x, w.tree)
            BY <2>1, <2>2, <2>4
        <3>. QED  BY ONLY <2>4, <2>5, <3>1, ReplaceColours
    <2>10. w.parent = IF t.parent[x] = y THEN x ELSE t.parent[x]
        BY <2>1, <2>2, <2>6
    <2>. QED  BY <2>1, <2>3, <2>8, <2>9, <2>10
<1>. QED  BY <1>1, <1>2, UnlinkedCases

(* What a pass of the loop starts with: nothing but the black node lacking *)
(* below p on side s, where child hangs.                                   *)
EraseReady(t, child, p, s) ==
    /\ p \in Nodes(t) /\ s \in Sides /\ t.kid[p][s] = child /\ ~IsRed(t, child)
    /\ Clean(t, NULL) /\ ~IsRed(t, t.root)
    /\ \E b : Balanced(t, b, p, s)

(* That is so in every pass.                                               *)
LEMMA PassReady ==
    ASSUME NEW t, NEW child, NEW p, EraseState(t, child, p), LacksBlack(t, child)
    PROVE  EraseReady(t, child, p, SideBelow(t, p, child))
<1>1. child # t.root /\ ~IsRed(t, child)
    BY DEF LacksBlack
<1>2. Lacking(t, child, p) /\ Clean(t, child) /\ ~IsRed(t, t.root)
    BY <1>1 DEF EraseState
<1>3. Clean(t, NULL)
    BY <1>1, <1>2, NodesAssumption DEF Clean, IsRed, Nodes
<1>4. SideBelow(t, p, child) \in Sides
    BY DEF SideBelow, Sides
<1>. QED  BY <1>1, <1>2, <1>3, <1>4 DEF EraseReady, Lacking

(* The sibling is there, whatever its colour.                              *)
LEMMA Sibling ==
    ASSUME NEW t, NEW q, NEW pos, NEW e, Ordered(t, q, pos, e),
           NEW child, NEW p, NEW s, EraseReady(t, child, p, s),
           NEW z, z = t.kid[p][Other(s)]
    PROVE  /\ z # NULL /\ z \in PCB /\ z \in Nodes(t) /\ z # p /\ z # child
           /\ t.parent[z] = p /\ z # t.root
           /\ p \in PCB /\ p # NULL /\ p \in Nodes(t) /\ child # p /\ child \in Ptr
           /\ s \in Sides /\ Other(s) \in Sides /\ Other(s) # s /\ Other(Other(s)) = s
           /\ \A d \in Sides : t.kid[z][d] # p /\ t.kid[z][d] # z /\ t.kid[z][d] \in Ptr
           /\ \A d \in Sides : d = s \/ d = Other(s)
<1>1. p \in Nodes(t) /\ s \in Sides /\ t.kid[p][s] = child
    BY DEF EraseReady
<1>2. PICK b : Balanced(t, b, p, s)
    BY DEF EraseReady
<1>3. Other(s) \in Sides /\ Other(s) # s /\ Other(Other(s)) = s
      /\ \A d \in Sides : d = s \/ d = Other(s)
    BY <1>1 DEF Other, Sides
<1>4. Shaped(t) /\ IsTree(t) /\ p \in PCB /\ p # NULL
    BY <1>1, NodePlaces DEF Ordered, Shaped
<1>5. z # NULL /\ z # child
    BY <1>1, <1>2, <1>4, LackingSide
<1>6. z \in PCB /\ z \in Nodes(t) /\ t.parent[z] = p /\ z # t.root
    BY <1>3, <1>4, <1>5, KidFacts
<1>7. z # p /\ \A d \in Sides : t.kid[z][d] # p /\ t.kid[z][d] # z
    BY <1>3, <1>4, <1>5, NoLoops
<1>8. child # p /\ child \in Ptr
    BY <1>1, <1>4, NoLoops, TreeFields
<1>9. \A d \in Sides : t.kid[z][d] \in Ptr
    BY <1>4, <1>6, TreeFields
<1>. QED  BY <1>1, <1>3, <1>4, <1>5, <1>6, <1>7, <1>8, <1>9

(* No two red neighbours, spelled out.                                     *)
LEMMA CleanIs ==
    ASSUME NEW t, Clean(t, NULL), NEW n \in Nodes(t), NEW d \in Sides, t.red[n]
    PROVE  ~IsRed(t, t.kid[n][d])
    BY NodesAssumption DEF Clean, IsRed, Nodes

(* n goes down red on side s, up comes up black, and what is lacking       *)
(* elsewhere is as it was.                                                 *)
Swapped(t, n, s, up, u) ==
    /\ Turned(t, n, s, up, u)
    /\ Clean(u, NULL) /\ ~IsRed(u, u.root)
    /\ IsRed(u, n) /\ ~IsRed(u, up)
    /\ \A m \in Ptr : m # n => (IsRed(u, m) => IsRed(t, m))
    /\ \A b, p, d : Balanced(t, b, p, d) /\ p # up /\ (p = n => d = s) =>
                       \E c : Balanced(u, c, p, d)

(* What a rotation with the change of colours leaves, as far as it is the  *)
(* same for the first and the second rotation of a pass.                   *)
LEMMA SwapColours ==
    ASSUME NEW t, NEW q, NEW pos, NEW e, Ordered(t, q, pos, e), Clean(t, NULL),
           ~IsRed(t, t.root), NEW n \in PCB, NEW s \in Sides,
           NEW up, up = t.kid[n][Other(s)], up # NULL,
           RedOnBlack(t, n, up), ~IsRed(t, t.kid[n][s]),
           NEW u, u = Rotate(Painted(Painted(t, {up}, FALSE), {n}, TRUE), n, s)
    PROVE  Swapped(t, n, s, up, u) /\ \E e1 : Ordered(u, q, pos, e1)
<1>1. PICK o : o = Other(s)
    OBVIOUS
<1>2. PICK v : v = Painted(Painted(t, {up}, FALSE), {n}, TRUE)
    OBVIOUS
<1>3. Shaped(t) /\ IsTree(t) /\ o \in Sides /\ o # s /\ \A d \in Sides : d = s \/ d = o
    BY <1>1 DEF Ordered, Shaped, Sides, Other
<1>4. up \in PCB /\ n \in Nodes(t) /\ up \in Nodes(t) /\ n # up /\ n # NULL
      /\ \A d \in Sides : t.kid[up][d] # n /\ t.kid[up][d] # up
    BY <1>1, <1>3, KidFacts, NoLoops, NodesAssumption
<1>5. Recoloured(t, {up}, {n}, v)
    BY ONLY <1>2, <1>3, PaintedBoth
<1>6. /\ SameLinks(t, v) /\ v.red[n] = TRUE /\ v.red[up] = FALSE
      /\ \A m \in PCB : m # n /\ m # up => v.red[m] = t.red[m]
    BY <1>4, <1>5 DEF Recoloured
<1>7. Turned(t, n, s, up, u) /\ u.red = v.red /\ \E e1 : Ordered(u, q, pos, e1)
    <2>1. Ordered(t, q, pos, e) /\ s \in Sides /\ n \in PCB /\ t.kid[n][Other(s)] # NULL
          /\ SameLinks(t, v) /\ u = Rotate(v, n, s) /\ up = t.kid[n][Other(s)]
        BY <1>2, <1>6
    <2>2. Turned(t, n, s, t.kid[n][Other(s)], u) /\ u.red = v.red
          /\ \E e1 : Ordered(u, q, pos, e1)
        BY ONLY <2>1, RotateTurns
    <2>. QED  BY <2>1, <2>2
<1>8. /\ u.red[n] = TRUE /\ u.red[up] = FALSE
      /\ \A m \in PCB : m # n /\ m # up => u.red[m] = t.red[m]
    BY <1>6, <1>7
<1>9. IsRed(u, n) /\ ~IsRed(u, up) /\ \A m \in Ptr : m # n => (IsRed(u, m) => IsRed(t, m))
    BY Zenon, <1>4, <1>8 DEF IsRed, Ptr
<1>10. /\ Nodes(u) = Nodes(t) /\ u.root = IF n = t.root THEN up ELSE t.root
       /\ u.kid[n][s] = t.kid[n][s] /\ u.kid[n][o] = t.kid[up][s]
       /\ \A m \in Nodes(t) \ {n, up}, d \in Sides :
             u.kid[m][d] = IF t.kid[m][d] = n THEN up ELSE t.kid[m][d]
    BY Zenon, <1>1, <1>7 DEF Turned
<1>11. \A m \in PCB, d \in Sides : t.kid[m][d] \in Ptr
    BY <1>3, TreeFields
<1>12. Clean(u, NULL)
    <2>1. SUFFICES ASSUME NEW m \in Nodes(t), NEW d \in Sides, u.red[m],
                          IsRed(u, u.kid[m][d])
          PROVE  FALSE
        BY <1>10 DEF Clean
    <2>2. m \in PCB /\ m # up
        BY Zenon, <1>8, <2>1 DEF Nodes
    <2>3. CASE m = n
        <3>1. ~IsRed(t, t.kid[up][s])
            BY <1>4, CleanIs DEF RedOnBlack
        <3>2. t.kid[n][s] # n
            BY <1>4, NoLoops
        <3>3. ~IsRed(u, t.kid[n][s]) /\ ~IsRed(u, t.kid[up][s])
            BY <1>4, <1>9, <1>11, <3>1, <3>2
        <3>. QED  BY <1>3, <1>10, <2>1, <2>3, <3>3
    <2>4. CASE m # n
        <3>1. u.kid[m][d] = IF t.kid[m][d] = n THEN up ELSE t.kid[m][d]
            BY <1>10, <2>1, <2>2, <2>4
        <3>2. t.kid[m][d] # n /\ u.kid[m][d] = t.kid[m][d]
            BY <1>9, <2>1, <3>1
        <3>3. IsRed(t, t.kid[m][d])
            BY <1>9, <1>11, <2>1, <2>2, <3>2
        <3>4. t.red[m]
            BY <1>8, <2>1, <2>2, <2>4
        <3>. QED  BY <2>1, <3>3, <3>4, CleanIs
    <2>. QED  BY <2>3, <2>4
<1>13. ~IsRed(u, u.root)
    <2>1. t.root \in Ptr
        BY <1>3, TreeFields
    <2>. QED  BY <1>9, <1>10, <2>1
<1>14. ASSUME NEW b, NEW p, NEW d, Balanced(t, b, p, d), p # up, p = n => d = s
       PROVE  \E c : Balanced(u, c, p, d)
    <2>1. TradeColours(t, n, up, u)
        BY <1>8 DEF Nodes, TradeColours, RedOnBlack
    <2>2. Ordered(t, q, pos, e) /\ s \in Sides /\ Turned(t, n, s, up, u)
        BY <1>7
    <2>3. Balanced(u, [b EXCEPT ![n] = b[up], ![up] = b[n]], p, d)
        BY ONLY Zenon, <1>14, <2>1, <2>2, SwapBalanced
    <2>. QED  BY <2>3
<1>. QED  BY <1>7, <1>9, <1>12, <1>13, <1>14 DEF Swapped

(* A red sibling comes up, and the pass goes on with a black one.          *)
LEMMA RedSibling ==
    ASSUME NEW t, NEW q, NEW pos, NEW e, Ordered(t, q, pos, e),
           NEW child, NEW p, NEW s, EraseReady(t, child, p, s),
           NEW z, z = t.kid[p][Other(s)], IsRed(t, z),
           NEW u, u = Rotate(Painted(Painted(t, {z}, FALSE), {p}, TRUE), p, s)
    PROVE  /\ EraseReady(u, child, p, s) /\ ~IsRed(u, u.kid[p][Other(s)])
           /\ IsRed(u, p) /\ \E e1 : Ordered(u, q, pos, e1)
<1>1. /\ z # NULL /\ z \in PCB /\ z \in Nodes(t) /\ z # p
      /\ p \in PCB /\ p # NULL /\ p \in Nodes(t) /\ child # p /\ child \in Ptr
      /\ s \in Sides /\ Other(s) \in Sides /\ Other(s) # s /\ Other(Other(s)) = s
      /\ \A d \in Sides : t.kid[z][d] # p /\ t.kid[z][d] # z /\ t.kid[z][d] \in Ptr
    BY Sibling
<1>2. /\ t.kid[p][s] = child /\ ~IsRed(t, child) /\ Clean(t, NULL) /\ ~IsRed(t, t.root)
      /\ \E b : Balanced(t, b, p, s)
    BY DEF EraseReady
<1>3. RedOnBlack(t, p, z)
    <2>1. t.red[p] \in BOOLEAN /\ t.red[z] \in BOOLEAN
        BY <1>1, TreeFields DEF Ordered, Shaped
    <2>2. ~t.red[p]
        BY <1>1, <1>2, CleanIs DEF IsRed
    <2>. QED  BY <2>1, <2>2 DEF IsRed, RedOnBlack
<1>4. /\ Turned(t, p, s, z, u) /\ \E e1 : Ordered(u, q, pos, e1)
      /\ Clean(u, NULL) /\ ~IsRed(u, u.root) /\ IsRed(u, p)
      /\ \A m \in Ptr : m # p => (IsRed(u, m) => IsRed(t, m))
      /\ \A b, p1, d : Balanced(t, b, p1, d) /\ p1 # z /\ (p1 = p => d = s) =>
                          \E c : Balanced(u, c, p1, d)
    <2>1. /\ Ordered(t, q, pos, e) /\ Clean(t, NULL) /\ ~IsRed(t, t.root) /\ p \in PCB
          /\ s \in Sides /\ z = t.kid[p][Other(s)] /\ z # NULL /\ ~IsRed(t, t.kid[p][s])
          /\ u = Rotate(Painted(Painted(t, {z}, FALSE), {p}, TRUE), p, s)
        BY <1>1, <1>2
    <2>2. Swapped(t, p, s, z, u) /\ \E e1 : Ordered(u, q, pos, e1)
        BY ONLY Zenon, <1>3, <2>1, SwapColours
    <2>. QED  BY <2>2 DEF Swapped
<1>5. Nodes(u) = Nodes(t) /\ u.kid[p][s] = child /\ u.kid[p][Other(s)] = t.kid[z][s]
    BY <1>2, <1>4 DEF Turned
<1>6. ~IsRed(u, t.kid[z][s])
    <2>1. ~IsRed(t, t.kid[z][s])
        BY <1>1, <1>2, <1>3, CleanIs DEF RedOnBlack
    <2>. QED  BY <1>1, <1>4, <2>1
<1>7. ~IsRed(u, child)
    BY <1>1, <1>2, <1>4
<1>8. \E c : Balanced(u, c, p, s)
    BY Zenon, <1>1, <1>2, <1>4
<1>9. EraseReady(u, child, p, s)
    BY Zenon, <1>1, <1>4, <1>5, <1>7, <1>8 DEF EraseReady
<1>. QED  BY <1>4, <1>5, <1>6, <1>9

(* A black sibling with a red child on the other side.                     *)
FarReady(t, child, p, s) ==
    /\ EraseReady(t, child, p, s) /\ ~IsRed(t, t.kid[p][Other(s)])
    /\ IsRed(t, t.kid[t.kid[p][Other(s)]][Other(s)])

(* A red nephew on child's side comes up, with the sibling as its red child *)
(* on the other side.                                                      *)
LEMMA NearNephew ==
    ASSUME NEW t, NEW q, NEW pos, NEW e, Ordered(t, q, pos, e),
           NEW child, NEW p, NEW s, EraseReady(t, child, p, s),
           NEW z, z = t.kid[p][Other(s)], ~IsRed(t, z),
           ~IsRed(t, t.kid[z][Other(s)]), NEW near, near = t.kid[z][s], IsRed(t, near),
           NEW u, u = Rotate(Painted(Painted(t, {near}, FALSE), {z}, TRUE), z, Other(s))
    PROVE  FarReady(u, child, p, s) /\ \E e1 : Ordered(u, q, pos, e1)
<1>1. /\ z # NULL /\ z \in PCB /\ z \in Nodes(t) /\ z # p /\ z # child
      /\ p \in PCB /\ p # NULL /\ p \in Nodes(t) /\ child # p /\ child \in Ptr
      /\ s \in Sides /\ Other(s) \in Sides /\ Other(s) # s /\ Other(Other(s)) = s
      /\ \A d \in Sides : t.kid[z][d] # p /\ t.kid[z][d] # z /\ t.kid[z][d] \in Ptr
    BY Sibling
<1>2. /\ t.kid[p][s] = child /\ ~IsRed(t, child) /\ Clean(t, NULL) /\ ~IsRed(t, t.root)
      /\ \E b : Balanced(t, b, p, s)
    BY DEF EraseReady
<1>3. PICK o : o = Other(s)
    OBVIOUS
<1>4. near = t.kid[z][Other(o)]
    BY <1>1, <1>3
<1>5. near # NULL /\ near \in PCB /\ near # p /\ near # z /\ o \in Sides
    BY Zenon, <1>1, <1>3, <1>4 DEF IsRed, Ptr
<1>6. RedOnBlack(t, z, near)
    <2>1. t.red[z] \in BOOLEAN /\ t.red[near] \in BOOLEAN
        <3>1. IsTree(t)
            BY Zenon DEF Ordered, Shaped
        <3>. QED  BY ONLY <1>1, <1>5, <3>1, TreeFields
    <2>. QED  BY Zenon, <1>1, <1>5, <2>1 DEF IsRed, RedOnBlack
<1>7. /\ Turned(t, z, o, near, u) /\ \E e1 : Ordered(u, q, pos, e1)
      /\ Clean(u, NULL) /\ ~IsRed(u, u.root) /\ IsRed(u, z) /\ ~IsRed(u, near)
      /\ \A m \in Ptr : m # z => (IsRed(u, m) => IsRed(t, m))
      /\ \A b, p1, d : Balanced(t, b, p1, d) /\ p1 # near /\ (p1 = z => d = o) =>
                          \E c : Balanced(u, c, p1, d)
    <2>1. /\ Ordered(t, q, pos, e) /\ Clean(t, NULL) /\ ~IsRed(t, t.root) /\ z \in PCB
          /\ o \in Sides /\ near = t.kid[z][Other(o)] /\ near # NULL /\ ~IsRed(t, t.kid[z][o])
          /\ u = Rotate(Painted(Painted(t, {near}, FALSE), {z}, TRUE), z, o)
        BY <1>1, <1>2, <1>3, <1>5, <1>4
    <2>2. Swapped(t, z, o, near, u) /\ \E e1 : Ordered(u, q, pos, e1)
        BY ONLY <1>6, <2>1, SwapColours
    <2>. QED  BY Zenon, <2>2 DEF Swapped
<1>8. /\ Nodes(u) = Nodes(t) /\ u.kid[near][o] = z
      /\ \A d \in Sides : u.kid[p][d] = IF t.kid[p][d] = z THEN near ELSE t.kid[p][d]
    BY Zenon, <1>1, <1>5, <1>7 DEF Turned
<1>9. u.kid[p][s] = child /\ u.kid[p][o] = near
    BY Zenon, <1>1, <1>2, <1>3, <1>8
<1>10. ~IsRed(u, child)
    BY Zenon, <1>1, <1>2, <1>7
<1>11. \E c : Balanced(u, c, p, s)
    BY Zenon, <1>1, <1>2, <1>5, <1>7
<1>12. EraseReady(u, child, p, s)
    BY Zenon, <1>1, <1>7, <1>8, <1>9, <1>10, <1>11 DEF EraseReady
<1>. QED  BY Zenon, <1>3, <1>7, <1>8, <1>9, <1>12 DEF FarReady

(* With black nephews the sibling gets red, and the black node is lacking  *)
(* above p.                                                                *)
LEMMA BlackNephews ==
    ASSUME NEW t, NEW q, NEW pos, NEW e, Ordered(t, q, pos, e),
           NEW child, NEW p, NEW s, EraseReady(t, child, p, s),
           NEW z, z = t.kid[p][Other(s)], ~IsRed(t, z),
           \A d \in Sides : ~IsRed(t, t.kid[z][d]),
           NEW u, Recoloured(t, {}, {z}, u)
    PROVE  EraseState(u, p, t.parent[p])
<1>1. /\ z # NULL /\ z \in PCB /\ z \in Nodes(t) /\ z # p /\ z # child
      /\ t.parent[z] = p /\ z # t.root
      /\ p \in PCB /\ p # NULL /\ p \in Nodes(t) /\ child # p /\ child \in Ptr
      /\ s \in Sides /\ Other(s) \in Sides /\ Other(s) # s /\ Other(Other(s)) = s
      /\ \A d \in Sides : t.kid[z][d] # p /\ t.kid[z][d] # z /\ t.kid[z][d] \in Ptr
      /\ \A d \in Sides : d = s \/ d = Other(s)
    BY Sibling
<1>2. /\ t.kid[p][s] = child /\ ~IsRed(t, child) /\ Clean(t, NULL) /\ ~IsRed(t, t.root)
      /\ \E b : Balanced(t, b, p, s)
    BY DEF EraseReady
<1>3. /\ u.kid = t.kid /\ u.root = t.root /\ u.parent = t.parent /\ IsTree(u)
      /\ u.red[z] = TRUE /\ \A m \in PCB : m # z => u.red[m] = t.red[m]
    BY <1>1 DEF Recoloured, SameLinks
<1>4. Nodes(u) = Nodes(t) /\ IsTree(t) /\ Shaped(t)
    BY <1>3 DEF Nodes, Ordered, Shaped
<1>5. \A m \in Ptr : m # z /\ IsRed(u, m) => IsRed(t, m)
    BY <1>3 DEF IsRed, Ptr
<1>6. Clean(u, p)
    <2>1. SUFFICES ASSUME NEW n \in Nodes(t), NEW d \in Sides, u.red[n],
                          IsRed(u, t.kid[n][d]), n # p, t.kid[n][d] # p
          PROVE  FALSE
        BY <1>3, <1>4 DEF Clean
    <2>2. PICK k : k = t.kid[n][d]
        OBVIOUS
    <2>3. n \in PCB /\ k # NULL
        BY <2>1, <2>2 DEF Nodes, IsRed
    <2>4. k \in PCB /\ t.parent[k] = n
        BY <1>4, <2>2, <2>3, KidFacts
    <2>5. k # z
        BY <1>1, <2>1, <2>4
    <2>6. IsRed(t, k)
        BY <1>5, <2>1, <2>2, <2>4, <2>5 DEF Ptr
    <2>7. n # z
        BY <2>2, <2>6
    <2>8. t.red[n]
        BY <1>3, <2>1, <2>3, <2>7
    <2>. QED  BY <1>2, <2>1, <2>2, <2>6, <2>8, CleanIs
<1>7. ~IsRed(u, u.root)
    BY <1>1, <1>2, <1>3, <1>4, <1>5, TreeFields
<1>8. PICK b : Balanced(t, b, p, s)
    BY <1>2
<1>9. b \in [Ptr -> Nat] /\ b[NULL] = 0
    BY <1>8 DEF Balanced
<1>10. b[z] = b[child] + 1 /\ b[child] \in Nat
    <2>1. b[t.kid[p][Other(s)]] = b[t.kid[p][s]] + 1
        BY <1>1, <1>4, <1>8, LackingSide
    <2>. QED  BY <1>1, <1>2, <1>9, <2>1
<1>11. PICK c : c = [m \in Ptr |-> IF m = z \/ m = p THEN b[m] - 1 ELSE b[m]]
    OBVIOUS
<1>12. ASSUME NEW m \in Nodes(t), NEW d \in Sides
       PROVE  /\ b[m] \in Nat /\ b[t.kid[m][d]] \in Nat /\ Black(t, m) \in Nat
              /\ b[m] = b[t.kid[m][d]] + Black(t, m) + Lack(p, s, m, d)
    <2>1. Black(t, m) \in Nat
        BY DEF Black
    <2>. QED  BY <1>4, <1>8, <2>1, BalancedNode
<1>13. b[p] \in Nat /\ b[z] \in Nat /\ b[p] >= 1 /\ b[z] >= 1
    <2>1. Lack(p, s, p, s) = 1
        BY DEF Lack
    <2>2. b[p] = b[child] + Black(t, p) + 1 /\ Black(t, p) \in Nat /\ b[p] \in Nat
        BY <1>1, <1>2, <1>12, <2>1
    <2>. QED  BY <1>10, <2>2
<1>14. /\ c \in [Ptr -> Nat] /\ c[NULL] = 0 /\ c[z] = b[z] - 1 /\ c[p] = b[p] - 1
       /\ \A m \in Ptr : m # z /\ m # p => c[m] = b[m]
    <2>1. NULL \in Ptr /\ z \in Ptr /\ p \in Ptr
        BY <1>1 DEF Ptr
    <2>2. \A m \in Ptr : b[m] \in Nat
        BY <1>9
    <2>3. \A m \in Ptr : (IF m = z \/ m = p THEN b[m] - 1 ELSE b[m]) \in Nat
        BY <1>13, <2>2
    <2>. QED  BY <1>1, <1>9, <1>11, <2>1, <2>3
<1>15. PICK g : g = t.parent[p]
    OBVIOUS
<1>16. PICK sd : sd = SideBelow(t, g, p)
    OBVIOUS
<1>17. \A m \in Nodes(t), d \in Sides : t.kid[m][d] = p <=> m = g /\ d = sd
    <2>1. SUFFICES ASSUME NEW m \in Nodes(t), NEW d \in Sides
          PROVE  t.kid[m][d] = p <=> m = g /\ d = sd
        OBVIOUS
    <2>2. m \in PCB /\ m # NULL /\ Other(d) \in Sides /\ (\A a \in Sides : a = d \/ a = Other(d))
        BY NodesAssumption DEF Nodes, Other, Sides
    <2>3. ASSUME t.kid[m][d] = p PROVE m = g /\ d = sd
        <3>1. m = g /\ t.kid[m][d] # t.kid[m][Other(d)]
            BY <1>1, <1>4, <1>15, <2>2, <2>3, KidFacts
        <3>. QED  BY <1>16, <2>3, <3>1 DEF SideBelow, Other, Sides
    <2>4. ASSUME m = g, d = sd PROVE t.kid[m][d] = p
        <3>1. p # t.root
            BY <1>1, <1>4, <1>15, <2>2, <2>4, ParentFacts
        <3>. QED  BY <1>1, <1>4, <1>15, <1>16, <2>4, <3>1, ParentFacts
    <2>. QED  BY <2>3, <2>4
<1>18. g # p
    <2>1. z # NULL /\ z = t.kid[p][Other(s)] /\ Other(s) \in Sides /\ p \in PCB
        BY <1>1
    <2>. QED  BY <1>15, <2>1, NoLoops
<1>19. g # z
    <2>1. p = t.root => g = NULL
        BY <1>1, <1>4, <1>15, ParentFacts
    <2>2. p # t.root => t.kid[g][sd] = p
        BY <1>1, <1>4, <1>15, <1>16, ParentFacts
    <2>3. sd \in Sides
        BY <1>16 DEF SideBelow, Sides
    <2>. QED  BY <1>1, <2>1, <2>2, <2>3
<1>20. ASSUME NEW m \in Nodes(t), NEW d \in Sides
       PROVE  c[m] = c[t.kid[m][d]] + Black(u, m) + Lack(g, sd, m, d)
    <2>1. PICK k : k = t.kid[m][d]
        OBVIOUS
    <2>2. m \in PCB /\ k \in Ptr /\ m \in Ptr
        BY <1>4, <2>1, TreeFields DEF Nodes, Ptr
    <2>3. k = z => m = p
        <3>1. k # NULL => t.parent[k] = m
            BY <1>4, <2>1, <2>2, KidFacts
        <3>. QED  BY <1>1, <3>1
    <2>4. m # z => Black(u, m) = Black(t, m)
        BY <1>3, <2>2 DEF Black
    <2>5. /\ b[m] \in Nat /\ b[k] \in Nat /\ Black(t, m) \in Nat
          /\ b[m] = b[k] + Black(t, m) + Lack(p, s, m, d)
        BY <1>12, <2>1
    <2>6. CASE m = p
        <3>1. Lack(g, sd, m, d) = 0 /\ Black(u, m) = Black(t, m) /\ c[m] = b[m] - 1
            BY <1>1, <1>14, <1>18, <2>4, <2>6 DEF Lack
        <3>2. CASE d = s
            <4>1. k = child /\ c[k] = b[k] /\ Lack(p, s, m, d) = 1
                BY <1>1, <1>2, <1>14, <2>1, <2>6, <3>2 DEF Lack
            <4>. QED  BY <2>1, <2>5, <3>1, <4>1
        <3>3. CASE d # s
            <4>1. k = z /\ Lack(p, s, m, d) = 0
                BY <1>1, <2>1, <2>6, <3>3 DEF Lack
            <4>2. c[k] = b[k] - 1
                BY <1>14, <4>1
            <4>. QED  BY <2>1, <2>5, <3>1, <4>1, <4>2
        <3>. QED  BY <3>2, <3>3
    <2>7. CASE m = z
        <3>1. Lack(g, sd, m, d) = 0 /\ Lack(p, s, m, d) = 0 /\ c[m] = b[m] - 1
            BY <1>1, <1>14, <1>19, <2>7 DEF Lack
        <3>2. Black(u, m) = 0 /\ Black(t, m) = 1
            BY <1>1, <1>3, <2>7 DEF Black, IsRed
        <3>3. c[k] = b[k]
            BY <1>1, <1>14, <2>1, <2>2, <2>7
        <3>. QED  BY <2>1, <2>5, <3>1, <3>2, <3>3
    <2>8. CASE m # p /\ m # z
        <3>1. Lack(p, s, m, d) = 0 /\ c[m] = b[m] /\ k # z /\ Black(u, m) = Black(t, m)
            BY <1>14, <2>2, <2>3, <2>4, <2>8 DEF Lack
        <3>2. CASE k = p
            <4>1. Lack(g, sd, m, d) = 1
                BY <1>17, <2>1, <3>2 DEF Lack
            <4>2. c[k] = b[k] - 1
                BY <1>14, <3>2
            <4>. QED  BY <2>1, <2>5, <3>1, <4>1, <4>2
        <3>3. CASE k # p
            <4>1. Lack(g, sd, m, d) = 0
                BY <1>17, <2>1, <3>3 DEF Lack
            <4>2. c[k] = b[k]
                BY <1>14, <2>2, <3>1, <3>3
            <4>. QED  BY <2>1, <2>5, <3>1, <4>1, <4>2
        <3>. QED  BY <3>2, <3>3
    <2>. QED  BY <2>6, <2>7, <2>8
<1>21. Balanced(u, c, g, sd)
    BY <1>3, <1>4, <1>14, <1>20 DEF Balanced
<1>22. CASE p = t.root
    <2>1. g = NULL
        BY <1>1, <1>4, <1>15, <1>22, ParentFacts
    <2>2. Even(u)
        BY <1>21, <2>1, EvenIs
    <2>. QED  BY <1>3, <1>6, <1>7, <1>22, <2>2 DEF EraseState
<1>23. CASE p # t.root
    <2>1. g \in Nodes(u) /\ t.kid[g][sd] = p
        BY <1>1, <1>4, <1>15, <1>16, <1>23, ParentFacts
    <2>2. SideBelow(u, g, p) = sd
        BY <1>3, <1>16 DEF SideBelow
    <2>3. Lacking(u, p, g)
        BY <1>3, <1>21, <2>1, <2>2 DEF Lacking
    <2>. QED  BY <1>3, <1>6, <1>7, <1>15, <1>23, <2>3 DEF EraseState
<1>. QED  BY <1>22, <1>23

(* A red nephew on the other side ends the loop: the sibling comes up in   *)
(* p's colour, and its two children are black.                             *)
LEMMA FarNephew ==
    ASSUME NEW t, NEW q, NEW pos, NEW e, Ordered(t, q, pos, e),
           NEW child, NEW p, NEW s, EraseReady(t, child, p, s),
           NEW z, z = t.kid[p][Other(s)], ~IsRed(t, z),
           NEW far, far = t.kid[z][Other(s)], IsRed(t, far),
           NEW u, u = Rotate(Painted([t EXCEPT !.red[z] = t.red[p]], {p, far}, FALSE), p, s)
    PROVE  /\ \E e1 : Ordered(u, q, pos, e1)
           /\ \A p1 : EraseState(u, u.root, p1)
<1>1. /\ z # NULL /\ z \in PCB /\ z \in Nodes(t) /\ z # p /\ z # t.root
      /\ p \in PCB /\ p # NULL /\ p \in Nodes(t)
      /\ s \in Sides /\ Other(s) \in Sides /\ Other(s) # s
      /\ \A d \in Sides : t.kid[z][d] # p /\ t.kid[z][d] # z /\ t.kid[z][d] \in Ptr
      /\ \A d \in Sides : d = s \/ d = Other(s)
    BY Sibling
<1>2. /\ Clean(t, NULL) /\ ~IsRed(t, t.root) /\ \E b : Balanced(t, b, p, s)
    BY DEF EraseReady
<1>3. far # NULL /\ far \in PCB /\ far # p /\ far # z /\ t.red[far]
    BY <1>1 DEF IsRed, Ptr
<1>4. IsTree(t) /\ Shaped(t)
    BY DEF Ordered, Shaped
<1>5. PICK w : w = [t EXCEPT !.red[z] = t.red[p]]
    OBVIOUS
<1>6. PICK v : v = Painted(w, {p, far}, FALSE)
    OBVIOUS
<1>7. /\ SameLinks(t, w) /\ w.red[z] = t.red[p] /\ \A m \in PCB : m # z => w.red[m] = t.red[m]
    <2>1. t \in [root : Ptr, kid : [PCB -> [Sides -> Ptr]], parent : [PCB -> Ptr],
                 red : [PCB -> BOOLEAN]]
        BY <1>4 DEF IsTree
    <2>2. PICK f : f = [t.red EXCEPT ![z] = t.red[p]]
        OBVIOUS
    <2>3. /\ f \in [PCB -> BOOLEAN] /\ f[z] = t.red[p]
          /\ \A m \in PCB : m # z => f[m] = t.red[m]
        BY <1>1, <2>1, <2>2
    <2>4. w = [t EXCEPT !.red = f]
        BY <1>5, <2>1, <2>2
    <2>5. w.root = t.root /\ w.kid = t.kid /\ w.parent = t.parent /\ w.red = f /\ IsTree(w)
        BY <2>1, <2>3, <2>4 DEF IsTree
    <2>. QED  BY <2>3, <2>5 DEF SameLinks
<1>8. /\ SameLinks(t, v) /\ v.red[z] = t.red[p] /\ v.red[p] = FALSE /\ v.red[far] = FALSE
      /\ \A m \in PCB : m # z /\ m # p /\ m # far => v.red[m] = t.red[m]
    <2>1. PICK R : R = {}
        OBVIOUS
    <2>2. IsTree(w)
        BY <1>7 DEF SameLinks
    <2>3. Recoloured(w, {p, far}, R, v)
        BY ONLY Zenon, <1>6, <2>1, <2>2, PaintedBlack
    <2>4. /\ SameLinks(w, v)
          /\ \A m \in PCB : m \in {p, far} => v.red[m] = FALSE
          /\ \A m \in PCB : m \notin {p, far} => v.red[m] = w.red[m]
        BY ONLY <2>1, <2>3 DEF Recoloured
    <2>5. SameLinks(t, v)
        BY ONLY <1>7, <2>4 DEF SameLinks
    <2>6. z \in PCB /\ p \in PCB /\ far \in PCB /\ z # p /\ z # far
        BY Zenon, <1>1, <1>3
    <2>. QED  BY ONLY <1>7, <2>4, <2>5, <2>6
<1>9. Turned(t, p, s, z, u) /\ u.red = v.red /\ \E e1 : Ordered(u, q, pos, e1)
    <2>1. Ordered(t, q, pos, e) /\ s \in Sides /\ p \in PCB /\ t.kid[p][Other(s)] # NULL
          /\ SameLinks(t, v) /\ u = Rotate(v, p, s)
        BY Zenon, <1>1, <1>5, <1>6, <1>8
    <2>2. Turned(t, p, s, t.kid[p][Other(s)], u) /\ u.red = v.red
          /\ \E e1 : Ordered(u, q, pos, e1)
        BY ONLY <2>1, RotateTurns
    <2>. QED  BY Zenon, <2>2
<1>10. /\ u.red[z] = t.red[p] /\ u.red[p] = FALSE /\ u.red[far] = FALSE
       /\ \A m \in PCB : m # z /\ m # p /\ m # far => u.red[m] = t.red[m]
    BY Zenon, <1>8, <1>9
<1>11. t.red[z] = FALSE /\ t.red[far] = TRUE
    <2>1. t.red[z] \in BOOLEAN /\ t.red[far] \in BOOLEAN
        BY <1>1, <1>3, <1>4, TreeFields
    <2>. QED  BY <1>1, <1>3, <2>1 DEF IsRed
<1>12. Even(u)
    <2>1. PICK b : Balanced(t, b, p, s)
        BY <1>2
    <2>2. \A m \in Nodes(t) : m # p /\ m # z /\ m # far => u.red[m] = t.red[m]
        BY Zenon, <1>10 DEF Nodes
    <2>3. /\ Ordered(t, q, pos, e) /\ s \in Sides /\ far = t.kid[z][Other(s)] /\ far # NULL
          /\ Turned(t, p, s, z, u) /\ FinalColours(t, p, z, far, u)
        BY Zenon, <1>1, <1>3, <1>9, <1>10, <1>11, <2>2 DEF FinalColours
    <2>4. \E c : Balanced(u, c, NULL, s)
        BY ONLY <2>1, <2>3, FinalBalanced
    <2>. QED  BY <2>4, EvenIs
<1>13. /\ Nodes(u) = Nodes(t) /\ u.root = IF p = t.root THEN z ELSE t.root
       /\ u.kid[z][s] = p /\ u.kid[z][Other(s)] = far
       /\ \A m \in Nodes(t) \ {p, z}, d \in Sides :
             /\ t.kid[m][d] # z
             /\ u.kid[m][d] = IF t.kid[m][d] = p THEN z ELSE t.kid[m][d]
    BY Zenon, <1>9 DEF Turned
<1>14. \A m \in Ptr : IsRed(u, m) /\ m # z => IsRed(t, m) /\ m # p /\ m # far
    BY Zenon, <1>10 DEF IsRed, Ptr
<1>15. Clean(u, u.root)
    <2>1. SUFFICES ASSUME NEW m \in Nodes(t), NEW d \in Sides, u.red[m], IsRed(u, u.kid[m][d])
          PROVE  FALSE
        BY ONLY <1>13, <2>1 DEF Clean
    <2>2. m \in PCB /\ m # p /\ m # far /\ m # NULL
        BY Zenon, <1>10, <2>1, NodesAssumption DEF Nodes
    <2>3. m # z
        <3>1. ~IsRed(u, p) /\ ~IsRed(u, far)
            BY Zenon, <1>10 DEF IsRed
        <3>2. \A a \in Sides : u.kid[z][a] = p \/ u.kid[z][a] = far
            BY Zenon, <1>1, <1>13
        <3>. QED  BY Zenon, <2>1, <3>1, <3>2
    <2>4. t.red[m]
        BY Zenon, <1>10, <2>1, <2>2, <2>3
    <2>5. CASE t.kid[m][d] = p
        <3>1. t.red[p]
            BY Zenon, <1>1, <1>10, <1>13, <2>1, <2>2, <2>3, <2>5 DEF IsRed
        <3>. QED  BY Zenon, <1>1, <1>2, <2>1, <2>4, <2>5, <3>1, CleanIs DEF IsRed
    <2>6. CASE t.kid[m][d] # p
        <3>1. u.kid[m][d] = t.kid[m][d] /\ t.kid[m][d] # z
            <4>1. m \in Nodes(t) \ {p, z}
                BY <2>2, <2>3
            <4>. QED  BY Zenon, <1>13, <2>6, <4>1
        <3>2. IsRed(t, t.kid[m][d])
            BY Zenon, <1>4, <1>14, <2>1, <2>2, <3>1, TreeFields
        <3>. QED  BY Zenon, <1>2, <2>1, <2>4, <3>2, CleanIs
    <2>. QED  BY <2>5, <2>6
<1>16. ~IsRed(u, u.root)
    <2>1. CASE p = t.root
        BY Zenon, <1>1, <1>2, <1>10, <1>13, <2>1 DEF IsRed
    <2>2. CASE p # t.root
        BY Zenon, <1>1, <1>2, <1>4, <1>13, <1>14, <2>2, TreeFields
    <2>. QED  BY Zenon, <2>1, <2>2
<1>. QED  BY Zenon, <1>9, <1>12, <1>15, <1>16 DEF EraseState

(* Behind the loop child gets black, and the tree is a red-black tree.     *)
LEMMA EraseDone ==
    ASSUME NEW t, NEW q, NEW pos, NEW e, Ordered(t, q, pos, e),
           NEW child, NEW p, EraseState(t, child, p),
           ~LacksBlack(t, child), NEW u, u = Painted(t, {child}, FALSE)
    PROVE  SameLinks(t, u) /\ Coloured(u)
<1>1. IsTree(t) /\ Shaped(t)
    BY DEF Ordered, Shaped
<1>2. PICK R : R = {}
    OBVIOUS
<1>3. Recoloured(t, {child}, R, u)
    <2>1. IsTree(t) /\ u = Painted(t, {child}, FALSE)
        BY <1>1
    <2>. QED  BY ONLY <1>2, <2>1, PaintedBlack
<1>4. /\ SameLinks(t, u) /\ u.kid = t.kid /\ u.root = t.root /\ Nodes(u) = Nodes(t)
      /\ \A m \in PCB : m = child => u.red[m] = FALSE
      /\ \A m \in PCB : m # child => u.red[m] = t.red[m]
    BY <1>2, <1>3 DEF Recoloured, SameLinks, Nodes
<1>5. Clean(t, child) /\ (IsRed(t, t.root) => t.root = child)
    BY DEF EraseState
<1>6. \A m \in Ptr : IsRed(u, m) => IsRed(t, m) /\ m # child
    BY <1>4 DEF IsRed, Ptr
<1>7. Clean(u, NULL)
    <2>1. SUFFICES ASSUME NEW n \in Nodes(t), NEW d \in Sides, u.red[n], IsRed(u, t.kid[n][d])
          PROVE  FALSE
        BY <1>4 DEF Clean
    <2>2. n \in PCB /\ t.kid[n][d] \in Ptr
        BY <1>1, TreeFields DEF Nodes
    <2>3. n # child /\ t.red[n] /\ IsRed(t, t.kid[n][d]) /\ t.kid[n][d] # child
        BY <1>4, <1>6, <2>1, <2>2
    <2>. QED  BY <1>5, <2>1, <2>3 DEF Clean
<1>8. ~IsRed(u, u.root)
    BY <1>1, <1>4, <1>5, <1>6, TreeFields
<1>9. CASE child = t.root
    <2>1. Even(t)
        BY <1>9 DEF EraseState
    <2>2. Recoloured(t, {t.root}, {}, u)
        BY <1>2, <1>3, <1>9
    <2>3. Even(u)
        BY <1>1, <2>1, <2>2, BlackRoot
    <2>. QED  BY <1>4, <1>7, <1>8, <2>3 DEF Coloured
<1>10. CASE child # t.root
    <2>1. IsRed(t, child) /\ Lacking(t, child, p)
        BY <1>10 DEF LacksBlack, EraseState
    <2>2. PICK s : s = SideBelow(t, p, child)
        OBVIOUS
    <2>3. s \in Sides /\ p \in Nodes(t) /\ t.kid[p][s] = child /\ \E b : Balanced(t, b, p, s)
        BY <2>1, <2>2 DEF SideBelow, Sides, Lacking
    <2>4. p \in PCB /\ child # NULL /\ t.red[child]
        BY <2>1, <2>3 DEF Nodes, IsRed
    <2>5. child \in PCB /\ child \in Nodes(t) /\ t.parent[child] = p
          /\ t.kid[p][s] # t.kid[p][Other(s)]
        BY <1>1, <2>3, <2>4, KidFacts
    <2>6. PICK b : Balanced(t, b, p, s)
        BY <2>3
    <2>7. b \in [Ptr -> Nat] /\ b[NULL] = 0 /\ child \in Ptr /\ NULL \in Ptr
        BY <2>5, <2>6 DEF Balanced, Ptr
    <2>8. PICK c : c = [b EXCEPT ![child] = b[child] + 1]
        OBVIOUS
    <2>9. /\ c \in [Ptr -> Nat] /\ c[NULL] = 0 /\ c[child] = b[child] + 1
          /\ \A m \in Ptr : m # child => c[m] = b[m]
        <3>1. b[child] + 1 \in Nat
            BY <2>7
        <3>. QED  BY <2>4, <2>7, <2>8, <3>1
    <2>10. ASSUME NEW m \in Nodes(t), NEW d \in Sides
           PROVE  c[m] = c[t.kid[m][d]] + Black(u, m) + Lack(NULL, "left", m, d)
        <3>1. PICK k : k = t.kid[m][d]
            OBVIOUS
        <3>2. m \in PCB /\ k \in Ptr /\ m \in Ptr /\ m # NULL
            BY <1>1, <3>1, TreeFields, NodesAssumption DEF Nodes, Ptr
        <3>3. /\ b[m] \in Nat /\ b[k] \in Nat
              /\ b[m] = b[k] + Black(t, m) + Lack(p, s, m, d)
            BY <1>1, <2>6, <3>1, BalancedNode
        <3>4. Lack(NULL, "left", m, d) = 0 /\ Black(t, m) \in Nat
            BY <3>2 DEF Lack, Black
        <3>5. k = child <=> m = p /\ d = s
            <4>1. k = child => m = p
                <5>1. k # NULL => t.parent[k] = m
                    BY <1>1, <3>1, <3>2, KidFacts
                <5>. QED  BY <2>4, <2>5, <5>1
            <4>2. m = p /\ d # s => k # child
                BY <2>3, <2>5, <3>1 DEF Other, Sides
            <4>. QED  BY <2>3, <3>1, <4>1, <4>2
        <3>6. p # child
            BY <2>3, <2>4, NoLoops
        <3>7. CASE m = child
            <4>1. Black(u, m) = 1 /\ Black(t, m) = 0 /\ Lack(p, s, m, d) = 0
                BY <1>4, <2>4, <3>2, <3>6, <3>7 DEF Black, Lack
            <4>2. k # child
                BY <3>5, <3>6, <3>7
            <4>3. c[k] = b[k] /\ c[m] = b[m] + 1
                BY <2>9, <3>2, <3>7, <4>2
            <4>4. c[m] = c[k] + Black(u, m) + Lack(NULL, "left", m, d)
                BY ONLY <3>3, <3>4, <4>1, <4>3
            <4>. QED  BY <3>1, <4>4
        <3>8. CASE m # child
            <4>1. Black(u, m) = Black(t, m) /\ c[m] = b[m]
                BY <1>4, <2>9, <3>2, <3>8 DEF Black
            <4>2. CASE k = child
                <5>1. Lack(p, s, m, d) = 1
                    BY <3>5, <4>2 DEF Lack
                <5>2. c[k] = b[k] + 1
                    BY <2>9, <4>2
                <5>3. c[m] = c[k] + Black(u, m) + Lack(NULL, "left", m, d)
                    BY ONLY <3>3, <3>4, <4>1, <5>1, <5>2
                <5>. QED  BY <3>1, <5>3
            <4>3. CASE k # child
                <5>1. Lack(p, s, m, d) = 0
                    BY <3>5, <4>3 DEF Lack
                <5>2. c[k] = b[k]
                    BY <2>9, <3>2, <4>3
                <5>3. c[m] = c[k] + Black(u, m) + Lack(NULL, "left", m, d)
                    BY ONLY <3>3, <3>4, <4>1, <5>1, <5>2
                <5>. QED  BY <3>1, <5>3
            <4>. QED  BY <4>2, <4>3
        <3>. QED  BY <3>7, <3>8
    <2>11. Balanced(u, c, NULL, "left")
        BY <1>4, <2>9, <2>10 DEF Balanced
    <2>12. Even(u)
        BY Zenon, <2>11, EvenIs
    <2>. QED  BY <1>4, <1>7, <1>8, <2>12 DEF Coloured
<1>. QED  BY <1>9, <1>10

(* What a pass of the loop of rb_erase leaves; it has to climb only where  *)
(* nothing was rotated.                                                    *)
ErasePassed(t, p, w) ==
    /\ EraseState(w.tree, w.child, w.parent)
    /\ LacksBlack(w.tree, w.child) => w.tree.parent = t.parent /\ w.parent = t.parent[p]

(* Every pass of the loop of rb_erase.                                     *)
LEMMA ErasePassKeeps ==
    ASSUME NEW t, NEW q, NEW pos, NEW e, Ordered(t, q, pos, e),
           NEW child, NEW p, EraseState(t, child, p), LacksBlack(t, child),
           NEW w, w = ErasePass(t, child, p)
    PROVE  ErasePassed(t, p, w) /\ \E e1 : Ordered(w.tree, q, pos, e1)
<1>. DEFINE s == SideBelow(t, p, child)
            o == Other(s)
            z0 == t.kid[p][o]
            t1 == IF t.red[z0]
                  THEN Rotate(Painted(Painted(t, {z0}, FALSE), {p}, TRUE), p, s)
                  ELSE t
            z1 == t1.kid[p][o]
            t2 == IF IsRed(t1, t1.kid[z1][o]) THEN t1 ELSE
                  Rotate(Painted(Painted(t1, {t1.kid[z1][s]}, FALSE), {z1}, TRUE), z1, o)
            z2 == t2.kid[p][o]
            t3 == Rotate(Painted([t2 EXCEPT !.red[z2] = t2.red[p]],
                                 {p, t2.kid[z2][o]}, FALSE), p, s)
<1>1. w = IF \A d \in Sides : ~IsRed(t1, t1.kid[z1][d])
          THEN [tree |-> Painted(t1, {z1}, TRUE), child |-> p, parent |-> t1.parent[p]]
          ELSE [tree |-> t3, child |-> t3.root, parent |-> p]
    BY Zenon DEF ErasePass
<1>. HIDE DEF t3
<1>2. t3 = Rotate(Painted([t2 EXCEPT !.red[z2] = t2.red[p]],
                          {p, t2.kid[z2][o]}, FALSE), p, s)
    BY DEF t3
<1>. HIDE DEF z2
<1>3. z2 = t2.kid[p][o]
    BY DEF z2
<1>. HIDE DEF t2
<1>4. t2 = IF IsRed(t1, t1.kid[z1][o]) THEN t1 ELSE
           Rotate(Painted(Painted(t1, {t1.kid[z1][s]}, FALSE), {z1}, TRUE), z1, o)
    BY DEF t2
<1>. HIDE DEF z1
<1>5. z1 = t1.kid[p][o]
    BY DEF z1
<1>. HIDE DEF t1
<1>6. t1 = IF t.red[z0]
           THEN Rotate(Painted(Painted(t, {z0}, FALSE), {p}, TRUE), p, s)
           ELSE t
    BY DEF t1
<1>. HIDE DEF z0
<1>7. z0 = t.kid[p][o]
    BY DEF z0
<1>. HIDE DEF o
<1>8. o = Other(s)
    BY DEF o
<1>. HIDE DEF s
<1>9. s = SideBelow(t, p, child)
    BY DEF s
<1>10. EraseReady(t, child, p, s)
    BY <1>9, PassReady
<1>11. s \in Sides /\ p \in PCB /\ \A d \in Sides : d = s \/ d = o
    <2>1. p \in Nodes(t) /\ s \in Sides
        BY <1>10 DEF EraseReady
    <2>. QED  BY <1>8, <2>1 DEF Nodes, Other, Sides
<1>12. /\ EraseReady(t1, child, p, s) /\ ~IsRed(t1, z1) /\ (t1 = t \/ IsRed(t1, p))
       /\ \E e1 : Ordered(t1, q, pos, e1)
    <2>1. CASE t.red[z0]
        <3>1. z0 # NULL /\ IsRed(t, z0)
            <4>1. z0 # NULL
                BY <1>8, <1>7, <1>10, Sibling
            <4>. QED  BY <2>1, <4>1 DEF IsRed
        <3>2. /\ Ordered(t, q, pos, e) /\ z0 = t.kid[p][Other(s)]
              /\ t1 = Rotate(Painted(Painted(t, {z0}, FALSE), {p}, TRUE), p, s)
            BY <1>8, <1>7, <1>6, <2>1
        <3>3. /\ EraseReady(t1, child, p, s) /\ ~IsRed(t1, t1.kid[p][Other(s)])
              /\ IsRed(t1, p) /\ \E e1 : Ordered(t1, q, pos, e1)
            BY ONLY <1>10, <3>1, <3>2, RedSibling
        <3>. QED  BY <1>8, <1>5, <3>3
    <2>2. CASE ~t.red[z0]
        BY <1>7, <1>6, <1>5, <1>10, <2>2 DEF IsRed
    <2>. QED  BY <2>1, <2>2
<1>13. PICK e1 : Ordered(t1, q, pos, e1)
    BY <1>12
<1>14. CASE \A d \in Sides : ~IsRed(t1, t1.kid[z1][d])
    <2>1. PICK u : u = Painted(t1, {z1}, TRUE)
        OBVIOUS
    <2>2. w.tree = u /\ w.child = p /\ w.parent = t1.parent[p]
        BY ONLY <1>1, <1>14, <2>1
    <2>3. Recoloured(t1, {}, {z1}, u)
        <3>1. PICK N : N = {}
            OBVIOUS
        <3>2. IsTree(t1)
            BY <1>13 DEF Ordered, Shaped
        <3>3. Recoloured(t1, N, {z1}, u)
            BY ONLY <2>1, <3>1, <3>2, PaintedRed
        <3>. QED  BY <3>1, <3>3
    <2>4. SameLinks(t1, u) /\ u.parent = t1.parent
          /\ \A m \in PCB : m # z1 => u.red[m] = t1.red[m]
        BY <2>3 DEF Recoloured, SameLinks
    <2>5. Ordered(u, q, pos, e1)
        BY <1>13, <2>4, SameLinksOrdered
    <2>6. EraseState(u, p, t1.parent[p])
        <3>1. z1 = t1.kid[p][Other(s)] /\ EraseReady(t1, child, p, s) /\ ~IsRed(t1, z1)
            BY <1>8, <1>5, <1>12
        <3>. QED  BY ONLY <1>13, <1>14, <2>3, <3>1, BlackNephews
    <2>7. LacksBlack(u, p) => t1 = t
        <3>1. z1 # p
            <4>1. z1 = t1.kid[p][Other(s)] /\ EraseReady(t1, child, p, s)
                BY <1>8, <1>5, <1>12
            <4>. QED  BY ONLY <1>13, <4>1, Sibling
        <3>. QED  BY <1>11, <1>12, <2>4, <3>1 DEF LacksBlack, IsRed
    <2>. QED  BY <2>2, <2>4, <2>5, <2>6, <2>7 DEF ErasePassed
<1>15. CASE ~ \A d \in Sides : ~IsRed(t1, t1.kid[z1][d])
    <2>1. w.tree = t3 /\ w.child = t3.root /\ w.parent = p
        BY <1>1, <1>15
    <2>2. /\ EraseReady(t2, child, p, s) /\ ~IsRed(t2, z2) /\ IsRed(t2, t2.kid[z2][o])
          /\ \E e2 : Ordered(t2, q, pos, e2)
        <3>1. CASE IsRed(t1, t1.kid[z1][o])
            <4>1. t2 = t1 /\ z2 = z1
                BY <1>5, <1>4, <1>3, <3>1
            <4>. QED  BY <1>12, <3>1, <4>1
        <3>2. CASE ~IsRed(t1, t1.kid[z1][o])
            <4>1. PICK near : near = t1.kid[z1][s]
                OBVIOUS
            <4>2. IsRed(t1, near) /\ near = t1.kid[z1][s]
                BY <1>11, <1>15, <3>2, <4>1
            <4>3. /\ z1 = t1.kid[p][Other(s)] /\ EraseReady(t1, child, p, s) /\ ~IsRed(t1, z1)
                  /\ ~IsRed(t1, t1.kid[z1][Other(s)])
                  /\ t2 = Rotate(Painted(Painted(t1, {near}, FALSE), {z1}, TRUE), z1, Other(s))
                BY <1>8, <1>5, <1>4, <1>12, <3>2, <4>2
            <4>4. FarReady(t2, child, p, s) /\ \E e2 : Ordered(t2, q, pos, e2)
                BY ONLY <1>13, <4>2, <4>3, NearNephew
            <4>. QED  BY <1>8, <1>3, <4>4 DEF FarReady
        <3>. QED  BY <3>1, <3>2
    <2>3. PICK e2 : Ordered(t2, q, pos, e2)
        BY <2>2
    <2>4. PICK far : far = t2.kid[z2][Other(s)]
        OBVIOUS
    <2>5. /\ z2 = t2.kid[p][Other(s)] /\ EraseReady(t2, child, p, s) /\ ~IsRed(t2, z2)
          /\ far = t2.kid[z2][Other(s)] /\ IsRed(t2, far)
          /\ t3 = Rotate(Painted([t2 EXCEPT !.red[z2] = t2.red[p]], {p, far}, FALSE), p, s)
        BY <1>8, <1>3, <1>2, <2>2, <2>4
    <2>6. (\E e3 : Ordered(t3, q, pos, e3)) /\ \A p1 : EraseState(t3, t3.root, p1)
        BY ONLY <2>3, <2>5, FarNephew
    <2>. QED  BY <2>1, <2>6 DEF ErasePassed, LacksBlack
<1>. QED  BY <1>14, <1>15

-----------------------------------------------------------------------------
(* How deep in the tree a loop is.                                         *)

(* The function that Level applies; it depends on the parents alone.       *)
Above(par) ==
    CHOOSE f : f = [m \in Ptr |-> IF m = NULL THEN -1 ELSE 1 + f[par[m]]]

(* Level is that function's value.                                         *)
LEMMA LevelIs ==
    ASSUME NEW t, NEW n
    PROVE  Level(t, n) = Above(t.parent)[n]
    BY DEF Level, Above

(* Approximations of it from below.                                        *)
LEMMA AboveWalk ==
    ASSUME NEW par, par \in [PCB -> Ptr]
    PROVE  \E at \in [Nat -> [Ptr -> Int]] :
              /\ \A m \in Ptr : at[0][m] = -1
              /\ \A k \in Nat, m \in Ptr :
                    at[k + 1][m] = IF m = NULL THEN -1 ELSE 1 + at[k][par[m]]
<1>. DEFINE V == [Ptr -> Int]
            g(w) == [m \in Ptr |-> IF m = NULL THEN -1 ELSE 1 + w[par[m]]]
            f == [w \in V |-> g(w)]
            z == [m \in Ptr |-> -1]
<1>1. \A m \in Ptr : m # NULL => m \in PCB
    BY NodesAssumption DEF Ptr
<1>2. z \in V
    OBVIOUS
<1>3. ASSUME NEW w \in V
      PROVE  g(w) \in V
    <2>1. \A m \in Ptr : m # NULL => w[par[m]] \in Int
        BY <1>1
    <2>. QED  BY <2>1
<1>4. f \in [V -> V]
    BY <1>3
<1>5. PICK at \in [Nat -> V] : at[0] = z /\ \A k \in Nat : at[k + 1] = f[at[k]]
    <2>. HIDE DEF V, f, z
    <2>. QED  BY ONLY <1>2, <1>4, WalkExists
<1>6. ASSUME NEW k \in Nat PROVE at[k + 1] = g(at[k])
    <2>1. at[k] \in V /\ at[k + 1] = f[at[k]]
        BY <1>5
    <2>. QED  BY <2>1
<1>7. \A k \in Nat, m \in Ptr :
         at[k + 1][m] = IF m = NULL THEN -1 ELSE 1 + at[k][par[m]]
    BY ONLY <1>6
<1>8. \A m \in Ptr : at[0][m] = -1
    BY <1>5
<1>. QED  BY <1>7, <1>8

(* It is what its recursive definition says where the ways up have ends,   *)
(* r being a number that falls on them.                                    *)
LEMMA AboveFacts ==
    ASSUME NEW par \in [PCB -> Ptr], NEW r \in [Ptr -> Nat], NEW K \in Nat,
           \A m \in Ptr : r[m] <= K,
           \A m \in PCB : r[par[m]] < r[m]
    PROVE  \A m \in PCB : /\ Above(par)[m] \in Int /\ Above(par)[par[m]] \in Int
                          /\ Above(par)[m] = 1 + Above(par)[par[m]]
<1>1. NULL \in Ptr /\ NULL \notin PCB /\ \A m \in Ptr : m # NULL => m \in PCB
    BY NodesAssumption DEF Ptr
<1>2. PICK at \in [Nat -> [Ptr -> Int]] :
              /\ \A m \in Ptr : at[0][m] = -1
              /\ \A k \in Nat, m \in Ptr :
                    at[k + 1][m] = IF m = NULL THEN -1 ELSE 1 + at[k][par[m]]
    BY AboveWalk
<1>3. /\ \A m \in Ptr : at[0][m] = -1
      /\ \A k \in Nat, m \in Ptr :
            at[k + 1][m] = IF m = NULL THEN -1 ELSE 1 + at[k][par[m]]
    BY <1>2
<1>4. \A k \in Nat, m \in Ptr : r[m] <= k => at[k + 1][m] = at[k][m]
    <2>. DEFINE Bad == {k \in Nat : \E m \in Ptr : r[m] <= k /\ at[k + 1][m] # at[k][m]}
    <2>1. SUFFICES ASSUME Bad # {} PROVE FALSE
        OBVIOUS
    <2>2. PICK k \in Bad : IsLeast(k, Bad)
        <3>1. Bad \in SUBSET Nat
            OBVIOUS
        <3>. HIDE DEF Bad
        <3>. QED  BY <2>1, <3>1, LeastExists
    <2>3. k \in Nat /\ \A j \in Bad : k <= j
        BY <2>2 DEF IsLeast
    <2>4. PICK m \in Ptr : r[m] <= k /\ at[k + 1][m] # at[k][m]
        BY <2>2
    <2>5. CASE m = NULL
        <3>1. at[k + 1][m] = -1
            BY <1>3, <2>3, <2>5
        <3>2. at[k][m] = -1
            <4>1. CASE k = 0
                BY <1>3, <4>1
            <4>2. CASE k # 0
                <5>1. k - 1 \in Nat /\ (k - 1) + 1 = k
                    BY <2>3, <4>2
                <5>2. at[(k - 1) + 1][m] = -1
                    BY <1>3, <2>5, <5>1
                <5>. QED  BY <5>1, <5>2
            <4>. QED  BY <4>1, <4>2
        <3>. QED  BY <2>4, <3>1, <3>2
    <2>6. CASE m # NULL
        <3>1. m \in PCB /\ par[m] \in Ptr /\ r[par[m]] \in Nat /\ r[m] \in Nat /\ r[par[m]] < r[m]
            BY <1>1, <2>4, <2>6
        <3>2. k - 1 \in Nat /\ (k - 1) + 1 = k /\ r[par[m]] <= k - 1
            BY <2>3, <2>4, <3>1
        <3>3. k - 1 \notin Bad
            BY <2>3, <3>2
        <3>4. at[(k - 1) + 1][par[m]] = at[k - 1][par[m]]
            BY <3>1, <3>2, <3>3
        <3>5. at[k][par[m]] = at[k - 1][par[m]]
            BY <3>2, <3>4
        <3>6. at[k + 1][m] = 1 + at[k][par[m]]
            BY <1>3, <2>3, <2>6
        <3>7. at[(k - 1) + 1][m] = 1 + at[k - 1][par[m]]
            BY <1>3, <2>6, <3>2
        <3>. QED  BY <2>4, <3>2, <3>5, <3>6, <3>7
    <2>. QED  BY <2>5, <2>6
<1>. DEFINE Is(w) == w = [m \in Ptr |-> IF m = NULL THEN -1 ELSE 1 + w[par[m]]]
<1>5. Is(at[K])
    <2>1. \A m \in Ptr : at[K][m] = IF m = NULL THEN -1 ELSE 1 + at[K][par[m]]
        BY <1>3, <1>4
    <2>2. at[K] \in [Ptr -> Int]
        BY <1>2
    <2>. QED  BY <2>1, <2>2
<1>6. Above(par) = CHOOSE w : Is(w)
    BY DEF Above
<1>7. Is(Above(par))
    <2>. HIDE DEF Is
    <2>. QED  BY <1>5, <1>6
<1>8. PICK h : h = Above(par)
    OBVIOUS
<1>9. \A m \in Ptr : h[m] = IF m = NULL THEN -1 ELSE 1 + h[par[m]]
    BY <1>7, <1>8
<1>10. \A m \in Ptr : h[m] \in Int
    <2>. DEFINE Bad == {k \in Nat : \E m \in Ptr : r[m] = k /\ h[m] \notin Int}
    <2>1. SUFFICES ASSUME Bad # {} PROVE FALSE
        OBVIOUS
    <2>2. PICK k \in Bad : IsLeast(k, Bad)
        <3>1. Bad \in SUBSET Nat
            OBVIOUS
        <3>. HIDE DEF Bad
        <3>. QED  BY <2>1, <3>1, LeastExists
    <2>3. k \in Nat /\ \A j \in Bad : k <= j
        BY <2>2 DEF IsLeast
    <2>4. PICK m \in Ptr : r[m] = k /\ h[m] \notin Int
        BY <2>2
    <2>5. m # NULL
        BY <1>9, <2>4
    <2>6. m \in PCB /\ par[m] \in Ptr /\ r[par[m]] \in Nat /\ r[par[m]] < k
        BY <1>1, <2>4, <2>5
    <2>7. r[par[m]] \notin Bad
        BY <2>3, <2>6
    <2>8. h[par[m]] \in Int
        BY <2>6, <2>7
    <2>. QED  BY <1>9, <2>4, <2>5, <2>8
<1>11. ASSUME NEW m \in PCB
       PROVE  h[m] \in Int /\ h[par[m]] \in Int /\ h[m] = 1 + h[par[m]]
    <2>1. m \in Ptr /\ m # NULL /\ par[m] \in Ptr
        BY <1>1 DEF Ptr
    <2>. QED  BY <1>9, <1>10, <2>1
<1>. QED  BY <1>8, <1>11

(* A parent is nearer to the root.                                         *)
LEMMA LevelFalls ==
    ASSUME NEW t, NEW q, NEW pos, NEW e, Ordered(t, q, pos, e), NEW n \in PCB
    PROVE  /\ Level(t, n) \in Int /\ Level(t, t.parent[n]) \in Int
           /\ Level(t, n) = 1 + Level(t, t.parent[n])
<1>1. Shaped(t) /\ t.parent \in [PCB -> Ptr] /\ NULL \notin PCB
    BY TreeFields, NodesAssumption DEF Ordered, Shaped
<1>2. PICK L : L = Len(q)
    OBVIOUS
<1>3. L \in Nat
    BY <1>2, QueueLength DEF Ordered, Places
<1>4. PICK r : r = [m \in Ptr |-> IF m = NULL THEN 0
                                  ELSE IF m \in Nodes(t) THEN L - Span(e, m) ELSE 1]
    OBVIOUS
<1>5. \A m \in Nodes(t) : m \in PCB /\ Span(e, m) \in Nat /\ Span(e, m) < L
    BY <1>2, NodePlaces
<1>6. r \in [Ptr -> Nat]
    <2>1. \A m \in Nodes(t) : L - Span(e, m) \in Nat
        BY <1>3, <1>5
    <2>. QED  BY <1>4, <2>1
<1>7. \A m \in Ptr : r[m] <= L + 1
    BY <1>3, <1>4, <1>5
<1>8. ASSUME NEW m \in PCB
      PROVE  r[t.parent[m]] < r[m]
    <2>1. m \in Ptr /\ m # NULL /\ t.parent[m] \in Ptr /\ NULL \in Ptr
        BY <1>1 DEF Ptr
    <2>2. CASE t.parent[m] = NULL
        <3>1. r[t.parent[m]] = 0
            BY <1>4, <2>1, <2>2
        <3>2. r[m] = IF m \in Nodes(t) THEN L - Span(e, m) ELSE 1
            BY <1>4, <2>1
        <3>. QED  BY <1>3, <1>5, <3>1, <3>2
    <2>3. CASE t.parent[m] # NULL
        <3>1. m \in Nodes(t) /\ m # t.root
            <4>1. m \in Nodes(t)
                BY <2>3 DEF Nodes
            <4>. QED  BY <1>1, <2>3, <4>1, ParentFacts
        <3>2. PICK p : p = t.parent[m]
            OBVIOUS
        <3>3. PICK s : s = SideBelow(t, p, m)
            OBVIOUS
        <3>4. p \in Nodes(t) /\ p \in PCB /\ s \in Sides /\ t.kid[p][s] = m
            BY <1>1, <3>1, <3>2, <3>3, ParentFacts DEF SideBelow, Sides
        <3>5. Span(e, m) < Span(e, p)
            BY <2>1, <3>4, KidPlaces
        <3>6. r[m] = L - Span(e, m) /\ r[p] = L - Span(e, p)
            BY <1>4, <2>1, <2>3, <3>1, <3>2, <3>4
        <3>. QED  BY <1>3, <1>5, <3>1, <3>2, <3>4, <3>5, <3>6
    <2>. QED  BY <2>2, <2>3
<1>9. PICK par : par = t.parent
    OBVIOUS
<1>10. PICK K : K = L + 1
    OBVIOUS
<1>11. /\ par \in [PCB -> Ptr] /\ K \in Nat /\ \A m \in Ptr : r[m] <= K
       /\ \A m \in PCB : r[par[m]] < r[m]
    BY <1>1, <1>3, <1>7, <1>8, <1>9, <1>10
<1>12. \A m \in PCB : /\ Above(par)[m] \in Int /\ Above(par)[par[m]] \in Int
                      /\ Above(par)[m] = 1 + Above(par)[par[m]]
    BY ONLY <1>6, <1>11, AboveFacts
<1>. QED  BY <1>9, <1>12, LevelIs

-----------------------------------------------------------------------------
(* The operations.                                                         *)

(* The tree holds the queue q, from left to right.                         *)
TreeIs(t, q) == \E pos, e : Ordered(t, q, pos, e)

(* What is known of a tree and its queue.                                  *)
LEMMA TreeIsFacts ==
    ASSUME NEW t, NEW q, TreeIs(t, q)
    PROVE  /\ Shaped(t) /\ IsTree(t) /\ IsQueue(q) /\ Elems(q) = Nodes(t)
           /\ t.root = NULL <=> Len(q) = 0
           /\ TreeOrder(t) = q
<1>1. PICK pos, e : Ordered(t, q, pos, e)
    BY DEF TreeIs
<1>2. Shaped(t) /\ IsTree(t) /\ IsQueue(q) /\ Elems(q) = Nodes(t)
      /\ (t.root = NULL => Len(q) = 0)
    BY <1>1 DEF Ordered, Shaped, Places
<1>3. t.root # NULL => Len(q) # 0
    <2>1. SUFFICES ASSUME t.root # NULL PROVE Len(q) # 0
        OBVIOUS
    <2>2. t.root \in Nodes(t)
        BY <1>2, <2>1, TreeFields DEF Nodes, Ptr
    <2>3. PICK i \in 1 .. Len(q) : q[i] = t.root
        BY <1>2, <2>2 DEF Elems
    <2>4. Len(q) \in Nat
        BY <1>2, QueueLength
    <2>. QED  BY <2>3, <2>4
<1>4. TreeOrder(t) = q
    BY <1>1, TreeOrderIs
<1>. QED  BY <1>2, <1>3, <1>4

(* The tree before anything is in it.                                      *)
LEMMA EmptyTreeIs ==
    TreeIs(EmptyTree, <<>>) /\ Coloured(EmptyTree)
<1>1. PICK t : t = EmptyTree
    OBVIOUS
<1>2. /\ t.root = NULL /\ t.kid = [n \in PCB |-> [s \in Sides |-> NULL]]
      /\ t.parent = [n \in PCB |-> NULL] /\ t.red = [n \in PCB |-> FALSE]
      /\ IsTree(t)
    <2>1. NULL \in Ptr
        BY DEF Ptr
    <2>2. [n \in PCB |-> [s \in Sides |-> NULL]] \in [PCB -> [Sides -> Ptr]]
          /\ [n \in PCB |-> NULL] \in [PCB -> Ptr] /\ [n \in PCB |-> FALSE] \in [PCB -> BOOLEAN]
        BY <2>1
    <2>. QED  BY <1>1, <2>1, <2>2 DEF EmptyTree, IsTree
<1>3. \A n \in PCB : t.parent[n] = NULL /\ \A s \in Sides : t.kid[n][s] = NULL
    BY <1>2
<1>4. Nodes(t) = {}
    BY <1>2, <1>3, NodesAssumption DEF Nodes
<1>5. Shaped(t)
    BY <1>2, <1>3, <1>4 DEF Shaped, Sides
<1>6. PICK q : q = <<>>
    OBVIOUS
<1>7. IsQueue(q) /\ Len(q) = 0 /\ Elems(q) = {}
    BY <1>6 DEF IsQueue, Elems
<1>8. PICK pos : pos = [n \in PCB |-> 0]
    OBVIOUS
<1>9. PICK e : e = [n \in PCB |-> [s \in Sides |-> 0]]
    OBVIOUS
<1>10. pos \in [PCB -> Int] /\ e \in [PCB -> [Sides -> Int]]
    BY <1>8, <1>9
<1>11. Ordered(t, q, pos, e)
    BY <1>2, <1>4, <1>5, <1>7, <1>10 DEF Ordered, Places, Divided
<1>12. Clean(t, NULL) /\ ~IsRed(t, t.root)
    BY <1>2, <1>4 DEF Clean, IsRed
<1>13. PICK b : b = [n \in Ptr |-> 0]
    OBVIOUS
<1>14. b \in [Ptr -> Nat] /\ b[NULL] = 0
    BY <1>13 DEF Ptr
<1>15. Even(t)
    BY <1>4, <1>14 DEF Even, Balanced
<1>16. Coloured(t)
    BY <1>12, <1>15 DEF Coloured
<1>. QED  BY <1>1, <1>6, <1>11, <1>16 DEF TreeIs

(* cfs_enqueue puts p behind all whose key is not greater.                 *)
LEMMA LinkedTree ==
    ASSUME NEW t, NEW q, TreeIs(t, q), Sorted(q), Coloured(t),
           NEW p \in PCB, p \notin Nodes(t)
    PROVE  \E k : /\ Fits(q, k, p) /\ TreeIs(Linked(t, p), Inserted(q, k, p))
                  /\ InsertState(Linked(t, p), p)
<1>1. PICK pos, e : Ordered(t, q, pos, e)
    BY DEF TreeIs
<1>2. Shaped(t) /\ IsTree(t) /\ IsQueue(q) /\ (t.root = NULL <=> Len(q) = 0)
    BY TreeIsFacts
<1>3. PICK k : Fits(q, k, p)
    BY <1>2, FitExists
<1>4. PICK u : u = Linked(t, p)
    OBVIOUS
<1>5. PICK n : n = IF t.root = NULL THEN NULL ELSE PathEnd(t, t.root, Turn(p))
    OBVIOUS
<1>6. PICK s : s = Turn(p)[n]
    OBVIOUS
<1>7. DescendsTo(t, p, n, s)
    BY <1>5, <1>6 DEF DescendsTo
<1>8. CASE t.root = NULL
    <2>1. n = NULL /\ n \in Ptr /\ n # p
        BY <1>5, <1>8, NodesAssumption DEF Ptr
    <2>2. Leafed(t, p, n, s, u)
        BY <1>2, <1>4, <1>7, <2>1, LinkedFields
    <2>3. InsertState(u, p)
        BY <1>2, <1>8, <2>1, <2>2, LeafStarts
    <2>4. \E pos1, e1 : Ordered(u, Inserted(q, 0, p), pos1, e1)
        BY <1>1, <1>8, <2>1, <2>2, RootOrdered
    <2>5. k = 0
        BY <1>2, <1>3, <1>8 DEF Fits
    <2>. QED  BY <1>3, <1>4, <2>3, <2>4, <2>5 DEF TreeIs
<1>9. CASE t.root # NULL
    <2>1. n = PathEnd(t, t.root, Turn(p))
        BY <1>5, <1>9
    <2>2. /\ n \in Nodes(t) /\ s \in Sides /\ t.kid[n][s] = NULL
          /\ k = IF s = "left" THEN pos[n] - 1 ELSE pos[n]
        BY <1>1, <1>3, <1>6, <1>9, <2>1, DescentEnds
    <2>3. n \in Ptr /\ n # p
        BY <2>2 DEF Nodes, Ptr
    <2>4. Leafed(t, p, n, s, u)
        BY <1>2, <1>4, <1>7, <2>2, <2>3, LinkedFields
    <2>5. InsertState(u, p)
        BY <1>2, <2>2, <2>4, LeafStarts
    <2>6. Ordered(u, Inserted(q, k, p), LinkedPos(p, k, pos), LinkedEnds(p, k, n, pos, e))
        BY <1>1, <2>2, <2>4, LeafOrdered
    <2>. QED  BY <1>3, <1>4, <2>5, <2>6 DEF TreeIs
<1>. QED  BY <1>8, <1>9

(* rb_erase takes a node out, and leaves the order of the others.          *)
LEMMA ErasedTree ==
    ASSUME NEW t, NEW q, TreeIs(t, q), Coloured(t), NEW y \in Nodes(t),
           NEW w, w = Unlinked(t, y)
    PROVE  /\ \E k \in 1 .. Len(q) : q[k] = y /\ TreeIs(w.tree, Removed(q, k))
           /\ IF w.black THEN EraseState(w.tree, w.child, w.parent) ELSE Coloured(w.tree)
<1>1. PICK pos, e : Ordered(t, q, pos, e)
    BY DEF TreeIs
<1>2. pos[y] \in 1 .. Len(q) /\ q[pos[y]] = y
    BY <1>1, NodePlaces
<1>3. \E pos1, e1 : Ordered(w.tree, Removed(q, pos[y]), pos1, e1)
    BY <1>1, UnlinkedOrdered
<1>4. IF w.black THEN EraseState(w.tree, w.child, w.parent) ELSE Coloured(w.tree)
    BY <1>1, UnlinkedColours
<1>. QED  BY <1>2, <1>3, <1>4 DEF TreeIs

(* rb_first finds the first of the queue.                                  *)
LEMMA FirstOfTree ==
    ASSUME NEW t, NEW q, TreeIs(t, q), t.root # NULL
    PROVE  Leftmost(t, t.root) \in Nodes(t) /\ Leftmost(t, t.root) = q[1]
<1>1. PICK pos, e : Ordered(t, q, pos, e)
    BY DEF TreeIs
<1>2. t.root \in Nodes(t)
    BY TreeIsFacts, TreeFields DEF Nodes, Ptr
<1>3. e[t.root]["left"] = 1
    BY <1>1 DEF Ordered, Places
<1>. QED  BY <1>1, <1>2, <1>3, LeftmostIs

(* The passes of the loops leave the order alone.                          *)
LEMMA InsertPassTree ==
    ASSUME NEW t, NEW q, TreeIs(t, q), NEW node, InsertState(t, node), RedParent(t, node),
           NEW w, w = InsertPass(t, node)
    PROVE  TreeIs(w.tree, q) /\ InsertPassed(t, node, w)
<1>1. PICK pos, e : Ordered(t, q, pos, e)
    BY DEF TreeIs
<1>2. (\E e1 : Ordered(w.tree, q, pos, e1)) /\ InsertPassed(t, node, w)
    BY <1>1, InsertPassKeeps
<1>. QED  BY <1>2 DEF TreeIs

(* The same for rb_erase.                                                  *)
LEMMA ErasePassTree ==
    ASSUME NEW t, NEW q, TreeIs(t, q), NEW child, NEW p, EraseState(t, child, p),
           LacksBlack(t, child), NEW w, w = ErasePass(t, child, p)
    PROVE  TreeIs(w.tree, q) /\ ErasePassed(t, p, w)
<1>1. PICK pos, e : Ordered(t, q, pos, e)
    BY DEF TreeIs
<1>2. ErasePassed(t, p, w) /\ \E e1 : Ordered(w.tree, q, pos, e1)
    BY <1>1, ErasePassKeeps
<1>. QED  BY <1>2 DEF TreeIs

(* What is painted when a loop is done leaves the order alone too.         *)
LEMMA InsertDoneTree ==
    ASSUME NEW t, NEW q, TreeIs(t, q), NEW node, InsertState(t, node),
           ~RedParent(t, node), NEW u, u = Painted(t, {t.root}, FALSE)
    PROVE  TreeIs(u, q) /\ Coloured(u)
<1>1. PICK pos, e : Ordered(t, q, pos, e)
    BY DEF TreeIs
<1>2. Shaped(t)
    BY TreeIsFacts
<1>3. SameLinks(t, u) /\ Coloured(u)
    BY <1>2, InsertDone
<1>4. Ordered(u, q, pos, e)
    BY <1>1, <1>3, SameLinksOrdered
<1>. QED  BY <1>3, <1>4 DEF TreeIs

(* The same for rb_erase.                                                  *)
LEMMA EraseDoneTree ==
    ASSUME NEW t, NEW q, TreeIs(t, q), NEW child, NEW p, EraseState(t, child, p),
           ~LacksBlack(t, child), NEW u, u = Painted(t, {child}, FALSE)
    PROVE  TreeIs(u, q) /\ Coloured(u)
<1>1. PICK pos, e : Ordered(t, q, pos, e)
    BY DEF TreeIs
<1>2. SameLinks(t, u) /\ Coloured(u)
    BY <1>1, EraseDone
<1>3. Ordered(u, q, pos, e)
    BY <1>1, <1>2, SameLinksOrdered
<1>. QED  BY <1>2, <1>3 DEF TreeIs

-----------------------------------------------------------------------------
(* The order a queue promises.                                             *)

(* Where a PCB goes is well defined, since the keys ascend.                *)
LEMMA PositionIs ==
    ASSUME NEW q, IsQueue(q), Sorted(q), NEW p \in PCB, NEW k \in 0 .. Len(q),
           \A i \in 1 .. k : Key[q[i]] <= Key[p],
           k < Len(q) => Key[p] < Key[q[k + 1]]
    PROVE  Abstract!Position(q, Key, p) = k
<1>. DEFINE S == {j \in 0 .. Len(q) : Abstract!IsPosition(q, Key, p, j)}
<1>1. Len(q) \in Nat /\ q \in [1 .. Len(q) -> PCB] /\ Key \in [PCB -> Int]
    BY NodesAssumption DEF IsQueue
<1>2. Abstract!IsPosition(q, Key, p, k)
    BY DEF Abstract!IsPosition
<1>3. ASSUME NEW j \in 0 .. Len(q), Abstract!IsPosition(q, Key, p, j)
      PROVE  j = k
    <2>1. /\ \A i \in 1 .. j : Key[q[i]] <= Key[p]
          /\ j < Len(q) => Key[p] < Key[q[j + 1]]
        BY <1>3 DEF Abstract!IsPosition
    <2>2. ~(j < k)
        <3>1. SUFFICES ASSUME j < k PROVE FALSE
            OBVIOUS
        <3>2. j + 1 \in 1 .. k /\ j < Len(q) /\ j + 1 \in 1 .. Len(q)
            BY <1>1, <3>1
        <3>3. Key[q[j + 1]] \in Int /\ Key[p] \in Int
            BY <1>1, <3>2
        <3>. QED  BY <2>1, <3>2, <3>3
    <2>3. ~(k < j)
        <3>1. SUFFICES ASSUME k < j PROVE FALSE
            OBVIOUS
        <3>2. k + 1 \in 1 .. j /\ k < Len(q) /\ k + 1 \in 1 .. Len(q)
            BY <1>1, <3>1
        <3>3. Key[q[k + 1]] \in Int /\ Key[p] \in Int
            BY <1>1, <3>2
        <3>. QED  BY <2>1, <3>2, <3>3
    <2>. QED  BY <1>1, <2>2, <2>3
<1>. QED  BY <1>2, <1>3 DEF Abstract!Position

-----------------------------------------------------------------------------
(* The linked queue.                                                       *)

LinkedQueues == [front : Ptr, rear : Ptr, next : [PCB -> Ptr]]

(* The list l links the queue q together, and nothing else.                *)
Links(l, q) ==
    /\ l \in LinkedQueues
    /\ IsQueue(q)
    /\ l.front = IF Len(q) = 0 THEN NULL ELSE q[1]
    /\ l.rear = IF Len(q) = 0 THEN NULL ELSE q[Len(q)]
    /\ \A i \in 1 .. Len(q) : l.next[q[i]] = IF i < Len(q) THEN q[i + 1] ELSE NULL
    /\ \A p \in PCB \ Elems(q) : l.next[p] = NULL

(* A walk along the list passes the queue.                                 *)
LEMMA AfterFacts ==
    ASSUME NEW l, NEW q, Links(l, q)
    PROVE  \A k \in Nat : After(l)[k] = IF k < Len(q) THEN q[k + 1] ELSE NULL
<1>. DEFINE on == [p \in Ptr |-> IF p = NULL THEN NULL ELSE l.next[p]]
            after == After(l)
<1>1. Len(q) \in Nat /\ q \in [1 .. Len(q) -> PCB]
    BY DEF Links, IsQueue
<1>2. on \in [Ptr -> Ptr] /\ l.front \in Ptr
    BY DEF Links, LinkedQueues, Ptr
<1>3. after[0] = l.front /\ \A k \in Nat : after[k + 1] = on[after[k]]
    <2>1. after = Walk(on, l.front)
        BY DEF After
    <2>. HIDE DEF after, on
    <2>. QED  BY <1>2, <2>1, WalkFacts
<1>. HIDE DEF after
<1>. DEFINE Bad == {k \in Nat : after[k] # IF k < Len(q) THEN q[k + 1] ELSE NULL}
<1>4. SUFFICES ASSUME Bad # {} PROVE FALSE
    BY DEF after
<1>5. PICK k \in Bad : IsLeast(k, Bad)
    BY <1>4, LeastExists
<1>6. k # 0
    BY <1>1, <1>3, <1>5 DEF Links
<1>7. k - 1 \in Nat /\ k - 1 \notin Bad /\ (k - 1) + 1 = k
    BY <1>5, <1>6 DEF IsLeast
<1>8. after[k] = on[after[k - 1]]
    BY <1>3, <1>7
<1>9. after[k - 1] = IF k - 1 < Len(q) THEN q[k] ELSE NULL
    BY <1>7
<1>10. CASE k - 1 < Len(q)
    <2>1. k \in 1 .. Len(q) /\ q[k] \in PCB /\ q[k] # NULL
        BY <1>1, <1>7, <1>10, NodesAssumption
    <2>2. after[k] = l.next[q[k]]
        BY <1>8, <1>9, <1>10, <2>1 DEF Ptr
    <2>3. l.next[q[k]] = IF k < Len(q) THEN q[k + 1] ELSE NULL
        BY <2>1 DEF Links
    <2>. QED  BY <1>5, <2>2, <2>3
<1>11. CASE ~(k - 1 < Len(q))
    <2>1. after[k] = NULL
        BY <1>8, <1>9, <1>11 DEF Ptr
    <2>. QED  BY <1>1, <1>5, <1>7, <1>11, <2>1
<1>. QED  BY <1>10, <1>11

(* So what a reader of the list sees is the queue.                         *)
LEMMA ListOrderIs ==
    ASSUME NEW l, NEW q, Links(l, q)
    PROVE  ListOrder(l) = q
<1>. DEFINE after == After(l)
            S == {j \in Steps : after[j] = NULL}
            length == CHOOSE k \in Steps : IsLeast(k, S)
<1>1. Len(q) \in Nat /\ q \in [1 .. Len(q) -> PCB] /\ IsQueue(q)
    BY DEF Links, IsQueue
<1>2. Len(q) <= Cardinality(PCB) /\ Cardinality(PCB) \in Nat
    BY <1>1, QueueLength
<1>3. \A k \in Nat : after[k] = IF k < Len(q) THEN q[k + 1] ELSE NULL
    BY AfterFacts
<1>. HIDE DEF after
<1>4. \A k \in Steps : k < Len(q) => after[k] # NULL
    <2>1. SUFFICES ASSUME NEW k \in Steps, k < Len(q) PROVE after[k] # NULL
        OBVIOUS
    <2>2. k \in Nat /\ k + 1 \in 1 .. Len(q)
        BY <1>1, <1>2, <2>1 DEF Steps
    <2>. QED  BY <1>1, <1>3, <2>1, <2>2, NodesAssumption
<1>5. Len(q) \in S /\ IsLeast(Len(q), S)
    BY <1>1, <1>2, <1>3, <1>4 DEF Steps, IsLeast
<1>6. \A k \in S : IsLeast(k, S) => k = Len(q)
    <2>1. S \subseteq Int
        BY <1>2 DEF Steps
    <2>. HIDE DEF S
    <2>. QED  BY <1>5, <2>1 DEF IsLeast
<1>7. length = Len(q)
    <2>1. \A k \in Steps : IsLeast(k, S) => k \in S
        BY DEF IsLeast
    <2>. HIDE DEF S
    <2>. QED  BY <1>5, <1>6, <2>1 DEF IsLeast, S
<1>8. ListOrder(l) = [i \in 1 .. length |-> after[i - 1]]
    BY DEF ListOrder, after
<1>. HIDE DEF length
<1>9. \A i \in 1 .. Len(q) : after[i - 1] = q[i]
    BY <1>1, <1>3
<1>. QED  BY <1>1, <1>7, <1>8, <1>9

(* The PCBs with a place in the list are those of the queue.               *)
LEMMA ListedIs ==
    ASSUME NEW l, NEW q, Links(l, q)
    PROVE  {p \in PCB : p = l.rear \/ l.next[p] # NULL} = Elems(q)
<1>1. Len(q) \in Nat /\ q \in [1 .. Len(q) -> PCB]
    BY DEF Links, IsQueue
<1>2. ASSUME NEW p \in PCB, p = l.rear
      PROVE  p \in Elems(q)
    BY <1>1, <1>2, NodesAssumption DEF Links, Elems
<1>3. ASSUME NEW p \in PCB, l.next[p] # NULL
      PROVE  p \in Elems(q)
    BY <1>3 DEF Links
<1>4. ASSUME NEW i \in 1 .. Len(q)
      PROVE  q[i] \in PCB /\ (q[i] = l.rear \/ l.next[q[i]] # NULL)
    <2>1. CASE i = Len(q)
        BY <1>1, <2>1 DEF Links
    <2>2. CASE i < Len(q)
        <3>1. l.next[q[i]] = q[i + 1] /\ q[i + 1] \in PCB
            BY <1>1, <2>2 DEF Links
        <3>. QED  BY <1>1, <3>1, NodesAssumption
    <2>. QED  BY <1>1, <2>1, <2>2
<1>. QED  BY <1>2, <1>3, <1>4 DEF Elems

(* The walk of enqueue_process stops behind the PCBs that go first.        *)
LEMMA PredecessorIs ==
    ASSUME NEW l, NEW q, Links(l, q), Sorted(q), NEW p \in PCB,
           Len(q) # 0, Key[q[1]] <= Key[p]
    PROVE  \E k \in 1 .. Len(q) :
              /\ Predecessor(l, p) = q[k]
              /\ \A i \in 1 .. k : Key[q[i]] <= Key[p]
              /\ k < Len(q) => Key[p] < Key[q[k + 1]]
<1>. DEFINE after == After(l)
            S == {k \in Steps : after[k] # NULL /\ WalkStops(l, p, after[k])}
<1>1. Len(q) \in Nat /\ q \in [1 .. Len(q) -> PCB] /\ IsQueue(q)
      /\ Key \in [PCB -> Int]
    BY NodesAssumption DEF Links, IsQueue
<1>2. Len(q) <= Cardinality(PCB) /\ Cardinality(PCB) \in Nat
    BY <1>1, QueueLength
<1>3. \A k \in Nat : after[k] = IF k < Len(q) THEN q[k + 1] ELSE NULL
    BY AfterFacts
<1>. HIDE DEF after
<1>4. \A k \in Nat : k < Len(q) => k + 1 \in 1 .. Len(q) /\ after[k] = q[k + 1]
                                   /\ after[k] \in PCB /\ after[k] # NULL
    BY <1>1, <1>3, NodesAssumption
<1>5. ASSUME NEW k \in Nat, k < Len(q)
      PROVE  WalkStops(l, p, after[k]) <=>
                (k + 1 < Len(q) => Key[p] < Key[q[k + 2]])
    <2>1. l.next[after[k]] = IF k + 1 < Len(q) THEN q[(k + 1) + 1] ELSE NULL
        BY <1>4, <1>5 DEF Links
    <2>2. CASE k + 1 < Len(q)
        <3>1. l.next[after[k]] = q[k + 2] /\ q[k + 2] \in PCB /\ q[k + 2] # NULL
            BY <1>1, <1>5, <2>1, <2>2, NodesAssumption
        <3>. QED  BY <1>1, <2>2, <3>1 DEF WalkStops
    <2>3. CASE ~(k + 1 < Len(q))
        BY <2>1, <2>3 DEF WalkStops
    <2>. QED  BY <2>2, <2>3
<1>6. Len(q) - 1 \in Nat /\ Len(q) - 1 < Len(q)
    BY <1>1
<1>7. Len(q) - 1 \in S /\ S \subseteq Nat
    BY <1>1, <1>2, <1>4, <1>5, <1>6 DEF Steps
<1>8. PICK k \in S : IsLeast(k, S) /\ Predecessor(l, p) = after[k]
    <2>1. Predecessor(l, p) = after[CHOOSE k \in Steps : IsLeast(k, S)]
        BY DEF Predecessor, after
    <2>2. S \subseteq Steps
        OBVIOUS
    <2>. HIDE DEF S
    <2>3. \E k \in S : IsLeast(k, S)
        BY <1>7, LeastExists
    <2>. DEFINE c == CHOOSE k \in Steps : IsLeast(k, S)
    <2>4. c \in Steps /\ IsLeast(c, S)
        BY <2>2, <2>3
    <2>. QED  BY <2>1, <2>4 DEF IsLeast
<1>9. k \in Nat /\ k <= Len(q) - 1 /\ WalkStops(l, p, after[k])
    <2>1. k \in Nat /\ WalkStops(l, p, after[k])
        BY <1>2 DEF Steps
    <2>2. k <= Len(q) - 1
        BY <1>7, <1>8 DEF IsLeast
    <2>. QED  BY <2>1, <2>2
<1>10. k + 1 \in 1 .. Len(q) /\ after[k] = q[k + 1]
    BY <1>1, <1>4, <1>9
<1>11. k + 1 < Len(q) => Key[p] < Key[q[(k + 1) + 1]]
    BY <1>1, <1>5, <1>9
<1>12. ASSUME NEW i \in 1 .. k + 1
       PROVE  Key[q[i]] <= Key[p]
    <2>1. CASE i = 1
        BY <2>1
    <2>2. CASE i # 1
        <3>1. i - 2 \in Nat /\ i - 2 < k /\ i - 2 < Len(q) /\ i \in 1 .. Len(q)
              /\ (i - 2) + 1 < Len(q) /\ (i - 2) + 2 = i
            BY <1>1, <1>9, <2>2
        <3>2. i - 2 \notin S
            BY <1>8, <1>9, <3>1 DEF IsLeast
        <3>3. ~WalkStops(l, p, after[i - 2])
            BY <1>1, <1>2, <1>4, <3>1, <3>2 DEF Steps
        <3>4. ~(Key[p] < Key[q[i]])
            BY <1>5, <3>1, <3>3
        <3>5. Key[p] \in Int /\ Key[q[i]] \in Int
            BY <1>1, <3>1
        <3>. QED  BY <3>4, <3>5
    <2>. QED  BY <2>1, <2>2
<1>. QED  BY <1>8, <1>10, <1>11, <1>12

(* r is the list l of the queue q with p linked in behind the first k.     *)
HasBehind(r, l, q, k, p) ==
    /\ r \in LinkedQueues
    /\ r.front = IF k = 0 THEN p ELSE l.front
    /\ r.rear = IF k = Len(q) THEN p ELSE l.rear
    /\ \A m \in PCB :
          r.next[m] = IF m = p THEN (IF k < Len(q) THEN q[k + 1] ELSE NULL)
                      ELSE IF k > 0 /\ m = q[k] THEN p ELSE l.next[m]

(* Then r links the longer queue together.                                 *)
LEMMA LinkedBehind ==
    ASSUME NEW l, NEW q, Links(l, q), NEW p \in PCB \ Elems(q), NEW k \in 0 .. Len(q),
           NEW r, HasBehind(r, l, q, k, p)
    PROVE  Links(r, Inserted(q, k, p))
<1>. DEFINE s == Inserted(q, k, p)
<1>1. Len(q) \in Nat /\ q \in [1 .. Len(q) -> PCB] /\ IsQueue(q)
    BY DEF Links, IsQueue
<1>2. IsQueue(s) /\ Len(s) = Len(q) + 1 /\ Elems(s) = Elems(q) \cup {p}
    BY <1>1, InsertedFacts
<1>3. \A i \in 1 .. Len(q) + 1 :
          s[i] = IF i <= k THEN q[i] ELSE IF i = k + 1 THEN p ELSE q[i - 1]
    BY DEF Inserted
<1>. HIDE DEF s
<1>4. \A i \in 1 .. Len(q) : q[i] \in PCB /\ q[i] # p
    BY <1>1 DEF Elems
<1>5. r.front = s[1] /\ r.rear = s[Len(s)]
    <2>1. s[1] = (IF k = 0 THEN p ELSE q[1]) /\ s[Len(s)] = IF k = Len(q) THEN p ELSE q[Len(q)]
        <3>1. 1 \in 1 .. Len(q) + 1 /\ Len(q) + 1 \in 1 .. Len(q) + 1
              /\ (Len(q) + 1) - 1 = Len(q)
            BY <1>1
        <3>2. s[1] = IF k = 0 THEN p ELSE q[1]
            <4>1. CASE k = 0
                BY <1>3, <3>1, <4>1
            <4>2. CASE k # 0
                <5>1. 1 <= k
                    BY <1>1, <4>2
                <5>. QED  BY <1>3, <3>1, <4>2, <5>1
            <4>. QED  BY <4>1, <4>2
        <3>3. s[Len(q) + 1] = IF k = Len(q) THEN p ELSE q[Len(q)]
            <4>1. CASE k = Len(q)
                <5>1. ~(Len(q) + 1 <= k) /\ Len(q) + 1 = k + 1
                    BY <1>1, <4>1
                <5>. QED  BY <1>3, <3>1, <4>1, <5>1
            <4>2. CASE k < Len(q)
                <5>1. \A n, j \in Nat : j < n => ~(n + 1 <= j) /\ n + 1 # j + 1 /\ j # n
                    OBVIOUS
                <5>2. k \in Nat
                    BY <1>1
                <5>. QED  BY <1>1, <1>3, <3>1, <4>2, <5>1, <5>2
            <4>. QED  BY <1>1, <4>1, <4>2
        <3>. QED  BY <1>2, <3>2, <3>3
    <2>2. r.front = (IF k = 0 THEN p ELSE l.front) /\ r.rear = IF k = Len(q) THEN p ELSE l.rear
        BY DEF HasBehind
    <2>3. Len(q) # 0 => l.front = q[1] /\ l.rear = q[Len(q)]
        BY DEF Links
    <2>. QED  BY <1>1, <2>1, <2>2, <2>3
<1>6. ASSUME NEW i \in 1 .. Len(s)
      PROVE  r.next[s[i]] = IF i < Len(s) THEN s[i + 1] ELSE NULL
    <2>1. CASE i < k
        <3>1. s[i] = q[i] /\ i \in 1 .. Len(q) /\ s[i + 1] = q[i + 1] /\ q[i] # q[k]
            BY <1>1, <1>2, <1>3, <2>1 DEF IsQueue
        <3>2. r.next[q[i]] = l.next[q[i]]
            BY <1>1, <1>4, <2>1, <3>1 DEF HasBehind
        <3>. QED  BY <1>1, <1>2, <2>1, <3>1, <3>2 DEF Links
    <2>2. CASE i = k
        <3>1. s[i] = q[k] /\ k \in 1 .. Len(q) /\ s[i + 1] = p /\ i < Len(s)
            BY <1>1, <1>2, <1>3, <2>2
        <3>. QED  BY <1>4, <3>1 DEF HasBehind
    <2>3. CASE i = k + 1
        <3>1. s[i] = p
            BY <1>1, <1>2, <1>3, <2>3
        <3>2. k < Len(q) => s[i + 1] = q[k + 1]
            BY <1>1, <1>2, <1>3, <2>3
        <3>3. r.next[p] = IF k < Len(q) THEN q[k + 1] ELSE NULL
            BY DEF HasBehind
        <3>. QED  BY <1>1, <1>2, <2>3, <3>1, <3>2, <3>3
    <2>4. CASE i > k + 1
        <3>1. i - 1 \in 1 .. Len(q) /\ s[i] = q[i - 1] /\ i - 1 # k
            BY <1>1, <1>2, <1>3, <2>4
        <3>2. k > 0 => q[i - 1] # q[k]
            BY <1>1, <3>1 DEF IsQueue
        <3>3. r.next[q[i - 1]] = l.next[q[i - 1]]
            BY <1>1, <1>4, <3>1, <3>2 DEF HasBehind
        <3>4. i < Len(s) => s[i + 1] = q[i]
            BY <1>1, <1>2, <1>3, <2>4
        <3>5. l.next[q[i - 1]] = IF i - 1 < Len(q) THEN q[(i - 1) + 1] ELSE NULL
            BY <3>1 DEF Links
        <3>. QED  BY <1>1, <1>2, <3>1, <3>3, <3>4, <3>5
    <2>. QED  BY <1>1, <1>2, <2>1, <2>2, <2>3, <2>4
<1>7. ASSUME NEW m \in PCB \ Elems(s)
      PROVE  r.next[m] = NULL
    <2>1. m # p /\ m \notin Elems(q) /\ (k > 0 => m # q[k])
        <3>1. m # p /\ m \notin Elems(q)
            BY <1>2
        <3>2. k > 0 => k \in 1 .. Len(q)
            BY <1>1
        <3>. QED  BY <3>1, <3>2 DEF Elems
    <2>. QED  BY <2>1 DEF Links, HasBehind
<1>8. r \in LinkedQueues
    BY DEF HasBehind
<1>. QED  BY <1>1, <1>2, <1>5, <1>6, <1>7, <1>8 DEF Links, s

(* enqueue_process puts p behind the PCBs with smaller or equal keys.      *)
LEMMA EnqueueLinks ==
    ASSUME NEW l, NEW q, Links(l, q), Sorted(q), NEW p \in PCB \ Elems(q)
    PROVE  \E k \in 0 .. Len(q) :
              /\ \A i \in 1 .. k : Key[q[i]] <= Key[p]
              /\ k < Len(q) => Key[p] < Key[q[k + 1]]
              /\ Links(enqueue_process(l, p), Inserted(q, k, p))
<1>. DEFINE r == enqueue_process(l, p)
<1>1. Len(q) \in Nat /\ q \in [1 .. Len(q) -> PCB] /\ IsQueue(q)
      /\ Key \in [PCB -> Int]
    BY NodesAssumption DEF Links, IsQueue
<1>2. l \in LinkedQueues /\ NULL \in Ptr /\ p \in Ptr
    BY DEF Links, Ptr
<1>3. CASE Len(q) = 0
    <2>1. l.front = NULL /\ \A m \in PCB : l.next[m] = NULL
        BY <1>3 DEF Links, Elems
    <2>2. r = [front |-> p, rear |-> p, next |-> [l.next EXCEPT ![p] = NULL]]
        BY <2>1 DEF enqueue_process, is_queue_empty
    <2>3. /\ r \in LinkedQueues /\ r.front = p /\ r.rear = p
          /\ \A m \in PCB : r.next[m] = IF m = p THEN NULL ELSE l.next[m]
        BY <1>2, <2>2 DEF LinkedQueues
    <2>. HIDE DEF r
    <2>4. HasBehind(r, l, q, 0, p)
        BY <1>3, <2>3 DEF HasBehind
    <2>5. Links(r, Inserted(q, 0, p))
        BY <1>1, <2>4, LinkedBehind
    <2>. QED  BY <1>3, <2>5 DEF r
<1>4. CASE Len(q) # 0 /\ Key[p] < Key[q[1]]
    <2>1. l.front = q[1] /\ q[1] \in PCB /\ q[1] # NULL
        BY <1>1, <1>4, NodesAssumption DEF Links
    <2>2. r = [l EXCEPT !.front = p, !.next[p] = l.front]
        BY <1>4, <2>1 DEF enqueue_process, is_queue_empty
    <2>. HIDE DEF r
    <2>3. /\ r \in LinkedQueues /\ r.front = p /\ r.rear = l.rear
          /\ r.next = [l.next EXCEPT ![p] = q[1]]
        BY <1>2, <2>1, <2>2 DEF LinkedQueues
    <2>4. \A m \in PCB : r.next[m] = IF m = p THEN q[1] ELSE l.next[m]
        BY <1>2, <2>3 DEF LinkedQueues
    <2>5. HasBehind(r, l, q, 0, p)
        BY <1>1, <1>4, <2>3, <2>4 DEF HasBehind
    <2>6. Links(r, Inserted(q, 0, p))
        BY <1>1, <2>5, LinkedBehind
    <2>. QED  BY <1>1, <1>4, <2>6 DEF r
<1>5. CASE Len(q) # 0 /\ ~(Key[p] < Key[q[1]])
    <2>1. l.front = q[1] /\ q[1] \in PCB /\ q[1] # NULL
        BY <1>1, <1>5, NodesAssumption DEF Links
    <2>2. Key[q[1]] <= Key[p]
        BY <1>1, <1>5, <2>1
    <2>3. PICK k \in 1 .. Len(q) :
              /\ Predecessor(l, p) = q[k]
              /\ \A i \in 1 .. k : Key[q[i]] <= Key[p]
              /\ k < Len(q) => Key[p] < Key[q[k + 1]]
        BY <1>5, <2>2, PredecessorIs
    <2>4. q[k] \in PCB /\ q[k] # p
        BY <1>1 DEF Elems
    <2>5. l.next[q[k]] = IF k < Len(q) THEN q[k + 1] ELSE NULL
        BY DEF Links
    <2>6. k < Len(q) => q[k + 1] # NULL /\ q[k + 1] \in PCB
        BY <1>1, NodesAssumption
    <2>7. r = [front |-> l.front, rear |-> RearBehind(l, p, q[k]),
               next  |-> [l.next EXCEPT ![p] = l.next[q[k]], ![q[k]] = p]]
        BY <1>5, <2>1, <2>3 DEF enqueue_process, is_queue_empty
    <2>8. RearBehind(l, p, q[k]) = IF k = Len(q) THEN p ELSE l.rear
        BY <1>1, <2>5, <2>6 DEF RearBehind
    <2>9. /\ r \in LinkedQueues /\ r.front = l.front
          /\ r.rear = IF k = Len(q) THEN p ELSE l.rear
          /\ \A m \in PCB :
               r.next[m] = IF m = p THEN (IF k < Len(q) THEN q[k + 1] ELSE NULL)
                           ELSE IF m = q[k] THEN p ELSE l.next[m]
        BY <1>2, <2>4, <2>5, <2>6, <2>7, <2>8 DEF LinkedQueues, Ptr
    <2>. HIDE DEF r
    <2>10. HasBehind(r, l, q, k, p)
        <3>1. k # 0 /\ k > 0
            BY <1>1
        <3>. QED  BY <2>9, <3>1 DEF HasBehind
    <2>11. k \in 0 .. Len(q)
        BY <1>1
    <2>12. Links(r, Inserted(q, k, p))
        BY <2>10, <2>11, LinkedBehind
    <2>. QED  BY <2>3, <2>11, <2>12 DEF r
<1>. QED  BY <1>3, <1>4, <1>5

(* dequeue_process takes the first PCB of the queue.                       *)
LEMMA DequeueLinks ==
    ASSUME NEW l, NEW q, Links(l, q), Len(q) # 0
    PROVE  l.front = q[1] /\ Links(dequeue_process(l), Removed(q, 1))
<1>. DEFINE r == dequeue_process(l)
            s == Removed(q, 1)
<1>1. Len(q) \in Nat /\ q \in [1 .. Len(q) -> PCB] /\ IsQueue(q) /\ 1 \in 1 .. Len(q)
    BY DEF Links, IsQueue
<1>2. IsQueue(s) /\ Len(s) = Len(q) - 1 /\ Elems(s) = Elems(q) \ {q[1]}
    BY <1>1, RemovedFacts
<1>3. \A i \in 1 .. Len(q) - 1 : s[i] = q[i + 1]
    BY <1>1 DEF Removed
<1>4. l \in LinkedQueues /\ NULL \in Ptr
    BY DEF Links, Ptr
<1>5. l.front = q[1] /\ q[1] \in PCB /\ q[1] # NULL
    BY <1>1, NodesAssumption DEF Links
<1>6. l.next[q[1]] = IF 1 < Len(q) THEN q[2] ELSE NULL
    BY <1>1 DEF Links
<1>7. 1 < Len(q) => q[2] \in PCB /\ q[2] # NULL /\ q[2] = s[1]
    BY <1>1, <1>3, NodesAssumption
<1>8. /\ r \in LinkedQueues
      /\ r.front = IF 1 < Len(q) THEN q[2] ELSE NULL
      /\ r.rear = IF 1 < Len(q) THEN l.rear ELSE NULL
      /\ \A m \in PCB : r.next[m] = IF m = q[1] THEN NULL ELSE l.next[m]
    BY <1>4, <1>5, <1>6, <1>7 DEF dequeue_process, LinkedQueues
<1>. HIDE DEF r, s
<1>9. r.front = IF Len(s) = 0 THEN NULL ELSE s[1]
    BY <1>1, <1>2, <1>7, <1>8
<1>10. r.rear = IF Len(s) = 0 THEN NULL ELSE s[Len(s)]
    <2>1. 1 < Len(q) => s[Len(s)] = q[Len(q)]
        BY <1>1, <1>2, <1>3
    <2>. QED  BY <1>1, <1>2, <1>8, <2>1 DEF Links
<1>11. ASSUME NEW i \in 1 .. Len(s)
       PROVE  r.next[s[i]] = IF i < Len(s) THEN s[i + 1] ELSE NULL
    <2>1. s[i] = q[i + 1] /\ i + 1 \in 1 .. Len(q) /\ q[i + 1] # q[1]
        BY <1>1, <1>2, <1>3 DEF IsQueue
    <2>2. r.next[s[i]] = l.next[q[i + 1]]
        BY <1>1, <1>8, <2>1
    <2>3. l.next[q[i + 1]] = IF i + 1 < Len(q) THEN q[(i + 1) + 1] ELSE NULL
        BY <2>1 DEF Links
    <2>4. i < Len(s) => s[i + 1] = q[(i + 1) + 1]
        BY <1>1, <1>2, <1>3
    <2>. QED  BY <1>1, <1>2, <2>2, <2>3, <2>4
<1>12. ASSUME NEW m \in PCB \ Elems(s)
       PROVE  r.next[m] = NULL
    BY <1>2, <1>8 DEF Links
<1>. QED  BY <1>2, <1>5, <1>8, <1>9, <1>10, <1>11, <1>12 DEF Links, r, s

-----------------------------------------------------------------------------
(* Both queues.                                                            *)

(* The colours of the tree t while the CPU is at f.                        *)
FixState(f, t) ==
    \/ f = Idle /\ Coloured(t)
    \/ \E node : f = Inserting(node) /\ InsertState(t, node)
    \/ \E child, p : f = Erasing(child, p) /\ EraseState(t, child, p)

(* The list holds the queue a and the tree the queue b, one of them empty. *)
Holds(l, t, f, a, b) ==
    /\ Links(l, a) /\ Sorted(a)
    /\ TreeIs(t, b) /\ Sorted(b)
    /\ Len(a) = 0 \/ Len(b) = 0
    /\ FixState(f, t)

RunInv == \E a, b : Holds(list, cfs_rq, fix, a, b)

(* The queue the two stand for.                                            *)
Joined(a, b) == IF Len(b) # 0 THEN b ELSE a

(* ... is what the refinement mapping computes.                            *)
LEMMA JoinedIs ==
    ASSUME NEW l, NEW t, NEW f, NEW a, NEW b, Holds(l, t, f, a, b)
    PROVE  (IF t.root # NULL THEN TreeOrder(t) ELSE ListOrder(l)) = Joined(a, b)
<1>1. TreeOrder(t) = b /\ (t.root = NULL <=> Len(b) = 0)
    BY TreeIsFacts DEF Holds
<1>2. ListOrder(l) = a
    BY ListOrderIs DEF Holds
<1>. QED  BY <1>1, <1>2 DEF Joined

(* Nobody is in a queue without length.                                    *)
LEMMA EmptyElems ==
    ASSUME NEW q, IsQueue(q)
    PROVE  Len(q) \in Nat /\ (Elems(q) = {} <=> Len(q) = 0)
<1>1. Len(q) \in Nat
    BY QueueLength
<1>2. CASE Len(q) = 0
    BY <1>2 DEF Elems
<1>3. CASE Len(q) # 0
    <2>1. 1 \in 1 .. Len(q)
        BY <1>1, <1>3
    <2>2. q[1] \in Elems(q)
        BY <2>1 DEF Elems
    <2>. QED  BY <1>1, <1>3, <2>2
<1>. QED  BY <1>1, <1>2, <1>3

(* Who is queued where.                                                    *)
LEMMA HoldsFacts ==
    ASSUME NEW a, NEW b, Holds(list, cfs_rq, fix, a, b)
    PROVE  /\ Listed = Elems(a) /\ InTree = Elems(b) /\ InTree = Nodes(cfs_rq)
           /\ IsQueue(a) /\ IsQueue(b) /\ Len(a) \in Nat /\ Len(b) \in Nat
           /\ (Elems(a) = {} => Len(a) = 0) /\ (Elems(b) = {} => Len(b) = 0)
           /\ Elems(Joined(a, b)) = Elems(a) \cup Elems(b)
           /\ IsQueue(Joined(a, b)) /\ Sorted(Joined(a, b))
<1>1. /\ Links(list, a) /\ Sorted(a) /\ TreeIs(cfs_rq, b) /\ Sorted(b)
      /\ Len(a) = 0 \/ Len(b) = 0
    BY DEF Holds
<1>2. Listed = Elems(a) /\ IsQueue(a)
    BY <1>1, ListedIs DEF Listed, Links
<1>3. InTree = Elems(b) /\ InTree = Nodes(cfs_rq) /\ IsQueue(b)
    BY <1>1, TreeIsFacts DEF InTree, Nodes
<1>4. Len(a) \in Nat /\ Len(b) \in Nat
    BY <1>2, <1>3, EmptyElems
<1>5. /\ (Elems(a) = {} => Len(a) = 0) /\ (Elems(b) = {} => Len(b) = 0)
      /\ (Len(a) = 0 => Elems(a) = {}) /\ (Len(b) = 0 => Elems(b) = {})
    BY <1>2, <1>3, EmptyElems
<1>6. Elems(Joined(a, b)) = Elems(a) \cup Elems(b)
    BY <1>1, <1>5 DEF Joined
<1>. QED  BY <1>1, <1>2, <1>3, <1>4, <1>5, <1>6 DEF Joined

(* The steps of KeyedQueue, on a queue given as a value.                   *)
QueueStep(q, r, q1, r1) ==
    \/ \E p \in PCB : /\ p \notin Elems(q) /\ r1 = NULL
                      /\ q1 = Abstract!Enqueue(q, Key, p)
    \/ \E k \in 1 .. Len(q) : q1 = Removed(q, k) /\ r1 = NULL
    \/ Len(q) = 0 /\ q1 = q /\ r1 = NULL
    \/ Len(q) # 0 /\ q1 = Removed(q, 1) /\ r1 = q[1]
    \/ q1 = q /\ r1 = r

(* Linking p in where the keys put it is Enqueue of KeyedQueue.            *)
LEMMA InsertedIsEnqueue ==
    ASSUME NEW q, IsQueue(q), Sorted(q), NEW p \in PCB, NEW k \in 0 .. Len(q),
           \A i \in 1 .. k : Key[q[i]] <= Key[p],
           k < Len(q) => Key[p] < Key[q[k + 1]]
    PROVE  Inserted(q, k, p) = Abstract!Enqueue(q, Key, p)
<1>1. Abstract!Position(q, Key, p) = k
    BY PositionIs
<1>. QED  BY <1>1 DEF Inserted, Abstract!Enqueue, Abstract!InsertBehind

(* What a step does to the two queues: they stay in order, and KeyedQueue  *)
(* takes a step or stutters.                                               *)
Simulates(a, b) ==
    \E a1, b1 : /\ Holds(list', cfs_rq', fix', a1, b1)
                /\ QueueStep(Joined(a, b), returned, Joined(a1, b1), returned')

(* The linked queue.                                                       *)
LEMMA EnqueueSimulates ==
    ASSUME NEW a, NEW b, Holds(list, cfs_rq, fix, a, b), NEW p \in PCB, Enqueue(p)
    PROVE  Simulates(a, b)
<1>1. /\ Listed = Elems(a) /\ InTree = Elems(b) /\ IsQueue(a) /\ IsQueue(b)
      /\ Len(a) \in Nat /\ Len(b) \in Nat /\ (Elems(b) = {} => Len(b) = 0)
    BY HoldsFacts
<1>2. /\ Len(b) = 0 /\ p \notin Elems(a) /\ list' = enqueue_process(list, p)
      /\ returned' = NULL /\ cfs_rq' = cfs_rq /\ fix' = fix
    BY <1>1 DEF Enqueue
<1>3. Links(list, a) /\ Sorted(a) /\ TreeIs(cfs_rq, b) /\ Sorted(b) /\ FixState(fix, cfs_rq)
    BY DEF Holds
<1>4. PICK k \in 0 .. Len(a) :
          /\ \A i \in 1 .. k : Key[a[i]] <= Key[p]
          /\ k < Len(a) => Key[p] < Key[a[k + 1]]
          /\ Links(enqueue_process(list, p), Inserted(a, k, p))
    BY <1>2, <1>3, EnqueueLinks
<1>5. PICK a1 : a1 = Inserted(a, k, p)
    OBVIOUS
<1>6. Sorted(a1)
    BY <1>1, <1>3, <1>4, <1>5, InsertedSorted
<1>7. a1 = Abstract!Enqueue(a, Key, p)
    BY <1>1, <1>3, <1>4, <1>5, InsertedIsEnqueue
<1>8. Holds(list', cfs_rq', fix', a1, b)
    BY <1>2, <1>3, <1>4, <1>5, <1>6 DEF Holds
<1>9. Joined(a, b) = a /\ Joined(a1, b) = a1
    BY <1>2 DEF Joined
<1>10. QueueStep(Joined(a, b), returned, Joined(a1, b), returned')
    BY <1>2, <1>7, <1>9 DEF QueueStep
<1>. QED  BY <1>8, <1>10 DEF Simulates

(* dequeue_process takes the front.                                        *)
LEMMA DequeueSimulates ==
    ASSUME NEW a, NEW b, Holds(list, cfs_rq, fix, a, b), Dequeue
    PROVE  Simulates(a, b)
<1>1. /\ InTree = Elems(b) /\ IsQueue(a) /\ IsQueue(b)
      /\ Len(a) \in Nat /\ Len(b) \in Nat /\ (Elems(b) = {} => Len(b) = 0)
    BY HoldsFacts
<1>2. /\ Len(b) = 0 /\ returned' = list.front /\ cfs_rq' = cfs_rq /\ fix' = fix
      /\ list' = IF is_queue_empty(list) THEN list ELSE dequeue_process(list)
    BY <1>1 DEF Dequeue
<1>3. Links(list, a) /\ Sorted(a) /\ TreeIs(cfs_rq, b) /\ Sorted(b) /\ FixState(fix, cfs_rq)
    BY DEF Holds
<1>4. Joined(a, b) = a
    BY <1>2 DEF Joined
<1>5. CASE Len(a) = 0
    <2>1. list.front = NULL
        BY <1>3, <1>5 DEF Links
    <2>2. list' = list /\ returned' = NULL
        BY <1>2, <2>1 DEF is_queue_empty
    <2>3. Holds(list', cfs_rq', fix', a, b)
        BY <1>2, <1>3, <2>2 DEF Holds
    <2>4. QueueStep(Joined(a, b), returned, Joined(a, b), returned')
        BY <1>4, <1>5, <2>2 DEF QueueStep
    <2>. QED  BY <2>3, <2>4 DEF Simulates
<1>6. CASE Len(a) # 0
    <2>1. list.front = a[1] /\ Links(dequeue_process(list), Removed(a, 1))
        BY <1>3, <1>6, DequeueLinks
    <2>2. 1 \in 1 .. Len(a) /\ a[1] \in PCB
        BY <1>1, <1>6 DEF IsQueue
    <2>3. list' = dequeue_process(list) /\ returned' = a[1]
        BY <1>2, <2>1, <2>2, NodesAssumption DEF is_queue_empty
    <2>4. Sorted(Removed(a, 1))
        BY <1>1, <1>3, <2>2, RemovedFacts
    <2>5. Holds(list', cfs_rq', fix', Removed(a, 1), b)
        BY <1>2, <1>3, <2>1, <2>3, <2>4 DEF Holds
    <2>6. Joined(Removed(a, 1), b) = Removed(a, 1)
        BY <1>2 DEF Joined
    <2>7. QueueStep(Joined(a, b), returned, Joined(Removed(a, 1), b), returned')
        BY <1>4, <1>6, <2>3, <2>6 DEF QueueStep
    <2>. QED  BY <2>5, <2>7 DEF Simulates
<1>. QED  BY <1>5, <1>6

(* With an empty list the queue is the tree's.                             *)
LEMMA JoinedTree ==
    ASSUME NEW a, NEW b, IsQueue(a), IsQueue(b), Len(a) = 0
    PROVE  Joined(a, b) = b
<1>1. a = <<>>
    BY EmptySeq DEF IsQueue
<1>2. Len(b) = 0 => b = <<>>
    BY EmptySeq DEF IsQueue
<1>. QED  BY <1>1, <1>2 DEF Joined

(* What an operation on the tree starts with.                              *)
TreeInUse(a, b) ==
    /\ Len(a) = 0 /\ Links(list, a) /\ Sorted(a) /\ IsQueue(a)
    /\ TreeIs(cfs_rq, b) /\ Sorted(b) /\ IsQueue(b) /\ Len(b) \in Nat
    /\ Coloured(cfs_rq) /\ Joined(a, b) = b
    /\ InTree = Nodes(cfs_rq) /\ Nodes(cfs_rq) = Elems(b)

(* That is so while nobody is in the list and no loop runs.                *)
LEMMA TreeInUseHolds ==
    ASSUME NEW a, NEW b, Holds(list, cfs_rq, fix, a, b), fix = Idle, Listed = {}
    PROVE  TreeInUse(a, b)
<1>1. /\ Listed = Elems(a) /\ InTree = Elems(b) /\ InTree = Nodes(cfs_rq)
      /\ IsQueue(a) /\ IsQueue(b) /\ Len(b) \in Nat /\ (Elems(a) = {} => Len(a) = 0)
    BY HoldsFacts
<1>2. Len(a) = 0
    BY <1>1
<1>3. Joined(a, b) = b
    BY <1>1, <1>2, JoinedTree
<1>4. Links(list, a) /\ Sorted(a) /\ TreeIs(cfs_rq, b) /\ Sorted(b) /\ FixState(fix, cfs_rq)
    BY DEF Holds
<1>5. Coloured(cfs_rq)
    BY <1>4 DEF FixState, Idle, Inserting, Erasing
<1>. QED  BY <1>1, <1>2, <1>3, <1>4, <1>5 DEF TreeInUse

(* cfs_enqueue.                                                            *)
LEMMA CfsLinkSimulates ==
    ASSUME NEW a, NEW b, Holds(list, cfs_rq, fix, a, b), NEW p \in PCB, CfsLink(p)
    PROVE  Simulates(a, b)
<1>1. /\ fix = Idle /\ Listed = {} /\ p \notin InTree /\ cfs_rq' = Linked(cfs_rq, p)
      /\ fix' = Inserting(p) /\ returned' = NULL /\ list' = list
    BY DEF CfsLink
<1>2. TreeInUse(a, b)
    BY <1>1, TreeInUseHolds
<1>3. /\ Len(a) = 0 /\ Links(list, a) /\ Sorted(a) /\ IsQueue(a)
      /\ TreeIs(cfs_rq, b) /\ Sorted(b) /\ IsQueue(b) /\ Len(b) \in Nat
      /\ Coloured(cfs_rq) /\ Joined(a, b) = b
      /\ p \notin Nodes(cfs_rq) /\ p \notin Elems(b)
    BY <1>1, <1>2 DEF TreeInUse
<1>4. PICK k : /\ Fits(b, k, p) /\ TreeIs(Linked(cfs_rq, p), Inserted(b, k, p))
               /\ InsertState(Linked(cfs_rq, p), p)
    BY <1>3, LinkedTree
<1>5. PICK b1 : b1 = Inserted(b, k, p)
    OBVIOUS
<1>6. /\ k \in 0 .. Len(b) /\ \A i \in 1 .. k : Key[b[i]] <= Key[p]
      /\ k < Len(b) => Key[p] < Key[b[k + 1]]
    <2>1. /\ k \in 0 .. Len(b) /\ \A i \in 1 .. k : Key[b[i]] <= Key[p]
          /\ \A i \in k + 1 .. Len(b) : Key[p] < Key[b[i]]
        BY <1>4 DEF Fits
    <2>2. k < Len(b) => k + 1 \in k + 1 .. Len(b)
        BY <1>3, <2>1
    <2>. QED  BY <2>1, <2>2
<1>7. IsQueue(b1)
    BY <1>3, <1>5, <1>6, InsertedFacts
<1>8. Sorted(b1)
    BY <1>3, <1>5, <1>6, InsertedSorted
<1>9. b1 = Abstract!Enqueue(b, Key, p)
    BY <1>3, <1>5, <1>6, InsertedIsEnqueue
<1>10. FixState(fix', cfs_rq')
    BY <1>1, <1>4 DEF FixState
<1>11. Holds(list', cfs_rq', fix', a, b1)
    BY <1>1, <1>3, <1>4, <1>5, <1>8, <1>10 DEF Holds
<1>12. Joined(a, b1) = b1
    BY <1>3, <1>7, JoinedTree
<1>13. QueueStep(Joined(a, b), returned, Joined(a, b1), returned')
    BY <1>1, <1>3, <1>9, <1>12 DEF QueueStep
<1>. QED  BY <1>11, <1>13 DEF Simulates

(* rb_erase of any node.                                                   *)
LEMMA EraseHolds ==
    ASSUME NEW a, NEW b, TreeInUse(a, b), NEW y \in Nodes(cfs_rq), Erase(y), list' = list
    PROVE  \E k \in 1 .. Len(b) : /\ b[k] = y
                                  /\ Holds(list', cfs_rq', fix', a, Removed(b, k))
                                  /\ Joined(a, Removed(b, k)) = Removed(b, k)
<1>1. /\ Len(a) = 0 /\ Links(list, a) /\ Sorted(a) /\ IsQueue(a)
      /\ TreeIs(cfs_rq, b) /\ Sorted(b) /\ IsQueue(b) /\ Coloured(cfs_rq)
    BY DEF TreeInUse
<1>2. PICK w : w = Unlinked(cfs_rq, y)
    OBVIOUS
<1>3. cfs_rq' = w.tree /\ fix' = IF w.black THEN Erasing(w.child, w.parent) ELSE Idle
    BY <1>2 DEF Erase
<1>4. /\ \E k \in 1 .. Len(b) : b[k] = y /\ TreeIs(w.tree, Removed(b, k))
      /\ IF w.black THEN EraseState(w.tree, w.child, w.parent) ELSE Coloured(w.tree)
    BY <1>1, <1>2, ErasedTree
<1>5. PICK k \in 1 .. Len(b) : b[k] = y /\ TreeIs(w.tree, Removed(b, k))
    BY <1>4
<1>6. FixState(fix', cfs_rq')
    <2>1. CASE w.black
        BY <1>3, <1>4, <2>1 DEF FixState
    <2>2. CASE ~w.black
        BY <1>3, <1>4, <2>2 DEF FixState
    <2>. QED  BY <2>1, <2>2
<1>7. IsQueue(Removed(b, k)) /\ Sorted(Removed(b, k))
    BY <1>1, RemovedFacts
<1>8. Holds(list', cfs_rq', fix', a, Removed(b, k))
    BY <1>1, <1>3, <1>5, <1>6, <1>7 DEF Holds
<1>9. Joined(a, Removed(b, k)) = Removed(b, k)
    BY <1>1, <1>7, JoinedTree
<1>. QED  BY <1>5, <1>8, <1>9

(* rb_erase as an operation of its own.                                    *)
LEMMA CfsEraseSimulates ==
    ASSUME NEW a, NEW b, Holds(list, cfs_rq, fix, a, b), NEW p \in PCB, CfsErase(p)
    PROVE  Simulates(a, b)
<1>1. /\ fix = Idle /\ Listed = {} /\ p \in InTree /\ Erase(p)
      /\ returned' = NULL /\ list' = list
    BY DEF CfsErase
<1>2. TreeInUse(a, b)
    BY <1>1, TreeInUseHolds
<1>3. p \in Nodes(cfs_rq) /\ Joined(a, b) = b
    BY <1>1, <1>2 DEF TreeInUse
<1>4. PICK k \in 1 .. Len(b) : /\ b[k] = p
                               /\ Holds(list', cfs_rq', fix', a, Removed(b, k))
                               /\ Joined(a, Removed(b, k)) = Removed(b, k)
    BY <1>1, <1>2, <1>3, EraseHolds
<1>5. QueueStep(Joined(a, b), returned, Joined(a, Removed(b, k)), returned')
    BY <1>1, <1>3, <1>4 DEF QueueStep
<1>. QED  BY <1>4, <1>5 DEF Simulates

(* cfs_dequeue_min.                                                        *)
LEMMA CfsDequeueMinSimulates ==
    ASSUME NEW a, NEW b, Holds(list, cfs_rq, fix, a, b), CfsDequeueMin
    PROVE  Simulates(a, b)
<1>1. fix = Idle /\ Listed = {} /\ list' = list
    BY DEF CfsDequeueMin
<1>2. TreeInUse(a, b)
    BY <1>1, TreeInUseHolds
<1>3. /\ TreeIs(cfs_rq, b) /\ IsQueue(b) /\ Joined(a, b) = b /\ Len(b) \in Nat
      /\ (cfs_rq.root = NULL <=> Len(b) = 0)
    BY <1>2, TreeIsFacts DEF TreeInUse
<1>4. CASE cfs_rq.root = NULL
    <2>1. returned' = NULL /\ cfs_rq' = cfs_rq /\ fix' = fix
        BY <1>4 DEF CfsDequeueMin
    <2>2. Holds(list', cfs_rq', fix', a, b)
        BY <1>1, <2>1
    <2>3. QueueStep(Joined(a, b), returned, Joined(a, b), returned')
        BY <1>3, <1>4, <2>1 DEF QueueStep
    <2>. QED  BY <2>2, <2>3 DEF Simulates
<1>5. CASE cfs_rq.root # NULL
    <2>1. PICK y : y = Leftmost(cfs_rq, cfs_rq.root)
        OBVIOUS
    <2>2. returned' = y /\ Erase(y)
        BY <1>5, <2>1 DEF CfsDequeueMin
    <2>3. y \in Nodes(cfs_rq) /\ y = b[1]
        BY <1>3, <1>5, <2>1, FirstOfTree
    <2>4. PICK k \in 1 .. Len(b) : /\ b[k] = y
                                   /\ Holds(list', cfs_rq', fix', a, Removed(b, k))
                                   /\ Joined(a, Removed(b, k)) = Removed(b, k)
        BY <1>1, <1>2, <2>2, <2>3, EraseHolds
    <2>5. 1 \in 1 .. Len(b) /\ Len(b) # 0
        BY <1>3, <2>4
    <2>6. k = 1
        BY <1>3, <2>3, <2>4, <2>5 DEF IsQueue
    <2>7. QueueStep(Joined(a, b), returned, Joined(a, Removed(b, k)), returned')
        BY <1>3, <2>2, <2>3, <2>4, <2>5, <2>6 DEF QueueStep
    <2>. QED  BY <2>4, <2>7 DEF Simulates
<1>. QED  BY <1>4, <1>5

(* The loop the CPU is in.                                                 *)
LEMMA LoopState ==
    ASSUME FixState(fix, cfs_rq)
    PROVE  /\ fix = Idle => Coloured(cfs_rq)
           /\ fix.loop = "insert" =>
                 fix = Inserting(fix.node) /\ InsertState(cfs_rq, fix.node)
           /\ fix.loop = "erase" =>
                 /\ fix = Erasing(fix.child, fix.parent)
                 /\ EraseState(cfs_rq, fix.child, fix.parent)
<1>1. CASE fix = Idle /\ Coloured(cfs_rq)
    BY <1>1 DEF Idle
<1>2. CASE \E node : fix = Inserting(node) /\ InsertState(cfs_rq, node)
    BY <1>2 DEF Idle, Inserting
<1>3. CASE \E child, p : fix = Erasing(child, p) /\ EraseState(cfs_rq, child, p)
    BY <1>3 DEF Idle, Erasing
<1>. QED  BY <1>1, <1>2, <1>3 DEF FixState

(* A step that leaves both queues as they are.                             *)
LEMMA Stutters ==
    ASSUME NEW a, NEW b, Holds(list, cfs_rq, fix, a, b), list' = list, returned' = returned,
           TreeIs(cfs_rq', b), FixState(fix', cfs_rq')
    PROVE  Simulates(a, b)
<1>1. Holds(list', cfs_rq', fix', a, b)
    BY DEF Holds
<1>2. QueueStep(Joined(a, b), returned, Joined(a, b), returned')
    BY DEF QueueStep
<1>. QED  BY <1>1, <1>2 DEF Simulates

(* The loop of rb_insert_color; where it goes on after a pass it has       *)
(* climbed two levels, and nothing was rotated.                            *)
LEMMA InsertColorPassFacts ==
    ASSUME NEW a, NEW b, Holds(list, cfs_rq, fix, a, b), InsertColorPass
    PROVE  /\ Simulates(a, b) /\ fix.node \in Nodes(cfs_rq)
           /\ fix' = Inserting(fix'.node)
           /\ RedParent(cfs_rq', fix'.node) =>
                 /\ cfs_rq'.parent = cfs_rq.parent
                 /\ fix'.node = cfs_rq.parent[cfs_rq.parent[fix.node]]
<1>1. PICK w : w = InsertPass(cfs_rq, fix.node)
    OBVIOUS
<1>2. /\ fix.loop = "insert" /\ RedParent(cfs_rq, fix.node)
      /\ cfs_rq' = w.tree /\ fix' = Inserting(w.node) /\ list' = list /\ returned' = returned
    BY <1>1 DEF InsertColorPass
<1>3. TreeIs(cfs_rq, b) /\ InsertState(cfs_rq, fix.node)
    BY <1>2, LoopState DEF Holds
<1>4. TreeIs(w.tree, b) /\ InsertPassed(cfs_rq, fix.node, w)
    BY <1>1, <1>2, <1>3, InsertPassTree
<1>5. FixState(fix', cfs_rq')
    BY <1>2, <1>4 DEF FixState, InsertPassed
<1>6. Simulates(a, b)
    BY <1>2, <1>4, <1>5, Stutters
<1>7. fix'.node = w.node
    BY <1>2 DEF Inserting
<1>. QED  BY <1>2, <1>3, <1>4, <1>6, <1>7 DEF InsertPassed, InsertState

(* The loop of rb_erase; it climbs one level.                              *)
LEMMA EraseFixupPassFacts ==
    ASSUME NEW a, NEW b, Holds(list, cfs_rq, fix, a, b), EraseFixupPass
    PROVE  /\ Simulates(a, b) /\ fix.parent \in Nodes(cfs_rq)
           /\ fix' = Erasing(fix'.child, fix'.parent)
           /\ LacksBlack(cfs_rq', fix'.child) =>
                 /\ cfs_rq'.parent = cfs_rq.parent
                 /\ fix'.parent = cfs_rq.parent[fix.parent]
<1>1. PICK w : w = ErasePass(cfs_rq, fix.child, fix.parent)
    OBVIOUS
<1>2. /\ fix.loop = "erase" /\ LacksBlack(cfs_rq, fix.child)
      /\ cfs_rq' = w.tree /\ fix' = Erasing(w.child, w.parent)
      /\ list' = list /\ returned' = returned
    BY <1>1 DEF EraseFixupPass
<1>3. TreeIs(cfs_rq, b) /\ EraseState(cfs_rq, fix.child, fix.parent)
    BY <1>2, LoopState DEF Holds
<1>4. TreeIs(w.tree, b) /\ ErasePassed(cfs_rq, fix.parent, w)
    BY <1>1, <1>2, <1>3, ErasePassTree
<1>5. FixState(fix', cfs_rq')
    BY <1>2, <1>4 DEF FixState, ErasePassed
<1>6. Simulates(a, b)
    BY <1>2, <1>4, <1>5, Stutters
<1>7. fix'.child = w.child /\ fix'.parent = w.parent
    BY <1>2 DEF Erasing
<1>8. fix.parent \in Nodes(cfs_rq)
    BY <1>2, <1>3 DEF EraseState, LacksBlack, Lacking
<1>. QED  BY <1>2, <1>4, <1>6, <1>7, <1>8 DEF ErasePassed

(* What the code does behind the loops.                                    *)
LEMMA DoneSimulates ==
    ASSUME NEW a, NEW b, Holds(list, cfs_rq, fix, a, b), InsertColorDone \/ EraseFixupDone
    PROVE  Simulates(a, b)
<1>1. TreeIs(cfs_rq, b) /\ FixState(fix, cfs_rq)
    BY DEF Holds
<1>2. CASE InsertColorDone
    <2>1. /\ fix.loop = "insert" /\ ~RedParent(cfs_rq, fix.node)
          /\ cfs_rq' = Painted(cfs_rq, {cfs_rq.root}, FALSE)
          /\ fix' = Idle /\ list' = list /\ returned' = returned
        BY <1>2 DEF InsertColorDone
    <2>2. InsertState(cfs_rq, fix.node)
        BY <1>1, <2>1, LoopState
    <2>3. TreeIs(cfs_rq', b) /\ Coloured(cfs_rq')
        BY <1>1, <2>1, <2>2, InsertDoneTree
    <2>4. FixState(fix', cfs_rq')
        BY <2>1, <2>3 DEF FixState
    <2>. QED  BY <2>1, <2>3, <2>4, Stutters
<1>3. CASE EraseFixupDone
    <2>1. /\ fix.loop = "erase" /\ ~LacksBlack(cfs_rq, fix.child)
          /\ cfs_rq' = Painted(cfs_rq, {fix.child}, FALSE)
          /\ fix' = Idle /\ list' = list /\ returned' = returned
        BY <1>3 DEF EraseFixupDone
    <2>2. EraseState(cfs_rq, fix.child, fix.parent)
        BY <1>1, <2>1, LoopState
    <2>3. TreeIs(cfs_rq', b) /\ Coloured(cfs_rq')
        BY <1>1, <2>1, <2>2, EraseDoneTree
    <2>4. FixState(fix', cfs_rq')
        BY <2>1, <2>3 DEF FixState
    <2>. QED  BY <2>1, <2>3, <2>4, Stutters
<1>. QED  BY <1>2, <1>3

-----------------------------------------------------------------------------
(* The specification.                                                      *)

(* Both queues are empty at the start.                                     *)
LEMMA InitHolds ==
    ASSUME Init
    PROVE  Holds(list, cfs_rq, fix, <<>>, <<>>)
<1>1. PICK q : q = <<>>
    OBVIOUS
<1>2. IsQueue(q) /\ Len(q) = 0 /\ Elems(q) = {} /\ Sorted(q)
    BY <1>1 DEF IsQueue, Elems, Sorted
<1>3. list = EmptyQueue /\ cfs_rq = EmptyTree /\ fix = Idle
    BY DEF Init
<1>4. /\ list \in LinkedQueues /\ list.front = NULL /\ list.rear = NULL
      /\ \A p \in PCB : list.next[p] = NULL
    BY <1>3 DEF EmptyQueue, LinkedQueues, Ptr
<1>5. Links(list, q)
    BY <1>2, <1>4 DEF Links
<1>6. TreeIs(cfs_rq, q) /\ Coloured(cfs_rq)
    BY <1>1, <1>3, EmptyTreeIs
<1>7. FixState(fix, cfs_rq)
    BY <1>3, <1>6 DEF FixState
<1>. QED  BY <1>1, <1>2, <1>5, <1>6, <1>7 DEF Holds

(* Every step.                                                             *)
LEMMA NextSimulates ==
    ASSUME NEW a, NEW b, Holds(list, cfs_rq, fix, a, b), [Next]_vars
    PROVE  Simulates(a, b)
<1>1. ASSUME NEW p \in PCB, Enqueue(p)
      PROVE  Simulates(a, b)
    BY <1>1, EnqueueSimulates
<1>2. ASSUME NEW p \in PCB, CfsLink(p)
      PROVE  Simulates(a, b)
    BY <1>2, CfsLinkSimulates
<1>3. ASSUME NEW p \in PCB, CfsErase(p)
      PROVE  Simulates(a, b)
    BY <1>3, CfsEraseSimulates
<1>4. CASE Dequeue
    BY <1>4, DequeueSimulates
<1>5. CASE CfsDequeueMin
    BY <1>5, CfsDequeueMinSimulates
<1>6. CASE InsertColorPass
    BY <1>6, InsertColorPassFacts
<1>7. CASE EraseFixupPass
    BY <1>7, EraseFixupPassFacts
<1>8. CASE InsertColorDone \/ EraseFixupDone
    BY <1>8, DoneSimulates
<1>9. CASE UNCHANGED vars
    <2>1. list' = list /\ cfs_rq' = cfs_rq /\ fix' = fix /\ returned' = returned
        BY <1>9 DEF vars
    <2>2. TreeIs(cfs_rq', b) /\ FixState(fix', cfs_rq')
        BY <2>1 DEF Holds
    <2>. QED  BY <2>1, <2>2, Stutters
<1>. QED  BY <1>1, <1>2, <1>3, <1>4, <1>5, <1>6, <1>7, <1>8, <1>9 DEF Next

(* The list holds a queue in the order of its keys and the tree another,   *)
(* and one of the two is empty; the tree is a red-black tree but for what  *)
(* the loop at work has still to mend.                                     *)
THEOREM RunQueuesInvariant == Spec => []RunInv
<1>1. Init => RunInv
    BY InitHolds DEF RunInv
<1>2. RunInv /\ [Next]_vars => RunInv'
    <2>1. SUFFICES ASSUME RunInv, [Next]_vars PROVE RunInv'
        OBVIOUS
    <2>2. PICK a, b : Holds(list, cfs_rq, fix, a, b)
        BY <2>1 DEF RunInv
    <2>3. Simulates(a, b)
        BY <2>1, <2>2, NextSimulates
    <2>. QED  BY <2>3 DEF Simulates, RunInv
<1>. QED  BY <1>1, <1>2, PTL DEF Spec

(* enqueue_process and dequeue_process keep rear at the end of the list,   *)
(* and no PCB outside the list points into it.                             *)
THEOREM RunQueuesListEndsAtRear == Spec => []ListEndsAtRear
<1>1. RunInv => ListEndsAtRear
    <2>1. SUFFICES ASSUME RunInv PROVE ListEndsAtRear
        OBVIOUS
    <2>2. PICK a, b : Holds(list, cfs_rq, fix, a, b)
        BY <2>1 DEF RunInv
    <2>3. Links(list, a) /\ ListOrder(list) = a
        BY <2>2, ListOrderIs DEF Holds
    <2>4. Listed = Elems(a) /\ IsQueue(a)
        BY <2>2, HoldsFacts
    <2>5. Len(a) = Cardinality(Listed) /\ Len(a) \in Nat
        BY <2>4, QueueLength
    <2>6. list.front = NULL <=> Len(a) = 0
        <3>1. Len(a) # 0 => a[1] \in PCB
            BY <2>4, <2>5 DEF IsQueue
        <3>. QED  BY <2>3, <3>1, NodesAssumption DEF Links
    <2>7. list.rear = IF Len(a) = 0 THEN NULL ELSE a[Len(a)]
        BY <2>3 DEF Links
    <2>. QED  BY <2>3, <2>5, <2>6, <2>7 DEF ListEndsAtRear
<1>. QED  BY <1>1, RunQueuesInvariant, PTL

(* rb_link_node, the rotations and rb_erase keep parent pointers and links *)
(* down in agreement, between any two passes of the loops too.             *)
THEOREM RunQueuesParentsMatch == Spec => []ParentsMatch
<1>1. RunInv => ParentsMatch
    <2>1. SUFFICES ASSUME RunInv PROVE ParentsMatch
        OBVIOUS
    <2>2. PICK a, b : Holds(list, cfs_rq, fix, a, b)
        BY <2>1 DEF RunInv
    <2>3. Shaped(cfs_rq)
        BY <2>2, TreeIsFacts DEF Holds
    <2>. QED  BY <2>3 DEF Shaped, ParentsMatch, InTree
<1>. QED  BY <1>1, RunQueuesInvariant, PTL

(* After each cfs_enqueue, cfs_dequeue_min and rb_erase the tree is a      *)
(* red-black tree.                                                         *)
THEOREM RunQueuesRedBlack == Spec => []RedBlack
<1>1. RunInv => RedBlack
    <2>1. SUFFICES ASSUME RunInv, fix = Idle
          PROVE  /\ ~IsRed(cfs_rq, cfs_rq.root)
                 /\ \A n \in InTree, s \in Sides :
                       cfs_rq.red[n] => ~IsRed(cfs_rq, cfs_rq.kid[n][s])
                 /\ BlackHeights(cfs_rq) # {}
        BY DEF RedBlack
    <2>2. PICK a, b : Holds(list, cfs_rq, fix, a, b)
        BY <2>1 DEF RunInv
    <2>3. Coloured(cfs_rq)
        BY <2>1, <2>2, LoopState DEF Holds
    <2>4. InTree = Nodes(cfs_rq)
        BY <2>2, HoldsFacts
    <2>5. PICK pos, e : Ordered(cfs_rq, b, pos, e)
        BY <2>2 DEF Holds, TreeIs
    <2>6. PICK h : Balanced(cfs_rq, h, NULL, "left")
        BY <2>3 DEF Coloured, Even
    <2>7. BlackHeights(cfs_rq) # {}
        BY <2>5, <2>6, BlackHeightsIs
    <2>8. Clean(cfs_rq, NULL) /\ ~IsRed(cfs_rq, cfs_rq.root)
        BY <2>3 DEF Coloured
    <2>9. ASSUME NEW n \in InTree, NEW s \in Sides, cfs_rq.red[n]
          PROVE  ~IsRed(cfs_rq, cfs_rq.kid[n][s])
        BY <2>4, <2>8, <2>9, CleanIs
    <2>. QED  BY <2>7, <2>8, <2>9
<1>. QED  BY <1>1, RunQueuesInvariant, PTL

(* A pass of rb_insert_color or rb_erase after which the loop goes on has  *)
(* climbed: the loops end.                                                 *)
THEOREM RunQueuesFixupClimbs == Spec => FixupClimbs
<1>1. RunInv /\ [Next]_vars => [LoopsOn /\ LoopsOn' => LoopLevel' < LoopLevel]_vars
    <2>1. SUFFICES ASSUME RunInv, Next, LoopsOn, LoopsOn' PROVE LoopLevel' < LoopLevel
        OBVIOUS
    <2>2. PICK a, b : Holds(list, cfs_rq, fix, a, b)
        BY <2>1 DEF RunInv
    <2>3. PICK pos, e : Ordered(cfs_rq, b, pos, e)
        BY <2>2 DEF Holds, TreeIs
    <2>4. InsertColorPass \/ EraseFixupPass
        <3>1. fix.loop # "none" /\ fix # Idle /\ fix' # Idle
            BY <2>1 DEF LoopsOn, Idle
        <3>2. ~InsertColorDone /\ ~EraseFixupDone
            BY <3>1 DEF InsertColorDone, EraseFixupDone
        <3>3. \A p \in PCB : ~Enqueue(p) /\ ~CfsLink(p) /\ ~CfsErase(p)
            BY <3>1 DEF Enqueue, CfsLink, CfsErase
        <3>4. ~Dequeue /\ ~CfsDequeueMin
            BY <3>1 DEF Dequeue, CfsDequeueMin
        <3>. QED  BY <2>1, <3>2, <3>3, <3>4 DEF Next
    <2>5. CASE InsertColorPass
        <3>1. PICK n : n = fix.node
            OBVIOUS
        <3>2. /\ n \in Nodes(cfs_rq) /\ fix' = Inserting(fix'.node)
              /\ RedParent(cfs_rq', fix'.node) =>
                    /\ cfs_rq'.parent = cfs_rq.parent
                    /\ fix'.node = cfs_rq.parent[cfs_rq.parent[n]]
            BY <2>2, <2>5, <3>1, InsertColorPassFacts
        <3>3. fix'.loop = "insert" /\ fix.loop = "insert" /\ RedParent(cfs_rq, n)
            BY <2>5, <3>1, <3>2 DEF Inserting, InsertColorPass
        <3>4. RedParent(cfs_rq', fix'.node)
            BY <2>1, <3>3 DEF LoopsOn
        <3>5. n \in PCB /\ cfs_rq.parent[n] \in PCB
            <4>1. n \in PCB
                BY <3>2 DEF Nodes
            <4>2. cfs_rq.parent[n] \in Ptr
                BY <2>3, <4>1, TreeFields DEF Ordered, Shaped
            <4>. QED  BY <3>3, <4>1, <4>2 DEF RedParent, IsRed, Ptr
        <3>6. PICK m : m = cfs_rq.parent[n]
            OBVIOUS
        <3>7. /\ Level(cfs_rq, n) \in Int /\ Level(cfs_rq, m) \in Int
              /\ Level(cfs_rq, n) = 1 + Level(cfs_rq, m)
            BY <2>3, <3>5, <3>6, LevelFalls
        <3>8. /\ Level(cfs_rq, cfs_rq.parent[m]) \in Int
              /\ Level(cfs_rq, m) = 1 + Level(cfs_rq, cfs_rq.parent[m])
            BY <2>3, <3>5, <3>6, LevelFalls
        <3>9. LoopLevel = Level(cfs_rq, n) /\ LoopLevel' = Level(cfs_rq', fix'.node)
            BY <3>1, <3>3 DEF LoopLevel
        <3>10. Level(cfs_rq', fix'.node) = Level(cfs_rq, cfs_rq.parent[m])
            BY <3>2, <3>4, <3>6, LevelIs
        <3>. QED  BY <3>7, <3>8, <3>9, <3>10
    <2>6. CASE EraseFixupPass
        <3>1. PICK n : n = fix.parent
            OBVIOUS
        <3>2. /\ n \in Nodes(cfs_rq) /\ fix' = Erasing(fix'.child, fix'.parent)
              /\ LacksBlack(cfs_rq', fix'.child) =>
                    /\ cfs_rq'.parent = cfs_rq.parent
                    /\ fix'.parent = cfs_rq.parent[n]
            BY <2>2, <2>6, <3>1, EraseFixupPassFacts
        <3>3. fix'.loop = "erase" /\ fix.loop = "erase"
            BY <2>6, <3>2 DEF Erasing, EraseFixupPass
        <3>4. LacksBlack(cfs_rq', fix'.child)
            BY <2>1, <3>3 DEF LoopsOn
        <3>5. n \in PCB
            BY <3>2 DEF Nodes
        <3>6. /\ Level(cfs_rq, n) \in Int /\ Level(cfs_rq, cfs_rq.parent[n]) \in Int
              /\ Level(cfs_rq, n) = 1 + Level(cfs_rq, cfs_rq.parent[n])
            BY <2>3, <3>5, LevelFalls
        <3>7. LoopLevel = Level(cfs_rq, n) /\ LoopLevel' = Level(cfs_rq', fix'.parent)
            BY <3>1, <3>3 DEF LoopLevel
        <3>8. Level(cfs_rq', fix'.parent) = Level(cfs_rq, cfs_rq.parent[n])
            BY <3>2, <3>4, LevelIs
        <3>. QED  BY <3>6, <3>7, <3>8
    <2>. QED  BY <2>4, <2>5, <2>6
<1>. QED  BY <1>1, RunQueuesInvariant, PTL DEF Spec, FixupClimbs

(* The queue KeyedQueue is about.                                          *)
Queue == IF cfs_rq.root # NULL THEN TreeOrder(cfs_rq) ELSE ListOrder(list)

(* Without its first element a queue is its tail.                          *)
LEMMA RemovedFirst ==
    ASSUME NEW q, IsQueue(q), Len(q) # 0
    PROVE  Removed(q, 1) = Tail(q) /\ q[1] = Head(q)
<1>1. q \in Seq(PCB) /\ q # <<>> /\ Len(q) \in Nat
    BY EmptySeq DEF IsQueue
<1>2. /\ Tail(q) \in Seq(PCB) /\ Len(Tail(q)) = Len(q) - 1
      /\ \A i \in 1 .. Len(Tail(q)) : Tail(q)[i] = q[i + 1]
    BY <1>1, HeadTailProperties
<1>3. /\ Removed(q, 1) \in Seq(PCB) /\ Len(Removed(q, 1)) = Len(q) - 1
    BY <1>1, RemovedFacts DEF IsQueue
<1>4. \A i \in 1 .. Len(q) - 1 : Removed(q, 1)[i] = q[i + 1]
    BY <1>1 DEF Removed
<1>5. Removed(q, 1) = Tail(q)
    BY <1>2, <1>3, <1>4, SeqEqual
<1>6. q[1] = Head(q)
    OBVIOUS
<1>. QED  BY <1>5, <1>6

(* A step on the queue as a value is a step of KeyedQueue.                 *)
LEMMA QueueStepRefines ==
    ASSUME IsQueue(Queue), QueueStep(Queue, returned, Queue', returned')
    PROVE  [Abstract!Next]_(Abstract!vars)
<1>1. Abstract!Members(Queue) = Elems(Queue)
    BY DEF Abstract!Members, Elems
<1>2. Len(Queue) \in Nat /\ (Len(Queue) = 0 <=> Queue = <<>>) /\ Queue \in Seq(PCB)
    BY EmptyElems, EmptySeq DEF IsQueue
<1>3. CASE \E p \in PCB : /\ p \notin Elems(Queue) /\ returned' = NULL
                          /\ Queue' = Abstract!Enqueue(Queue, Key, p)
    <2>1. PICK p \in PCB : /\ p \notin Elems(Queue) /\ returned' = NULL
                           /\ Queue' = Abstract!Enqueue(Queue, Key, p)
        BY <1>3
    <2>2. Abstract!Insert(p)
        BY <1>1, <2>1 DEF Abstract!Insert, Queue
    <2>. QED  BY <2>2 DEF Abstract!Next
<1>4. CASE \E k \in 1 .. Len(Queue) : Queue' = Removed(Queue, k) /\ returned' = NULL
    <2>1. PICK k \in 1 .. Len(Queue) : Queue' = Removed(Queue, k) /\ returned' = NULL
        BY <1>4
    <2>2. PICK p : p = Queue[k]
        OBVIOUS
    <2>3. p \in PCB
        BY <1>2, <2>2
    <2>4. Abstract!Remove(p)
        BY <2>1, <2>2 DEF Abstract!Remove, Queue, Removed
    <2>. QED  BY <2>3, <2>4 DEF Abstract!Next
<1>5. CASE Len(Queue) = 0 /\ Queue' = Queue /\ returned' = NULL
    <2>1. Abstract!TakeFirst
        BY <1>2, <1>5 DEF Abstract!TakeFirst, Queue
    <2>. QED  BY <2>1 DEF Abstract!Next
<1>6. CASE Len(Queue) # 0 /\ Queue' = Removed(Queue, 1) /\ returned' = Queue[1]
    <2>1. Removed(Queue, 1) = Tail(Queue) /\ Queue[1] = Head(Queue)
        BY <1>6, RemovedFirst
    <2>2. Abstract!TakeFirst
        BY <1>2, <1>6, <2>1 DEF Abstract!TakeFirst, Queue
    <2>. QED  BY <2>2 DEF Abstract!Next
<1>7. CASE Queue' = Queue /\ returned' = returned
    BY <1>7 DEF Abstract!vars, Queue
<1>. QED  BY <1>3, <1>4, <1>5, <1>6, <1>7 DEF QueueStep

(* Both run queues hand out PCBs by key and arrival: enqueue_process and   *)
(* cfs_enqueue insert behind equal keys, dequeue_process and               *)
(* cfs_dequeue_min take the first, and rebalancing changes nothing.        *)
THEOREM RunQueuesImplementKeyedQueue == Spec => ImplementsKeyedQueue
<1>1. Init => Abstract!Init
    <2>1. SUFFICES ASSUME Init PROVE Abstract!Init
        OBVIOUS
    <2>2. Holds(list, cfs_rq, fix, <<>>, <<>>)
        BY <2>1, InitHolds
    <2>3. (IF cfs_rq.root # NULL THEN TreeOrder(cfs_rq) ELSE ListOrder(list)) = <<>>
        BY <2>2, JoinedIs DEF Joined
    <2>. QED  BY <2>1, <2>3 DEF Abstract!Init, Init
<1>2. RunInv /\ [Next]_vars => [Abstract!Next]_(Abstract!vars)
    <2>1. SUFFICES ASSUME RunInv, [Next]_vars PROVE [Abstract!Next]_(Abstract!vars)
        OBVIOUS
    <2>2. PICK a, b : Holds(list, cfs_rq, fix, a, b)
        BY <2>1 DEF RunInv
    <2>3. Simulates(a, b)
        BY <2>1, <2>2, NextSimulates
    <2>4. PICK a1, b1 : /\ Holds(list', cfs_rq', fix', a1, b1)
                        /\ QueueStep(Joined(a, b), returned, Joined(a1, b1), returned')
        BY <2>3 DEF Simulates
    <2>5. Queue = Joined(a, b) /\ IsQueue(Queue)
        BY <2>2, JoinedIs, HoldsFacts DEF Queue
    <2>6. Queue' = Joined(a1, b1)
        BY <2>4, JoinedIs DEF Queue
    <2>7. QueueStep(Queue, returned, Queue', returned')
        BY <2>4, <2>5, <2>6
    <2>. QED  BY <2>5, <2>7, QueueStepRefines
<1>. QED  BY <1>1, <1>2, RunQueuesInvariant, PTL DEF Spec, ImplementsKeyedQueue, Abstract!Spec
=============================================================================

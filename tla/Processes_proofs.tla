-------------------------- MODULE Processes_proofs --------------------------
(***************************************************************************)
(* Proofs that the lists of process.c stay what the scheduler takes them    *)
(* for, whatever the sizes of the heap and of its blocks, the priorities    *)
(* and the calls the programs make: the ready queue holds each ready        *)
(* process once, the least priority number is dispatched first, and equals  *)
(* are served in order of arrival.                                         *)
(***************************************************************************)
EXTENDS Processes, Memory_proofs, TLAPS

-----------------------------------------------------------------------------
(* Lists.                                                                  *)

Elems(q) == {q[i] : i \in 1 .. Len(q)}

Distinct(q) == \A i, j \in 1 .. Len(q) : i # j => q[i] # q[j]

(* The keys along q never decrease.                                        *)
Sorted(q, key) == \A i, j \in 1 .. Len(q) : i <= j => key[q[i]] <= key[q[j]]

(* The list e holds p and what q holds.                                    *)
Adds(q, e, p) == Elems(e) = Elems(q) \cup {p}

(* The walk from the front finds a place for p: before the first element   *)
(* whose key is greater, or at the end.                                    *)
LEMMA PositionExists ==
    ASSUME NEW S, NEW q \in Seq(S), NEW key \in [S -> Int], NEW p \in S
    PROVE  /\ Position(q, key, p) \in 0 .. Len(q)
           /\ IsPosition(q, key, p, Position(q, key, p))
<1>. DEFINE Greater == {i \in 1 .. Len(q) : key[p] < key[q[i]]}
<1>0. Len(q) \in Nat /\ \A i \in 1 .. Len(q) : q[i] \in S /\ key[q[i]] \in Int
    OBVIOUS
<1>1. \E k \in 0 .. Len(q) : IsPosition(q, key, p, k)
    <2>1. CASE Greater = {}
        <3>1. \A i \in 1 .. Len(q) : key[q[i]] <= key[p]
            BY <1>0, <2>1
        <3>2. IsPosition(q, key, p, Len(q))
            BY <1>0, <3>1 DEF IsPosition
        <3>. QED  BY <1>0, <3>2
    <2>2. CASE Greater # {}
        <3>1. Greater \in SUBSET Nat
            BY <1>0
        <3>2. PICK g \in Greater : IsLeast(g, Greater)
            BY <2>2, <3>1, LeastExists
        <3>3. g \in 1 .. Len(q) /\ key[p] < key[q[g]]
              /\ \A y \in Greater : g <= y
            BY <3>2 DEF IsLeast
        <3>4. ASSUME NEW i \in 1 .. g - 1
              PROVE  key[q[i]] <= key[p]
            <4>1. i \in 1 .. Len(q) /\ ~(g <= i)
                BY <1>0, <3>3
            <4>2. i \notin Greater
                BY <3>3, <4>1
            <4>. QED  BY <1>0, <4>1, <4>2
        <3>5. g - 1 \in 0 .. Len(q) /\ (g - 1) + 1 = g
            BY <1>0, <3>3
        <3>6. IsPosition(q, key, p, g - 1)
            BY <3>3, <3>4, <3>5 DEF IsPosition
        <3>. QED  BY <3>5, <3>6
    <2>. QED  BY <2>1, <2>2
<1>. QED  BY <1>1 DEF Position

(* Linking p into a queue that does not hold it adds p, keeps the others   *)
(* in their order, and keeps the queue sorted.                             *)
LEMMA EnqueueFacts ==
    ASSUME NEW S, NEW q \in Seq(S), NEW key \in [S -> Int], NEW p \in S,
           NEW e, e = Enqueue(q, key, p)
    PROVE  /\ e \in Seq(S)
           /\ Len(e) = Len(q) + 1
           /\ Adds(q, e, p)
           /\ e # <<>>
           /\ Distinct(q) /\ p \notin Elems(q) => Distinct(e)
           /\ Sorted(q, key) => Sorted(e, key)
<1>. DEFINE k == Position(q, key, p)
            n == Len(q)
<1>1. /\ k \in 0 .. n
      /\ \A i \in 1 .. k : key[q[i]] <= key[p]
      /\ k < n => key[p] < key[q[k + 1]]
    BY PositionExists DEF IsPosition
<1>2. e = [i \in 1 .. n + 1 |->
              IF i <= k THEN q[i] ELSE IF i = k + 1 THEN p ELSE q[i - 1]]
    BY DEF Enqueue, InsertBehind
<1>3. n \in Nat /\ \A i \in 1 .. n : q[i] \in S /\ key[q[i]] \in Int
    OBVIOUS
<1>. HIDE DEF k, n
<1>4. /\ \A i \in 1 .. n + 1 : i <= k => i \in 1 .. n /\ e[i] = q[i]
      /\ k + 1 \in 1 .. n + 1 /\ e[k + 1] = p
      /\ \A i \in 1 .. n + 1 : i > k + 1 => i - 1 \in 1 .. n /\ e[i] = q[i - 1]
    BY <1>1, <1>2, <1>3
<1>5. \A i \in 1 .. n + 1 : e[i] \in S
    BY <1>1, <1>2, <1>3
<1>6. e \in Seq(S) /\ Len(e) = n + 1
    BY <1>2, <1>3, <1>5
<1>7. Elems(e) = Elems(q) \cup {p}
    <2>1. ASSUME NEW x \in Elems(e)
          PROVE  x \in Elems(q) \cup {p}
        <3>1. PICK i \in 1 .. n + 1 : x = e[i]
            BY <1>6 DEF Elems
        <3>2. CASE i <= k
            BY <1>4, <3>1, <3>2 DEF Elems, n
        <3>3. CASE i = k + 1
            BY <1>4, <3>1, <3>3
        <3>4. CASE i > k + 1
            BY <1>4, <3>1, <3>4 DEF Elems, n
        <3>. QED  BY <1>1, <1>3, <3>2, <3>3, <3>4
    <2>2. ASSUME NEW x \in Elems(q)
          PROVE  x \in Elems(e)
        <3>1. PICK i \in 1 .. n : x = q[i]
            BY DEF Elems, n
        <3>2. CASE i <= k
            <4>1. i \in 1 .. n + 1 /\ e[i] = x
                BY <1>3, <1>4, <3>1, <3>2
            <4>. QED  BY <1>6, <4>1 DEF Elems
        <3>3. CASE i > k
            <4>1. i + 1 \in 1 .. n + 1 /\ i + 1 > k + 1 /\ (i + 1) - 1 = i
                BY <1>1, <1>3, <3>1, <3>3
            <4>2. e[i + 1] = x
                BY <1>4, <3>1, <4>1
            <4>. QED  BY <1>6, <4>1, <4>2 DEF Elems
        <3>. QED  BY <1>1, <1>3, <3>2, <3>3
    <2>3. p \in Elems(e)
        BY <1>4, <1>6 DEF Elems
    <2>. QED  BY <2>1, <2>2, <2>3
<1>8. ASSUME Distinct(q), p \notin Elems(q)
      PROVE  Distinct(e)
    <2>1. \A i \in 1 .. n : q[i] # p
        BY <1>8 DEF Elems, n
    <2>2. \A i, j \in 1 .. n : i # j => q[i] # q[j]
        BY <1>8 DEF Distinct, n
    <2>3. ASSUME NEW i \in 1 .. n + 1, NEW j \in 1 .. n + 1, i < j
          PROVE  e[i] # e[j]
        <3>1. CASE j <= k
            <4>1. i <= k
                BY <1>1, <1>3, <2>3, <3>1
            <4>2. i \in 1 .. n /\ e[i] = q[i] /\ j \in 1 .. n /\ e[j] = q[j]
                BY <1>4, <3>1, <4>1
            <4>. QED  BY <2>2, <2>3, <4>2
        <3>2. CASE j = k + 1
            BY <1>1, <1>3, <1>4, <2>1, <2>3, <3>2
        <3>3. CASE j > k + 1 /\ i <= k
            BY <1>1, <1>3, <1>4, <2>2, <2>3, <3>3
        <3>4. CASE j > k + 1 /\ i = k + 1
            BY <1>1, <1>3, <1>4, <2>1, <2>3, <3>4
        <3>5. CASE i > k + 1
            BY <1>1, <1>3, <1>4, <2>2, <2>3, <3>5
        <3>. QED  BY <1>1, <1>3, <3>1, <3>2, <3>3, <3>4, <3>5
    <2>4. ASSUME NEW i \in 1 .. n + 1, NEW j \in 1 .. n + 1, i # j
          PROVE  e[i] # e[j]
        <3>1. i < j \/ j < i
            BY <1>3, <2>4
        <3>. QED  BY <2>3, <3>1
    <2>. QED  BY <1>6, <2>4 DEF Distinct
<1>9. ASSUME Sorted(q, key)
      PROVE  Sorted(e, key)
    <2>1. \A i, j \in 1 .. n : i <= j => key[q[i]] <= key[q[j]]
        BY <1>9 DEF Sorted, n
    <2>2. key[p] \in Int
        OBVIOUS
    <2>3. ASSUME NEW i \in 1 .. n, i > k
          PROVE  key[p] <= key[q[i]]
        <3>1. k + 1 \in 1 .. n /\ k < n /\ k + 1 <= i
            BY <1>1, <1>3, <2>3
        <3>2. key[p] < key[q[k + 1]] /\ key[q[k + 1]] <= key[q[i]]
            BY <1>1, <2>1, <3>1
        <3>. QED  BY <1>3, <2>2, <3>1, <3>2
    <2>4. ASSUME NEW i \in 1 .. n + 1, NEW j \in 1 .. n + 1, i <= j
          PROVE  key[e[i]] <= key[e[j]]
        <3>1. CASE j <= k
            <4>1. i <= k
                BY <1>1, <1>3, <2>4, <3>1
            <4>2. i \in 1 .. n /\ e[i] = q[i] /\ j \in 1 .. n /\ e[j] = q[j]
                BY <1>4, <3>1, <4>1
            <4>. QED  BY <2>1, <2>4, <4>2
        <3>2. CASE j = k + 1 /\ i <= k
            BY <1>1, <1>3, <1>4, <2>4, <3>2
        <3>3. CASE j = k + 1 /\ i = k + 1
            BY <1>4, <2>2, <3>3
        <3>4. CASE j > k + 1 /\ i <= k
            <4>1. i \in 1 .. n /\ e[i] = q[i]
                BY <1>4, <3>4
            <4>2. j - 1 \in 1 .. n /\ e[j] = q[j - 1] /\ i <= j - 1
                BY <1>1, <1>3, <1>4, <3>4
            <4>. QED  BY <2>1, <4>1, <4>2
        <3>5. CASE j > k + 1 /\ i = k + 1
            <4>1. j - 1 \in 1 .. n /\ j - 1 > k /\ e[j] = q[j - 1] /\ e[i] = p
                BY <1>1, <1>3, <1>4, <3>5
            <4>. QED  BY <2>3, <4>1
        <3>6. CASE i > k + 1
            <4>1. j > k + 1 /\ i - 1 <= j - 1
                BY <1>1, <1>3, <2>4, <3>6
            <4>2. i - 1 \in 1 .. n /\ e[i] = q[i - 1]
                  /\ j - 1 \in 1 .. n /\ e[j] = q[j - 1]
                BY <1>4, <3>6, <4>1
            <4>. QED  BY <2>1, <4>1, <4>2
        <3>. QED  BY <1>1, <1>3, <2>4, <3>1, <3>2, <3>3, <3>4, <3>5, <3>6
    <2>. QED  BY <1>6, <2>4 DEF Sorted
<1>10. e # <<>>
    BY <1>3, <1>6
<1>. QED  BY <1>6, <1>7, <1>8, <1>9, <1>10 DEF n, Adds

(* An element that was in the queue has ahead of it who was there before,  *)
(* and the new one if that has a smaller key.                              *)
LEMMA EnqueueOrder ==
    ASSUME NEW S, NEW q \in Seq(S), NEW key \in [S -> Int], NEW p \in S,
           NEW e, e = Enqueue(q, key, p), Sorted(q, key), p \notin Elems(q),
           NEW a \in Elems(q), NEW b, Ahead(e, b, a)
    PROVE  Ahead(q, b, a) \/ (b = p /\ key[b] < key[a])
<1>. DEFINE k == Position(q, key, p)
            n == Len(q)
<1>1. /\ k \in 0 .. n
      /\ k < n => key[p] < key[q[k + 1]]
    BY PositionExists DEF IsPosition
<1>2. e = [i \in 1 .. n + 1 |->
              IF i <= k THEN q[i] ELSE IF i = k + 1 THEN p ELSE q[i - 1]]
    BY DEF Enqueue, InsertBehind
<1>3. /\ n \in Nat /\ key[p] \in Int
      /\ \A i \in 1 .. n : q[i] \in S /\ key[q[i]] \in Int
    OBVIOUS
<1>4. Len(e) = n + 1
    BY EnqueueFacts
<1>5. \A i, j \in 1 .. n : i <= j => key[q[i]] <= key[q[j]]
    BY DEF Sorted
<1>. HIDE DEF k, n
<1>6. PICK i, j \in 1 .. n + 1 : i < j /\ e[i] = b /\ e[j] = a
    BY <1>4 DEF Ahead
<1>7. /\ \A l \in 1 .. n + 1 : l <= k => l \in 1 .. n /\ e[l] = q[l]
      /\ k + 1 \in 1 .. n + 1 /\ e[k + 1] = p
      /\ \A l \in 1 .. n + 1 : l > k + 1 => l - 1 \in 1 .. n /\ e[l] = q[l - 1]
    BY <1>1, <1>2, <1>3
<1>8. j # k + 1
    BY <1>6, <1>7
<1>9. CASE j <= k
    <2>1. i <= k
        BY <1>1, <1>3, <1>6, <1>9
    <2>2. i \in 1 .. n /\ q[i] = b /\ j \in 1 .. n /\ q[j] = a
        BY <1>6, <1>7, <1>9, <2>1
    <2>. QED  BY <1>6, <2>2 DEF Ahead, n
<1>10. CASE j > k + 1
    <2>1. j - 1 \in 1 .. n /\ q[j - 1] = a
        BY <1>6, <1>7, <1>10
    <2>2. CASE i <= k
        <3>1. i \in 1 .. n /\ q[i] = b
            BY <1>6, <1>7, <2>2
        <3>2. i < j - 1
            BY <1>1, <1>3, <1>10, <2>2
        <3>. QED  BY <2>1, <3>1, <3>2 DEF Ahead, n
    <2>3. CASE i = k + 1
        <3>1. b = p
            BY <1>6, <1>7, <2>3
        <3>2. k < n /\ k + 1 \in 1 .. n /\ k + 1 <= j - 1
            BY <1>1, <1>3, <1>10, <2>1
        <3>3. key[p] < key[q[k + 1]] /\ key[q[k + 1]] <= key[q[j - 1]]
            BY <1>1, <1>5, <2>1, <3>2
        <3>4. key[p] < key[q[j - 1]]
            BY <1>3, <2>1, <3>2, <3>3
        <3>. QED  BY <2>1, <3>1, <3>4
    <2>4. CASE i > k + 1
        <3>1. i - 1 \in 1 .. n /\ q[i - 1] = b
            BY <1>6, <1>7, <2>4
        <3>2. i - 1 < j - 1
            BY <1>3, <1>6
        <3>. QED  BY <2>1, <3>1, <3>2 DEF Ahead, n
    <2>. QED  BY <1>1, <1>3, <2>2, <2>3, <2>4
<1>. QED  BY <1>1, <1>3, <1>8, <1>9, <1>10

(* dequeue_process takes the front and leaves the others in order.         *)
LEMMA DequeueFacts ==
    ASSUME NEW S, NEW q \in Seq(S), q # <<>>
    PROVE  /\ Head(q) \in S /\ Head(q) \in Elems(q)
           /\ Tail(q) \in Seq(S)
           /\ Elems(q) = Elems(Tail(q)) \cup {Head(q)}
           /\ Distinct(q) => Distinct(Tail(q)) /\ Head(q) \notin Elems(Tail(q))
           /\ \A key : Sorted(q, key) =>
                 /\ Sorted(Tail(q), key)
                 /\ \A x \in Elems(Tail(q)) : key[Head(q)] <= key[x]
           /\ \A a, b : Ahead(Tail(q), b, a) => Ahead(q, b, a)
<1>. DEFINE n == Len(q)
            t == Tail(q)
<1>1. /\ n \in Nat /\ n >= 1 /\ Len(t) = n - 1 /\ t \in Seq(S)
      /\ \A i \in 1 .. n - 1 : t[i] = q[i + 1]
      /\ Head(q) = q[1] /\ \A i \in 1 .. n : q[i] \in S
    OBVIOUS
<1>. HIDE DEF n, t
<1>2. 1 \in 1 .. n /\ \A i \in 1 .. n - 1 : i + 1 \in 1 .. n /\ i + 1 # 1
    BY <1>1
<1>3. Head(q) \in S /\ Head(q) \in Elems(q)
    BY <1>1, <1>2 DEF Elems, n
<1>4. Elems(q) = Elems(t) \cup {Head(q)}
    <2>1. ASSUME NEW x \in Elems(q), x # Head(q)
          PROVE  x \in Elems(t)
        <3>1. PICK i \in 1 .. n : x = q[i]
            BY DEF Elems, n
        <3>2. i # 1
            BY <1>1, <2>1, <3>1
        <3>3. i - 1 \in 1 .. n - 1 /\ (i - 1) + 1 = i
            BY <1>1, <3>2
        <3>4. t[i - 1] = x
            BY <1>1, <3>1, <3>3
        <3>. QED  BY <1>1, <3>3, <3>4 DEF Elems
    <2>2. ASSUME NEW x \in Elems(t)
          PROVE  x \in Elems(q)
        BY <1>1, <1>2 DEF Elems, n
    <2>. QED  BY <1>3, <2>1, <2>2
<1>5. ASSUME Distinct(q)
      PROVE  Distinct(t) /\ Head(q) \notin Elems(t)
    <2>1. \A i, j \in 1 .. n : i # j => q[i] # q[j]
        BY <1>5 DEF Distinct, n
    <2>2. \A i, j \in 1 .. n - 1 : i # j => i + 1 # j + 1
        BY <1>1
    <2>3. Distinct(t)
        BY <1>1, <1>2, <2>1, <2>2 DEF Distinct
    <2>. QED  BY <1>1, <1>2, <2>1, <2>3 DEF Elems
<1>6. ASSUME NEW key, Sorted(q, key)
      PROVE  /\ Sorted(t, key)
             /\ \A x \in Elems(t) : key[Head(q)] <= key[x]
    <2>1. \A i, j \in 1 .. n : i <= j => key[q[i]] <= key[q[j]]
        BY <1>6 DEF Sorted, n
    <2>2. ASSUME NEW i \in 1 .. n - 1, NEW j \in 1 .. n - 1, i <= j
          PROVE  key[t[i]] <= key[t[j]]
        <3>1. i + 1 <= j + 1
            BY <1>1, <2>2
        <3>2. key[q[i + 1]] <= key[q[j + 1]]
            BY <1>2, <2>1, <3>1
        <3>. QED  BY <1>1, <3>2
    <2>3. ASSUME NEW x \in Elems(t)
          PROVE  key[Head(q)] <= key[x]
        <3>1. PICK i \in 1 .. n - 1 : x = t[i]
            BY <1>1 DEF Elems
        <3>2. 1 <= i + 1
            BY <1>1
        <3>3. key[q[1]] <= key[q[i + 1]]
            BY <1>2, <2>1, <3>2
        <3>. QED  BY <1>1, <3>1, <3>3
    <2>. QED  BY <1>1, <2>2, <2>3 DEF Sorted
<1>7. ASSUME NEW a, NEW b, Ahead(t, b, a)
      PROVE  Ahead(q, b, a)
    <2>1. PICK i, j \in 1 .. n - 1 : i < j /\ t[i] = b /\ t[j] = a
        BY <1>1, <1>7 DEF Ahead
    <2>2. i + 1 < j + 1 /\ q[i + 1] = b /\ q[j + 1] = a
        BY <1>1, <2>1
    <2>. QED  BY <1>2, <2>2 DEF Ahead, n
<1>. QED  BY <1>1, <1>3, <1>4, <1>5, <1>6, <1>7 DEF t

-----------------------------------------------------------------------------
(* The scheduler, field by field.                                          *)

(* The fields schedule() never writes.                                     *)
SameRest(r, s) ==
    /\ r.pid = s.pid /\ r.priority = s.priority /\ r.parent = s.parent
    /\ r.exit_status = s.exit_status
    /\ r.user_stack_base = s.user_stack_base
    /\ r.kernel_stack_base = s.kernel_stack_base /\ r.stack = s.stack

(* The types of the fields of a PCB.                                       *)
LEMMA PCBFields ==
    ASSUME NEW r \in PCBs
    PROVE  /\ r.pid \in 0 .. MAX_PID /\ r.state \in States /\ r.priority \in Int
           /\ r.parent \in Page \cup {NULL} /\ r.exit_status \in Int
           /\ r.is_new_child \in BOOLEAN
           /\ r.user_stack_base \in Page \cup {NULL}
           /\ r.kernel_stack_base \in Page \cup {NULL}
           /\ r.stack \in Page \cup {NULL} /\ r.resume \in Resumes
BY DEF PCBs

(* A PCB that goes back to the queue.                                      *)
LEMMA RequeuedFacts ==
    ASSUME NEW m \in [Page -> PCBs], current_process \in Page \cup {NULL}
    PROVE  /\ RequeuedPCBs(m) \in [Page -> PCBs]
           /\ \A p \in Page :
                 /\ RequeuedPCBs(m)[p].state =
                       IF Requeues(m) /\ p = current_process THEN STATE_READY
                                                             ELSE m[p].state
                 /\ RequeuedPCBs(m)[p].resume = m[p].resume
                 /\ SameRest(RequeuedPCBs(m)[p], m[p])
                 /\ p # current_process => RequeuedPCBs(m)[p] = m[p]
<1>1. CASE ~Requeues(m)
    BY <1>1 DEF RequeuedPCBs, SameRest
<1>2. CASE Requeues(m)
    <2>. DEFINE c == current_process
                u == [m EXCEPT ![c].state = STATE_READY]
    <2>1. c \in Page /\ m[c] \in PCBs /\ RequeuedPCBs(m) = u
        BY <1>2 DEF Requeues, RequeuedPCBs
    <2>2. u[c] = [m[c] EXCEPT !.state = STATE_READY]
        BY <2>1
    <2>3. u[c] \in PCBs /\ u[c].state = STATE_READY /\ u[c].resume = m[c].resume
          /\ SameRest(u[c], m[c])
        BY <2>1, <2>2 DEF PCBs, States, SameRest
    <2>4. \A p \in Page \ {c} : u[p] = m[p]
        OBVIOUS
    <2>5. u \in [Page -> PCBs]
        BY <2>1, <2>3, <2>4
    <2>. HIDE DEF u, c
    <2>6. ASSUME NEW p \in Page
          PROVE  /\ u[p].state = IF p = c THEN STATE_READY ELSE m[p].state
                 /\ u[p].resume = m[p].resume
                 /\ SameRest(u[p], m[p])
                 /\ p # c => u[p] = m[p]
        <3>1. CASE p = c
            BY <2>3, <3>1
        <3>2. CASE p # c
            BY <2>4, <3>2 DEF SameRest
        <3>. QED  BY <3>1, <3>2
    <2>. QED  BY <1>2, <2>1, <2>5, <2>6 DEF c
<1>. QED  BY <1>1, <1>2

(* The PCBs when schedule() has dispatched n.                              *)
DispatchedPCBs(m, n) ==
    [m EXCEPT ![n].state = STATE_RUNNING, ![n].is_new_child = FALSE,
              ![n].resume = "stale"]

(* Dispatching a process changes its state and its frame only.             *)
LEMMA DispatchedFacts ==
    ASSUME NEW m \in [Page -> PCBs], NEW n \in Page,
           NEW u, u = DispatchedPCBs(m, n)
    PROVE  /\ u \in [Page -> PCBs]
           /\ u[n].state = STATE_RUNNING /\ u[n].resume = "stale"
           /\ SameRest(u[n], m[n])
           /\ \A p \in Page \ {n} : u[p] = m[p]
<1>1. m[n] \in PCBs
    OBVIOUS
<1>2. u[n] = [m[n] EXCEPT !.state = STATE_RUNNING, !.is_new_child = FALSE,
                          !.resume = "stale"]
    BY DEF DispatchedPCBs
<1>3. u[n] \in PCBs /\ u[n].state = STATE_RUNNING /\ u[n].resume = "stale"
      /\ SameRest(u[n], m[n])
    BY <1>1, <1>2 DEF PCBs, States, Resumes, SameRest
<1>4. \A p \in Page \ {n} : u[p] = m[p]
    BY DEF DispatchedPCBs
<1>5. u \in [Page -> PCBs]
    BY <1>3, <1>4 DEF DispatchedPCBs
<1>. QED  BY <1>3, <1>4, <1>5

(* schedule() either finds the queue empty and starts a command loop, or   *)
(* dispatches the front n of the queue q1 it dequeues from.                *)
Idles(m, q) ==
    /\ q = <<>> /\ ~Requeues(m)
    /\ pcb' = m /\ ready_queue' = q /\ mode' = "cli_nested"
    /\ current_process' = current_process

Dispatches(m, q1, n) ==
    /\ q1 # <<>> /\ n = Head(q1)
    /\ ready_queue' = Tail(q1)
    /\ current_process' = n
    /\ mode' = ModeOn(m, n)
    /\ pcb' \in [Page -> PCBs]
    /\ pcb'[n].state = STATE_RUNNING /\ pcb'[n].resume = "stale"
    /\ \A p \in Page \ {n} :
          /\ pcb'[p].state = IF Requeues(m) /\ p = current_process
                             THEN STATE_READY ELSE m[p].state
          /\ pcb'[p].resume = m[p].resume
    /\ \A p \in Page : SameRest(pcb'[p], m[p])
    /\ \A p \in Page \ {n, current_process} : pcb'[p] = m[p]

(* The priorities of PCBs are a function on pages.                         *)
LEMMA priorityType ==
    ASSUME NEW m \in [Page -> PCBs]
    PROVE  /\ priorityOf(m) \in [Page -> Int]
           /\ \A p \in Page : priorityOf(m)[p] = m[p].priority
BY PCBFields DEF priorityOf

(* schedule() idles or dispatches.                                         *)
LEMMA ScheduleFacts ==
    ASSUME NEW m \in [Page -> PCBs], NEW q \in Seq(Page),
           current_process \in Page \cup {NULL}, schedule(m, q)
    PROVE  /\ RequeuedQueue(m, q) \in Seq(Page)
           /\ \/ Idles(m, q)
              \/ \E n \in Page : Dispatches(m, RequeuedQueue(m, q), n)
<1>. DEFINE m1 == RequeuedPCBs(m)
            q1 == RequeuedQueue(m, q)
<1>1. /\ m1 \in [Page -> PCBs]
      /\ \A p \in Page :
            /\ m1[p].state = IF Requeues(m) /\ p = current_process
                             THEN STATE_READY ELSE m[p].state
            /\ m1[p].resume = m[p].resume
            /\ SameRest(m1[p], m[p])
            /\ p # current_process => m1[p] = m[p]
    BY RequeuedFacts
<1>2. q1 \in Seq(Page) /\ (Requeues(m) => q1 # <<>>)
    <2>1. CASE Requeues(m)
        <3>1. current_process \in Page
            BY <2>1 DEF Requeues
        <3>2. q1 = Enqueue(q, priorityOf(m), current_process)
            BY <2>1 DEF RequeuedQueue, enqueue_process
        <3>. HIDE DEF q1
        <3>. QED  BY <3>1, <3>2, priorityType, EnqueueFacts
    <2>2. CASE ~Requeues(m)
        BY <2>2 DEF RequeuedQueue
    <2>. QED  BY <2>1, <2>2
<1>3. CASE q1 = <<>>
    <2>1. /\ pcb' = m1 /\ ready_queue' = q1 /\ mode' = "cli_nested"
          /\ current_process' = current_process
        BY <1>3 DEF schedule
    <2>2. ~Requeues(m)
        BY <1>2, <1>3
    <2>3. m1 = m /\ q1 = q
        BY <2>2 DEF RequeuedPCBs, RequeuedQueue
    <2>. QED  BY <1>2, <1>3, <2>1, <2>2, <2>3 DEF Idles
<1>4. CASE q1 # <<>>
    <2>. DEFINE n == Head(q1)
    <2>1. /\ pcb' = DispatchedPCBs(m1, n)
          /\ ready_queue' = Tail(q1)
          /\ current_process' = n
          /\ mode' = ModeOn(m1, n)
        BY <1>4 DEF schedule, DispatchedPCBs
    <2>. HIDE DEF m1, q1
    <2>2. n \in Page
        BY <1>2, <1>4, DequeueFacts
    <2>. HIDE DEF n
    <2>3. /\ pcb' \in [Page -> PCBs]
          /\ pcb'[n].state = STATE_RUNNING /\ pcb'[n].resume = "stale"
          /\ SameRest(pcb'[n], m1[n])
          /\ \A p \in Page \ {n} : pcb'[p] = m1[p]
        BY <1>1, <2>1, <2>2, DispatchedFacts
    <2>4. ModeOn(m1, n) = ModeOn(m, n)
        BY <1>1, <2>2 DEF ModeOn
    <2>5. SameRest(pcb'[n], m[n])
        BY <1>1, <2>2, <2>3 DEF SameRest
    <2>6. Dispatches(m, q1, n)
        BY <1>1, <1>4, <2>1, <2>3, <2>4, <2>5 DEF Dispatches, n
    <2>. QED  BY <1>2, <2>2, <2>6 DEF q1
<1>. QED  BY <1>3, <1>4

-----------------------------------------------------------------------------
(* The inductive invariant.                                                *)

(* Where no process has the CPU.                                           *)
Idle == CLI \cup {"halted", "hung"}

(* The process table is a list without repetitions of PCBs not freed.      *)
Listed ==
    /\ Distinct(process_table)
    /\ \A p \in Procs : page_table[p] = HEAD

(* current_process is in the process table while its program has the CPU.  *)
CurrentListed ==
    /\ current_process \in Procs \cup {NULL}
    /\ mode \notin Idle => current_process \in Procs

(* Pages that hold no PCB, or one already freed, look neither blocked nor  *)
(* running: a stale parent pointer wakes nobody.                           *)
UnlistedQuiet ==
    \A p \in Page \ Procs : pcb[p].state \in {STATE_READY, STATE_ZOMBIE}

QueueSorted == Sorted(ready_queue, priorityOf(pcb))

SchedulerInv ==
    /\ TypeOK
    /\ QueueDiscipline
    /\ Listed
    /\ CurrentListed
    /\ UnlistedQuiet
    /\ QueueSorted

(* The PCBs and the queue a caller must hand schedule().                   *)
Schedulable(m, q) ==
    /\ m \in [Page -> PCBs]
    /\ q \in Seq(Page)
    /\ Distinct(q)
    /\ Elems(q) = {p \in Procs : m[p].state = STATE_READY}
    /\ \A p \in Procs : m[p].state = STATE_RUNNING => p = current_process
    /\ \A p \in Page \ Procs : m[p].state \in {STATE_READY, STATE_ZOMBIE}
    /\ Sorted(q, priorityOf(m))
    /\ current_process \in Procs \cup {NULL}

(* Who waits in both queues is overtaken only by a newcomer to the first   *)
(* with a smaller priority number.                                         *)
OrderKept(q, r, m) ==
    \A a \in Elems(q) \cap Elems(r), b \in Elems(r) :
        Ahead(r, b, a) => \/ Ahead(q, b, a)
                          \/ b \notin Elems(q) /\ m[b].priority < m[a].priority

(* Processes and queue entries are named by heap pages.                    *)
LEMMA ProcsArePages ==
    ASSUME TypeOK
    PROVE  Procs \subseteq Page /\ Procs = Elems(process_table)
           /\ Queued \subseteq Page /\ Queued = Elems(ready_queue)
BY DEF TypeOK, Procs, Queued, Elems

(* NULL names no page.                                                     *)
LEMMA NullIsNoPage == NULL \notin Page
BY HeapAssumption DEF NULL, Page

(* The states are distinct.                                                *)
LEMMA StatesDiffer ==
    /\ STATE_READY # STATE_RUNNING /\ STATE_READY # STATE_BLOCKED
    /\ STATE_READY # STATE_EXIT /\ STATE_READY # STATE_ZOMBIE
    /\ STATE_RUNNING # STATE_BLOCKED /\ STATE_RUNNING # STATE_EXIT
    /\ STATE_RUNNING # STATE_ZOMBIE /\ STATE_BLOCKED # STATE_ZOMBIE
    /\ STATE_BLOCKED # STATE_EXIT /\ STATE_EXIT # STATE_ZOMBIE
BY DEF STATE_READY, STATE_RUNNING, STATE_BLOCKED, STATE_EXIT, STATE_ZOMBIE

(* enqueue_process for a process that is not in the queue.                 *)
LEMMA EnqueuedFacts ==
    ASSUME NEW m \in [Page -> PCBs], NEW q \in Seq(Page), NEW p \in Page,
           Distinct(q), Sorted(q, priorityOf(m)), p \notin Elems(q),
           NEW e, e = enqueue_process(q, m, p)
    PROVE  /\ e \in Seq(Page)
           /\ e # <<>>
           /\ Distinct(e)
           /\ Elems(e) = Elems(q) \cup {p}
           /\ Sorted(e, priorityOf(m))
           /\ OrderKept(q, e, m)
<1>1. e = Enqueue(q, priorityOf(m), p) /\ priorityOf(m) \in [Page -> Int]
    BY priorityType DEF enqueue_process
<1>2. /\ e \in Seq(Page)
      /\ e # <<>>
      /\ Distinct(e)
      /\ Elems(e) = Elems(q) \cup {p}
      /\ Sorted(e, priorityOf(m))
    <2>. DEFINE key == priorityOf(m)
    <2>1. key \in [Page -> Int] /\ e = Enqueue(q, key, p) /\ Sorted(q, key)
        BY <1>1
    <2>. HIDE DEF key
    <2>2. e \in Seq(Page) /\ e # <<>>
        BY <2>1, EnqueueFacts
    <2>3. Adds(q, e, p)
        BY <2>1, EnqueueFacts
    <2>4. Distinct(e)
        BY <2>1, EnqueueFacts
    <2>5. Sorted(e, key)
        BY <2>1, EnqueueFacts
    <2>. QED  BY <2>2, <2>3, <2>4, <2>5 DEF key, Adds
<1>3. ASSUME NEW a \in Elems(q), NEW b \in Elems(e), Ahead(e, b, a)
      PROVE  \/ Ahead(q, b, a)
             \/ b \notin Elems(q) /\ m[b].priority < m[a].priority
    <2>1. Ahead(q, b, a) \/ (b = p /\ priorityOf(m)[b] < priorityOf(m)[a])
        BY <1>1, <1>3, EnqueueOrder
    <2>2. a \in Page
        BY DEF Elems
    <2>. QED  BY <2>1, <2>2, priorityType
<1>. QED  BY <1>2, <1>3 DEF OrderKept

(* The queue after schedule() has put the running process back.            *)
LEMMA RequeuedQueueFacts ==
    ASSUME NEW m, NEW q, Schedulable(m, q), TypeOK,
           NEW q1, q1 = RequeuedQueue(m, q)
    PROVE  /\ q1 \in Seq(Page)
           /\ Distinct(q1)
           /\ \A p : p \in Elems(q1) <=>
                        p \in Elems(q) \/ (Requeues(m) /\ p = current_process)
           /\ Sorted(q1, priorityOf(m))
           /\ OrderKept(q, q1, m)
<1>. USE DEF Schedulable
<1>1. CASE ~Requeues(m)
    BY <1>1 DEF RequeuedQueue, OrderKept
<1>2. CASE Requeues(m)
    <2>1. current_process \in Procs /\ current_process \in Page
          /\ m[current_process].state = STATE_RUNNING
        BY <1>2, ProcsArePages DEF Requeues
    <2>2. current_process \notin Elems(q)
        BY <2>1, StatesDiffer
    <2>3. q1 = enqueue_process(q, m, current_process)
        BY <1>2 DEF RequeuedQueue
    <2>. QED  BY <1>2, <2>1, <2>2, <2>3, EnqueuedFacts
<1>. QED  BY <1>1, <1>2

(* The queue schedule() leaves and the process it dispatches, given what a *)
(* caller may hand it.                                                     *)
LEMMA DispatchLists ==
    ASSUME NEW m, NEW q, Schedulable(m, q), TypeOK, NEW n \in Page,
           NEW q1, q1 = RequeuedQueue(m, q), Dispatches(m, q1, n)
    PROVE  /\ n \in Procs
           /\ ready_queue' \in Seq(Page)
           /\ Distinct(ready_queue')
           /\ \A p : p \in Elems(ready_queue') <=>
                 /\ p # n
                 /\ p \in Elems(q) \/ (Requeues(m) /\ p = current_process)
           /\ Sorted(ready_queue', priorityOf(pcb'))
           /\ \A p \in Elems(ready_queue') :
                 pcb'[n].priority <= pcb'[p].priority
           /\ OrderKept(q, ready_queue', pcb')
<1>1. /\ q1 \in Seq(Page)
      /\ Distinct(q1)
      /\ \A p : p \in Elems(q1) <=>
                   p \in Elems(q) \/ (Requeues(m) /\ p = current_process)
      /\ Sorted(q1, priorityOf(m))
      /\ OrderKept(q, q1, m)
    BY RequeuedQueueFacts
<1>2. /\ q1 # <<>> /\ n = Head(q1) /\ ready_queue' = Tail(q1)
      /\ pcb' \in [Page -> PCBs]
      /\ \A p \in Page : SameRest(pcb'[p], m[p])
    BY DEF Dispatches
<1>3. m \in [Page -> PCBs] /\ Elems(q) \subseteq Procs
      /\ current_process \in Procs \cup {NULL}
    BY DEF Schedulable
<1>4. /\ n \in Elems(q1)
      /\ Tail(q1) \in Seq(Page)
      /\ Elems(q1) = Elems(Tail(q1)) \cup {n}
      /\ Distinct(Tail(q1)) /\ n \notin Elems(Tail(q1))
    BY <1>1, <1>2, DequeueFacts
<1>5. /\ Sorted(Tail(q1), priorityOf(m))
      /\ \A x \in Elems(Tail(q1)) : priorityOf(m)[n] <= priorityOf(m)[x]
    BY <1>1, <1>2, DequeueFacts
<1>6. priorityOf(pcb') = priorityOf(m)
      /\ \A p \in Page : priorityOf(m)[p] = m[p].priority
                         /\ pcb'[p].priority = m[p].priority
    BY <1>2, <1>3 DEF priorityOf, SameRest
<1>7. Elems(Tail(q1)) \subseteq Page
    BY <1>4 DEF Elems
<1>8. n \in Procs
    BY <1>1, <1>3, <1>4 DEF Requeues
<1>9. \A p : p \in Elems(Tail(q1)) <=>
                 /\ p # n
                 /\ p \in Elems(q) \/ (Requeues(m) /\ p = current_process)
    BY <1>1, <1>4
<1>10. \A p \in Elems(ready_queue') : pcb'[n].priority <= pcb'[p].priority
    BY <1>2, <1>5, <1>6, <1>7
<1>11. OrderKept(q, ready_queue', pcb')
    <2>1. SUFFICES ASSUME NEW a \in Elems(q), a \in Elems(Tail(q1)),
                          NEW b \in Elems(Tail(q1)), Ahead(Tail(q1), b, a)
                   PROVE  \/ Ahead(q, b, a)
                          \/ /\ b \notin Elems(q)
                             /\ pcb'[b].priority < pcb'[a].priority
        BY <1>2 DEF OrderKept
    <2>2. Ahead(q1, b, a)
        BY <1>1, <1>2, <2>1, DequeueFacts
    <2>3. a \in Elems(q1) /\ b \in Elems(q1) /\ a \in Page /\ b \in Page
        BY <1>4, <1>7, <2>1
    <2>4. \/ Ahead(q, b, a)
          \/ b \notin Elems(q) /\ m[b].priority < m[a].priority
        BY <1>1, <2>2, <2>3 DEF OrderKept
    <2>. QED  BY <1>6, <2>3, <2>4
<1>. QED  BY <1>2, <1>4, <1>5, <1>6, <1>8, <1>9, <1>10, <1>11

(* schedule() keeps the invariant.                                         *)
LEMMA ScheduleKeeps ==
    ASSUME NEW m, NEW q, Schedulable(m, q), TypeOK, Listed, schedule(m, q),
           UNCHANGED <<page_table, last_page_index, process_table, next_pid>>
    PROVE  SchedulerInv'
<1>1. /\ m \in [Page -> PCBs] /\ q \in Seq(Page)
      /\ current_process \in Procs \cup {NULL} /\ Procs \subseteq Page
      /\ current_process \in Page \cup {NULL}
    BY ProcsArePages DEF Schedulable
<1>2. Procs' = Procs /\ Queued' = Elems(ready_queue')
    BY DEF Procs, Queued, Elems
<1>3. Listed'
    BY <1>2 DEF Listed
<1>4. ASSUME NEW p \in Procs, m[p].state = STATE_RUNNING
      PROVE  Requeues(m) /\ p = current_process
    BY <1>1, <1>4, NullIsNoPage DEF Schedulable, Requeues
<1>5. CASE Idles(m, q)
    <2>1. /\ q = <<>> /\ ~Requeues(m)
          /\ pcb' = m /\ ready_queue' = q /\ mode' = "cli_nested"
          /\ current_process' = current_process
        BY <1>5 DEF Idles
    <2>2. TypeOK'
        BY <1>1, <2>1 DEF TypeOK, Modes, CLI
    <2>3. QueueDiscipline'
        <3>1. Distinct(ready_queue') /\ Queued' = {p \in Procs : m[p].state = STATE_READY}
            BY <1>2, <2>1 DEF Schedulable
        <3>2. mode' \in CLI
            BY <2>1 DEF CLI
        <3>. QED  BY <1>2, <1>4, <2>1, <3>1, <3>2 DEF QueueDiscipline, Distinct
    <2>4. CurrentListed'
        BY <1>1, <1>2, <2>1 DEF CurrentListed, Idle, CLI
    <2>5. UnlistedQuiet' /\ QueueSorted'
        BY <1>2, <2>1 DEF UnlistedQuiet, QueueSorted, Schedulable
    <2>. QED  BY <1>3, <2>2, <2>3, <2>4, <2>5 DEF SchedulerInv
<1>6. ASSUME NEW n \in Page, Dispatches(m, RequeuedQueue(m, q), n)
      PROVE  SchedulerInv'
    <2>1. /\ n \in Procs
          /\ ready_queue' \in Seq(Page)
          /\ Distinct(ready_queue')
          /\ \A p : p \in Elems(ready_queue') <=>
                /\ p # n
                /\ p \in Elems(q) \/ (Requeues(m) /\ p = current_process)
          /\ Sorted(ready_queue', priorityOf(pcb'))
        BY <1>6, DispatchLists
    <2>2. /\ current_process' = n /\ pcb' \in [Page -> PCBs]
          /\ mode' \in {"user", "wait", "crashed"}
          /\ pcb'[n].state = STATE_RUNNING
          /\ \A p \in Page \ {n} :
                pcb'[p].state = IF Requeues(m) /\ p = current_process
                                THEN STATE_READY ELSE m[p].state
        BY <1>6 DEF Dispatches, ModeOn
    <2>3. mode' \notin Idle /\ mode' \in Modes
        BY <2>2 DEF Idle, Modes, CLI, Stopped
    <2>4. TypeOK'
        BY <2>1, <2>2, <2>3 DEF TypeOK
    <2>5. QueueDiscipline'
        <3>1. ASSUME NEW p \in Procs
              PROVE  /\ p \in Queued' <=> pcb'[p].state = STATE_READY
                     /\ pcb'[p].state = STATE_RUNNING <=> p = n
            <4>1. CASE p = n
                BY <1>2, <2>1, <2>2, <4>1, StatesDiffer
            <4>2. CASE p # n
                <5>1. p \in Page
                    BY <1>1
                <5>2. p \in Elems(q) <=> m[p].state = STATE_READY
                    BY DEF Schedulable
                <5>. QED  BY <1>2, <1>4, <2>1, <2>2, <4>2, <5>1, <5>2, StatesDiffer
            <4>. QED  BY <4>1, <4>2
        <3>2. Queued' \subseteq Procs
            BY <1>1, <1>2, <2>1 DEF Schedulable, Requeues
        <3>3. Queued' = {p \in Procs : pcb'[p].state = STATE_READY}
            BY <3>1, <3>2
        <3>. QED  BY <1>2, <2>1, <2>2, <2>3, <3>1, <3>3
                  DEF QueueDiscipline, Distinct, Idle
    <2>6. CurrentListed'
        BY <1>2, <2>1, <2>2 DEF CurrentListed
    <2>7. UnlistedQuiet'
        <3>1. ASSUME NEW p \in Page \ Procs
              PROVE  pcb'[p].state \in {STATE_READY, STATE_ZOMBIE}
            <4>1. p # n /\ m[p].state \in {STATE_READY, STATE_ZOMBIE}
                BY <2>1 DEF Schedulable
            <4>. QED  BY <2>2, <4>1
        <3>. QED  BY <1>2, <3>1 DEF UnlistedQuiet
    <2>8. QueueSorted'
        BY <2>1 DEF QueueSorted
    <2>. QED  BY <1>3, <2>4, <2>5, <2>6, <2>7, <2>8 DEF SchedulerInv
<1>. QED  BY <1>1, <1>5, <1>6, ScheduleFacts

-----------------------------------------------------------------------------
(* What a step does to the order of the queue.                             *)

(* A process dispatched has the least priority number of those ready.      *)
DispatchStep ==
    current_process' # current_process =>
        \A p \in Queued' : pcb'[current_process'].priority <= pcb'[p].priority

OrderStep == OrderKept(ready_queue, ready_queue', pcb')

(* What every step has to show.                                            *)
StepKeeps == SchedulerInv' /\ DispatchStep /\ OrderStep

(* schedule() dispatches the front and keeps the order of the others.      *)
LEMMA ScheduleOrder ==
    ASSUME NEW m, NEW q, Schedulable(m, q), TypeOK, schedule(m, q)
    PROVE  /\ DispatchStep
           /\ OrderKept(q, ready_queue', pcb')
           /\ \A p \in Page : pcb'[p].priority = m[p].priority
<1>1. /\ m \in [Page -> PCBs] /\ q \in Seq(Page)
      /\ current_process \in Page \cup {NULL}
    BY ProcsArePages DEF Schedulable
<1>2. Queued' = Elems(ready_queue')
    BY DEF Queued, Elems
<1>3. CASE Idles(m, q)
    BY <1>3 DEF Idles, DispatchStep, OrderKept
<1>4. ASSUME NEW n \in Page, Dispatches(m, RequeuedQueue(m, q), n)
      PROVE  /\ DispatchStep
             /\ OrderKept(q, ready_queue', pcb')
             /\ \A p \in Page : pcb'[p].priority = m[p].priority
    <2>1. /\ \A p \in Elems(ready_queue') : pcb'[n].priority <= pcb'[p].priority
          /\ OrderKept(q, ready_queue', pcb')
        BY <1>4, DispatchLists
    <2>2. current_process' = n /\ \A p \in Page : pcb'[p].priority = m[p].priority
        BY <1>4 DEF Dispatches, SameRest
    <2>. QED  BY <1>2, <2>1, <2>2 DEF DispatchStep
<1>. QED  BY <1>1, <1>3, <1>4, ScheduleFacts

(* Keeping the order composes.                                             *)
LEMMA OrderKeptTwice ==
    ASSUME NEW q, NEW r, NEW s, NEW m, NEW u,
           OrderKept(q, r, m), OrderKept(r, s, u),
           Elems(q) \subseteq Elems(r), Elems(r) \subseteq Page,
           \A p \in Page : u[p].priority = m[p].priority
    PROVE  OrderKept(q, s, u)
<1>1. SUFFICES ASSUME NEW a \in Elems(q), a \in Elems(s), NEW b \in Elems(s),
                      Ahead(s, b, a)
               PROVE  \/ Ahead(q, b, a)
                      \/ b \notin Elems(q) /\ u[b].priority < u[a].priority
    BY DEF OrderKept
<1>2. CASE Ahead(r, b, a)
    <2>1. b \in Elems(r)
        BY <1>2 DEF Ahead, Elems
    <2>2. \/ Ahead(q, b, a)
          \/ b \notin Elems(q) /\ m[b].priority < m[a].priority
        BY <1>1, <1>2, <2>1 DEF OrderKept
    <2>. QED  BY <1>1, <2>1, <2>2
<1>3. CASE b \notin Elems(r) /\ u[b].priority < u[a].priority
    BY <1>3
<1>. QED  BY <1>1, <1>2, <1>3 DEF OrderKept

(* The PCBs m differ from pcb only in the current process, which may have  *)
(* left the running state, but not for the ready one.                      *)
LeavesCPU(m) ==
    /\ \A p \in Page : /\ m[p].priority = pcb[p].priority
                       /\ p # current_process => m[p].state = pcb[p].state
    /\ current_process # NULL =>
          \/ m[current_process].state = pcb[current_process].state
          \/ mode \notin Idle /\ m[current_process].state # STATE_READY

(* A process that leaves the CPU leaves what schedule() expects.           *)
LEMMA LeavesSchedulable ==
    ASSUME SchedulerInv, NEW m \in [Page -> PCBs], LeavesCPU(m)
    PROVE  Schedulable(m, ready_queue)
<1>. USE DEF SchedulerInv, LeavesCPU
<1>1. /\ Procs \subseteq Page /\ Queued = Elems(ready_queue)
      /\ current_process \in Procs \cup {NULL}
    BY ProcsArePages DEF CurrentListed
<1>2. priorityOf(m) = priorityOf(pcb)
    BY DEF priorityOf
<1>3. ASSUME NEW p \in Procs
      PROVE  /\ p \in Elems(ready_queue) <=> m[p].state = STATE_READY
             /\ m[p].state = STATE_RUNNING => p = current_process
    <2>1. /\ p \in Elems(ready_queue) <=> pcb[p].state = STATE_READY
          /\ pcb[p].state = STATE_RUNNING <=> p = current_process /\ mode \notin Idle
        BY <1>1 DEF QueueDiscipline, Idle
    <2>2. p \in Page /\ p # NULL
        BY <1>1, NullIsNoPage
    <2>3. CASE m[p].state = pcb[p].state
        BY <2>1, <2>3
    <2>4. CASE p = current_process /\ mode \notin Idle /\ m[p].state # STATE_READY
        BY <2>1, <2>4, StatesDiffer
    <2>. QED  BY <2>2, <2>3, <2>4
<1>4. \A p \in Page \ Procs : m[p].state \in {STATE_READY, STATE_ZOMBIE}
    <2>1. SUFFICES ASSUME NEW p \in Page \ Procs
                   PROVE  m[p].state = pcb[p].state
        BY DEF UnlistedQuiet
    <2>2. p # current_process
        BY <1>1, NullIsNoPage
    <2>. QED  BY <2>2
<1>5. Elems(ready_queue) \subseteq Procs
    BY <1>1 DEF QueueDiscipline
<1>6. Elems(ready_queue) = {p \in Procs : m[p].state = STATE_READY}
    BY <1>3, <1>5
<1>. QED
    BY <1>1, <1>2, <1>3, <1>4, <1>6
       DEF Schedulable, TypeOK, QueueDiscipline, Distinct, QueueSorted

(* A call that hands schedule() the queue as it is.                        *)
LEMMA SwitchKeeps ==
    ASSUME SchedulerInv, NEW m \in [Page -> PCBs], LeavesCPU(m),
           schedule(m, ready_queue),
           UNCHANGED <<page_table, last_page_index, process_table, next_pid>>
    PROVE  StepKeeps
<1>1. Schedulable(m, ready_queue) /\ TypeOK /\ Listed
    BY LeavesSchedulable DEF SchedulerInv
<1>. QED  BY <1>1, ScheduleKeeps, ScheduleOrder DEF StepKeeps, OrderStep

-----------------------------------------------------------------------------
(* The calls that give up the CPU.                                         *)

(* The process whose program has the CPU.                                  *)
LEMMA RunningProcess ==
    ASSUME SchedulerInv, mode \in {"user", "wait"}
    PROVE  /\ current_process \in Procs /\ current_process \in Page
           /\ current_process # NULL
           /\ mode \notin Idle
           /\ pcb[current_process] \in PCBs
           /\ pcb[current_process].state = STATE_RUNNING
<1>1. mode \notin Idle
    BY DEF Idle, CLI
<1>2. current_process \in Procs /\ Procs \subseteq Page
    BY <1>1, ProcsArePages DEF SchedulerInv, CurrentListed
<1>3. pcb[current_process].state = STATE_RUNNING
    BY <1>1, <1>2 DEF SchedulerInv, QueueDiscipline, Idle
<1>. QED  BY <1>1, <1>2, <1>3, NullIsNoPage DEF SchedulerInv, TypeOK

(* The PCBs with the state and the frame of process c replaced.            *)
Suspended(c, state, resume) ==
    [pcb EXCEPT ![c].state = state, ![c].resume = resume]

(* Suspending a process changes its state and its frame only.              *)
LEMMA SuspendedFacts ==
    ASSUME pcb \in [Page -> PCBs], NEW c \in Page, NEW state \in States,
           NEW resume \in Resumes, NEW m, m = Suspended(c, state, resume)
    PROVE  /\ m \in [Page -> PCBs]
           /\ m[c].state = state /\ m[c].resume = resume
           /\ SameRest(m[c], pcb[c])
           /\ \A p \in Page \ {c} : m[p] = pcb[p]
<1>1. pcb[c] \in PCBs
    OBVIOUS
<1>2. m[c] = [pcb[c] EXCEPT !.state = state, !.resume = resume]
    BY DEF Suspended
<1>3. m[c] \in PCBs /\ m[c].state = state /\ m[c].resume = resume
      /\ SameRest(m[c], pcb[c])
    BY <1>1, <1>2 DEF PCBs, SameRest
<1>4. \A p \in Page \ {c} : m[p] = pcb[p]
    BY DEF Suspended
<1>5. m \in [Page -> PCBs]
    BY <1>3, <1>4 DEF Suspended
<1>. QED  BY <1>3, <1>4, <1>5

(* wait_syscall up to the switch.                                          *)
LEMMA WaitBlockKeeps ==
    ASSUME SchedulerInv, WaitBlock
    PROVE  StepKeeps
<1>. DEFINE c == current_process
            m == Suspended(c, STATE_BLOCKED, "wait")
<1>1. c \in Page /\ mode \notin Idle
    BY RunningProcess DEF WaitBlock
<1>2. /\ schedule(m, ready_queue)
      /\ UNCHANGED <<page_table, last_page_index, process_table, next_pid>>
    BY DEF WaitBlock, Suspended
<1>3. STATE_BLOCKED \in States /\ "wait" \in Resumes
      /\ STATE_BLOCKED # STATE_READY /\ pcb \in [Page -> PCBs]
    BY StatesDiffer DEF States, Resumes, SchedulerInv, TypeOK
<1>. HIDE DEF m, c
<1>4. /\ m \in [Page -> PCBs] /\ m[c].state = STATE_BLOCKED
      /\ SameRest(m[c], pcb[c]) /\ \A p \in Page \ {c} : m[p] = pcb[p]
    BY <1>1, <1>3, SuspendedFacts DEF m
<1>5. LeavesCPU(m)
    BY <1>1, <1>3, <1>4 DEF LeavesCPU, SameRest, c
<1>. QED  BY <1>2, <1>4, <1>5, SwitchKeeps

(* A program that ends by STATE_EXIT and yield.                            *)
LEMMA LeaveKeeps ==
    ASSUME SchedulerInv, Leave
    PROVE  StepKeeps
<1>. DEFINE c == current_process
            m == Suspended(c, STATE_EXIT, "yield")
<1>1. c \in Page /\ mode \notin Idle
    BY RunningProcess DEF Leave
<1>2. /\ schedule(m, ready_queue)
      /\ UNCHANGED <<page_table, last_page_index, process_table, next_pid>>
    BY DEF Leave, Suspended
<1>3. STATE_EXIT \in States /\ "yield" \in Resumes
      /\ STATE_EXIT # STATE_READY /\ pcb \in [Page -> PCBs]
    BY StatesDiffer DEF States, Resumes, SchedulerInv, TypeOK
<1>. HIDE DEF m, c
<1>4. /\ m \in [Page -> PCBs] /\ m[c].state = STATE_EXIT
      /\ SameRest(m[c], pcb[c]) /\ \A p \in Page \ {c} : m[p] = pcb[p]
    BY <1>1, <1>3, SuspendedFacts DEF m
<1>5. LeavesCPU(m)
    BY <1>1, <1>3, <1>4 DEF LeavesCPU, SameRest, c
<1>. QED  BY <1>2, <1>4, <1>5, SwitchKeeps

(* yield_syscall saves its frame and leaves the state to schedule().       *)
YieldedPCBs(c) == [pcb EXCEPT ![c].resume = "yield"]

(* Yielding changes the frame only.                                        *)
LEMMA YieldedFacts ==
    ASSUME pcb \in [Page -> PCBs], NEW c \in Page, NEW m, m = YieldedPCBs(c)
    PROVE  /\ m \in [Page -> PCBs]
           /\ m[c].state = pcb[c].state /\ m[c].resume = "yield"
           /\ SameRest(m[c], pcb[c])
           /\ \A p \in Page \ {c} : m[p] = pcb[p]
<1>1. pcb[c] \in PCBs
    OBVIOUS
<1>2. m[c] = [pcb[c] EXCEPT !.resume = "yield"]
    BY DEF YieldedPCBs
<1>3. m[c] \in PCBs /\ m[c].state = pcb[c].state /\ m[c].resume = "yield"
      /\ SameRest(m[c], pcb[c])
    BY <1>1, <1>2 DEF PCBs, SameRest, Resumes
<1>4. \A p \in Page \ {c} : m[p] = pcb[p]
    BY DEF YieldedPCBs
<1>5. m \in [Page -> PCBs]
    BY <1>3, <1>4 DEF YieldedPCBs
<1>. QED  BY <1>3, <1>4, <1>5

(* yield.                                                                  *)
LEMMA YieldKeeps ==
    ASSUME SchedulerInv, Yield
    PROVE  StepKeeps
<1>. DEFINE c == current_process
            m == YieldedPCBs(c)
<1>1. c \in Page /\ mode \notin Idle /\ pcb \in [Page -> PCBs]
    BY RunningProcess DEF Yield, SchedulerInv, TypeOK
<1>2. /\ schedule(m, ready_queue)
      /\ UNCHANGED <<page_table, last_page_index, process_table, next_pid>>
    BY DEF Yield, YieldedPCBs
<1>. HIDE DEF m, c
<1>3. /\ m \in [Page -> PCBs] /\ m[c].state = pcb[c].state
      /\ SameRest(m[c], pcb[c]) /\ \A p \in Page \ {c} : m[p] = pcb[p]
    BY <1>1, YieldedFacts DEF m
<1>4. LeavesCPU(m)
    BY <1>1, <1>3 DEF LeavesCPU, SameRest, c
<1>. QED  BY <1>2, <1>3, <1>4, SwitchKeeps

(* schedule() called by a program or by process start.                     *)
LEMMA PlainScheduleKeeps ==
    ASSUME SchedulerInv, ScheduleCall \/ CliStart
    PROVE  StepKeeps
<1>1. /\ schedule(pcb, ready_queue)
      /\ UNCHANGED <<page_table, last_page_index, process_table, next_pid>>
    BY DEF ScheduleCall, CliStart
<1>2. pcb \in [Page -> PCBs] /\ LeavesCPU(pcb)
    BY DEF SchedulerInv, TypeOK, LeavesCPU
<1>. QED  BY <1>1, <1>2, SwitchKeeps

(* exit_syscall: the PCBs before and after the wake-up.                    *)
LEMMA ExitedFacts ==
    ASSUME pcb \in [Page -> PCBs], NEW c \in Page, NEW status \in Int,
           NEW m, m = Exited(c, status)
    PROVE  /\ m \in [Page -> PCBs]
           /\ m[c].state = STATE_ZOMBIE /\ m[c].exit_status = status
           /\ m[c].priority = pcb[c].priority /\ m[c].pid = pcb[c].pid
           /\ m[c].parent = pcb[c].parent /\ m[c].resume = pcb[c].resume
           /\ m[c].stack = pcb[c].stack
           /\ m[c].user_stack_base = pcb[c].user_stack_base
           /\ m[c].kernel_stack_base = pcb[c].kernel_stack_base
           /\ \A p \in Page \ {c} : m[p] = pcb[p]
<1>1. pcb[c] \in PCBs
    OBVIOUS
<1>2. m[c] = [pcb[c] EXCEPT !.exit_status = status, !.state = STATE_ZOMBIE]
    BY DEF Exited
<1>3. /\ m[c] \in PCBs
      /\ m[c].state = STATE_ZOMBIE /\ m[c].exit_status = status
      /\ m[c].priority = pcb[c].priority /\ m[c].pid = pcb[c].pid
      /\ m[c].parent = pcb[c].parent /\ m[c].resume = pcb[c].resume
      /\ m[c].stack = pcb[c].stack
      /\ m[c].user_stack_base = pcb[c].user_stack_base
      /\ m[c].kernel_stack_base = pcb[c].kernel_stack_base
    BY <1>1, <1>2 DEF PCBs, States
<1>4. \A p \in Page \ {c} : m[p] = pcb[p]
    BY DEF Exited
<1>5. m \in [Page -> PCBs]
    BY <1>3, <1>4 DEF Exited
<1>. QED  BY <1>3, <1>4, <1>5

WokenPCBs(m, parent) == [m EXCEPT ![parent].state = STATE_READY]

(* Waking a process changes its state only.                                *)
LEMMA WokenFacts ==
    ASSUME NEW m \in [Page -> PCBs], NEW p \in Page, NEW u, u = WokenPCBs(m, p)
    PROVE  /\ u \in [Page -> PCBs]
           /\ u[p].state = STATE_READY /\ u[p].resume = m[p].resume
           /\ SameRest(u[p], m[p])
           /\ \A r \in Page \ {p} : u[r] = m[r]
<1>1. m[p] \in PCBs
    OBVIOUS
<1>2. u[p] = [m[p] EXCEPT !.state = STATE_READY]
    BY DEF WokenPCBs
<1>3. u[p] \in PCBs /\ u[p].state = STATE_READY /\ u[p].resume = m[p].resume
      /\ SameRest(u[p], m[p])
    BY <1>1, <1>2 DEF PCBs, SameRest, States
<1>4. \A r \in Page \ {p} : u[r] = m[r]
    BY DEF WokenPCBs
<1>5. u \in [Page -> PCBs]
    BY <1>3, <1>4 DEF WokenPCBs
<1>. QED  BY <1>3, <1>4, <1>5

(* Waking a blocked process leaves what schedule() needs.                  *)
LEMMA WokenSchedulable ==
    ASSUME TypeOK, NEW m, Schedulable(m, ready_queue), NEW p \in Procs,
           m[p].state = STATE_BLOCKED,
           NEW u, u = WokenPCBs(m, p),
           NEW e, e = enqueue_process(ready_queue, u, p)
    PROVE  /\ Schedulable(u, e)
           /\ OrderKept(ready_queue, e, u)
           /\ Elems(ready_queue) \subseteq Elems(e)
           /\ Elems(e) \subseteq Page
<1>1. p \in Page /\ m \in [Page -> PCBs] /\ Procs \subseteq Page
    BY ProcsArePages DEF Schedulable
<1>2. /\ u \in [Page -> PCBs]
      /\ u[p].state = STATE_READY /\ SameRest(u[p], m[p])
      /\ \A r \in Page \ {p} : u[r] = m[r]
    BY <1>1, WokenFacts
<1>3. p \notin Elems(ready_queue)
    BY StatesDiffer DEF Schedulable
<1>4. priorityOf(u) = priorityOf(m)
    <2>1. \A r \in Page : u[r].priority = m[r].priority
        BY <1>1, <1>2 DEF SameRest
    <2>. QED  BY <2>1 DEF priorityOf
<1>5. /\ e \in Seq(Page)
      /\ Distinct(e)
      /\ Elems(e) = Elems(ready_queue) \cup {p}
      /\ Sorted(e, priorityOf(u))
      /\ OrderKept(ready_queue, e, u)
    BY <1>1, <1>2, <1>3, <1>4, EnqueuedFacts DEF Schedulable
<1>6. \A r \in Procs : u[r].state = IF r = p THEN STATE_READY ELSE m[r].state
    BY <1>1, <1>2
<1>7. Elems(e) = {r \in Procs : u[r].state = STATE_READY}
    BY <1>5, <1>6 DEF Schedulable
<1>8. \A r \in Procs : u[r].state = STATE_RUNNING => r = current_process
    BY <1>6, StatesDiffer DEF Schedulable
<1>9. \A r \in Page \ Procs : u[r].state \in {STATE_READY, STATE_ZOMBIE}
    BY <1>2 DEF Schedulable
<1>10. Schedulable(u, e)
    BY <1>2, <1>5, <1>7, <1>8, <1>9 DEF Schedulable
<1>. QED  BY <1>1, <1>5, <1>7, <1>10

(* exit_syscall, the waking of the parent included.                        *)
LEMMA ExitKeeps ==
    ASSUME SchedulerInv, NEW status \in Statuses, Exit(status)
    PROVE  StepKeeps
<1>. DEFINE c == current_process
            m == Exited(c, status)
            parent == pcb[c].parent
            u == WokenPCBs(m, parent)
            e == enqueue_process(ready_queue, u, parent)
<1>1. c \in Page /\ mode \notin Idle /\ pcb \in [Page -> PCBs] /\ status \in Int
      /\ parent \in Page \cup {NULL}
    BY RunningProcess, PCBFields, ProcessAssumption DEF Exit, SchedulerInv, TypeOK
<1>2. /\ Wakes(m, parent) => schedule(u, e)
      /\ ~Wakes(m, parent) => schedule(m, ready_queue)
      /\ UNCHANGED <<page_table, last_page_index, process_table, next_pid>>
    BY DEF Exit, WokenPCBs
<1>. HIDE DEF m, c, u, e, parent
<1>3. /\ m \in [Page -> PCBs] /\ m[c].state = STATE_ZOMBIE
      /\ m[c].priority = pcb[c].priority
      /\ \A p \in Page \ {c} : m[p] = pcb[p]
    BY <1>1, ExitedFacts DEF m
<1>4. LeavesCPU(m)
    BY <1>1, <1>3, StatesDiffer DEF LeavesCPU, c
<1>5. Schedulable(m, ready_queue) /\ TypeOK /\ Listed
    BY <1>3, <1>4, LeavesSchedulable DEF SchedulerInv
<1>6. CASE ~Wakes(m, parent)
    BY <1>2, <1>3, <1>4, <1>6, SwitchKeeps
<1>7. CASE Wakes(m, parent)
    <2>1. parent \in Page /\ m[parent].state = STATE_BLOCKED
        BY <1>1, <1>7 DEF Wakes
    <2>2. parent \in Procs
        BY <1>5, <2>1, StatesDiffer DEF Schedulable
    <2>3. /\ Schedulable(u, e) /\ OrderKept(ready_queue, e, u)
          /\ Elems(ready_queue) \subseteq Elems(e) /\ Elems(e) \subseteq Page
        BY <1>5, <2>1, <2>2, WokenSchedulable DEF u, e
    <2>4. SchedulerInv'
        BY <1>2, <1>5, <1>7, <2>3, ScheduleKeeps
    <2>5. /\ DispatchStep
          /\ OrderKept(e, ready_queue', pcb')
          /\ \A p \in Page : pcb'[p].priority = u[p].priority
        BY <1>2, <1>5, <1>7, <2>3, ScheduleOrder
    <2>6. OrderStep
        BY <2>3, <2>5, OrderKeptTwice DEF OrderStep
    <2>. QED  BY <2>4, <2>5, <2>6 DEF StepKeeps
<1>. QED  BY <1>6, <1>7

(* The exit command.                                                       *)
LEMMA CliExitKeeps ==
    ASSUME SchedulerInv, CliExit
    PROVE  StepKeeps
<1>1. /\ mode \in Idle /\ mode' \in Idle /\ mode' \in Modes
      /\ UNCHANGED <<page_table, last_page_index, pcb, process_table,
                     ready_queue, current_process, next_pid>>
    BY DEF CliExit, Idle, CLI, Modes, Stopped
<1>2. Procs' = Procs /\ Queued' = Queued
    BY <1>1 DEF Procs, Queued
<1>3. QueueDiscipline'
    BY <1>1, <1>2 DEF SchedulerInv, QueueDiscipline, Idle
<1>4. TypeOK'
    BY <1>1 DEF SchedulerInv, TypeOK
<1>5. Listed' /\ CurrentListed' /\ UnlistedQuiet' /\ QueueSorted'
    BY <1>1, <1>2 DEF SchedulerInv, Listed, CurrentListed, UnlistedQuiet, QueueSorted
<1>6. DispatchStep /\ OrderStep
    BY <1>1 DEF DispatchStep, OrderStep, OrderKept
<1>. QED  BY <1>3, <1>4, <1>5, <1>6 DEF StepKeeps, SchedulerInv

(* A stuttering step, such as that of a stopped kernel.                    *)
LEMMA StutterKeeps ==
    ASSUME SchedulerInv, UNCHANGED vars
    PROVE  StepKeeps
<1>1. UNCHANGED <<page_table, last_page_index, pcb, process_table,
                  ready_queue, current_process, next_pid, mode>>
    BY DEF vars
<1>2. Procs' = Procs /\ Queued' = Queued
    BY <1>1 DEF Procs, Queued
<1>3. SchedulerInv'
    BY <1>1, <1>2 DEF SchedulerInv, TypeOK, QueueDiscipline, Listed, CurrentListed,
        UnlistedQuiet, QueueSorted
<1>4. DispatchStep /\ OrderStep
    BY <1>1 DEF DispatchStep, OrderStep, OrderKept
<1>. QED  BY <1>3, <1>4 DEF StepKeeps

-----------------------------------------------------------------------------
(* wait_syscall's search.                                                  *)

(* Taking the i-th entry out of the process table takes its process out    *)
(* and no other.                                                           *)
LEMMA UnlinkedFacts ==
    ASSUME process_table \in Seq(Page), Distinct(process_table),
           NEW i \in 1 .. Len(process_table), NEW u, u = Unlinked(i)
    PROVE  /\ u \in Seq(Page)
           /\ Distinct(u)
           /\ Elems(u) = Elems(process_table) \ {process_table[i]}
<1>. DEFINE t == process_table
            n == Len(t)
<1>1. /\ n \in Nat /\ i \in 1 .. n /\ n - 1 \in Nat
      /\ \A j \in 1 .. n : t[j] \in Page
      /\ u = [j \in 1 .. n - 1 |-> IF j < i THEN t[j] ELSE t[j + 1]]
    BY DEF Unlinked
<1>2. \A j, k \in 1 .. n : j # k => t[j] # t[k]
    BY DEF Distinct
<1>. HIDE DEF n, t
<1>3. /\ \A j \in 1 .. n - 1 : j < i => j \in 1 .. n /\ u[j] = t[j]
      /\ \A j \in 1 .. n - 1 : j >= i => j + 1 \in 1 .. n /\ u[j] = t[j + 1]
    BY <1>1
<1>4. \A j \in 1 .. n - 1 : u[j] \in Page
    BY <1>1, <1>3
<1>5. u \in Seq(Page) /\ Len(u) = n - 1
    BY <1>1, <1>4
<1>6. ASSUME NEW j \in 1 .. n - 1, NEW k \in 1 .. n - 1, j < k
      PROVE  u[j] # u[k]
    <2>1. CASE k < i
        <3>1. j < i
            BY <1>1, <1>6, <2>1
        <3>2. u[j] = t[j] /\ u[k] = t[k] /\ j \in 1 .. n /\ k \in 1 .. n
            BY <1>3, <2>1, <3>1
        <3>. QED  BY <1>2, <1>6, <3>2
    <2>2. CASE j < i /\ k >= i
        <3>1. u[j] = t[j] /\ u[k] = t[k + 1] /\ j \in 1 .. n /\ k + 1 \in 1 .. n
            BY <1>3, <2>2
        <3>2. j # k + 1
            BY <1>1, <1>6
        <3>. QED  BY <1>2, <3>1, <3>2
    <2>3. CASE j >= i
        <3>1. k >= i
            BY <1>1, <1>6, <2>3
        <3>2. u[j] = t[j + 1] /\ u[k] = t[k + 1]
              /\ j + 1 \in 1 .. n /\ k + 1 \in 1 .. n
            BY <1>3, <2>3, <3>1
        <3>3. j + 1 # k + 1
            BY <1>1, <1>6
        <3>. QED  BY <1>2, <3>2, <3>3
    <2>. QED  BY <1>1, <2>1, <2>2, <2>3
<1>7. Distinct(u)
    <2>1. ASSUME NEW j \in 1 .. n - 1, NEW k \in 1 .. n - 1, j # k
          PROVE  u[j] # u[k]
        <3>1. j < k \/ k < j
            BY <1>1, <2>1
        <3>. QED  BY <1>6, <3>1
    <2>. QED  BY <1>5, <2>1 DEF Distinct
<1>8. ASSUME NEW x \in Elems(u)
      PROVE  x \in Elems(t) /\ x # t[i]
    <2>1. PICK j \in 1 .. n - 1 : x = u[j]
        BY <1>5 DEF Elems
    <2>2. CASE j < i
        <3>1. j \in 1 .. n /\ x = t[j] /\ j # i
            BY <1>1, <1>3, <2>1, <2>2
        <3>. QED  BY <1>1, <1>2, <3>1 DEF Elems, n
    <2>3. CASE j >= i
        <3>1. j + 1 \in 1 .. n /\ x = t[j + 1] /\ j + 1 # i
            BY <1>1, <1>3, <2>1, <2>3
        <3>. QED  BY <1>1, <1>2, <3>1 DEF Elems, n
    <2>. QED  BY <1>1, <2>2, <2>3
<1>9. ASSUME NEW x \in Elems(t), x # t[i]
      PROVE  x \in Elems(u)
    <2>1. PICK j \in 1 .. n : x = t[j]
        BY DEF Elems, n
    <2>2. j # i
        BY <1>9, <2>1
    <2>3. CASE j < i
        <3>1. j \in 1 .. n - 1 /\ u[j] = x
            BY <1>1, <2>1, <2>3
        <3>. QED  BY <1>5, <3>1 DEF Elems
    <2>4. CASE j > i
        <3>1. j - 1 \in 1 .. n - 1 /\ j - 1 >= i /\ (j - 1) + 1 = j
            BY <1>1, <2>1, <2>4
        <3>2. u[j - 1] = x
            BY <1>3, <2>1, <3>1
        <3>. QED  BY <1>5, <3>1, <3>2 DEF Elems
    <2>. QED  BY <1>1, <2>2, <2>3, <2>4
<1>. QED  BY <1>5, <1>7, <1>8, <1>9 DEF t

(* The process a reap unlinks is a zombie, hence neither queued nor the    *)
(* one that waits.                                                         *)
LEMMA ReapFacts ==
    ASSUME SchedulerInv, NEW c, Reap(c)
    PROVE  \E child \in Procs :
             /\ \E i \in ZombieChildren(c) : child = process_table[i]
             /\ child \in Page
             /\ pcb[child].state = STATE_ZOMBIE
             /\ process_table' \in Seq(Page) /\ Distinct(process_table')
             /\ Procs' = Procs \ {child}
             /\ page_table' = Kfree(page_table, child)
             /\ delivered' = delivered \cup
                  {[by |-> pcb[c].pid, pid |-> pcb[child].pid,
                    status |-> pcb[child].exit_status]}
<1>1. PICK i \in ZombieChildren(c) :
        /\ process_table' = Unlinked(i)
        /\ page_table' = Kfree(page_table, process_table[i])
        /\ delivered' = delivered \cup
              {[by |-> pcb[c].pid, pid |-> pcb[process_table[i]].pid,
                status |-> pcb[process_table[i]].exit_status]}
    BY DEF Reap
<1>2. /\ i \in 1 .. Len(process_table)
      /\ pcb[process_table[i]].state = STATE_ZOMBIE
    BY DEF ZombieChildren, IsZombieChild
<1>3. process_table \in Seq(Page) /\ Distinct(process_table)
    BY DEF SchedulerInv, TypeOK, Listed
<1>4. /\ Unlinked(i) \in Seq(Page) /\ Distinct(Unlinked(i))
      /\ Elems(Unlinked(i)) = Elems(process_table) \ {process_table[i]}
    BY <1>2, <1>3, UnlinkedFacts
<1>5. Procs = Elems(process_table) /\ Procs' = Elems(process_table')
    BY DEF Procs, Elems
<1>6. process_table[i] \in Procs /\ process_table[i] \in Page
    BY <1>2, <1>3 DEF Procs
<1>. QED  BY <1>1, <1>2, <1>4, <1>5, <1>6

(* wait_syscall unlinks and frees a zombie, which is in no queue.          *)
LEMMA ReapKeeps ==
    ASSUME SchedulerInv, mode \in {"user", "wait"}, mode' = "user",
           Reap(current_process),
           UNCHANGED <<last_page_index, pcb, ready_queue, current_process, next_pid>>
    PROVE  StepKeeps
<1>1. PICK child \in Procs :
             /\ child \in Page
             /\ pcb[child].state = STATE_ZOMBIE
             /\ process_table' \in Seq(Page) /\ Distinct(process_table')
             /\ Procs' = Procs \ {child}
             /\ page_table' = Kfree(page_table, child)
    BY ReapFacts
<1>2. mode \notin Idle /\ mode' \notin Idle /\ mode' \in Modes
    BY DEF Idle, CLI, Modes
<1>3. current_process \in Procs /\ pcb[current_process].state = STATE_RUNNING
    BY RunningProcess
<1>4. current_process \in Procs'
    BY <1>1, <1>3, StatesDiffer
<1>5. /\ page_table' \in [Page -> Tags]
      /\ \A p \in Page : p # child /\ page_table[p] = HEAD => page_table'[p] = HEAD
    BY <1>1, KfreeKeepsHeads DEF SchedulerInv, TypeOK, Tags
<1>6. TypeOK'
    BY <1>1, <1>2, <1>5 DEF SchedulerInv, TypeOK, Tags
<1>7. QueueDiscipline'
    <2>1. Queued' = Queued
        BY DEF Queued
    <2>2. Queued' = {p \in Procs' : pcb'[p].state = STATE_READY}
        BY <1>1, <2>1, StatesDiffer DEF SchedulerInv, QueueDiscipline
    <2>3. \A p \in Procs' : pcb'[p].state = STATE_RUNNING <=>
             p = current_process' /\ mode' \notin Idle
        BY <1>1, <1>2 DEF SchedulerInv, QueueDiscipline, Idle
    <2>. QED  BY <2>2, <2>3 DEF SchedulerInv, QueueDiscipline, Idle
<1>8. Listed'
    BY <1>1, <1>5, ProcsArePages DEF SchedulerInv, Listed
<1>9. CurrentListed'
    BY <1>4 DEF CurrentListed
<1>10. UnlistedQuiet'
    BY <1>1 DEF SchedulerInv, UnlistedQuiet
<1>11. QueueSorted'
    BY DEF SchedulerInv, QueueSorted
<1>12. DispatchStep /\ OrderStep
    BY DEF DispatchStep, OrderStep, OrderKept
<1>. QED  BY <1>6, <1>7, <1>8, <1>9, <1>10, <1>11, <1>12 DEF StepKeeps, SchedulerInv

(* wait_syscall that finds a zombie at once.                               *)
LEMMA WaitReapKeeps ==
    ASSUME SchedulerInv, WaitReap
    PROVE  StepKeeps
BY ReapKeeps DEF WaitReap

(* wait_syscall after the switch back.                                     *)
LEMMA WaitReturnKeeps ==
    ASSUME SchedulerInv, WaitReturn
    PROVE  StepKeeps
<1>1. /\ mode = "wait" /\ mode' = "user"
      /\ UNCHANGED <<last_page_index, pcb, ready_queue, current_process, next_pid>>
    BY DEF WaitReturn
<1>2. CASE Reap(current_process)
    BY <1>1, <1>2, ReapKeeps
<1>3. CASE UNCHANGED <<process_table, page_table, delivered>>
    <2>1. mode \notin Idle /\ mode' \notin Idle /\ mode' \in Modes
        BY <1>1 DEF Idle, CLI, Modes
    <2>2. Procs' = Procs /\ Queued' = Queued
        BY <1>1, <1>3 DEF Procs, Queued
    <2>3. TypeOK' /\ QueueDiscipline'
        BY <1>1, <1>3, <2>1, <2>2 DEF SchedulerInv, TypeOK, QueueDiscipline, Idle
    <2>4. Listed' /\ CurrentListed' /\ UnlistedQuiet' /\ QueueSorted'
        BY <1>1, <1>3, <2>1, <2>2 DEF SchedulerInv, Listed, CurrentListed,
            UnlistedQuiet, QueueSorted
    <2>5. DispatchStep /\ OrderStep
        BY <1>1 DEF DispatchStep, OrderStep, OrderKept
    <2>. QED  BY <2>3, <2>4, <2>5 DEF StepKeeps, SchedulerInv
<1>. QED  BY <1>2, <1>3 DEF WaitReturn

-----------------------------------------------------------------------------
(* Creation.                                                               *)

(* The three requests of create_process and fork_syscall.                  *)
LEMMA HeapFacts ==
    ASSUME TypeOK, NEW h1, h1 = Kmalloc(heap, PCB_SIZE),
           NEW h2, h2 = Kmalloc(h1, STACK_SIZE),
           NEW h3, h3 = allocate_kernel_stack(h2)
    PROVE  /\ h1.page_table \in [Page -> Tags] /\ h1.last_page_index \in Page
           /\ h3.page_table \in [Page -> Tags] /\ h3.last_page_index \in Page
           /\ h1.addr \in Page \cup {NULL} /\ h2.addr \in Page \cup {NULL}
           /\ h3.addr \in Page \cup {NULL}
           /\ h1.addr # NULL => /\ page_table[h1.addr] = FREE
                                /\ h3.page_table[h1.addr] = HEAD
           /\ \A p \in Page : page_table[p] = HEAD =>
                 h1.page_table[p] = HEAD /\ h3.page_table[p] = HEAD
<1>1. PagesFor(PCB_SIZE) \in Nat /\ PagesFor(STACK_SIZE) \in Nat
    BY PagesForType, ProcessAssumption
<1>2. page_table \in [Page -> Tags] /\ last_page_index \in Page
    BY DEF TypeOK, Tags
<1>3. /\ h1 = AllocatePages(page_table, last_page_index, PagesFor(PCB_SIZE))
      /\ h2 = AllocatePages(h1.page_table, h1.last_page_index, PagesFor(STACK_SIZE))
      /\ h3 = AllocatePages(h2.page_table, h2.last_page_index, PagesFor(STACK_SIZE))
    BY DEF Kmalloc, heap, allocate_kernel_stack
<1>4. HEAD # FREE
    BY DEF HEAD, FREE
<1>5. /\ h1.page_table \in [Page -> Tags] /\ h1.last_page_index \in Page
      /\ h1.addr \in Page \cup {NULL}
      /\ h1.addr # NULL => page_table[h1.addr] = FREE
                           /\ h1.page_table[h1.addr] = HEAD
      /\ \A p \in Page : page_table[p] # FREE => h1.page_table[p] = page_table[p]
    BY <1>1, <1>2, <1>3, AllocateCases
<1>6. /\ h2.page_table \in [Page -> Tags] /\ h2.last_page_index \in Page
      /\ h2.addr \in Page \cup {NULL}
      /\ \A p \in Page : h1.page_table[p] # FREE =>
            h2.page_table[p] = h1.page_table[p]
    BY <1>1, <1>3, <1>5, AllocateCases
<1>7. /\ h3.page_table \in [Page -> Tags] /\ h3.last_page_index \in Page
      /\ h3.addr \in Page \cup {NULL}
      /\ \A p \in Page : h2.page_table[p] # FREE =>
            h3.page_table[p] = h2.page_table[p]
    BY <1>1, <1>3, <1>6, AllocateCases
<1>. QED  BY <1>4, <1>5, <1>6, <1>7

(* A page that is free holds no process.                                   *)
LEMMA FreeUnlisted ==
    ASSUME SchedulerInv, NEW p \in Page, page_table[p] = FREE
    PROVE  p \notin Procs /\ p \notin Elems(ready_queue)
<1>1. p \notin Procs
    BY DEF SchedulerInv, Listed, FREE, HEAD
<1>. QED  BY <1>1, ProcsArePages DEF SchedulerInv, QueueDiscipline

(* The process table with child in front.                                  *)
LEMMA LinkedFacts ==
    ASSUME NEW S, NEW q \in Seq(S), Distinct(q), NEW p \in S, p \notin Elems(q),
           NEW e, e = <<p>> \o q
    PROVE  e \in Seq(S) /\ Distinct(e) /\ Adds(q, e, p)
<1>1. /\ e \in Seq(S) /\ Len(e) = Len(q) + 1 /\ e[1] = p /\ Len(q) \in Nat
      /\ \A i \in 2 .. Len(q) + 1 : e[i] = q[i - 1]
    OBVIOUS
<1>2. \A i \in 1 .. Len(q) + 1 : i # 1 => i \in 2 .. Len(q) + 1 /\ i - 1 \in 1 .. Len(q)
    BY <1>1
<1>3. Distinct(e)
    <2>1. SUFFICES ASSUME NEW i \in 1 .. Len(q) + 1, NEW j \in 1 .. Len(q) + 1,
                          i # j
                   PROVE  e[i] # e[j]
        BY <1>1 DEF Distinct
    <2>2. CASE i = 1
        <3>1. e[j] \in Elems(q)
            BY <1>1, <1>2, <2>1, <2>2 DEF Elems
        <3>. QED  BY <1>1, <2>2, <3>1
    <2>3. CASE j = 1
        <3>1. e[i] \in Elems(q)
            BY <1>1, <1>2, <2>1, <2>3 DEF Elems
        <3>. QED  BY <1>1, <2>3, <3>1
    <2>4. CASE i # 1 /\ j # 1
        <3>1. /\ e[i] = q[i - 1] /\ i - 1 \in 1 .. Len(q)
              /\ e[j] = q[j - 1] /\ j - 1 \in 1 .. Len(q)
            BY <1>1, <1>2, <2>4
        <3>2. i - 1 # j - 1
            BY <1>1, <2>1
        <3>. QED  BY <3>1, <3>2 DEF Distinct
    <2>. QED  BY <2>2, <2>3, <2>4
<1>4. ASSUME NEW x \in Elems(e)
      PROVE  x \in Elems(q) \cup {p}
    <2>1. PICK i \in 1 .. Len(q) + 1 : x = e[i]
        BY <1>1 DEF Elems
    <2>2. CASE i = 1
        BY <1>1, <2>1, <2>2
    <2>3. CASE i # 1
        BY <1>1, <1>2, <2>1, <2>3 DEF Elems
    <2>. QED  BY <2>2, <2>3
<1>5. ASSUME NEW x \in Elems(q)
      PROVE  x \in Elems(e)
    <2>1. PICK i \in 1 .. Len(q) : x = q[i]
        BY DEF Elems
    <2>2. i + 1 \in 2 .. Len(q) + 1 /\ i + 1 \in 1 .. Len(q) + 1 /\ (i + 1) - 1 = i
        BY <1>1
    <2>3. e[i + 1] = x
        BY <1>1, <2>1, <2>2
    <2>. QED  BY <1>1, <2>2, <2>3 DEF Elems
<1>6. p \in Elems(e)
    <2>1. 1 \in 1 .. Len(e)
        BY <1>1
    <2>. QED  BY <1>1, <2>1 DEF Elems
<1>. QED  BY <1>1, <1>3, <1>4, <1>5, <1>6 DEF Adds

(* A process made in a page that was free.                                 *)
LEMMA NewProcessKeeps ==
    ASSUME SchedulerInv, NEW child \in Page, page_table[child] = FREE,
           NEW m \in [Page -> PCBs], m[child].state = STATE_READY,
           \A p \in Page \ {child} : m[p] = pcb[p],
           pcb' = m,
           process_table' = <<child>> \o process_table,
           ready_queue' = enqueue_process(ready_queue, m, child),
           UNCHANGED <<current_process, mode>>,
           page_table' \in [Page -> Tags], last_page_index' \in Page,
           page_table'[child] = HEAD,
           \A p \in Page : page_table[p] = HEAD => page_table'[p] = HEAD,
           next_pid <= MAX_PID, next_pid' = next_pid + 1
    PROVE  StepKeeps
<1>. USE DEF SchedulerInv
<1>1. child \notin Procs /\ child \notin Elems(ready_queue)
    BY FreeUnlisted
<1>2. /\ process_table \in Seq(Page) /\ ready_queue \in Seq(Page)
      /\ Procs = Elems(process_table) /\ Queued = Elems(ready_queue)
      /\ Procs \subseteq Page /\ Queued \subseteq Page
      /\ Distinct(process_table) /\ Distinct(ready_queue)
    BY ProcsArePages DEF TypeOK, Listed, QueueDiscipline, Distinct
<1>3. /\ process_table' \in Seq(Page) /\ Distinct(process_table')
      /\ Adds(process_table, process_table', child)
    BY <1>1, <1>2, LinkedFacts
<1>4. Procs' = Procs \cup {child} /\ Queued' = Elems(ready_queue')
    BY <1>2, <1>3 DEF Procs, Queued, Elems, Adds
<1>5. Sorted(ready_queue, priorityOf(m))
    <2>1. ASSUME NEW i \in 1 .. Len(ready_queue), NEW j \in 1 .. Len(ready_queue),
                 i <= j
          PROVE  priorityOf(m)[ready_queue[i]] <= priorityOf(m)[ready_queue[j]]
        <3>1. /\ ready_queue[i] \in Elems(ready_queue)
              /\ ready_queue[j] \in Elems(ready_queue)
            BY DEF Elems
        <3>2. /\ priorityOf(m)[ready_queue[i]] = priorityOf(pcb)[ready_queue[i]]
              /\ priorityOf(m)[ready_queue[j]] = priorityOf(pcb)[ready_queue[j]]
            BY <1>1, <1>2, <3>1 DEF priorityOf
        <3>. QED  BY <2>1, <3>2 DEF QueueSorted, Sorted
    <2>. QED  BY <2>1 DEF Sorted
<1>6. /\ ready_queue' \in Seq(Page)
      /\ Distinct(ready_queue')
      /\ Elems(ready_queue') = Elems(ready_queue) \cup {child}
      /\ Sorted(ready_queue', priorityOf(m))
      /\ OrderKept(ready_queue, ready_queue', m)
    BY <1>1, <1>2, <1>5, EnqueuedFacts
<1>7. TypeOK'
    <2>1. next_pid' \in 1 .. MAX_PID + 1
        BY ProcessAssumption DEF TypeOK
    <2>. QED  BY <1>3, <1>6, <2>1 DEF TypeOK, Tags
<1>8. current_process # child
    BY <1>1, NullIsNoPage DEF CurrentListed
<1>9. QueueDiscipline'
    <2>1. ASSUME NEW p \in Procs'
          PROVE  /\ p \in Queued' <=> pcb'[p].state = STATE_READY
                 /\ pcb'[p].state = STATE_RUNNING <=>
                      p = current_process' /\ mode' \notin Idle
        <3>1. CASE p = child
            BY <1>4, <1>6, <1>8, <3>1, StatesDiffer
        <3>2. CASE p # child
            <4>1. p \in Procs /\ p \in Page /\ pcb'[p] = pcb[p]
                BY <1>2, <1>4, <3>2
            <4>. QED  BY <1>2, <1>4, <1>6, <3>2, <4>1 DEF QueueDiscipline, Idle
        <3>. QED  BY <3>1, <3>2
    <2>2. Queued' \subseteq Procs'
        BY <1>2, <1>4, <1>6 DEF QueueDiscipline
    <2>3. Queued' = {p \in Procs' : pcb'[p].state = STATE_READY}
        BY <2>1, <2>2
    <2>. QED  BY <1>6, <2>1, <2>3 DEF QueueDiscipline, Distinct, Idle
<1>10. Listed'
    BY <1>2, <1>3, <1>4 DEF Listed
<1>11. CurrentListed'
    BY <1>4 DEF CurrentListed
<1>12. UnlistedQuiet'
    BY <1>4 DEF UnlistedQuiet
<1>13. QueueSorted'
    BY <1>6 DEF QueueSorted
<1>14. DispatchStep /\ OrderStep
    BY <1>6 DEF DispatchStep, OrderStep
<1>. QED  BY <1>7, <1>9, <1>10, <1>11, <1>12, <1>13, <1>14 DEF StepKeeps

(* A creation that fails: pages, and the PCB in a page that was free, may  *)
(* have changed, the lists have not.                                       *)
LEMMA NoProcessKeeps ==
    ASSUME SchedulerInv, NEW m \in [Page -> PCBs], pcb' = m,
           \A p \in Procs : m[p] = pcb[p],
           \A p \in Page : m[p].state = pcb[p].state,
           UNCHANGED <<current_process, mode, process_table, ready_queue>>,
           page_table' \in [Page -> Tags], last_page_index' \in Page,
           \A p \in Page : page_table[p] = HEAD => page_table'[p] = HEAD,
           next_pid' \in 1 .. MAX_PID + 1
    PROVE  StepKeeps
<1>. USE DEF SchedulerInv
<1>0. Procs' = Procs /\ Queued' = Queued
    BY DEF Procs, Queued
<1>1. /\ Procs' = Procs /\ Queued' = Queued /\ Procs \subseteq Page
      /\ Queued = Elems(ready_queue) /\ Queued \subseteq Procs
    BY <1>0, ProcsArePages DEF QueueDiscipline
<1>2. TypeOK'
    BY DEF TypeOK, Tags
<1>3. QueueDiscipline'
    BY <1>1 DEF QueueDiscipline
<1>4. Listed' /\ CurrentListed' /\ UnlistedQuiet'
    BY <1>1 DEF Listed, CurrentListed, UnlistedQuiet
<1>5. QueueSorted'
    <2>1. ASSUME NEW i \in 1 .. Len(ready_queue), NEW j \in 1 .. Len(ready_queue),
                 i <= j
          PROVE  priorityOf(m)[ready_queue[i]] <= priorityOf(m)[ready_queue[j]]
        <3>1. ready_queue[i] \in Procs /\ ready_queue[j] \in Procs
            BY <1>1 DEF Elems
        <3>2. /\ priorityOf(m)[ready_queue[i]] = priorityOf(pcb)[ready_queue[i]]
              /\ priorityOf(m)[ready_queue[j]] = priorityOf(pcb)[ready_queue[j]]
            BY <1>1, <3>1 DEF priorityOf
        <3>. QED  BY <2>1, <3>2 DEF QueueSorted, Sorted
    <2>. QED  BY <2>1 DEF QueueSorted, Sorted
<1>6. DispatchStep /\ OrderStep
    BY DEF DispatchStep, OrderStep, OrderKept
<1>. QED  BY <1>2, <1>3, <1>4, <1>5, <1>6 DEF StepKeeps

PageOrNull == Page \cup {NULL}

(* The PCBs m differ from pcb at page p only.                              *)
OnlyAt(m, p) == \A r \in Page \ {p} : m[r] = pcb[r]

(* The PCBs create_process writes in page p.                               *)
CreatedPCBs(p, priority, user, kernel) ==
    [pcb EXCEPT ![p].pid = next_pid,
                ![p].state = STATE_READY,
                ![p].priority = priority,
                ![p].user_stack_base = user,
                ![p].kernel_stack_base = kernel,
                ![p].stack = user,
                ![p].resume = "entry"]

(* The PCB create_process fills in.                                        *)
LEMMA CreatedFacts ==
    ASSUME pcb \in [Page -> PCBs], NEW p \in Page, NEW priority \in Int,
           next_pid \in 0 .. MAX_PID,
           NEW user \in PageOrNull, NEW kernel \in PageOrNull,
           NEW m, m = CreatedPCBs(p, priority, user, kernel)
    PROVE  /\ m \in [Page -> PCBs]
           /\ m[p].pid = next_pid /\ m[p].state = STATE_READY
           /\ m[p].user_stack_base = user /\ m[p].stack = user
           /\ m[p].kernel_stack_base = kernel /\ m[p].resume = "entry"
           /\ m[p].parent = pcb[p].parent
           /\ OnlyAt(m, p)
<1>1. pcb[p] \in PCBs
    OBVIOUS
<1>2. m[p] = [pcb[p] EXCEPT !.pid = next_pid, !.state = STATE_READY,
                  !.priority = priority, !.user_stack_base = user,
                  !.kernel_stack_base = kernel, !.stack = user,
                  !.resume = "entry"]
    BY DEF CreatedPCBs
<1>3. m[p] \in PCBs
    BY <1>1, <1>2 DEF PCBs, States, Resumes, PageOrNull
<1>4. /\ m[p].pid = next_pid /\ m[p].state = STATE_READY
      /\ m[p].user_stack_base = user /\ m[p].stack = user
      /\ m[p].kernel_stack_base = kernel /\ m[p].resume = "entry"
      /\ m[p].parent = pcb[p].parent
    BY <1>1, <1>2 DEF PCBs
<1>5. \A r \in Page \ {p} : m[r] = pcb[r]
    BY DEF CreatedPCBs
<1>6. m \in [Page -> PCBs]
    BY <1>3, <1>5 DEF CreatedPCBs
<1>. QED  BY <1>4, <1>5, <1>6 DEF OnlyAt

(* create_process, its failures included.                                  *)
LEMMA CreateProcessKeeps ==
    ASSUME SchedulerInv, NEW priority \in Priorities, CreateProcess(priority)
    PROVE  StepKeeps
<1>. DEFINE h1 == Kmalloc(heap, PCB_SIZE)
            h2 == Kmalloc(h1, STACK_SIZE)
            h3 == allocate_kernel_stack(h2)
            m == CreatedPCBs(h1.addr, priority, h2.addr, h3.addr)
<1>1. /\ next_pid <= MAX_PID /\ next_pid' = next_pid + 1
      /\ UNCHANGED <<current_process, mode>>
      /\ \/ /\ h1.addr = NULL
            /\ UNCHANGED <<page_table, last_page_index, pcb, process_table,
                           ready_queue>>
         \/ /\ h1.addr # NULL /\ h2.addr = NULL
            /\ SetHeap(h1)
            /\ UNCHANGED <<pcb, process_table, ready_queue>>
         \/ /\ h1.addr # NULL /\ h2.addr # NULL
            /\ SetHeap(h3)
            /\ pcb' = m
            /\ process_table' = <<h1.addr>> \o process_table
            /\ ready_queue' = enqueue_process(ready_queue, m, h1.addr)
    BY DEF CreateProcess, CreatedPCBs
<1>2. /\ h1.page_table \in [Page -> Tags] /\ h1.last_page_index \in Page
      /\ h3.page_table \in [Page -> Tags] /\ h3.last_page_index \in Page
      /\ h1.addr \in Page \cup {NULL} /\ h2.addr \in Page \cup {NULL}
      /\ h3.addr \in Page \cup {NULL}
      /\ h1.addr # NULL => /\ page_table[h1.addr] = FREE
                           /\ h3.page_table[h1.addr] = HEAD
      /\ \A p \in Page : page_table[p] = HEAD =>
            h1.page_table[p] = HEAD /\ h3.page_table[p] = HEAD
    BY HeapFacts DEF SchedulerInv
<1>3. /\ pcb \in [Page -> PCBs] /\ priority \in Int /\ Procs \subseteq Page
      /\ page_table \in [Page -> Tags] /\ last_page_index \in Page
      /\ next_pid \in 1 .. MAX_PID + 1
    BY ProcsArePages, ProcessAssumption DEF SchedulerInv, TypeOK, Tags
<1>4. next_pid \in 0 .. MAX_PID /\ next_pid' \in 1 .. MAX_PID + 1
    BY <1>1, <1>3, ProcessAssumption
<1>. HIDE DEF h1, h2, h3
<1>5. CASE h1.addr = NULL /\ UNCHANGED <<page_table, last_page_index, pcb,
                                         process_table, ready_queue>>
    BY <1>1, <1>3, <1>4, <1>5, NoProcessKeeps
<1>6. CASE /\ h1.addr # NULL /\ h2.addr = NULL
           /\ SetHeap(h1)
           /\ UNCHANGED <<pcb, process_table, ready_queue>>
    BY <1>1, <1>2, <1>3, <1>4, <1>6, NoProcessKeeps DEF SetHeap
<1>7. CASE /\ h1.addr # NULL /\ h2.addr # NULL
           /\ SetHeap(h3)
           /\ pcb' = m
           /\ process_table' = <<h1.addr>> \o process_table
           /\ ready_queue' = enqueue_process(ready_queue, m, h1.addr)
    <2>. HIDE DEF m
    <2>1. h1.addr \in Page
        BY <1>2, <1>7
    <2>2. /\ m \in [Page -> PCBs] /\ m[h1.addr].state = STATE_READY
          /\ \A r \in Page \ {h1.addr} : m[r] = pcb[r]
        <3>. DEFINE p == h1.addr
                    user == h2.addr
                    kernel == h3.addr
        <3>1. /\ p \in Page /\ user \in PageOrNull /\ kernel \in PageOrNull
              /\ m = CreatedPCBs(p, priority, user, kernel)
              /\ pcb \in [Page -> PCBs] /\ priority \in Int
              /\ next_pid \in 0 .. MAX_PID
            BY <1>2, <1>3, <1>4, <2>1 DEF m, PageOrNull
        <3>. HIDE DEF p, user, kernel
        <3>2. m \in [Page -> PCBs] /\ m[p].state = STATE_READY /\ OnlyAt(m, p)
            BY ONLY <3>1, CreatedFacts
        <3>. QED  BY <3>2 DEF p, OnlyAt
    <2>3. /\ page_table' \in [Page -> Tags] /\ last_page_index' \in Page
          /\ page_table'[h1.addr] = HEAD
          /\ \A p \in Page : page_table[p] = HEAD => page_table'[p] = HEAD
          /\ page_table[h1.addr] = FREE
        BY <1>2, <1>7 DEF SetHeap
    <2>. QED  BY <1>1, <1>7, <2>1, <2>2, <2>3, NewProcessKeeps
<1>. QED  BY <1>1, <1>5, <1>6, <1>7

(* The PCBs fork_syscall writes in page p before and after it has the      *)
(* child's stack.                                                          *)
HalfForkedPCBs(p) ==
    [pcb EXCEPT ![p].pid = next_pid,
                ![p].parent = current_process,
                ![p].priority = pcb[current_process].priority]

ForkFrame ==
    IF pcb[current_process].user_stack_base = pcb[current_process].stack
    THEN "fork" ELSE "wild"

ForkedPCBs(p, user, kernel) ==
    [HalfForkedPCBs(p) EXCEPT ![p].state = STATE_READY,
                              ![p].is_new_child = TRUE,
                              ![p].kernel_stack_base = kernel,
                              ![p].stack = user,
                              ![p].resume = ForkFrame]

(* The PCB fork_syscall leaves when a stack is not found.                  *)
LEMMA HalfForkedFacts ==
    ASSUME pcb \in [Page -> PCBs], NEW p \in Page, current_process \in Page,
           next_pid \in 0 .. MAX_PID, NEW m, m = HalfForkedPCBs(p)
    PROVE  /\ m \in [Page -> PCBs]
           /\ m[p].pid = next_pid /\ m[p].parent = current_process
           /\ m[p].state = pcb[p].state
           /\ m[p].user_stack_base = pcb[p].user_stack_base
           /\ m[p].stack = pcb[p].stack
           /\ m[p].kernel_stack_base = pcb[p].kernel_stack_base
           /\ OnlyAt(m, p)
<1>1. pcb[p] \in PCBs /\ pcb[current_process].priority \in Int
    BY PCBFields
<1>2. m[p] = [pcb[p] EXCEPT !.pid = next_pid, !.parent = current_process,
                            !.priority = pcb[current_process].priority]
    BY DEF HalfForkedPCBs
<1>3. m[p] \in PCBs
    BY <1>1, <1>2 DEF PCBs
<1>4. /\ m[p].pid = next_pid /\ m[p].parent = current_process
      /\ m[p].state = pcb[p].state
      /\ m[p].user_stack_base = pcb[p].user_stack_base
      /\ m[p].stack = pcb[p].stack
      /\ m[p].kernel_stack_base = pcb[p].kernel_stack_base
    BY <1>1, <1>2 DEF PCBs
<1>5. \A r \in Page \ {p} : m[r] = pcb[r]
    BY DEF HalfForkedPCBs
<1>6. m \in [Page -> PCBs]
    BY <1>3, <1>5 DEF HalfForkedPCBs
<1>. QED  BY <1>4, <1>5, <1>6 DEF OnlyAt

(* The PCB fork_syscall fills in.                                          *)
LEMMA ForkedFacts ==
    ASSUME pcb \in [Page -> PCBs], NEW p \in Page, current_process \in Page,
           next_pid \in 0 .. MAX_PID,
           NEW user \in PageOrNull, NEW kernel \in PageOrNull,
           NEW m, m = ForkedPCBs(p, user, kernel)
    PROVE  /\ m \in [Page -> PCBs]
           /\ m[p].pid = next_pid /\ m[p].parent = current_process
           /\ m[p].state = STATE_READY
           /\ m[p].user_stack_base = pcb[p].user_stack_base
           /\ m[p].stack = user /\ m[p].kernel_stack_base = kernel
           /\ m[p].resume = ForkFrame
           /\ OnlyAt(m, p)
<1>. DEFINE h == HalfForkedPCBs(p)
<1>1. /\ h \in [Page -> PCBs] /\ h[p] \in PCBs
      /\ h[p].pid = next_pid /\ h[p].parent = current_process
      /\ h[p].user_stack_base = pcb[p].user_stack_base
      /\ \A r \in Page \ {p} : h[r] = pcb[r]
    BY HalfForkedFacts DEF OnlyAt
<1>2. m = [h EXCEPT ![p].state = STATE_READY, ![p].is_new_child = TRUE,
                    ![p].kernel_stack_base = kernel, ![p].stack = user,
                    ![p].resume = ForkFrame]
    BY DEF ForkedPCBs
<1>. HIDE DEF h
<1>3. m[p] = [h[p] EXCEPT !.state = STATE_READY, !.is_new_child = TRUE,
                  !.kernel_stack_base = kernel, !.stack = user,
                  !.resume = ForkFrame]
    BY <1>1, <1>2
<1>4. ForkFrame \in Resumes
    BY DEF ForkFrame, Resumes
<1>5. m[p] \in PCBs
    BY <1>1, <1>3, <1>4 DEF PCBs, States, PageOrNull
<1>6. /\ m[p].pid = next_pid /\ m[p].parent = current_process
      /\ m[p].state = STATE_READY
      /\ m[p].user_stack_base = pcb[p].user_stack_base
      /\ m[p].stack = user /\ m[p].kernel_stack_base = kernel
      /\ m[p].resume = ForkFrame
    BY <1>1, <1>3 DEF PCBs
<1>7. \A r \in Page \ {p} : m[r] = pcb[r]
    BY <1>1, <1>2
<1>8. m \in [Page -> PCBs]
    BY <1>1, <1>2, <1>5, <1>7
<1>. QED  BY <1>6, <1>7, <1>8 DEF OnlyAt

(* fork_syscall, its failures included.                                    *)
LEMMA ForkKeeps ==
    ASSUME SchedulerInv, Fork
    PROVE  StepKeeps
<1>. DEFINE h1 == Kmalloc(heap, PCB_SIZE)
            h2 == Kmalloc(h1, STACK_SIZE)
            h3 == allocate_kernel_stack(h2)
            p == h1.addr
            user == h2.addr
            kernel == h3.addr
            m1 == HalfForkedPCBs(p)
            m2 == ForkedPCBs(p, user, kernel)
<1>1. /\ mode = "user" /\ next_pid <= MAX_PID
      /\ UNCHANGED <<current_process, mode>>
      /\ \/ /\ p = NULL
            /\ UNCHANGED <<page_table, last_page_index, pcb, process_table,
                           ready_queue, next_pid>>
         \/ /\ p # NULL /\ user = NULL
            /\ SetHeap(h1)
            /\ pcb' = m1
            /\ next_pid' = next_pid + 1
            /\ UNCHANGED <<process_table, ready_queue>>
         \/ /\ p # NULL /\ user # NULL
            /\ SetHeap(h3)
            /\ pcb' = m2
            /\ next_pid' = next_pid + 1
            /\ process_table' = <<p>> \o process_table
            /\ ready_queue' = enqueue_process(ready_queue, m2, p)
    BY DEF Fork, MayFork, ForkedPCBs, HalfForkedPCBs, ForkFrame
<1>2. /\ h1.page_table \in [Page -> Tags] /\ h1.last_page_index \in Page
      /\ h3.page_table \in [Page -> Tags] /\ h3.last_page_index \in Page
      /\ p \in Page \cup {NULL} /\ user \in Page \cup {NULL}
      /\ kernel \in Page \cup {NULL}
      /\ p # NULL => page_table[p] = FREE /\ h3.page_table[p] = HEAD
      /\ \A r \in Page : page_table[r] = HEAD =>
            h1.page_table[r] = HEAD /\ h3.page_table[r] = HEAD
    BY HeapFacts DEF SchedulerInv
<1>3. /\ pcb \in [Page -> PCBs] /\ Procs \subseteq Page
      /\ page_table \in [Page -> Tags] /\ last_page_index \in Page
      /\ next_pid \in 1 .. MAX_PID + 1 /\ current_process \in Page
    BY <1>1, ProcsArePages, RunningProcess DEF SchedulerInv, TypeOK, Tags
<1>4. next_pid \in 0 .. MAX_PID /\ next_pid + 1 \in 1 .. MAX_PID + 1
    BY <1>1, <1>3, ProcessAssumption
<1>. HIDE DEF h1, h2, h3, p, user, kernel
<1>5. CASE UNCHANGED <<page_table, last_page_index, pcb, process_table,
                       ready_queue, next_pid>>
    BY <1>1, <1>3, <1>4, <1>5, NoProcessKeeps
<1>6. CASE /\ p # NULL
           /\ SetHeap(h1)
           /\ pcb' = m1
           /\ next_pid' = next_pid + 1
           /\ UNCHANGED <<process_table, ready_queue>>
    <2>. HIDE DEF m1
    <2>1. p \in Page /\ page_table[p] = FREE
        BY <1>2, <1>6
    <2>2. p \notin Procs
        BY <2>1, FreeUnlisted
    <2>3. /\ m1 \in [Page -> PCBs] /\ m1[p].state = pcb[p].state
          /\ \A r \in Page \ {p} : m1[r] = pcb[r]
        BY <1>3, <1>4, <2>1, HalfForkedFacts DEF m1, OnlyAt
    <2>4. /\ \A r \in Procs : m1[r] = pcb[r]
          /\ \A r \in Page : m1[r].state = pcb[r].state
        BY <1>3, <2>2, <2>3
    <2>5. /\ page_table' \in [Page -> Tags] /\ last_page_index' \in Page
          /\ \A r \in Page : page_table[r] = HEAD => page_table'[r] = HEAD
        BY <1>2, <1>6 DEF SetHeap
    <2>6. next_pid' \in 1 .. MAX_PID + 1
        BY <1>4, <1>6
    <2>. QED  BY <1>1, <1>6, <2>3, <2>4, <2>5, <2>6, NoProcessKeeps
<1>7. CASE /\ p # NULL
           /\ SetHeap(h3)
           /\ pcb' = m2
           /\ next_pid' = next_pid + 1
           /\ process_table' = <<p>> \o process_table
           /\ ready_queue' = enqueue_process(ready_queue, m2, p)
    <2>. HIDE DEF m2
    <2>1. p \in Page /\ page_table[p] = FREE
        BY <1>2, <1>7
    <2>2. /\ m2 \in [Page -> PCBs] /\ m2[p].state = STATE_READY
          /\ \A r \in Page \ {p} : m2[r] = pcb[r]
        <3>1. user \in PageOrNull /\ kernel \in PageOrNull
            BY <1>2 DEF PageOrNull
        <3>2. m2 \in [Page -> PCBs] /\ m2[p].state = STATE_READY /\ OnlyAt(m2, p)
            BY <1>3, <1>4, <2>1, <3>1, ForkedFacts DEF m2
        <3>. QED  BY <3>2 DEF OnlyAt
    <2>3. /\ page_table' \in [Page -> Tags] /\ last_page_index' \in Page
          /\ page_table'[p] = HEAD
          /\ \A r \in Page : page_table[r] = HEAD => page_table'[r] = HEAD
        BY <1>2, <1>7 DEF SetHeap
    <2>. QED  BY <1>1, <1>7, <2>1, <2>2, <2>3, NewProcessKeeps
<1>. QED  BY <1>1, <1>5, <1>6, <1>7

-----------------------------------------------------------------------------
(* The theorems.                                                           *)

(* With no process, table and queue are empty.                             *)
LEMMA InitScheduler == Init => SchedulerInv
<1>1. SUFFICES ASSUME Init
               PROVE  SchedulerInv
    OBVIOUS
<1>2. ZeroPCB \in PCBs
    BY ProcessAssumption DEF ZeroPCB, PCBs, States, Resumes
<1>3. pcb \in [Page -> PCBs] /\ \A p \in Page : pcb[p].state = STATE_READY
    BY <1>1, <1>2 DEF Init, ZeroPCB
<1>4. /\ process_table = <<>> /\ ready_queue = <<>> /\ current_process = NULL
      /\ mode = "cli" /\ next_pid = 1
    BY <1>1 DEF Init
<1>5. Procs = {} /\ Queued = {} /\ Len(ready_queue) = 0 /\ Len(process_table) = 0
    BY <1>4 DEF Procs, Queued
<1>6. page_table \in [Page -> {FREE, HEAD, TAIL}] /\ last_page_index \in Page
    BY <1>1, HeapAssumption DEF Init, InitPageTable, InitLastPageIndex, Page
<1>7. TypeOK
    BY <1>3, <1>4, <1>6, ProcessAssumption DEF TypeOK, Modes, CLI
<1>8. QueueDiscipline /\ Listed /\ QueueSorted
    BY <1>5 DEF QueueDiscipline, Listed, QueueSorted, Distinct, Sorted
<1>9. CurrentListed /\ UnlistedQuiet
    BY <1>3, <1>4, <1>5 DEF CurrentListed, UnlistedQuiet, Idle, CLI
<1>. QED  BY <1>7, <1>8, <1>9 DEF SchedulerInv

(* Every step keeps the invariant and the order of service.                *)
LEMMA NextScheduler ==
    ASSUME SchedulerInv, [Next]_vars
    PROVE  StepKeeps
<1>1. ASSUME NEW priority \in Priorities, CreateProcess(priority)
      PROVE  StepKeeps
    BY <1>1, CreateProcessKeeps
<1>2. CASE Fork
    BY <1>2, ForkKeeps
<1>3. CASE WaitReap
    BY <1>3, WaitReapKeeps
<1>4. CASE WaitReturn
    BY <1>4, WaitReturnKeeps
<1>5. CASE Yield
    BY <1>5, YieldKeeps
<1>6. CASE WaitBlock
    BY <1>6, WaitBlockKeeps
<1>7. CASE Leave
    BY <1>7, LeaveKeeps
<1>8. ASSUME NEW status \in Statuses, Exit(status)
      PROVE  StepKeeps
    BY <1>8, ExitKeeps
<1>9. CASE ScheduleCall \/ CliStart
    BY <1>9, PlainScheduleKeeps
<1>10. CASE CliExit
    BY <1>10, CliExitKeeps
<1>11. CASE UNCHANGED vars
    BY <1>11, StutterKeeps
<1>. QED
    BY <1>1, <1>2, <1>3, <1>4, <1>5, <1>6, <1>7, <1>8, <1>9, <1>10, <1>11
       DEF Next, GiveUp, Stop

(* The lists of process.c are what the scheduler takes them for, always.   *)
THEOREM SchedulerCorrect == Spec => []SchedulerInv
<1>1. SchedulerInv /\ [Next]_vars => SchedulerInv'
    BY NextScheduler DEF StepKeeps
<1>. QED  BY <1>1, InitScheduler, PTL DEF Spec

(* Lists, PCBs and cursor have the types the source declares.              *)
THEOREM ProcessTypes == Spec => []TypeOK
<1>1. SchedulerInv => TypeOK
    BY DEF SchedulerInv
<1>. QED  BY <1>1, SchedulerCorrect, PTL

(* Every ready process is in the ready queue once, nothing else is, and    *)
(* only the process with the CPU is running.                               *)
THEOREM QueueHoldsReady == Spec => []QueueDiscipline
<1>1. SchedulerInv => QueueDiscipline
    BY DEF SchedulerInv
<1>. QED  BY <1>1, SchedulerCorrect, PTL

(* schedule() dispatches a process of least priority number.               *)
THEOREM LeastDispatched == Spec => DispatchesFirst
<1>1. SchedulerInv /\ [Next]_vars => [DispatchStep]_vars
    BY NextScheduler DEF StepKeeps
<1>2. Spec => [][DispatchStep]_vars
    BY <1>1, SchedulerCorrect, PTL DEF Spec
<1>. QED  BY <1>2 DEF DispatchesFirst, DispatchStep

(* Processes of equal priority are served in the order they came in.       *)
THEOREM ServedInOrder == Spec => NoOvertaking
<1>. DEFINE Step ==
        \A a \in Queued \cap Queued', b \in Queued' :
            Ahead(ready_queue', b, a) =>
               \/ Ahead(ready_queue, b, a)
               \/ b \notin Queued /\ pcb'[b].priority < pcb'[a].priority
<1>1. OrderStep => Step
    <2>1. Queued = Elems(ready_queue) /\ Queued' = Elems(ready_queue')
        BY DEF Queued, Elems
    <2>. QED  BY <2>1 DEF OrderStep, OrderKept
<1>2. SchedulerInv /\ [Next]_vars => [Step]_vars
    BY <1>1, NextScheduler DEF StepKeeps
<1>. HIDE DEF Step
<1>3. Spec => [][Step]_vars
    BY <1>2, SchedulerCorrect, PTL DEF Spec
<1>. QED  BY <1>3 DEF NoOvertaking, Step

-----------------------------------------------------------------------------
(***************************************************************************)
(* Proofs that wait_syscall and exit_syscall find each other, for every     *)
(* heap, priority and workload: no process sleeps beside a child that has   *)
(* exited, a woken one finds the child that woke it, and a status is        *)
(* delivered once, as it was passed to exit_syscall.                        *)
(***************************************************************************)

-----------------------------------------------------------------------------
(* The shapes of a step.                                                   *)

(* The fields that say who a process is and where its stacks are.          *)
SameLinks(r, s) ==
    /\ r.pid = s.pid /\ r.parent = s.parent
    /\ r.user_stack_base = s.user_stack_base
    /\ r.kernel_stack_base = s.kernel_stack_base /\ r.stack = s.stack

(* The steps that end in schedule(), but for exit_syscall.                 *)
Switch == Yield \/ WaitBlock \/ Leave \/ ScheduleCall \/ CliStart

(* What a caller other than exit_syscall may change before schedule().     *)
HandsOver(m) ==
    /\ m \in [Page -> PCBs]
    /\ Schedulable(m, ready_queue)
    /\ \A p \in Page : /\ SameLinks(m[p], pcb[p])
                       /\ m[p].exit_status = pcb[p].exit_status
                       /\ p # current_process => m[p] = pcb[p]

(* What schedule() itself may change.                                      *)
LEMMA ScheduleLinks ==
    ASSUME SchedulerInv, NEW m, NEW q, Schedulable(m, q), schedule(m, q)
    PROVE  /\ \A p \in Page : /\ SameLinks(pcb'[p], m[p])
                              /\ pcb'[p].exit_status = m[p].exit_status
                              /\ pcb'[p].state = STATE_ZOMBIE <=>
                                    m[p].state = STATE_ZOMBIE
                              /\ pcb'[p].state = STATE_BLOCKED <=>
                                    m[p].state = STATE_BLOCKED
           /\ \A p \in Page \ Procs : pcb'[p] = m[p]
           /\ \A p \in Procs : /\ pcb'[p].state = STATE_READY =>
                                   /\ pcb'[p].resume = m[p].resume
                                   /\ \/ m[p].state = STATE_READY
                                      \/ m[p].state = STATE_RUNNING
                               /\ pcb'[p].state = STATE_RUNNING =>
                                   pcb'[p].resume = "stale"
           /\ mode' \in {"wait", "crashed"} =>
                 /\ current_process' \in Procs
                 /\ mode' = ModeOn(m, current_process')
                 /\ m[current_process'].state \in {STATE_READY, STATE_RUNNING}
<1>1. /\ m \in [Page -> PCBs] /\ q \in Seq(Page)
      /\ current_process \in Procs \cup {NULL} /\ TypeOK
      /\ current_process \in Page \cup {NULL} /\ Procs \subseteq Page
      /\ Elems(q) = {p \in Procs : m[p].state = STATE_READY}
      /\ \A p \in Procs : m[p].state = STATE_RUNNING => p = current_process
      /\ \A p \in Page \ Procs : m[p].state \in {STATE_READY, STATE_ZOMBIE}
    BY ProcsArePages DEF Schedulable, SchedulerInv
<1>2. CASE Idles(m, q)
    <2>1. pcb' = m /\ mode' = "cli_nested" /\ ~Requeues(m)
        BY <1>2 DEF Idles
    <2>2. \A p \in Procs : m[p].state # STATE_RUNNING
        BY <1>1, <2>1, NullIsNoPage DEF Requeues
    <2>. QED  BY <2>1, <2>2 DEF SameLinks
<1>3. ASSUME NEW n \in Page, Dispatches(m, RequeuedQueue(m, q), n)
      PROVE  /\ \A p \in Page : /\ SameLinks(pcb'[p], m[p])
                                /\ pcb'[p].exit_status = m[p].exit_status
                                /\ pcb'[p].state = STATE_ZOMBIE <=>
                                      m[p].state = STATE_ZOMBIE
                                /\ pcb'[p].state = STATE_BLOCKED <=>
                                      m[p].state = STATE_BLOCKED
             /\ \A p \in Page \ Procs : pcb'[p] = m[p]
             /\ \A p \in Procs : /\ pcb'[p].state = STATE_READY =>
                                     /\ pcb'[p].resume = m[p].resume
                                     /\ \/ m[p].state = STATE_READY
                                        \/ m[p].state = STATE_RUNNING
                                 /\ pcb'[p].state = STATE_RUNNING =>
                                     pcb'[p].resume = "stale"
             /\ current_process' \in Procs
             /\ mode' = ModeOn(m, current_process')
             /\ m[current_process'].state \in {STATE_READY, STATE_RUNNING}
    <2>1. /\ current_process' = n /\ mode' = ModeOn(m, n)
          /\ pcb'[n].state = STATE_RUNNING /\ pcb'[n].resume = "stale"
          /\ \A p \in Page \ {n} :
                /\ pcb'[p].state = IF Requeues(m) /\ p = current_process
                                   THEN STATE_READY ELSE m[p].state
                /\ pcb'[p].resume = m[p].resume
          /\ \A p \in Page : SameRest(pcb'[p], m[p])
          /\ \A p \in Page \ {n, current_process} : pcb'[p] = m[p]
          /\ RequeuedQueue(m, q) # <<>> /\ n = Head(RequeuedQueue(m, q))
        BY <1>3 DEF Dispatches
    <2>2. n \in Procs
        BY <1>1, <1>3, DispatchLists
    <2>3. n \in Elems(RequeuedQueue(m, q))
        BY <1>1, <2>1, RequeuedQueueFacts, DequeueFacts
    <2>4. n \in Elems(q) \/ (Requeues(m) /\ n = current_process)
        BY <1>1, <2>3, RequeuedQueueFacts
    <2>5. m[n].state \in {STATE_READY, STATE_RUNNING}
        BY <1>1, <2>4 DEF Requeues
    <2>6. ASSUME NEW p \in Page
          PROVE  /\ SameLinks(pcb'[p], m[p])
                 /\ pcb'[p].exit_status = m[p].exit_status
        BY <2>1 DEF SameRest, SameLinks
    <2>7. ASSUME NEW p \in Page
          PROVE  /\ pcb'[p].state = STATE_ZOMBIE <=> m[p].state = STATE_ZOMBIE
                 /\ pcb'[p].state = STATE_BLOCKED <=> m[p].state = STATE_BLOCKED
        BY <2>1, <2>5, StatesDiffer DEF Requeues
    <2>8. ASSUME NEW p \in Page \ Procs
          PROVE  pcb'[p] = m[p]
        <3>1. p # n /\ p # current_process
            BY <1>1, <2>2, NullIsNoPage
        <3>. QED  BY <2>1, <3>1
    <2>9. ASSUME NEW p \in Procs
          PROVE  /\ pcb'[p].state = STATE_READY =>
                     /\ pcb'[p].resume = m[p].resume
                     /\ \/ m[p].state = STATE_READY
                        \/ m[p].state = STATE_RUNNING
                 /\ pcb'[p].state = STATE_RUNNING => pcb'[p].resume = "stale"
        <3>1. p \in Page /\ p # NULL
            BY <1>1, NullIsNoPage
        <3>2. CASE p = n
            BY <2>1, <3>2, StatesDiffer
        <3>3. CASE p # n
            <4>1. /\ pcb'[p].state = IF Requeues(m) /\ p = current_process
                                     THEN STATE_READY ELSE m[p].state
                  /\ pcb'[p].resume = m[p].resume
                BY <2>1, <3>1, <3>3
            <4>2. m[p].state = STATE_RUNNING => Requeues(m) /\ p = current_process
                BY <1>1, <3>1 DEF Requeues
            <4>3. Requeues(m) /\ p = current_process => m[p].state = STATE_RUNNING
                BY DEF Requeues
            <4>. QED  BY <4>1, <4>2, <4>3, StatesDiffer
        <3>. QED  BY <3>2, <3>3
    <2>. QED  BY <2>1, <2>2, <2>5, <2>6, <2>7, <2>8, <2>9
<1>. QED  BY <1>1, <1>2, <1>3, ScheduleFacts

(* The ways a caller other than exit_syscall leaves the CPU.               *)
Handed(m) ==
    \/ m = pcb /\ (mode \in CLI \/ "schedule" \in Calls)
    \/ /\ mode = "user"
       /\ \/ /\ m[current_process].state = pcb[current_process].state
             /\ m[current_process].resume = "yield"
          \/ m[current_process].state = STATE_EXIT
          \/ /\ m[current_process].state = STATE_BLOCKED
             /\ m[current_process].resume = "wait"
             /\ ZombieChildren(current_process) = {}

(* A process that gives up the CPU changes its own PCB only.               *)
LEMMA SwitchHands ==
    ASSUME SchedulerInv, Switch
    PROVE  \E m : /\ HandsOver(m) /\ Handed(m) /\ schedule(m, ready_queue)
                  /\ UNCHANGED <<page_table, last_page_index, process_table,
                                 next_pid, parentOf, exitStatus, delivered>>
<1>. DEFINE c == current_process
            Rest == UNCHANGED <<page_table, last_page_index, process_table,
                                next_pid, parentOf, exitStatus, delivered>>
<1>0. pcb \in [Page -> PCBs]
    BY DEF SchedulerInv, TypeOK
<1>1. CASE ScheduleCall \/ CliStart
    <2>1. schedule(pcb, ready_queue) /\ Rest
          /\ (mode \in CLI \/ "schedule" \in Calls)
        BY <1>1 DEF ScheduleCall, CliStart
    <2>2. LeavesCPU(pcb)
        BY DEF LeavesCPU
    <2>3. HandsOver(pcb)
        BY <1>0, <2>2, LeavesSchedulable DEF HandsOver, SameLinks
    <2>. QED  BY <2>1, <2>3 DEF Handed
<1>2. CASE Yield
    <2>. DEFINE m == YieldedPCBs(c)
    <2>1. schedule(m, ready_queue) /\ Rest /\ mode = "user"
        BY <1>2 DEF Yield, YieldedPCBs
    <2>2. c \in Page /\ mode \notin Idle
        BY <2>1, RunningProcess
    <2>. HIDE DEF m, c
    <2>3. /\ m \in [Page -> PCBs] /\ m[c].state = pcb[c].state
          /\ m[c].resume = "yield" /\ SameRest(m[c], pcb[c])
          /\ \A p \in Page \ {c} : m[p] = pcb[p]
        BY <1>0, <2>2, YieldedFacts DEF m
    <2>4. LeavesCPU(m)
        BY <2>2, <2>3 DEF LeavesCPU, SameRest, c
    <2>5. HandsOver(m)
        BY <2>2, <2>3, <2>4, LeavesSchedulable DEF HandsOver, SameLinks, SameRest, c
    <2>6. Handed(m)
        BY <2>1, <2>3 DEF Handed, c
    <2>. QED  BY <2>1, <2>5, <2>6
<1>3. ASSUME NEW state \in States, NEW resume \in Resumes, state # STATE_READY,
             mode = "user", schedule(Suspended(c, state, resume), ready_queue),
             \/ state = STATE_EXIT
             \/ state = STATE_BLOCKED /\ resume = "wait" /\ ZombieChildren(c) = {}
      PROVE  LET m == Suspended(c, state, resume)
             IN  HandsOver(m) /\ Handed(m)
    <2>. DEFINE m == Suspended(c, state, resume)
    <2>1. c \in Page /\ mode \notin Idle
        BY <1>3, RunningProcess
    <2>. HIDE DEF m, c
    <2>2. /\ m \in [Page -> PCBs] /\ m[c].state = state /\ m[c].resume = resume
          /\ SameRest(m[c], pcb[c]) /\ \A p \in Page \ {c} : m[p] = pcb[p]
        BY <1>0, <1>3, <2>1, SuspendedFacts DEF m
    <2>3. LeavesCPU(m)
        BY <1>3, <2>1, <2>2 DEF LeavesCPU, SameRest, c
    <2>4. HandsOver(m)
        BY <2>1, <2>2, <2>3, LeavesSchedulable DEF HandsOver, SameLinks, SameRest, c
    <2>5. Handed(m)
        BY <1>3, <2>2 DEF Handed, c
    <2>. QED  BY <2>4, <2>5 DEF m
<1>4. CASE WaitBlock
    <2>. DEFINE m == Suspended(c, STATE_BLOCKED, "wait")
    <2>1. schedule(m, ready_queue) /\ Rest /\ mode = "user"
          /\ ZombieChildren(c) = {}
        BY <1>4 DEF WaitBlock, Suspended
    <2>2. STATE_BLOCKED \in States /\ "wait" \in Resumes
          /\ STATE_BLOCKED # STATE_READY
        BY StatesDiffer DEF States, Resumes
    <2>3. HandsOver(m) /\ Handed(m)
        BY <1>3, <2>1, <2>2
    <2>. QED  BY <2>1, <2>3
<1>5. CASE Leave
    <2>. DEFINE m == Suspended(c, STATE_EXIT, "yield")
    <2>1. schedule(m, ready_queue) /\ Rest /\ mode = "user"
        BY <1>5 DEF Leave, Suspended
    <2>2. STATE_EXIT \in States /\ "yield" \in Resumes /\ STATE_EXIT # STATE_READY
        BY StatesDiffer DEF States, Resumes
    <2>3. HandsOver(m) /\ Handed(m)
        BY <1>3, <2>1, <2>2
    <2>. QED  BY <2>1, <2>3
<1>. QED  BY <1>1, <1>2, <1>4, <1>5 DEF Switch

(* What exit_syscall hands schedule(): the caller a zombie with its        *)
(* status, and its parent awake.                                           *)
ExitHands(m, q, status) ==
    /\ Schedulable(m, q) /\ schedule(m, q)
    /\ m \in [Page -> PCBs]
    /\ \A p \in Page : SameLinks(m[p], pcb[p]) /\ m[p].resume = pcb[p].resume
    /\ m[current_process].state = STATE_ZOMBIE
    /\ m[current_process].exit_status = status
    /\ \A p \in Page \ {current_process} :
          m[p].exit_status = pcb[p].exit_status
    /\ \A p \in Page \ {current_process} :
          IF p = pcb[current_process].parent /\ pcb[p].state = STATE_BLOCKED
          THEN m[p].state = STATE_READY
          ELSE m[p] = pcb[p]

(* exit_syscall changes the PCBs of the caller and, if it sleeps, its      *)
(* parent.                                                                 *)
LEMMA ExitHandsOver ==
    ASSUME SchedulerInv, NEW status \in Statuses, Exit(status)
    PROVE  \E m, q : /\ ExitHands(m, q, status)
                     /\ exitStatus' = [exitStatus EXCEPT
                            ![pcb[current_process].pid] = @ \cup {status}]
                     /\ UNCHANGED <<page_table, last_page_index, process_table,
                                    next_pid, parentOf, delivered>>
<1>. DEFINE c == current_process
            m == Exited(c, status)
            parent == pcb[c].parent
            u == WokenPCBs(m, parent)
            e == enqueue_process(ready_queue, u, parent)
<1>1. c \in Page /\ mode \notin Idle /\ pcb \in [Page -> PCBs] /\ status \in Int
      /\ parent \in Page \cup {NULL} /\ pcb[c].state = STATE_RUNNING
    BY RunningProcess, PCBFields, ProcessAssumption DEF Exit, SchedulerInv, TypeOK
<1>2. /\ Wakes(m, parent) => schedule(u, e)
      /\ ~Wakes(m, parent) => schedule(m, ready_queue)
      /\ exitStatus' = [exitStatus EXCEPT ![pcb[c].pid] = @ \cup {status}]
      /\ UNCHANGED <<page_table, last_page_index, process_table, next_pid,
                     parentOf, delivered>>
    BY DEF Exit, WokenPCBs
<1>. HIDE DEF m, c, u, e, parent
<1>3. /\ m \in [Page -> PCBs] /\ m[c].state = STATE_ZOMBIE
      /\ m[c].exit_status = status
      /\ m[c].priority = pcb[c].priority /\ m[c].pid = pcb[c].pid
      /\ m[c].parent = pcb[c].parent /\ m[c].resume = pcb[c].resume
      /\ m[c].stack = pcb[c].stack
      /\ m[c].user_stack_base = pcb[c].user_stack_base
      /\ m[c].kernel_stack_base = pcb[c].kernel_stack_base
      /\ \A p \in Page \ {c} : m[p] = pcb[p]
    BY <1>1, ExitedFacts DEF m
<1>4. LeavesCPU(m)
    BY <1>1, <1>3, StatesDiffer DEF LeavesCPU, c
<1>5. Schedulable(m, ready_queue) /\ TypeOK
    BY <1>3, <1>4, LeavesSchedulable DEF SchedulerInv
<1>6. CASE ~Wakes(m, parent)
    <2>1. ASSUME NEW p \in Page \ {c}, p = parent, pcb[p].state = STATE_BLOCKED
          PROVE  FALSE
        BY <1>3, <1>6, <2>1, NullIsNoPage DEF Wakes
    <2>2. \A p \in Page : SameLinks(m[p], pcb[p]) /\ m[p].resume = pcb[p].resume
        BY <1>3 DEF SameLinks
    <2>3. ExitHands(m, ready_queue, status)
        BY <1>2, <1>3, <1>5, <1>6, <2>1, <2>2 DEF ExitHands, c, parent
    <2>. QED  BY <1>2, <2>3 DEF c
<1>7. CASE Wakes(m, parent)
    <2>1. parent \in Page /\ m[parent].state = STATE_BLOCKED /\ parent # c
        BY <1>1, <1>3, <1>7, StatesDiffer DEF Wakes
    <2>2. parent \in Procs
        BY <1>5, <2>1, StatesDiffer DEF Schedulable
    <2>3. Schedulable(u, e)
        BY <1>5, <2>1, <2>2, WokenSchedulable DEF u, e
    <2>4. /\ u \in [Page -> PCBs]
          /\ u[parent].state = STATE_READY
          /\ u[parent].resume = m[parent].resume
          /\ SameRest(u[parent], m[parent])
          /\ \A r \in Page \ {parent} : u[r] = m[r]
        BY <1>3, <2>1, WokenFacts DEF u
    <2>5. ASSUME NEW p \in Page
          PROVE  /\ SameLinks(u[p], pcb[p]) /\ u[p].resume = pcb[p].resume
                 /\ p # c => u[p].exit_status = pcb[p].exit_status
        <3>1. CASE p = parent
            BY <1>3, <2>1, <2>4, <3>1 DEF SameLinks, SameRest
        <3>2. CASE p # parent
            BY <1>3, <2>4, <3>2 DEF SameLinks
        <3>. QED  BY <3>1, <3>2
    <2>6. ASSUME NEW p \in Page \ {c}
          PROVE  IF p = parent /\ pcb[p].state = STATE_BLOCKED
                 THEN u[p].state = STATE_READY ELSE u[p] = pcb[p]
        BY <1>3, <2>1, <2>4
    <2>7. u[c].state = STATE_ZOMBIE /\ u[c].exit_status = status
        BY <1>1, <1>3, <2>1, <2>4
    <2>8. ExitHands(u, e, status)
        BY <1>2, <1>7, <2>3, <2>4, <2>5, <2>6, <2>7 DEF ExitHands, c, parent
    <2>. QED  BY <1>2, <2>8 DEF c
<1>. QED  BY <1>6, <1>7

(* The heap after each of the requests a creation makes.                   *)
H1 == Kmalloc(heap, PCB_SIZE)
H2 == Kmalloc(H1, STACK_SIZE)
H3 == allocate_kernel_stack(H2)

(* A new process in the page child, which was free.                        *)
Made(child) ==
    /\ child \in Page /\ child = H1.addr /\ H2.addr # NULL
    /\ page_table[child] = FREE /\ child \notin Procs
    /\ SetHeap(H3)
    /\ OnlyAt(pcb', child)
    /\ pcb'[child].pid = next_pid /\ pcb'[child].state = STATE_READY
    /\ pcb'[child].stack = H2.addr /\ pcb'[child].kernel_stack_base = H3.addr
    /\ Procs' = Procs \cup {child}

(* Linking a PCB in front of the process table adds that process.          *)
LEMMA LinkedProcs ==
    ASSUME SchedulerInv, NEW child \in Page, child \notin Procs,
           process_table' = <<child>> \o process_table
    PROVE  Procs' = Procs \cup {child}
<1>1. /\ process_table \in Seq(Page) /\ Distinct(process_table)
      /\ Procs = Elems(process_table) /\ Procs' = Elems(process_table')
    BY ProcsArePages DEF SchedulerInv, TypeOK, Listed, Procs, Elems
<1>2. Adds(process_table, process_table', child)
    BY <1>1, LinkedFacts
<1>. QED  BY <1>1, <1>2 DEF Adds

(* next_pid is a pid while there are pids left.                            *)
LEMMA NewPid ==
    ASSUME SchedulerInv, next_pid <= MAX_PID
    PROVE  next_pid \in 0 .. MAX_PID /\ next_pid \in 1 .. MAX_PID
BY ProcessAssumption DEF SchedulerInv, TypeOK

(* create_process makes a process, or fails with at most a PCB lost.       *)
LEMMA CreateShape ==
    ASSUME SchedulerInv, NEW priority \in Priorities, CreateProcess(priority)
    PROVE  /\ next_pid \in 1 .. MAX_PID /\ next_pid' = next_pid + 1
           /\ mode # "wait"
           /\ UNCHANGED <<current_process, mode, parentOf, exitStatus, delivered>>
           /\ \/ /\ Made(H1.addr)
                 /\ pcb'[H1.addr].resume = "entry"
                 /\ pcb'[H1.addr].parent = pcb[H1.addr].parent
                 /\ pcb'[H1.addr].user_stack_base = H2.addr
              \/ /\ UNCHANGED <<pcb, process_table>>
                 /\ \/ H1.addr = NULL /\ UNCHANGED heapVars
                    \/ H1.addr # NULL /\ H2.addr = NULL /\ SetHeap(H1)
<1>. DEFINE p == H1.addr
            user == H2.addr
            kernel == H3.addr
            m == CreatedPCBs(p, priority, user, kernel)
<1>1. /\ next_pid <= MAX_PID /\ next_pid' = next_pid + 1
      /\ MayCreate
      /\ UNCHANGED <<current_process, mode, parentOf, exitStatus, delivered>>
      /\ \/ /\ p = NULL
            /\ UNCHANGED <<page_table, last_page_index, pcb, process_table,
                           ready_queue>>
         \/ /\ p # NULL /\ user = NULL
            /\ SetHeap(H1)
            /\ UNCHANGED <<pcb, process_table, ready_queue>>
         \/ /\ p # NULL /\ user # NULL
            /\ SetHeap(H3)
            /\ pcb' = m
            /\ process_table' = <<p>> \o process_table
    BY DEF CreateProcess, CreatedPCBs, H1, H2, H3
<1>2. mode # "wait"
    BY <1>1 DEF MayCreate, CLI
<1>3. /\ p \in Page \cup {NULL} /\ user \in Page \cup {NULL}
      /\ kernel \in Page \cup {NULL}
      /\ p # NULL => page_table[p] = FREE
    BY HeapFacts DEF SchedulerInv, H1, H2, H3
<1>4. next_pid \in 0 .. MAX_PID /\ next_pid \in 1 .. MAX_PID
    BY <1>1, NewPid
<1>5. CASE /\ p # NULL /\ user # NULL
           /\ SetHeap(H3)
           /\ pcb' = m
           /\ process_table' = <<p>> \o process_table
    <2>. HIDE DEF m, p, user, kernel
    <2>1. /\ p \in Page /\ user \in PageOrNull /\ kernel \in PageOrNull
          /\ m = CreatedPCBs(p, priority, user, kernel)
          /\ pcb \in [Page -> PCBs] /\ priority \in Int
          /\ next_pid \in 0 .. MAX_PID
        BY <1>3, <1>4, <1>5, ProcessAssumption
           DEF m, PageOrNull, SchedulerInv, TypeOK
    <2>2. /\ m[p].pid = next_pid /\ m[p].state = STATE_READY
          /\ m[p].user_stack_base = user /\ m[p].stack = user
          /\ m[p].kernel_stack_base = kernel /\ m[p].resume = "entry"
          /\ m[p].parent = pcb[p].parent /\ OnlyAt(m, p)
        BY ONLY <2>1, CreatedFacts
    <2>3. page_table[p] = FREE /\ p \notin Procs
        BY <1>3, <1>5, <2>1, FreeUnlisted
    <2>4. Procs' = Procs \cup {p}
        BY <1>5, <2>1, <2>3, LinkedProcs
    <2>5. OnlyAt(pcb', p)
        BY <1>5, <2>2 DEF OnlyAt
    <2>6. Made(p)
        BY <1>5, <2>1, <2>2, <2>3, <2>4, <2>5 DEF Made, p, user, kernel
    <2>. QED  BY <1>1, <1>2, <1>4, <1>5, <2>2, <2>6 DEF p, user
<1>. QED  BY <1>1, <1>2, <1>4, <1>5 DEF heapVars

(* fork_syscall left half way: the page has been taken, the PCB in it is   *)
(* begun and belongs to nobody.                                            *)
HalfMade(child) ==
    /\ child \in Page /\ child = H1.addr /\ H2.addr = NULL
    /\ page_table[child] = FREE /\ child \notin Procs
    /\ SetHeap(H1)
    /\ OnlyAt(pcb', child)
    /\ pcb'[child].pid = next_pid
    /\ UNCHANGED <<process_table, parentOf>>

(* fork_syscall makes a child of the caller, or fails at one of its        *)
(* returns.                                                                *)
LEMMA ForkShape ==
    ASSUME SchedulerInv, Fork
    PROVE  /\ mode = "user" /\ MayFork
           /\ next_pid \in 1 .. MAX_PID
           /\ UNCHANGED <<current_process, mode, exitStatus, delivered>>
           /\ \/ /\ Made(H1.addr)
                 /\ next_pid' = next_pid + 1
                 /\ pcb'[H1.addr].resume = ForkFrame
                 /\ pcb'[H1.addr].parent = current_process
                 /\ pcb'[H1.addr].user_stack_base = pcb[H1.addr].user_stack_base
                 /\ parentOf' = [parentOf EXCEPT ![next_pid] =
                                    pcb[current_process].pid]
              \/ HalfMade(H1.addr) /\ next_pid' = next_pid + 1
              \/ UNCHANGED <<page_table, last_page_index, pcb, process_table,
                             next_pid, parentOf>>
<1>. DEFINE p == H1.addr
            user == H2.addr
            kernel == H3.addr
            m1 == HalfForkedPCBs(p)
            m2 == ForkedPCBs(p, user, kernel)
<1>1. /\ MayFork /\ next_pid <= MAX_PID
      /\ UNCHANGED <<current_process, mode, exitStatus, delivered>>
      /\ \/ UNCHANGED <<page_table, last_page_index, pcb, process_table,
                        next_pid, parentOf>>
         \/ /\ p # NULL /\ user = NULL
            /\ SetHeap(H1)
            /\ pcb' = m1
            /\ next_pid' = next_pid + 1
            /\ UNCHANGED <<process_table, parentOf>>
         \/ /\ p # NULL /\ user # NULL
            /\ SetHeap(H3)
            /\ pcb' = m2
            /\ next_pid' = next_pid + 1
            /\ process_table' = <<p>> \o process_table
            /\ parentOf' = [parentOf EXCEPT ![next_pid] =
                               pcb[current_process].pid]
    BY DEF Fork, ForkedPCBs, HalfForkedPCBs, ForkFrame, H1, H2, H3
<1>2. mode = "user"
    BY <1>1 DEF MayFork
<1>3. /\ p \in Page \cup {NULL} /\ user \in Page \cup {NULL}
      /\ kernel \in Page \cup {NULL}
      /\ p # NULL => page_table[p] = FREE
    BY HeapFacts DEF SchedulerInv, H1, H2, H3
<1>4. /\ next_pid \in 0 .. MAX_PID /\ next_pid \in 1 .. MAX_PID
      /\ current_process \in Page /\ pcb \in [Page -> PCBs]
    BY <1>1, <1>2, NewPid, RunningProcess DEF SchedulerInv, TypeOK
<1>. HIDE DEF p, user, kernel, m1, m2
<1>5. ASSUME p # NULL
      PROVE  p \in Page /\ page_table[p] = FREE /\ p \notin Procs
    <2>1. p \in Page /\ page_table[p] = FREE
        BY <1>3, <1>5
    <2>. QED  BY <2>1, FreeUnlisted
<1>6. CASE /\ p # NULL /\ user = NULL
           /\ SetHeap(H1)
           /\ pcb' = m1
           /\ next_pid' = next_pid + 1
           /\ UNCHANGED <<process_table, parentOf>>
    <2>1. m1[p].pid = next_pid /\ OnlyAt(m1, p)
        BY <1>4, <1>5, <1>6, HalfForkedFacts DEF m1
    <2>2. OnlyAt(pcb', p)
        BY <1>6, <2>1 DEF OnlyAt
    <2>3. HalfMade(p)
        BY <1>5, <1>6, <2>1, <2>2 DEF HalfMade, p, user
    <2>. QED  BY <1>1, <1>2, <1>4, <1>6, <2>3 DEF p
<1>7. CASE /\ p # NULL /\ user # NULL
           /\ SetHeap(H3)
           /\ pcb' = m2
           /\ next_pid' = next_pid + 1
           /\ process_table' = <<p>> \o process_table
           /\ parentOf' = [parentOf EXCEPT ![next_pid] = pcb[current_process].pid]
    <2>1. user \in PageOrNull /\ kernel \in PageOrNull /\ p \in Page
        BY <1>3, <1>5, <1>7 DEF PageOrNull
    <2>2. /\ m2[p].pid = next_pid /\ m2[p].parent = current_process
          /\ m2[p].state = STATE_READY
          /\ m2[p].user_stack_base = pcb[p].user_stack_base
          /\ m2[p].stack = user /\ m2[p].kernel_stack_base = kernel
          /\ m2[p].resume = ForkFrame /\ OnlyAt(m2, p)
        BY <1>4, <2>1, ForkedFacts DEF m2
    <2>3. Procs' = Procs \cup {p}
        BY <1>5, <1>7, <2>1, LinkedProcs
    <2>4. OnlyAt(pcb', p)
        BY <1>7, <2>2 DEF OnlyAt
    <2>5. Made(p)
        BY <1>5, <1>7, <2>2, <2>3, <2>4 DEF Made, p, user, kernel
    <2>. QED  BY <1>1, <1>2, <1>4, <1>7, <2>2, <2>5 DEF p
<1>. QED  BY <1>1, <1>2, <1>4, <1>6, <1>7

-----------------------------------------------------------------------------
(* Every step has one of six shapes.                                       *)

(* A process is created or forked.                                         *)
Born ==
    /\ Made(H1.addr)
    /\ next_pid \in 1 .. MAX_PID /\ next_pid' = next_pid + 1
    /\ mode # "wait"
    /\ UNCHANGED <<current_process, mode, exitStatus, delivered>>
    /\ \/ /\ pcb'[H1.addr].resume = "entry"
          /\ pcb'[H1.addr].parent = pcb[H1.addr].parent
          /\ pcb'[H1.addr].user_stack_base = H2.addr
          /\ UNCHANGED parentOf
       \/ /\ mode = "user" /\ MayFork
          /\ pcb'[H1.addr].resume = ForkFrame
          /\ pcb'[H1.addr].parent = current_process
          /\ pcb'[H1.addr].user_stack_base = pcb[H1.addr].user_stack_base
          /\ parentOf' = [parentOf EXCEPT ![next_pid] = pcb[current_process].pid]

(* The heap has no room for one.                                           *)
Stillborn ==
    /\ UNCHANGED <<current_process, mode, exitStatus, delivered,
                   process_table, parentOf>>
    /\ next_pid \in 1 .. MAX_PID
    /\ \/ /\ pcb' = pcb /\ next_pid' \in {next_pid, next_pid + 1}
          /\ \/ UNCHANGED heapVars
             \/ H1.addr # NULL /\ H2.addr = NULL /\ SetHeap(H1)
       \/ HalfMade(H1.addr) /\ next_pid' = next_pid + 1

(* schedule() is reached from anywhere but exit_syscall.                   *)
Switches(m) ==
    /\ HandsOver(m) /\ Handed(m) /\ schedule(m, ready_queue)
    /\ UNCHANGED <<page_table, last_page_index, process_table, next_pid,
                   parentOf, exitStatus, delivered>>

Exits(m, q, status) ==
    /\ mode = "user"
    /\ ExitHands(m, q, status)
    /\ exitStatus' = [exitStatus EXCEPT ![pcb[current_process].pid] =
                         @ \cup {status}]
    /\ UNCHANGED <<page_table, last_page_index, process_table, next_pid,
                   parentOf, delivered>>

(* wait_syscall takes child from the process table.                        *)
Reaps(child) ==
    /\ mode \in {"user", "wait"} /\ mode' = "user"
    /\ child \in Procs /\ child \in Page
    /\ pcb[child].state = STATE_ZOMBIE
    /\ ParentPid(child) = pcb[current_process].pid
    /\ Procs' = Procs \ {child}
    /\ page_table' = Kfree(page_table, child)
    /\ delivered' = delivered \cup
          {[by |-> pcb[current_process].pid, pid |-> pcb[child].pid,
            status |-> pcb[child].exit_status]}
    /\ UNCHANGED <<last_page_index, pcb, ready_queue, current_process, next_pid,
                   parentOf, exitStatus>>

(* Only the mode changes, if anything.                                     *)
Quiet ==
    /\ mode' = mode \/ mode' \in {"user", "halted", "hung"}
    /\ UNCHANGED <<page_table, last_page_index, pcb, process_table, ready_queue,
                   current_process, next_pid, parentOf, exitStatus, delivered>>

(* The search of wait_syscall that succeeds reaps a zombie child.          *)
LEMMA ReapShape ==
    ASSUME SchedulerInv, mode \in {"user", "wait"}, mode' = "user",
           Reap(current_process),
           UNCHANGED <<last_page_index, pcb, ready_queue, current_process, next_pid,
                       parentOf, exitStatus>>
    PROVE  \E child : Reaps(child)
<1>1. PICK child \in Procs :
             /\ \E i \in ZombieChildren(current_process) : child = process_table[i]
             /\ child \in Page
             /\ pcb[child].state = STATE_ZOMBIE
             /\ Procs' = Procs \ {child}
             /\ page_table' = Kfree(page_table, child)
             /\ delivered' = delivered \cup
                  {[by |-> pcb[current_process].pid, pid |-> pcb[child].pid,
                    status |-> pcb[child].exit_status]}
    BY ReapFacts
<1>2. ParentPid(child) = pcb[current_process].pid
    BY <1>1 DEF ZombieChildren, IsZombieChild
<1>3. Reaps(child)
    BY <1>1, <1>2 DEF Reaps
<1>. QED  BY <1>3

(* Every step has one of the shapes.                                       *)
LEMMA NextShapes ==
    ASSUME SchedulerInv, [Next]_vars
    PROVE  \/ Born
           \/ Stillborn
           \/ \E m : Switches(m)
           \/ \E status \in Statuses : \E m, q : Exits(m, q, status)
           \/ \E child : Reaps(child)
           \/ Quiet
<1>1. ASSUME NEW priority \in Priorities, CreateProcess(priority)
      PROVE  Born \/ Stillborn
    BY <1>1, CreateShape DEF Born, Stillborn
<1>2. CASE Fork
    <2>1. mode # "wait" /\ mode = "user"
        BY <1>2, ForkShape
    <2>2. CASE HalfMade(H1.addr) /\ next_pid' = next_pid + 1
        BY <1>2, <2>2, ForkShape DEF Stillborn, HalfMade
    <2>. QED  BY <1>2, <2>1, <2>2, ForkShape DEF Born, Stillborn, heapVars
<1>3. CASE WaitReap
    <2>1. \E child : Reaps(child)
        BY <1>3, ReapShape DEF WaitReap
    <2>. QED  BY <2>1
<1>4. CASE WaitReturn
    <2>1. CASE Reap(current_process)
        <3>1. \E child : Reaps(child)
            BY <1>4, <2>1, ReapShape DEF WaitReturn
        <3>. QED  BY <3>1
    <2>2. CASE UNCHANGED <<process_table, page_table, delivered>>
        BY <1>4, <2>2 DEF WaitReturn, Quiet
    <2>. QED  BY <1>4, <2>1, <2>2 DEF WaitReturn
<1>5. CASE Switch
    <2>1. \E m : Switches(m)
        BY <1>5, SwitchHands DEF Switches
    <2>. QED  BY <2>1
<1>6. ASSUME NEW status \in Statuses, Exit(status)
      PROVE  \E m, q : Exits(m, q, status)
    <2>1. mode = "user"
        BY <1>6 DEF Exit
    <2>. QED  BY <1>6, <2>1, ExitHandsOver DEF Exits
<1>7. CASE CliExit
    BY <1>7 DEF CliExit, Quiet
<1>8. CASE UNCHANGED vars
    BY <1>8 DEF vars, Quiet
<1>. QED
    BY <1>1, <1>2, <1>3, <1>4, <1>5, <1>6, <1>7, <1>8
       DEF Next, GiveUp, Stop, Switch

-----------------------------------------------------------------------------
(* Process identifiers.                                                    *)

(* A pid is given out once; a page that holds no PCB yet holds a 0.        *)
PidsDiffer ==
    /\ \A p \in Page : pcb[p].pid < next_pid
    /\ \A p \in Procs : pcb[p].pid >= 1
    /\ \A p, r \in Page : p # r => pcb[p].pid # pcb[r].pid \/ pcb[p].pid = 0

(* One of the processes P with the PCBs m is a zombie child of p.          *)
HasZombie(P, m, p) ==
    \E z \in P : m[z].parent = p /\ m[z].state = STATE_ZOMBIE

(* current->parent->pid = parent->pid identifies the parent.               *)
LEMMA ParentPidMeansParent ==
    ASSUME SchedulerInv, PidsDiffer, NEW c \in Procs, NEW z \in Procs
    PROVE  ParentPid(z) = pcb[c].pid <=> pcb[z].parent = c
<1>1. c \in Page /\ z \in Page /\ pcb[c] \in PCBs /\ pcb[z] \in PCBs
    BY ProcsArePages DEF SchedulerInv, TypeOK
<1>2. pcb[c].pid \in 0 .. MAX_PID /\ pcb[z].parent \in Page \cup {NULL}
      /\ c # NULL
    BY <1>1, PCBFields, NullIsNoPage
<1>3. CASE pcb[z].parent = NULL
    BY <1>2, <1>3, ProcessAssumption DEF ParentPid
<1>4. CASE pcb[z].parent \in Page
    <2>1. ParentPid(z) = pcb[pcb[z].parent].pid
        BY <1>4, NullIsNoPage DEF ParentPid
    <2>2. pcb[c].pid # 0
        BY <1>2 DEF PidsDiffer
    <2>. QED  BY <1>1, <1>4, <2>1, <2>2 DEF PidsDiffer
<1>. QED  BY <1>2, <1>3, <1>4

(* find_zombie_child finds the children of c that have exited.             *)
LEMMA ZombieFound ==
    ASSUME SchedulerInv, PidsDiffer, NEW c \in Procs
    PROVE  ZombieChildren(c) # {} <=> HasZombie(Procs, pcb, c)
<1>1. ASSUME NEW i \in ZombieChildren(c)
      PROVE  HasZombie(Procs, pcb, c)
    <2>1. /\ process_table[i] \in Procs
          /\ ParentPid(process_table[i]) = pcb[c].pid
          /\ pcb[process_table[i]].state = STATE_ZOMBIE
        BY DEF ZombieChildren, IsZombieChild, Procs
    <2>. QED  BY <2>1, ParentPidMeansParent DEF HasZombie
<1>2. ASSUME NEW z \in Procs, pcb[z].parent = c, pcb[z].state = STATE_ZOMBIE
      PROVE  ZombieChildren(c) # {}
    <2>1. PICK i \in 1 .. Len(process_table) : z = process_table[i]
        BY DEF Procs
    <2>2. IsZombieChild(c, z)
        BY <1>2, ParentPidMeansParent DEF IsZombieChild
    <2>. QED  BY <2>1, <2>2 DEF ZombieChildren
<1>. QED  BY <1>1, <1>2 DEF HasZombie

(* A step that ends in schedule() leaves pids, parents and stacks alone.   *)
LEMMA SwitchKeepsLinks ==
    ASSUME SchedulerInv, NEW m, Switches(m)
    PROVE  /\ Procs' = Procs
           /\ \A p \in Page : SameLinks(pcb'[p], pcb[p])
           /\ \A p \in Page \ Procs : pcb'[p] = pcb[p]
<1>1. Procs' = Procs
    BY DEF Switches, Procs
<1>2. /\ \A p \in Page : SameLinks(pcb'[p], m[p])
      /\ \A p \in Page \ Procs : pcb'[p] = m[p]
    BY ScheduleLinks DEF Switches, HandsOver
<1>3. \A p \in Page \ Procs : m[p] = pcb[p]
    BY NullIsNoPage DEF Switches, HandsOver, SchedulerInv, CurrentListed
<1>. QED  BY <1>1, <1>2, <1>3 DEF Switches, HandsOver, SameLinks

(* exit_syscall leaves pids, parents and stacks alone.                     *)
LEMMA ExitKeepsLinks ==
    ASSUME SchedulerInv, NEW m, NEW q, NEW status, Exits(m, q, status)
    PROVE  /\ Procs' = Procs
           /\ \A p \in Page : SameLinks(pcb'[p], pcb[p])
           /\ \A p \in Page \ Procs : pcb'[p] = pcb[p]
<1>1. Procs' = Procs
    BY DEF Exits, Procs
<1>2. /\ \A p \in Page : SameLinks(pcb'[p], m[p])
      /\ \A p \in Page \ Procs : pcb'[p] = m[p]
    BY ScheduleLinks DEF Exits, ExitHands
<1>3. ASSUME NEW p \in Page \ Procs
      PROVE  m[p] = pcb[p]
    <2>1. p # current_process
        BY RunningProcess DEF Exits
    <2>2. pcb[p].state # STATE_BLOCKED
        BY StatesDiffer DEF SchedulerInv, UnlistedQuiet
    <2>. QED  BY <2>1, <2>2 DEF Exits, ExitHands
<1>. QED  BY <1>1, <1>2, <1>3 DEF Exits, ExitHands, SameLinks

(* Every step keeps pids distinct.                                         *)
LEMMA PidsKept ==
    ASSUME SchedulerInv, PidsDiffer, [Next]_vars
    PROVE  PidsDiffer'
<1>0. /\ next_pid \in 1 .. MAX_PID + 1 /\ MAX_PID \in Nat /\ Procs \subseteq Page
      /\ \A p \in Page : pcb[p].pid \in 0 .. MAX_PID
    BY ProcsArePages, PCBFields, ProcessAssumption DEF SchedulerInv, TypeOK
<1>1. ASSUME NEW child \in Page, OnlyAt(pcb', child), pcb'[child].pid = next_pid,
             next_pid' = next_pid + 1,
             Procs' = Procs \/ Procs' = Procs \cup {child}, child \notin Procs
      PROVE  PidsDiffer'
    <2>1. \A p \in Page \ {child} : pcb'[p].pid = pcb[p].pid
        BY <1>1 DEF OnlyAt
    <2>2. \A p \in Page : pcb'[p].pid < next_pid'
        BY <1>0, <1>1, <2>1 DEF PidsDiffer
    <2>3. \A p \in Procs' : pcb'[p].pid >= 1
        BY <1>0, <1>1, <2>1 DEF PidsDiffer
    <2>4. \A p \in Page \ {child} : pcb[p].pid # next_pid
        BY <1>0 DEF PidsDiffer
    <2>5. \A p, r \in Page : p # r => pcb'[p].pid # pcb'[r].pid \/ pcb'[p].pid = 0
        BY <1>1, <2>1, <2>4 DEF PidsDiffer
    <2>. QED  BY <2>2, <2>3, <2>5 DEF PidsDiffer
<1>2. ASSUME Procs' \subseteq Procs, \A p \in Page : pcb'[p].pid = pcb[p].pid,
             next_pid' \in {next_pid, next_pid + 1}
      PROVE  PidsDiffer'
    <2>1. \A p \in Page : pcb'[p].pid < next_pid'
        BY <1>0, <1>2 DEF PidsDiffer
    <2>2. \A p \in Procs' : pcb'[p].pid >= 1
        BY <1>0, <1>2 DEF PidsDiffer
    <2>. QED  BY <1>2, <2>1, <2>2 DEF PidsDiffer
<1>3. CASE Born
    BY <1>1, <1>3 DEF Born, Made
<1>4. CASE Stillborn
    <2>1. Procs' = Procs
        BY <1>4 DEF Stillborn, Procs
    <2>2. CASE HalfMade(H1.addr) /\ next_pid' = next_pid + 1
        BY <1>1, <2>1, <2>2 DEF HalfMade
    <2>3. CASE pcb' = pcb /\ next_pid' \in {next_pid, next_pid + 1}
        BY <1>2, <2>1, <2>3
    <2>. QED  BY <1>4, <2>2, <2>3 DEF Stillborn
<1>5. ASSUME NEW m, Switches(m)
      PROVE  PidsDiffer'
    BY <1>2, <1>5, SwitchKeepsLinks DEF Switches, SameLinks
<1>6. ASSUME NEW m, NEW q, NEW status, Exits(m, q, status)
      PROVE  PidsDiffer'
    BY <1>2, <1>6, ExitKeepsLinks DEF Exits, SameLinks
<1>7. ASSUME NEW child, Reaps(child)
      PROVE  PidsDiffer'
    BY <1>2, <1>7 DEF Reaps
<1>8. CASE Quiet
    BY <1>2, <1>8 DEF Quiet, Procs
<1>. QED  BY <1>3, <1>4, <1>5, <1>6, <1>7, <1>8, NextShapes

-----------------------------------------------------------------------------
(* Waiting processes and zombies.                                          *)

(* The PCB r is that of a process on its way out of wait_syscall.          *)
IsWaiting(r) == r.state = STATE_READY /\ r.resume = "wait"

(* A blocked process has no zombie child, one on its way out of            *)
(* wait_syscall has; a running one has no frame to go back to.             *)
WaitsMet ==
    /\ \A p \in Procs : pcb[p].state = STATE_BLOCKED => ~HasZombie(Procs, pcb, p)
    /\ \A p \in Procs : IsWaiting(pcb[p]) => HasZombie(Procs, pcb, p)
    /\ \A p \in Procs : pcb[p].state = STATE_RUNNING => pcb[p].resume = "stale"
    /\ mode = "wait" => HasZombie(Procs, pcb, current_process)

(* What a switch does to the states of processes.                          *)
LEMMA SwitchStates ==
    ASSUME SchedulerInv, WaitsMet, NEW m, Switches(m)
    PROVE  /\ \A p \in Procs :
                /\ pcb'[p].state = STATE_ZOMBIE <=> pcb[p].state = STATE_ZOMBIE
                /\ pcb'[p].state = STATE_BLOCKED =>
                      \/ pcb[p].state = STATE_BLOCKED
                      \/ p = current_process /\ ZombieChildren(p) = {}
                /\ IsWaiting(pcb'[p]) => IsWaiting(pcb[p])
                /\ pcb'[p].state = STATE_RUNNING => pcb'[p].resume = "stale"
           /\ mode' = "wait" => /\ current_process' \in Procs
                                /\ IsWaiting(pcb[current_process'])
<1>. DEFINE c == current_process
<1>0. /\ m \in [Page -> PCBs] /\ Procs \subseteq Page
      /\ \A p \in Page : p # c => m[p] = pcb[p]
    BY ProcsArePages DEF Switches, HandsOver, SchedulerInv
<1>1. ASSUME NEW p \in Procs
      PROVE  /\ m[p].state = STATE_ZOMBIE <=> pcb[p].state = STATE_ZOMBIE
             /\ m[p].state = STATE_BLOCKED =>
                   \/ pcb[p].state = STATE_BLOCKED
                   \/ p = c /\ ZombieChildren(p) = {}
             /\ m[p].state \in {STATE_READY, STATE_RUNNING} /\ m[p].resume = "wait"
                   => IsWaiting(pcb[p])
    <2>1. CASE p # c
        <3>1. pcb[p].state = STATE_RUNNING => pcb[p].resume = "stale"
            BY DEF WaitsMet
        <3>2. m[p] = pcb[p]
            BY <1>0, <2>1
        <3>. QED  BY <3>1, <3>2 DEF IsWaiting
    <2>2. CASE p = c /\ m = pcb
        <3>1. pcb[p].state = STATE_RUNNING => pcb[p].resume = "stale"
            BY DEF WaitsMet
        <3>. QED  BY <2>2, <3>1 DEF IsWaiting
    <2>3. CASE p = c /\ m # pcb
        <3>1. /\ mode = "user"
              /\ \/ m[c].state = pcb[c].state /\ m[c].resume = "yield"
                 \/ m[c].state = STATE_EXIT
                 \/ m[c].state = STATE_BLOCKED /\ ZombieChildren(c) = {}
            BY <2>3 DEF Switches, Handed
        <3>2. pcb[c].state = STATE_RUNNING
            BY <3>1, RunningProcess
        <3>. QED  BY <2>3, <3>1, <3>2, StatesDiffer
    <2>. QED  BY <2>1, <2>2, <2>3
<1>2. schedule(m, ready_queue) /\ Schedulable(m, ready_queue)
    BY DEF Switches, HandsOver
<1>3. ASSUME NEW p \in Procs
      PROVE  /\ pcb'[p].state = STATE_ZOMBIE <=> m[p].state = STATE_ZOMBIE
             /\ pcb'[p].state = STATE_BLOCKED <=> m[p].state = STATE_BLOCKED
             /\ pcb'[p].state = STATE_READY =>
                  /\ pcb'[p].resume = m[p].resume
                  /\ m[p].state \in {STATE_READY, STATE_RUNNING}
             /\ pcb'[p].state = STATE_RUNNING => pcb'[p].resume = "stale"
    BY <1>0, <1>2, ScheduleLinks
<1>4. ASSUME mode' = "wait"
      PROVE  current_process' \in Procs /\ IsWaiting(pcb[current_process'])
    <2>1. /\ current_process' \in Procs
          /\ mode' = ModeOn(m, current_process')
          /\ m[current_process'].state \in {STATE_READY, STATE_RUNNING}
        BY <1>2, <1>4, ScheduleLinks
    <2>2. m[current_process'].resume = "wait"
        BY <1>4, <2>1 DEF ModeOn
    <2>. QED  BY <1>1, <2>1, <2>2
<1>. HIDE DEF c
<1>5. \A p \in Procs : IsWaiting(pcb'[p]) => IsWaiting(pcb[p])
    BY <1>1, <1>3 DEF IsWaiting
<1>. QED  BY <1>1, <1>3, <1>4, <1>5 DEF c

(* What exit_syscall does to the states of processes.                      *)
LEMMA ExitStates ==
    ASSUME SchedulerInv, WaitsMet, NEW m, NEW q, NEW status, Exits(m, q, status)
    PROVE  /\ \A p \in Procs :
                /\ pcb'[p].state = STATE_ZOMBIE <=>
                      pcb[p].state = STATE_ZOMBIE \/ p = current_process
                /\ pcb'[p].state = STATE_BLOCKED =>
                      /\ pcb[p].state = STATE_BLOCKED
                      /\ p # pcb[current_process].parent
                /\ IsWaiting(pcb'[p]) =>
                      IsWaiting(pcb[p]) \/ p = pcb[current_process].parent
                /\ pcb'[p].state = STATE_RUNNING => pcb'[p].resume = "stale"
           /\ mode' = "wait" => /\ current_process' \in Procs
                                /\ \/ IsWaiting(pcb[current_process'])
                                   \/ current_process' =
                                         pcb[current_process].parent
<1>. DEFINE c == current_process
<1>0. c \in Procs /\ Procs \subseteq Page /\ pcb[c].state = STATE_RUNNING
    BY RunningProcess, ProcsArePages DEF Exits, SchedulerInv
<1>1. ASSUME NEW p \in Procs
      PROVE  /\ m[p].state = STATE_ZOMBIE <=> pcb[p].state = STATE_ZOMBIE \/ p = c
             /\ m[p].state = STATE_BLOCKED =>
                   pcb[p].state = STATE_BLOCKED /\ p # pcb[c].parent
             /\ m[p].state \in {STATE_READY, STATE_RUNNING} /\ m[p].resume = "wait"
                   => IsWaiting(pcb[p]) \/ p = pcb[c].parent
    <2>1. CASE p = c
        BY <1>0, <2>1, StatesDiffer DEF Exits, ExitHands
    <2>2. CASE p # c
        <3>1. /\ IF p = pcb[c].parent /\ pcb[p].state = STATE_BLOCKED
                 THEN m[p].state = STATE_READY ELSE m[p] = pcb[p]
              /\ pcb[p].state = STATE_RUNNING => pcb[p].resume = "stale"
            BY <1>0, <2>2 DEF Exits, ExitHands, WaitsMet
        <3>. QED  BY <2>2, <3>1, StatesDiffer DEF IsWaiting
    <2>. QED  BY <2>1, <2>2
<1>2. schedule(m, q) /\ Schedulable(m, q)
    BY DEF Exits, ExitHands
<1>3. ASSUME NEW p \in Procs
      PROVE  /\ pcb'[p].state = STATE_ZOMBIE <=> m[p].state = STATE_ZOMBIE
             /\ pcb'[p].state = STATE_BLOCKED <=> m[p].state = STATE_BLOCKED
             /\ pcb'[p].state = STATE_READY =>
                  /\ pcb'[p].resume = m[p].resume
                  /\ m[p].state \in {STATE_READY, STATE_RUNNING}
             /\ pcb'[p].state = STATE_RUNNING => pcb'[p].resume = "stale"
    BY <1>0, <1>2, ScheduleLinks
<1>4. ASSUME mode' = "wait"
      PROVE  /\ current_process' \in Procs
             /\ IsWaiting(pcb[current_process']) \/ current_process' = pcb[c].parent
    <2>1. /\ current_process' \in Procs
          /\ mode' = ModeOn(m, current_process')
          /\ m[current_process'].state \in {STATE_READY, STATE_RUNNING}
        BY <1>2, <1>4, ScheduleLinks
    <2>2. m[current_process'].resume = "wait"
        BY <1>4, <2>1 DEF ModeOn
    <2>. QED  BY <1>1, <2>1, <2>2
<1>. HIDE DEF c
<1>5. \A p \in Procs : IsWaiting(pcb'[p]) => IsWaiting(pcb[p]) \/ p = pcb[c].parent
    BY <1>1, <1>3 DEF IsWaiting
<1>. QED  BY <1>1, <1>3, <1>4, <1>5 DEF c

(* Every step keeps sleepers without zombies and sleepers woken with one.  *)
LEMMA WaitsKept ==
    ASSUME SchedulerInv, PidsDiffer, WaitsMet, [Next]_vars
    PROVE  WaitsMet'
<1>. DEFINE c == current_process
<1>0. Procs \subseteq Page
    BY ProcsArePages DEF SchedulerInv
<1>1. CASE Born
    <2>. DEFINE child == H1.addr
    <2>1. /\ child \in Page /\ child \notin Procs /\ OnlyAt(pcb', child)
          /\ pcb'[child].state = STATE_READY /\ Procs' = Procs \cup {child}
          /\ pcb'[child].resume # "wait" /\ UNCHANGED <<current_process, mode>>
          /\ mode # "wait"
        BY <1>1 DEF Born, Made, ForkFrame
    <2>. HIDE DEF child
    <2>2. \A p \in Procs : pcb'[p] = pcb[p]
        BY <1>0, <2>1 DEF OnlyAt
    <2>3. ASSUME NEW p \in Procs
          PROVE  HasZombie(Procs', pcb', p) <=> HasZombie(Procs, pcb, p)
        BY <2>1, <2>2, StatesDiffer DEF HasZombie
    <2>4. \A p \in Procs : IsWaiting(pcb'[p]) <=> IsWaiting(pcb[p])
        BY <2>2 DEF IsWaiting
    <2>5. ~IsWaiting(pcb'[child])
        BY <2>1 DEF IsWaiting
    <2>. QED  BY <2>1, <2>2, <2>3, <2>4, <2>5, StatesDiffer DEF WaitsMet
<1>2. CASE Stillborn
    <2>1. Procs' = Procs /\ UNCHANGED <<current_process, mode>>
        BY <1>2 DEF Stillborn, Procs
    <2>2. \A p \in Procs : pcb'[p] = pcb[p]
        BY <1>0, <1>2 DEF Stillborn, HalfMade, OnlyAt
    <2>3. ASSUME NEW p
          PROVE  HasZombie(Procs', pcb', p) <=> HasZombie(Procs, pcb, p)
        BY <2>1, <2>2 DEF HasZombie
    <2>4. \A p \in Procs : IsWaiting(pcb'[p]) <=> IsWaiting(pcb[p])
        BY <2>2 DEF IsWaiting
    <2>5. mode' = "wait" => HasZombie(Procs', pcb', current_process')
        BY <2>1, <2>3 DEF WaitsMet
    <2>. QED  BY <2>1, <2>2, <2>3, <2>4, <2>5 DEF WaitsMet
<1>3. ASSUME NEW m, Switches(m)
      PROVE  WaitsMet'
    <2>1. Procs' = Procs /\ \A p \in Procs : pcb'[p].parent = pcb[p].parent
        BY <1>0, <1>3, SwitchKeepsLinks DEF SameLinks
    <2>2. /\ \A p \in Procs :
                /\ pcb'[p].state = STATE_ZOMBIE <=> pcb[p].state = STATE_ZOMBIE
                /\ pcb'[p].state = STATE_BLOCKED =>
                      \/ pcb[p].state = STATE_BLOCKED
                      \/ p = current_process /\ ZombieChildren(p) = {}
                /\ IsWaiting(pcb'[p]) => IsWaiting(pcb[p])
                /\ pcb'[p].state = STATE_RUNNING => pcb'[p].resume = "stale"
          /\ mode' = "wait" => /\ current_process' \in Procs
                               /\ IsWaiting(pcb[current_process'])
        BY <1>3, SwitchStates
    <2>3. ASSUME NEW p
          PROVE  HasZombie(Procs', pcb', p) <=> HasZombie(Procs, pcb, p)
        BY <2>1, <2>2 DEF HasZombie
    <2>4. \A p \in Procs : ZombieChildren(p) = {} => ~HasZombie(Procs, pcb, p)
        BY ZombieFound
    <2>5. HasZombie(Procs', pcb', current_process') <=>
             HasZombie(Procs, pcb, current_process')
        BY <2>1, <2>2 DEF HasZombie
    <2>6. mode' = "wait" => HasZombie(Procs', pcb', current_process')
        BY <2>2, <2>5 DEF WaitsMet
    <2>7. \A p \in Procs' : pcb'[p].state = STATE_BLOCKED => ~HasZombie(Procs', pcb', p)
        BY <2>1, <2>2, <2>3, <2>4 DEF WaitsMet
    <2>8. \A p \in Procs' : IsWaiting(pcb'[p]) => HasZombie(Procs', pcb', p)
        BY <2>1, <2>2, <2>3 DEF WaitsMet
    <2>. QED  BY <2>1, <2>2, <2>6, <2>7, <2>8 DEF WaitsMet
<1>4. ASSUME NEW m, NEW q, NEW status, Exits(m, q, status)
      PROVE  WaitsMet'
    <2>1. Procs' = Procs /\ \A p \in Procs : pcb'[p].parent = pcb[p].parent
        BY <1>0, <1>4, ExitKeepsLinks DEF SameLinks
    <2>2. /\ \A p \in Procs :
                /\ pcb'[p].state = STATE_ZOMBIE <=>
                      pcb[p].state = STATE_ZOMBIE \/ p = c
                /\ pcb'[p].state = STATE_BLOCKED =>
                      pcb[p].state = STATE_BLOCKED /\ p # pcb[c].parent
                /\ IsWaiting(pcb'[p]) => IsWaiting(pcb[p]) \/ p = pcb[c].parent
                /\ pcb'[p].state = STATE_RUNNING => pcb'[p].resume = "stale"
          /\ mode' = "wait" => /\ current_process' \in Procs
                               /\ \/ IsWaiting(pcb[current_process'])
                                  \/ current_process' = pcb[c].parent
        BY <1>4, ExitStates
    <2>3. c \in Procs
        BY <1>4, RunningProcess DEF Exits
    <2>4. ASSUME NEW p
          PROVE  HasZombie(Procs', pcb', p) <=>
                    HasZombie(Procs, pcb, p) \/ p = pcb[c].parent
        BY <2>1, <2>2, <2>3 DEF HasZombie
    <2>5. HasZombie(Procs', pcb', current_process') <=>
             HasZombie(Procs, pcb, current_process') \/ current_process' = pcb[c].parent
        BY <2>1, <2>2, <2>3 DEF HasZombie
    <2>6. mode' = "wait" => HasZombie(Procs', pcb', current_process')
        BY <2>2, <2>5 DEF WaitsMet
    <2>7. \A p \in Procs' : pcb'[p].state = STATE_BLOCKED => ~HasZombie(Procs', pcb', p)
        BY <2>1, <2>2, <2>4 DEF WaitsMet
    <2>8. \A p \in Procs' : IsWaiting(pcb'[p]) => HasZombie(Procs', pcb', p)
        BY <2>1, <2>2, <2>4 DEF WaitsMet
    <2>. QED  BY <2>1, <2>2, <2>6, <2>7, <2>8 DEF WaitsMet
<1>5. ASSUME NEW child, Reaps(child)
      PROVE  WaitsMet'
    <2>1. c \in Procs /\ child \in Procs /\ pcb' = pcb /\ Procs' = Procs \ {child}
          /\ mode' = "user" /\ pcb[c].state = STATE_RUNNING
        BY <1>5, RunningProcess DEF Reaps
    <2>2. pcb[child].parent = c
        BY <1>5, <2>1, ParentPidMeansParent DEF Reaps
    <2>3. ASSUME NEW p \in Procs, p # c
          PROVE  HasZombie(Procs', pcb', p) <=> HasZombie(Procs, pcb, p)
        BY <2>1, <2>2, <2>3 DEF HasZombie
    <2>4. \A p \in Procs : IsWaiting(pcb'[p]) <=> IsWaiting(pcb[p])
        BY <2>1 DEF IsWaiting
    <2>5. pcb[c].state # STATE_BLOCKED /\ ~IsWaiting(pcb[c])
        BY <2>1, StatesDiffer DEF IsWaiting
    <2>6. \A p \in Procs' : pcb'[p].state = STATE_BLOCKED => ~HasZombie(Procs', pcb', p)
        BY <2>1, <2>3, <2>5 DEF WaitsMet
    <2>7. \A p \in Procs' : IsWaiting(pcb'[p]) => HasZombie(Procs', pcb', p)
        BY <2>1, <2>3, <2>4, <2>5 DEF WaitsMet
    <2>. QED  BY <2>1, <2>6, <2>7 DEF WaitsMet
<1>6. CASE Quiet
    <2>1. Procs' = Procs /\ pcb' = pcb /\ current_process' = current_process
        BY <1>6 DEF Quiet, Procs
    <2>2. mode' = "wait" => mode = "wait"
        BY <1>6 DEF Quiet
    <2>3. ASSUME NEW p
          PROVE  HasZombie(Procs', pcb', p) <=> HasZombie(Procs, pcb, p)
        BY <2>1 DEF HasZombie
    <2>4. HasZombie(Procs', pcb', current_process') <=>
             HasZombie(Procs, pcb, current_process)
        BY <2>1 DEF HasZombie
    <2>5. \A p \in Procs : IsWaiting(pcb'[p]) <=> IsWaiting(pcb[p])
        BY <2>1 DEF IsWaiting
    <2>. QED  BY <2>1, <2>2, <2>3, <2>4, <2>5 DEF WaitsMet
<1>. QED  BY <1>1, <1>2, <1>3, <1>4, <1>5, <1>6, NextShapes

-----------------------------------------------------------------------------
(* Statuses and the results of wait_syscall.                               *)

(* What exit_syscall was given is in the PCB of the zombie until the       *)
(* zombie is reaped, and in what wait_syscall returned after that.         *)
StatusKept(P, m, e) ==
    \A p \in P : e[m[p].pid] =
        IF m[p].state = STATE_ZOMBIE THEN {m[p].exit_status} ELSE {}

Unused(e, n) == \A i \in 1 .. MAX_PID : i >= n => e[i] = {}

Results(P, m, e, n, D) ==
    /\ \A d \in D : /\ d.pid \in 1 .. MAX_PID /\ d.pid < n
                    /\ e[d.pid] = {d.status}
                    /\ \A p \in P : m[p].pid # d.pid
    /\ \A d, f \in D : d.pid = f.pid => d = f

(* A pid that passed a status is in the process table or was returned.     *)
NoneLost(P, m, e, D) ==
    \A i \in 1 .. MAX_PID : e[i] # {} =>
        (\E p \in P : m[p].pid = i) \/ (\E d \in D : d.pid = i)

StatusesRecorded ==
    /\ exitStatus \in [1 .. MAX_PID -> SUBSET Int]
    /\ StatusKept(Procs, pcb, exitStatus)
    /\ Unused(exitStatus, next_pid)
    /\ Results(Procs, pcb, exitStatus, next_pid, delivered)
    /\ NoneLost(Procs, pcb, exitStatus, delivered)

(* Every step keeps the statuses passed, held and delivered in agreement.  *)
LEMMA StatusesKept ==
    ASSUME SchedulerInv, PidsDiffer, WaitsMet, StatusesRecorded, [Next]_vars
    PROVE  StatusesRecorded'
<1>. DEFINE c == current_process
<1>0. /\ next_pid \in 1 .. MAX_PID + 1 /\ MAX_PID \in Nat /\ Procs \subseteq Page
      /\ \A p \in Page : pcb[p].pid \in 0 .. MAX_PID
      /\ \A p \in Procs : pcb[p].pid \in 1 .. MAX_PID
    <2>1. /\ next_pid \in 1 .. MAX_PID + 1 /\ MAX_PID \in Nat /\ Procs \subseteq Page
          /\ \A p \in Page : pcb[p].pid \in 0 .. MAX_PID
        BY ProcsArePages, PCBFields, ProcessAssumption DEF SchedulerInv, TypeOK
    <2>2. \A p \in Procs : pcb[p].pid >= 1
        BY DEF PidsDiffer
    <2>. QED  BY <2>1, <2>2
<1>1. ASSUME Procs' = Procs, \A p \in Procs : pcb'[p] = pcb[p],
             next_pid' \in {next_pid, next_pid + 1},
             UNCHANGED <<exitStatus, delivered>>
      PROVE  StatusesRecorded'
    <2>1. StatusKept(Procs', pcb', exitStatus')
        BY <1>1 DEF StatusesRecorded, StatusKept
    <2>2. Unused(exitStatus', next_pid')
        BY <1>0, <1>1 DEF StatusesRecorded, Unused
    <2>3. Results(Procs', pcb', exitStatus', next_pid', delivered')
        BY <1>0, <1>1 DEF StatusesRecorded, Results
    <2>4. NoneLost(Procs', pcb', exitStatus', delivered')
        BY <1>1 DEF StatusesRecorded, NoneLost
    <2>. QED  BY <1>1, <2>1, <2>2, <2>3, <2>4 DEF StatusesRecorded
<1>2. CASE Born
    <2>1. PICK child : /\ child \in Page /\ child \notin Procs
                       /\ OnlyAt(pcb', child) /\ Procs' = Procs \cup {child}
                       /\ pcb'[child].state = STATE_READY
                       /\ pcb'[child].pid = next_pid
        BY <1>2 DEF Born, Made
    <2>2. /\ next_pid \in 1 .. MAX_PID /\ next_pid' = next_pid + 1
          /\ UNCHANGED <<exitStatus, delivered>>
        BY <1>2 DEF Born
    <2>3. \A p \in Procs : pcb'[p] = pcb[p]
        BY <1>0, <2>1 DEF OnlyAt
    <2>4. exitStatus[next_pid] = {}
        BY <2>2 DEF StatusesRecorded, Unused
    <2>5. StatusKept(Procs', pcb', exitStatus')
        BY <2>1, <2>2, <2>3, <2>4, StatesDiffer DEF StatusesRecorded, StatusKept
    <2>6. Unused(exitStatus', next_pid')
        BY <1>0, <2>2 DEF StatusesRecorded, Unused
    <2>7. \A d \in delivered : d.pid # next_pid
        BY <1>0 DEF StatusesRecorded, Results
    <2>8. Results(Procs', pcb', exitStatus', next_pid', delivered')
        BY <1>0, <2>1, <2>2, <2>3, <2>7 DEF StatusesRecorded, Results
    <2>9. NoneLost(Procs', pcb', exitStatus', delivered')
        BY <2>1, <2>2, <2>3 DEF StatusesRecorded, NoneLost
    <2>. QED  BY <2>2, <2>5, <2>6, <2>8, <2>9 DEF StatusesRecorded
<1>3. CASE Stillborn
    <2>1. Procs' = Procs
        BY <1>3 DEF Stillborn, Procs
    <2>2. \A p \in Procs : pcb'[p] = pcb[p]
        BY <1>0, <1>3 DEF Stillborn, HalfMade, OnlyAt
    <2>. QED  BY <1>1, <1>3, <2>1, <2>2 DEF Stillborn
<1>4. ASSUME NEW m, Switches(m)
      PROVE  StatusesRecorded'
    <2>1. Procs' = Procs /\ \A p \in Procs : pcb'[p].pid = pcb[p].pid
        BY <1>0, <1>4, SwitchKeepsLinks DEF SameLinks
    <2>2. \A p \in Procs :
              pcb'[p].state = STATE_ZOMBIE <=> pcb[p].state = STATE_ZOMBIE
        BY <1>4, SwitchStates
    <2>3. \A p \in Procs : pcb'[p].exit_status = pcb[p].exit_status
        BY <1>0, <1>4, ScheduleLinks DEF Switches, HandsOver
    <2>4. UNCHANGED <<exitStatus, delivered, next_pid>>
        BY <1>4 DEF Switches
    <2>5. StatusKept(Procs', pcb', exitStatus')
        BY <2>1, <2>2, <2>3, <2>4 DEF StatusesRecorded, StatusKept
    <2>6. Results(Procs', pcb', exitStatus', next_pid', delivered')
        BY <2>1, <2>4 DEF StatusesRecorded, Results
    <2>7. NoneLost(Procs', pcb', exitStatus', delivered')
        BY <2>1, <2>4 DEF StatusesRecorded, NoneLost
    <2>. QED  BY <2>4, <2>5, <2>6, <2>7 DEF StatusesRecorded
<1>5. ASSUME NEW status \in Statuses, NEW m, NEW q, Exits(m, q, status)
      PROVE  StatusesRecorded'
    <2>1. Procs' = Procs /\ \A p \in Procs : pcb'[p].pid = pcb[p].pid
        BY <1>0, <1>5, ExitKeepsLinks DEF SameLinks
    <2>2. \A p \in Procs :
             pcb'[p].state = STATE_ZOMBIE <=> pcb[p].state = STATE_ZOMBIE \/ p = c
        BY <1>5, ExitStates
    <2>3. /\ \A p \in Procs : p # c => pcb'[p].exit_status = pcb[p].exit_status
          /\ c \in Procs => pcb'[c].exit_status = status
        BY <1>0, <1>5, ScheduleLinks DEF Exits, ExitHands
    <2>4. c \in Procs /\ pcb[c].state = STATE_RUNNING
        BY <1>5, RunningProcess DEF Exits
    <2>5. exitStatus[pcb[c].pid] = {} /\ status \in Int
        BY <2>4, StatesDiffer, ProcessAssumption DEF StatusesRecorded, StatusKept
    <2>6. /\ exitStatus' = [exitStatus EXCEPT ![pcb[c].pid] = @ \cup {status}]
          /\ UNCHANGED <<delivered, next_pid>>
        BY <1>5 DEF Exits
    <2>7. /\ exitStatus' \in [1 .. MAX_PID -> SUBSET Int]
          /\ exitStatus'[pcb[c].pid] = {status}
          /\ \A i \in 1 .. MAX_PID : i # pcb[c].pid => exitStatus'[i] = exitStatus[i]
        BY <1>0, <2>4, <2>5, <2>6 DEF StatusesRecorded
    <2>8. ASSUME NEW p \in Procs
          PROVE  exitStatus'[pcb'[p].pid] =
                    IF pcb'[p].state = STATE_ZOMBIE THEN {pcb'[p].exit_status} ELSE {}
        <3>1. CASE p = c
            BY <2>1, <2>2, <2>3, <2>4, <2>7, <3>1
        <3>2. CASE p # c
            <4>1. pcb[p].pid # pcb[c].pid
                BY <1>0, <2>4, <3>2 DEF PidsDiffer
            <4>2. exitStatus'[pcb'[p].pid] = exitStatus[pcb[p].pid]
                BY <1>0, <2>1, <2>7, <4>1
            <4>. QED  BY <2>2, <2>3, <3>2, <4>2 DEF StatusesRecorded, StatusKept
        <3>. QED  BY <3>1, <3>2
    <2>9. StatusKept(Procs', pcb', exitStatus')
        BY <2>1, <2>8 DEF StatusKept
    <2>10. Unused(exitStatus', next_pid')
        <3>1. pcb[c].pid < next_pid
            BY <1>0, <2>4 DEF PidsDiffer
        <3>2. ASSUME NEW i \in 1 .. MAX_PID, i >= next_pid
              PROVE  exitStatus'[i] = {}
            <4>1. i # pcb[c].pid
                BY <1>0, <2>4, <3>1, <3>2
            <4>. QED  BY <2>7, <3>2, <4>1 DEF StatusesRecorded, Unused
        <3>. QED  BY <2>6, <3>2 DEF Unused
    <2>11. Results(Procs', pcb', exitStatus', next_pid', delivered')
        <3>1. \A d \in delivered : d.pid # pcb[c].pid
            BY <2>4 DEF StatusesRecorded, Results
        <3>. QED  BY <2>1, <2>6, <2>7, <3>1 DEF StatusesRecorded, Results
    <2>12. NoneLost(Procs', pcb', exitStatus', delivered')
        BY <2>1, <2>4, <2>6, <2>7 DEF StatusesRecorded, NoneLost
    <2>. QED  BY <2>7, <2>9, <2>10, <2>11, <2>12 DEF StatusesRecorded
<1>6. ASSUME NEW child, Reaps(child)
      PROVE  StatusesRecorded'
    <2>. DEFINE d == [by |-> pcb[c].pid, pid |-> pcb[child].pid,
                      status |-> pcb[child].exit_status]
    <2>1. /\ child \in Procs /\ pcb' = pcb /\ Procs' = Procs \ {child}
          /\ pcb[child].state = STATE_ZOMBIE
          /\ delivered' = delivered \cup {d}
          /\ UNCHANGED <<next_pid, exitStatus>>
        BY <1>6 DEF Reaps
    <2>2. d.pid = pcb[child].pid /\ d.status = pcb[child].exit_status
        OBVIOUS
    <2>. HIDE DEF d
    <2>3. /\ d.pid \in 1 .. MAX_PID /\ d.pid < next_pid
          /\ exitStatus[d.pid] = {d.status}
        BY <1>0, <2>1, <2>2 DEF PidsDiffer, StatusesRecorded, StatusKept
    <2>4. \A p \in Procs' : pcb[p].pid # d.pid
        BY <1>0, <2>1, <2>2 DEF PidsDiffer
    <2>5. \A f \in delivered : f.pid # d.pid
        BY <2>1, <2>2 DEF StatusesRecorded, Results
    <2>6. Results(Procs', pcb', exitStatus', next_pid', delivered')
        BY <2>1, <2>3, <2>4, <2>5 DEF StatusesRecorded, Results
    <2>7. StatusKept(Procs', pcb', exitStatus')
        BY <2>1 DEF StatusesRecorded, StatusKept
    <2>8. NoneLost(Procs', pcb', exitStatus', delivered')
        BY <2>1, <2>2 DEF StatusesRecorded, NoneLost
    <2>. QED  BY <2>1, <2>6, <2>7, <2>8 DEF StatusesRecorded
<1>7. CASE Quiet
    BY <1>1, <1>7 DEF Quiet, Procs
<1>. QED  BY <1>2, <1>3, <1>4, <1>5, <1>6, <1>7, NextShapes

-----------------------------------------------------------------------------
(* The theorems.                                                           *)

WaitInv ==
    /\ SchedulerInv
    /\ PidsDiffer
    /\ WaitsMet
    /\ StatusesRecorded

(* Without processes nobody waits.                                         *)
LEMMA InitWaits == Init => WaitInv
<1>. SUFFICES ASSUME Init
              PROVE  WaitInv
    OBVIOUS
<1>1. SchedulerInv /\ Procs = {} /\ next_pid = 1 /\ mode = "cli" /\ delivered = {}
    BY InitScheduler DEF Init, Procs
<1>2. \A p \in Page : pcb[p].pid = 0
    BY DEF Init, ZeroPCB
<1>3. PidsDiffer
    BY <1>1, <1>2 DEF PidsDiffer
<1>4. WaitsMet
    BY <1>1 DEF WaitsMet
<1>5. exitStatus = [i \in 1 .. MAX_PID |-> {}]
    BY DEF Init
<1>6. StatusesRecorded
    BY <1>1, <1>5 DEF StatusesRecorded, StatusKept, Unused, Results, NoneLost
<1>. QED  BY <1>1, <1>3, <1>4, <1>6 DEF WaitInv

(* Pids identify processes, blocked processes have no zombie child, woken  *)
(* ones have, and statuses are on record, always.                          *)
THEOREM WaitingCorrect == Spec => []WaitInv
<1>1. WaitInv /\ [Next]_vars => WaitInv'
    BY NextScheduler, PidsKept, WaitsKept, StatusesKept DEF WaitInv, StepKeeps
<1>. QED  BY <1>1, InitWaits, PTL DEF Spec

(* wait_syscall never sleeps beside a child that has exited.               *)
THEOREM NoWakeupLost == Spec => []NoLostWakeup
<1>1. WaitInv => NoLostWakeup
    BY ZombieFound DEF WaitInv, WaitsMet, NoLostWakeup
<1>. QED  BY <1>1, WaitingCorrect, PTL

(* A process exit_syscall wakes finds the child that woke it: the -1 after *)
(* blocking is never returned.                                             *)
THEOREM WokenByZombie == Spec => []WokenFindsZombie
<1>1. ASSUME WaitInv
      PROVE  WokenFindsZombie
    <2>1. /\ mode = "wait" => current_process \in Procs
          /\ Queued = {p \in Procs : pcb[p].state = STATE_READY}
        BY <1>1, RunningProcess DEF WaitInv, SchedulerInv, QueueDiscipline
    <2>2. mode = "wait" => ZombieChildren(current_process) # {}
        BY <1>1, <2>1, ZombieFound DEF WaitInv, WaitsMet
    <2>3. ASSUME NEW p \in Queued, pcb[p].resume = "wait"
          PROVE  ZombieChildren(p) # {}
        <3>1. p \in Procs /\ IsWaiting(pcb[p])
            BY <2>1, <2>3 DEF IsWaiting
        <3>2. HasZombie(Procs, pcb, p)
            BY <1>1, <3>1 DEF WaitInv, WaitsMet
        <3>. QED  BY <1>1, <3>1, <3>2, ZombieFound DEF WaitInv
    <2>. QED  BY <2>2, <2>3 DEF WokenFindsZombie
<1>. QED  BY <1>1, WaitingCorrect, PTL

(* The record of statuses has each in one place.                           *)
LEMMA StatusInOnePlace ==
    ASSUME StatusesRecorded
    PROVE  StatusDeliveredOnce
<1>1. \A d \in delivered, p \in Procs : pcb[p].pid # d.pid
    BY DEF StatusesRecorded, Results
<1>2. ASSUME NEW pid \in 1 .. MAX_PID, NEW status \in exitStatus[pid]
      PROVE  HeldByZombie(pid, status) \/ Delivered(pid, status)
    <2>1. CASE \E p \in Procs : pcb[p].pid = pid
        <3>1. PICK p \in Procs : pcb[p].pid = pid
            BY <2>1
        <3>2. status \in IF pcb[p].state = STATE_ZOMBIE
                          THEN {pcb[p].exit_status} ELSE {}
            BY <1>2, <3>1, ZenonT(30) DEF StatusesRecorded, StatusKept
        <3>3. pcb[p].state = STATE_ZOMBIE /\ pcb[p].exit_status = status
            BY <3>2
        <3>. QED  BY <3>1, <3>3 DEF HeldByZombie
    <2>2. CASE \E d \in delivered : d.pid = pid
        BY <1>2, <2>2 DEF StatusesRecorded, Results, Delivered
    <2>. QED  BY <1>2, <2>1, <2>2 DEF StatusesRecorded, NoneLost
<1>. QED  BY <1>1, <1>2 DEF StatusDeliveredOnce

(* On any heap, a status passed to exit_syscall is held by a zombie or was *)
(* delivered by wait_syscall, and a pid that was delivered is out of the   *)
(* process table: no status is lost and none is delivered twice.           *)
THEOREM StatusesDelivered == Spec => []StatusDeliveredOnce
<1>1. WaitInv => StatusDeliveredOnce
    BY StatusInOnePlace DEF WaitInv
<1>. QED  BY <1>1, WaitingCorrect, PTL

-----------------------------------------------------------------------------
(* The frames processes go on at.                                          *)

(* No program forks in a forked process, and none calls schedule() itself. *)
PlainCalls == "nested_fork" \notin Calls /\ "schedule" \notin Calls

(* Pids not given out yet have no parent, and a process that was not       *)
(* forked has its own stack recorded as the base fork_syscall copies from. *)
ForksRecorded ==
    /\ parentOf \in [1 .. MAX_PID -> 0 .. MAX_PID]
    /\ \A i \in 1 .. MAX_PID : i >= next_pid => parentOf[i] = 0
    /\ \A p \in Procs : parentOf[pcb[p].pid] = 0 =>
          pcb[p].user_stack_base = pcb[p].stack

HasFrame(r) == r.resume \in {"entry", "yield", "wait", "fork"}

(* Whoever waits for the CPU, or to be woken, has a frame to go on at.     *)
FramesKept ==
    /\ \A p \in Procs : pcb[p].state = STATE_READY => HasFrame(pcb[p])
    /\ \A p \in Procs : pcb[p].state = STATE_BLOCKED => pcb[p].resume = "wait"
    /\ mode # "crashed"

(* The pids of processes, as numbers.                                      *)
LEMMA PidsOfProcs ==
    ASSUME SchedulerInv, PidsDiffer
    PROVE  /\ next_pid \in 1 .. MAX_PID + 1 /\ MAX_PID \in Nat
           /\ Procs \subseteq Page
           /\ \A p \in Page : pcb[p].pid \in 0 .. MAX_PID
           /\ \A p \in Procs : pcb[p].pid \in 1 .. MAX_PID /\ pcb[p].pid < next_pid
<1>1. /\ next_pid \in 1 .. MAX_PID + 1 /\ MAX_PID \in Nat /\ Procs \subseteq Page
      /\ \A p \in Page : pcb[p].pid \in 0 .. MAX_PID
    BY ProcsArePages, PCBFields, ProcessAssumption DEF SchedulerInv, TypeOK
<1>2. \A p \in Procs : pcb[p].pid >= 1 /\ pcb[p].pid < next_pid
    BY <1>1 DEF PidsDiffer
<1>. QED  BY <1>1, <1>2

(* Every step keeps parent pointers and the record of forks in agreement.  *)
LEMMA ForksKept ==
    ASSUME SchedulerInv, PidsDiffer, ForksRecorded, [Next]_vars
    PROVE  ForksRecorded'
<1>0. /\ next_pid \in 1 .. MAX_PID + 1 /\ MAX_PID \in Nat /\ Procs \subseteq Page
      /\ \A p \in Page : pcb[p].pid \in 0 .. MAX_PID
      /\ \A p \in Procs : pcb[p].pid \in 1 .. MAX_PID /\ pcb[p].pid < next_pid
    BY PidsOfProcs
<1>1. ASSUME Procs' \subseteq Procs, \A p \in Procs : SameLinks(pcb'[p], pcb[p]),
             next_pid' \in {next_pid, next_pid + 1}, UNCHANGED parentOf
      PROVE  ForksRecorded'
    <2>1. \A i \in 1 .. MAX_PID : i >= next_pid' => parentOf'[i] = 0
        BY <1>0, <1>1 DEF ForksRecorded
    <2>2. \A p \in Procs' : parentOf'[pcb'[p].pid] = 0 =>
              pcb'[p].user_stack_base = pcb'[p].stack
        BY <1>1 DEF ForksRecorded, SameLinks
    <2>. QED  BY <1>1, <2>1, <2>2 DEF ForksRecorded
<1>2. CASE Born
    <2>0. /\ next_pid \in 1 .. MAX_PID /\ next_pid' = next_pid + 1
          /\ \A p \in Procs : pcb[p].pid # next_pid
        BY <1>0, <1>2 DEF Born
    <2>1. PICK child : child = H1.addr
        OBVIOUS
    <2>2. /\ child \in Page /\ child \notin Procs
          /\ OnlyAt(pcb', child) /\ Procs' = Procs \cup {child}
          /\ pcb'[child].pid = next_pid /\ pcb'[child].stack = H2.addr
        BY <1>2, <2>1 DEF Born, Made
    <2>3. \A p \in Procs : pcb'[p] = pcb[p]
        BY <1>0, <2>2 DEF OnlyAt
    <2>4. CASE pcb'[child].user_stack_base = H2.addr /\ UNCHANGED parentOf
        <3>1. \A i \in 1 .. MAX_PID : i >= next_pid' => parentOf'[i] = 0
            BY <2>0, <2>4 DEF ForksRecorded
        <3>2. \A p \in Procs' : parentOf'[pcb'[p].pid] = 0 =>
                  pcb'[p].user_stack_base = pcb'[p].stack
            BY <2>2, <2>3, <2>4 DEF ForksRecorded
        <3>. QED  BY <2>4, <3>1, <3>2 DEF ForksRecorded
    <2>5. CASE /\ mode = "user"
               /\ parentOf' = [parentOf EXCEPT ![next_pid] =
                                  pcb[current_process].pid]
        <3>1. pcb[current_process].pid \in 1 .. MAX_PID
            BY <1>0, <2>5, RunningProcess
        <3>2. /\ parentOf' \in [1 .. MAX_PID -> 0 .. MAX_PID]
              /\ parentOf'[next_pid] = pcb[current_process].pid
              /\ \A i \in 1 .. MAX_PID : i # next_pid => parentOf'[i] = parentOf[i]
            BY <1>0, <2>0, <2>5, <3>1 DEF ForksRecorded
        <3>3. \A i \in 1 .. MAX_PID : i >= next_pid' => parentOf'[i] = 0
            BY <2>0, <3>2 DEF ForksRecorded
        <3>4. ASSUME NEW p \in Procs, parentOf'[pcb'[p].pid] = 0
              PROVE  pcb'[p].user_stack_base = pcb'[p].stack
            BY <1>0, <2>0, <2>3, <3>2, <3>4 DEF ForksRecorded
        <3>5. parentOf'[pcb'[child].pid] # 0
            BY <2>2, <3>1, <3>2
        <3>. QED  BY <2>2, <3>2, <3>3, <3>4, <3>5 DEF ForksRecorded
    <2>. QED  BY <1>2, <2>1, <2>4, <2>5 DEF Born
<1>3. CASE Stillborn
    <2>1. Procs' = Procs /\ UNCHANGED parentOf
        BY <1>3 DEF Stillborn, Procs
    <2>2. \A p \in Procs : pcb'[p] = pcb[p]
        BY <1>0, <1>3 DEF Stillborn, HalfMade, OnlyAt
    <2>3. next_pid' \in {next_pid, next_pid + 1}
        BY <1>3 DEF Stillborn
    <2>. QED  BY <1>1, <2>1, <2>2, <2>3 DEF SameLinks
<1>4. ASSUME NEW m, Switches(m)
      PROVE  ForksRecorded'
    BY <1>0, <1>1, <1>4, SwitchKeepsLinks DEF Switches
<1>5. ASSUME NEW status, NEW m, NEW q, Exits(m, q, status)
      PROVE  ForksRecorded'
    BY <1>0, <1>1, <1>5, ExitKeepsLinks DEF Exits
<1>6. ASSUME NEW child, Reaps(child)
      PROVE  ForksRecorded'
    BY <1>1, <1>6 DEF Reaps, SameLinks
<1>7. CASE Quiet
    <2>1. Procs' = Procs /\ pcb' = pcb /\ UNCHANGED <<next_pid, parentOf>>
        BY <1>7 DEF Quiet, Procs
    <2>. QED  BY <1>1, <2>1 DEF SameLinks
<1>. QED  BY <1>2, <1>3, <1>4, <1>5, <1>6, <1>7, NextShapes

(* schedule() gives the CPU to a process with a frame to go on at, if      *)
(* everyone it may choose has one.                                         *)
LEMMA ScheduleFrames ==
    ASSUME SchedulerInv, NEW m, NEW q, Schedulable(m, q), schedule(m, q),
           \A p \in Procs : m[p].state \in {STATE_READY, STATE_RUNNING} =>
               HasFrame(m[p])
    PROVE  /\ \A p \in Procs : pcb'[p].state = STATE_READY => HasFrame(pcb'[p])
           /\ mode' # "crashed"
<1>1. \A p \in Procs : pcb'[p].state = STATE_READY => HasFrame(pcb'[p])
    BY ScheduleLinks DEF HasFrame
<1>2. ASSUME mode' = "crashed"
      PROVE  FALSE
    <2>1. /\ current_process' \in Procs
          /\ mode' = ModeOn(m, current_process')
          /\ m[current_process'].state \in {STATE_READY, STATE_RUNNING}
        BY <1>2, ScheduleLinks
    <2>. QED  BY <1>2, <2>1 DEF ModeOn, HasFrame
<1>. QED  BY <1>1, <1>2

(* schedule() saves no frame: only who gets the CPU has his used up.       *)
LEMMA ScheduleBlocked ==
    ASSUME SchedulerInv, NEW m, NEW q, Schedulable(m, q), schedule(m, q),
           NEW p \in Page, m[p].state = STATE_BLOCKED
    PROVE  pcb'[p].resume = m[p].resume
<1>1. /\ m \in [Page -> PCBs] /\ q \in Seq(Page)
      /\ current_process \in Page \cup {NULL} /\ TypeOK
    BY ProcsArePages DEF Schedulable, SchedulerInv, TypeOK
<1>2. CASE Idles(m, q)
    BY <1>2 DEF Idles
<1>3. ASSUME NEW n \in Page, Dispatches(m, RequeuedQueue(m, q), n)
      PROVE  pcb'[p].resume = m[p].resume
    <2>1. pcb'[n].state = STATE_RUNNING
        BY <1>3 DEF Dispatches
    <2>2. pcb'[p].state = STATE_BLOCKED
        BY ScheduleLinks
    <2>3. p # n
        BY <2>1, <2>2, StatesDiffer
    <2>. QED  BY <1>3, <2>3 DEF Dispatches
<1>. QED  BY <1>1, <1>2, <1>3, ScheduleFacts

(* With plain calls, every step keeps saved frames resumable.              *)
LEMMA FramesStay ==
    ASSUME SchedulerInv, PidsDiffer, ForksRecorded, FramesKept, PlainCalls,
           [Next]_vars
    PROVE  FramesKept'
<1>. DEFINE c == current_process
<1>0. Procs \subseteq Page
    BY ProcsArePages DEF SchedulerInv
<1>1. CASE Born
    <2>1. PICK child : child = H1.addr
        OBVIOUS
    <2>2. /\ child \in Page /\ child \notin Procs /\ OnlyAt(pcb', child)
          /\ pcb'[child].state = STATE_READY /\ Procs' = Procs \cup {child}
          /\ mode' = mode
        BY <1>1, <2>1 DEF Born, Made
    <2>3. \A p \in Procs : pcb'[p] = pcb[p]
        BY <1>0, <2>2 DEF OnlyAt
    <2>4. pcb'[child].resume \in {"entry", "fork"}
        <3>1. CASE mode = "user" /\ MayFork /\ pcb'[child].resume = ForkFrame
            <4>1. parentOf[pcb[c].pid] = 0
                BY <3>1 DEF MayFork, PlainCalls
            <4>2. pcb[c].user_stack_base = pcb[c].stack
                BY <3>1, <4>1, RunningProcess DEF ForksRecorded
            <4>. QED  BY <3>1, <4>2 DEF ForkFrame
        <3>. QED  BY <1>1, <2>1, <3>1 DEF Born
    <2>. QED  BY <2>2, <2>3, <2>4, StatesDiffer DEF FramesKept, HasFrame
<1>2. CASE Stillborn
    <2>1. Procs' = Procs /\ mode' = mode
        BY <1>2 DEF Stillborn, Procs
    <2>2. \A p \in Procs : pcb'[p] = pcb[p]
        BY <1>0, <1>2 DEF Stillborn, HalfMade, OnlyAt
    <2>. QED  BY <2>1, <2>2 DEF FramesKept
<1>3. ASSUME NEW m, Switches(m)
      PROVE  FramesKept'
    <2>1. Procs' = Procs /\ Schedulable(m, ready_queue) /\ schedule(m, ready_queue)
        BY <1>3 DEF Switches, HandsOver, Procs
    <2>2. ASSUME NEW p \in Procs
          PROVE  /\ m[p].state \in {STATE_READY, STATE_RUNNING} => HasFrame(m[p])
                 /\ m[p].state = STATE_BLOCKED => m[p].resume = "wait"
        <3>1. pcb[p].state = STATE_RUNNING => p = c /\ mode \notin CLI
            BY DEF SchedulerInv, QueueDiscipline
        <3>2. CASE p # c \/ (m = pcb /\ mode \in CLI)
            <4>1. m[p] = pcb[p] /\ pcb[p].state # STATE_RUNNING
                BY <1>0, <1>3, <3>1, <3>2 DEF Switches, HandsOver
            <4>. QED  BY <4>1 DEF FramesKept
        <3>3. CASE p = c /\ ~(m = pcb /\ mode \in CLI)
            <4>1. /\ mode = "user"
                  /\ \/ m[c].state = pcb[c].state /\ m[c].resume = "yield"
                     \/ m[c].state = STATE_EXIT
                     \/ m[c].state = STATE_BLOCKED /\ m[c].resume = "wait"
                BY <1>3, <3>3 DEF Switches, Handed, PlainCalls
            <4>2. pcb[c].state = STATE_RUNNING
                BY <4>1, RunningProcess
            <4>. QED  BY <3>3, <4>1, <4>2, StatesDiffer DEF HasFrame
        <3>. QED  BY <3>2, <3>3
    <2>3. /\ \A p \in Procs : pcb'[p].state = STATE_READY => HasFrame(pcb'[p])
          /\ mode' # "crashed"
        BY <2>1, <2>2, ScheduleFrames
    <2>4. ASSUME NEW p \in Procs, pcb'[p].state = STATE_BLOCKED
          PROVE  pcb'[p].resume = "wait"
        <3>1. p \in Page /\ m[p].state = STATE_BLOCKED
            BY <1>0, <2>1, <2>4, ScheduleLinks
        <3>2. pcb'[p].resume = m[p].resume
            BY <2>1, <3>1, ScheduleBlocked
        <3>. QED  BY <2>2, <3>1, <3>2
    <2>. QED  BY <2>1, <2>3, <2>4 DEF FramesKept
<1>4. ASSUME NEW m, NEW q, NEW status, Exits(m, q, status)
      PROVE  FramesKept'
    <2>1. Procs' = Procs /\ Schedulable(m, q) /\ schedule(m, q)
        BY <1>4 DEF Exits, ExitHands, Procs
    <2>2. ASSUME NEW p \in Procs
          PROVE  /\ m[p].state \in {STATE_READY, STATE_RUNNING} => HasFrame(m[p])
                 /\ m[p].state = STATE_BLOCKED => m[p].resume = "wait"
        <3>1. pcb[p].state = STATE_RUNNING => p = c
            BY DEF SchedulerInv, QueueDiscipline
        <3>2. CASE p = c
            BY <1>4, <3>2, StatesDiffer DEF Exits, ExitHands
        <3>3. CASE p # c
            <4>1. m[p].resume = pcb[p].resume
                BY <1>0, <1>4 DEF Exits, ExitHands
            <4>2. m[p] = pcb[p] \/ (pcb[p].state = STATE_BLOCKED
                                    /\ m[p].state = STATE_READY)
                BY <1>0, <1>4, <3>3 DEF Exits, ExitHands
            <4>3. pcb[p].state # STATE_RUNNING
                BY <3>1, <3>3
            <4>. QED  BY <4>1, <4>2, <4>3, StatesDiffer DEF FramesKept, HasFrame
        <3>. QED  BY <3>2, <3>3
    <2>3. /\ \A p \in Procs : pcb'[p].state = STATE_READY => HasFrame(pcb'[p])
          /\ mode' # "crashed"
        BY <2>1, <2>2, ScheduleFrames
    <2>4. ASSUME NEW p \in Procs, pcb'[p].state = STATE_BLOCKED
          PROVE  pcb'[p].resume = "wait"
        <3>1. p \in Page /\ m[p].state = STATE_BLOCKED
            BY <1>0, <2>1, <2>4, ScheduleLinks
        <3>2. pcb'[p].resume = m[p].resume
            BY <2>1, <3>1, ScheduleBlocked
        <3>. QED  BY <2>2, <3>1, <3>2
    <2>. QED  BY <2>1, <2>3, <2>4 DEF FramesKept
<1>5. ASSUME NEW child, Reaps(child)
      PROVE  FramesKept'
    BY <1>5 DEF Reaps, FramesKept
<1>6. CASE Quiet
    <2>1. Procs' = Procs /\ pcb' = pcb
        BY <1>6 DEF Quiet, Procs
    <2>2. mode' # "crashed"
        BY <1>6 DEF Quiet, FramesKept
    <2>. QED  BY <2>1, <2>2 DEF FramesKept
<1>. QED  BY <1>1, <1>2, <1>3, <1>4, <1>5, <1>6, NextShapes

(* Without processes there are no forks and no frames.                     *)
LEMMA InitFrames == Init => ForksRecorded /\ FramesKept
<1>1. Init => Procs = {} /\ mode = "cli"
    BY DEF Init, Procs
<1>2. Init => parentOf = [i \in 1 .. MAX_PID |-> 0]
    BY DEF Init
<1>. QED  BY <1>1, <1>2, ProcessAssumption DEF ForksRecorded, FramesKept

(* A program's fork_syscall copies the right stack, and the parents on     *)
(* record are those of the pids given out.                                 *)
THEOREM ForksCorrect == Spec => []ForksRecorded
<1>1. WaitInv /\ ForksRecorded /\ [Next]_vars => ForksRecorded'
    BY ForksKept DEF WaitInv
<1>. QED  BY <1>1, InitFrames, WaitingCorrect, PTL DEF Spec

(* schedule() only resumes processes at frames they left, whatever the     *)
(* heap, as long as no forked process forks and no program calls           *)
(* schedule() itself.                                                      *)
THEOREM FramesResumed ==
    ASSUME PlainCalls
    PROVE  Spec => []ResumesOwnFrame
<1>1. WaitInv /\ ForksRecorded /\ FramesKept /\ [Next]_vars => FramesKept'
    BY FramesStay DEF WaitInv
<1>2. FramesKept => ResumesOwnFrame
    BY DEF FramesKept, ResumesOwnFrame
<1>. QED  BY <1>1, <1>2, InitFrames, WaitingCorrect, ForksCorrect, PTL DEF Spec

-----------------------------------------------------------------------------
(***************************************************************************)
(* Where PCBs and stacks come to lie in the heap.  kmalloc neither checks   *)
(* that a block stays inside kernel_memory nor do its callers check the     *)
(* kernel stack's address for NULL; what keeps processes apart is that a    *)
(* PCB takes one page, a stack two, and the heap 5 k + 1 pages.            *)
(*                                                                         *)
(* The cursor moves up in steps of five pages, PCB and two stacks, until a  *)
(* PCB takes the last page.  From then on no two neighbouring pages are     *)
(* ever free, so no stack is found and no page holds a second process.      *)
(***************************************************************************)

LastPage == NUM_PAGES - 1

(* The sizes and tags the proofs compute with, from the assumptions.       *)
LEMMA SizesFacts ==
    /\ NUM_PAGES \in Nat /\ NUM_PAGES >= 1 /\ NUM_PAGES % 5 = 1
    /\ LastPage \in Page /\ LastPage \in Nat /\ LastPage % 5 = 0
    /\ FREE # HEAD /\ FREE # TAIL /\ HEAD # TAIL
<1>1. NUM_PAGES \in Nat /\ NUM_PAGES >= 1 /\ NUM_PAGES % 5 = 1
    BY HeapAssumption, LayoutAssumption
<1>2. (NUM_PAGES - 1) % 5 = 0
    BY <1>1
<1>. QED  BY <1>1, <1>2 DEF LastPage, Page, FREE, HEAD, TAIL

(* The first page no process has been put in or behind.                    *)
Frontier(pt, last) == IF pt[LastPage] = FREE THEN last ELSE LastPage

(* Below the frontier PCBs and stacks alternate, a PCB in every fifth      *)
(* page, which may have been freed; above it everything is free until a    *)
(* PCB is in the last page.                                                *)
LaidOut(pt, last) ==
    /\ Frontier(pt, last) % 5 = 0
    /\ pt[LastPage] \in {FREE, HEAD}
    /\ \A p \in Page : p < Frontier(pt, last) =>
          /\ p % 5 = 0 => pt[p] \in {FREE, HEAD}
          /\ p % 5 \in {1, 3} => pt[p] = HEAD
          /\ p % 5 \in {2, 4} => pt[p] = TAIL
    /\ pt[LastPage] = FREE =>
          \A p \in Page : p >= Frontier(pt, last) => pt[p] = FREE

FreeAt(pt, a, n) == \A j \in 0 .. n - 1 : pt[a + j] = FREE

(* allocate_pages takes the pages at the cursor if they are free.          *)
LEMMA AllocateAtCursor ==
    ASSUME NEW pt \in [Page -> Tags], NEW last \in Page, NEW n \in 1 .. 2,
           last + n <= NUM_PAGES, FreeAt(pt, last, n),
           NEW h, h = AllocatePages(pt, last, n)
    PROVE  /\ h.addr = last
           /\ h.page_table = Tagged(pt, last, n)
           /\ h.last_page_index = IF last + n < NUM_PAGES THEN last + n ELSE 0
<1>. DEFINE F == Fits(pt, last, n)
            x == CHOOSE i \in F : IsLeast(i, F)
<1>0. NUM_PAGES \in Nat /\ NUM_PAGES >= 1 /\ last \in Nat /\ last < NUM_PAGES
    BY HeapAssumption DEF Page
<1>1. ASSUME NEW j \in 0 .. n - 1
      PROVE  pt[Index(last, 0 + j)] = FREE
    <2>1. 0 + j \in 0 .. NUM_PAGES /\ last + j < NUM_PAGES /\ 0 + j = j
        BY <1>0
    <2>2. Index(last, 0 + j) = last + j
        BY <1>0, <2>1, IndexFacts
    <2>. QED  BY <2>2 DEF FreeAt
<1>2. 0 \in F
    BY <1>0, <1>1 DEF Fits
<1>3. F \in SUBSET Nat
    BY <1>0 DEF Fits
<1>4. x \in F /\ IsLeast(x, F)
    <2>1. \E i \in F : IsLeast(i, F)
        BY <1>2, <1>3, LeastExists
    <2>. QED  BY <2>1
<1>5. h = [addr |-> Index(last, x), page_table |-> Tagged(pt, Index(last, x), n),
           last_page_index |-> CursorBehind(Index(last, x), n)]
    BY <1>2 DEF AllocatePages
<1>. HIDE DEF x, F
<1>6. x = 0
    BY <1>2, <1>3, <1>4 DEF IsLeast
<1>7. Index(last, 0) = last
    BY <1>0, IndexFacts
<1>8. CursorBehind(last, n) = IF last + n < NUM_PAGES THEN last + n ELSE 0
    <2>1. n \in 0 .. NUM_PAGES
        BY <1>0
    <2>. QED  BY <1>0, <2>1, IndexFacts DEF CursorBehind
<1>. QED  BY <1>5, <1>6, <1>7, <1>8

(* The tags of a block of one or two pages that does not wrap.             *)
LEMMA TaggedOne ==
    ASSUME NEW pt \in [Page -> Tags], NEW a \in Page, NEW p \in Page
    PROVE  Tagged(pt, a, 1)[p] = IF p = a THEN HEAD ELSE pt[p]
<1>0. NUM_PAGES \in Nat /\ NUM_PAGES >= 1 /\ a \in Nat /\ a < NUM_PAGES
      /\ p \in Nat /\ p < NUM_PAGES /\ 1 \in 1 .. NUM_PAGES
    BY HeapAssumption DEF Page
<1>1. p \in BlockPages(a, 1) <=> (a <= p /\ p < a + 1) \/ p + NUM_PAGES < a + 1
    BY <1>0, BlockPagesFacts
<1>2. p # a => p \notin BlockPages(a, 1)
    BY <1>0, <1>1
<1>. QED  BY <1>2 DEF Tagged

(* A block of two pages: one head and one tail.                            *)
LEMMA TaggedTwo ==
    ASSUME NEW pt \in [Page -> Tags], NEW a \in Page, a + 1 \in Page,
           NEW p \in Page
    PROVE  Tagged(pt, a, 2)[p] =
              IF p = a THEN HEAD ELSE IF p = a + 1 THEN TAIL ELSE pt[p]
<1>0. NUM_PAGES \in Nat /\ a \in Nat /\ a + 1 < NUM_PAGES
      /\ p \in Nat /\ p < NUM_PAGES /\ 2 \in 1 .. NUM_PAGES
    BY HeapAssumption DEF Page
<1>1. p \in BlockPages(a, 2) <=> (a <= p /\ p < a + 2) \/ p + NUM_PAGES < a + 2
    BY <1>0, BlockPagesFacts
<1>2. p # a => (p \in BlockPages(a, 2) <=> p = a + 1)
    BY <1>0, <1>1
<1>. QED  BY <1>2 DEF Tagged

-----------------------------------------------------------------------------
(* The three requests of a creation.                                       *)

(* There is room above the frontier.                                       *)
Growing(pt, last) == pt[LastPage] = FREE /\ last < LastPage

(* The three requests of create_process and fork_syscall, in pages.        *)
LEMMA Requests ==
    /\ H1 = AllocatePages(page_table, last_page_index, 1)
    /\ H2 = AllocatePages(H1.page_table, H1.last_page_index, 2)
    /\ H3 = AllocatePages(H2.page_table, H2.last_page_index, 2)
<1>1. heap.page_table = page_table /\ heap.last_page_index = last_page_index
    BY DEF heap
<1>. QED
    BY <1>1, LayoutAssumption DEF H1, H2, H3, Kmalloc, allocate_kernel_stack

(* Then the three blocks come to lie behind each other at the frontier.    *)
Stacked(f) ==
    /\ H1.addr = f /\ H2.addr = f + 1 /\ H3.addr = f + 3
    /\ H3.last_page_index = f + 5
    /\ H3.page_table \in [Page -> Tags]
    /\ \A p \in Page : H3.page_table[p] =
          IF p \in {f, f + 1, f + 3} THEN HEAD
          ELSE IF p \in {f + 2, f + 4} THEN TAIL ELSE page_table[p]

(* While the cursor grows, PCB and stacks take the next five pages.        *)
LEMMA RoomForProcess ==
    ASSUME TypeOK, LaidOut(page_table, last_page_index),
           Growing(page_table, last_page_index),
           NEW f, f = last_page_index
    PROVE  f \in Nat /\ f % 5 = 0 /\ f + 5 <= LastPage /\ Stacked(f)
<1>0. /\ page_table \in [Page -> Tags] /\ f \in Page /\ f \in Nat
      /\ f < LastPage
    BY HeapAssumption DEF TypeOK, Tags, Page, Growing
<1>1. f % 5 = 0 /\ \A p \in Page : p >= f => page_table[p] = FREE
    BY DEF LaidOut, Frontier, Growing
<1>2. f + 5 <= LastPage
    BY <1>0, <1>1, SizesFacts
<1>3. /\ f + 1 \in Page /\ f + 2 \in Page /\ f + 3 \in Page
      /\ f + 4 \in Page /\ f + 5 \in Page
      /\ f + 1 < NUM_PAGES /\ f + 3 < NUM_PAGES /\ f + 5 < NUM_PAGES
    BY <1>0, <1>2, SizesFacts DEF Page, LastPage
<1>4. /\ H1.addr = f /\ H1.last_page_index = f + 1
      /\ H1.page_table = Tagged(page_table, f, 1)
      /\ H1.page_table \in [Page -> Tags]
    <2>1. FreeAt(page_table, f, 1)
        BY <1>0, <1>1 DEF FreeAt
    <2>2. 1 \in 1 .. 2 /\ 1 \in Nat
        OBVIOUS
    <2>3. H1.page_table \in [Page -> Tags]
        BY <1>0, <2>2, Requests, AllocateCases
    <2>4. H1 = AllocatePages(page_table, f, 1) /\ f + 1 <= NUM_PAGES
        BY <1>0, <1>3, Requests, SizesFacts
    <2>5. /\ H1.addr = f /\ H1.page_table = Tagged(page_table, f, 1)
          /\ H1.last_page_index = IF f + 1 < NUM_PAGES THEN f + 1 ELSE 0
        BY <1>0, <2>1, <2>2, <2>4, AllocateAtCursor
    <2>. QED  BY <1>3, <2>3, <2>5
<1>5. ASSUME NEW p \in Page
      PROVE  H1.page_table[p] = IF p = f THEN HEAD ELSE page_table[p]
    <2>1. Tagged(page_table, f, 1)[p] = IF p = f THEN HEAD ELSE page_table[p]
        BY <1>0, TaggedOne
    <2>. QED  BY <1>4, <2>1
<1>6. /\ H2.addr = f + 1 /\ H2.last_page_index = f + 3
      /\ H2.page_table = Tagged(H1.page_table, f + 1, 2)
      /\ H2.page_table \in [Page -> Tags]
    <2>0. DEFINE g == f + 1
    <2>1. FreeAt(H1.page_table, g, 2)
        <3>1. H1.page_table[f + 1] = FREE /\ H1.page_table[f + 2] = FREE
            BY <1>0, <1>1, <1>3, <1>5
        <3>2. \A j \in 0 .. 2 - 1 : g + j = f + 1 \/ g + j = f + 2
            BY <1>0
        <3>. QED  BY <3>1, <3>2 DEF FreeAt
    <2>2. 2 \in 1 .. 2 /\ 2 \in Nat /\ g \in Page /\ g + 2 <= NUM_PAGES
          /\ g + 2 < NUM_PAGES /\ g + 2 = f + 3
        BY <1>0, <1>3, SizesFacts
    <2>3. H2 = AllocatePages(H1.page_table, g, 2)
        BY <1>4, Requests
    <2>. HIDE DEF g
    <2>4. H2.page_table \in [Page -> Tags]
        BY <1>4, <2>2, <2>3, AllocateCases
    <2>5. /\ H2.addr = g /\ H2.page_table = Tagged(H1.page_table, g, 2)
          /\ H2.last_page_index = IF g + 2 < NUM_PAGES THEN g + 2 ELSE 0
        BY <1>4, <2>1, <2>2, <2>3, AllocateAtCursor
    <2>. QED  BY <2>2, <2>4, <2>5 DEF g
<1>7. \A p \in Page : H2.page_table[p] =
          IF p = f + 1 THEN HEAD ELSE IF p = f + 2 THEN TAIL
          ELSE H1.page_table[p]
    <2>1. (f + 1) + 1 = f + 2
        BY <1>0
    <2>. QED  BY <1>3, <1>4, <1>6, <2>1, TaggedTwo
<1>8. /\ H3.addr = f + 3 /\ H3.last_page_index = f + 5
      /\ H3.page_table = Tagged(H2.page_table, f + 3, 2)
      /\ H3.page_table \in [Page -> Tags]
    <2>0. DEFINE g == f + 3
    <2>1. FreeAt(H2.page_table, g, 2)
        <3>1. H2.page_table[f + 3] = FREE /\ H2.page_table[f + 4] = FREE
            BY <1>0, <1>1, <1>3, <1>5, <1>7
        <3>2. \A j \in 0 .. 2 - 1 : g + j = f + 3 \/ g + j = f + 4
            BY <1>0
        <3>. QED  BY <3>1, <3>2 DEF FreeAt
    <2>2. 2 \in 1 .. 2 /\ 2 \in Nat /\ g \in Page /\ g + 2 <= NUM_PAGES
          /\ g + 2 < NUM_PAGES /\ g + 2 = f + 5
        BY <1>0, <1>3, SizesFacts
    <2>3. H3 = AllocatePages(H2.page_table, g, 2)
        BY <1>6, Requests
    <2>. HIDE DEF g
    <2>4. H3.page_table \in [Page -> Tags]
        BY <1>6, <2>2, <2>3, AllocateCases
    <2>5. /\ H3.addr = g /\ H3.page_table = Tagged(H2.page_table, g, 2)
          /\ H3.last_page_index = IF g + 2 < NUM_PAGES THEN g + 2 ELSE 0
        BY <1>6, <2>1, <2>2, <2>3, AllocateAtCursor
    <2>. QED  BY <2>2, <2>4, <2>5 DEF g
<1>9. \A p \in Page : H3.page_table[p] =
          IF p = f + 3 THEN HEAD ELSE IF p = f + 4 THEN TAIL
          ELSE H2.page_table[p]
    <2>1. (f + 3) + 1 = f + 4
        BY <1>0
    <2>. QED  BY <1>3, <1>6, <1>8, <2>1, TaggedTwo
<1>10. ASSUME NEW p \in Page
       PROVE  H3.page_table[p] =
                 IF p \in {f, f + 1, f + 3} THEN HEAD
                 ELSE IF p \in {f + 2, f + 4} THEN TAIL ELSE page_table[p]
    <2>1. /\ H1.page_table[p] = IF p = f THEN HEAD ELSE page_table[p]
          /\ H2.page_table[p] = IF p = f + 1 THEN HEAD
                                ELSE IF p = f + 2 THEN TAIL ELSE H1.page_table[p]
          /\ H3.page_table[p] = IF p = f + 3 THEN HEAD
                                ELSE IF p = f + 4 THEN TAIL ELSE H2.page_table[p]
        BY <1>5, <1>7, <1>9
    <2>2. p \in Nat /\ f \in Nat
        BY <1>0, HeapAssumption DEF Page
    <2>. QED  BY <2>1, <2>2
<1>. QED  BY <1>0, <1>1, <1>2, <1>4, <1>6, <1>8, <1>10 DEF Stacked

(* Otherwise a PCB may still be found, in a fifth page, but no stack.      *)
OnlyPCB(a) ==
    /\ a \in Page /\ a % 5 = 0 /\ page_table[a] = FREE
    /\ H1.page_table \in [Page -> Tags] /\ H1.page_table[LastPage] = HEAD
    /\ \A p \in Page : H1.page_table[p] = IF p = a THEN HEAD ELSE page_table[p]
    /\ H2.addr = NULL

(* Once the last page is taken, a PCB may still be found, a stack not.     *)
LEMMA NoRoomForProcess ==
    ASSUME TypeOK, LaidOut(page_table, last_page_index),
           ~Growing(page_table, last_page_index), H1.addr # NULL
    PROVE  OnlyPCB(H1.addr)
<1>. DEFINE a == H1.addr
            pt == H1.page_table
            last == H1.last_page_index
<1>0. page_table \in [Page -> Tags] /\ last_page_index \in Page /\ 1 \in Nat
    BY DEF TypeOK, Tags
<1>1. /\ pt \in [Page -> Tags] /\ last \in Page /\ a \in Page
      /\ page_table[a] = FREE /\ pt = Tagged(page_table, a, 1)
    BY <1>0, Requests, AllocateCases
<1>2. H2 = AllocatePages(pt, last, 2)
    BY Requests
<1>3. \A p \in Page : pt[p] = IF p = a THEN HEAD ELSE page_table[p]
    BY <1>0, <1>1, TaggedOne
<1>. HIDE DEF a, pt, last
<1>4. Frontier(page_table, last_page_index) = LastPage
    BY <1>0, SizesFacts DEF Growing, Frontier, Page, LastPage
<1>5. \A p \in Page : p < LastPage =>
          /\ p % 5 = 0 => page_table[p] \in {FREE, HEAD}
          /\ p % 5 \in {1, 3} => page_table[p] = HEAD
          /\ p % 5 \in {2, 4} => page_table[p] = TAIL
    BY <1>4 DEF LaidOut
<1>6. ASSUME NEW p \in Page, page_table[p] = FREE
      PROVE  p % 5 = 0
    <2>1. CASE p < LastPage
        <3>1. p % 5 \in {0, 1, 2, 3, 4}
            BY HeapAssumption DEF Page
        <3>. QED  BY <1>5, <1>6, <2>1, <3>1, SizesFacts
    <2>2. CASE p = LastPage
        BY <2>2, SizesFacts
    <2>. QED  BY <2>1, <2>2, HeapAssumption DEF Page, LastPage
<1>7. pt[LastPage] = HEAD
    <2>1. CASE page_table[LastPage] = HEAD
        BY <1>3, <2>1, SizesFacts
    <2>2. CASE page_table[LastPage] = FREE
        <3>1. last_page_index = LastPage
            BY <1>0, <2>2, SizesFacts DEF Growing, Page, LastPage
        <3>2. FreeAt(page_table, last_page_index, 1)
            BY <2>2, <3>1, SizesFacts DEF FreeAt
        <3>3. last_page_index + 1 <= NUM_PAGES /\ 1 \in 1 .. 2
            BY <3>1, SizesFacts DEF LastPage
        <3>4. a = last_page_index
            BY <1>0, <3>2, <3>3, Requests, AllocateAtCursor DEF a
        <3>. QED  BY <1>1, <1>3, <3>1, <3>4
    <2>. QED  BY <2>1, <2>2 DEF LaidOut
<1>8. ASSUME NEW i \in Fits(pt, last, 2)
      PROVE  FALSE
    <2>. DEFINE x == Index(last, i)
                y == Index(last, i + 1)
    <2>1. i \in 0 .. NUM_PAGES - 2
          /\ \A j \in 0 .. 2 - 1 : pt[Index(last, i + j)] = FREE
        BY DEF Fits
    <2>2. i \in Nat /\ i + 0 = i /\ i + 1 < NUM_PAGES
          /\ 0 \in 0 .. 2 - 1 /\ 1 \in 0 .. 2 - 1
        BY <2>1, SizesFacts
    <2>3. pt[x] = FREE /\ pt[y] = FREE
        BY <2>1, <2>2
    <2>4. i \in 0 .. NUM_PAGES /\ i + 1 \in 0 .. NUM_PAGES
        BY <2>2, SizesFacts
    <2>5. /\ x = IF last + i < NUM_PAGES THEN last + i ELSE last + i - NUM_PAGES
          /\ x \in Page
          /\ y = IF last + (i + 1) < NUM_PAGES THEN last + (i + 1)
                 ELSE last + (i + 1) - NUM_PAGES
          /\ y \in Page
        BY <1>1, <2>4, IndexFacts
    <2>. HIDE DEF x, y
    <2>6. x # LastPage
        BY <1>7, <2>3, SizesFacts
    <2>7. /\ x \in Nat /\ x < LastPage /\ y = x + 1
        BY <1>1, <2>2, <2>5, <2>6, SizesFacts DEF Page, LastPage
    <2>8. page_table[x] = FREE
        BY <1>1, <1>3, <2>3, <2>5, SizesFacts
    <2>9. x % 5 = 0
        BY <1>6, <2>5, <2>8
    <2>10. y % 5 = 1
        BY <2>7, <2>9
    <2>11. y < LastPage
        BY <2>7, <2>10, SizesFacts
    <2>12. page_table[y] = HEAD
        BY <1>5, <2>5, <2>10, <2>11
    <2>. QED  BY <1>3, <2>3, <2>5, <2>12, SizesFacts
<1>9. H2.addr = NULL
    <2>1. Fits(pt, last, 2) = {}
        BY <1>8
    <2>. QED  BY <1>2, <2>1 DEF AllocatePages
<1>10. a % 5 = 0
    BY <1>1, <1>6
<1>. QED  BY <1>1, <1>3, <1>7, <1>9, <1>10 DEF OnlyPCB, a, pt

-----------------------------------------------------------------------------
(* The layout is kept.                                                     *)

(* PCBs are written in every fifth page only, below the frontier while     *)
(* there is one, and the stacks of a process lie behind its PCB.           *)
Placed(P, m, pt, last) ==
    /\ \A p \in Page : p % 5 # 0 => m[p] = ZeroPCB
    /\ pt[LastPage] = FREE =>
          \A p \in Page : p >= Frontier(pt, last) => m[p] = ZeroPCB
    /\ \A p \in P : /\ p < Frontier(pt, last) /\ p % 5 = 0
                    /\ m[p].stack = p + 1 /\ m[p].kernel_stack_base = p + 3

LayoutKept ==
    /\ LaidOut(page_table, last_page_index)
    /\ Placed(Procs, pcb, page_table, last_page_index)

frontier == Frontier(page_table, last_page_index)

(* The frontier is a page.                                                 *)
LEMMA FrontierType ==
    ASSUME TypeOK
    PROVE  frontier \in Page /\ frontier \in Nat /\ frontier <= LastPage
<1>1. last_page_index \in Page /\ last_page_index \in Nat
    BY HeapAssumption DEF TypeOK, Page
<1>. QED  BY <1>1, SizesFacts DEF frontier, Frontier, Page, LastPage

(* A new process is at the frontier, which moves five pages up.            *)
LEMMA BornAtFrontier ==
    ASSUME SchedulerInv, LayoutKept, Born
    PROVE  /\ H1.addr = frontier /\ frontier % 5 = 0
           /\ pcb[frontier] = ZeroPCB
           /\ page_table[LastPage] = FREE
           /\ frontier + 5 <= LastPage
           /\ page_table' = H3.page_table /\ last_page_index' = frontier + 5
           /\ Stacked(frontier)
           /\ frontier' = frontier + 5
<1>. DEFINE f == frontier
<1>0. TypeOK /\ LaidOut(page_table, last_page_index)
    BY DEF SchedulerInv, LayoutKept
<1>1. H1.addr # NULL /\ H2.addr # NULL /\ SetHeap(H3)
    BY NullIsNoPage DEF Born, Made
<1>2. Growing(page_table, last_page_index)
    <2>1. SUFFICES ASSUME ~Growing(page_table, last_page_index)
                   PROVE  FALSE
        OBVIOUS
    <2>2. OnlyPCB(H1.addr)
        BY <1>0, <1>1, <2>1, NoRoomForProcess
    <2>. QED  BY <1>1, <2>2 DEF OnlyPCB
<1>3. f = last_page_index /\ page_table[LastPage] = FREE
    BY <1>2 DEF Growing, frontier, Frontier
<1>. HIDE DEF f
<1>4. f \in Nat /\ f % 5 = 0 /\ f + 5 <= LastPage /\ Stacked(f)
    BY <1>0, <1>2, <1>3, RoomForProcess
<1>5. f \in Page
    BY <1>0, FrontierType DEF f
<1>6. pcb[f] = ZeroPCB
    BY <1>3, <1>4, <1>5 DEF LayoutKept, Placed, f, frontier
<1>7. page_table' = H3.page_table /\ last_page_index' = f + 5 /\ H1.addr = f
    BY <1>1, <1>4 DEF SetHeap, Stacked
<1>8. page_table'[LastPage] = FREE
    BY <1>3, <1>4, <1>7, SizesFacts DEF Stacked
<1>9. frontier' = f + 5
    BY <1>7, <1>8 DEF frontier, Frontier
<1>. QED  BY <1>3, <1>4, <1>6, <1>7, <1>9 DEF f

(* Making a process keeps the pattern of pages, with room or without.      *)
LEMMA BornKeepsLayout ==
    ASSUME SchedulerInv, LayoutKept, Born
    PROVE  LayoutKept'
<1>0. PICK f : f = frontier
    OBVIOUS
<1>1. /\ H1.addr = f /\ f % 5 = 0 /\ page_table[LastPage] = FREE
      /\ f + 5 <= LastPage /\ page_table' = H3.page_table
      /\ last_page_index' = f + 5 /\ Stacked(f) /\ frontier' = f + 5
      /\ f \in Nat /\ f \in Page
    BY <1>0, BornAtFrontier, FrontierType DEF SchedulerInv
<1>2. Frontier(page_table', last_page_index') = f + 5
    BY <1>1 DEF frontier
<1>3. \A p \in Page : page_table'[p] =
          IF p \in {f, f + 1, f + 3} THEN HEAD
          ELSE IF p \in {f + 2, f + 4} THEN TAIL ELSE page_table[p]
    BY <1>1 DEF Stacked
<1>4. /\ \A p \in Page : p < f =>
            /\ p % 5 = 0 => page_table[p] \in {FREE, HEAD}
            /\ p % 5 \in {1, 3} => page_table[p] = HEAD
            /\ p % 5 \in {2, 4} => page_table[p] = TAIL
      /\ \A p \in Page : p >= f => page_table[p] = FREE /\ pcb[p] = ZeroPCB
      /\ \A p \in Page : p % 5 # 0 => pcb[p] = ZeroPCB
    BY <1>0, <1>1 DEF LayoutKept, LaidOut, Placed, frontier
<1>5. page_table'[LastPage] = FREE
    BY <1>1, <1>3, SizesFacts
<1>6. ASSUME NEW p \in Page, p < f + 5
      PROVE  /\ p % 5 = 0 => page_table'[p] \in {FREE, HEAD}
             /\ p % 5 \in {1, 3} => page_table'[p] = HEAD
             /\ p % 5 \in {2, 4} => page_table'[p] = TAIL
    <2>0. p \in Nat
        BY HeapAssumption DEF Page
    <2>1. CASE p < f
        <3>1. page_table'[p] = page_table[p]
            BY <1>1, <1>3, <2>0, <2>1
        <3>. QED  BY <1>4, <2>1, <3>1
    <2>2. CASE p \in {f, f + 1, f + 2, f + 3, f + 4}
        <3>1. /\ f % 5 = 0 /\ (f + 1) % 5 = 1 /\ (f + 2) % 5 = 2
              /\ (f + 3) % 5 = 3 /\ (f + 4) % 5 = 4
            BY <1>1
        <3>2. /\ p \in {f, f + 1, f + 3} => page_table'[p] = HEAD
              /\ p \in {f + 2, f + 4} => page_table'[p] = TAIL
            BY <1>1, <1>3, <2>0
        <3>. QED  BY <2>2, <3>1, <3>2
    <2>. QED  BY <1>1, <1>6, <2>0, <2>1, <2>2
<1>7. ASSUME NEW p \in Page, p >= f + 5
      PROVE  page_table'[p] = FREE /\ p # f /\ p >= f
    <2>0. p \in Nat
        BY HeapAssumption DEF Page
    <2>. QED  BY <1>1, <1>3, <1>4, <1>7, <2>0
<1>8. (f + 5) % 5 = 0
    BY <1>1
<1>9. LaidOut(page_table', last_page_index')
    BY <1>2, <1>5, <1>6, <1>7, <1>8 DEF LaidOut
<1>10. /\ OnlyAt(pcb', f) /\ Procs' = Procs \cup {f}
       /\ pcb'[f].stack = f + 1 /\ pcb'[f].kernel_stack_base = f + 3
       /\ f \notin Procs
    BY <1>1 DEF Born, Made, Stacked
<1>11. \A p \in Page : p % 5 # 0 => pcb'[p] = ZeroPCB
    BY <1>1, <1>4, <1>10 DEF OnlyAt
<1>12. \A p \in Page : p >= f + 5 => pcb'[p] = ZeroPCB
    BY <1>4, <1>7, <1>10 DEF OnlyAt
<1>13. ASSUME NEW p \in Procs'
       PROVE  /\ p < f + 5 /\ p % 5 = 0
              /\ pcb'[p].stack = p + 1 /\ pcb'[p].kernel_stack_base = p + 3
    <2>1. CASE p = f
        BY <1>1, <1>10, <2>1
    <2>2. CASE p \in Procs
        <3>1. p \in Page /\ p # f /\ p \in Nat
            BY <1>10, <2>2, ProcsArePages, HeapAssumption DEF SchedulerInv, Page
        <3>2. p < f /\ p % 5 = 0 /\ pcb[p].stack = p + 1
              /\ pcb[p].kernel_stack_base = p + 3
            BY <1>0, <2>2 DEF LayoutKept, Placed, frontier
        <3>. QED  BY <1>1, <1>10, <3>1, <3>2 DEF OnlyAt
    <2>. QED  BY <1>10, <2>1, <2>2
<1>14. Placed(Procs', pcb', page_table', last_page_index')
    BY <1>2, <1>11, <1>12, <1>13 DEF Placed
<1>. QED  BY <1>9, <1>14 DEF LayoutKept

(* The request for a PCB alone, when there is no room for a process.       *)
LEMMA StillbornKeepsLayout ==
    ASSUME SchedulerInv, LayoutKept, Stillborn
    PROVE  LayoutKept' /\ frontier' = frontier
<1>0. TypeOK /\ LaidOut(page_table, last_page_index) /\ Procs' = Procs
      /\ Procs \subseteq Page
    BY ProcsArePages DEF SchedulerInv, LayoutKept, Stillborn, Procs
<1>1. CASE pcb' = pcb /\ UNCHANGED heapVars
    BY <1>0, <1>1 DEF LayoutKept, frontier, heapVars
<1>2. ASSUME NEW a, a = H1.addr, H1.addr # NULL, H2.addr = NULL, SetHeap(H1),
             pcb' = pcb \/ OnlyAt(pcb', a)
      PROVE  LayoutKept' /\ frontier' = frontier
    <2>1. ~Growing(page_table, last_page_index)
        <3>1. SUFFICES ASSUME Growing(page_table, last_page_index)
                       PROVE  FALSE
            OBVIOUS
        <3>2. last_page_index \in Nat /\ Stacked(last_page_index)
            BY <1>0, <3>1, RoomForProcess
        <3>3. H2.addr = last_page_index + 1
            BY <3>2 DEF Stacked
        <3>. QED  BY <1>2, <3>2, <3>3 DEF NULL
    <2>2. OnlyPCB(a)
        BY <1>0, <1>2, <2>1, NoRoomForProcess
    <2>3. /\ a \in Page /\ a % 5 = 0 /\ page_table[a] = FREE
          /\ page_table'[LastPage] = HEAD
          /\ \A p \in Page : page_table'[p] =
                IF p = a THEN HEAD ELSE page_table[p]
        BY <1>2, <2>2 DEF OnlyPCB, SetHeap
    <2>4. Frontier(page_table, last_page_index) = LastPage
        BY <1>0, <2>1, SizesFacts DEF TypeOK, Growing, Frontier, Page, LastPage
    <2>5. Frontier(page_table', last_page_index') = LastPage
        BY <2>3, SizesFacts DEF Frontier
    <2>6. LaidOut(page_table', last_page_index')
        <3>1. \A p \in Page : p < LastPage =>
                 /\ p % 5 = 0 => page_table[p] \in {FREE, HEAD}
                 /\ p % 5 \in {1, 3} => page_table[p] = HEAD
                 /\ p % 5 \in {2, 4} => page_table[p] = TAIL
            BY <1>0, <2>4 DEF LaidOut
        <3>2. \A p \in Page : p < LastPage =>
                 /\ p % 5 = 0 => page_table'[p] \in {FREE, HEAD}
                 /\ p % 5 \in {1, 3} => page_table'[p] = HEAD
                 /\ p % 5 \in {2, 4} => page_table'[p] = TAIL
            BY <2>3, <3>1
        <3>. QED  BY <2>3, <2>5, <3>2, SizesFacts DEF LaidOut
    <2>7. a \notin Procs
        BY <2>3, FreeUnlisted
    <2>8. \A p \in Procs : pcb'[p] = pcb[p]
        BY <1>0, <1>2, <2>7 DEF OnlyAt
    <2>9. Placed(Procs', pcb', page_table', last_page_index')
        <3>1. \A p \in Page : p % 5 # 0 => pcb'[p] = ZeroPCB
            BY <1>2, <2>3 DEF OnlyAt, LayoutKept, Placed
        <3>2. \A p \in Procs : /\ p < LastPage /\ p % 5 = 0
                               /\ pcb'[p].stack = p + 1
                               /\ pcb'[p].kernel_stack_base = p + 3
            BY <2>4, <2>8 DEF LayoutKept, Placed
        <3>. QED  BY <1>0, <2>3, <2>5, <3>1, <3>2, SizesFacts DEF Placed
    <2>. QED  BY <2>4, <2>5, <2>6, <2>9 DEF LayoutKept, frontier
<1>3. CASE HalfMade(H1.addr)
    <2>1. /\ H1.addr # NULL /\ H2.addr = NULL /\ SetHeap(H1)
          /\ OnlyAt(pcb', H1.addr)
        BY <1>3, NullIsNoPage DEF HalfMade
    <2>. QED  BY <1>2, <2>1
<1>4. CASE pcb' = pcb /\ H1.addr # NULL /\ H2.addr = NULL /\ SetHeap(H1)
    BY <1>2, <1>4
<1>. QED  BY <1>1, <1>3, <1>4 DEF Stillborn

(* kfree gives back the page of a PCB and nothing else.                    *)
LEMMA ReapKeepsLayout ==
    ASSUME SchedulerInv, LayoutKept, NEW child, Reaps(child)
    PROVE  LayoutKept' /\ frontier' = frontier
<1>0. PICK f : f = frontier
    OBVIOUS
<1>1. /\ TypeOK /\ LaidOut(page_table, last_page_index) /\ f \in Nat
      /\ f <= LastPage /\ f % 5 = 0
    BY <1>0, FrontierType DEF SchedulerInv, LayoutKept, LaidOut, frontier
<1>2. /\ child \in Procs /\ child \in Page /\ child \in Nat /\ pcb' = pcb
      /\ Procs' = Procs \ {child} /\ page_table' = Kfree(page_table, child)
      /\ last_page_index' = last_page_index
    BY HeapAssumption DEF Reaps, Page
<1>3. page_table[child] = HEAD /\ child < f /\ child % 5 = 0
    BY <1>0, <1>2 DEF SchedulerInv, Listed, LayoutKept, Placed, frontier
<1>4. child + 1 < f /\ (child + 1) % 5 = 1 /\ child + 1 \in Page
    BY <1>1, <1>2, <1>3, SizesFacts DEF Page, LastPage
<1>5. page_table[child + 1] = HEAD
    BY <1>0, <1>1, <1>4 DEF LaidOut, frontier
<1>6. ASSUME NEW p \in Page
      PROVE  p \in FreedPages(page_table, child) <=> p = child
    <2>1. p \in Nat /\ p < NUM_PAGES /\ NUM_PAGES \in Nat
        BY HeapAssumption DEF Page
    <2>2. p \in FreedPages(page_table, child) <=>
             p >= child /\ \A k \in child + 1 .. p : page_table[k] = TAIL
        BY <1>2, <1>3, <2>1 DEF FreedPages
    <2>3. CASE p > child
        <3>1. child + 1 \in child + 1 .. p
            BY <1>2, <2>1, <2>3
        <3>. QED  BY <1>2, <1>5, <2>1, <2>2, <2>3, <3>1, SizesFacts
    <2>4. CASE p = child
        <3>1. child + 1 .. p = {}
            BY <1>2, <2>4
        <3>. QED  BY <1>2, <2>2, <2>4, <3>1
    <2>. QED  BY <1>2, <2>1, <2>2, <2>3, <2>4
<1>7. \A p \in Page : page_table'[p] = IF p = child THEN FREE ELSE page_table[p]
    BY <1>2, <1>6 DEF Kfree
<1>8. child # LastPage
    BY <1>1, <1>2, <1>3, SizesFacts
<1>9. page_table'[LastPage] = page_table[LastPage]
    BY <1>7, <1>8, SizesFacts
<1>10. Frontier(page_table', last_page_index') = f
    BY <1>0, <1>2, <1>9 DEF Frontier, frontier
<1>11. LaidOut(page_table', last_page_index')
    <2>1. /\ page_table[LastPage] \in {FREE, HEAD}
          /\ \A p \in Page : p < f =>
                /\ p % 5 = 0 => page_table[p] \in {FREE, HEAD}
                /\ p % 5 \in {1, 3} => page_table[p] = HEAD
                /\ p % 5 \in {2, 4} => page_table[p] = TAIL
          /\ page_table[LastPage] = FREE =>
                \A p \in Page : p >= f => page_table[p] = FREE
        BY <1>0, <1>1 DEF LaidOut, frontier
    <2>2. \A p \in Page : p < f =>
             /\ p % 5 = 0 => page_table'[p] \in {FREE, HEAD}
             /\ p % 5 \in {1, 3} => page_table'[p] = HEAD
             /\ p % 5 \in {2, 4} => page_table'[p] = TAIL
        BY <1>3, <1>7, <2>1
    <2>3. page_table'[LastPage] = FREE =>
             \A p \in Page : p >= f => page_table'[p] = FREE
        BY <1>7, <1>9, <2>1
    <2>. QED  BY <1>1, <1>9, <1>10, <2>1, <2>2, <2>3 DEF LaidOut
<1>12. Placed(Procs', pcb', page_table', last_page_index')
    BY <1>0, <1>2, <1>9, <1>10 DEF LayoutKept, Placed, frontier
<1>. QED  BY <1>0, <1>10, <1>11, <1>12 DEF LayoutKept, frontier

(* Nothing else touches the heap, and only PCBs in use are written.        *)
LEMMA OthersKeepLayout ==
    ASSUME SchedulerInv, LayoutKept, UNCHANGED <<page_table, last_page_index>>,
           Procs' = Procs, \A p \in Page : SameLinks(pcb'[p], pcb[p]),
           \A p \in Page \ Procs : pcb'[p] = pcb[p]
    PROVE  LayoutKept' /\ frontier' = frontier
<1>0. /\ LaidOut(page_table, last_page_index) /\ Procs \subseteq Page
      /\ Placed(Procs, pcb, page_table, last_page_index)
    BY ProcsArePages DEF SchedulerInv, LayoutKept
<1>1. PICK f : f = Frontier(page_table, last_page_index)
    OBVIOUS
<1>2. f \in Nat
    BY <1>1, FrontierType DEF SchedulerInv, frontier
<1>3. \A p \in Procs : p < f /\ p % 5 = 0 /\ p \in Nat
    BY <1>0, <1>1, HeapAssumption DEF Placed, Page
<1>4. \A p \in Page : p % 5 # 0 => pcb'[p] = ZeroPCB
    BY <1>0, <1>3 DEF Placed
<1>5. ASSUME page_table[LastPage] = FREE, NEW p \in Page, p >= f
      PROVE  pcb'[p] = ZeroPCB
    <2>1. p \notin Procs
        BY <1>2, <1>3, <1>5
    <2>. QED  BY <1>0, <1>1, <1>5, <2>1 DEF Placed
<1>6. \A p \in Procs : pcb'[p].stack = p + 1 /\ pcb'[p].kernel_stack_base = p + 3
    BY <1>0 DEF Placed, SameLinks
<1>7. Frontier(page_table', last_page_index') = f
    BY <1>1
<1>8. Placed(Procs', pcb', page_table', last_page_index')
    BY <1>3, <1>4, <1>5, <1>6, <1>7 DEF Placed
<1>. QED  BY <1>0, <1>1, <1>7, <1>8 DEF LayoutKept, frontier

-----------------------------------------------------------------------------
(* Parents.                                                                *)

(* Parent pointers lead below the frontier, so no new process takes the    *)
(* page of a dead parent; the ones that lead to a process are those        *)
(* fork_syscall set.                                                       *)
ParentsKept ==
    /\ \A p \in Procs : pcb[p].parent # NULL => pcb[p].parent < frontier
    /\ \A p \in Procs : pcb[p].parent \in Procs =>
          parentOf[pcb[p].pid] = pcb[pcb[p].parent].pid

(* What wait_syscall returned named a child of the caller.                 *)
ResultsOfChildren == \A d \in delivered : parentOf[d.pid] = d.by

(* The layout and the parents under every step.                            *)
LEMMA NextLayout ==
    ASSUME WaitInv, ForksRecorded, LayoutKept, ParentsKept, ResultsOfChildren,
           [Next]_vars
    PROVE  LayoutKept' /\ ParentsKept' /\ ResultsOfChildren'
<1>. DEFINE c == current_process
<1>0. SchedulerInv /\ PidsDiffer /\ StatusesRecorded /\ TypeOK
    BY DEF WaitInv, SchedulerInv
<1>1. /\ next_pid \in 1 .. MAX_PID + 1 /\ MAX_PID \in Nat /\ Procs \subseteq Page
      /\ \A p \in Procs : pcb[p].pid \in 1 .. MAX_PID /\ pcb[p].pid < next_pid
      /\ \A d \in delivered : d.pid \in 1 .. MAX_PID /\ d.pid < next_pid
    BY <1>0, PidsOfProcs DEF StatusesRecorded, Results
<1>2. ASSUME UNCHANGED <<page_table, last_page_index, parentOf, delivered>>,
             Procs' = Procs, \A p \in Page : SameLinks(pcb'[p], pcb[p]),
             \A p \in Page \ Procs : pcb'[p] = pcb[p]
      PROVE  LayoutKept' /\ ParentsKept' /\ ResultsOfChildren'
    <2>1. LayoutKept' /\ frontier' = frontier
        BY <1>0, <1>2, OthersKeepLayout
    <2>2. \A p \in Procs : pcb'[p].parent = pcb[p].parent /\ pcb'[p].pid = pcb[p].pid
        BY <1>1, <1>2 DEF SameLinks
    <2>3. ParentsKept'
        BY <1>2, <2>1, <2>2 DEF ParentsKept
    <2>. QED  BY <1>2, <2>1, <2>3 DEF ResultsOfChildren
<1>3. CASE Born
    <2>0. PICK f : f = frontier
        OBVIOUS
    <2>1. /\ LayoutKept' /\ frontier' = f + 5 /\ H1.addr = f /\ f \in Nat
          /\ pcb[f] = ZeroPCB /\ f \in Page
        BY <1>0, <1>3, <2>0, BornKeepsLayout, BornAtFrontier, FrontierType
    <2>2. /\ f \notin Procs /\ OnlyAt(pcb', f) /\ Procs' = Procs \cup {f}
          /\ pcb'[f].pid = next_pid /\ next_pid \in 1 .. MAX_PID
          /\ delivered' = delivered
        BY <1>3, <2>1 DEF Born, Made
    <2>3. \A p \in Procs : pcb'[p] = pcb[p]
        BY <1>1, <2>2 DEF OnlyAt
    <2>4. \A p \in Procs : p < f /\ p \in Nat
        BY <1>1, <2>0, HeapAssumption DEF LayoutKept, Placed, frontier, Page
    <2>5. \A p \in Procs : pcb[p].parent # f
        BY <2>0, <2>1, NullIsNoPage DEF ParentsKept
    <2>6. \/ pcb'[f].parent = NULL /\ UNCHANGED parentOf
          \/ /\ pcb'[f].parent = c /\ c \in Procs
             /\ parentOf' = [parentOf EXCEPT ![next_pid] = pcb[c].pid]
        <3>1. CASE pcb'[f].parent = pcb[f].parent /\ UNCHANGED parentOf
            BY <2>1, <3>1 DEF ZeroPCB
        <3>2. CASE /\ mode = "user" /\ pcb'[f].parent = c
                   /\ parentOf' = [parentOf EXCEPT ![next_pid] = pcb[c].pid]
            BY <1>0, <3>2, RunningProcess
        <3>. QED  BY <1>3, <2>1, <3>1, <3>2 DEF Born
    <2>7. \A i \in 1 .. MAX_PID : i < next_pid => parentOf'[i] = parentOf[i]
        <3>1. \A i \in 1 .. MAX_PID : i < next_pid => i # next_pid
            BY <2>2
        <3>. QED  BY <2>2, <2>6, <3>1 DEF ForksRecorded
    <2>8. ASSUME NEW p \in Procs'
          PROVE  pcb'[p].parent # NULL => pcb'[p].parent < f + 5
        <3>1. CASE p = f
            BY <2>1, <2>4, <2>6, <3>1
        <3>2. CASE p \in Procs
            <4>1. pcb'[p].parent = pcb[p].parent
                  /\ pcb[p].parent \in Page \cup {NULL}
                BY <1>0, <1>1, <2>3, <3>2, PCBFields DEF TypeOK
            <4>2. ASSUME pcb[p].parent # NULL
                  PROVE  pcb[p].parent < f + 5
                <5>1. pcb[p].parent \in Nat /\ pcb[p].parent < f
                    BY <2>0, <3>2, <4>1, <4>2, HeapAssumption DEF ParentsKept, Page
                <5>. QED  BY <2>1, <5>1
            <4>. QED  BY <4>1, <4>2
        <3>. QED  BY <2>2, <3>1, <3>2
    <2>9. ASSUME NEW p \in Procs', pcb'[p].parent \in Procs'
          PROVE  parentOf'[pcb'[p].pid] = pcb'[pcb'[p].parent].pid
        <3>1. CASE p = f
            <4>1. pcb'[f].parent # NULL
                BY <1>1, <2>1, <2>2, <2>9, <3>1, NullIsNoPage
            <4>2. /\ pcb'[f].parent = c /\ c \in Procs
                  /\ parentOf' = [parentOf EXCEPT ![next_pid] = pcb[c].pid]
                BY <2>6, <4>1
            <4>3. parentOf'[next_pid] = pcb[c].pid
                BY <2>2, <4>2 DEF ForksRecorded
            <4>. QED  BY <2>2, <2>3, <3>1, <4>2, <4>3
        <3>2. CASE p \in Procs
            <4>1. pcb'[p] = pcb[p] /\ pcb[p].parent \in Procs
                BY <2>2, <2>3, <2>5, <2>9, <3>2
            <4>2. parentOf'[pcb[p].pid] = parentOf[pcb[p].pid]
                BY <1>1, <2>7, <3>2
            <4>. QED  BY <2>3, <3>2, <4>1, <4>2 DEF ParentsKept
        <3>. QED  BY <2>2, <3>1, <3>2
    <2>10. ParentsKept'
        BY <2>1, <2>8, <2>9 DEF ParentsKept
    <2>11. ResultsOfChildren'
        BY <1>1, <2>2, <2>7 DEF ResultsOfChildren
    <2>. QED  BY <2>1, <2>10, <2>11
<1>4. CASE Stillborn
    <2>1. LayoutKept' /\ frontier' = frontier
        BY <1>0, <1>4, StillbornKeepsLayout
    <2>2. Procs' = Procs /\ UNCHANGED <<parentOf, delivered>>
        BY <1>4 DEF Stillborn, Procs
    <2>3. \A p \in Procs : pcb'[p] = pcb[p]
        BY <1>1, <1>4 DEF Stillborn, HalfMade, OnlyAt
    <2>. QED  BY <2>1, <2>2, <2>3 DEF ParentsKept, ResultsOfChildren
<1>5. ASSUME NEW m, Switches(m)
      PROVE  LayoutKept' /\ ParentsKept' /\ ResultsOfChildren'
    BY <1>0, <1>2, <1>5, SwitchKeepsLinks DEF Switches
<1>6. ASSUME NEW m, NEW q, NEW status, Exits(m, q, status)
      PROVE  LayoutKept' /\ ParentsKept' /\ ResultsOfChildren'
    BY <1>0, <1>2, <1>6, ExitKeepsLinks DEF Exits
<1>7. ASSUME NEW child, Reaps(child)
      PROVE  LayoutKept' /\ ParentsKept' /\ ResultsOfChildren'
    <2>. DEFINE d == [by |-> pcb[c].pid, pid |-> pcb[child].pid,
                      status |-> pcb[child].exit_status]
    <2>1. LayoutKept' /\ frontier' = frontier
        BY <1>0, <1>7, ReapKeepsLayout
    <2>2. /\ child \in Procs /\ pcb' = pcb /\ Procs' = Procs \ {child}
          /\ parentOf' = parentOf /\ delivered' = delivered \cup {d}
          /\ ParentPid(child) = pcb[c].pid /\ c \in Procs
        BY <1>0, <1>7, RunningProcess DEF Reaps
    <2>3. pcb[child].parent = c
        BY <1>0, <2>2, ParentPidMeansParent
    <2>4. parentOf[d.pid] = d.by
        BY <2>2, <2>3 DEF ParentsKept
    <2>. HIDE DEF d
    <2>5. ParentsKept' /\ ResultsOfChildren'
        BY <2>1, <2>2, <2>4 DEF ParentsKept, ResultsOfChildren
    <2>. QED  BY <2>1, <2>5
<1>8. CASE Quiet
    BY <1>2, <1>8 DEF Quiet, Procs, SameLinks
<1>. QED  BY <1>0, <1>3, <1>4, <1>5, <1>6, <1>7, <1>8, NextShapes

(* Without nested forks a parent was not forked itself and outlives its    *)
(* children's PCBs.                                                        *)
Families ==
    \A p \in Procs : pcb[p].parent # NULL =>
        pcb[p].parent \in Procs /\ pcb[pcb[p].parent].parent = NULL

(* Without nested forks, a parent outlives its children in the table.      *)
LEMMA FamiliesKept ==
    ASSUME WaitInv, ForksRecorded, LayoutKept, ParentsKept, Families,
           "nested_fork" \notin Calls, [Next]_vars
    PROVE  Families'
<1>. DEFINE c == current_process
<1>0. SchedulerInv /\ PidsDiffer /\ Procs \subseteq Page
    BY ProcsArePages DEF WaitInv, SchedulerInv
<1>1. ASSUME Procs' = Procs, \A p \in Procs : pcb'[p].parent = pcb[p].parent
      PROVE  Families'
    BY <1>1 DEF Families
<1>2. CASE Born
    <2>0. PICK f : f = H1.addr
        OBVIOUS
    <2>1. pcb[f] = ZeroPCB /\ f \notin Procs /\ OnlyAt(pcb', f)
          /\ Procs' = Procs \cup {f} /\ f \in Page
        BY <1>0, <1>2, <2>0, BornAtFrontier DEF Born, Made
    <2>2. \A p \in Procs : pcb'[p] = pcb[p]
        BY <1>0, <2>1 DEF OnlyAt
    <2>3. \/ pcb'[f].parent = NULL
          \/ pcb'[f].parent = c /\ c \in Procs /\ pcb[c].parent = NULL
        <3>1. CASE pcb'[f].parent = pcb[f].parent
            BY <2>1, <3>1 DEF ZeroPCB
        <3>2. CASE mode = "user" /\ MayFork /\ pcb'[f].parent = c
            <4>1. c \in Procs /\ parentOf[pcb[c].pid] = 0
                BY <1>0, <3>2, RunningProcess DEF MayFork
            <4>2. ASSUME pcb[c].parent # NULL
                  PROVE  FALSE
                <5>1. pcb[c].parent \in Procs
                    BY <4>1, <4>2 DEF Families
                <5>2. parentOf[pcb[c].pid] = pcb[pcb[c].parent].pid
                    BY <4>1, <5>1 DEF ParentsKept
                <5>3. pcb[pcb[c].parent].pid \in 1 .. MAX_PID
                    BY <1>0, <5>1, PidsOfProcs
                <5>. QED  BY <4>1, <5>2, <5>3
            <4>. QED  BY <3>2, <4>1, <4>2
        <3>. QED  BY <1>2, <2>0, <3>1, <3>2 DEF Born
    <2>. QED  BY <2>1, <2>2, <2>3 DEF Families
<1>3. CASE Stillborn
    <2>1. Procs' = Procs
        BY <1>3 DEF Stillborn, Procs
    <2>2. \A p \in Procs : pcb'[p] = pcb[p]
        BY <1>0, <1>3 DEF Stillborn, HalfMade, OnlyAt
    <2>. QED  BY <1>1, <2>1, <2>2
<1>4. ASSUME NEW m, Switches(m)
      PROVE  Families'
    BY <1>0, <1>1, <1>4, SwitchKeepsLinks DEF SameLinks
<1>5. ASSUME NEW m, NEW q, NEW status, Exits(m, q, status)
      PROVE  Families'
    BY <1>0, <1>1, <1>5, ExitKeepsLinks DEF SameLinks
<1>6. ASSUME NEW child, Reaps(child)
      PROVE  Families'
    <2>1. /\ child \in Procs /\ pcb' = pcb /\ Procs' = Procs \ {child}
          /\ ParentPid(child) = pcb[c].pid /\ c \in Procs
        BY <1>0, <1>6, RunningProcess DEF Reaps
    <2>2. pcb[child].parent = c /\ c # NULL
        BY <1>0, <2>1, ParentPidMeansParent, NullIsNoPage
    <2>3. \A p \in Procs : pcb[p].parent # child
        BY <1>0, <2>1, <2>2, NullIsNoPage DEF Families
    <2>. QED  BY <2>1, <2>3 DEF Families
<1>7. CASE Quiet
    BY <1>1, <1>7 DEF Quiet, Procs
<1>. QED  BY <1>0, <1>2, <1>3, <1>4, <1>5, <1>6, <1>7, NextShapes

-----------------------------------------------------------------------------
(* The theorems.                                                           *)

LayoutInv ==
    /\ WaitInv
    /\ ForksRecorded
    /\ LayoutKept
    /\ ParentsKept
    /\ ResultsOfChildren

(* An empty heap is laid out.                                              *)
LEMMA InitLayout == Init => LayoutInv /\ Families
<1>. SUFFICES ASSUME Init
              PROVE  LayoutInv /\ Families
    OBVIOUS
<1>1. WaitInv /\ ForksRecorded /\ Procs = {} /\ delivered = {}
    BY InitWaits, InitFrames DEF Init, Procs
<1>2. /\ \A p \in Page : page_table[p] = FREE /\ pcb[p] = ZeroPCB
      /\ last_page_index = 0
    BY DEF Init, InitPageTable, InitLastPageIndex
<1>3. Frontier(page_table, last_page_index) = 0 /\ page_table[LastPage] = FREE
    BY <1>2, SizesFacts DEF Frontier
<1>4. \A p \in Page : ~(p < 0)
    BY HeapAssumption DEF Page
<1>5. LaidOut(page_table, last_page_index)
    BY <1>2, <1>3, <1>4 DEF LaidOut
<1>6. Placed(Procs, pcb, page_table, last_page_index)
    BY <1>1, <1>2, <1>3 DEF Placed
<1>. QED
    BY <1>1, <1>5, <1>6
       DEF LayoutInv, LayoutKept, ParentsKept, ResultsOfChildren, Families

(* PCBs and stacks stay in their pattern, and parents are those that       *)
(* forked, always.                                                         *)
THEOREM LayoutCorrect == Spec => []LayoutInv
<1>1. LayoutInv /\ [Next]_vars => LayoutInv'
    <2>1. ASSUME LayoutInv, [Next]_vars
          PROVE  LayoutInv'
        <3>1. WaitInv'
            BY <2>1, NextScheduler, PidsKept, WaitsKept, StatusesKept
               DEF LayoutInv, WaitInv, StepKeeps
        <3>2. ForksRecorded'
            BY <2>1, ForksKept DEF LayoutInv, WaitInv
        <3>3. LayoutKept' /\ ParentsKept' /\ ResultsOfChildren'
            BY <2>1, NextLayout DEF LayoutInv
        <3>. QED  BY <3>1, <3>2, <3>3 DEF LayoutInv
    <2>. QED  BY <2>1
<1>. QED  BY <1>1, InitLayout, PTL DEF Spec

(* What wait_syscall returns is a child of the caller with the status it   *)
(* left; no status is lost, and none is returned twice.                    *)
THEOREM WaitReportsChildren == Spec => []WaitTellsTheTruth
<1>1. ASSUME LayoutInv
      PROVE  WaitTellsTheTruth
    <2>1. StatusesRecorded /\ ResultsOfChildren
        BY <1>1 DEF LayoutInv, WaitInv
    <2>2. \A d \in delivered : parentOf[d.pid] = d.by
        BY <2>1 DEF ResultsOfChildren
    <2>3. \A d \in delivered : exitStatus[d.pid] = {d.status}
        BY <2>1 DEF StatusesRecorded, Results
    <2>. QED  BY <2>1, <2>2, <2>3, StatusInOnePlace DEF WaitTellsTheTruth
<1>. QED  BY <1>1, LayoutCorrect, PTL

(* The five pages of a process.                                            *)
LEMMA ProcessPages ==
    ASSUME SchedulerInv, LayoutKept, NEW p \in Procs
    PROVE  /\ p \in Nat /\ p % 5 = 0 /\ p + 5 <= frontier /\ frontier < NUM_PAGES
           /\ frontier \in Nat
           /\ StackPages(p) = {p + 1, p + 2}
           /\ KernelStackPages(p) = {p + 3, p + 4}
           /\ OwnPages(p) = {p, p + 1, p + 2, p + 3, p + 4}
<1>1. frontier \in Nat /\ frontier < NUM_PAGES /\ frontier % 5 = 0
    BY FrontierType, SizesFacts DEF SchedulerInv, LayoutKept, LaidOut, frontier,
                                   LastPage
<1>2. p \in Nat /\ p < frontier /\ p % 5 = 0 /\ pcb[p].stack = p + 1
      /\ pcb[p].kernel_stack_base = p + 3
    BY ProcsArePages, HeapAssumption
       DEF SchedulerInv, LayoutKept, Placed, frontier, Page
<1>3. p + 5 <= frontier
    BY <1>1, <1>2
<1>4. /\ p \in Page /\ p + 1 \in Page /\ p + 3 \in Page
      /\ p + 2 < NUM_PAGES /\ p + 4 < NUM_PAGES
    BY <1>1, <1>2, <1>3, SizesFacts DEF Page
<1>5. ASSUME NEW a \in Page, a + 1 < NUM_PAGES
      PROVE  BlockPages(a, 2) = {a, a + 1}
    <2>1. a \in Nat /\ 0 \in 0 .. NUM_PAGES /\ 1 \in 0 .. NUM_PAGES
        BY SizesFacts DEF Page
    <2>2. Index(a, 0) = a /\ Index(a, 1) = a + 1
        BY <1>5, <2>1, IndexFacts, SizesFacts DEF Page
    <2>3. 0 .. 2 - 1 = {0, 1}
        OBVIOUS
    <2>. QED  BY <2>2, <2>3 DEF BlockPages
<1>6. BlockPages(p, 1) = {p}
    <2>0. 0 \in 0 .. NUM_PAGES /\ p + 0 < NUM_PAGES /\ p + 0 = p
        BY <1>2, <1>4, SizesFacts DEF Page
    <2>1. Index(p, 0) = p
        BY <1>4, <2>0, IndexFacts
    <2>2. 0 .. 1 - 1 = {0}
        OBVIOUS
    <2>. QED  BY <2>1, <2>2 DEF BlockPages
<1>7. BlockPages(p + 1, 2) = {p + 1, p + 2}
    <2>1. (p + 1) + 1 = p + 2
        BY <1>2
    <2>. QED  BY <1>4, <1>5, <2>1
<1>8. BlockPages(p + 3, 2) = {p + 3, p + 4}
    <2>1. (p + 3) + 1 = p + 4
        BY <1>2
    <2>. QED  BY <1>4, <1>5, <2>1
<1>9. StackPages(p) = {p + 1, p + 2} /\ KernelStackPages(p) = {p + 3, p + 4}
    BY <1>2, <1>7, <1>8, LayoutAssumption DEF StackPages, KernelStackPages
<1>. QED  BY <1>1, <1>2, <1>3, <1>6, <1>9, LayoutAssumption DEF OwnPages

(* Every process has two stacks of its own, inside kernel_memory and away  *)
(* from every PCB.                                                         *)
THEOREM StacksOwned == Spec => []OwnStacks
<1>1. ASSUME SchedulerInv, LayoutKept
      PROVE  OwnStacks
    <2>1. ASSUME NEW p \in Procs
          PROVE  /\ pcb[p].stack # NULL /\ pcb[p].kernel_stack_base # NULL
                 /\ \A a \in {pcb[p].stack, pcb[p].kernel_stack_base} :
                        a + PagesFor(STACK_SIZE) <= NUM_PAGES
                 /\ StackPages(p) \cap KernelStackPages(p) = {}
                 /\ p \notin StackPages(p) \cup KernelStackPages(p)
                 /\ \A a \in StackPages(p) \cup KernelStackPages(p) :
                        page_table[a] # FREE /\ pcb[a] = ZeroPCB
        <3>1. /\ p \in Nat /\ p % 5 = 0 /\ p + 5 <= frontier
              /\ frontier < NUM_PAGES /\ frontier \in Nat
              /\ StackPages(p) = {p + 1, p + 2}
              /\ KernelStackPages(p) = {p + 3, p + 4}
            BY <1>1, ProcessPages
        <3>2. pcb[p].stack = p + 1 /\ pcb[p].kernel_stack_base = p + 3
            BY <1>1 DEF LayoutKept, Placed
        <3>3. pcb[p].stack # NULL /\ pcb[p].kernel_stack_base # NULL
            BY <3>1, <3>2 DEF NULL
        <3>4. \A a \in {pcb[p].stack, pcb[p].kernel_stack_base} :
                 a + PagesFor(STACK_SIZE) <= NUM_PAGES
            BY <3>1, <3>2, LayoutAssumption, SizesFacts
        <3>5. /\ StackPages(p) \cap KernelStackPages(p) = {}
              /\ p \notin StackPages(p) \cup KernelStackPages(p)
            BY <3>1
        <3>6. ASSUME NEW a \in {p + 1, p + 2, p + 3, p + 4}
              PROVE  page_table[a] # FREE /\ pcb[a] = ZeroPCB
            <4>1. a \in Page /\ a < frontier /\ a % 5 \in {1, 2, 3, 4}
                BY <3>1, SizesFacts DEF Page
            <4>2. page_table[a] \in {HEAD, TAIL}
                BY <1>1, <4>1 DEF LayoutKept, LaidOut, frontier
            <4>3. pcb[a] = ZeroPCB
                BY <1>1, <4>1 DEF LayoutKept, Placed
            <4>. QED  BY <4>2, <4>3, SizesFacts
        <3>. QED  BY <3>1, <3>3, <3>4, <3>5, <3>6
    <2>2. ASSUME NEW p \in Procs, NEW r \in Procs, p # r
          PROVE  OwnPages(p) \cap OwnPages(r) = {}
        <3>1. /\ p \in Nat /\ p % 5 = 0 /\ r \in Nat /\ r % 5 = 0
              /\ OwnPages(p) = {p, p + 1, p + 2, p + 3, p + 4}
              /\ OwnPages(r) = {r, r + 1, r + 2, r + 3, r + 4}
            BY <1>1, ProcessPages
        <3>2. p + 5 <= r \/ r + 5 <= p
            BY <2>2, <3>1
        <3>. QED  BY <3>1, <3>2
    <2>. QED  BY <2>1, <2>2 DEF OwnStacks
<1>2. LayoutInv => OwnStacks
    BY <1>1 DEF LayoutInv, WaitInv
<1>. QED  BY <1>2, LayoutCorrect, PTL

(* No list and no pointer leads to a PCB wait_syscall has freed, as long   *)
(* as forked processes do not fork.                                        *)
THEOREM NoPCBDangles ==
    ASSUME "nested_fork" \notin Calls
    PROVE  Spec => []NoDanglingPCB
<1>1. LayoutInv /\ Families /\ [Next]_vars => Families'
    BY FamiliesKept DEF LayoutInv
<1>2. ASSUME LayoutInv, Families
      PROVE  NoDanglingPCB
    <2>1. SchedulerInv
        BY <1>2 DEF LayoutInv, WaitInv
    <2>2. /\ \A p \in Procs : page_table[p] = HEAD
          /\ Queued \subseteq Procs /\ current_process \in Procs \cup {NULL}
        BY <2>1 DEF SchedulerInv, Listed, QueueDiscipline, CurrentListed
    <2>3. \A p \in Procs : pcb[p].parent \in Procs \cup {NULL}
        BY <1>2 DEF Families
    <2>. QED  BY <2>2, <2>3 DEF NoDanglingPCB
<1>. QED  BY <1>1, <1>2, InitLayout, LayoutCorrect, PTL DEF Spec
=============================================================================

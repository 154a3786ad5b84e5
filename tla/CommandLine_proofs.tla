------------------------- MODULE CommandLine_proofs -------------------------
(***************************************************************************)
(* Proofs that strtok stays inside the line that was read, that names of    *)
(* files are kept apart, and that the call a line leads to is the one its   *)
(* words ask for, for every length of the input array and of a name, every  *)
(* line and whatever the stack held under the array.                        *)
(***************************************************************************)
EXTENDS CommandLine, Least_proofs, SequenceTheorems, FiniteSetTheorems, TLAPS

-----------------------------------------------------------------------------
(* Walks over characters.                                                  *)

(* The strings.  The provers do not know that a string constant is one.    *)
Chars == STRING \cup {NUL, "inode_number"}

(* Memory that ends at address N.                                          *)
MemoryTo(N) == [0 .. N -> Chars]

(* i is where a walk from p on over mem meets a character of stops.        *)
StopsAt(mem, p, stops, i) ==
    /\ i \in DOMAIN mem /\ p <= i /\ mem[i] \in stops
    /\ \A j \in DOMAIN mem : p <= j /\ j < i => mem[j] \notin stops

(* There Scan is.                                                          *)
LEMMA ScanIs ==
    ASSUME NEW N \in Nat, NEW mem \in MemoryTo(N), NEW p \in Nat, NEW stops, NEW i,
           StopsAt(mem, p, stops, i)
    PROVE  Scan(mem, p, stops) = i
<1>. DEFINE S == {j \in DOMAIN mem : j >= p /\ mem[j] \in stops}
<1>1. DOMAIN mem = 0 .. N
    BY DEF MemoryTo
<1>2. i \in S /\ \A j \in S : i <= j /\ j \in Int /\ i \in Int
    BY <1>1 DEF StopsAt
<1>3. IsLeast(i, S)
    BY <1>2 DEF IsLeast
<1>4. \A j \in S : IsLeast(j, S) => j = i
    BY <1>2 DEF IsLeast
<1>. HIDE DEF S
<1>5. (CHOOSE j \in S : IsLeast(j, S)) = i
    BY <1>2, <1>3, <1>4
<1>. QED  BY <1>5 DEF Scan, S

(* A walk that has a stop ahead of it stops there or before.               *)
LEMMA ScanStops ==
    ASSUME NEW N \in Nat, NEW mem \in MemoryTo(N), NEW p \in Nat, NEW stops,
           NEW n \in p .. N, mem[n] \in stops
    PROVE  Scan(mem, p, stops) \in p .. n /\ StopsAt(mem, p, stops, Scan(mem, p, stops))
<1>. DEFINE S == {j \in DOMAIN mem : j >= p /\ mem[j] \in stops}
<1>1. DOMAIN mem = 0 .. N
    BY DEF MemoryTo
<1>2. n \in S /\ S \in SUBSET Nat
    BY <1>1
<1>3. \E i \in S : IsLeast(i, S)
    <2>. HIDE DEF S
    <2>. QED  BY <1>2, LeastExists
<1>4. PICK i \in S : IsLeast(i, S)
    BY <1>3
<1>5. i \in p .. n /\ StopsAt(mem, p, stops, i)
    BY <1>1, <1>2, <1>4 DEF IsLeast, StopsAt
<1>. QED  BY <1>5, ScanIs

(* What a call of strtok leaves when the string at p ends at address n:    *)
(* the terminator is still there, static_str is not behind it, characters  *)
(* before p are as they were, others may have become terminators, and the  *)
(* token ends at or before static_str.                                     *)
Cut(mem, p, n, r) ==
    /\ r.static_str \in p .. n /\ r.mem[n] = NUL
    /\ \A i \in DOMAIN mem : r.mem[i] = mem[i] \/ (i >= p /\ r.mem[i] = NUL)
    /\ r.token = NoToken => r.mem = mem /\ mem[r.static_str] = NUL
    /\ r.token # NoToken =>
          /\ r.token \in p .. n /\ mem[r.token] # NUL /\ mem[p] # NUL
          /\ \E i \in r.token .. r.static_str : StopsAt(r.mem, r.token, {NUL}, i)

LEMMA StrtokCuts ==
    ASSUME NEW N \in Nat, NEW mem \in MemoryTo(N), NEW p \in Nat, NEW n \in p .. N,
           mem[n] = NUL, NEW delim, NUL \notin delim
    PROVE  LET r == strtok(mem, p, delim)
           IN  r.mem \in MemoryTo(N) /\ Cut(mem, p, n, r)
<1>. DEFINE chars == {mem[i] : i \in DOMAIN mem}
            start == Scan(mem, p, chars \ delim)
            end == Scan(mem, start, delim \cup {NUL})
            r == strtok(mem, p, delim)
            cut == [mem EXCEPT ![end] = NUL]
<1>1. /\ DOMAIN mem = 0 .. N /\ mem \in [0 .. N -> Chars] /\ NUL \in Chars
      /\ n \in 0 .. N /\ p \in 0 .. N
    BY DEF MemoryTo, Chars
<1>2. mem[n] \in chars \ delim
    BY <1>1
<1>3. start \in p .. n /\ StopsAt(mem, p, chars \ delim, start)
    <2>. HIDE DEF chars
    <2>. QED  BY <1>2, ScanStops
<1>4. mem[start] \notin delim /\ start \in 0 .. N /\ start \in Nat
    <2>. HIDE DEF start
    <2>. QED  BY <1>1, <1>3 DEF StopsAt
<1>5. mem[p] = NUL => start = p
    <2>1. mem[p] = NUL => mem[p] \in chars \ delim
        BY <1>1
    <2>. HIDE DEF start, chars
    <2>2. p \in p .. N
        BY <1>1
    <2>3. mem[p] = NUL => start \in p .. p
        BY <2>1, <2>2, ScanStops DEF start
    <2>. QED  BY <1>1, <2>3
<1>. HIDE DEF chars, start
<1>6. end \in start .. n /\ StopsAt(mem, start, delim \cup {NUL}, end)
    <2>1. n \in start .. N /\ mem[n] \in delim \cup {NUL}
        BY <1>3
    <2>. QED  BY <1>4, <2>1, ScanStops
<1>7. r = IF mem[start] = NUL
          THEN [mem |-> mem, static_str |-> start, token |-> NoToken]
          ELSE [mem |-> cut, static_str |-> Behind(mem, end), token |-> start]
    BY DEF strtok, chars, start
<1>. HIDE DEF end
<1>8. end \in 0 .. N /\ cut \in MemoryTo(N)
      /\ \A i \in DOMAIN mem : cut[i] = IF i = end THEN NUL ELSE mem[i]
    <2>1. end \in 0 .. N
        BY <1>3, <1>6
    <2>2. cut = [i \in 0 .. N |-> IF i = end THEN NUL ELSE mem[i]]
        BY <1>1, <2>1
    <2>3. [i \in 0 .. N |-> IF i = end THEN NUL ELSE mem[i]] \in [0 .. N -> Chars]
        BY <1>1
    <2>. QED  BY <1>1, <2>1, <2>2, <2>3 DEF MemoryTo
<1>. HIDE DEF r, cut
<1>9. CASE mem[start] = NUL
    <2>1. r.mem = mem /\ r.static_str = start /\ r.token = NoToken
        BY <1>7, <1>9
    <2>. QED  BY <1>3, <1>9, <2>1 DEF Cut, r
<1>10. CASE mem[start] # NUL
    <2>1. r.mem = cut /\ r.static_str = Behind(mem, end) /\ r.token = start
        BY <1>7, <1>10
    <2>2. Behind(mem, end) \in end .. n
        BY <1>6, <1>8 DEF Behind
    <2>3. StopsAt(cut, start, {NUL}, end)
        <3>1. DOMAIN cut = 0 .. N
            BY <1>8 DEF MemoryTo
        <3>. QED  BY <1>1, <1>6, <1>8, <3>1 DEF StopsAt
    <2>4. mem[p] # NUL
        BY <1>5, <1>10
    <2>5. \A i \in DOMAIN mem : cut[i] = mem[i] \/ (i >= p /\ cut[i] = NUL)
        BY <1>3, <1>6, <1>8
    <2>6. cut[n] = NUL
        BY <1>1, <1>8
    <2>7. end \in start .. Behind(mem, end) /\ start # NoToken /\ Behind(mem, end) \in p .. n
        BY <1>3, <1>6, <2>2 DEF NoToken
    <2>. QED  BY <1>3, <1>8, <1>10, <2>1, <2>3, <2>4, <2>5, <2>6, <2>7 DEF Cut, r
<1>. QED  BY <1>9, <1>10

-----------------------------------------------------------------------------
(* Names.                                                                  *)

(* What fits a name field with a terminator behind it.                     *)
IsName(s) ==
    /\ s \in Seq(Chars) /\ Len(s) < MAX_FILENAME_LEN
    /\ \A i \in 1 .. Len(s) : s[i] # NUL

(* The field of a directory entry that holds the name s.                   *)
FieldOf(s) == [i \in 0 .. MAX_FILENAME_LEN + 1 |->
                  IF i < Len(s) THEN s[i + 1] ELSE EmptyField[i]]

(* The parts of that.                                                      *)
LEMMA NameFacts ==
    ASSUME NEW s, IsName(s)
    PROVE  /\ Len(s) \in Nat /\ s \in [1 .. Len(s) -> Chars] /\ NUL \in Chars
           /\ \A j \in 0 .. Len(s) : j < Len(s) =>
                 j + 1 \in 1 .. Len(s) /\ s[j + 1] \in Chars /\ s[j + 1] # NUL
           /\ Len(s) < MAX_FILENAME_LEN /\ MAX_FILENAME_LEN \in Nat
<1>1. s \in Seq(Chars) /\ Len(s) < MAX_FILENAME_LEN
      /\ \A i \in 1 .. Len(s) : s[i] # NUL
    BY DEF IsName
<1>2. Len(s) \in Nat /\ s \in [1 .. Len(s) -> Chars]
    BY <1>1, LenProperties
<1>3. NUL \in Chars
    BY DEF Chars
<1>4. ASSUME NEW j \in 0 .. Len(s), j < Len(s)
      PROVE  j + 1 \in 1 .. Len(s)
    BY <1>2, <1>4
<1>5. \A i \in 1 .. Len(s) : s[i] \in Chars /\ s[i] # NUL
    BY <1>1, <1>2
<1>6. MAX_FILENAME_LEN \in Nat
    BY CommandLineAssumption
<1>. QED  BY <1>1, <1>2, <1>3, <1>4, <1>5, <1>6

(* A string in memory that holds no terminator ends where it is stored to. *)
LEMMA LiteralEnds ==
    ASSUME NEW s, IsName(s)
    PROVE  /\ Literal(s) \in MemoryTo(Len(s)) /\ strlen(Literal(s), 0) = Len(s)
           /\ \A j \in 0 .. Len(s) : Literal(s)[j] = IF j < Len(s) THEN s[j + 1] ELSE NUL
<1>1. Len(s) \in Nat /\ s \in [1 .. Len(s) -> Chars] /\ NUL \in Chars
    BY NameFacts
<1>2. \A j \in 0 .. Len(s) : j < Len(s) =>
          j + 1 \in 1 .. Len(s) /\ s[j + 1] \in Chars /\ s[j + 1] # NUL
    BY NameFacts
<1>3. Literal(s) \in MemoryTo(Len(s))
    BY <1>1, <1>2 DEF Literal, MemoryTo
<1>4. \A j \in 0 .. Len(s) : Literal(s)[j] = IF j < Len(s) THEN s[j + 1] ELSE NUL
    BY DEF Literal
<1>5. StopsAt(Literal(s), 0, {NUL}, Len(s))
    <2>1. DOMAIN Literal(s) = 0 .. Len(s)
        BY DEF Literal
    <2>. QED  BY <1>1, <1>2, <1>4, <2>1 DEF StopsAt
<1>6. Scan(Literal(s), 0, {NUL}) = Len(s)
    BY <1>1, <1>3, <1>5, ScanIs
<1>. QED  BY <1>1, <1>3, <1>4, <1>6 DEF strlen

(* So does the name in a field.                                            *)
LEMMA FieldEnds ==
    ASSUME NEW s, IsName(s)
    PROVE  /\ FieldOf(s) \in MemoryTo(MAX_FILENAME_LEN + 1)
           /\ strlen(FieldOf(s), 0) = Len(s)
           /\ \A j \in 0 .. Len(s) : FieldOf(s)[j] = IF j < Len(s) THEN s[j + 1] ELSE NUL
           /\ \A j \in MAX_FILENAME_LEN .. MAX_FILENAME_LEN + 1 :
                 FieldOf(s)[j] = EmptyField[j]
<1>1. /\ Len(s) \in Nat /\ s \in [1 .. Len(s) -> Chars] /\ NUL \in Chars
      /\ MAX_FILENAME_LEN \in Nat /\ Len(s) < MAX_FILENAME_LEN
    BY NameFacts
<1>2. EmptyField \in [0 .. MAX_FILENAME_LEN + 1 -> Chars]
      /\ \A j \in 0 .. MAX_FILENAME_LEN - 1 : EmptyField[j] = NUL
    BY <1>1 DEF EmptyField, Chars
<1>3. \A j \in 0 .. Len(s) : j < Len(s) =>
          j + 1 \in 1 .. Len(s) /\ s[j + 1] \in Chars /\ s[j + 1] # NUL
    BY NameFacts
<1>4. FieldOf(s) \in MemoryTo(MAX_FILENAME_LEN + 1)
    BY <1>1, <1>2, <1>3 DEF FieldOf, MemoryTo
<1>5. \A j \in 0 .. Len(s) : FieldOf(s)[j] = IF j < Len(s) THEN s[j + 1] ELSE NUL
    BY <1>1, <1>2 DEF FieldOf
<1>6. StopsAt(FieldOf(s), 0, {NUL}, Len(s))
    <2>1. DOMAIN FieldOf(s) = 0 .. MAX_FILENAME_LEN + 1
        BY DEF FieldOf
    <2>. QED  BY <1>1, <1>3, <1>5, <2>1 DEF StopsAt
<1>7. Scan(FieldOf(s), 0, {NUL}) = Len(s)
    BY <1>1, <1>4, <1>6, ScanIs
<1>8. \A j \in MAX_FILENAME_LEN .. MAX_FILENAME_LEN + 1 : FieldOf(s)[j] = EmptyField[j]
    BY <1>1 DEF FieldOf
<1>. QED  BY <1>1, <1>4, <1>5, <1>7, <1>8 DEF strlen

(* strncmp finds a field equal to a name just when it holds that name.     *)
LEMMA StrncmpTells ==
    ASSUME NEW s, IsName(s), NEW c, IsName(c)
    PROVE  strncmp(FieldOf(s), 0, Literal(c), 0, MAX_FILENAME_LEN) <=> c = s
<1>. DEFINE a == FieldOf(s)
            b == Literal(c)
            n == MAX_FILENAME_LEN
            walk == 0 .. Shorter(n, Shorter(strlen(a, 0), strlen(b, 0)))
            S == {j \in walk : \/ j = n
                               \/ NUL \in {a[0 + j], b[0 + j]}
                               \/ a[0 + j] # b[0 + j]}
            stop == CHOOSE k \in walk : IsLeast(k, S)
            least == Shorter(Len(s), Len(c))
<1>1. /\ Len(s) \in Nat /\ Len(c) \in Nat /\ Len(s) < n /\ Len(c) < n /\ n \in Nat
      /\ \A j \in 0 .. Len(s) : j < Len(s) => s[j + 1] # NUL
      /\ \A j \in 0 .. Len(c) : j < Len(c) => c[j + 1] # NUL
    BY NameFacts
<1>2. /\ \A j \in 0 .. Len(s) : a[j] = IF j < Len(s) THEN s[j + 1] ELSE NUL
      /\ \A j \in 0 .. Len(c) : b[j] = IF j < Len(c) THEN c[j + 1] ELSE NUL
      /\ strlen(a, 0) = Len(s) /\ strlen(b, 0) = Len(c)
    BY FieldEnds, LiteralEnds
<1>3. least \in Nat /\ least <= Len(s) /\ least <= Len(c) /\ least < n
      /\ (least = Len(s) \/ least = Len(c)) /\ walk = 0 .. least
    BY <1>1, <1>2 DEF Shorter
<1>4. strncmp(a, 0, b, 0, n) <=> (stop = n \/ a[0 + stop] = b[0 + stop])
    BY DEF strncmp, Agree
<1>. HIDE DEF a, b, n, walk, least
<1>5. least \in S /\ S \subseteq 0 .. least
    <2>1. 0 + least = least /\ least \in 0 .. Len(s) /\ least \in 0 .. Len(c)
          /\ (~(least < Len(s)) \/ ~(least < Len(c))) /\ least \in walk
        BY ONLY <1>1, <1>3
    <2>2. a[0 + least] = NUL \/ b[0 + least] = NUL
        BY <1>2, <2>1
    <2>3. S \subseteq walk
        OBVIOUS
    <2>. QED  BY <1>3, <2>1, <2>2, <2>3
<1>6. stop \in S /\ \A j \in S : stop <= j
    <2>1. S \in SUBSET Nat /\ S # {} /\ S \subseteq walk
        BY <1>3, <1>5
    <2>. HIDE DEF S
    <2>2. \E k \in walk : IsLeast(k, S)
        BY <2>1, LeastExists DEF IsLeast
    <2>. QED  BY <2>2 DEF IsLeast
<1>. HIDE DEF stop
<1>7. /\ stop \in 0 .. least /\ stop # n /\ 0 + stop = stop
      /\ stop <= Len(s) /\ stop <= Len(c)
      /\ NUL \in {a[stop], b[stop]} \/ a[stop] # b[stop]
    BY <1>1, <1>3, <1>5, <1>6
<1>8. /\ a[stop] = IF stop < Len(s) THEN s[stop + 1] ELSE NUL
      /\ b[stop] = IF stop < Len(c) THEN c[stop + 1] ELSE NUL
    BY <1>1, <1>2, <1>7
<1>9. c = s => a[stop] = b[stop]
    BY <1>8
<1>10. ASSUME a[stop] = b[stop]
       PROVE  c = s
    <2>1. a[stop] = NUL /\ b[stop] = NUL
        BY <1>7, <1>10
    <2>2. stop = Len(s) /\ stop = Len(c)
        <3>1. stop \in 0 .. Len(s) /\ stop \in 0 .. Len(c)
            BY <1>1, <1>3, <1>7
        <3>. QED  BY <1>1, <1>8, <2>1, <3>1
    <2>3. ASSUME NEW i \in 1 .. Len(s)
          PROVE  s[i] = c[i]
        <3>1. i - 1 \in 0 .. least /\ i - 1 < stop /\ i - 1 \in Nat /\ (i - 1) + 1 = i
              /\ 0 + (i - 1) = i - 1 /\ i - 1 # n
            <4>1. i \in Int /\ 1 <= i /\ i <= Len(s)
                BY <1>1
            <4>2. stop \in Int /\ stop <= least /\ least \in Int
                BY ONLY <1>3, <1>7
            <4>3. least < n /\ n \in Int
                BY ONLY <1>1, <1>3
            <4>. QED  BY ONLY <2>2, <4>1, <4>2, <4>3
        <3>2. i - 1 \notin S
            BY <1>6, <1>7, <3>1
        <3>3. a[i - 1] = b[i - 1]
            BY <1>3, <3>1, <3>2
        <3>. QED  BY <1>1, <1>2, <2>2, <3>1, <3>3
    <2>4. s \in Seq(Chars) /\ c \in Seq(Chars)
        BY DEF IsName
    <2>. QED  BY <2>2, <2>3, <2>4, SeqEqual
<1>. QED  BY <1>4, <1>7, <1>9, <1>10 DEF a, b, n

-----------------------------------------------------------------------------
(* Tokens.                                                                 *)

(* The tokens toks lie in mem one behind the other, with a terminator      *)
(* behind each, and static_str is at p, in the string that ends at n.  A   *)
(* token that is missing has static_str at a terminator, and none behind   *)
(* it.                                                                     *)
TokensCut(mem, n, p, toks) ==
    /\ p \in 0 .. n
    /\ \A k \in DOMAIN toks : toks[k] = NoToken => mem[p] = NUL
    /\ \A k \in DOMAIN toks : toks[k] # NoToken =>
          toks[k] \in Nat /\ \E i \in toks[k] .. p : StopsAt(mem, toks[k], {NUL}, i)
    /\ \A j, k \in DOMAIN toks : j < k /\ toks[k] # NoToken =>
          toks[j] # NoToken /\ \E i \in 0 .. toks[k] - 1 : StopsAt(mem, toks[j], {NUL}, i)

(* strtok adds a token to them.                                            *)
LEMMA AppendCut ==
    ASSUME NEW N \in Nat, NEW mem \in MemoryTo(N), NEW n \in 0 .. N, NEW p,
           NEW toks \in Seq(Int), TokensCut(mem, n, p, toks),
           NEW r, r.mem \in MemoryTo(N), Cut(mem, p, n, r), r.token \in Int
    PROVE  TokensCut(r.mem, n, r.static_str, Append(toks, r.token))
<1>. DEFINE m2 == r.mem
            p2 == r.static_str
            tok == r.token
            new == Append(toks, tok)
            last == Len(toks) + 1
<1>1. /\ DOMAIN mem = 0 .. N /\ DOMAIN m2 = 0 .. N /\ n \in Nat /\ p \in Nat /\ p <= n
      /\ p2 \in p .. n
    BY DEF MemoryTo, Cut, TokensCut
<1>2. /\ \A i \in 0 .. N : m2[i] = mem[i] \/ (i >= p /\ m2[i] = NUL)
      /\ tok = NoToken => m2 = mem /\ mem[p2] = NUL
      /\ tok # NoToken =>
            /\ tok \in p .. n /\ mem[tok] # NUL /\ mem[p] # NUL
            /\ \E i \in tok .. p2 : StopsAt(m2, tok, {NUL}, i)
    BY <1>1 DEF Cut
<1>3. /\ Len(toks) \in Nat /\ DOMAIN toks = 1 .. Len(toks) /\ DOMAIN new = 1 .. last
      /\ new[last] = tok /\ \A k \in 1 .. Len(toks) : new[k] = toks[k]
    BY LenProperties, AppendProperties
<1>4. /\ \A k \in 1 .. Len(toks) : toks[k] = NoToken => mem[p] = NUL
      /\ \A k \in 1 .. Len(toks) : toks[k] # NoToken =>
            toks[k] \in Nat /\ \E i \in toks[k] .. p : StopsAt(mem, toks[k], {NUL}, i)
      /\ \A j, k \in 1 .. Len(toks) : j < k /\ toks[k] # NoToken =>
            toks[j] # NoToken /\ \E i \in 0 .. toks[k] - 1 : StopsAt(mem, toks[j], {NUL}, i)
    BY <1>3 DEF TokensCut
<1>. HIDE DEF m2, p2, tok, new
<1>5. ASSUME NEW a, NEW i, StopsAt(mem, a, {NUL}, i), i <= p
      PROVE  StopsAt(m2, a, {NUL}, i)
    BY <1>1, <1>2, <1>5 DEF StopsAt
<1>6. ASSUME mem[p] = NUL
      PROVE  tok = NoToken /\ m2[p2] = NUL
    BY <1>2, <1>6
<1>7. \A k \in 1 .. last : new[k] = NoToken => m2[p2] = NUL
    <2>1. ASSUME NEW k \in 1 .. last, new[k] = NoToken
          PROVE  m2[p2] = NUL
        <3>1. CASE k = last
            BY <1>2, <1>3, <2>1, <3>1
        <3>2. CASE k # last
            BY <1>3, <1>4, <1>6, <2>1, <3>2
        <3>. QED  BY <3>1, <3>2
    <2>. QED  BY <2>1
<1>8. ASSUME NEW k \in 1 .. last, new[k] # NoToken
      PROVE  new[k] \in Nat /\ \E i \in new[k] .. p2 : StopsAt(m2, new[k], {NUL}, i)
    <2>1. CASE k = last
        <3>1. new[k] = tok /\ tok # NoToken
            BY <1>3, <1>8, <2>1
        <3>2. tok \in p .. n /\ \E i \in tok .. p2 : StopsAt(m2, tok, {NUL}, i)
            BY <1>2, <3>1
        <3>3. tok \in Nat
            BY <1>1, <3>2
        <3>. QED  BY <3>1, <3>2, <3>3
    <2>2. CASE k # last
        <3>1. k \in 1 .. Len(toks) /\ new[k] = toks[k]
            BY <1>3, <2>2
        <3>2. PICK i \in toks[k] .. p : StopsAt(mem, toks[k], {NUL}, i)
            BY <1>4, <1>8, <3>1
        <3>3. toks[k] \in Nat /\ i <= p /\ i \in toks[k] .. p2
            BY <1>1, <1>4, <1>8, <3>1, <3>2
        <3>4. StopsAt(m2, toks[k], {NUL}, i)
            BY <1>5, <3>2, <3>3
        <3>. QED  BY <3>1, <3>3, <3>4
    <2>. QED  BY <2>1, <2>2
<1>9. ASSUME NEW j \in 1 .. last, NEW k \in 1 .. last, j < k, new[k] # NoToken
      PROVE  new[j] # NoToken /\ \E i \in 0 .. new[k] - 1 : StopsAt(m2, new[j], {NUL}, i)
    <2>1. j \in 1 .. Len(toks) /\ new[j] = toks[j]
        BY <1>3, <1>9
    <2>2. CASE k = last
        <3>1. tok # NoToken /\ new[k] = tok /\ tok \in p .. n /\ mem[tok] # NUL /\ mem[p] # NUL
            BY <1>2, <1>3, <1>9, <2>2
        <3>2. toks[j] # NoToken
            BY <1>4, <2>1, <3>1
        <3>3. PICK i \in toks[j] .. p : StopsAt(mem, toks[j], {NUL}, i)
            BY <1>4, <2>1, <3>2
        <3>4. mem[i] = NUL /\ i \in Nat /\ i <= p
            BY <1>1, <1>4, <2>1, <3>2, <3>3 DEF StopsAt
        <3>5. i \in 0 .. tok - 1
            BY <1>1, <3>1, <3>4
        <3>6. StopsAt(m2, toks[j], {NUL}, i)
            BY <1>5, <3>3, <3>4
        <3>. QED  BY <2>1, <3>1, <3>2, <3>5, <3>6
    <2>3. CASE k # last
        <3>1. k \in 1 .. Len(toks) /\ new[k] = toks[k]
            BY <1>3, <2>3
        <3>2. /\ toks[j] # NoToken
              /\ \E i \in 0 .. toks[k] - 1 : StopsAt(mem, toks[j], {NUL}, i)
            BY <1>4, <1>9, <2>1, <3>1
        <3>3. PICK i \in 0 .. toks[k] - 1 : StopsAt(mem, toks[j], {NUL}, i)
            BY <3>2
        <3>4. toks[k] \in Nat /\ toks[k] <= p
            BY <1>1, <1>4, <1>9, <3>1
        <3>5. i <= p
            BY <1>1, <3>3, <3>4
        <3>6. StopsAt(m2, toks[j], {NUL}, i)
            BY <1>5, <3>3, <3>5
        <3>. QED  BY <2>1, <3>1, <3>2, <3>3, <3>6
    <2>. QED  BY <2>2, <2>3
<1>10. p2 \in 0 .. n
    BY <1>1
<1>. QED  BY <1>3, <1>7, <1>8, <1>9, <1>10 DEF TokensCut, m2, p2, tok, new

(* What a reader of a token sees is a name, and create_file puts it into a *)
(* field that is long enough.                                              *)
LEMMA TextIsName ==
    ASSUME NEW mem \in MemoryTo(MAX_INPUT_LENGTH - 1), NEW p \in Nat,
           NEW i \in p .. MAX_INPUT_LENGTH - 1, StopsAt(mem, p, {NUL}, i)
    PROVE  /\ IsName(Text(mem, p))
           /\ strncpy(EmptyField, mem, p, MAX_FILENAME_LEN) = FieldOf(Text(mem, p))
<1>. DEFINE t == Text(mem, p)
            len == i - p
            M == MAX_FILENAME_LEN
<1>1. /\ MAX_INPUT_LENGTH \in Nat /\ MAX_INPUT_LENGTH - 1 \in Nat /\ M \in Nat
      /\ MAX_INPUT_LENGTH <= M /\ i \in Nat /\ p <= i /\ i < MAX_INPUT_LENGTH
    BY CommandLineAssumption
<1>2. strlen(mem, p) = len
    BY <1>1, ScanIs DEF strlen
<1>3. len \in Nat /\ len < M
    BY <1>1
<1>4. DOMAIN mem = 0 .. MAX_INPUT_LENGTH - 1 /\ mem \in [0 .. MAX_INPUT_LENGTH - 1 -> Chars]
    BY DEF MemoryTo
<1>5. ASSUME NEW j \in 1 .. len
      PROVE  mem[p + j - 1] \in Chars /\ mem[p + j - 1] # NUL
    <2>1. p + j - 1 \in 0 .. MAX_INPUT_LENGTH - 1 /\ p <= p + j - 1 /\ p + j - 1 < i
        BY <1>1
    <2>2. mem[p + j - 1] \notin {NUL}
        BY <1>4, <2>1 DEF StopsAt
    <2>. QED  BY <1>4, <2>1, <2>2
<1>6. t = [j \in 1 .. len |-> mem[p + j - 1]]
    BY <1>2 DEF Text
<1>. HIDE DEF t, len
<1>7. t \in [1 .. len -> Chars]
    BY <1>5, <1>6
<1>8. t \in Seq(Chars) /\ Len(t) = len
    BY <1>3, <1>7, SeqDef, LenProperties
<1>9. IsName(t)
    BY <1>3, <1>5, <1>6, <1>8 DEF IsName
<1>10. strncpy(EmptyField, mem, p, M) = FieldOf(t)
    <2>1. DOMAIN EmptyField = 0 .. M + 1
          /\ \A j \in 0 .. M - 1 : EmptyField[j] = NUL
        BY <1>1 DEF EmptyField
    <2>2. \A j \in 0 .. M + 1 : j < len => t[j + 1] = mem[p + j]
        <3>1. ASSUME NEW j \in 0 .. M + 1, j < len
              PROVE  j + 1 \in 1 .. len /\ p + (j + 1) - 1 = p + j
            BY <1>1, <1>3, <3>1
        <3>. QED  BY <1>6, <3>1
    <2>3. ASSUME NEW j \in 0 .. M + 1
          PROVE  (CASE j < M /\ j < strlen(mem, p)  -> mem[p + j]
                    [] j >= M /\ M > strlen(mem, p) -> EmptyField[j]
                    [] OTHER                        -> NUL)
                 = (IF j < Len(t) THEN t[j + 1] ELSE EmptyField[j])
        <3>1. CASE j < len
            <4>1. j < M /\ j < strlen(mem, p)
                BY <1>1, <1>2, <1>3, <3>1
            <4>. QED  BY <1>1, <1>8, <2>2, <3>1, <4>1
        <3>2. CASE ~(j < len) /\ j < M
            <4>1. ~(j < strlen(mem, p)) /\ ~(j >= M) /\ j \in 0 .. M - 1
                BY <1>1, <1>2, <3>2
            <4>. QED  BY <1>8, <2>1, <3>2, <4>1
        <3>3. CASE ~(j < M)
            <4>1. j >= M /\ M > strlen(mem, p) /\ ~(j < len)
                BY <1>1, <1>2, <1>3, <3>3
            <4>. QED  BY <1>8, <3>3, <4>1
        <3>. QED  BY <3>1, <3>2, <3>3
    <2>. QED  BY <2>1, <2>3 DEF strncpy, FieldOf
<1>. QED  BY <1>9, <1>10 DEF t

-----------------------------------------------------------------------------
(* The command loop.                                                       *)

(* While a command is read its line ends inside input, where strtok has    *)
(* cut the tokens; between commands there are none.  The names kept and    *)
(* asked for are shorter than a name field.                                *)
CommandInv ==
    /\ lines_read \in Nat
    /\ input \in MemoryTo(MAX_INPUT_LENGTH - 1)
    /\ tokens \in Seq(Int)
    /\ loop = "command" =>
          Len(line) \in 0 .. MAX_INPUT_LENGTH - 1 /\ input[Len(line)] = NUL
    /\ tokens # <<>> =>
          loop = "command" /\ TokensCut(input, Len(line), static_str, tokens)
    /\ \A n \in names : IsName(n.text) /\ n.filename = FieldOf(n.text)
    /\ call.name = <<>> \/ IsName(call.name)

(* What a fresh input array holds.                                         *)
LEMMA FreshInput ==
    ASSUME NEW c \in Garbage
    PROVE  [i \in InputIndex |-> c] \in MemoryTo(MAX_INPUT_LENGTH - 1)
    BY CommandLineAssumption DEF InputIndex, MemoryTo, Chars

(* cli_loop starts so.                                                     *)
LEMMA InitCommand == Init => CommandInv
<1>1. SUFFICES ASSUME Init PROVE CommandInv
    OBVIOUS
<1>2. input \in MemoryTo(MAX_INPUT_LENGTH - 1)
    BY <1>1, FreshInput DEF Init
<1>3. call.name = <<>>
    BY <1>1 DEF Init, NoCall, Call
<1>. QED  BY <1>1, <1>2, <1>3 DEF Init, CommandInv

(* read_line.                                                              *)
LEMMA ReadLineKeeps ==
    ASSUME CommandInv, loop = "prompt", NEW typed \in Seq(STRING), ReadLine(typed)
    PROVE  CommandInv'
<1>. DEFINE M == MAX_INPUT_LENGTH
            len == Shorter(Len(typed), M - 1)
<1>1. M - 1 \in Nat /\ Len(typed) \in Nat /\ M \in Nat
    BY CommandLineAssumption, LenProperties
<1>2. len \in Nat /\ len <= Len(typed) /\ len <= M - 1
    BY <1>1 DEF Shorter
<1>3. line' = SubSeq(typed, 1, len)
    BY DEF ReadLine
<1>. HIDE DEF len
<1>4. line' \in Seq(STRING) /\ Len(line') = len
    <2>1. \A i \in 1 .. len : typed[i] \in STRING
        BY <1>1, <1>2, ElementOfSeq
    <2>2. line' = [i \in 1 .. len |-> typed[i]]
        BY <1>1, <1>2, <1>3
    <2>3. line' \in [1 .. len -> STRING]
        BY <2>1, <2>2
    <2>. QED  BY <1>2, <2>3, SeqDef, LenProperties
<1>5. /\ Literal(line')[len] = NUL
      /\ \A i \in 0 .. len : Literal(line')[i] \in Chars
    <2>1. \A i \in 0 .. len : Literal(line')[i] = IF i < len THEN line'[i + 1] ELSE NUL
        BY <1>4 DEF Literal
    <2>2. ASSUME NEW i \in 0 .. len, i < len
          PROVE  line'[i + 1] \in STRING
        <3>1. i + 1 \in 1 .. Len(line')
            BY <1>2, <1>4, <2>2
        <3>. QED  BY <1>4, <3>1, ElementOfSeq
    <2>. QED  BY <1>2, <2>1, <2>2 DEF Chars
<1>6. input' = [i \in InputIndex |-> IF i <= len THEN Literal(line')[i] ELSE input[i]]
    BY <1>4 DEF ReadLine
<1>7. input' \in MemoryTo(M - 1) /\ input'[len] = NUL
    <2>1. InputIndex = 0 .. M - 1
        BY DEF InputIndex
    <2>2. \A i \in 0 .. M - 1 : input[i] \in Chars
        BY DEF CommandInv, MemoryTo
    <2>3. \A i \in 0 .. M - 1 : i <= len => i \in 0 .. len
        BY <1>1, <1>2
    <2>. QED  BY <1>1, <1>2, <1>5, <1>6, <2>1, <2>2, <2>3 DEF MemoryTo
<1>8. tokens = <<>> /\ tokens' = tokens /\ names' = names /\ call' = call
      /\ lines_read' = lines_read + 1 /\ lines_read \in Nat /\ tokens \in Seq(Int)
    BY DEF CommandInv, ReadLine
<1>9. Len(line') \in 0 .. M - 1
    BY <1>1, <1>2, <1>4
<1>. QED  BY <1>4, <1>7, <1>8, <1>9 DEF CommandInv

(* A strtok.                                                               *)
LEMMA StrtokKeeps ==
    ASSUME CommandInv, loop = "command", NEW delim, NUL \notin delim, Strtok(delim)
    PROVE  CommandInv'
<1>. DEFINE N == MAX_INPUT_LENGTH - 1
            n == Len(line)
            p == IF tokens = <<>> THEN 0 ELSE static_str
            r == strtok(input, p, delim)
<1>1. /\ N \in Nat /\ input \in MemoryTo(N) /\ n \in 0 .. N /\ input[n] = NUL
      /\ tokens \in Seq(Int)
    BY CommandLineAssumption DEF CommandInv
<1>2. TokensCut(input, n, p, tokens)
    <2>1. CASE tokens = <<>>
        BY <1>1, <2>1 DEF TokensCut
    <2>2. CASE tokens # <<>>
        BY <2>2 DEF CommandInv
    <2>. QED  BY <2>1, <2>2
<1>. HIDE DEF p
<1>3. p \in Nat /\ n \in p .. N
    BY <1>1, <1>2 DEF TokensCut
<1>4. r.mem \in MemoryTo(N) /\ Cut(input, p, n, r)
    BY <1>1, <1>3, StrtokCuts
<1>5. input' = r.mem /\ static_str' = r.static_str /\ tokens' = Append(tokens, r.token)
      /\ line' = line /\ lines_read' = lines_read /\ call' = call /\ names' = names
      /\ loop' = loop
    BY DEF Strtok, p
<1>. HIDE DEF r, N
<1>6. r.token \in Int
    BY <1>3, <1>4 DEF Cut, NoToken
<1>7. TokensCut(r.mem, n, r.static_str, Append(tokens, r.token))
    BY ONLY <1>1, <1>2, <1>4, <1>6, AppendCut
<1>8. tokens' \in Seq(Int)
    BY <1>1, <1>5, <1>6, AppendProperties
<1>9. input'[n] = NUL
    BY <1>4, <1>5 DEF Cut
<1>10. /\ input' \in MemoryTo(N) /\ loop' = "command"
       /\ Len(line') \in 0 .. N /\ input'[Len(line')] = NUL
       /\ TokensCut(input', Len(line'), static_str', tokens')
    BY <1>1, <1>4, <1>5, <1>7, <1>9
<1>11. /\ lines_read' \in Nat
       /\ \A m \in names' : IsName(m.text) /\ m.filename = FieldOf(m.text)
       /\ call'.name = <<>> \/ IsName(call'.name)
    BY <1>5 DEF CommandInv
<1>. QED  BY <1>8, <1>10, <1>11 DEF CommandInv, N

(* A token that is there is a name.                                        *)
LEMMA TokenIsName ==
    ASSUME CommandInv, NEW k \in DOMAIN tokens, ~Missing(k)
    PROVE  /\ IsName(Token(k))
           /\ strncpy(EmptyField, input, tokens[k], MAX_FILENAME_LEN) = FieldOf(Token(k))
<1>1. tokens # <<>>
    OBVIOUS
<1>2. /\ input \in MemoryTo(MAX_INPUT_LENGTH - 1) /\ Len(line) \in 0 .. MAX_INPUT_LENGTH - 1
      /\ static_str \in 0 .. Len(line) /\ tokens[k] \in Nat
      /\ \E i \in tokens[k] .. static_str : StopsAt(input, tokens[k], {NUL}, i)
    BY <1>1 DEF CommandInv, TokensCut, Missing
<1>3. PICK i \in tokens[k] .. static_str : StopsAt(input, tokens[k], {NUL}, i)
    BY <1>2
<1>4. i \in tokens[k] .. MAX_INPUT_LENGTH - 1
    BY <1>2, CommandLineAssumption
<1>. QED  BY <1>2, <1>3, <1>4, TextIsName DEF Token

(* A branch that ends with a call.                                         *)
LEMMA ReturnKeeps ==
    ASSUME CommandInv, NEW c, Return(c), c.name = <<>> \/ IsName(c.name),
           loop' # "command", input' \in MemoryTo(MAX_INPUT_LENGTH - 1),
           \A n \in names' : IsName(n.text) /\ n.filename = FieldOf(n.text)
    PROVE  CommandInv'
<1>1. <<>> \in Seq(Int)
    BY EmptySeq
<1>. QED  BY <1>1 DEF CommandInv, Return

(* One that leaves the input and the names alone.                          *)
LEMMA ContinueKeeps ==
    ASSUME CommandInv, NEW c, Continue(c), c.name = <<>> \/ IsName(c.name)
    PROVE  CommandInv'
<1>1. /\ Return(c) /\ loop' # "command" /\ input' \in MemoryTo(MAX_INPUT_LENGTH - 1)
      /\ \A n \in names' : IsName(n.text) /\ n.filename = FieldOf(n.text)
    BY DEF Continue, CommandInv
<1>. QED  BY <1>1, ReturnKeeps

(* The branches that leave no token behind.                                *)
LEMMA BranchKeeps ==
    ASSUME CommandInv,
           \/ Nothing \/ Exit \/ List \/ Unknown \/ Usage \/ Start
           \/ QueueTest("syscall", "syscall_test") \/ QueueTest("process", "process_test")
           \/ (\E program \in Programs : QueueProgram(program)) \/ UnknownProgram
           \/ Make \/ OfName("read", "read_file") \/ OfName("rm", "delete_file")
           \/ OfData("write", "write_file") \/ OfData("append", "append_to_file")
           \/ Chmod \/ FileUsage \/ UnknownOperation
    PROVE  CommandInv'
<1>1. \A to, name, data, number : Call(to, name, data, number).name = name
    BY DEF Call
<1>2. NoCall.name = <<>>
    BY <1>1 DEF NoCall
<1>3. input \in MemoryTo(MAX_INPUT_LENGTH - 1)
      /\ \A n \in names : IsName(n.text) /\ n.filename = FieldOf(n.text)
    BY DEF CommandInv
<1>4. tokens \in Seq(Int) /\ DOMAIN tokens = 1 .. Len(tokens) /\ Len(tokens) \in Nat
    BY LenProperties DEF CommandInv
<1>5. Len(tokens) \in {3, 4} => 3 \in DOMAIN tokens
    BY <1>4
<1>6. ASSUME NEW c, Continue(c), c.name = <<>>
      PROVE  CommandInv'
    BY <1>6, ContinueKeeps
<1>7. CASE Nothing \/ Unknown \/ Usage \/ UnknownProgram \/ FileUsage \/ UnknownOperation
    BY <1>2, <1>6, <1>7 DEF Nothing, Unknown, Usage, UnknownProgram, FileUsage,
                            UnknownOperation
<1>8. CASE Exit
    <2>1. Return(Call("exit", <<>>, <<>>, 0)) /\ loop' # "command"
          /\ input' = input /\ names' = names
        BY <1>8 DEF Exit
    <2>. QED  BY <1>1, <1>3, <2>1, ReturnKeeps
<1>9. CASE List
    BY <1>1, <1>6, <1>9 DEF List
<1>10. CASE Start
    <2>1. Return(Call("schedule", <<>>, <<>>, 0)) /\ loop' # "command" /\ names' = names
          /\ \E c \in Garbage : input' = [i \in InputIndex |-> c]
        BY <1>10 DEF Start
    <2>2. input' \in MemoryTo(MAX_INPUT_LENGTH - 1)
        BY <2>1, FreshInput
    <2>. QED  BY <1>1, <1>3, <2>1, <2>2, ReturnKeeps
<1>11. CASE \/ QueueTest("syscall", "syscall_test") \/ QueueTest("process", "process_test")
            \/ \E program \in Programs : QueueProgram(program)
    BY <1>1, <1>6, <1>11 DEF QueueTest, QueueProgram
<1>12. CASE Make
    <2>1. /\ Len(tokens) = 3 /\ ~Missing(3) /\ Return(Call("create_file", Token(3), <<>>, 0))
          /\ names' = names \cup
                {[text |-> Token(3),
                  filename |-> strncpy(EmptyField, input, tokens[3], MAX_FILENAME_LEN)]}
          /\ loop' # "command" /\ input' = input
        BY <1>12 DEF Make
    <2>2. /\ IsName(Token(3))
          /\ strncpy(EmptyField, input, tokens[3], MAX_FILENAME_LEN) = FieldOf(Token(3))
        BY <1>5, <2>1, TokenIsName
    <2>3. \A n \in names' : IsName(n.text) /\ n.filename = FieldOf(n.text)
        BY <1>3, <2>1, <2>2
    <2>. QED  BY <1>1, <1>3, <2>1, <2>2, <2>3, ReturnKeeps
<1>13. ASSUME NEW to, NEW data, NEW number, Len(tokens) \in {3, 4}, ~Missing(3),
              Continue(Call(to, Token(3), data, number))
       PROVE  CommandInv'
    <2>1. IsName(Token(3))
        BY <1>5, <1>13, TokenIsName
    <2>. QED  BY <1>1, <1>13, <2>1, ContinueKeeps
<1>14. CASE OfName("read", "read_file") \/ OfName("rm", "delete_file")
    BY <1>13, <1>14 DEF OfName
<1>15. CASE OfData("write", "write_file") \/ OfData("append", "append_to_file")
    BY <1>13, <1>15 DEF OfData
<1>16. CASE Chmod
    BY <1>13, <1>16 DEF Chmod
<1>. QED  BY <1>7, <1>8, <1>9, <1>10, <1>11, <1>12, <1>14, <1>15, <1>16

(* What can be typed next.                                                 *)
LEMMA TypedLine ==
    ASSUME lines_read \in Nat, lines_read < Len(Lines), NEW typed \in Lines[lines_read + 1]
    PROVE  typed \in Seq(STRING \ {NUL, "\n"})
<1>. DEFINE T == Seq(STRING \ {NUL, "\n"})
<1>1. Lines \in Seq(SUBSET T) /\ Len(Lines) \in Nat
    BY CommandLineAssumption, LenProperties
<1>2. lines_read + 1 \in 1 .. Len(Lines)
    BY <1>1
<1>. HIDE DEF T
<1>3. Lines[lines_read + 1] \in SUBSET T
    BY <1>1, <1>2, ElementOfSeq
<1>. QED  BY <1>3 DEF T

(* Every step keeps the invariant.                                         *)
LEMMA NextCommand == CommandInv /\ [Next]_vars => CommandInv'
<1>1. SUFFICES ASSUME CommandInv, [Next]_vars PROVE CommandInv'
    OBVIOUS
<1>2. CASE UNCHANGED vars
    BY <1>1, <1>2 DEF CommandInv, vars
<1>3. CASE /\ loop = "prompt" /\ lines_read < Len(Lines)
           /\ \E typed \in Lines[lines_read + 1] : ReadLine(typed)
    <2>1. PICK typed \in Lines[lines_read + 1] : ReadLine(typed)
        BY <1>3
    <2>2. lines_read \in Nat
        BY <1>1 DEF CommandInv
    <2>3. typed \in Seq(STRING \ {NUL, "\n"})
        BY <1>3, <2>1, <2>2, TypedLine
    <2>4. Len(typed) \in Nat /\ typed \in [1 .. Len(typed) -> STRING]
        BY <2>3, LenProperties
    <2>5. typed \in Seq(STRING)
        BY <2>4, SeqDef
    <2>. QED  BY <1>1, <1>3, <2>1, <2>5, ReadLineKeeps
<1>4. CASE loop = "command" /\ (Token1 \/ Token2 \/ Token3 \/ Token4 \/ Data)
    <2>1. NUL \notin Blank /\ NUL \notin Newline
        BY DEF Blank, Newline, NUL
    <2>2. Strtok(Blank) \/ Strtok(Newline)
        BY <1>4 DEF Token1, Token2, Token3, Token4, Data
    <2>. QED  BY <1>1, <1>4, <2>1, <2>2, StrtokKeeps
<1>5. CASE loop = "command" /\ Command /\ ~(Token1 \/ Token2 \/ Token3 \/ Token4 \/ Data)
    BY <1>1, <1>5, BranchKeeps DEF Command
<1>6. CASE Stop
    BY <1>2, <1>6 DEF Stop
<1>. QED  BY <1>1, <1>2, <1>3, <1>4, <1>5, <1>6 DEF Next

-----------------------------------------------------------------------------
(* Numbers.                                                                *)

(* f[k] is the number the digits d[1], ..., d[k] write.                    *)
Decimal(m, d, f) ==
    f[0] = 0 /\ \A k \in 1 .. m : f[k] = 10 * f[k - 1] + d[k]

(* Digits write a number.                                                  *)
LEMMA DecimalExists ==
    ASSUME NEW m \in Nat, NEW d \in [1 .. m -> Int]
    PROVE  \E f \in [0 .. m -> Int] : Decimal(m, d, f)
<1>. DEFINE Good(n) == \E f \in [0 .. n -> Int] : Decimal(n, d, f)
            Bad == {n \in Nat : n <= m /\ ~Good(n)}
<1>1. SUFFICES ASSUME Bad # {} PROVE FALSE
    OBVIOUS
<1>2. PICK n \in Bad : IsLeast(n, Bad)
    BY <1>1, LeastExists
<1>3. CASE n = 0
    <2>1. [k \in 0 .. 0 |-> 0] \in [0 .. 0 -> Int] /\ Decimal(0, d, [k \in 0 .. 0 |-> 0])
        BY DEF Decimal
    <2>. QED  BY <1>2, <1>3, <2>1
<1>4. CASE n # 0
    <2>1. n - 1 \in Nat /\ n - 1 \notin Bad /\ n \in 1 .. m
        BY <1>2, <1>4 DEF IsLeast
    <2>2. Good(n - 1)
        BY <2>1
    <2>3. PICK f \in [0 .. n - 1 -> Int] : Decimal(n - 1, d, f)
        BY <2>2
    <2>. DEFINE h == [k \in 0 .. n |-> IF k = n THEN 10 * f[n - 1] + d[n] ELSE f[k]]
    <2>4. h \in [0 .. n -> Int]
        BY <2>1, <2>3
    <2>5. h[0] = 0
        BY <2>1, <2>3 DEF Decimal
    <2>6. ASSUME NEW k \in 1 .. n
          PROVE  h[k] = 10 * h[k - 1] + d[k]
        <3>1. k \in 0 .. n /\ k - 1 \in 0 .. n /\ k - 1 # n /\ h[k - 1] = f[k - 1]
            BY <2>1
        <3>2. CASE k = n
            BY <3>1, <3>2
        <3>3. CASE k # n
            <4>1. k \in 1 .. n - 1
                BY <2>1, <3>3
            <4>. QED  BY <2>3, <3>1, <3>3, <4>1 DEF Decimal
        <3>. QED  BY <3>2, <3>3
    <2>7. Good(n)
        BY <2>4, <2>5, <2>6 DEF Decimal
    <2>. QED  BY <1>2, <2>7
<1>. QED  BY <1>3, <1>4

(* Whoever adds them up gets that number.                                  *)
LEMMA DecimalUnique ==
    ASSUME NEW m \in Nat, NEW d \in [1 .. m -> Int], NEW f \in [0 .. m -> Int],
           Decimal(m, d, f), NEW g, g[0] = 0,
           \A k \in 1 .. m : g[k] = 10 * g[k - 1] + d[k] \/ g[k] = g[k - 1] * 10 + d[k]
    PROVE  g[m] = f[m]
<1>. DEFINE Bad == {k \in Nat : k <= m /\ g[k] # f[k]}
<1>1. SUFFICES ASSUME Bad # {} PROVE FALSE
    OBVIOUS
<1>2. PICK k \in Bad : IsLeast(k, Bad)
    BY <1>1, LeastExists
<1>3. k # 0
    BY <1>2 DEF Decimal
<1>4. k - 1 \in Nat /\ k - 1 \notin Bad /\ k \in 1 .. m /\ k - 1 \in 0 .. m
    BY <1>2, <1>3 DEF IsLeast
<1>5. g[k - 1] = f[k - 1]
    BY <1>2, <1>4
<1>6. g[k] = 10 * f[k - 1] + d[k] \/ g[k] = f[k - 1] * 10 + d[k]
    BY <1>4, <1>5
<1>7. f[k - 1] \in Int /\ d[k] \in Int /\ f[k] = 10 * f[k - 1] + d[k]
    BY <1>4 DEF Decimal
<1>. QED  BY <1>2, <1>6, <1>7

(* What atoi computes from the digits at the addresses a to last, and      *)
(* Number from the first m of a word.                                      *)
NumOf(c, a, last) ==
    LET num[i \in a - 1 .. last] ==
            IF i < a THEN 0 ELSE num[i - 1] * 10 + DigitValue(c[i])
    IN  num[last]
ValueOf(s, m) ==
    LET value[k \in 0 .. m] ==
            IF k = 0 THEN 0 ELSE 10 * value[k - 1] + DigitValue(s[k])
    IN  value[m]

(* The characters of c from a on are m digits with the values d.           *)
DigitsAt(c, a, m, d) == \A k \in 1 .. m : d[k] = DigitValue(c[a + k - 1])

(* So atoi gets it.                                                        *)
LEMMA NumIs ==
    ASSUME NEW m \in Nat, NEW a \in Int, NEW c, NEW d \in [1 .. m -> Int],
           DigitsAt(c, a, m, d),
           NEW f \in [0 .. m -> Int], Decimal(m, d, f), NEW last, last = a + m - 1
    PROVE  NumOf(c, a, last) = f[m]
<1>. DEFINE D == a - 1 .. a + m - 1
            body(g) == [i \in D |-> IF i < a THEN 0 ELSE g[i - 1] * 10 + DigitValue(c[i])]
            num == CHOOSE g : g = body(g)
            s == [i \in D |-> f[i - a + 1]]
            h == [k \in 0 .. m |-> num[a + k - 1]]
<1>1. ASSUME NEW i \in D
      PROVE  s[i] = IF i < a THEN 0 ELSE s[i - 1] * 10 + DigitValue(c[i])
    <2>1. CASE i < a
        <3>1. i - a + 1 = 0
            BY <2>1
        <3>. QED  BY <2>1, <3>1 DEF Decimal
    <2>2. CASE ~(i < a)
        <3>. DEFINE k == i - a + 1
        <3>1. k \in 1 .. m /\ i - 1 \in D /\ (i - 1) - a + 1 = k - 1 /\ a + k - 1 = i
              /\ k - 1 \in 0 .. m
            BY <2>2
        <3>2. s[i] = f[k] /\ s[i - 1] = f[k - 1] /\ d[k] = DigitValue(c[i])
            BY <3>1 DEF DigitsAt
        <3>3. f[k] = 10 * f[k - 1] + d[k] /\ f[k - 1] \in Int /\ d[k] \in Int
            <4>. HIDE DEF k
            <4>. QED  BY <3>1 DEF Decimal
        <3>4. 10 * f[k - 1] + d[k] = f[k - 1] * 10 + d[k]
            <4>. HIDE DEF k
            <4>. QED  BY <3>3
        <3>. QED  BY <2>2, <3>2, <3>3, <3>4
    <2>. QED  BY <2>1, <2>2
<1>2. s = body(s)
    BY <1>1
<1>3. num = body(num)
    <2>. HIDE DEF body, s
    <2>. QED  BY <1>2
<1>. HIDE DEF num
<1>4. \A i \in D : num[i] = IF i < a THEN 0 ELSE num[i - 1] * 10 + DigitValue(c[i])
    BY <1>3
<1>5. h[0] = 0
    BY <1>4
<1>6. ASSUME NEW k \in 1 .. m
      PROVE  h[k] = h[k - 1] * 10 + d[k]
    <2>1. a + k - 1 \in D /\ ~(a + k - 1 < a) /\ (a + k - 1) - 1 = a + (k - 1) - 1
          /\ k - 1 \in 0 .. m /\ k \in 0 .. m
        OBVIOUS
    <2>. QED  BY <1>4, <2>1 DEF DigitsAt
<1>7. h[m] = f[m]
    <2>. HIDE DEF h
    <2>. QED  BY <1>5, <1>6, DecimalUnique
<1>8. num[a + m - 1] = f[m]
    BY <1>7
<1>. QED  BY <1>8 DEF num, NumOf

(* Number, of the digits a word begins with.                               *)
LEMMA ValueIs ==
    ASSUME NEW m \in Nat, NEW s, NEW d \in [1 .. m -> Int],
           \A k \in 1 .. m : d[k] = DigitValue(s[k]),
           NEW f \in [0 .. m -> Int], Decimal(m, d, f)
    PROVE  ValueOf(s, m) = f[m]
<1>. DEFINE body(g) == [k \in 0 .. m |->
                        IF k = 0 THEN 0 ELSE 10 * g[k - 1] + DigitValue(s[k])]
            value == CHOOSE g : g = body(g)
<1>1. f = body(f)
    <2>1. \A k \in 0 .. m : f[k] = IF k = 0 THEN 0 ELSE 10 * f[k - 1] + DigitValue(s[k])
        <3>1. \A k \in 0 .. m : k = 0 \/ k \in 1 .. m
            OBVIOUS
        <3>. QED  BY <3>1 DEF Decimal
    <2>. QED  BY <2>1
<1>2. value = body(value)
    <2>. HIDE DEF body
    <2>. QED  BY <1>1
<1>. HIDE DEF value
<1>3. value[m] = f[m]
    <2>1. value[0] = 0 /\ \A k \in 1 .. m : value[k] = 10 * value[k - 1] + d[k]
        <3>1. 0 \in 0 .. m /\ \A k \in 1 .. m : k \in 0 .. m /\ k # 0
            OBVIOUS
        <3>. QED  BY <1>2, <3>1
    <2>. QED  BY <2>1, DecimalUnique
<1>. QED  BY <1>3 DEF value, ValueOf

(* The digits that are there have values.                                  *)
LEMMA DigitFacts ==
    /\ ~IsDigit(NUL)
    /\ \A c : IsDigit(c) => DigitValue(c) \in Int
    /\ \A c : IsDigit(c) <=> c \in {Digits[i] : i \in 1 .. 10}
<1>1. \A c : IsDigit(c) <=> \E i \in 1 .. 10 : Digits[i] = c
    BY DEF IsDigit
<1>2. \A i \in 1 .. 10 : Digits[i] # NUL
    BY DEF Digits, NUL
<1>3. ASSUME NEW c, IsDigit(c)
      PROVE  DigitValue(c) \in Int
    <2>. DEFINE v == CHOOSE i \in 1 .. 10 : Digits[i] = c
    <2>1. v \in 1 .. 10
        BY <1>1, <1>3
    <2>. HIDE DEF v
    <2>2. v - 1 \in Int
        BY <2>1
    <2>. QED  BY <2>2 DEF DigitValue, v
<1>. QED  BY <1>1, <1>2, <1>3 DEF IsDigit

(* The number of digits that lie from address a on, before e at the latest. *)
LEMMA DigitsBefore ==
    ASSUME NEW N \in Nat, NEW mem \in MemoryTo(N), NEW a \in Nat, NEW e \in a .. N,
           mem[e] = NUL
    PROVE  \E m \in 0 .. e - a :
              /\ ~IsDigit(mem[a + m]) /\ \A k \in 1 .. m : IsDigit(mem[a + k - 1])
              /\ Scan(mem, a, {mem[i] : i \in DOMAIN mem} \ {Digits[i] : i \in 1 .. 10})
                    = a + m
<1>. DEFINE chars == {mem[i] : i \in DOMAIN mem}
            stops == chars \ {Digits[i] : i \in 1 .. 10}
            j == Scan(mem, a, stops)
<1>1. DOMAIN mem = 0 .. N
    BY DEF MemoryTo
<1>2. \A i \in 0 .. N : mem[i] \in stops <=> ~IsDigit(mem[i])
    BY <1>1, DigitFacts
<1>. HIDE DEF stops
<1>3. mem[e] \in stops
    BY <1>2, DigitFacts
<1>4. j \in a .. e /\ StopsAt(mem, a, stops, j)
    BY <1>3, ScanStops
<1>. HIDE DEF j
<1>. DEFINE m == j - a
<1>5. m \in 0 .. e - a /\ a + m = j /\ j \in 0 .. N
    BY <1>4
<1>6. ~IsDigit(mem[a + m])
    BY <1>2, <1>4, <1>5 DEF StopsAt
<1>7. ASSUME NEW k \in 1 .. m
      PROVE  IsDigit(mem[a + k - 1])
    <2>1. a + k - 1 \in 0 .. N /\ a <= a + k - 1 /\ a + k - 1 < j
        BY <1>4, <1>5
    <2>. QED  BY <1>1, <1>2, <1>4, <2>1 DEF StopsAt
<1>. HIDE DEF m
<1>8. Scan(mem, a, stops) = a + m
    BY <1>5 DEF j
<1>. QED  BY <1>5, <1>6, <1>7, <1>8 DEF stops

(* The first of a sequence that is no digit.                               *)
LEMMA LeadingIs ==
    ASSUME NEW s \in Seq(Chars), NEW m \in 0 .. Len(s),
           \A k \in 1 .. m : IsDigit(s[k]), m < Len(s) => ~IsDigit(s[m + 1])
    PROVE  LeadingDigits(s) = m
<1>. DEFINE t == Append(s, NUL)
            I == {i \in 1 .. Len(t) : ~IsDigit(t[i])}
<1>1. /\ Len(s) \in Nat /\ Len(t) = Len(s) + 1 /\ t[Len(s) + 1] = NUL
      /\ \A i \in 1 .. Len(s) : t[i] = s[i]
    BY LenProperties, AppendProperties
<1>. HIDE DEF t
<1>2. m + 1 \in I
    <2>1. CASE m < Len(s)
        <3>1. m + 1 \in 1 .. Len(s) /\ m + 1 \in 1 .. Len(t)
            BY <1>1, <2>1
        <3>. QED  BY <1>1, <2>1, <3>1
    <2>2. CASE ~(m < Len(s))
        <3>1. m + 1 = Len(s) + 1 /\ m + 1 \in 1 .. Len(t)
            BY <1>1, <2>2
        <3>. QED  BY <1>1, <3>1, DigitFacts
    <2>. QED  BY <2>1, <2>2
<1>3. \A i \in I : m + 1 <= i
    <2>1. SUFFICES ASSUME NEW i \in I, ~(m + 1 <= i) PROVE FALSE
        OBVIOUS
    <2>2. i \in 1 .. m /\ i \in 1 .. Len(s)
        BY <1>1, <2>1
    <2>. QED  BY <1>1, <2>1, <2>2
<1>4. \A i \in I : i \in Int
    OBVIOUS
<1>5. I # {} /\ Min(I) = m + 1
    <2>. HIDE DEF I
    <2>1. \A x \in I : (\A y \in I : x <= y) => x = m + 1
        BY <1>2, <1>3, <1>4
    <2>. QED  BY <1>2, <1>3, <1>4, <2>1 DEF Min
<1>6. SelectInSeq(t, LAMBDA c : ~IsDigit(c)) = m + 1
    BY <1>5 DEF SelectInSeq
<1>7. (m + 1) - 1 = m
    OBVIOUS
<1>. QED  BY <1>6, <1>7 DEF LeadingDigits, t

(* The string s lies in mem from a on, and its terminator at e.            *)
StringAt(mem, a, e, s) ==
    /\ s \in Seq(Chars) /\ Len(s) = e - a /\ mem[e] = NUL
    /\ \A k \in 1 .. Len(s) : s[k] = mem[a + k - 1]

(* atoi and Number agree: the digits start at address a of mem and are     *)
(* those of the sequence s.                                                *)
LEMMA ValueRead ==
    ASSUME NEW N \in Nat, NEW mem \in MemoryTo(N), NEW a \in Nat, NEW e \in a .. N,
           NEW s, StringAt(mem, a, e, s)
    PROVE  NumOf(mem, a, Scan(mem, a, {mem[i] : i \in DOMAIN mem}
                                          \ {Digits[i] : i \in 1 .. 10}) - 1)
             = ValueOf(s, LeadingDigits(s))
<1>1. PICK m \in 0 .. e - a :
              /\ ~IsDigit(mem[a + m]) /\ \A k \in 1 .. m : IsDigit(mem[a + k - 1])
              /\ Scan(mem, a, {mem[i] : i \in DOMAIN mem} \ {Digits[i] : i \in 1 .. 10})
                    = a + m
    BY DigitsBefore DEF StringAt
<1>2. /\ m \in Nat /\ m \in 0 .. Len(s) /\ \A k \in 1 .. m : k \in 1 .. Len(s)
      /\ s \in Seq(Chars) /\ \A k \in 1 .. Len(s) : s[k] = mem[a + k - 1]
    BY <1>1 DEF StringAt
<1>3. LeadingDigits(s) = m
    <2>1. \A k \in 1 .. m : IsDigit(s[k])
        BY <1>1, <1>2
    <2>2. m < Len(s) => ~IsDigit(s[m + 1])
        <3>1. ASSUME m < Len(s)
              PROVE  m + 1 \in 1 .. Len(s) /\ a + (m + 1) - 1 = a + m
            BY <1>2, <3>1, LenProperties
        <3>. QED  BY <1>1, <1>2, <3>1
    <2>. QED  BY <1>2, <2>1, <2>2, LeadingIs
<1>. DEFINE d == [k \in 1 .. m |-> DigitValue(mem[a + k - 1])]
<1>4. d \in [1 .. m -> Int] /\ DigitsAt(mem, a, m, d)
    BY <1>1, DigitFacts DEF DigitsAt
<1>. HIDE DEF d
<1>5. PICK f \in [0 .. m -> Int] : Decimal(m, d, f)
    BY <1>2, <1>4, DecimalExists
<1>6. NumOf(mem, a, a + m - 1) = f[m]
    <2>. DEFINE last == a + m - 1
    <2>1. a \in Int /\ last = a + m - 1
        OBVIOUS
    <2>. HIDE DEF last
    <2>2. NumOf(mem, a, last) = f[m]
        <3>1. m \in Nat /\ a \in Int /\ d \in [1 .. m -> Int] /\ DigitsAt(mem, a, m, d)
              /\ f \in [0 .. m -> Int] /\ Decimal(m, d, f) /\ last = a + m - 1
            BY <1>2, <1>4, <1>5, <2>1
        <3>. QED  BY ONLY <3>1, NumIs, Zenon
    <2>. QED  BY <2>1, <2>2
<1>7. ValueOf(s, m) = f[m]
    <2>1. \A k \in 1 .. m : d[k] = DigitValue(s[k])
        BY <1>2, <1>4 DEF DigitsAt
    <2>. QED  BY <1>2, <1>4, <1>5, <2>1, ValueIs
<1>8. (a + m) - 1 = a + m - 1
    BY <1>2
<1>. QED  BY <1>1, <1>3, <1>6, <1>7, <1>8

(* What atoi makes of a token is the number its text begins with.          *)
LEMMA NumberRead ==
    ASSUME NEW N \in Nat, NEW mem \in MemoryTo(N), NEW p \in Nat, NEW e \in p + 1 .. N,
           NEW t, StringAt(mem, p, e, t)
    PROVE  atoi(mem, p) = Number(t)
<1>. DEFINE first == IF mem[p] = "-" THEN p + 1 ELSE p
            last(a) == Scan(mem, a, {mem[i] : i \in DOMAIN mem}
                                        \ {Digits[i] : i \in 1 .. 10}) - 1
            digits == IF t[1] = "-" THEN Tail(t) ELSE t
<1>1. atoi(mem, p) = IF first = p THEN NumOf(mem, first, last(first))
                                  ELSE -NumOf(mem, first, last(first))
    BY DEF atoi, NumOf
<1>2. Number(t) = IF t[1] = "-" THEN -ValueOf(digits, LeadingDigits(digits))
                                ELSE ValueOf(digits, LeadingDigits(digits))
    BY DEF Number, ValueOf
<1>3. t[1] = mem[p]
    <2>1. 1 \in 1 .. Len(t) /\ p + 1 - 1 = p
        BY DEF StringAt
    <2>. QED  BY <2>1 DEF StringAt
<1>4. CASE mem[p] = "-"
    <2>. DEFINE s == Tail(t)
    <2>1. StringAt(mem, p + 1, e, s)
        <3>1. t # <<>> /\ Len(t) \in Nat /\ t \in Seq(Chars) /\ Len(t) = e - p
            BY LenProperties, EmptySeq DEF StringAt
        <3>2. s \in Seq(Chars) /\ Len(s) = Len(t) - 1
              /\ \A k \in 1 .. Len(s) : s[k] = t[k + 1]
            BY <3>1, HeadTailProperties
        <3>3. ASSUME NEW k \in 1 .. Len(s)
              PROVE  k + 1 \in 1 .. Len(t) /\ p + (k + 1) - 1 = (p + 1) + k - 1
            BY <3>1, <3>2
        <3>4. \A k \in 1 .. Len(s) : s[k] = mem[(p + 1) + k - 1]
            BY <3>2, <3>3 DEF StringAt
        <3>5. Len(s) = e - (p + 1) /\ mem[e] = NUL
            BY <3>1, <3>2 DEF StringAt
        <3>. QED  BY <3>2, <3>4, <3>5 DEF StringAt
    <2>2. p + 1 \in Nat /\ p + 1 # p
        OBVIOUS
    <2>. HIDE DEF s
    <2>3. t[1] = "-"
        BY <1>3, <1>4
    <2>4. e \in p + 1 .. N /\ digits = s /\ first = p + 1
        BY <1>4, <2>3 DEF s
    <2>5. NumOf(mem, p + 1, last(p + 1)) = ValueOf(s, LeadingDigits(s))
        BY <2>1, <2>2, <2>4, ValueRead
    <2>. HIDE DEF last, digits, first
    <2>. QED  BY <1>1, <1>2, <2>2, <2>3, <2>4, <2>5
<1>5. CASE mem[p] # "-"
    <2>1. t[1] # "-" /\ e \in p .. N
        BY <1>3, <1>5
    <2>. QED  BY <1>5, <2>1, ValueRead, <1>1, <1>2
<1>. QED  BY <1>4, <1>5

-----------------------------------------------------------------------------
(* Words, of a line l.                                                     *)

Starts(l) == {i \in 1 .. Len(l) : l[i] \notin Blank /\ (i = 1 \/ l[i - 1] \in Blank)}
Ends(l)   == {i \in 1 .. Len(l) : l[i] \notin Blank /\ (i = Len(l) \/ l[i + 1] \in Blank)}
UpTo(S, i) == {j \in S : j <= i}

(* What can be typed.                                                      *)
IsLine(l) == l \in Seq(STRING \ {NUL, "\n"})

(* S is a set of places in a line of length n.                             *)
PlacesTo(n, S) == \A i \in S : i \in Int /\ 1 <= i /\ i <= n

(* Such places can be counted.                                             *)
LEMMA UpToFinite ==
    ASSUME NEW n \in Nat, NEW S, PlacesTo(n, S)
    PROVE  /\ IsFiniteSet(S) /\ Cardinality(S) \in Nat /\ UpTo(S, n) = S
           /\ \A i : IsFiniteSet(UpTo(S, i)) /\ Cardinality(UpTo(S, i)) \in Nat
<1>1. IsFiniteSet(1 .. n)
    BY FS_Interval
<1>2. \A T \in SUBSET (1 .. n) : IsFiniteSet(T) /\ Cardinality(T) \in Nat
    BY <1>1, FS_Subset, FS_CardinalityType
<1>3. S \in SUBSET (1 .. n) /\ \A i : UpTo(S, i) \in SUBSET (1 .. n)
    BY DEF UpTo, PlacesTo
<1>4. UpTo(S, n) = S
    BY DEF UpTo, PlacesTo
<1>. QED  BY <1>2, <1>3, <1>4

(* The k-th place is the one with k up to it.                              *)
LEMMA KthIs ==
    ASSUME NEW n \in Nat, NEW S, PlacesTo(n, S), NEW i \in S, NEW k,
           Cardinality(UpTo(S, i)) = k
    PROVE  Kth(S, k) = i
<1>1. ASSUME NEW x \in S, NEW y \in S, x < y
      PROVE  Cardinality(UpTo(S, x)) # Cardinality(UpTo(S, y))
    <2>1. /\ UpTo(S, x) \in SUBSET UpTo(S, y) /\ y \in UpTo(S, y)
          /\ y \notin UpTo(S, x)
        BY <1>1 DEF UpTo, PlacesTo
    <2>2. IsFiniteSet(UpTo(S, y))
        BY UpToFinite
    <2>. QED  BY <2>1, <2>2, FS_Subset
<1>2. ASSUME NEW j \in S, Cardinality(UpTo(S, j)) = k
      PROVE  j = i
    <2>1. i \in Int /\ j \in Int
        BY DEF PlacesTo
    <2>2. ~(i < j) /\ ~(j < i)
        BY <1>1, <1>2
    <2>. QED  BY <2>1, <2>2
<1>3. (CHOOSE j \in S : Cardinality(UpTo(S, j)) = k) = i
    BY <1>2
<1>. QED  BY <1>3 DEF Kth, UpTo

(* One more place.                                                         *)
LEMMA UpToNext ==
    ASSUME NEW n \in Nat, NEW S, PlacesTo(n, S), NEW p \in Int, NEW i \in S, p < i,
           \A j \in S : p < j /\ j <= i => j = i
    PROVE  Cardinality(UpTo(S, i)) = Cardinality(UpTo(S, p)) + 1
<1>1. UpTo(S, i) = UpTo(S, p) \cup {i} /\ i \notin UpTo(S, p)
    BY DEF UpTo, PlacesTo
<1>2. IsFiniteSet(UpTo(S, p))
    BY UpToFinite
<1>. QED  BY <1>1, <1>2, FS_AddElement

(* No more.                                                                *)
LEMMA UpToSame ==
    ASSUME NEW n \in Nat, NEW S, PlacesTo(n, S), NEW p \in Int, NEW q \in Int, p <= q,
           \A j \in S : ~(p < j /\ j <= q)
    PROVE  UpTo(S, q) = UpTo(S, p)
BY DEF UpTo, PlacesTo

-----------------------------------------------------------------------------
(* The k-th word of l lies from address a up to address e.                 *)
WordAt(l, k, a, e) ==
    /\ a \in Nat /\ a + 1 \in Starts(l) /\ Cardinality(UpTo(Starts(l), a + 1)) = k
    /\ e \in Ends(l) /\ Cardinality(UpTo(Ends(l), e)) = k
    /\ a < e

(* k words of l have been cut off up to address p, where strtok goes on.   *)
Passed(l, p, k) ==
    /\ p \in 0 .. Len(l)
    /\ Cardinality(UpTo(Starts(l), p)) = k
    /\ Cardinality(UpTo(Ends(l), p)) = k
    /\ p = 0 \/ p = Len(l) \/ l[p] \in Blank

(* Where strtok goes on behind a token that ends at e.                     *)
GoesOn(l, e) == IF e = Len(l) THEN e ELSE e + 1

(* Words start and end at places of the line.                              *)
LEMMA LineSets ==
    ASSUME NEW l, Len(l) \in Nat
    PROVE  PlacesTo(Len(l), Starts(l)) /\ PlacesTo(Len(l), Ends(l))
BY DEF Starts, Ends, PlacesTo

(* At the start.                                                           *)
LEMMA PassedNone ==
    ASSUME NEW l, Len(l) \in Nat
    PROVE  Passed(l, 0, 0)
<1>1. UpTo(Starts(l), 0) = {} /\ UpTo(Ends(l), 0) = {}
    BY DEF Starts, Ends, UpTo
<1>. QED  BY <1>1, FS_EmptySet DEF Passed

(* The next word.                                                          *)
LEMMA NextWord ==
    ASSUME NEW l, Len(l) \in Nat, NEW p, NEW k \in Nat, Passed(l, p, k),
           NEW a \in p .. Len(l) - 1, NEW e \in a + 1 .. Len(l),
           \A i \in p + 1 .. a : l[i] \in Blank,
           \A i \in a + 1 .. e : l[i] \notin Blank,
           e = Len(l) \/ l[e + 1] \in Blank
    PROVE  WordAt(l, k + 1, a, e) /\ Passed(l, GoesOn(l, e), k + 1)
<1>. DEFINE n == Len(l)
            S == Starts(l)
            T == Ends(l)
            q == GoesOn(l, e)
<1>1. /\ p \in Nat /\ p <= n /\ Cardinality(UpTo(S, p)) = k /\ Cardinality(UpTo(T, p)) = k
      /\ p = 0 \/ p = n \/ l[p] \in Blank
    BY DEF Passed
<1>2. a \in Nat /\ a + 1 \in 1 .. n /\ e \in 1 .. n /\ a < e /\ p <= a
    BY <1>1
<1>3. /\ PlacesTo(n, S) /\ PlacesTo(n, T)
      /\ \A i \in S : i \in 1 .. n /\ l[i] \notin Blank /\ (i = 1 \/ l[i - 1] \in Blank)
      /\ \A i \in T : i \in 1 .. n /\ l[i] \notin Blank /\ (i = n \/ l[i + 1] \in Blank)
    BY LineSets DEF Starts, Ends
<1>4. a + 1 \in S
    <2>1. l[a + 1] \notin Blank /\ (a + 1) - 1 = a
        BY <1>2
    <2>2. a = 0 \/ l[a] \in Blank
        <3>1. CASE a = p
            BY <1>1, <1>2, <3>1
        <3>2. CASE a # p
            <4>1. a \in p + 1 .. a
                BY <1>1, <1>2, <3>2
            <4>. QED  BY <4>1
        <3>. QED  BY <3>1, <3>2
    <2>. QED  BY <1>2, <2>1, <2>2 DEF Starts
<1>5. e \in T
    <2>1. e \in a + 1 .. e
        BY <1>2
    <2>. QED  BY <1>2, <2>1 DEF Ends
<1>6. ASSUME NEW j \in S, p < j, j <= e
      PROVE  j = a + 1
    <2>1. j \in 1 .. n /\ l[j] \notin Blank /\ (j = 1 \/ l[j - 1] \in Blank)
        BY <1>3
    <2>2. ~(j <= a)
        <3>1. j <= a => j \in p + 1 .. a
            BY <1>1, <1>2, <1>6, <2>1
        <3>. QED  BY <2>1, <3>1
    <2>3. ~(a + 1 < j)
        <3>1. a + 1 < j => j - 1 \in a + 1 .. e /\ j # 1
            BY <1>1, <1>2, <1>6, <2>1
        <3>. QED  BY <2>1, <3>1
    <2>. QED  BY <1>2, <2>1, <2>2, <2>3
<1>7. ASSUME NEW j \in T, p < j, j <= e
      PROVE  j = e
    <2>1. j \in 1 .. n /\ l[j] \notin Blank /\ (j = n \/ l[j + 1] \in Blank)
        BY <1>3
    <2>2. ~(j <= a)
        <3>1. j <= a => j \in p + 1 .. a
            BY <1>1, <1>2, <1>7, <2>1
        <3>. QED  BY <2>1, <3>1
    <2>3. ~(j < e)
        <3>1. j < e => j + 1 \in a + 1 .. e /\ j # n
            BY <1>1, <1>2, <2>1, <2>2
        <3>. QED  BY <2>1, <3>1
    <2>. QED  BY <1>2, <1>7, <2>1, <2>3
<1>. HIDE DEF S, T
<1>8. Cardinality(UpTo(S, a + 1)) = k + 1
    <2>1. \A j \in S : p < j /\ j <= a + 1 => j = a + 1
        BY <1>2, <1>3, <1>6
    <2>2. n \in Nat /\ p \in Int /\ p < a + 1
        BY <1>1, <1>2
    <2>3. Cardinality(UpTo(S, a + 1)) = Cardinality(UpTo(S, p)) + 1
        BY ONLY <1>3, <1>4, <2>1, <2>2, UpToNext, Zenon
    <2>. QED  BY <1>1, <2>3
<1>9. Cardinality(UpTo(T, e)) = k + 1
    <2>1. n \in Nat /\ p \in Int /\ p < e
        BY <1>1, <1>2
    <2>2. \A j \in T : p < j /\ j <= e => j = e
        BY <1>7
    <2>3. Cardinality(UpTo(T, e)) = Cardinality(UpTo(T, p)) + 1
        BY ONLY <1>3, <1>5, <2>1, <2>2, UpToNext, Zenon
    <2>. QED  BY <1>1, <2>3
<1>10. q \in 0 .. n /\ e <= q /\ (q = n \/ l[q] \in Blank)
       /\ \A j \in Int : e < j /\ j <= q => l[j] \in Blank
    BY <1>2 DEF GoesOn
<1>11. UpTo(S, q) = UpTo(S, a + 1)
    <2>1. \A j \in S : ~(a + 1 < j /\ j <= q)
        <3>1. SUFFICES ASSUME NEW j \in S, a + 1 < j, j <= q PROVE FALSE
            OBVIOUS
        <3>2. j \in Int /\ l[j] \notin Blank
            BY <1>3
        <3>3. j <= e
            BY <1>2, <1>10, <3>1, <3>2
        <3>. QED  BY <1>1, <1>2, <1>6, <3>1, <3>2, <3>3
    <2>. QED  BY <1>2, <1>3, <1>10, <2>1, UpToSame
<1>12. UpTo(T, q) = UpTo(T, e)
    <2>1. \A j \in T : ~(e < j /\ j <= q)
        BY <1>2, <1>3, <1>10
    <2>. QED  BY <1>2, <1>3, <1>10, <2>1, UpToSame
<1>. QED  BY <1>2, <1>4, <1>5, <1>8, <1>9, <1>10, <1>11, <1>12 DEF WordAt, Passed, S, T

(* No word is left.                                                        *)
LEMMA NoWord ==
    ASSUME NEW l, Len(l) \in Nat, NEW p, NEW k \in Nat, Passed(l, p, k),
           \A i \in p + 1 .. Len(l) : l[i] \in Blank
    PROVE  Cardinality(Starts(l)) = k /\ Passed(l, Len(l), k)
<1>. DEFINE n == Len(l)
            S == Starts(l)
            T == Ends(l)
<1>1. /\ p \in Nat /\ p <= n /\ Cardinality(UpTo(S, p)) = k /\ Cardinality(UpTo(T, p)) = k
    BY DEF Passed
<1>2. /\ PlacesTo(n, S) /\ PlacesTo(n, T)
      /\ \A i \in S \cup T : i \in 1 .. n /\ l[i] \notin Blank
    BY LineSets DEF Starts, Ends
<1>. HIDE DEF S, T
<1>3. \A j \in S \cup T : ~(p < j /\ j <= n)
    <2>1. \A j \in 1 .. n : p < j => j \in p + 1 .. n
        BY <1>1
    <2>. QED  BY <1>2, <2>1
<1>4. UpTo(S, n) = UpTo(S, p) /\ UpTo(T, n) = UpTo(T, p)
    BY <1>1, <1>2, <1>3, UpToSame
<1>5. UpTo(S, n) = S
    BY <1>2, UpToFinite
<1>. QED  BY <1>1, <1>4, <1>5 DEF Passed, S, T

-----------------------------------------------------------------------------
(* Strtok on a line.                                                       *)

(* The characters of a line.                                               *)
LEMMA LineFacts ==
    ASSUME NEW l, IsLine(l)
    PROVE  /\ Len(l) \in Nat /\ l \in Seq(Chars) /\ DOMAIN l = 1 .. Len(l)
           /\ \A i \in 1 .. Len(l) : l[i] \in Chars /\ l[i] # NUL /\ l[i] # "\n"
<1>1. l \in Seq(STRING \ {NUL, "\n"}) /\ Len(l) \in Nat /\ DOMAIN l = 1 .. Len(l)
    BY LenProperties DEF IsLine
<1>2. \A i \in 1 .. Len(l) : l[i] \in STRING \ {NUL, "\n"}
    BY <1>1, ElementOfSeq
<1>3. \A i \in 1 .. Len(l) : l[i] \in Chars /\ l[i] # NUL /\ l[i] # "\n"
    BY <1>2 DEF Chars
<1>4. l \in [1 .. Len(l) -> Chars]
    BY <1>1, <1>3, LenProperties
<1>5. l \in Seq(Chars)
    BY <1>1, <1>4, SeqDef
<1>. QED  BY <1>1, <1>3, <1>5

(* From p on, mem holds the rest of the line l.                            *)
RestAt(l, mem, p) ==
    mem[Len(l)] = NUL /\ \A i \in p .. Len(l) - 1 : mem[i] = l[i + 1]

(* The rest of l behind p has no character that is not in delim.           *)
FindsNone(l, mem, p, delim, r) ==
    /\ r.token = NoToken /\ r.mem = mem /\ r.static_str = Len(l)
    /\ \A i \in p + 1 .. Len(l) : l[i] \in delim

(* The first run of such characters is cut out.                            *)
FindsTo(l, mem, p, delim, r, e) ==
    /\ r.token \in p .. Len(l) - 1 /\ e \in r.token + 1 .. Len(l)
    /\ \A i \in p + 1 .. r.token : l[i] \in delim
    /\ \A i \in r.token + 1 .. e : l[i] \notin delim
    /\ e = Len(l) \/ l[e + 1] \in delim
    /\ r.mem = [mem EXCEPT ![e] = NUL] /\ r.static_str = GoesOn(l, e)

(* What strtok finds.                                                      *)
LEMMA StrtokFinds ==
    ASSUME NEW N \in Nat, NEW mem \in MemoryTo(N), NEW l, IsLine(l), Len(l) <= N,
           NEW p \in 0 .. Len(l), RestAt(l, mem, p), NEW delim, NUL \notin delim
    PROVE  LET r == strtok(mem, p, delim)
           IN  FindsNone(l, mem, p, delim, r) \/ \E e : FindsTo(l, mem, p, delim, r, e)
<1>. DEFINE n == Len(l)
            chars == {mem[i] : i \in DOMAIN mem}
            start == Scan(mem, p, chars \ delim)
            end == Scan(mem, start, delim \cup {NUL})
            r == strtok(mem, p, delim)
            cut == [mem EXCEPT ![end] = NUL]
<1>1. /\ DOMAIN mem = 0 .. N /\ n \in Nat /\ n \in p .. N /\ n \in 0 .. N /\ p \in Nat
      /\ mem[n] = NUL
    BY LineFacts DEF MemoryTo, RestAt
<1>2. \A i \in p .. n - 1 : i \in 0 .. N /\ mem[i] = l[i + 1] /\ mem[i] # NUL
    <2>1. \A i \in p .. n - 1 : i + 1 \in 1 .. n /\ i \in 0 .. N
        BY <1>1
    <2>. QED  BY <2>1, LineFacts DEF RestAt
<1>3. \A i \in p + 1 .. n : i - 1 \in p .. n - 1 /\ l[i] = mem[i - 1]
    <2>1. \A i \in p + 1 .. n : i - 1 \in p .. n - 1 /\ (i - 1) + 1 = i
        BY <1>1
    <2>. QED  BY <1>2, <2>1
<1>4. mem[n] \in chars \ delim
    BY <1>1
<1>5. start \in p .. n /\ StopsAt(mem, p, chars \ delim, start)
    <2>. HIDE DEF chars
    <2>. QED  BY <1>1, <1>4, ScanStops
<1>. HIDE DEF start
<1>6. /\ mem[start] \notin delim /\ start \in Nat /\ start \in 0 .. N
      /\ \A i \in p .. start - 1 : mem[i] \in delim
    <2>1. start \in Nat /\ start \in 0 .. N
        BY <1>1, <1>5
    <2>2. \A i \in p .. start - 1 : i \in 0 .. N /\ p <= i /\ i < start
        BY <1>1, <1>5
    <2>. QED  BY <1>1, <1>5, <2>1, <2>2 DEF StopsAt
<1>. HIDE DEF chars
<1>7. end \in start .. n /\ StopsAt(mem, start, delim \cup {NUL}, end)
    <2>1. n \in start .. N /\ mem[n] \in delim \cup {NUL}
        BY <1>1, <1>5
    <2>. QED  BY <1>6, <2>1, ScanStops
<1>8. r = IF mem[start] = NUL
          THEN [mem |-> mem, static_str |-> start, token |-> NoToken]
          ELSE [mem |-> cut, static_str |-> Behind(mem, end), token |-> start]
    BY DEF strtok, chars, start
<1>. HIDE DEF end, r
<1>9. CASE mem[start] = NUL
    <2>1. start = n
        BY <1>1, <1>2, <1>5, <1>9
    <2>2. r.token = NoToken /\ r.mem = mem /\ r.static_str = n
        BY <1>8, <1>9, <2>1
    <2>3. \A i \in p + 1 .. n : l[i] \in delim
        BY <1>3, <1>6, <2>1
    <2>. QED  BY <2>2, <2>3 DEF FindsNone, r
<1>10. CASE mem[start] # NUL
    <2>1. start \in p .. n - 1
        BY <1>1, <1>5, <1>10
    <2>2. /\ mem[end] \in delim \cup {NUL}
          /\ \A i \in start .. end - 1 : mem[i] \notin delim
        <3>1. \A i \in start .. end - 1 : i \in 0 .. N /\ start <= i /\ i < end
            BY <1>1, <1>6, <1>7
        <3>. QED  BY <1>1, <1>7, <3>1 DEF StopsAt
    <2>3. end \in start + 1 .. n
        BY <1>1, <1>6, <1>7, <1>10, <2>2
    <2>4. \A i \in p + 1 .. start : l[i] \in delim
        <3>1. \A i \in p + 1 .. start : i \in p + 1 .. n /\ i - 1 \in p .. start - 1
            BY <1>1, <2>1
        <3>. QED  BY <1>3, <1>6, <3>1
    <2>5. \A i \in start + 1 .. end : l[i] \notin delim
        <3>1. \A i \in start + 1 .. end : i \in p + 1 .. n /\ i - 1 \in start .. end - 1
            BY <1>1, <2>1, <2>3
        <3>. QED  BY <1>3, <2>2, <3>1
    <2>6. /\ end = n \/ l[end + 1] \in delim
          /\ Behind(mem, end) = GoesOn(l, end)
        <3>1. CASE end = n
            BY <1>1, <3>1 DEF Behind, GoesOn
        <3>2. CASE end # n
            <4>1. end \in p .. n - 1
                BY <1>1, <2>1, <2>3, <3>2
            <4>. QED  BY <1>2, <2>2, <3>2, <4>1 DEF Behind, GoesOn
        <3>. QED  BY <3>1, <3>2
    <2>7. r.token = start /\ r.mem = cut /\ r.static_str = Behind(mem, end)
        BY <1>8, <1>10
    <2>8. FindsTo(l, mem, p, delim, r, end)
        BY <2>1, <2>3, <2>4, <2>5, <2>6, <2>7 DEF FindsTo
    <2>. QED  BY <2>8 DEF r
<1>. QED  BY <1>9, <1>10

-----------------------------------------------------------------------------
(* Tokens and words.                                                       *)

(* The k-th word is the string at a.                                       *)
TokenAt(l, mem, k, a, e) ==
    /\ WordAt(l, k, a, e)
    /\ mem[e] = NUL /\ \A i \in a .. e - 1 : mem[i] = l[i + 1]

(* The first c tokens were cut at blanks: w of them are words, the others  *)
(* are missing.                                                            *)
WordTokens(l, mem, p, toks, c, w) ==
    /\ c \in Nat /\ w \in 0 .. c
    /\ Passed(l, p, w) /\ RestAt(l, mem, p)
    /\ \A k \in 1 .. w : toks[k] # NoToken /\ \E e \in 0 .. p : TokenAt(l, mem, k, toks[k], e)
    /\ \A k \in w + 1 .. c : toks[k] = NoToken
    /\ w < c => Cardinality(Starts(l)) = w /\ p = Len(l)
    /\ w = c /\ w # 0 => \E e : TokenAt(l, mem, w, toks[w], e) /\ p = GoesOn(l, e)

(* Cutting behind them leaves them as they are.                            *)
LEMMA TokenStays ==
    ASSUME NEW N \in Nat, NEW mem \in MemoryTo(N), NEW l, Len(l) \in Nat, Len(l) <= N,
           NEW k, NEW a, NEW e, TokenAt(l, mem, k, a, e), NEW x \in Int, e <= x
    PROVE  TokenAt(l, [mem EXCEPT ![x] = NUL], k, a, e)
<1>1. /\ a \in Nat /\ e \in 1 .. Len(l) /\ WordAt(l, k, a, e) /\ DOMAIN mem = 0 .. N
      /\ mem[e] = NUL /\ \A i \in a .. e - 1 : mem[i] = l[i + 1]
    BY DEF TokenAt, WordAt, Ends, MemoryTo
<1>. DEFINE m == [mem EXCEPT ![x] = NUL]
<1>2. \A i \in 0 .. N : i # x => m[i] = mem[i]
    BY <1>1
<1>3. m[e] = NUL
    BY <1>1
<1>4. \A i \in a .. e - 1 : i \in 0 .. N /\ i # x
    BY <1>1
<1>. QED  BY <1>1, <1>2, <1>3, <1>4 DEF TokenAt

(* A strtok that cuts at blanks.                                           *)
LEMMA BlankToken ==
    ASSUME NEW N \in Nat, NEW mem \in MemoryTo(N), NEW l, IsLine(l), Len(l) <= N,
           NEW toks \in Seq(Int), NEW p, NEW w, WordTokens(l, mem, p, toks, Len(toks), w)
    PROVE  LET r == strtok(mem, p, Blank)
           IN  \E v : WordTokens(l, r.mem, r.static_str, Append(toks, r.token),
                                 Len(toks) + 1, v)
<1>. DEFINE n == Len(l)
            c == Len(toks)
            r == strtok(mem, p, Blank)
            new == Append(toks, r.token)
<1>1. /\ n \in Nat /\ c \in Nat /\ w \in 0 .. c /\ p \in 0 .. n /\ Passed(l, p, w)
      /\ RestAt(l, mem, p) /\ DOMAIN mem = 0 .. N
    BY LineFacts, LenProperties DEF WordTokens, Passed, MemoryTo
<1>2. FindsNone(l, mem, p, Blank, r) \/ \E e : FindsTo(l, mem, p, Blank, r, e)
    <2>1. NUL \notin Blank
        BY DEF Blank, NUL
    <2>. QED  BY <1>1, <2>1, StrtokFinds
<1>3. new[c + 1] = r.token /\ \A k \in 1 .. c : new[k] = toks[k]
    BY AppendProperties, LenProperties
<1>4. /\ \A k \in 1 .. w : toks[k] # NoToken /\ \E e \in 0 .. p : TokenAt(l, mem, k, toks[k], e)
      /\ \A k \in w + 1 .. c : toks[k] = NoToken
      /\ w < c => Cardinality(Starts(l)) = w /\ p = n
    BY DEF WordTokens
<1>. HIDE DEF r, new
<1>5. CASE FindsNone(l, mem, p, Blank, r)
    <2>1. /\ r.token = NoToken /\ r.mem = mem /\ r.static_str = n
          /\ \A i \in p + 1 .. n : l[i] \in Blank
        BY <1>5 DEF FindsNone
    <2>2. Cardinality(Starts(l)) = w /\ Passed(l, n, w)
        BY <1>1, <2>1, NoWord
    <2>3. RestAt(l, mem, n)
        BY <1>1 DEF RestAt
    <2>4. ASSUME NEW k \in 1 .. w
          PROVE  new[k] # NoToken /\ \E e \in 0 .. n : TokenAt(l, mem, k, new[k], e)
        <3>1. k \in 1 .. c
            BY <1>1
        <3>2. \A e \in 0 .. p : e \in 0 .. n
            BY <1>1
        <3>. QED  BY <1>3, <1>4, <3>1, <3>2
    <2>5. \A k \in w + 1 .. c + 1 : new[k] = NoToken
        <3>1. \A k \in w + 1 .. c + 1 : k = c + 1 \/ (k \in w + 1 .. c /\ k \in 1 .. c)
            BY <1>1
        <3>. QED  BY <1>3, <1>4, <2>1, <3>1
    <2>6. c + 1 \in Nat /\ w \in 0 .. c + 1 /\ w # c + 1
        BY <1>1
    <2>7. WordTokens(l, r.mem, r.static_str, new, c + 1, w)
        BY <2>1, <2>2, <2>3, <2>4, <2>5, <2>6 DEF WordTokens
    <2>. QED  BY <2>7 DEF r, new
<1>6. ASSUME NEW e, FindsTo(l, mem, p, Blank, r, e)
      PROVE  \E v : WordTokens(l, r.mem, r.static_str, new, c + 1, v)
    <2>. DEFINE a == r.token
                q == r.static_str
                m == r.mem
    <2>1. /\ a \in p .. n - 1 /\ e \in a + 1 .. n
          /\ \A i \in p + 1 .. a : l[i] \in Blank
          /\ \A i \in a + 1 .. e : l[i] \notin Blank
          /\ e = n \/ l[e + 1] \in Blank
          /\ m = [mem EXCEPT ![e] = NUL] /\ q = GoesOn(l, e)
        BY <1>6 DEF FindsTo
    <2>. HIDE DEF a, q, m
    <2>2. w = c
        BY <1>1, <1>4, <2>1
    <2>3. WordAt(l, w + 1, a, e) /\ Passed(l, q, w + 1)
        <3>1. w \in Nat /\ n \in Nat
            BY <1>1
        <3>2. WordAt(l, w + 1, a, e) /\ Passed(l, GoesOn(l, e), w + 1)
            BY ONLY <1>1, <2>1, <3>1, NextWord, Zenon
        <3>. QED  BY <2>1, <3>2
    <2>4. /\ a \in Nat /\ e \in 0 .. N /\ q \in 0 .. n /\ e <= q /\ p <= e /\ e \in Int
          /\ e \in 0 .. q
        BY <1>1, <2>1 DEF GoesOn
    <2>5. m[e] = NUL /\ \A i \in 0 .. N : i # e => m[i] = mem[i]
        BY <1>1, <2>1, <2>4
    <2>6. \A i \in p .. n - 1 : i # e => m[i] = l[i + 1]
        <3>1. \A i \in p .. n - 1 : i \in 0 .. N
            BY <1>1
        <3>. QED  BY <1>1, <2>5, <3>1 DEF RestAt
    <2>7. TokenAt(l, m, w + 1, a, e)
        <3>1. \A i \in a .. e - 1 : i \in p .. n - 1 /\ i # e
            BY <1>1, <2>1, <2>4
        <3>. QED  BY <2>3, <2>5, <2>6, <3>1 DEF TokenAt
    <2>8. RestAt(l, m, q)
        <3>1. \A i \in q .. n - 1 : i \in p .. n - 1 /\ i # e
            BY <1>1, <2>1, <2>4 DEF GoesOn
        <3>2. m[n] = NUL
            BY <1>1, <2>5 DEF RestAt
        <3>. QED  BY <2>6, <3>1, <3>2 DEF RestAt
    <2>9. ASSUME NEW k \in 1 .. w + 1
          PROVE  new[k] # NoToken /\ \E f \in 0 .. q : TokenAt(l, m, k, new[k], f)
        <3>1. CASE k = w + 1
            <4>1. new[k] = a /\ a # NoToken
                BY <1>3, <2>2, <2>4, <3>1 DEF a, NoToken
            <4>. QED  BY <2>4, <2>7, <3>1, <4>1
        <3>2. CASE k # w + 1
            <4>1. k \in 1 .. w /\ k \in 1 .. c
                BY <1>1, <2>2, <3>2
            <4>2. toks[k] # NoToken /\ new[k] = toks[k]
                BY <1>3, <1>4, <4>1
            <4>3. PICK f \in 0 .. p : TokenAt(l, mem, k, toks[k], f)
                BY <1>4, <4>1
            <4>4. f \in 0 .. q /\ f <= e
                BY <1>1, <2>4
            <4>5. TokenAt(l, m, k, toks[k], f)
                BY <1>1, <2>1, <2>4, <4>3, <4>4, TokenStays
            <4>. QED  BY <4>2, <4>4, <4>5
        <3>. QED  BY <3>1, <3>2
    <2>10. new[w + 1] = a
        BY <1>3, <2>2 DEF a
    <2>11. c + 1 \in Nat /\ w + 1 \in 0 .. c + 1 /\ ~(w + 1 < c + 1)
           /\ \A k \in (w + 1) + 1 .. c + 1 : FALSE
        BY <1>1, <2>2
    <2>12. WordTokens(l, m, q, new, c + 1, w + 1)
        BY <2>1, <2>3, <2>7, <2>8, <2>9, <2>10, <2>11 DEF WordTokens
    <2>. QED  BY <2>12 DEF m, q
<1>7. \E v : WordTokens(l, r.mem, r.static_str, new, c + 1, v)
    BY <1>2, <1>5, <1>6 DEF r, new
<1>. QED  BY <1>7 DEF r, new

-----------------------------------------------------------------------------
(* The text of a token.                                                    *)

WordsOf(l) == [k \in 1 .. Cardinality(Starts(l)) |->
                  SubSeq(l, Kth(Starts(l), k), Kth(Ends(l), k))]

(* A string that is stored, is not empty and holds no terminator.          *)
WordString(mem, a, e, s) ==
    /\ StringAt(mem, a, e, s)
    /\ a \in Nat /\ a < e /\ \A i \in 1 .. Len(s) : s[i] # NUL

(* A part of a line.                                                       *)
LEMMA PartFacts ==
    ASSUME NEW N \in Nat, NEW mem \in MemoryTo(N), NEW l, IsLine(l), Len(l) <= N,
           NEW a \in Nat, NEW e \in a + 1 .. Len(l), mem[e] = NUL,
           \A i \in a .. e - 1 : mem[i] = l[i + 1]
    PROVE  WordString(mem, a, e, SubSeq(l, a + 1, e))
<1>. DEFINE s == SubSeq(l, a + 1, e)
<1>1. Len(l) \in Nat /\ l \in Seq(Chars) /\ \A i \in 1 .. Len(l) : l[i] # NUL
    BY LineFacts
<1>2. a + 1 \in 1 .. Len(l) + 1 /\ e \in (a + 1) - 1 .. Len(l)
    BY <1>1
<1>3. /\ s \in Seq(Chars) /\ Len(s) = e - (a + 1) + 1
      /\ \A i \in 1 .. e - (a + 1) + 1 : s[i] = l[(a + 1) + i - 1]
    BY <1>1, <1>2, SubSeqProperties
<1>. HIDE DEF s
<1>4. Len(s) = e - a
    BY <1>1, <1>3
<1>5. ASSUME NEW i \in 1 .. Len(s)
      PROVE  s[i] = mem[a + i - 1] /\ s[i] # NUL
    <2>1. /\ a + i - 1 \in a .. e - 1 /\ (a + i - 1) + 1 = a + i /\ a + i \in 1 .. Len(l)
          /\ (a + 1) + i - 1 = a + i /\ i \in 1 .. e - (a + 1) + 1
        BY <1>1, <1>4
    <2>2. s[i] = l[a + i] /\ mem[a + i - 1] = l[a + i]
        BY <1>3, <2>1
    <2>. QED  BY <1>1, <2>1, <2>2
<1>6. a < e
    BY <1>1
<1>. QED  BY <1>3, <1>4, <1>5, <1>6 DEF WordString, StringAt, s

(* The token that is the k-th word.                                        *)
LEMMA WordTold ==
    ASSUME NEW N \in Nat, NEW mem \in MemoryTo(N), NEW l, IsLine(l), Len(l) <= N,
           NEW k, NEW a, NEW e, TokenAt(l, mem, k, a, e)
    PROVE  /\ k \in 1 .. Cardinality(Starts(l)) /\ Cardinality(Starts(l)) \in Nat
           /\ Kth(Ends(l), k) = e /\ e \in 0 .. Len(l)
           /\ WordString(mem, a, e, WordsOf(l)[k])
<1>1. /\ a \in Nat /\ a + 1 \in Starts(l) /\ Cardinality(UpTo(Starts(l), a + 1)) = k
      /\ e \in Ends(l) /\ Cardinality(UpTo(Ends(l), e)) = k /\ a < e
      /\ mem[e] = NUL /\ \A i \in a .. e - 1 : mem[i] = l[i + 1]
    BY DEF TokenAt, WordAt
<1>2. Len(l) \in Nat /\ PlacesTo(Len(l), Starts(l)) /\ PlacesTo(Len(l), Ends(l))
    BY LineFacts, LineSets
<1>3. Kth(Starts(l), k) = a + 1 /\ Kth(Ends(l), k) = e
    BY <1>1, <1>2, KthIs
<1>4. k \in 1 .. Cardinality(Starts(l)) /\ Cardinality(Starts(l)) \in Nat
    <2>. DEFINE U == UpTo(Starts(l), a + 1)
    <2>1. U \in SUBSET Starts(l) /\ a + 1 \in U
        BY <1>1 DEF UpTo
    <2>2. IsFiniteSet(Starts(l)) /\ Cardinality(Starts(l)) \in Nat
          /\ IsFiniteSet(U) /\ Cardinality(U) \in Nat
        BY <1>2, UpToFinite
    <2>. HIDE DEF U
    <2>3. Cardinality(U) <= Cardinality(Starts(l)) /\ Cardinality(U) # 0
        BY <2>1, <2>2, FS_Subset, FS_EmptySet
    <2>4. k = Cardinality(U)
        BY <1>1 DEF U
    <2>. QED  BY <2>2, <2>3, <2>4
<1>5. WordsOf(l)[k] = SubSeq(l, a + 1, e)
    BY <1>3, <1>4 DEF WordsOf
<1>6. e \in a + 1 .. Len(l) /\ e \in 0 .. Len(l)
    BY <1>1, <1>2 DEF PlacesTo
<1>7. WordString(mem, a, e, SubSeq(l, a + 1, e))
    BY <1>1, <1>6, PartFacts
<1>. QED  BY <1>3, <1>4, <1>5, <1>6, <1>7

(* A reader of it sees it.                                                 *)
LEMMA TextTold ==
    ASSUME NEW N \in Nat, NEW mem \in MemoryTo(N), NEW a, NEW e \in 0 .. N, NEW s,
           WordString(mem, a, e, s)
    PROVE  Text(mem, a) = s /\ strlen(mem, a) = Len(s) /\ atoi(mem, a) = Number(s)
<1>1. /\ s \in Seq(Chars) /\ Len(s) = e - a /\ mem[e] = NUL
      /\ a \in Nat /\ a < e /\ DOMAIN mem = 0 .. N
      /\ \A i \in 1 .. Len(s) : s[i] = mem[a + i - 1] /\ s[i] # NUL
    BY DEF WordString, StringAt, MemoryTo
<1>2. StopsAt(mem, a, {NUL}, e)
    <2>1. ASSUME NEW j \in 0 .. N, a <= j, j < e
          PROVE  mem[j] # NUL
        <3>1. j - a + 1 \in 1 .. Len(s) /\ a + (j - a + 1) - 1 = j
            BY <1>1, <2>1
        <3>. QED  BY <1>1, <3>1
    <2>. QED  BY <1>1, <2>1 DEF StopsAt
<1>3. strlen(mem, a) = e - a
    BY <1>1, <1>2, ScanIs DEF strlen
<1>4. Text(mem, a) = s
    <2>1. s = [i \in 1 .. Len(s) |-> s[i]]
        BY <1>1, LenProperties
    <2>2. Text(mem, a) = [i \in 1 .. Len(s) |-> mem[a + i - 1]]
        BY <1>1, <1>3 DEF Text
    <2>. QED  BY <1>1, <2>1, <2>2
<1>5. atoi(mem, a) = Number(s)
    <2>1. e \in a + 1 .. N /\ StringAt(mem, a, e, s)
        BY <1>1 DEF WordString
    <2>. QED  BY <1>1, <2>1, NumberRead
<1>. QED  BY <1>1, <1>3, <1>4, <1>5

(* strcmp with a keyword.                                                  *)
LEMMA StrcmpTells ==
    ASSUME NEW N \in Nat, NEW mem \in MemoryTo(N), NEW a, NEW e \in 0 .. N, NEW s,
           WordString(mem, a, e, s), NEW keyword, keyword # NUL
    PROVE  strcmp(mem, a, Literal(<<keyword>>), 0) <=> s = <<keyword>>
<1>. DEFINE b == Literal(<<keyword>>)
            walk == 0 .. Shorter(strlen(mem, a), strlen(b, 0))
            S == {j \in walk : mem[a + j] = NUL \/ mem[a + j] # b[0 + j]}
            stop == CHOOSE k \in walk : IsLeast(k, S)
<1>1. /\ s \in Seq(Chars) /\ Len(s) = e - a /\ mem[e] = NUL /\ a \in Nat /\ a < e
      /\ \A i \in 1 .. Len(s) : s[i] = mem[a + i - 1] /\ s[i] # NUL
      /\ strlen(mem, a) = Len(s)
    BY TextTold DEF WordString, StringAt
<1>2. Len(s) \in Nat /\ Len(s) >= 1 /\ a + 0 = a /\ a + 1 - 1 = a /\ 1 \in 1 .. Len(s)
    BY <1>1
<1>3. b[0] = keyword /\ b[1] = NUL /\ DOMAIN b = 0 .. 1
    BY DEF Literal
<1>4. strlen(b, 0) = 1
    <2>. DEFINE T == {i \in DOMAIN b : i >= 0 /\ b[i] \in {NUL}}
    <2>. HIDE DEF b
    <2>1. T = {1}
        BY <1>3
    <2>2. (CHOOSE i \in T : IsLeast(i, T)) = 1
        <3>. HIDE DEF T
        <3>. QED  BY <2>1 DEF IsLeast
    <2>. QED  BY <2>2 DEF strlen, Scan, T
<1>5. strcmp(mem, a, b, 0) <=> mem[a + stop] = b[0 + stop]
    BY DEF strcmp
<1>. HIDE DEF b
<1>6. walk = 0 .. 1
    BY <1>1, <1>2, <1>4 DEF Shorter
<1>. HIDE DEF walk
<1>7. mem[a + 0] = s[1] /\ s[1] # NUL
    BY <1>1, <1>2
<1>8. CASE s[1] # keyword
    <2>1. 0 \in S /\ \A j \in S : 0 <= j
        BY <1>3, <1>6, <1>7, <1>8
    <2>2. stop = 0
        <3>1. \A j \in S : j \in Int
            BY <1>6
        <3>2. S \subseteq walk
            OBVIOUS
        <3>. HIDE DEF S
        <3>. QED  BY <2>1, <3>1, <3>2 DEF IsLeast
    <2>. HIDE DEF stop
    <2>3. ~strcmp(mem, a, b, 0)
        <3>1. 0 + stop = 0 /\ a + stop = a + 0
            BY <1>2, <2>2
        <3>. QED  BY <1>3, <1>5, <1>7, <1>8, <3>1
    <2>4. s # <<keyword>>
        BY <1>8
    <2>. QED  BY <2>3, <2>4 DEF b
<1>9. CASE s[1] = keyword
    <2>1. 0 \notin S /\ 1 \in S
        BY <1>3, <1>6, <1>7, <1>9
    <2>2. stop = 1
        <3>1. \A j \in S : j = 1
            BY <1>6, <2>1
        <3>2. S \subseteq walk
            OBVIOUS
        <3>. HIDE DEF S
        <3>. QED  BY <2>1, <3>1, <3>2 DEF IsLeast
    <2>. HIDE DEF stop
    <2>3. strcmp(mem, a, b, 0) <=> mem[a + 1] = NUL
        <3>1. 0 + stop = 1 /\ a + stop = a + 1
            BY <1>2, <2>2
        <3>. QED  BY <1>3, <1>5, <3>1
    <2>4. mem[a + 1] = NUL <=> Len(s) = 1
        <3>1. CASE Len(s) = 1
            <4>1. a + 1 = e
                <5>1. \A x, y \in Int : y - x = 1 => x + 1 = y
                    OBVIOUS
                <5>2. a \in Int /\ e \in Int /\ Len(s) = e - a
                    BY <1>1
                <5>3. e - a = 1
                    BY ONLY <3>1, <5>2, Zenon
                <5>. QED  BY ONLY <5>1, <5>2, <5>3
            <4>. QED  BY <1>1, <3>1, <4>1
        <3>2. CASE Len(s) # 1
            <4>1. 2 \in 1 .. Len(s) /\ a + 2 - 1 = a + 1
                BY <1>1, <1>2, <3>2
            <4>. QED  BY <1>1, <3>2, <4>1
        <3>. QED  BY <3>1, <3>2
    <2>5. Len(s) = 1 <=> s = <<keyword>>
        <3>1. Len(s) = 1 => s = [i \in 1 .. 1 |-> s[i]]
            BY <1>1, LenProperties
        <3>2. Len(s) = 1 => s = <<keyword>>
            BY <1>9, <3>1
        <3>. QED  BY <3>2
    <2>. QED  BY <2>3, <2>4, <2>5 DEF b
<1>. QED  BY <1>8, <1>9

-----------------------------------------------------------------------------
(* Keywords and data.                                                      *)

(* The k-th word of l is the keyword.                                      *)
Has(l, k, keyword) ==
    k \in 1 .. Cardinality(Starts(l)) /\ WordsOf(l)[k] = <<keyword>>

(* What follows the k-th word and a blank.                                 *)
RestOf(l, k) == SubSeq(l, Kth(Ends(l), k) + 2, Len(l))

(* What the code sees of the tokens cut at blanks is what the words say.   *)
LEMMA TokenMeans ==
    ASSUME NEW N \in Nat, NEW mem \in MemoryTo(N), NEW l, IsLine(l), Len(l) <= N,
           NEW p, NEW toks, NEW c, NEW w, WordTokens(l, mem, p, toks, c, w),
           NEW k \in 1 .. c
    PROVE  /\ toks[k] = NoToken <=> ~(k <= Cardinality(Starts(l)))
           /\ toks[k] # NoToken =>
                 /\ Text(mem, toks[k]) = WordsOf(l)[k]
                 /\ atoi(mem, toks[k]) = Number(WordsOf(l)[k])
           /\ \A keyword : keyword # NUL =>
                 ((toks[k] # NoToken /\ strcmp(mem, toks[k], Literal(<<keyword>>), 0))
                      <=> Has(l, k, keyword))
<1>. DEFINE n == Cardinality(Starts(l))
<1>1. /\ c \in Nat /\ w \in 0 .. c /\ Len(l) \in Nat /\ p \in 0 .. Len(l)
      /\ \A j \in 1 .. w : toks[j] # NoToken /\ \E e \in 0 .. p : TokenAt(l, mem, j, toks[j], e)
      /\ \A j \in w + 1 .. c : toks[j] = NoToken
      /\ w < c => n = w
    BY LineFacts DEF WordTokens, Passed
<1>2. CASE k <= w
    <2>1. k \in 1 .. w
        BY <1>1, <1>2
    <2>2. PICK e \in 0 .. p : TokenAt(l, mem, k, toks[k], e)
        BY <1>1, <2>1
    <2>3. /\ k \in 1 .. n /\ n \in Nat /\ e \in 0 .. Len(l)
          /\ WordString(mem, toks[k], e, WordsOf(l)[k])
        BY <2>2, WordTold
    <2>4. e \in 0 .. N /\ k <= n
        BY <1>1, <2>3
    <2>5. /\ Text(mem, toks[k]) = WordsOf(l)[k]
          /\ atoi(mem, toks[k]) = Number(WordsOf(l)[k])
        BY <2>3, <2>4, TextTold
    <2>6. \A keyword : keyword # NUL =>
              (strcmp(mem, toks[k], Literal(<<keyword>>), 0) <=> WordsOf(l)[k] = <<keyword>>)
        BY <2>3, <2>4, StrcmpTells
    <2>7. toks[k] # NoToken
        BY <1>1, <2>1
    <2>. QED  BY <2>3, <2>4, <2>5, <2>6, <2>7 DEF Has
<1>3. CASE ~(k <= w)
    <2>1. k \in w + 1 .. c /\ w < c
        BY <1>1, <1>3
    <2>2. toks[k] = NoToken /\ n = w /\ ~(k <= n)
        BY <1>1, <1>3, <2>1
    <2>3. k \notin 1 .. n
        BY <1>1, <2>2
    <2>. QED  BY <2>2, <2>3 DEF Has
<1>. QED  BY <1>2, <1>3

(* Other tokens behind those do not matter.                                *)
LEMMA WordTokensBefore ==
    ASSUME NEW l, NEW mem, NEW p, NEW toks \in Seq(Int), NEW w, NEW x \in Int,
           WordTokens(l, mem, p, toks, Len(toks), w)
    PROVE  WordTokens(l, mem, p, Append(toks, x), Len(toks), w)
<1>. DEFINE c == Len(toks)
            new == Append(toks, x)
<1>1. c \in Nat /\ \A k \in 1 .. c : new[k] = toks[k]
    BY LenProperties, AppendProperties
<1>2. w \in 0 .. c /\ (\A k \in 1 .. w : k \in 1 .. c) /\ (\A k \in w + 1 .. c : k \in 1 .. c)
      /\ (w # 0 => w \in 1 .. w /\ w \in 1 .. c)
    BY <1>1 DEF WordTokens
<1>. HIDE DEF new
<1>3. /\ \A k \in 1 .. w : new[k] = toks[k]
      /\ \A k \in w + 1 .. c : new[k] = toks[k]
      /\ w # 0 => new[w] = toks[w]
    BY <1>1, <1>2
<1>4. WordTokens(l, mem, p, new, c, w)
    BY <1>3 DEF WordTokens
<1>. QED  BY <1>4 DEF new

(* The data of write and append.                                           *)
DataTold(l, mem, x) ==
    IF 3 <= Cardinality(Starts(l)) /\ RestOf(l, 3) # <<>>
    THEN x # NoToken /\ Text(mem, x) = RestOf(l, 3)
    ELSE x = NoToken

(* Behind three tokens, strtok up to the newline cuts that off.            *)
LEMMA DataToken ==
    ASSUME NEW N \in Nat, NEW mem \in MemoryTo(N), NEW l, IsLine(l), Len(l) <= N,
           NEW toks \in Seq(Int), Len(toks) = 3, NEW p, NEW w,
           WordTokens(l, mem, p, toks, 3, w)
    PROVE  LET r == strtok(mem, p, Newline)
           IN  r.mem = mem /\ DataTold(l, mem, r.token)
<1>. DEFINE n == Len(l)
            r == strtok(mem, p, Newline)
            card == Cardinality(Starts(l))
<1>1. /\ n \in Nat /\ w \in 0 .. 3 /\ p \in 0 .. n /\ Passed(l, p, w)
      /\ RestAt(l, mem, p) /\ DOMAIN mem = 0 .. N /\ mem[n] = NUL
      /\ w < 3 => card = w /\ p = n
      /\ w = 3 => \E e : TokenAt(l, mem, 3, toks[3], e) /\ p = GoesOn(l, e)
      /\ \A i \in p .. n - 1 : mem[i] = l[i + 1]
    BY LineFacts DEF WordTokens, Passed, MemoryTo, RestAt
<1>2. FindsNone(l, mem, p, Newline, r) \/ \E e : FindsTo(l, mem, p, Newline, r, e)
    <2>1. NUL \notin Newline
        BY DEF Newline, NUL
    <2>. QED  BY <1>1, <2>1, StrtokFinds
<1>. HIDE DEF r
<1>3. \A i \in 1 .. n : l[i] \notin Newline
    BY LineFacts DEF Newline
<1>4. CASE p = n
    <2>1. r.token = NoToken /\ r.mem = mem
        <3>1. ~\E e : FindsTo(l, mem, p, Newline, r, e)
            BY <1>1, <1>4 DEF FindsTo
        <3>. QED  BY <1>2, <3>1 DEF FindsNone
    <2>2. 3 <= card => RestOf(l, 3) = <<>>
        <3>1. CASE w < 3
            BY <1>1, <3>1
        <3>2. CASE w = 3
            <4>1. PICK e : TokenAt(l, mem, 3, toks[3], e) /\ p = GoesOn(l, e)
                BY <1>1, <3>2
            <4>2. Kth(Ends(l), 3) = e /\ e \in 0 .. n
                BY <4>1, WordTold
            <4>3. e + 2 \in Int /\ n < e + 2
                BY <1>1, <1>4, <4>1, <4>2 DEF GoesOn
            <4>4. SubSeq(l, e + 2, n) = <<>>
                BY <1>1, <4>3, SubSeqEmpty
            <4>. QED  BY <4>2, <4>4 DEF RestOf
        <3>. QED  BY <1>1, <3>1, <3>2
    <2>. QED  BY <2>1, <2>2 DEF DataTold, r
<1>5. CASE p # n
    <2>1. w = 3 /\ p \in Nat /\ p \in 0 .. n - 1 /\ p + 1 \in 1 .. n
        BY <1>1, <1>5
    <2>2. ~FindsNone(l, mem, p, Newline, r)
        <3>1. p + 1 \in p + 1 .. n
            BY <1>1, <2>1
        <3>. QED  BY <1>3, <2>1, <3>1 DEF FindsNone
    <2>3. PICK f : FindsTo(l, mem, p, Newline, r, f)
        BY <1>2, <2>2
    <2>4. /\ r.token \in p .. n - 1 /\ f \in r.token + 1 .. n
          /\ \A i \in p + 1 .. r.token : l[i] \in Newline
          /\ f = n \/ l[f + 1] \in Newline
          /\ r.mem = [mem EXCEPT ![f] = NUL]
        BY <2>3 DEF FindsTo
    <2>5. r.token = p
        <3>1. r.token # p => p + 1 \in p + 1 .. r.token
            BY <2>1, <2>4
        <3>. QED  BY <1>3, <2>1, <2>4, <3>1
    <2>6. f = n
        <3>1. f # n => f + 1 \in 1 .. n
            BY <1>1, <2>1, <2>4, <2>5
        <3>. QED  BY <1>3, <2>4, <3>1
    <2>7. r.mem = mem
        <3>1. n \in 0 .. N
            BY <1>1
        <3>. QED  BY <1>1, <2>4, <2>6, <3>1 DEF MemoryTo
    <2>8. PICK e : TokenAt(l, mem, 3, toks[3], e) /\ p = GoesOn(l, e)
        BY <1>1, <2>1
    <2>9. Kth(Ends(l), 3) = e /\ e \in 0 .. n /\ 3 <= card
        BY <2>8, WordTold
    <2>10. p = e + 1 /\ e + 2 = p + 1
        BY <1>1, <1>5, <2>8, <2>9 DEF GoesOn
    <2>11. RestOf(l, 3) = SubSeq(l, p + 1, n)
        BY <2>9, <2>10 DEF RestOf
    <2>12. WordString(mem, p, n, SubSeq(l, p + 1, n))
        <3>1. n \in p + 1 .. n
            BY <1>1, <2>1
        <3>. QED  BY <1>1, <2>1, <3>1, PartFacts
    <2>13. Text(mem, p) = RestOf(l, 3) /\ RestOf(l, 3) # <<>>
        <3>1. n \in 0 .. N
            BY <1>1
        <3>2. Text(mem, p) = RestOf(l, 3)
            BY <2>11, <2>12, <3>1, TextTold
        <3>3. Len(RestOf(l, 3)) = n - p
            BY <2>11, <2>12 DEF WordString, StringAt
        <3>4. Len(RestOf(l, 3)) # 0
            BY <1>1, <2>1, <3>3
        <3>. QED  BY <3>2, <3>4
    <2>14. p # NoToken
        BY <2>1 DEF NoToken
    <2>. QED  BY <2>5, <2>7, <2>9, <2>13, <2>14 DEF DataTold, r
<1>. QED  BY <1>4, <1>5

-----------------------------------------------------------------------------
(* The call a line means.                                                  *)

(* Whether a line fits a form, and what it then means: Fits and Meant, of  *)
(* the words of l.                                                         *)
FitsLine(f, l) ==
    LET k == Len(f.words) + 1
    IN  /\ IsPrefix([i \in DOMAIN f.words |-> <<f.words[i]>>], WordsOf(l))
        /\ f.arguments = "name" => Len(WordsOf(l)) >= k
        /\ f.arguments = "data" => Len(WordsOf(l)) >= k /\ RestOf(l, k) # <<>>
        /\ f.arguments = "permissions" => Len(WordsOf(l)) > k

MeantBy(f, l) ==
    LET k == Len(f.words) + 1
    IN  CASE f.arguments = "none" -> Call(f.to, <<>>, <<>>, 0)
          [] f.arguments = "priority" ->
                Call(f.to, <<>>, <<>>,
                     IF Len(WordsOf(l)) < k THEN 1 ELSE Number(WordsOf(l)[k]))
          [] f.arguments = "name" -> Call(f.to, WordsOf(l)[k], <<>>, 0)
          [] f.arguments = "data" -> Call(f.to, WordsOf(l)[k], RestOf(l, k), 0)
          [] f.arguments = "permissions" ->
                Call(f.to, WordsOf(l)[k], <<>>, Number(WordsOf(l)[k + 1]) % UINT16_MOD)

(* The call c is what l means.                                             *)
Right(l, c) ==
    LET fitted == {f \in Forms : FitsLine(f, l)}
    IN  {c} = IF fitted = {} THEN {NoCall} ELSE {MeantBy(f, l) : f \in fitted}

(* So CallMeansLine says.                                                  *)
LEMMA RightIs ==
    ASSUME lines_read > 0 /\ loop # "command" => Right(line, call)
    PROVE  CallMeansLine
<1>1. WordStarts = Starts(line) /\ WordEnds = Ends(line)
    BY DEF WordStarts, WordEnds, Starts, Ends, IsBlank
<1>2. Words = WordsOf(line)
    BY <1>1 DEF Words, WordsOf
<1>3. \A k : RestBehind(k) = RestOf(line, k)
    BY <1>1 DEF RestBehind, RestOf
<1>4. \A f : Fits(f, Words) <=> FitsLine(f, line)
    BY <1>2, <1>3 DEF Fits, FitsLine
<1>5. \A f : Meant(f, Words) = MeantBy(f, line)
    BY <1>2, <1>3, Zenon DEF Meant, MeantBy
<1>6. {f \in Forms : Fits(f, Words)} = {f \in Forms : FitsLine(f, line)}
    BY <1>4
<1>. DEFINE fitted == {f \in Forms : FitsLine(f, line)}
<1>7. {Meant(f, Words) : f \in fitted} = {MeantBy(f, line) : f \in fitted}
    BY <1>5
<1>8. CallMeansLine <=>
        (lines_read > 0 /\ loop # "command" =>
            {call} = IF fitted = {} THEN {NoCall} ELSE {MeantBy(f, line) : f \in fitted})
    BY <1>6, <1>7 DEF CallMeansLine
<1>. QED  BY <1>8 DEF Right

(* The words of a line are a sequence.                                     *)
LEMMA WordsAre ==
    ASSUME NEW l, IsLine(l)
    PROVE  /\ Cardinality(Starts(l)) \in Nat /\ Len(WordsOf(l)) = Cardinality(Starts(l))
           /\ DOMAIN WordsOf(l) = 1 .. Cardinality(Starts(l))
           /\ WordsOf(l) \in Seq({WordsOf(l)[k] : k \in 1 .. Cardinality(Starts(l))})
<1>. DEFINE n == Cardinality(Starts(l))
            T == {WordsOf(l)[k] : k \in 1 .. n}
<1>1. Len(l) \in Nat
    BY LineFacts
<1>2. n \in Nat
    BY <1>1, LineSets, UpToFinite
<1>3. WordsOf(l) \in [1 .. n -> T]
    BY DEF WordsOf
<1>. HIDE DEF T
<1>4. WordsOf(l) \in Seq(T)
    BY <1>2, <1>3, SeqDef
<1>5. DOMAIN WordsOf(l) = 1 .. n
    BY <1>3
<1>6. Len(WordsOf(l)) = n
    BY <1>2, <1>4, <1>5, LenProperties
<1>. QED  BY <1>2, <1>4, <1>5, <1>6 DEF T

(* A line begins with the words ws.                                        *)
LEMMA PrefixTold ==
    ASSUME NEW l, IsLine(l), NEW S, NEW ws \in Seq(S)
    PROVE  IsPrefix([i \in DOMAIN ws |-> <<ws[i]>>], WordsOf(l))
               <=> \A i \in 1 .. Len(ws) : Has(l, i, ws[i])
<1>. DEFINE n == Cardinality(Starts(l))
            m == Len(ws)
            W == WordsOf(l)
            T == {W[k] : k \in 1 .. n}
            one == [i \in DOMAIN ws |-> <<ws[i]>>]
            U == {<<x>> : x \in S}
<1>1. n \in Nat /\ Len(W) = n /\ DOMAIN W = 1 .. n /\ W \in Seq(T)
    BY WordsAre
<1>2. m \in Nat /\ DOMAIN ws = 1 .. m /\ \A i \in 1 .. m : ws[i] \in S
    BY LenProperties, ElementOfSeq
<1>3. one \in Seq(U) /\ Len(one) = m /\ \A i \in 1 .. m : one[i] = <<ws[i]>>
    <2>1. one \in [1 .. m -> U]
        BY <1>2
    <2>2. \A i \in 1 .. m : one[i] = <<ws[i]>>
        BY <1>2
    <2>. HIDE DEF one, U
    <2>3. one \in Seq(U)
        BY <1>2, <2>1, SeqDef
    <2>. QED  BY <1>2, <2>1, <2>2, <2>3, LenProperties
<1>. HIDE DEF one, U, W, T
<1>4. SubSeq(one, 1, m) = one
    BY <1>3, SubSeqFull
<1>5. IsPrefix(one, W) <=> m <= n /\ one = SubSeq(W, 1, m)
    BY <1>1, <1>3, <1>4 DEF IsPrefix
<1>6. ASSUME m <= n
      PROVE  one = SubSeq(W, 1, m) <=> \A i \in 1 .. m : W[i] = <<ws[i]>>
    <2>. DEFINE sub == SubSeq(W, 1, m)
    <2>1. \A i \in 1 .. m : W[i] \in T
        <3>1. \A i \in 1 .. m : i \in 1 .. Len(W)
            BY <1>1, <1>2, <1>6
        <3>. QED  BY <1>1, <3>1, ElementOfSeq
    <2>2. /\ sub \in Seq(T)
          /\ Len(sub) = IF 1 <= m THEN m - 1 + 1 ELSE 0
          /\ \A i \in 1 .. m - 1 + 1 : sub[i] = W[1 + i - 1]
        BY <1>2, <2>1, SubSeqProperties
    <2>3. Len(sub) = m /\ \A i \in 1 .. m : sub[i] = W[i]
        <3>1. \A i \in 1 .. m : i \in 1 .. m - 1 + 1 /\ 1 + i - 1 = i
            BY <1>2
        <3>. QED  BY <1>2, <2>2, <3>1
    <2>. HIDE DEF sub
    <2>4. one = sub <=> \A i \in 1 .. m : one[i] = sub[i]
        <3>1. ASSUME \A i \in 1 .. m : one[i] = sub[i]
              PROVE  one = sub
            BY <1>3, <2>2, <2>3, <3>1, SeqEqual
        <3>. QED  BY <3>1
    <2>5. one = sub <=> \A i \in 1 .. m : W[i] = <<ws[i]>>
        BY <1>3, <2>3, <2>4
    <2>. QED  BY <2>5 DEF sub
<1>7. (\A i \in 1 .. m : Has(l, i, ws[i])) <=> m <= n /\ \A i \in 1 .. m : W[i] = <<ws[i]>>
    <2>1. (\A i \in 1 .. m : i \in 1 .. n) <=> m <= n
        BY <1>1, <1>2
    <2>. QED  BY <2>1 DEF Has, W
<1>8. IsPrefix(one, W) <=> \A i \in 1 .. m : Has(l, i, ws[i])
    BY <1>5, <1>6, <1>7
<1>. QED  BY <1>8 DEF one, W

(* A word is one word only.                                                *)
LEMMA HasOne ==
    ASSUME NEW l, NEW k, NEW x, NEW y, Has(l, k, x), Has(l, k, y)
    PROVE  x = y
    BY DEF Has

(* The parts of a form.                                                    *)
LEMMA FormParts ==
    ASSUME NEW to, NEW words, NEW arguments
    PROVE  /\ Form(to, words, arguments).to = to
           /\ Form(to, words, arguments).words = words
           /\ Form(to, words, arguments).arguments = arguments
    BY DEF Form

(* The arguments a kind of command needs, behind words up to the k-th.     *)
Given(l, k, arguments) ==
    /\ arguments = "name" => k < Cardinality(Starts(l))
    /\ arguments = "data" => k < Cardinality(Starts(l)) /\ RestOf(l, k + 1) # <<>>
    /\ arguments = "permissions" => k + 1 < Cardinality(Starts(l))

(* What lines fit a form of one word.                                      *)
LEMMA FitsOne ==
    ASSUME NEW l, IsLine(l), NEW to, NEW x, NEW arguments
    PROVE  FitsLine(Form(to, <<x>>, arguments), l) <=> Has(l, 1, x) /\ Given(l, 1, arguments)
<1>. DEFINE ws == <<x>>
            f == Form(to, ws, arguments)
            n == Cardinality(Starts(l))
<1>1. f.words = ws /\ f.arguments = arguments
    BY FormParts
<1>2. n \in Nat /\ Len(WordsOf(l)) = n
    BY WordsAre
<1>3. ws \in Seq({x}) /\ Len(ws) = 1 /\ ws[1] = x
    OBVIOUS
<1>4. (\A i \in 1 .. 1 : Has(l, i, ws[i])) <=> Has(l, 1, x)
    <2>1. \A i : i \in 1 .. 1 <=> i = 1
        OBVIOUS
    <2>. QED  BY <1>3, <2>1
<1>. HIDE DEF ws, f
<1>5. IsPrefix([i \in DOMAIN ws |-> <<ws[i]>>], WordsOf(l)) <=> Has(l, 1, x)
    BY <1>3, <1>4, PrefixTold
<1>6. FitsLine(f, l) <=>
        /\ Has(l, 1, x)
        /\ arguments = "name" => n >= 1 + 1
        /\ arguments = "data" => n >= 1 + 1 /\ RestOf(l, 1 + 1) # <<>>
        /\ arguments = "permissions" => n > 1 + 1
    BY <1>1, <1>2, <1>3, <1>5 DEF FitsLine
<1>7. n >= 1 + 1 <=> 1 < n
    BY <1>2
<1>8. n > 1 + 1 <=> 1 + 1 < n
    BY <1>2
<1>9. FitsLine(f, l) <=> Has(l, 1, x) /\ Given(l, 1, arguments)
    BY <1>6, <1>7, <1>8 DEF Given
<1>. QED  BY <1>9 DEF f, ws

(* Of two words.                                                           *)
LEMMA FitsTwo ==
    ASSUME NEW l, IsLine(l), NEW to, NEW x, NEW y, NEW arguments
    PROVE  FitsLine(Form(to, <<x, y>>, arguments), l)
               <=> Has(l, 1, x) /\ Has(l, 2, y) /\ Given(l, 2, arguments)
<1>. DEFINE ws == <<x, y>>
            f == Form(to, ws, arguments)
            n == Cardinality(Starts(l))
<1>1. f.words = ws /\ f.arguments = arguments
    BY FormParts
<1>2. n \in Nat /\ Len(WordsOf(l)) = n
    BY WordsAre
<1>3. ws \in Seq({x, y}) /\ Len(ws) = 2 /\ ws[1] = x /\ ws[2] = y
    OBVIOUS
<1>4. (\A i \in 1 .. 2 : Has(l, i, ws[i])) <=> Has(l, 1, x) /\ Has(l, 2, y)
    <2>1. \A i : i \in 1 .. 2 <=> i = 1 \/ i = 2
        OBVIOUS
    <2>. QED  BY <1>3, <2>1
<1>. HIDE DEF ws, f
<1>5. IsPrefix([i \in DOMAIN ws |-> <<ws[i]>>], WordsOf(l)) <=> Has(l, 1, x) /\ Has(l, 2, y)
    BY <1>3, <1>4, PrefixTold
<1>6. FitsLine(f, l) <=>
        /\ Has(l, 1, x) /\ Has(l, 2, y)
        /\ arguments = "name" => n >= 2 + 1
        /\ arguments = "data" => n >= 2 + 1 /\ RestOf(l, 2 + 1) # <<>>
        /\ arguments = "permissions" => n > 2 + 1
    BY <1>1, <1>2, <1>3, <1>5 DEF FitsLine
<1>7. n >= 2 + 1 <=> 2 < n
    BY <1>2
<1>8. n > 2 + 1 <=> 2 + 1 < n
    BY <1>2
<1>9. FitsLine(f, l) <=> Has(l, 1, x) /\ Has(l, 2, y) /\ Given(l, 2, arguments)
    BY <1>6, <1>7, <1>8 DEF Given
<1>. QED  BY <1>9 DEF f, ws

(* Of three words.                                                         *)
LEMMA FitsThree ==
    ASSUME NEW l, IsLine(l), NEW to, NEW x, NEW y, NEW z
    PROVE  FitsLine(Form(to, <<x, y, z>>, "priority"), l)
               <=> Has(l, 1, x) /\ Has(l, 2, y) /\ Has(l, 3, z)
<1>. DEFINE ws == <<x, y, z>>
            f == Form(to, ws, "priority")
<1>1. f.words = ws /\ f.arguments = "priority"
    BY FormParts
<1>3. ws \in Seq({x, y, z}) /\ Len(ws) = 3 /\ ws[1] = x /\ ws[2] = y /\ ws[3] = z
    OBVIOUS
<1>4. (\A i \in 1 .. 3 : Has(l, i, ws[i])) <=> Has(l, 1, x) /\ Has(l, 2, y) /\ Has(l, 3, z)
    <2>1. \A i : i \in 1 .. 3 <=> i = 1 \/ i = 2 \/ i = 3
        OBVIOUS
    <2>. QED  BY <1>3, <2>1
<1>. HIDE DEF ws, f
<1>5. IsPrefix([i \in DOMAIN ws |-> <<ws[i]>>], WordsOf(l))
          <=> Has(l, 1, x) /\ Has(l, 2, y) /\ Has(l, 3, z)
    BY <1>3, <1>4, PrefixTold
<1>6. FitsLine(f, l) <=> Has(l, 1, x) /\ Has(l, 2, y) /\ Has(l, 3, z)
    BY <1>1, <1>5 DEF FitsLine
<1>. QED  BY <1>6 DEF f, ws

(* The form whose second word is y, of the commands process and file.      *)
ProcessForm(y) ==
    CASE y = "start" -> Form("schedule", <<"process", "start">>, "none")
      [] y = "syscall" -> Form("syscall_test", <<"process", "syscall", "test">>, "priority")
      [] y = "process" -> Form("process_test", <<"process", "process", "test">>, "priority")
      [] OTHER -> Form(y, <<"process", y>>, "priority")

FileForm(y) ==
    CASE y = "ls" -> Form("list_files", <<"file", "ls">>, "none")
      [] y = "make" -> Form("create_file", <<"file", "make">>, "name")
      [] y = "read" -> Form("read_file", <<"file", "read">>, "name")
      [] y = "rm" -> Form("delete_file", <<"file", "rm">>, "name")
      [] y = "write" -> Form("write_file", <<"file", "write">>, "data")
      [] y = "append" -> Form("append_to_file", <<"file", "append">>, "data")
      [] OTHER -> Form("chmod_file", <<"file", "chmod">>, "permissions")

ProcessWords == {"start", "syscall", "process"} \cup Programs
FileWords == OnName \cup OnData \cup {"chmod", "ls"}

(* What a line that fits a form begins with.                               *)
BeginsAs(l, f) ==
    \/ Has(l, 1, "exit") /\ f = Form("exit", <<"exit">>, "none")
    \/ Has(l, 1, "ls") /\ f = Form("list_files", <<"ls">>, "none")
    \/ Has(l, 1, "process") /\ \E y \in ProcessWords : Has(l, 2, y) /\ f = ProcessForm(y)
    \/ Has(l, 1, "file") /\ \E y \in FileWords : Has(l, 2, y) /\ f = FileForm(y)

(* What fits a form begins as that form asks.                              *)
LEMMA FitsBegins ==
    ASSUME NEW l, IsLine(l), NEW f \in Forms, FitsLine(f, l)
    PROVE  BeginsAs(l, f)
<1>1. CASE f = Form("exit", <<"exit">>, "none")
    BY <1>1, FitsOne DEF BeginsAs
<1>2. CASE f = Form("list_files", <<"ls">>, "none")
    BY <1>2, FitsOne DEF BeginsAs
<1>3. ASSUME NEW to, NEW y \in FileWords, NEW arguments, f = Form(to, <<"file", y>>, arguments),
             f = FileForm(y)
      PROVE  BeginsAs(l, f)
    <2>1. FitsLine(Form(to, <<"file", y>>, arguments), l)
        BY <1>3
    <2>2. Has(l, 1, "file") /\ Has(l, 2, y)
        BY <2>1, FitsTwo
    <2>. QED  BY <1>3, <2>2 DEF BeginsAs
<1>4. CASE f = Form("list_files", <<"file", "ls">>, "none")
    BY <1>3, <1>4 DEF FileForm, FileWords, OnName, OnData
<1>5. CASE f = Form("create_file", <<"file", "make">>, "name")
    BY <1>3, <1>5 DEF FileForm, FileWords, OnName, OnData
<1>6. CASE f = Form("read_file", <<"file", "read">>, "name")
    BY <1>3, <1>6 DEF FileForm, FileWords, OnName, OnData
<1>7. CASE f = Form("delete_file", <<"file", "rm">>, "name")
    BY <1>3, <1>7 DEF FileForm, FileWords, OnName, OnData
<1>8. CASE f = Form("write_file", <<"file", "write">>, "data")
    BY <1>3, <1>8 DEF FileForm, FileWords, OnName, OnData
<1>9. CASE f = Form("append_to_file", <<"file", "append">>, "data")
    BY <1>3, <1>9 DEF FileForm, FileWords, OnName, OnData
<1>10. CASE f = Form("chmod_file", <<"file", "chmod">>, "permissions")
    BY <1>3, <1>10 DEF FileForm, FileWords, OnName, OnData
<1>11. CASE f = Form("schedule", <<"process", "start">>, "none")
    <2>1. f = ProcessForm("start")
        BY <1>11 DEF ProcessForm
    <2>. QED  BY <1>11, <2>1, FitsTwo DEF BeginsAs, ProcessWords
<1>12. CASE f = Form("syscall_test", <<"process", "syscall", "test">>, "priority")
    <2>1. f = ProcessForm("syscall")
        BY <1>12 DEF ProcessForm
    <2>. QED  BY <1>12, <2>1, FitsThree DEF BeginsAs, ProcessWords
<1>13. CASE f = Form("process_test", <<"process", "process", "test">>, "priority")
    <2>1. f = ProcessForm("process")
        BY <1>13 DEF ProcessForm
    <2>. QED  BY <1>13, <2>1, FitsThree DEF BeginsAs, ProcessWords
<1>14. ASSUME NEW p \in Programs, f = Form(p, <<"process", p>>, "priority")
       PROVE  BeginsAs(l, f)
    <2>1. p # "start" /\ p # "syscall" /\ p # "process"
        BY CommandLineAssumption
    <2>2. f = ProcessForm(p)
        BY <1>14, <2>1 DEF ProcessForm
    <2>. QED  BY <1>14, <2>2, FitsTwo DEF BeginsAs, ProcessWords
<1>. QED  BY <1>1, <1>2, <1>4, <1>5, <1>6, <1>7, <1>8, <1>9, <1>10, <1>11, <1>12, <1>13,
             <1>14 DEF Forms

(* So a line fits one form at most.                                        *)
LEMMA BeginsOnce ==
    ASSUME NEW l, NEW f, NEW g, BeginsAs(l, f), BeginsAs(l, g)
    PROVE  f = g
<1>1. \A x, y : Has(l, 1, x) /\ Has(l, 1, y) => x = y
    BY HasOne
<1>2. \A x, y : Has(l, 2, x) /\ Has(l, 2, y) => x = y
    BY HasOne
<1>3. CASE Has(l, 1, "exit")
    BY <1>1, <1>3 DEF BeginsAs
<1>4. CASE Has(l, 1, "ls")
    BY <1>1, <1>4 DEF BeginsAs
<1>5. CASE Has(l, 1, "process")
    <2>1. \E y : Has(l, 2, y) /\ f = ProcessForm(y)
        BY <1>1, <1>5 DEF BeginsAs
    <2>2. \E y : Has(l, 2, y) /\ g = ProcessForm(y)
        BY <1>1, <1>5 DEF BeginsAs
    <2>. QED  BY <1>2, <2>1, <2>2
<1>6. CASE Has(l, 1, "file")
    <2>1. \E y : Has(l, 2, y) /\ f = FileForm(y)
        BY <1>1, <1>6 DEF BeginsAs
    <2>2. \E y : Has(l, 2, y) /\ g = FileForm(y)
        BY <1>1, <1>6 DEF BeginsAs
    <2>. QED  BY <1>2, <2>1, <2>2
<1>. QED  BY <1>3, <1>4, <1>5, <1>6 DEF BeginsAs

(* A line that fits a form means what the form says.                       *)
LEMMA OneFits ==
    ASSUME NEW l, IsLine(l), NEW f \in Forms, FitsLine(f, l)
    PROVE  Right(l, MeantBy(f, l))
<1>. DEFINE fitted == {g \in Forms : FitsLine(g, l)}
<1>1. \A g \in fitted : g = f
    BY FitsBegins, BeginsOnce
<1>2. fitted = {f}
    BY <1>1
<1>3. fitted # {} /\ {MeantBy(g, l) : g \in fitted} = {MeantBy(f, l)}
    <2>. HIDE DEF fitted
    <2>. QED  BY <1>2
<1>. QED  BY <1>3 DEF Right

(* One that fits none means nothing.                                       *)
LEMMA NoneFits ==
    ASSUME NEW l, \A f \in Forms : ~FitsLine(f, l)
    PROVE  Right(l, NoCall)
    BY DEF Right

(* The priority a line gives as its k-th word.                             *)
PriorityOf(l, k) == IF k <= Cardinality(Starts(l)) THEN Number(WordsOf(l)[k]) ELSE 1

(* What the forms mean.                                                    *)
LEMMA MeansTwo ==
    ASSUME NEW l, IsLine(l), NEW to, NEW x, NEW y
    PROVE  /\ MeantBy(Form(to, <<x, y>>, "none"), l) = Call(to, <<>>, <<>>, 0)
           /\ MeantBy(Form(to, <<x, y>>, "priority"), l)
                 = Call(to, <<>>, <<>>, PriorityOf(l, 3))
           /\ MeantBy(Form(to, <<x, y>>, "name"), l) = Call(to, WordsOf(l)[3], <<>>, 0)
           /\ MeantBy(Form(to, <<x, y>>, "data"), l)
                 = Call(to, WordsOf(l)[3], RestOf(l, 3), 0)
           /\ MeantBy(Form(to, <<x, y>>, "permissions"), l)
                 = Call(to, WordsOf(l)[3], <<>>, Number(WordsOf(l)[4]) % UINT16_MOD)
<1>1. Len(<<x, y>>) + 1 = 3 /\ 3 + 1 = 4
    OBVIOUS
<1>2. Len(WordsOf(l)) = Cardinality(Starts(l)) /\ Cardinality(Starts(l)) \in Nat
    BY WordsAre
<1>3. PriorityOf(l, 3) = IF Len(WordsOf(l)) < 3 THEN 1 ELSE Number(WordsOf(l)[3])
    BY <1>2 DEF PriorityOf
<1>4. ASSUME NEW a
      PROVE  \E f : /\ f = Form(to, <<x, y>>, a)
                    /\ f.to = to /\ f.arguments = a /\ Len(f.words) + 1 = 3
    <2>. DEFINE ws == <<x, y>>
    <2>1. Len(ws) + 1 = 3
        BY <1>1
    <2>. HIDE DEF ws
    <2>2. \E f : /\ f = Form(to, ws, a)
                 /\ f.to = to /\ f.arguments = a /\ Len(f.words) + 1 = 3
        BY <2>1, FormParts
    <2>. QED  BY <2>2 DEF ws
<1>5. MeantBy(Form(to, <<x, y>>, "none"), l) = Call(to, <<>>, <<>>, 0)
    <2>1. PICK f : f = Form(to, <<x, y>>, "none") /\ f.to = to /\ f.arguments = "none"
        BY <1>4
    <2>2. MeantBy(f, l) = Call(to, <<>>, <<>>, 0)
        BY <2>1 DEF MeantBy
    <2>. QED  BY <2>1, <2>2
<1>6. MeantBy(Form(to, <<x, y>>, "priority"), l) = Call(to, <<>>, <<>>, PriorityOf(l, 3))
    <2>1. PICK f : /\ f = Form(to, <<x, y>>, "priority")
                   /\ f.to = to /\ f.arguments = "priority" /\ Len(f.words) + 1 = 3
        BY <1>4
    <2>2. MeantBy(f, l) = Call(to, <<>>, <<>>, PriorityOf(l, 3))
        BY <1>3, <2>1 DEF MeantBy
    <2>. QED  BY <2>1, <2>2
<1>7. MeantBy(Form(to, <<x, y>>, "name"), l) = Call(to, WordsOf(l)[3], <<>>, 0)
    <2>1. PICK f : /\ f = Form(to, <<x, y>>, "name")
                   /\ f.to = to /\ f.arguments = "name" /\ Len(f.words) + 1 = 3
        BY <1>4
    <2>2. MeantBy(f, l) = Call(to, WordsOf(l)[3], <<>>, 0)
        BY <2>1 DEF MeantBy
    <2>. QED  BY <2>1, <2>2
<1>8. MeantBy(Form(to, <<x, y>>, "data"), l) = Call(to, WordsOf(l)[3], RestOf(l, 3), 0)
    <2>1. PICK f : /\ f = Form(to, <<x, y>>, "data")
                   /\ f.to = to /\ f.arguments = "data" /\ Len(f.words) + 1 = 3
        BY <1>4
    <2>2. MeantBy(f, l) = Call(to, WordsOf(l)[3], RestOf(l, 3), 0)
        BY <2>1 DEF MeantBy
    <2>. QED  BY <2>1, <2>2
<1>9. MeantBy(Form(to, <<x, y>>, "permissions"), l)
          = Call(to, WordsOf(l)[3], <<>>, Number(WordsOf(l)[4]) % UINT16_MOD)
    <2>1. PICK f : /\ f = Form(to, <<x, y>>, "permissions")
                   /\ f.to = to /\ f.arguments = "permissions" /\ Len(f.words) + 1 = 3
        BY <1>4
    <2>2. MeantBy(f, l) = Call(to, WordsOf(l)[3], <<>>, Number(WordsOf(l)[4]) % UINT16_MOD)
        BY <1>1, <2>1 DEF MeantBy
    <2>. QED  BY <2>1, <2>2
<1>. QED  BY <1>5, <1>6, <1>7, <1>8, <1>9

(* Those of one word and of three.                                         *)
LEMMA MeansOther ==
    ASSUME NEW l, IsLine(l), NEW to, NEW x, NEW y, NEW z
    PROVE  /\ MeantBy(Form(to, <<x>>, "none"), l) = Call(to, <<>>, <<>>, 0)
           /\ MeantBy(Form(to, <<x, y, z>>, "priority"), l)
                 = Call(to, <<>>, <<>>, PriorityOf(l, 4))
<1>1. Len(<<x, y, z>>) + 1 = 4
    OBVIOUS
<1>2. Len(WordsOf(l)) = Cardinality(Starts(l)) /\ Cardinality(Starts(l)) \in Nat
    BY WordsAre
<1>3. PriorityOf(l, 4) = IF Len(WordsOf(l)) < 4 THEN 1 ELSE Number(WordsOf(l)[4])
    BY <1>2 DEF PriorityOf
<1>4. MeantBy(Form(to, <<x>>, "none"), l) = Call(to, <<>>, <<>>, 0)
    <2>1. \E f : f = Form(to, <<x>>, "none") /\ f.to = to /\ f.arguments = "none"
        BY FormParts
    <2>2. PICK f : f = Form(to, <<x>>, "none") /\ f.to = to /\ f.arguments = "none"
        BY <2>1
    <2>3. MeantBy(f, l) = Call(to, <<>>, <<>>, 0)
        BY <2>2 DEF MeantBy
    <2>. QED  BY <2>2, <2>3
<1>5. MeantBy(Form(to, <<x, y, z>>, "priority"), l) = Call(to, <<>>, <<>>, PriorityOf(l, 4))
    <2>1. \E f : /\ f = Form(to, <<x, y, z>>, "priority")
                 /\ f.to = to /\ f.arguments = "priority" /\ Len(f.words) + 1 = 4
        <3>. DEFINE ws == <<x, y, z>>
        <3>1. Len(ws) + 1 = 4
            BY <1>1
        <3>. HIDE DEF ws
        <3>2. \E f : /\ f = Form(to, ws, "priority")
                     /\ f.to = to /\ f.arguments = "priority" /\ Len(f.words) + 1 = 4
            BY <3>1, FormParts
        <3>. QED  BY <3>2 DEF ws
    <2>2. PICK f : /\ f = Form(to, <<x, y, z>>, "priority")
                   /\ f.to = to /\ f.arguments = "priority" /\ Len(f.words) + 1 = 4
        BY <2>1
    <2>3. MeantBy(f, l) = Call(to, <<>>, <<>>, PriorityOf(l, 4))
        BY <1>3, <2>2 DEF MeantBy
    <2>. QED  BY <2>2, <2>3
<1>. QED  BY <1>4, <1>5

(* Commands of one word.                                                   *)
LEMMA OneWordRight ==
    ASSUME NEW l, IsLine(l)
    PROVE  /\ Has(l, 1, "exit") => Right(l, Call("exit", <<>>, <<>>, 0))
           /\ Has(l, 1, "ls") => Right(l, Call("list_files", <<>>, <<>>, 0))
<1>1. ASSUME NEW to, NEW x, Has(l, 1, x), Form(to, <<x>>, "none") \in Forms
      PROVE  Right(l, Call(to, <<>>, <<>>, 0))
    <2>1. FitsLine(Form(to, <<x>>, "none"), l)
        BY <1>1, FitsOne DEF Given
    <2>2. MeantBy(Form(to, <<x>>, "none"), l) = Call(to, <<>>, <<>>, 0)
        BY MeansOther
    <2>. QED  BY <1>1, <2>1, <2>2, OneFits
<1>2. Form("exit", <<"exit">>, "none") \in Forms /\ Form("list_files", <<"ls">>, "none") \in Forms
    BY DEF Forms
<1>. QED  BY <1>1, <1>2

(* Commands of two words and their arguments.                              *)
LEMMA TwoWordsRight ==
    ASSUME NEW l, IsLine(l), NEW to, NEW x, NEW y, NEW arguments,
           Form(to, <<x, y>>, arguments) \in Forms, Has(l, 1, x), Has(l, 2, y)
    PROVE  /\ arguments = "none" => Right(l, Call(to, <<>>, <<>>, 0))
           /\ arguments = "priority" => Right(l, Call(to, <<>>, <<>>, PriorityOf(l, 3)))
           /\ arguments = "name" /\ 3 <= Cardinality(Starts(l)) =>
                 Right(l, Call(to, WordsOf(l)[3], <<>>, 0))
           /\ arguments = "data" /\ 3 <= Cardinality(Starts(l)) /\ RestOf(l, 3) # <<>> =>
                 Right(l, Call(to, WordsOf(l)[3], RestOf(l, 3), 0))
           /\ arguments = "permissions" /\ 4 <= Cardinality(Starts(l)) =>
                 Right(l, Call(to, WordsOf(l)[3], <<>>, Number(WordsOf(l)[4]) % UINT16_MOD))
<1>. DEFINE n == Cardinality(Starts(l))
            f == Form(to, <<x, y>>, arguments)
<1>1. n \in Nat
    BY WordsAre
<1>2. (3 <= n => 2 < n) /\ 2 + 1 = 3 /\ (4 <= n => 3 < n)
    BY <1>1
<1>3. FitsLine(f, l) <=> Given(l, 2, arguments)
    BY FitsTwo
<1>4. Given(l, 2, arguments) => Right(l, MeantBy(f, l))
    BY <1>3, OneFits
<1>. HIDE DEF f
<1>5. CASE arguments = "none"
    <2>1. MeantBy(f, l) = Call(to, <<>>, <<>>, 0)
        BY <1>5, MeansTwo DEF f
    <2>. QED  BY <1>4, <1>5, <2>1 DEF Given
<1>6. CASE arguments = "priority"
    <2>1. MeantBy(f, l) = Call(to, <<>>, <<>>, PriorityOf(l, 3))
        BY <1>6, MeansTwo DEF f
    <2>. QED  BY <1>4, <1>6, <2>1 DEF Given
<1>7. CASE arguments = "name"
    <2>1. MeantBy(f, l) = Call(to, WordsOf(l)[3], <<>>, 0)
        BY <1>7, MeansTwo DEF f
    <2>. QED  BY <1>2, <1>4, <1>7, <2>1 DEF Given
<1>8. CASE arguments = "data"
    <2>1. MeantBy(f, l) = Call(to, WordsOf(l)[3], RestOf(l, 3), 0)
        BY <1>8, MeansTwo DEF f
    <2>2. 3 <= n /\ RestOf(l, 3) # <<>> => Given(l, 2, arguments)
        BY <1>2, <1>8 DEF Given
    <2>. QED  BY <1>4, <1>8, <2>1, <2>2
<1>9. CASE arguments = "permissions"
    <2>1. MeantBy(f, l) = Call(to, WordsOf(l)[3], <<>>, Number(WordsOf(l)[4]) % UINT16_MOD)
        BY <1>9, MeansTwo DEF f
    <2>2. 4 <= n => Given(l, 2, arguments)
        BY <1>2, <1>9 DEF Given
    <2>. QED  BY <1>4, <1>9, <2>1, <2>2
<1>. QED  BY <1>5, <1>6, <1>7, <1>8, <1>9

(* The tests.                                                              *)
LEMMA ThreeWordsRight ==
    ASSUME NEW l, IsLine(l), NEW to, NEW x, NEW y, NEW z,
           Form(to, <<x, y, z>>, "priority") \in Forms,
           Has(l, 1, x), Has(l, 2, y), Has(l, 3, z)
    PROVE  Right(l, Call(to, <<>>, <<>>, PriorityOf(l, 4)))
<1>1. FitsLine(Form(to, <<x, y, z>>, "priority"), l)
    BY FitsThree
<1>2. MeantBy(Form(to, <<x, y, z>>, "priority"), l) = Call(to, <<>>, <<>>, PriorityOf(l, 4))
    BY MeansOther
<1>. QED  BY <1>1, <1>2, OneFits

(* The lines that are no command.                                          *)
LEMMA NoCommandRight ==
    ASSUME NEW l, IsLine(l),
           \/ \A x \in {"exit", "ls", "process", "file"} : ~Has(l, 1, x)
           \/ Has(l, 1, "process") /\ \A y \in ProcessWords : ~Has(l, 2, y)
           \/ Has(l, 1, "process") /\ ~Has(l, 3, "test")
                /\ \A y \in {"start"} \cup Programs : ~Has(l, 2, y)
           \/ Has(l, 1, "file") /\ \A y \in FileWords : ~Has(l, 2, y)
           \/ Has(l, 1, "file") /\ (\E y \in OnName : Has(l, 2, y))
                /\ ~(3 <= Cardinality(Starts(l)))
           \/ Has(l, 1, "file") /\ (\E y \in OnData : Has(l, 2, y))
                /\ ~(3 <= Cardinality(Starts(l)) /\ RestOf(l, 3) # <<>>)
           \/ Has(l, 1, "file") /\ Has(l, 2, "chmod") /\ ~(4 <= Cardinality(Starts(l)))
    PROVE  Right(l, NoCall)
<1>. DEFINE n == Cardinality(Starts(l))
<1>1. n \in Nat
    BY WordsAre
<1>2. (3 <= n <=> 2 < n) /\ 2 + 1 = 3 /\ (4 <= n <=> 3 < n)
    BY <1>1
<1>3. SUFFICES ASSUME NEW f \in Forms, FitsLine(f, l) PROVE FALSE
    BY NoneFits
<1>4. BeginsAs(l, f)
    BY <1>3, FitsBegins
<1>5. \A x, y : Has(l, 1, x) /\ Has(l, 1, y) => x = y
    BY HasOne
<1>6. \A x, y : Has(l, 2, x) /\ Has(l, 2, y) => x = y
    BY HasOne
<1>7. CASE \A x \in {"exit", "ls", "process", "file"} : ~Has(l, 1, x)
    BY <1>4, <1>7 DEF BeginsAs
<1>8. CASE Has(l, 1, "process")
    <2>1. PICK y \in ProcessWords : Has(l, 2, y) /\ f = ProcessForm(y)
        BY <1>4, <1>5, <1>8 DEF BeginsAs
    <2>2. /\ ~Has(l, 3, "test")
          /\ \A x \in {"start"} \cup Programs : ~Has(l, 2, x)
        BY <1>5, <1>8, <2>1
    <2>3. y = "syscall" \/ y = "process"
        BY <2>1, <2>2 DEF ProcessWords
    <2>4. \E to : f = Form(to, <<"process", y, "test">>, "priority")
        BY <2>1, <2>3 DEF ProcessForm
    <2>. QED  BY <1>3, <2>2, <2>4, FitsThree
<1>9. CASE Has(l, 1, "file")
    <2>1. PICK y \in FileWords : Has(l, 2, y) /\ f = FileForm(y)
        BY <1>4, <1>5, <1>9 DEF BeginsAs
    <2>2. ~Has(l, 1, "process") /\ ~(\A x \in {"exit", "ls", "process", "file"} : ~Has(l, 1, x))
        BY <1>5, <1>9
    <2>3. \/ y \in OnName /\ ~(3 <= n)
          \/ y \in OnData /\ ~(3 <= n /\ RestOf(l, 3) # <<>>)
          \/ y = "chmod" /\ ~(4 <= n)
        BY <1>6, <2>1, <2>2
    <2>4. /\ y \in OnName => \E to : f = Form(to, <<"file", y>>, "name")
          /\ y \in OnData => \E to : f = Form(to, <<"file", y>>, "data")
          /\ y = "chmod" => \E to : f = Form(to, <<"file", y>>, "permissions")
        BY <2>1 DEF FileForm, OnName, OnData
    <2>5. \A to, arguments : f = Form(to, <<"file", y>>, arguments) => Given(l, 2, arguments)
        BY <1>3, FitsTwo
    <2>. QED  BY <1>2, <2>3, <2>4, <2>5 DEF Given
<1>. QED  BY <1>7, <1>8, <1>9

-----------------------------------------------------------------------------
(* The invariant: tokens and calls mean what was typed.                    *)

(* l is a write or an append.                                              *)
AsksForData(l) == Has(l, 1, "file") /\ \E y \in OnData : Has(l, 2, y)

(* What l is when cli_loop has asked for m tokens.                         *)
Asked(l, m) ==
    /\ m <= 4
    /\ m >= 2 => Has(l, 1, "process") \/ Has(l, 1, "file")
    /\ m >= 3 => IF Has(l, 1, "process")
                 THEN 2 <= Cardinality(Starts(l)) /\ ~Has(l, 2, "start")
                 ELSE \E y \in OnName \cup OnData \cup {"chmod"} : Has(l, 2, y)
    /\ m >= 4 => Has(l, 1, "process") \/ Has(l, 2, "chmod") \/ AsksForData(l)

(* The tokens are the words of l, but for the data.                        *)
Understood(l, mem, p, toks) ==
    IF Len(toks) = 4 /\ AsksForData(l)
    THEN (\E q, w : WordTokens(l, mem, q, toks, 3, w)) /\ DataTold(l, mem, toks[4])
    ELSE \E w : WordTokens(l, mem, p, toks, Len(toks), w)

(* Before a call, the tokens mean what was typed; behind it, the call does. *)
MeaningInv ==
    /\ loop = "command" =>
          /\ IsLine(line) /\ Asked(line, Len(tokens))
          /\ Understood(line, input, IF tokens = <<>> THEN 0 ELSE static_str, tokens)
    /\ loop # "command" /\ lines_read > 0 => Right(line, call)

(* read_line.                                                              *)
LEMMA ReadLineMeans ==
    ASSUME CommandInv, loop = "prompt", NEW typed \in Seq(STRING \ {NUL, "\n"}), ReadLine(typed)
    PROVE  MeaningInv'
<1>. DEFINE M == MAX_INPUT_LENGTH
            len == Shorter(Len(typed), M - 1)
            T == STRING \ {NUL, "\n"}
<1>1. M - 1 \in Nat /\ Len(typed) \in Nat /\ M \in Nat
    BY CommandLineAssumption, LenProperties
<1>2. len \in Nat /\ len <= Len(typed) /\ len <= M - 1
    BY <1>1 DEF Shorter
<1>3. line' = SubSeq(typed, 1, len)
    BY DEF ReadLine
<1>. HIDE DEF len, T
<1>4. line' \in Seq(T) /\ Len(line') = len
    <2>1. \A i \in 1 .. len : i \in 1 .. Len(typed)
        BY <1>1, <1>2
    <2>2. \A i \in 1 .. len : typed[i] \in T
        BY <1>1, <2>1, ElementOfSeq DEF T
    <2>3. line' = [i \in 1 .. len |-> typed[i]]
        BY <1>1, <1>2, <1>3
    <2>4. line' \in [1 .. len -> T]
        BY <2>2, <2>3
    <2>. QED  BY <1>2, <2>4, SeqDef, LenProperties
<1>5. \A i \in 0 .. len : Literal(line')[i] = IF i < len THEN line'[i + 1] ELSE NUL
    BY <1>4 DEF Literal
<1>6. input' = [i \in 0 .. M - 1 |-> IF i <= len THEN Literal(line')[i] ELSE input[i]]
    BY <1>4 DEF ReadLine, InputIndex
<1>7. RestAt(line', input', 0)
    <2>1. \A i \in 0 .. len : input'[i] = Literal(line')[i]
        BY <1>1, <1>2, <1>6
    <2>2. len \in 0 .. len /\ ~(len < len)
        BY <1>2
    <2>3. \A i \in 0 .. len - 1 : i \in 0 .. len /\ i < len
        BY <1>2
    <2>. QED  BY <1>4, <1>5, <2>1, <2>2, <2>3 DEF RestAt
<1>8. tokens' = <<>> /\ loop' = "command"
    BY DEF CommandInv, ReadLine
<1>9. Len(tokens') = 0
    BY <1>8
<1>10. Passed(line', 0, 0)
    BY <1>2, <1>4, PassedNone
<1>11. 0 \in Nat /\ 0 \in 0 .. 0 /\ (\A k \in 1 .. 0 : FALSE) /\ (\A k \in 0 + 1 .. 0 : FALSE)
    OBVIOUS
<1>12. WordTokens(line', input', 0, tokens', 0, 0)
    BY <1>7, <1>10, <1>11 DEF WordTokens
<1>13. Understood(line', input', IF tokens' = <<>> THEN 0 ELSE static_str', tokens')
    BY <1>8, <1>9, <1>12 DEF Understood
<1>14. Asked(line', Len(tokens'))
    BY <1>9 DEF Asked
<1>15. IsLine(line')
    BY <1>4 DEF IsLine, T
<1>. QED  BY <1>8, <1>13, <1>14, <1>15 DEF MeaningInv

(* One more token cut at blanks.                                           *)
LEMMA TokenKeepsMeaning ==
    ASSUME CommandInv, MeaningInv, loop = "command", Strtok(Blank),
           Len(tokens) = 3 => ~AsksForData(line), Len(tokens) < 4,
           Asked(line, Len(tokens) + 1)
    PROVE  MeaningInv'
<1>. DEFINE N == MAX_INPUT_LENGTH - 1
            p == IF tokens = <<>> THEN 0 ELSE static_str
            r == strtok(input, p, Blank)
<1>1. /\ N \in Nat /\ input \in MemoryTo(N) /\ Len(line) \in 0 .. N /\ tokens \in Seq(Int)
    BY CommandLineAssumption DEF CommandInv
<1>2. Len(tokens) \in Nat /\ Len(line) <= N
    BY <1>1, LenProperties
<1>3. IsLine(line) /\ Understood(line, input, p, tokens)
    BY DEF MeaningInv
<1>. HIDE DEF p
<1>4. PICK w : WordTokens(line, input, p, tokens, Len(tokens), w)
    BY <1>2, <1>3 DEF Understood
<1>5. \E v : WordTokens(line, r.mem, r.static_str, Append(tokens, r.token), Len(tokens) + 1, v)
    <2>. HIDE DEF N
    <2>. QED  BY <1>1, <1>2, <1>3, <1>4, BlankToken
<1>6. input' = r.mem /\ static_str' = r.static_str /\ tokens' = Append(tokens, r.token)
      /\ line' = line /\ loop' = loop
    BY DEF Strtok, p
<1>. HIDE DEF r
<1>7. tokens' \in Seq(Int)
    <2>1. CommandInv'
        <3>1. NUL \notin Blank
            BY DEF Blank, NUL
        <3>. QED  BY <3>1, StrtokKeeps
    <2>. QED  BY <2>1 DEF CommandInv
<1>8. Len(tokens') = Len(tokens) + 1 /\ tokens' # <<>>
    <2>1. Len(Append(tokens, r.token)) = Len(tokens) + 1
        BY <1>1
    <2>. QED  BY <1>2, <1>6, <2>1
<1>9. ~(Len(tokens') = 4 /\ AsksForData(line))
    <2>1. \A i \in Nat : i + 1 = 4 => i = 3
        OBVIOUS
    <2>2. Len(tokens') = 4 => Len(tokens) = 3
        BY <1>2, <1>8, <2>1
    <2>. QED  BY <2>2
<1>10. \E v : WordTokens(line', input', static_str', tokens', Len(tokens'), v)
    BY <1>5, <1>6, <1>8
<1>11. Understood(line', input', IF tokens' = <<>> THEN 0 ELSE static_str', tokens')
    BY <1>6, <1>8, <1>9, <1>10 DEF Understood
<1>12. IsLine(line') /\ Asked(line', Len(tokens'))
    BY <1>3, <1>6, <1>8
<1>13. loop' = "command"
    BY <1>6
<1>. QED  BY <1>11, <1>12, <1>13 DEF MeaningInv

(* The data.                                                               *)
LEMMA DataKeepsMeaning ==
    ASSUME CommandInv, MeaningInv, loop = "command", Strtok(Newline),
           Len(tokens) = 3, AsksForData(line)
    PROVE  MeaningInv'
<1>. DEFINE N == MAX_INPUT_LENGTH - 1
            r == strtok(input, static_str, Newline)
<1>1. /\ N \in Nat /\ input \in MemoryTo(N) /\ Len(line) \in 0 .. N /\ tokens \in Seq(Int)
    BY CommandLineAssumption DEF CommandInv
<1>2. tokens # <<>> /\ Len(line) <= N
    BY <1>1
<1>3. IsLine(line) /\ Understood(line, input, static_str, tokens) /\ Asked(line, 3)
    BY <1>2 DEF MeaningInv
<1>4. PICK w : WordTokens(line, input, static_str, tokens, 3, w)
    BY <1>3 DEF Understood
<1>5. r.mem = input /\ DataTold(line, input, r.token)
    <2>. HIDE DEF N
    <2>. QED  BY <1>1, <1>2, <1>3, <1>4, DataToken
<1>6. input' = r.mem /\ tokens' = Append(tokens, r.token) /\ line' = line /\ loop' = loop
    BY <1>2 DEF Strtok
<1>7. CommandInv'
    <2>1. NUL \notin Newline
        BY DEF Newline, NUL
    <2>. QED  BY <2>1, StrtokKeeps
<1>. HIDE DEF r
<1>8. Len(tokens') = 4 /\ tokens'[4] = r.token
    <2>1. ASSUME NEW s \in Seq(Int), NEW x
          PROVE  Len(Append(s, x)) = Len(s) + 1 /\ Append(s, x)[Len(s) + 1] = x
        BY ONLY s \in Seq(Int)
    <2>2. /\ Len(Append(tokens, r.token)) = Len(tokens) + 1
          /\ Append(tokens, r.token)[Len(tokens) + 1] = r.token
        BY <1>1, <2>1, Zenon
    <2>3. Len(tokens) + 1 = 4
        BY Len(tokens) = 3
    <2>. QED  BY <1>6, <2>2, <2>3, Zenon
<1>9. r.token \in Int
    <2>1. tokens' \in Seq(Int) /\ 4 \in 1 .. Len(tokens')
        BY <1>7, <1>8 DEF CommandInv
    <2>. QED  BY <1>8, <2>1, ElementOfSeq
<1>10. WordTokens(line', input', static_str, tokens', 3, w)
    <2>1. WordTokens(line, input, static_str, tokens, Len(tokens), w)
        BY <1>4
    <2>2. WordTokens(line, input, static_str, Append(tokens, r.token), Len(tokens), w)
        BY <1>1, <1>9, <2>1, WordTokensBefore
    <2>. QED  BY <1>5, <1>6, <2>2
<1>11. DataTold(line', input', tokens'[4]) /\ AsksForData(line')
    BY <1>5, <1>6, <1>8
<1>12. Understood(line', input', IF tokens' = <<>> THEN 0 ELSE static_str', tokens')
    BY <1>8, <1>10, <1>11 DEF Understood
<1>13. Asked(line', Len(tokens'))
    <2>1. Asked(line, 4)
        BY <1>3 DEF Asked
    <2>. QED  BY <1>6, <1>8, <2>1
<1>14. loop' = "command" /\ IsLine(line')
    BY <1>3, <1>6
<1>. QED  BY <1>12, <1>13, <1>14 DEF MeaningInv

(* What cli_loop sees of the k-th token is what the k-th word says.        *)
LEMMA TokenTold ==
    ASSUME CommandInv, MeaningInv, loop = "command", NEW k \in 1 .. Len(tokens),
           k < 4 \/ ~AsksForData(line)
    PROVE  /\ Missing(k) <=> ~(k <= Cardinality(Starts(line)))
           /\ ~Missing(k) => /\ Token(k) = WordsOf(line)[k]
                             /\ atoi(input, tokens[k]) = Number(WordsOf(line)[k])
           /\ \A keyword : keyword # NUL => (Is(k, keyword) <=> Has(line, k, keyword))
<1>. DEFINE N == MAX_INPUT_LENGTH - 1
            c == IF Len(tokens) = 4 /\ AsksForData(line) THEN 3 ELSE Len(tokens)
<1>1. /\ N \in Nat /\ input \in MemoryTo(N) /\ Len(line) \in 0 .. N /\ tokens \in Seq(Int)
    BY CommandLineAssumption DEF CommandInv
<1>2. Len(tokens) \in Nat /\ Len(line) <= N
    BY <1>1, LenProperties
<1>3. IsLine(line) /\ \E p, w : WordTokens(line, input, p, tokens, c, w)
    BY DEF MeaningInv, Understood
<1>4. PICK p, w : WordTokens(line, input, p, tokens, c, w)
    BY <1>3
<1>5. k \in 1 .. c
    BY <1>2
<1>. HIDE DEF N, c
<1>6. /\ tokens[k] = NoToken <=> ~(k <= Cardinality(Starts(line)))
      /\ tokens[k] # NoToken =>
            /\ Text(input, tokens[k]) = WordsOf(line)[k]
            /\ atoi(input, tokens[k]) = Number(WordsOf(line)[k])
      /\ \A keyword : keyword # NUL =>
            ((tokens[k] # NoToken /\ strcmp(input, tokens[k], Literal(<<keyword>>), 0))
                 <=> Has(line, k, keyword))
    BY <1>1, <1>2, <1>3, <1>4, <1>5, TokenMeans
<1>. QED  BY <1>6 DEF Missing, Is, Token

(* A keyword is not the terminator.                                        *)
LEMMA KeywordsAre ==
    /\ \A x \in {"exit", "ls", "process", "file", "start", "syscall", "test", "make", "read",
                 "rm", "write", "append", "chmod"} : x # NUL
    /\ \A x \in Programs : x # NUL
<1>1. \A x \in Programs : x # NUL
    BY CommandLineAssumption
<1>2. \A x \in {"exit", "ls", "process", "file", "start", "syscall", "test", "make", "read",
                 "rm", "write", "append", "chmod"} : x # NUL
    BY DEF NUL
<1>. QED  BY <1>1, <1>2

(* The strtok calls.                                                       *)
LEMMA StrtokMeans ==
    ASSUME CommandInv, MeaningInv, loop = "command",
           Token1 \/ Token2 \/ Token3 \/ Token4 \/ Data
    PROVE  MeaningInv'
<1>. DEFINE l == line
            n == Cardinality(Starts(line))
<1>1. tokens \in Seq(Int) /\ Len(tokens) \in Nat /\ Asked(l, Len(tokens)) /\ IsLine(l)
    BY LenProperties DEF CommandInv, MeaningInv
<1>2. \A k \in 1 .. Len(tokens) : k < 4 =>
          /\ Missing(k) <=> ~(k <= n)
          /\ \A keyword : keyword # NUL => (Is(k, keyword) <=> Has(l, k, keyword))
    BY TokenTold
<1>3. \A x, y : Has(l, 1, x) /\ Has(l, 1, y) => x = y
    BY HasOne
<1>4. \A x, y : Has(l, 2, x) /\ Has(l, 2, y) => x = y
    BY HasOne
<1>5. CASE Token1
    <2>1. tokens = <<>> /\ Strtok(Blank)
        BY <1>5 DEF Token1
    <2>2. Len(tokens) = 0
        BY <2>1
    <2>3. Asked(l, Len(tokens) + 1)
        BY <2>2 DEF Asked
    <2>. QED  BY <2>1, <2>2, <2>3, TokenKeepsMeaning
<1>6. CASE Token2
    <2>1. Len(tokens) = 1 /\ (Is(1, "process") \/ Is(1, "file")) /\ Strtok(Blank)
        BY <1>6 DEF Token2
    <2>2. 1 \in 1 .. Len(tokens) /\ 1 < 4
        BY <2>1
    <2>3. Has(l, 1, "process") \/ Has(l, 1, "file")
        BY <1>2, <2>1, <2>2, KeywordsAre
    <2>4. Asked(l, Len(tokens) + 1)
        BY <2>1, <2>3 DEF Asked
    <2>. QED  BY <2>1, <2>4, TokenKeepsMeaning
<1>7. CASE Token3
    <2>1. /\ Len(tokens) = 2 /\ Strtok(Blank)
          /\ IF Is(1, "process") THEN ~Missing(2) /\ ~Is(2, "start")
             ELSE \E k \in OnName \cup OnData \cup {"chmod"} : Is(2, k)
        BY <1>7 DEF Token3
    <2>2. 1 \in 1 .. Len(tokens) /\ 1 < 4 /\ 2 \in 1 .. Len(tokens) /\ 2 < 4
        BY <2>1
    <2>3. IF Has(l, 1, "process") THEN 2 <= n /\ ~Has(l, 2, "start")
          ELSE \E k \in OnName \cup OnData \cup {"chmod"} : Has(l, 2, k)
        BY <1>2, <2>1, <2>2, KeywordsAre DEF OnName, OnData
    <2>4. Has(l, 1, "process") \/ Has(l, 1, "file")
        BY <1>1, <2>1 DEF Asked
    <2>5. Asked(l, 3)
        BY <2>3, <2>4 DEF Asked
    <2>. QED  BY <2>1, <2>5, TokenKeepsMeaning
<1>8. CASE Token4
    <2>1. Len(tokens) = 3 /\ (Is(1, "process") \/ Is(2, "chmod")) /\ Strtok(Blank)
        BY <1>8 DEF Token4
    <2>2. 1 \in 1 .. Len(tokens) /\ 1 < 4 /\ 2 \in 1 .. Len(tokens) /\ 2 < 4
        BY <2>1
    <2>3. Has(l, 1, "process") \/ Has(l, 2, "chmod")
        BY <1>2, <2>1, <2>2, KeywordsAre
    <2>4. Asked(l, 4)
        BY <1>1, <2>1, <2>3 DEF Asked
    <2>5. ~AsksForData(l)
        BY <1>3, <1>4, <2>3 DEF AsksForData, OnData
    <2>. QED  BY <2>1, <2>4, <2>5, TokenKeepsMeaning
<1>9. CASE Data
    <2>1. Len(tokens) = 3 /\ Is(1, "file") /\ (\E k \in OnData : Is(2, k)) /\ Strtok(Newline)
        BY <1>9 DEF Data
    <2>2. 1 \in 1 .. Len(tokens) /\ 1 < 4 /\ 2 \in 1 .. Len(tokens) /\ 2 < 4
        BY <2>1
    <2>3. AsksForData(l)
        BY <1>2, <2>1, <2>2, KeywordsAre DEF AsksForData, OnData
    <2>. QED  BY <2>1, <2>3, DataKeepsMeaning
<1>. QED  BY <1>5, <1>6, <1>7, <1>8, <1>9

-----------------------------------------------------------------------------
(* The branches.                                                           *)

(* The line led to the right call.                                         *)
LEMMA ReturnMeans ==
    ASSUME NEW c, Return(c), loop' # "command", Right(line, c)
    PROVE  MeaningInv'
<1>1. call' = c /\ line' = line
    BY DEF Return
<1>2. Right(line', call')
    BY <1>1
<1>. QED  BY <1>2 DEF MeaningInv

(* So it did, when the prompt comes back at once.                          *)
LEMMA ContinueMeans ==
    ASSUME NEW c, Continue(c), Right(line, c)
    PROVE  MeaningInv'
<1>1. Return(c) /\ loop' # "command"
    BY DEF Continue
<1>. QED  BY <1>1, ReturnMeans

(* What the tokens say up to the m-th, when that many have been asked for. *)
Says(m) ==
    \A k \in 1 .. m :
        /\ Missing(k) <=> ~(k <= Cardinality(Starts(line)))
        /\ ~Missing(k) => /\ Token(k) = WordsOf(line)[k]
                          /\ atoi(input, tokens[k]) = Number(WordsOf(line)[k])
        /\ \A keyword : keyword # NUL => (Is(k, keyword) <=> Has(line, k, keyword))

(* They say that of all tokens but the data.                               *)
LEMMA TokensSay ==
    ASSUME CommandInv, MeaningInv, loop = "command"
    PROVE  /\ IsLine(line) /\ Len(tokens) \in 0 .. 4 /\ Asked(line, Len(tokens))
           /\ \A m \in 1 .. 3 : Len(tokens) >= m => Says(m)
           /\ Len(tokens) = 4 /\ ~AsksForData(line) => Says(4)
           /\ Len(tokens) = 4 /\ AsksForData(line) => DataTold(line, input, tokens[4])
<1>1. tokens \in Seq(Int) /\ Len(tokens) \in Nat /\ Asked(line, Len(tokens)) /\ IsLine(line)
    BY LenProperties DEF CommandInv, MeaningInv
<1>2. Len(tokens) \in 0 .. 4
    <2>1. Len(tokens) <= 4
        BY <1>1 DEF Asked
    <2>2. \A i \in Nat : i <= 4 => i \in 0 .. 4
        OBVIOUS
    <2>. QED  BY <1>1, <2>1, <2>2, Zenon
<1>3. ASSUME NEW m \in 1 .. 3, Len(tokens) >= m
      PROVE  Says(m)
    <2>1. \A k \in 1 .. m : k \in 1 .. Len(tokens) /\ k < 4
        BY <1>1, <1>3
    <2>. QED  BY <2>1, TokenTold DEF Says
<1>4. Len(tokens) = 4 /\ ~AsksForData(line) => Says(4)
    BY TokenTold DEF Says
<1>5. Len(tokens) = 4 /\ AsksForData(line) => DataTold(line, input, tokens[4])
    BY DEF MeaningInv, Understood
<1>. QED  BY <1>1, <1>2, <1>3, <1>4, <1>5

(* What one token says.                                                    *)
LEMMA SaysEach ==
    ASSUME NEW m \in Nat, Says(m), NEW k \in 1 .. m
    PROVE  /\ Missing(k) <=> ~(k <= Cardinality(Starts(line)))
           /\ ~Missing(k) => /\ Token(k) = WordsOf(line)[k]
                             /\ atoi(input, tokens[k]) = Number(WordsOf(line)[k])
           /\ \A keyword : keyword # NUL => (Is(k, keyword) <=> Has(line, k, keyword))
    BY DEF Says

(* A word that is there has a number.                                      *)
LEMMA HasWord ==
    ASSUME NEW l, NEW k, NEW x, Has(l, k, x)
    PROVE  k \in 1 .. Cardinality(Starts(l))
    BY DEF Has

(* The branches behind the first token.                                    *)
LEMMA FirstMeans ==
    ASSUME CommandInv, MeaningInv, loop = "command", Len(tokens) = 1,
           Nothing \/ Exit \/ List \/ Unknown
    PROVE  MeaningInv'
<1>. DEFINE l == line
<1>1. IsLine(l) /\ Says(1) /\ Cardinality(Starts(l)) \in Nat
    <2>1. 1 \in 1 .. 3 /\ Len(tokens) >= 1
        OBVIOUS
    <2>2. IsLine(l) /\ Says(1)
        BY <2>1, TokensSay
    <2>. QED  BY <2>2, WordsAre
<1>2. 1 \in 1 .. 1 /\ 1 \in Nat
    OBVIOUS
<1>3. /\ Missing(1) <=> ~(1 <= Cardinality(Starts(l)))
      /\ \A x \in {"exit", "ls", "process", "file"} : Is(1, x) <=> Has(l, 1, x)
    BY <1>1, <1>2, SaysEach, KeywordsAre
<1>4. CASE Nothing
    <2>1. \A x \in {"exit", "ls", "process", "file"} : ~Has(l, 1, x)
        BY <1>1, <1>3, <1>4, HasWord DEF Nothing
    <2>2. Right(l, NoCall)
        BY <1>1, <2>1, NoCommandRight
    <2>. QED  BY <1>4, <2>2, ContinueMeans DEF Nothing
<1>5. CASE Exit
    <2>1. Is(1, "exit") /\ Return(Call("exit", <<>>, <<>>, 0)) /\ loop' # "command"
        BY <1>5 DEF Exit
    <2>2. Right(l, Call("exit", <<>>, <<>>, 0))
        BY <1>1, <1>3, <2>1, OneWordRight
    <2>. QED  BY <2>1, <2>2, ReturnMeans
<1>6. CASE List
    <2>1. Is(1, "ls") /\ Continue(Call("list_files", <<>>, <<>>, 0))
        BY <1>6 DEF List
    <2>2. Right(l, Call("list_files", <<>>, <<>>, 0))
        BY <1>1, <1>3, <2>1, OneWordRight
    <2>. QED  BY <2>1, <2>2, ContinueMeans
<1>7. CASE Unknown
    <2>1. \A x \in {"exit", "ls", "process", "file"} : ~Has(l, 1, x)
        BY <1>3, <1>7 DEF Unknown
    <2>2. Right(l, NoCall)
        BY <1>1, <2>1, NoCommandRight
    <2>. QED  BY <1>7, <2>2, ContinueMeans DEF Unknown
<1>. QED  BY <1>4, <1>5, <1>6, <1>7

(* Behind the second.                                                      *)
LEMMA SecondMeans ==
    ASSUME CommandInv, MeaningInv, loop = "command", Len(tokens) = 2,
           List \/ Usage \/ Start \/ UnknownOperation
    PROVE  MeaningInv'
<1>. DEFINE l == line
<1>1. IsLine(l) /\ Says(2) /\ Cardinality(Starts(l)) \in Nat /\ Asked(l, 2)
    <2>1. 2 \in 1 .. 3 /\ Len(tokens) >= 2
        OBVIOUS
    <2>2. IsLine(l) /\ Says(2) /\ Asked(l, Len(tokens))
        BY <2>1, TokensSay
    <2>. QED  BY <2>2, WordsAre
<1>2. 1 \in 1 .. 2 /\ 2 \in 1 .. 2 /\ 2 \in Nat
    OBVIOUS
<1>3. \A x \in {"process", "file"} : Is(1, x) <=> Has(l, 1, x)
    BY <1>1, <1>2, SaysEach, KeywordsAre
<1>4. /\ Missing(2) <=> ~(2 <= Cardinality(Starts(l)))
      /\ \A x \in FileWords \cup {"start"} : Is(2, x) <=> Has(l, 2, x)
    BY <1>1, <1>2, SaysEach, KeywordsAre DEF FileWords, OnName, OnData
<1>5. Has(l, 1, "process") \/ Has(l, 1, "file")
    BY <1>1 DEF Asked
<1>6. CASE List
    <2>1. Is(1, "file") /\ Is(2, "ls") /\ Continue(Call("list_files", <<>>, <<>>, 0))
        BY <1>6 DEF List
    <2>2. Has(l, 1, "file") /\ Has(l, 2, "ls")
        BY <1>3, <1>4, <2>1 DEF FileWords
    <2>3. Form("list_files", <<"file", "ls">>, "none") \in Forms
        BY DEF Forms
    <2>4. Right(l, Call("list_files", <<>>, <<>>, 0))
        BY <1>1, <2>2, <2>3, TwoWordsRight
    <2>. QED  BY <2>1, <2>4, ContinueMeans
<1>7. CASE Usage
    <2>1. Missing(2) /\ Continue(NoCall)
        BY <1>7 DEF Usage
    <2>2. \A y : ~Has(l, 2, y)
        BY <1>1, <1>4, <2>1, HasWord
    <2>3. Right(l, NoCall)
        BY <1>1, <1>5, <2>2, NoCommandRight
    <2>. QED  BY <2>1, <2>3, ContinueMeans
<1>8. CASE Start
    <2>1. /\ Is(1, "process") /\ Is(2, "start") /\ Return(Call("schedule", <<>>, <<>>, 0))
          /\ loop' # "command"
        BY <1>8 DEF Start
    <2>2. Has(l, 1, "process") /\ Has(l, 2, "start")
        BY <1>3, <1>4, <2>1
    <2>3. Form("schedule", <<"process", "start">>, "none") \in Forms
        BY DEF Forms
    <2>4. Right(l, Call("schedule", <<>>, <<>>, 0))
        BY <1>1, <2>2, <2>3, TwoWordsRight
    <2>. QED  BY <2>1, <2>4, ReturnMeans
<1>9. CASE UnknownOperation
    <2>1. /\ Is(1, "file") /\ Continue(NoCall) /\ \A y \in FileWords : ~Is(2, y)
        BY <1>9 DEF UnknownOperation, FileWords
    <2>2. Has(l, 1, "file") /\ \A y \in FileWords : ~Has(l, 2, y)
        BY <1>3, <1>4, <2>1
    <2>3. Right(l, NoCall)
        BY <1>1, <2>2, NoCommandRight
    <2>. QED  BY <2>1, <2>3, ContinueMeans
<1>. QED  BY <1>6, <1>7, <1>8, <1>9

(* Behind the third.                                                       *)
LEMMA ThirdMeans ==
    ASSUME CommandInv, MeaningInv, loop = "command", Len(tokens) = 3,
           Make \/ OfName("read", "read_file") \/ OfName("rm", "delete_file") \/ FileUsage
    PROVE  MeaningInv'
<1>. DEFINE l == line
            n == Cardinality(Starts(line))
<1>1. IsLine(l) /\ Says(3) /\ n \in Nat
    <2>1. 3 \in 1 .. 3 /\ Len(tokens) >= 3
        OBVIOUS
    <2>2. IsLine(l) /\ Says(3)
        BY <2>1, TokensSay
    <2>. QED  BY <2>2, WordsAre
<1>2. 1 \in 1 .. 3 /\ 2 \in 1 .. 3 /\ 3 \in 1 .. 3 /\ 3 \in Nat
    OBVIOUS
<1>3. Is(1, "file") <=> Has(l, 1, "file")
    BY <1>1, <1>2, SaysEach, KeywordsAre
<1>4. \A x \in OnName : Is(2, x) <=> Has(l, 2, x)
    BY <1>1, <1>2, SaysEach, KeywordsAre DEF OnName
<1>5. (Missing(3) <=> ~(3 <= n)) /\ (~Missing(3) => Token(3) = WordsOf(l)[3])
    BY <1>1, <1>2, SaysEach
<1>6. ASSUME NEW to, NEW x \in OnName, Form(to, <<"file", x>>, "name") \in Forms,
             Is(1, "file"), Is(2, x), ~Missing(3)
      PROVE  Right(l, Call(to, Token(3), <<>>, 0))
    <2>1. Has(l, 1, "file") /\ Has(l, 2, x) /\ 3 <= n /\ Token(3) = WordsOf(l)[3]
        BY <1>3, <1>4, <1>5, <1>6
    <2>2. Right(l, Call(to, WordsOf(l)[3], <<>>, 0))
        BY <1>1, <1>6, <2>1, TwoWordsRight
    <2>. QED  BY <2>1, <2>2
<1>7. /\ Form("create_file", <<"file", "make">>, "name") \in Forms
      /\ Form("read_file", <<"file", "read">>, "name") \in Forms
      /\ Form("delete_file", <<"file", "rm">>, "name") \in Forms
      /\ "make" \in OnName /\ "read" \in OnName /\ "rm" \in OnName
    BY DEF Forms, OnName
<1>8. CASE Make
    <2>1. /\ Is(1, "file") /\ Is(2, "make") /\ ~Missing(3)
          /\ Return(Call("create_file", Token(3), <<>>, 0)) /\ loop' # "command"
        BY <1>8 DEF Make
    <2>2. Right(l, Call("create_file", Token(3), <<>>, 0))
        BY <1>6, <1>7, <2>1
    <2>. QED  BY <2>1, <2>2, ReturnMeans
<1>9. ASSUME NEW to, NEW x \in OnName, Form(to, <<"file", x>>, "name") \in Forms, OfName(x, to)
      PROVE  MeaningInv'
    <2>1. /\ Is(1, "file") /\ Is(2, x) /\ ~Missing(3)
          /\ Continue(Call(to, Token(3), <<>>, 0))
        BY <1>9 DEF OfName
    <2>2. Right(l, Call(to, Token(3), <<>>, 0))
        BY <1>6, <1>9, <2>1
    <2>. QED  BY <2>1, <2>2, ContinueMeans
<1>10. CASE FileUsage
    <2>1. Is(1, "file") /\ (\E x \in OnName : Is(2, x)) /\ Missing(3) /\ Continue(NoCall)
        BY <1>10 DEF FileUsage
    <2>2. Has(l, 1, "file") /\ (\E x \in OnName : Has(l, 2, x)) /\ ~(3 <= n)
        BY <1>3, <1>4, <1>5, <2>1
    <2>3. Right(l, NoCall)
        BY <1>1, <2>2, NoCommandRight
    <2>. QED  BY <2>1, <2>3, ContinueMeans
<1>. QED  BY <1>7, <1>8, <1>9, <1>10

(* The tests and the programs, behind the fourth.                          *)
LEMMA ProcessMeans ==
    ASSUME CommandInv, MeaningInv, loop = "command",
           \/ QueueTest("syscall", "syscall_test") \/ QueueTest("process", "process_test")
           \/ (\E program \in Programs : QueueProgram(program)) \/ UnknownProgram
    PROVE  MeaningInv'
<1>. DEFINE l == line
            n == Cardinality(Starts(line))
<1>1. Len(tokens) = 4 /\ Is(1, "process")
    BY DEF QueueTest, QueueProgram, UnknownProgram
<1>2. IsLine(l) /\ Says(3) /\ n \in Nat /\ Asked(l, 4)
    <2>1. 3 \in 1 .. 3 /\ Len(tokens) >= 3
        BY <1>1
    <2>2. IsLine(l) /\ Says(3) /\ Asked(l, Len(tokens))
        BY <2>1, TokensSay
    <2>. QED  BY <1>1, <2>2, WordsAre
<1>3. 1 \in 1 .. 3 /\ 3 \in Nat
    OBVIOUS
<1>4. Has(l, 1, "process")
    BY <1>1, <1>2, <1>3, SaysEach, KeywordsAre
<1>5. ~AsksForData(l)
    <2>1. Has(l, 1, "file") => "file" = "process"
        BY <1>4, HasOne
    <2>. QED  BY <2>1 DEF AsksForData
<1>6. Says(4) /\ 4 \in Nat /\ 2 \in 1 .. 4 /\ 3 \in 1 .. 4 /\ 4 \in 1 .. 4
    BY <1>1, <1>5, TokensSay
<1>7. \A x \in {"start", "syscall", "process"} \cup Programs : Is(2, x) <=> Has(l, 2, x)
    BY <1>6, SaysEach, KeywordsAre
<1>8. Is(3, "test") <=> Has(l, 3, "test")
    BY <1>6, SaysEach, KeywordsAre
<1>9. Priority(3) = PriorityOf(l, 3) /\ Priority(4) = PriorityOf(l, 4)
    <2>1. /\ Missing(3) <=> ~(3 <= n)
          /\ ~Missing(3) => atoi(input, tokens[3]) = Number(WordsOf(l)[3])
        BY <1>6, SaysEach
    <2>2. /\ Missing(4) <=> ~(4 <= n)
          /\ ~Missing(4) => atoi(input, tokens[4]) = Number(WordsOf(l)[4])
        BY <1>6, SaysEach
    <2>. QED  BY <2>1, <2>2 DEF Priority, PriorityOf
<1>10. ~Has(l, 2, "start")
    BY <1>2, <1>4 DEF Asked
<1>11. ASSUME NEW x \in {"syscall", "process"}, NEW to, QueueTest(x, to),
              Form(to, <<"process", x, "test">>, "priority") \in Forms
       PROVE  MeaningInv'
    <2>1. Is(2, x) /\ Is(3, "test") /\ Continue(Call(to, <<>>, <<>>, Priority(4)))
        BY <1>11 DEF QueueTest
    <2>2. Has(l, 2, x) /\ Has(l, 3, "test")
        BY <1>7, <1>8, <2>1
    <2>3. Right(l, Call(to, <<>>, <<>>, PriorityOf(l, 4)))
        BY <1>2, <1>4, <1>11, <2>2, ThreeWordsRight
    <2>. QED  BY <1>9, <2>1, <2>3, ContinueMeans
<1>12. /\ Form("syscall_test", <<"process", "syscall", "test">>, "priority") \in Forms
       /\ Form("process_test", <<"process", "process", "test">>, "priority") \in Forms
    BY DEF Forms
<1>13. ASSUME NEW program \in Programs, QueueProgram(program)
       PROVE  MeaningInv'
    <2>1. Is(2, program) /\ Continue(Call(program, <<>>, <<>>, Priority(3)))
        BY <1>13 DEF QueueProgram
    <2>2. Has(l, 2, program)
        BY <1>7, <2>1
    <2>3. Form(program, <<"process", program>>, "priority") \in Forms
        BY DEF Forms
    <2>4. Right(l, Call(program, <<>>, <<>>, PriorityOf(l, 3)))
        BY <1>2, <1>4, <2>2, <2>3, TwoWordsRight
    <2>. QED  BY <1>9, <2>1, <2>4, ContinueMeans
<1>14. CASE UnknownProgram
    <2>1. ~AsksForTest /\ (\A program \in Programs : ~Is(2, program)) /\ Continue(NoCall)
        BY <1>14 DEF UnknownProgram
    <2>2. \A y \in {"start"} \cup Programs : ~Has(l, 2, y)
        BY <1>7, <1>10, <2>1
    <2>3. ~Has(l, 3, "test") \/ \A y \in ProcessWords : ~Has(l, 2, y)
        BY <1>7, <1>8, <2>1, <2>2 DEF AsksForTest, ProcessWords
    <2>4. Right(l, NoCall)
        BY <1>2, <1>4, <2>2, <2>3, NoCommandRight
    <2>. QED  BY <2>1, <2>4, ContinueMeans
<1>. QED  BY <1>11, <1>12, <1>13, <1>14

(* The data and the permissions, behind the fourth.                        *)
LEMMA FileMeans ==
    ASSUME CommandInv, MeaningInv, loop = "command", Len(tokens) = 4,
           \/ OfData("write", "write_file") \/ OfData("append", "append_to_file")
           \/ Chmod \/ FileUsage
    PROVE  MeaningInv'
<1>. DEFINE l == line
            n == Cardinality(Starts(line))
<1>1. IsLine(l) /\ Says(3) /\ n \in Nat /\ Asked(l, 4)
    <2>1. 3 \in 1 .. 3 /\ Len(tokens) >= 3
        OBVIOUS
    <2>2. IsLine(l) /\ Says(3) /\ Asked(l, Len(tokens))
        BY <2>1, TokensSay
    <2>. QED  BY <2>2, WordsAre
<1>2. 1 \in 1 .. 3 /\ 2 \in 1 .. 3 /\ 3 \in 1 .. 3 /\ 3 \in Nat
    OBVIOUS
<1>3. Has(l, 1, "file")
    <2>1. Is(1, "file")
        BY DEF OfData, Chmod, FileUsage
    <2>. QED  BY <1>1, <1>2, <2>1, SaysEach, KeywordsAre
<1>4. \A x \in OnData \cup {"chmod"} : Is(2, x) <=> Has(l, 2, x)
    BY <1>1, <1>2, SaysEach, KeywordsAre DEF OnData
<1>5. (Missing(3) <=> ~(3 <= n)) /\ (~Missing(3) => Token(3) = WordsOf(l)[3])
    BY <1>1, <1>2, SaysEach
<1>6. ASSUME AsksForData(l)
      PROVE  IF 3 <= n /\ RestOf(l, 3) # <<>>
             THEN ~Missing(4) /\ Token(4) = RestOf(l, 3)
             ELSE Missing(4)
    BY <1>6, TokensSay DEF DataTold, Missing, Token
<1>7. ASSUME ~AsksForData(l)
      PROVE  /\ Missing(4) <=> ~(4 <= n)
             /\ ~Missing(4) => atoi(input, tokens[4]) = Number(WordsOf(l)[4])
    <2>1. Says(4) /\ 4 \in Nat /\ 4 \in 1 .. 4
        BY <1>7, TokensSay
    <2>. QED  BY <2>1, SaysEach
<1>8. Has(l, 2, "chmod") => ~AsksForData(l)
    <2>1. \A x : Has(l, 2, "chmod") /\ Has(l, 2, x) => x = "chmod"
        BY HasOne
    <2>. QED  BY <2>1 DEF AsksForData, OnData
<1>9. ASSUME NEW x \in OnData, NEW to, OfData(x, to), Form(to, <<"file", x>>, "data") \in Forms
      PROVE  MeaningInv'
    <2>1. /\ Is(2, x) /\ ~Missing(3) /\ ~Missing(4)
          /\ Continue(Call(to, Token(3), Token(4), 0))
        BY <1>9 DEF OfData
    <2>2. Has(l, 2, x) /\ 3 <= n /\ Token(3) = WordsOf(l)[3]
        BY <1>4, <1>5, <2>1
    <2>3. AsksForData(l)
        BY <1>3, <2>2 DEF AsksForData
    <2>4. RestOf(l, 3) # <<>> /\ Token(4) = RestOf(l, 3)
        BY <1>6, <2>1, <2>3
    <2>5. Right(l, Call(to, WordsOf(l)[3], RestOf(l, 3), 0))
        BY <1>1, <1>3, <1>9, <2>2, <2>4, TwoWordsRight
    <2>. QED  BY <2>1, <2>2, <2>4, <2>5, ContinueMeans
<1>10. /\ Form("write_file", <<"file", "write">>, "data") \in Forms
       /\ Form("append_to_file", <<"file", "append">>, "data") \in Forms
       /\ Form("chmod_file", <<"file", "chmod">>, "permissions") \in Forms
       /\ "write" \in OnData /\ "append" \in OnData
    BY DEF Forms, OnData
<1>11. CASE Chmod
    <2>1. /\ Is(2, "chmod") /\ ~Missing(3) /\ ~Missing(4)
          /\ Continue(Call("chmod_file", Token(3), <<>>,
                           atoi(input, tokens[4]) % UINT16_MOD))
        BY <1>11 DEF Chmod
    <2>2. Has(l, 2, "chmod") /\ Token(3) = WordsOf(l)[3]
        BY <1>4, <1>5, <2>1
    <2>3. 4 <= n /\ atoi(input, tokens[4]) = Number(WordsOf(l)[4])
        BY <1>7, <1>8, <2>1, <2>2
    <2>4. Right(l, Call("chmod_file", WordsOf(l)[3], <<>>, Number(WordsOf(l)[4]) % UINT16_MOD))
        BY <1>1, <1>3, <1>10, <2>2, <2>3, TwoWordsRight
    <2>. QED  BY <2>1, <2>2, <2>3, <2>4, ContinueMeans
<1>12. CASE FileUsage
    <2>1. (Missing(3) \/ Missing(4)) /\ Continue(NoCall)
        BY <1>12 DEF FileUsage
    <2>2. Has(l, 2, "chmod") \/ AsksForData(l)
        <3>1. ~Has(l, 1, "process")
            <4>1. Has(l, 1, "process") => "process" = "file"
                BY <1>3, HasOne
            <4>. QED  BY <4>1
        <3>. QED  BY <1>1, <3>1 DEF Asked
    <2>3. CASE Has(l, 2, "chmod")
        <3>1. ~(4 <= n)
            BY <1>1, <1>5, <1>7, <1>8, <2>1, <2>3
        <3>2. Right(l, NoCall)
            BY <1>1, <1>3, <2>3, <3>1, NoCommandRight
        <3>. QED  BY <2>1, <3>2, ContinueMeans
    <2>4. CASE AsksForData(l)
        <3>1. ~(3 <= n /\ RestOf(l, 3) # <<>>)
            BY <1>5, <1>6, <2>1, <2>4
        <3>2. \E y \in OnData : Has(l, 2, y)
            BY <2>4 DEF AsksForData
        <3>3. Right(l, NoCall)
            BY <1>1, <1>3, <3>1, <3>2, NoCommandRight
        <3>. QED  BY <2>1, <3>3, ContinueMeans
    <2>. QED  BY <2>2, <2>3, <2>4
<1>. QED  BY <1>9, <1>10, <1>11, <1>12

(* cli_loop starts so.                                                     *)
LEMMA InitMeaning == Init => MeaningInv
<1>1. SUFFICES ASSUME Init PROVE MeaningInv
    OBVIOUS
<1>2. loop = "prompt" /\ lines_read = 0
    BY <1>1 DEF Init
<1>. QED  BY <1>2 DEF MeaningInv

(* Every step keeps that.                                                  *)
LEMMA NextMeaning == CommandInv /\ MeaningInv /\ [Next]_vars => MeaningInv'
<1>1. SUFFICES ASSUME CommandInv, MeaningInv, [Next]_vars PROVE MeaningInv'
    OBVIOUS
<1>2. CASE UNCHANGED vars
    BY <1>1, <1>2 DEF MeaningInv, vars
<1>3. CASE /\ loop = "prompt" /\ lines_read < Len(Lines)
           /\ \E typed \in Lines[lines_read + 1] : ReadLine(typed)
    <2>1. PICK typed \in Lines[lines_read + 1] : ReadLine(typed)
        BY <1>3
    <2>2. lines_read \in Nat
        BY <1>1 DEF CommandInv
    <2>3. typed \in Seq(STRING \ {NUL, "\n"})
        BY <1>3, <2>1, <2>2, TypedLine
    <2>. QED  BY <1>1, <1>3, <2>1, <2>3, ReadLineMeans
<1>4. CASE loop = "command" /\ (Token1 \/ Token2 \/ Token3 \/ Token4 \/ Data)
    BY <1>1, <1>4, StrtokMeans
<1>5. CASE loop = "command" /\ (Nothing \/ Exit \/ List \/ Unknown \/ Usage \/ Start
                                   \/ UnknownOperation)
    <2>1. /\ Nothing \/ Exit \/ Unknown => Len(tokens) = 1
          /\ Usage \/ Start \/ UnknownOperation => Len(tokens) = 2
          /\ List => Len(tokens) = 1 \/ Len(tokens) = 2
        BY DEF Nothing, Exit, List, Unknown, Usage, Start, UnknownOperation
    <2>. QED  BY <1>1, <1>5, <2>1, FirstMeans, SecondMeans
<1>6. CASE /\ loop = "command"
           /\ \/ QueueTest("syscall", "syscall_test") \/ QueueTest("process", "process_test")
              \/ (\E program \in Programs : QueueProgram(program)) \/ UnknownProgram
    BY <1>1, <1>6, ProcessMeans
<1>7. CASE /\ loop = "command"
           /\ \/ Make \/ OfName("read", "read_file") \/ OfName("rm", "delete_file")
              \/ OfData("write", "write_file") \/ OfData("append", "append_to_file")
              \/ Chmod \/ FileUsage
    <2>1. /\ Make \/ OfName("read", "read_file") \/ OfName("rm", "delete_file")
                 => Len(tokens) = 3
          /\ OfData("write", "write_file") \/ OfData("append", "append_to_file") \/ Chmod
                 => Len(tokens) = 4
          /\ FileUsage => Len(tokens) = 3 \/ Len(tokens) = 4
        BY DEF Make, OfName, OfData, Chmod, FileUsage
    <2>. QED  BY <1>1, <1>7, <2>1, ThirdMeans, FileMeans
<1>8. CASE Stop
    BY <1>2, <1>8 DEF Stop
<1>9. CASE loop = "command" /\ Command
    BY <1>4, <1>5, <1>6, <1>7, <1>9 DEF Command
<1>. QED  BY <1>1, <1>2, <1>3, <1>8, <1>9 DEF Next

-----------------------------------------------------------------------------
(* What it is for.                                                         *)

(* The state of cli_loop, strtok and the names behind every step.          *)
THEOREM CommandCorrect == Spec => []CommandInv
<1>. QED  BY InitCommand, NextCommand, PTL DEF Spec

(* strtok never leaves the line that was read, however long the array and  *)
(* whatever it holds behind the line, and the tokens do not touch.         *)
THEOREM StrtokStaysInLine == Spec => []StrtokInLine
<1>1. CommandInv => StrtokInLine
    <2>1. SUFFICES ASSUME CommandInv, tokens # <<>>
          PROVE  /\ static_str \in 0 .. Len(line)
                 /\ \A j, k \in DOMAIN tokens :
                       j < k /\ ~Missing(k) => tokens[j] + strlen(input, tokens[j]) < tokens[k]
        BY DEF StrtokInLine
    <2>2. TokensCut(input, Len(line), static_str, tokens)
          /\ input \in MemoryTo(MAX_INPUT_LENGTH - 1) /\ MAX_INPUT_LENGTH - 1 \in Nat
        BY <2>1, CommandLineAssumption DEF CommandInv
    <2>3. ASSUME NEW j \in DOMAIN tokens, NEW k \in DOMAIN tokens, j < k, ~Missing(k)
          PROVE  tokens[j] + strlen(input, tokens[j]) < tokens[k]
        <3>1. /\ tokens[k] \in Nat /\ tokens[j] \in Nat
              /\ \E i \in 0 .. tokens[k] - 1 : StopsAt(input, tokens[j], {NUL}, i)
            BY <2>2, <2>3 DEF TokensCut, Missing
        <3>2. PICK i \in 0 .. tokens[k] - 1 : StopsAt(input, tokens[j], {NUL}, i)
            BY <3>1
        <3>3. Scan(input, tokens[j], {NUL}) = i
            BY <2>2, <3>1, <3>2, ScanIs
        <3>. QED  BY <3>1, <3>2, <3>3 DEF strlen
    <2>. QED  BY <2>2, <2>3 DEF TokensCut
<1>. QED  BY <1>1, CommandCorrect, PTL

(* Whatever lines are typed, create_file never writes into the inode       *)
(* number behind a name, and a name asked for matches an entry just when   *)
(* the file was made with that name.                                       *)
THEOREM NamesStayApart == Spec => []NamesKeptApart
<1>1. CommandInv => NamesKeptApart
    <2>1. SUFFICES ASSUME CommandInv, NEW n \in names
          PROVE  /\ \A i \in MAX_FILENAME_LEN .. MAX_FILENAME_LEN + 1 :
                       n.filename[i] = EmptyField[i]
                 /\ call.name # <<>> =>
                       (strncmp(n.filename, 0, Literal(call.name), 0, MAX_FILENAME_LEN)
                            <=> call.name = n.text)
        BY DEF NamesKeptApart
    <2>2. IsName(n.text) /\ n.filename = FieldOf(n.text)
          /\ (call.name # <<>> => IsName(call.name))
        BY <2>1 DEF CommandInv
    <2>. QED  BY <2>2, FieldEnds, StrncmpTells
<1>. QED  BY <1>1, CommandCorrect, PTL

(* Whatever is typed, cli_loop makes the call the words of the line ask    *)
(* for, with the name, the data and the number that were typed, and none   *)
(* when they are no command.                                               *)
THEOREM LinesAreUnderstood == Spec => []CallMeansLine
<1>1. CommandInv /\ MeaningInv => CallMeansLine
    <2>1. SUFFICES ASSUME MeaningInv PROVE CallMeansLine
        OBVIOUS
    <2>2. lines_read > 0 /\ loop # "command" => Right(line, call)
        BY <2>1 DEF MeaningInv
    <2>. QED  BY <2>2, RightIs
<1>. QED  BY <1>1, InitCommand, NextCommand, InitMeaning, NextMeaning, PTL DEF Spec
=============================================================================

------------------------------ MODULE Strings ------------------------------
(***************************************************************************)
(* The functions of keyboard/string.c and atoi of kernel.c on memory: a     *)
(* function from addresses 0, 1, ... to characters, in which a pointer is   *)
(* an address.  A loop over characters is the address it stops at.          *)
(***************************************************************************)
EXTENDS Least, Sequences

NUL == "\\0"
Digits == <<"0", "1", "2", "3", "4", "5", "6", "7", "8", "9">>

NoToken == -1          (* the null pointer strtok returns                  *)

(* The constant string of a sequence of characters.                        *)
Literal(text) == [i \in 0 .. Len(text) |-> IF i < Len(text) THEN text[i + 1] ELSE NUL]

(* Where a walk from p on stops at a character of a set.                   *)
Scan(mem, p, stops) ==
    LET S == {i \in DOMAIN mem : i >= p /\ mem[i] \in stops}
    IN  CHOOSE i \in S : IsLeast(i, S)

strlen(mem, p) == Scan(mem, p, {NUL}) - p

(* The characters a reader of the string at p sees.                        *)
Text(mem, p) == [i \in 1 .. strlen(mem, p) |-> mem[p + i - 1]]

Shorter(i, j) == IF i < j THEN i ELSE j

(* strcmp(a + p, b + q) == 0: the strings agree where the walk stops, at    *)
(* the latest at the end of the shorter one.                               *)
strcmp(a, p, b, q) ==
    LET walk == 0 .. Shorter(strlen(a, p), strlen(b, q))
        stop == CHOOSE k \in walk :
                    IsLeast(k, {j \in walk : a[p + j] = NUL \/ a[p + j] # b[q + j]})
    IN  a[p + stop] = b[q + stop]

(* What a walk that forgets the longer of two strings takes for equal.     *)
AgreeUpToTheShorter(c, d) == c = d \/ NUL \in {c, d}

(* The characters strncmp stops at decide.                                 *)
Agree(c, d) == c = d

(* strncmp(a + p, b + q, n) == 0.                                          *)
strncmp(a, p, b, q, n) ==
    LET walk == 0 .. Shorter(n, Shorter(strlen(a, p), strlen(b, q)))
        stop == CHOOSE k \in walk :
                    IsLeast(k, {j \in walk : \/ j = n
                                             \/ NUL \in {a[p + j], b[q + j]}
                                             \/ a[p + j] # b[q + j]})
    IN  stop = n \/ Agree(a[p + stop], b[q + stop])

(* strncpy(dest, src + p, n), with dest at address 0 of its memory.  When   *)
(* the first loop ends for want of room, n has wrapped below 0 and the      *)
(* second loop clears memory until it faults.                              *)
strncpy(dest, src, p, n) ==
    [i \in DOMAIN dest |->
        CASE i < n /\ i < strlen(src, p)  -> src[p + i]
          [] i >= n /\ n > strlen(src, p) -> dest[i]
          [] OTHER                        -> NUL]

-----------------------------------------------------------------------------
(* strtok with static_str (or str) at p: the memory after it, static_str,   *)
(* and the token it returns.                                               *)

(* As if the character a token ends at were never the terminator.          *)
AlwaysBehind(mem, end) == end + 1

(* static_str steps over a delimiter and stays on the terminator.          *)
Behind(mem, end) == IF mem[end] = NUL THEN end ELSE end + 1

strtok(mem, p, delim) ==
    LET chars == {mem[i] : i \in DOMAIN mem}
        start == Scan(mem, p, chars \ delim)
        end   == Scan(mem, start, delim \cup {NUL})
    IN  IF mem[start] = NUL
        THEN [mem |-> mem, static_str |-> start, token |-> NoToken]
        ELSE [mem |-> [mem EXCEPT ![end] = NUL],
              static_str |-> Behind(mem, end), token |-> start]

-----------------------------------------------------------------------------
IsDigit(c) == c \in {Digits[i] : i \in 1 .. 10}
DigitValue(c) == (CHOOSE i \in 1 .. 10 : Digits[i] = c) - 1

(* atoi(mem + p).  The numbers of short lines do not overflow.             *)
atoi(mem, p) ==
    LET first == IF mem[p] = "-" THEN p + 1 ELSE p
        last  == Scan(mem, first, {mem[i] : i \in DOMAIN mem}
                                      \ {Digits[i] : i \in 1 .. 10}) - 1
        num[i \in first - 1 .. last] ==
            IF i < first THEN 0 ELSE num[i - 1] * 10 + DigitValue(mem[i])
    IN  IF first = p THEN num[last] ELSE -num[last]
=============================================================================

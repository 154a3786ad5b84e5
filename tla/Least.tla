-------------------------------- MODULE Least --------------------------------
(* What a loop from the smallest index up that stops at the first hit finds. *)
EXTENDS Integers

(* x is the least element of the set S of numbers.                         *)
IsLeast(x, S) == x \in S /\ \A y \in S : x <= y
=============================================================================

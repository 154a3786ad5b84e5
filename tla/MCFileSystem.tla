---------------------------- MODULE MCFileSystem ----------------------------
(* Files of at most two or three blocks of two bytes.                       *)
EXTENDS FileSystem, TLC

NameSymmetry == Permutations(Names)

(* For the shape of the disk only lengths matter.                          *)
MCZeroes == {[j \in 1 .. n |-> 0] : n \in {1, 2, 5}}
MCRead == {3}
MCPermissions == {{}, Modes}

(* For the contents, two bytes and a write that shrinks a file.            *)
MCData == {<<1>>, <<1, 0, 1>>}
=============================================================================

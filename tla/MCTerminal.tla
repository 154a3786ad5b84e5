----------------------------- MODULE MCTerminal -----------------------------
(* Lines of up to three characters, of which read_line takes two, so that a *)
(* shorter line meets the rest of a longer one and long lines are cut; a    *)
(* screen of two rows and two columns.  Shift gives the one key its second  *)
(* character.                                                              *)
EXTENDS Terminal
=============================================================================

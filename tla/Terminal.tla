------------------------------ MODULE Terminal ------------------------------
(***************************************************************************)
(* The keyboard driver of keyboard/keyboard.c, and read_line and the screen *)
(* output of kernel.c, which its interrupts break into.  The gates of       *)
(* irq_install are interrupt gates, so keyboard_handler is one action.      *)
(* Everything else runs with interrupts on: an action of the main thread is *)
(* one access to memory it shares with the handler, as in the build, which  *)
(* does not optimise.  pc is where the main thread is:                     *)
(*   busy        in a command, between two calls of putchar;               *)
(*   row_store ... scroll_col   in putchar and scroll_screen;              *)
(*   test        in read_line, before it looks at input_ready;             *)
(*   hlt         behind a look that found 0, before the hlt;               *)
(*   halted      in the hlt;                                               *)
(*   loop, copy, end, clear     in read_line, past the hlt loop.           *)
(***************************************************************************)
EXTENDS Least, Sequences, FiniteSets

CONSTANTS
    BUFFER_SIZE,          (* input_buffer and input_line: 256               *)
    MAX_INPUT_LENGTH,     (* the buffer cli_loop gives read_line: 128       *)
    VGA_WIDTH,            (* 80                                             *)
    VGA_HEIGHT,           (* 25                                             *)
    LetterKeys,           (* the keys caps lock applies to                  *)
    OtherKeys,            (* the other keys with a character                *)
    MAX_LINES             (* bound: lines a single read_line may meet       *)

ASSUME TerminalAssumption ==
    /\ BUFFER_SIZE \in Nat \ {0}
    /\ MAX_INPUT_LENGTH \in 1 .. BUFFER_SIZE
    /\ VGA_WIDTH \in Nat \ {0}
    /\ VGA_HEIGHT \in Nat \ {0}
    /\ MAX_LINES \in Nat \ {0}

Position == 0 .. BUFFER_SIZE - 1
NUL   == <<>>
Chars == (LetterKeys \cup OtherKeys) \X BOOLEAN    (* key, shifted          *)

VARIABLES
    input_buffer, buffer_index,      (* the line being typed                *)
    input_line, input_ready,         (* the line for read_line              *)
    shift_pressed, caps_lock_on,
    vga_row, vga_col,                (* the cursor                          *)
    pc,
    reg,                 (* what putchar has loaded and still needs, else 0 *)
    buffer,              (* what read_line has stored in its buffer so far  *)
    typed,               (* history: the line being typed, as edited        *)
    line,                (* history: the last line completed                *)
    candidates           (* history: the lines read_line may have met       *)

lineVars   == <<input_buffer, buffer_index, input_line, input_ready>>
shiftVars  == <<shift_pressed, caps_lock_on>>
cursorVars == <<vga_row, vga_col>>
mainVars   == <<pc, reg, buffer>>
historyVars == <<typed, line, candidates>>
vars == <<input_buffer, buffer_index, input_line, input_ready, shift_pressed,
          caps_lock_on, vga_row, vga_col, pc, reg, buffer, typed, line, candidates>>

Printing == {"row_store", "col_zero", "offset", "write", "col_store",
             "wrap_test", "wrap", "check", "scroll", "scroll_col"}
Copying == {"loop", "copy", "end", "clear"}
Reading == {"test", "hlt", "halted"} \cup Copying

(* Interrupts are enabled after boot has printed more lines than the       *)
(* screen has, each with its newline.                                      *)
Init ==
    /\ input_buffer = [p \in Position |-> NUL] /\ buffer_index = 0
    /\ input_line = [p \in Position |-> NUL] /\ input_ready = 0
    /\ shift_pressed = FALSE /\ caps_lock_on = FALSE
    /\ vga_row = VGA_HEIGHT - 1 /\ vga_col = 0
    /\ pc = "busy" /\ reg = 0 /\ buffer = <<>>
    /\ typed = <<>> /\ line = <<>> /\ candidates = {}

-----------------------------------------------------------------------------
(* The main thread in putchar, step by step.                               *)

Jump(from, to) == pc = from /\ pc' = to

PastRightEdgeLate(col) == col > VGA_WIDTH

PastRightEdge(col) == col >= VGA_WIDTH

PastBottomLate(row) == row > VGA_HEIGHT

PastBottom(row) == row >= VGA_HEIGHT

(* vga_row++ is a load and a store.                                        *)
LoadRow ==
    /\ Jump("busy", "row_store") \/ Jump("wrap", "row_store")
    /\ reg' = vga_row
    /\ UNCHANGED cursorVars

StoreRow ==
    /\ Jump("row_store", "col_zero")
    /\ vga_row' = reg + 1
    /\ reg' = 0
    /\ UNCHANGED vga_col

ZeroColumn ==
    /\ Jump("col_zero", "check")
    /\ vga_col' = 0
    /\ UNCHANGED <<reg, vga_row>>

(* offset, from two loads, then the store of the character.                *)
LoadOffsetRow ==
    /\ Jump("busy", "offset")
    /\ reg' = vga_row * VGA_WIDTH
    /\ UNCHANGED cursorVars

LoadOffsetColumn ==
    /\ Jump("offset", "write")
    /\ reg' = reg + vga_col
    /\ UNCHANGED cursorVars

(* The store to video memory, and the load of vga_col++.                   *)
Write ==
    /\ Jump("write", "col_store")
    /\ reg' = vga_col
    /\ UNCHANGED cursorVars

StoreColumn ==
    /\ Jump("col_store", "wrap_test")
    /\ vga_col' = reg + 1
    /\ reg' = 0
    /\ UNCHANGED vga_row

TestWrap ==
    /\ Jump("wrap_test", IF PastRightEdge(vga_col) THEN "wrap" ELSE "check")
    /\ UNCHANGED <<reg, vga_row, vga_col>>

TestBottom ==
    /\ Jump("check", IF PastBottom(vga_row) THEN "scroll" ELSE "busy")
    /\ UNCHANGED <<reg, vga_row, vga_col>>

(* scroll_screen: the cursor, once the rows have been moved.               *)
ScrollRow ==
    /\ Jump("scroll", "scroll_col")
    /\ vga_row' = VGA_HEIGHT - 1
    /\ UNCHANGED <<reg, vga_col>>

ScrollColumn ==
    /\ Jump("scroll_col", "busy")
    /\ vga_col' = 0
    /\ UNCHANGED <<reg, vga_row>>

Putchar ==
    /\ \/ LoadRow \/ StoreRow \/ ZeroColumn
       \/ LoadOffsetRow \/ LoadOffsetColumn \/ Write
       \/ StoreColumn \/ TestWrap
       \/ TestBottom \/ ScrollRow \/ ScrollColumn
    /\ UNCHANGED <<lineVars, shiftVars, buffer, historyVars>>

-----------------------------------------------------------------------------
(* The main thread in read_line.                                           *)

CallReadLine ==
    /\ Jump("busy", "test")
    /\ UNCHANGED <<lineVars, reg, buffer, historyVars>>

TestReady ==
    /\ Jump("test", IF input_ready = 1 THEN "loop" ELSE "hlt")
    /\ candidates' = IF input_ready = 1 THEN {line} ELSE {}
    /\ UNCHANGED <<lineVars, reg, buffer, typed, line>>

Halt ==
    /\ Jump("hlt", "halted")
    /\ UNCHANGED <<lineVars, reg, buffer, historyVars>>

(* The condition of the copy loop and its body each read input_line.       *)
TestChar ==
    /\ Jump("loop",
            IF input_line[Len(buffer)] # NUL /\ Len(buffer) < MAX_INPUT_LENGTH - 1
            THEN "copy" ELSE "end")
    /\ UNCHANGED <<lineVars, reg, buffer, historyVars>>

CopyChar ==
    /\ Jump("copy", "loop")
    /\ buffer' = Append(buffer, input_line[Len(buffer)])
    /\ UNCHANGED <<lineVars, reg, historyVars>>

Terminate ==
    /\ Jump("end", "clear")
    /\ buffer' = Append(buffer, NUL)
    /\ UNCHANGED <<lineVars, reg, historyVars>>

ClearNothing ==
    /\ Jump("clear", "busy")
    /\ buffer' = <<>>
    /\ candidates' = {}
    /\ UNCHANGED <<lineVars, reg, typed, line>>

(* The last statement of read_line; the line is the caller's from here on. *)
ClearReady ==
    /\ Jump("clear", "busy")
    /\ input_ready' = 0
    /\ buffer' = <<>>
    /\ candidates' = {}
    /\ UNCHANGED <<input_buffer, buffer_index, input_line, reg, typed, line>>

(* The steps of read_line the CPU takes by itself.                         *)
ReadLine ==
    /\ TestReady \/ Halt \/ TestChar \/ CopyChar \/ Terminate \/ ClearReady
    /\ UNCHANGED <<shiftVars, cursorVars>>

-----------------------------------------------------------------------------
(* Interrupts.  print_to_screen is called with interrupts off here, so     *)
(* what it does to the cursor is a function.                               *)

Scrolled(c) ==
    IF PastBottom(c.row) THEN [row |-> VGA_HEIGHT - 1, col |-> 0] ELSE c

AfterNewline(c) == Scrolled([row |-> c.row + 1, col |-> 0])

(* Also for a backspace, which putchar writes like any other character.    *)
AfterGlyph(c) ==
    Scrolled(IF PastRightEdge(c.col + 1) THEN [row |-> c.row + 1, col |-> 0]
                                         ELSE [row |-> c.row, col |-> c.col + 1])

cursor == [row |-> vga_row, col |-> vga_col]

SetCursor(c) == vga_row' = c.row /\ vga_col' = c.col

(* Any interrupt ends a hlt.                                               *)
Woken(at) == IF at = "halted" THEN "test" ELSE at

(* What every interrupt does and leaves alone.                             *)
Interrupt == pc' = Woken(pc) /\ UNCHANGED <<reg, buffer>>

(* IRQ 0: there is no handler, common_irq_handler only acknowledges it.    *)
(* So it is with scan codes of no character, a released key among them.    *)
Tick ==
    /\ Interrupt
    /\ UNCHANGED <<lineVars, shiftVars, cursorVars, historyVars>>

Shift(down) ==
    /\ shift_pressed' = down
    /\ Interrupt
    /\ UNCHANGED <<lineVars, caps_lock_on, cursorVars, historyVars>>

CapsLock ==
    /\ caps_lock_on' = ~caps_lock_on
    /\ Interrupt
    /\ UNCHANGED <<lineVars, shift_pressed, cursorVars, historyVars>>

(* The character of a key: the shift table has capital letters already, so *)
(* caps lock only changes what the other table gives.                      *)
CharOf(key) == <<key, shift_pressed \/ (caps_lock_on /\ key \in LetterKeys)>>

HasRoomToTheEnd == buffer_index < BUFFER_SIZE

HasRoom == buffer_index < BUFFER_SIZE - 1

Key(key) ==
    /\ IF HasRoom
       THEN /\ input_buffer' = [input_buffer EXCEPT ![buffer_index] = CharOf(key)]
            /\ buffer_index' = buffer_index + 1
            /\ typed' = Append(typed, CharOf(key))
            /\ SetCursor(AfterGlyph(cursor))
       ELSE UNCHANGED <<input_buffer, buffer_index, typed, cursorVars>>
    /\ Interrupt
    /\ UNCHANGED <<input_line, input_ready, shiftVars, line, candidates>>

(* The echo of a backspace is three characters.                            *)
Backspace ==
    /\ IF buffer_index > 0
       THEN /\ buffer_index' = buffer_index - 1
            /\ typed' = SubSeq(typed, 1, Len(typed) - 1)
            /\ SetCursor(AfterGlyph(AfterGlyph(AfterGlyph(cursor))))
       ELSE UNCHANGED <<buffer_index, typed, cursorVars>>
    /\ Interrupt
    /\ UNCHANGED <<input_buffer, input_line, input_ready, shiftVars, line, candidates>>

(* input_line after the loop that copies the terminated input_buffer b.    *)
CopiedUnterminated(b) ==
    LET n == CHOOSE p \in Position : IsLeast(p, {k \in Position : b[k] = NUL})
    IN  [p \in Position |-> IF p < n THEN b[p] ELSE input_line[p]]

Copied(b) ==
    LET n == CHOOSE p \in Position : IsLeast(p, {k \in Position : b[k] = NUL})
    IN  [p \in Position |-> IF p < n THEN b[p] ELSE
                            IF p = n THEN NUL ELSE input_line[p]]

Enter ==
    LET terminated == [input_buffer EXCEPT ![buffer_index] = NUL]
    IN  /\ pc \in Copying => Cardinality(candidates) < MAX_LINES
        /\ input_buffer' = terminated
        /\ input_line' = Copied(terminated)
        /\ input_ready' = 1
        /\ SetCursor(AfterNewline(cursor))
        /\ buffer_index' = 0
        /\ typed' = <<>>
        /\ line' = typed
        /\ candidates' = IF pc \in Copying THEN candidates \cup {typed} ELSE candidates
        /\ Interrupt
        /\ UNCHANGED shiftVars

-----------------------------------------------------------------------------

Next ==
    \/ Putchar
    \/ CallReadLine /\ UNCHANGED <<shiftVars, cursorVars>>
    \/ ReadLine
    \/ Tick
    \/ \E down \in BOOLEAN : Shift(down)
    \/ CapsLock
    \/ \E key \in LetterKeys \cup OtherKeys : Key(key)
    \/ Backspace
    \/ Enter

Spec == Init /\ [][Next]_vars

(* The CPU runs and the timer ticks.                                       *)
FairSpec == Spec /\ WF_vars(ReadLine) /\ WF_vars(Tick)

-----------------------------------------------------------------------------
(* Properties.                                                             *)

(* Indices stay inside their arrays and the other variables in their       *)
(* ranges; read_line leaves room for the terminator.                       *)
TypeOK ==
    /\ input_buffer \in [Position -> Chars \cup {NUL}]
    /\ buffer_index \in Position
    /\ input_line \in [Position -> Chars \cup {NUL}]
    /\ input_ready \in {0, 1}
    /\ shift_pressed \in BOOLEAN /\ caps_lock_on \in BOOLEAN
    /\ vga_row \in Nat /\ vga_col \in Nat /\ reg \in Nat
    /\ pc \in {"busy"} \cup Printing \cup Reading
    /\ buffer \in Seq(Chars \cup {NUL}) /\ Len(buffer) <= MAX_INPUT_LENGTH

(* What the caller of read_line sees: the characters before the first NUL. *)
Result ==
    LET n == CHOOSE k \in 1 .. Len(buffer) :
                 IsLeast(k, {j \in 1 .. Len(buffer) : buffer[j] = NUL})
    IN  SubSeq(buffer, 1, n - 1)

Truncated(l) ==
    IF Len(l) < MAX_INPUT_LENGTH THEN l ELSE SubSeq(l, 1, MAX_INPUT_LENGTH - 1)

(* A line read while no other is entered comes through as it was typed and *)
(* edited, cut to the caller's buffer, whatever longer lines input_line    *)
(* and input_buffer held before.                                           *)
QuietLineIntact ==
    pc = "clear" =>
        \A l \in candidates : candidates = {l} => Result = Truncated(l)

(* Lines entered while read_line copies can mix with the one it reads, but *)
(* nothing older shows: the k-th character is the k-th of one of them.     *)
(* The handler may terminate a line under the index of the loop, which     *)
(* then runs on over what earlier lines left there.                        *)
NothingOlderShows ==
    pc = "clear" =>
        \A k \in 1 .. Len(Result) :
            \E l \in candidates : k <= Len(l) /\ Result[k] = l[k]

(* Between two characters of the main thread the cursor is on the screen,  *)
(* wherever in putchar and scroll_screen the echo of a key came.           *)
CursorOnScreen ==
    pc \notin Printing => vga_row < VGA_HEIGHT /\ vga_col < VGA_WIDTH

(* The main thread writes only on the screen, and an echo that finds the   *)
(* cursor moved but not yet wrapped or scrolled at most a row behind it.   *)
WritesNearScreen ==
    /\ pc = "write" => reg < VGA_HEIGHT * VGA_WIDTH
    /\ vga_row * VGA_WIDTH + vga_col <= VGA_HEIGHT * VGA_WIDTH + VGA_WIDTH

(* A line that is ready is taken once read_line waits: also if it arrives  *)
(* between the look at input_ready and the hlt.                            *)
ReadyLineTaken == (input_ready = 1 /\ pc \in Reading) ~> (input_ready = 0)
=============================================================================

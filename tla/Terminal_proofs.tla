--------------------------- MODULE Terminal_proofs ---------------------------
(***************************************************************************)
(* Proofs that keyboard interrupts in the middle of putchar and of          *)
(* scroll_screen never take the cursor off the screen for longer than that  *)
(* call, for every size of screen, and that interrupts in the middle of     *)
(* read_line mix into a line only what was entered meanwhile, for every     *)
(* size of buffers.                                                        *)
(***************************************************************************)
EXTENDS Terminal, Least_proofs, SequenceTheorems, TLAPS

(* Where the main thread may have left the cursor off the screen.          *)
RowOff == {"col_zero", "check", "scroll"}
ColumnOff == {"row_store", "col_zero", "wrap_test", "wrap"}

(* The inductive invariant: at each place in putchar, how far out the      *)
(* cursor is and what has been loaded.                                     *)
CursorByPlace ==
    /\ vga_row \in 0 .. VGA_HEIGHT /\ vga_col \in 0 .. VGA_WIDTH
    /\ pc \notin RowOff => vga_row < VGA_HEIGHT
    /\ pc \notin ColumnOff => vga_col < VGA_WIDTH
    /\ reg \in Nat
    /\ pc = "row_store" => reg < VGA_HEIGHT
    /\ pc = "offset" => reg <= (VGA_HEIGHT - 1) * VGA_WIDTH
    /\ pc = "write" => reg < VGA_HEIGHT * VGA_WIDTH
    /\ pc = "col_store" => reg < VGA_WIDTH

-----------------------------------------------------------------------------

(* Screen sizes and rows, with the products the provers have to be told.   *)
LEMMA ScreenFacts ==
    /\ VGA_WIDTH \in Nat /\ VGA_WIDTH > 0
    /\ VGA_HEIGHT \in Nat /\ VGA_HEIGHT > 0
    /\ VGA_HEIGHT * VGA_WIDTH \in Nat
    /\ (VGA_HEIGHT - 1) * VGA_WIDTH \in Nat
    /\ (VGA_HEIGHT - 1) * VGA_WIDTH + VGA_WIDTH = VGA_HEIGHT * VGA_WIDTH
    /\ \A r \in Nat : r < VGA_HEIGHT =>
          r * VGA_WIDTH \in Nat /\ r * VGA_WIDTH <= (VGA_HEIGHT - 1) * VGA_WIDTH
    /\ \A r \in 0 .. VGA_HEIGHT :
          r * VGA_WIDTH \in Nat /\ r * VGA_WIDTH <= VGA_HEIGHT * VGA_WIDTH
<1>1. VGA_WIDTH \in Nat /\ VGA_WIDTH > 0 /\ VGA_HEIGHT \in Nat /\ VGA_HEIGHT > 0
    BY TerminalAssumption
<1>2. \A r, s, w \in Nat : r <= s =>
          r * w \in Nat /\ s * w \in Nat /\ r * w <= s * w
    OBVIOUS
<1>3. VGA_HEIGHT - 1 \in Nat
    BY <1>1
<1>4. (VGA_HEIGHT - 1) * VGA_WIDTH + VGA_WIDTH = VGA_HEIGHT * VGA_WIDTH
    BY <1>1
<1>5. \A r \in Nat : r < VGA_HEIGHT => r <= VGA_HEIGHT - 1
    BY <1>1
<1>6. \A r \in 0 .. VGA_HEIGHT : r \in Nat /\ r <= VGA_HEIGHT
    BY <1>1
<1>7. VGA_HEIGHT * VGA_WIDTH \in Nat /\ (VGA_HEIGHT - 1) * VGA_WIDTH \in Nat
    BY <1>1, <1>2, <1>3
<1>. QED  BY <1>1, <1>2, <1>3, <1>4, <1>5, <1>6, <1>7

(* A character printed with interrupts off leaves the cursor on the screen *)
(* even if it starts one row or one column off it.                         *)
LEMMA EchoFacts ==
    ASSUME NEW row \in 0 .. VGA_HEIGHT, NEW col \in 0 .. VGA_WIDTH
    PROVE  LET c == [row |-> row, col |-> col]
           IN  /\ AfterGlyph(c).row \in 0 .. VGA_HEIGHT - 1
               /\ AfterGlyph(c).col \in 0 .. VGA_WIDTH - 1
               /\ AfterGlyph(c) = [row |-> AfterGlyph(c).row, col |-> AfterGlyph(c).col]
               /\ AfterNewline(c).row \in 0 .. VGA_HEIGHT - 1
               /\ AfterNewline(c).col \in 0 .. VGA_WIDTH - 1
BY ScreenFacts DEF AfterGlyph, AfterNewline, Scrolled, PastBottom, PastRightEdge

(* So an interrupt leaves it as it was or on the screen.                   *)
LEMMA InterruptKeepsCursor ==
    ASSUME CursorByPlace, Interrupt,
           \/ UNCHANGED cursorVars
           \/ vga_row' \in 0 .. VGA_HEIGHT - 1 /\ vga_col' \in 0 .. VGA_WIDTH - 1
    PROVE  CursorByPlace'
<1>1. /\ vga_row' \in 0 .. VGA_HEIGHT /\ vga_col' \in 0 .. VGA_WIDTH
      /\ vga_row' < VGA_HEIGHT \/ (vga_row' = vga_row)
      /\ vga_col' < VGA_WIDTH \/ (vga_col' = vga_col)
    BY ScreenFacts DEF CursorByPlace, cursorVars
<1>2. reg' = reg /\ pc' = Woken(pc)
    BY DEF Interrupt
<1>3. CASE pc = "halted"
    BY <1>1, <1>2, <1>3 DEF CursorByPlace, Woken, RowOff, ColumnOff
<1>4. CASE pc # "halted"
    BY <1>1, <1>2, <1>4 DEF CursorByPlace, Woken
<1>. QED  BY <1>3, <1>4

(* The cursor starts in the top left corner.                               *)
LEMMA InitCursor == Init => CursorByPlace
BY ScreenFacts DEF Init, CursorByPlace, RowOff, ColumnOff

(* Each step of putchar goes from one place of the invariant to the next.  *)
LEMMA PutcharKeepsCursor ==
    ASSUME CursorByPlace, Putchar
    PROVE  CursorByPlace'
<1>. USE DEF CursorByPlace, Jump, RowOff, ColumnOff, cursorVars
<1>1. CASE LoadRow
    BY <1>1, ScreenFacts DEF LoadRow
<1>2. CASE StoreRow
    BY <1>2, ScreenFacts DEF StoreRow
<1>3. CASE ZeroColumn
    BY <1>3, ScreenFacts DEF ZeroColumn
<1>4. CASE LoadOffsetRow
    <2>1. /\ pc' = "offset" /\ vga_row' = vga_row /\ vga_col' = vga_col
          /\ reg' = vga_row * VGA_WIDTH
          /\ vga_row \in Nat /\ vga_row < VGA_HEIGHT /\ vga_col < VGA_WIDTH
        BY <1>4 DEF LoadOffsetRow
    <2>2. reg' \in Nat /\ reg' <= (VGA_HEIGHT - 1) * VGA_WIDTH
        BY <2>1, ScreenFacts
    <2>. QED  BY <2>1, <2>2
<1>5. CASE LoadOffsetColumn
    BY <1>5, ScreenFacts DEF LoadOffsetColumn
<1>6. CASE Write
    BY <1>6, ScreenFacts DEF Write
<1>7. CASE StoreColumn
    BY <1>7, ScreenFacts DEF StoreColumn
<1>8. CASE TestWrap
    BY <1>8, ScreenFacts DEF TestWrap, PastRightEdge
<1>9. CASE TestBottom
    BY <1>9, ScreenFacts DEF TestBottom, PastBottom
<1>10. CASE ScrollRow
    BY <1>10, ScreenFacts DEF ScrollRow
<1>11. CASE ScrollColumn
    BY <1>11, ScreenFacts DEF ScrollColumn
<1>. QED  BY <1>1, <1>2, <1>3, <1>4, <1>5, <1>6, <1>7, <1>8, <1>9, <1>10, <1>11
             DEF Putchar

(* Keys that echo start from any place of the invariant.                   *)
LEMMA EchoKeepsCursor ==
    ASSUME CursorByPlace, Backspace \/ Enter \/ \E key \in LetterKeys \cup OtherKeys : Key(key)
    PROVE  CursorByPlace'
<1>1. vga_row \in 0 .. VGA_HEIGHT /\ vga_col \in 0 .. VGA_WIDTH
    BY DEF CursorByPlace
<1>2. Interrupt
    BY DEF Backspace, Enter, Key
<1>. DEFINE g1 == AfterGlyph(cursor)
            g2 == AfterGlyph(g1)
            g3 == AfterGlyph(g2)
            OnScreen(c) == c.row \in 0 .. VGA_HEIGHT - 1 /\ c.col \in 0 .. VGA_WIDTH - 1
<1>3. /\ OnScreen(g1) /\ g1 = [row |-> g1.row, col |-> g1.col]
      /\ OnScreen(AfterNewline(cursor))
    BY <1>1, EchoFacts DEF cursor
<1>. HIDE DEF g1
<1>4. OnScreen(g2) /\ g2 = [row |-> g2.row, col |-> g2.col]
    <2>1. g1.row \in 0 .. VGA_HEIGHT /\ g1.col \in 0 .. VGA_WIDTH
        BY <1>3, ScreenFacts
    <2>. QED  BY <1>3, <2>1, EchoFacts
<1>. HIDE DEF g2
<1>5. OnScreen(g3)
    <2>1. g2.row \in 0 .. VGA_HEIGHT /\ g2.col \in 0 .. VGA_WIDTH
        BY <1>4, ScreenFacts
    <2>. QED  BY <1>4, <2>1, EchoFacts
<1>. HIDE DEF g3
<1>6. \/ UNCHANGED cursorVars
      \/ SetCursor(g1) \/ SetCursor(g3) \/ SetCursor(AfterNewline(cursor))
    BY DEF Backspace, Enter, Key, g1, g2, g3
<1>7. \/ UNCHANGED cursorVars
      \/ vga_row' \in 0 .. VGA_HEIGHT - 1 /\ vga_col' \in 0 .. VGA_WIDTH - 1
    BY <1>3, <1>5, <1>6 DEF SetCursor
<1>. QED  BY <1>2, <1>7, InterruptKeepsCursor

(* Every access and every interrupt keeps the cursor where its place says. *)
LEMMA NextCursor == CursorByPlace /\ [Next]_vars => CursorByPlace'
<1>1. SUFFICES ASSUME CursorByPlace, [Next]_vars
               PROVE  CursorByPlace'
    OBVIOUS
<1>2. CASE Putchar
    BY <1>1, <1>2, PutcharKeepsCursor
<1>3. CASE (CallReadLine /\ UNCHANGED <<shiftVars, cursorVars>>) \/ ReadLine
    <2>1. /\ pc \in {"busy"} \cup Reading /\ pc' \in {"busy"} \cup Reading
          /\ UNCHANGED <<reg, vga_row, vga_col>>
        BY <1>3 DEF CallReadLine, ReadLine, TestReady, Halt, TestChar, CopyChar,
            Terminate, ClearReady, Jump, Reading, Copying, cursorVars
    <2>. QED  BY <1>1, <2>1 DEF CursorByPlace, Reading, Copying, RowOff, ColumnOff
<1>4. CASE Tick \/ CapsLock \/ \E down \in BOOLEAN : Shift(down)
    <2>1. Interrupt /\ UNCHANGED cursorVars
        BY <1>4 DEF Tick, CapsLock, Shift
    <2>. QED  BY <1>1, <2>1, InterruptKeepsCursor
<1>5. CASE Backspace \/ Enter \/ \E key \in LetterKeys \cup OtherKeys : Key(key)
    BY <1>1, <1>5, EchoKeepsCursor
<1>6. CASE UNCHANGED vars
    BY <1>1, <1>6 DEF vars, CursorByPlace
<1>. QED  BY <1>1, <1>2, <1>3, <1>4, <1>5, <1>6 DEF Next

(* At every place of putchar the cursor is where the invariant says.       *)
THEOREM AlwaysByPlace == Spec => []CursorByPlace
BY InitCursor, NextCursor, PTL DEF Spec

(* Outside putchar the cursor is on the screen.                            *)
THEOREM CursorStaysOnScreen == Spec => []CursorOnScreen
<1>1. CursorByPlace => CursorOnScreen
    BY DEF CursorByPlace, CursorOnScreen, Printing, RowOff, ColumnOff
<1>. QED  BY <1>1, AlwaysByPlace, PTL

(* No character is written further than a row behind the screen.           *)
THEOREM WritesStayNearScreen == Spec => []WritesNearScreen
<1>1. CursorByPlace => WritesNearScreen
    BY ScreenFacts DEF CursorByPlace, WritesNearScreen
<1>. QED  BY <1>1, AlwaysByPlace, PTL

-----------------------------------------------------------------------------
(* Array bounds.                                                           *)

Text == Seq(Chars \cup {NUL})

(* The types, with how much of its buffer read_line has filled at each of  *)
(* its places; TypeOK alone does not bound the next store.                 *)
BufferByPlace ==
    /\ input_buffer \in [Position -> Chars \cup {NUL}]
    /\ buffer_index \in Position
    /\ input_line \in [Position -> Chars \cup {NUL}]
    /\ input_ready \in {0, 1}
    /\ shift_pressed \in BOOLEAN /\ caps_lock_on \in BOOLEAN
    /\ pc \in {"busy"} \cup Printing \cup Reading
    /\ buffer \in Text
    /\ pc \notin Copying => buffer = <<>>
    /\ pc \in {"loop", "end"} => Len(buffer) <= MAX_INPUT_LENGTH - 1
    /\ pc = "copy" => Len(buffer) < MAX_INPUT_LENGTH - 1
    /\ pc = "clear" => Len(buffer) <= MAX_INPUT_LENGTH

(* Before the first key the buffers are empty.                             *)
LEMMA InitBuffer == Init => BufferByPlace
<1>1. SUFFICES ASSUME Init
               PROVE  BufferByPlace
    OBVIOUS
<1>2. shift_pressed \in BOOLEAN /\ caps_lock_on \in BOOLEAN
    BY <1>1 DEF Init
<1>3. 0 \in Position
    BY TerminalAssumption DEF Position
<1>4. /\ input_buffer \in [Position -> Chars \cup {NUL}]
      /\ input_line \in [Position -> Chars \cup {NUL}]
      /\ buffer_index \in Position /\ input_ready \in {0, 1}
    BY <1>1, <1>3 DEF Init
<1>5. buffer \in Text /\ buffer = <<>> /\ pc = "busy"
    BY <1>1 DEF Init, Text
<1>. QED  BY <1>2, <1>4, <1>5 DEF BufferByPlace, Copying, Reading

(* The copy loop stores at most max_length characters, from inside         *)
(* input_line.                                                             *)
LEMMA ReadLineKeepsBuffer ==
    ASSUME BufferByPlace, ReadLine
    PROVE  BufferByPlace'
<1>. USE DEF BufferByPlace, Jump, Copying, Reading, Printing, shiftVars
<1>1. CASE TestReady
    BY <1>1, TerminalAssumption DEF ReadLine, TestReady, lineVars
<1>2. CASE Halt
    BY <1>2 DEF ReadLine, Halt, lineVars
<1>3. CASE TestChar
    BY <1>3, TerminalAssumption DEF ReadLine, TestChar, lineVars, Text
<1>4. CASE CopyChar
    <2>1. Len(buffer) \in Nat /\ Len(buffer) < MAX_INPUT_LENGTH - 1
        BY <1>4 DEF CopyChar, Text
    <2>2. Len(buffer) \in Position
        BY <2>1, TerminalAssumption DEF Position
    <2>3. /\ buffer' \in Text
          /\ Len(buffer') = Len(buffer) + 1
        BY <1>4, <2>2 DEF CopyChar, Text
    <2>. QED  BY <1>4, <2>1, <2>3, TerminalAssumption DEF ReadLine, CopyChar, lineVars
<1>5. CASE Terminate
    <2>1. Len(buffer) \in Nat /\ Len(buffer) <= MAX_INPUT_LENGTH - 1
        BY <1>5 DEF Terminate, Text
    <2>2. /\ buffer' \in Text
          /\ Len(buffer') = Len(buffer) + 1
        BY <1>5 DEF Terminate, Text
    <2>. QED  BY <1>5, <2>1, <2>2, TerminalAssumption DEF ReadLine, Terminate, lineVars
<1>6. CASE ClearReady
    BY <1>6 DEF ReadLine, ClearReady, Text
<1>. QED  BY <1>1, <1>2, <1>3, <1>4, <1>5, <1>6 DEF ReadLine

(* Interrupts leave read_line where it is, or wake it.                     *)
LEMMA InterruptKeepsPlace ==
    ASSUME BufferByPlace, Interrupt
    PROVE  /\ pc' \in {"busy"} \cup Printing \cup Reading
           /\ buffer' \in Text
           /\ pc' \notin Copying => buffer' = <<>>
           /\ pc' \in {"loop", "end"} => Len(buffer') <= MAX_INPUT_LENGTH - 1
           /\ pc' = "copy" => Len(buffer') < MAX_INPUT_LENGTH - 1
           /\ pc' = "clear" => Len(buffer') <= MAX_INPUT_LENGTH
BY DEF BufferByPlace, Interrupt, Woken, Reading, Copying

(* keyboard_handler keeps its indices in its buffers.                      *)
LEMMA KeysKeepBuffer ==
    ASSUME BufferByPlace,
           \/ Tick \/ CapsLock \/ (\E down \in BOOLEAN : Shift(down))
           \/ Backspace \/ Enter
           \/ \E key \in LetterKeys \cup OtherKeys : Key(key)
    PROVE  BufferByPlace'
<1>1. Interrupt
    BY DEF Tick, CapsLock, Shift, Backspace, Enter, Key
<1>2. shift_pressed' \in BOOLEAN /\ caps_lock_on' \in BOOLEAN
    <2>. USE DEF BufferByPlace, shiftVars
    <2>1. CASE Tick \/ Backspace \/ Enter \/ \E key \in LetterKeys \cup OtherKeys : Key(key)
        BY <2>1 DEF Tick, Backspace, Enter, Key
    <2>2. CASE CapsLock
        BY <2>2 DEF CapsLock
    <2>3. CASE \E down \in BOOLEAN : Shift(down)
        BY <2>3 DEF Shift
    <2>. QED  BY <2>1, <2>2, <2>3
<1>3. /\ input_buffer' \in [Position -> Chars \cup {NUL}]
      /\ buffer_index' \in Position
      /\ input_line' \in [Position -> Chars \cup {NUL}]
      /\ input_ready' \in {0, 1}
    <2>. USE DEF BufferByPlace
    <2>1. CASE Tick \/ CapsLock \/ \E down \in BOOLEAN : Shift(down)
        BY <2>1 DEF Tick, CapsLock, Shift, lineVars
    <2>2. CASE Backspace
        BY <2>2, TerminalAssumption DEF Backspace, Position
    <2>3. CASE Enter
        BY <2>3, TerminalAssumption DEF Enter, Copied, Position
    <2>4. ASSUME NEW key \in LetterKeys \cup OtherKeys, Key(key)
          PROVE  /\ input_buffer' \in [Position -> Chars \cup {NUL}]
                 /\ buffer_index' \in Position
                 /\ input_line' = input_line /\ input_ready' = input_ready
        <3>1. CharOf(key) \in Chars
            <4>1. shift_pressed \in BOOLEAN /\ caps_lock_on \in BOOLEAN
                OBVIOUS
            <4>2. (shift_pressed \/ (caps_lock_on /\ key \in LetterKeys)) \in BOOLEAN
                OBVIOUS
            <4>. QED  BY <4>2 DEF CharOf, Chars
        <3>. HIDE DEF BufferByPlace
        <3>. DEFINE c == CharOf(key)
        <3>2. /\ input_buffer \in [Position -> Chars \cup {NUL}]
              /\ buffer_index \in Position
            BY DEF BufferByPlace
        <3>3. CASE HasRoom
            <4>1. /\ input_buffer' = [input_buffer EXCEPT ![buffer_index] = c]
                  /\ buffer_index' = buffer_index + 1
                  /\ input_line' = input_line /\ input_ready' = input_ready
                BY <2>4, <3>3 DEF Key
            <4>. HIDE DEF c
            <4>. QED  BY <3>1, <3>2, <3>3, <4>1, TerminalAssumption
                     DEF HasRoom, Position, c
        <3>4. CASE ~HasRoom
            BY <2>4, <3>2, <3>4 DEF Key
        <3>. QED  BY <3>3, <3>4
    <2>. QED  BY <2>1, <2>2, <2>3, <2>4
<1>. QED  BY <1>1, <1>2, <1>3, InterruptKeepsPlace DEF BufferByPlace

(* Every access and every interrupt keeps the indices where their place    *)
(* says.                                                                   *)
LEMMA NextBuffer == BufferByPlace /\ [Next]_vars => BufferByPlace'
<1>1. SUFFICES ASSUME BufferByPlace, [Next]_vars
               PROVE  BufferByPlace'
    OBVIOUS
<1>2. CASE Putchar
    <2>1. /\ pc \in {"busy"} \cup Printing /\ pc' \in {"busy"} \cup Printing
          /\ UNCHANGED <<lineVars, shiftVars, buffer>>
        BY <1>2 DEF Putchar, LoadRow, StoreRow, ZeroColumn, LoadOffsetRow,
            LoadOffsetColumn, Write, StoreColumn, TestWrap, TestBottom, ScrollRow,
            ScrollColumn, Jump, Printing
    <2>. QED  BY <1>1, <2>1 DEF BufferByPlace, lineVars, shiftVars, Printing, Copying
<1>3. CASE CallReadLine /\ UNCHANGED <<shiftVars, cursorVars>>
    BY <1>1, <1>3 DEF BufferByPlace, CallReadLine, Jump, lineVars, shiftVars,
        Copying, Reading
<1>4. CASE ReadLine
    BY <1>1, <1>4, ReadLineKeepsBuffer
<1>5. CASE \/ Tick \/ CapsLock \/ (\E down \in BOOLEAN : Shift(down))
           \/ Backspace \/ Enter
           \/ \E key \in LetterKeys \cup OtherKeys : Key(key)
    BY <1>1, <1>5, KeysKeepBuffer
<1>6. CASE UNCHANGED vars
    BY <1>1, <1>6 DEF vars, BufferByPlace
<1>. QED  BY <1>1, <1>2, <1>3, <1>4, <1>5, <1>6 DEF Next

(* No index of keyboard_handler or read_line leaves its array, and every   *)
(* variable keeps its type.                                                *)
THEOREM TypeCorrect == Spec => []TypeOK
<1>1. Spec => []BufferByPlace
    BY InitBuffer, NextBuffer, PTL DEF Spec
<1>2. BufferByPlace /\ CursorByPlace => TypeOK
    <2>1. SUFFICES ASSUME BufferByPlace, CursorByPlace
                   PROVE  TypeOK
        OBVIOUS
    <2>2. Len(buffer) <= MAX_INPUT_LENGTH
        BY <2>1, TerminalAssumption DEF BufferByPlace, Copying, Text
    <2>. QED  BY <2>1, <2>2, ScreenFacts DEF BufferByPlace, CursorByPlace, TypeOK, Text
<1>. QED  BY <1>1, <1>2, AlwaysByPlace, PTL

-----------------------------------------------------------------------------
(* The lines handed over.                                                  *)

(* A buffer holds a line and its terminator.                               *)
Holds(b, l) ==
    /\ l \in Seq(Chars) /\ Len(l) \in Position
    /\ \A p \in Position : p < Len(l) => b[p] = l[p + 1]
    /\ b[Len(l)] = NUL

(* input_buffer holds the line being typed, without its terminator.        *)
TypedHeld ==
    /\ typed \in Seq(Chars) /\ Len(typed) = buffer_index
    /\ \A p \in Position : p < Len(typed) => input_buffer[p] = typed[p + 1]

(* Character c is the one at position p of a line of C.                    *)
Met(C, p, c) == \E l \in C : p < Len(l) /\ c = l[p + 1]

(* No NUL among the first k characters of b, or from a to z in src.        *)
Plain(b, k) == \A j \in 1 .. k : b[j] # NUL
Through(src, a, z) == \A q \in a .. z : src[q] # NUL

(* What read_line has copied, up to a NUL, comes from the lines it met ... *)
BehindMet(b, C) ==
    \A p \in 0 .. Len(b) - 1 : Plain(b, p + 1) => Met(C, p, b[p + 1])

(* ... and so does what lies ahead of it in input_line, up to a NUL.       *)
AheadMet(src, m, C) ==
    \A p \in Position : m <= p /\ Through(src, m, p) => Met(C, p, src[p])

(* The part of a line that fits the caller's buffer, and a buffer that     *)
(* begins with n characters of a line.                                     *)
Fits(l) == IF Len(l) < MAX_INPUT_LENGTH - 1 THEN Len(l) ELSE MAX_INPUT_LENGTH - 1
Begins(b, n, l) == n <= Len(l) /\ \A k \in 1 .. n : b[k] = l[k]

(* The parts of the inductive invariant.  The line completed last is in    *)
(* input_line and among the lines read_line has met.                       *)
LineHeld == Holds(input_line, line)
LinesMet ==
    pc \in Copying => line \in candidates /\ candidates \subseteq Seq(Chars)

(* Until read_line copies a NUL it copies from lines it met.               *)
CopiesMet ==
    /\ pc \in Copying => BehindMet(buffer, candidates)
    /\ pc \in {"loop", "copy"} /\ Plain(buffer, Len(buffer)) =>
          AheadMet(input_line, Len(buffer), candidates)
    /\ pc = "clear" => Len(buffer) > 0 /\ buffer[Len(buffer)] = NUL

(* A line met alone is copied from its beginning to where it ends or is    *)
(* cut.                                                                    *)
CopiesAlone(l) ==
    /\ pc \in {"loop", "copy", "end"} => Begins(buffer, Len(buffer), l)
    /\ pc = "copy" => Len(buffer) < Len(l)
    /\ pc = "end" => Len(buffer) = Fits(l)
    /\ pc = "clear" => Len(buffer) = Fits(l) + 1 /\ Begins(buffer, Fits(l), l)

(* The line read_line meets alone, if it does.                             *)
AloneCopied == \A l \in candidates : candidates = {l} => CopiesAlone(l)

LineInv == TypedHeld /\ LineHeld /\ LinesMet /\ CopiesMet /\ AloneCopied

(* No character is the terminator.                                         *)
LEMMA CharNotNul ==
    ASSUME NEW c \in Chars
    PROVE  c # NUL
<1>1. PICK k, b : c = <<k, b>>
    BY DEF Chars
<1>2. Len(c) = 2 /\ Len(NUL) = 0
    BY <1>1 DEF NUL
<1>. QED  BY <1>2

(* One more character.                                                     *)
LEMMA AppendFacts ==
    ASSUME NEW b \in Text, NEW c \in Chars \cup {NUL}
    PROVE  /\ Append(b, c) \in Text
           /\ Len(b) \in Nat /\ Len(Append(b, c)) = Len(b) + 1
           /\ \A j \in 1 .. Len(b) : Append(b, c)[j] = b[j]
           /\ Append(b, c)[Len(b) + 1] = c
BY DEF Text

(* What the handler leaves in input_line when enter is pressed: the line   *)
(* typed, its terminator, and behind it what was there.                    *)
LEMMA EnterCopies ==
    ASSUME BufferByPlace, TypedHeld, NEW p \in Position
    PROVE  Copied([input_buffer EXCEPT ![buffer_index] = NUL])[p] =
               IF p < Len(typed) THEN typed[p + 1]
               ELSE IF p = Len(typed) THEN NUL ELSE input_line[p]
<1>. DEFINE T == [input_buffer EXCEPT ![buffer_index] = NUL]
            nuls == {k \in Position : T[k] = NUL}
<1>1. /\ input_buffer \in [Position -> Chars \cup {NUL}]
      /\ buffer_index \in Position /\ Len(typed) = buffer_index
      /\ typed \in Seq(Chars)
    BY DEF BufferByPlace, TypedHeld
<1>2. \A k \in Position : T[k] = IF k = buffer_index THEN NUL ELSE input_buffer[k]
    BY <1>1
<1>. HIDE DEF T
<1>3. \A k \in Position : k < buffer_index => T[k] = typed[k + 1] /\ T[k] # NUL
    <2>. SUFFICES ASSUME NEW k \in Position, k < buffer_index
                  PROVE  T[k] = typed[k + 1] /\ T[k] # NUL
        OBVIOUS
    <2>1. k + 1 \in 1 .. Len(typed) /\ k # buffer_index
        BY <1>1, TerminalAssumption DEF Position
    <2>2. T[k] = typed[k + 1]
        BY <1>1, <1>2, <2>1 DEF TypedHeld
    <2>3. typed[k + 1] \in Chars
        BY <1>1, <2>1
    <2>. QED  BY <2>2, <2>3, CharNotNul
<1>4. IsLeast(buffer_index, nuls)
    BY <1>1, <1>2, <1>3, TerminalAssumption DEF IsLeast, Position
<1>5. \A k \in Position : IsLeast(k, nuls) => k = buffer_index
    BY <1>1, <1>4, TerminalAssumption DEF IsLeast, Position
<1>6. (CHOOSE k \in Position : IsLeast(k, nuls)) = buffer_index
    <2>. HIDE DEF nuls
    <2>. QED  BY <1>1, <1>4, <1>5
<1>7. Copied(T)[p] = IF p < buffer_index THEN T[p]
                     ELSE IF p = buffer_index THEN NUL ELSE input_line[p]
    BY <1>6 DEF Copied
<1>. QED  BY <1>1, <1>3, <1>7 DEF T

(* A line entered under the copy loop leaves ahead of it only characters   *)
(* of that line and of the lines met before.                               *)
LEMMA AheadAfterEnter ==
    ASSUME NEW src, NEW dst, NEW m \in Nat, NEW C, NEW l, Len(l) \in Position,
           \A p \in Position : dst[p] = IF p < Len(l) THEN l[p + 1]
                                        ELSE IF p = Len(l) THEN NUL ELSE src[p],
           AheadMet(src, m, C)
    PROVE  AheadMet(dst, m, C \cup {l})
<1>. SUFFICES ASSUME NEW p \in Position, m <= p, Through(dst, m, p)
              PROVE  Met(C \cup {l}, p, dst[p])
    BY DEF AheadMet
<1>1. p \in Nat /\ Len(l) \in Nat
    BY TerminalAssumption DEF Position
<1>2. CASE p < Len(l)
    BY <1>2 DEF Met
<1>3. CASE ~(p < Len(l))
    <2>1. ~(m <= Len(l))
        <3>. SUFFICES ASSUME m <= Len(l)
                      PROVE  FALSE
            OBVIOUS
        <3>1. Len(l) \in m .. p
            BY <1>1, <1>3
        <3>2. dst[Len(l)] = NUL
            BY <1>1
        <3>. QED  BY <3>1, <3>2 DEF Through
    <2>2. ASSUME NEW q \in m .. p
          PROVE  src[q] # NUL /\ dst[q] = src[q]
        <3>1. q \in Position /\ ~(q < Len(l)) /\ q # Len(l)
            BY <1>1, <2>1, TerminalAssumption DEF Position
        <3>. QED  BY <3>1 DEF Through
    <2>3. Through(src, m, p)
        BY <2>2 DEF Through
    <2>4. Met(C, p, src[p]) /\ dst[p] = src[p]
        BY <1>1, <2>2, <2>3 DEF AheadMet
    <2>. QED  BY <2>4 DEF Met
<1>. QED  BY <1>2, <1>3

(* More lines met leave what was copied from them.                         *)
LEMMA MetGrows ==
    ASSUME NEW b, NEW C, NEW D, C \subseteq D, BehindMet(b, C)
    PROVE  BehindMet(b, D)
BY DEF BehindMet, Met

(* At the start nothing was typed.                                         *)
LEMMA InitLine == Init => LineInv
<1>. SUFFICES ASSUME Init
              PROVE  LineInv
    OBVIOUS
<1>1. 0 \in Position
    BY TerminalAssumption DEF Position
<1>2. <<>> \in Seq(Chars) /\ Len(<<>>) = 0
    OBVIOUS
<1>3. \A p \in Position : ~(p < 0)
    BY DEF Position
<1>4. TypedHeld
    BY <1>2, <1>3 DEF Init, TypedHeld
<1>5. LineHeld
    BY <1>1, <1>2, <1>3 DEF Init, LineHeld, Holds
<1>. QED  BY <1>4, <1>5 DEF Init, LineInv, LinesMet, CopiesMet, AloneCopied, Copying

(* A step that leaves the lines and read_line's buffer, and does not       *)
(* bring the main thread into the copy loop.                               *)
Idle ==
    /\ UNCHANGED <<input_buffer, buffer_index, input_line, buffer, historyVars>>
    /\ pc' = pc \/ pc' \notin Copying

(* Such a step keeps the invariant.                                        *)
LEMMA IdleKeepsLine ==
    ASSUME LineInv, Idle
    PROVE  LineInv'
<1>. USE DEF LineInv, Idle, historyVars
<1>1. TypedHeld' /\ LineHeld'
    BY DEF TypedHeld, LineHeld, Holds
<1>2. CASE pc' = pc
    BY <1>1, <1>2 DEF LinesMet, CopiesMet, AloneCopied, CopiesAlone
<1>3. CASE pc' \notin Copying
    BY <1>1, <1>3 DEF LinesMet, CopiesMet, AloneCopied, CopiesAlone, Copying
<1>. QED  BY <1>2, <1>3

(* A look at input_ready that finds a line meets that line, and no other.  *)
LEMMA TestReadyKeepsLine ==
    ASSUME BufferByPlace, LineInv, TestReady
    PROVE  LineInv'
<1>. USE DEF LineInv
<1>1. /\ pc = "test" /\ pc' = IF input_ready = 1 THEN "loop" ELSE "hlt"
      /\ candidates' = IF input_ready = 1 THEN {line} ELSE {}
      /\ UNCHANGED <<input_buffer, buffer_index, input_line, buffer, typed, line>>
    BY DEF TestReady, Jump, lineVars
<1>2. buffer = <<>> /\ Len(buffer) = 0
    BY <1>1 DEF BufferByPlace, Copying
<1>3. TypedHeld' /\ LineHeld'
    BY <1>1 DEF TypedHeld, LineHeld, Holds
<1>4. CASE input_ready = 1
    <2>1. pc' = "loop" /\ candidates' = {line}
        BY <1>1, <1>4
    <2>2. LinesMet'
        BY <1>1, <2>1 DEF LinesMet, LineHeld, Holds
    <2>3. AheadMet(input_line, 0, {line})
        <3>. SUFFICES ASSUME NEW p \in Position, Through(input_line, 0, p)
                      PROVE  Met({line}, p, input_line[p])
            BY DEF AheadMet
        <3>1. p \in Nat /\ Len(line) \in Nat
            BY DEF Position, LineHeld, Holds
        <3>2. CASE p < Len(line)
            BY <3>2 DEF Met, LineHeld, Holds
        <3>3. CASE ~(p < Len(line))
            <4>1. Len(line) \in 0 .. p
                BY <3>1, <3>3
            <4>. QED  BY <4>1 DEF Through, LineHeld, Holds
        <3>. QED  BY <3>2, <3>3
    <2>4. BehindMet(<<>>, {line})
        BY <1>2 DEF BehindMet
    <2>5. CopiesMet'
        BY <1>1, <1>2, <2>1, <2>3, <2>4 DEF CopiesMet
    <2>6. Begins(<<>>, 0, line)
        BY DEF Begins, LineHeld, Holds, Position
    <2>7. AloneCopied'
        BY <1>1, <1>2, <2>1, <2>6 DEF AloneCopied, CopiesAlone
    <2>. QED  BY <1>3, <2>2, <2>5, <2>7
<1>5. CASE input_ready # 1
    BY <1>1, <1>3, <1>5 DEF LinesMet, CopiesMet, AloneCopied, Copying
<1>. QED  BY <1>4, <1>5

(* The line met alone is the line completed last.                          *)
LEMMA AloneIsLine ==
    ASSUME LineInv, pc \in Copying, NEW l \in candidates, candidates = {l}
    PROVE  /\ l = line /\ l \in Seq(Chars) /\ Len(l) \in Nat /\ Len(l) \in Position
           /\ CopiesAlone(l)
           /\ \A p \in Position : p < Len(l) =>
                 input_line[p] = l[p + 1] /\ input_line[p] # NUL
           /\ input_line[Len(l)] = NUL
<1>1. l = line /\ Holds(input_line, l) /\ CopiesAlone(l)
    BY DEF LineInv, LinesMet, LineHeld, AloneCopied
<1>2. l \in Seq(Chars) /\ Len(l) \in Position /\ Len(l) \in Nat
    BY <1>1 DEF Holds
<1>3. ASSUME NEW p \in Position, p < Len(l)
      PROVE  input_line[p] = l[p + 1] /\ input_line[p] # NUL
    <2>1. p + 1 \in 1 .. Len(l)
        BY <1>2, <1>3 DEF Position
    <2>2. l[p + 1] \in Chars
        BY <1>2, <2>1
    <2>. QED  BY <1>1, <1>3, <2>2, CharNotNul DEF Holds
<1>. QED  BY <1>1, <1>2, <1>3 DEF Holds

(* The test of the copy loop.                                              *)
LEMMA TestCharKeepsLine ==
    ASSUME BufferByPlace, LineInv, TestChar
    PROVE  LineInv'
<1>. USE DEF LineInv
<1>1. /\ pc = "loop"
      /\ pc' = IF input_line[Len(buffer)] # NUL /\ Len(buffer) < MAX_INPUT_LENGTH - 1
               THEN "copy" ELSE "end"
      /\ UNCHANGED <<input_buffer, buffer_index, input_line, buffer, typed, line,
                     candidates>>
    BY DEF TestChar, Jump, lineVars, historyVars
<1>2. TypedHeld' /\ LineHeld'
    BY <1>1 DEF TypedHeld, LineHeld, Holds
<1>3. LinesMet' /\ CopiesMet'
    BY <1>1 DEF LinesMet, CopiesMet, Copying
<1>4. Len(buffer) \in Nat /\ Len(buffer) <= MAX_INPUT_LENGTH - 1
      /\ MAX_INPUT_LENGTH \in Nat /\ Len(buffer) \in Position
    BY <1>1, TerminalAssumption DEF BufferByPlace, Text, Position
<1>5. ASSUME NEW l \in candidates, candidates = {l}
      PROVE  CopiesAlone(l)'
    <2>1. /\ Len(l) \in Nat /\ CopiesAlone(l)
          /\ \A p \in Position : p < Len(l) => input_line[p] # NUL
          /\ input_line[Len(l)] = NUL
        BY <1>1, <1>5, AloneIsLine DEF Copying
    <2>2. Begins(buffer, Len(buffer), l) /\ Len(buffer) <= Len(l)
        BY <1>1, <2>1 DEF CopiesAlone, Begins
    <2>3. pc' = "copy" => Len(buffer) < Len(l)
        BY <1>1, <1>4, <2>1, <2>2
    <2>4. pc' = "end" => Len(buffer) = Fits(l)
        BY <1>1, <1>4, <2>1, <2>2 DEF Fits
    <2>5. pc' \in {"copy", "end"}
        BY <1>1
    <2>. QED  BY <1>1, <2>2, <2>3, <2>4, <2>5 DEF CopiesAlone
<1>6. AloneCopied'
    BY <1>1, <1>5 DEF AloneCopied
<1>. QED  BY <1>2, <1>3, <1>6

(* Its body: the character may have changed since the test.                *)
LEMMA CopyCharKeepsLine ==
    ASSUME BufferByPlace, LineInv, CopyChar
    PROVE  LineInv'
<1>. USE DEF LineInv
<1>1. /\ pc = "copy" /\ pc' = "loop"
      /\ buffer' = Append(buffer, input_line[Len(buffer)])
      /\ UNCHANGED <<input_buffer, buffer_index, input_line, typed, line, candidates>>
    BY DEF CopyChar, Jump, lineVars, historyVars
<1>2. TypedHeld' /\ LineHeld'
    BY <1>1 DEF TypedHeld, LineHeld, Holds
<1>3. LinesMet'
    BY <1>1 DEF LinesMet, Copying
<1>. DEFINE m == Len(buffer)
            c == input_line[m]
<1>4. m \in Nat /\ m \in Position /\ c \in Chars \cup {NUL} /\ buffer \in Text
    BY <1>1, TerminalAssumption DEF BufferByPlace, Text, Position
<1>5. PICK b : b = buffer'
    OBVIOUS
<1>6. /\ Len(b) = m + 1
      /\ \A j \in 1 .. m : b[j] = buffer[j]
      /\ b[m + 1] = c
    BY <1>1, <1>4, <1>5, AppendFacts
<1>. HIDE DEF m, c
<1>7. ASSUME NEW k \in 0 .. m, Plain(b, k)
      PROVE  Plain(buffer, k)
    BY <1>4, <1>6, <1>7 DEF Plain
<1>8. Plain(b, m + 1) => Plain(buffer, m) /\ c # NUL /\ AheadMet(input_line, m, candidates)
    <2>. SUFFICES ASSUME Plain(b, m + 1)
                  PROVE  Plain(buffer, m) /\ c # NUL
        BY <1>1 DEF CopiesMet, m
    <2>. QED  BY <1>4, <1>6 DEF Plain
<1>9. BehindMet(b, candidates)
    <2>. SUFFICES ASSUME NEW p \in 0 .. m, Plain(b, p + 1)
                  PROVE  Met(candidates, p, b[p + 1])
        <3>1. Len(b) - 1 = m
            BY <1>4, <1>6
        <3>. QED  BY <3>1 DEF BehindMet
    <2>1. CASE p < m
        <3>1. p + 1 \in 0 .. m /\ p \in 0 .. m - 1 /\ p + 1 \in 1 .. m
            BY <1>4, <2>1
        <3>2. Plain(buffer, p + 1)
            BY <1>7, <3>1
        <3>3. BehindMet(buffer, candidates)
            BY <1>1 DEF CopiesMet, Copying
        <3>. QED  BY <1>6, <3>1, <3>2, <3>3 DEF BehindMet, m
    <2>2. CASE p = m
        <3>1. c # NUL /\ AheadMet(input_line, m, candidates)
            BY <1>8, <2>2
        <3>2. Through(input_line, m, m)
            BY <1>4, <3>1 DEF Through, c
        <3>3. Met(candidates, m, c)
            BY <1>4, <3>1, <3>2 DEF AheadMet, c
        <3>. QED  BY <1>6, <2>2, <3>3
    <2>. QED  BY <1>4, <2>1, <2>2
<1>10. Plain(b, m + 1) => AheadMet(input_line, m + 1, candidates)
    <2>. SUFFICES ASSUME Plain(b, m + 1), NEW p \in Position, m + 1 <= p,
                         Through(input_line, m + 1, p)
                  PROVE  Met(candidates, p, input_line[p])
        BY DEF AheadMet
    <2>1. p \in Nat /\ m <= p
        BY <1>4 DEF Position
    <2>2. Through(input_line, m, p)
        BY <1>4, <1>8, <2>1 DEF Through, c
    <2>. QED  BY <1>8, <2>1, <2>2 DEF AheadMet
<1>11. CopiesMet'
    BY <1>1, <1>5, <1>6, <1>9, <1>10 DEF CopiesMet
<1>12. ASSUME NEW l \in candidates, candidates = {l}
       PROVE  Begins(b, m + 1, l)
    <2>1. /\ Len(l) \in Nat /\ CopiesAlone(l)
          /\ \A p \in Position : p < Len(l) => input_line[p] = l[p + 1]
        BY <1>1, <1>12, AloneIsLine DEF Copying
    <2>2. Begins(buffer, m, l) /\ m < Len(l)
        BY <1>1, <2>1 DEF CopiesAlone, m
    <2>3. c = l[m + 1] /\ m + 1 <= Len(l)
        BY <1>4, <2>1, <2>2 DEF c
    <2>4. \A k \in 1 .. m + 1 : k \in 1 .. m \/ k = m + 1
        BY <1>4
    <2>. QED  BY <1>6, <2>2, <2>3, <2>4 DEF Begins
<1>13. AloneCopied'
    BY <1>1, <1>5, <1>6, <1>12 DEF AloneCopied, CopiesAlone
<1>. QED  BY <1>2, <1>3, <1>11, <1>13

(* The terminator read_line adds.                                          *)
LEMMA TerminateKeepsLine ==
    ASSUME BufferByPlace, LineInv, Terminate
    PROVE  LineInv'
<1>. USE DEF LineInv
<1>1. /\ pc = "end" /\ pc' = "clear"
      /\ buffer' = Append(buffer, NUL)
      /\ UNCHANGED <<input_buffer, buffer_index, input_line, typed, line, candidates>>
    BY DEF Terminate, Jump, lineVars, historyVars
<1>2. TypedHeld' /\ LineHeld'
    BY <1>1 DEF TypedHeld, LineHeld, Holds
<1>3. LinesMet'
    BY <1>1 DEF LinesMet, Copying
<1>. DEFINE m == Len(buffer)
<1>4. m \in Nat /\ buffer \in Text
    BY DEF BufferByPlace, Text
<1>5. PICK b : b = buffer'
    OBVIOUS
<1>6. /\ Len(b) = m + 1
      /\ \A j \in 1 .. m : b[j] = buffer[j]
      /\ b[m + 1] = NUL
    BY <1>1, <1>4, <1>5, AppendFacts
<1>. HIDE DEF m
<1>7. BehindMet(b, candidates)
    <2>. SUFFICES ASSUME NEW p \in 0 .. m, Plain(b, p + 1)
                  PROVE  Met(candidates, p, b[p + 1])
        <3>1. Len(b) - 1 = m
            BY <1>4, <1>6
        <3>. QED  BY <3>1 DEF BehindMet
    <2>1. p # m
        BY <1>4, <1>6 DEF Plain
    <2>2. p + 1 \in 1 .. m /\ p \in 0 .. m - 1
        BY <1>4, <2>1
    <2>3. Plain(buffer, p + 1)
        BY <1>4, <1>6, <2>2 DEF Plain
    <2>4. BehindMet(buffer, candidates)
        BY <1>1 DEF CopiesMet, Copying
    <2>. QED  BY <1>6, <2>2, <2>3, <2>4 DEF BehindMet, m
<1>8. CopiesMet'
    BY <1>1, <1>4, <1>5, <1>6, <1>7 DEF CopiesMet
<1>9. ASSUME NEW l \in candidates, candidates = {l}
      PROVE  m = Fits(l) /\ Begins(b, m, l)
    <2>1. m = Fits(l) /\ Begins(buffer, m, l)
        BY <1>1, <1>9 DEF AloneCopied, CopiesAlone, m
    <2>. QED  BY <1>6, <2>1 DEF Begins
<1>10. AloneCopied'
    BY <1>1, <1>5, <1>6, <1>9 DEF AloneCopied, CopiesAlone
<1>. QED  BY <1>2, <1>3, <1>8, <1>10

(* The steps of read_line.                                                 *)
LEMMA ReadLineKeepsLine ==
    ASSUME BufferByPlace, LineInv, ReadLine
    PROVE  LineInv'
<1>1. CASE Halt
    <2>1. Idle
        BY <1>1 DEF Halt, Jump, Idle, Copying, lineVars
    <2>. QED  BY <2>1, IdleKeepsLine
<1>2. CASE ClearReady
    <2>1. /\ pc' = "busy" /\ candidates' = {}
          /\ UNCHANGED <<input_buffer, buffer_index, input_line, typed, line>>
        BY <1>2 DEF ClearReady, Jump
    <2>2. TypedHeld' /\ LineHeld'
        BY <2>1 DEF LineInv, TypedHeld, LineHeld, Holds
    <2>. QED  BY <2>1, <2>2 DEF LineInv, LinesMet, CopiesMet, AloneCopied, Copying
<1>. QED
    BY <1>1, <1>2, TestReadyKeepsLine, TestCharKeepsLine, CopyCharKeepsLine,
       TerminateKeepsLine DEF ReadLine

(* A key or a backspace changes the line being typed only.                 *)
LEMMA TypingKeepsLine ==
    ASSUME LineInv, TypedHeld', Interrupt,
           UNCHANGED <<input_line, line, candidates>>
    PROVE  LineInv'
<1>. USE DEF LineInv
<1>1. buffer' = buffer /\ pc' = Woken(pc)
    BY DEF Interrupt
<1>2. LineHeld'
    BY DEF LineHeld, Holds
<1>3. CASE pc = "halted"
    BY <1>1, <1>2, <1>3 DEF Woken, LinesMet, CopiesMet, AloneCopied, CopiesAlone, Copying
<1>4. CASE pc # "halted"
    BY <1>1, <1>2, <1>4 DEF Woken, LinesMet, CopiesMet, AloneCopied, CopiesAlone
<1>. QED  BY <1>3, <1>4

(* A key that there is room for ends the line being typed.                 *)
LEMMA KeyKeepsLine ==
    ASSUME BufferByPlace, LineInv, NEW key \in LetterKeys \cup OtherKeys, Key(key)
    PROVE  LineInv'
<1>. USE DEF LineInv
<1>1. Interrupt /\ UNCHANGED <<input_line, line, candidates>>
    BY DEF Key
<1>. DEFINE c == CharOf(key)
<1>2. c \in Chars
    <2>1. shift_pressed \in BOOLEAN /\ caps_lock_on \in BOOLEAN
        BY DEF BufferByPlace
    <2>2. (shift_pressed \/ (caps_lock_on /\ key \in LetterKeys)) \in BOOLEAN
        OBVIOUS
    <2>. QED  BY <2>2 DEF CharOf, Chars
<1>3. /\ input_buffer \in [Position -> Chars \cup {NUL}] /\ buffer_index \in Position
      /\ typed \in Seq(Chars) /\ Len(typed) = buffer_index
    BY DEF BufferByPlace, TypedHeld
<1>4. CASE HasRoom
    <2>1. /\ input_buffer' = [input_buffer EXCEPT ![buffer_index] = c]
          /\ buffer_index' = buffer_index + 1
          /\ typed' = Append(typed, c)
        BY <1>4 DEF Key
    <2>. HIDE DEF c
    <2>2. PICK t : t = typed'
        OBVIOUS
    <2>3. /\ t \in Seq(Chars) /\ Len(t) = buffer_index + 1
          /\ \A j \in 1 .. buffer_index : t[j] = typed[j]
          /\ t[buffer_index + 1] = c
        BY <1>2, <1>3, <2>1, <2>2
    <2>4. ASSUME NEW p \in Position, p < buffer_index + 1
          PROVE  input_buffer'[p] = t[p + 1]
        <3>1. CASE p = buffer_index
            BY <1>3, <2>1, <2>3, <3>1
        <3>2. CASE p # buffer_index
            <4>1. p < Len(typed) /\ p + 1 \in 1 .. buffer_index
                BY <1>3, <2>4, <3>2, TerminalAssumption DEF Position
            <4>2. input_buffer[p] = typed[p + 1]
                BY <4>1 DEF TypedHeld
            <4>. QED  BY <1>3, <2>1, <2>3, <3>2, <4>1, <4>2
        <3>. QED  BY <3>1, <3>2
    <2>5. TypedHeld'
        BY <2>1, <2>2, <2>3, <2>4 DEF TypedHeld
    <2>. QED  BY <1>1, <2>5, TypingKeepsLine
<1>5. CASE ~HasRoom
    <2>1. TypedHeld'
        BY <1>5 DEF Key, TypedHeld
    <2>. QED  BY <1>1, <2>1, TypingKeepsLine
<1>. QED  BY <1>4, <1>5

(* A backspace takes the last character of it.                             *)
LEMMA BackspaceKeepsLine ==
    ASSUME BufferByPlace, LineInv, Backspace
    PROVE  LineInv'
<1>. USE DEF LineInv
<1>1. Interrupt /\ UNCHANGED <<input_line, line, candidates, input_buffer>>
    BY DEF Backspace
<1>2. /\ buffer_index \in Position /\ buffer_index \in Nat
      /\ typed \in Seq(Chars) /\ Len(typed) = buffer_index
    BY DEF BufferByPlace, TypedHeld, Position
<1>3. CASE buffer_index > 0
    <2>1. buffer_index' = buffer_index - 1 /\ typed' = SubSeq(typed, 1, Len(typed) - 1)
        BY <1>3 DEF Backspace
    <2>2. PICK t : t = typed'
        OBVIOUS
    <2>3. /\ t \in Seq(Chars) /\ Len(t) = buffer_index - 1
          /\ \A j \in 1 .. buffer_index - 1 : t[j] = typed[j]
        BY <1>2, <1>3, <2>1, <2>2
    <2>4. ASSUME NEW p \in Position, p < buffer_index - 1
          PROVE  input_buffer'[p] = t[p + 1]
        <3>1. p < Len(typed) /\ p + 1 \in 1 .. buffer_index - 1
            BY <1>2, <2>4, TerminalAssumption DEF Position
        <3>. QED  BY <1>1, <2>3, <3>1 DEF TypedHeld
    <2>5. TypedHeld'
        BY <2>1, <2>2, <2>3, <2>4 DEF TypedHeld
    <2>. QED  BY <1>1, <2>5, TypingKeepsLine
<1>4. CASE ~(buffer_index > 0)
    <2>1. TypedHeld'
        BY <1>4 DEF Backspace, TypedHeld
    <2>. QED  BY <1>1, <2>1, TypingKeepsLine
<1>. QED  BY <1>3, <1>4

(* Enter hands the line over; a read_line in its loop has met it.          *)
LEMMA EnterKeepsLine ==
    ASSUME BufferByPlace, LineInv, Enter
    PROVE  LineInv'
<1>. USE DEF LineInv
<1>1. /\ input_line' = Copied([input_buffer EXCEPT ![buffer_index] = NUL])
      /\ buffer_index' = 0 /\ typed' = <<>> /\ line' = typed
      /\ candidates' = IF pc \in Copying THEN candidates \cup {typed} ELSE candidates
      /\ buffer' = buffer /\ pc' = Woken(pc)
    BY DEF Enter, Interrupt
<1>2. /\ buffer_index \in Position /\ typed \in Seq(Chars) /\ Len(typed) = buffer_index
      /\ Len(typed) \in Nat
    BY DEF BufferByPlace, TypedHeld
<1>3. PICK dst : dst = input_line'
    OBVIOUS
<1>4. \A p \in Position : dst[p] = IF p < Len(typed) THEN typed[p + 1]
                                  ELSE IF p = Len(typed) THEN NUL ELSE input_line[p]
    BY <1>1, <1>3, EnterCopies
<1>5. TypedHeld'
    BY <1>1 DEF TypedHeld, Position
<1>6. Holds(dst, typed)
    BY <1>2, <1>4 DEF Holds
<1>7. LineHeld'
    BY <1>1, <1>3, <1>6 DEF LineHeld
<1>8. CASE pc \notin Copying
    <2>1. pc' \notin Copying
        BY <1>1, <1>8 DEF Woken, Copying
    <2>. QED  BY <1>1, <1>5, <1>7, <2>1
              DEF LinesMet, CopiesMet, AloneCopied, CopiesAlone, Copying
<1>9. CASE pc \in Copying
    <2>1. pc' = pc /\ candidates' = candidates \cup {typed}
        BY <1>1, <1>9 DEF Woken, Copying
    <2>2. LinesMet'
        BY <1>1, <1>2, <1>9, <2>1 DEF LinesMet
    <2>3. BehindMet(buffer, candidates \cup {typed})
        BY <1>9, MetGrows DEF CopiesMet
    <2>4. pc \in {"loop", "copy"} /\ Plain(buffer, Len(buffer)) =>
              AheadMet(dst, Len(buffer), candidates \cup {typed})
        <3>. SUFFICES ASSUME pc \in {"loop", "copy"}, Plain(buffer, Len(buffer))
                      PROVE  AheadMet(dst, Len(buffer), candidates \cup {typed})
            OBVIOUS
        <3>1. AheadMet(input_line, Len(buffer), candidates)
            BY DEF CopiesMet
        <3>2. Len(buffer) \in Nat
            BY DEF BufferByPlace, Text
        <3>. QED  BY <1>2, <1>4, <3>1, <3>2, AheadAfterEnter
    <2>5. CopiesMet'
        BY <1>1, <1>3, <2>1, <2>3, <2>4 DEF CopiesMet
    <2>6. ASSUME NEW l, candidates \cup {typed} = {l}
          PROVE  CopiesAlone(l)'
        <3>1. l \in candidates /\ candidates = {l}
            BY <1>9, <2>6 DEF LinesMet
        <3>2. CopiesAlone(l)
            BY <3>1 DEF AloneCopied
        <3>. QED  BY <1>1, <2>1, <3>2 DEF CopiesAlone
    <2>7. AloneCopied'
        BY <2>1, <2>6 DEF AloneCopied
    <2>. QED  BY <1>5, <1>7, <2>2, <2>5, <2>7
<1>. QED  BY <1>8, <1>9

(* Every step keeps the lines.                                             *)
LEMMA NextLine == BufferByPlace /\ LineInv /\ [Next]_vars => LineInv'
<1>. SUFFICES ASSUME BufferByPlace, LineInv, [Next]_vars
              PROVE  LineInv'
    OBVIOUS
<1>1. CASE Putchar
    <2>1. pc' \notin Copying
        BY <1>1 DEF Putchar, LoadRow, StoreRow, ZeroColumn, LoadOffsetRow,
            LoadOffsetColumn, Write, StoreColumn, TestWrap, TestBottom, ScrollRow,
            ScrollColumn, Jump, Copying
    <2>2. Idle
        BY <1>1, <2>1 DEF Putchar, Idle, lineVars
    <2>. QED  BY <2>2, IdleKeepsLine
<1>2. CASE CallReadLine
    <2>1. Idle
        BY <1>2 DEF CallReadLine, Jump, Idle, Copying, lineVars
    <2>. QED  BY <2>1, IdleKeepsLine
<1>3. CASE ReadLine
    BY <1>3, ReadLineKeepsLine
<1>4. CASE Tick \/ CapsLock \/ \E down \in BOOLEAN : Shift(down)
    <2>1. Interrupt /\ UNCHANGED <<lineVars, historyVars>>
        BY <1>4 DEF Tick, CapsLock, Shift
    <2>2. TypedHeld'
        BY <2>1 DEF LineInv, TypedHeld, lineVars, historyVars
    <2>. QED  BY <2>1, <2>2, TypingKeepsLine DEF lineVars, historyVars
<1>5. CASE \E key \in LetterKeys \cup OtherKeys : Key(key)
    BY <1>5, KeyKeepsLine
<1>6. CASE Backspace
    BY <1>6, BackspaceKeepsLine
<1>7. CASE Enter
    BY <1>7, EnterKeepsLine
<1>8. CASE UNCHANGED vars
    <2>1. Idle
        BY <1>8 DEF vars, Idle, historyVars
    <2>. QED  BY <2>1, IdleKeepsLine
<1>. QED  BY <1>1, <1>2, <1>3, <1>4, <1>5, <1>6, <1>7, <1>8 DEF Next

(* The lines typed and handed over are where the invariant says, whatever  *)
(* keys come between any two steps of read_line.                           *)
THEOREM AlwaysHandedOver == Spec => [](BufferByPlace /\ LineInv)
BY InitBuffer, NextBuffer, InitLine, NextLine, PTL DEF Spec

(* What the caller sees ends before the first NUL.                         *)
LEMMA ResultFacts ==
    ASSUME BufferByPlace, LineInv, pc = "clear"
    PROVE  \E n \in 1 .. Len(buffer) :
              /\ buffer[n] = NUL /\ Plain(buffer, n - 1)
              /\ Result = SubSeq(buffer, 1, n - 1)
              /\ Len(Result) = n - 1
              /\ \A k \in 1 .. n - 1 : Result[k] = buffer[k]
<1>. DEFINE nuls == {j \in 1 .. Len(buffer) : buffer[j] = NUL}
            n == CHOOSE k \in 1 .. Len(buffer) : IsLeast(k, nuls)
<1>1. buffer \in Text /\ Len(buffer) \in Nat
    BY DEF BufferByPlace, Text
<1>2. Len(buffer) \in nuls
    BY <1>1 DEF LineInv, CopiesMet
<1>3. nuls \in SUBSET Nat
    BY <1>1
<1>. HIDE DEF nuls
<1>4. \E k \in nuls : IsLeast(k, nuls)
    BY <1>2, <1>3, LeastExists
<1>5. \E k \in 1 .. Len(buffer) : IsLeast(k, nuls)
    BY <1>4 DEF nuls
<1>6. n \in 1 .. Len(buffer) /\ IsLeast(n, nuls)
    BY <1>5
<1>7. Result = SubSeq(buffer, 1, n - 1)
    BY DEF Result, nuls
<1>. HIDE DEF n
<1>8. buffer[n] = NUL
    BY <1>6 DEF IsLeast, nuls
<1>9. Plain(buffer, n - 1)
    <2>. SUFFICES ASSUME NEW j \in 1 .. n - 1, buffer[j] = NUL
                  PROVE  FALSE
        BY DEF Plain
    <2>1. j \in nuls /\ j < n
        BY <1>1, <1>6 DEF nuls
    <2>2. n <= j
        BY <1>6, <2>1 DEF IsLeast
    <2>. QED  BY <1>1, <1>6, <2>1, <2>2
<1>10. Len(Result) = n - 1 /\ \A k \in 1 .. n - 1 : Result[k] = buffer[k]
    BY <1>1, <1>6, <1>7 DEF Text
<1>. QED  BY <1>6, <1>7, <1>8, <1>9, <1>10

(* Nothing older than the lines entered since read_line left its hlt loop  *)
(* reaches the caller, for every length of the buffers and every number    *)
(* and length of lines entered meanwhile.                                  *)
THEOREM OnlyLinesMetShow == Spec => []NothingOlderShows
<1>1. BufferByPlace /\ LineInv => NothingOlderShows
    <2>. SUFFICES ASSUME BufferByPlace, LineInv, pc = "clear",
                         NEW k \in 1 .. Len(Result)
                  PROVE  \E l \in candidates : k <= Len(l) /\ Result[k] = l[k]
        BY DEF NothingOlderShows
    <2>1. PICK n \in 1 .. Len(buffer) :
              /\ Plain(buffer, n - 1)
              /\ Len(Result) = n - 1
              /\ \A j \in 1 .. n - 1 : Result[j] = buffer[j]
        BY ResultFacts
    <2>2. Len(buffer) \in Nat /\ k \in 1 .. n - 1 /\ Result[k] = buffer[k]
        BY <2>1 DEF BufferByPlace, Text
    <2>3. k - 1 \in 0 .. Len(buffer) - 1 /\ (k - 1) + 1 = k
        BY <2>1, <2>2
    <2>4. Plain(buffer, k)
        BY <2>1, <2>2 DEF Plain
    <2>5. BehindMet(buffer, candidates)
        BY DEF LineInv, CopiesMet, Copying
    <2>6. Met(candidates, k - 1, buffer[k])
        <3>1. Plain(buffer, (k - 1) + 1)
            BY <2>3, <2>4
        <3>2. Met(candidates, k - 1, buffer[(k - 1) + 1])
            BY <2>3, <2>5, <3>1 DEF BehindMet
        <3>. QED  BY <2>3, <3>2
    <2>7. PICK l \in candidates : k - 1 < Len(l) /\ buffer[k] = l[(k - 1) + 1]
        BY <2>6 DEF Met
    <2>8. Len(l) \in Nat
        <3>1. l \in Seq(Chars)
            BY <2>7 DEF LineInv, LinesMet, Copying
        <3>. QED  BY <3>1
    <2>9. k <= Len(l) /\ Result[k] = l[k]
        BY <2>2, <2>3, <2>7, <2>8
    <2>. QED  BY <2>9
<1>. QED  BY <1>1, AlwaysHandedOver, PTL

(* A line no other line is entered under comes through as it was typed and *)
(* edited, cut to the caller's buffer, for every length of the buffers.    *)
THEOREM QuietLinesIntact == Spec => []QuietLineIntact
<1>1. BufferByPlace /\ LineInv => QuietLineIntact
    <2>. SUFFICES ASSUME BufferByPlace, LineInv, pc = "clear",
                         NEW l \in candidates, candidates = {l}
                  PROVE  Result = Truncated(l)
        BY DEF QuietLineIntact
    <2>1. PICK n \in 1 .. Len(buffer) :
              /\ buffer[n] = NUL
              /\ Result = SubSeq(buffer, 1, n - 1)
              /\ Len(Result) = n - 1
              /\ \A j \in 1 .. n - 1 : Result[j] = buffer[j]
        BY ResultFacts
    <2>2. l \in Seq(Chars) /\ Len(l) \in Nat /\ CopiesAlone(l)
        BY AloneIsLine DEF Copying
    <2>3. /\ Len(buffer) = Fits(l) + 1
          /\ Fits(l) <= Len(l) /\ \A k \in 1 .. Fits(l) : buffer[k] = l[k]
        BY <2>2 DEF CopiesAlone, Begins
    <2>4. MAX_INPUT_LENGTH \in Nat /\ MAX_INPUT_LENGTH >= 1
        BY TerminalAssumption
    <2>5. Fits(l) \in Nat
        BY <2>2, <2>4 DEF Fits
    <2>6. n = Fits(l) + 1
        <3>. SUFFICES ASSUME n \in 1 .. Fits(l)
                      PROVE  FALSE
            BY <2>1, <2>3, <2>5
        <3>1. l[n] \in Chars /\ buffer[n] = l[n]
            BY <2>2, <2>3, <2>5
        <3>. QED  BY <2>1, <3>1, CharNotNul
    <2>7. Len(Result) = Fits(l) /\ \A k \in 1 .. Fits(l) : Result[k] = l[k]
        BY <2>1, <2>3, <2>5, <2>6
    <2>8. PICK t : t = Truncated(l)
        OBVIOUS
    <2>9. t \in Seq(Chars) /\ Len(t) = Fits(l) /\ \A k \in 1 .. Fits(l) : t[k] = l[k]
        <3>1. CASE Len(l) < MAX_INPUT_LENGTH
            BY <2>2, <2>4, <2>8, <3>1 DEF Truncated, Fits
        <3>2. CASE ~(Len(l) < MAX_INPUT_LENGTH)
            BY <2>2, <2>4, <2>8, <3>2 DEF Truncated, Fits
        <3>. QED  BY <3>1, <3>2
    <2>10. PICK r : r = Result
        OBVIOUS
    <2>11. r \in Seq(Chars \cup {NUL}) /\ t \in Seq(Chars \cup {NUL})
        <3>1. r \in Seq(Chars \cup {NUL})
            BY <2>1, <2>10 DEF BufferByPlace, Text
        <3>2. t \in Seq(Chars \cup {NUL})
            BY <2>9
        <3>. QED  BY <3>1, <3>2
    <2>12. r = t
        BY <2>7, <2>9, <2>10, <2>11, SeqEqual
    <2>. QED  BY <2>8, <2>10, <2>12
<1>. QED  BY <1>1, AlwaysHandedOver, PTL
=============================================================================

------------------------------ MODULE Console ------------------------------
(***************************************************************************)
(* The console: the text screen of kernel/libs/io/vga_serial.c, and the    *)
(* line editor of kernel/libs/io/console.c that reads keys and echoes them *)
(* on it. Other threads print on the same screen while a line is edited:   *)
(* get_char yields. exit ends in the farewell of shutdown.c.               *)
(*                                                                         *)
(* A cell of the screen is a glyph; colours, the serial copy and the       *)
(* cursor block are left out.                                              *)
(***************************************************************************)
EXTENDS Integers, Sequences

CONSTANTS
  Cols,            \* fb->width in characters
  FbRows,          \* fb->height in characters; the last row is telemetry
  RowCap,          \* CONFIG_TERMINAL_ROWS, or 20
  Limit,           \* characters a line may have (127)
  Keys,            \* the keys that have a character
  FarewellX, FarewellY,  \* where the farewell starts (12, 33)
  FarewellLength,  \* its characters
  TelemetryLength, \* those of the telemetry, "[T:0] | ACTIVE" (14)
  MaxLine,         \* bound: characters printed since the last line break
  Blank, Telemetry, Lost,
  NewLine, Return, Backspace

ASSUME ConsoleAssumption ==
  /\ Cols \in Nat \ {0}
  /\ FbRows \in Nat /\ FbRows >= 2
  /\ RowCap \in Nat \ {0}
  /\ Limit \in Nat \ {0}
  /\ FarewellX \in 0 .. Cols - 1 /\ FarewellY \in Nat
  /\ FarewellLength \in Nat
  /\ TelemetryLength \in 0 .. Cols
  /\ MaxLine \in Nat
  /\ {Blank, Telemetry, Lost, NewLine, Return, Backspace} \cap (Keys \X BOOLEAN) = {}
  /\ NewLine # Return /\ NewLine # Backspace /\ Return # Backspace

VARIABLES
  x, y,        \* cursor_x, cursor_y
  screen,
  strayed,     \* history: something was drawn outside the frame buffer
  shift,       \* shift_pressed
  editing,     \* a thread is in input
  buffer,
  mixed,       \* history: another thread has printed during this input
  prompt,      \* history: the length of the line when the input began
  line,        \* history: what was printed since the last line break
  todo,        \* characters the current thread prints before it yields
  exiting      \* exit has cleared the screen for its farewell

vars == <<x, y, screen, strayed, shift, editing, buffer, mixed, prompt, line, todo, exiting>>

Glyphs == Keys \X BOOLEAN            \* the scancode maps without and with shift
FrameRows == 0 .. FbRows - 1
TextRows == IF FbRows - 1 > RowCap THEN RowCap ELSE FbRows - 1
BlankRow == [c \in 0 .. Cols - 1 |-> Blank]

Init ==
  /\ x = 0 /\ y = 0
  /\ screen = [r \in FrameRows |-> BlankRow]
  /\ strayed = FALSE
  /\ shift = FALSE
  /\ editing = FALSE /\ buffer = <<>> /\ mixed = FALSE /\ prompt = 0
  /\ line = <<>>
  /\ todo = <<>> /\ exiting = FALSE

-----------------------------------------------------------------------------
(* vga_write_char.                                                         *)

(* Where the cursor is when c is drawn: a full line wraps before the next  *)
(* character, and a backspace goes back over a wrap.                       *)
DrawX(c) == CASE c = NewLine \/ c = Return -> 0
              [] c = Backspace -> IF x > 0 THEN x - 1 ELSE IF y > 0 THEN Cols - 1 ELSE 0
              [] OTHER -> IF x >= Cols THEN 0 ELSE x

(* Mutant: a backspace does not go back over a wrap. *)
DrawYStaying(c) == CASE c = NewLine -> y + 1
                     [] c = Return \/ c = Backspace -> y
                     [] OTHER -> IF x >= Cols THEN y + 1 ELSE y

DrawY(c) == CASE c = NewLine -> y + 1
              [] c = Return -> y
              [] c = Backspace -> IF x = 0 /\ y > 0 THEN y - 1 ELSE y
              [] OTHER -> IF x >= Cols THEN y + 1 ELSE y

InFrame(col, row) == col \in 0 .. Cols - 1 /\ row \in FrameRows

(* draw_char: it does not test where it draws. *)
Drawn(glyph, col, row) ==
  IF InFrame(col, row) THEN [screen EXCEPT ![row][col] = glyph] ELSE screen

(* The rows above move up and the last text row is cleared. The row below, *)
(* into which a wrap on the last text row has just drawn, does not move.   *)
Scrolled(s) ==
  [r \in FrameRows |-> IF r < TextRows - 1 THEN s[r + 1]
                       ELSE IF r = TextRows - 1 THEN BlankRow
                       ELSE s[r]]

(* Mutant: one row too late. *)
NeedsScrollLate(row) == row > TextRows

NeedsScroll(row) == row >= TextRows

PutAll(c) ==
  LET glyph == IF c = Backspace THEN Blank ELSE c
      drawn == IF c \in {NewLine, Return} THEN screen
               ELSE Drawn(glyph, DrawX(c), DrawY(c))
  IN /\ x' = IF c \in Glyphs THEN DrawX(c) + 1 ELSE DrawX(c)
     /\ IF NeedsScroll(DrawY(c))
        THEN screen' = Scrolled(drawn) /\ y' = TextRows - 1
        ELSE screen' = drawn /\ y' = DrawY(c)
     /\ strayed' = (strayed \/ (/\ c \notin {NewLine, Return}
                                /\ ~InFrame(DrawX(c), DrawY(c))))

(* What an ideal screen would show of the line: Lost stands for a          *)
(* character that wrapped off the last text row.                           *)
LineAfter(c) ==
  CASE c = NewLine \/ c = Return -> <<>>
    [] c = Backspace -> IF line = <<>> THEN line
                        ELSE SubSeq(line, 1, Len(line) - 1)
    [] OTHER -> Append(line, IF NeedsScroll(DrawY(c)) THEN Lost ELSE c)

Put(c) == PutAll(c) /\ line' = LineAfter(c)

-----------------------------------------------------------------------------
Running == todo = <<>> /\ ~exiting

(* print, by any thread: a thread that edits a line only prints its echo,  *)
(* so during an input it is another one.                                   *)
PrintChar(c) ==
  /\ Running
  /\ c \in Glyphs => Len(line) < MaxLine
  /\ Put(c)
  /\ mixed' = editing /\ prompt' = 0
  /\ UNCHANGED <<shift, editing, buffer, todo, exiting>>

(* telemetry_update, on every switch: the row is cleared as far as the     *)
(* frame goes, its text drawn without a look at where that ends.           *)
TelemetryUpdate ==
  /\ Running
  /\ screen' = [screen EXCEPT ![FbRows - 1] = [c \in 0 .. Cols - 1 |-> Telemetry]]
  /\ strayed' = (strayed \/ TelemetryLength > Cols)
  /\ UNCHANGED <<x, y, shift, editing, buffer, mixed, prompt, line, todo, exiting>>

InputStart ==
  /\ Running
  /\ ~editing
  /\ editing' = TRUE /\ buffer' = <<>> /\ mixed' = FALSE /\ prompt' = Len(line)
  /\ UNCHANGED <<x, y, screen, strayed, shift, line, todo, exiting>>

(* get_char on the press or release of a shift key. The other releases and *)
(* mouse data it drops; the release of Enter input drops.                  *)
ShiftKey ==
  /\ Running /\ editing
  /\ shift' = ~shift
  /\ UNCHANGED <<x, y, screen, strayed, editing, buffer, mixed, prompt, line, todo, exiting>>

(* Mutant: the buffer is not bounded. *)
TypeUnbounded(k) ==
  /\ Running /\ editing
  /\ Len(line) < MaxLine
  /\ Put(<<k, shift>>)
  /\ buffer' = Append(buffer, <<k, shift>>)
  /\ UNCHANGED <<shift, editing, mixed, prompt, todo, exiting>>

(* A character goes into the buffer and on the screen. When the buffer is  *)
(* full input returns, without an Enter.                                   *)
Type(k) ==
  /\ Running /\ editing
  /\ Len(line) < MaxLine
  /\ Put(<<k, shift>>)
  /\ buffer' = Append(buffer, <<k, shift>>)
  /\ editing' = (Len(buffer') < Limit)
  /\ UNCHANGED <<shift, mixed, prompt, todo, exiting>>

(* Mutant: the echo of a backspace is not guarded by the buffer. *)
EraseUnguarded ==
  /\ Running /\ editing
  /\ buffer' = IF buffer = <<>> THEN buffer ELSE SubSeq(buffer, 1, Len(buffer) - 1)
  /\ Put(Backspace)
  /\ UNCHANGED <<shift, editing, mixed, prompt, todo, exiting>>

Erase ==
  /\ Running /\ editing
  /\ buffer # <<>>
  /\ buffer' = SubSeq(buffer, 1, Len(buffer) - 1)
  /\ Put(Backspace)
  /\ UNCHANGED <<shift, editing, mixed, prompt, todo, exiting>>

(* Enter. *)
InputEnd ==
  /\ Running /\ editing
  /\ Put(NewLine)
  /\ editing' = FALSE /\ buffer' = <<>>
  /\ UNCHANGED <<shift, mixed, prompt, todo, exiting>>

(* ESC: input echoes ^C and a new line, and returns NULL. *)
Escape ==
  /\ Running /\ editing
  /\ \E caret, c \in Glyphs : todo' = << caret, c, NewLine >>
  /\ editing' = FALSE /\ buffer' = <<>>
  /\ UNCHANGED <<x, y, screen, strayed, shift, mixed, prompt, line, exiting>>

(* exit: the screen is cleared and the cursor set, unchecked. *)
Shutdown ==
  /\ Running /\ ~editing
  /\ screen' = [r \in FrameRows |-> BlankRow]
  /\ x' = FarewellX /\ y' = FarewellY
  /\ exiting' = TRUE
  /\ \E g \in Glyphs : todo' = [i \in 1 .. FarewellLength |-> g]
  /\ line' = <<>>
  /\ UNCHANGED <<strayed, shift, editing, buffer, mixed, prompt>>

PutNext ==
  /\ todo # <<>>
  /\ Put(Head(todo))
  /\ todo' = Tail(todo)
  /\ UNCHANGED <<shift, editing, buffer, mixed, prompt, exiting>>

Next ==
  \/ \E c \in Glyphs \cup {NewLine, Return} : PrintChar(c)
  \/ TelemetryUpdate
  \/ InputStart \/ ShiftKey \/ Erase \/ InputEnd \/ Escape
  \/ \E k \in Keys : Type(k)
  \/ Shutdown
  \/ PutNext

Spec == Init /\ [][Next]_vars

-----------------------------------------------------------------------------
Cells == Glyphs \cup {Blank, Telemetry}

TypeOK ==
  /\ x \in 0 .. Cols /\ y \in Nat
  /\ screen \in [FrameRows -> [0 .. Cols - 1 -> Cells]]
  /\ strayed \in BOOLEAN /\ shift \in BOOLEAN /\ editing \in BOOLEAN
  /\ buffer \in Seq(Glyphs) /\ Len(buffer) <= Limit
  /\ mixed \in BOOLEAN
  /\ prompt \in 0 .. MaxLine
  /\ line \in Seq(Glyphs \cup {Lost})
  /\ todo \in Seq(Glyphs \cup {NewLine})
  /\ exiting \in BOOLEAN

(* The cursor is within the text rows, so the next character is drawn in   *)
(* them or wraps into the row below, and nothing is ever drawn outside the *)
(* frame buffer: draw_char does not test, vga_write_char wraps and scrolls *)
(* in time. Only the farewell, whose cursor nobody checks, goes astray.    *)
DrawsInFrame == ~exiting => y < TextRows /\ ~strayed

(* What was printed since the last line break stands before the cursor,    *)
(* cell by cell, over wraps, scrolls and backspaces: all of it that has    *)
(* not scrolled off the top or wrapped off the last row.                   *)
LineShown ==
  ~exiting => \A i \in 1 .. Len(line) :
    LET p == y * Cols + x - (Len(line) - i) - 1
    IN p >= 0 /\ line[i] # Lost => screen[p \div Cols][p % Cols] = line[i]

(* Unless another thread prints in between, the line is the prompt and what *)
(* is in the buffer: input returns what the user sees, and backspaces never *)
(* erase the prompt.                                                        *)
EchoIsBuffer ==
  editing /\ ~mixed =>
    /\ Len(line) = prompt + Len(buffer)
    /\ \A i \in 1 .. Len(buffer) : line[prompt + i] \in {buffer[i], Lost}
=============================================================================

---------------------------- MODULE ConsoleProofs ----------------------------
(***************************************************************************)
(* Theorems about Console, for any size of the screen, any buffer and any  *)
(* keys: nothing is drawn outside the frame buffer, and what input returns *)
(* is what the user sees.                                                  *)
(***************************************************************************)
EXTENDS Console, SequenceTheorems, TLAPS

(* The types that the proofs need. *)
CursorType ==
  /\ x \in 0 .. Cols /\ y \in Nat
  /\ strayed \in BOOLEAN /\ shift \in BOOLEAN /\ editing \in BOOLEAN
  /\ mixed \in BOOLEAN /\ exiting \in BOOLEAN
  /\ todo \in Seq(Glyphs \cup {NewLine})

LineType ==
  /\ line \in Seq(Glyphs \cup {Lost})
  /\ buffer \in Seq(Glyphs)
  /\ prompt \in Nat

(* Nobody is in input while a thread prints several characters at once. *)
InputAlone == editing => todo = <<>> /\ ~exiting

Chars == Glyphs \cup {NewLine, Return, Backspace}

CursorInv == CursorType /\ DrawsInFrame
EchoInv == CursorType /\ LineType /\ InputAlone /\ EchoIsBuffer
-----------------------------------------------------------------------------
(* The control characters are not glyphs. *)
LEMMA CharKinds ==
  ASSUME ConsoleAssumption
  PROVE  /\ NewLine \notin Glyphs /\ Return \notin Glyphs /\ Backspace \notin Glyphs
         /\ NewLine # Return /\ NewLine # Backspace /\ Return # Backspace
BY DEF ConsoleAssumption, Glyphs

(* There is at least one text row, and all of them lie above the last row. *)
LEMMA RowsBound ==
  ASSUME ConsoleAssumption
  PROVE  TextRows \in Nat /\ 1 <= TextRows /\ TextRows <= FbRows - 1
BY DEF ConsoleAssumption, TextRows

(* vga_write_char keeps the cursor within the text rows, and from there it *)
(* draws inside the frame.                                                 *)
LEMMA PutStep ==
  ASSUME ConsoleAssumption, CursorType, NEW c \in Chars, PutAll(c)
  PROVE  /\ x' \in 0 .. Cols /\ y' \in Nat /\ strayed' \in BOOLEAN
         /\ y < TextRows /\ ~strayed => y' < TextRows /\ ~strayed'
<1> USE RowsBound, CharKinds
<1>0. x \in 0 .. Cols /\ y \in Nat /\ Cols \in Nat \ {0} /\ FbRows \in Nat
  BY DEF CursorType, ConsoleAssumption
<1>1. /\ DrawX(c) \in 0 .. Cols - 1
      /\ DrawY(c) \in 0 .. y + 1
  <2>1. CASE c = NewLine
    BY <1>0, <2>1 DEF DrawX, DrawY
  <2>2. CASE c = Return
    BY <1>0, <2>2 DEF DrawX, DrawY
  <2>3. CASE c = Backspace
    BY <1>0, <2>3 DEF DrawX, DrawY
  <2>4. CASE c \in Glyphs
    BY <1>0, <2>4 DEF DrawX, DrawY
  <2> QED BY <2>1, <2>2, <2>3, <2>4 DEF Chars
<1>3. y' \in Nat
  BY <1>0, <1>1 DEF PutAll
<1>4. x' \in 0 .. Cols
  BY <1>0, <1>1 DEF PutAll
<1>5. ASSUME y < TextRows, ~strayed
      PROVE  y' < TextRows /\ ~strayed'
  <2>1. y' < TextRows
    BY <1>0, <1>1 DEF PutAll, NeedsScroll
  <2>2. DrawY(c) \in FrameRows
    BY <1>0, <1>1, <1>5 DEF FrameRows
  <2> QED BY <1>1, <1>5, <2>1, <2>2 DEF PutAll, InFrame
<1>6. strayed' \in BOOLEAN
  BY DEF PutAll, CursorType
<1> QED BY <1>3, <1>4, <1>5, <1>6

LEMMA InitCursor == ASSUME ConsoleAssumption, Init PROVE CursorInv
<1>1. 0 \in 0 .. Cols /\ 0 < TextRows
  BY RowsBound DEF ConsoleAssumption
<1>2. CursorType
  <2>1. <<>> \in Seq(Glyphs \cup {NewLine})
    OBVIOUS
  <2>2. x = 0 /\ y = 0 /\ todo = <<>>
    BY DEF Init
  <2>3. /\ strayed \in BOOLEAN /\ shift \in BOOLEAN /\ editing \in BOOLEAN
        /\ mixed \in BOOLEAN /\ exiting \in BOOLEAN
    BY DEF Init
  <2> QED BY <1>1, <2>1, <2>2, <2>3 DEF CursorType
<1>3. DrawsInFrame
  BY <1>1 DEF Init, DrawsInFrame
<1> QED BY <1>2, <1>3 DEF CursorInv

LEMMA CursorStep ==
  ASSUME ConsoleAssumption, CursorType, [Next]_vars
  PROVE  CursorType' /\ (DrawsInFrame => DrawsInFrame')
<1> USE DEF CursorType, DrawsInFrame
<1>1. ASSUME NEW c \in Glyphs \cup {NewLine, Return}, PrintChar(c)
      PROVE  CursorType' /\ (DrawsInFrame => DrawsInFrame')
  BY <1>1, PutStep DEF PrintChar, Put, Chars, Running
<1>2. CASE TelemetryUpdate
  BY <1>2 DEF TelemetryUpdate
<1>3. CASE InputStart
  BY <1>3 DEF InputStart
<1>4. CASE ShiftKey
  BY <1>4 DEF ShiftKey
<1>5. CASE Erase
  BY <1>5, PutStep DEF Erase, Put, Chars, Running
<1>6. CASE InputEnd
  BY <1>6, PutStep DEF InputEnd, Put, Chars, Running
<1>7. CASE Escape
  <2>1. PICK caret, g \in Glyphs : todo' = << caret, g, NewLine >>
    BY <1>7 DEF Escape
  <2>2. todo' \in Seq(Glyphs \cup {NewLine})
    BY <2>1
  <2> QED BY <1>7, <2>2 DEF Escape
<1>8. ASSUME NEW k \in Keys, Type(k)
      PROVE  CursorType' /\ (DrawsInFrame => DrawsInFrame')
  <2>1. <<k, shift>> \in Chars
    BY DEF Chars, Glyphs
  <2>2. PutAll(<<k, shift>>) /\ UNCHANGED <<shift, mixed, todo, exiting>> /\ editing' \in BOOLEAN
    BY <1>8 DEF Type, Put
  <2> QED BY <2>1, <2>2, PutStep
<1>9. CASE Shutdown
  <2>1. x' \in 0 .. Cols /\ y' \in Nat
    BY <1>9 DEF Shutdown, ConsoleAssumption
  <2>2. todo' \in Seq(Glyphs \cup {NewLine})
    BY <1>9 DEF Shutdown, ConsoleAssumption
  <2> QED BY <1>9, <2>1, <2>2 DEF Shutdown
<1>10. CASE PutNext
  <2>1. Head(todo) \in Chars /\ Tail(todo) \in Seq(Glyphs \cup {NewLine})
    BY <1>10 DEF PutNext, Chars
  <2>2. PutAll(Head(todo)) /\ todo' = Tail(todo)
        /\ UNCHANGED <<shift, editing, mixed, exiting>>
    BY <1>10 DEF PutNext, Put
  <2> QED BY <2>1, <2>2, PutStep
<1>11. CASE UNCHANGED vars
  BY <1>11 DEF vars
<1> QED
  BY <1>1, <1>2, <1>3, <1>4, <1>5, <1>6, <1>7, <1>8, <1>9, <1>10, <1>11 DEF Next

LEMMA AlwaysCursor == ASSUME ConsoleAssumption PROVE Spec => []CursorInv
<1>1. Init => CursorInv
  BY InitCursor
<1>2. CursorInv /\ [Next]_vars => CursorInv'
  BY CursorStep DEF CursorInv
<1> QED BY <1>1, <1>2, PTL DEF Spec

(* While the console runs the cursor is within the text rows and nothing   *)
(* is drawn outside the frame buffer (vga_write_char).                     *)
THEOREM DrawsInFrameHolds == ASSUME ConsoleAssumption PROVE Spec => []DrawsInFrame
<1>1. CursorInv => DrawsInFrame
  BY DEF CursorInv
<1> QED BY <1>1, AlwaysCursor, PTL

-----------------------------------------------------------------------------
(* What the line becomes: a glyph is appended, as itself or as Lost; a     *)
(* backspace takes the last one away.                                      *)
LEMMA LineStep ==
  ASSUME ConsoleAssumption, LineType, NEW c \in Chars, line' = LineAfter(c)
  PROVE  /\ line' \in Seq(Glyphs \cup {Lost})
         /\ c \in Glyphs => \E g \in {c, Lost} : line' = Append(line, g)
         /\ c = Backspace /\ line # <<>> => line' = SubSeq(line, 1, Len(line) - 1)
<1> USE CharKinds DEF LineType
<1>1. CASE c = NewLine \/ c = Return
  BY <1>1 DEF LineAfter
<1>2. CASE c = Backspace
  <2>1. CASE line = <<>>
    BY <1>2, <2>1 DEF LineAfter
  <2>2. CASE line # <<>>
    <3>1. line' = SubSeq(line, 1, Len(line) - 1)
      BY <1>2, <2>2 DEF LineAfter
    <3>2. SubSeq(line, 1, Len(line) - 1) \in Seq(Glyphs \cup {Lost})
      BY <2>2
    <3>3. c \notin Glyphs
      BY <1>2
    <3> QED BY <3>1, <3>2, <3>3
  <2> QED BY <2>1, <2>2
<1>3. CASE c \in Glyphs
  <2>1. line' = Append(line, IF NeedsScroll(DrawY(c)) THEN Lost ELSE c)
    BY <1>3 DEF LineAfter
  <2>2. PICK g \in {c, Lost} : line' = Append(line, g)
    BY <2>1
  <2> QED BY <1>3, <2>2
<1> QED BY <1>1, <1>2, <1>3 DEF Chars

LEMMA InitEcho == ASSUME ConsoleAssumption, Init PROVE EchoInv
<1>1. CursorType
  BY InitCursor DEF CursorInv
<1>2. LineType /\ InputAlone /\ EchoIsBuffer
  BY DEF Init, LineType, InputAlone, EchoIsBuffer
<1> QED BY <1>1, <1>2 DEF EchoInv

(* A glyph goes into the buffer and onto the line. *)
LEMMA TypeEcho ==
  ASSUME ConsoleAssumption, EchoInv, NEW k \in Keys, Type(k)
  PROVE  LineType' /\ InputAlone' /\ EchoIsBuffer'
<1> DEFINE c == <<k, shift>>
<1>1. c \in Glyphs /\ c \in Chars
  BY DEF EchoInv, CursorType, Chars, Glyphs
<1>2. /\ line' = LineAfter(c) /\ buffer' = Append(buffer, c)
      /\ UNCHANGED <<mixed, prompt, todo, exiting>>
      /\ editing
  BY DEF Type, Put
<1> HIDE DEF c
<1>3. PICK g \in {c, Lost} : line' = Append(line, g)
  BY <1>1, <1>2, LineStep DEF EchoInv
<1>4. LineType'
  BY <1>1, <1>2, LineStep DEF EchoInv, LineType
<1>5. InputAlone'
  BY <1>2 DEF EchoInv, InputAlone
<1>6. ASSUME ~mixed
      PROVE  EchoIsBuffer'
  <2> USE DEF LineType
  <2>1. Len(line) = prompt + Len(buffer)
    BY <1>2, <1>6 DEF EchoInv, EchoIsBuffer
  <2>2. Len(line') = prompt' + Len(buffer')
    BY <1>1, <1>2, <1>3, <2>1 DEF EchoInv
  <2>3. ASSUME NEW i \in 1 .. Len(buffer')
        PROVE  line'[prompt' + i] \in {buffer'[i], Lost}
    <3>1. CASE i = Len(buffer) + 1
      <4>1. prompt' + i = Len(line) + 1
        BY <1>2, <2>1, <3>1 DEF EchoInv
      <4>2. line'[Len(line) + 1] = g /\ buffer'[i] = c
        BY <1>1, <1>2, <1>3, <3>1 DEF EchoInv
      <4> QED BY <4>1, <4>2
    <3>2. CASE i \in 1 .. Len(buffer)
      <4>1. prompt' + i \in 1 .. Len(line)
        BY <1>2, <2>1, <3>2 DEF EchoInv
      <4>2. line'[prompt' + i] = line[prompt + i] /\ buffer'[i] = buffer[i]
        BY <1>1, <1>2, <1>3, <3>2, <4>1 DEF EchoInv
      <4> QED BY <1>2, <1>6, <3>2, <4>2 DEF EchoInv, EchoIsBuffer
    <3> QED BY <1>1, <1>2, <3>1, <3>2 DEF EchoInv
  <2> QED BY <2>2, <2>3 DEF EchoIsBuffer
<1>7. mixed => EchoIsBuffer'
  BY <1>2 DEF EchoIsBuffer
<1> QED BY <1>4, <1>5, <1>6, <1>7 DEF EchoInv, CursorType

(* What a sequence is without its last element. *)
LEMMA WithoutLast ==
  ASSUME NEW S, NEW s \in Seq(S), s # <<>>
  PROVE  /\ Len(SubSeq(s, 1, Len(s) - 1)) = Len(s) - 1
         /\ \A i \in 1 .. Len(s) - 1 : SubSeq(s, 1, Len(s) - 1)[i] = s[i]
<1> DEFINE n == Len(s) - 1
           front == SubSeq(s, 1, n)
<1>1. Len(s) \in Nat \ {0} /\ n \in Nat
  BY EmptySeq
<1>2. \A i \in 1 .. n : s[i] \in S
  BY <1>1
<1>3. /\ Len(front) = IF 1 <= n THEN n - 1 + 1 ELSE 0
      /\ \A i \in 1 .. n - 1 + 1 : front[i] = s[1 + i - 1]
  <2> HIDE DEF n
  <2> QED BY <1>1, <1>2, SubSeqProperties
<1>4. Len(front) = n /\ \A i \in 1 .. n : front[i] = s[i]
  <2> HIDE DEF n, front
  <2> QED BY <1>1, <1>3
<1> QED BY <1>4

(* A backspace takes the last character from both. *)
LEMMA EraseEcho ==
  ASSUME ConsoleAssumption, EchoInv, Erase
  PROVE  LineType' /\ InputAlone' /\ EchoIsBuffer'
<1>1. /\ line' = LineAfter(Backspace)
      /\ buffer # <<>> /\ buffer' = SubSeq(buffer, 1, Len(buffer) - 1)
      /\ UNCHANGED <<editing, mixed, prompt, todo, exiting>>
      /\ editing
  BY DEF Erase, Put
<1>2. LineType'
  <2>1. line' \in Seq(Glyphs \cup {Lost})
    BY <1>1, LineStep DEF EchoInv, Chars
  <2>2. buffer' \in Seq(Glyphs)
    BY <1>1 DEF EchoInv, LineType
  <2> QED BY <1>1, <2>1, <2>2 DEF EchoInv, LineType
<1>3. InputAlone'
  BY <1>1 DEF EchoInv, InputAlone
<1>4. ASSUME ~mixed
      PROVE  EchoIsBuffer'
  <2> USE DEF LineType
  <2>1. Len(line) = prompt + Len(buffer)
    BY <1>1, <1>4 DEF EchoInv, EchoIsBuffer
  <2>2. line # <<>> /\ Len(buffer) > 0
    BY <1>1, <2>1 DEF EchoInv
  <2>3. line' = SubSeq(line, 1, Len(line) - 1)
    BY <1>1, <2>2, LineStep DEF EchoInv, Chars
  <2>4. Len(line') = Len(line) - 1 /\ Len(buffer') = Len(buffer) - 1
    <3>1. line \in Seq(Glyphs \cup {Lost})
      BY DEF EchoInv
    <3>2. buffer \in Seq(Glyphs)
      BY DEF EchoInv
    <3>3. Len(line') = Len(line) - 1
      BY <2>2, <2>3, <3>1, WithoutLast
    <3>4. Len(buffer') = Len(buffer) - 1
      BY <1>1, <3>2, WithoutLast
    <3> QED BY <3>3, <3>4
  <2>5. ASSUME NEW i \in 1 .. Len(buffer')
        PROVE  line'[prompt' + i] \in {buffer'[i], Lost}
    <3>1. i \in 1 .. Len(buffer) - 1 /\ prompt + i \in 1 .. Len(line) - 1
      BY <2>1, <2>4 DEF EchoInv
    <3>2. line'[prompt' + i] = line[prompt + i] /\ buffer'[i] = buffer[i]
      BY <1>1, <2>2, <2>3, <3>1 DEF EchoInv
    <3> QED BY <1>1, <1>4, <3>1, <3>2 DEF EchoInv, EchoIsBuffer
  <2> QED BY <1>1, <2>1, <2>4, <2>5 DEF EchoInv, EchoIsBuffer
<1> QED BY <1>1, <1>2, <1>3, <1>4 DEF EchoInv, CursorType, EchoIsBuffer

LEMMA EchoStep == ASSUME ConsoleAssumption, EchoInv, [Next]_vars PROVE EchoInv'
<1> SUFFICES LineType' /\ InputAlone' /\ EchoIsBuffer'
  BY CursorStep DEF EchoInv
<1> USE DEF LineType, InputAlone, EchoIsBuffer
<1>1. ASSUME NEW c \in Glyphs \cup {NewLine, Return}, PrintChar(c)
      PROVE  LineType' /\ InputAlone' /\ EchoIsBuffer'
  <2>1. line' \in Seq(Glyphs \cup {Lost})
    BY <1>1, LineStep DEF PrintChar, Put, Chars, EchoInv
  <2> QED BY <1>1, <2>1 DEF PrintChar, EchoInv
<1>2. CASE TelemetryUpdate
  BY <1>2 DEF TelemetryUpdate, EchoInv
<1>3. CASE InputStart
  BY <1>3 DEF InputStart, EchoInv, Running
<1>4. CASE ShiftKey
  BY <1>4 DEF ShiftKey, EchoInv
<1>5. CASE Erase
  BY <1>5, EraseEcho
<1>6. CASE InputEnd
  <2>1. line' \in Seq(Glyphs \cup {Lost})
    BY <1>6, LineStep DEF InputEnd, Put, Chars, EchoInv
  <2> QED BY <1>6, <2>1 DEF InputEnd, EchoInv
<1>7. CASE Escape
  BY <1>7 DEF Escape, EchoInv
<1>8. ASSUME NEW k \in Keys, Type(k)
      PROVE  LineType' /\ InputAlone' /\ EchoIsBuffer'
  BY <1>8, TypeEcho
<1>9. CASE Shutdown
  BY <1>9 DEF Shutdown, EchoInv
<1>10. CASE PutNext
  <2>1. Head(todo) \in Chars
    BY <1>10 DEF PutNext, Chars, EchoInv, CursorType
  <2>2. line' \in Seq(Glyphs \cup {Lost})
    BY <1>10, <2>1, LineStep DEF PutNext, Put, EchoInv
  <2>3. ~editing
    BY <1>10 DEF PutNext, EchoInv
  <2> QED BY <1>10, <2>2, <2>3 DEF PutNext, EchoInv
<1>11. CASE UNCHANGED vars
  BY <1>11 DEF vars, EchoInv
<1> QED
  BY <1>1, <1>2, <1>3, <1>4, <1>5, <1>6, <1>7, <1>8, <1>9, <1>10, <1>11 DEF Next

(* Unless another thread prints in between, what input has in its buffer   *)
(* is what stands on the line behind the prompt (input, vga_write_char).   *)
THEOREM EchoIsBufferHolds == ASSUME ConsoleAssumption PROVE Spec => []EchoIsBuffer
<1>1. Init => EchoInv
  BY InitEcho
<1>2. EchoInv /\ [Next]_vars => EchoInv'
  BY EchoStep
<1>3. EchoInv => EchoIsBuffer
  BY DEF EchoInv
<1> QED BY <1>1, <1>2, <1>3, PTL DEF Spec
-----------------------------------------------------------------------------
(* The remaining types. What a thread prints without a yield, other than   *)
(* the farewell, ends in a line break; so a thread that starts an input    *)
(* finds no more on the line than print left there.                        *)
SizeInv ==
  /\ Len(buffer) <= Limit /\ (editing => Len(buffer) < Limit)
  /\ prompt \in 0 .. MaxLine
  /\ Running => Len(line) <= MaxLine
  /\ todo # <<>> /\ ~exiting => todo[Len(todo)] = NewLine
ScreenType == screen \in [FrameRows -> [0 .. Cols - 1 -> Cells]]

TypeInv == CursorType /\ LineType /\ SizeInv /\ ScreenType

(* Drawing, scrolling and the telemetry row put nothing but cells on the   *)
(* screen.                                                                 *)
LEMMA ScreenStep ==
  ASSUME ConsoleAssumption, ScreenType, NEW c \in Chars, PutAll(c)
  PROVE  ScreenType'
<1> DEFINE glyph == IF c = Backspace THEN Blank ELSE c
           drawn == IF c \in {NewLine, Return} THEN screen ELSE Drawn(glyph, DrawX(c), DrawY(c))
<1>1. drawn \in [FrameRows -> [0 .. Cols - 1 -> Cells]]
  <2>1. CASE c \in {NewLine, Return}
    BY <2>1 DEF ScreenType
  <2>2. CASE c \notin {NewLine, Return}
    <3>1. glyph \in Cells
      BY <2>2 DEF Chars, Cells
    <3> HIDE DEF glyph
    <3>2. Drawn(glyph, DrawX(c), DrawY(c)) \in [FrameRows -> [0 .. Cols - 1 -> Cells]]
      BY <3>1 DEF ScreenType, Drawn, InFrame
    <3> QED BY <2>2, <3>2
  <2> QED BY <2>1, <2>2
<1>2. screen' = Scrolled(drawn) \/ screen' = drawn
  BY DEF PutAll
<1> HIDE DEF drawn
<1>3. Scrolled(drawn) \in [FrameRows -> [0 .. Cols - 1 -> Cells]]
  <2>1. BlankRow \in [0 .. Cols - 1 -> Cells]
    BY DEF BlankRow, Cells
  <2>2. \A r \in FrameRows : r < TextRows - 1 => r + 1 \in FrameRows
    BY RowsBound DEF FrameRows, ConsoleAssumption
  <2> QED BY <1>1, <2>1, <2>2 DEF Scrolled
<1> QED BY <1>1, <1>2, <1>3 DEF ScreenType

LEMMA BlankScreen == [r \in FrameRows |-> BlankRow] \in [FrameRows -> [0 .. Cols - 1 -> Cells]]
BY DEF BlankRow, Cells

LEMMA InitTypes == ASSUME ConsoleAssumption, Init PROVE TypeInv
<1>1. CursorType
  BY InitCursor DEF CursorInv
<1>2. LineType /\ SizeInv
  BY DEF Init, LineType, SizeInv, ConsoleAssumption
<1>3. ScreenType
  BY BlankScreen DEF Init, ScreenType
<1> QED BY <1>1, <1>2, <1>3 DEF TypeInv

LEMMA TypeStep ==
  ASSUME ConsoleAssumption, TypeInv, [Next]_vars
  PROVE  LineType' /\ SizeInv' /\ ScreenType'
<1>1. ASSUME NEW c \in Glyphs \cup {NewLine, Return}, PrintChar(c)
      PROVE  LineType' /\ SizeInv' /\ ScreenType'
  <2>1. c \in Chars
    BY DEF Chars
  <2>2. /\ todo = <<>> /\ ~exiting /\ (c \in Glyphs => Len(line) < MaxLine)
        /\ line' = LineAfter(c) /\ prompt' = 0 /\ UNCHANGED <<shift, editing, buffer, todo, exiting>>
        /\ PutAll(c)
    BY <1>1 DEF PrintChar, Put, Running
  <2>3. ScreenType'
    BY <2>1, <2>2, ScreenStep DEF TypeInv
  <2>4. line' \in Seq(Glyphs \cup {Lost})
    BY <2>1, <2>2, LineStep DEF TypeInv
  <2>5. Len(line') <= MaxLine
    <3>1. CASE c \in Glyphs
      <4>1. PICK g \in {c, Lost} : line' = Append(line, g)
        BY <2>1, <2>2, <3>1, LineStep DEF TypeInv
      <4> QED BY <2>2, <3>1, <4>1 DEF TypeInv, LineType, ConsoleAssumption
    <3>2. CASE c \notin Glyphs
      <4>1. line' = <<>>
        BY <2>2, <3>2 DEF LineAfter
      <4> QED BY <4>1 DEF ConsoleAssumption
    <3> QED BY <3>1, <3>2
  <2> QED BY <2>2, <2>3, <2>4, <2>5 DEF TypeInv, LineType, SizeInv, Running, ConsoleAssumption
<1>2. CASE TelemetryUpdate
  <2>1. ScreenType'
    <3>1. [c \in 0 .. Cols - 1 |-> Telemetry] \in [0 .. Cols - 1 -> Cells]
      BY DEF Cells
    <3> QED BY <1>2, <3>1 DEF TelemetryUpdate, TypeInv, ScreenType
  <2> QED BY <1>2, <2>1 DEF TelemetryUpdate, TypeInv, LineType, SizeInv, Running
<1>3. CASE InputStart
  <2>1. Len(line) <= MaxLine /\ Len(line) \in Nat
    BY <1>3 DEF InputStart, TypeInv, SizeInv, LineType
  <2> QED BY <1>3, <2>1 DEF InputStart, TypeInv, LineType, SizeInv, ScreenType, Running, ConsoleAssumption
<1>4. CASE ShiftKey
  BY <1>4 DEF ShiftKey, TypeInv, LineType, SizeInv, ScreenType, Running
<1>5. CASE Erase
  <2>1. /\ todo = <<>> /\ ~exiting /\ line' = LineAfter(Backspace) /\ PutAll(Backspace)
        /\ buffer # <<>> /\ buffer' = SubSeq(buffer, 1, Len(buffer) - 1)
        /\ UNCHANGED <<shift, editing, mixed, prompt, todo, exiting>> /\ Backspace \in Chars
    BY <1>5 DEF Erase, Put, Running, Chars
  <2>2. ScreenType'
    BY <2>1, ScreenStep DEF TypeInv
  <2>3. line' \in Seq(Glyphs \cup {Lost})
    BY <2>1, LineStep DEF TypeInv
  <2>4. Len(line') <= MaxLine
    <3>1. line \in Seq(Glyphs \cup {Lost}) /\ Len(line) <= MaxLine /\ Len(line) \in Nat
      BY <2>1 DEF TypeInv, LineType, SizeInv, Running
    <3>2. CASE line = <<>>
      BY <2>1, <3>1, <3>2, CharKinds DEF LineAfter
    <3>3. CASE line # <<>>
      <4>1. line' = SubSeq(line, 1, Len(line) - 1)
        BY <2>1, <3>3, LineStep DEF TypeInv
      <4>2. Len(line') = Len(line) - 1
        BY <3>1, <3>3, <4>1, WithoutLast
      <4> QED BY <3>1, <4>2 DEF ConsoleAssumption
    <3> QED BY <3>2, <3>3
  <2>5. buffer' \in Seq(Glyphs) /\ Len(buffer') = Len(buffer) - 1
    BY <2>1, WithoutLast DEF TypeInv, LineType
  <2>6. Len(buffer) \in Nat /\ Limit \in Nat
    BY DEF TypeInv, LineType, ConsoleAssumption
  <2> QED BY <2>1, <2>2, <2>3, <2>4, <2>5, <2>6 DEF TypeInv, LineType, SizeInv, Running
<1>6. CASE InputEnd
  <2>1. /\ todo = <<>> /\ line' = LineAfter(NewLine) /\ PutAll(NewLine) /\ NewLine \in Chars
        /\ editing' = FALSE /\ buffer' = <<>> /\ UNCHANGED <<shift, mixed, prompt, todo, exiting>>
    BY <1>6 DEF InputEnd, Put, Running, Chars
  <2>2. ScreenType'
    BY <2>1, ScreenStep DEF TypeInv
  <2>3. line' = <<>>
    BY <2>1 DEF LineAfter
  <2> QED BY <2>1, <2>2, <2>3 DEF TypeInv, LineType, SizeInv, Running, ConsoleAssumption
<1>7. CASE Escape
  <2>1. PICK caret, g \in Glyphs : todo' = << caret, g, NewLine >>
    BY <1>7 DEF Escape
  <2>2. todo' # <<>> /\ todo'[Len(todo')] = NewLine
    BY <2>1
  <2> QED BY <1>7, <2>2 DEF Escape, TypeInv, LineType, SizeInv, ScreenType, Running, ConsoleAssumption
<1>8. ASSUME NEW k \in Keys, Type(k) PROVE LineType' /\ SizeInv' /\ ScreenType'
  <2> DEFINE c == <<k, shift>>
  <2>1. c \in Glyphs /\ c \in Chars
    BY DEF TypeInv, CursorType, Chars, Glyphs
  <2>2. /\ todo = <<>> /\ ~exiting /\ editing /\ Len(line) < MaxLine /\ line' = LineAfter(c) /\ PutAll(c)
        /\ buffer' = Append(buffer, c) /\ editing' = (Len(buffer') < Limit)
        /\ UNCHANGED <<shift, mixed, prompt, todo, exiting>>
    BY <1>8 DEF Type, Put, Running
  <2> HIDE DEF c
  <2>3. ScreenType'
    BY <2>1, <2>2, ScreenStep DEF TypeInv
  <2>4. PICK g \in {c, Lost} : line' = Append(line, g)
    BY <2>1, <2>2, LineStep DEF TypeInv
  <2>5. line' \in Seq(Glyphs \cup {Lost}) /\ Len(line') <= MaxLine
    BY <2>1, <2>2, <2>4 DEF TypeInv, LineType, ConsoleAssumption
  <2>6. buffer' \in Seq(Glyphs) /\ Len(buffer') <= Limit
    BY <2>1, <2>2 DEF TypeInv, LineType, SizeInv, ConsoleAssumption
  <2> QED BY <2>2, <2>3, <2>5, <2>6 DEF TypeInv, LineType, SizeInv, Running
<1>9. CASE Shutdown
  <2>1. /\ screen' = [r \in FrameRows |-> BlankRow] /\ exiting' = TRUE /\ line' = <<>>
        /\ ~editing /\ UNCHANGED <<shift, editing, buffer, prompt>>
    BY <1>9 DEF Shutdown
  <2>2. ScreenType'
    BY <2>1, BlankScreen DEF ScreenType
  <2> QED BY <2>1, <2>2 DEF TypeInv, LineType, SizeInv, Running
<1>10. CASE PutNext
  <2>1. /\ todo # <<>> /\ PutAll(Head(todo)) /\ line' = LineAfter(Head(todo)) /\ todo' = Tail(todo)
        /\ UNCHANGED <<shift, editing, buffer, mixed, prompt, exiting>>
    BY <1>10 DEF PutNext, Put
  <2>2. todo \in Seq(Glyphs \cup {NewLine}) /\ Head(todo) \in Chars
    BY <2>1 DEF TypeInv, CursorType, Chars
  <2>3. ScreenType'
    BY <2>1, <2>2, ScreenStep DEF TypeInv
  <2>4. line' \in Seq(Glyphs \cup {Lost})
    BY <2>1, <2>2, LineStep DEF TypeInv
  <2>5. ASSUME ~exiting' PROVE /\ todo' = <<>> => Len(line') <= MaxLine
                               /\ todo' # <<>> => todo'[Len(todo')] = NewLine
    <3>1. todo[Len(todo)] = NewLine
      BY <2>1, <2>5 DEF TypeInv, SizeInv
    <3>2. ASSUME todo' = <<>> PROVE Len(line') <= MaxLine
      <4>1. Head(todo) = todo[1] /\ Len(todo) \in Nat \ {0}
        BY <2>1, <2>2
      <4>2. Len(todo') = Len(todo) - 1 /\ Len(todo') = 0
        BY <2>1, <2>2, <3>2, HeadTailProperties
      <4>3. Len(todo) = 1
        BY <4>1, <4>2
      <4>4. line' = <<>>
        BY <2>1, <3>1, <4>1, <4>3 DEF LineAfter
      <4> QED BY <4>4 DEF ConsoleAssumption
    <3>3. ASSUME todo' # <<>> PROVE todo'[Len(todo')] = NewLine
      <4>1. Len(todo') = Len(todo) - 1 /\ Len(todo') \in Nat \ {0}
        BY <2>1, <2>2, <3>3
      <4>2. todo'[Len(todo')] = todo[Len(todo') + 1]
        BY <2>1, <2>2, <4>1
      <4> QED BY <3>1, <4>1, <4>2
    <3> QED BY <3>2, <3>3
  <2> QED BY <2>1, <2>3, <2>4, <2>5 DEF TypeInv, LineType, SizeInv, Running
<1>11. CASE UNCHANGED vars
  BY <1>11 DEF vars, TypeInv, LineType, SizeInv, ScreenType, Running
<1> QED
  BY <1>1, <1>2, <1>3, <1>4, <1>5, <1>6, <1>7, <1>8, <1>9, <1>10, <1>11 DEF Next

LEMMA AlwaysTyped == ASSUME ConsoleAssumption PROVE Spec => []TypeInv
<1>1. Init => TypeInv
  BY InitTypes
<1>2. TypeInv /\ [Next]_vars => TypeInv'
  BY TypeStep, CursorStep DEF TypeInv
<1> QED BY <1>1, <1>2, PTL DEF Spec

(* Every variable keeps its type, however keys, prints and commands meet:  *)
(* the buffer of input never takes more than Limit characters, and the     *)
(* prompt never more of the line than was printed.                         *)
THEOREM TypeCorrect == ASSUME ConsoleAssumption PROVE Spec => []TypeOK
<1>1. TypeInv => TypeOK
  BY DEF TypeInv, CursorType, LineType, SizeInv, ScreenType, TypeOK
<1> QED BY <1>1, AlwaysTyped, PTL
-----------------------------------------------------------------------------
(* The cells of the screen in reading order: they have numbers, and the    *)
(* character i of the line has the number the cursor has, less those       *)
(* printed after it.                                                       *)
Cell(r, q) == r * Cols + q
PlaceOf(i) == Cell(y, x) - (Len(line) - i) - 1

LineCells ==
  ~exiting => \A i \in 1 .. Len(line), r \in Nat, q \in 0 .. Cols - 1 :
                line[i] # Lost /\ Cell(r, q) = PlaceOf(i) => r \in FrameRows /\ screen[r][q] = line[i]

LEMMA CellIs ==
  ASSUME Cols \in Nat, NEW r \in Nat, NEW q \in Int
  PROVE  Cell(r, q) \in Int /\ Cell(r, 0) \in Nat /\ Cell(r, q) = Cell(r, 0) + q
<1>2. r * Cols \in Nat
  BY Z3
<1> QED BY <1>2 DEF Cell

LEMMA NextRow ==
  ASSUME Cols \in Nat, NEW r \in Nat, NEW q \in Int
  PROVE  Cell(r + 1, q) = Cell(r, q) + Cols
<1>2. r * Cols \in Nat /\ (r + 1) * Cols = r * Cols + Cols
  BY Z3
<1> QED BY <1>2 DEF Cell

LEMMA RowOrder ==
  ASSUME Cols \in Nat, NEW r \in Nat, NEW q \in 0 .. Cols - 1, NEW s \in Nat, NEW t \in 0 .. Cols - 1,
         Cell(r, q) <= Cell(s, t)
  PROVE  r <= s
<1> SUFFICES ASSUME r > s PROVE FALSE
  OBVIOUS
<1>2. PICK d \in Nat : r = s + 1 + d
  <2>1. r - s - 1 \in Nat /\ r = s + 1 + (r - s - 1)
    OBVIOUS
  <2> QED BY <2>1
<1>3. (s + 1 + d) * Cols = s * Cols + Cols + d * Cols /\ d * Cols \in Nat /\ s * Cols \in Nat
  BY Z3
<1> QED BY <1>2, <1>3 DEF Cell

LEMMA Divided ==
  ASSUME NEW p \in Nat, NEW w \in Nat \ {0}
  PROVE  \E q \in Nat, r \in 0 .. w - 1 : q = p \div w /\ r = p % w /\ p = q * w + r
<1>1. PICK q \in Nat, r \in 0 .. w - 1 : q = p \div w /\ r = p % w /\ p = w * q + r
  BY Z3
<1>2. w * q = q * w
  BY Z3
<1>3. p = q * w + r
  BY <1>1, <1>2, Zenon
<1> QED BY <1>1, <1>3

LEMMA CellOnce ==
  ASSUME Cols \in Nat, NEW r \in Nat, NEW q \in 0 .. Cols - 1, NEW s \in Nat, NEW t \in 0 .. Cols - 1,
         Cell(r, q) = Cell(s, t)
  PROVE  r = s /\ q = t
<1>1. q \in Int /\ t \in Int
  OBVIOUS
<1>2. Cell(r, q) \in Int /\ Cell(s, t) \in Int
  BY <1>1, CellIs
<1>3. r <= s /\ s <= r
  BY <1>2, RowOrder
<1>4. r = s
  BY <1>3
<1>5. PICK a \in Nat : a = r * Cols
  BY Z3
<1>6. a + q = a + t
  BY <1>4, <1>5 DEF Cell
<1> QED BY <1>1, <1>4, <1>6

(* vga_write_char keeps it so: a character goes to the next cell, and a    *)
(* backspace back by one, over the ends of rows; what stands there already *)
(* moves with the rows when they scroll.                                   *)
LEMMA ShowStep ==
  ASSUME ConsoleAssumption, TypeInv, y < TextRows, LineCells, NEW c \in Chars, PutAll(c),
         line' = LineAfter(c), exiting' = exiting
  PROVE  LineCells'
<1>a. SUFFICES ASSUME ~exiting, NEW i, i \in 1 .. Len(line'), NEW r \in Nat, NEW q \in 0 .. Cols - 1,
                      line'[i] # Lost, Cell(r, q) = PlaceOf(i)'
               PROVE  r \in FrameRows /\ screen'[r][q] = line'[i]
  BY DEF LineCells
<1>b. ~exiting /\ i \in 1 .. Len(line') /\ line'[i] # Lost
  BY <1>a
<1>0. /\ x \in 0 .. Cols /\ y \in Nat /\ y < TextRows /\ Cols \in Nat \ {0} /\ FbRows \in Nat
      /\ TextRows \in Nat /\ TextRows <= FbRows - 1 /\ r \in Nat /\ q \in 0 .. Cols - 1
  BY <1>a, RowsBound DEF TypeInv, CursorType, ConsoleAssumption
<1>c. /\ line \in Seq(Glyphs \cup {Lost}) /\ Len(line) \in Nat
      /\ screen \in [FrameRows -> [0 .. Cols - 1 -> Cells]]
  BY DEF TypeInv, LineType, ScreenType
<1>d. x \in Int /\ y \in Nat /\ Cols \in Nat /\ Cols - 1 \in Int
  BY <1>0
<1>1. c \notin {NewLine, Return}
  <2>1. c \in {NewLine, Return} => line' = <<>>
    BY DEF LineAfter
  <2> QED BY <1>b, <2>1
<1> DEFINE dx == DrawX(c)
           dy == DrawY(c)
           glyph == IF c = Backspace THEN Blank ELSE c
<1>2. /\ x' = IF c \in Glyphs THEN dx + 1 ELSE dx
      /\ \/ dy < TextRows /\ screen' = Drawn(glyph, dx, dy) /\ y' = dy
         \/ dy >= TextRows /\ screen' = Scrolled(Drawn(glyph, dx, dy)) /\ y' = TextRows - 1
  <2>1. dy \in Int
    <3>1. c = Backspace \/ c \in Glyphs
      BY <1>1 DEF Chars
    <3> QED BY <1>0, <1>1, <3>1, CharKinds DEF DrawY
  <2> QED BY <1>0, <1>1, <2>1 DEF PutAll, NeedsScroll
<1>3. Cell(r, q) = Cell(y', x') - (Len(line') - i) - 1
  BY <1>a DEF PlaceOf
<1>4. CASE c \in Glyphs
  <2>1. c # Backspace /\ c # NewLine /\ c # Return
    BY <1>4, CharKinds
  <2>2. /\ dx = IF x = Cols THEN 0 ELSE x
        /\ dy = IF x = Cols THEN y + 1 ELSE y
    BY <1>0, <2>1 DEF DrawX, DrawY
  <2>3. glyph = c /\ dx \in 0 .. Cols - 1 /\ dy \in 0 .. TextRows
    BY <1>0, <2>1, <2>2
  <2>4. Cell(dy, dx) = Cell(y, x)
    <3>1. Cell(y, x) = Cell(y, 0) + x /\ Cell(y, 0) \in Nat
      BY <1>d, CellIs
    <3>2. Cell(y + 1, 0) = Cell(y, 0) + Cols
      BY <1>d, NextRow
    <3> QED BY <1>0, <2>2, <3>1, <3>2
  <2>5. dy \in FrameRows
    BY <1>0, <2>3 DEF FrameRows
  <2>6. Drawn(glyph, dx, dy) = [screen EXCEPT ![dy][dx] = c]
    BY <2>3, <2>5 DEF Drawn, InFrame
  <2>7. PICK g : g = (IF NeedsScroll(dy) THEN Lost ELSE c) /\ line' = Append(line, g)
    BY <2>1 DEF LineAfter
  <2>8. g \in Glyphs \cup {Lost}
    BY <1>4, <2>7
  <2>9. /\ Len(line') = Len(line) + 1
        /\ line'[Len(line) + 1] = g
        /\ i \in 1 .. Len(line) => line'[i] = line[i]
    BY <1>c, <2>7, <2>8
  <2> HIDE DEF dx, dy, glyph
  <2>10. CASE dy < TextRows
    <3>1. screen' = [screen EXCEPT ![dy][dx] = c] /\ y' = dy /\ x' = dx + 1 /\ g = c
      <4>1. ~(dy >= TextRows) /\ ~NeedsScroll(dy)
        BY <1>0, <2>3, <2>10 DEF NeedsScroll
      <4>2. screen' = Drawn(glyph, dx, dy) /\ y' = dy /\ x' = dx + 1
        BY <1>2, <1>4, <4>1
      <4> QED BY <2>6, <2>7, <4>1, <4>2
    <3>2. Cell(y', x') = Cell(dy, dx) + 1 /\ Cell(dy, dx) \in Int
      <4>1. dy \in Nat /\ dx \in Int /\ Cols \in Nat
        BY <1>0, <2>3
      <4>2. PICK n \in Int : n = dx + 1
        BY <4>1
      <4>3. Cell(dy, n) = Cell(dy, 0) + n /\ Cell(dy, 0) \in Int
        BY <4>1, CellIs
      <4>4. Cell(dy, dx) = Cell(dy, 0) + dx
        BY <4>1, CellIs
      <4> QED BY <3>1, <4>1, <4>2, <4>3, <4>4
    <3>3. Cell(r, q) = Cell(y, x) - (Len(line) - i) - 1
      BY <1>b, <1>c, <1>3, <2>4, <2>9, <3>2
    <3>4. CASE i = Len(line) + 1
      <4>1. Cell(r, q) = Cell(dy, dx)
        BY <1>c, <2>4, <3>2, <3>3, <3>4
      <4>2. r = dy /\ q = dx
        BY <2>3, <4>1, CellOnce
      <4> QED BY <1>c, <2>3, <2>5, <2>9, <3>1, <3>4, <4>2
    <3>5. CASE i \in 1 .. Len(line)
      <4>1. Cell(r, q) < Cell(dy, dx)
        BY <1>c, <2>4, <3>2, <3>3, <3>5
      <4>2. ~(r = dy /\ q = dx)
        BY <3>2, <4>1
      <4>3. r \in FrameRows /\ screen[r][q] = line[i]
        BY <1>0, <1>b, <2>9, <3>3, <3>5 DEF LineCells, PlaceOf
      <4>4. screen'[r][q] = screen[r][q]
        BY <1>c, <2>5, <3>1, <4>2, <4>3
      <4> QED BY <2>9, <3>5, <4>3, <4>4
    <3> QED BY <1>c, <1>b, <2>9, <3>4, <3>5
  <2>11. CASE dy = TextRows
    <3>1. screen' = Scrolled(Drawn(glyph, dx, dy)) /\ y' = TextRows - 1 /\ x' = dx + 1 /\ g = Lost
      BY <1>0, <1>2, <1>4, <2>7, <2>11 DEF NeedsScroll
    <3>2. x = Cols /\ y = TextRows - 1 /\ dx = 0
      BY <1>0, <2>2, <2>11
    <3>3. i \in 1 .. Len(line)
      BY <1>c, <1>b, <2>9, <3>1
    <3>4. Cell(y', x') = Cell(y, 0) + 1 /\ Cell(y, x) = Cell(y, 0) + Cols /\ Cell(y, 0) \in Int
      <4>1. y' = y /\ x' = 1 /\ x = Cols
        BY <1>0, <3>1, <3>2
      <4>2. Cell(y, 1) = Cell(y, 0) + 1 /\ Cell(y, 0) \in Nat
        BY <1>d, CellIs
      <4>3. Cell(y, Cols) = Cell(y, 0) + Cols
        BY <1>d, CellIs
      <4> QED BY <4>1, <4>2, <4>3
    <3>5. Cell(r, q) = Cell(y, 0) - (Len(line) - i) - 1
      BY <1>c, <1>3, <2>9, <3>3, <3>4
    <3>6. Cell(r + 1, q) = Cell(r, q) + Cols /\ Cell(r, q) \in Int
      <4>1. q \in Int /\ Cols \in Nat
        BY <1>0
      <4> QED BY <1>0, <4>1, CellIs, NextRow
    <3>7. Cell(r + 1, q) = PlaceOf(i)
      <4>1. PICK a \in Int : a = Cell(y, 0)
        BY <3>4
      <4>2. PICK n \in Nat : n = Len(line) - i
        BY <1>c, <3>3
      <4>3. Cell(r + 1, q) = a - n - 1 + Cols
        BY <3>5, <3>6, <4>1, <4>2
      <4>4. PlaceOf(i) = a + Cols - n - 1
        BY <3>4, <4>1, <4>2 DEF PlaceOf
      <4> QED BY <1>0, <4>3, <4>4
    <3>8. r + 1 \in FrameRows /\ screen[r + 1][q] = line[i]
      BY <1>0, <1>b, <2>9, <3>3, <3>7 DEF LineCells
    <3>9. r < TextRows - 1
      <4>1. Cell(r + 1, q) <= Cell(y, Cols - 1)
        <5>1. Cell(y, Cols - 1) = Cell(y, 0) + (Cols - 1)
          BY <1>d, CellIs
        <5>2. PICK n \in Nat : n = Len(line) - i
          BY <1>c, <3>3
        <5>3. Cell(r + 1, q) = Cell(y, 0) - n - 1 + Cols
          BY <3>5, <3>6, <5>2
        <5> QED BY <1>d, <3>4, <5>1, <5>3
      <4>2. r + 1 <= y
        BY <1>0, <4>1, RowOrder
      <4> QED BY <1>0, <3>2, <4>2
    <3>10. screen'[r] = Drawn(glyph, dx, dy)[r + 1] /\ r \in FrameRows
      BY <1>0, <3>1, <3>8, <3>9 DEF Scrolled, FrameRows
    <3>11. Drawn(glyph, dx, dy)[r + 1] = screen[r + 1]
      BY <1>0, <1>c, <2>6, <2>11, <3>8, <3>9
    <3> QED BY <2>9, <3>3, <3>8, <3>10, <3>11
  <2> QED BY <1>0, <2>3, <2>10, <2>11
<1>5. CASE c = Backspace
  <2>1. line # <<>> /\ line' = SubSeq(line, 1, Len(line) - 1)
    <3>1. line = <<>> => line' = <<>>
      BY <1>5, CharKinds DEF LineAfter
    <3>2. line # <<>>
      BY <1>b, <3>1
    <3> QED BY <1>5, <3>2, LineStep DEF TypeInv
  <2>2. Len(line') = Len(line) - 1 /\ i \in 1 .. Len(line) - 1 /\ line'[i] = line[i]
    BY <1>c, <1>b, <2>1, WithoutLast
  <2>3. /\ dx = IF x > 0 THEN x - 1 ELSE IF y > 0 THEN Cols - 1 ELSE 0
        /\ dy = IF x = 0 /\ y > 0 THEN y - 1 ELSE y
    BY <1>5, CharKinds DEF DrawX, DrawY
  <2>4. dx \in 0 .. Cols - 1 /\ dy \in 0 .. TextRows - 1 /\ dy \in FrameRows
    BY <1>0, <2>3 DEF FrameRows
  <2>5. x' = dx /\ y' = dy /\ screen' = [screen EXCEPT ![dy][dx] = Blank]
    <3>1. c \notin Glyphs /\ glyph = Blank
      BY <1>5, CharKinds
    <3>2. x' = dx /\ y' = dy /\ screen' = Drawn(Blank, dx, dy)
      BY <1>0, <1>2, <2>4, <3>1
    <3> QED BY <2>4, <3>2 DEF Drawn, InFrame
  <2> HIDE DEF dx, dy, glyph
  <2>6. CASE x = 0 /\ y = 0
    <3>1. Cell(y', x') = Cell(0, 0)
      BY <1>0, <2>3, <2>5, <2>6
    <3>2. Cell(0, 0) = 0
      BY <1>0 DEF Cell
    <3>3. Cell(r, q) >= 0
      <4>1. Cell(r, q) = Cell(r, 0) + q /\ Cell(r, 0) >= 0 /\ Cell(r, 0) \in Int
        BY <1>0, CellIs
      <4> QED BY <4>1
    <3> QED BY <1>0, <1>c, <1>3, <2>2, <3>1, <3>2, <3>3
  <2>7. CASE ~(x = 0 /\ y = 0)
    <3>1. Cell(dy, dx) = Cell(y, x) - 1 /\ Cell(y, x) \in Int
      <4>1. CASE x > 0
        <5>1. PICK n \in Int : n = x - 1
          BY <1>0
        <5>2. x \in Int /\ y \in Nat /\ Cols \in Nat
          BY <1>0
        <5>3. Cell(y, n) = Cell(y, 0) + n /\ Cell(y, 0) \in Int
          BY <5>2, CellIs
        <5>4. Cell(y, x) = Cell(y, 0) + x
          BY <5>2, CellIs
        <5> QED BY <2>3, <4>1, <5>1, <5>2, <5>3, <5>4
      <4>2. CASE x = 0
        <5>1. y - 1 \in Nat /\ y - 1 + 1 = y
          BY <1>0, <2>7, <4>2
        <5>2. PICK b \in Nat : b = y - 1 /\ b + 1 = y
          BY <5>1
        <5>3. Cell(b, Cols - 1) = Cell(b, 0) + (Cols - 1) /\ Cell(b, 0) \in Int
          <6>1. Cols - 1 \in Int
            BY <1>0
          <6> QED BY <6>1, CellIs
        <5>4. Cell(b + 1, 0) = Cell(b, 0) + Cols
          BY NextRow
        <5>5. Cell(dy, dx) = Cell(b, Cols - 1)
          BY <1>0, <2>3, <2>7, <4>2, <5>2
        <5> QED BY <1>0, <4>2, <5>2, <5>3, <5>4, <5>5
      <4> QED BY <1>0, <4>1, <4>2
    <3>2. Cell(r, q) = Cell(y, x) - (Len(line) - i) - 1
      BY <1>c, <1>3, <2>2, <2>5, <3>1
    <3>3. ~(r = dy /\ q = dx)
      <4>1. Cell(r, q) < Cell(dy, dx)
        BY <1>c, <2>2, <3>1, <3>2
      <4>2. Cell(dy, dx) \in Int
        BY <3>1
      <4> QED BY <4>1, <4>2
    <3>4. r \in FrameRows /\ screen[r][q] = line[i]
      BY <1>0, <1>b, <1>c, <2>2, <3>2 DEF LineCells, PlaceOf
    <3>5. screen'[r][q] = screen[r][q]
      BY <1>c, <2>4, <2>5, <3>3, <3>4
    <3> QED BY <2>2, <3>4, <3>5
  <2> QED BY <2>6, <2>7
<1> QED BY <1>1, <1>4, <1>5 DEF Chars

ShownInv == CursorInv /\ TypeInv /\ LineCells

LEMMA TelemetryBelow ==
  ASSUME ConsoleAssumption, TypeInv, y < TextRows, LineCells, TelemetryUpdate
  PROVE  LineCells'
<1>1. /\ x \in 0 .. Cols /\ y \in Nat /\ Cols \in Nat \ {0} /\ FbRows \in Nat
      /\ TextRows \in Nat /\ TextRows <= FbRows - 1
  BY RowsBound DEF TypeInv, CursorType, ConsoleAssumption
<1>2. /\ line \in Seq(Glyphs \cup {Lost}) /\ screen \in [FrameRows -> [0 .. Cols - 1 -> Cells]]
      /\ ~exiting /\ UNCHANGED <<x, y, line, exiting>>
      /\ screen' = [screen EXCEPT ![FbRows - 1] = [c \in 0 .. Cols - 1 |-> Telemetry]]
  BY DEF TypeInv, LineType, ScreenType, TelemetryUpdate, Running
<1>b. \A i : PlaceOf(i)' = PlaceOf(i)
  BY <1>2 DEF PlaceOf
<1>c. Len(line') = Len(line) /\ line' = line /\ \A r, q : Cell(r, q)' = Cell(r, q)
  BY <1>2 DEF Cell
<1>a. SUFFICES ASSUME NEW i, i \in 1 .. Len(line), NEW r \in Nat, NEW q \in 0 .. Cols - 1,
                      line[i] # Lost, Cell(r, q) = PlaceOf(i)
               PROVE  r \in FrameRows /\ screen'[r][q] = line[i]
  BY <1>b, <1>c DEF LineCells
<1>3. r \in FrameRows /\ screen[r][q] = line[i]
  BY <1>a, <1>2 DEF LineCells
<1>4. r # FbRows - 1
  <2>1. PICK e \in 0 .. Cols - 1 : e = Cols - 1
    BY <1>1
  <2>2. PICK n \in Nat : Cell(r, q) = Cell(y, x) - n - 1
    <3>1. Len(line) - i \in Nat
      BY <1>a, <1>2
    <3> QED BY <1>a, <3>1 DEF PlaceOf
  <2>3. Cell(y, x) = Cell(y, 0) + x /\ Cell(y, 0) \in Int
    BY <1>1, CellIs
  <2>4. Cell(y, e) = Cell(y, 0) + e
    BY <1>1, CellIs
  <2>5. Cell(r, q) <= Cell(y, e)
    BY <1>1, <2>1, <2>2, <2>3, <2>4
  <2>6. r <= y
    BY <1>1, <2>1, <2>5, RowOrder
  <2> QED BY <1>1, <2>6
<1> QED BY <1>2, <1>3, <1>4

LEMMA InitShown == ASSUME ConsoleAssumption, Init PROVE ShownInv
<1>1. LineCells
  <2>1. line = <<>>
    BY DEF Init
  <2> QED BY <2>1 DEF LineCells
<1> QED BY <1>1, InitCursor, InitTypes DEF ShownInv

LEMMA ShownStep ==
  ASSUME ConsoleAssumption, ShownInv, [Next]_vars
  PROVE  LineCells'
<1>0. TypeInv /\ LineCells /\ (~exiting => y < TextRows)
  BY DEF ShownInv, CursorInv, DrawsInFrame
<1>1. ASSUME NEW c \in Glyphs \cup {NewLine, Return}, PrintChar(c) PROVE LineCells'
  <2>1. c \in Chars /\ ~exiting /\ PutAll(c) /\ line' = LineAfter(c) /\ exiting' = exiting
    BY <1>1 DEF PrintChar, Put, Chars, Running
  <2> QED BY <1>0, <2>1, ShowStep
<1>2. CASE TelemetryUpdate
  BY <1>0, <1>2, TelemetryBelow DEF TelemetryUpdate, Running
<1>3. CASE InputStart \/ ShiftKey \/ Escape \/ UNCHANGED vars
  <2>1. UNCHANGED <<x, y, screen, line, exiting>>
    BY <1>3 DEF InputStart, ShiftKey, Escape, vars
  <2> QED BY <1>0, <2>1 DEF LineCells, PlaceOf
<1>4. CASE Erase
  <2>1. Backspace \in Chars /\ ~exiting /\ PutAll(Backspace) /\ line' = LineAfter(Backspace) /\ exiting' = exiting
    BY <1>4 DEF Erase, Put, Chars, Running
  <2> QED BY <1>0, <2>1, ShowStep
<1>5. CASE InputEnd
  <2>1. NewLine \in Chars /\ ~exiting /\ PutAll(NewLine) /\ line' = LineAfter(NewLine) /\ exiting' = exiting
    BY <1>5 DEF InputEnd, Put, Chars, Running
  <2> QED BY <1>0, <2>1, ShowStep
<1>6. ASSUME NEW k \in Keys, Type(k) PROVE LineCells'
  <2>1. <<k, shift>> \in Chars
    BY <1>0 DEF TypeInv, CursorType, Chars, Glyphs
  <2>2. ~exiting /\ PutAll(<<k, shift>>) /\ line' = LineAfter(<<k, shift>>) /\ exiting' = exiting
    BY <1>6 DEF Type, Put, Running
  <2> QED BY <1>0, <2>1, <2>2, ShowStep
<1>7. CASE Shutdown
  BY <1>7 DEF Shutdown, LineCells
<1>8. CASE PutNext
  <2>1. todo # <<>> /\ PutAll(Head(todo)) /\ line' = LineAfter(Head(todo)) /\ exiting' = exiting
    BY <1>8 DEF PutNext, Put
  <2>2. Head(todo) \in Chars
    BY <1>0, <2>1 DEF TypeInv, CursorType, Chars
  <2>3. CASE exiting
    BY <2>1, <2>3 DEF LineCells
  <2>4. CASE ~exiting
    BY <1>0, <2>1, <2>2, <2>4, ShowStep
  <2> QED BY <2>3, <2>4
<1> QED BY <1>1, <1>2, <1>3, <1>4, <1>5, <1>6, <1>7, <1>8 DEF Next

(* What was printed since the last line break stands on the screen before  *)
(* the cursor, cell by cell, for any size of the screen and over any       *)
(* wraps, scrolls and backspaces: all of it that has not scrolled off the  *)
(* top or wrapped off the last row (vga_write_char).                       *)
THEOREM LineShownHolds == ASSUME ConsoleAssumption PROVE Spec => []LineShown
<1>1. Init => ShownInv
  BY InitShown
<1>2. ShownInv /\ [Next]_vars => ShownInv'
  BY ShownStep, TypeStep, CursorStep DEF ShownInv, CursorInv, TypeInv
<1>3. ShownInv => LineShown
  <2>1. SUFFICES ASSUME TypeInv, LineCells, ~exiting, NEW i, i \in 1 .. Len(line),
                        y * Cols + x - (Len(line) - i) - 1 >= 0, line[i] # Lost
                 PROVE  LET p == y * Cols + x - (Len(line) - i) - 1
                        IN  screen[p \div Cols][p % Cols] = line[i]
    BY DEF ShownInv, LineShown
  <2>2. Cols \in Nat \ {0} /\ x \in Int /\ y \in Nat /\ line \in Seq(Glyphs \cup {Lost})
    BY <2>1 DEF TypeInv, CursorType, LineType, ConsoleAssumption
  <2>3. PICK a \in Nat : a = y * Cols
    BY <2>2, Z3
  <2>4. PICK n \in Int : n = Len(line) - i
    BY <2>1, <2>2
  <2>5. y * Cols + x - (Len(line) - i) - 1 = a + x - n - 1
    BY <2>3, <2>4, Zenon
  <2>6. PICK p \in Nat : p = a + x - n - 1
    <3>1. a + x - n - 1 \in Int
      BY <2>2
    <3>2. a + x - n - 1 >= 0
      BY <2>1, <2>5, Zenon
    <3> QED BY <3>1, <3>2
  <2>7. PICK q \in Nat, r \in 0 .. Cols - 1 : q = p \div Cols /\ r = p % Cols /\ p = q * Cols + r
    BY <2>2, Divided
  <2>8. Cell(q, r) = PlaceOf(i)
    <3>1. Cell(y, x) = a + x /\ Cell(q, r) = p
      BY <2>3, <2>7, Zenon DEF Cell
    <3> QED BY <2>2, <2>4, <2>6, <3>1 DEF PlaceOf
  <2>9. screen[q][r] = line[i]
    BY <2>1, <2>8 DEF LineCells
  <2> QED BY <2>5, <2>6, <2>7, <2>9, Zenon
<1> QED BY <1>1, <1>2, <1>3, PTL DEF Spec
=============================================================================

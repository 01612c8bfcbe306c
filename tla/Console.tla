------------------------------ MODULE Console ------------------------------
(***************************************************************************)
(* The console that printk and Log write to (src/kernel/console.cpp). It   *)
(* begins on the screen itself, where a scroll redraws everything from a   *)
(* buffer of the text; InitializeLayer gives it a window, which is redrawn *)
(* once from the buffer and from then on scrolled by moving its pixels.    *)
(*                                                                         *)
(* A cell of the screen or the window is the set of the glyphs that have   *)
(* been drawn there since it was filled: a glyph is drawn over what is     *)
(* there. An operator named _Mutant is what a plausible slip would have    *)
(* made of the definition after it; nothing refers to it.                  *)
(***************************************************************************)
EXTENDS Integers

CONSTANTS Rows, Columns, Chars, Glyphs  \* see Terminal

Nul == "nul"

\* A string ends at its Nul, which is therefore none of its characters.
ASSUME ConsoleAssumption ==
  /\ {Rows, Columns} \subseteq Nat \ {0}
  /\ Glyphs \subseteq Chars /\ Nul \notin Chars

VARIABLES
  buffer,         \* buffer_: the characters of each row, up to a Nul
  cursor_row,
  cursor_column,
  has_window,     \* window_ is set, and the layers have been made
  frame_buffer,   \* what screen_writer draws to
  window,         \* what the writer of console_window draws to
  printing        \* whether PutString is under way

console_vars == <<buffer, cursor_row, cursor_column, has_window, frame_buffer, window, printing>>

RowSet == 0..(Rows - 1)
ColumnSet == 0..(Columns - 1)

BgWindow == "bgwindow"

Blank == [r \in RowSet |-> [c \in ColumnSet |-> {}]]
Covered == [r \in RowSet |-> [c \in ColumnSet |-> {BgWindow}]]
EmptyRow == [i \in 0..Columns |-> Nul]

\* What WriteString draws on cells that have been filled; a character without a
\* glyph, as a byte of a Japanese one, leaves its cell alone.
Drawn(string) ==
  [c \in ColumnSet |-> IF \A i \in 0..c : string[i] # Nul THEN {string[c]} \cap Glyphs ELSE {}]

\* InitializeConsole.
ConsoleInit ==
  /\ buffer = [r \in RowSet |-> EmptyRow]
  /\ cursor_row = 0 /\ cursor_column = 0
  /\ has_window = FALSE
  /\ frame_buffer = Blank /\ window = Blank
  /\ printing = FALSE

\* What the writer draws to becomes so.
Write(pixels) ==
  IF has_window THEN window' = pixels /\ UNCHANGED frame_buffer
                ELSE frame_buffer' = pixels /\ UNCHANGED window

Display == IF has_window THEN window ELSE frame_buffer

\* A character of PutString; what does not fit in the row is dropped.
PutChar ==
  /\ printing' = TRUE
  /\ cursor_column < Columns - 1
  /\ \E char \in Chars :
       /\ Write([Display EXCEPT ![cursor_row][cursor_column] = @ \cup ({char} \cap Glyphs)])
       /\ buffer' = [buffer EXCEPT ![cursor_row][cursor_column] = char]
  /\ cursor_column' = cursor_column + 1
  /\ UNCHANGED <<cursor_row, has_window>>

DropChar ==
  /\ printing' = TRUE
  /\ cursor_column >= Columns - 1
  /\ UNCHANGED <<buffer, cursor_row, cursor_column, has_window, frame_buffer, window>>

\* FrameBuffer::Move, line by line in an order in which none is overwritten
\* before it has been copied.
Move(pixels, to, from, height) ==
  LET line(n) == IF to < from THEN n - 1 ELSE height - n
      copied[n \in 0..height] ==
        IF n = 0 THEN pixels
        ELSE [copied[n - 1] EXCEPT ![to + line(n)] = copied[n - 1][from + line(n)]]
  IN  copied[height]

\* The row that has come free at the bottom keeps its text.
Scroll_Mutant ==
  IF has_window
    THEN /\ Write([Move(window, 0, 1, Rows - 1) EXCEPT ![Rows - 1] = [c \in ColumnSet |-> {}]])
         /\ UNCHANGED buffer
    ELSE /\ buffer' = [r \in RowSet |-> IF r < Rows - 1 THEN buffer[r + 1] ELSE buffer[r]]
         /\ Write([r \in RowSet |-> IF r < Rows - 1 THEN Drawn(buffer'[r]) ELSE [c \in ColumnSet |-> {}]])

\* With a window the buffer is left as it is.
Scroll ==
  IF has_window
    THEN /\ Write([Move(window, 0, 1, Rows - 1) EXCEPT ![Rows - 1] = [c \in ColumnSet |-> {}]])
         /\ UNCHANGED buffer
    ELSE /\ buffer' = [r \in RowSet |-> IF r < Rows - 1 THEN buffer[r + 1] ELSE EmptyRow]
         /\ Write([r \in RowSet |-> IF r < Rows - 1 THEN Drawn(buffer'[r]) ELSE [c \in ColumnSet |-> {}]])

Newline ==
  /\ printing' = TRUE
  /\ cursor_column' = 0
  /\ IF cursor_row < Rows - 1
       THEN cursor_row' = cursor_row + 1 /\ UNCHANGED <<buffer, frame_buffer, window>>
       ELSE Scroll /\ UNCHANGED cursor_row
  /\ UNCHANGED has_window

\* The end of PutString has the layers drawn from the console's own on, and that
\* shows the desktop: it was given bgwindow.
FinishString ==
  /\ printing
  /\ printing' = FALSE
  /\ frame_buffer' = IF has_window THEN Covered ELSE frame_buffer
  /\ UNCHANGED <<buffer, cursor_row, cursor_column, has_window, window>>

\* SetWindow with its Refresh, as part of InitializeLayer, and the first Draw.
SetWindow ==
  /\ ~has_window /\ ~printing
  /\ has_window' = TRUE
  /\ window' = [r \in RowSet |-> Drawn(buffer[r])]
  /\ frame_buffer' = Covered
  /\ UNCHANGED <<buffer, cursor_row, cursor_column, printing>>

ConsoleNext == PutChar \/ DropChar \/ Newline \/ FinishString \/ SetWindow

ConsoleSpec == ConsoleInit /\ [][ConsoleNext]_console_vars

-----------------------------------------------------------------------------
(* Properties.                                                             *)

T == INSTANCE Terminal WITH text <- Display, row <- cursor_row, column <- cursor_column

\* On the screen and in the window, and over the change from one to the other,
\* the console shows the last lines of what has been printed, no row with the
\* remains of another in it.
ImplementsTerminal == T!Spec

=============================================================================

------------------------------ MODULE Terminal ------------------------------
(***************************************************************************)
(* What the kernel's console promises (src/kernel/console.hpp:16-49): text *)
(* in rows and columns, every cell with at most one glyph, that moves up   *)
(* by a row when the last one is full.                                     *)
(***************************************************************************)
EXTENDS Integers

CONSTANTS
  Rows,     \* kRows
  Columns,  \* kColumns
  Chars,    \* characters but for the line feed
  Glyphs    \* those that the font has something to draw for

VARIABLES
  text,    \* glyphs at each row and column
  row,     \* where the next character goes
  column

RowSet == 0..(Rows - 1)
ColumnSet == 0..(Columns - 1)
BlankLine == [c \in ColumnSet |-> {}]

Init ==
  /\ text = [r \in RowSet |-> BlankLine]
  /\ row = 0 /\ column = 0

Show(char) ==
  /\ column < Columns - 1
  /\ text' = [text EXCEPT ![row][column] = {char} \cap Glyphs]
  /\ column' = column + 1
  /\ UNCHANGED row

NextLine ==
  /\ column' = 0
  /\ IF row < Rows - 1
       THEN row' = row + 1 /\ UNCHANGED text
       ELSE /\ text' = [r \in RowSet |-> IF r < Rows - 1 THEN text[r + 1] ELSE BlankLine]
            /\ UNCHANGED row

Next == NextLine \/ \E char \in Chars : Show(char)

Spec == Init /\ [][Next]_<<text, row, column>>

=============================================================================

---------------------------- MODULE TestDataTable ----------------------------
(***************************************************************************)
(* evil::TestDataTable, a table of cells and a cursor, as a record: each   *)
(* operator is the table after the method of that name.  Indices count     *)
(* from 0, as in the code.  Writing a cell of a row that is not there is   *)
(* undefined behaviour: the record remembers it in outside.                *)
(*                                                                         *)
(* A definition named X_Y is X with the slip Y; nothing uses it.           *)
(***************************************************************************)
EXTENDS Integers, Sequences

(* T(), what a new cell holds. *)
Blank == [text |-> "", width |-> 0]

NewTable(cols) == [mTable |-> <<>>, miCols |-> cols, miColIndex |-> 0,
                   miRowIndex |-> 0, outside |-> FALSE]

Cols(t) == t.miCols
Rows(t) == Len(t.mTable)

Get(t, row, col) == t.mTable[row + 1][col + 1]

Set(t, row, col, s) ==
  IF row < Rows(t) /\ col < Cols(t)
  THEN [t EXCEPT !.mTable[row + 1][col + 1] = s]
  ELSE [t EXCEPT !.outside = TRUE]

InsertRow(t) == [t EXCEPT !.mTable = Append(@, [c \in 1..Cols(t) |-> Blank])]

NextCol_NoWrap(t) ==
  [t EXCEPT !.miColIndex = IF @ + 1 > Cols(t) THEN 0 ELSE @ + 1]

NextCol(t) ==
  [t EXCEPT !.miColIndex = IF @ + 1 >= Cols(t) THEN 0 ELSE @ + 1]

InsertCell(t, s) ==
  NextCol(IF t.miColIndex < Cols(t)
          THEN Set(t, t.miRowIndex, t.miColIndex, s) ELSE t)

(* The test lets the cursor go one row past the last. *)
NextRow(t) ==
  IF t.miRowIndex < Rows(t)
  THEN [t EXCEPT !.miRowIndex = @ + 1, !.miColIndex = 0] ELSE t

(* Nothing in the harness calls the last three. *)
NewRow(t) == InsertRow(t)
Reset(t)  == [t EXCEPT !.miColIndex = 0, !.miRowIndex = 0]
Clear(t)  == [Reset(t) EXCEPT !.mTable = <<>>]
=============================================================================

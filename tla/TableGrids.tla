----------------------------- MODULE TableGrids -----------------------------
(***************************************************************************)
(* The grid of an ACAD_TABLE: the C shim flattens the record's cells, and  *)
(* `convert_table_grid` goes through them row by row.  A grid is handed    *)
(* out whole or not at all: a consumer takes a cell with no text for an    *)
(* empty one, so a grid that says less than the record must not be made.   *)
(***************************************************************************)
EXTENDS Naturals, Sequences

CONSTANTS
  Tables,    \* tables as LibreDWG holds them: see TableType
  MaxCells   \* the shim's limit: a count past it is not a table

(* A cell's strings; a string that is not there or empty is no text.       *)
Strings == {"null", "empty", "text", "value", "data"}
CellType ==
  [type : 0 .. 3, merged : BOOLEAN, columns : Nat, rows : Nat,
   text_value : Strings, data_type : {"none", "string", "other"}, value_string : Strings, data_string : Strings]

(* The counts, and the arrays that were decoded with them.                 *)
TableType == [rows : Nat, cols : Nat, widths : Nat, heights : Nat, cells : Seq(CellType)]

VARIABLES
  table,
  phase,    \* "counts", "cells", "done"
  read,     \* the cells gone through, as the model holds them
  unread,   \* how many of them hold a value and yielded no text
  result    \* "none", "grid" or "pending", and the warnings given

vars == <<table, phase, read, unread, result>>

Pending == [grid |-> "pending", warned |-> {}]
None == [grid |-> "none", warned |-> {}]
NoneBecause(w) == [grid |-> "none", warned |-> {w}]

Init ==
  /\ table \in Tables
  /\ phase = "counts" /\ read = <<>> /\ unread = 0 /\ result = Pending

-----------------------------------------------------------------------------
Count == table.rows * table.cols

(* What `uncad_table_get_cells` can return: no cells when there is nothing *)
(* to copy, too much of it, or no memory for it.                           *)
CellCounts == IF table.cells = <<>> \/ Count > MaxCells THEN {0} ELSE {0, Count}

(* The record states no rows or no columns: no grid, and no warning.       *)
NoGridStated ==
  /\ phase = "counts" /\ Count = 0
  /\ phase' = "done" /\ result' = None
  /\ UNCHANGED <<table, read, unread>>

CopyCells ==
  /\ phase = "counts" /\ Count # 0
  /\ \E len \in CellCounts :
       IF table.widths = table.cols /\ table.heights = table.rows /\ len = Count
       THEN phase' = "cells" /\ UNCHANGED result
       ELSE phase' = "done" /\ result' = NoneBecause("TABLE_GRID")
  /\ UNCHANGED <<table, read, unread>>

(* The cell the loops are at, and where it is.                             *)
Cell == table.cells[Len(read) + 1]
Row == Len(read) \div table.cols
Column == Len(read) % table.cols
ReadingCell == phase = "cells" /\ Len(read) < Count

SpanStaysInside ==
  /\ Cell.columns # 0 /\ Cell.rows # 0
  /\ Column + Cell.columns <= table.cols /\ Row + Cell.rows <= table.rows

SpanLeavesTheGrid ==
  /\ ReadingCell /\ ~SpanStaysInside
  /\ phase' = "done" /\ result' = NoneBecause("TABLE_GRID")
  /\ UNCHANGED <<table, read, unread>>

IsText(s) == s \notin {"null", "empty"}
Kind(cell) == CASE cell.type = 1 -> "text" [] cell.type = 2 -> "block" [] OTHER -> "none"

(* A slip: the value's string is taken for a text whatever the value is.   *)
ValueText(cell) ==
  CASE Kind(cell) = "block" -> "null"
    [] Kind(cell) # "block" /\ IsText(cell.text_value) -> cell.text_value
    [] OTHER -> cell.data_string

(* The text of a cell: its own, or its value's string where that is one.   *)
CellText(cell) ==
  CASE Kind(cell) = "block" -> "null"
    [] Kind(cell) # "block" /\ IsText(cell.text_value) -> cell.text_value
    [] OTHER ->
         CASE cell.data_type # "string" -> "null"
           [] cell.data_type = "string" /\ IsText(cell.value_string) -> cell.value_string
           [] OTHER -> IF IsText(cell.data_string) THEN cell.data_string ELSE "null"

IsUnread(cell) == Kind(cell) # "block" /\ CellText(cell) = "null" /\ cell.data_type # "none"

ReadCell ==
  /\ ReadingCell /\ SpanStaysInside
  /\ read' = Append(read, [kind |-> Kind(Cell), text |-> CellText(Cell), covered |-> Cell.merged,
                           columns |-> Cell.columns, rows |-> Cell.rows])
  /\ unread' = IF IsUnread(Cell) THEN unread + 1 ELSE unread
  /\ UNCHANGED <<table, phase, result>>

FinishGrid ==
  /\ phase = "cells" /\ Len(read) = Count
  /\ phase' = "done"
  /\ result' = IF unread > 0 THEN NoneBecause("TABLE_CELL_TEXT") ELSE [grid |-> "grid", warned |-> {}]
  /\ UNCHANGED <<table, read, unread>>

Next == NoGridStated \/ CopyCells \/ SpanLeavesTheGrid \/ ReadCell \/ FinishGrid

Spec == Init /\ [][Next]_vars
-----------------------------------------------------------------------------
TypeOK ==
  /\ phase \in {"counts", "cells", "done"} /\ Len(read) <= Count /\ unread <= Len(read)
  /\ result \in [grid : {"pending", "none", "grid"}, warned : SUBSET {"TABLE_GRID", "TABLE_CELL_TEXT"}]

(* A cell of the model says no less than the record's: what the record has *)
(* of text in it, or of a value, is its text; only a block has none.       *)
SaysWhatIsStated(cell, stated) ==
  LET Texts == {s \in {stated.text_value, stated.value_string, stated.data_string} : IsText(s)}
  IN  \/ stated.type = 2
      \/ IsText(stated.text_value) /\ cell.text = stated.text_value
      \/ ~IsText(stated.text_value) /\ stated.data_type = "string" /\ cell.text \in Texts
      \/ ~IsText(stated.text_value) /\ stated.data_type = "none" /\ cell.text = "null"

(* A grid is handed out whole, each cell with all the record says of it and*)
(* its span inside the grid; where none is, a warning says so, unless the  *)
(* record states no rows or no columns.                                    *)
GridIsWholeOrWarned ==
  phase = "done" =>
    CASE result.grid = "grid" ->
           /\ Len(read) = table.rows * table.cols /\ read # <<>>
           /\ \A n \in DOMAIN read :
                LET row == (n - 1) \div table.cols
                    column == (n - 1) % table.cols
                IN  /\ SaysWhatIsStated(read[n], table.cells[n])
                    /\ column + read[n].columns \in (column + 1) .. table.cols
                    /\ row + read[n].rows \in (row + 1) .. table.rows
      [] OTHER -> result.warned # {} \/ table.rows * table.cols = 0
=============================================================================

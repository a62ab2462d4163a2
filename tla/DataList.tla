------------------------------- MODULE DataList ------------------------------
(***************************************************************************)
(* Class DataList, the result of a query that returns rows: columns are    *)
(* added first, then rows, the list is completed, and read from the top.   *)
(* An operation asserts that it comes in its phase; once an ASSERT has     *)
(* failed the process is gone, which "ok" says.                            *)
(*                                                                         *)
(* A list belongs to one thread, so the operations are operators on its    *)
(* value.  Columns are numbered from 0, as in the code.                    *)
(***************************************************************************)
EXTENDS Integers, Sequences, SequencesExt

NewList ==
  [columns |-> <<>>, rows |-> <<>>, complete |-> FALSE, currentRow |-> -1,
   ok |-> TRUE]

Asserting(list, holds, next) ==
  IF list.ok /\ holds THEN next ELSE [list EXCEPT !.ok = FALSE]

AddColumn(list, name) ==
  Asserting(list, ~list.complete /\ list.rows = <<>>,
            [list EXCEPT !.columns = Append(@, name)])

\* Every item of a new row is the integer 0.
AddRow(list) ==
  Asserting(list, list.currentRow < 0 /\ list.columns # <<>>,
            [list EXCEPT !.rows = Append(@, [i \in DOMAIN list.columns |-> 0])])

AddData(list, index, value) ==
  Asserting(list,
            /\ list.currentRow < 0
            /\ list.rows # <<>>
            /\ index \in 0..(Len(list.columns) - 1),
            [list EXCEPT !.rows[Len(list.rows)][index + 1] = value])

\* The cursor is not set back, whatever the comment says: it has not moved.
Complete(list) ==
  Asserting(list, ~list.complete, [list EXCEPT !.complete = TRUE])

\* The cursor may go one row past the last, and no further.
NextRow(list) ==
  Asserting(list, list.currentRow + 1 <= Len(list.rows),
            [list EXCEPT !.currentRow = @ + 1])

\* Fault: the row after the last is taken for one.
OnRowOrPast(list) == list.ok /\ list.currentRow <= Len(list.rows)

\* What NextRow returns.
OnRow(list) == list.ok /\ list.currentRow < Len(list.rows)

GetIndex(list, name) ==
  LET found == {i \in DOMAIN list.columns : list.columns[i] = name}
  IN  IF found = {} THEN -1 ELSE Min(found) - 1

\* GetInt does not fail.
HasInt(list, name) ==
  /\ GetIndex(list, name) >= 0
  /\ list.currentRow \in 0..(Len(list.rows) - 1)

GetInt(list, name) == list.rows[list.currentRow + 1][GetIndex(list, name) + 1]

\* The list DataModel makes of the rows of a query with one column: what it
\* has after the first of them, by their number, and at the end.
Filled(name, values) ==
  LET filled[n \in 0..Len(values)] ==
        IF n = 0 THEN AddColumn(NewList, name)
                 ELSE AddData(AddRow(filled[n - 1]), 0, values[n])
  IN  filled

QueryResult(name, values) == Complete(Filled(name, values)[Len(values)])
==============================================================================

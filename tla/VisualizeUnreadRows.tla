-------------------------- MODULE VisualizeUnreadRows --------------------------
(***************************************************************************)
(* The rows of a file that add_file (src/visualize_benchmarks.py) never    *)
(* reads.  When float() raises TypeError on a None cell of a short row, or *)
(* on the surplus list of an over-long row, the exception leaves the cell  *)
(* loop and the row loop and is caught by the outer except: the rest of    *)
(* the file stays unread.  This module lets such a file go on with more    *)
(* rows after add_file has returned, and records in the ghost variable     *)
(* lost the triples whose numeric cells those rows carried.                *)
(***************************************************************************)
EXTENDS MCVisualizeBenchmarks

VARIABLES aborted,  \* the last add_file left the file on a TypeError
          lost      \* <<release, dataset, metric>> of cells never read

ghostVars == <<aborted, lost>>
allVars == <<vars, ghostVars>>

GhostInit == aborted = FALSE /\ lost = {}

(* A row after the one that raised: add_file has returned, nothing is     *)
(* stored, but a reading of the whole file would have stored its cells.   *)
UnreadRow(row) ==
    /\ pc = "main"
    /\ aborted
    /\ rowsRead < MaxRows
    /\ rowsRead' = rowsRead + 1
    /\ lost' = lost \cup { <<file, row.dataset, Header[k]>> : k \in NumericCells(row) }
    /\ UNCHANGED <<threshold, releases, data, datasets, metrics, pc, filesLeft, file,
                   changes, aggregated, outputVars, aborted>>

NextWithUnread ==
    \/ \E r \in Releases : AddFile(r) /\ aborted' = FALSE /\ UNCHANGED lost
    \/ \E row \in Rows :
          /\ ReadRow(row)
          /\ aborted' = RaisesTypeError(row)
          /\ UNCHANGED lost
    \/ \E row \in Rows : UnreadRow(row)
    \/ (OpenFile \/ OpenFails \/ EndOfFile \/ Analyse) /\ UNCHANGED ghostVars

SpecWithUnread == Init /\ GhostInit /\ [][NextWithUnread]_allVars

(* Spec 4.1 and 7: a cell that does not parse is dropped on its own and   *)
(* never stops the remaining cells or rows of the file, so every numeric  *)
(* cell of a row with a dataset ends up in the store.                     *)
UnparsedCellDropsOnlyItself ==
    \A t \in lost : data[t[1]][t[2]][t[3]] # NoValue

=============================================================================

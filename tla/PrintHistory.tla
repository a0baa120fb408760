---------------------------- MODULE PrintHistory ----------------------------
(***************************************************************************)
(* The print history table: apps/server/src/history.ts (SqliteHistory).    *)
(*                                                                         *)
(* The table is the sequence of its rows in id order.  A row keeps what    *)
(* the queries look at: the task, the outcome, and whether started_at and  *)
(* finished_at hold a time (the times themselves are never compared).      *)
(* node:sqlite is synchronous, so every call of the class is one           *)
(* indivisible change of the table and is an operator from table to table. *)
(* PostgresHistory, whose calls are several awaited queries, is the        *)
(* module of that name.                                                    *)
(***************************************************************************)
EXTENDS Naturals, Sequences

CONSTANTS
  Tasks,      \* the task ids the printer hands out
  NoTask      \* no task id: undefined, or the empty string

ASSUME NoTaskAssumption == NoTask \notin Tasks

TaskIds == Tasks \union {NoTask}

Outcomes == {"printing", "complete", "stopped"}

Row == [task : TaskIds, outcome : Outcomes, started : BOOLEAN, finished : BOOLEAN]

(* The predicate OPEN the queries share. *)
IsOpen(row) == ~row.finished /\ row.outcome = "printing"

RowsOf(table, t) == {i \in DOMAIN table : table[i].task = t}

OpenRows(table) == {i \in DOMAIN table : IsOpen(table[i])}

(* A row given its outcome, and one given its outcome and a finish time. *)
Settled(row, outcome) == [row EXCEPT !.outcome = outcome]

Closed(row, outcome) ==
  [task |-> row.task, outcome |-> outcome, started |-> row.started, finished |-> TRUE]

OpenRowFor(table, t) == \E i \in RowsOf(table, t) : IsOpen(table[i])

-----------------------------------------------------------------------------
(* Faulty variants of the operations, used to check that the properties    *)
(* notice them; no specification uses these.                               *)

StartPrintNoCheck(table, t) ==
  Append(table, [task |-> t, outcome |-> "printing", started |-> TRUE, finished |-> FALSE])

FinishPrintAnyTask(table, t, outcome) ==
  [i \in DOMAIN table |->
     IF IsOpen(table[i]) THEN Closed(table[i], outcome) ELSE table[i]]

FinishPrintNotOnlyOpen(table, t, outcome) ==
  [i \in DOMAIN table |->
     IF table[i].task = t THEN Closed(table[i], outcome) ELSE table[i]]

-----------------------------------------------------------------------------
(* startPrint: an open row of the same task wins over a second one. *)
StartPrint(table, t) ==
  IF t # NoTask /\ OpenRowFor(table, t)
  THEN table
  ELSE Append(table, [task |-> t, outcome |-> "printing", started |-> TRUE, finished |-> FALSE])

(* finishPrint: with a task id, that task's open rows; without one, the    *)
(* newest open row of all.                                                 *)
FinishPrint(table, t, outcome) ==
  LET closes(i) == /\ i \in OpenRows(table)
                   /\ IF t # NoTask THEN table[i].task = t
                      ELSE \A j \in OpenRows(table) : j <= i
  IN  [i \in DOMAIN table |->
         IF closes(i) THEN Closed(table[i], outcome) ELSE table[i]]

(* recordFinished: settles the open row, leaving its finish time null;     *)
(* otherwise adds a row unless the task has one already.                   *)
RecordFinished(table, t, outcome) ==
  CASE OpenRowFor(table, t) ->
         [i \in DOMAIN table |->
            IF table[i].task = t /\ IsOpen(table[i])
            THEN Settled(table[i], outcome) ELSE table[i]]
    [] RowsOf(table, t) # {} /\ ~OpenRowFor(table, t) -> table
    [] OTHER ->
         Append(table, [task |-> t, outcome |-> outcome, started |-> FALSE, finished |-> FALSE])

=============================================================================

-------------------------- MODULE HistoryMigration --------------------------
(***************************************************************************)
(* migrate-history.ts: a pass copies the prints of the old SQLite table    *)
(* into Postgres, one row at a time, while both servers may run.  It may   *)
(* stop anywhere, and be run again.  Of a row there is what identifies it, *)
(* which no server changes: its task, or if it has none its start.         *)
(***************************************************************************)
EXTENDS Naturals, Sequences

CONSTANTS
  Tasks, Starts,   \* what may stand in task_id and in started_at
  Null,            \* null in either
  MaxOld, MaxNew   \* bounds: rows of the two tables

ASSUME NullAssumption == Null \notin Tasks \union Starts

Row == [task : Tasks \union {Null}, start : Starts \union {Null}]

VARIABLES
  sqlite,      \* the rows of the old table, by id
  prints,      \* the rows of the table in Postgres
  pass,        \* the pass that is running, or Null
  copied,      \* history: where the rows are that passes have copied
  migrated     \* history: how many rows the last pass to finish had read

migrationVars == <<sqlite, prints, pass, copied, migrated>>

MigrationInit ==
  /\ sqlite = <<>> /\ prints = <<>>
  /\ pass = Null
  /\ copied = {} /\ migrated = 0

RowKey(row) == IF row.task # Null THEN <<"task", row.task>> ELSE <<"start", row.start>>

Nameless(row) == row.task = Null /\ row.start = Null

(* seenTaskIds and seenStartedAts, as they are read from a table. *)
TasksSeen(table) == {RowKey(table[i]) : i \in {j \in DOMAIN table : table[j].task # Null}}
StartsSeen(table) ==
  {RowKey(table[i]) : i \in {j \in DOMAIN table : table[j].task = Null /\ table[j].start # Null}}

-----------------------------------------------------------------------------
(* Faulty variants, used to check that the properties notice them.         *)
(* ThereByTask: what has no task is always copied.                        *)
ThereByTask(row, seen) == row.task # Null /\ RowKey(row) \in seen

(* ThereOfNothing: rows that nothing identifies are all taken for one.        *)
ThereOfNothing(row, seen) == Nameless(row) \/ RowKey(row) \in seen

(* NotRemembered: what is copied is not added to what was seen.            *)
NotRemembered(row, seen) == seen

-----------------------------------------------------------------------------
(* The servers record prints of their own. *)
OldServerRecords(row) ==
  /\ Len(sqlite) < MaxOld
  /\ sqlite' = Append(sqlite, row)
  /\ UNCHANGED <<prints, pass, copied, migrated>>

NewServerRecords(row) ==
  /\ Len(prints) < MaxNew
  /\ prints' = Append(prints, row)
  /\ UNCHANGED <<sqlite, pass, copied, migrated>>

(* main reads the old table; then migrateRows asks the new one twice.      *)
Begin ==
  /\ pass = Null
  /\ pass' = [at |-> "tasks", rows |-> sqlite, next |-> 1, seen |-> {}, began |-> Len(prints)]
  /\ UNCHANGED <<sqlite, prints, copied, migrated>>

ReadTasks ==
  /\ pass # Null /\ pass.at = "tasks"
  /\ pass' = [pass EXCEPT !.at = "starts", !.seen = TasksSeen(prints)]
  /\ UNCHANGED <<sqlite, prints, copied, migrated>>

ReadStarts ==
  /\ pass # Null /\ pass.at = "starts"
  /\ pass' = [pass EXCEPT !.at = "rows", !.seen = @ \union StartsSeen(prints)]
  /\ UNCHANGED <<sqlite, prints, copied, migrated>>

AlreadyThere(row, seen) == ~Nameless(row) /\ RowKey(row) \in seen

Remembered(row, seen) == IF Nameless(row) THEN seen ELSE seen \union {RowKey(row)}

SkipRow ==
  /\ pass # Null /\ pass.at = "rows" /\ pass.next <= Len(pass.rows)
  /\ AlreadyThere(pass.rows[pass.next], pass.seen)
  /\ pass' = [pass EXCEPT !.next = @ + 1]
  /\ UNCHANGED <<sqlite, prints, copied, migrated>>

CopyRow ==
  /\ pass # Null /\ pass.at = "rows" /\ pass.next <= Len(pass.rows)
  /\ ~AlreadyThere(pass.rows[pass.next], pass.seen)
  /\ Len(prints) < MaxNew
  /\ prints' = Append(prints, pass.rows[pass.next])
  /\ copied' = copied \union {Len(prints) + 1}
  /\ pass' = [pass EXCEPT !.next = @ + 1, !.seen = Remembered(pass.rows[pass.next], @)]
  /\ UNCHANGED <<sqlite, migrated>>

Finish ==
  /\ pass # Null /\ pass.at = "rows" /\ pass.next > Len(pass.rows)
  /\ pass' = Null
  /\ migrated' = Len(pass.rows)
  /\ UNCHANGED <<sqlite, prints, copied>>

(* A statement fails, or the process is killed. *)
Stop ==
  /\ pass # Null
  /\ pass' = Null
  /\ UNCHANGED <<sqlite, prints, copied, migrated>>

MigrationNext ==
  \/ \E row \in Row : OldServerRecords(row) \/ NewServerRecords(row)
  \/ Begin \/ ReadTasks \/ ReadStarts
  \/ SkipRow \/ CopyRow \/ Finish \/ Stop

MigrationSpec == MigrationInit /\ [][MigrationNext]_migrationVars

-----------------------------------------------------------------------------
(* No print is copied twice, however many passes there are and wherever    *)
(* they stop (migrate-history.ts:17-21), except what nothing identifies.   *)
CopiedOnce ==
  \A i, j \in copied :
    RowKey(prints[i]) = RowKey(prints[j]) /\ ~Nameless(prints[i]) => i = j

(* Once a pass has finished, every print it read is in the new table.      *)
AllCopied ==
  \A i \in 1..migrated : \E j \in DOMAIN prints : RowKey(prints[j]) = RowKey(sqlite[i])

(* Every print arrives, and none is brought twice. *)
CopiedExactlyOnce == CopiedOnce /\ AllCopied

(* A pass copies nothing that an earlier one has read to the end, and      *)
(* nothing that stood in the new table when it began: a second pass skips. *)
NothingTwice ==
  [][\A i \in copied' \ copied :
       \/ Nameless(prints'[i])
       \/ /\ pass.next > migrated
          /\ \A j \in 1..pass.began : RowKey(prints[j]) # RowKey(prints'[i])]_migrationVars

(* "a row with a task_id already present in Postgres is skipped": which    *)
(* fails of a row the new server adds when the pass has read the tasks     *)
(* already (migrate-history.ts:17-21 and 71-77).                           *)
PresentIsSkipped ==
  \A i \in copied : \A j \in DOMAIN prints :
    j < i /\ prints[i].task # Null => prints[j].task # prints[i].task

=============================================================================

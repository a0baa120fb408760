----------------------------- MODULE PrintLedger -----------------------------
(***************************************************************************)
(* What the print history promises its readers, whatever the printer, the  *)
(* link and the process do: rows are only ever added at the end; a row is  *)
(* settled once and then never changes; and no task has two rows that are  *)
(* both still 'printing'.  PrintTracking is shown to implement this.       *)
(***************************************************************************)
EXTENDS PrintHistory

VARIABLE rows

LedgerInit == rows = <<>>

(* A print is first seen running. *)
OpenRow(t) ==
  /\ ~OpenRowFor(rows, t)
  /\ rows' = Append(rows, [task |-> t, outcome |-> "printing",
                           started |-> TRUE, finished |-> FALSE])

(* The print of an open row has ended, at an unknown time or a known one. *)
SettleRow(i, outcome) ==
  /\ IsOpen(rows[i])
  /\ \/ rows' = [rows EXCEPT ![i] = Settled(@, outcome)]
     \/ rows' = [rows EXCEPT ![i] = Closed(@, outcome)]

(* A print nobody watched is recorded after its end. *)
AddSettledRow(t, outcome) ==
  /\ RowsOf(rows, t) = {}
  /\ rows' = Append(rows, [task |-> t, outcome |-> outcome,
                           started |-> FALSE, finished |-> FALSE])

LedgerNext ==
  \/ \E t \in Tasks : OpenRow(t)
  \/ \E i \in DOMAIN rows, outcome \in {"complete", "stopped"} : SettleRow(i, outcome)
  \/ \E t \in Tasks, outcome \in {"complete", "stopped"} : AddSettledRow(t, outcome)

LedgerSpec == LedgerInit /\ [][LedgerNext]_rows

=============================================================================

--------------------------- MODULE PostgresHistory ---------------------------
(***************************************************************************)
(* Print tracking with the history in Postgres: PrintTracking, except that *)
(* every history call is the async function of postgres-history.ts.  A     *)
(* call is one to three statements on a connection pool.  The handlers     *)
(* start it and do not wait for it, so the statements of several calls     *)
(* reach the database in any order.                                        *)
(*                                                                         *)
(* A statement takes effect, fails, or is lost with the process.  A failed *)
(* statement rejects a promise nobody handles - except in the stop route,  *)
(* which answers 500 - and Node ends the process.                          *)
(***************************************************************************)
EXTENDS PrintTracking, SequencesExt

CONSTANT MaxCalls       \* bound: history calls in progress

ASSUME MaxCallsAssumption == MaxCalls \in Nat

(* Where a call has got to: a statement has been issued, or the answer to  *)
(* a SELECT has come and the function has not gone on yet.                 *)
Selects == {"check", "lookup"}
Writes == {"insert", "settle", "update"}
Answered == {"checked", "looked"}

Call == [op : {"start", "record", "finish"}, task : TaskIds, outcome : Outcomes,
         at : Selects \union Writes \union Answered, found : BOOLEAN]

VARIABLES
  calls,      \* history calls in progress, in the order they were made
  closing     \* shutdown has called history.close()

pgVars == <<calls, closing>>
allVars == <<vars, pgVars>>

PgInit == Init /\ calls = <<>> /\ closing = FALSE

(* The process ends; what it had asked of the database is lost, unless it  *)
(* took effect before.                                                     *)
ProcessEnds ==
  /\ ServerDown
  /\ calls' = <<>>
  /\ closing' = FALSE

-----------------------------------------------------------------------------
(* Faulty variants, used to check that the properties notice them.         *)
NextStatementUnchecked(call) ==
  IF call.op = "record" /\ call.at = "checked" THEN "lookup" ELSE "insert"

WrittenAnyRow(call) ==
  IF call.at = "insert"
  THEN Append(rows, [task |-> call.task, outcome |-> call.outcome,
                     started |-> call.op = "start", finished |-> FALSE])
  ELSE FinishPrintNotOnlyOpen(rows, call.task, call.outcome)

-----------------------------------------------------------------------------
(* startPrint, recordFinished and finishPrint up to their first await.     *)
Begin(op, t, outcome) ==
  [op |-> op, task |-> t, outcome |-> outcome, found |-> FALSE,
   at |-> IF op = "finish" THEN "update" ELSE "check"]

(* The calls of one frame, in the order the events are emitted. *)
Issued(f) ==
  (IF Starts(f) THEN <<Begin("start", f.task, "printing")>> ELSE <<>>)
  \o (IF EndsUnseen(f) THEN <<Begin("record", f.task, SeenOutcome(f))>> ELSE <<>>)
  \o (IF Finishes(f) THEN <<Begin("finish", f.task, "complete")>> ELSE <<>>)

PgDeliverStatus ==
  /\ linkUp
  /\ wire # <<>>
  /\ Head(wire).kind = "status"
  /\ LET f == Head(wire) IN
       /\ Len(calls \o Issued(f)) <= MaxCalls
       /\ calls' = calls \o Issued(f)
       /\ lastStatus' = f.status
       /\ lastTask' = f.task
       /\ notified' = IF Finishes(f) /\ f.task \in Tasks
                      THEN [notified EXCEPT ![f.task] = @ + 1] ELSE notified
  /\ wire' = Tail(wire)
  /\ UNCHANGED <<printerVars, linkUp, serverUp, stopVars, rows, closing>>

PgStopDone ==
  /\ serverUp
  /\ stop = "acked"
  /\ Len(calls) < MaxCalls
  /\ stop' = "none"
  /\ calls' = IF closing THEN calls ELSE Append(calls, Begin("finish", lastTask, "stopped"))
  /\ UNCHANGED <<printerVars, linkUp, wire, serverUp, storeVars, stopsMade, rows,
                 notified, closing>>

-----------------------------------------------------------------------------
(* The database answers a SELECT: openRowFor, or recordFinished's lookup.  *)
Select(i) ==
  /\ calls[i].at \in Selects
  /\ LET call == calls[i] IN
       calls' = [calls EXCEPT ![i] =
         IF call.at = "check"
         THEN [call EXCEPT !.at = "checked", !.found = OpenRowFor(rows, call.task)]
         ELSE [call EXCEPT !.at = "looked", !.found = RowsOf(rows, call.task) # {}]]
  /\ UNCHANGED <<vars, closing>>

Written(call) ==
  CASE call.at = "insert" ->
         Append(rows, [task |-> call.task, outcome |-> call.outcome,
                       started |-> call.op = "start", finished |-> FALSE])
    [] call.at = "settle" ->
         [i \in DOMAIN rows |->
            IF rows[i].task = call.task /\ IsOpen(rows[i])
            THEN Settled(rows[i], call.outcome) ELSE rows[i]]
    [] call.at = "update" -> FinishPrint(rows, call.task, call.outcome)

Write(i) ==
  /\ calls[i].at \in Writes
  /\ rows' = Written(calls[i])
  /\ calls' = RemoveAt(calls, i)
  /\ UNCHANGED <<printerVars, linkUp, wire, serverUp, storeVars, stopVars, notified,
                 closing>>

NextStatement(call) ==
  CASE call.op = "record" /\ call.at = "checked" -> IF call.found THEN "settle" ELSE "lookup"
    [] call.found /\ ~(call.op = "record" /\ call.at = "checked") -> "none"
    [] OTHER -> "insert"

(* The function goes on after its await; the pool rejects every query once *)
(* it has been ended.                                                      *)
Resume(i) ==
  /\ calls[i].at \in Answered
  /\ LET next == NextStatement(calls[i]) IN
       \/ /\ next = "none"
          /\ calls' = RemoveAt(calls, i)
          /\ UNCHANGED <<vars, closing>>
       \/ /\ next # "none"
          /\ ~closing
          /\ calls' = [calls EXCEPT ![i].at = next]
          /\ UNCHANGED <<vars, closing>>
       \/ /\ next # "none"
          /\ closing
          /\ ProcessEnds

QueryFails(i) ==
  /\ calls[i].at \in Selects \union Writes
  /\ IF calls[i].op = "finish" /\ calls[i].outcome = "stopped"
     THEN calls' = RemoveAt(calls, i) /\ UNCHANGED <<vars, closing>>
     ELSE ProcessEnds

(* SIGTERM: printer.stop(), then history.close(); the process exits later. *)
Shutdown ==
  /\ serverUp
  /\ ~closing
  /\ closing' = TRUE
  /\ linkUp' = FALSE
  /\ wire' = <<>>
  /\ stop' = IF stop = "acked" THEN stop ELSE "none"
  /\ UNCHANGED <<printerVars, serverUp, storeVars, stopsMade, rows, notified, calls>>

-----------------------------------------------------------------------------
PgNext ==
  \/ PrinterNext /\ UNCHANGED pgVars
  \/ Connect /\ ~closing /\ UNCHANGED pgVars
  \/ (Disconnect \/ DeliverAck \/ StopRequest \/ StopTimeout) /\ UNCHANGED pgVars
  \/ ProcessEnds
  \/ ServerStart /\ UNCHANGED pgVars
  \/ PgDeliverStatus
  \/ PgStopDone
  \/ \E i \in DOMAIN calls : Select(i) \/ Write(i) \/ Resume(i) \/ QueryFails(i)
  \/ Shutdown

PgSpec == PgInit /\ [][PgNext]_allVars

-----------------------------------------------------------------------------
(* Type correctness. *)
PgTypeOK ==
  /\ TypeOK
  /\ calls \in Seq(Call)
  /\ closing \in BOOLEAN

(* A SELECT's answer is never stale in a way that matters: whatever the    *)
(* other calls have done since openRowFor looked, the row startPrint or    *)
(* recordFinished is about to insert is not a second one                   *)
(* (postgres-history.ts:64, 106).                                          *)
InsertIsNotSecond ==
  \A i \in DOMAIN calls :
    calls[i].at = "insert" =>
      /\ ~OpenRowFor(rows, calls[i].task)
      /\ calls[i].op = "record" => RowsOf(rows, calls[i].task) = {}

=============================================================================

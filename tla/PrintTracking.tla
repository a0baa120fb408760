---------------------------- MODULE PrintTracking ----------------------------
(***************************************************************************)
(* How the server follows a print: the printer and its touchscreen, the    *)
(* one WebSocket between them and the server, PrinterStore.applyStatus,    *)
(* the handlers PrinterService.start installs, the stop route of app.ts,   *)
(* and the history table that outlives the process.                        *)
(*                                                                         *)
(* Print status codes are grouped as this code tells them apart: Idle (0), *)
(* Stopped (8), Complete (9), and Printing for every other code (homing,   *)
(* exposing, paused, stopping, file checking, ...).                        *)
(*                                                                         *)
(* The history that is composed here is SqliteHistory.                     *)
(***************************************************************************)
EXTENDS PrintHistory

CONSTANTS
  MaxWire,    \* bound: messages in flight from the printer to the server
  MaxStops    \* bound: stop requests made over REST

ASSUME BoundsAssumption == MaxWire \in Nat /\ MaxStops \in Nat

Statuses == {"Idle", "Printing", "Stopped", "Complete"}
Unknown == "Unknown"        \* lastPrintStatus is undefined: no frame yet

StatusFrame == [kind : {"status"}, status : Statuses, task : TaskIds]
AckFrame == [kind : {"ack"}, request : 0..MaxStops]

(* What became of a print, at the printer.  "stopping" is a print the      *)
(* printer has been told over SDCP to stop; "lost" one a power cut ended.  *)
Fates == {"unused", "running", "stopping", "complete", "stopped", "lost"}

VARIABLES
  pStatus,     \* printer: the status it reports
  pTask,       \* printer: the task id it reports
  fate,        \* printer: what became of every task id so far
  linkUp,      \* the WebSocket is open at both ends
  wire,        \* messages sent by the printer, not yet handled
  serverUp,    \* the server process is running
  lastStatus,  \* PrinterStore.lastPrintStatus
  lastTask,    \* PrinterStore.lastTaskId, and view.print.taskId
  stop,        \* the stop route: where its one request has got to
  stopsMade,   \* how many stop requests have been made (bounded)
  rows,        \* the history table, on disk
  notified     \* history variable: notifications sent, per task

printerVars == <<pStatus, pTask, fate>>
storeVars == <<lastStatus, lastTask>>
stopVars == <<stop, stopsMade>>
vars == <<printerVars, linkUp, wire, serverUp, storeVars, stopVars, rows, notified>>

Init ==
  /\ pStatus = "Idle"
  /\ pTask = NoTask
  /\ fate = [t \in Tasks |-> "unused"]
  /\ linkUp = FALSE
  /\ wire = <<>>
  /\ serverUp = FALSE
  /\ lastStatus = Unknown
  /\ lastTask = NoTask
  /\ stop = "none"
  /\ stopsMade = 0
  /\ rows = <<>>
  /\ notified = [t \in Tasks |-> 0]

-----------------------------------------------------------------------------
(* The printer.  It runs by itself and at its own touchscreen.             *)

(* A stop request that is not yet answered never will be, once the socket  *)
(* it was sent on has closed; SdcpClient leaves it to its timer.           *)
Unanswered == IF stop \in {"sent", "taken"} THEN "lost" ELSE stop

PrinterStart(t) ==
  /\ pStatus # "Printing"
  /\ fate[t] = "unused"
  /\ pStatus' = "Printing"
  /\ pTask' = t
  /\ fate' = [fate EXCEPT ![t] = "running"]
  /\ UNCHANGED <<linkUp, wire, serverUp, storeVars, stopVars, rows, notified>>

PrinterEnd(status, ending) ==
  /\ pStatus = "Printing"
  /\ pStatus' = status
  /\ fate' = [fate EXCEPT ![pTask] = ending]
  /\ UNCHANGED <<pTask, linkUp, wire, serverUp, storeVars, stopVars, rows, notified>>

PrinterComplete == PrinterEnd("Complete", "complete")
PrinterStopped == PrinterEnd("Stopped", "stopped")

(* Hours later the printer drops to Idle and blanks the task id. *)
PrinterBlank ==
  /\ pStatus \in {"Complete", "Stopped"}
  /\ pStatus' = "Idle"
  /\ pTask' = NoTask
  /\ UNCHANGED <<fate, linkUp, wire, serverUp, storeVars, stopVars, rows, notified>>

PowerCycle ==
  /\ pStatus' = "Idle"
  /\ pTask' = NoTask
  /\ fate' = IF pStatus = "Printing" THEN [fate EXCEPT ![pTask] = "lost"] ELSE fate
  /\ linkUp' = FALSE
  /\ wire' = <<>>
  /\ stop' = Unanswered
  /\ UNCHANGED <<serverUp, storeVars, stopsMade, rows, notified>>

(* A status push, or the answer to the refresh sent when the link opens.   *)
PrinterPush ==
  /\ linkUp
  /\ Len(wire) < MaxWire
  /\ wire' = Append(wire, [kind |-> "status", status |-> pStatus, task |-> pTask])
  /\ UNCHANGED <<printerVars, linkUp, serverUp, storeVars, stopVars, rows, notified>>

(* The stop command arrives: it is acknowledged whatever the printer was   *)
(* doing; a print may wind down first, and a job already over may be       *)
(* relabelled Stopped.                                                     *)
PrinterTakesStop ==
  /\ linkUp
  /\ stop = "sent"
  /\ Len(wire) < MaxWire
  /\ wire' = Append(wire, [kind |-> "ack", request |-> stopsMade])
  /\ stop' = "taken"
  /\ IF pStatus = "Printing"
     THEN /\ fate' = [fate EXCEPT ![pTask] = "stopping"]
          /\ UNCHANGED pStatus
     ELSE /\ pStatus' \in {pStatus} \union (IF pTask = NoTask THEN {} ELSE {"Stopped"})
          /\ UNCHANGED fate
  /\ UNCHANGED <<pTask, linkUp, serverUp, storeVars, stopsMade, rows, notified>>

-----------------------------------------------------------------------------
(* The link and the process.                                               *)

Connect ==
  /\ serverUp
  /\ ~linkUp
  /\ linkUp' = TRUE
  /\ UNCHANGED <<printerVars, wire, serverUp, storeVars, stopVars, rows, notified>>

(* The socket closes under the server; the store keeps what it last saw.   *)
Disconnect ==
  /\ linkUp
  /\ linkUp' = FALSE
  /\ wire' = <<>>
  /\ stop' = Unanswered
  /\ UNCHANGED <<printerVars, serverUp, storeVars, stopsMade, rows, notified>>

ServerStart ==
  /\ ~serverUp
  /\ serverUp' = TRUE
  /\ UNCHANGED <<printerVars, linkUp, wire, storeVars, stopVars, rows, notified>>

(* SIGTERM, a deploy or a crash: only the table survives. *)
ServerDown ==
  /\ serverUp
  /\ serverUp' = FALSE
  /\ linkUp' = FALSE
  /\ wire' = <<>>
  /\ lastStatus' = Unknown
  /\ lastTask' = NoTask
  /\ stop' = "none"
  /\ UNCHANGED <<printerVars, stopsMade, rows, notified>>

-----------------------------------------------------------------------------
(* Faulty variants of what follows, used to check that the properties      *)
(* notice them; no specification uses these.                               *)

EndsUnseenNever(f) == FALSE

FinishesLevel(f) == f.status = "Complete" /\ lastStatus # Unknown

-----------------------------------------------------------------------------
(* PrinterStore.applyStatus, with the handlers PrinterService.start puts   *)
(* on its events.                                                          *)

IsTerminal(status) == status \in {"Complete", "Stopped", "Idle"}

NewTask(f) == f.task # NoTask /\ f.task # lastTask

(* printStarted *)
Starts(f) == NewTask(f) /\ ~IsTerminal(f.status)

(* printSeenFinished *)
EndsUnseen(f) == NewTask(f) /\ f.status \in {"Complete", "Stopped"}

(* printFinished *)
Finishes(f) == f.status = "Complete" /\ lastStatus \notin {Unknown, "Complete"}

SeenOutcome(f) == IF f.status = "Complete" THEN "complete" ELSE "stopped"

(* The history calls of one frame, in the order the events are emitted.    *)
Recorded(f) ==
  LET started == IF Starts(f) THEN StartPrint(rows, f.task) ELSE rows
      seen == IF EndsUnseen(f) THEN RecordFinished(started, f.task, SeenOutcome(f))
              ELSE started
  IN  IF Finishes(f) THEN FinishPrint(seen, f.task, "complete") ELSE seen

ApplyStatus(f) ==
  /\ lastStatus' = f.status
  /\ lastTask' = f.task
  /\ rows' = Recorded(f)
  /\ notified' = IF Finishes(f) /\ f.task \in Tasks
                 THEN [notified EXCEPT ![f.task] = @ + 1] ELSE notified

(* The socket hands the next message to the client.  Frames that arrived   *)
(* together are handed over in one loop, without running the continuation  *)
(* of an await between two of them: a stop that is "acked" may see more    *)
(* frames applied before it goes on.                                       *)
DeliverStatus ==
  /\ linkUp
  /\ wire # <<>>
  /\ Head(wire).kind = "status"
  /\ ApplyStatus(Head(wire))
  /\ wire' = Tail(wire)
  /\ UNCHANGED <<printerVars, linkUp, serverUp, stopVars>>

DeliverAck ==
  /\ linkUp
  /\ wire # <<>>
  /\ Head(wire).kind = "ack"
  /\ wire' = Tail(wire)
  /\ stop' = IF stop = "taken" /\ Head(wire).request = stopsMade THEN "acked" ELSE stop
  /\ UNCHANGED <<printerVars, linkUp, serverUp, storeVars, stopsMade, rows, notified>>

-----------------------------------------------------------------------------
(* POST /api/control/stop.                                                 *)

StopRequest ==
  /\ serverUp
  /\ linkUp
  /\ stop = "none"
  /\ stopsMade < MaxStops
  /\ stop' = "sent"
  /\ stopsMade' = stopsMade + 1
  /\ UNCHANGED <<printerVars, linkUp, wire, serverUp, storeVars, rows, notified>>

(* No answer in time: the route fails and the history is left alone.  An   *)
(* answer that still comes carries the id of no pending request.           *)
StopTimeout ==
  /\ stop \in {"sent", "taken", "lost"}
  /\ stop' = "none"
  /\ UNCHANGED <<printerVars, linkUp, wire, serverUp, storeVars, stopsMade, rows, notified>>

(* After the await: the task id is read from the store only now. *)
StopDone ==
  /\ serverUp
  /\ stop = "acked"
  /\ rows' = FinishPrint(rows, lastTask, "stopped")
  /\ stop' = "none"
  /\ UNCHANGED <<printerVars, linkUp, wire, serverUp, storeVars, stopsMade, notified>>

-----------------------------------------------------------------------------
PrinterNext ==
  \/ \E t \in Tasks : PrinterStart(t)
  \/ PrinterComplete
  \/ PrinterStopped
  \/ PrinterBlank
  \/ PowerCycle
  \/ PrinterPush
  \/ PrinterTakesStop

ServerNext ==
  \/ Connect
  \/ Disconnect
  \/ ServerStart
  \/ ServerDown
  \/ DeliverStatus
  \/ DeliverAck
  \/ StopRequest
  \/ StopTimeout
  \/ StopDone

Next == PrinterNext \/ ServerNext

Spec == Init /\ [][Next]_vars

(* The process is restarted by its supervisor, the client keeps            *)
(* reconnecting, and the printer pushes its status again and again; a link *)
(* that opens for ever is not cut, for ever, before one frame is handled.  *)
(* Nothing is assumed of the people who print and stop.                    *)
Fairness ==
  /\ WF_vars(ServerStart)
  /\ SF_vars(Connect)
  /\ SF_vars(PrinterPush)
  /\ SF_vars(DeliverStatus)
  /\ SF_vars(DeliverAck)
  /\ WF_vars(StopTimeout)
  /\ WF_vars(StopDone)

FairSpec == Spec /\ Fairness

-----------------------------------------------------------------------------
(* Type correctness. *)
TypeOK ==
  /\ pStatus \in Statuses
  /\ pTask \in TaskIds
  /\ fate \in [Tasks -> Fates]
  /\ linkUp \in BOOLEAN
  /\ wire \in Seq(StatusFrame \union AckFrame)
  /\ serverUp \in BOOLEAN
  /\ lastStatus \in Statuses \union {Unknown}
  /\ lastTask \in TaskIds
  /\ stop \in {"none", "sent", "taken", "lost", "acked"}
  /\ stopsMade \in 0..MaxStops
  /\ rows \in Seq(Row)
  /\ notified \in [Tasks -> Nat]

(* A restart in the middle of a print, however often, never leaves a task  *)
(* with two rows that are both waiting for its end (startPrint,            *)
(* history.ts:102).                                                        *)
OneOpenRowPerTask ==
  \A i, j \in OpenRows(rows) : rows[i].task = rows[j].task => i = j

(* The history calls a print complete only if the printer completed it:    *)
(* whichever frames were lost, and whoever restarted, no print is credited *)
(* with another's completion (applyStatus, store.ts:251-280).              *)
CompleteIsTrue ==
  \A i \in DOMAIN rows : rows[i].outcome = "complete" => fate[rows[i].task] = "complete"

(* Only the stop route settles the row of a print that is still running    *)
(* (the task id it reads after its await, app.ts:143, can be that of a     *)
(* print started since): no status frame, however late, ever does.         *)
RunningSettledByStopOnly ==
  \A i \in DOMAIN rows :
    fate[rows[i].task] = "running" =>
      \/ IsOpen(rows[i])
      \/ stopsMade > 0 /\ rows[i].outcome = "stopped" /\ rows[i].finished

(* The phone buzzes at most once for a print, over any number of           *)
(* reconnections and restarts (store.ts:144, edge-triggered completion).   *)
NotifiedAtMostOnce == \A t \in Tasks : notified[t] <= 1

(* By the time the phone has buzzed for a print, the history has a row for *)
(* it and no row of it is still 'printing'.                                *)
NotifiedIsSettled ==
  \A t \in Tasks : notified[t] > 0 => RowsOf(rows, t) # {} /\ ~OpenRowFor(rows, t)

(* The print the server shows has a row in the history, whether it was     *)
(* watched from its start, found running, or found already over.           *)
ShownPrintIsRecorded == lastTask # NoTask => RowsOf(rows, lastTask) # {}

(* What the tracking owes beyond the table: to the prints that run, to the *)
(* phone, and to the print the server shows.                               *)
TrackingIsRight ==
  RunningSettledByStopOnly /\ NotifiedAtMostOnce /\ NotifiedIsSettled /\ ShownPrintIsRecorded

(* The history this server keeps is the promised one: the rows of the two  *)
(* are the same, and so are the tasks.                                     *)
Ledger == INSTANCE PrintLedger WITH Tasks <- Tasks, NoTask <- NoTask, rows <- rows
ImplementsLedger == Ledger!LedgerSpec

(* A print the printer goes on reporting Complete is settled in the        *)
(* history sooner or later, whatever happened to the link and the process. *)
CompletedIsSettled ==
  \A t \in Tasks :
    <>[](pStatus = "Complete" /\ pTask = t)
      => <>[](RowsOf(rows, t) # {} /\ ~OpenRowFor(rows, t))

=============================================================================

----------------------------- MODULE PrintView -----------------------------
(***************************************************************************)
(* apps/server/src/print-view.ts: the print file, fetched from the printer *)
(* once per print and kept on disk, and the layers decoded from it; with   *)
(* the wiring of index.ts, which begins to fetch when a print starts, and  *)
(* the route of app.ts that serves a layer of the current print.           *)
(*                                                                         *)
(* Every print is fetched by a download of its own.  The downloads of two  *)
(* prints may overlap, and all of them work in one directory.              *)
(***************************************************************************)
EXTENDS Naturals, FiniteSets

CONSTANTS
  Tasks,         \* the prints that may come, one taskId each
  NoTask,
  MaxRestarts    \* bound: how often the server is restarted

ASSUME NoTaskAssumption == NoTask \notin Tasks

NoLayer == 0

VARIABLES
  printing,   \* the print the printer reports
  past,       \* prints the printer has begun
  shown,      \* store.snapshot().print.taskId
  task,       \* PrintView.task.taskId
  stage,      \* how far the download of each print has come
  listed,     \* names that readdir returned and rm has yet to remove
  disk,       \* the files in the directory
  last,       \* Task.last: the layer that is remembered, decoded
  restarts,
  late        \* history variable: a download cleared the directory when
              \* another print's had already begun

viewVars == <<printing, past, shown, task, stage, listed, disk, last, restarts, late>>

Files == Tasks \X {"part", "goo"}

InFlight == {"detail", "listing", "clearing", "fetching", "writing", "renaming", "opening"}
Stages == InFlight \union {"none", "ready", "failed"}

ViewInit ==
  /\ printing = NoTask
  /\ past = {}
  /\ shown = NoTask
  /\ task = NoTask
  /\ stage = [t \in Tasks |-> "none"]
  /\ listed = [t \in Tasks |-> {}]
  /\ disk = {}
  /\ last = NoLayer
  /\ restarts = 0
  /\ late = FALSE

-----------------------------------------------------------------------------
(* A faulty variant, used to check that the properties notice it: what is  *)
(* removed is what is there by then, not what readdir returned.            *)
RemovesAnyOther(t) == {f \in disk : f[1] # t}

-----------------------------------------------------------------------------
(* prepare: nothing to do for a print whose file is there, on its way, or  *)
(* has failed.                                                             *)
Prepare(t) ==
  IF task = t /\ stage[t] # "none"
  THEN UNCHANGED <<task, stage, last>>
  ELSE task' = t /\ stage' = [stage EXCEPT ![t] = "detail"] /\ last' = NoLayer

(* A status push: the store emits printStarted for a print that is new to  *)
(* it, and the print is prepared.                                          *)
StatusArrives(t) ==
  /\ shown # t
  /\ shown' = t
  /\ IF t = NoTask THEN UNCHANGED <<task, stage, last>> ELSE Prepare(t)
  /\ UNCHANGED <<listed, disk, restarts, late>>

(* The printer begins a print, or is done with one, and says so. *)
PrinterStarts(t) ==
  /\ t \notin past
  /\ printing' = t
  /\ past' = past \union {t}
  /\ StatusArrives(t)

PrinterEnds ==
  /\ printing # NoTask
  /\ printing' = NoTask
  /\ StatusArrives(NoTask)
  /\ UNCHANGED past

(* The first push to a server that has just started, in the middle of a    *)
(* print.                                                                  *)
FirstStatus == StatusArrives(printing) /\ UNCHANGED <<printing, past>>

-----------------------------------------------------------------------------
At(t, s) == stage[t] = s

GoesOn(t, s) == stage' = [stage EXCEPT ![t] = s]

Fails(t) == GoesOn(t, "failed")

UnchangedButDownload == UNCHANGED <<printing, past, shown, task, last, restarts>>

(* Cmd 321 answers: with a .goo file, or with something else, or not.      *)
DetailArrives(t) ==
  /\ At(t, "detail")
  /\ GoesOn(t, "listing") \/ Fails(t)
  /\ UNCHANGED <<listed, disk, late>>
  /\ UnchangedButDownload

(* What is left from an earlier task: every name but the task's own. *)
Stale(t) == {f \in disk : f[1] # t}

(* mkdir and readdir. *)
Lists(t) ==
  /\ At(t, "listing")
  /\ GoesOn(t, "clearing")
  /\ listed' = [listed EXCEPT ![t] = Stale(t)]
  /\ late' = (late \/ task # t)
  /\ UNCHANGED disk
  /\ UnchangedButDownload

Removed(t) == listed[t]

(* rm, with force, of one name after the other; a name that is gone by     *)
(* then is no error.                                                       *)
Clears(t) ==
  /\ At(t, "clearing")
  /\ \/ \E f \in Removed(t) :
          /\ disk' = disk \ {f}
          /\ listed' = [listed EXCEPT ![t] = @ \ {f}]
          /\ UNCHANGED stage
     \/ Removed(t) = {} /\ GoesOn(t, "fetching") /\ UNCHANGED <<disk, listed>>
  /\ UNCHANGED late
  /\ UnchangedButDownload

(* The file is written under a name of its own until it is whole. *)
Part(t) == <<t, "part">>

(* The printer answers; the body is written as it comes. *)
Answers(t) ==
  /\ At(t, "fetching")
  /\ \/ GoesOn(t, "writing") /\ disk' = disk \union {Part(t)}
     \/ Fails(t) /\ UNCHANGED disk
  /\ UNCHANGED <<listed, late>>
  /\ UnchangedButDownload

(* pipeline ends: with the whole file, or with an error. *)
Written(t) ==
  /\ At(t, "writing")
  /\ GoesOn(t, "renaming") \/ Fails(t)
  /\ UNCHANGED <<listed, disk, late>>
  /\ UnchangedButDownload

(* rename throws when the file is not there any more. *)
Renames(t) ==
  /\ At(t, "renaming")
  /\ IF Part(t) \in disk
     THEN GoesOn(t, "opening") /\ disk' = (disk \ {Part(t)}) \union {<<t, "goo">>}
     ELSE Fails(t) /\ UNCHANGED disk
  /\ UNCHANGED <<listed, late>>
  /\ UnchangedButDownload

(* The header is read and the layers are indexed, unless the file is gone  *)
(* or is not one this understands.                                         *)
Opens(t) ==
  /\ At(t, "opening")
  /\ (<<t, "goo">> \in disk /\ GoesOn(t, "ready")) \/ Fails(t)
  /\ UNCHANGED <<listed, disk, late>>
  /\ UnchangedButDownload

Download(t) ==
  \/ DetailArrives(t) \/ Lists(t) \/ Clears(t) \/ Answers(t)
  \/ Written(t) \/ Renames(t) \/ Opens(t)

(* The server ends, in the middle of whatever it did, and starts again.    *)
ServerRestarts ==
  /\ restarts < MaxRestarts
  /\ restarts' = restarts + 1
  /\ shown' = NoTask
  /\ task' = NoTask
  /\ stage' = [t \in Tasks |-> "none"]
  /\ listed' = [t \in Tasks |-> {}]
  /\ last' = NoLayer
  /\ UNCHANGED <<printing, past, disk, late>>

ViewNext ==
  \/ \E t \in Tasks : PrinterStarts(t) \/ Download(t)
  \/ PrinterEnds
  \/ FirstStatus
  \/ ServerRestarts

-----------------------------------------------------------------------------
(* GET /api/print/layer, in the server's own scale (usual) or in another,  *)
(* whose pictures are not remembered: what it answers.  Only a layer that  *)
(* is not the remembered one is read from the file.                        *)
LayerAnswer(layer, usual) ==
  IF shown = NoTask \/ (task = shown /\ At(shown, "failed")) THEN "error"
  ELSE IF task # shown \/ ~At(shown, "ready") THEN "downloading"
  ELSE IF (usual /\ last = layer) \/ <<shown, "goo">> \in disk THEN "ready"
  ELSE "error"

(* ... and what asking changes. *)
LayerAsked(layer, usual) ==
  /\ IF shown = NoTask THEN UNCHANGED <<task, stage, last>>
     ELSE IF usual /\ LayerAnswer(layer, usual) = "ready"
     THEN last' = layer /\ UNCHANGED <<task, stage>>
     ELSE Prepare(shown)
  /\ UNCHANGED <<printing, past, shown, listed, disk, restarts, late>>

-----------------------------------------------------------------------------
(* Unless a download has cleared the directory late, the file of the print *)
(* last prepared is never taken away: while it is written, nor once its    *)
(* layers have been promised (print-view.ts:161).                          *)
FileIsKept ==
  task # NoTask /\ ~late =>
    /\ stage[task] \in {"writing", "renaming"} => Part(task) \in disk
    /\ stage[task] \in {"opening", "ready"} => <<task, "goo">> \in disk

(* print-view.ts:161: what a download removes is what an earlier task has  *)
(* left, so that a print whose file is ready has its file.                 *)
ReadyHasItsFile == task # NoTask /\ stage[task] = "ready" => <<task, "goo">> \in disk

=============================================================================

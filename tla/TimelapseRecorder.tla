------------------------- MODULE TimelapseRecorder -------------------------
(***************************************************************************)
(* apps/server/src/timelapse.ts: the recorder follows the printer's status *)
(* and asks the camera service to start, take a frame, and finish.  Every  *)
(* request is a fetch that nothing waits for: several are in flight at     *)
(* once, on connections of their own.                                      *)
(***************************************************************************)
EXTENDS Naturals

CONSTANTS
  Tasks,        \* the printer's task ids
  NoTask,       \* undefined
  Statuses,     \* the print statuses, see Printing
  MaxUpdates    \* bound: status updates fed to one recorder

ASSUME NoTaskAssumption == NoTask \notin Tasks

ASSUME MaxUpdatesAssumption == MaxUpdates \in Nat

VARIABLES
  current,      \* TimelapseRecorder.current
  lastStatus,   \* TimelapseRecorder.lastStatus
  updates,      \* updates fed to this recorder so far
  posts         \* requests in flight

recorderVars == <<current, lastStatus, updates, posts>>

(* Lifting, Dropping and "Exposing" (any other status of a running or      *)
(* paused print); anything else is not printing.                           *)
Printing == {"Lifting", "Dropping", "Exposing"}

Ops == {"start", "frame", "finish"}

(* A request, told apart from the others by the update that sent it. *)
Post(op, t) == [op |-> op, task |-> t, n |-> updates + 1]

RecorderInit ==
  /\ current = NoTask
  /\ lastStatus = "undefined"
  /\ updates = 0
  /\ posts = {}

(* The recorded print is over: another one is printing, or none. *)
Ends(t, s) == current # NoTask /\ (t # current \/ s \notin Printing)

Starts(t, s) == t # NoTask /\ s \in Printing /\ t # current

AfterUpdate(t, s) ==
  IF Starts(t, s) THEN t ELSE IF Ends(t, s) THEN NoTask ELSE current

(* The last lift of a print ends in something that is not printing. *)
LastLift(t, s) == Ends(t, s) /\ t = current /\ lastStatus = "Lifting"

TopOfLift(t, s) ==
  t # NoTask /\ t = AfterUpdate(t, s) /\ lastStatus = "Lifting" /\ s = "Dropping"

Requests(t, s) ==
  (IF LastLift(t, s) \/ TopOfLift(t, s) THEN {Post("frame", t)} ELSE {})
    \union (IF Ends(t, s) THEN {Post("finish", current)} ELSE {})
    \union (IF Starts(t, s) THEN {Post("start", t)} ELSE {})

(* update(view): the printer shows task t in status s. *)
Update(t, s) ==
  /\ updates < MaxUpdates
  /\ updates' = updates + 1
  /\ lastStatus' = s
  /\ current' = AfterUpdate(t, s)
  /\ posts' = posts \union Requests(t, s)

(* A request has been answered, or has failed: post never throws. *)
Settled(p) ==
  /\ p \in posts
  /\ posts' = posts \ {p}
  /\ UNCHANGED <<current, lastStatus, updates>>

RecorderTypeOK ==
  /\ current \in Tasks \union {NoTask}
  /\ lastStatus \in Statuses \union {"undefined"}
  /\ updates \in 0..MaxUpdates
  /\ posts \subseteq [op : Ops, task : Tasks, n : 1..MaxUpdates]

=============================================================================

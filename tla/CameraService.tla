--------------------------- MODULE CameraService ---------------------------
(***************************************************************************)
(* apps/camera: the time-lapse routes of the camera service and the store  *)
(* behind them, driven by the recorder's requests, which arrive in any     *)
(* order or not at all.  Both processes may restart at any time.           *)
(*                                                                         *)
(* A request is handled in one go: opening the upstream only spawns ffmpeg *)
(* (index.ts), so addViewer resolves before the next request is read, and  *)
(* a destroyed viewer's 'close' comes before it, too.                      *)
(***************************************************************************)
EXTENDS TimelapseRecorder

VARIABLES
  holds,     \* tasks whose viewer holds the stream open
  meta,      \* <id>.json: the state in it, "none" without a file
  frames,    \* <id>/: the frames on disk
  video,     \* <id>.mp4: the frames it was made of, {} without a file
  child,     \* tasks an ffmpeg is assembling
  saved      \* history variable: frames the store has taken

serviceVars == <<holds, meta, frames, video, child, saved>>
cameraVars == <<recorderVars, serviceVars>>

States == {"none", "recording", "assembling", "ready", "failed"}

ServiceInit ==
  /\ holds = {}
  /\ meta = [t \in Tasks |-> "none"]
  /\ frames = [t \in Tasks |-> {}]
  /\ video = [t \in Tasks |-> {}]
  /\ child = {}
  /\ saved = [t \in Tasks |-> {}]

CameraInit == RecorderInit /\ ServiceInit

-----------------------------------------------------------------------------
(* Faulty variants, used to check that the properties notice them.         *)
(* TakesAlways: a frame is added whatever the time-lapse's state.          *)
TakesAlways(t) == TRUE

(* FramesFirst: the frames are deleted before the video is in place.       *)
FramesFirst == <<"frames", "video", "meta">>

-----------------------------------------------------------------------------
(* The store's start: what is on disk already is carried on with. *)
Started(t) == IF meta[t] = "none" THEN "recording" ELSE meta[t]

StartPosted(t) ==
  /\ meta' = [meta EXCEPT ![t] = Started(t)]
  /\ holds' = holds \union {t}
  /\ UNCHANGED <<frames, video, child, saved>>

Takes(t) == meta[t] \in {"none", "recording"}

(* POST /frame: picks the hold up again if it has none.  Without a fresh   *)
(* frame from the camera, or if writing it fails, nothing is added.        *)
FramePosted(t, n, fresh) ==
  /\ holds' = holds \union {t}
  /\ IF fresh /\ Takes(t)
     THEN /\ meta' = [meta EXCEPT ![t] = Started(t)]
          /\ frames' = [frames EXCEPT ![t] = @ \union {n}]
          /\ saved' = [saved EXCEPT ![t] = @ \union {n}]
     ELSE UNCHANGED <<meta, frames, saved>>
  /\ UNCHANGED <<video, child>>

(* finish assembles what is being recorded, if there is a frame at all. *)
Assembles(t) == meta[t] = "recording" /\ frames[t] # {}

FailsAtOnce(t) == meta[t] = "none" \/ (meta[t] = "recording" /\ frames[t] = {})

FinishPosted(t) ==
  /\ holds' = holds \ {t}
  /\ meta' = [meta EXCEPT ![t] = IF Assembles(t) THEN "assembling"
                                 ELSE IF FailsAtOnce(t) THEN "failed" ELSE @]
  /\ child' = IF Assembles(t) THEN child \union {t} ELSE child
  /\ UNCHANGED <<frames, video, saved>>

(* A request arrives at the service. *)
Received(p) ==
  /\ Settled(p)
  /\ \/ p.op = "start" /\ StartPosted(p.task)
     \/ p.op = "frame" /\ \E fresh \in BOOLEAN : FramePosted(p.task, p.n, fresh)
     \/ p.op = "finish" /\ FinishPosted(p.task)

RequestLost(p) == Settled(p) /\ UNCHANGED serviceVars

-----------------------------------------------------------------------------
(* What finish does once ffmpeg has exited with 0, in this order: put the  *)
(* video in place, delete the frames, save the state.                      *)
AssembledSteps == <<"video", "frames", "meta">>

(* The first k of them. *)
Done(t, k) ==
  LET does(what) == \E i \in 1..k : AssembledSteps[i] = what IN
  /\ video' = [video EXCEPT ![t] = IF does("video") THEN frames[t] ELSE @]
  /\ frames' = [frames EXCEPT ![t] = IF does("frames") THEN {} ELSE @]
  /\ meta' = [meta EXCEPT ![t] = IF does("meta") THEN "ready" ELSE @]

Assembled(t) ==
  /\ t \in child
  /\ Done(t, 3)
  /\ child' = child \ {t}
  /\ UNCHANGED <<recorderVars, holds, saved>>

AssemblyFails(t) ==
  /\ t \in child
  /\ meta' = [meta EXCEPT ![t] = "failed"]
  /\ child' = child \ {t}
  /\ UNCHANGED <<recorderVars, holds, frames, video, saved>>

(* DELETE: everything there is of it goes, whatever its state. *)
Remove(t) ==
  /\ meta' = [meta EXCEPT ![t] = "none"]
  /\ frames' = [frames EXCEPT ![t] = {}]
  /\ video' = [video EXCEPT ![t] = {}]
  /\ saved' = [saved EXCEPT ![t] = {}]
  /\ UNCHANGED <<recorderVars, holds, child>>

(* The upstream dies or stalls: the proxy ends every viewer. *)
UpstreamDies ==
  /\ holds # {}
  /\ holds' = {}
  /\ UNCHANGED <<recorderVars, meta, frames, video, child, saved>>

(* The service goes down and comes back, its ffmpegs with it. *)
ServiceRestarts ==
  /\ holds' = {}
  /\ child' = {}
  /\ UNCHANGED <<recorderVars, meta, frames, video, saved>>

(* ... or goes down in the middle of AssembledSteps. *)
CrashWhileDone(t) ==
  /\ t \in child
  /\ \E k \in 1..2 : Done(t, k)
  /\ holds' = {}
  /\ child' = {}
  /\ UNCHANGED <<recorderVars, saved>>

(* The server restarts: of its requests, some may still arrive. *)
ServerRestarts ==
  /\ current' = NoTask
  /\ lastStatus' = "undefined"
  /\ posts' \in SUBSET posts
  /\ UNCHANGED <<updates, serviceVars>>

CameraNext ==
  \/ \E t \in Tasks \union {NoTask}, s \in Statuses : Update(t, s) /\ UNCHANGED serviceVars
  \/ \E p \in posts : Received(p) \/ RequestLost(p)
  \/ \E t \in Tasks : Assembled(t) \/ AssemblyFails(t) \/ CrashWhileDone(t)
  \/ UpstreamDies
  \/ ServiceRestarts

-----------------------------------------------------------------------------
(* Type correctness. *)
CameraTypeOK ==
  /\ RecorderTypeOK
  /\ holds \subseteq Tasks
  /\ meta \in [Tasks -> States]
  /\ frames \in [Tasks -> SUBSET (1..MaxUpdates)]
  /\ video \in [Tasks -> SUBSET (1..MaxUpdates)]
  /\ child \subseteq Tasks
  /\ saved \in [Tasks -> SUBSET (1..MaxUpdates)]

(* No frame the store has taken is ever lost, wherever the service is      *)
(* interrupted: all are on disk as frames, or all are in the video.        *)
FramesOrVideo == \A t \in Tasks : saved[t] \in {frames[t], video[t]}

(* A finished time-lapse has its video, and the video has every frame.     *)
ReadyIsWhole ==
  \A t \in Tasks : meta[t] = "ready" => video[t] = saved[t] /\ video[t] # {}

(* The store can be trusted with what it took (timelapse.ts of the camera  *)
(* service).                                                               *)
NothingTakenIsLost == FramesOrVideo /\ ReadyIsWhole

(* The directory ffmpeg reads does not change while it works, nobody else  *)
(* concludes the time-lapse meanwhile, and one that has been finished is   *)
(* not recorded again: not by a late request, nor after a restart of       *)
(* either process.                                                         *)
AssemblesWhatStands ==
  [][\A t \in Tasks :
       /\ t \in child /\ t \in child' => frames'[t] = frames[t] /\ meta'[t] = "assembling"
       /\ meta[t] \in {"assembling", "ready", "failed"} => meta'[t] # "recording"]_cameraVars

=============================================================================

------------------------------ MODULE Archiver ------------------------------
(***************************************************************************)
(* apps/server/src/timelapse-archive.ts: the server's passes over the      *)
(* time-lapses that are ready.  Each is downloaded to the share, noted in  *)
(* the archive, and deleted at the camera service, which goes on with its  *)
(* own work between any two steps.  Both processes may restart anywhere.   *)
(*                                                                         *)
(* A video is the set of frames it was made of.  Its size stands for it:   *)
(* what is cut short is smaller, and two videos are told apart by it.      *)
(***************************************************************************)
EXTENDS CameraService

CONSTANT NoEntry        \* the pass is at no time-lapse

ASSUME NoEntryAssumption == \A t \in Tasks, v \in SUBSET (0..MaxUpdates) :
                              NoEntry # [task |-> t, bytes |-> v]

VARIABLES
  step,        \* where the pass is; "idle" when none is running
  todo,        \* entries of the list it has fetched, still to come
  entry,       \* the one it is at
  archVideo,   \* <id>.mp4 on the share, {} without a file
  archMeta,    \* tasks with an <id>.json on the share
  made         \* history variable: the videos that were ever ready

archVars == <<step, todo, entry, archVideo, archMeta, made>>
archiverVars == <<cameraVars, archVars>>

Steps == {"idle", "listing", "next", "downloading", "naming", "deleting"}

Truncated == {0}

ArchiverInit ==
  /\ CameraInit
  /\ step = "idle"
  /\ todo = {}
  /\ entry = NoEntry
  /\ archVideo = [t \in Tasks |-> {}]
  /\ archMeta = {}
  /\ made = [t \in Tasks |-> {}]

-----------------------------------------------------------------------------
(* Faulty variants, used to check that the properties notice them.         *)
(* AnyDownload: a download that ends is taken to be whole.                 *)
AnyDownload(v, bytes) == TRUE

(* SameName: an archived video of the name is taken for the same video.    *)
SameName(e) == TRUE

-----------------------------------------------------------------------------
isArchived(t) == archVideo[t] # {} /\ t \in archMeta

(* tick: a pass begins, unless one is running. *)
Tick ==
  /\ step = "idle"
  /\ step' = "listing"
  /\ UNCHANGED <<cameraVars, todo, entry, archVideo, archMeta, made>>

(* The pass goes on to its next entry, or ends. *)
Onwards == step' = "next" /\ entry' = NoEntry

(* GET /timelapse: what is ready now. *)
Listed ==
  /\ step = "listing"
  /\ Onwards
  /\ todo' = {[task |-> t, bytes |-> video[t]] : t \in {u \in Tasks : meta[u] = "ready"}}
  /\ UNCHANGED <<cameraVars, archVideo, archMeta, made>>

ListFails ==
  /\ step = "listing"
  /\ step' = "idle"
  /\ UNCHANGED <<cameraVars, todo, entry, archVideo, archMeta, made>>

SameSize(e) == archVideo[e.task] = e.bytes

(* On disk here, and of the size the list gave. *)
archivedIntact(e) == isArchived(e.task) /\ SameSize(e)

(* What follows archiveOne, or takes its place. *)
Checked(e) ==
  IF archivedIntact(e) THEN step' = "deleting" /\ entry' = e ELSE Onwards

NextEntry(e) ==
  /\ step = "next" /\ e \in todo
  /\ todo' = todo \ {e}
  /\ IF isArchived(e.task) THEN Checked(e)
     ELSE step' = "downloading" /\ entry' = e
  /\ UNCHANGED <<cameraVars, archVideo, archMeta, made>>

PassEnds ==
  /\ step = "next" /\ todo = {}
  /\ step' = "idle"
  /\ UNCHANGED <<cameraVars, todo, entry, archVideo, archMeta, made>>

Complete(v, bytes) == v = bytes

(* The download ends, cut short perhaps and none the worse for it to look  *)
(* at.  What is complete is put in place.                                  *)
Downloaded ==
  /\ step = "downloading" /\ meta[entry.task] = "ready"
  /\ \E v \in {video[entry.task], Truncated} :
       IF Complete(v, entry.bytes)
       THEN /\ step' = "naming" /\ UNCHANGED entry
            /\ archVideo' = [archVideo EXCEPT ![entry.task] = v]
       ELSE Onwards /\ UNCHANGED archVideo
  /\ UNCHANGED <<cameraVars, todo, archMeta, made>>

(* The file name has come from the history; the metadata is written. *)
Named ==
  /\ step = "naming"
  /\ archMeta' = archMeta \union {entry.task}
  /\ IF SameSize(entry) THEN step' = "deleting" /\ UNCHANGED entry ELSE Onwards
  /\ UNCHANGED <<cameraVars, todo, archVideo, made>>

(* A request or the history fails: the next pass tries again. *)
EntryFails ==
  /\ step \in {"downloading", "naming", "deleting"}
  /\ Onwards
  /\ UNCHANGED <<cameraVars, todo, archVideo, archMeta, made>>

(* DELETE arrives; whether the answer does is all the same. *)
RemoteDeleted ==
  /\ step = "deleting"
  /\ Remove(entry.task)
  /\ Onwards
  /\ UNCHANGED <<todo, archVideo, archMeta, made>>

(* A step of the camera service or of the recorder. *)
CameraStep ==
  /\ CameraNext
  /\ made' = [t \in Tasks |-> IF meta'[t] = "ready" THEN made[t] \union {video'[t]} ELSE made[t]]
  /\ UNCHANGED <<step, todo, entry, archVideo, archMeta>>

(* A server that restarts forgets its pass, but for what is on the share. *)
PassForgotten ==
  /\ ServerRestarts
  /\ step' = "idle" /\ todo' = {} /\ entry' = NoEntry
  /\ UNCHANGED <<archVideo, archMeta, made>>

ArchiverNext ==
  \/ Tick \/ Listed \/ ListFails
  \/ \E e \in todo : NextEntry(e)
  \/ PassEnds \/ Downloaded \/ Named \/ EntryFails \/ RemoteDeleted
  \/ CameraStep \/ PassForgotten

ArchiverSpec == ArchiverInit /\ [][ArchiverNext]_archiverVars

-----------------------------------------------------------------------------
(* Type correctness. *)
ArchiverTypeOK ==
  /\ CameraTypeOK
  /\ step \in Steps
  /\ todo \subseteq [task : Tasks, bytes : SUBSET (1..MaxUpdates)]
  /\ entry \in [task : Tasks, bytes : SUBSET (1..MaxUpdates)] \union {NoEntry}
  /\ archVideo \in [Tasks -> SUBSET (0..MaxUpdates)]
  /\ archMeta \subseteq Tasks
  /\ made \in [Tasks -> SUBSET SUBSET (1..MaxUpdates)]

(* "Always leaves at least one copy somewhere": a video that was ever      *)
(* finished is at the camera service, or whole in the archive.             *)
NoVideoLost ==
  \A t \in Tasks : \A v \in made[t] : v = video[t] \/ (v = archVideo[t] /\ t \in archMeta)

(* What the archive shows is a video that was finished, and all of it.     *)
ArchivedIsWhole == \A t \in archMeta : archVideo[t] \in made[t]

(* No video is lost on its way to the archive, nor shown before its time.  *)
ArchiveIsRight == NoVideoLost /\ ArchivedIsWhole

=============================================================================

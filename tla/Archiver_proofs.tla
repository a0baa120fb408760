--------------------------- MODULE Archiver_proofs ---------------------------
(***************************************************************************)
(* Proofs about CameraService and Archiver, for any number of tasks and of *)
(* updates: what the camera service's store took is there until it is      *)
(* archived, and what was finished has a copy somewhere.                   *)
(***************************************************************************)
EXTENDS Archiver, TLAPS

(* The store's own variables have their types. *)
StoreTypeOK ==
  /\ holds \subseteq Tasks
  /\ meta \in [Tasks -> States]
  /\ frames \in [Tasks -> SUBSET (1..MaxUpdates)]
  /\ video \in [Tasks -> SUBSET (1..MaxUpdates)]
  /\ child \subseteq Tasks
  /\ saved \in [Tasks -> SUBSET (1..MaxUpdates)]

(* Where the frames of t are, in each state of its metadata, and while an  *)
(* ffmpeg works on it.                                                     *)
FramesAreKnown(t) ==
  /\ meta[t] = "none" => frames[t] = {} /\ video[t] = {} /\ saved[t] = {}
  /\ meta[t] = "recording" => frames[t] = saved[t] /\ video[t] = {}
  /\ meta[t] = "ready" => video[t] = saved[t] /\ video[t] # {}
  /\ t \in child => /\ meta[t] = "assembling"
                    /\ frames[t] = saved[t] /\ frames[t] # {} /\ video[t] = {}
  /\ saved[t] \in {frames[t], video[t]}

StoreInv == StoreTypeOK /\ \A t \in Tasks : FramesAreKnown(t)

(* What a step leaves of t. *)
LeavesAlone(t) ==
  /\ meta[t] = "ready" => meta'[t] = "ready" /\ video'[t] = video[t]
  /\ video'[t] # video[t] => video[t] = {}
  /\ t \in child /\ t \in child' => frames'[t] = frames[t] /\ meta'[t] = "assembling"
  /\ meta[t] \in {"assembling", "ready", "failed"} => meta'[t] # "recording"

(* Every video that was finished was one, and is at the camera service or  *)
(* in the archive, which shows no other.                                   *)
VideosAreKept(t) ==
  /\ meta[t] = "ready" => video[t] \in made[t]
  /\ {} \notin made[t]
  /\ archVideo[t] # {} => archVideo[t] \in made[t]
  /\ t \in archMeta => archVideo[t] \in made[t]
  /\ \A v \in made[t] : v = video[t] \/ (v = archVideo[t] /\ t \in archMeta)

(* What a pass has read from the list still holds when it comes to it:     *)
(* nobody but the pass deletes what is ready.                              *)
IsReady(e) == meta[e.task] = "ready" /\ e.bytes = video[e.task]

PassInv ==
  /\ \A e \in todo : IsReady(e)
  /\ step \in {"downloading", "naming", "deleting"} =>
       /\ entry # NoEntry
       /\ IsReady(entry)
       /\ \A e \in todo : e.task # entry.task
  /\ step = "downloading" => entry.task \notin archMeta
  /\ step = "naming" => archVideo[entry.task] = entry.bytes /\ entry.task \notin archMeta
  /\ step = "deleting" => archVideo[entry.task] = entry.bytes /\ entry.task \in archMeta

ArchiverIInv ==
  /\ ArchiverTypeOK
  /\ \A t \in Tasks : FramesAreKnown(t)
  /\ \A t \in Tasks : VideosAreKept(t)
  /\ PassInv

-----------------------------------------------------------------------------
(* The recorder: its variables have their types, and its requests their    *)
(* tasks and numbers.                                                      *)
LEMMA UpdateTyped ==
  ASSUME RecorderTypeOK, NEW t \in Tasks \union {NoTask}, NEW s \in Statuses, Update(t, s)
  PROVE  RecorderTypeOK'
<1>1. updates + 1 \in 1..MaxUpdates
  BY MaxUpdatesAssumption DEF RecorderTypeOK, Update
<1>2. Ends(t, s) => current \in Tasks
  BY DEF Ends, RecorderTypeOK
<1>3. LastLift(t, s) \/ TopOfLift(t, s) \/ Starts(t, s) => t \in Tasks
  BY <1>2 DEF LastLift, TopOfLift, Starts
<1>4. Requests(t, s) \subseteq [op : Ops, task : Tasks, n : 1..MaxUpdates]
  BY <1>1, <1>2, <1>3 DEF Requests, Post, Ops
<1>5. current' \in Tasks \union {NoTask}
  BY DEF Update, AfterUpdate, RecorderTypeOK
<1> QED BY <1>1, <1>4, <1>5 DEF RecorderTypeOK, Update

LEMMA SettledTyped ==
  ASSUME RecorderTypeOK, NEW p \in posts, Settled(p)
  PROVE  RecorderTypeOK' /\ p.task \in Tasks /\ p.n \in 1..MaxUpdates
BY DEF RecorderTypeOK, Settled

-----------------------------------------------------------------------------
(* One lemma per operation of the store.  Each names what it does to t and *)
(* that it leaves every other time-lapse alone.                            *)
LEMMA StartKeeps ==
  ASSUME StoreInv, NEW t \in Tasks, StartPosted(t)
  PROVE  StoreInv' /\ \A u \in Tasks : LeavesAlone(u)
<1>1. /\ meta' = [meta EXCEPT ![t] = IF meta[t] = "none" THEN "recording" ELSE meta[t]]
      /\ UNCHANGED <<frames, video, child, saved>>
  BY DEF StartPosted, Started
<1>2. StoreTypeOK'
  BY <1>1 DEF StartPosted, StoreInv, StoreTypeOK, States
<1>3. ASSUME NEW u \in Tasks
      PROVE  FramesAreKnown(u)' /\ LeavesAlone(u)
  <2>1. FramesAreKnown(u)
    BY DEF StoreInv
  <2>2. meta'[u] = IF u = t /\ meta[u] = "none" THEN "recording" ELSE meta[u]
    BY <1>1 DEF StoreInv, StoreTypeOK
  <2> QED BY <1>1, <2>1, <2>2 DEF FramesAreKnown, LeavesAlone
<1> QED BY <1>2, <1>3 DEF StoreInv

LEMMA FrameKeeps ==
  ASSUME StoreInv, NEW t \in Tasks, NEW n \in 1..MaxUpdates, NEW fresh \in BOOLEAN,
         FramePosted(t, n, fresh)
  PROVE  StoreInv' /\ \A u \in Tasks : LeavesAlone(u)
<1>1. CASE fresh /\ Takes(t)
  <2>1. /\ meta' = [meta EXCEPT ![t] = "recording"]
        /\ frames' = [frames EXCEPT ![t] = @ \union {n}]
        /\ saved' = [saved EXCEPT ![t] = @ \union {n}]
        /\ UNCHANGED <<video, child>>
        /\ meta[t] \in {"none", "recording"}
    BY <1>1 DEF FramePosted, Takes, Started
  <2>2. StoreTypeOK'
    BY <2>1 DEF FramePosted, StoreInv, StoreTypeOK, States
  <2>3. ASSUME NEW u \in Tasks
        PROVE  FramesAreKnown(u)' /\ LeavesAlone(u)
    <3>1. FramesAreKnown(u)
      BY DEF StoreInv
    <3>2. CASE u = t
      BY <2>1, <3>1, <3>2 DEF StoreInv, StoreTypeOK, FramesAreKnown, LeavesAlone
    <3>3. CASE u # t
      BY <2>1, <3>1, <3>3 DEF StoreInv, StoreTypeOK, FramesAreKnown, LeavesAlone
    <3> QED BY <3>2, <3>3
  <2> QED BY <2>2, <2>3 DEF StoreInv
<1>2. CASE ~(fresh /\ Takes(t))
  <2>1. UNCHANGED <<meta, frames, video, child, saved>> /\ holds' = holds \union {t}
    BY <1>2 DEF FramePosted
  <2> QED BY <2>1 DEF StoreInv, StoreTypeOK, FramesAreKnown, LeavesAlone
<1> QED BY <1>1, <1>2

LEMMA FinishKeeps ==
  ASSUME StoreInv, NEW t \in Tasks, FinishPosted(t)
  PROVE  StoreInv' /\ \A u \in Tasks : LeavesAlone(u)
<1>1. /\ meta' = [meta EXCEPT ![t] = IF Assembles(t) THEN "assembling"
                                     ELSE IF FailsAtOnce(t) THEN "failed" ELSE meta[t]]
      /\ child' = IF Assembles(t) THEN child \union {t} ELSE child
      /\ holds' = holds \ {t}
      /\ UNCHANGED <<frames, video, saved>>
  BY DEF FinishPosted
<1>2. StoreTypeOK'
  BY <1>1 DEF StoreInv, StoreTypeOK, States
<1>3. ASSUME NEW u \in Tasks
      PROVE  FramesAreKnown(u)' /\ LeavesAlone(u)
  <2>1. FramesAreKnown(u)
    BY DEF StoreInv
  <2>2. CASE u = t
    <3>1. /\ meta'[t] = IF Assembles(t) THEN "assembling"
                        ELSE IF FailsAtOnce(t) THEN "failed" ELSE meta[t]
          /\ t \in child' <=> (Assembles(t) \/ t \in child)
      BY <1>1 DEF StoreInv, StoreTypeOK
    <3> QED BY <1>1, <2>1, <2>2, <3>1 DEF Assembles, FailsAtOnce, FramesAreKnown, LeavesAlone
  <2>3. CASE u # t
    <3>1. meta'[u] = meta[u] /\ (u \in child' <=> u \in child)
      BY <1>1, <2>3 DEF StoreInv, StoreTypeOK
    <3> QED BY <1>1, <2>1, <3>1 DEF FramesAreKnown, LeavesAlone
  <2> QED BY <2>2, <2>3
<1> QED BY <1>2, <1>3 DEF StoreInv

(* finish's last steps, as many of them as are taken. *)
LEMMA DoneFacts ==
  ASSUME StoreTypeOK, NEW t \in Tasks, NEW k \in 1..3, Done(t, k)
  PROVE  /\ video' = [video EXCEPT ![t] = frames[t]]
         /\ frames' = [frames EXCEPT ![t] = IF k = 1 THEN frames[t] ELSE {}]
         /\ meta' = [meta EXCEPT ![t] = IF k = 3 THEN "ready" ELSE meta[t]]
<1>1. \E i \in 1..k : AssembledSteps[i] = "video"
  BY DEF AssembledSteps
<1>2. (\E i \in 1..k : AssembledSteps[i] = "frames") <=> k # 1
  BY DEF AssembledSteps
<1>3. (\E i \in 1..k : AssembledSteps[i] = "meta") <=> k = 3
  BY DEF AssembledSteps
<1> QED BY <1>1, <1>2, <1>3 DEF Done

(* However many of them: the frames are in the video before they go.       *)
LEMMA DoneKeeps ==
  ASSUME StoreInv, NEW t \in child, NEW k \in 1..3, Done(t, k),
         child' \subseteq child \ {t}, holds' \subseteq holds, saved' = saved
  PROVE  StoreInv' /\ \A u \in Tasks : LeavesAlone(u)
<1>1. t \in Tasks /\ StoreTypeOK
  BY DEF StoreInv, StoreTypeOK
<1>2. /\ video' = [video EXCEPT ![t] = frames[t]]
      /\ frames' = [frames EXCEPT ![t] = IF k = 1 THEN frames[t] ELSE {}]
      /\ meta' = [meta EXCEPT ![t] = IF k = 3 THEN "ready" ELSE meta[t]]
  BY <1>1, DoneFacts
<1>3. StoreTypeOK'
  BY <1>1, <1>2 DEF StoreTypeOK, States
<1>4. ASSUME NEW u \in Tasks
      PROVE  FramesAreKnown(u)' /\ LeavesAlone(u)
  <2>1. FramesAreKnown(u)
    BY DEF StoreInv
  <2>2. CASE u = t
    <3>1. /\ video'[t] = frames[t] /\ frames'[t] \in {frames[t], {}}
          /\ meta'[t] \in {"ready", "assembling"} /\ t \notin child'
          /\ saved'[t] = saved[t] /\ frames[t] = saved[t] /\ frames[t] # {} /\ video[t] = {}
          /\ meta[t] = "assembling"
      BY <1>1, <1>2, <2>1, <2>2 DEF StoreTypeOK, FramesAreKnown
    <3> QED BY <2>2, <3>1 DEF FramesAreKnown, LeavesAlone
  <2>3. CASE u # t
    BY <1>1, <1>2, <2>1, <2>3 DEF StoreTypeOK, FramesAreKnown, LeavesAlone
  <2> QED BY <2>2, <2>3
<1> QED BY <1>3, <1>4 DEF StoreInv

LEMMA FailureKeeps ==
  ASSUME StoreInv, NEW t \in Tasks, AssemblyFails(t)
  PROVE  StoreInv' /\ \A u \in Tasks : LeavesAlone(u)
<1>1. /\ t \in child /\ meta' = [meta EXCEPT ![t] = "failed"] /\ child' = child \ {t}
      /\ UNCHANGED <<holds, frames, video, saved>>
  BY DEF AssemblyFails
<1>2. StoreTypeOK'
  BY <1>1 DEF StoreInv, StoreTypeOK, States
<1>3. ASSUME NEW u \in Tasks
      PROVE  FramesAreKnown(u)' /\ LeavesAlone(u)
  <2>1. FramesAreKnown(u)
    BY DEF StoreInv
  <2>2. meta'[u] = IF u = t THEN "failed" ELSE meta[u]
    BY <1>1 DEF StoreInv, StoreTypeOK
  <2> QED BY <1>1, <2>1, <2>2 DEF FramesAreKnown, LeavesAlone
<1> QED BY <1>2, <1>3 DEF StoreInv

(* The holds and the children go, and nothing on disk. *)
LEMMA DiskKeeps ==
  ASSUME StoreInv, holds' \subseteq holds, child' \subseteq child,
         UNCHANGED <<meta, frames, video, saved>>
  PROVE  StoreInv' /\ \A u \in Tasks : LeavesAlone(u)
BY DEF StoreInv, StoreTypeOK, FramesAreKnown, LeavesAlone

(* DELETE of one that is ready: there is no ffmpeg at it. *)
LEMMA RemoveKeeps ==
  ASSUME StoreInv, NEW t \in Tasks, Remove(t), meta[t] = "ready"
  PROVE  /\ StoreInv'
         /\ \A u \in Tasks \ {t} : meta'[u] = meta[u] /\ video'[u] = video[u]
         /\ meta'[t] = "none" /\ video'[t] = {}
<1>1. /\ meta' = [meta EXCEPT ![t] = "none"] /\ frames' = [frames EXCEPT ![t] = {}]
      /\ video' = [video EXCEPT ![t] = {}] /\ saved' = [saved EXCEPT ![t] = {}]
      /\ UNCHANGED <<holds, child>>
  BY DEF Remove
<1>2. StoreTypeOK'
  BY <1>1 DEF StoreInv, StoreTypeOK, States
<1>3. ASSUME NEW u \in Tasks
      PROVE  FramesAreKnown(u)'
  <2>1. FramesAreKnown(u)
    BY DEF StoreInv
  <2>2. CASE u = t
    BY <1>1, <2>1, <2>2 DEF StoreInv, StoreTypeOK, FramesAreKnown
  <2>3. CASE u # t
    BY <1>1, <2>1, <2>3 DEF StoreInv, StoreTypeOK, FramesAreKnown
  <2> QED BY <2>2, <2>3
<1>4. /\ \A u \in Tasks \ {t} : meta'[u] = meta[u] /\ video'[u] = video[u]
      /\ meta'[t] = "none" /\ video'[t] = {}
  BY <1>1 DEF StoreInv, StoreTypeOK
<1> QED BY <1>2, <1>3, <1>4 DEF StoreInv

-----------------------------------------------------------------------------
(* Every step of the camera service or of the recorder. *)
LEMMA CameraKeeps ==
  ASSUME RecorderTypeOK, StoreInv, CameraNext
  PROVE  RecorderTypeOK' /\ StoreInv' /\ \A u \in Tasks : LeavesAlone(u)
<1>1. ASSUME UNCHANGED serviceVars
      PROVE  StoreInv' /\ \A u \in Tasks : LeavesAlone(u)
  BY <1>1, DiskKeeps DEF serviceVars
<1>2. ASSUME UNCHANGED recorderVars
      PROVE  RecorderTypeOK'
  BY <1>2 DEF recorderVars, RecorderTypeOK
<1>3. ASSUME NEW t \in Tasks \union {NoTask}, NEW s \in Statuses,
             Update(t, s), UNCHANGED serviceVars
      PROVE  RecorderTypeOK' /\ StoreInv' /\ \A u \in Tasks : LeavesAlone(u)
  BY <1>1, <1>3, UpdateTyped
<1>4. ASSUME NEW p \in posts, Received(p)
      PROVE  RecorderTypeOK' /\ StoreInv' /\ \A u \in Tasks : LeavesAlone(u)
  <2>1. RecorderTypeOK' /\ p.task \in Tasks /\ p.n \in 1..MaxUpdates
    BY <1>4, SettledTyped DEF Received
  <2>2. CASE StartPosted(p.task)
    BY <2>1, <2>2, StartKeeps
  <2>3. CASE \E fresh \in BOOLEAN : FramePosted(p.task, p.n, fresh)
    BY <2>1, <2>3, FrameKeeps
  <2>4. CASE FinishPosted(p.task)
    BY <2>1, <2>4, FinishKeeps
  <2> QED BY <1>4, <2>1, <2>2, <2>3, <2>4 DEF Received
<1>5. ASSUME NEW p \in posts, RequestLost(p)
      PROVE  RecorderTypeOK' /\ StoreInv' /\ \A u \in Tasks : LeavesAlone(u)
  BY <1>1, <1>5, SettledTyped DEF RequestLost
<1>6. ASSUME NEW t \in Tasks, Assembled(t) \/ CrashWhileDone(t)
      PROVE  RecorderTypeOK' /\ StoreInv' /\ \A u \in Tasks : LeavesAlone(u)
  <2>1. /\ t \in child /\ UNCHANGED recorderVars /\ saved' = saved
        /\ child' \subseteq child \ {t} /\ holds' \subseteq holds
    BY <1>6 DEF Assembled, CrashWhileDone
  <2>2. PICK k \in 1..3 : Done(t, k)
    BY <1>6 DEF Assembled, CrashWhileDone
  <2> QED BY <1>2, <2>1, <2>2, DoneKeeps
<1>7. ASSUME NEW t \in Tasks, AssemblyFails(t)
      PROVE  RecorderTypeOK' /\ StoreInv' /\ \A u \in Tasks : LeavesAlone(u)
  BY <1>2, <1>7, FailureKeeps DEF AssemblyFails
<1>8. CASE UpstreamDies \/ ServiceRestarts
  <2>1. /\ UNCHANGED recorderVars /\ holds' \subseteq holds /\ child' \subseteq child
        /\ UNCHANGED <<meta, frames, video, saved>>
    BY <1>8 DEF UpstreamDies, ServiceRestarts
  <2> QED BY <1>2, <2>1, DiskKeeps
<1> QED BY <1>3, <1>4, <1>5, <1>6, <1>7, <1>8 DEF CameraNext

-----------------------------------------------------------------------------
LEMMA ArchiverInitInv == ArchiverInit => ArchiverIInv
<1> SUFFICES ASSUME ArchiverInit PROVE ArchiverIInv
  OBVIOUS
<1>1. RecorderTypeOK
  BY MaxUpdatesAssumption DEF ArchiverInit, CameraInit, RecorderInit, RecorderTypeOK
<1>2. ArchiverTypeOK
  BY <1>1
  DEF ArchiverInit, CameraInit, ServiceInit, ArchiverTypeOK, CameraTypeOK, Steps, States
<1>3. \A t \in Tasks : FramesAreKnown(t) /\ VideosAreKept(t)
  BY DEF ArchiverInit, CameraInit, ServiceInit, FramesAreKnown, VideosAreKept
<1>4. PassInv
  BY DEF ArchiverInit, PassInv
<1> QED BY <1>2, <1>3, <1>4 DEF ArchiverIInv

(* The types of the whole, put together from those of its parts. *)
LEMMA TypesSplit ==
  ArchiverTypeOK <=>
    /\ RecorderTypeOK /\ StoreTypeOK
    /\ step \in Steps
    /\ todo \subseteq [task : Tasks, bytes : SUBSET (1..MaxUpdates)]
    /\ entry \in [task : Tasks, bytes : SUBSET (1..MaxUpdates)] \union {NoEntry}
    /\ archVideo \in [Tasks -> SUBSET (0..MaxUpdates)]
    /\ archMeta \subseteq Tasks
    /\ made \in [Tasks -> SUBSET SUBSET (1..MaxUpdates)]
BY DEF ArchiverTypeOK, CameraTypeOK, StoreTypeOK

(* While the camera service works, what the pass has read stays true, and  *)
(* no video that was finished changes.                                     *)
LEMMA CameraStepInv ==
  ASSUME ArchiverIInv, CameraStep
  PROVE  ArchiverIInv' /\ \A u \in Tasks : LeavesAlone(u)
<1>0. /\ RecorderTypeOK /\ StoreInv /\ ArchiverTypeOK /\ PassInv
      /\ \A t \in Tasks : FramesAreKnown(t) /\ VideosAreKept(t)
  BY TypesSplit DEF ArchiverIInv, StoreInv
<1>1. /\ UNCHANGED <<step, todo, entry, archVideo, archMeta>>
      /\ made' = [t \in Tasks |-> IF meta'[t] = "ready" THEN made[t] \union {video'[t]} ELSE made[t]]
      /\ CameraNext
  BY DEF CameraStep
<1>2. RecorderTypeOK' /\ StoreInv' /\ \A u \in Tasks : LeavesAlone(u)
  BY <1>0, <1>1, CameraKeeps
<1>3. ArchiverTypeOK'
  <2>1. made' \in [Tasks -> SUBSET SUBSET (1..MaxUpdates)]
    BY <1>0, <1>1, <1>2 DEF StoreInv, StoreTypeOK, ArchiverTypeOK
  <2> QED BY <1>0, <1>1, <1>2, <2>1
      DEF ArchiverTypeOK, CameraTypeOK, StoreInv, StoreTypeOK
<1>4. ASSUME NEW t \in Tasks
      PROVE  VideosAreKept(t)'
  <2>1. VideosAreKept(t) /\ FramesAreKnown(t)' /\ LeavesAlone(t)
    BY <1>0, <1>2 DEF StoreInv
  <2>2. made'[t] = IF meta'[t] = "ready" THEN made[t] \union {video'[t]} ELSE made[t]
    BY <1>1
  <2>3. \A v \in made[t] : v = video'[t] \/ (v = archVideo[t] /\ t \in archMeta)
    BY <2>1 DEF VideosAreKept, LeavesAlone
  <2>4. meta'[t] = "ready" => video'[t] # {}
    BY <2>1 DEF FramesAreKnown
  <2> QED BY <1>1, <2>1, <2>2, <2>3, <2>4 DEF VideosAreKept
<1>5. PassInv'
  <2>1. ASSUME NEW e \in [task : Tasks, bytes : SUBSET (1..MaxUpdates)], IsReady(e)
        PROVE  meta'[e.task] = "ready" /\ e.bytes = video'[e.task]
    BY <1>2, <2>1 DEF IsReady, LeavesAlone
  <2>2. \A e \in todo' : IsReady(e)'
    BY <1>0, <1>1, <2>1 DEF PassInv, IsReady, ArchiverTypeOK
  <2>3. step \in {"downloading", "naming", "deleting"} =>
          meta'[entry.task] = "ready" /\ entry.bytes = video'[entry.task]
    BY <1>0, <2>1 DEF PassInv, ArchiverTypeOK
  <2> QED BY <1>0, <1>1, <2>2, <2>3 DEF PassInv, IsReady
<1> QED BY <1>2, <1>3, <1>4, <1>5 DEF ArchiverIInv, StoreInv

(* The steps of the pass that change nothing but where it is. *)
LEMMA PassMoves ==
  ASSUME ArchiverIInv, UNCHANGED cameraVars, UNCHANGED <<archVideo, archMeta, made>>,
         step' \in Steps, entry' \in {entry, NoEntry} \union todo,
         todo' \subseteq todo \union {[task |-> t, bytes |-> video[t]] :
                                       t \in {u \in Tasks : meta[u] = "ready"}},
         PassInv'
  PROVE  ArchiverIInv'
<1>1. ArchiverTypeOK
  BY DEF ArchiverIInv
<1>2. UNCHANGED <<current, lastStatus, updates, posts>> /\ UNCHANGED <<holds, meta, frames, video, child, saved>>
  BY DEF cameraVars, recorderVars, serviceVars
<1>3. CameraTypeOK'
  BY <1>1, <1>2 DEF ArchiverTypeOK, CameraTypeOK, RecorderTypeOK
<1>4. \A t \in Tasks : FramesAreKnown(t)' /\ VideosAreKept(t)'
  BY <1>2 DEF ArchiverIInv, FramesAreKnown, VideosAreKept
<1>5. todo' \subseteq [task : Tasks, bytes : SUBSET (1..MaxUpdates)]
  BY <1>1 DEF ArchiverTypeOK, CameraTypeOK
<1>6. ArchiverTypeOK'
  BY <1>1, <1>3, <1>5 DEF ArchiverTypeOK
<1> QED BY <1>4, <1>6 DEF ArchiverIInv

(* A pass begins, fetches its list, comes to its end, or gives up on an    *)
(* entry.                                                                  *)
LEMMA PassGoesOn ==
  ASSUME ArchiverIInv, Tick \/ Listed \/ ListFails \/ PassEnds \/ EntryFails
  PROVE  ArchiverIInv'
<1>1. /\ UNCHANGED cameraVars /\ UNCHANGED <<archVideo, archMeta, made>>
      /\ step' \in {"idle", "listing", "next"} /\ entry' \in {entry, NoEntry}
      /\ todo' \in {todo, {[task |-> t, bytes |-> video[t]] :
                                       t \in {u \in Tasks : meta[u] = "ready"}}}
  BY DEF Tick, Listed, ListFails, PassEnds, EntryFails, Onwards
<1>2. UNCHANGED <<meta, video>>
  BY <1>1 DEF cameraVars, serviceVars
<1>3. \A e \in todo' : IsReady(e)
  BY <1>1 DEF ArchiverIInv, PassInv, IsReady
<1>4. PassInv'
  BY <1>1, <1>2, <1>3 DEF PassInv, IsReady
<1>5. step' \in Steps
  BY <1>1 DEF Steps
<1> QED BY <1>1, <1>4, <1>5, PassMoves

(* It comes to an entry, which is to be downloaded unless it was before.   *)
LEMMA NextEntryInv ==
  ASSUME ArchiverIInv, NEW e \in todo, NextEntry(e)
  PROVE  ArchiverIInv'
<1>1. /\ UNCHANGED cameraVars /\ UNCHANGED <<archVideo, archMeta, made>>
      /\ todo' = todo \ {e}
  BY DEF NextEntry
<1>2. UNCHANGED <<meta, video>>
  BY <1>1 DEF cameraVars, serviceVars
<1>3. /\ e \in [task : Tasks, bytes : SUBSET (1..MaxUpdates)] /\ IsReady(e)
      /\ e # NoEntry
      /\ \A f \in todo \ {e} : f.task # e.task
  <2>1. todo \subseteq [task : Tasks, bytes : SUBSET (1..MaxUpdates)] /\ \A f \in todo : IsReady(f)
    BY DEF ArchiverIInv, ArchiverTypeOK, PassInv
  <2>2. e # NoEntry
    <3>1. e = [task |-> e.task, bytes |-> e.bytes] /\ e.task \in Tasks
          /\ e.bytes \in SUBSET (1..MaxUpdates)
      BY <2>1
    <3>2. e.bytes \in SUBSET (0..MaxUpdates)
      BY <3>1, MaxUpdatesAssumption
    <3> QED BY <3>1, <3>2, NoEntryAssumption
  <2>3. ASSUME NEW f \in todo, f.task = e.task
        PROVE  f = e
    BY <2>1, <2>3 DEF IsReady
  <2> QED BY <2>1, <2>2, <2>3
<1>4. e.task \in archMeta => archVideo[e.task] # {}
  BY <1>3 DEF ArchiverIInv, VideosAreKept
<1>5. \/ step' = "next" /\ entry' = NoEntry
      \/ step' = "deleting" /\ entry' = e /\ archVideo[e.task] = e.bytes /\ e.task \in archMeta
      \/ step' = "downloading" /\ entry' = e /\ e.task \notin archMeta
  BY <1>4 DEF NextEntry, Checked, Onwards, archivedIntact, isArchived, SameSize
<1>6. \A f \in todo' : IsReady(f)'
  BY <1>1, <1>2 DEF ArchiverIInv, PassInv, IsReady
<1>7. PassInv'
  BY <1>1, <1>2, <1>3, <1>5, <1>6 DEF PassInv, IsReady
<1> QED BY <1>1, <1>5, <1>7, PassMoves DEF Steps

(* The download ends.  Only all of the video is put in place. *)
LEMMA DownloadedInv ==
  ASSUME ArchiverIInv, Downloaded
  PROVE  ArchiverIInv'
<1>0. /\ ArchiverTypeOK /\ PassInv
      /\ \A t \in Tasks : FramesAreKnown(t) /\ VideosAreKept(t)
  BY DEF ArchiverIInv
<1>1. /\ UNCHANGED cameraVars /\ UNCHANGED <<todo, archMeta, made>> /\ step = "downloading"
  BY DEF Downloaded
<1>2. UNCHANGED <<current, lastStatus, updates, posts>> /\ UNCHANGED <<holds, meta, frames, video, child, saved>>
  BY <1>1 DEF cameraVars, recorderVars, serviceVars
<1>3. /\ entry \in [task : Tasks, bytes : SUBSET (1..MaxUpdates)] /\ IsReady(entry)
      /\ entry # NoEntry /\ entry.task \notin archMeta
      /\ \A e \in todo : IsReady(e) /\ e.task # entry.task
  BY <1>0, <1>1 DEF PassInv, ArchiverTypeOK
<1>4. CASE Onwards /\ UNCHANGED archVideo
  <2>1. PassInv'
    BY <1>0, <1>1, <1>2, <1>3, <1>4 DEF PassInv, Onwards, IsReady
  <2> QED BY <1>1, <1>4, <2>1, PassMoves DEF Onwards, Steps
<1>5. CASE /\ step' = "naming" /\ UNCHANGED entry
           /\ archVideo' = [archVideo EXCEPT ![entry.task] = entry.bytes]
  <2>1. archVideo'[entry.task] = entry.bytes /\ \A t \in Tasks \ {entry.task} : archVideo'[t] = archVideo[t]
    BY <1>0, <1>3, <1>5 DEF ArchiverTypeOK
  <2>2. archVideo' \in [Tasks -> SUBSET (0..MaxUpdates)]
    <3>1. entry.bytes \in SUBSET (0..MaxUpdates)
      BY <1>3, MaxUpdatesAssumption
    <3> QED BY <1>0, <1>3, <1>5, <3>1 DEF ArchiverTypeOK
  <2>3. ArchiverTypeOK'
    BY <1>0, <1>1, <1>2, <1>5, <2>2 DEF ArchiverTypeOK, CameraTypeOK, RecorderTypeOK, Steps
  <2>4. ASSUME NEW t \in Tasks
        PROVE  FramesAreKnown(t)' /\ VideosAreKept(t)'
    <3>1. FramesAreKnown(t) /\ VideosAreKept(t)
      BY <1>0
    <3>2. CASE t = entry.task
      BY <1>1, <1>2, <1>3, <2>1, <3>1, <3>2 DEF FramesAreKnown, VideosAreKept, IsReady
    <3>3. CASE t # entry.task
      BY <1>1, <1>2, <1>3, <2>1, <3>1, <3>3 DEF FramesAreKnown, VideosAreKept
    <3> QED BY <3>2, <3>3
  <2>5. PassInv'
    BY <1>1, <1>2, <1>3, <1>5, <2>1 DEF PassInv, IsReady
  <2> QED BY <2>3, <2>4, <2>5 DEF ArchiverIInv
<1>6. \/ Onwards /\ UNCHANGED archVideo
      \/ /\ step' = "naming" /\ UNCHANGED entry
         /\ archVideo' = [archVideo EXCEPT ![entry.task] = entry.bytes]
  BY DEF Downloaded, Complete
<1> QED BY <1>4, <1>5, <1>6

(* The metadata is written: from now on the archive has the video.         *)
LEMMA NamedInv ==
  ASSUME ArchiverIInv, Named
  PROVE  ArchiverIInv'
<1>0. /\ ArchiverTypeOK /\ PassInv
      /\ \A t \in Tasks : FramesAreKnown(t) /\ VideosAreKept(t)
  BY DEF ArchiverIInv
<1>1. /\ UNCHANGED cameraVars /\ UNCHANGED <<todo, archVideo, made>> /\ step = "naming"
      /\ archMeta' = archMeta \union {entry.task}
  BY DEF Named
<1>2. UNCHANGED <<current, lastStatus, updates, posts>> /\ UNCHANGED <<holds, meta, frames, video, child, saved>>
  BY <1>1 DEF cameraVars, recorderVars, serviceVars
<1>3. /\ entry \in [task : Tasks, bytes : SUBSET (1..MaxUpdates)] /\ IsReady(entry)
      /\ entry # NoEntry /\ archVideo[entry.task] = entry.bytes
      /\ \A e \in todo : IsReady(e) /\ e.task # entry.task
  BY <1>0, <1>1 DEF PassInv, ArchiverTypeOK
<1>4. step' = "deleting" /\ entry' = entry
  BY <1>3 DEF Named, SameSize
<1>5. ArchiverTypeOK'
  BY <1>0, <1>1, <1>2, <1>3, <1>4 DEF ArchiverTypeOK, CameraTypeOK, RecorderTypeOK, Steps
<1>6. ASSUME NEW t \in Tasks
      PROVE  FramesAreKnown(t)' /\ VideosAreKept(t)'
  <2>1. FramesAreKnown(t) /\ VideosAreKept(t)
    BY <1>0
  <2> QED BY <1>1, <1>2, <1>3, <2>1 DEF FramesAreKnown, VideosAreKept, IsReady
<1>7. PassInv'
  BY <1>1, <1>2, <1>3, <1>4 DEF PassInv, IsReady
<1> QED BY <1>5, <1>6, <1>7 DEF ArchiverIInv

(* DELETE: the camera service's copy goes when the archive has its own.    *)
LEMMA RemoteDeletedInv ==
  ASSUME ArchiverIInv, RemoteDeleted
  PROVE  ArchiverIInv'
<1>0. /\ ArchiverTypeOK /\ PassInv /\ StoreInv /\ RecorderTypeOK
      /\ \A t \in Tasks : FramesAreKnown(t) /\ VideosAreKept(t)
  BY TypesSplit DEF ArchiverIInv, StoreInv
<1>1. /\ UNCHANGED <<todo, archVideo, archMeta, made>> /\ step = "deleting"
      /\ Remove(entry.task) /\ step' = "next" /\ entry' = NoEntry
  BY DEF RemoteDeleted, Onwards
<1>2. /\ entry \in [task : Tasks, bytes : SUBSET (1..MaxUpdates)] /\ IsReady(entry)
      /\ archVideo[entry.task] = entry.bytes /\ entry.task \in archMeta
      /\ \A e \in todo : IsReady(e) /\ e.task # entry.task
  BY <1>0, <1>1 DEF PassInv, ArchiverTypeOK
<1>3. /\ StoreInv'
      /\ \A u \in Tasks \ {entry.task} : meta'[u] = meta[u] /\ video'[u] = video[u]
      /\ meta'[entry.task] = "none" /\ video'[entry.task] = {}
  BY <1>0, <1>1, <1>2, RemoveKeeps DEF IsReady
<1>4. ArchiverTypeOK'
  <2>1. RecorderTypeOK'
    BY <1>0, <1>1 DEF Remove, recorderVars, RecorderTypeOK
  <2> QED BY <1>0, <1>1, <1>3, <2>1
      DEF ArchiverTypeOK, CameraTypeOK, StoreInv, StoreTypeOK, Steps
<1>5. ASSUME NEW t \in Tasks
      PROVE  VideosAreKept(t)'
  <2>1. VideosAreKept(t)
    BY <1>0
  <2>2. CASE t = entry.task
    BY <1>1, <1>2, <1>3, <2>1, <2>2 DEF VideosAreKept, IsReady
  <2>3. CASE t # entry.task
    BY <1>1, <1>3, <2>1, <2>3 DEF VideosAreKept
  <2> QED BY <2>2, <2>3
<1>6. PassInv'
  <2>1. \A e \in todo : e.task \in Tasks
    BY <1>0 DEF ArchiverTypeOK
  <2> QED BY <1>1, <1>2, <1>3, <2>1 DEF PassInv, IsReady
<1> QED BY <1>3, <1>4, <1>5, <1>6 DEF ArchiverIInv, StoreInv

(* The server restarts in the middle of whatever it did. *)
LEMMA ForgottenInv ==
  ASSUME ArchiverIInv, PassForgotten
  PROVE  ArchiverIInv'
<1>1. /\ current' = NoTask /\ lastStatus' = "undefined" /\ posts' \in SUBSET posts
      /\ updates' = updates
      /\ UNCHANGED <<holds, meta, frames, video, child, saved>>
      /\ step' = "idle" /\ todo' = {} /\ entry' = NoEntry
      /\ UNCHANGED <<archVideo, archMeta, made>>
  BY DEF PassForgotten, ServerRestarts, serviceVars
<1>2. ArchiverTypeOK'
  BY <1>1 DEF ArchiverIInv, ArchiverTypeOK, CameraTypeOK, RecorderTypeOK, Steps
<1>3. \A t \in Tasks : FramesAreKnown(t)' /\ VideosAreKept(t)'
  BY <1>1 DEF ArchiverIInv, FramesAreKnown, VideosAreKept
<1>4. PassInv'
  BY <1>1 DEF PassInv
<1> QED BY <1>2, <1>3, <1>4 DEF ArchiverIInv

-----------------------------------------------------------------------------
(* The part of AssemblesWhatStands that is about one step and one task. *)
StandsStill(t) ==
  /\ t \in child /\ t \in child' => frames'[t] = frames[t] /\ meta'[t] = "assembling"
  /\ meta[t] \in {"assembling", "ready", "failed"} => meta'[t] # "recording"

LEMMA ArchiverStep ==
  ASSUME ArchiverIInv, [ArchiverNext]_archiverVars
  PROVE  ArchiverIInv' /\ \A t \in Tasks : StandsStill(t)
<1>1. ASSUME UNCHANGED serviceVars
      PROVE  \A t \in Tasks : StandsStill(t)
  BY <1>1 DEF serviceVars, StandsStill, ArchiverIInv, FramesAreKnown
<1>2. CASE Tick \/ Listed \/ ListFails \/ PassEnds \/ EntryFails
  <2>1. UNCHANGED serviceVars
    BY <1>2 DEF Tick, Listed, ListFails, PassEnds, EntryFails, cameraVars
  <2> QED BY <1>1, <1>2, <2>1, PassGoesOn
<1>3. ASSUME NEW e \in todo, NextEntry(e)
      PROVE  ArchiverIInv' /\ \A t \in Tasks : StandsStill(t)
  BY <1>1, <1>3, NextEntryInv DEF NextEntry, cameraVars
<1>4. CASE Downloaded
  BY <1>1, <1>4, DownloadedInv DEF Downloaded, cameraVars
<1>5. CASE Named
  BY <1>1, <1>5, NamedInv DEF Named, cameraVars
<1>6. CASE RemoteDeleted
  <2>1. ASSUME NEW t \in Tasks
        PROVE  StandsStill(t)
    <3>1. /\ step = "deleting" /\ child' = child
          /\ meta' = [meta EXCEPT ![entry.task] = "none"]
          /\ frames' = [frames EXCEPT ![entry.task] = {}]
      BY <1>6 DEF RemoteDeleted, Remove
    <3>2. meta[entry.task] = "ready"
      BY <3>1 DEF ArchiverIInv, PassInv, IsReady
    <3>3. FramesAreKnown(t) /\ meta \in [Tasks -> States] /\ frames \in [Tasks -> SUBSET (1..MaxUpdates)]
      BY DEF ArchiverIInv, ArchiverTypeOK, CameraTypeOK
    <3> QED BY <3>1, <3>2, <3>3 DEF StandsStill, FramesAreKnown
  <2> QED BY <1>6, <2>1, RemoteDeletedInv
<1>7. CASE CameraStep
  BY <1>7, CameraStepInv DEF LeavesAlone, StandsStill
<1>8. CASE PassForgotten
  BY <1>1, <1>8, ForgottenInv DEF PassForgotten, ServerRestarts
<1>9. CASE UNCHANGED archiverVars
  <2>1. UNCHANGED cameraVars /\ UNCHANGED <<step, todo, entry, archVideo, archMeta, made>>
    BY <1>9 DEF archiverVars, archVars
  <2>2. UNCHANGED <<meta, video>> /\ UNCHANGED serviceVars
    BY <2>1 DEF cameraVars, serviceVars
  <2>3. PassInv' /\ step' \in Steps
    BY <2>1, <2>2 DEF ArchiverIInv, ArchiverTypeOK, PassInv, IsReady
  <2>4. ArchiverIInv'
    BY <2>1, <2>3, PassMoves
  <2> QED BY <1>1, <2>2, <2>4
<1> QED BY <1>2, <1>3, <1>4, <1>5, <1>6, <1>7, <1>8, <1>9 DEF ArchiverNext

LEMMA ArchiverInvariant == ArchiverSpec => []ArchiverIInv
BY ArchiverInitInv, ArchiverStep, PTL DEF ArchiverSpec

(* The variables of the recorder, of the camera service and of the archive *)
(* have their types.                                                       *)
THEOREM ArchiverTypeCorrect == ArchiverSpec => []ArchiverTypeOK
<1>1. ArchiverIInv => ArchiverTypeOK
  BY DEF ArchiverIInv
<1> QED BY <1>1, ArchiverInvariant, PTL

(* No frame the store took is lost before its time-lapse is deleted, and   *)
(* one that is ready has them all in its video: wherever the service goes  *)
(* down, and whatever request comes late.                                  *)
THEOREM NothingLost == ArchiverSpec => []NothingTakenIsLost
<1>1. ArchiverIInv => NothingTakenIsLost
  BY DEF ArchiverIInv, FramesAreKnown, NothingTakenIsLost, FramesOrVideo, ReadyIsWhole
<1> QED BY <1>1, ArchiverInvariant, PTL

(* A video that was ever finished has a copy somewhere: the service's is   *)
(* deleted only once the archive has one and knows it.  The archive shows  *)
(* no video but finished ones, and those whole.                            *)
THEOREM ArchiveRight == ArchiverSpec => []ArchiveIsRight
<1>1. ArchiverIInv => NoVideoLost
  BY DEF ArchiverIInv, VideosAreKept, NoVideoLost
<1>2. ArchiverIInv => ArchivedIsWhole
  BY DEF ArchiverIInv, ArchiverTypeOK, VideosAreKept, ArchivedIsWhole
<1> QED BY <1>1, <1>2, ArchiverInvariant, PTL DEF ArchiveIsRight

(* Nothing changes under an ffmpeg that is at work, and what was finished  *)
(* is not recorded again.                                                  *)
THEOREM FramesStandStill == ArchiverSpec => AssemblesWhatStands
<1>1. ArchiverIInv /\ [ArchiverNext]_archiverVars =>
        [\A t \in Tasks :
           /\ t \in child /\ t \in child' => frames'[t] = frames[t] /\ meta'[t] = "assembling"
           /\ meta[t] \in {"assembling", "ready", "failed"} => meta'[t] # "recording"]_cameraVars
  BY ArchiverStep DEF StandsStill
<1> QED BY <1>1, ArchiverInvariant, PTL DEF ArchiverSpec, AssemblesWhatStands

=============================================================================

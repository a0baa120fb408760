----------------------------- MODULE LayerPage -----------------------------
(***************************************************************************)
(* apps/web/src/Layer.tsx with the lightbox of Lightbox.tsx: the picture of*)
(* the layer being printed, on one page, served by PrintView.              *)
(*                                                                         *)
(* The component is mounted once per print.  Every layer it is given runs  *)
(* the effect that loads the picture; the runs are numbered.  A run loads  *)
(* one picture at most, so its number names the object URL, too, and that  *)
(* a picture is newer is that its number is higher.                        *)
(***************************************************************************)
EXTENDS PrintView, Sequences, SequencesExt

CONSTANT MaxRuns   \* bound: how many layers the page is given

ASSUME MaxRunsAssumption == MaxRuns \in Nat

Runs == 1..MaxRuns
NoUrl == 0

VARIABLES
  mounted,    \* the print the component is mounted for
  run,        \* the effect's latest run
  since,      \* the first run of the component that is mounted
  at,         \* what each run is waiting for
  alive,      \* object URLs that exist
  urls,       \* the component's urls
  pinned,     \* the keys of pinned: one lightbox is open at most, so that
              \* no count is above one
  retired,
  src,        \* the state src, with shown: the layer of that run
  onPage,     \* src as it was last rendered
  note,
  lightbox,   \* smallSrc of the open lightbox
  big         \* how the lightbox's own picture is coming along

pageVars == <<mounted, run, since, at, alive, urls, pinned, retired, src, onPage, note,
              lightbox, big>>
pictureVars == <<viewVars, pageVars>>

Notes == {"none", "fetching", "no image"}

PageInit ==
  /\ ViewInit
  /\ mounted = NoTask
  /\ run = 0
  /\ since = 1
  /\ at = [r \in Runs |-> "none"]
  /\ alive = {}
  /\ urls = <<>>
  /\ pinned = {}
  /\ retired = {}
  /\ src = NoUrl
  /\ onPage = NoUrl
  /\ note = "none"
  /\ lightbox = NoUrl
  /\ big = "none"

(* The run's live flag. *)
Live(r) == mounted # NoTask /\ r = run

(* The component whose state the run sets is still there. *)
Mine(r) == mounted # NoTask /\ r >= since

-----------------------------------------------------------------------------
(* Faulty variants, used to check that the properties notice them.         *)
(* LiveOnce: a picture that comes late is shown all the same.              *)
LiveOnce(r) == Mine(r)

(* LiveAlways: a picture that comes after the page is left is kept, too.   *)
LiveAlways(r) == TRUE

(* KeepsOne: only the newest picture is kept.                              *)
KeepsOne == 1

-----------------------------------------------------------------------------
(* What the page keeps: the picture on screen and the one replacing it.    *)
Kept == 2

IsPinned(u) == u \in pinned

(* free: a URL the lightbox still shows is retired, any other is revoked.  *)
Free(us, gone) ==
  /\ retired' = retired \union {u \in us : IsPinned(u)}
  /\ alive' = gone \ {u \in us : ~IsPinned(u)}

Pin(u) == pinned' = pinned \union {u}

(* A URL that was retired meanwhile is revoked. *)
Unpin(u) ==
  /\ pinned' = pinned \ {u}
  /\ retired' = retired \ {u}
  /\ alive' = alive \ ({u} \intersect retired)

(* The effect's cleanup: a timer that is set is cleared, and an answer is  *)
(* not listened to any more.  A body that is being read is read to its end.*)
CleanedUp ==
  [r \in Runs |-> IF r = run /\ at[r] \in {"timer", "request"} THEN "done" ELSE at[r]]

(* The page is rendered, and the effect runs for the layer it is given.    *)
Renders == onPage' = src

NextRun ==
  /\ run < MaxRuns
  /\ run' = run + 1
  /\ at' = [CleanedUp EXCEPT ![run + 1] = "request"]

UnchangedUrls == UNCHANGED <<alive, urls, pinned, retired>>
UnchangedLightbox == UNCHANGED <<lightbox, big>>

Mounts ==
  /\ mounted = NoTask
  /\ shown # NoTask
  /\ mounted' = shown
  /\ NextRun
  /\ since' = run + 1
  /\ src' = NoUrl /\ onPage' = NoUrl /\ note' = "none"
  /\ UnchangedUrls /\ UnchangedLightbox

NewLayer ==
  /\ mounted # NoTask
  /\ NextRun
  /\ Renders
  /\ UNCHANGED <<mounted, since, src, note>>
  /\ UnchangedUrls /\ UnchangedLightbox

(* A state that was set is rendered. *)
Rerenders ==
  /\ onPage # src
  /\ Renders
  /\ UNCHANGED <<mounted, run, since, at, src, note>>
  /\ UnchangedUrls /\ UnchangedLightbox

(* The page shows another print, or none: the lightbox goes with it.       *)
Unmounts ==
  /\ mounted # NoTask
  /\ mounted # shown
  /\ mounted' = NoTask
  /\ at' = CleanedUp
  /\ alive' = alive \ (Range(urls) \union retired)
  /\ urls' = <<>>
  /\ retired' = {}
  /\ pinned' = {}
  /\ src' = NoUrl /\ onPage' = NoUrl /\ note' = "none"
  /\ lightbox' = NoUrl /\ big' = "none"
  /\ UNCHANGED <<run, since>>

PageUpdates == (Mounts \/ NewLayer \/ Rerenders \/ Unmounts) /\ UNCHANGED viewVars

-----------------------------------------------------------------------------
Moves(r, s) == at' = [at EXCEPT ![r] = s]

(* No image; the run is over. *)
GivesUp(r) == Moves(r, "done") /\ note' = IF Live(r) THEN "no image" ELSE note

UnchangedPicture ==
  UNCHANGED <<mounted, run, since, src, onPage>> /\ UnchangedUrls /\ UnchangedLightbox

(* The server's answer arrives. *)
AnswerArrives(r) ==
  /\ at[r] = "request"
  /\ LayerAsked(r, TRUE)
  /\ CASE LayerAnswer(r, TRUE) = "downloading" -> Moves(r, "json") /\ UNCHANGED note
       [] LayerAnswer(r, TRUE) = "ready" -> Moves(r, "blob") /\ UNCHANGED note
       [] OTHER -> GivesUp(r)
  /\ UnchangedPicture

(* The request or the reading of its answer fails. *)
RequestFails(r) ==
  /\ at[r] \in {"request", "json", "blob"}
  /\ GivesUp(r)
  /\ UnchangedPicture
  /\ UNCHANGED viewVars

(* How far the download is has been read; whether the run is still live is *)
(* not asked again.  The timer of one that is not sends a request whose    *)
(* answer nobody listens to.                                               *)
ProgressRead(r) ==
  /\ at[r] = "json"
  /\ Moves(r, IF Live(r) THEN "timer" ELSE "done")
  /\ note' = IF Mine(r) THEN "fetching" ELSE note
  /\ UnchangedPicture
  /\ UNCHANGED viewVars

Retries(r) ==
  /\ at[r] = "timer"
  /\ Moves(r, "request")
  /\ UNCHANGED note
  /\ UnchangedPicture
  /\ UNCHANGED viewVars

Shows(r) == Live(r)

(* The picture is there: a URL is made, and revoked at once if the run is  *)
(* not live any more.                                                      *)
PictureRead(r) ==
  /\ at[r] = "blob"
  /\ Moves(r, "done")
  /\ IF Shows(r)
     THEN LET all == Append(urls, r)
              first == IF Len(all) > Kept THEN Len(all) - Kept ELSE 0
          IN /\ urls' = SubSeq(all, first + 1, Len(all))
             /\ Free({all[i] : i \in 1..first}, alive \union {r})
             /\ src' = r
             /\ note' = "none"
     ELSE UNCHANGED <<urls, alive, retired, src, note>>
  /\ UNCHANGED <<mounted, run, since, onPage, pinned>>
  /\ UnchangedLightbox
  /\ UNCHANGED viewVars

-----------------------------------------------------------------------------
(* The small picture is clicked: the lightbox holds the layer that was on  *)
(* the page, and pins its URL.                                             *)
OpensLightbox ==
  /\ lightbox = NoUrl
  /\ onPage # NoUrl
  /\ lightbox' = onPage
  /\ Pin(onPage)
  /\ big' = "request"
  /\ Renders
  /\ UNCHANGED <<mounted, run, since, at, alive, urls, retired, src, note>>
  /\ UNCHANGED viewVars

(* The big picture's own URL goes, too, and a request still out is not     *)
(* listened to.                                                            *)
ClosesLightbox ==
  /\ lightbox # NoUrl
  /\ lightbox' = NoUrl
  /\ Unpin(lightbox)
  /\ big' = "none"
  /\ Renders
  /\ UNCHANGED <<mounted, run, since, at, urls, src, note>>
  /\ UNCHANGED viewVars

UnchangedButBig ==
  UNCHANGED <<mounted, run, since, at, src, onPage, note, lightbox>> /\ UnchangedUrls

(* The big picture is asked for; after a 202, again and again. *)
BigArrives ==
  /\ big = "request"
  /\ LayerAsked(lightbox, FALSE)
  /\ big' = CASE LayerAnswer(lightbox, FALSE) = "downloading" -> "request"
              [] LayerAnswer(lightbox, FALSE) = "ready" -> "shown"
              [] OTHER -> "refused"
  /\ UnchangedButBig

BigFails ==
  /\ big = "request"
  /\ big' = "refused"
  /\ UnchangedButBig
  /\ UNCHANGED viewVars

ServerStep == ViewNext /\ UNCHANGED pageVars

Run(r) ==
  AnswerArrives(r) \/ RequestFails(r) \/ ProgressRead(r) \/ Retries(r) \/ PictureRead(r)

PictureNext ==
  \/ ServerStep
  \/ PageUpdates
  \/ \E r \in Runs : Run(r)
  \/ OpensLightbox \/ ClosesLightbox \/ BigArrives \/ BigFails

PictureSpec == PageInit /\ [][PictureNext]_pictureVars

-----------------------------------------------------------------------------
(* The picture on the page and the one the lightbox stands in with are     *)
(* never taken away while they are looked at, however far the print moves  *)
(* on underneath (Layer.tsx:40-43).                                        *)
ShownIsAlive ==
  /\ onPage # NoUrl => onPage \in alive
  /\ lightbox # NoUrl => lightbox \in alive

(* No object URL is forgotten: those that exist are the two the page keeps *)
(* and what the lightbox holds, and none is left when the page is left.    *)
NothingLeaks ==
  /\ alive = Range(urls) \union retired
  /\ retired \subseteq {lightbox} \ {NoUrl}
  /\ mounted = NoTask => alive = {}

(* The picture steps from layer to layer, never back to an earlier one.    *)
StepsForward ==
  [][mounted' = mounted /\ onPage' # NoUrl => onPage' >= onPage]_pictureVars

(* A page that loads nothing more shows the picture of its layer or says   *)
(* why not: no answer is lost on the way, and no retry.                    *)
PictureOrReason ==
  mounted # NoTask /\ at[run] = "done" => src = run \/ note # "none"

(* Whatever the order of requests, answers and renders, there is something *)
(* to look at (Layer.tsx:116-165).                                         *)
PictureIsThere == ShownIsAlive /\ PictureOrReason

=============================================================================

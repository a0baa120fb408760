-------------------------- MODULE LayerPage_proofs --------------------------
(***************************************************************************)
(* Proofs about PrintView and LayerPage, for any number of prints, of      *)
(* restarts and of layers.                                                 *)
(***************************************************************************)
EXTENDS LayerPage, TLAPS

(* The server: whose print, and whose files there can be.                  *)
ViewTypeOK ==
  /\ printing \in past \union {NoTask}
  /\ past \subseteq Tasks
  /\ shown \in {printing, NoTask}
  /\ task \in Tasks \union {NoTask}
  /\ stage \in [Tasks -> Stages]
  /\ listed \in [Tasks -> SUBSET Files]
  /\ disk \subseteq Files
  /\ late \in BOOLEAN

(* A server that has seen no print yet has not begun to fetch any.         *)
NothingBegun ==
  /\ task = NoTask => \A t \in Tasks : stage[t] = "none" /\ listed[t] = {}
  /\ task # NoTask => stage[task] # "none" /\ task \in past

(* What the printer reports, the server shows - or it has just started.    *)
ShownIsPrepared ==
  /\ shown # NoTask => shown = task
  /\ shown # printing => task = NoTask

(* Files, and what is to be removed, are of prints that have begun.        *)
FilesAreOfThePast ==
  /\ \A t \in Tasks : stage[t] # "none" => t \in past
  /\ \A f \in disk : f[1] \in past
  /\ \A t \in Tasks : \A f \in listed[t] : f[1] \in past

(* No download, unless it was late, has the current print's file on its    *)
(* list.                                                                   *)
NotOnAList == ~late => \A t \in Tasks : \A f \in listed[t] : f[1] # task

ViewInv ==
  /\ ViewTypeOK
  /\ NothingBegun
  /\ ShownIsPrepared
  /\ FilesAreOfThePast
  /\ NotOnAList
  /\ FileIsKept

RunStates == {"none", "request", "json", "timer", "blob", "done"}

(* The page. *)
PageTypeOK ==
  /\ mounted \in Tasks \union {NoTask}
  /\ run \in 0..MaxRuns
  /\ since \in 1..(MaxRuns + 1)
  /\ at \in [Runs -> RunStates]
  /\ urls \in Seq(Runs)
  /\ src \in Runs \union {NoUrl}
  /\ onPage \in Runs \union {NoUrl}
  /\ note \in Notes
  /\ lightbox \in Runs \union {NoUrl}

(* Two URLs are kept, the newer one last; that is the one to be shown.     *)
UrlsInOrder ==
  /\ Len(urls) <= Kept
  /\ \A i, j \in 1..Len(urls) : i < j => urls[i] < urls[j]
  /\ src = IF urls = <<>> THEN NoUrl ELSE urls[Len(urls)]

(* The latest run's picture is the newest there is.  Until there is one,   *)
(* the page shows the newest before it.                                    *)
RunIsNewest ==
  /\ mounted # NoTask => since <= run
  /\ src <= run
  /\ mounted # NoTask /\ src = run => at[run] = "done"
  /\ src # run => onPage = src
  /\ onPage # NoUrl => onPage \in Range(urls)

(* What the lightbox shows is pinned, and kept by the page, or retired and *)
(* then not kept by it.                                                    *)
LightboxIsPinned ==
  /\ pinned = {lightbox} \ {NoUrl}
  /\ retired \subseteq pinned
  /\ lightbox # NoUrl => lightbox \in Range(urls) \union retired
  /\ lightbox <= src
  /\ retired \intersect Range(urls) = {}

NothingUnmounted ==
  mounted = NoTask => urls = <<>> /\ retired = {} /\ lightbox = NoUrl /\ onPage = NoUrl

PageInv ==
  /\ PageTypeOK
  /\ UrlsInOrder
  /\ RunIsNewest
  /\ LightboxIsPinned
  /\ NothingUnmounted
  /\ alive = Range(urls) \union retired
  /\ PictureOrReason

LayerIInv == ViewInv /\ PageInv

-----------------------------------------------------------------------------
(* The server. *)
LEMMA ViewInitInv == ViewInit => ViewInv
BY NoTaskAssumption
DEF ViewInit, ViewInv, ViewTypeOK, NothingBegun, ShownIsPrepared, FilesAreOfThePast,
    NotOnAList, FileIsKept, Stages, Files

(* A print that is shown is prepared: it is the current one from then on,  *)
(* if it was not, and none of its files is on the list of a download.      *)
LEMMA PrepareKeeps ==
  ASSUME ViewInv, NEW t \in Tasks, Prepare(t),
         past' \subseteq Tasks, past \subseteq past', t \in past',
         printing' = t, shown' = t,
         task = NoTask \/ task = t \/ t \notin past,
         UNCHANGED <<listed, disk, late>>
  PROVE  ViewInv'
<1>0. /\ ViewTypeOK /\ NothingBegun /\ FilesAreOfThePast /\ NotOnAList /\ FileIsKept
      /\ t # NoTask
  BY NoTaskAssumption DEF ViewInv
<1>1. CASE task = t /\ stage[t] # "none"
  <2>1. UNCHANGED <<task, stage>>
    BY <1>1 DEF Prepare
  <2>2. ViewTypeOK' /\ FilesAreOfThePast'
    BY <1>0, <2>1 DEF ViewTypeOK, FilesAreOfThePast
  <2>3. NothingBegun' /\ ShownIsPrepared' /\ NotOnAList' /\ FileIsKept'
    BY <1>0, <1>1, <2>1
    DEF NothingBegun, ShownIsPrepared, NotOnAList, FileIsKept, Part
  <2> QED BY <2>2, <2>3 DEF ViewInv
<1>2. CASE ~(task = t /\ stage[t] # "none")
  <2>1. task' = t /\ stage' = [stage EXCEPT ![t] = "detail"]
    BY <1>2 DEF Prepare
  <2>2. /\ stage' \in [Tasks -> Stages] /\ stage'[t] = "detail"
        /\ \A u \in Tasks : u # t => stage'[u] = stage[u]
    BY <1>0, <2>1 DEF ViewTypeOK, Stages, InFlight
  <2>3. ViewTypeOK'
    BY <1>0, <2>1, <2>2 DEF ViewTypeOK
  <2>4. FilesAreOfThePast'
    BY <1>0, <2>2 DEF FilesAreOfThePast
  <2>5. NothingBegun' /\ ShownIsPrepared' /\ FileIsKept'
    BY <1>0, <2>1, <2>2 DEF NothingBegun, ShownIsPrepared, FileIsKept
  <2>6. NotOnAList'
    <3>1. task # t
      BY <1>0, <1>2 DEF NothingBegun
    <3> QED BY <1>0, <2>1, <3>1 DEF NotOnAList, NothingBegun, FilesAreOfThePast
  <2> QED BY <2>3, <2>4, <2>5, <2>6 DEF ViewInv
<1> QED BY <1>1, <1>2

(* What the printer says: a print begins, ends, or is the first news.      *)
LEMMA StatusKeeps ==
  ASSUME ViewInv, (\E t \in Tasks : PrinterStarts(t)) \/ PrinterEnds \/ FirstStatus
  PROVE  ViewInv'
<1>0. /\ ViewTypeOK /\ NothingBegun /\ ShownIsPrepared /\ FilesAreOfThePast /\ NotOnAList
      /\ FileIsKept
  BY DEF ViewInv
<1>1. ASSUME NEW t \in Tasks, PrinterStarts(t)
      PROVE  ViewInv'
  <2>1. /\ t \notin past /\ printing' = t /\ past' = past \union {t} /\ shown' = t
        /\ Prepare(t) /\ UNCHANGED <<listed, disk, late>>
    BY <1>1, NoTaskAssumption DEF PrinterStarts, StatusArrives
  <2>2. past' \subseteq Tasks /\ past \subseteq past' /\ t \in past'
    BY <1>0, <2>1 DEF ViewTypeOK
  <2> QED BY <2>1, <2>2, PrepareKeeps
<1>2. CASE PrinterEnds
  <2>1. printing' = NoTask /\ shown' = NoTask /\ UNCHANGED <<past, task, stage, listed, disk, late>>
    BY <1>2 DEF PrinterEnds, StatusArrives
  <2> QED BY <1>0, <2>1
      DEF ViewInv, ViewTypeOK, NothingBegun, ShownIsPrepared, FilesAreOfThePast, NotOnAList,
          FileIsKept, Part
<1>3. CASE FirstStatus
  <2>1. /\ shown # printing /\ shown' = printing /\ UNCHANGED <<printing, past, listed, disk, late>>
        /\ shown = NoTask /\ printing \in past /\ printing \in Tasks /\ task = NoTask
    BY <1>0, <1>3 DEF FirstStatus, StatusArrives, ViewTypeOK, ShownIsPrepared
  <2>2. Prepare(printing) /\ past' \subseteq Tasks
    BY <1>0, <1>3, <2>1, NoTaskAssumption DEF FirstStatus, StatusArrives, ViewTypeOK
  <2> QED BY <2>1, <2>2, PrepareKeeps
<1> QED BY <1>1, <1>2, <1>3

(* A step of the download of t, which has begun. *)
LEMMA DownloadKeeps ==
  ASSUME ViewInv, NEW t \in Tasks, Download(t)
  PROVE  ViewInv'
<1>0. /\ ViewTypeOK /\ NothingBegun /\ ShownIsPrepared /\ FilesAreOfThePast /\ NotOnAList
      /\ FileIsKept
  BY DEF ViewInv
<1>1. UNCHANGED <<printing, past, shown, task>>
  BY DEF Download, DetailArrives, Lists, Clears, Answers, Written, Renames, Opens,
         UnchangedButDownload
<1>2. stage[t] # "none" /\ task # NoTask /\ t \in past
  BY <1>0
  DEF Download, DetailArrives, Lists, Clears, Answers, Written, Renames, Opens, At,
      NothingBegun, FilesAreOfThePast
<1>3. PICK s \in Stages \ {"none"} : stage' = [stage EXCEPT ![t] = s]
  <2>1. CASE Clears(t)
    <3>1. /\ stage[t] = "clearing"
          /\ stage' = [stage EXCEPT ![t] = "fetching"] \/ stage' = stage
      BY <2>1 DEF Clears, At, GoesOn
    <3>2. stage = [stage EXCEPT ![t] = "clearing"]
      BY <1>0, <3>1 DEF ViewTypeOK
    <3> QED BY <3>1, <3>2 DEF Stages, InFlight
  <2> QED
    BY <2>1
    DEF Download, DetailArrives, Lists, Answers, Written, Renames, Opens, GoesOn, Fails, Stages,
        InFlight
<1>4. /\ stage' \in [Tasks -> Stages] /\ stage'[t] = s
      /\ \A u \in Tasks : u # t => stage'[u] = stage[u]
  BY <1>0, <1>3 DEF ViewTypeOK
<1>5. NothingBegun' /\ ShownIsPrepared'
  BY <1>0, <1>1, <1>2, <1>4 DEF NothingBegun, ShownIsPrepared, ViewTypeOK
<1>6. ASSUME UNCHANGED <<listed, disk, late>>,
             \/ s \in {"listing", "failed"}
             \/ s = "renaming" /\ stage[t] = "writing"
             \/ s = "ready" /\ stage[t] = "opening" /\ <<t, "goo">> \in disk
      PROVE  ViewInv'
  <2>1. ViewTypeOK' /\ FilesAreOfThePast' /\ NotOnAList'
    BY <1>0, <1>1, <1>2, <1>4, <1>6 DEF ViewTypeOK, FilesAreOfThePast, NotOnAList
  <2>2. FileIsKept'
    <3>1. CASE task = t
      BY <1>0, <1>1, <1>4, <1>6, <3>1 DEF FileIsKept, Part
    <3>2. CASE task # t
      <4>1. task \in Tasks
        BY <1>0, <1>2 DEF ViewTypeOK
      <4> QED BY <1>0, <1>1, <1>4, <1>6, <3>2, <4>1 DEF FileIsKept, Part
    <3> QED BY <3>1, <3>2
  <2> QED BY <1>5, <2>1, <2>2 DEF ViewInv
<1>7. CASE Lists(t)
  <2>1. /\ listed' = [listed EXCEPT ![t] = Stale(t)] /\ disk' = disk
        /\ late' = (late \/ task # t) /\ s = "clearing"
    BY <1>4, <1>7, <1>0 DEF Lists, GoesOn, ViewTypeOK
  <2>2. /\ listed'[t] = Stale(t) /\ \A u \in Tasks : u # t => listed'[u] = listed[u]
        /\ listed' \in [Tasks -> SUBSET Files]
    BY <1>0, <2>1 DEF ViewTypeOK, Stale
  <2>3. ViewTypeOK'
    BY <1>0, <1>1, <1>4, <2>1, <2>2 DEF ViewTypeOK
  <2>4. FilesAreOfThePast'
    BY <1>0, <1>1, <1>2, <1>4, <2>1, <2>2 DEF FilesAreOfThePast, Stale
  <2>5. NotOnAList'
    BY <1>0, <1>1, <2>1, <2>2 DEF NotOnAList, Stale, ViewTypeOK
  <2>6. FileIsKept'
    BY <1>0, <1>1, <1>4, <2>1 DEF FileIsKept, ViewTypeOK, Part
  <2> QED BY <1>5, <2>3, <2>4, <2>5, <2>6 DEF ViewInv
<1>8. CASE Clears(t)
  <2>1. PICK gone \in SUBSET listed[t] :
          /\ listed' = [listed EXCEPT ![t] = @ \ gone] /\ disk' = disk \ gone /\ late' = late
          /\ s \in {"clearing", "fetching"}
    <3>1. CASE \E f \in listed[t] : /\ disk' = disk \ {f}
                                    /\ listed' = [listed EXCEPT ![t] = @ \ {f}]
                                    /\ stage' = stage
      BY <1>0, <1>4, <1>8, <3>1 DEF Clears, At, ViewTypeOK
    <3>2. CASE GoesOn(t, "fetching") /\ UNCHANGED <<disk, listed>>
      <4>1. listed = [listed EXCEPT ![t] = @ \ {}]
        BY <1>0 DEF ViewTypeOK
      <4> QED BY <1>0, <1>4, <1>8, <3>2, <4>1 DEF Clears, GoesOn, ViewTypeOK
    <3> QED BY <1>8, <3>1, <3>2 DEF Clears, Removed
  <2>2. /\ listed'[t] \subseteq listed[t] /\ \A u \in Tasks : u # t => listed'[u] = listed[u]
        /\ listed' \in [Tasks -> SUBSET Files]
    BY <1>0, <2>1 DEF ViewTypeOK
  <2>3. ViewTypeOK'
    BY <1>0, <1>1, <1>4, <2>1, <2>2 DEF ViewTypeOK
  <2>4. FilesAreOfThePast' /\ NotOnAList'
    BY <1>0, <1>1, <1>2, <1>4, <2>1, <2>2 DEF FilesAreOfThePast, NotOnAList
  <2>5. ~late => Part(task) \notin gone /\ <<task, "goo">> \notin gone
    BY <1>0, <2>1 DEF NotOnAList, Part
  <2>6. FileIsKept'
    BY <1>0, <1>1, <1>4, <2>1, <2>5 DEF FileIsKept, ViewTypeOK, Part
  <2> QED BY <1>5, <2>3, <2>4, <2>6 DEF ViewInv
<1>9. CASE Answers(t) \/ Renames(t)
  <2>1. UNCHANGED <<listed, late>>
    BY <1>9 DEF Answers, Renames
  <2>2. \/ s = "failed" /\ disk' = disk
        \/ s = "writing" /\ disk' = disk \union {Part(t)}
        \/ s = "opening" /\ disk' = (disk \ {Part(t)}) \union {<<t, "goo">>}
    BY <1>0, <1>4, <1>9 DEF Answers, Renames, GoesOn, Fails, ViewTypeOK
  <2>3. Part(t) \in Files /\ <<t, "goo">> \in Files
    BY DEF Part, Files
  <2>4. ViewTypeOK'
    BY <1>0, <1>1, <1>4, <2>1, <2>2, <2>3 DEF ViewTypeOK
  <2>5. FilesAreOfThePast' /\ NotOnAList'
    BY <1>0, <1>1, <1>2, <1>4, <2>1, <2>2 DEF FilesAreOfThePast, NotOnAList, Part
  <2>6. FileIsKept'
    <3>1. CASE task = t
      BY <1>0, <1>1, <1>4, <2>1, <2>2, <3>1 DEF FileIsKept, Part
    <3>2. CASE task # t
      <4>1. task \in Tasks
        BY <1>0, <1>2 DEF ViewTypeOK
      <4> QED BY <1>0, <1>1, <1>4, <2>1, <2>2, <3>2, <4>1 DEF FileIsKept, Part
    <3> QED BY <3>1, <3>2
  <2> QED BY <1>5, <2>4, <2>5, <2>6 DEF ViewInv
<1>10. CASE DetailArrives(t) \/ Written(t) \/ Opens(t)
  <2>1. /\ UNCHANGED <<listed, disk, late>>
        /\ \/ s \in {"listing", "failed"}
           \/ s = "renaming" /\ stage[t] = "writing"
           \/ s = "ready" /\ stage[t] = "opening" /\ <<t, "goo">> \in disk
    BY <1>0, <1>4, <1>10 DEF DetailArrives, Written, Opens, GoesOn, Fails, At, ViewTypeOK
  <2> QED BY <1>6, <2>1
<1> QED BY <1>7, <1>8, <1>9, <1>10 DEF Download

LEMMA RestartKeeps ==
  ASSUME ViewInv, ServerRestarts
  PROVE  ViewInv'
BY DEF ServerRestarts, ViewInv, ViewTypeOK, NothingBegun, ShownIsPrepared, FilesAreOfThePast,
       NotOnAList, FileIsKept, Stages

LEMMA ViewStepKeeps ==
  ASSUME ViewInv, ViewNext
  PROVE  ViewInv'
BY StatusKeeps, DownloadKeeps, RestartKeeps DEF ViewNext

(* The route of a layer prepares nothing that is not prepared already.     *)
LEMMA AskedKeeps ==
  ASSUME ViewInv, NEW layer, NEW usual \in BOOLEAN, LayerAsked(layer, usual)
  PROVE  ViewInv'
<1>1. UNCHANGED <<printing, past, shown, listed, disk, late>>
  BY DEF LayerAsked
<1>2. shown # NoTask => shown = task /\ stage[shown] # "none"
  BY DEF ViewInv, ShownIsPrepared, NothingBegun
<1>3. UNCHANGED <<task, stage>>
  BY <1>2 DEF LayerAsked, Prepare
<1> QED BY <1>1, <1>3
    DEF ViewInv, ViewTypeOK, NothingBegun, ShownIsPrepared, FilesAreOfThePast, NotOnAList,
        FileIsKept, Part

-----------------------------------------------------------------------------
(* The page.  The kept URLs are of runs. *)
LEMMA UrlsAreRuns ==
  ASSUME PageTypeOK
  PROVE  /\ DOMAIN urls = 1..Len(urls)
         /\ \A i \in 1..Len(urls) : urls[i] \in Runs
         /\ \A i \in 1..Len(urls) : urls[i] \in Nat
<1>1. urls \in Seq(Runs)
  BY DEF PageTypeOK
<1>2. DOMAIN urls = 1..Len(urls) /\ \A i \in 1..Len(urls) : urls[i] \in Runs
  BY <1>1
<1>3. Runs \subseteq Nat
  BY MaxRunsAssumption DEF Runs
<1> QED BY <1>2, <1>3

(* Where the kept URLs are: below the newest, which is src.     *)
LEMMA UrlFacts ==
  ASSUME PageTypeOK, UrlsInOrder
  PROVE  /\ Range(urls) \subseteq Runs
         /\ \A u \in Range(urls) : u <= src
         /\ src # NoUrl => src \in Range(urls)
         /\ urls = <<>> => Range(urls) = {} /\ src = NoUrl
         /\ urls # <<>> => src \in Runs
         /\ NoUrl \notin Runs
<1>1. urls \in Seq(Runs) /\ Len(urls) \in Nat /\ Runs \subseteq Nat /\ NoUrl \notin Runs
  BY MaxRunsAssumption DEF PageTypeOK, Runs, NoUrl
<1>2. Range(urls) \subseteq Runs
  BY <1>1 DEF Range
<1>3. CASE urls = <<>>
  BY <1>1, <1>2, <1>3 DEF Range, UrlsInOrder
<1>4. CASE urls # <<>>
  <2>1. Len(urls) \in 1..Len(urls) /\ src = urls[Len(urls)] /\ src \in Runs
    BY <1>1, <1>4 DEF UrlsInOrder
  <2>2. ASSUME NEW i \in 1..Len(urls)
        PROVE  urls[i] <= src
    <3>1. urls[i] \in Nat /\ src \in Nat
      BY <1>1, <2>1, <2>2, UrlsAreRuns
    <3>2. CASE i = Len(urls)
      BY <2>1, <3>1, <3>2
    <3>3. CASE i # Len(urls)
      <4>1. i < Len(urls)
        BY <1>1, <3>3
      <4>2. urls[i] < urls[Len(urls)]
        BY <2>1, <4>1 DEF UrlsInOrder
      <4> QED BY <2>1, <3>1, <4>2
    <3> QED BY <3>2, <3>3
  <2> QED BY <1>1, <1>2, <1>4, <2>1, <2>2 DEF Range
<1> QED BY <1>3, <1>4

(* Steps that leave the URLs alone. *)
LEMMA UrlsKeep ==
  ASSUME PageInv, UnchangedUrls, PageTypeOK', src' = src, RunIsNewest', PictureOrReason',
         lightbox' = lightbox, mounted' = NoTask => mounted = NoTask /\ onPage' = NoUrl
  PROVE  PageInv'
<1>1. UNCHANGED <<alive, urls, pinned, retired, src, lightbox>>
  BY DEF UnchangedUrls
<1> QED BY <1>1 DEF PageInv, UrlsInOrder, LightboxIsPinned, NothingUnmounted

LEMMA PageInitInv == PageInit => PageInv
<1> SUFFICES ASSUME PageInit PROVE PageInv
  OBVIOUS
<1>1. Range(urls) = {}
  BY DEF PageInit, Range
<1>2. PageTypeOK
  BY MaxRunsAssumption DEF PageInit, PageTypeOK, RunStates, Runs, NoUrl, Notes
<1>3. UrlsInOrder /\ RunIsNewest /\ LightboxIsPinned
  BY <1>1 DEF PageInit, UrlsInOrder, RunIsNewest, LightboxIsPinned, Kept, NoUrl
<1> QED BY <1>1, <1>2, <1>3 DEF PageInit, PageInv, NothingUnmounted, PictureOrReason

(* A new run: the old one is cleaned up, and this one has a request out.   *)
LEMMA NextRunFacts ==
  ASSUME PageTypeOK, NextRun
  PROVE  /\ run' = run + 1 /\ run' \in Runs /\ run' \in 0..MaxRuns
         /\ at' \in [Runs -> RunStates] /\ at'[run + 1] = "request"
<1>1. run + 1 \in Runs /\ run' = run + 1
  BY MaxRunsAssumption DEF PageTypeOK, NextRun, Runs
<1>2. CleanedUp \in [Runs -> RunStates]
  BY DEF PageTypeOK, CleanedUp, RunStates
<1>3. at' = [CleanedUp EXCEPT ![run + 1] = "request"]
  BY DEF NextRun
<1> QED BY <1>1, <1>2, <1>3, MaxRunsAssumption DEF RunStates, Runs

LEMMA MountsKeeps ==
  ASSUME PageInv, ViewTypeOK, Mounts
  PROVE  PageInv'
<1>0. PageTypeOK /\ UrlsInOrder /\ NothingUnmounted /\ RunIsNewest
  BY DEF PageInv
<1>1. /\ mounted = NoTask /\ mounted' \in Tasks /\ mounted' # NoTask
      /\ since' = run + 1 /\ src' = NoUrl /\ onPage' = NoUrl /\ note' = "none"
      /\ UNCHANGED <<alive, urls, pinned, retired, lightbox>>
  BY DEF Mounts, ViewTypeOK, UnchangedUrls, UnchangedLightbox
<1>2. /\ run' = run + 1 /\ run' \in Runs /\ run' \in 0..MaxRuns
      /\ at' \in [Runs -> RunStates] /\ at'[run + 1] = "request"
  BY <1>0, NextRunFacts DEF Mounts
<1>3. src = NoUrl
  BY <1>0, <1>1, UrlFacts DEF NothingUnmounted
<1>4. PageTypeOK'
  <2>1. since' \in 1..(MaxRuns + 1)
    BY <1>0, <1>1, MaxRunsAssumption DEF PageTypeOK
  <2> QED BY <1>0, <1>1, <1>2, <2>1 DEF PageTypeOK, Notes
<1>5. RunIsNewest'
  BY <1>0, <1>1, <1>2 DEF RunIsNewest, PageTypeOK, NoUrl, Runs
<1>6. PictureOrReason'
  BY <1>1, <1>2 DEF PictureOrReason
<1> QED BY <1>1, <1>3, <1>4, <1>5, <1>6, UrlsKeep DEF UnchangedUrls

LEMMA NewLayerKeeps ==
  ASSUME PageInv, NewLayer
  PROVE  PageInv'
<1>0. PageTypeOK /\ UrlsInOrder /\ RunIsNewest
  BY DEF PageInv
<1>1. /\ mounted # NoTask /\ onPage' = src
      /\ UNCHANGED <<mounted, since, src, note, lightbox>>
      /\ UNCHANGED <<alive, urls, pinned, retired>>
  BY DEF NewLayer, Renders, UnchangedUrls, UnchangedLightbox
<1>2. /\ run' = run + 1 /\ run' \in Runs /\ run' \in 0..MaxRuns
      /\ at' \in [Runs -> RunStates] /\ at'[run + 1] = "request"
  BY <1>0, NextRunFacts DEF NewLayer
<1>3. PageTypeOK'
  BY <1>0, <1>1, <1>2 DEF PageTypeOK
<1>4. RunIsNewest'
  <2>1. src # NoUrl => src \in Range(urls)
    BY <1>0, UrlFacts
  <2> QED BY <1>0, <1>1, <1>2, <2>1 DEF RunIsNewest, PageTypeOK, NoUrl, Runs
<1>5. PictureOrReason'
  BY <1>1, <1>2 DEF PictureOrReason
<1> QED BY <1>1, <1>3, <1>4, <1>5, UrlsKeep DEF UnchangedUrls

LEMMA RerendersKeeps ==
  ASSUME PageInv, Rerenders
  PROVE  PageInv'
<1>0. PageTypeOK /\ UrlsInOrder /\ RunIsNewest /\ NothingUnmounted /\ PictureOrReason
  BY DEF PageInv
<1>1. /\ onPage' = src
      /\ UNCHANGED <<mounted, run, since, at, src, note, lightbox>>
      /\ UNCHANGED <<alive, urls, pinned, retired>>
  BY DEF Rerenders, Renders, UnchangedUrls, UnchangedLightbox
<1>2. PageTypeOK'
  BY <1>0, <1>1 DEF PageTypeOK
<1>3. RunIsNewest'
  <2>1. src # NoUrl => src \in Range(urls)
    BY <1>0, UrlFacts
  <2> QED BY <1>0, <1>1, <2>1 DEF RunIsNewest
<1>4. PictureOrReason' /\ (mounted' = NoTask => onPage' = NoUrl)
  BY <1>0, <1>1, UrlFacts DEF PictureOrReason, NothingUnmounted
<1> QED BY <1>1, <1>2, <1>3, <1>4, UrlsKeep DEF UnchangedUrls

(* The page is left, and takes every URL with it. *)
LEMMA UnmountsKeeps ==
  ASSUME PageInv, Unmounts
  PROVE  PageInv'
<1>0. PageTypeOK /\ alive = Range(urls) \union retired
  BY DEF PageInv
<1>1. /\ mounted' = NoTask /\ at' = CleanedUp /\ alive' = {}
      /\ urls' = <<>> /\ retired' = {} /\ pinned' = {}
      /\ src' = NoUrl /\ onPage' = NoUrl /\ note' = "none" /\ lightbox' = NoUrl
      /\ UNCHANGED <<run, since>>
  BY <1>0 DEF Unmounts
<1>2. Range(urls') = {}
  BY <1>1 DEF Range
<1>3. CleanedUp \in [Runs -> RunStates]
  BY <1>0 DEF PageTypeOK, CleanedUp, RunStates
<1>4. PageTypeOK'
  <2>1. urls' \in Seq(Runs)
    BY <1>1
  <2>2. UNCHANGED <<run, since>> /\ mounted' = NoTask /\ note' \in Notes
    BY <1>1 DEF Notes
  <2> QED BY <1>0, <1>1, <1>3, <2>1, <2>2 DEF PageTypeOK
<1>5. UrlsInOrder' /\ RunIsNewest' /\ LightboxIsPinned' /\ NothingUnmounted' /\ PictureOrReason'
  BY <1>0, <1>1, <1>2
  DEF UrlsInOrder, RunIsNewest, LightboxIsPinned, NothingUnmounted, PictureOrReason, Kept,
      NoUrl, PageTypeOK
<1> QED BY <1>1, <1>2, <1>4, <1>5 DEF PageInv

(* A run goes on, or is over - the latest one not without a word.          *)
LEMMA RunMoves ==
  ASSUME PageInv, NEW r \in Runs, NEW s \in RunStates, Moves(r, s), at[r] # "done",
         UnchangedPicture,
         note' \in Notes,
         note # "none" => note' # "none",
         Live(r) /\ s = "done" => note' # "none"
  PROVE  PageInv'
<1>0. PageTypeOK /\ RunIsNewest /\ PictureOrReason
  BY DEF PageInv
<1>1. UNCHANGED <<mounted, run, since, src, onPage, lightbox>> /\ UnchangedUrls
  BY DEF UnchangedPicture, UnchangedLightbox
<1>2. /\ at' \in [Runs -> RunStates] /\ at'[r] = s
      /\ \A q \in Runs : q # r => at'[q] = at[q]
  BY <1>0 DEF Moves, PageTypeOK
<1>3. UNCHANGED <<alive, urls, pinned, retired>>
  BY <1>1 DEF UnchangedUrls
<1>4. PageTypeOK'
  BY <1>0, <1>1, <1>2, <1>3 DEF PageTypeOK
<1>5. mounted # NoTask => run \in Runs
  BY <1>0, MaxRunsAssumption DEF RunIsNewest, PageTypeOK, Runs
<1>6. RunIsNewest'
  <2>1. mounted # NoTask /\ src = run => at'[run] = "done"
    BY <1>0, <1>2, <1>5 DEF RunIsNewest
  <2> QED BY <1>0, <1>1, <1>3, <2>1 DEF RunIsNewest
<1>7. PictureOrReason'
  BY <1>0, <1>1, <1>2, <1>5 DEF PictureOrReason, Live
<1>8. UnchangedUrls /\ src' = src /\ lightbox' = lightbox
  BY <1>1
<1>9. mounted' = NoTask => mounted = NoTask /\ onPage' = NoUrl
  BY <1>1 DEF PageInv, NothingUnmounted
<1> QED BY <1>4, <1>6, <1>7, <1>8, <1>9, UrlsKeep

LEMMA AnswersKeep ==
  ASSUME PageInv, NEW r \in Runs,
         AnswerArrives(r) \/ RequestFails(r) \/ ProgressRead(r) \/ Retries(r)
  PROVE  PageInv'
<1>0. note \in Notes
  BY DEF PageInv, PageTypeOK
<1>1. ASSUME GivesUp(r), at[r] # "done", UnchangedPicture
      PROVE  PageInv'
  <2>1. Moves(r, "done") /\ note' = IF Live(r) THEN "no image" ELSE note
    BY <1>1 DEF GivesUp
  <2>2. /\ note' \in Notes
        /\ "done" \in RunStates
    BY <1>0, <2>1 DEF Notes, RunStates
  <2>3. note # "none" => note' # "none"
    BY <2>1
  <2>4. Live(r) => note' # "none"
    BY <2>1
  <2> QED BY <1>1, <2>1, <2>2, <2>3, <2>4, RunMoves
<1>2. ASSUME NEW s \in {"json", "blob", "request"}, Moves(r, s), note' = note, at[r] # "done",
             UnchangedPicture
      PROVE  PageInv'
  <2>1. s \in RunStates /\ s # "done"
    BY DEF RunStates
  <2> QED BY <1>0, <1>2, <2>1, RunMoves
<1>3. CASE AnswerArrives(r)
  <2>1. at[r] # "done" /\ UnchangedPicture
    BY <1>3 DEF AnswerArrives
  <2>2. GivesUp(r) \/ \E s \in {"json", "blob"} : Moves(r, s) /\ note' = note
    BY <1>3 DEF AnswerArrives
  <2> QED BY <1>1, <1>2, <2>1, <2>2
<1>4. CASE RequestFails(r)
  BY <1>1, <1>4 DEF RequestFails
<1>5. CASE ProgressRead(r)
  <2>1. at[r] # "done" /\ UnchangedPicture
    BY <1>5 DEF ProgressRead
  <2>2. PICK s \in {"timer", "done"} : Moves(r, s) /\ (Live(r) => s # "done")
    BY <1>5 DEF ProgressRead
  <2>3. note' = IF Mine(r) THEN "fetching" ELSE note
    BY <1>5 DEF ProgressRead
  <2>4. note' \in Notes /\ s \in RunStates
    BY <1>0, <2>3 DEF Notes, RunStates
  <2>5. note # "none" => note' # "none"
    BY <2>3
  <2> QED BY <2>1, <2>2, <2>4, <2>5, RunMoves
<1>6. CASE Retries(r)
  <2>1. Moves(r, "request") /\ note' = note /\ at[r] # "done" /\ UnchangedPicture
    BY <1>6 DEF Retries
  <2> QED BY <1>2, <2>1
<1> QED BY <1>3, <1>4, <1>5, <1>6

(* What the page keeps once the picture of the run r has come: the one     *)
(* before it, and no third.                                                *)
LEMMA AddedUrls ==
  ASSUME PageTypeOK, UrlsInOrder, NEW r \in Runs, src < r, Shows(r), PictureRead(r)
  PROVE  /\ urls' \in Seq(Runs)
         /\ UrlsInOrder'
         /\ \E gone \in SUBSET Range(urls) :
              /\ Range(urls') = (Range(urls) \ gone) \union {r}
              /\ src \notin gone
              /\ retired' = retired \union (gone \intersect pinned)
              /\ alive' = (alive \union {r}) \ (gone \ pinned)
<1>0. Len(urls) \in Nat /\ Len(urls) <= 2
  BY DEF PageTypeOK, UrlsInOrder, Kept
<1>1. /\ urls \in Seq(Runs) /\ Len(urls) \in Nat /\ Len(urls) <= 2
      /\ Runs \subseteq Nat /\ r \in Nat /\ NoUrl \notin Runs
  BY MaxRunsAssumption DEF PageTypeOK, UrlsInOrder, Kept, Runs, NoUrl
<1>2. \A i \in 1..Len(urls) : urls[i] \in Runs /\ urls[i] \in Nat /\ urls[i] < r
  <2>1. \A i \in 1..Len(urls) : urls[i] \in Runs /\ urls[i] \in Nat
    BY UrlsAreRuns
  <2>2. \A i \in 1..Len(urls) : urls[i] \in Range(urls)
    BY <1>1 DEF Range
  <2>3. \A i \in 1..Len(urls) : urls[i] <= src
    BY <2>2, UrlFacts
  <2>4. src \in Nat
    BY <1>1, MaxRunsAssumption DEF PageTypeOK, NoUrl
  <2> QED BY <1>1, <2>1, <2>3, <2>4
<1> DEFINE all == Append(urls, r)
           first == IF Len(all) > Kept THEN Len(all) - Kept ELSE 0
<1>3. /\ urls' = SubSeq(all, first + 1, Len(all))
      /\ Free({all[i] : i \in 1..first}, alive \union {r})
      /\ src' = r
  BY DEF PictureRead
<1>4. /\ all \in Seq(Runs) /\ Len(all) = Len(urls) + 1 /\ all[Len(urls) + 1] = r
      /\ \A i \in 1..Len(urls) : all[i] = urls[i]
  BY <1>1
<1>5. first = IF Len(urls) = 2 THEN 1 ELSE 0
  <2>1. Len(all) = Len(urls) + 1
    BY <1>4
  <2> HIDE DEF all
  <2>2. first = IF Len(urls) + 1 > 2 THEN Len(urls) + 1 - 2 ELSE 0
    BY <2>1 DEF Kept
  <2>3. Len(urls) \in {0, 1, 2}
    <3>1. \A n \in Nat : n <= 2 => n \in {0, 1, 2}
      OBVIOUS
    <3> QED BY <1>0, <3>1
  <2>4. \A n \in {0, 1, 2} : (IF n + 1 > 2 THEN n + 1 - 2 ELSE 0) = IF n = 2 THEN 1 ELSE 0
    OBVIOUS
  <2> QED BY <2>2, <2>3, <2>4
<1> HIDE DEF all, first
<1>6. CASE Len(urls) < 2
  <2>1. first = 0 /\ Len(all) \in Nat /\ urls' = SubSeq(all, 1, Len(all))
    BY <1>1, <1>3, <1>4, <1>5, <1>6
  <2>2. urls' = all
    BY <1>4, <2>1
  <2>3. UrlsInOrder'
    <3>1. Len(urls') <= Kept
      BY <1>1, <1>4, <1>6, <2>2 DEF Kept
    <3>2. ASSUME NEW i \in 1..Len(urls'), NEW j \in 1..Len(urls'), i < j
          PROVE  urls'[i] < urls'[j]
      <4>1. Len(urls') = Len(urls) + 1
        BY <1>4, <2>2
      <4>2. i = 1 /\ j = 2 /\ Len(urls) = 1
        <5>1. \A n \in {0, 1} : \A k, l \in 1..(n + 1) : k < l => k = 1 /\ l = 2 /\ n = 1
          OBVIOUS
        <5>2. \A n \in Nat : n < 2 => n \in {0, 1}
          OBVIOUS
        <5>3. Len(urls) \in {0, 1}
          BY <1>0, <1>6, <5>2
        <5>4. i \in 1..(Len(urls) + 1) /\ j \in 1..(Len(urls) + 1)
          BY <3>2, <4>1
        <5> QED BY <3>2, <5>1, <5>3, <5>4
      <4> QED BY <1>2, <1>4, <2>2, <4>2
    <3>3. urls' # <<>> /\ urls'[Len(urls')] = r
      BY <1>1, <1>4, <2>2
    <3> QED BY <1>3, <3>1, <3>2, <3>3 DEF UrlsInOrder
  <2>4. Range(urls') = Range(urls) \union {r}
    <3>1. /\ DOMAIN urls' = 1..(Len(urls) + 1) /\ DOMAIN urls = 1..Len(urls)
      BY <1>1, <1>4, <2>2
    <3>2. 1..(Len(urls) + 1) = (1..Len(urls)) \union {Len(urls) + 1}
      BY <1>1
    <3> QED BY <1>4, <2>2, <3>1, <3>2 DEF Range
  <2>5. {all[i] : i \in 1..first} = {}
    BY <2>1
  <2>6. retired' = retired /\ alive' = alive \union {r}
    BY <1>3, <2>5 DEF Free
  <2>7. LET gone == {}
        IN  /\ gone \in SUBSET Range(urls)
            /\ Range(urls') = (Range(urls) \ gone) \union {r}
            /\ src \notin gone
            /\ retired' = retired \union (gone \intersect pinned)
            /\ alive' = (alive \union {r}) \ (gone \ pinned)
    BY <2>4, <2>6
  <2> QED BY <1>4, <2>2, <2>3, <2>7
<1>7. CASE Len(urls) = 2
  <2>1. first = 1 /\ Len(all) = 3 /\ urls' = SubSeq(all, 2, 3)
    BY <1>3, <1>4, <1>5, <1>7
  <2>2. urls' \in Seq(Runs) /\ Len(urls') = 2 /\ urls'[1] = all[2] /\ urls'[2] = all[3]
    BY <1>4, <2>1
  <2>3. all[1] = urls[1] /\ all[2] = urls[2] /\ all[3] = r
    BY <1>4, <1>7
  <2>4. /\ urls[1] \in Nat /\ urls[2] \in Nat /\ urls[1] < urls[2] /\ urls[2] < r /\ urls[1] < r
        /\ src = urls[2]
    BY <1>2, <1>7 DEF UrlsInOrder
  <2>5. UrlsInOrder'
    <3>1. ASSUME NEW i \in 1..Len(urls'), NEW j \in 1..Len(urls'), i < j
          PROVE  urls'[i] < urls'[j]
      <4>1. i = 1 /\ j = 2
        BY <2>2, <3>1
      <4> QED BY <2>2, <2>3, <2>4, <4>1
    <3>2. Len(urls') <= Kept
      BY <2>2 DEF Kept
    <3>3. urls' # <<>>
      BY <2>2
    <3>4. urls'[Len(urls')] = r
      BY <2>2, <2>3
    <3> QED BY <1>3, <3>1, <3>2, <3>3, <3>4 DEF UrlsInOrder
  <2>6. Range(urls) = {urls[1], urls[2]} /\ Range(urls') = {urls[2], r}
    <3>1. DOMAIN urls = {1, 2} /\ DOMAIN urls' = {1, 2}
      BY <1>1, <1>7, <2>2
    <3> QED BY <2>2, <2>3, <3>1 DEF Range
  <2>7. {all[i] : i \in 1..first} = {urls[1]}
    BY <2>1, <2>3
  <2>8. /\ retired' = retired \union ({urls[1]} \intersect pinned)
        /\ alive' = (alive \union {r}) \ ({urls[1]} \ pinned)
    BY <1>3, <2>7 DEF Free, IsPinned
  <2>9. urls[1] # urls[2] /\ urls[1] # r
    BY <2>4
  <2>10. LET gone == {urls[1]}
         IN  /\ gone \in SUBSET Range(urls)
             /\ Range(urls') = (Range(urls) \ gone) \union {r}
             /\ src \notin gone
             /\ retired' = retired \union (gone \intersect pinned)
             /\ alive' = (alive \union {r}) \ (gone \ pinned)
    BY <2>4, <2>6, <2>8, <2>9
  <2> QED BY <2>2, <2>5, <2>10
<1>8. Len(urls) < 2 \/ Len(urls) = 2
  BY <1>0
<1> QED BY <1>6, <1>7, <1>8

LEMMA PictureReadKeeps ==
  ASSUME PageInv, NEW r \in Runs, PictureRead(r)
  PROVE  PageInv'
<1>0. /\ PageTypeOK /\ UrlsInOrder /\ RunIsNewest /\ LightboxIsPinned
      /\ alive = Range(urls) \union retired
  BY DEF PageInv
<1>1. at[r] = "blob" /\ Moves(r, "done")
      /\ UNCHANGED <<mounted, run, since, onPage, pinned, lightbox>>
  BY DEF PictureRead, UnchangedLightbox
<1>2. CASE ~Shows(r)
  <2>1. UNCHANGED <<urls, alive, retired, src, note, big>>
    BY <1>2 DEF PictureRead, UnchangedLightbox
  <2>2. UnchangedPicture
    BY <1>1, <2>1 DEF UnchangedPicture, UnchangedUrls, UnchangedLightbox
  <2>3. note' \in Notes /\ "done" \in RunStates /\ at[r] # "done"
    BY <1>0, <1>1, <2>1 DEF PageTypeOK, RunStates
  <2>4. note # "none" => note' # "none"
    BY <2>1
  <2> QED BY <1>1, <1>2, <2>2, <2>3, <2>4, RunMoves DEF Shows
<1>3. CASE Shows(r)
  <2>1. mounted # NoTask /\ r = run /\ src' = r /\ note' = "none"
    BY <1>3 DEF Shows, Live, PictureRead
  <2>2. src # run /\ onPage = src
    BY <1>0, <1>1, <2>1 DEF RunIsNewest
  <2>3. r \in Nat /\ src \in Nat /\ src < r /\ r # NoUrl
    BY <1>0, <2>1, <2>2, MaxRunsAssumption DEF RunIsNewest, PageTypeOK, Runs, NoUrl
  <2>4. urls' \in Seq(Runs) /\ UrlsInOrder'
    BY <1>0, <1>3, <2>3, AddedUrls
  <2>5. PICK gone \in SUBSET Range(urls) :
          /\ Range(urls') = (Range(urls) \ gone) \union {r}
          /\ src \notin gone
          /\ retired' = retired \union (gone \intersect pinned)
          /\ alive' = (alive \union {r}) \ (gone \ pinned)
    BY <1>0, <1>3, <2>3, AddedUrls
  <2>6. at' \in [Runs -> RunStates] /\ at'[r] = "done"
    BY <1>0, <1>1 DEF Moves, PageTypeOK, RunStates
  <2>7. PageTypeOK'
    BY <1>0, <1>1, <2>1, <2>4, <2>6 DEF PageTypeOK, Notes
  <2>8. RunIsNewest'
    <3>1. onPage' # NoUrl => onPage' \in Range(urls')
      BY <1>0, <1>1, <2>2, <2>5 DEF RunIsNewest
    <3>2. src' <= run' /\ src' = run'
      BY <1>1, <2>1, <2>3
    <3> QED BY <1>0, <1>1, <2>1, <2>6, <3>1, <3>2 DEF RunIsNewest
  <2>9. LightboxIsPinned' /\ alive' = Range(urls') \union retired'
    <3>1. /\ pinned = {lightbox} \ {NoUrl} /\ retired \subseteq pinned
          /\ lightbox # NoUrl => lightbox \in Range(urls) \union retired
          /\ retired \intersect Range(urls) = {}
      BY <1>0 DEF LightboxIsPinned
    <3>2. lightbox <= src' /\ r \notin pinned
      <4>1. lightbox \in Nat /\ lightbox <= src
        BY <1>0, MaxRunsAssumption DEF LightboxIsPinned, PageTypeOK, Runs, NoUrl
      <4> QED BY <2>1, <2>3, <3>1, <4>1
    <3>3. r \notin Range(urls)
      BY <1>0, <2>3, UrlFacts
    <3>4. lightbox # NoUrl => lightbox \in Range(urls') \union retired'
      BY <2>5, <3>1
    <3>5. retired' \subseteq pinned /\ retired' \intersect Range(urls') = {}
      BY <2>5, <3>1, <3>2, <3>3
    <3>6. alive' = Range(urls') \union retired'
      BY <1>0, <2>5, <3>1, <3>2, <3>3
    <3> QED BY <1>1, <3>1, <3>2, <3>4, <3>5, <3>6 DEF LightboxIsPinned
  <2>10. NothingUnmounted' /\ PictureOrReason'
    BY <1>1, <2>1 DEF NothingUnmounted, PictureOrReason
  <2> QED BY <2>4, <2>7, <2>8, <2>9, <2>10 DEF PageInv
<1> QED BY <1>2, <1>3

(* The lightbox keeps the picture of the layer that was on the page.       *)
LEMMA LightboxKeeps ==
  ASSUME PageInv, OpensLightbox \/ ClosesLightbox
  PROVE  PageInv'
<1>0. /\ PageTypeOK /\ UrlsInOrder /\ RunIsNewest /\ LightboxIsPinned /\ NothingUnmounted
      /\ alive = Range(urls) \union retired /\ PictureOrReason
  BY DEF PageInv
<1>1. UNCHANGED <<mounted, run, since, at, urls, src, note>> /\ onPage' = src
  BY DEF OpensLightbox, ClosesLightbox, Renders
<1>2. /\ Range(urls) \subseteq Runs
      /\ \A u \in Range(urls) : u <= src
      /\ src # NoUrl => src \in Range(urls)
      /\ urls = <<>> => Range(urls) = {} /\ src = NoUrl
  BY <1>0, UrlFacts
<1>3. UrlsInOrder' /\ PictureOrReason' /\ (mounted' = NoTask => onPage' = NoUrl)
  BY <1>0, <1>1, <1>2 DEF UrlsInOrder, PictureOrReason, NothingUnmounted
<1>4. RunIsNewest'
  BY <1>0, <1>1, <1>2 DEF RunIsNewest
<1>5. 0 <= src
  BY <1>0, MaxRunsAssumption DEF PageTypeOK, Runs, NoUrl
<1>6. CASE OpensLightbox
  <2>1. /\ lightbox = NoUrl /\ onPage # NoUrl /\ lightbox' = onPage
        /\ pinned' = pinned \union {onPage} /\ UNCHANGED <<alive, retired>>
    BY <1>6 DEF OpensLightbox, Pin
  <2>2. pinned = {} /\ retired = {}
    BY <1>0, <2>1 DEF LightboxIsPinned
  <2>3. onPage \in Range(urls) /\ onPage <= src
    BY <1>0, <1>2, <2>1 DEF RunIsNewest
  <2>4. LightboxIsPinned'
    BY <1>1, <2>1, <2>2, <2>3 DEF LightboxIsPinned
  <2>5. PageTypeOK'
    BY <1>0, <1>1, <2>1 DEF PageTypeOK
  <2>6. NothingUnmounted'
    BY <1>0, <1>1, <1>3, <2>1 DEF NothingUnmounted
  <2> QED BY <1>0, <1>1, <1>3, <1>4, <2>1, <2>4, <2>5, <2>6 DEF PageInv
<1>7. CASE ClosesLightbox
  <2>1. /\ lightbox' = NoUrl /\ pinned' = pinned \ {lightbox} /\ retired' = retired \ {lightbox}
        /\ alive' = alive \ ({lightbox} \intersect retired)
    BY <1>7 DEF ClosesLightbox, Unpin
  <2>2. pinned' = {} /\ retired' = {}
    BY <1>0, <2>1 DEF LightboxIsPinned
  <2>3. alive' = Range(urls)
    BY <1>0, <2>1 DEF LightboxIsPinned
  <2>4. LightboxIsPinned'
    BY <1>1, <1>5, <2>1, <2>2 DEF LightboxIsPinned, NoUrl
  <2>5. PageTypeOK'
    BY <1>0, <1>1, <2>1 DEF PageTypeOK
  <2>6. NothingUnmounted'
    BY <1>0, <1>1, <1>3, <2>1, <2>2 DEF NothingUnmounted
  <2> QED BY <1>1, <1>3, <1>4, <2>2, <2>3, <2>4, <2>5, <2>6 DEF PageInv
<1> QED BY <1>6, <1>7

-----------------------------------------------------------------------------
(* The page and its server together. *)
LEMMA LayerIInvInit == PageInit => LayerIInv
BY ViewInitInv, PageInitInv DEF PageInit, LayerIInv

LEMMA LayerIInvStep == LayerIInv /\ [PictureNext]_pictureVars => LayerIInv'
<1> SUFFICES ASSUME LayerIInv, [PictureNext]_pictureVars
             PROVE  LayerIInv'
  OBVIOUS
<1>0. ViewInv /\ PageInv /\ ViewTypeOK
  BY DEF LayerIInv, ViewInv
<1>1. ASSUME UNCHANGED viewVars
      PROVE  ViewInv'
  BY <1>0, <1>1
  DEF viewVars, ViewInv, ViewTypeOK, NothingBegun, ShownIsPrepared, FilesAreOfThePast, NotOnAList,
      FileIsKept, Part
<1>2. ASSUME UNCHANGED <<mounted, run, since, at, src, onPage, note, lightbox>>, UnchangedUrls
      PROVE  PageInv'
  BY <1>0, <1>2
  DEF UnchangedUrls, PageInv, PageTypeOK, UrlsInOrder, RunIsNewest, LightboxIsPinned,
      NothingUnmounted, PictureOrReason
<1>3. CASE ServerStep
  BY <1>0, <1>2, <1>3, ViewStepKeeps DEF ServerStep, pageVars, UnchangedUrls, LayerIInv
<1>4. CASE PageUpdates
  <2>1. PageInv'
    BY <1>0, <1>4, MountsKeeps, NewLayerKeeps, RerendersKeeps, UnmountsKeeps DEF PageUpdates
  <2> QED BY <1>1, <1>4, <2>1 DEF PageUpdates, LayerIInv
<1>5. ASSUME NEW r \in Runs, Run(r)
      PROVE  LayerIInv'
  <2>1. PageInv'
    BY <1>0, <1>5, AnswersKeep, PictureReadKeeps DEF Run
  <2>2. ViewInv'
    <3>1. CASE AnswerArrives(r)
      BY <1>0, <3>1, AskedKeeps DEF AnswerArrives
    <3>2. CASE ~AnswerArrives(r)
      BY <1>1, <1>5, <3>2 DEF Run, RequestFails, ProgressRead, Retries, PictureRead
    <3> QED BY <3>1, <3>2
  <2> QED BY <2>1, <2>2 DEF LayerIInv
<1>6. CASE OpensLightbox \/ ClosesLightbox
  BY <1>0, <1>1, <1>6, LightboxKeeps DEF OpensLightbox, ClosesLightbox, LayerIInv
<1>7. CASE BigArrives
  <2>1. ViewInv'
    BY <1>0, <1>7, AskedKeeps DEF BigArrives
  <2> QED BY <1>2, <1>7, <2>1 DEF BigArrives, UnchangedButBig, LayerIInv
<1>8. CASE BigFails
  BY <1>1, <1>2, <1>8 DEF BigFails, UnchangedButBig, LayerIInv
<1>9. CASE UNCHANGED pictureVars
  BY <1>1, <1>2, <1>9 DEF pictureVars, pageVars, UnchangedUrls, LayerIInv
<1> QED BY <1>3, <1>4, <1>5, <1>6, <1>7, <1>8, <1>9 DEF PictureNext

(* What LayerIInv says of the two pictures that are looked at, and of the  *)
(* object URLs.                                                            *)
LEMMA LayerIInvShows == LayerIInv => NothingLeaks /\ PictureIsThere
<1> SUFFICES ASSUME LayerIInv PROVE NothingLeaks /\ PictureIsThere
  OBVIOUS
<1>1. /\ PageTypeOK /\ UrlsInOrder /\ RunIsNewest /\ LightboxIsPinned /\ NothingUnmounted
      /\ alive = Range(urls) \union retired /\ PictureOrReason
  BY DEF LayerIInv, PageInv
<1>2. urls = <<>> => Range(urls) = {}
  BY <1>1, UrlFacts
<1>3. NothingLeaks
  BY <1>1, <1>2 DEF NothingLeaks, LightboxIsPinned, NothingUnmounted
<1>4. ShownIsAlive
  BY <1>1 DEF ShownIsAlive, RunIsNewest, LightboxIsPinned
<1> QED BY <1>1, <1>3, <1>4 DEF PictureIsThere

LEMMA LayerIInvAlways == PictureSpec => []LayerIInv
BY LayerIInvInit, LayerIInvStep, PTL DEF PictureSpec

(* The file of the print that is shown is never taken away under the page  *)
(* that looks at its layers, unless a download that was overtaken had it   *)
(* on its list (print-view.ts:161).                                        *)
THEOREM FileKept == PictureSpec => []FileIsKept
<1>1. LayerIInv => FileIsKept
  BY DEF LayerIInv, ViewInv
<1> QED BY <1>1, LayerIInvAlways, PTL

(* However many layers go by, the object URLs that exist are the two the   *)
(* page keeps and the one the lightbox holds (Layer.tsx:40-43).            *)
THEOREM NoUrlLeaks == PictureSpec => []NothingLeaks
BY LayerIInvShows, LayerIInvAlways, PTL

(* What is on the page or in the lightbox is there to be looked at, and a  *)
(* page that loads nothing more shows its layer or says why it does not    *)
(* (Layer.tsx:116-165).                                                    *)
THEOREM PictureThere == PictureSpec => []PictureIsThere
BY LayerIInvShows, LayerIInvAlways, PTL

(* An answer that is late never puts an earlier layer on the page          *)
(* (Layer.tsx:116-165).                                                    *)
THEOREM NeverBack == PictureSpec => StepsForward
<1>1. ASSUME LayerIInv, [PictureNext]_pictureVars, mounted' = mounted, onPage' # NoUrl
      PROVE  onPage' >= onPage
  <2>1. /\ PageTypeOK /\ UrlsInOrder
        /\ onPage # NoUrl => onPage \in Range(urls)
    BY <1>1 DEF LayerIInv, PageInv, RunIsNewest
  <2>2. onPage \in Nat /\ src \in Nat
    BY <2>1, MaxRunsAssumption DEF PageTypeOK, Runs, NoUrl
  <2>3. onPage <= src
    <3>1. \A u \in Range(urls) : u <= src
      BY <2>1, UrlFacts
    <3>2. NoUrl = 0
      BY DEF NoUrl
    <3> QED BY <2>1, <2>2, <3>1, <3>2
  <2>4. onPage' = onPage \/ onPage' = src
    BY <1>1
    DEF PictureNext, ServerStep, PageUpdates, Mounts, NewLayer, Rerenders, Unmounts, Renders, Run,
        AnswerArrives, RequestFails, ProgressRead, Retries, PictureRead, UnchangedPicture,
        OpensLightbox, ClosesLightbox, BigArrives, BigFails, UnchangedButBig, pictureVars, pageVars
  <2> QED BY <2>2, <2>3, <2>4
<1>2. LayerIInv /\ [PictureNext]_pictureVars
        => [mounted' = mounted /\ onPage' # NoUrl => onPage' >= onPage]_pictureVars
  BY <1>1
<1> QED BY <1>2, LayerIInvAlways, PTL DEF PictureSpec, StepsForward

=============================================================================

---------------------------- MODULE Pages_proofs ----------------------------
(***************************************************************************)
(* Proofs about the pages: StatusFeed, the hook that every page shows the  *)
(* printer's status with, for any number of sockets, timers and updates;   *)
(* and FilesPage with its FileCache, for any files, contents and requests. *)
(***************************************************************************)
EXTENDS StatusFeed, FilesPage, SequenceTheorems, TLAPS

(* The inductive invariant of StatusFeed. *)
FeedIInv ==
  /\ FeedTypeOK
  /\ AlwaysFed
  /\ closed => ~poll

LEMMA FeedInitInv == FeedInit => FeedIInv
<1> SUFFICES ASSUME FeedInit PROVE FeedIInv
  OBVIOUS
<1>1. PICK s \in PageSockets :
        /\ sock = [z \in PageSockets |-> IF z = s THEN "connecting" ELSE "none"]
        /\ socketRef = s
  BY DEF FeedInit
<1>2. sock \in [PageSockets -> PageSocketStates] /\ pipe \in [PageSockets -> Seq(1..MaxVersion)]
  BY <1>1 DEF FeedInit, PageSocketStates
<1>3. 1 \in 1..MaxVersion /\ 0 \in 0..MaxVersion /\ 0 \in 0..MaxRetries
  BY FeedAssumption
<1> QED BY <1>1, <1>2, <1>3 DEF FeedInit, FeedIInv, FeedTypeOK, AlwaysFed

(* A socket goes: the page polls again, if it is still there. *)
LEMMA FallsBackInv ==
  ASSUME FeedIInv, NEW s \in PageSockets, NEW n \in {1, 2}, FallsBack(s, n)
  PROVE  FeedIInv'
<1>0. FeedTypeOK /\ (closed => ~poll)
  BY DEF FeedIInv
<1>1. /\ sock' = [sock EXCEPT ![s] = "none"] /\ pipe' = [pipe EXCEPT ![s] = <<>>]
      /\ accepted' = accepted \ {s} /\ liveRef' = FALSE /\ socketRef' = NoPageSocket
      /\ UNCHANGED <<version, view, closed>> /\ retries + n <= MaxRetries
  BY DEF FallsBack
<1>2. \/ ~closed /\ poll' = TRUE /\ fetches' \in {fetches, fetches \union {version}}
         /\ retries' = retries + n
      \/ closed /\ UNCHANGED <<poll, fetches, retries>>
  BY DEF FallsBack, Mounted
<1>3. retries' \in 0..MaxRetries
  BY <1>0, <1>1, <1>2, FeedAssumption DEF FeedTypeOK
<1>4. sock' \in [PageSockets -> PageSocketStates] /\ pipe' \in [PageSockets -> Seq(1..MaxVersion)]
  BY <1>0, <1>1 DEF FeedTypeOK, PageSocketStates
<1>5. FeedTypeOK'
  BY <1>0, <1>1, <1>2, <1>3, <1>4 DEF FeedTypeOK
<1> QED BY <1>0, <1>1, <1>2, <1>5 DEF FeedIInv, AlwaysFed

LEMMA FeedStepInv == FeedIInv /\ [FeedNext]_feedVars => FeedIInv'
<1> SUFFICES ASSUME FeedIInv, [FeedNext]_feedVars
             PROVE  FeedIInv'
  OBVIOUS
<1>0. FeedTypeOK /\ AlwaysFed /\ (closed => ~poll)
  BY DEF FeedIInv
<1>1. CASE StoreUpdates
  <2>1. version + 1 \in 1..MaxVersion /\ version' = version + 1
    BY <1>0, <1>1, FeedAssumption DEF StoreUpdates, FeedTypeOK
  <2>2. pipe' \in [PageSockets -> Seq(1..MaxVersion)]
    <3> SUFFICES ASSUME NEW s \in PageSockets
                 PROVE  (IF s \in accepted THEN Append(pipe[s], version + 1) ELSE pipe[s])
                          \in Seq(1..MaxVersion)
      BY <1>1 DEF StoreUpdates
    <3>1. pipe[s] \in Seq(1..MaxVersion)
      BY <1>0 DEF FeedTypeOK
    <3>2. Append(pipe[s], version + 1) \in Seq(1..MaxVersion)
      BY <2>1, <3>1, AppendProperties
    <3> QED BY <3>1, <3>2
  <2>3. UNCHANGED <<accepted, hookVars>>
    BY <1>1 DEF StoreUpdates
  <2>4. FeedTypeOK'
    BY <1>0, <2>1, <2>2, <2>3 DEF hookVars, FeedTypeOK
  <2> QED BY <1>0, <2>3, <2>4 DEF hookVars, FeedIInv, AlwaysFed
<1>2. CASE Retry
  <2>1. /\ retries' \in 0..MaxRetries
        /\ UNCHANGED <<version, accepted, pipe, view, liveRef, fetches, closed>>
    BY <1>0, <1>2, FeedAssumption DEF Retry, FeedTypeOK
  <2>2. poll' = poll \/ (~closed /\ poll' = TRUE)
    BY <1>2 DEF Retry, KeepsPolling, Mounted
  <2>3. \/ UNCHANGED <<sock, socketRef>>
        \/ \E s \in PageSockets : /\ sock[s] = "none" /\ socketRef' = s
                              /\ sock' = [sock EXCEPT ![s] = "connecting"]
    BY <1>2 DEF Retry
  <2>4. sock' \in [PageSockets -> PageSocketStates] /\ socketRef' \in PageSockets \union {NoPageSocket}
    BY <1>0, <2>3 DEF FeedTypeOK, PageSocketStates
  <2>5. \A s \in PageSockets : sock[s] = "open" => sock'[s] = "open"
    BY <1>0, <2>3 DEF FeedTypeOK
  <2>6. FeedTypeOK'
    BY <1>0, <2>1, <2>2, <2>4 DEF FeedTypeOK
  <2> QED BY <1>0, <2>1, <2>2, <2>5, <2>6 DEF FeedIInv, AlwaysFed
<1>3. CASE Poll
  BY <1>0, <1>3 DEF Poll, FeedIInv, FeedTypeOK, AlwaysFed
<1>4. CASE Unmount
  <2>1. /\ closed' = TRUE /\ poll' = FALSE /\ accepted' \subseteq PageSockets
        /\ socketRef' = NoPageSocket /\ UNCHANGED <<version, view, fetches>>
    BY <1>0, <1>4 DEF Unmount, FeedTypeOK
  <2>5. liveRef' \in BOOLEAN
    <3>1. liveRef' = liveRef \/ liveRef' = FALSE
      BY <1>4 DEF Unmount
    <3> QED BY <1>0, <3>1 DEF FeedTypeOK
  <2>2. retries' \in 0..MaxRetries
    BY <1>0, <1>4, FeedAssumption DEF Unmount, FeedTypeOK
  <2>3. sock' \in [PageSockets -> PageSocketStates]
    BY <1>0, <1>4 DEF Unmount, FeedTypeOK, PageSocketStates
  <2>4. pipe' \in [PageSockets -> Seq(1..MaxVersion)]
    <3>1. <<>> \in Seq(1..MaxVersion)
      OBVIOUS
    <3>2. pipe' = [s \in PageSockets |-> IF s = socketRef THEN <<>> ELSE pipe[s]]
      BY <1>4 DEF Unmount
    <3> QED BY <1>0, <3>1, <3>2 DEF FeedTypeOK
  <2> QED BY <1>0, <2>1, <2>2, <2>3, <2>4, <2>5 DEF FeedIInv, FeedTypeOK, AlwaysFed
<1>5. ASSUME NEW s \in PageSockets, Accept(s)
      PROVE  FeedIInv'
  <2>1. pipe' \in [PageSockets -> Seq(1..MaxVersion)]
    <3>1. Snapshot \in Seq(1..MaxVersion)
      BY <1>0 DEF Snapshot, FeedTypeOK
    <3> QED BY <1>0, <1>5, <3>1 DEF Accept, FeedTypeOK
  <2> QED BY <1>0, <1>5, <2>1 DEF Accept, hookVars, FeedIInv, FeedTypeOK, AlwaysFed
<1>6. ASSUME NEW s \in PageSockets, GoesLive(s)
      PROVE  FeedIInv'
  BY <1>0, <1>6 DEF GoesLive, FeedIInv, FeedTypeOK, AlwaysFed, PageSocketStates
<1>7. ASSUME NEW s \in PageSockets, Message(s)
      PROVE  FeedIInv'
  <2>1. pipe[s] \in Seq(1..MaxVersion) /\ pipe[s] # <<>>
    BY <1>0, <1>7 DEF Message, FeedTypeOK
  <2>2. Head(pipe[s]) \in 1..MaxVersion /\ Tail(pipe[s]) \in Seq(1..MaxVersion)
    BY <2>1, HeadTailProperties
  <2>3. view' \in 0..MaxVersion /\ pipe' \in [PageSockets -> Seq(1..MaxVersion)]
    BY <1>0, <1>7, <2>2, FeedAssumption DEF Message, FeedTypeOK
  <2> QED BY <1>0, <1>7, <2>3 DEF Message, FeedIInv, FeedTypeOK, AlwaysFed
<1>8. ASSUME NEW s \in PageSockets, Closes(s) \/ Breaks(s)
      PROVE  FeedIInv'
  BY <1>8, FallsBackInv DEF Closes, Breaks
<1>9. ASSUME NEW v \in fetches, Fetched(v) \/ FetchFails(v)
      PROVE  FeedIInv'
  <2>1. v \in 0..MaxVersion
    BY <1>0, <1>9, FeedAssumption DEF FeedTypeOK
  <2>2. view' \in 0..MaxVersion
    BY <1>0, <1>9, <2>1 DEF Fetched, FetchFails, FeedTypeOK
  <2>3. /\ fetches' \subseteq fetches
        /\ UNCHANGED <<version, accepted, pipe, sock, liveRef, poll, retries, socketRef, closed>>
    BY <1>9 DEF Fetched, FetchFails
  <2> QED BY <1>0, <2>2, <2>3 DEF FeedIInv, FeedTypeOK, AlwaysFed
<1>10. CASE UNCHANGED feedVars
  BY <1>0, <1>10 DEF feedVars, hookVars, FeedIInv, FeedTypeOK, AlwaysFed
<1> QED
  BY <1>1, <1>2, <1>3, <1>4, <1>5, <1>6, <1>7, <1>8, <1>9, <1>10 DEF FeedNext

LEMMA FeedIInvAlways == FeedSpec => []FeedIInv
BY FeedInitInv, FeedStepInv, PTL DEF FeedSpec

(* StatusFeed's variables have their types. *)
THEOREM FeedTypeCorrect == FeedSpec => []FeedTypeOK
<1>1. FeedIInv => FeedTypeOK
  BY DEF FeedIInv
<1> QED BY <1>1, FeedIInvAlways, PTL

(* However a page's sockets fail and open beside each other, it polls or   *)
(* has an open one (useStatus.ts).                                         *)
THEOREM NeverUnfed == FeedSpec => []AlwaysFed
<1>1. FeedIInv => AlwaysFed
  BY DEF FeedIInv
<1> QED BY <1>1, FeedIInvAlways, PTL

(* No timer or event that comes after the unmount begins anything          *)
(* (useStatus.ts).                                                         *)
THEOREM QuietForGood == FeedSpec => QuietAfterUnmount
<1>1. ASSUME FeedIInv, [FeedNext]_feedVars, closed
      PROVE  /\ ~poll'
             /\ \A s \in PageSockets : sock'[s] = "connecting" => sock[s] = "connecting"
  <2>0. FeedTypeOK /\ ~poll
    BY <1>1 DEF FeedIInv
  <2>1. closed'
    BY <1>1
    DEF FeedNext, StoreUpdates, Retry, Poll, Unmount, Accept, GoesLive, Message, Closes, Breaks,
        FallsBack, Fetched, FetchFails, feedVars, hookVars
  <2>2. FeedIInv'
    BY <1>1, FeedStepInv
  <2>3. \/ sock' = sock
        \/ \E s \in PageSockets : sock' = [sock EXCEPT ![s] = "open"]
        \/ \E s \in PageSockets : sock' = [sock EXCEPT ![s] = "none"]
    BY <1>1, <2>0
    DEF FeedNext, StoreUpdates, Retry, Poll, Unmount, Accept, GoesLive, Message, Closes, Breaks,
        FallsBack, Fetched, FetchFails, feedVars, hookVars, Mounted
  <2> QED BY <2>0, <2>1, <2>2, <2>3 DEF FeedIInv, FeedTypeOK
<1>2. FeedIInv /\ [FeedNext]_feedVars
        => [closed => ~poll' /\ \A s \in PageSockets : sock'[s] = "connecting"
                                                     => sock[s] = "connecting"]_feedVars
  BY <1>1
<1> QED BY <1>2, FeedIInvAlways, PTL DEF FeedSpec, QuietAfterUnmount

-----------------------------------------------------------------------------
(* The cache: what a request for details goes through.                     *)
Content == Contents \union {NoFile}

Loading ==
  [at : {"asked"}, path : Paths, calm : BOOLEAN]
    \union [at : {"reading"}, path : Paths, calm : BOOLEAN, key : Keys]
    \union [at : {"done"}, path : Paths, content : Content, calm : BOOLEAN]

CacheTypeOK ==
  /\ storage \in [Paths -> Content]
  /\ json \in [Keys -> Content]
  /\ png \in [Keys -> Content \union {Half}]
  /\ load \in [Loads -> {NotAsked} \union Loading]
  /\ pastSizes \in [Paths -> SUBSET Nat]

(* A size is past, or is that of the file there is. *)
PastOrPresent(p, size) ==
  size \in pastSizes[p] \/ (storage[p] # NoFile /\ SizeOf[storage[p]] = size)

(* An entry is of a size that is past, or of the file there is. *)
EntriesAreFresh ==
  \A k \in Keys : json[k] # NoFile =>
    k[2] \in pastSizes[k[1]] \/ (storage[k[1]] = json[k] /\ SizeOf[json[k]] = k[2])

(* So is the size that a request was told of. *)
KeysAreFresh ==
  \A l \in Loads : load[l].at = "reading" =>
    load[l].key[1] = load[l].path /\ PastOrPresent(load[l].path, load[l].key[2])

CacheIInv ==
  /\ CacheTypeOK
  /\ EntriesAreFresh
  /\ KeysAreFresh
  /\ WholeEntry
  /\ ReadAfresh

(* The page: what an operation goes through. *)
Operation ==
  {Idle}
    \union [kind : {"upload", "print", "delete"}, path : Paths, at : {"sent"}]
    \union [kind : {"delete"}, path : Paths, at : {"deleting"}]
    \union [kind : {"upload", "print", "delete"}, at : {"answered"}, result : {"done", "failed"}]
    \union [kind : {"upload", "delete"}, at : {"listing"}]
    \union [kind : {"upload", "delete"}, at : {"listed"}, files : SUBSET Paths]

FilesTypeOK ==
  /\ op \in Operation
  /\ message \in {"none", "done", "failed", "cancelled"} \union InProgress
  /\ cancel \in {"none", "asked", "accepted", "refused"}
  /\ missed \in [Lists -> Misses]

(* A list that was read, is still to be shown and has missed nothing is    *)
(* what the printer holds; an operation's list misses no change of its own.*)
ReadIsRight ==
  /\ missed["mount"] = "nothing" => mount.files = Held
  /\ missed["op"] \in {"nothing", "others"}
  /\ missed["op"] = "nothing" => op.at = "listed" /\ op.files = Held

(* The list that is shown misses a change of the page's own only for as    *)
(* long as the operation that made it has still to read the list again.    *)
WillReread ==
  \/ op.at = "answered" /\ Rereads(op.result)
  \/ op.at \in {"listing", "listed"}

ShownIsRight ==
  /\ missed["shown"] = "nothing" => shown = Held
  /\ missed["shown"] = "own" => WillReread

(* Each message has its time. *)
MessageInTime ==
  /\ op.at \in {"listing", "listed"} => message # "none"
  /\ message \in {"uploading", "deleting"} => op.at \in {"sent", "deleting", "answered"}
  /\ message = "cancelling" => cancel # "none"

FilesIInv ==
  /\ CacheIInv
  /\ FilesTypeOK
  /\ ReadIsRight
  /\ ShownIsRight
  /\ MessageInTime

-----------------------------------------------------------------------------
(* The cache's steps.  What a request's record holds, by how far it is.    *)
LEMMA LoadFacts ==
  ASSUME CacheTypeOK, NEW l \in Loads
  PROVE  /\ load[l] # NotAsked =>
              /\ load[l] \in Loading
              /\ load[l].at \in {"asked", "reading", "done"}
              /\ load[l].path \in Paths
              /\ load[l].calm \in BOOLEAN
         /\ load[l].at = "idle" <=> load[l] = NotAsked
         /\ load[l].at = "reading" => load[l].key \in Keys
         /\ load[l].at = "done" => load[l].content \in Content
<1>1. load[l] \in {NotAsked} \union Loading
  BY DEF CacheTypeOK
<1>2. NotAsked.at = "idle"
  BY DEF NotAsked
<1> QED BY <1>1, <1>2 DEF Loading

LEMMA KeyFacts ==
  /\ \A k \in Keys : k[1] \in Paths /\ k[2] \in Nat
  /\ \A p \in Paths, c \in Contents : KeyOf(p, SizeOf[c]) \in Keys
  /\ NoFile \notin Pictured
BY FileCacheAssumption DEF Keys, KeyOf

LEMMA CacheInitInv == CacheInit => CacheIInv
BY FileCacheAssumption
DEF CacheInit, CacheIInv, CacheTypeOK, EntriesAreFresh, KeysAreFresh, WholeEntry, ReadAfresh,
    Content, NotAsked

(* One request goes on. *)
LEMMA LoadKeeps ==
  ASSUME CacheIInv, NEW l \in Loads, NEW rec \in Loading,
         load' = [load EXCEPT ![l] = rec],
         UNCHANGED <<storage, cacheFileVars, pastSizes>>,
         rec.at = "reading" => rec.key[1] = rec.path /\ PastOrPresent(rec.path, rec.key[2]),
         rec.at = "done" /\ rec.calm /\ rec.content # NoFile /\ storage[rec.path] # NoFile
           => \/ SizeOf[storage[rec.path]] \in pastSizes[rec.path]
              \/ rec.content = storage[rec.path]
  PROVE  CacheIInv'
<1>0. CacheTypeOK /\ EntriesAreFresh /\ KeysAreFresh /\ WholeEntry /\ ReadAfresh
  BY DEF CacheIInv
<1>1. UNCHANGED <<storage, json, png, refilled, pastSizes>>
  BY DEF cacheFileVars
<1>2. load'[l] = rec /\ \A m \in Loads : m # l => load'[m] = load[m]
  BY <1>0 DEF CacheTypeOK
<1>3. CacheTypeOK'
  BY <1>0, <1>1 DEF CacheTypeOK
<1>4. EntriesAreFresh' /\ WholeEntry'
  BY <1>0, <1>1 DEF EntriesAreFresh, WholeEntry
<1>5. KeysAreFresh'
  BY <1>0, <1>1, <1>2 DEF KeysAreFresh, PastOrPresent
<1>6. ReadAfresh'
  BY <1>0, <1>1, <1>2 DEF ReadAfresh
<1> QED BY <1>3, <1>4, <1>5, <1>6 DEF CacheIInv

LEMMA AskKeeps ==
  ASSUME CacheIInv, NEW l \in Loads, NEW p \in Paths, Ask(l, p)
  PROVE  CacheIInv'
<1> DEFINE rec == [at |-> "asked", path |-> p, calm |-> TRUE]
<1>1. rec \in Loading
  BY DEF Loading
<1>2. load' = [load EXCEPT ![l] = rec] /\ UNCHANGED <<storage, cacheFileVars, pastSizes>>
  BY DEF Ask
<1>3. rec.at = "asked"
  OBVIOUS
<1> HIDE DEF rec
<1> QED BY <1>1, <1>2, <1>3, LoadKeeps

(* A request is answered. *)
LEMMA AnswerKeeps ==
  ASSUME CacheIInv, NEW l \in Loads, NEW c \in Content, InFlight(l), Answer(l, c),
         UNCHANGED <<storage, cacheFileVars, pastSizes>>,
         LET p == load[l].path IN
           c # NoFile /\ storage[p] # NoFile
             => SizeOf[storage[p]] \in pastSizes[p] \/ c = storage[p]
  PROVE  CacheIInv'
<1> DEFINE rec == Done(load[l].path, c, load[l].calm)
<1>1. load[l] # NotAsked
  BY DEF InFlight, NotAsked
<1>2. load[l].path \in Paths /\ load[l].calm \in BOOLEAN
  BY <1>1, LoadFacts DEF CacheIInv
<1>3. rec \in Loading
  BY <1>2 DEF Loading, Done
<1>4. load' = [load EXCEPT ![l] = rec]
  BY DEF Answer
<1>5. rec.at = "done" /\ rec.path = load[l].path /\ rec.content = c
  BY DEF Done
<1> HIDE DEF rec
<1> QED BY <1>3, <1>4, <1>5, LoadKeeps

LEMMA HeadedKeeps ==
  ASSUME CacheIInv, NEW l \in Loads, Headed(l)
  PROVE  CacheIInv'
<1> DEFINE p == load[l].path
           size == SizeOf[storage[p]]
           k == KeyOf(p, size)
<1>0. CacheTypeOK /\ EntriesAreFresh
  BY DEF CacheIInv
<1>1. /\ load[l].at = "asked" /\ InFlight(l)
      /\ UNCHANGED <<storage, cacheFileVars, pastSizes>>
  BY DEF Headed, InFlight
<1>2. p \in Paths /\ load[l].calm \in BOOLEAN
  BY <1>0, <1>1, LoadFacts DEF NotAsked
<1>3. CASE storage[p] = NoFile
  <2>1. Answer(l, NoFile) /\ NoFile \in Content
    BY <1>3 DEF Headed, Content
  <2> QED BY <1>1, <2>1, AnswerKeeps
<1>4. CASE storage[p] # NoFile
  <2>1. storage[p] \in Contents
    BY <1>0, <1>2, <1>4 DEF CacheTypeOK, Content
  <2>2. k \in Keys /\ k = <<p, size>>
    BY <1>2, <2>1, KeyFacts DEF KeyOf
  <2>3. CASE json[k] # NoFile
    <3>1. Answer(l, json[k])
      BY <1>4, <2>3 DEF Headed
    <3>2. json[k] \in Content
      BY <1>0, <2>2 DEF CacheTypeOK
    <3>3. size \in pastSizes[p] \/ json[k] = storage[p]
      BY <1>0, <2>2, <2>3 DEF EntriesAreFresh
    <3> QED BY <1>1, <3>1, <3>2, <3>3, AnswerKeeps
  <2>4. CASE json[k] = NoFile
    <3> DEFINE rec == [at |-> "reading", path |-> p, calm |-> load[l].calm, key |-> k]
    <3>1. load' = [load EXCEPT ![l] = rec]
      BY <1>4, <2>4 DEF Headed
    <3>2. rec \in Loading
      BY <1>2, <2>2 DEF Loading
    <3>3. rec.at = "reading" /\ rec.key[1] = rec.path /\ PastOrPresent(rec.path, rec.key[2])
      BY <1>4, <2>2 DEF PastOrPresent
    <3> HIDE DEF rec
    <3> QED BY <1>1, <3>1, <3>2, <3>3, LoadKeeps
  <2> QED BY <2>3, <2>4
<1> QED BY <1>3, <1>4

(* An entry is written, as far as the writer gets: the details are of the  *)
(* file there is, or what they were, or gone.                              *)
LEMMA EntryWritten ==
  ASSUME CacheIInv, NEW l \in Loads, load[l].at = "reading",
         NEW c \in Contents, c = storage[load[l].path],
         NEW picture \in Content \union {Half}, NEW details \in {c, json[load[l].key], NoFile},
         png' = [png EXCEPT ![load[l].key] = picture],
         json' = [json EXCEPT ![load[l].key] = details],
         Refills(load[l].key),
         details = c /\ c \in Pictured => picture = c \/ json[load[l].key] # NoFile,
         UNCHANGED <<storage, pastSizes>>
  PROVE  /\ json' \in [Keys -> Content] /\ png' \in [Keys -> Content \union {Half}]
         /\ EntriesAreFresh'
         /\ WholeEntry'
<1> DEFINE p == load[l].path
           k == load[l].key
<1>0. CacheTypeOK /\ EntriesAreFresh /\ KeysAreFresh /\ WholeEntry
  BY DEF CacheIInv
<1>1. k \in Keys /\ load[l] # NotAsked
  BY <1>0, LoadFacts DEF NotAsked
<1>2. k[1] = p /\ PastOrPresent(p, k[2])
  BY <1>0 DEF KeysAreFresh
<1>3. details \in Content /\ c # NoFile
  BY <1>0, <1>1, FileCacheAssumption DEF CacheTypeOK, Content
<1>4. json' \in [Keys -> Content] /\ png' \in [Keys -> Content \union {Half}]
  BY <1>0, <1>1, <1>3 DEF CacheTypeOK
<1>5. /\ json'[k] = details /\ png'[k] = picture
      /\ \A j \in Keys : j # k => json'[j] = json[j] /\ png'[j] = png[j]
  BY <1>0, <1>1 DEF CacheTypeOK
<1>6. EntriesAreFresh'
  <2> SUFFICES ASSUME NEW j \in Keys, json'[j] # NoFile
               PROVE  \/ j[2] \in pastSizes[j[1]]
                      \/ storage[j[1]] = json'[j] /\ SizeOf[json'[j]] = j[2]
    BY DEF EntriesAreFresh
  <2>1. CASE j # k
    BY <1>0, <1>5, <2>1 DEF EntriesAreFresh
  <2>2. CASE j = k /\ details = c
    BY <1>2, <1>5, <2>2 DEF PastOrPresent
  <2>3. CASE j = k /\ details = json[k]
    BY <1>0, <1>1, <1>5, <2>3 DEF EntriesAreFresh
  <2>4. CASE j = k /\ details = NoFile
    BY <1>5, <2>4
  <2> QED BY <2>1, <2>2, <2>3, <2>4
<1>7. WholeEntry'
  <2> SUFFICES ASSUME NEW j \in Keys, json'[j] \in Pictured, j \notin refilled'
               PROVE  png'[j] = json'[j]
    BY DEF WholeEntry
  <2>1. /\ refilled \subseteq refilled'
        /\ json[k] # NoFile => k \in refilled'
    BY DEF Refills
  <2>2. CASE j # k
    BY <1>0, <1>5, <2>1, <2>2 DEF WholeEntry
  <2>3. CASE j = k
    <3>1. json[k] = NoFile
      BY <2>1, <2>3
    <3>2. details = c /\ c \in Pictured
      BY <1>5, <2>3, <3>1, KeyFacts
    <3> QED BY <1>5, <2>3, <3>1, <3>2
  <2> QED BY <2>2, <2>3
<1> QED BY <1>4, <1>6, <1>7

(* The picture and the details arrive. *)
LEMMA RangedKeeps ==
  ASSUME CacheIInv, NEW l \in Loads, Ranged(l)
  PROVE  CacheIInv'
<1> DEFINE p == load[l].path
           k == load[l].key
           c == storage[p]
           rec == Done(p, c, load[l].calm)
<1>0. CacheTypeOK /\ KeysAreFresh /\ ReadAfresh
  BY DEF CacheIInv
<1>1. load[l].at = "reading" /\ InFlight(l) /\ UNCHANGED <<storage, pastSizes>>
  BY DEF Ranged, InFlight
<1>2. load[l] # NotAsked /\ k \in Keys /\ p \in Paths /\ c \in Content /\ load[l].calm \in BOOLEAN
  BY <1>0, <1>1, LoadFacts DEF NotAsked, CacheTypeOK
<1>3. CASE c = NoFile
  <2>1. Answer(l, NoFile) /\ UNCHANGED cacheFileVars /\ NoFile \in Content
    BY <1>3 DEF Ranged, Content
  <2> QED BY <1>1, <2>1, AnswerKeeps
<1>4. CASE c # NoFile
  <2>1. /\ png' = IF c \in Pictured THEN [png EXCEPT ![k] = c] ELSE png
        /\ json' = [json EXCEPT ![k] = c]
        /\ Refills(k)
        /\ load' = [load EXCEPT ![l] = rec]
    BY <1>4 DEF Ranged, Answer
  <2>2. c \in Contents
    BY <1>2, <1>4 DEF Content
  <2>3. PICK picture \in Content \union {Half} :
          /\ png' = [png EXCEPT ![k] = picture]
          /\ c \in Pictured => picture = c
    <3>1. CASE c \in Pictured
      BY <1>2, <2>1, <3>1
    <3>2. CASE c \notin Pictured
      <4>1. png' = [png EXCEPT ![k] = png[k]] /\ png[k] \in Content \union {Half}
        BY <1>0, <1>2, <2>1, <3>2 DEF CacheTypeOK
      <4> QED BY <3>2, <4>1
    <3> QED BY <3>1, <3>2
  <2>4. /\ json' \in [Keys -> Content] /\ png' \in [Keys -> Content \union {Half}]
        /\ EntriesAreFresh' /\ WholeEntry'
    BY <1>1, <2>1, <2>2, <2>3, EntryWritten
  <2>5. rec \in Loading /\ rec.at = "done" /\ rec.content = c /\ rec.path = p
    BY <1>2 DEF Done, Loading
  <2> HIDE DEF rec
  <2>6. load'[l] = rec /\ \A m \in Loads : m # l => load'[m] = load[m]
    BY <1>0, <2>1 DEF CacheTypeOK
  <2>7. CacheTypeOK'
    BY <1>0, <1>1, <2>1, <2>4, <2>5 DEF CacheTypeOK
  <2>8. KeysAreFresh'
    BY <1>0, <1>1, <2>5, <2>6 DEF KeysAreFresh, PastOrPresent
  <2>9. ReadAfresh'
    BY <1>0, <1>1, <2>5, <2>6 DEF ReadAfresh
  <2> QED BY <2>4, <2>7, <2>8, <2>9 DEF CacheIInv
<1> QED BY <1>3, <1>4

(* The server is killed: nobody gets an answer, and an entry may be left   *)
(* half written.                                                           *)
LEMMA KilledKeeps ==
  ASSUME CacheIInv, Killed
  PROVE  CacheIInv'
<1>0. CacheTypeOK /\ EntriesAreFresh /\ KeysAreFresh /\ WholeEntry /\ ReadAfresh
  BY DEF CacheIInv
<1>1. /\ UNCHANGED <<storage, pastSizes>>
      /\ load' = [l \in Loads |-> IF InFlight(l) THEN Done(load[l].path, NoFile, FALSE)
                                                 ELSE load[l]]
  BY DEF Killed
<1>2. /\ json' \in [Keys -> Content] /\ png' \in [Keys -> Content \union {Half}]
      /\ EntriesAreFresh' /\ WholeEntry'
  <2>1. CASE UNCHANGED cacheFileVars
    BY <1>0, <1>1, <2>1
    DEF cacheFileVars, CacheTypeOK, EntriesAreFresh, WholeEntry
  <2>2. ASSUME NEW l \in Loads, load[l].at = "reading", WritesPart(l)
        PROVE  /\ json' \in [Keys -> Content] /\ png' \in [Keys -> Content \union {Half}]
               /\ EntriesAreFresh' /\ WholeEntry'
    <3> DEFINE c == storage[load[l].path]
               k == load[l].key
    <3>1. c \in Pictured /\ c \in Contents /\ Refills(k)
      BY <2>2, FileCacheAssumption DEF WritesPart
    <3>2. PICK left \in CutShort(c, json[k]) :
            /\ png' = [png EXCEPT ![k] = left[1]]
            /\ json' = [json EXCEPT ![k] = left[2]]
      BY <2>2 DEF WritesPart
    <3>3. left[1] \in Content \union {Half} /\ left[2] \in {c, json[k], NoFile}
      BY <3>1, <3>2 DEF CutShort, Content
    <3>4. left[2] = c => left[1] = c \/ json[k] # NoFile
      <4>1. c # NoFile
        BY <3>1, FileCacheAssumption
      <4> QED BY <3>2, <4>1 DEF CutShort
    <3> QED BY <1>1, <2>2, <3>1, <3>2, <3>3, <3>4, EntryWritten
  <2> QED BY <2>1, <2>2 DEF Killed
<1>3. ASSUME NEW l \in Loads
      PROVE  /\ load'[l] \in {NotAsked} \union Loading
             /\ load'[l].at # "reading"
             /\ load'[l].at = "done" /\ load'[l].calm => load'[l] = load[l]
  <2>1. CASE InFlight(l)
    <3>1. load'[l] = Done(load[l].path, NoFile, FALSE)
      BY <1>1, <2>1
    <3>2. load[l].path \in Paths
      BY <1>0, <2>1, LoadFacts DEF InFlight, NotAsked
    <3>3. load'[l] \in Loading
      BY <3>1, <3>2 DEF Done, Loading, Content
    <3> QED BY <3>1, <3>3 DEF Done
  <2>2. CASE ~InFlight(l)
    <3>1. load'[l] = load[l]
      BY <1>1, <2>2
    <3> QED BY <1>0, <2>2, <3>1 DEF InFlight, CacheTypeOK
  <2> QED BY <2>1, <2>2
<1>4. CacheTypeOK'
  BY <1>0, <1>1, <1>2, <1>3 DEF CacheTypeOK
<1>5. KeysAreFresh' /\ ReadAfresh'
  BY <1>0, <1>1, <1>3 DEF KeysAreFresh, ReadAfresh
<1> QED BY <1>2, <1>4, <1>5 DEF CacheIInv

(* A file comes, or goes: what there is becomes past. *)
LEMMA PutsKeeps ==
  ASSUME CacheIInv, NEW p \in Paths, NEW c \in Content, Puts(p, c), UNCHANGED cacheFileVars
  PROVE  CacheIInv'
<1>0. CacheTypeOK /\ EntriesAreFresh /\ KeysAreFresh /\ WholeEntry /\ ReadAfresh
  BY DEF CacheIInv
<1>1. UNCHANGED <<json, png, refilled>>
  BY DEF cacheFileVars
<1>2. /\ storage' \in [Paths -> Content]
      /\ \A q \in Paths : q # p => storage'[q] = storage[q]
  BY <1>0 DEF Puts, CacheTypeOK
<1>3. /\ pastSizes' \in [Paths -> SUBSET Nat]
      /\ \A q \in Paths : pastSizes[q] \subseteq pastSizes'[q]
      /\ \A q \in Paths : q # p => pastSizes'[q] = pastSizes[q]
      /\ storage[p] # NoFile => SizeOf[storage[p]] \in pastSizes'[p]
  <2>1. storage[p] # NoFile => SizeOf[storage[p]] \in Nat
    BY <1>0, FileCacheAssumption DEF CacheTypeOK, Content
  <2>2. pastSizes' = [pastSizes EXCEPT ![p] =
                        IF storage[p] = NoFile THEN @ ELSE @ \union {SizeOf[storage[p]]}]
    BY DEF Puts
  <2> QED BY <1>0, <2>1, <2>2 DEF CacheTypeOK
<1>4. ASSUME NEW l \in Loads
      PROVE  /\ load'[l] \in {NotAsked} \union Loading
             /\ load'[l].at = load[l].at
             /\ load[l].at = "reading" =>
                  load'[l].path = load[l].path /\ load'[l].key = load[l].key
             /\ load'[l].at = "done" /\ load'[l].calm => load'[l] = load[l] /\ load[l].path # p
  <2>1. load[l] \in {NotAsked} \union Loading
    BY <1>0 DEF CacheTypeOK
  <2>2. CASE load[l] # NotAsked /\ load[l].path = p
    <3>1. load'[l] = [load[l] EXCEPT !.calm = FALSE] /\ load[l] \in Loading
      BY <2>1, <2>2 DEF Puts
    <3> QED BY <3>1 DEF Loading
  <2>3. CASE ~(load[l] # NotAsked /\ load[l].path = p)
    <3>1. load'[l] = load[l]
      BY <2>3 DEF Puts
    <3> QED BY <2>1, <2>3, <3>1 DEF NotAsked
  <2> QED BY <2>2, <2>3
<1>5. CacheTypeOK'
  <2>1. load' \in [Loads -> {NotAsked} \union Loading]
    BY <1>4 DEF Puts
  <2> QED BY <1>0, <1>1, <1>2, <1>3, <2>1 DEF CacheTypeOK
<1>6. EntriesAreFresh' /\ WholeEntry'
  <2>1. EntriesAreFresh'
    BY <1>0, <1>1, <1>2, <1>3, KeyFacts DEF EntriesAreFresh
  <2> QED BY <1>0, <1>1, <2>1 DEF WholeEntry
<1>7. KeysAreFresh'
  <2>1. ASSUME NEW q \in Paths, NEW size, PastOrPresent(q, size)
        PROVE  PastOrPresent(q, size)'
    <3>1. CASE q = p
      BY <1>3, <2>1, <3>1 DEF PastOrPresent
    <3>2. CASE q # p
      BY <1>2, <1>3, <2>1, <3>2 DEF PastOrPresent
    <3> QED BY <3>1, <3>2
  <2> SUFFICES ASSUME NEW l \in Loads, load'[l].at = "reading"
               PROVE  /\ load'[l].key[1] = load'[l].path
                      /\ PastOrPresent(load[l].path, load[l].key[2])'
    BY DEF KeysAreFresh
  <2>2. /\ load[l].at = "reading" /\ load'[l].path = load[l].path /\ load'[l].key = load[l].key
    BY <1>4
  <2>3. load[l].path \in Paths
    BY <1>0, <2>2, LoadFacts DEF NotAsked
  <2>4. load[l].key[1] = load[l].path /\ PastOrPresent(load[l].path, load[l].key[2])
    BY <1>0, <2>2 DEF KeysAreFresh
  <2> QED BY <2>1, <2>2, <2>3, <2>4
<1>8. ReadAfresh'
  <2> SUFFICES ASSUME NEW l \in Loads, load'[l].at = "done", load'[l].calm,
                      load'[l].content # NoFile, storage'[load'[l].path] # NoFile
               PROVE  \/ SizeOf[storage'[load'[l].path]] \in pastSizes'[load'[l].path]
                      \/ load'[l].content = storage'[load'[l].path]
    BY DEF ReadAfresh
  <2>1. load'[l] = load[l] /\ load[l].path # p
    BY <1>4
  <2>2. load[l].path \in Paths
    BY <1>0, <2>1, LoadFacts DEF NotAsked
  <2> QED BY <1>0, <1>2, <1>3, <2>1, <2>2 DEF ReadAfresh
<1> QED BY <1>5, <1>6, <1>7, <1>8 DEF CacheIInv

LEMMA CacheStepKeeps ==
  ASSUME CacheIInv, CacheStep
  PROVE  CacheIInv'
<1>1. ASSUME NEW l \in Loads, LoadFails(l)
      PROVE  CacheIInv'
  BY <1>1, AnswerKeeps DEF LoadFails, Content
<1> QED BY <1>1, AskKeeps, HeadedKeeps, RangedKeeps DEF CacheStep

-----------------------------------------------------------------------------
(* The page's steps.  What an operation's record holds, by how far it is.  *)
LEMMA OpFacts ==
  ASSUME op \in Operation
  PROVE  /\ op = Idle <=> op.at = "over"
         /\ op = Idle => op.kind = "none"
         /\ op # Idle => op.kind \in {"upload", "print", "delete"}
         /\ op.at \in {"over", "sent", "deleting", "answered", "listing", "listed"}
         /\ op.at \in {"sent", "deleting"} => op.path \in Paths
         /\ op.at = "deleting" => op.kind = "delete"
         /\ op.at = "answered" => op.result \in {"done", "failed"}
         /\ op.at \in {"listing", "listed"} => op.kind \in {"upload", "delete"}
         /\ op.at = "listed" => op.files \subseteq Paths
BY DEF Operation, Idle

ListInv == FilesTypeOK /\ ReadIsRight /\ ShownIsRight /\ MessageInTime

LEMMA FilesInitInv == FilesInit => FilesIInv
<1> SUFFICES ASSUME FilesInit PROVE FilesIInv
  OBVIOUS
<1>1. CacheIInv
  BY CacheInitInv DEF FilesInit
<1>2. FilesTypeOK
  BY DEF FilesInit, FilesTypeOK, Operation, Misses
<1>3. ReadIsRight /\ ShownIsRight /\ MessageInTime
  BY DEF FilesInit, ReadIsRight, ShownIsRight, MessageInTime, Idle, Lists
<1> QED BY <1>1, <1>2, <1>3 DEF FilesIInv

(* The list is asked for, and shown: when the page is opened, and after an *)
(* operation.                                                              *)
LEMMA MountKeeps ==
  ASSUME ListInv, MountReads \/ MountShows
  PROVE  ListInv'
<1>0. FilesTypeOK /\ ReadIsRight /\ ShownIsRight /\ MessageInTime
  BY DEF ListInv
<1>1. UNCHANGED <<storage, op, message, cancel>> /\ Held' = Held
  BY DEF MountReads, MountShows, cacheVars, Held
<1>2. WillReread => WillReread'
  BY <1>1 DEF WillReread, Rereads
<1>3. missed \in [Lists -> Misses]
  BY <1>0 DEF FilesTypeOK
<1>4. CASE MountReads
  <2>1. PICK ok \in BOOLEAN :
          /\ mount' = [at |-> "read", files |-> IF ok THEN Held ELSE {}]
          /\ missed' = [missed EXCEPT !["mount"] = IF ok THEN "nothing" ELSE "others"]
    BY <1>4 DEF MountReads, HasRead
  <2>2. /\ missed' \in [Lists -> Misses]
        /\ missed'["mount"] = IF ok THEN "nothing" ELSE "others"
        /\ missed'["op"] = missed["op"]
        /\ missed'["shown"] = missed["shown"]
    BY <1>3, <2>1 DEF Lists, Misses
  <2>3. shown' = shown
    BY <1>4 DEF MountReads
  <2>4. FilesTypeOK' /\ MessageInTime'
    BY <1>0, <1>1, <2>2 DEF FilesTypeOK, MessageInTime, Lists, Misses
  <2>5. ReadIsRight' /\ ShownIsRight'
    BY <1>0, <1>1, <1>2, <2>1, <2>2, <2>3 DEF ReadIsRight, ShownIsRight
  <2> QED BY <2>4, <2>5 DEF ListInv
<1>5. CASE MountShows
  <2>1. mount'.files = {} /\ shown' = mount.files
    BY <1>5 DEF MountShows
  <2>2. /\ missed' \in [Lists -> Misses]
        /\ missed'["mount"] = "others"
        /\ missed'["op"] = missed["op"]
        /\ missed'["shown"] = IF missed["mount"] = "own" THEN "late" ELSE missed["mount"]
    BY <1>3, <1>5 DEF MountShows, Lists, Misses
  <2>3. FilesTypeOK' /\ MessageInTime'
    BY <1>0, <1>1, <2>2 DEF FilesTypeOK, MessageInTime, Lists, Misses
  <2>4. ReadIsRight' /\ ShownIsRight'
    BY <1>0, <1>1, <2>1, <2>2 DEF ReadIsRight, ShownIsRight
  <2> QED BY <2>3, <2>4 DEF ListInv
<1> QED BY <1>4, <1>5

LEMMA RefreshKeeps ==
  ASSUME ListInv, Reads \/ Shows
  PROVE  ListInv'
<1>0. FilesTypeOK /\ ReadIsRight /\ ShownIsRight /\ MessageInTime /\ op \in Operation
  BY DEF ListInv, FilesTypeOK
<1>1. UNCHANGED <<storage, mount, message, cancel>> /\ Held' = Held
  BY DEF Reads, Shows, cacheVars, Held
<1>2. Held \subseteq Paths
  BY DEF Held
<1>3. missed \in [Lists -> Misses]
  BY <1>0 DEF FilesTypeOK
<1>4. CASE Reads
  <2>1. PICK ok \in BOOLEAN :
          /\ op' = [kind |-> op.kind, at |-> "listed", files |-> IF ok THEN Held ELSE {}]
          /\ missed' = [missed EXCEPT !["op"] = IF ok THEN "nothing" ELSE "others"]
    BY <1>4 DEF Reads, HasRead
  <2>2. op.at = "listing" /\ op.kind \in {"upload", "delete"} /\ shown' = shown
    BY <1>0, <1>4, OpFacts DEF Reads
  <2>3. op' \in Operation /\ op'.at = "listed"
    BY <1>2, <2>1, <2>2 DEF Operation
  <2>4. /\ missed' \in [Lists -> Misses]
        /\ missed'["op"] = IF ok THEN "nothing" ELSE "others"
        /\ missed'["mount"] = missed["mount"]
        /\ missed'["shown"] = missed["shown"]
    BY <1>3, <2>1 DEF Lists, Misses
  <2>5. FilesTypeOK'
    BY <1>0, <1>1, <2>3, <2>4 DEF FilesTypeOK, Lists, Misses
  <2>6. MessageInTime'
    BY <1>0, <1>1, <2>2, <2>3 DEF MessageInTime
  <2>7. WillReread'
    BY <2>3 DEF WillReread
  <2>8. ReadIsRight' /\ ShownIsRight'
    BY <1>0, <1>1, <2>1, <2>2, <2>4, <2>7 DEF ReadIsRight, ShownIsRight
  <2> QED BY <2>5, <2>6, <2>8 DEF ListInv
<1>5. CASE Shows
  <2>1. op.at = "listed" /\ shown' = op.files /\ op' = Idle
    BY <1>5 DEF Shows
  <2>2. /\ missed' \in [Lists -> Misses]
        /\ missed'["op"] = "others"
        /\ missed'["mount"] = missed["mount"]
        /\ missed'["shown"] = missed["op"]
    BY <1>3, <1>5 DEF Shows, Lists, Misses
  <2>3. FilesTypeOK'
    BY <1>0, <1>1, <2>1, <2>2 DEF FilesTypeOK, Operation, Lists, Misses
  <2>4. message # "none" /\ message \notin {"uploading", "deleting"}
    BY <1>0, <2>1 DEF MessageInTime
  <2>5. MessageInTime'
    BY <1>0, <1>1, <2>1, <2>4 DEF MessageInTime, Idle
  <2>6. ReadIsRight' /\ ShownIsRight'
    BY <1>0, <1>1, <2>1, <2>2 DEF ReadIsRight, ShownIsRight
  <2> QED BY <2>3, <2>5, <2>6 DEF ListInv
<1> QED BY <1>4, <1>5

(* An operation begins. *)
LEMMA BeginsKeeps ==
  ASSUME ListInv, NEW p \in Paths, StartsUpload(p) \/ Prints(p) \/ DeletesForGood(p)
  PROVE  ListInv'
<1>0. FilesTypeOK /\ ReadIsRight /\ ShownIsRight /\ MessageInTime /\ op = Idle
  BY DEF ListInv, StartsUpload, Prints, DeletesForGood, Begins, Working
<1>1. UNCHANGED <<storage, shown, mount, cancel, missed>> /\ Held' = Held
  BY DEF StartsUpload, Prints, DeletesForGood, Begins, Held
<1>2. PICK kind \in {"upload", "print", "delete"} :
        /\ op' = Op(kind, p)
        /\ message' \in {"uploading", "none", "deleting"}
  BY DEF StartsUpload, Prints, DeletesForGood, Begins
<1>3. op' \in Operation /\ op' # Idle /\ op'.at = "sent"
  BY <1>2 DEF Operation, Op, Idle
<1>4. FilesTypeOK'
  BY <1>0, <1>1, <1>2, <1>3 DEF FilesTypeOK, InProgress
<1>5. MessageInTime'
  BY <1>2, <1>3 DEF MessageInTime
<1>6. ReadIsRight'
  BY <1>0, <1>1 DEF ReadIsRight, Idle
<1>7. ShownIsRight'
  BY <1>0, <1>1 DEF ShownIsRight, WillReread, Idle
<1> QED BY <1>4, <1>5, <1>6, <1>7 DEF ListInv

(* Buttons, and the cancellation of an upload. *)
LEMMA ButtonsKeep ==
  ASSUME ListInv,
         \/ \E p \in Paths : Arms(p)
         \/ Disarms \/ ClicksCancel \/ CancelRoute \/ CancelAnswered
  PROVE  ListInv'
<1>0. FilesTypeOK /\ ReadIsRight /\ ShownIsRight /\ MessageInTime /\ op \in Operation
  BY DEF ListInv, FilesTypeOK
<1>1. UNCHANGED <<storage, shown, mount, op, missed>> /\ Held' = Held
  BY DEF Arms, Disarms, ClicksCancel, CancelRoute, CancelAnswered, cacheVars, Held
<1>2. ShownIsRight'
  BY <1>0, <1>1 DEF ShownIsRight, WillReread, Rereads
<1>3. \/ message' = message /\ cancel' = cancel
      \/ message' = "cancelling" /\ cancel' = "asked"
      \/ message' = message /\ cancel' \in {"accepted", "refused"}
      \/ message' \in {"cancelled", "failed"} /\ cancel' = "none"
  BY DEF Arms, Disarms, ClicksCancel, CancelRoute, CancelAnswered, CancelMessage
<1>4. FilesTypeOK'
  BY <1>0, <1>1, <1>3 DEF FilesTypeOK, InProgress
<1>5. MessageInTime'
  BY <1>0, <1>1, <1>3 DEF MessageInTime
<1>6. ReadIsRight'
  BY <1>0, <1>1 DEF ReadIsRight
<1> QED BY <1>2, <1>4, <1>5, <1>6 DEF ListInv

(* The routes, and the printer behind them. *)
LEMMA RoutesKeep ==
  ASSUME ListInv, UploadEnds \/ PrintEnds \/ DeleteRoute \/ DeleteEnds
  PROVE  ListInv'
<1>0. FilesTypeOK /\ ReadIsRight /\ ShownIsRight /\ MessageInTime /\ op \in Operation
  BY DEF ListInv, FilesTypeOK
<1>1. /\ op.at \in {"sent", "deleting"} /\ op # Idle /\ op.path \in Paths
      /\ op.kind \in {"upload", "print", "delete"}
      /\ UNCHANGED <<shown, mount, message, cancel>>
  BY <1>0, OpFacts DEF UploadEnds, PrintEnds, DeleteRoute, DeleteEnds, UnchangedButOp
<1>2. missed \in [Lists -> Misses] /\ missed["op"] = "others"
  BY <1>0, <1>1 DEF FilesTypeOK, ReadIsRight
<1>3. \/ \E result \in {"done", "failed"} :
           op' = [kind |-> op.kind, at |-> "answered", result |-> result]
      \/ op.kind = "delete" /\ op' = [op EXCEPT !.at = "deleting"]
  BY DEF UploadEnds, PrintEnds, DeleteRoute, DeleteEnds, Ends
<1>4. /\ op' \in Operation /\ op' # Idle /\ op'.kind = op.kind
      /\ op'.at \in {"deleting", "answered"}
  <2>1. CASE op.kind = "delete" /\ op' = [op EXCEPT !.at = "deleting"]
    <3>1. op \in [kind : {"upload", "print", "delete"}, path : Paths, at : {"sent"}]
                 \union [kind : {"delete"}, path : Paths, at : {"deleting"}]
      BY <1>0, <1>1 DEF Operation
    <3>2. op' \in [kind : {"delete"}, path : Paths, at : {"deleting"}]
      BY <2>1, <3>1
    <3> QED BY <2>1, <3>2 DEF Operation, Idle
  <2>2. CASE \E result \in {"done", "failed"} :
               op' = [kind |-> op.kind, at |-> "answered", result |-> result]
    BY <1>1, <2>2 DEF Operation, Idle
  <2> QED BY <1>3, <2>1, <2>2
<1>5. MessageInTime'
  BY <1>0, <1>1, <1>4 DEF MessageInTime
<1>6. \/ missed' = missed /\ storage' = storage
      \/ ChangesOwn /\ WillReread'
      \/ ChangesOthers
  <2>1. CASE UploadEnds
    <3>1. CASE \E result \in {"done", "failed"} : Ends(result) /\ ChangesOwn
      BY <2>1, <3>1 DEF UploadEnds, Uploading, Ends, WillReread, Rereads, RereadsAfterUpload
    <3> QED BY <2>1, <3>1 DEF UploadEnds
  <2>2. CASE DeleteEnds
    <3>1. CASE Ends("done")
      BY <2>2, <3>1 DEF DeleteEnds, Ends, WillReread, Rereads
    <3> QED BY <2>2, <3>1 DEF DeleteEnds
  <2> QED BY <2>1, <2>2 DEF PrintEnds, DeleteRoute
<1>7. CASE missed' = missed /\ storage' = storage
  <2>1. FilesTypeOK'
    BY <1>0, <1>1, <1>4, <1>7 DEF FilesTypeOK
  <2>2. Held' = Held
    BY <1>7 DEF Held
  <2>3. ~WillReread
    BY <1>1 DEF WillReread
  <2>4. ReadIsRight' /\ ShownIsRight'
    BY <1>0, <1>1, <1>2, <1>7, <2>2, <2>3 DEF ReadIsRight, ShownIsRight
  <2> QED BY <1>5, <2>1, <2>4 DEF ListInv
<1>8. CASE ChangesOwn /\ WillReread'
  <2>1. /\ missed' \in [Lists -> Misses]
        /\ \A l \in Lists : missed'[l] # "nothing"
        /\ missed'["op"] = "others"
    BY <1>2, <1>8 DEF ChangesOwn, Lists, Misses
  <2>2. FilesTypeOK'
    BY <1>0, <1>1, <1>4, <2>1 DEF FilesTypeOK, Lists, Misses
  <2>3. ReadIsRight' /\ ShownIsRight'
    BY <1>8, <2>1 DEF ReadIsRight, ShownIsRight, Lists
  <2> QED BY <1>5, <2>2, <2>3 DEF ListInv
<1>9. CASE ChangesOthers
  <2>1. missed' \in [Lists -> Misses] /\ \A l \in Lists : missed'[l] = "others"
    BY <1>9 DEF ChangesOthers, Lists, Misses
  <2>2. FilesTypeOK'
    BY <1>0, <1>1, <1>4, <2>1 DEF FilesTypeOK, Lists, Misses
  <2>3. ReadIsRight' /\ ShownIsRight'
    BY <2>1 DEF ReadIsRight, ShownIsRight, Lists
  <2> QED BY <1>5, <2>2, <2>3 DEF ListInv
<1> QED BY <1>6, <1>7, <1>8, <1>9

(* The page has the operation's answer. *)
LEMMA OpAnsweredKeeps ==
  ASSUME ListInv, OpAnswered
  PROVE  ListInv'
<1>0. FilesTypeOK /\ ReadIsRight /\ ShownIsRight /\ MessageInTime /\ op \in Operation
  BY DEF ListInv, FilesTypeOK
<1>1. /\ op.at = "answered" /\ op.result \in {"done", "failed"}
      /\ op.kind \in {"upload", "print", "delete"}
      /\ UNCHANGED <<storage, shown, mount, cancel, missed>> /\ Held' = Held
  BY <1>0, OpFacts DEF OpAnswered, cacheVars, Held
<1>2. message' \in {"done", "failed", "cancelled"}
  BY <1>1 DEF OpAnswered
<1>3. CASE Rereads(op.result)
  <2>1. op' = [kind |-> op.kind, at |-> "listing"] /\ op.kind \in {"upload", "delete"}
    BY <1>3 DEF OpAnswered, Rereads
  <2>2. op' \in Operation /\ op' # Idle
    BY <2>1 DEF Operation, Idle
  <2>3. FilesTypeOK' /\ MessageInTime'
    BY <1>0, <1>1, <1>2, <2>2 DEF FilesTypeOK, MessageInTime
  <2>4. ReadIsRight' /\ ShownIsRight'
    BY <1>0, <1>1, <2>1 DEF ReadIsRight, ShownIsRight, WillReread
  <2> QED BY <2>3, <2>4 DEF ListInv
<1>4. CASE ~Rereads(op.result)
  <2>1. op' = Idle
    BY <1>4 DEF OpAnswered
  <2>2. ~WillReread
    BY <1>1, <1>4 DEF WillReread
  <2>3. FilesTypeOK' /\ MessageInTime'
    BY <1>0, <1>1, <1>2, <2>1 DEF FilesTypeOK, MessageInTime, Operation, Idle
  <2>4. ReadIsRight' /\ ShownIsRight'
    BY <1>0, <1>1, <2>1, <2>2 DEF ReadIsRight, ShownIsRight
  <2> QED BY <2>3, <2>4 DEF ListInv
<1> QED BY <1>3, <1>4

(* Others change a file, or the server is killed. *)
LEMMA OthersKeep ==
  ASSUME ListInv, ServerKilled \/ \E p \in Paths, c \in Content : OthersPut(p, c)
  PROVE  ListInv'
<1>0. FilesTypeOK /\ ReadIsRight /\ ShownIsRight /\ MessageInTime /\ op \in Operation
  BY DEF ListInv, FilesTypeOK
<1>1. CASE ServerKilled
  <2>1. UNCHANGED <<storage, shown, mount, message, missed>> /\ Held' = Held
    BY <1>1 DEF ServerKilled, Killed, Held
  <2>2. cancel' = cancel \/ cancel' = "refused"
    BY <1>1 DEF ServerKilled
  <2>3. CASE op.at \in {"sent", "deleting"}
    <3>1. op' = [kind |-> op.kind, at |-> "answered", result |-> "failed"]
      BY <1>1, <2>3 DEF ServerKilled
    <3>2. op.kind \in {"upload", "print", "delete"} /\ op # Idle
      BY <1>0, <2>3, OpFacts
    <3>3. op' \in Operation /\ op' # Idle
      BY <3>1, <3>2 DEF Operation, Idle
    <3>4. FilesTypeOK' /\ MessageInTime'
      BY <1>0, <2>1, <2>2, <3>1, <3>3 DEF FilesTypeOK, MessageInTime
    <3>5. ReadIsRight'
      BY <1>0, <2>1, <2>3 DEF ReadIsRight
    <3>6. ShownIsRight'
      BY <1>0, <2>1, <2>3 DEF ShownIsRight, WillReread
    <3> QED BY <3>4, <3>5, <3>6 DEF ListInv
  <2>4. CASE op.at \notin {"sent", "deleting"}
    <3>1. op' = op
      BY <1>1, <2>4 DEF ServerKilled
    <3>2. FilesTypeOK' /\ MessageInTime'
      BY <1>0, <2>1, <2>2, <3>1 DEF FilesTypeOK, MessageInTime
    <3>3. ReadIsRight' /\ ShownIsRight'
      BY <1>0, <2>1, <3>1 DEF ReadIsRight, ShownIsRight, WillReread, Rereads
    <3> QED BY <3>2, <3>3 DEF ListInv
  <2> QED BY <2>3, <2>4
<1>2. CASE \E p \in Paths, c \in Content : OthersPut(p, c)
  <2>1. ChangesOthers /\ UNCHANGED pageVars
    BY <1>2 DEF OthersPut
  <2>2. missed' \in [Lists -> Misses] /\ \A l \in Lists : missed'[l] = "others"
    BY <2>1 DEF ChangesOthers, Lists, Misses
  <2>3. FilesTypeOK' /\ MessageInTime'
    BY <1>0, <2>1, <2>2 DEF pageVars, FilesTypeOK, MessageInTime, Lists, Misses
  <2>4. ReadIsRight' /\ ShownIsRight'
    BY <2>2 DEF ReadIsRight, ShownIsRight, Lists
  <2> QED BY <2>3, <2>4 DEF ListInv
<1> QED BY <1>1, <1>2

-----------------------------------------------------------------------------
(* The cache and the page together. *)
LEMMA FilesStepInv == FilesIInv /\ [FilesNext]_filesVars => FilesIInv'
<1> SUFFICES ASSUME FilesIInv, [FilesNext]_filesVars
             PROVE  FilesIInv'
  OBVIOUS
<1>0. CacheIInv /\ ListInv /\ FilesTypeOK /\ op \in Operation
  BY DEF FilesIInv, ListInv, FilesTypeOK
<1>1. ASSUME UNCHANGED <<storage, cacheFileVars, load, pastSizes>>
      PROVE  CacheIInv'
  BY <1>0, <1>1
  DEF cacheFileVars, CacheIInv, CacheTypeOK, EntriesAreFresh, KeysAreFresh, PastOrPresent,
      WholeEntry, ReadAfresh
<1>2. ASSUME UNCHANGED <<pageVars, missed, storage>>
      PROVE  ListInv'
  BY <1>0, <1>2
  DEF pageVars, ListInv, FilesTypeOK, ReadIsRight, ShownIsRight, MessageInTime, WillReread,
      Rereads, Lists, Misses, Held
<1>3. CASE CacheStep /\ UNCHANGED <<pageVars, missed>>
  <2>1. UNCHANGED storage
    BY <1>3 DEF CacheStep, Ask, Headed, LoadFails, Ranged
  <2> QED BY <1>0, <1>2, <1>3, <2>1, CacheStepKeeps DEF FilesIInv, ListInv
<1>4. CASE MountReads \/ MountShows \/ Reads \/ Shows
  BY <1>0, <1>1, <1>4, MountKeeps, RefreshKeeps
  DEF MountReads, MountShows, Reads, Shows, cacheVars, FilesIInv, ListInv
<1>5. ASSUME NEW p \in Paths, StartsUpload(p) \/ Prints(p) \/ DeletesForGood(p)
      PROVE  FilesIInv'
  BY <1>0, <1>1, <1>5, BeginsKeeps
  DEF StartsUpload, Prints, DeletesForGood, Begins, FilesIInv, ListInv
<1>6. ASSUME (\E p \in Paths : Arms(p)) \/ Disarms \/ ClicksCancel \/ CancelRoute \/ CancelAnswered
      PROVE  FilesIInv'
  BY <1>0, <1>1, <1>6, ButtonsKeep
  DEF Arms, Disarms, ClicksCancel, CancelRoute, CancelAnswered, cacheVars, FilesIInv, ListInv
<1>7. CASE UploadEnds \/ PrintEnds \/ DeleteRoute \/ DeleteEnds
  <2>1. op.path \in Paths /\ UNCHANGED cacheFileVars
    BY <1>0, <1>7, OpFacts DEF UploadEnds, PrintEnds, DeleteRoute, DeleteEnds, UnchangedButOp
  <2>2. \/ \E c \in Content : Puts(op.path, c)
        \/ UNCHANGED <<storage, pastSizes, load>>
    BY <1>7 DEF UploadEnds, PrintEnds, DeleteRoute, DeleteEnds, Content
  <2>3. CacheIInv'
    BY <1>0, <1>1, <2>1, <2>2, PutsKeeps
  <2> QED BY <1>0, <1>7, <2>3, RoutesKeep DEF FilesIInv, ListInv
<1>8. CASE OpAnswered
  BY <1>0, <1>1, <1>8, OpAnsweredKeeps DEF OpAnswered, cacheVars, FilesIInv, ListInv
<1>9. ASSUME NEW p \in Paths, NEW c \in Contents \union {NoFile}, OthersPut(p, c)
      PROVE  FilesIInv'
  <2>1. c \in Content /\ Puts(p, c) /\ UNCHANGED cacheFileVars
    BY <1>9 DEF OthersPut, Content
  <2> QED BY <1>0, <1>9, <2>1, PutsKeeps, OthersKeep DEF FilesIInv, ListInv
<1>10. CASE ServerKilled
  BY <1>0, <1>10, KilledKeeps, OthersKeep DEF ServerKilled, FilesIInv, ListInv
<1>11. CASE UNCHANGED filesVars
  BY <1>1, <1>2, <1>11 DEF filesVars, cacheVars, FilesIInv, ListInv
<1> QED
  BY <1>3, <1>4, <1>5, <1>6, <1>7, <1>8, <1>9, <1>10, <1>11 DEF FilesNext

LEMMA FilesIInvAlways == FilesSpec => []FilesIInv
BY FilesInitInv, FilesStepInv, PTL DEF FilesSpec

(* An entry that was written once is whole, whenever the server was        *)
(* killed; a file uploaded anew under its name, with a size that is new,   *)
(* is read afresh (file-meta.ts:27-28).                                    *)
THEOREM EntriesRight == FilesSpec => []EntriesAreRight
<1>1. FilesIInv => EntriesAreRight
  BY DEF FilesIInv, CacheIInv, EntriesAreRight
<1> QED BY <1>1, FilesIInvAlways, PTL

(* A page that is idle shows what the printer holds, after an upload or a  *)
(* deletion and their failures too (Files.tsx:131-136), unless others have *)
(* changed it since, a delete was obeyed and not answered, the list could  *)
(* not be had, or the list asked for on opening the page was read before   *)
(* an upload or a deletion and shown after it (79-90).                     *)
THEOREM ListRight == FilesSpec => []ListIsRight
<1>1. FilesIInv => ListIsRight
  <2> SUFFICES ASSUME FilesIInv, op = Idle, missed["shown"] \notin {"others", "late"}
               PROVE  shown = Held
    BY DEF ListIsRight, Working
  <2>1. missed["shown"] \in {"nothing", "own"}
    BY DEF FilesIInv, FilesTypeOK, Lists, Misses
  <2>2. ~WillReread
    BY DEF WillReread, Idle
  <2> QED BY <2>1, <2>2 DEF FilesIInv, ShownIsRight
<1> QED BY <1>1, FilesIInvAlways, PTL

(* No message goes on saying that something goes on (Files.tsx:96-128).    *)
THEOREM MessageIsOver == FilesSpec => []MessageEnds
<1>1. FilesIInv => MessageEnds
  BY DEF FilesIInv, MessageInTime, MessageEnds, InProgress, Working, Idle
<1> QED BY <1>1, FilesIInvAlways, PTL

=============================================================================

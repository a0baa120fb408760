------------------------------ MODULE FileCache ------------------------------
(***************************************************************************)
(* apps/server/src/file-meta.ts: FileMetaCache, which reads the header of  *)
(* a print file from the printer and keeps the details and the picture in  *)
(* two files, named after the path and the size of the print file.         *)
(*                                                                         *)
(* Two requests are made of the printer for a file that is not cached: its *)
(* size, and its beginning.  The file may be replaced between them.  The   *)
(* answer to the second is written in one go, picture first, and a server  *)
(* that is killed meanwhile leaves what it has written.                    *)
(***************************************************************************)
EXTENDS Naturals, FiniteSets

CONSTANTS
  Paths,        \* paths of print files
  Contents,     \* what may be in one, as told by its header
  SizeOf,       \* the size of each
  Pictured,     \* those with a preview
  NoFile,       \* no file, no content
  Loads,        \* requests for the details or the preview of a file
  MaxEvents     \* bound: requests, replacements and kills, all together

ASSUME FileCacheAssumption ==
  /\ SizeOf \in [Contents -> Nat]
  /\ Pictured \subseteq Contents
  /\ NoFile \notin Paths \union Contents
  /\ MaxEvents \in Nat

VARIABLES
  storage,      \* the printer: what each path holds
  json,         \* <key>.json, of every key
  png,          \* <key>.png
  load,         \* how far each request has got, and what it was answered
  events,       \* how many there have been
  pastSizes,    \* history: the sizes of what a path held before
  refilled      \* history: keys written when they were there already

cacheFileVars == <<json, png, refilled>>
cacheVars == <<storage, cacheFileVars, load, events, pastSizes>>

Keys == Paths \X {SizeOf[c] : c \in Contents}

(* A picture whose writing was cut short. *)
Half == "half"

NotAsked == [at |-> "idle"]
Done(p, c, calm) == [at |-> "done", path |-> p, content |-> c, calm |-> calm]

InFlight(l) == load[l].at \in {"asked", "reading"}

CacheInit ==
  /\ storage \in [Paths -> Contents \union {NoFile}]
  /\ json = [k \in Keys |-> NoFile]
  /\ png = [k \in Keys |-> NoFile]
  /\ load = [l \in Loads |-> NotAsked]
  /\ events = 0
  /\ pastSizes = [p \in Paths |-> {}]
  /\ refilled = {}

-----------------------------------------------------------------------------
(* Faulty variants, used to check that the properties notice them.         *)
(* KeyOfPath: a file is told by its path alone.                            *)
KeyOfPath(p, size) == CHOOSE k \in Keys : k[1] = p

(* CutShortBackwards: the details are written before the picture.          *)
CutShortBackwards(c, old) == {<<NoFile, c>>, <<Half, c>>}

-----------------------------------------------------------------------------
Counts == events < MaxEvents /\ events' = events + 1

(* The printer's file is replaced or removed. *)
Puts(p, c) ==
  /\ storage' = [storage EXCEPT ![p] = c]
  /\ pastSizes' = [pastSizes EXCEPT ![p] =
                     IF storage[p] = NoFile THEN @ ELSE @ \union {SizeOf[storage[p]]}]
  /\ load' = [l \in Loads |-> IF load[l] # NotAsked /\ load[l].path = p
                              THEN [load[l] EXCEPT !.calm = FALSE] ELSE load[l]]

(* meta or preview is called, and load asks for the size. *)
Ask(l, p) ==
  /\ ~InFlight(l) /\ Counts
  /\ load' = [load EXCEPT ![l] = [at |-> "asked", path |-> p, calm |-> TRUE]]
  /\ UNCHANGED <<storage, cacheFileVars, pastSizes>>

Answer(l, c) == load' = [load EXCEPT ![l] = Done(@.path, c, @.calm)]

KeyOf(p, size) == <<p, size>>

(* The answer to HEAD: what is cached for that size is read. *)
Headed(l) ==
  /\ load[l].at = "asked"
  /\ LET p == load[l].path
         k == KeyOf(p, SizeOf[storage[p]]) IN
     IF storage[p] = NoFile THEN Answer(l, NoFile)
     ELSE IF json[k] # NoFile THEN Answer(l, json[k])
     ELSE load' = [load EXCEPT ![l] = [at |-> "reading", path |-> p, calm |-> @.calm, key |-> k]]
  /\ UNCHANGED <<storage, cacheFileVars, events, pastSizes>>

(* A request of the printer fails, or finds something that has no header.  *)
LoadFails(l) ==
  /\ InFlight(l)
  /\ Answer(l, NoFile)
  /\ UNCHANGED <<storage, cacheFileVars, events, pastSizes>>

Refills(k) == refilled' = IF json[k] = NoFile THEN refilled ELSE refilled \union {k}

(* The answer to the ranged GET: the picture, if any, and the details.     *)
Ranged(l) ==
  /\ load[l].at = "reading"
  /\ LET c == storage[load[l].path]
         k == load[l].key IN
     IF c = NoFile THEN Answer(l, NoFile) /\ UNCHANGED cacheFileVars
     ELSE /\ png' = IF c \in Pictured THEN [png EXCEPT ![k] = c] ELSE png
          /\ json' = [json EXCEPT ![k] = c]
          /\ Refills(k)
          /\ Answer(l, c)
  /\ UNCHANGED <<storage, events, pastSizes>>

(* What a write that was cut short leaves of the picture and the details;  *)
(* half of the details is none, to JSON.parse.                             *)
CutShort(c, old) == {<<Half, old>>, <<c, old>>, <<c, NoFile>>}

(* The server is killed while it writes an entry, or at another time. *)
WritesPart(l) ==
  LET c == storage[load[l].path]
      k == load[l].key IN
  /\ c \in Pictured
  /\ \E left \in CutShort(c, json[k]) :
       /\ png' = [png EXCEPT ![k] = left[1]]
       /\ json' = [json EXCEPT ![k] = left[2]]
  /\ Refills(k)

Killed ==
  /\ Counts
  /\ load' = [l \in Loads |-> IF InFlight(l) THEN Done(load[l].path, NoFile, FALSE) ELSE load[l]]
  /\ \/ UNCHANGED cacheFileVars
     \/ \E l \in Loads : load[l].at = "reading" /\ WritesPart(l)
  /\ UNCHANGED <<storage, pastSizes>>

(* What a page, or several, ask of the cache. *)
CacheStep ==
  \E l \in Loads : \/ \E p \in Paths : Ask(l, p)
                   \/ Headed(l) \/ LoadFails(l) \/ Ranged(l)

-----------------------------------------------------------------------------
(* An entry with a picture has the whole of it, the one of its own file,   *)
(* whenever the server was killed: an entry that was written once.  (One   *)
(* that two requests wrote may be spoilt by a kill.)                       *)
WholeEntry ==
  \A k \in Keys : json[k] \in Pictured /\ k \notin refilled => png[k] = json[k]

(* A file uploaded anew under its name is read afresh (file-meta.ts:27-28) *)
(* if no earlier one had its size: whoever asks from then on is answered   *)
(* with what it holds, whatever earlier requests still are about.          *)
ReadAfresh ==
  \A l \in Loads : load[l].at = "done" /\ load[l].calm /\ load[l].content # NoFile =>
    LET p == load[l].path IN
    storage[p] # NoFile =>
      SizeOf[storage[p]] \in pastSizes[p] \/ load[l].content = storage[p]

(* Whoever asks about a file is told the truth, and all of it. *)
EntriesAreRight == WholeEntry /\ ReadAfresh

=============================================================================

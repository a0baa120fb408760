----------------------------- MODULE StatusFeed -----------------------------
(***************************************************************************)
(* What a page shows of the printer: useStatus.ts, which polls until a     *)
(* WebSocket is open and again when it is not, against ws.ts, which sends  *)
(* the current view on connection and every update after it.               *)
(*                                                                         *)
(* A view is its version.  A connection that fails fires 'error' and then  *)
(* 'close', one that is closed fires 'close' alone.                        *)
(***************************************************************************)
EXTENDS Naturals, Sequences

CONSTANTS
  PageSockets,   \* sockets a page can have at once
  NoPageSocket,  \* undefined
  MaxVersion,    \* bound: updates of the store
  MaxRetries     \* bound: retry timers running at once

ASSUME FeedAssumption ==
  NoPageSocket \notin PageSockets /\ MaxVersion \in Nat \ {0} /\ MaxRetries \in Nat

VARIABLES
  version,       \* PrinterStore's view
  sock,          \* each socket, as far as the page has heard
  accepted,      \* the sockets whose listener is on the store
  pipe,          \* views sent on each socket and not read
  view,          \* the view shown; 0 is none
  liveRef,       \* live, and liveRef.current
  poll,          \* whether the poll interval is set
  fetches,       \* answers to polls that are under way
  retries,       \* retry timers that are running
  socketRef,     \* the last socket made, unless one has failed since
  closed         \* the page is unmounted

hookVars == <<sock, view, liveRef, poll, fetches, retries, socketRef, closed>>
feedVars == <<version, accepted, pipe, hookVars>>

PageSocketStates == {"none", "connecting", "open"}

FeedInit ==
  /\ version = 1
  /\ \E s \in PageSockets :
       /\ sock = [z \in PageSockets |-> IF z = s THEN "connecting" ELSE "none"]
       /\ socketRef = s
  /\ accepted = {}
  /\ pipe = [s \in PageSockets |-> <<>>]
  /\ view = 0
  /\ liveRef = FALSE
  /\ poll = TRUE
  /\ fetches = {1}
  /\ retries = 0
  /\ closed = FALSE

-----------------------------------------------------------------------------
(* Faulty variants, used to check that the properties notice them.         *)
(* StopsAtConnect: polling stops when a socket is made, and not when open. *)
StopsAtConnect == FALSE

(* AlwaysMounted: the handlers do not ask whether the page is unmounted.   *)
AlwaysMounted == TRUE

(* NothingFirst: the server waits for the next update.                     *)
NothingFirst == <<>>

-----------------------------------------------------------------------------
Mounted == ~closed

(* The store emits an update: every listener sends it. *)
StoreUpdates ==
  /\ version < MaxVersion
  /\ version' = version + 1
  /\ pipe' = [s \in PageSockets |->
                IF s \in accepted THEN Append(pipe[s], version + 1) ELSE pipe[s]]
  /\ UNCHANGED <<accepted, hookVars>>

(* What the server sends a page that connects. *)
Snapshot == <<version>>

(* GET /api/ws *)
Accept(s) ==
  /\ sock[s] = "connecting" /\ s \notin accepted
  /\ accepted' = accepted \union {s}
  /\ pipe' = [pipe EXCEPT ![s] = Snapshot]
  /\ UNCHANGED <<version, hookVars>>

(* 'open': push is live, and polling stops. *)
GoesLive(s) ==
  /\ sock[s] = "connecting" /\ s \in accepted
  /\ sock' = [sock EXCEPT ![s] = "open"]
  /\ liveRef' = TRUE
  /\ poll' = FALSE
  /\ UNCHANGED <<version, accepted, pipe, view, fetches, retries, socketRef, closed>>

(* 'message' *)
Message(s) ==
  /\ sock[s] = "open" /\ pipe[s] # <<>>
  /\ view' = Head(pipe[s])
  /\ pipe' = [pipe EXCEPT ![s] = Tail(@)]
  /\ UNCHANGED <<version, accepted, sock, liveRef, poll, fetches, retries, socketRef, closed>>

(* 'close', or 'error' and 'close': fallBack runs n times.  The server     *)
(* hears of it, too, and takes its listener off the store.                 *)
FallsBack(s, n) ==
  /\ retries + n <= MaxRetries
  /\ sock' = [sock EXCEPT ![s] = "none"]
  /\ pipe' = [pipe EXCEPT ![s] = <<>>]
  /\ accepted' = accepted \ {s}
  /\ liveRef' = FALSE
  /\ socketRef' = NoPageSocket
  /\ IF Mounted
     THEN /\ poll' = TRUE
          /\ fetches' = IF poll THEN fetches ELSE fetches \union {version}
          /\ retries' = retries + n
     ELSE UNCHANGED <<poll, fetches, retries>>
  /\ UNCHANGED <<version, view, closed>>

Closes(s) == sock[s] = "open" /\ FallsBack(s, 1)

Breaks(s) == sock[s] # "none" /\ FallsBack(s, 2)

(* Polling goes on while a socket is being opened. *)
KeepsPolling == poll

(* A retry timer fires: connect.  If no socket can be made, that was the   *)
(* last try.                                                               *)
Retry ==
  /\ retries > 0
  /\ retries' = retries - 1
  /\ \/ closed /\ UNCHANGED <<sock, socketRef, poll>>
     \/ /\ Mounted
        /\ poll' = KeepsPolling
        /\ \E s \in PageSockets :
             /\ sock[s] = "none"
             /\ sock' = [sock EXCEPT ![s] = "connecting"]
             /\ socketRef' = s
     \/ /\ Mounted
        /\ poll' = TRUE
        /\ UNCHANGED <<sock, socketRef>>
  /\ UNCHANGED <<version, accepted, pipe, view, liveRef, fetches, closed>>

(* refresh: a poll goes out, and its answer comes back at any later time;  *)
(* while push is live it is dropped.                                       *)
Poll ==
  /\ poll
  /\ fetches' = fetches \union {version}
  /\ UNCHANGED <<version, accepted, pipe, sock, view, liveRef, poll, retries, socketRef, closed>>

Fetched(v) ==
  /\ v \in fetches
  /\ fetches' = fetches \ {v}
  /\ view' = IF liveRef THEN view ELSE v
  /\ UNCHANGED <<version, accepted, pipe, sock, liveRef, poll, retries, socketRef, closed>>

FetchFails(v) ==
  /\ v \in fetches
  /\ fetches' = fetches \ {v}
  /\ UNCHANGED <<version, accepted, pipe, sock, view, liveRef, poll, retries, socketRef, closed>>

(* The effect's cleanup: only the last retry timer and the last socket are *)
(* known to it.                                                            *)
Unmount ==
  /\ ~closed
  /\ closed' = TRUE
  /\ poll' = FALSE
  /\ retries' = IF retries > 0 THEN retries - 1 ELSE 0
  /\ sock' = [s \in PageSockets |-> IF s = socketRef THEN "none" ELSE sock[s]]
  /\ accepted' = accepted \ {socketRef}
  /\ pipe' = [s \in PageSockets |-> IF s = socketRef THEN <<>> ELSE pipe[s]]
  /\ liveRef' = IF socketRef = NoPageSocket THEN liveRef ELSE FALSE
  /\ socketRef' = NoPageSocket
  /\ UNCHANGED <<version, view, fetches>>

FeedNext ==
  \/ StoreUpdates \/ Retry \/ Poll \/ Unmount
  \/ \E s \in PageSockets :
       Accept(s) \/ GoesLive(s) \/ Message(s) \/ Closes(s) \/ Breaks(s)
  \/ \E v \in fetches : Fetched(v) \/ FetchFails(v)

FeedSpec == FeedInit /\ [][FeedNext]_feedVars

(* The interval fires, some poll is answered while it counts, and what is  *)
(* on an open socket is read, unless it fails for ever before.             *)
FeedFairness ==
  /\ WF_feedVars(Poll)
  /\ \A v \in 1..MaxVersion : SF_feedVars(Fetched(v) /\ ~liveRef)
  /\ \A s \in PageSockets : SF_feedVars(Message(s))

FeedFairSpec == FeedSpec /\ FeedFairness

-----------------------------------------------------------------------------
(* Type correctness. *)
FeedTypeOK ==
  /\ version \in 1..MaxVersion /\ view \in 0..MaxVersion
  /\ sock \in [PageSockets -> PageSocketStates]
  /\ accepted \subseteq PageSockets
  /\ pipe \in [PageSockets -> Seq(1..MaxVersion)]
  /\ liveRef \in BOOLEAN /\ poll \in BOOLEAN /\ closed \in BOOLEAN
  /\ fetches \subseteq 1..MaxVersion
  /\ retries \in 0..MaxRetries
  /\ socketRef \in PageSockets \union {NoPageSocket}

(* A page is never left without a source of views: a socket is open, or it *)
(* polls, however its sockets fail, close and open beside each other.      *)
AlwaysFed == closed \/ poll \/ \E s \in PageSockets : sock[s] = "open"

(* After the unmount nothing begins: no poll, and no socket, whatever      *)
(* timers and events still come.                                           *)
QuietAfterUnmount ==
  [][closed =>
       /\ ~poll'
       /\ \A s \in PageSockets : sock'[s] = "connecting" => sock[s] = "connecting"]_feedVars

(* In the end a page shows the store's view, and nothing that is late puts *)
(* an older one in its place for good.                                     *)
CatchesUp == <>[](closed \/ view = version)

=============================================================================

----------------------------- MODULE CameraProxy -----------------------------
(***************************************************************************)
(* packages/camera/src/proxy.ts: one upstream video connection shared by   *)
(* every viewer.  The first viewer opens it, the last to leave closes it,  *)
(* and it may fail to open, die, or stall at any time.                     *)
(*                                                                         *)
(* A viewer is one PassThrough, used once.  Its phase is what has become   *)
(* of it and of the request it was made for; that it is counted by the     *)
(* proxy is a separate matter (viewers).                                   *)
(***************************************************************************)
EXTENDS Naturals, FiniteSets

CONSTANTS
  Viewers,      \* the viewers that may come
  MaxOpens      \* bound: how many upstreams are opened

ASSUME MaxOpensAssumption == MaxOpens \in Nat

Handles == 1..MaxOpens
NoHandle == 0

VARIABLES
  phase,      \* what has become of each viewer
  viewers,    \* CameraProxy.viewers
  upstream,   \* CameraProxy.upstream
  opening,    \* CameraProxy.opening: what it is waiting for
  opens,      \* upstreams opened so far
  live,       \* upstream connections that are established
  aborted,    \* handles aborted whose stream has not ended yet
  owed,       \* onActive calls not yet matched by onIdle
  failures    \* history variable: openings that failed

proxyVars == <<phase, viewers, upstream, opening, opens, live, aborted, owed, failures>>

(* "leaving": the client went away while addViewer was still waiting.      *)
(* "ended": the stream is ended or destroyed, its 'close' still to come.   *)
(* "refused": addViewer was rejected; nobody ends its stream.              *)
Phases == {"new", "waiting", "leaving", "watching", "ended", "refused", "gone"}

ProxyInit ==
  /\ phase = [v \in Viewers |-> "new"]
  /\ viewers = {}
  /\ upstream = NoHandle
  /\ opening = "no"
  /\ opens = 0
  /\ live = {}
  /\ aborted = {}
  /\ owed = 0
  /\ failures = 0

Waiting == {v \in Viewers : phase[v] \in {"waiting", "leaving"}}

-----------------------------------------------------------------------------
(* Faulty variants, used to check that the properties notice them.         *)
(* MustOpenEach: every viewer without an upstream starts an opening.       *)
MustOpenEach == upstream = NoHandle

(* EndsCurrent: a late end of an aborted stream is taken for the current's.*)
EndsCurrent(h) == upstream # NoHandle

(* LastLeaves: the last viewer to leave does not close the upstream.       *)
LastLeaves(v) == FALSE

(* LastLeavesAlways: every viewer that leaves closes it.                   *)
LastLeavesAlways(v) == TRUE

-----------------------------------------------------------------------------
(* ensureUpstream opens only when nothing is open or being opened. *)
MustOpen == upstream = NoHandle /\ opening = "no"

AddViewer(v) ==
  /\ phase[v] = "new"
  /\ viewers' = viewers \union {v}
  /\ phase' = [phase EXCEPT ![v] = IF upstream = NoHandle THEN "waiting" ELSE "watching"]
  /\ IF MustOpen
     THEN opening' = "onActive" /\ owed' = owed + 1
     ELSE UNCHANGED <<opening, owed>>
  /\ UNCHANGED <<upstream, opens, live, aborted, failures>>

(* onActive has resolved; openUpstream is called. *)
Activated ==
  /\ opening = "onActive"
  /\ opening' = "openUpstream"
  /\ UNCHANGED <<phase, viewers, upstream, opens, live, aborted, owed, failures>>

(* The waiting requests go on; one whose client has left meanwhile ends    *)
(* its viewer at once.                                                     *)
Opened ==
  /\ opening = "openUpstream"
  /\ opens < MaxOpens
  /\ opens' = opens + 1
  /\ upstream' = opens + 1
  /\ live' = live \union {opens + 1}
  /\ opening' = "no"
  /\ phase' = [v \in Viewers |->
       CASE phase[v] = "waiting" -> "watching"
         [] phase[v] = "leaving" -> "ended"
         [] OTHER -> phase[v]]
  /\ UNCHANGED <<viewers, aborted, owed, failures>>

(* The waiting addViewer calls are rejected. *)
Refused == [v \in Viewers |-> IF v \in Waiting THEN "refused" ELSE phase[v]]

(* openUpstream throws: every waiting addViewer is rejected. *)
OpenFails ==
  /\ opening = "openUpstream"
  /\ opening' = "no"
  /\ failures' = failures + 1
  /\ phase' = Refused
  /\ UNCHANGED <<viewers, upstream, opens, live, aborted, owed>>

(* The client goes away. *)
Leave(v) ==
  /\ phase[v] \in {"waiting", "watching"}
  /\ phase' = [phase EXCEPT ![v] = IF @ = "waiting" THEN "leaving" ELSE "ended"]
  /\ UNCHANGED <<viewers, upstream, opening, opens, live, aborted, owed, failures>>

LastLeft(v) == viewers \ {v} = {}

(* closeUpstream: aborts the handle, if there is one, and calls onIdle. *)
CloseUpstream ==
  IF upstream # NoHandle
  THEN /\ upstream' = NoHandle
       /\ live' = live \ {upstream}
       /\ aborted' = aborted \union {upstream}
       /\ owed' = owed - 1
  ELSE UNCHANGED <<upstream, live, aborted, owed>>

(* The viewer's 'close' event. *)
ViewerClosed(v) ==
  /\ phase[v] = "ended"
  /\ phase' = [phase EXCEPT ![v] = "gone"]
  /\ viewers' = viewers \ {v}
  /\ IF LastLeft(v) THEN CloseUpstream ELSE UNCHANGED <<upstream, live, aborted, owed>>
  /\ UNCHANGED <<opening, opens, failures>>

IsCurrent(h) == upstream = h

(* drop: the current upstream is gone; its viewers are ended and forgotten.*)
Drop ==
  /\ upstream' = NoHandle
  /\ phase' = [v \in Viewers |->
       IF v \in viewers /\ phase[v] = "watching" THEN "ended" ELSE phase[v]]
  /\ viewers' = {}
  /\ owed' = owed - 1

(* A stream ends or fails by itself, or because it was aborted before.     *)
StreamEnds(h) ==
  /\ h \in live \union aborted
  /\ live' = live \ {h}
  /\ aborted' = aborted \ {h}
  /\ IF IsCurrent(h) THEN Drop ELSE UNCHANGED <<upstream, phase, viewers, owed>>
  /\ UNCHANGED <<opening, opens, failures>>

(* The stall timer: no data for too long. *)
Stalled ==
  /\ upstream # NoHandle
  /\ live' = live \ {upstream}
  /\ aborted' = aborted \union {upstream}
  /\ Drop
  /\ UNCHANGED <<opening, opens, failures>>

ProxyNext ==
  \/ \E v \in Viewers : AddViewer(v) \/ Leave(v) \/ ViewerClosed(v)
  \/ Activated
  \/ Opened
  \/ OpenFails
  \/ \E h \in Handles : StreamEnds(h)
  \/ Stalled

ProxySpec == ProxyInit /\ [][ProxyNext]_proxyVars

(* Streams that were ended close, an opening comes to an end, and people   *)
(* stop watching sooner or later.                                          *)
ProxyFairness ==
  /\ \A v \in Viewers : WF_proxyVars(Leave(v)) /\ WF_proxyVars(ViewerClosed(v))
  /\ WF_proxyVars(Activated)
  /\ WF_proxyVars(Opened \/ OpenFails)

ProxyFairSpec == ProxySpec /\ ProxyFairness

-----------------------------------------------------------------------------
(* Type correctness. *)
ProxyTypeOK ==
  /\ phase \in [Viewers -> Phases]
  /\ viewers \subseteq Viewers
  /\ upstream \in Handles \union {NoHandle}
  /\ opening \in {"no", "onActive", "openUpstream"}
  /\ opens \in 0..MaxOpens
  /\ live \subseteq Handles
  /\ aborted \subseteq Handles
  /\ owed \in Nat
  /\ failures \in Nat

(* The printer serves one stream: the proxy never has a second connection, *)
(* nor one it has lost sight of (proxy.ts:53, MaximumVideoStreamAllowed).  *)
OneUpstream == live \subseteq {upstream} \ {NoHandle}

(* A viewer that is being served is counted, and there is an upstream to   *)
(* serve it: no page is left on a dead stream (CTHU-31).                   *)
WatchersAreServed ==
  \A v \in Viewers : phase[v] = "watching" => v \in viewers /\ upstream # NoHandle

(* A waiting viewer has an opening to wait for. *)
WaitersAreWaitedFor == Waiting # {} => opening # "no" /\ Waiting \subseteq viewers

(* Whoever came and has not gone is served, or will be told (proxy.ts:105, *)
(* 117).                                                                   *)
ViewersAreServed == WatchersAreServed /\ WaitersAreWaitedFor

(* onActive and onIdle pair up, up to the openings that failed: nothing    *)
(* else ever pays for the stream twice, or hands it back twice.            *)
PaidOncePlusFailures ==
  owed = failures + (IF upstream # NoHandle \/ opening # "no" THEN 1 ELSE 0)

(* The upstream is let go when nobody watches: what keeps it is a viewer   *)
(* that is watching or about to close - or one that was refused.           *)
KeptForAReason ==
  upstream # NoHandle => \E v \in viewers : phase[v] \in {"watching", "ended", "refused"}

(* onActive is called once for the upstream, and once more for every       *)
(* opening that failed; and the upstream has a viewer, if perhaps one that *)
(* was refused or is about to close.                                       *)
PaidForAReason == PaidOncePlusFailures /\ KeptForAReason

(* When nobody is refused, the slot is free again sooner or later.         *)
SlotIsReleased ==
  [](\A v \in Viewers : phase[v] # "refused") => <>[](upstream = NoHandle)

=============================================================================

-------------------------- MODULE VideoLease_proofs --------------------------
(***************************************************************************)
(* Proofs about CameraProxy and VideoLease, for any number of viewers,     *)
(* upstreams, tasks and updates: one upstream serves whoever watches; the  *)
(* lease counts its users and the openings that failed, the printer's      *)
(* count follows, and no release turns the stream off under a user.        *)
(***************************************************************************)
EXTENDS VideoLease, FiniteSetTheorems, TLAPS

(* Nothing is opened while something is open, and only for a request that  *)
(* waits for it.                                                           *)
OpeningForAWaiter == opening # "no" => upstream = NoHandle /\ Waiting # {}

(* The viewers counted are those that have come and not closed. *)
ViewersAreHere == \A v \in viewers : phase[v] \notin {"new", "gone"}

(* The inductive invariant. *)
ProxyIInv ==
  /\ ProxyTypeOK
  /\ OpeningForAWaiter
  /\ ViewersAreHere
  /\ OneUpstream
  /\ WatchersAreServed
  /\ WaitersAreWaitedFor
  /\ PaidOncePlusFailures
  /\ KeptForAReason

(* A handle is a number of its own, never NoHandle. *)
LEMMA HandleFacts ==
  /\ Handles \subseteq Nat
  /\ NoHandle \notin Handles
BY MaxOpensAssumption DEF Handles, NoHandle

LEMMA ProxyInitInv == ProxyInit => ProxyIInv
BY HandleFacts, MaxOpensAssumption
   DEF ProxyInit, ProxyIInv, ProxyTypeOK, OpeningForAWaiter, ViewersAreHere, OneUpstream,
       WatchersAreServed, WaitersAreWaitedFor, PaidOncePlusFailures, KeptForAReason,
       Waiting, Phases, Handles, NoHandle

(* One lemma per kind of step.  A viewer comes. *)
LEMMA AddViewerInv ==
  ASSUME ProxyIInv, NEW v \in Viewers, AddViewer(v)
  PROVE  ProxyIInv'
<1> USE DEF AddViewer, ProxyIInv
<1>1. phase' \in [Viewers -> Phases] /\ \A w \in Viewers : w # v => phase'[w] = phase[w]
  BY DEF ProxyTypeOK, Phases
<1>2. phase'[v] = IF upstream = NoHandle THEN "waiting" ELSE "watching"
  BY DEF ProxyTypeOK
<1>3. v \notin Waiting /\ phase[v] = "new"
  BY DEF Waiting
<1>4. Waiting' = IF upstream = NoHandle THEN Waiting \union {v} ELSE Waiting
  BY <1>1, <1>2, <1>3 DEF Waiting
<1>5. ProxyTypeOK'
  BY <1>1, HandleFacts DEF ProxyTypeOK, MustOpen
<1>6. OpeningForAWaiter' /\ WaitersAreWaitedFor'
  BY <1>4 DEF OpeningForAWaiter, WaitersAreWaitedFor, MustOpen
<1>7. ViewersAreHere'
  BY <1>1, <1>2 DEF ViewersAreHere, ProxyTypeOK
<1>8. OneUpstream' /\ PaidOncePlusFailures'
  BY DEF OneUpstream, PaidOncePlusFailures, ProxyTypeOK, MustOpen
<1>9. WatchersAreServed' /\ KeptForAReason'
  BY <1>1, <1>2, <1>3 DEF WatchersAreServed, KeptForAReason, ProxyTypeOK
<1> QED BY <1>5, <1>6, <1>7, <1>8, <1>9

(* A client goes away. *)
LEMMA LeaveInv ==
  ASSUME ProxyIInv, NEW v \in Viewers, Leave(v)
  PROVE  ProxyIInv'
<1> USE DEF Leave, ProxyIInv
<1>1. phase' \in [Viewers -> Phases] /\ \A w \in Viewers : w # v => phase'[w] = phase[w]
  BY DEF ProxyTypeOK, Phases
<1>2. phase'[v] = IF phase[v] = "waiting" THEN "leaving" ELSE "ended"
  BY DEF ProxyTypeOK
<1>3. Waiting' = Waiting
  BY <1>1, <1>2 DEF Waiting
<1>4. ProxyTypeOK'
  BY <1>1 DEF ProxyTypeOK
<1>5. OpeningForAWaiter' /\ WaitersAreWaitedFor' /\ OneUpstream' /\ PaidOncePlusFailures'
  BY <1>3 DEF OpeningForAWaiter, WaitersAreWaitedFor, OneUpstream, PaidOncePlusFailures
<1>6. ViewersAreHere'
  BY <1>1, <1>2 DEF ViewersAreHere, ProxyTypeOK
<1>7. WatchersAreServed'
  BY <1>1, <1>2 DEF WatchersAreServed
<1>8. KeptForAReason'
  BY <1>1, <1>2 DEF KeptForAReason, ProxyTypeOK, WaitersAreWaitedFor, OpeningForAWaiter, Waiting
<1> QED BY <1>4, <1>5, <1>6, <1>7, <1>8

(* The opening goes on, succeeds, or fails. *)
LEMMA ActivatedInv ==
  ASSUME ProxyIInv, Activated
  PROVE  ProxyIInv'
BY DEF Activated, ProxyIInv, ProxyTypeOK, OpeningForAWaiter, ViewersAreHere, OneUpstream,
       WatchersAreServed, WaitersAreWaitedFor, PaidOncePlusFailures, KeptForAReason, Waiting

LEMMA OpenedInv ==
  ASSUME ProxyIInv, Opened
  PROVE  ProxyIInv'
<1> USE DEF Opened, ProxyIInv
<1>1. opens + 1 \in Handles /\ upstream' # NoHandle /\ upstream = NoHandle
  BY MaxOpensAssumption DEF ProxyTypeOK, Handles, NoHandle, OpeningForAWaiter
<1>2. /\ phase' \in [Viewers -> Phases]
      /\ \A v \in Viewers : phase'[v] = IF phase[v] = "waiting" THEN "watching"
                                        ELSE IF phase[v] = "leaving" THEN "ended"
                                        ELSE phase[v]
  BY DEF ProxyTypeOK, Phases
<1>3. Waiting' = {} /\ Waiting # {} /\ Waiting \subseteq viewers
  BY <1>2 DEF Waiting, OpeningForAWaiter, WaitersAreWaitedFor
<1>4. ProxyTypeOK'
  BY <1>1, <1>2, MaxOpensAssumption DEF ProxyTypeOK, Handles
<1>5. OpeningForAWaiter' /\ WaitersAreWaitedFor'
  BY <1>3 DEF OpeningForAWaiter, WaitersAreWaitedFor
<1>6. ViewersAreHere'
  BY <1>2 DEF ViewersAreHere, ProxyTypeOK
<1>7. OneUpstream' /\ PaidOncePlusFailures'
  BY <1>1 DEF OneUpstream, PaidOncePlusFailures, ProxyTypeOK
<1>8. WatchersAreServed'
  BY <1>1, <1>2, <1>3 DEF WatchersAreServed, Waiting
<1>9. KeptForAReason'
  BY <1>2, <1>3 DEF KeptForAReason, Waiting
<1> QED BY <1>4, <1>5, <1>6, <1>7, <1>8, <1>9

LEMMA OpenFailsInv ==
  ASSUME ProxyIInv, OpenFails
  PROVE  ProxyIInv'
<1> USE DEF OpenFails, ProxyIInv, Refused
<1>1. /\ phase' \in [Viewers -> Phases]
      /\ \A v \in Viewers : phase'[v] = IF v \in Waiting THEN "refused" ELSE phase[v]
  BY DEF ProxyTypeOK, Phases
<1>2. Waiting' = {} /\ upstream = NoHandle
  BY <1>1 DEF Waiting, OpeningForAWaiter
<1>3. ProxyTypeOK'
  BY <1>1 DEF ProxyTypeOK
<1>4. OpeningForAWaiter' /\ WaitersAreWaitedFor' /\ KeptForAReason' /\ OneUpstream'
  BY <1>2 DEF OpeningForAWaiter, WaitersAreWaitedFor, KeptForAReason, OneUpstream
<1>5. ViewersAreHere' /\ WatchersAreServed'
  BY <1>1 DEF ViewersAreHere, WatchersAreServed, ProxyTypeOK
<1>6. PaidOncePlusFailures'
  BY <1>2 DEF PaidOncePlusFailures, ProxyTypeOK
<1> QED BY <1>3, <1>4, <1>5, <1>6

(* The upstream is current, so nobody waits and something is owed. *)
LEMMA CurrentFacts ==
  ASSUME ProxyIInv, upstream # NoHandle
  PROVE  /\ opening = "no"
         /\ Waiting = {}
         /\ owed = failures + 1
         /\ owed - 1 \in Nat
BY DEF ProxyIInv, OpeningForAWaiter, WaitersAreWaitedFor, PaidOncePlusFailures, ProxyTypeOK

(* The upstream is dropped with all its viewers: stalled, or ended. *)
LEMMA DropInv ==
  ASSUME ProxyIInv, upstream # NoHandle, Drop,
         live' \subseteq live \ {upstream}, aborted' \in SUBSET Handles,
         UNCHANGED <<opening, opens, failures>>
  PROVE  ProxyIInv'
<1> USE DEF Drop, ProxyIInv
<1>1. /\ phase' \in [Viewers -> Phases]
      /\ \A v \in Viewers : phase'[v] = IF v \in viewers /\ phase[v] = "watching" THEN "ended"
                                        ELSE phase[v]
  BY DEF ProxyTypeOK, Phases
<1>2. Waiting' = {}
  BY <1>1, CurrentFacts DEF Waiting
<1>3. ProxyTypeOK'
  BY <1>1, CurrentFacts DEF ProxyTypeOK
<1>4. OpeningForAWaiter' /\ WaitersAreWaitedFor' /\ ViewersAreHere' /\ KeptForAReason'
  BY <1>2, CurrentFacts
     DEF OpeningForAWaiter, WaitersAreWaitedFor, ViewersAreHere, KeptForAReason
<1>5. OneUpstream'
  BY DEF OneUpstream
<1>6. WatchersAreServed'
  BY <1>1 DEF WatchersAreServed
<1>7. PaidOncePlusFailures'
  BY CurrentFacts DEF PaidOncePlusFailures, ProxyTypeOK
<1> QED BY <1>3, <1>4, <1>5, <1>6, <1>7

LEMMA StalledInv ==
  ASSUME ProxyIInv, Stalled
  PROVE  ProxyIInv'
<1>1. upstream # NoHandle /\ Drop /\ live' \subseteq live \ {upstream}
  BY DEF Stalled
<1>2. aborted' \in SUBSET Handles
  BY <1>1 DEF Stalled, ProxyIInv, ProxyTypeOK
<1>3. UNCHANGED <<opening, opens, failures>>
  BY DEF Stalled
<1> QED BY <1>1, <1>2, <1>3, DropInv

(* A stream ends: the current one, or one that was aborted before. *)
LEMMA StreamEndsInv ==
  ASSUME ProxyIInv, NEW h \in Handles, StreamEnds(h)
  PROVE  ProxyIInv'
<1>1. CASE upstream = h
  <2>1. upstream # NoHandle /\ Drop /\ live' \subseteq live \ {upstream}
    BY <1>1, HandleFacts DEF StreamEnds, IsCurrent
  <2>2. aborted' \in SUBSET Handles /\ UNCHANGED <<opening, opens, failures>>
    BY DEF StreamEnds, ProxyIInv, ProxyTypeOK
  <2> QED BY <2>1, <2>2, DropInv
<1>2. CASE upstream # h
  BY <1>2 DEF StreamEnds, IsCurrent, ProxyIInv, ProxyTypeOK, OpeningForAWaiter, ViewersAreHere,
       OneUpstream, WatchersAreServed, WaitersAreWaitedFor, PaidOncePlusFailures,
       KeptForAReason, Waiting
<1> QED BY <1>1, <1>2

(* A viewer closes; the last one closes the upstream. *)
LEMMA ViewerClosedInv ==
  ASSUME ProxyIInv, NEW v \in Viewers, ViewerClosed(v)
  PROVE  ProxyIInv'
<1> USE DEF ViewerClosed, ProxyIInv
<1>1. phase' \in [Viewers -> Phases] /\ \A w \in Viewers : w # v => phase'[w] = phase[w]
  BY DEF ProxyTypeOK, Phases
<1>2. phase[v] = "ended" /\ phase'[v] = "gone"
  BY DEF ProxyTypeOK
<1>3. Waiting' = Waiting /\ v \notin Waiting
  BY <1>1, <1>2 DEF Waiting
<1>4. ViewersAreHere'
  BY <1>1 DEF ViewersAreHere, ProxyTypeOK
<1>5. CASE LastLeft(v) /\ upstream # NoHandle
  <2> USE DEF CloseUpstream
  <2>1. viewers' = {} /\ upstream' = NoHandle /\ Waiting' = {} /\ opening' = "no"
    BY <1>3, <1>5, CurrentFacts DEF LastLeft
  <2>2. live' = live \ {upstream} /\ aborted' = aborted \union {upstream} /\ owed' = owed - 1
    BY <1>5
  <2>3. ProxyTypeOK'
    BY <1>1, <2>1, <2>2, <1>5, CurrentFacts DEF ProxyTypeOK
  <2>4. OpeningForAWaiter' /\ WaitersAreWaitedFor' /\ KeptForAReason' /\ OneUpstream'
    BY <2>1, <2>2 DEF OpeningForAWaiter, WaitersAreWaitedFor, KeptForAReason, OneUpstream
  <2>5. WatchersAreServed'
    BY <1>1, <1>2, <1>5 DEF WatchersAreServed, LastLeft
  <2>6. PaidOncePlusFailures'
    BY <2>1, <2>2, <1>5, CurrentFacts DEF PaidOncePlusFailures, ProxyTypeOK
  <2> QED BY <1>4, <2>3, <2>4, <2>5, <2>6
<1>6. CASE ~(LastLeft(v) /\ upstream # NoHandle)
  <2>1. UNCHANGED <<upstream, live, aborted, owed, opening, opens, failures>>
    BY <1>6 DEF CloseUpstream
  <2>2. ProxyTypeOK'
    BY <1>1, <2>1 DEF ProxyTypeOK
  <2>3. OpeningForAWaiter' /\ WaitersAreWaitedFor' /\ OneUpstream' /\ PaidOncePlusFailures'
    BY <1>3, <2>1
       DEF OpeningForAWaiter, WaitersAreWaitedFor, OneUpstream, PaidOncePlusFailures
  <2>4. WatchersAreServed'
    BY <1>1, <1>2, <2>1 DEF WatchersAreServed
  <2>5. KeptForAReason'
    <3> SUFFICES ASSUME upstream # NoHandle
                 PROVE  \E w \in viewers' : phase'[w] \in {"watching", "ended", "refused"}
      BY <2>1 DEF KeptForAReason
    <3>1. PICK w \in viewers \ {v} : TRUE
      BY <1>6 DEF LastLeft
    <3>2. phase[w] \in {"watching", "ended", "refused"} /\ w \in Viewers
      BY <3>1, CurrentFacts DEF ViewersAreHere, ProxyTypeOK, Phases, Waiting
    <3> QED BY <3>1, <3>2, <1>1
  <2> QED BY <1>4, <2>2, <2>3, <2>4, <2>5
<1> QED BY <1>5, <1>6

(* Every step of the proxy keeps the invariant. *)
LEMMA ProxyStepInv == ProxyIInv /\ [ProxyNext]_proxyVars => ProxyIInv'
<1> SUFFICES ASSUME ProxyIInv, [ProxyNext]_proxyVars
             PROVE  ProxyIInv'
  OBVIOUS
<1>1. CASE UNCHANGED proxyVars
  BY <1>1 DEF proxyVars, ProxyIInv, ProxyTypeOK, OpeningForAWaiter, ViewersAreHere, OneUpstream,
       WatchersAreServed, WaitersAreWaitedFor, PaidOncePlusFailures, KeptForAReason, Waiting
<1>2. CASE \E v \in Viewers : AddViewer(v) \/ Leave(v) \/ ViewerClosed(v)
  BY <1>2, AddViewerInv, LeaveInv, ViewerClosedInv
<1>3. CASE Activated \/ Opened \/ OpenFails
  BY <1>3, ActivatedInv, OpenedInv, OpenFailsInv
<1>4. CASE \E h \in Handles : StreamEnds(h)
  BY <1>4, StreamEndsInv
<1>5. CASE Stalled
  BY <1>5, StalledInv
<1> QED BY <1>1, <1>2, <1>3, <1>4, <1>5 DEF ProxyNext

LEMMA ProxyInvariant == ProxySpec => []ProxyIInv
BY ProxyInitInv, ProxyStepInv, PTL DEF ProxySpec

(* CameraProxy's variables have their types. *)
THEOREM ProxyTypeCorrect == ProxySpec => []ProxyTypeOK
<1>1. ProxyIInv => ProxyTypeOK
  BY DEF ProxyIInv
<1> QED BY <1>1, ProxyInvariant, PTL

(* However many viewers arrive while it is being opened, and however late  *)
(* an aborted stream ends, there is one upstream connection at a time.     *)
THEOREM OneUpstreamAtATime == ProxySpec => []OneUpstream
<1>1. ProxyIInv => OneUpstream
  BY DEF ProxyIInv
<1> QED BY <1>1, ProxyInvariant, PTL

(* Nobody is left watching a dead upstream, or waiting for no opening. *)
THEOREM EveryViewerIsServed == ProxySpec => []ViewersAreServed
<1>1. ProxyIInv => ViewersAreServed
  BY DEF ProxyIInv, ViewersAreServed
<1> QED BY <1>1, ProxyInvariant, PTL

(* onActive and onIdle pair up, but for the openings that failed; and an   *)
(* upstream is kept for a viewer only, if perhaps for a refused one.       *)
THEOREM PaidForViewers == ProxySpec => []PaidForAReason
<1>1. ProxyIInv => PaidForAReason
  BY DEF ProxyIInv, PaidForAReason
<1> QED BY <1>1, ProxyInvariant, PTL

-----------------------------------------------------------------------------
(* The lease. *)

(* The requests in flight are finitely many, all sent by past updates.     *)
PostsInv == IsFiniteSet(posts) /\ \A p \in posts : p.n <= updates

(* The lease against what the proxy owes, and the printer's count against  *)
(* the lease.                                                              *)
HoldersPaidFor == holders = owed + Cardinality(Recordings) + Cardinality(Finishes)

CountFollows == unpaired = {} => enables = IF holders > 0 THEN 1 ELSE 0

(* A viewer is refused by an opening that fails, and by nothing else. *)
RefusedByAFailure == (\E v \in Viewers : phase[v] = "refused") => failures > 0

LeaseIInv ==
  /\ ProxyIInv
  /\ LeaseTypeOK
  /\ PostsInv
  /\ RefusedByAFailure
  /\ HoldersPaidFor
  /\ CountFollows

-----------------------------------------------------------------------------
LEMMA RecordingsCount ==
  ASSUME RecorderTypeOK
  PROVE  Cardinality(Recordings) = IF current = NoTask THEN 0 ELSE 1
<1>1. Recordings = IF current = NoTask THEN {} ELSE {current}
  BY NoTaskAssumption DEF Recordings, RecorderTypeOK
<1> QED BY <1>1, FS_EmptySet, FS_Singleton

LEMMA FinishesFinite ==
  ASSUME IsFiniteSet(posts)
  PROVE  IsFiniteSet(Finishes) /\ Cardinality(Finishes) \in Nat
BY FS_Subset, FS_CardinalityType DEF Finishes

LEMMA RefusedStep ==
  ASSUME ProxyTypeOK, RefusedByAFailure, [ProxyNext]_proxyVars
  PROVE  RefusedByAFailure'
<1>0. phase \in [Viewers -> Phases] /\ failures \in Nat
  BY DEF ProxyTypeOK
<1>1. CASE OpenFails
  BY <1>0, <1>1 DEF OpenFails, RefusedByAFailure
<1>2. ASSUME failures' = failures, \A v \in Viewers : phase'[v] = "refused" => phase[v] = "refused"
      PROVE  RefusedByAFailure'
  BY <1>2 DEF RefusedByAFailure
<1>3. CASE \E v \in Viewers : AddViewer(v) \/ Leave(v) \/ ViewerClosed(v)
  BY <1>0, <1>2, <1>3 DEF AddViewer, Leave, ViewerClosed
<1>4. CASE Activated \/ Opened
  BY <1>0, <1>2, <1>4 DEF Activated, Opened
<1>5. CASE (\E h \in Handles : StreamEnds(h)) \/ Stalled
  BY <1>0, <1>2, <1>5 DEF StreamEnds, Stalled, Drop
<1>6. CASE UNCHANGED proxyVars
  BY <1>2, <1>6 DEF proxyVars
<1> QED BY <1>1, <1>3, <1>4, <1>5, <1>6 DEF ProxyNext

LEMMA LeaseInitInv == LeaseInit => LeaseIInv
<1> SUFFICES ASSUME LeaseInit PROVE LeaseIInv
  OBVIOUS
<1>1. ProxyIInv
  BY ProxyInitInv DEF LeaseInit
<1>2. LeaseTypeOK
  BY <1>1, MaxUpdatesAssumption, MaxStreamsAssumption
  DEF LeaseInit, RecorderInit, LeaseTypeOK, RecorderTypeOK, ProxyIInv, Causes
<1>3. PostsInv /\ Finishes = {}
  BY FS_EmptySet DEF LeaseInit, RecorderInit, PostsInv, Finishes
<1>4. HoldersPaidFor
  BY <1>2, <1>3, RecordingsCount, FS_EmptySet
  DEF LeaseInit, RecorderInit, ProxyInit, LeaseTypeOK, HoldersPaidFor
<1>5. RefusedByAFailure
  BY DEF LeaseInit, ProxyInit, RefusedByAFailure
<1> QED BY <1>1, <1>2, <1>3, <1>4, <1>5 DEF LeaseIInv, LeaseInit, CountFollows

-----------------------------------------------------------------------------
(* What a command does to the printer's count. *)
LEMMA EnableFacts ==
  ASSUME LeaseIInv, SetStream(TRUE)
  PROVE  /\ enables' \in 0..MaxStreams /\ unpaired' \subseteq Causes
         /\ enables' >= enables
         /\ unpaired' = {} => unpaired = {} /\ (enables = 0 => enables' = 1)
<1>1. enables \in 0..MaxStreams /\ unpaired \subseteq Causes
  BY DEF LeaseIInv, LeaseTypeOK
<1>2. CASE linkUp
  <2>1. enables' = (IF enables < MaxStreams THEN enables + 1 ELSE enables) /\ unpaired' = unpaired
    BY <1>2 DEF SetStream, OneMore
  <2> QED BY <1>1, <2>1, MaxStreamsAssumption
<1>3. CASE ~linkUp
  <2>1. enables' = enables /\ unpaired' = unpaired \union {"link"}
    BY <1>3 DEF SetStream
  <2> QED BY <1>1, <2>1, MaxStreamsAssumption DEF Causes
<1> QED BY <1>2, <1>3

LEMMA DisableFacts ==
  ASSUME LeaseIInv, SetStream(FALSE)
  PROVE  /\ enables' \in 0..MaxStreams /\ unpaired' \subseteq Causes
         /\ unpaired' = {} => unpaired = {} /\ (enables = 1 => enables' = 0)
<1>1. enables \in 0..MaxStreams /\ unpaired \subseteq Causes
  BY DEF LeaseIInv, LeaseTypeOK
<1>2. CASE linkUp
  <2>1. enables' = (IF enables > 0 THEN enables - 1 ELSE 0) /\ unpaired' = unpaired
    BY <1>2 DEF SetStream
  <2> QED BY <1>1, <2>1, MaxStreamsAssumption
<1>3. CASE ~linkUp
  <2>1. enables' = enables /\ unpaired' = unpaired \union {"link"}
    BY <1>3 DEF SetStream
  <2> QED BY <1>1, <2>1, MaxStreamsAssumption DEF Causes
<1> QED BY <1>2, <1>3

(* Taking the lease and letting it go, with a user more and a user fewer.  *)
LEMMA AcquireFacts ==
  ASSUME LeaseIInv, Acquire
  PROVE  /\ holders' = holders + 1 /\ holders' \in Nat
         /\ enables' \in 0..MaxStreams /\ unpaired' \subseteq Causes
         /\ CountFollows'
<1>1. holders \in Nat /\ enables \in 0..MaxStreams /\ unpaired \subseteq Causes /\ CountFollows
  BY DEF LeaseIInv, LeaseTypeOK
<1>2. holders' = holders + 1
  BY DEF Acquire
<1>3. CASE holders = 0
  <2>1. SetStream(TRUE)
    BY <1>3 DEF Acquire, FirstHolder
  <2>2. /\ enables' \in 0..MaxStreams /\ unpaired' \subseteq Causes
        /\ unpaired' = {} => unpaired = {} /\ (enables = 0 => enables' = 1)
    BY <2>1, EnableFacts
  <2> QED BY <1>1, <1>2, <1>3, <2>2 DEF CountFollows
<1>4. CASE holders # 0
  <2>1. UNCHANGED <<enables, unpaired>>
    BY <1>4 DEF Acquire, FirstHolder
  <2> QED BY <1>1, <1>2, <1>4, <2>1 DEF CountFollows
<1> QED BY <1>3, <1>4

LEMMA ReleaseFacts ==
  ASSUME LeaseIInv, Release, holders > 0
  PROVE  /\ holders' = holders - 1 /\ holders' \in Nat
         /\ enables' \in 0..MaxStreams /\ unpaired' \subseteq Causes
         /\ CountFollows'
         /\ enables' < enables => holders = 1
<1>1. holders \in Nat /\ enables \in 0..MaxStreams /\ unpaired \subseteq Causes /\ CountFollows
  BY DEF LeaseIInv, LeaseTypeOK
<1>2. holders # 0
  BY <1>1
<1>3. holders' = holders - 1
  BY <1>2 DEF Release
<1>4. CASE holders = 1
  <2>1. SetStream(FALSE)
    BY <1>2, <1>4 DEF Release, LastHolder
  <2>2. /\ enables' \in 0..MaxStreams /\ unpaired' \subseteq Causes
        /\ unpaired' = {} => unpaired = {} /\ (enables = 1 => enables' = 0)
    BY <2>1, DisableFacts
  <2> QED BY <1>1, <1>3, <1>4, <2>2 DEF CountFollows
<1>5. CASE holders # 1
  <2>1. UNCHANGED <<enables, unpaired>>
    BY <1>2, <1>5 DEF Release, LastHolder
  <2> QED BY <1>1, <1>2, <1>3, <1>5, <2>1, MaxStreamsAssumption DEF CountFollows
<1> QED BY <1>4, <1>5

(* The proxy pays for at most one stream at a step, or hands one back that *)
(* it had, and then has no upstream.                                       *)
LEMMA OwedSteps ==
  ASSUME ProxyIInv, ProxyNext
  PROVE  \/ owed' = owed
         \/ owed' = owed + 1
         \/ owed' = owed - 1 /\ owed > 0 /\ upstream' = NoHandle
<1>0. owed \in Nat
  BY DEF ProxyIInv, ProxyTypeOK
<1>1. ASSUME NEW v \in Viewers, AddViewer(v) \/ Leave(v)
      PROVE  owed' = owed \/ owed' = owed + 1
  BY <1>1 DEF AddViewer, Leave
<1>2. ASSUME NEW v \in Viewers, ViewerClosed(v)
      PROVE  owed' = owed \/ (owed' = owed - 1 /\ owed > 0 /\ upstream' = NoHandle)
  BY <1>0, <1>2, CurrentFacts DEF ViewerClosed, CloseUpstream, ProxyIInv, ProxyTypeOK
<1>3. CASE Activated \/ Opened \/ OpenFails
  BY <1>3 DEF Activated, Opened, OpenFails
<1>4. ASSUME NEW h \in Handles, StreamEnds(h)
      PROVE  owed' = owed \/ (owed' = owed - 1 /\ owed > 0 /\ upstream' = NoHandle)
  BY <1>0, <1>4, CurrentFacts, HandleFacts DEF StreamEnds, IsCurrent, Drop, ProxyIInv, ProxyTypeOK
<1>5. CASE Stalled
  BY <1>0, <1>5, CurrentFacts DEF Stalled, Drop, ProxyIInv, ProxyTypeOK
<1> QED BY <1>1, <1>2, <1>3, <1>4, <1>5 DEF ProxyNext

-----------------------------------------------------------------------------
(* A step of the proxy, with what it does to the lease. *)
LEMMA ProxyStepLease ==
  ASSUME LeaseIInv, ProxyStep
  PROVE  /\ LeaseIInv'
         /\ enables' < enables /\ holders' < holders =>
              upstream' = NoHandle /\ current' = NoTask /\ Finishes' = {}
<1>0. /\ holders \in Nat /\ enables \in 0..MaxStreams /\ owed \in Nat /\ RecorderTypeOK
      /\ PostsInv /\ HoldersPaidFor /\ ProxyIInv /\ CountFollows
  BY DEF LeaseIInv, LeaseTypeOK, ProxyTypeOK
<1>1. UNCHANGED <<current, lastStatus, updates, posts, linkUp>> /\ ProxyNext
  BY DEF ProxyStep, recorderVars
<1>2. ProxyIInv' /\ owed' \in Nat
  <2>1. ProxyIInv'
    BY <1>0, <1>1, ProxyStepInv
  <2> QED BY <2>1 DEF ProxyIInv, ProxyTypeOK
<1>3. RecorderTypeOK' /\ PostsInv' /\ Recordings' = Recordings /\ Finishes' = Finishes
  BY <1>0, <1>1 DEF RecorderTypeOK, PostsInv, Recordings, Finishes
<1>4. Cardinality(Recordings) \in Nat /\ Cardinality(Finishes) \in Nat
  BY <1>0, RecordingsCount, FinishesFinite DEF PostsInv
<1>5. /\ holders' - holders = owed' - owed /\ holders' \in Nat
      /\ enables' \in 0..MaxStreams /\ unpaired' \subseteq Causes
      /\ CountFollows'
      /\ enables' < enables /\ holders' < holders =>
           holders = 1 /\ owed > 0 /\ upstream' = NoHandle
  <2>1. CASE owed' = owed + 1
    <3>1. Acquire
      BY <2>1 DEF ProxyStep
    <3> QED BY <1>0, <2>1, <3>1, AcquireFacts
  <2>2. CASE owed' = owed - 1 /\ owed > 0 /\ upstream' = NoHandle
    <3>1. Release /\ holders > 0
      BY <1>0, <1>4, <2>2 DEF ProxyStep, HoldersPaidFor
    <3> QED BY <1>0, <2>2, <3>1, ReleaseFacts
  <2>3. CASE owed' = owed
    <3>1. UNCHANGED <<holders, enables, unpaired>>
      BY <1>0, <2>3 DEF ProxyStep
    <3> QED BY <1>0, <2>3, <3>1 DEF LeaseIInv, LeaseTypeOK, CountFollows
  <2> QED BY <1>0, <1>1, <2>1, <2>2, <2>3, OwedSteps
<1>6. LeaseTypeOK' /\ HoldersPaidFor'
  BY <1>0, <1>1, <1>2, <1>3, <1>4, <1>5
  DEF LeaseIInv, LeaseTypeOK, HoldersPaidFor, ProxyIInv
<1>7. enables' < enables /\ holders' < holders =>
        upstream' = NoHandle /\ current' = NoTask /\ Finishes' = {}
  <2> SUFFICES ASSUME enables' < enables /\ holders' < holders
               PROVE  current = NoTask /\ Finishes = {}
    BY <1>1, <1>3, <1>5
  <2>1. Cardinality(Recordings) = 0 /\ Cardinality(Finishes) = 0
    BY <1>0, <1>4, <1>5 DEF HoldersPaidFor
  <2> QED BY <1>0, <2>1, RecordingsCount, FinishesFinite, FS_EmptySet DEF PostsInv
<1>8. RefusedByAFailure'
  BY <1>0, <1>1, RefusedStep DEF LeaseIInv, ProxyIInv
<1> QED BY <1>2, <1>3, <1>5, <1>6, <1>7, <1>8 DEF LeaseIInv

-----------------------------------------------------------------------------
(* What an update of the recorder does to the requests in flight: its own  *)
(* are new ones, and one of them at most is a finish.                      *)
LEMMA UpdateFacts ==
  ASSUME RecorderTypeOK, PostsInv, NEW t \in Tasks \union {NoTask}, NEW s \in Statuses,
         Update(t, s)
  PROVE  /\ RecorderTypeOK' /\ PostsInv'
         /\ ~Ends(t, s) => Finishes' = Finishes
         /\ Ends(t, s) => Cardinality(Finishes') = Cardinality(Finishes) + 1
<1>0. updates \in Nat /\ updates' = updates + 1 /\ updates + 1 \in 1..MaxUpdates
  BY MaxUpdatesAssumption DEF RecorderTypeOK, Update
<1>1. Ends(t, s) => current \in Tasks
  BY DEF Ends, RecorderTypeOK
<1>2. LastLift(t, s) \/ TopOfLift(t, s) \/ Starts(t, s) => t \in Tasks
  BY <1>1 DEF LastLift, TopOfLift, Starts
<1>3. \A r \in Requests(t, s) :
        r \in [op : Ops, task : Tasks, n : 1..MaxUpdates] /\ r.n = updates + 1
  BY <1>0, <1>1, <1>2 DEF Requests, Post, Ops
<1>4. posts' = posts \union Requests(t, s) /\ IsFiniteSet(posts)
  BY DEF Update, PostsInv
<1>5. RecorderTypeOK'
  <2>1. current' \in Tasks \union {NoTask}
    BY DEF Update, AfterUpdate, RecorderTypeOK
  <2>2. posts' \subseteq [op : Ops, task : Tasks, n : 1..MaxUpdates]
    BY <1>3, <1>4 DEF RecorderTypeOK
  <2> QED BY <1>0, <2>1, <2>2 DEF RecorderTypeOK, Update
<1>6. PostsInv'
  <2>1. IsFiniteSet(Requests(t, s))
    BY FS_EmptySet, FS_Singleton, FS_Union DEF Requests
  <2>2. IsFiniteSet(posts')
    BY <1>4, <2>1, FS_Union
  <2>3. ASSUME NEW p \in posts'
        PROVE  p.n <= updates'
    <3>1. CASE p \in posts
      BY <1>0, <3>1 DEF PostsInv, RecorderTypeOK
    <3>2. CASE p \in Requests(t, s)
      BY <1>0, <1>3, <3>2
    <3> QED BY <1>4, <3>1, <3>2
  <2> QED BY <2>2, <2>3 DEF PostsInv
<1>7. ASSUME ~Ends(t, s)
      PROVE  Finishes' = Finishes
  <2>1. \A r \in Requests(t, s) : r.op # "finish"
    BY <1>7 DEF Requests, Post
  <2> QED BY <1>4, <2>1 DEF Finishes
<1>8. ASSUME Ends(t, s)
      PROVE  Cardinality(Finishes') = Cardinality(Finishes) + 1
  <2>1. \A r : (r \in Requests(t, s) /\ r.op = "finish") <=> r = Post("finish", current)
    BY <1>8 DEF Requests, Post
  <2>2. Finishes' = Finishes \union {Post("finish", current)}
    BY <1>4, <2>1 DEF Finishes
  <2>3. Post("finish", current) \notin Finishes
    BY <1>0 DEF Finishes, Post, PostsInv
  <2> QED BY <1>4, <2>2, <2>3, FinishesFinite, FS_AddElement
<1> QED BY <1>5, <1>6, <1>7, <1>8

(* The user of the lease is the print being recorded: it begins by taking  *)
(* it, and its finish request holds it on.                                 *)
LEMMA UpdateLease ==
  ASSUME LeaseIInv, NEW t \in Tasks \union {NoTask}, NEW s \in Statuses,
         RecorderUpdates(t, s)
  PROVE  LeaseIInv' /\ ~(holders' < holders)
<1>0. /\ holders \in Nat /\ enables \in 0..MaxStreams /\ owed \in Nat /\ RecorderTypeOK
      /\ PostsInv /\ HoldersPaidFor /\ ProxyIInv /\ CountFollows
  BY DEF LeaseIInv, LeaseTypeOK, ProxyTypeOK, RecorderTypeOK
<1>1. Update(t, s) /\ UNCHANGED linkUp /\ UNCHANGED proxyVars
  BY DEF RecorderUpdates
<1>2. /\ RecorderTypeOK' /\ PostsInv'
      /\ Cardinality(Finishes') = Cardinality(Finishes) + (IF Ends(t, s) THEN 1 ELSE 0)
      /\ Cardinality(Finishes) \in Nat
  <2>1. /\ RecorderTypeOK' /\ PostsInv'
        /\ ~Ends(t, s) => Finishes' = Finishes
        /\ Ends(t, s) => Cardinality(Finishes') = Cardinality(Finishes) + 1
    BY <1>0, <1>1, UpdateFacts
  <2> QED BY <1>0, <2>1, FinishesFinite DEF PostsInv
<1>3. ProxyIInv' /\ RefusedByAFailure' /\ owed' = owed
  BY <1>0, <1>1, ProxyStepInv, RefusedStep DEF proxyVars, ProxyIInv, LeaseIInv
<1>4. /\ Cardinality(Recordings) = IF current = NoTask THEN 0 ELSE 1
      /\ Cardinality(Recordings') = IF current' = NoTask THEN 0 ELSE 1
  <2>1. RecorderTypeOK' => Cardinality(Recordings') = IF current' = NoTask THEN 0 ELSE 1
    <3>1. RecorderTypeOK' => Recordings' = IF current' = NoTask THEN {} ELSE {current'}
      BY NoTaskAssumption DEF Recordings, RecorderTypeOK
    <3> QED BY <3>1, FS_EmptySet, FS_Singleton
  <2> QED BY <1>0, <1>2, <2>1, RecordingsCount
<1>5. current' = IF Starts(t, s) THEN t ELSE IF Ends(t, s) THEN NoTask ELSE current
  BY <1>1 DEF Update, AfterUpdate
<1>6. CASE Starts(t, s)
  <2>1. /\ holders' = holders + 1 /\ holders' \in Nat
        /\ enables' \in 0..MaxStreams /\ unpaired' \subseteq Causes /\ CountFollows'
    BY <1>6, AcquireFacts DEF RecorderUpdates
  <2>2. t # NoTask /\ (Ends(t, s) <=> current # NoTask)
    BY <1>6 DEF Starts, Ends
  <2>3. HoldersPaidFor'
    BY <1>0, <1>2, <1>3, <1>4, <1>5, <1>6, <2>1, <2>2 DEF HoldersPaidFor
  <2>4. LeaseTypeOK'
    BY <1>1, <1>2, <1>3, <2>1 DEF LeaseTypeOK, ProxyIInv, LeaseIInv
  <2> QED BY <1>0, <1>2, <1>3, <2>1, <2>3, <2>4 DEF LeaseIInv
<1>7. CASE ~Starts(t, s)
  <2>1. UNCHANGED <<holders, enables, unpaired>>
    BY <1>7 DEF RecorderUpdates
  <2>2. Ends(t, s) => current # NoTask
    BY DEF Ends
  <2>3. HoldersPaidFor'
    BY <1>0, <1>2, <1>3, <1>4, <1>5, <1>7, <2>1, <2>2 DEF HoldersPaidFor
  <2>4. LeaseTypeOK' /\ CountFollows'
    BY <1>0, <1>1, <1>2, <1>3, <2>1 DEF LeaseTypeOK, ProxyIInv, LeaseIInv, CountFollows
  <2> QED BY <1>0, <1>2, <1>3, <2>1, <2>3, <2>4 DEF LeaseIInv
<1> QED BY <1>6, <1>7

(* A finish that has settled gives the lease back; other requests never    *)
(* had it.                                                                 *)
LEMMA SettledLease ==
  ASSUME LeaseIInv, NEW p \in posts, PostSettled(p)
  PROVE  /\ LeaseIInv'
         /\ enables' < enables /\ holders' < holders =>
              upstream' = NoHandle /\ current' = NoTask /\ Finishes' = {}
<1>0. /\ holders \in Nat /\ enables \in 0..MaxStreams /\ owed \in Nat /\ RecorderTypeOK
      /\ PostsInv /\ HoldersPaidFor /\ ProxyIInv /\ CountFollows
  BY DEF LeaseIInv, LeaseTypeOK, ProxyTypeOK
<1>1. /\ posts' = posts \ {p} /\ UNCHANGED <<current, lastStatus, updates>>
      /\ UNCHANGED linkUp /\ UNCHANGED proxyVars
  BY DEF PostSettled, Settled
<1>2. ProxyIInv' /\ RefusedByAFailure' /\ owed' = owed /\ upstream' = upstream
  BY <1>0, <1>1, ProxyStepInv, RefusedStep DEF proxyVars, ProxyIInv, LeaseIInv
<1>3. RecorderTypeOK' /\ PostsInv' /\ Recordings' = Recordings
  <2>1. RecorderTypeOK' /\ Recordings' = Recordings
    BY <1>0, <1>1 DEF RecorderTypeOK, Recordings
  <2>2. IsFiniteSet(posts')
    BY <1>0, <1>1, FS_RemoveElement DEF PostsInv
  <2> QED BY <1>0, <1>1, <2>1, <2>2 DEF PostsInv
<1>4. /\ Cardinality(Recordings) = IF current = NoTask THEN 0 ELSE 1
      /\ IsFiniteSet(Finishes) /\ Cardinality(Finishes) \in Nat
  BY <1>0, RecordingsCount, FinishesFinite DEF PostsInv
<1>5. CASE p.op = "finish"
  <2>1. Finishes' = Finishes \ {p} /\ p \in Finishes
    BY <1>1, <1>5 DEF Finishes
  <2>2. /\ Cardinality(Finishes') = Cardinality(Finishes) - 1
        /\ Cardinality(Finishes) > 0 /\ IsFiniteSet(Finishes')
    <3>1. Cardinality(Finishes') = Cardinality(Finishes) - 1 /\ IsFiniteSet(Finishes')
      BY <1>4, <2>1, FS_RemoveElement
    <3>2. Cardinality(Finishes) # 0
      BY <1>4, <2>1, FS_EmptySet
    <3> QED BY <1>4, <3>1, <3>2
  <2>3. holders > 0
    BY <1>0, <1>4, <2>2 DEF HoldersPaidFor
  <2>4. Release
    BY <1>5 DEF PostSettled, GivesBack
  <2>5. /\ holders' = holders - 1 /\ holders' \in Nat
        /\ enables' \in 0..MaxStreams /\ unpaired' \subseteq Causes /\ CountFollows'
        /\ enables' < enables => holders = 1
    BY <2>3, <2>4, ReleaseFacts
  <2>6. HoldersPaidFor' /\ LeaseTypeOK'
    <3>1. HoldersPaidFor'
      BY <1>0, <1>2, <1>3, <1>4, <2>2, <2>5 DEF HoldersPaidFor
    <3> QED BY <1>1, <1>2, <1>3, <2>5, <3>1 DEF LeaseTypeOK, ProxyIInv, LeaseIInv
  <2>7. ASSUME enables' < enables
        PROVE  upstream' = NoHandle /\ current' = NoTask /\ Finishes' = {}
    <3>1. owed = 0 /\ Cardinality(Recordings) = 0 /\ Cardinality(Finishes') = 0
      BY <1>0, <1>4, <2>2, <2>5, <2>7 DEF HoldersPaidFor
    <3>2. upstream = NoHandle
      BY <1>0, <3>1, CurrentFacts DEF ProxyIInv, ProxyTypeOK
    <3> QED BY <1>1, <1>2, <1>4, <2>2, <3>1, <3>2, FS_EmptySet
  <2> QED BY <1>2, <1>3, <2>5, <2>6, <2>7 DEF LeaseIInv
<1>6. CASE p.op # "finish"
  <2>1. UNCHANGED <<holders, enables, unpaired>> /\ Finishes' = Finishes
    BY <1>1, <1>6 DEF PostSettled, GivesBack, Finishes
  <2>2. HoldersPaidFor' /\ CountFollows' /\ LeaseTypeOK'
    BY <1>0, <1>1, <1>2, <1>3, <2>1
    DEF HoldersPaidFor, CountFollows, LeaseTypeOK, ProxyIInv, LeaseIInv
  <2> QED BY <1>0, <1>2, <1>3, <2>1, <2>2 DEF LeaseIInv
<1> QED BY <1>5, <1>6

(* The link and the printer change; the lease does not. *)
LEMMA OutsideLease ==
  ASSUME LeaseIInv, LinkChanges \/ PrinterRestarts
  PROVE  LeaseIInv' /\ holders' = holders
<1>0. /\ holders \in Nat /\ enables \in 0..MaxStreams /\ owed \in Nat /\ RecorderTypeOK
      /\ PostsInv /\ HoldersPaidFor /\ ProxyIInv /\ CountFollows
      /\ unpaired \subseteq Causes /\ linkUp \in BOOLEAN
  BY DEF LeaseIInv, LeaseTypeOK, ProxyTypeOK
<1>1. UNCHANGED proxyVars /\ UNCHANGED recorderVars /\ holders' = holders
  BY DEF LinkChanges, PrinterRestarts
<1>2. ProxyIInv' /\ RefusedByAFailure' /\ owed' = owed
  BY <1>0, <1>1, ProxyStepInv, RefusedStep DEF proxyVars, ProxyIInv, LeaseIInv
<1>3. RecorderTypeOK' /\ PostsInv' /\ HoldersPaidFor'
  BY <1>0, <1>1, <1>2
  DEF recorderVars, RecorderTypeOK, PostsInv, HoldersPaidFor, Recordings, Finishes
<1>4. linkUp' \in BOOLEAN
  BY <1>0 DEF LinkChanges, PrinterRestarts
<1>5. enables' \in 0..MaxStreams /\ unpaired' \subseteq Causes /\ CountFollows'
  <2>1. CASE LinkChanges
    BY <1>0, <1>1, <2>1 DEF LinkChanges, CountFollows
  <2>2. CASE PrinterRestarts
    <3>1. enables' = 0 /\ unpaired' = unpaired \union (IF enables = 0 THEN {} ELSE {"printer"})
      BY <2>2 DEF PrinterRestarts
    <3> QED BY <1>0, <1>1, <3>1, MaxStreamsAssumption DEF CountFollows, Causes
  <2> QED BY <2>1, <2>2
<1> QED BY <1>0, <1>1, <1>2, <1>3, <1>4, <1>5 DEF LeaseIInv, LeaseTypeOK, ProxyIInv

(* A new server holds nothing.  What the printer counts is still what the  *)
(* old one left, which pairs up only if that was nothing.                  *)
LEMMA RestartLease ==
  ASSUME LeaseIInv, Shutdown \/ Crash
  PROVE  LeaseIInv' /\ enables' = enables
<1>0. /\ holders \in Nat /\ enables \in 0..MaxStreams /\ CountFollows
      /\ unpaired \subseteq Causes
  BY DEF LeaseIInv, LeaseTypeOK
<1>1. Restarted
  BY DEF Shutdown, Crash
<1>2. ProxyIInv'
  BY <1>1, HandleFacts, MaxOpensAssumption
  DEF Restarted, ProxyIInv, ProxyTypeOK, OpeningForAWaiter, ViewersAreHere, OneUpstream,
      WatchersAreServed, WaitersAreWaitedFor, PaidOncePlusFailures, KeptForAReason,
      Waiting, Phases, Handles, NoHandle
<1>3. RecorderTypeOK' /\ Recordings' = {} /\ Finishes' = {} /\ PostsInv'
  BY <1>1, NoTaskAssumption, MaxUpdatesAssumption, FS_EmptySet
  DEF Restarted, RecorderTypeOK, Recordings, Finishes, PostsInv
<1>4. holders' = 0 /\ owed' = 0 /\ linkUp' = TRUE /\ enables' = enables
  BY <1>1 DEF Restarted
<1>5. HoldersPaidFor'
  BY <1>3, <1>4, FS_EmptySet DEF HoldersPaidFor
<1>6. unpaired' \subseteq Causes /\ (unpaired' = {} => unpaired = {} /\ holders = 0)
  <2>1. CASE Shutdown
    BY <1>0, <2>1 DEF Shutdown, Causes
  <2>2. CASE Crash
    BY <1>0, <2>2 DEF Crash, Causes
  <2> QED BY <2>1, <2>2
<1>7. CountFollows'
  BY <1>0, <1>4, <1>6 DEF CountFollows
<1>8. LeaseTypeOK'
  BY <1>0, <1>2, <1>3, <1>4, <1>6 DEF LeaseTypeOK, ProxyIInv
<1>9. RefusedByAFailure'
  BY <1>1 DEF Restarted, RefusedByAFailure
<1> QED BY <1>2, <1>3, <1>4, <1>5, <1>7, <1>8, <1>9 DEF LeaseIInv

-----------------------------------------------------------------------------
(* Every step keeps the invariant, and turns the stream off only when its  *)
(* last user is gone.                                                      *)
LEMMA LeaseStep ==
  ASSUME LeaseIInv, [LeaseNext]_allVars
  PROVE  /\ LeaseIInv'
         /\ enables' < enables /\ holders' < holders =>
              upstream' = NoHandle /\ current' = NoTask /\ Finishes' = {}
<1>0. holders \in Nat /\ enables \in Nat
  BY MaxStreamsAssumption DEF LeaseIInv, LeaseTypeOK
<1>1. CASE ProxyStep
  BY <1>1, ProxyStepLease
<1>2. ASSUME NEW t \in Tasks \union {NoTask}, NEW s \in Statuses, RecorderUpdates(t, s)
      PROVE  LeaseIInv' /\ ~(holders' < holders)
  BY <1>2, UpdateLease
<1>3. ASSUME NEW p \in posts, PostSettled(p)
      PROVE  /\ LeaseIInv'
             /\ enables' < enables /\ holders' < holders =>
                  upstream' = NoHandle /\ current' = NoTask /\ Finishes' = {}
  BY <1>3, SettledLease
<1>4. CASE LinkChanges \/ PrinterRestarts
  <2>1. LeaseIInv' /\ holders' = holders
    BY <1>4, OutsideLease
  <2> QED BY <1>0, <2>1
<1>5. CASE Shutdown \/ Crash
  <2>1. LeaseIInv' /\ enables' = enables
    BY <1>5, RestartLease
  <2> QED BY <1>0, <2>1
<1>6. CASE UNCHANGED allVars
  <2>1. UNCHANGED proxyVars /\ UNCHANGED recorderVars /\ UNCHANGED leaseVars
    BY <1>6 DEF allVars
  <2>2. ProxyIInv' /\ RefusedByAFailure'
    BY <2>1, ProxyStepInv, RefusedStep DEF LeaseIInv, ProxyIInv
  <2>3. LeaseIInv' /\ holders' = holders
    BY <2>1, <2>2
    DEF proxyVars, recorderVars, leaseVars, LeaseIInv, LeaseTypeOK, ProxyIInv, RecorderTypeOK,
        PostsInv, HoldersPaidFor, CountFollows, Recordings, Finishes
  <2> QED BY <1>0, <2>3
<1> QED BY <1>1, <1>2, <1>3, <1>4, <1>5, <1>6 DEF LeaseNext

LEMMA LeaseInvariant == LeaseSpec => []LeaseIInv
BY LeaseInitInv, LeaseStep, PTL DEF LeaseSpec

(* Who uses the stream, who holds the lease and what the printer counts.   *)
LEMMA LeaseFacts ==
  ASSUME LeaseIInv
  PROVE  LeaseIsExact
<1>0. /\ holders \in Nat /\ owed \in Nat /\ failures \in Nat /\ RecorderTypeOK /\ PostsInv
      /\ ProxyIInv /\ HoldersPaidFor /\ CountFollows /\ RefusedByAFailure
  BY DEF LeaseIInv, LeaseTypeOK, ProxyTypeOK
<1>1. /\ Cardinality(Recordings) = IF current = NoTask THEN 0 ELSE 1
      /\ Cardinality(Finishes) \in Nat
      /\ Cardinality(Finishes) = 0 <=> Finishes = {}
  BY <1>0, RecordingsCount, FinishesFinite, FS_EmptySet DEF PostsInv
<1>2. owed = failures + ProxyUses /\ ProxyUses \in {0, 1}
  BY <1>0 DEF ProxyIInv, PaidOncePlusFailures, ProxyUses
<1>3. LeaseCountsUsers
  BY <1>0, <1>1, <1>2 DEF LeaseCountsUsers, HoldersPaidFor
<1>4. InUse => holders > 0
  <2>1. ASSUME NEW v \in Viewers, phase[v] \in {"waiting", "watching"}
        PROVE  ProxyUses = 1
    BY <1>0, <2>1
    DEF ProxyIInv, WatchersAreServed, WaitersAreWaitedFor, Waiting, ProxyUses
  <2> QED BY <1>0, <1>1, <1>2, <1>3, <2>1 DEF InUse, LeaseCountsUsers
<1>5. ASSUME ~InUse, ~BeingLeft
      PROVE  holders = 0 <=> failures = 0
  <2>1. Waiting = {}
    BY <1>5 DEF InUse, BeingLeft, Waiting
  <2>2. ProxyUses = 1 => failures > 0
    <3>1. ProxyUses = 1 => upstream # NoHandle
      BY <1>0, <2>1 DEF ProxyIInv, OpeningForAWaiter, ProxyUses
    <3>2. upstream # NoHandle => \E v \in Viewers : phase[v] = "refused"
      BY <1>0, <1>5
      DEF ProxyIInv, KeptForAReason, ProxyTypeOK, InUse, BeingLeft
    <3> QED BY <1>0, <3>1, <3>2 DEF RefusedByAFailure
  <2>3. Cardinality(Recordings) = 0 /\ Cardinality(Finishes) = 0
    BY <1>1, <1>5 DEF InUse
  <2> QED BY <1>0, <1>2, <1>3, <2>2, <2>3 DEF LeaseCountsUsers
<1>6. OnWhileUsed /\ OffWhenUnused
  BY <1>0, <1>4, <1>5 DEF OnWhileUsed, OffWhenUnused, CountFollows
<1> QED BY <1>3, <1>6 DEF LeaseIsExact

(* The lease's variables, and those of its users, have their types. *)
THEOREM LeaseTypeCorrect == LeaseSpec => []LeaseTypeOK
<1>1. LeaseIInv => LeaseTypeOK
  BY DEF LeaseIInv
<1> QED BY <1>1, LeaseInvariant, PTL

(* The lease is held once for the proxy's upstream, each recording and each*)
(* finish request that is out, and once for good for every opening that    *)
(* failed (proxy.ts:110), however viewers, prints, lost requests and       *)
(* restarts mix.  For as long as nothing has kept a command from its pair, *)
(* the printer's stream is on while one of them uses it, and off otherwise *)
(* unless an opening has failed (video-lease.ts:4-9).                      *)
THEOREM LeaseExact == LeaseSpec => []LeaseIsExact
<1>1. LeaseIInv => LeaseIsExact
  BY LeaseFacts
<1> QED BY <1>1, LeaseInvariant, PTL

(* No release turns the printer's stream off under a viewer or a recording *)
(* that uses it, whatever has been lost before.                            *)
THEOREM NeverTurnedOff == LeaseSpec => NeverTurnedOffUnderAUser
<1>1. LeaseIInv /\ [LeaseNext]_allVars =>
        [enables' < enables /\ holders' < holders
           => upstream' = NoHandle /\ current' = NoTask /\ Finishes' = {}]_allVars
  BY LeaseStep
<1> QED BY <1>1, LeaseInvariant, PTL DEF LeaseSpec, NeverTurnedOffUnderAUser

=============================================================================

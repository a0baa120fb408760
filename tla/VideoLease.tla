---------------------------- MODULE VideoLease ----------------------------
(***************************************************************************)
(* apps/server/src/video-lease.ts and its wiring in index.ts, for a server *)
(* whose CAMERA_URL points at the camera service: the camera proxy and the *)
(* time-lapse recorder share the printer's stream.  The first to need it   *)
(* sends Cmd 386 to enable it, the last to let go sends the disable, and   *)
(* the printer counts enables against MaximumVideoStreamAllowed.           *)
(***************************************************************************)
EXTENDS CameraProxy, TimelapseRecorder

CONSTANT MaxStreams   \* MaximumVideoStreamAllowed: 2 on the Mars 5 Ultra

ASSUME MaxStreamsAssumption == MaxStreams \in Nat \ {0}

VARIABLES
  holders,    \* VideoLease.holders
  linkUp,     \* the printer's control connection works
  enables,    \* the printer's count of enabled streams
  unpaired    \* history variable: what has kept an enable and a disable
              \* from pairing up

leaseVars == <<holders, linkUp, enables, unpaired>>
allVars == <<proxyVars, recorderVars, leaseVars>>

(* A command sent while the link was down; a power cycle of the printer; a *)
(* server that ended while it held the stream: because camera.close() had  *)
(* an upstream to give back ("shutdown"), or otherwise ("abandoned").      *)
Causes == {"link", "printer", "shutdown", "abandoned"}

LeaseInit ==
  /\ ProxyInit
  /\ RecorderInit
  /\ holders = 0
  /\ linkUp = TRUE
  /\ enables = 0
  /\ unpaired = {}

-----------------------------------------------------------------------------
(* Faulty variants, used to check that the properties notice them.         *)
(* ReleaseOff: every release disables the stream.                          *)
ReleaseOff == TRUE

(* NeverGivesBack: finish keeps the lease for good.                        *)
NeverGivesBack(p) == FALSE

-----------------------------------------------------------------------------
(* The printer refuses to count more than MaxStreams. *)
OneMore == IF enables < MaxStreams THEN enables + 1 ELSE enables

(* Cmd 386, without waiting for its acknowledgement.  A refused enable is  *)
(* not counted; a failed command is swallowed (.catch(() => {})).          *)
SetStream(on) ==
  IF linkUp
  THEN /\ enables' = IF on THEN OneMore ELSE IF enables > 0 THEN enables - 1 ELSE 0
       /\ UNCHANGED unpaired
  ELSE enables' = enables /\ unpaired' = unpaired \union {"link"}

FirstHolder == holders = 0

LastHolder == holders = 1

Acquire ==
  /\ holders' = holders + 1
  /\ IF FirstHolder THEN SetStream(TRUE) ELSE UNCHANGED <<enables, unpaired>>

Release ==
  IF holders = 0
  THEN UNCHANGED <<holders, enables, unpaired>>
  ELSE /\ holders' = holders - 1
       /\ IF LastHolder THEN SetStream(FALSE) ELSE UNCHANGED <<enables, unpaired>>

(* The proxy's onActive is acquire, its onIdle is release. *)
ProxyStep ==
  /\ ProxyNext
  /\ IF owed' = owed + 1 THEN Acquire
     ELSE IF owed' = owed - 1 THEN Release
     ELSE UNCHANGED <<holders, enables, unpaired>>
  /\ UNCHANGED <<recorderVars, linkUp>>

(* start takes the lease; finish keeps it until its request has settled.   *)
RecorderUpdates(t, s) ==
  /\ Update(t, s)
  /\ IF Starts(t, s) THEN Acquire ELSE UNCHANGED <<holders, enables, unpaired>>
  /\ UNCHANGED <<proxyVars, linkUp>>

GivesBack(p) == p.op = "finish"

PostSettled(p) ==
  /\ Settled(p)
  /\ IF GivesBack(p) THEN Release ELSE UNCHANGED <<holders, enables, unpaired>>
  /\ UNCHANGED <<proxyVars, linkUp>>

(* The connection to the printer drops and returns.  Nothing is sent again.*)
LinkChanges ==
  /\ linkUp' = ~linkUp
  /\ UNCHANGED <<proxyVars, recorderVars, holders, enables, unpaired>>

(* The printer is power-cycled. *)
PrinterRestarts ==
  /\ enables' = 0
  /\ unpaired' = unpaired \union (IF enables = 0 THEN {} ELSE {"printer"})
  /\ UNCHANGED <<proxyVars, recorderVars, holders, linkUp>>

(* The server process ends and another takes its place. *)
Restarted ==
  /\ phase' = [v \in Viewers |-> "new"]
  /\ viewers' = {}
  /\ upstream' = NoHandle
  /\ opening' = "no"
  /\ opens' = 0
  /\ live' = {}
  /\ aborted' = {}
  /\ owed' = 0
  /\ failures' = 0
  /\ current' = NoTask
  /\ lastStatus' = "undefined"
  /\ updates' = 0
  /\ posts' = {}
  /\ holders' = 0
  /\ linkUp' = TRUE
  /\ enables' = enables

(* shutdown: printer.stop() first, which leaves no client to send with, so *)
(* what camera.close() then gives back through the lease is never sent.    *)
Shutdown ==
  /\ Restarted
  /\ unpaired' = unpaired \union
       (IF holders = 0 THEN {}
        ELSE IF holders = 1 /\ upstream # NoHandle THEN {"shutdown"}
        ELSE {"abandoned"})

Crash ==
  /\ Restarted
  /\ unpaired' = unpaired \union (IF holders = 0 THEN {} ELSE {"abandoned"})

LeaseNext ==
  \/ ProxyStep
  \/ \E t \in Tasks \union {NoTask}, s \in Statuses : RecorderUpdates(t, s)
  \/ \E p \in posts : PostSettled(p)
  \/ LinkChanges
  \/ PrinterRestarts
  \/ Shutdown
  \/ Crash

LeaseSpec == LeaseInit /\ [][LeaseNext]_allVars

-----------------------------------------------------------------------------
(* Type correctness. *)
LeaseTypeOK ==
  /\ ProxyTypeOK
  /\ RecorderTypeOK
  /\ holders \in Nat
  /\ linkUp \in BOOLEAN
  /\ enables \in 0..MaxStreams
  /\ unpaired \subseteq Causes

Recordings == {t \in Tasks : t = current}
Finishes == {p \in posts : p.op = "finish"}

(* The stream is used by whoever watches it or waits for it, and by a print*)
(* that is recorded or whose finish request is still out.  A viewer that   *)
(* is leaving has still to let go of it.                                   *)
InUse ==
  \/ \E v \in Viewers : phase[v] \in {"waiting", "watching"}
  \/ current # NoTask
  \/ Finishes # {}

BeingLeft == \E v \in Viewers : phase[v] \in {"leaving", "ended"}

ProxyUses == IF upstream # NoHandle \/ opening # "no" THEN 1 ELSE 0

(* The lease is held once for the proxy's upstream, for the print being    *)
(* recorded, and for every recording whose finish request is still out;    *)
(* and once, for good, for every opening that failed (proxy.ts:110).  No   *)
(* other release is one too many, or one too few.                          *)
LeaseCountsUsers ==
  holders = failures + ProxyUses + Cardinality(Recordings) + Cardinality(Finishes)

(* While no command has been kept from its pair (unpaired), the printer    *)
(* counts one stream when somebody uses it; when nobody does, it counts    *)
(* none (video-lease.ts:4-9), unless an opening has ever failed: then it   *)
(* counts one for good.                                                    *)
OnWhileUsed == unpaired = {} /\ InUse => enables = 1

OffWhenUnused ==
  unpaired = {} /\ ~InUse /\ ~BeingLeft => enables = IF failures = 0 THEN 0 ELSE 1

(* The lease is exact up to the openings that failed, and the printer's    *)
(* stream is on and off with its users but for them (video-lease.ts).      *)
LeaseIsExact == LeaseCountsUsers /\ OnWhileUsed /\ OffWhenUnused

(* The server's last browser leaving, or a print ending, never turns the   *)
(* stream off under a viewer or a time-lapse that still uses it, whatever  *)
(* was lost before.                                                        *)
NeverTurnedOffUnderAUser ==
  [][enables' < enables /\ holders' < holders
       => upstream' = NoHandle /\ current' = NoTask /\ Finishes' = {}]_allVars

=============================================================================

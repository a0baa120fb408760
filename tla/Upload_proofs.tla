---------------------------- MODULE Upload_proofs ----------------------------
(***************************************************************************)
(* Proofs about Upload, for any number of requests, packets, names and     *)
(* messages: one upload at a time, a printer and a server that agree on    *)
(* what was sent, and no upload reported done without its file.            *)
(***************************************************************************)
EXTENDS Upload, SequenceTheorems, TLAPS

(* A request that has not been made has left no trace. *)
FreshInv ==
  \A u \in All : phase[u] = "new" =>
    /\ next[u] = 0 /\ received[u] = 0
    /\ u \notin replied /\ u \notin aborted /\ u \notin terminating
    /\ \A p \in air : p[1] # u

(* A packet in the air is one of a transfer that goes on or was given up,  *)
(* and the one its request still waits for, if it does wait.               *)
AirInv ==
  \A p \in air :
    /\ p[2] < PacketsOf(p[1])
    /\ phase[p[1]] \in {"sending", "failed"}
    /\ phase[p[1]] = "sending" => p[2] = next[p[1]] /\ p[1] \notin replied

(* How far each transfer has got.  The printer has the whole of it once    *)
(* its last packet is answered: no Cmd 255 takes that away.                *)
TransferInv ==
  \A u \in All :
    /\ next[u] < PacketsOf(u)
    /\ received[u] <= PacketsOf(u)
    /\ phase[u] = "sending" /\ u \in replied /\ LastPacket(u) => received[u] = PacketsOf(u)

(* What the printer is asked to abandon is over, or about to be. *)
TerminatingInv == \A u \in terminating : phase[u] = "sending" => u \in aborted

(* A file list in flight names only files that are there: no file leaves   *)
(* the list.                                                               *)
ListsAreTrue ==
  \A k \in DOMAIN wire : wire[k].kind = "list" => wire[k].names \subseteq listed

(* What has been sent to the end has arrived to the end, mixed up or not.  *)
WholeInv ==
  \A u \in All : phase[u] \in Confirming \union {"done"} => received[u] = PacketsOf(u)

UInv ==
  /\ UploadTypeOK
  /\ FreshInv
  /\ AirInv
  /\ TransferInv
  /\ TerminatingInv
  /\ ListsAreTrue
  /\ OneUploadAtATime
  /\ OffsetsAgree
  /\ WholeInv
  /\ UploadsStayApart
  /\ DoneIsJustified

-----------------------------------------------------------------------------
LEMMA PacketsOfType == \A u \in All : PacketsOf(u) \in 1..Packets
BY UploadAssumption DEF PacketsOf

LEMMA UInvInit == UploadInit => UInv
<1> SUFFICES ASSUME UploadInit PROVE UInv
  OBVIOUS
<1>1. UploadTypeOK
  <2>1. wire \in Seq(Frames) /\ Len(wire) <= MaxWire
    BY EmptySeq, UploadAssumption DEF UploadInit
  <2>2. /\ next \in [All -> 0..Packets] /\ received \in [All -> 0..Packets]
        /\ phase \in [All -> Phases]
    BY UploadAssumption DEF UploadInit, Phases
  <2> QED BY <2>1, <2>2 DEF UploadInit, UploadTypeOK
<1>2. FreshInv /\ AirInv /\ TerminatingInv /\ ListsAreTrue
  BY DEF UploadInit, FreshInv, AirInv, TerminatingInv, ListsAreTrue
<1>3. TransferInv
  BY PacketsOfType DEF UploadInit, TransferInv
<1>4. OneUploadAtATime /\ OffsetsAgree /\ WholeInv /\ UploadsStayApart /\ DoneIsJustified
  BY UploadAssumption DEF UploadInit, OneUploadAtATime, OffsetsAgree, Mixed, WholeInv, UploadsStayApart,
     DoneIsJustified, Active, Confirming, All
<1> QED BY <1>1, <1>2, <1>3, <1>4 DEF UInv

(* The WebSocket: a message is put at its end, or taken off its front, or  *)
(* everything on it is lost.                                               *)
WireOK == wire \in Seq(Frames) /\ Len(wire) <= MaxWire /\ ListsAreTrue

LEMMA WireKept ==
  ASSUME UInv, UNCHANGED wire, listed \subseteq listed'
  PROVE  WireOK'
BY DEF UInv, UploadTypeOK, WireOK, ListsAreTrue

LEMMA WireCut ==
  ASSUME UInv, wire' = <<>>
  PROVE  WireOK'
BY EmptySeq, UploadAssumption DEF WireOK, ListsAreTrue

LEMMA WireTaken ==
  ASSUME UInv, wire # <<>>, wire' = Tail(wire), listed \subseteq listed'
  PROVE  /\ WireOK'
         /\ Head(wire) \in Frames
         /\ Head(wire).kind = "list" => Head(wire).names \subseteq listed
<1> DEFINE Message == Frames
<1>1. wire \in Seq(Message) /\ Len(wire) <= MaxWire
  BY DEF UInv, UploadTypeOK
<1> HIDE DEF Message
<1>2. /\ wire' \in Seq(Message) /\ Len(wire') <= MaxWire
      /\ Head(wire) \in Message /\ Head(wire) = wire[1] /\ 1 \in DOMAIN wire
      /\ \A k \in DOMAIN wire' : k + 1 \in DOMAIN wire /\ wire'[k] = wire[k + 1]
  BY <1>1, UploadAssumption
<1> QED BY <1>2 DEF Message, WireOK, UInv, ListsAreTrue

LEMMA WireSaid ==
  ASSUME UInv, HasRoom, NEW m \in Frames, Says(m), m.kind = "list" => m.names \subseteq listed,
         listed \subseteq listed'
  PROVE  WireOK'
<1> DEFINE Message == Frames
<1>1. wire \in Seq(Message) /\ Len(wire) <= MaxWire /\ m \in Message
  BY DEF UInv, UploadTypeOK
<1>2. CASE linkUp
  <2> HIDE DEF Message
  <2>1. /\ wire' \in Seq(Message) /\ Len(wire') <= MaxWire
        /\ \A k \in DOMAIN wire' : (k \in DOMAIN wire /\ wire'[k] = wire[k]) \/ wire'[k] = m
    BY <1>1, <1>2, UploadAssumption DEF Says, HasRoom
  <2> QED BY <2>1 DEF Message, WireOK, UInv, ListsAreTrue
<1>3. CASE ~linkUp
  BY <1>3, WireKept DEF Says
<1> QED BY <1>2, <1>3

-----------------------------------------------------------------------------
(* A step that leaves the requests and their packets alone. *)
LEMMA QuietStep ==
  ASSUME UInv, WireOK', UNCHANGED <<requestVars, air, received, mixed>>,
         terminating' \subseteq terminating, listed \subseteq listed', listed' \subseteq Names,
         finalising' \subseteq All, asked' \subseteq All,
         linkUp' \in BOOLEAN, lastBusy' \in BOOLEAN
  PROVE  UInv'
<1> USE DEF requestVars
<1>1. UploadTypeOK'
  BY DEF UInv, UploadTypeOK, WireOK
<1>2. FreshInv' /\ AirInv' /\ TransferInv' /\ TerminatingInv'
  BY DEF UInv, FreshInv, AirInv, TransferInv, TerminatingInv, LastPacket
<1>3. OneUploadAtATime' /\ OffsetsAgree' /\ WholeInv' /\ UploadsStayApart' /\ DoneIsJustified'
  BY DEF UInv, OneUploadAtATime, OffsetsAgree, Mixed, WholeInv, UploadsStayApart, DoneIsJustified
<1> QED BY <1>1, <1>2, <1>3 DEF UInv, WireOK

LEMMA QuietSteps ==
  ASSUME UInv,
         (\E u \in All : Accepts(u) \/ Rejects(u) \/ Lists(u))
           \/ PushesStatus \/ LinkDrops \/ LinkOpens
  PROVE  UInv'
<1>0. UploadTypeOK
  BY DEF UInv
<1>1. ASSUME NEW u \in All, Accepts(u) PROVE UInv'
  <2>1. /\ listed \subseteq listed' /\ listed' \subseteq Names /\ finalising' \subseteq All
        /\ UNCHANGED <<requestVars, air, received, terminating, mixed, wire, asked, linkUp, lastBusy>>
    BY <1>0, <1>1 DEF Accepts, UploadTypeOK, wireVars
  <2>2. WireOK'
    BY <2>1, WireKept
  <2> QED BY <1>0, <2>1, <2>2, QuietStep DEF UploadTypeOK
<1>2. ASSUME NEW u \in All, Rejects(u) PROVE UInv'
  <2>1. /\ finalising' \subseteq All /\ ErrorFrame \in Frames /\ Says(ErrorFrame) /\ HasRoom
        /\ ErrorFrame.kind # "list"
        /\ UNCHANGED <<requestVars, air, received, terminating, listed, mixed, asked, linkUp, lastBusy>>
    BY <1>0, <1>2 DEF Rejects, UploadTypeOK, Frames, ErrorFrame
  <2>2. WireOK'
    BY <2>1, WireSaid
  <2> QED BY <1>0, <2>1, <2>2, QuietStep DEF UploadTypeOK
<1>3. ASSUME NEW u \in All, Lists(u) PROVE UInv'
  <2>1. /\ asked' \subseteq All /\ Says(ListFrame(u)) /\ HasRoom
        /\ UNCHANGED <<requestVars, air, received, terminating, finalising, listed, mixed, linkUp, lastBusy>>
    BY <1>0, <1>3 DEF Lists, UploadTypeOK, printerVars
  <2>2. ListFrame(u) \in Frames /\ ListFrame(u).names = listed
    BY <1>0 DEF UploadTypeOK, Frames, ListFrame
  <2>3. WireOK'
    BY <2>1, <2>2, WireSaid
  <2> QED BY <1>0, <2>1, <2>3, QuietStep DEF UploadTypeOK
<1>4. CASE PushesStatus
  <2> DEFINE busy == finalising # {} \/ \E u \in All : phase[u] = "sending" /\ received[u] > 0
  <2>1. /\ Says(StatusFrame(busy)) /\ HasRoom
        /\ UNCHANGED <<requestVars, air, received, terminating, finalising, listed, mixed, asked,
                       linkUp, lastBusy>>
    BY <1>4 DEF PushesStatus, printerVars
  <2>2. StatusFrame(busy) \in Frames /\ StatusFrame(busy).kind # "list"
    BY DEF Frames, StatusFrame
  <2>3. WireOK'
    BY <2>1, <2>2, WireSaid
  <2> QED BY <1>0, <2>1, <2>3, QuietStep DEF UploadTypeOK
<1>5. CASE LinkDrops
  BY <1>0, <1>5, WireCut, QuietStep DEF LinkDrops, UploadTypeOK
<1>6. CASE LinkOpens
  BY <1>0, <1>6, WireKept, QuietStep DEF LinkOpens, UploadTypeOK, printerVars
<1> QED BY <1>1, <1>2, <1>3, <1>4, <1>5, <1>6

-----------------------------------------------------------------------------
(* A request in progress goes on to confirming, or ends, and what is kept  *)
(* of it while it runs goes with it.                                       *)
LEMMA MovedOn ==
  ASSUME UInv, WireOK', NEW u \in All, NEW how \in Confirming \union {"done", "failed"},
         phase[u] \in Active, phase' = [phase EXCEPT ![u] = how],
         inflight' = IF how \in Confirming THEN inflight ELSE Freed(u, how),
         aborted' \subseteq aborted, aborted \ aborted' \subseteq {u},
         rejected' \subseteq rejected, replied' \subseteq replied, replied \ replied' \subseteq {u},
         how # "failed" => received[u] = PacketsOf(u) /\ \A p \in air : p[1] # u,
         how = "done" /\ u \in Uploads => name[u] \in listed /\ u \notin rejected',
         asked' \subseteq All, lastBusy' \in BOOLEAN,
         UNCHANGED <<name, next, air, printerVars, linkUp>>
  PROVE  UInv'
<1> USE DEF printerVars
<1>0. UploadTypeOK /\ how \in Phases /\ how \notin {"new", "sending"}
  BY DEF UInv, Phases, Active, Confirming
<1>1. phase' \in [All -> Phases] /\ \A v \in All : phase'[v] = IF v = u THEN how ELSE phase[v]
  BY <1>0 DEF UploadTypeOK
<1>2. \A v \in All : /\ phase'[v] \in {"new", "sending"} => v # u /\ phase'[v] = phase[v]
                     /\ v # u => (v \in replied' <=> v \in replied)
                                 /\ (v \in aborted' <=> v \in aborted)
  BY <1>0, <1>1
<1>3. UploadTypeOK'
  BY <1>0, <1>1 DEF UploadTypeOK, WireOK, Freed
<1>4. FreshInv' /\ TransferInv' /\ TerminatingInv'
  BY <1>0, <1>2 DEF UInv, FreshInv, TransferInv, TerminatingInv, LastPacket, UploadTypeOK
<1>5. AirInv'
  <2>1. \A p \in air : p[1] \in All
    BY <1>0 DEF UploadTypeOK
  <2>2. \A p \in air : p[1] = u => how = "failed"
    BY <1>0 DEF UInv, AirInv, Confirming, Active
  <2> QED BY <1>1, <1>2, <2>1, <2>2 DEF UInv, AirInv
<1>6. OneUploadAtATime'
  <2>1. CASE how \in Confirming
    BY <1>1, <2>1 DEF UInv, OneUploadAtATime, Active, All
  <2>2. CASE how \notin Confirming
    <3>1. how \notin Active
      BY <2>2, <1>0 DEF Active
    <3>2. CASE u \in Uploads
      BY <1>1, <2>2, <3>1, <3>2, UploadAssumption DEF UInv, OneUploadAtATime, All, Freed
    <3>3. CASE u \notin Uploads
      BY <1>1, <2>2, <3>3 DEF UInv, OneUploadAtATime, All, Freed
    <3> QED BY <3>2, <3>3
  <2> QED BY <2>1, <2>2
<1>7. OffsetsAgree'
  BY <1>2 DEF UInv, OffsetsAgree, Mixed
<1>8. WholeInv'
  BY <1>1 DEF UInv, WholeInv, Confirming
<1>9. DoneIsJustified'
  BY <1>1 DEF UInv, DoneIsJustified, All
<1>10. UploadsStayApart'
  <2>1. \A v \in All : phase[v] = "failed" => phase'[v] = "failed"
    BY <1>1 DEF Active, Confirming
  <2> QED BY <2>1 DEF UInv, UploadsStayApart, All
<1> QED BY <1>3, <1>4, <1>5, <1>6, <1>7, <1>8, <1>9, <1>10 DEF UInv, WireOK

(* The steps of confirmUploaded, and the failure of a packet. *)
LEMMA ConfirmSteps ==
  ASSUME UInv, NEW u \in All,
         PacketFails(u) \/ Checks(u) \/ ListTimesOut(u) \/ DeadlinePassed(u) \/ TriesAgain(u)
  PROVE  UInv'
<1>0. UploadTypeOK /\ WireOK'
  <2>1. UNCHANGED <<wire, listed>>
    BY DEF PacketFails, Checks, ListTimesOut, DeadlinePassed, TriesAgain, printerVars, wireVars
  <2> QED BY <2>1, WireKept DEF UInv
<1>1. phase[u] \in Confirming => received[u] = PacketsOf(u) /\ \A p \in air : p[1] # u
  BY DEF UInv, WholeInv, AirInv, Confirming
<1>2. CASE PacketFails(u) \/ ListTimesOut(u) \/ DeadlinePassed(u)
  <2>1. /\ phase[u] \in Active /\ Failed(u)
        /\ replied' = replied \/ replied' = replied \ {u}
        /\ UNCHANGED <<name, next, air, printerVars, linkUp, asked, lastBusy>>
    BY <1>2 DEF PacketFails, ListTimesOut, DeadlinePassed, Active, Confirming, wireVars
  <2> QED BY <1>0, <2>1, MovedOn DEF Failed, Settle, UploadTypeOK, Confirming
<1>3. CASE Checks(u)
  <2>1. /\ phase[u] \in Active /\ phase[u] \in Confirming /\ asked' \subseteq All
        /\ UNCHANGED <<name, next, replied, air, printerVars, linkUp, lastBusy>>
    BY <1>0, <1>3 DEF Checks, Active, Confirming, UploadTypeOK
  <2>2. CASE Heard(u) \/ ~linkUp
    <3>1. Failed(u)
      BY <1>3, <2>2 DEF Checks
    <3> QED BY <1>0, <2>1, <3>1, MovedOn DEF Failed, Settle, UploadTypeOK, Confirming
  <2>3. CASE ~(Heard(u) \/ ~linkUp)
    <3>1. /\ phase' = [phase EXCEPT ![u] = "listing"]
          /\ UNCHANGED <<inflight, aborted, rejected>>
      BY <1>3, <2>3 DEF Checks
    <3>2. "listing" \in Confirming
      BY DEF Confirming
    <3> QED BY <1>0, <1>1, <2>1, <3>1, <3>2, MovedOn DEF UploadTypeOK
  <2> QED BY <2>2, <2>3
<1>4. CASE TriesAgain(u)
  <2>1. /\ phase[u] \in Active /\ phase[u] \in Confirming /\ "confirming" \in Confirming
        /\ phase' = [phase EXCEPT ![u] = "confirming"]
        /\ UNCHANGED <<name, next, replied, inflight, aborted, rejected, air, printerVars,
                       linkUp, asked, lastBusy>>
    BY <1>4 DEF TriesAgain, Active, Confirming, wireVars
  <2> QED BY <1>0, <1>1, <2>1, MovedOn DEF UploadTypeOK
<1> QED BY <1>2, <1>3, <1>4

(* A message comes over the WebSocket. *)
LEMMA DeliverStep ==
  ASSUME UInv, Deliver
  PROVE  UInv'
<1>1. /\ wire # <<>> /\ wire' = Tail(wire)
      /\ UNCHANGED <<name, next, replied, air, received, terminating, finalising, listed, mixed,
                     asked, linkUp>>
  BY DEF Deliver, printerVars
<1>2. PICK m \in Frames :
        /\ m.kind = "list" => m.names \subseteq listed
        /\ \/ /\ m.kind = "status" /\ lastBusy' = m.busy
              /\ UNCHANGED <<phase, inflight, aborted, rejected>>
           \/ /\ m.kind = "error"
              /\ rejected' = rejected \union {u \in All : phase[u] \in Confirming}
              /\ UNCHANGED <<phase, inflight, aborted, lastBusy>>
           \/ m.kind = "list" /\ ListAnswered(m)
  BY <1>1, WireTaken DEF Deliver
<1>3. UploadTypeOK /\ WireOK'
  BY <1>1, WireTaken DEF UInv
<1>4. CASE m.kind = "status" /\ lastBusy' = m.busy /\ UNCHANGED <<phase, inflight, aborted, rejected>>
  <2>1. lastBusy' \in BOOLEAN
    BY <1>4 DEF Frames
  <2> QED BY <1>1, <1>3, <1>4, <2>1, QuietStep DEF UploadTypeOK, requestVars
<1>5. CASE /\ rejected' = rejected \union {u \in All : phase[u] \in Confirming}
           /\ UNCHANGED <<phase, inflight, aborted, lastBusy>>
  <2>1. UploadTypeOK'
    BY <1>1, <1>3, <1>5 DEF UploadTypeOK, WireOK
  <2>2. FreshInv' /\ AirInv' /\ TransferInv' /\ TerminatingInv'
    BY <1>1, <1>5 DEF UInv, FreshInv, AirInv, TransferInv, TerminatingInv, LastPacket
  <2>3. OneUploadAtATime' /\ OffsetsAgree' /\ WholeInv' /\ UploadsStayApart'
    BY <1>1, <1>5 DEF UInv, OneUploadAtATime, OffsetsAgree, Mixed, WholeInv, UploadsStayApart
  <2>4. DoneIsJustified'
    BY <1>1, <1>5 DEF UInv, DoneIsJustified, Confirming
  <2> QED BY <1>3, <2>1, <2>2, <2>3, <2>4 DEF UInv, WireOK
<1>6. CASE m.kind = "list" /\ ListAnswered(m)
  <2>1. PICK u \in All : u = m.of
    BY <1>6 DEF Frames
  <2>2. /\ lastBusy' = lastBusy
        /\ IF phase[u] = "listing" /\ Heard(u) THEN Failed(u)
           ELSE /\ UNCHANGED <<aborted, rejected>>
                /\ IF phase[u] # "listing" THEN UNCHANGED <<phase, inflight>>
                   ELSE IF name[u] \in m.names THEN Settle(u, "done")
                   ELSE phase' = [phase EXCEPT ![u] = "missed"] /\ UNCHANGED inflight
    BY <1>6, <2>1 DEF ListAnswered
  <2>3. CASE phase[u] # "listing"
    BY <1>1, <1>3, <2>2, <2>3, QuietStep DEF UploadTypeOK, requestVars
  <2>4. CASE phase[u] = "listing"
    <3>1. /\ phase[u] \in Active /\ received[u] = PacketsOf(u) /\ \A p \in air : p[1] # u
          /\ "missed" \in Confirming /\ "done" \notin Confirming /\ "failed" \notin Confirming
      BY <2>4 DEF UInv, WholeInv, AirInv, Active, Confirming
    <3>2. UNCHANGED <<name, next, air, printerVars, linkUp, asked, lastBusy, replied>>
      BY <1>1, <2>2 DEF printerVars
    <3>3. asked' \subseteq All /\ lastBusy' \in BOOLEAN
      BY <1>3, <3>2 DEF UploadTypeOK
    <3>4. CASE Heard(u)
      BY <1>3, <2>2, <2>4, <3>1, <3>2, <3>3, <3>4, MovedOn DEF Failed, Settle
    <3>5. CASE ~Heard(u) /\ name[u] \in m.names
      <4>1. phase' = [phase EXCEPT ![u] = "done"] /\ inflight' = Freed(u, "done")
              /\ UNCHANGED <<aborted, rejected>>
        BY <2>2, <2>4, <3>5 DEF Settle
      <4>2. name[u] \in listed /\ u \notin rejected'
        BY <1>2, <1>6, <3>5, <4>1 DEF Heard
      <4> QED BY <1>3, <2>4, <3>1, <3>2, <3>3, <4>1, <4>2, MovedOn
    <3>6. CASE ~Heard(u) /\ name[u] \notin m.names
      <4>1. phase' = [phase EXCEPT ![u] = "missed"] /\ UNCHANGED <<inflight, aborted, rejected>>
        BY <2>2, <2>4, <3>6
      <4> QED BY <1>3, <2>4, <3>1, <3>2, <3>3, <4>1, MovedOn
    <3> QED BY <3>4, <3>5, <3>6
  <2> QED BY <2>3, <2>4
<1> QED BY <1>2, <1>4, <1>5, <1>6

-----------------------------------------------------------------------------
(* A request is refused, or sends its first packet. *)
LEMMA RequestStep ==
  ASSUME UInv, NEW u \in All,
         (u \in Uploads /\ Request(u)) \/ (u \in Magics /\ SendMagic(u))
  PROVE  UInv'
<1>0. /\ UploadTypeOK /\ phase[u] = "new"
      /\ UNCHANGED <<name, next, replied, aborted, rejected, received, terminating, finalising,
                     listed, mixed, asked, linkUp, wire, lastBusy>>
  BY DEF UInv, Request, SendMagic, printerVars, wireVars
<1>1. WireOK'
  BY <1>0, WireKept
<1>2. /\ next[u] = 0 /\ received[u] = 0 /\ PacketsOf(u) \in 1..Packets
      /\ u \notin replied /\ u \notin aborted /\ u \notin terminating
      /\ \A p \in air : p[1] # u
  BY <1>0, PacketsOfType DEF UInv, FreshInv
<1>3. CASE inflight # NoUpload
  <2>1. /\ \A v \in All : phase'[v] = IF v = u THEN "refused" ELSE phase[v]
        /\ phase' \in [All -> Phases] /\ UNCHANGED <<inflight, air>>
    BY <1>0, <1>3 DEF Request, SendMagic, Refuses, UploadTypeOK, Phases
  <2>2. UploadTypeOK'
    BY <1>0, <1>1, <2>1 DEF UploadTypeOK, WireOK
  <2>3. FreshInv' /\ TransferInv' /\ TerminatingInv'
    BY <1>0, <2>1 DEF UInv, FreshInv, TransferInv, TerminatingInv, LastPacket, UploadTypeOK
  <2>4. AirInv'
    <3>1. \A p \in air : p[1] \in All
      BY <1>0 DEF UploadTypeOK
    <3> QED BY <1>0, <2>1, <3>1 DEF UInv, AirInv
  <2>5. OneUploadAtATime' /\ OffsetsAgree' /\ WholeInv' /\ UploadsStayApart' /\ DoneIsJustified'
    BY <1>0, <2>1 DEF UInv, OneUploadAtATime, OffsetsAgree, Mixed, WholeInv, UploadsStayApart, DoneIsJustified,
       Active, Confirming, All
  <2> QED BY <1>1, <2>2, <2>3, <2>4, <2>5 DEF UInv, WireOK
<1>4. CASE inflight = NoUpload
  <2>1. /\ \A v \in All : phase'[v] = IF v = u THEN "sending" ELSE phase[v]
        /\ phase' \in [All -> Phases]
        /\ inflight' = IF u \in Uploads THEN u ELSE inflight
        /\ air' = air \union {<<u, 0>>}
    BY <1>0, <1>4, UploadAssumption DEF Request, SendMagic, Posts, UploadTypeOK, Phases, Active
  <2>2. UploadTypeOK'
    <3>1. <<u, 0>> \in All \X (0..Packets)
      BY UploadAssumption
    <3> QED BY <1>0, <1>1, <2>1, <3>1 DEF UploadTypeOK, WireOK
  <2>3. FreshInv' /\ TransferInv' /\ TerminatingInv'
    BY <1>0, <1>2, <2>1 DEF UInv, FreshInv, TransferInv, TerminatingInv, LastPacket, UploadTypeOK
  <2>4. AirInv'
    <3>1. \A p \in air : p[1] \in All
      BY <1>0 DEF UploadTypeOK
    <3> QED BY <1>0, <1>2, <2>1, <3>1 DEF UInv, AirInv
  <2>5. OneUploadAtATime'
    BY <1>0, <1>4, <2>1, UploadAssumption DEF UInv, OneUploadAtATime, Active, Confirming, All
  <2>6. OffsetsAgree' /\ WholeInv' /\ UploadsStayApart' /\ DoneIsJustified'
    BY <1>0, <1>2, <2>1 DEF UInv, OffsetsAgree, Mixed, WholeInv, UploadsStayApart, DoneIsJustified, Confirming, All
  <2> QED BY <1>1, <2>2, <2>3, <2>4, <2>5, <2>6 DEF UInv, WireOK
<1> QED BY <1>3, <1>4

(* A packet is answered: another is sent, the last one ends the sending,   *)
(* or an abortion is noticed.                                              *)
LEMMA PacketAnsweredStep ==
  ASSUME UInv, NEW u \in Uploads, PacketAnswered(u)
  PROVE  UInv'
<1>0. /\ UploadTypeOK /\ phase[u] = "sending" /\ u \in replied /\ phase[u] \in Active /\ u \in All
      /\ replied' = replied \ {u}
      /\ UNCHANGED <<name, received, terminating, finalising, listed, mixed, asked, linkUp, wire, lastBusy>>
  BY DEF UInv, PacketAnswered, printerVars, wireVars, Active, All
<1>1. WireOK'
  BY <1>0, WireKept
<1>2. \A p \in air : p[1] # u
  BY <1>0 DEF UInv, AirInv
<1>3. CASE LastPacket(u)
  <2>1. received[u] = PacketsOf(u)
    BY <1>0, <1>3 DEF UInv, TransferInv
  <2>2. /\ phase' = [phase EXCEPT ![u] = "confirming"] /\ "confirming" \in Confirming
        /\ UNCHANGED <<inflight, next, air, aborted, rejected>>
    BY <1>3 DEF PacketAnswered, Confirming
  <2> QED BY <1>0, <1>1, <1>2, <2>1, <2>2, MovedOn DEF UploadTypeOK, printerVars
<1>4. CASE ~LastPacket(u) /\ u \in aborted
  <2>1. Failed(u) /\ UNCHANGED <<next, air>>
    BY <1>4 DEF PacketAnswered
  <2> QED BY <1>0, <1>1, <2>1, MovedOn DEF Failed, Settle, Confirming, UploadTypeOK, printerVars
<1>5. CASE ~LastPacket(u) /\ u \notin aborted
  <2>1. /\ next' = [next EXCEPT ![u] = @ + 1]
        /\ air' = air \union {<<u, next[u] + 1>>}
        /\ UNCHANGED <<phase, inflight, aborted, rejected>>
    BY <1>5 DEF PacketAnswered
  <2>2. next[u] \in Nat /\ next[u] + 1 < PacketsOf(u) /\ PacketsOf(u) \in 1..Packets
    BY <1>0, <1>5, PacketsOfType DEF UInv, TransferInv, LastPacket, UploadTypeOK
  <2>3. \A v \in All : next'[v] = IF v = u THEN next[u] + 1 ELSE next[v]
    BY <1>0, <2>1 DEF UploadTypeOK
  <2>4. UploadTypeOK'
    <3>1. next[u] + 1 \in 0..Packets
      BY <2>2, UploadAssumption
    <3>2. next' \in [All -> 0..Packets]
      BY <1>0, <2>1, <3>1 DEF UploadTypeOK
    <3> QED BY <1>0, <1>1, <2>1, <3>1, <3>2 DEF UploadTypeOK, WireOK
  <2>5. FreshInv' /\ TerminatingInv'
    BY <1>0, <2>1, <2>3 DEF UInv, FreshInv, TerminatingInv, UploadTypeOK
  <2>6. TransferInv'
    BY <1>0, <2>1, <2>2, <2>3 DEF UInv, TransferInv, LastPacket
  <2>7. AirInv'
    <3>1. \A p \in air : p[1] \in All /\ p[1] # u
      BY <1>0 DEF UploadTypeOK, UInv, AirInv
    <3> QED BY <1>0, <2>1, <2>2, <2>3, <3>1 DEF UInv, AirInv
  <2>8. OneUploadAtATime' /\ WholeInv' /\ UploadsStayApart' /\ DoneIsJustified'
    BY <1>0, <2>1 DEF UInv, OneUploadAtATime, WholeInv, UploadsStayApart, DoneIsJustified
  <2>9. OffsetsAgree'
    BY <1>0, <1>5, <2>1, <2>2, <2>3 DEF UInv, OffsetsAgree, Mixed
  <2> QED BY <1>1, <2>4, <2>5, <2>6, <2>7, <2>8, <2>9 DEF UInv, WireOK
<1> QED BY <1>3, <1>4, <1>5

(* The packet of a Magic File is answered. *)
LEMMA MagicSentStep ==
  ASSUME UInv, NEW m \in Magics, MagicSent(m)
  PROVE  UInv'
<1>1. /\ UploadTypeOK /\ m \in All /\ m \notin Uploads
      /\ phase[m] = "sending" /\ m \in replied /\ phase[m] \in Active
      /\ replied' = replied \ {m} /\ Settle(m, "done")
      /\ UNCHANGED <<name, next, aborted, rejected, air, printerVars, linkUp, asked, lastBusy, wire, listed>>
  BY UploadAssumption DEF UInv, MagicSent, printerVars, wireVars, Active, All
<1>2. WireOK'
  BY <1>1, WireKept
<1>3. LastPacket(m) /\ \A p \in air : p[1] # m
  BY <1>1 DEF UInv, AirInv, TransferInv, LastPacket, PacketsOf, UploadTypeOK
<1>4. received[m] = PacketsOf(m)
  BY <1>1, <1>3 DEF UInv, TransferInv
<1> QED BY <1>1, <1>2, <1>3, <1>4, MovedOn DEF Settle, Confirming, UploadTypeOK

(* POST /api/upload/cancel. *)
LEMMA CancelStep ==
  ASSUME UInv, Cancel
  PROVE  UInv'
<1>1. /\ inflight \in Uploads /\ phase[inflight] \in Active /\ inflight \in All
      /\ aborted' = aborted \union {inflight}
      /\ terminating' = terminating \/ terminating' = terminating \union {inflight}
      /\ UNCHANGED <<phase, name, next, replied, inflight, rejected, air, received, finalising,
                     listed, mixed, asked, linkUp, wire, lastBusy>>
  BY DEF UInv, UploadTypeOK, OneUploadAtATime, Cancel, Abort, wireVars, All
<1>2. WireOK'
  BY <1>1, WireKept
<1>3. UploadTypeOK'
  BY <1>1, <1>2 DEF UInv, UploadTypeOK, WireOK
<1>4. FreshInv' /\ TerminatingInv'
  BY <1>1 DEF UInv, FreshInv, TerminatingInv, Active, Confirming
<1>5. AirInv' /\ TransferInv'
  BY <1>1 DEF UInv, AirInv, TransferInv, LastPacket
<1>6. OneUploadAtATime' /\ OffsetsAgree' /\ WholeInv' /\ UploadsStayApart' /\ DoneIsJustified'
  BY <1>1 DEF UInv, OneUploadAtATime, OffsetsAgree, Mixed, WholeInv, UploadsStayApart, DoneIsJustified
<1> QED BY <1>2, <1>3, <1>4, <1>5, <1>6 DEF UInv, WireOK

(* A packet arrives: the one its request waits for, or a late one of a     *)
(* request that is over.                                                   *)
LEMMA PacketArrivesStep ==
  ASSUME UInv, NEW p \in air, PacketArrives(p)
  PROVE  UInv'
<1>0. /\ UploadTypeOK /\ air' = air \ {p}
      /\ UNCHANGED <<phase, name, next, inflight, aborted, rejected, terminating, listed,
                     asked, linkUp, wire, lastBusy>>
  BY DEF UInv, PacketArrives, wireVars
<1>1. WireOK'
  BY <1>0, WireKept
<1>2. PICK u \in All : u = p[1]
  BY <1>0 DEF UploadTypeOK
<1>3. /\ p[2] < PacketsOf(u) /\ phase[u] # "new"
      /\ phase[u] = "sending" => p[2] = next[u] /\ u \notin replied
      /\ PacketsOf(u) \in 1..Packets
  BY <1>2, PacketsOfType DEF UInv, AirInv, FreshInv
<1>4. CASE p[2] # received[u]
  <2>1. UNCHANGED <<received, finalising, replied, mixed>>
    BY <1>2, <1>4 DEF PacketArrives
  <2>2. UploadTypeOK'
    BY <1>0, <1>1, <2>1 DEF UploadTypeOK, WireOK
  <2>3. FreshInv' /\ AirInv' /\ TransferInv' /\ TerminatingInv'
    BY <1>0, <2>1 DEF UInv, FreshInv, AirInv, TransferInv, TerminatingInv, LastPacket
  <2>4. OneUploadAtATime' /\ OffsetsAgree' /\ WholeInv' /\ UploadsStayApart' /\ DoneIsJustified'
    BY <1>0, <2>1 DEF UInv, OneUploadAtATime, OffsetsAgree, Mixed, WholeInv, UploadsStayApart, DoneIsJustified
  <2> QED BY <1>1, <2>2, <2>3, <2>4 DEF UInv, WireOK
<1>5. CASE p[2] = received[u]
  <2>1. PICK met \in {{}, UnderWay \ {u}}, lost \in {{}, UnderWay \ {u}} :
          /\ lost \subseteq met
          /\ received' = [v \in All |-> IF v = u THEN received[u] + 1
                                        ELSE IF v \in lost THEN 0 ELSE received[v]]
          /\ mixed' = mixed \union {{u, v} : v \in met}
          /\ finalising' \subseteq finalising \union {u}
          /\ replied' = IF phase[u] = "sending" THEN replied \union {u} ELSE replied
    BY <1>2, <1>5 DEF PacketArrives
  <2>2. /\ received[u] \in Nat /\ received[u] + 1 \in 0..Packets /\ received[u] < PacketsOf(u)
        /\ received[u] + 1 <= PacketsOf(u)
    BY <1>0, <1>3, <1>5, UploadAssumption DEF UploadTypeOK
  <2>3. \A v \in All : received'[v] = IF v = u THEN received[u] + 1
                                       ELSE IF v \in lost THEN 0 ELSE received[v]
    BY <2>1
  <2>4. \A v \in met : /\ v \in All /\ v # u /\ received[v] # 0 /\ received[v] # PacketsOf(v)
                       /\ phase[v] \in {"sending", "failed"}
    <3> SUFFICES ASSUME NEW v \in met
                 PROVE  /\ v \in All /\ v # u /\ received[v] # 0 /\ received[v] # PacketsOf(v)
                        /\ phase[v] \in {"sending", "failed"}
      OBVIOUS
    <3>1. /\ v \in All /\ v # u /\ received[v] \in 1..(PacketsOf(v) - 1)
          /\ phase[v] = "sending" \/ \E q \in air : q[1] = v
      BY <2>1 DEF UnderWay
    <3>2. PacketsOf(v) \in 1..Packets
      BY <3>1, PacketsOfType
    <3>3. phase[v] \in {"sending", "failed"}
      BY <3>1 DEF UInv, AirInv
    <3> QED BY <3>1, <3>2, <3>3, UploadAssumption
  <2>5. UploadTypeOK'
    <3>1. received' \in [All -> 0..Packets]
      BY <1>0, <2>1, <2>2, UploadAssumption DEF UploadTypeOK
    <3>2. mixed' \subseteq SUBSET All
      <4>1. mixed \subseteq SUBSET All
        BY <1>0 DEF UploadTypeOK
      <4>2. \A v \in met : {u, v} \in SUBSET All
        BY <2>4
      <4> QED BY <2>1, <4>1, <4>2
    <3>3. finalising' \subseteq All /\ replied' \subseteq All
      BY <1>0, <2>1 DEF UploadTypeOK
    <3>4. air' \subseteq All \X (0..Packets)
      BY <1>0 DEF UploadTypeOK
    <3> QED BY <1>0, <1>1, <3>1, <3>2, <3>3, <3>4 DEF UploadTypeOK, WireOK
  <2>6. FreshInv' /\ TerminatingInv'
    BY <1>0, <1>3, <2>1, <2>3, <2>4 DEF UInv, FreshInv, TerminatingInv
  <2>7. TransferInv'
    <3> SUFFICES ASSUME NEW v \in All
                 PROVE  /\ next[v] < PacketsOf(v)
                        /\ received'[v] <= PacketsOf(v)
                        /\ phase[v] = "sending" /\ v \in replied' /\ LastPacket(v)
                             => received'[v] = PacketsOf(v)
      BY <1>0 DEF TransferInv, LastPacket
    <3>1. /\ next[v] < PacketsOf(v) /\ received[v] <= PacketsOf(v) /\ PacketsOf(v) \in 1..Packets
          /\ phase[v] = "sending" /\ v \in replied /\ LastPacket(v) => received[v] = PacketsOf(v)
      BY PacketsOfType DEF UInv, TransferInv
    <3>2. CASE v = u
      BY <1>3, <1>5, <2>1, <2>2, <2>3, <3>1, <3>2 DEF LastPacket
    <3>3. CASE v # u
      BY <2>1, <2>3, <2>4, <3>1, <3>3
    <3> QED BY <3>2, <3>3
  <2>8. AirInv'
    <3> SUFFICES ASSUME NEW q \in air \ {p}
                 PROVE  phase[q[1]] = "sending" => q[1] \notin replied'
      BY <1>0 DEF UInv, AirInv
    <3>1. CASE q[1] = u /\ phase[u] = "sending"
      <4>1. q = <<q[1], q[2]>> /\ p = <<p[1], p[2]>>
        BY <1>0 DEF UploadTypeOK
      <4> QED BY <1>2, <1>3, <3>1, <4>1 DEF UInv, AirInv
    <3>2. CASE ~(q[1] = u /\ phase[u] = "sending")
      BY <2>1, <3>2 DEF UInv, AirInv
    <3> QED BY <3>1, <3>2
  <2>9. OneUploadAtATime' /\ DoneIsJustified'
    BY <1>0 DEF UInv, OneUploadAtATime, DoneIsJustified
  <2>10. OffsetsAgree'
    <3> SUFFICES ASSUME NEW v \in All, phase[v] = "sending", v \notin aborted, ~Mixed(v)'
                 PROVE  received'[v] = next[v] + (IF v \in replied' THEN 1 ELSE 0)
      BY <1>0 DEF OffsetsAgree
    <3>1. mixed \subseteq mixed' /\ (v \in met => {u, v} \in mixed')
      BY <2>1
    <3>5. ~Mixed(v) /\ v \notin lost
      BY <2>1, <3>1 DEF Mixed
    <3>2. received[v] = next[v] + (IF v \in replied THEN 1 ELSE 0)
      BY <3>5 DEF UInv, OffsetsAgree
    <3>3. CASE v = u
      BY <1>0, <1>3, <1>5, <2>1, <2>2, <2>3, <3>3
    <3>4. CASE v # u
      BY <2>1, <2>3, <3>2, <3>4, <3>5
    <3> QED BY <3>3, <3>4
  <2>11. WholeInv'
    <3> SUFFICES ASSUME NEW v \in All, phase[v] \in Confirming \union {"done"}
                 PROVE  received'[v] = PacketsOf(v)
      BY <1>0 DEF WholeInv
    <3>1. received[v] = PacketsOf(v) /\ v # u /\ v \notin lost
      BY <1>2, <1>3, <2>1, <2>2, <2>4 DEF UInv, WholeInv
    <3> QED BY <2>3, <3>1
  <2>12. UploadsStayApart'
    <3> SUFFICES ASSUME NEW v \in met, u \in Uploads, v \in Uploads
                 PROVE  phase[u] = "failed" \/ phase[v] = "failed"
      BY <1>0, <2>1 DEF UInv, UploadsStayApart
    <3>1. phase[u] \in {"sending", "failed"} /\ phase[v] \in {"sending", "failed"} /\ u # v
      BY <1>2, <2>4 DEF UInv, AirInv
    <3> QED BY <3>1 DEF UInv, OneUploadAtATime, Active
  <2> QED BY <1>1, <2>5, <2>6, <2>7, <2>8, <2>9, <2>10, <2>11, <2>12 DEF UInv, WireOK
<1> QED BY <1>4, <1>5

LEMMA PacketLostStep ==
  ASSUME UInv, NEW p \in air, PacketLost(p)
  PROVE  UInv'
<1>0. /\ air' = air \ {p}
      /\ UNCHANGED <<phase, name, next, replied, inflight, aborted, rejected, received, terminating,
                     finalising, listed, mixed, asked, linkUp, wire, lastBusy>>
  BY DEF PacketLost, requestVars, printerVars, wireVars
<1>1. WireOK'
  BY <1>0, WireKept
<1>2. UploadTypeOK'
  BY <1>0, <1>1 DEF UInv, UploadTypeOK, WireOK
<1>3. FreshInv' /\ AirInv' /\ TransferInv' /\ TerminatingInv'
  BY <1>0 DEF UInv, FreshInv, AirInv, TransferInv, TerminatingInv, LastPacket
<1>4. OneUploadAtATime' /\ OffsetsAgree' /\ WholeInv' /\ UploadsStayApart' /\ DoneIsJustified'
  BY <1>0 DEF UInv, OneUploadAtATime, OffsetsAgree, Mixed, WholeInv, UploadsStayApart, DoneIsJustified
<1> QED BY <1>1, <1>2, <1>3, <1>4 DEF UInv, WireOK

(* Cmd 255 takes nothing from a transfer that is still being sent, nor     *)
(* from one that has arrived.                                              *)
LEMMA TerminatesStep ==
  ASSUME UInv, NEW u \in All, Terminates(u)
  PROVE  UInv'
<1>0. /\ UploadTypeOK /\ u \in terminating /\ terminating' = terminating \ {u}
      /\ UNCHANGED <<phase, name, next, replied, inflight, aborted, rejected, air, finalising,
                     listed, mixed, asked, linkUp, wire, lastBusy>>
  BY DEF UInv, Terminates, requestVars, wireVars
<1>1. WireOK'
  BY <1>0, WireKept
<1>2. \A v \in All : received'[v] = IF v = u /\ received[v] < PacketsOf(v) THEN 0 ELSE received[v]
  BY DEF Terminates, Named
<1>3. phase[u] # "new" /\ (phase[u] = "sending" => u \in aborted)
  BY <1>0 DEF UInv, FreshInv, TerminatingInv
<1>4. UploadTypeOK'
  <2>1. received' \in [All -> 0..Packets]
    BY <1>0, UploadAssumption DEF UploadTypeOK, Terminates
  <2> QED BY <1>0, <1>1, <2>1 DEF UploadTypeOK, WireOK
<1>5. FreshInv' /\ AirInv' /\ TerminatingInv'
  BY <1>0, <1>2 DEF UInv, FreshInv, AirInv, TerminatingInv
<1>6. TransferInv'
  BY <1>0, <1>2, PacketsOfType DEF UInv, TransferInv, LastPacket
<1>7. OneUploadAtATime' /\ UploadsStayApart' /\ DoneIsJustified'
  BY <1>0 DEF UInv, OneUploadAtATime, UploadsStayApart, DoneIsJustified
<1>8. OffsetsAgree'
  BY <1>0, <1>2, <1>3 DEF UInv, OffsetsAgree, Mixed
<1>9. WholeInv'
  BY <1>0, <1>2, PacketsOfType DEF UInv, WholeInv
<1> QED BY <1>1, <1>4, <1>5, <1>6, <1>7, <1>8, <1>9 DEF UInv, WireOK

-----------------------------------------------------------------------------
LEMMA UInvNext == UInv /\ [UploadNext]_uploadVars => UInv'
<1> SUFFICES ASSUME UInv, [UploadNext]_uploadVars PROVE UInv'
  OBVIOUS
<1>1. CASE UNCHANGED uploadVars
  BY <1>1, WireKept, QuietStep DEF UInv, UploadTypeOK, uploadVars, printerVars, wireVars
<1>2. ASSUME NEW u \in All,
             \/ PacketFails(u)
             \/ Checks(u) \/ ListTimesOut(u) \/ DeadlinePassed(u) \/ TriesAgain(u)
             \/ Accepts(u) \/ Rejects(u) \/ Terminates(u) \/ Lists(u)
      PROVE  UInv'
  BY <1>2, ConfirmSteps, QuietSteps, TerminatesStep
<1>5. ASSUME NEW u \in Uploads, Request(u) \/ PacketAnswered(u) PROVE UInv'
  <2>1. u \in All
    BY DEF All
  <2>2. CASE Request(u)
    BY <2>1, <2>2, RequestStep
  <2>3. CASE PacketAnswered(u)
    BY <2>3, PacketAnsweredStep
  <2> QED BY <1>5, <2>2, <2>3
<1>6. ASSUME NEW m \in Magics, SendMagic(m) \/ MagicSent(m) PROVE UInv'
  <2>1. m \in All
    BY DEF All
  <2> QED BY <1>6, <2>1, RequestStep, MagicSentStep
<1>3. CASE \E p \in air : PacketArrives(p) \/ PacketLost(p)
  BY <1>3, PacketArrivesStep, PacketLostStep
<1>4. CASE Cancel \/ Deliver \/ PushesStatus \/ LinkDrops \/ LinkOpens
  BY <1>4, CancelStep, DeliverStep, QuietSteps
<1> QED BY <1>1, <1>2, <1>3, <1>4, <1>5, <1>6 DEF UploadNext

LEMMA UInvariance == UploadSpec => []UInv
BY UInvInit, UInvNext, PTL DEF UploadSpec

(* Upload's variables have their types. *)
THEOREM UploadTypeCorrect == UploadSpec => []UploadTypeOK
<1>1. UInv => UploadTypeOK
  BY DEF UInv
<1> QED BY <1>1, UInvariance, PTL

(* The server has one upload in progress, and it is the one it shows and   *)
(* lets be cancelled, from its first packet to its verdict.                *)
THEOREM OneUpload == UploadSpec => []OneUploadAtATime
<1>1. UInv => OneUploadAtATime
  BY DEF UInv
<1> QED BY <1>1, UInvariance, PTL

(* The printer and the server agree on what has been sent of a transfer,   *)
(* whatever is cancelled, late or lost, unless the printer has mixed it up *)
(* with another; and of two uploads that it mixes up one has ended.        *)
THEOREM TransfersAgreed == UploadSpec => []TransfersAgree
<1>1. UInv => TransfersAgree
  BY DEF UInv, WholeInv, TransfersAgree, ConfirmsTheWhole
<1> QED BY <1>1, UInvariance, PTL

(* An upload is reported done only when its file is listed and no error    *)
(* was heard.                                                              *)
THEOREM DoneIsEarned == UploadSpec => []DoneIsJustified
<1>1. UInv => DoneIsJustified
  BY DEF UInv
<1> QED BY <1>1, UInvariance, PTL

=============================================================================

------------------------------- MODULE Upload -------------------------------
(***************************************************************************)
(* Uploads to the printer: POST /api/upload with its one-at-a-time guard   *)
(* and its cancellation, POST /api/magic/:id/send (app.ts), the packets of *)
(* uploadFile (files.ts), and confirmUploaded (client.ts), which waits for *)
(* the printer's verdict.                                                  *)
(*                                                                         *)
(* Packets go over HTTP; the verdict, the printer's status and its file    *)
(* list come over the WebSocket, in the order they were sent there, and    *)
(* nothing orders the two connections.  Clocks are left out: a deadline    *)
(* passes whenever it may.                                                 *)
(***************************************************************************)
EXTENDS Naturals, Sequences

CONSTANTS
  Uploads,      \* requests to POST /api/upload
  Magics,       \* requests to POST /api/magic/:id/send
  NoUpload,     \* undefined
  Names,        \* names of print files
  Packets,      \* packets in an upload; a Magic File takes one
  MaxWire       \* bound: messages on the WebSocket

ASSUME UploadAssumption ==
  /\ NoUpload \notin Uploads
  /\ Uploads \intersect Magics = {}
  /\ Packets \in Nat \ {0}
  /\ MaxWire \in Nat

VARIABLES
  phase,        \* how far each request has got
  name,         \* the file it uploads
  next,         \* the packet it is sending
  replied,      \* requests whose packet has been answered with success
  inflight,     \* the upload in progress, in buildApp
  aborted,      \* uploads whose AbortController has fired
  rejected,     \* confirmUploaded's local: a printer error was heard
  air,          \* packets on their way to the printer
  received,     \* the printer: packets it has of each transfer
  terminating,  \* transfers the printer is being asked to abandon
  finalising,   \* transfers it has all of, and is checking
  listed,       \* the names Cmd 258 lists
  mixed,        \* pairs of transfers whose packets it has mixed up
  asked,        \* uploads whose file list the printer has yet to send
  linkUp,       \* whether the WebSocket is open
  wire,         \* messages on it, to the server
  lastBusy      \* SdcpClient.lastStatus, whether it says FileTransferring

requestVars == <<phase, name, next, replied, inflight, aborted, rejected>>
printerVars == <<received, terminating, finalising, listed, mixed>>
wireVars == <<asked, linkUp, wire, lastBusy>>
uploadVars == <<requestVars, air, printerVars, wireVars>>

All == Uploads \union Magics

PacketsOf(u) == IF u \in Uploads THEN Packets ELSE 1

Confirming == {"confirming", "listing", "missed"}
Active == {"sending"} \union Confirming
Phases == {"new", "refused", "done", "failed"} \union Active

StatusFrame(busy) == [kind |-> "status", busy |-> busy]
ErrorFrame == [kind |-> "error"]
ListFrame(u) == [kind |-> "list", of |-> u, names |-> listed]

Frames ==
  [kind : {"status"}, busy : BOOLEAN] \union [kind : {"error"}]
    \union [kind : {"list"}, of : All, names : SUBSET Names]

UploadInit ==
  /\ phase = [u \in All |-> "new"]
  /\ name \in [All -> Names]
  /\ next = [u \in All |-> 0]
  /\ replied = {}
  /\ inflight = NoUpload
  /\ aborted = {}
  /\ rejected = {}
  /\ air = {}
  /\ received = [u \in All |-> 0]
  /\ terminating = {}
  /\ finalising = {}
  /\ listed \in SUBSET Names
  /\ mixed = {}
  /\ asked = {}
  /\ linkUp = TRUE
  /\ wire = <<>>
  /\ lastBusy = FALSE

-----------------------------------------------------------------------------
(* Faulty variants, used to check that the properties notice them.         *)
(* SlotTakenByAbort: cancelling frees the slot at once.                    *)
SlotTakenByAbort(u) == aborted' = aborted \union {u} /\ inflight' = NoUpload

(* ByName: the printer is told the filename of what it is to abandon, and  *)
(* not the uuid.                                                           *)
ByName(u) == {v \in All : name[v] = name[u] /\ received[v] > 0}

(* HeardTooEarly: an error that comes while the list is on its way is      *)
(* forgotten.                                                              *)
HeardTooEarly(u) == phase[u] = "confirming" /\ u \in rejected

-----------------------------------------------------------------------------
(* The end of a request.  The finally clause of POST /api/upload clears    *)
(* inflight; the magic send has never set it.                              *)
Freed(u, how) == IF u \in Uploads THEN NoUpload ELSE inflight

Settle(u, how) ==
  /\ phase' = [phase EXCEPT ![u] = how]
  /\ inflight' = Freed(u, how)

(* A cancelled upload ends the same way, but for the status of the reply.  *)
(* The controller and the listener for errors go with the request.         *)
Failed(u) ==
  /\ Settle(u, "failed")
  /\ aborted' = aborted \ {u}
  /\ rejected' = rejected \ {u}

Refuses(u) ==
  phase' = [phase EXCEPT ![u] = "refused"] /\ UNCHANGED air

Posts(u) ==
  phase' = [phase EXCEPT ![u] = "sending"] /\ air' = air \union {<<u, 0>>}

(* POST /api/upload, as far as its first await: it takes the one place.    *)
Request(u) ==
  /\ phase[u] = "new"
  /\ \/ inflight # NoUpload /\ Refuses(u) /\ UNCHANGED inflight
     \/ inflight = NoUpload /\ Posts(u) /\ inflight' = u
  /\ UNCHANGED <<name, next, replied, aborted, rejected, printerVars, wireVars>>

(* The magic send, as far as its first await: it asks whether the place is *)
(* free, and does not take it.                                             *)
SendMagic(m) ==
  /\ phase[m] = "new"
  /\ IF inflight # NoUpload THEN Refuses(m) ELSE Posts(m)
  /\ UNCHANGED <<name, next, replied, inflight, aborted, rejected, printerVars, wireVars>>

LastPacket(u) == next[u] + 1 = PacketsOf(u)

(* The one packet of a Magic File is answered, and so is the request:      *)
(* nobody waits for a verdict.                                             *)
MagicSent(m) ==
  /\ phase[m] = "sending" /\ m \in replied
  /\ replied' = replied \ {m}
  /\ Settle(m, "done")
  /\ UNCHANGED <<name, next, aborted, rejected, air, printerVars, wireVars>>

(* postPacket resolves.  Another packet is posted unless the signal has    *)
(* been aborted; after the last one, abortion goes unnoticed.              *)
PacketAnswered(u) ==
  /\ phase[u] = "sending" /\ u \in replied
  /\ replied' = replied \ {u}
  /\ \/ /\ LastPacket(u)
        /\ phase' = [phase EXCEPT ![u] = "confirming"]
        /\ UNCHANGED <<inflight, next, air, aborted, rejected>>
     \/ /\ ~LastPacket(u) /\ u \in aborted
        /\ Failed(u)
        /\ UNCHANGED <<next, air>>
     \/ /\ ~LastPacket(u) /\ u \notin aborted
        /\ next' = [next EXCEPT ![u] = @ + 1]
        /\ air' = air \union {<<u, next[u] + 1>>}
        /\ UNCHANGED <<phase, inflight, aborted, rejected>>
  /\ UNCHANGED <<name, printerVars, wireVars>>

(* postPacket rejects, because of the network or the abortion, or the      *)
(* printer refuses the packet.  A packet under way may arrive yet.         *)
PacketFails(u) ==
  /\ phase[u] = "sending"
  /\ Failed(u)
  /\ replied' = replied \ {u}
  /\ UNCHANGED <<name, next, air, printerVars, wireVars>>

(* controller.abort *)
Abort(u) == aborted' = aborted \union {u} /\ UNCHANGED inflight

(* POST /api/upload/cancel.  Whether the printer obeys changes the answer  *)
(* only, and nothing here.                                                 *)
Cancel ==
  /\ inflight # NoUpload
  /\ Abort(inflight)
  /\ terminating' = IF linkUp THEN terminating \union {inflight} ELSE terminating
  /\ UNCHANGED <<phase, name, next, replied, rejected, air, received, finalising,
                 listed, mixed, wireVars>>

-----------------------------------------------------------------------------
Heard(u) == u \in rejected

(* confirmUploaded, at the top of its loop: a rejection that was heard, a  *)
(* printer that is at work, or a request for the file list, which fails    *)
(* when the WebSocket is down.                                             *)
Checks(u) ==
  /\ phase[u] = "confirming"
  /\ Heard(u) \/ ~lastBusy
  /\ IF Heard(u) \/ ~linkUp
     THEN Failed(u) /\ UNCHANGED asked
     ELSE /\ phase' = [phase EXCEPT ![u] = "listing"]
          /\ asked' = asked \union {u}
          /\ UNCHANGED <<inflight, aborted, rejected>>
  /\ UNCHANGED <<name, next, replied, air, printerVars, linkUp, wire, lastBusy>>

(* The request for the list is not answered in time. *)
ListTimesOut(u) ==
  /\ phase[u] = "listing"
  /\ Failed(u)
  /\ UNCHANGED <<name, next, replied, air, printerVars, wireVars>>

(* The file is not listed: the deadline has passed, or the loop goes on. *)
DeadlinePassed(u) ==
  /\ phase[u] = "missed"
  /\ Failed(u)
  /\ UNCHANGED <<name, next, replied, air, printerVars, wireVars>>

TriesAgain(u) ==
  /\ phase[u] = "missed"
  /\ phase' = [phase EXCEPT ![u] = "confirming"]
  /\ UNCHANGED <<name, next, replied, inflight, aborted, rejected, air, printerVars, wireVars>>

(* The list has come: an error heard meanwhile counts first. *)
ListAnswered(m) ==
  LET u == m.of IN
  /\ IF phase[u] = "listing" /\ Heard(u) THEN Failed(u)
     ELSE /\ UNCHANGED <<aborted, rejected>>
          /\ IF phase[u] # "listing" THEN UNCHANGED <<phase, inflight>>
             ELSE IF name[u] \in m.names THEN Settle(u, "done")
             ELSE phase' = [phase EXCEPT ![u] = "missed"] /\ UNCHANGED inflight
  /\ UNCHANGED lastBusy

(* A message over the WebSocket.  Every upload that is being confirmed     *)
(* takes an error for its own.                                             *)
Deliver ==
  /\ linkUp /\ wire # <<>>
  /\ wire' = Tail(wire)
  /\ LET m == Head(wire) IN
       \/ /\ m.kind = "status"
          /\ lastBusy' = m.busy
          /\ UNCHANGED <<phase, inflight, aborted, rejected>>
       \/ /\ m.kind = "error"
          /\ rejected' = rejected \union {u \in All : phase[u] \in Confirming}
          /\ UNCHANGED <<phase, inflight, aborted, lastBusy>>
       \/ m.kind = "list" /\ ListAnswered(m)
  /\ UNCHANGED <<name, next, replied, air, printerVars, asked, linkUp>>

-----------------------------------------------------------------------------
(* Transfers the printer has begun, and that have packets to come. *)
UnderWay ==
  {v \in All : /\ received[v] \in 1..(PacketsOf(v) - 1)
              /\ (phase[v] = "sending" \/ \E p \in air : p[1] = v)}

(* The printer reassembles a transfer by offset, and answers a packet      *)
(* before it has checked the whole.  The fake printer keeps what it has    *)
(* under the uuid of each; the real one is said to have one place to put   *)
(* transfers together (app.ts:406-408), where a packet meets what is there *)
(* of the others: it is mixed up with them, and they may lose their place. *)
(* Either printer may be at the other end.                                 *)
PacketArrives(p) ==
  LET u == p[1] whole == received[u] + 1 = PacketsOf(u) IN
  /\ p \in air
  /\ air' = air \ {p}
  /\ IF p[2] # received[u] THEN UNCHANGED <<received, finalising, replied, mixed>>
     ELSE \E met \in {{}, UnderWay \ {u}} : \E lost \in {{}, met} :
          /\ received' = [v \in All |-> IF v = u THEN received[u] + 1
                                        ELSE IF v \in lost THEN 0 ELSE received[v]]
          /\ mixed' = mixed \union {{u, v} : v \in met}
          /\ finalising' = IF whole THEN finalising \union {u} ELSE finalising
          /\ replied' = IF phase[u] = "sending" THEN replied \union {u} ELSE replied
  /\ UNCHANGED <<phase, name, next, inflight, aborted, rejected, terminating,
                 listed, wireVars>>

PacketLost(p) ==
  /\ p \in air /\ phase[p[1]] # "sending"
  /\ air' = air \ {p}
  /\ UNCHANGED <<requestVars, printerVars, wireVars>>

Says(m) == wire' = IF linkUp THEN Append(wire, m) ELSE wire

HasRoom == linkUp => Len(wire) < MaxWire

Mixed(u) == \E pair \in mixed : u \in pair

(* The check passes, as no file does that has packets of another in it:    *)
(* the file is there, though a Magic File is not listed.                   *)
Accepts(u) ==
  /\ u \in finalising /\ ~Mixed(u)
  /\ finalising' = finalising \ {u}
  /\ listed' = IF u \in Uploads THEN listed \union {name[u]} ELSE listed
  /\ UNCHANGED <<requestVars, air, received, terminating, mixed, wireVars>>

(* The check fails: the file is deleted, and an error pushed. *)
Rejects(u) ==
  /\ u \in finalising /\ HasRoom
  /\ finalising' = finalising \ {u}
  /\ Says(ErrorFrame)
  /\ UNCHANGED <<requestVars, air, received, terminating, listed, mixed, asked,
                 linkUp, lastBusy>>

(* Which transfers Cmd 255 names. *)
Named(u) == {u}

(* Cmd 255: an unfinished transfer is forgotten. *)
Terminates(u) ==
  /\ u \in terminating
  /\ terminating' = terminating \ {u}
  /\ received' = [v \in All |-> IF v \in Named(u) /\ received[v] < PacketsOf(v)
                                THEN 0 ELSE received[v]]
  /\ UNCHANGED <<requestVars, air, finalising, listed, mixed, wireVars>>

(* Cmd 258 *)
Lists(u) ==
  /\ u \in asked /\ linkUp /\ HasRoom
  /\ asked' = asked \ {u}
  /\ Says(ListFrame(u))
  /\ UNCHANGED <<requestVars, air, printerVars, linkUp, lastBusy>>

(* A status frame: FileTransferring while a file is coming in or checked. *)
PushesStatus ==
  /\ linkUp /\ HasRoom
  /\ Says(StatusFrame(finalising # {} \/ \E u \in All : phase[u] = "sending" /\ received[u] > 0))
  /\ UNCHANGED <<requestVars, air, printerVars, asked, linkUp, lastBusy>>

(* The WebSocket closes, and what is on it is lost; or it opens again. *)
LinkDrops ==
  /\ linkUp
  /\ linkUp' = FALSE /\ wire' = <<>> /\ asked' = {}
  /\ terminating' \in SUBSET terminating
  /\ UNCHANGED <<requestVars, air, received, finalising, listed, mixed, lastBusy>>

LinkOpens ==
  /\ ~linkUp
  /\ linkUp' = TRUE
  /\ UNCHANGED <<requestVars, air, printerVars, asked, wire, lastBusy>>

UploadNext ==
  \/ \E u \in Uploads : Request(u) \/ PacketAnswered(u)
  \/ \E m \in Magics : SendMagic(m) \/ MagicSent(m)
  \/ \E u \in All : \/ PacketFails(u)
                    \/ Checks(u) \/ ListTimesOut(u) \/ DeadlinePassed(u) \/ TriesAgain(u)
                    \/ Accepts(u) \/ Rejects(u) \/ Terminates(u) \/ Lists(u)
  \/ \E p \in air : PacketArrives(p) \/ PacketLost(p)
  \/ Cancel \/ Deliver \/ PushesStatus \/ LinkDrops \/ LinkOpens

UploadSpec == UploadInit /\ [][UploadNext]_uploadVars

-----------------------------------------------------------------------------
(* Type correctness. *)
UploadTypeOK ==
  /\ phase \in [All -> Phases]
  /\ name \in [All -> Names]
  /\ next \in [All -> 0..Packets]
  /\ received \in [All -> 0..Packets]
  /\ inflight \in Uploads \union {NoUpload}
  /\ aborted \subseteq Uploads
  /\ air \subseteq All \X (0..Packets)
  /\ \A S \in {replied, rejected, terminating, finalising, asked} : S \subseteq All
  /\ listed \subseteq Names /\ mixed \subseteq SUBSET All
  /\ linkUp \in BOOLEAN /\ lastBusy \in BOOLEAN
  /\ wire \in Seq(Frames) /\ Len(wire) <= MaxWire

(* Exactly one upload at a time (app.ts:406): the one in progress is the   *)
(* one the server shows and lets be cancelled, from its first packet to    *)
(* the printer's verdict, and no longer.                                   *)
OneUploadAtATime ==
  \A u \in Uploads : phase[u] \in Active <=> inflight = u

(* The printer's count of a live transfer's packets is the client's: no    *)
(* packet is refused for its offset (code -2), whatever is cancelled.      *)
OffsetsAgree ==
  \A u \in All : phase[u] = "sending" /\ u \notin aborted /\ ~Mixed(u) =>
    received[u] = next[u] + (IF u \in replied THEN 1 ELSE 0)

(* An upload waits for a verdict, and is answered as done, only after the  *)
(* printer has had the whole of it.                                        *)
ConfirmsTheWhole ==
  \A u \in All : phase[u] \in Confirming \union {"done"} /\ ~Mixed(u) =>
    received[u] = PacketsOf(u)

(* Two uploads never interleave at the printer while both go on: it had a  *)
(* packet of one that had ended, at most, when the next had begun.         *)
UploadsStayApart ==
  \A pair \in mixed : pair \subseteq Uploads => \E u \in pair : phase[u] = "failed"

(* The printer and the server agree on what was sent (files.ts:280),       *)
(* unless the printer has mixed it up with another transfer: which happens *)
(* to no two uploads that go on (app.ts:406-408), but to a Magic File and  *)
(* an upload it may (TransfersStayApart).                                  *)
TransfersAgree == OffsetsAgree /\ ConfirmsTheWhole /\ UploadsStayApart

(* The same of every pair of transfers, as the comment at app.ts:623-626   *)
(* has it: the magic send shares the one-at-a-time guard.  It does not     *)
(* take the place it finds free, and an upload that begins during it is    *)
(* mixed up with it.                                                       *)
TransfersStayApart ==
  \A pair \in mixed : \E u \in pair : phase[u] = "failed"

(* An upload is reported done only if its file is listed and no error was  *)
(* heard while it was being confirmed, however late.                       *)
DoneIsJustified ==
  \A u \in Uploads : phase[u] = "done" => name[u] \in listed /\ u \notin rejected

=============================================================================

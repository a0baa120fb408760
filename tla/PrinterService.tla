--------------------------- MODULE PrinterService ---------------------------
(***************************************************************************)
(* apps/server/src/printer.ts over SdcpClient, with the search of          *)
(* packages/sdcp/src/discovery.ts: PrinterService finds the printer once,  *)
(* connects to it for good, and tells the store whether it is connected    *)
(* and to whom.  stop() may come at any time, also during the search.      *)
(*                                                                         *)
(* Before there is a client, SdcpClient's variables are those of one that  *)
(* is closed.                                                              *)
(***************************************************************************)
EXTENDS SdcpClient, Sequences, SequencesExt

CONSTANTS
  Printers,    \* the printers that may answer a search; each has one
               \* address and one mainboard id
  NoPrinter    \* no PRINTER_IP, no id

VARIABLES
  pinned,        \* config.printerIp
  discovery,     \* config.discoveryEnabled
  startPhase,    \* how far start() has come
  found,         \* discover's found, in the order of its Map
  client,        \* whether PrinterService.client is defined
  stopped,       \* stop() has been called
  targetId,      \* target.mainboardId
  mainboardId,   \* client.mainboardId
  connected,     \* the store's view.connected
  viewId         \* the store's view.mainboardId

startVars == <<pinned, discovery, startPhase, found, targetId>>
storeVars == <<mainboardId, connected, viewId>>
serviceVars == <<sdcpVars, startVars, client, stopped, storeVars>>

Ids == Printers \union {NoPrinter}

ServiceInit ==
  /\ pinned \in Ids
  /\ discovery \in BOOLEAN
  /\ startPhase = "resolving"
  /\ found = <<>>
  /\ client = FALSE
  /\ stopped = FALSE
  /\ targetId = NoPrinter
  /\ mainboardId = NoPrinter
  /\ connected = FALSE
  /\ viewId = NoPrinter
  /\ socket = NoSocket
  /\ state = [s \in Sockets |-> "gone"]
  /\ heartbeatTimer = FALSE
  /\ reconnectTimer = FALSE
  /\ reconnectDelay = MinDelay
  /\ closedByUser = TRUE
  /\ pending = {}
  /\ wire = {}

-----------------------------------------------------------------------------
(* Faulty variants, used to check that the properties notice them.         *)
(* FirstOnly: the printer has to answer the search, pinned or not.         *)
FirstOnly(answers) == IF answers = <<>> THEN NoPrinter ELSE Head(answers)

(* StaysConnected: nobody listens to 'close'.                              *)
StaysConnected == UNCHANGED <<connected, viewId>>

-----------------------------------------------------------------------------
(* A reply to the broadcast; a printer that answers twice counts once.     *)
Hears(p) ==
  /\ startPhase = "resolving" /\ discovery
  /\ p \notin Range(found)
  /\ found' = Append(found, p)
  /\ UNCHANGED <<sdcpVars, pinned, discovery, startPhase, targetId, client, stopped, storeVars>>

(* resolve: the pinned address, found or not, or whoever answered first.   *)
Target(answers) ==
  IF pinned # NoPrinter THEN pinned
  ELSE IF answers = <<>> THEN NoPrinter ELSE Head(answers)

(* The id is known only of a printer that has answered. *)
IdOf(answers) ==
  IF Target(answers) \in Range(answers) THEN Target(answers) ELSE NoPrinter

(* The store's setConnection, which keeps the id it is given none for. *)
SetConnection(on, id) == connected' = on /\ viewId' = id

(* start, once the search is over: for good, if there is nobody to connect *)
(* to, whether or not the service was stopped meanwhile.                   *)
Starts(answers) ==
  /\ startPhase = "resolving"
  /\ IF Target(answers) = NoPrinter
     THEN /\ startPhase' = "nowhere"
          /\ SetConnection(FALSE, viewId)
          /\ UNCHANGED <<sdcpVars, client, targetId, mainboardId>>
     ELSE /\ startPhase' = "started"
          /\ client' = TRUE
          /\ targetId' = IdOf(answers)
          /\ mainboardId' = IdOf(answers)
          /\ \E s \in Sockets : Connect(s)
          /\ UNCHANGED <<heartbeatTimer, reconnectTimer, reconnectDelay, pending, wire,
                         connected, viewId>>
  /\ UNCHANGED <<pinned, discovery, found, stopped>>

(* discover's timer. *)
SearchEnds == discovery /\ Starts(found)

(* The socket of the search fails, or the broadcast does: what was found   *)
(* is lost.                                                                *)
SearchFails == discovery /\ Starts(<<>>)

(* tryDiscover, with discovery switched off. *)
NoSearch == ~discovery /\ Starts(<<>>)

-----------------------------------------------------------------------------
UnchangedService == UNCHANGED <<startVars, client, stopped>>

(* The listener of 'open'. *)
OnOpen == SetConnection(TRUE, targetId)

(* The listener of 'close'. *)
OnClose == SetConnection(FALSE, viewId)

ClientOpens(s) ==
  /\ Open(s)
  /\ OnOpen
  /\ UNCHANGED mainboardId

ClientCloses(s) ==
  /\ SocketClosed(s)
  /\ OnClose
  /\ UNCHANGED mainboardId

(* Everything else the client does says nothing to the store. *)
ClientStep ==
  /\ \/ \E r \in Requests : (client /\ Send(r)) \/ TimedOut(r)
     \/ \E s \in Sockets : Fails(s)
     \/ \E m \in wire : Answered(m)
     \/ Reconnect
  /\ UNCHANGED storeVars

(* The client's handler of attributes, and the service's listener after it. *)
Adopts(p) ==
  /\ mainboardId' = IF mainboardId = NoPrinter THEN p ELSE mainboardId
  /\ SetConnection(TRUE, mainboardId')

(* An attributes frame, the last of a socket that is being closed, too:    *)
(* the client adopts the id if it has none, and the store is told it.      *)
Attributes(s, p) ==
  /\ state[s] = "open" \/ (state[s] = "closing" /\ connected)
  /\ p \in IF mainboardId = NoPrinter
           THEN (IF pinned = NoPrinter THEN Printers ELSE {pinned}) ELSE {mainboardId}
  /\ Adopts(p)
  /\ UNCHANGED sdcpVars

(* stop: a client that is still to be made is not stopped.                 *)
Stop ==
  /\ ~stopped
  /\ stopped' = TRUE
  /\ client' = FALSE
  /\ IF client THEN Close ELSE UNCHANGED sdcpVars
  /\ UNCHANGED <<startVars, storeVars>>

ServiceNext ==
  \/ \E p \in Printers : Hears(p)
  \/ SearchEnds
  \/ SearchFails
  \/ NoSearch
  \/ \E s \in Sockets : (ClientOpens(s) \/ ClientCloses(s)) /\ UnchangedService
  \/ ClientStep /\ UnchangedService
  \/ \E s \in Sockets, p \in Printers : Attributes(s, p) /\ UnchangedService
  \/ Stop

ServiceSpec == ServiceInit /\ [][ServiceNext]_serviceVars

(* The search has a timer; a timer that is set fires, and a connection     *)
(* that is lost is noticed.                                                *)
ServiceFairness ==
  /\ WF_serviceVars(SearchEnds \/ SearchFails \/ NoSearch)
  /\ \A r \in Requests : WF_serviceVars(TimedOut(r) /\ UNCHANGED storeVars /\ UnchangedService)
  /\ \A s \in Sockets : WF_serviceVars(ClientCloses(s) /\ UnchangedService)
  /\ WF_serviceVars(Reconnect /\ UNCHANGED storeVars /\ UnchangedService)

ServiceFairSpec == ServiceSpec /\ ServiceFairness

-----------------------------------------------------------------------------
(* What the store says of the connection is true: connected from the open  *)
(* of a socket until its end, whatever comes late, and whoever stops.      *)
ConnectedIsTrue ==
  /\ \A s \in Sockets : state[s] = "open" => connected
  /\ connected => \E s \in Sockets : ~Gone(s)

(* A printer whose address is pinned is connected to, and again and again, *)
(* until the service is stopped: a search that fails, finds another, or is *)
(* switched off costs nothing but the id it would have learnt              *)
(* (printer.ts:22-24).                                                     *)
KeepsTrying == [](pinned # NoPrinter => <>(socket # NoSocket \/ stopped))

=============================================================================

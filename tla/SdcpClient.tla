----------------------------- MODULE SdcpClient -----------------------------
(***************************************************************************)
(* packages/sdcp/src/client.ts: the transport of SdcpClient, as            *)
(* PrinterService uses it: connected once, reconnecting by itself whenever *)
(* a socket closes, and closed once, for good.                             *)
(*                                                                         *)
(* A socket is "failing" from the moment the connection is lost until its  *)
(* 'close' event, and "closing" from SdcpClient.close() until then.  It is *)
(* "gone" before it is made and after its 'close' event, so that a few     *)
(* names are enough for any number of reconnections; likewise the names of *)
(* requests.                                                               *)
(***************************************************************************)
EXTENDS Naturals, FiniteSets

CONSTANTS
  Sockets,
  NoSocket,     \* undefined
  Requests,     \* RequestIDs
  MinDelay,     \* reconnectMinMs
  MaxDelay      \* reconnectMaxMs

ASSUME NoSocketAssumption == NoSocket \notin Sockets
ASSUME DelayAssumption == MinDelay \in Nat \ {0} /\ MaxDelay \in Nat /\ MinDelay <= MaxDelay

VARIABLES
  socket,           \* SdcpClient.socket
  state,            \* the state of every WebSocket
  heartbeatTimer,   \* whether the heartbeat is running
  reconnectTimer,   \* whether a reconnection is due
  reconnectDelay,
  closedByUser,
  pending,          \* the keys of SdcpClient.pending
  wire              \* requests the printer has, or whose answer is on its way

sdcpVars == <<socket, state, heartbeatTimer, reconnectTimer, reconnectDelay,
              closedByUser, pending, wire>>

SocketStates == {"gone", "connecting", "open", "failing", "closing"}

Gone(s) == state[s] = "gone"

(* A RequestID nobody has used, or whose use is over. *)
Fresh(r) == r \notin pending /\ \A m \in wire : m.request # r

(* connect: a socket is made. *)
Connect(s) ==
  /\ Gone(s)
  /\ socket' = s
  /\ state' = [state EXCEPT ![s] = "connecting"]
  /\ closedByUser' = FALSE

(* PrinterService.start has just called connect for the first time. *)
SdcpInit ==
  /\ socket \in Sockets
  /\ state = [s \in Sockets |-> IF s = socket THEN "connecting" ELSE "gone"]
  /\ heartbeatTimer = FALSE
  /\ reconnectTimer = FALSE
  /\ reconnectDelay = MinDelay
  /\ closedByUser = FALSE
  /\ pending = {}
  /\ wire = {}

-----------------------------------------------------------------------------
(* Faulty variants, used to check that the properties notice them.         *)
(* SchedulesWhileQuick: it gives up once the delay is at its longest.      *)
SchedulesWhileQuick == ~closedByUser /\ ~reconnectTimer /\ reconnectDelay < MaxDelay

(* ErrorSchedules: an 'error' event schedules a reconnection, too.         *)
ErrorSchedules == reconnectTimer' = ~closedByUser

(* ExpiresIfConnected: the timers of requests stop with the connection.    *)
ExpiresIfConnected(r) == r \in pending /\ socket # NoSocket

-----------------------------------------------------------------------------
(* teardownSocket *)
TeardownSocket == socket' = NoSocket /\ heartbeatTimer' = FALSE

(* send, over a socket that is open or has failed unnoticed; what is sent  *)
(* over the latter goes nowhere.  Without a socket, or over one that is    *)
(* not open yet, send rejects at once and leaves nothing behind.           *)
Sends(R) ==
  /\ \A r \in R : Fresh(r)
  /\ pending' = pending \union R
  /\ wire' = IF socket # NoSocket /\ state'[socket] = "open"
             THEN wire \union [socket : {socket}, request : R] ELSE wire

CanSend == socket # NoSocket /\ state[socket] \in {"open", "failing"}

Send(r) ==
  /\ CanSend
  /\ UNCHANGED <<socket, state, heartbeatTimer, reconnectTimer, reconnectDelay, closedByUser>>
  /\ Sends({r})

(* 'open', and PrinterService's listener, which asks for the attributes    *)
(* and the status (or less, in the model, if names have run out).          *)
Open(s) ==
  /\ state[s] = "connecting"
  /\ state' = [state EXCEPT ![s] = "open"]
  /\ reconnectDelay' = MinDelay
  /\ heartbeatTimer' = TRUE
  /\ UNCHANGED <<socket, reconnectTimer, closedByUser>>
  /\ \E R \in SUBSET Requests : Cardinality(R) <= 2 /\ Sends(R)

(* The 'error' event rejects the promise of connect, and changes nothing. *)
ErrorEvent == UNCHANGED reconnectTimer

(* The connection is refused or lost. *)
Fails(s) ==
  /\ state[s] \in {"connecting", "open"}
  /\ state' = [state EXCEPT ![s] = "failing"]
  /\ wire' = {m \in wire : m.socket # s}
  /\ ErrorEvent
  /\ UNCHANGED <<socket, heartbeatTimer, reconnectDelay, closedByUser, pending>>

Doubled(delay) == IF 2 * delay < MaxDelay THEN 2 * delay ELSE MaxDelay

SchedulesReconnect == ~closedByUser /\ ~reconnectTimer

(* 'close': teardownSocket, then scheduleReconnect.  What was waiting for  *)
(* an answer goes on waiting.                                              *)
SocketClosed(s) ==
  /\ state[s] \in {"failing", "closing"}
  /\ state' = [state EXCEPT ![s] = "gone"]
  /\ TeardownSocket
  /\ reconnectTimer' = (reconnectTimer \/ SchedulesReconnect)
  /\ reconnectDelay' = IF SchedulesReconnect THEN Doubled(reconnectDelay) ELSE reconnectDelay
  /\ wire' = {m \in wire : m.socket # s}
  /\ UNCHANGED <<closedByUser, pending>>

Reconnect ==
  /\ reconnectTimer
  /\ reconnectTimer' = FALSE
  /\ \E s \in Sockets : Connect(s)
  /\ UNCHANGED <<heartbeatTimer, reconnectDelay, pending, wire>>

(* An answer: resolvePending ignores one that is no longer awaited. *)
Answered(m) ==
  /\ m \in wire
  /\ state[m.socket] \in {"open", "closing"}
  /\ wire' = wire \ {m}
  /\ pending' = pending \ {m.request}
  /\ UNCHANGED <<socket, state, heartbeatTimer, reconnectTimer, reconnectDelay, closedByUser>>

Expires(r) == r \in pending

(* The timer of one request. *)
TimedOut(r) ==
  /\ Expires(r)
  /\ pending' = pending \ {r}
  /\ UNCHANGED <<socket, state, heartbeatTimer, reconnectTimer, reconnectDelay,
                 closedByUser, wire>>

(* close: whoever waits is told, and the socket begins to close. *)
Close ==
  /\ ~closedByUser
  /\ closedByUser' = TRUE
  /\ reconnectTimer' = FALSE
  /\ TeardownSocket
  /\ state' = IF socket = NoSocket THEN state ELSE [state EXCEPT ![socket] = "closing"]
  /\ pending' = {}
  /\ UNCHANGED <<reconnectDelay, wire>>

SdcpNext ==
  \/ \E r \in Requests : Send(r) \/ TimedOut(r)
  \/ \E s \in Sockets : Open(s) \/ Fails(s) \/ SocketClosed(s)
  \/ \E m \in wire : Answered(m)
  \/ Reconnect
  \/ Close

SdcpSpec == SdcpInit /\ [][SdcpNext]_sdcpVars

-----------------------------------------------------------------------------
(* Type correctness; the delay stays within its bounds. *)
SdcpTypeOK ==
  /\ socket \in Sockets \union {NoSocket}
  /\ state \in [Sockets -> SocketStates]
  /\ heartbeatTimer \in BOOLEAN
  /\ reconnectTimer \in BOOLEAN
  /\ reconnectDelay \in MinDelay..MaxDelay
  /\ closedByUser \in BOOLEAN
  /\ pending \subseteq Requests
  /\ wire \subseteq [socket : Sockets, request : Requests]

(* The printer is never sent a second connection: there is one socket at   *)
(* most, counting those whose 'close' is still to come, and none is made   *)
(* while a reconnection is due.                                            *)
OneSocket ==
  \A s \in Sockets : ~Gone(s) =>
    /\ ~reconnectTimer
    /\ \A t \in Sockets : ~Gone(t) => t = s

(* A client that has not been closed always has a socket or a timer that   *)
(* will make one: no order of events leaves it disconnected for good.      *)
AlwaysRetrying == ~closedByUser => socket # NoSocket \/ reconnectTimer

(* The client's socket is the one that lives, and the heartbeat runs from  *)
(* its 'open' until it is torn down, never for a socket that is none.      *)
HeartbeatOfOpen ==
  /\ socket # NoSocket => state[socket] \in {"connecting", "open", "failing"}
  /\ \A s \in Sockets : state[s] = "open" => socket = s /\ heartbeatTimer
  /\ heartbeatTimer => socket # NoSocket

(* Once closed, nothing is left that could act: no timer, no request that  *)
(* waits, no socket but one that is closing.                               *)
ClosedForGood ==
  closedByUser =>
    /\ ~reconnectTimer /\ ~heartbeatTimer
    /\ pending = {}
    /\ \A s \in Sockets : state[s] \in {"gone", "closing"}

(* Nobody waits for ever, whatever becomes of the connection. *)
RequestsEnd == \A r \in Requests : r \in pending ~> r \notin pending

=============================================================================

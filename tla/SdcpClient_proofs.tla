-------------------------- MODULE SdcpClient_proofs --------------------------
(* Proofs of the invariants of SdcpClient, and of PrinterService over it,  *)
(* for all sets of sockets, requests and printers and all bounds of the    *)
(* delay.                                                                  *)
EXTENDS PrinterService, TLAPS

(* A socket that is neither gone nor closing is the client's own. *)
SocketIsOwn ==
  \A s \in Sockets : state[s] \in {"connecting", "open", "failing"} => socket = s

SdcpIInv ==
  /\ SdcpTypeOK
  /\ OneSocket
  /\ SocketIsOwn
  /\ AlwaysRetrying
  /\ HeartbeatOfOpen
  /\ ClosedForGood

(* The delay doubles within its bounds. *)
LEMMA DelayBounded ==
  ASSUME NEW d \in MinDelay..MaxDelay
  PROVE  Doubled(d) \in MinDelay..MaxDelay
BY DelayAssumption, SMT DEF Doubled

(* What send leaves behind is typed. *)
LEMMA SendsTyped ==
  ASSUME SdcpTypeOK, NEW R \in SUBSET Requests, Sends(R)
  PROVE  pending' \subseteq Requests /\ wire' \subseteq [socket : Sockets, request : Requests]
<1>1. pending' \subseteq Requests
  BY DEF SdcpTypeOK, Sends
<1>2. CASE socket = NoSocket
  BY <1>1, <1>2 DEF SdcpTypeOK, Sends
<1>3. CASE socket # NoSocket
  <2>1. [socket : {socket}, request : R] \subseteq [socket : Sockets, request : Requests]
    BY <1>3 DEF SdcpTypeOK
  <2>2. QED
    BY <1>1, <2>1 DEF SdcpTypeOK, Sends
<1>4. QED
  BY <1>2, <1>3

LEMMA InitHolds == SdcpInit => SdcpIInv
<1> SUFFICES ASSUME SdcpInit
             PROVE  SdcpIInv
  OBVIOUS
<1> USE NoSocketAssumption
<1>1. SdcpTypeOK
  <2>1. reconnectDelay \in MinDelay..MaxDelay
    BY DelayAssumption, SMT DEF SdcpInit
  <2>2. state \in [Sockets -> SocketStates]
    BY DEF SdcpInit, SocketStates
  <2>3. QED
    BY <2>1, <2>2 DEF SdcpInit, SdcpTypeOK
<1>2. OneSocket /\ SocketIsOwn /\ AlwaysRetrying
  BY DEF SdcpInit, OneSocket, SocketIsOwn, AlwaysRetrying, Gone
<1>3. HeartbeatOfOpen /\ ClosedForGood
  BY DEF SdcpInit, HeartbeatOfOpen, ClosedForGood
<1>4. QED
  BY <1>1, <1>2, <1>3 DEF SdcpIInv

(* Steps that leave the sockets and the timers alone. *)
LEMMA RequestsKeep ==
  ASSUME SdcpIInv,
         UNCHANGED <<socket, state, heartbeatTimer, reconnectTimer, reconnectDelay, closedByUser>>,
         pending' \subseteq Requests,
         wire' \subseteq [socket : Sockets, request : Requests],
         closedByUser => pending' = {}
  PROVE  SdcpIInv'
BY DEF SdcpIInv, SdcpTypeOK, OneSocket, SocketIsOwn, AlwaysRetrying, HeartbeatOfOpen,
       ClosedForGood, Gone

LEMMA SendKeeps ==
  ASSUME SdcpIInv, NEW r \in Requests, Send(r)
  PROVE  SdcpIInv'
<1>1. pending' \subseteq Requests /\ wire' \subseteq [socket : Sockets, request : Requests]
  <2>1. {r} \in SUBSET Requests
    OBVIOUS
  <2>2. QED
    BY <2>1, SendsTyped DEF SdcpIInv, Send
<1>2. ~closedByUser
  <2>1. socket \in Sockets /\ state[socket] \in {"open", "failing"}
    BY DEF SdcpIInv, SdcpTypeOK, Send, CanSend
  <2>2. QED
    BY <2>1 DEF SdcpIInv, ClosedForGood
<1>3. QED
  BY <1>1, <1>2, RequestsKeep DEF Send

LEMMA TimedOutKeeps ==
  ASSUME SdcpIInv, NEW r \in Requests, TimedOut(r)
  PROVE  SdcpIInv'
<1>1. pending' \subseteq Requests /\ wire' \subseteq [socket : Sockets, request : Requests]
  BY DEF SdcpIInv, SdcpTypeOK, TimedOut
<1>2. closedByUser => pending' = {}
  BY DEF SdcpIInv, ClosedForGood, TimedOut
<1>3. QED
  BY <1>1, <1>2, RequestsKeep DEF TimedOut

LEMMA AnsweredKeeps ==
  ASSUME SdcpIInv, NEW m \in wire, Answered(m)
  PROVE  SdcpIInv'
<1>1. pending' \subseteq Requests /\ wire' \subseteq [socket : Sockets, request : Requests]
  BY DEF SdcpIInv, SdcpTypeOK, Answered
<1>2. closedByUser => pending' = {}
  BY DEF SdcpIInv, ClosedForGood, Answered
<1>3. QED
  BY <1>1, <1>2, RequestsKeep DEF Answered

LEMMA OpenKeeps ==
  ASSUME SdcpIInv, NEW s \in Sockets, Open(s)
  PROVE  SdcpIInv'
<1>1. socket = s /\ ~Gone(s)
  BY DEF SdcpIInv, SocketIsOwn, Open, Gone
<1>2. ~closedByUser
  BY DEF SdcpIInv, ClosedForGood, Open
<1>3. pending' \subseteq Requests /\ wire' \subseteq [socket : Sockets, request : Requests]
  <2>1. PICK R \in SUBSET Requests : Sends(R)
    BY DEF Open
  <2>2. QED
    BY <2>1, SendsTyped DEF SdcpIInv
<1>4. SdcpTypeOK'
  BY <1>3, DelayAssumption, SMT DEF SdcpIInv, SdcpTypeOK, Open, SocketStates
<1>5. OneSocket' /\ SocketIsOwn'
  BY <1>1 DEF SdcpIInv, SdcpTypeOK, OneSocket, SocketIsOwn, Open, Gone
<1>6. AlwaysRetrying' /\ HeartbeatOfOpen'
  BY <1>1, NoSocketAssumption
     DEF SdcpIInv, SdcpTypeOK, AlwaysRetrying, HeartbeatOfOpen, SocketIsOwn, Open
<1>7. ClosedForGood'
  BY <1>2 DEF Open, ClosedForGood
<1>8. QED
  BY <1>4, <1>5, <1>6, <1>7 DEF SdcpIInv

LEMMA FailsKeeps ==
  ASSUME SdcpIInv, NEW s \in Sockets, Fails(s)
  PROVE  SdcpIInv'
<1>1. socket = s /\ ~Gone(s)
  BY DEF SdcpIInv, SocketIsOwn, Fails, Gone
<1>2. ~closedByUser
  BY DEF SdcpIInv, ClosedForGood, Fails
<1>3. SdcpTypeOK'
  BY DEF SdcpIInv, SdcpTypeOK, Fails, ErrorEvent, SocketStates
<1>4. OneSocket' /\ SocketIsOwn'
  BY <1>1 DEF SdcpIInv, SdcpTypeOK, OneSocket, SocketIsOwn, Fails, ErrorEvent, Gone
<1>5. AlwaysRetrying' /\ HeartbeatOfOpen'
  BY <1>1 DEF SdcpIInv, SdcpTypeOK, AlwaysRetrying, HeartbeatOfOpen, Fails, ErrorEvent
<1>6. ClosedForGood'
  BY <1>2 DEF Fails, ClosedForGood
<1>7. QED
  BY <1>3, <1>4, <1>5, <1>6 DEF SdcpIInv

LEMMA SocketClosedKeeps ==
  ASSUME SdcpIInv, NEW s \in Sockets, SocketClosed(s)
  PROVE  SdcpIInv'
<1>1. \A t \in Sockets : ~Gone(t) => t = s
  BY DEF SdcpIInv, OneSocket, SocketClosed, Gone
<1>2. \A t \in Sockets : state'[t] = "gone"
  BY <1>1 DEF SdcpIInv, SdcpTypeOK, SocketClosed, Gone
<1>3. SdcpTypeOK'
  <2>1. reconnectDelay' \in MinDelay..MaxDelay
    BY DelayBounded DEF SdcpIInv, SdcpTypeOK, SocketClosed
  <2>2. state' \in [Sockets -> SocketStates]
    BY DEF SdcpIInv, SdcpTypeOK, SocketClosed, SocketStates
  <2>3. QED
    BY <2>1, <2>2 DEF SdcpIInv, SdcpTypeOK, SocketClosed, TeardownSocket
<1>4. OneSocket' /\ SocketIsOwn' /\ HeartbeatOfOpen'
  BY <1>2 DEF OneSocket, SocketIsOwn, HeartbeatOfOpen, SocketClosed, TeardownSocket, Gone
<1>5. AlwaysRetrying'
  BY DEF AlwaysRetrying, SocketClosed, SchedulesReconnect
<1>6. ClosedForGood'
  BY <1>2 DEF SdcpIInv, ClosedForGood, SocketClosed, TeardownSocket, SchedulesReconnect
<1>7. QED
  BY <1>3, <1>4, <1>5, <1>6 DEF SdcpIInv

LEMMA ReconnectKeeps ==
  ASSUME SdcpIInv, Reconnect
  PROVE  SdcpIInv'
<1>1. PICK s \in Sockets : Connect(s)
  BY DEF Reconnect
<1>2. \A t \in Sockets : Gone(t)
  BY DEF SdcpIInv, OneSocket, Reconnect
<1>3. socket = NoSocket /\ ~heartbeatTimer
  BY <1>2 DEF SdcpIInv, SdcpTypeOK, HeartbeatOfOpen, Gone
<1>4. SdcpTypeOK'
  BY <1>1 DEF SdcpIInv, SdcpTypeOK, Reconnect, Connect, SocketStates
<1>5. OneSocket' /\ SocketIsOwn' /\ AlwaysRetrying'
  BY <1>1, <1>2, NoSocketAssumption
     DEF SdcpIInv, SdcpTypeOK, OneSocket, SocketIsOwn, AlwaysRetrying, Reconnect, Connect, Gone
<1>6. HeartbeatOfOpen' /\ ClosedForGood'
  BY <1>1, <1>2, <1>3
     DEF SdcpIInv, SdcpTypeOK, HeartbeatOfOpen, ClosedForGood, Reconnect, Connect, Gone
<1>7. QED
  BY <1>4, <1>5, <1>6 DEF SdcpIInv

LEMMA CloseKeeps ==
  ASSUME SdcpIInv, Close
  PROVE  SdcpIInv'
<1>1. \A t \in Sockets : state'[t] \in {"gone", "closing"}
  <2> SUFFICES ASSUME NEW t \in Sockets
               PROVE  state'[t] \in {"gone", "closing"}
    OBVIOUS
  <2>1. state[t] \in SocketStates /\ t # NoSocket
    BY NoSocketAssumption DEF SdcpIInv, SdcpTypeOK
  <2>2. CASE t = socket
    BY <2>1, <2>2 DEF SdcpIInv, SdcpTypeOK, Close
  <2>3. CASE t # socket
    BY <2>1, <2>3 DEF SdcpIInv, SdcpTypeOK, SocketIsOwn, SocketStates, Close
  <2>4. QED
    BY <2>2, <2>3
<1>2. SdcpTypeOK'
  BY DEF SdcpIInv, SdcpTypeOK, Close, TeardownSocket, SocketStates
<1>3. OneSocket'
  BY DEF SdcpIInv, SdcpTypeOK, OneSocket, HeartbeatOfOpen, Close, Gone
<1>4. SocketIsOwn' /\ HeartbeatOfOpen' /\ ClosedForGood'
  BY <1>1 DEF SocketIsOwn, HeartbeatOfOpen, ClosedForGood, Close, TeardownSocket
<1>5. AlwaysRetrying'
  BY DEF AlwaysRetrying, Close
<1>6. QED
  BY <1>2, <1>3, <1>4, <1>5 DEF SdcpIInv

LEMMA StepKeeps == SdcpIInv /\ [SdcpNext]_sdcpVars => SdcpIInv'
<1> SUFFICES ASSUME SdcpIInv, [SdcpNext]_sdcpVars
             PROVE  SdcpIInv'
  OBVIOUS
<1>1. CASE \E r \in Requests : Send(r) \/ TimedOut(r)
  BY <1>1, SendKeeps, TimedOutKeeps
<1>2. CASE \E s \in Sockets : Open(s) \/ Fails(s) \/ SocketClosed(s)
  BY <1>2, OpenKeeps, FailsKeeps, SocketClosedKeeps
<1>3. CASE \E m \in wire : Answered(m)
  BY <1>3, AnsweredKeeps
<1>4. CASE Reconnect
  BY <1>4, ReconnectKeeps
<1>5. CASE Close
  BY <1>5, CloseKeeps
<1>6. CASE UNCHANGED sdcpVars
  BY <1>6 DEF SdcpIInv, SdcpTypeOK, OneSocket, SocketIsOwn, AlwaysRetrying, HeartbeatOfOpen,
              ClosedForGood, Gone, sdcpVars
<1>7. QED
  BY <1>1, <1>2, <1>3, <1>4, <1>5, <1>6 DEF SdcpNext

THEOREM SdcpInvariant == SdcpSpec => []SdcpIInv
BY InitHolds, StepKeeps, PTL DEF SdcpSpec

(* The printer never gets a second connection while one is alive, closing  *)
(* or about to be made (SdcpClient.connect, scheduleReconnect).            *)
THEOREM NeverTwoSockets == SdcpSpec => []OneSocket
<1>1. SdcpIInv => OneSocket
  BY DEF SdcpIInv
<1>2. QED
  BY <1>1, SdcpInvariant, PTL

(* A client that is not closed has a socket or will make one, after any    *)
(* sequence of errors, closures and answers (the 'close' listener).        *)
THEOREM NeverStranded == SdcpSpec => []AlwaysRetrying
<1>1. SdcpIInv => AlwaysRetrying
  BY DEF SdcpIInv
<1>2. QED
  BY <1>1, SdcpInvariant, PTL

(* The heartbeat runs exactly while the client's socket is open (or has    *)
(* failed unnoticed).                                                      *)
THEOREM HeartbeatRight == SdcpSpec => []HeartbeatOfOpen
<1>1. SdcpIInv => HeartbeatOfOpen
  BY DEF SdcpIInv
<1>2. QED
  BY <1>1, SdcpInvariant, PTL

(* SdcpClient.close leaves nothing behind that acts. *)
THEOREM CloseIsFinal == SdcpSpec => []ClosedForGood
<1>1. SdcpIInv => ClosedForGood
  BY DEF SdcpIInv
<1>2. QED
  BY <1>1, SdcpInvariant, PTL

-----------------------------------------------------------------------------
(* PrinterService: before the search is over there is no connection.       *)
NoneBeforeStart ==
  startPhase = "resolving" => socket = NoSocket /\ closedByUser /\ \A s \in Sockets : Gone(s)

ServiceIInv ==
  /\ SdcpIInv
  /\ NoneBeforeStart
  /\ ConnectedIsTrue

LEMMA ServiceInitInv == ServiceInit => ServiceIInv
<1> SUFFICES ASSUME ServiceInit PROVE ServiceIInv
  OBVIOUS
<1>1. SdcpTypeOK
  <2>1. reconnectDelay \in MinDelay..MaxDelay
    BY DelayAssumption, SMT DEF ServiceInit
  <2> QED BY <2>1 DEF ServiceInit, SdcpTypeOK, SocketStates
<1>2. SdcpIInv
  BY <1>1
  DEF ServiceInit, SdcpIInv, OneSocket, SocketIsOwn, AlwaysRetrying, HeartbeatOfOpen,
      ClosedForGood, Gone
<1> QED BY <1>2 DEF ServiceInit, ServiceIInv, NoneBeforeStart, ConnectedIsTrue, Gone

(* The client's first connection is made like any other: from nothing.     *)
LEMMA FirstConnectKeeps ==
  ASSUME SdcpIInv, \A t \in Sockets : Gone(t), NEW s \in Sockets, Connect(s), ~reconnectTimer,
         UNCHANGED <<heartbeatTimer, reconnectTimer, reconnectDelay, pending, wire>>
  PROVE  SdcpIInv'
<1>1. ~heartbeatTimer
  BY DEF SdcpIInv, SdcpTypeOK, HeartbeatOfOpen, Gone
<1>2. SdcpTypeOK'
  BY DEF SdcpIInv, SdcpTypeOK, Connect, SocketStates
<1>3. OneSocket' /\ SocketIsOwn' /\ AlwaysRetrying'
  BY NoSocketAssumption
     DEF SdcpIInv, SdcpTypeOK, OneSocket, SocketIsOwn, AlwaysRetrying, Connect, Gone
<1>4. HeartbeatOfOpen' /\ ClosedForGood'
  BY <1>1 DEF SdcpIInv, SdcpTypeOK, HeartbeatOfOpen, ClosedForGood, Connect, Gone
<1> QED BY <1>2, <1>3, <1>4 DEF SdcpIInv

(* What the transport does without a word to the store leaves what the     *)
(* store says true: no socket opens, and none is gone.                     *)
LEMMA SilentKeeps ==
  ASSUME SdcpIInv, ConnectedIsTrue, connected' = connected,
         \A s \in Sockets : (state'[s] = "open" => state[s] = "open") /\ (Gone(s)' => Gone(s))
  PROVE  ConnectedIsTrue'
BY DEF ConnectedIsTrue, Gone

LEMMA StartsKeeps ==
  ASSUME ServiceIInv, NEW answers, Starts(answers)
  PROVE  ServiceIInv'
<1>1. /\ SdcpIInv /\ ConnectedIsTrue /\ socket = NoSocket /\ closedByUser
      /\ \A s \in Sockets : Gone(s)
  BY DEF ServiceIInv, NoneBeforeStart, Starts
<1>2. CASE Target(answers) = NoPrinter
  <2>1. UNCHANGED sdcpVars /\ connected' = FALSE /\ startPhase' = "nowhere"
    BY <1>2 DEF Starts, SetConnection
  <2>2. SdcpIInv'
    BY <1>1, <2>1, StepKeeps
  <2> QED BY <1>1, <2>1, <2>2
      DEF ServiceIInv, NoneBeforeStart, ConnectedIsTrue, sdcpVars, Gone
<1>3. CASE Target(answers) # NoPrinter
  <2>1. /\ startPhase' = "started" /\ connected' = connected
        /\ UNCHANGED <<heartbeatTimer, reconnectTimer, reconnectDelay, pending, wire>>
    BY <1>3 DEF Starts
  <2>2. PICK s \in Sockets : Connect(s)
    BY <1>3 DEF Starts
  <2>3. ~reconnectTimer
    BY <1>1 DEF SdcpIInv, ClosedForGood
  <2>4. SdcpIInv'
    BY <1>1, <2>1, <2>2, <2>3, FirstConnectKeeps
  <2>5. \A t \in Sockets : (state'[t] = "open" => state[t] = "open") /\ (Gone(t)' => Gone(t))
    BY <1>1, <2>2 DEF Connect, SdcpIInv, SdcpTypeOK, Gone
  <2> QED BY <1>1, <2>1, <2>4, <2>5, SilentKeeps DEF ServiceIInv, NoneBeforeStart
<1> QED BY <1>2, <1>3

(* The steps of the running client, in each of which the service is past   *)
(* its search, or nothing happens that matters.                            *)
LEMMA ClientOpensKeeps ==
  ASSUME ServiceIInv, NEW s \in Sockets, ClientOpens(s), UnchangedService
  PROVE  ServiceIInv'
<1>1. Open(s) /\ connected' = TRUE /\ startPhase' = startPhase
  BY DEF ClientOpens, OnOpen, SetConnection, UnchangedService, startVars
<1>2. SdcpIInv'
  BY <1>1, OpenKeeps DEF ServiceIInv
<1>3. startPhase # "resolving"
  BY <1>1 DEF ServiceIInv, NoneBeforeStart, Open, Gone
<1>4. ~Gone(s)'
  BY <1>1 DEF Open, ServiceIInv, SdcpIInv, SdcpTypeOK, Gone
<1> QED BY <1>1, <1>2, <1>3, <1>4 DEF ServiceIInv, NoneBeforeStart, ConnectedIsTrue

LEMMA ClientClosesKeeps ==
  ASSUME ServiceIInv, NEW s \in Sockets, ClientCloses(s), UnchangedService
  PROVE  ServiceIInv'
<1>1. SocketClosed(s) /\ connected' = FALSE /\ startPhase' = startPhase
  BY DEF ClientCloses, OnClose, SetConnection, UnchangedService, startVars
<1>2. SdcpIInv'
  BY <1>1, SocketClosedKeeps DEF ServiceIInv
<1>3. startPhase # "resolving"
  BY <1>1 DEF ServiceIInv, NoneBeforeStart, SocketClosed, Gone
<1>4. \A t \in Sockets : ~Gone(t) => t = s
  BY <1>1 DEF ServiceIInv, SdcpIInv, OneSocket, SocketClosed, Gone
<1>5. \A t \in Sockets : Gone(t)'
  BY <1>1, <1>4 DEF ServiceIInv, SdcpIInv, SdcpTypeOK, SocketClosed, Gone
<1> QED BY <1>1, <1>2, <1>3, <1>5 DEF ServiceIInv, NoneBeforeStart, ConnectedIsTrue, Gone

LEMMA ClientStepKeeps ==
  ASSUME ServiceIInv, ClientStep, UnchangedService
  PROVE  ServiceIInv'
<1> DEFINE Silent ==
      /\ startPhase = "resolving" => UNCHANGED <<socket, state, closedByUser>>
      /\ \A t \in Sockets : (state'[t] = "open" => state[t] = "open") /\ (Gone(t)' => Gone(t))
<1>1. connected' = connected /\ startPhase' = startPhase
  BY DEF ClientStep, UnchangedService, startVars, storeVars
<1>2. SdcpIInv'
  BY SendKeeps, TimedOutKeeps, FailsKeeps, AnsweredKeeps, ReconnectKeeps DEF ClientStep, ServiceIInv
<1>3. Silent
  <2>1. ASSUME NEW r \in Requests, Send(r) \/ TimedOut(r)
        PROVE  UNCHANGED <<socket, state, closedByUser>>
    BY <2>1 DEF Send, TimedOut
  <2>2. ASSUME NEW m \in wire, Answered(m)
        PROVE  UNCHANGED <<socket, state, closedByUser>>
    BY <2>2 DEF Answered
  <2>3. ASSUME NEW s \in Sockets, Fails(s)
        PROVE  Silent
    BY <2>3 DEF Fails, ServiceIInv, NoneBeforeStart, SdcpIInv, SdcpTypeOK, Gone
  <2>4. ASSUME Reconnect
        PROVE  Silent
    <3>1. PICK s \in Sockets : Connect(s)
      BY <2>4 DEF Reconnect
    <3>2. startPhase # "resolving"
      BY <2>4 DEF Reconnect, ServiceIInv, NoneBeforeStart, SdcpIInv, ClosedForGood
    <3> QED BY <3>1, <3>2 DEF Connect, ServiceIInv, SdcpIInv, SdcpTypeOK, Gone
  <2> QED BY <2>1, <2>2, <2>3, <2>4 DEF ClientStep, Gone
<1>4. ConnectedIsTrue'
  BY <1>1, <1>3, SilentKeeps DEF ServiceIInv
<1>5. NoneBeforeStart'
  BY <1>1, <1>3 DEF ServiceIInv, NoneBeforeStart, Gone
<1> QED BY <1>2, <1>4, <1>5 DEF ServiceIInv

LEMMA StopKeeps ==
  ASSUME ServiceIInv, Stop
  PROVE  ServiceIInv'
<1>1. connected' = connected /\ startPhase' = startPhase
  BY DEF Stop, startVars, storeVars
<1>2. CASE Close
  <2>1. SdcpIInv'
    BY <1>2, CloseKeeps DEF ServiceIInv
  <2>2. startPhase # "resolving"
    BY <1>2 DEF Close, ServiceIInv, NoneBeforeStart
  <2>3. \A t \in Sockets : (state'[t] = "open" => state[t] = "open") /\ (Gone(t)' => Gone(t))
    BY <1>2 DEF Close, ServiceIInv, SdcpIInv, SdcpTypeOK, Gone
  <2> QED BY <1>1, <2>1, <2>2, <2>3, SilentKeeps DEF ServiceIInv, NoneBeforeStart
<1>3. CASE UNCHANGED sdcpVars
  <2>1. SdcpIInv'
    BY <1>3, StepKeeps DEF ServiceIInv
  <2> QED BY <1>1, <1>3, <2>1
      DEF ServiceIInv, NoneBeforeStart, ConnectedIsTrue, sdcpVars, Gone
<1> QED BY <1>2, <1>3 DEF Stop

LEMMA ServiceStepKeeps == ServiceIInv /\ [ServiceNext]_serviceVars => ServiceIInv'
<1> SUFFICES ASSUME ServiceIInv, [ServiceNext]_serviceVars
             PROVE  ServiceIInv'
  OBVIOUS
<1>1. ASSUME UNCHANGED sdcpVars, startPhase' = startPhase, ConnectedIsTrue'
      PROVE  ServiceIInv'
  <2>1. SdcpIInv'
    BY <1>1, StepKeeps DEF ServiceIInv
  <2> QED BY <1>1, <2>1 DEF ServiceIInv, NoneBeforeStart, sdcpVars, Gone
<1>2. ASSUME UNCHANGED sdcpVars, connected' = connected
      PROVE  ConnectedIsTrue'
  BY <1>2 DEF ServiceIInv, ConnectedIsTrue, sdcpVars, Gone
<1>3. ASSUME NEW p \in Printers, Hears(p)
      PROVE  ServiceIInv'
  BY <1>1, <1>2, <1>3 DEF Hears, storeVars
<1>4. CASE SearchEnds \/ SearchFails \/ NoSearch
  BY <1>4, StartsKeeps DEF SearchEnds, SearchFails, NoSearch
<1>5. ASSUME NEW s \in Sockets, (ClientOpens(s) \/ ClientCloses(s)) /\ UnchangedService
      PROVE  ServiceIInv'
  BY <1>5, ClientOpensKeeps, ClientClosesKeeps
<1>6. CASE ClientStep /\ UnchangedService
  BY <1>6, ClientStepKeeps
<1>7. ASSUME NEW s \in Sockets, NEW p \in Printers, Attributes(s, p), UnchangedService
      PROVE  ServiceIInv'
  <2>1. UNCHANGED sdcpVars /\ startPhase' = startPhase /\ connected' = TRUE /\ ~Gone(s)
    BY <1>7 DEF Attributes, Adopts, SetConnection, UnchangedService, startVars, Gone
  <2>2. ConnectedIsTrue'
    BY <2>1 DEF ConnectedIsTrue, sdcpVars, Gone
  <2> QED BY <1>1, <2>1, <2>2
<1>8. CASE Stop
  BY <1>8, StopKeeps
<1>9. CASE UNCHANGED serviceVars
  BY <1>1, <1>2, <1>9 DEF serviceVars, startVars, storeVars
<1> QED BY <1>3, <1>4, <1>5, <1>6, <1>7, <1>8, <1>9 DEF ServiceNext

LEMMA ServiceInvariant == ServiceSpec => []ServiceIInv
BY ServiceInitInv, ServiceStepKeeps, PTL DEF ServiceSpec

(* What the store says of the connection is true from the first socket to  *)
(* the last, through every reconnection and however late stop comes.       *)
THEOREM StoreIsRight == ServiceSpec => []ConnectedIsTrue
<1>1. ServiceIInv => ConnectedIsTrue
  BY DEF ServiceIInv
<1> QED BY <1>1, ServiceInvariant, PTL

(* The service, which makes its client late and stops it once, uses it as  *)
(* SdcpClient expects: no second connection to the printer either.         *)
THEOREM ServiceKeepsOneSocket == ServiceSpec => []OneSocket
<1>1. ServiceIInv => OneSocket
  BY DEF ServiceIInv, SdcpIInv
<1> QED BY <1>1, ServiceInvariant, PTL

(* ... and none that is lost for good. *)
THEOREM ServiceKeepsRetrying == ServiceSpec => []AlwaysRetrying
<1>1. ServiceIInv => AlwaysRetrying
  BY DEF ServiceIInv, SdcpIInv
<1> QED BY <1>1, ServiceInvariant, PTL

=============================================================================

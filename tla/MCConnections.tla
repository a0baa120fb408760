---------------------------- MODULE MCConnections ----------------------------
(***************************************************************************)
(* Three parts that keep a connection and share nothing, on small          *)
(* instances for TLC: the page's feed, the camera proxy, and the service   *)
(* over the SDCP client.  In a behaviour one of them moves, with its       *)
(* fairness, and the others stand still, so that their states add up and   *)
(* do not multiply.                                                        *)
(***************************************************************************)
EXTENDS StatusFeed, CameraProxy, PrinterService

VARIABLE moving    \* the part that moves

connectionVars == <<feedVars, proxyVars, serviceVars, moving>>

(* What stands still does so in one of its initial states only. *)
OneFeed == socketRef = CHOOSE s \in PageSockets : TRUE
OneService == pinned = NoPrinter /\ ~discovery

ConnectionsInit ==
  /\ FeedInit /\ ProxyInit /\ ServiceInit
  /\ moving \in {"feed", "proxy", "service"}
  /\ moving # "feed" => OneFeed
  /\ moving # "service" => OneService

ConnectionsNext ==
  /\ \/ moving = "feed" /\ FeedNext /\ UNCHANGED <<proxyVars, serviceVars>>
     \/ moving = "proxy" /\ ProxyNext /\ UNCHANGED <<feedVars, serviceVars>>
     \/ moving = "service" /\ ServiceNext /\ UNCHANGED <<feedVars, proxyVars>>
  /\ UNCHANGED moving

(* FeedFairness, ProxyFairness and ServiceFairness, each for the part that *)
(* moves.                                                                  *)
ConnectionsFairness ==
  /\ WF_feedVars(moving = "feed" /\ Poll)
  /\ \A v \in 1..MaxVersion : SF_feedVars(moving = "feed" /\ Fetched(v) /\ ~liveRef)
  /\ \A s \in PageSockets : SF_feedVars(moving = "feed" /\ Message(s))
  /\ ProxyFairness
  /\ WF_serviceVars(moving = "service" /\ (SearchEnds \/ SearchFails \/ NoSearch))
  /\ \A r \in Requests : WF_serviceVars(TimedOut(r) /\ UNCHANGED storeVars /\ UnchangedService)
  /\ \A s \in Sockets : WF_serviceVars(ClientCloses(s) /\ UnchangedService)
  /\ WF_serviceVars(Reconnect /\ UNCHANGED storeVars /\ UnchangedService)

ConnectionsSpec == ConnectionsInit /\ [][ConnectionsNext]_connectionVars /\ ConnectionsFairness

-----------------------------------------------------------------------------
(* A page that moves catches up: it shows the store's view in the end, and *)
(* no late answer puts an older one in its place for good (useStatus.ts).  *)
MovingPageCatchesUp == moving = "feed" => CatchesUp

=============================================================================

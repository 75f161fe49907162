------------------------ MODULE RoutingModule_proof ------------------------
(***************************************************************************)
(* Theorems about RoutingModule, for any missions, any destinations and    *)
(* any number of retries.                                                  *)
(***************************************************************************)
EXTENDS RoutingModule, WellFoundedInduction, TLAPS

USE DestsAssumption, RequestsAssumption, BoundsAssumption
USE DEF Dests, Missions, Requests, Never, Min, Sooner

Result == [id : Int, of : Missions \cup {None}]
Output == [status : {"none", "NORMAL", "INVALID", "RESET"}, id : Int,
           of : Missions \cup {None}, routeOf : OnRoad \cup {None}]

(* The type invariant in two parts, for two provers.                       *)
Types ==
    /\ pc \in {"idle", "start", "reset", "initiate", "track", "publish", "fail"}
    /\ request \in Requests \cup {None} /\ teleop \in Requests \cup {None}
    /\ lastRequest \in Requests \cup {None}
    /\ retryTimes \in 0..MaxRetryTimes
    /\ pending \in Missions \cup {None}
    /\ requestId \in Int /\ requestId >= -1
    /\ mission \in Missions \cup {None}
    /\ nextDest \in Dests \cup {-1} /\ pendingNext \in Int /\ reached \in Int
    /\ route \in OnRoad \cup {None} /\ left \in 0..NumDests
    /\ missed \in 0..Never
    /\ result \in Result
    /\ resets \in 0..3
    /\ published \in Output

Flags ==
    /\ button \in BOOLEAN /\ command \in BOOLEAN /\ shouldRetry \in BOOLEAN
    /\ active \in BOOLEAN /\ isNew \in BOOLEAN

(* No id is ahead of the counter, and a new route is ahead of what was     *)
(* published.                                                              *)
IdsAscend ==
    /\ result.id <= requestId /\ published.id <= requestId
    /\ resets > 0 => requestId >= 0
    /\ pc \in {"reset", "initiate"} => isNew = FALSE
    /\ pc \in {"track", "publish"} /\ isNew = TRUE => published.id < result.id

(* After a reset an iteration goes no further than the reset.              *)
ResetStops == lastRequest = Reset => pc \in {"idle", "start", "reset"}

(* The last result on the road is the one of the route.                    *)
ResultOfRoute == result.of \in OnRoad => route = result.of

RoutingInv ==
    Types /\ Flags /\ IdsAscend /\ ResetStops /\ ResultOfRoute /\ RouteOfMission

-----------------------------------------------------------------------------
(* The stop a destination leads to is one of the mission, no earlier than  *)
(* the destination: the last destination is a stop.                        *)
LEMMA StopIndexIsStop ==
    ASSUME NEW d \in Dests
    PROVE  StopIndex(d) \in Stops /\ StopIndex(d) \in d..(NumDests - 1)
  <1> DEFINE T == {s \in Stops : s >= d}
  <1> DEFINE R == {p \in Nat \X Nat : p[1] < p[2]}
  <1>0. \A s \in Stops : s \in Int /\ 0 <= s /\ s <= NumDests - 1
    <2> TAKE s \in Stops
    <2>1. s \in 0..(NumDests - 1)
      BY Zenon
    <2> QED  BY <2>1
  <1>1. T \subseteq Nat /\ T # {}
    <2>1. NumDests - 1 \in T
      OBVIOUS
    <2>2. \A s \in T : s \in Nat
      BY <1>0
    <2> QED  BY <2>1, <2>2
  <1>2. PICK s \in T : \A t \in T : ~(<<t, s>> \in R)
    <2>1. IsWellFoundedOn(R, Nat)
      BY NatLessThanWellFounded DEF OpToRel
    <2> HIDE DEF R, T
    <2> QED  BY <1>1, <2>1, WFMin
  <1>3. \A t \in T : s <= t
    <2> TAKE t \in T
    <2>1. t \in Nat /\ s \in Nat
      BY <1>1
    <2>2. ~(t < s)
      BY <1>2, <2>1
    <2> QED  BY <2>1, <2>2
  <1>4. s \in Stops /\ s >= d /\ \A t \in Stops : t >= d => s <= t
    BY <1>3
  <1>5. /\ StopIndex(d) \in Stops /\ StopIndex(d) >= d
        /\ \A t \in Stops : t >= d => StopIndex(d) <= t
    BY <1>4, Zenon DEF StopIndex
  <1> HIDE DEF StopIndex
  <1>6. /\ StopIndex(d) \in Int /\ StopIndex(d) <= NumDests - 1
        /\ d \in Int
    <2>1. StopIndex(d) \in Stops
      BY <1>5
    <2>2. \A s1 \in Stops : s1 \in Int /\ s1 <= NumDests - 1
      BY <1>0
    <2>3. StopIndex(d) \in Int /\ StopIndex(d) <= NumDests - 1
      BY <2>1, <2>2, Zenon
    <2> QED  BY <2>3
  <1> QED  BY <1>5, <1>6

LEMMA RoutingInit == Init => RoutingInv
  <1> SUFFICES ASSUME Init PROVE RoutingInv
    OBVIOUS
  <1>1. Flags
    BY Zenon DEF Init, Flags
  <1>2. Types
    BY DEF Init, Types, Result, Output, NoResult, Nothing
  <1>3. IdsAscend /\ ResetStops /\ ResultOfRoute /\ RouteOfMission
    BY DEF Init, IdsAscend, ResetStops, ResultOfRoute, RouteOfMission,
           NoResult, Nothing
  <1> QED  BY <1>1, <1>2, <1>3 DEF RoutingInv

(* Handlers only note a request; the timer counts an iteration.            *)
LEMMA HandlerSteps == RoutingInv /\ (Handlers \/ Tick) => RoutingInv'
  <1> USE DEF RoutingInv, inputs, retry, stations, routed, outputs
  <1> SUFFICES ASSUME RoutingInv, Handlers \/ Tick PROVE RoutingInv'
    OBVIOUS
  <1>1. ASSUME NEW r \in Requests, HandleRunEventStates(r) PROVE RoutingInv'
    <2>1. Flags'  BY <1>1, Zenon DEF HandleRunEventStates, Flags
    <2> QED  BY <1>1, <2>1 DEF HandleRunEventStates, Types, IdsAscend,
               ResetStops, ResultOfRoute, RouteOfMission
  <1>2. ASSUME NEW r \in Requests, HandleReroutingRequest(r) PROVE RoutingInv'
    <2>1. Flags'  BY <1>2, Zenon DEF HandleReroutingRequest, Flags
    <2> QED  BY <1>2, <2>1 DEF HandleReroutingRequest, Types, IdsAscend,
               ResetStops, ResultOfRoute, RouteOfMission
  <1>3. ASSUME NEW r \in Requests, HandleRemoteAssistToCar(r) PROVE RoutingInv'
    <2>1. Flags'  BY <1>3, Zenon DEF HandleRemoteAssistToCar, Flags
    <2> QED  BY <1>3, <2>1 DEF HandleRemoteAssistToCar, Types, IdsAscend,
               ResetStops, ResultOfRoute, RouteOfMission
  <1>4. CASE HandleDriverAction
    <2>1. Flags'  BY <1>4, Zenon DEF HandleDriverAction, Flags
    <2> QED  BY <1>4, <2>1 DEF HandleDriverAction, Types, IdsAscend,
               ResetStops, ResultOfRoute, RouteOfMission
  <1>5. CASE HandlePlannerExternalCommandStatus
    <2>1. Flags'  BY <1>5, Zenon DEF HandlePlannerExternalCommandStatus, Flags
    <2> QED  BY <1>5, <2>1 DEF HandlePlannerExternalCommandStatus, Types,
               IdsAscend, ResetStops, ResultOfRoute, RouteOfMission
  <1>6. CASE Tick
    <2>1. Flags'  BY <1>6, Zenon DEF Tick, Flags
    <2> QED  BY <1>6, <2>1 DEF Tick, Types, IdsAscend, ResetStops,
               ResultOfRoute, RouteOfMission
  <1> QED  BY <1>1, <1>2, <1>3, <1>4, <1>5, <1>6 DEF Handlers

LEMMA AddRequestsStep == RoutingInv /\ AddRequests => RoutingInv'
  <1> USE DEF RoutingInv, inputs, retry, stations, routed, outputs
  <1> SUFFICES ASSUME RoutingInv, AddRequests PROVE RoutingInv'
    OBVIOUS
  <1>1. Flags'  BY Zenon DEF AddRequests, Flags
  <1>2. pending' \in Missions \cup {None}
    BY DEF AddRequests, Queued, Types
  <1>3. Types'  BY <1>2 DEF AddRequests, Types
  <1>4. IdsAscend' /\ ResetStops'
    BY DEF AddRequests, IsResetRequest, IdsAscend, ResetStops
  <1> QED  BY <1>1, <1>3, <1>4 DEF AddRequests, ResultOfRoute, RouteOfMission

(* A mission is routed: its result, route, mission and indexes are set     *)
(* together.                                                               *)
LEMMA RoutedSteps ==
    ASSUME RoutingInv,
           RouteOffRoad \/ RouteToNextStop \/ \E d \in Dests : RouteToFirstStop(d)
    PROVE  RoutingInv'
  <1> USE DEF RoutingInv, inputs, retry, stations, routed, outputs
  <1>1. CASE RouteOffRoad
    <2>1. Flags'  BY <1>1, Zenon DEF RouteOffRoad, Received, Flags
    <2>2. result' = [id |-> requestId + 1, of |-> pending] /\ pending \in OffRoad
      BY <1>1 DEF RouteOffRoad, Received
    <2>3. Types'  BY <1>1, <2>2 DEF RouteOffRoad, Received, Types, Result
    <2>4. IdsAscend' /\ ResetStops' /\ ResultOfRoute'
      BY <1>1, <2>2 DEF RouteOffRoad, Received, Types, Result, Output,
         IdsAscend, ResetStops, ResultOfRoute
    <2> QED  BY <1>1, <2>1, <2>2, <2>3, <2>4 DEF RouteOffRoad, Received, Types,
               RouteOfMission
  <1>2. CASE RouteToNextStop
    <2>1. Flags'  BY <1>2, Zenon DEF RouteToNextStop, Received, Flags
    <2>2. /\ result' = [id |-> requestId + 1, of |-> mission]
          /\ mission \in OnRoad /\ route' = mission /\ mission' = mission
          /\ nextDest' = NextStop /\ pendingNext' = NextStop
      BY <1>2 DEF RouteToNextStop, MayGoToNextStop, Received
    <2>3. NextStop \in Dests
      <3>1. nextDest \in Dests
        BY <1>2 DEF RouteToNextStop, MayGoToNextStop, Types
      <3> QED  BY <1>2, <3>1, StopIndexIsStop DEF RouteToNextStop,
                 MayGoToNextStop, NextStop
    <2>4. /\ StopIndex(NextStop) \in NextStop..(NumDests - 1)
          /\ left' = StopIndex(NextStop) - NextStop + 1
      BY <1>2, <2>3, StopIndexIsStop DEF RouteToNextStop
    <2> HIDE DEF NextStop
    <2>5. Types'  BY <1>2, <2>2, <2>3, <2>4 DEF RouteToNextStop, Received, Types, Result
    <2>6. IdsAscend' /\ ResetStops' /\ ResultOfRoute'
      BY <1>2, <2>2 DEF RouteToNextStop, MayGoToNextStop, Received, Types,
         Result, Output, IdsAscend, ResetStops, ResultOfRoute
    <2> QED  BY <1>2, <2>1, <2>2, <2>3, <2>4, <2>5, <2>6 DEF RouteToNextStop,
               Received, RouteOfMission
  <1>3. ASSUME NEW d \in Dests, RouteToFirstStop(d) PROVE RoutingInv'
    <2>1. Flags'  BY <1>3, Zenon DEF RouteToFirstStop, Received, Flags
    <2>2. /\ result' = [id |-> requestId + 1, of |-> pending]
          /\ pending \in OnRoad /\ route' = pending /\ mission' = pending
          /\ nextDest' = d /\ pendingNext' = d
      BY <1>3 DEF RouteToFirstStop, Received
    <2>4. StopIndex(d) \in d..(NumDests - 1) /\ left' = StopIndex(d) - d + 1
      BY <1>3, StopIndexIsStop DEF RouteToFirstStop
    <2>5. Types'  BY <1>3, <2>2, <2>4 DEF RouteToFirstStop, Received, Types, Result
    <2>6. IdsAscend' /\ ResetStops' /\ ResultOfRoute'
      BY <1>3, <2>2 DEF RouteToFirstStop, Received, Types, Result,
         Output, IdsAscend, ResetStops, ResultOfRoute
    <2> QED  BY <1>3, <2>1, <2>2, <2>4, <2>5, <2>6 DEF RouteToFirstStop,
               Received, RouteOfMission
  <1> QED  BY <1>1, <1>2, <1>3

(* A search that fails leaves the mission and the route as they were.      *)
LEMMA NotRoutedSteps ==
    ASSUME RoutingInv,
           NoRouteToFirstStop \/ NoRouteToNextStop \/ NothingToInitiate
    PROVE  RoutingInv'
  <1> USE DEF RoutingInv, inputs, retry, stations, routed, outputs
  <1>1. CASE NoRouteToFirstStop
    <2>1. Flags'  BY <1>1, Zenon DEF NoRouteToFirstStop, Flags
    <2> QED  BY <1>1, <2>1 DEF NoRouteToFirstStop, Types, IdsAscend,
               ResetStops, ResultOfRoute, RouteOfMission, Result, Output
  <1>2. CASE NoRouteToNextStop
    <2>1. Flags'  BY <1>2, Zenon DEF NoRouteToNextStop, Flags
    <2>2. pendingNext' = StopIndex(nextDest) + 1 /\ StopIndex(nextDest) \in Int
      <3>1. nextDest \in Dests
        BY <1>2 DEF NoRouteToNextStop, MayGoToNextStop, Types
      <3> QED  BY <1>2, <3>1, StopIndexIsStop DEF NoRouteToNextStop, NextStop
    <2> QED  BY <1>2, <2>1, <2>2 DEF NoRouteToNextStop, MayGoToNextStop, Types,
               IdsAscend, ResetStops, ResultOfRoute, RouteOfMission, Result, Output
  <1>3. CASE NothingToInitiate
    <2>1. Flags'  BY <1>3, Zenon DEF NothingToInitiate, Flags
    <2> QED  BY <1>3, <2>1 DEF NothingToInitiate, Types, IdsAscend, ResetStops,
               ResultOfRoute, RouteOfMission
  <1> QED  BY <1>1, <1>2, <1>3

(* A via point passed moves the index on and leaves one destination less.  *)
LEMMA PassedDestinations ==
    ASSUME RoutingInv, pc = "track", nextDest' = nextDest, route' = route,
           mission' = mission, published' = published,
           ReachViaPoint \/ ReachStop \/ UNCHANGED <<reached, pendingNext, left>>
    PROVE  /\ pendingNext' \in Int /\ reached' \in Int /\ left' \in 0..NumDests
           /\ RouteOfMission'
  <1> USE DEF RoutingInv
  <1>1. pendingNext' \in Int /\ reached' \in Int /\ left' \in 0..NumDests
    BY DEF Types, ReachViaPoint, ReachStop
  <1>2. nextDest \in Dests => StopIndex(nextDest) \in Int
    BY StopIndexIsStop
  <1>3. RouteOfMission'
    BY <1>2 DEF Types, RouteOfMission, ReachViaPoint, ReachStop
  <1> QED  BY <1>1, <1>3

LEMMA TrackSteps ==
    ASSUME RoutingInv, NoRouteToTrack \/ Track \/ LoseTrack
    PROVE  RoutingInv'
  <1> USE DEF RoutingInv, inputs, retry, stations, routed, outputs
  <1>1. CASE NoRouteToTrack
    <2>1. Flags'  BY <1>1, Zenon DEF NoRouteToTrack, Flags
    <2> QED  BY <1>1, <2>1 DEF NoRouteToTrack, Types, IdsAscend, ResetStops,
               ResultOfRoute, RouteOfMission
  <1>2. CASE Track
    <2>1. Flags'  BY <1>2, Zenon DEF Track, Flags
    <2>2. /\ pendingNext' \in Int /\ reached' \in Int /\ left' \in 0..NumDests
          /\ RouteOfMission'
      BY <1>2, PassedDestinations DEF Track, UpdateStations
    <2> QED  BY <1>2, <2>1, <2>2 DEF Track, Types, IdsAscend, ResetStops,
               ResultOfRoute
  <1>3. CASE LoseTrack
    <2>1. Flags'  BY <1>3, Zenon DEF LoseTrack, Flags
    <2>2. missed' \in 0..Never
      BY <1>3 DEF LoseTrack, Types
    <2> QED  BY <1>3, <2>1, <2>2 DEF LoseTrack, Types, IdsAscend, ResetStops,
               ResultOfRoute, RouteOfMission
  <1> QED  BY <1>1, <1>2, <1>3

LEMMA RerouteSteps ==
    ASSUME RoutingInv, Reroute \/ NoReroute
    PROVE  RoutingInv'
  <1> USE DEF RoutingInv, inputs, retry, stations, routed, outputs
  <1>1. CASE Reroute
    <2>1. Flags'  BY <1>1, Zenon DEF Reroute, Flags
    <2>2. /\ pendingNext' \in Int /\ reached' \in Int /\ left' \in 0..NumDests
          /\ RouteOfMission'
      BY <1>1, PassedDestinations DEF Reroute, MayReroute
    <2>3. result' = [id |-> requestId + 1, of |-> route] /\ route \in OnRoad
      BY <1>1 DEF Reroute, MayReroute, Types
    <2>4. Types'  BY <1>1, <2>2, <2>3 DEF Reroute, Types, Result
    <2> QED  BY <1>1, <2>1, <2>2, <2>3, <2>4 DEF Reroute, MayReroute, Types,
               Result, Output, IdsAscend, ResetStops, ResultOfRoute
  <1>2. CASE NoReroute
    <2>1. Flags'  BY <1>2, Zenon DEF NoReroute, Flags
    <2>2. /\ pendingNext' \in Int /\ reached' \in Int /\ left' \in 0..NumDests
          /\ RouteOfMission'
      BY <1>2, PassedDestinations DEF NoReroute, MayReroute, SeenBeforeReroute
    <2>3. missed' \in 0..Never
      BY <1>2 DEF NoReroute, SeenBeforeReroute, Types
    <2>4. Types'  BY <1>2, <2>2, <2>3 DEF NoReroute, Types
    <2> QED  BY <1>2, <2>1, <2>2, <2>4 DEF NoReroute, MayReroute, Types,
               IdsAscend, ResetStops, ResultOfRoute, Result, Output
  <1> QED  BY <1>1, <1>2

(* What the end of an iteration does to the request and its retries.       *)
LEMMA Cleaned ==
    ASSUME RoutingInv, NEW should, NEW times \in 0..MaxRetryTimes,
           CleanAndRetry(should, times)
    PROVE  /\ request' \in Requests \cup {None} /\ teleop' = None
           /\ retryTimes' \in 0..MaxRetryTimes
           /\ lastRequest' = lastRequest /\ pc' = "idle"
           /\ button' = FALSE /\ command' = FALSE /\ shouldRetry' = should
  BY DEF RoutingInv, Types, CleanAndRetry

LEMMA EndSteps == RoutingInv /\ (Publish \/ Fail \/ ResetRoute) => RoutingInv'
  <1> USE DEF RoutingInv, stations, routed, outputs
  <1> SUFFICES ASSUME RoutingInv, Publish \/ Fail \/ ResetRoute PROVE RoutingInv'
    OBVIOUS
  <1>1. CASE Publish
    <2>1. CleanAndRetry(FALSE, 0)
      BY <1>1 DEF Publish
    <2>2. /\ request' \in Requests \cup {None} /\ teleop' = None
          /\ retryTimes' \in 0..MaxRetryTimes
          /\ lastRequest' = lastRequest /\ pc' = "idle"
          /\ button' = FALSE /\ command' = FALSE /\ shouldRetry' = FALSE
      <3>1. 0 \in 0..MaxRetryTimes
        OBVIOUS
      <3> QED  BY <2>1, <3>1, Cleaned, Zenon
    <2>3. Flags'  BY <1>1, <2>2, Zenon DEF Publish, Flags
    <2>4. /\ published' \in Output /\ published'.id = result.id
          /\ published'.of = result.of /\ published'.routeOf = route
      BY <1>1 DEF Publish, Types, Result, Output
    <2>5. Types'  BY <1>1, <2>2, <2>4 DEF Publish, Types
    <2> QED  BY <1>1, <2>2, <2>3, <2>4, <2>5 DEF Publish, Types, Result,
               IdsAscend, ResetStops, ResultOfRoute, RouteOfMission
  <1>2. CASE Fail
    <2>1. PICK retryable \in BOOLEAN :
             CleanAndRetry(shouldRetry \/ (retryable /\ request # None), retryTimes)
      BY <1>2 DEF Fail
    <2>2. /\ request' \in Requests \cup {None} /\ teleop' = None
          /\ retryTimes' \in 0..MaxRetryTimes
          /\ lastRequest' = lastRequest /\ pc' = "idle"
          /\ button' = FALSE /\ command' = FALSE /\ shouldRetry' \in BOOLEAN
      <3>1. retryTimes \in 0..MaxRetryTimes
        BY DEF Types
      <3> DEFINE should == shouldRetry \/ (retryable /\ request # None)
      <3>2. should \in BOOLEAN
        OBVIOUS
      <3>3. CleanAndRetry(should, retryTimes)
        BY <2>1
      <3> HIDE DEF should
      <3> QED  BY <3>1, <3>2, <3>3, Cleaned, Zenon
    <2>3. Flags'  BY <1>2, <2>2, Zenon DEF Fail, Flags
    <2>4. /\ published' \in Output /\ published'.id = published.id
          /\ published'.of = published.of /\ published'.routeOf = published.routeOf
          /\ published'.status \in {published.status, "INVALID"}
      BY <1>2 DEF Fail, Types, Output
    <2>5. Types'  BY <1>2, <2>2, <2>4 DEF Fail, Types
    <2> QED  BY <1>2, <2>2, <2>3, <2>4, <2>5 DEF Fail, IdsAscend, ResetStops,
               ResultOfRoute, RouteOfMission
  <1>3. CASE ResetRoute
    <2>1. CleanAndRetry(shouldRetry, retryTimes) /\ retryTimes \in 0..MaxRetryTimes
      BY <1>3 DEF ResetRoute, Types
    <2>2. /\ request' \in Requests \cup {None} /\ teleop' = None
          /\ retryTimes' \in 0..MaxRetryTimes
          /\ lastRequest' = lastRequest /\ pc' = "idle"
          /\ button' = FALSE /\ command' = FALSE /\ shouldRetry' = shouldRetry
      BY <2>1, Cleaned, Zenon
    <2>3. Flags'  BY <1>3, <2>2, Zenon DEF ResetRoute, Flags
    <2>4. /\ published' \in Output /\ published'.status # "NORMAL"
          /\ published'.id = IF resets < 2 THEN requestId' ELSE 0
      BY <1>3 DEF ResetRoute, Types, Output
    <2>5. result' \in Result /\ result'.id = -1 /\ result'.of = None
      BY <1>3 DEF ResetRoute, NoResult, Result
    <2>6. Types'
      BY <1>3, <2>2, <2>4, <2>5 DEF ResetRoute, Types
    <2>7. IdsAscend'
      BY <1>3, <2>2, <2>4, <2>5 DEF ResetRoute, IdsAscend, Types
    <2> QED  BY <1>3, <2>2, <2>3, <2>4, <2>5, <2>6, <2>7 DEF ResetRoute,
               ResetStops, ResultOfRoute, RouteOfMission
  <1> QED  BY <1>1, <1>2, <1>3

LEMMA RoutingNext == RoutingInv /\ [Next]_vars => RoutingInv'
  <1> SUFFICES ASSUME RoutingInv, [Next]_vars PROVE RoutingInv'
    OBVIOUS
  <1>1. CASE UNCHANGED vars
    <2> USE DEF RoutingInv, vars, inputs, retry, stations, routed, outputs
    <2>1. Flags'  BY <1>1, Zenon DEF Flags
    <2> QED  BY <1>1, <2>1 DEF Types, IdsAscend, ResetStops, ResultOfRoute,
               RouteOfMission
  <1>2. CASE Handlers
    BY <1>2, HandlerSteps
  <1>3. CASE MainLoop
    BY <1>3, HandlerSteps, AddRequestsStep, RoutedSteps, NotRoutedSteps,
       TrackSteps, RerouteSteps, EndSteps DEF MainLoop, Initiate
  <1> QED  BY <1>1, <1>2, <1>3 DEF Next

LEMMA RoutingInvariant == Spec => []RoutingInv
  BY RoutingInit, RoutingNext, PTL DEF Spec

-----------------------------------------------------------------------------
(* The request there to be retried.                                        *)
RetryInv == retried \in BOOLEAN /\ RetryIsOfLast

LEMMA RetryNext == RetryInv /\ [Next]_vars => RetryInv'
  <1> SUFFICES ASSUME RetryInv, [Next]_vars
               PROVE  RetryInv'
    OBVIOUS
  <1> USE DEF RetryInv, RetryIsOfLast
  <1>1. CASE UNCHANGED <<inputs, retry>>
    BY <1>1 DEF inputs, retry
  <1>2. CASE \E r \in Requests : HandleRunEventStates(r) \/ HandleReroutingRequest(r)
    BY <1>2 DEF HandleRunEventStates, HandleReroutingRequest
  <1>3. CASE \/ \E r \in Requests : HandleRemoteAssistToCar(r)
             \/ HandleDriverAction \/ HandlePlannerExternalCommandStatus
    BY <1>3 DEF HandleRemoteAssistToCar, HandleDriverAction,
       HandlePlannerExternalCommandStatus, retry
  <1>4. CASE AddRequests
    <2>1. retried' = (retried /\ teleop = None)
      BY <1>4 DEF AddRequests
    <2>2. retried' => request' = request
      BY <1>4, <2>1 DEF AddRequests
    <2>3. lastRequest' = lastRequest /\ shouldRetry' = shouldRetry
      BY <1>4 DEF AddRequests, retry
    <2> QED  BY <2>1, <2>2, <2>3
  <1>5. ASSUME NEW should, NEW times, CleanAndRetry(should, times)
        PROVE  RetryInv'
    BY <1>5 DEF CleanAndRetry
  <1>6. CASE Publish \/ Fail \/ ResetRoute
    BY <1>5, <1>6 DEF Publish, Fail, ResetRoute
  <1>7. CASE Tick \/ Initiate \/ NoRouteToTrack \/ Track \/ LoseTrack \/ Reroute
             \/ NoReroute
    BY <1>1, <1>7 DEF Tick, Initiate, RouteOffRoad, NoRouteToFirstStop,
       RouteToNextStop, NoRouteToNextStop, NothingToInitiate, RouteToFirstStop,
       NoRouteToTrack, Track, LoseTrack, Reroute, NoReroute
  <1>8. CASE UNCHANGED vars
    BY <1>1, <1>8 DEF vars
  <1> QED  BY <1>2, <1>3, <1>4, <1>6, <1>7, <1>8 DEF Next, Handlers, MainLoop

LEMMA RetryInvariant == Spec => []RetryInv
  <1>1. Init => RetryInv
    BY DEF Init, RetryInv, RetryIsOfLast
  <1> QED  BY <1>1, RetryNext, PTL DEF Spec

(* Indexes stay within the mission and retries within their limit          *)
(* (async_retry.h).                                                        *)
THEOREM IndexesAndRetriesBounded == Spec => []TypeOK
  <1>1. RoutingInv /\ RetryInv => TypeOK
    <2> SUFFICES ASSUME RoutingInv, RetryInv PROVE TypeOK
      OBVIOUS
    <2>1. /\ Types
          /\ Flags
          /\ retried \in BOOLEAN
      BY Zenon DEF RoutingInv, RetryInv
    <2> QED  BY <2>1 DEF Types, Flags, TypeOK, Result, Output
  <1> QED  BY <1>1, RoutingInvariant, RetryInvariant, PTL

(* What is published for a mission is its route, and what is left of the   *)
(* route leads to the next stop (route_manager.cc, UpdateStationsInfo).    *)
THEOREM RouteLeadsToNextStop == Spec => []RouteOfMission
  <1>1. RoutingInv => RouteOfMission
    BY DEF RoutingInv
  <1> QED  BY <1>1, RoutingInvariant, PTL

(* A new route carries an id larger than that published last.              *)
THEOREM IdsTellRoutesApart == Spec => NewRouteNewId
  <1>1. RoutingInv /\ [Next]_vars =>
           [pc = "publish" /\ isNew => published'.id > published.id]_vars
    <2> SUFFICES ASSUME RoutingInv, Next, pc = "publish", isNew
                 PROVE  published'.id > published.id
      BY DEF vars, inputs, retry, stations, routed, outputs
    <2>1. Publish
      BY DEF Next, Handlers, MainLoop, Initiate, HandleRunEventStates,
         HandleReroutingRequest, HandleRemoteAssistToCar, HandleDriverAction,
         HandlePlannerExternalCommandStatus, Tick, AddRequests, RouteOffRoad,
         NoRouteToFirstStop, RouteToNextStop, NoRouteToNextStop, MayGoToNextStop,
         NothingToInitiate, RouteToFirstStop, NoRouteToTrack, Track, LoseTrack,
         Reroute, NoReroute, MayReroute, Fail, ResetRoute
    <2>2. isNew = TRUE
      BY DEF RoutingInv, Flags
    <2> QED  BY <2>1, <2>2 DEF Publish, RoutingInv, Types, IdsAscend, Result, Output
  <1> QED  BY <1>1, RoutingInvariant, PTL DEF Spec, NewRouteNewId

(* A waiting mission leaves the queue by being routed, for a mission or    *)
(* reset received since the last iteration, or for the HMI's last request, *)
(* retried after a failure that no published route made good.              *)
THEOREM MissionsAreNotDropped == Spec => PendingIsRoutedOrReplaced
  <1> DEFINE Lost == pending # None /\ pending' # pending
             Allowed == \/ mission' = pending /\ result'.of = pending
                        \/ pc = "start" /\ pending' \in NewlyAsked
                        \/ /\ pc = "start" /\ retried /\ shouldRetry
                           /\ pending' = Queued(lastRequest)
  <1>1. RetryInv /\ [Next]_vars => [Lost => Allowed]_vars
    <2> SUFFICES ASSUME RetryInv, Next, pending # None, pending' # pending
                 PROVE  Allowed
      BY DEF vars, inputs, retry, stations, routed, outputs
    <2>1. CASE Handlers \/ Tick
      BY <2>1 DEF Handlers, HandleRunEventStates,
         HandleReroutingRequest, HandleRemoteAssistToCar, HandleDriverAction,
         HandlePlannerExternalCommandStatus, Tick
    <2>2. CASE AddRequests
      <3>1. PICK first \in {pending, Queued(request)} :
              \E second \in {first, Queued(teleop)} :
                 /\ request = None => first = pending
                 /\ teleop = None => second = first
                 /\ pending' = second
        BY <2>2 DEF AddRequests
      <3>2. CASE pending' = Queued(teleop) /\ teleop # None
        BY <2>2, <3>2 DEF AddRequests, NewlyAsked
      <3>3. CASE pending' = Queued(request) /\ request # None
        <4>1. CASE retried
          <5>1. request = lastRequest /\ shouldRetry
            BY <4>1 DEF RetryInv, RetryIsOfLast
          <5> QED  BY <2>2, <3>3, <4>1, <5>1 DEF AddRequests
        <4>2. CASE ~retried
          BY <2>2, <3>3, <4>2 DEF AddRequests, NewlyAsked
        <4> QED  BY <4>1, <4>2
      <3> QED  BY <3>1, <3>2, <3>3
    <2>3. CASE Initiate
      BY <2>3 DEF Initiate, RouteOffRoad, NoRouteToFirstStop, RouteToNextStop,
         NoRouteToNextStop, MayGoToNextStop, NothingToInitiate,
         RouteToFirstStop, Received
    <2>4. CASE NoRouteToTrack \/ Track \/ LoseTrack \/ Reroute \/ NoReroute
               \/ Publish \/ Fail \/ ResetRoute
      BY <2>4 DEF NoRouteToTrack, Track, LoseTrack, Reroute, NoReroute,
         Publish, Fail, ResetRoute
    <2> QED  BY <2>1, <2>2, <2>3, <2>4 DEF Next, MainLoop
  <1> QED  BY <1>1, RetryInvariant, PTL DEF Spec, PendingIsRoutedOrReplaced

(* Nothing but a new mission of the HMI ends a reset.                      *)
THEOREM ResetLasts == Spec => ResetIsKept
  <1>1. RoutingInv /\ [Next]_vars =>
           [lastRequest = Reset /\ lastRequest' = Reset
              /\ published' # published => published'.status # "NORMAL"]_vars
    <2> SUFFICES ASSUME RoutingInv, Next, lastRequest = Reset,
                        published' # published
                 PROVE  published'.status # "NORMAL"
      BY DEF vars, inputs, retry, stations, routed, outputs
    <2>1. pc \notin {"initiate", "track", "publish", "fail"}
      BY DEF RoutingInv, ResetStops
    <2>2. CASE Handlers \/ Tick \/ AddRequests
      BY <2>2 DEF Handlers, HandleRunEventStates, outputs,
         HandleReroutingRequest, HandleRemoteAssistToCar, HandleDriverAction,
         HandlePlannerExternalCommandStatus, Tick, AddRequests
    <2>3. CASE ResetRoute
      BY <2>3 DEF ResetRoute
    <2> QED
      BY <2>1, <2>2, <2>3 DEF Next, MainLoop, Initiate, RouteOffRoad,
         NoRouteToFirstStop, RouteToNextStop, NoRouteToNextStop, MayGoToNextStop,
         NothingToInitiate, RouteToFirstStop, NoRouteToTrack, Track, LoseTrack,
         Reroute, NoReroute, MayReroute, Publish, Fail
  <1> QED  BY <1>1, RoutingInvariant, PTL DEF Spec, ResetIsKept
=============================================================================

---------------------------- MODULE RoutingModule ----------------------------
(***************************************************************************)
(* RoutingModule::MainLoop and RouteManager::Update (L4): from missions to *)
(* routes.                                                                 *)
(*                                                                         *)
(* Missions come from the HMI (run event states), from rerouting requests  *)
(* and from teleoperation.  A mission waits in pending_multi_stops until a *)
(* route to its next stop is found; the vehicle is then tracked along the  *)
(* route, rerouted when it leaves it, and sent to the next stop when the   *)
(* RES button is pressed.  A failed request is retried.  Every message     *)
(* carries an update id by which the planner knows a new route.            *)
(*                                                                         *)
(* Handlers and the main loop run on one thread: the steps of an iteration *)
(* follow each other (pc) and no handler runs between them.                *)
(***************************************************************************)
EXTENDS Integers, FiniteSets

CONSTANTS
    OnRoad,         \* missions whose stops are reached along the road
    OffRoad,        \* missions with one off-road stop (a parking spot)
    Reset,          \* the request that ends the mission
    None,
    NumDests,       \* destinations of an on-road mission: via points and stops
    Stops,          \* those that are stops; the others are via points
    MaxRetryTimes,  \* AsyncRetry::max_retry_times
    RerouteTicks,   \* iterations longer than kRerouteThresholdMicros
    MaxId           \* bound: update ids before the environment gives up failing

Dests == 0..(NumDests - 1)

ASSUME DestsAssumption == NumDests \in Nat \ {0} /\ Stops \subseteq Dests /\ NumDests - 1 \in Stops
ASSUME RequestsAssumption ==
    /\ OnRoad \cap OffRoad = {} /\ Reset \notin OnRoad \cup OffRoad
    /\ None \notin OnRoad \cup OffRoad \cup {Reset}
ASSUME BoundsAssumption == MaxRetryTimes \in Nat /\ RerouteTicks \in Nat \ {0} /\ MaxId \in Nat

Missions == OnRoad \cup OffRoad
Requests == Missions \cup {Reset}

VARIABLES
    pc,           \* step of the iteration
    request,      \* input_.rerouting_request
    retried,      \* history: the request is there to be retried
    teleop,       \* rerouting request in input_.remote_assist_to_car
    button,       \* input_.res_button_pressed
    command,      \* input_.external_router_command is INPLACE_REROUTE
    lastRequest,  \* last_rerouting_request_
    shouldRetry,  \* async_retry_.should_retry
    retryTimes,   \* async_retry_.retry_times
    pending,      \* data_.pending_multi_stops
    active,       \* data_.active_routing_request is set
    requestId,    \* data_.request_id
    mission,      \* data_.multi_stops
    nextDest,     \* data_.next_destination_index
    pendingNext,  \* rms_debug.pending_next_destination_index
    reached,      \* rms_debug.reached_destination_index
    route,        \* data_.route: the mission it belongs to
    left,         \* destinations left in data_.route_from_current
    missed,       \* iterations since rms_debug.last_update_time
    result,       \* data_.routing_result_proto: its update id and mission
    isNew,        \* is_new_route
    resets,       \* route_reset_action_.publish_route_times_when_reset_
    published     \* the last RouteManagerOutputProto

inputs == <<request, retried, teleop, button, command>>
retry == <<lastRequest, shouldRetry, retryTimes>>
stations == <<nextDest, pendingNext, reached>>
routed == <<route, left, missed, result>>
outputs == <<resets, published>>
vars == <<pc, inputs, retry, pending, active, requestId, mission, stations,
          routed, isNew, outputs>>

NoResult == [id |-> -1, of |-> None]
Never == RerouteTicks + 1       \* last_update_time -1: longer ago than any threshold
Nothing == [status |-> "none", id |-> -1, of |-> None, routeOf |-> None]
Min(a, b) == IF a < b THEN a ELSE b
Sooner(t) == Min(t + 1, Never)

(* MultipleStopsRequest::GetStopIndex: the stop a destination leads to.    *)
StopIndex(d) == CHOOSE s \in Stops : s >= d /\ \A t \in Stops : t >= d => s <= t

Init ==
    /\ pc = "idle"
    /\ request = None /\ retried = FALSE /\ teleop = None
    /\ button = FALSE /\ command = FALSE
    /\ lastRequest = None /\ shouldRetry = FALSE /\ retryTimes = 0
    /\ pending = None /\ active = FALSE /\ requestId = -1 /\ mission = None
    /\ nextDest = -1 /\ pendingNext = -1 /\ reached = -1
    /\ route = None /\ left = 0 /\ missed = Never /\ result = NoResult
    /\ isNew = FALSE /\ resets = 0 /\ published = Nothing

-----------------------------------------------------------------------------
(* Handlers.  The environment stops failing and asking at MaxId.           *)

Undecided == requestId < MaxId

(* A request equal to the last one and newer than it is a duplicate.       *)
HandleRunEventStates(r) ==
    /\ pc = "idle" /\ Undecided /\ r # lastRequest
    /\ lastRequest' = r /\ request' = r /\ retried' = FALSE
    /\ shouldRetry' = FALSE /\ retryTimes' = 0
    /\ UNCHANGED <<pc, teleop, button, command, pending, active, requestId,
                   mission, stations, routed, isNew, outputs>>

(* The main loop runs at once.                                             *)
HandleReroutingRequest(r) ==
    /\ pc = "idle" /\ Undecided
    /\ request' = r /\ retried' = FALSE
    /\ pc' = "start"
    /\ UNCHANGED <<teleop, button, command, retry, pending, active, requestId,
                   mission, stations, routed, isNew, outputs>>

HandleRemoteAssistToCar(r) ==
    /\ pc = "idle" /\ Undecided
    /\ teleop' = r
    /\ UNCHANGED <<pc, request, retried, button, command, retry, pending, active,
                   requestId, mission, stations, routed, isNew, outputs>>

HandleDriverAction ==
    /\ pc = "idle" /\ Undecided
    /\ button' = TRUE
    /\ UNCHANGED <<pc, request, retried, teleop, command, retry, pending, active,
                   requestId, mission, stations, routed, isNew, outputs>>

HandlePlannerExternalCommandStatus ==
    /\ pc = "idle" /\ Undecided
    /\ command' \in BOOLEAN
    /\ UNCHANGED <<pc, request, retried, teleop, button, retry, pending, active,
                   requestId, mission, stations, routed, isNew, outputs>>

(* The timer of the main loop: one tick of the clock.                      *)
Tick ==
    /\ pc = "idle"
    /\ pc' = "start"
    /\ missed' = Sooner(missed)
    /\ UNCHANGED <<inputs, retry, pending, active, requestId, mission, stations,
                   route, left, result, isNew, outputs>>

-----------------------------------------------------------------------------
(* RouteManager::AddManualReroutingRequest, for the request received and   *)
(* for teleoperation's, which takes its place.  Building the stops of a    *)
(* request may fail; a reset request has none.                             *)

Queued(r) == IF r = Reset THEN None ELSE r

(* A slip: only the request of this iteration resets.                      *)
IsResetRequestNow == request = Reset

(* A slip: the reset lasts until a route is published.                     *)
IsResetRequestPublished == lastRequest = Reset \/ resets > 0

IsResetRequest == lastRequest = Reset

AddRequests ==
    /\ pc = "start"
    /\ \E first \in {pending, Queued(request)} :
       \E second \in {first, Queued(teleop)} :
          /\ request = None => first = pending
          /\ teleop = None => second = first
          /\ pending' = second
    /\ request' = IF teleop = None THEN request ELSE teleop
    /\ retried' = (retried /\ teleop = None)
    /\ pc' = IF IsResetRequest THEN "reset" ELSE "initiate"
    /\ isNew' = FALSE
    /\ UNCHANGED <<teleop, button, command, retry, active, requestId, mission,
                   stations, routed, outputs>>

-----------------------------------------------------------------------------
(* InitiateRoutingRequest and ReceivedSuccessfulRoutingResult.             *)

(* What a successful routing result does to the state.                     *)
Received(of, dest) ==
    /\ active' = FALSE
    /\ requestId' = requestId + 1
    /\ result' = [id |-> requestId', of |-> of]
    /\ mission' = of /\ pending' = None
    /\ nextDest' = dest /\ pendingNext' = dest
    /\ missed' = 0
    /\ isNew' = TRUE
    /\ pc' = "track"

(* A mission with one off-road stop keeps the route there was.             *)
RouteOffRoad ==
    /\ pc = "initiate" /\ pending \in OffRoad
    /\ Received(pending, 0)
    /\ reached' = -1
    /\ UNCHANGED <<inputs, retry, route, left, outputs>>

(* The first stop ahead of the vehicle, found along the mission.           *)

RouteToFirstStop(d) ==
    /\ pc = "initiate" /\ pending \in OnRoad
    /\ Received(pending, d)
    /\ reached' = -1
    /\ route' = pending /\ left' = StopIndex(d) - d + 1
    /\ UNCHANGED <<inputs, retry, outputs>>

(* No stop ahead, no request for it, or no route: the mission stays.       *)
NoRouteToFirstStopDropped ==           \* a slip: the failed mission is dropped
    /\ pc = "initiate" /\ pending \in OnRoad /\ Undecided
    /\ pending' = None
    /\ pc' = "fail"
    /\ UNCHANGED <<inputs, retry, active, requestId, mission, stations, routed,
                   isNew, outputs>>

NoRouteToFirstStop ==
    /\ pc = "initiate" /\ pending \in OnRoad /\ Undecided
    /\ \/ UNCHANGED <<active, requestId>>
       \/ active' = TRUE /\ UNCHANGED requestId
       \/ active' = TRUE /\ requestId' = requestId + 1
    /\ pc' = "fail"
    /\ UNCHANGED <<inputs, retry, pending, mission, stations, routed, isNew,
                   outputs>>

(* The next stop of the mission, when the RES button was pressed.          *)
NextStop == StopIndex(nextDest) + 1

MayGoToNextStop ==
    /\ pc = "initiate" /\ pending = None /\ ~active
    /\ nextDest >= 0 /\ mission \in OnRoad /\ route # None
    /\ button /\ NextStop < NumDests

RouteToNextStop ==
    /\ MayGoToNextStop
    /\ Received(mission, NextStop)
    /\ route' = mission /\ left' = StopIndex(NextStop) - NextStop + 1
    /\ UNCHANGED <<inputs, retry, reached, outputs>>

(* The vehicle drives on to the old stop, but the pending index and the    *)
(* active request are left as if it did not.                               *)
NoRouteToNextStop ==
    /\ MayGoToNextStop /\ Undecided
    /\ pendingNext' = NextStop
    /\ \/ UNCHANGED <<active, requestId>>
       \/ active' = TRUE /\ requestId' = requestId + 1
    /\ pc' = "track"
    /\ UNCHANGED <<inputs, retry, pending, mission, nextDest, reached, routed,
                   isNew, outputs>>

(* Nothing asks for a route, or the place of the stop ahead is not found.  *)
NothingToInitiate ==
    /\ pc = "initiate" /\ pending = None
    /\ MayGoToNextStop => Undecided
    /\ pc' = "track"
    /\ UNCHANGED <<inputs, retry, pending, active, requestId, mission, stations,
                   routed, isNew, outputs>>

-----------------------------------------------------------------------------
(* Tracking the vehicle along the route and rerouting.                     *)

NoRouteToTrack ==
    /\ pc = "track" /\ route = None
    /\ pc' = "publish"
    /\ UNCHANGED <<inputs, retry, pending, active, requestId, mission, stations,
                   routed, isNew, outputs>>

(* UpdateStationsInfo: a via point is reached, the stop is, or neither.    *)
ReachViaPointKept ==       \* a slip: the via point stays in the request
    /\ left > 1 /\ UNCHANGED left
    /\ reached' = pendingNext /\ pendingNext' = pendingNext + 1

ReachViaPoint ==
    /\ left > 1 /\ left' = left - 1
    /\ reached' = pendingNext /\ pendingNext' = pendingNext + 1

ReachStop == left = 1 /\ reached' = pendingNext /\ UNCHANGED <<left, pendingNext>>

UpdateStations == ReachViaPoint \/ ReachStop \/ UNCHANGED <<reached, pendingNext, left>>

(* The vehicle is on the route; a reroute the planner asked for is not     *)
(* answered close to the stop.                                             *)
Track ==
    /\ pc = "track" /\ route # None
    /\ UpdateStations
    /\ missed' = 0
    /\ pc' = "publish"
    /\ UNCHANGED <<inputs, retry, pending, active, requestId, mission, nextDest,
                   route, result, isNew, outputs>>

(* The vehicle is not found on the route: nothing is done for a while.  In *)
(* auto drive the time of the last update is forgotten after 250 ms.       *)
LoseTrack ==
    /\ pc = "track" /\ route # None /\ Undecided
    /\ \/ missed < RerouteTicks /\ missed' = missed
       \/ missed \in 1..(RerouteTicks - 1) /\ missed' = Never
       \/ missed >= RerouteTicks /\ missed' \in {missed, Never}   \* stop arrived
    /\ pc' = "publish"
    /\ UNCHANGED <<inputs, retry, pending, active, requestId, mission, stations,
                   route, left, result, isNew, outputs>>

(* Reroute to what is left of the route's request.                         *)
MayReroute == pc = "track" /\ route # None /\ (command \/ missed >= RerouteTicks)

(* Where the vehicle is seen when the route is searched anew: on the route *)
(* when the planner asked for it, or nowhere on it.                        *)
SeenBeforeReroute ==
    \/ UNCHANGED <<reached, pendingNext, left, missed>>
    \/ command /\ missed' = 0 /\ (ReachViaPoint \/ UNCHANGED <<reached, pendingNext, left>>)

RerouteSameId ==           \* a slip: the new route keeps the id of the old one
    /\ MayReroute /\ Undecided
    /\ UNCHANGED <<reached, pendingNext, left>>
    /\ result' = [id |-> requestId, of |-> route]
    /\ missed' = Never
    /\ isNew' = TRUE
    /\ pc' = "publish"
    /\ UNCHANGED <<inputs, retry, pending, active, requestId, mission, nextDest,
                   route, outputs>>

Reroute ==
    /\ MayReroute /\ Undecided
    /\ \/ ReachViaPoint /\ command
       \/ UNCHANGED <<reached, pendingNext, left>>
    /\ requestId' = requestId + 1
    /\ result' = [id |-> requestId', of |-> route]
    /\ missed' = Never
    /\ isNew' = TRUE
    /\ pc' = "publish"
    /\ UNCHANGED <<inputs, retry, pending, active, mission, nextDest, route,
                   outputs>>

NoReroute ==
    /\ MayReroute /\ Undecided
    /\ SeenBeforeReroute
    /\ requestId' = requestId + 1
    /\ pc' = "fail"
    /\ UNCHANGED <<inputs, retry, pending, active, mission, nextDest, route,
                   result, isNew, outputs>>

-----------------------------------------------------------------------------
(* The end of the iteration: publish, or note the failure; then clean.     *)

(* CleanBeforeNextIteration, and the retry of the last request.            *)
CleanAndRetry(should, times) ==
    LET again == should /\ times < MaxRetryTimes /\ lastRequest # None IN
    /\ request' = IF again THEN lastRequest ELSE None
    /\ retried' = again
    /\ retryTimes' = IF again THEN times + 1 ELSE times
    /\ shouldRetry' = should
    /\ teleop' = None /\ button' = FALSE /\ command' = FALSE
    /\ UNCHANGED lastRequest
    /\ pc' = "idle"

Publish ==
    /\ pc = "publish"
    /\ published' = [status |-> IF result = NoResult THEN "INVALID" ELSE "NORMAL",
                     id |-> result.id, of |-> result.of, routeOf |-> route]
    /\ resets' = 0
    /\ CleanAndRetry(FALSE, 0)
    /\ UNCHANGED <<pending, active, requestId, mission, stations, routed, isNew>>

(* ProcessRouteManagerOutputError: only an iteration with a request has    *)
(* the request retried, unless the request is invalid.                     *)
Fail ==
    /\ pc = "fail"
    /\ \E retryable \in BOOLEAN :
          CleanAndRetry(shouldRetry \/ (retryable /\ request # None), retryTimes)
    /\ published' \in {published, [published EXCEPT !.status = "INVALID"]}
    /\ UNCHANGED <<pending, active, requestId, mission, stations, routed, isNew,
                   resets>>

(* RoutingResetRequest and RouteResetAction: the reset is published twice. *)
(* Later iterations only count the id on, which is left out.               *)
ResetRoute ==
    /\ pc = "reset"
    /\ requestId' = IF resets < 2 THEN requestId + 1 ELSE requestId
    /\ route' = None /\ left' = 0 /\ result' = NoResult
    /\ reached' = -1
    /\ resets' = Min(resets + 1, 3)
    /\ published' = IF resets < 2
                    THEN [status |-> "RESET", id |-> requestId', of |-> None, routeOf |-> None]
                    ELSE [status |-> "INVALID", id |-> 0, of |-> None, routeOf |-> None]
    /\ CleanAndRetry(shouldRetry, retryTimes)
    /\ UNCHANGED <<pending, active, mission, nextDest, pendingNext, missed,
                   isNew>>

Handlers ==
    \/ \E r \in Requests : HandleRunEventStates(r)
    \/ \E r \in Requests : HandleReroutingRequest(r)
    \/ \E r \in Requests : HandleRemoteAssistToCar(r)
    \/ HandleDriverAction \/ HandlePlannerExternalCommandStatus

Initiate ==
    \/ RouteOffRoad \/ NoRouteToFirstStop \/ RouteToNextStop
    \/ NoRouteToNextStop \/ NothingToInitiate
    \/ \E d \in Dests : RouteToFirstStop(d)

MainLoop ==
    \/ Tick \/ AddRequests \/ Initiate
    \/ NoRouteToTrack \/ Track \/ LoseTrack \/ Reroute \/ NoReroute
    \/ Publish \/ Fail \/ ResetRoute

Next == Handlers \/ MainLoop

Spec == Init /\ [][Next]_vars

(* The timer calls the main loop for ever, an iteration ends, and a route  *)
(* that is searched for again and again is found.                          *)
FairSpec ==
    /\ Spec /\ WF_vars(MainLoop)
    /\ SF_vars(\E d \in Dests : RouteToFirstStop(d))

-----------------------------------------------------------------------------
(* Type invariant: destinations of the mission, retries below the limit,   *)
(* only on-road missions with a route.                                     *)
TypeOK ==
    /\ pc \in {"idle", "start", "reset", "initiate", "track", "publish", "fail"}
    /\ request \in Requests \cup {None} /\ teleop \in Requests \cup {None}
    /\ button \in BOOLEAN /\ command \in BOOLEAN
    /\ lastRequest \in Requests \cup {None}
    /\ shouldRetry \in BOOLEAN /\ retried \in BOOLEAN /\ retryTimes \in 0..MaxRetryTimes
    /\ pending \in Missions \cup {None} /\ active \in BOOLEAN
    /\ requestId \in Int /\ requestId >= -1
    /\ mission \in Missions \cup {None}
    /\ nextDest \in Dests \cup {-1} /\ pendingNext \in Int /\ reached \in Int
    /\ route \in OnRoad \cup {None} /\ left \in 0..NumDests
    /\ missed \in 0..Never
    /\ result \in [id : Int, of : Missions \cup {None}]
    /\ isNew \in BOOLEAN /\ resets \in 0..3
    /\ published \in [status : {"none", "NORMAL", "INVALID", "RESET"}, id : Int,
                       of : Missions \cup {None}, routeOf : OnRoad \cup {None}]

(* A published route and the mission it is published for agree, although   *)
(* result, route, mission and destination indexes are set in different     *)
(* places and an off-road mission leaves the route of the one before it:   *)
(* the route is one of the mission, and while the next stop is the one it  *)
(* leads to, the destinations left on it are those from the pending one to *)
(* this stop, however many via points were passed.                         *)
RouteOfMission ==
    /\ published.status = "NORMAL" /\ published.of \in OnRoad =>
          published.routeOf = published.of
    /\ route # None /\ route = mission =>
          /\ nextDest \in Dests
          /\ pendingNext <= StopIndex(nextDest) =>
                 pendingNext + left - 1 = StopIndex(nextDest)

(* An iteration that took a new route publishes it under an id larger than *)
(* the one published last, also when that was a reset: the planner compares *)
(* these two to see that it was rerouted.                                  *)
NewRouteNewId ==
    [][pc = "publish" /\ isNew => published'.id > published.id]_vars

(* The missions this iteration was asked for: by a handler's request that  *)
(* is not there as a retry, and by teleoperation.                          *)
NewlyAsked ==
    {Queued(r) : r \in ((IF retried THEN {} ELSE {request}) \cup {teleop}) \ {None}}

(* A waiting mission is only lost by being routed, to a mission or reset   *)
(* asked for since the last iteration, or to the retry of the HMI's last   *)
(* request, whichever search failed before.  When another source asked     *)
(* meanwhile the retry is of an older request and takes the place of a     *)
(* newer mission: the code does that, but only while the failure the retry *)
(* follows was not made good by a published route, and only with the HMI's *)
(* last request, so that a mission of the HMI never gives way to a retry.  *)
PendingIsRoutedOrReplaced ==
    [][pending # None /\ pending' # pending =>
          \/ mission' = pending /\ result'.of = pending
          \/ pc = "start" /\ pending' \in NewlyAsked
          \/ /\ pc = "start" /\ retried /\ shouldRetry
             /\ pending' = Queued(lastRequest)]_vars

(* Without the last case: no run checks it, see finding 7 of the README.   *)
RetryReplacesNothing ==
    [][pending # None /\ pending' # pending =>
          \/ mission' = pending /\ result'.of = pending
          \/ pc = "start" /\ pending' \in NewlyAsked]_vars

(* Why: a request there to be retried is the HMI's last, and the failure   *)
(* was not made good.                                                      *)
RetryIsOfLast == retried => request = lastRequest /\ shouldRetry

(* Once the mission was reset no route is published until the HMI sends a  *)
(* new mission, whatever else is requested meanwhile.                      *)
ResetIsKept ==
    [][lastRequest = Reset /\ lastRequest' = Reset /\ published' # published =>
          published'.status # "NORMAL"]_vars

(* A waiting mission is routed or replaced, unless the mission was reset:  *)
(* neither a failed search nor the request left active by it stops it.     *)
RequestIsServed ==
    \A m \in Missions :
        pending = m /\ lastRequest # Reset ~> pending # m \/ lastRequest = Reset

(* What is retried after a failure is the request that failed ("Will retry *)
(* routing request next iteration", routing_module.cc:646).  The retry     *)
(* sends the last mission of the HMI instead.                              *)
RetryKeepsRequest ==
    [][pc = "fail" /\ request' # None /\ request # None => request' = request]_vars
=============================================================================

--------------------------- MODULE DriverlessTasks ---------------------------
(***************************************************************************)
(* RunPlanTaskDispatcher in driverless (L4) mode: the queue of plan tasks  *)
(* made from a route, what changes it while the vehicle drives, and the    *)
(* freespace tasks that share one freespace planner state.                 *)
(*                                                                         *)
(* A frame that fails keeps what it did before: the route's id and the new *)
(* queue are in the state at once, but that the task is new is known to    *)
(* this frame only.                                                        *)
(***************************************************************************)
EXTENDS FreespacePlanner, SequencesExt

CONSTANTS
    Stops,            \* kinds of destination: "road", "depart", "park", "off_road"
    ThreePointTurn,   \* U-turn tasks enabled, planner_async_low_freq_cycle_iterations = 0
    MaxRoutes,        \* bound: routes published
    MaxRequests,      \* bound: U-turns ahead and out-of-blocked-road requests
    MaxFaults,        \* bound: frames in which a step fails or the path is blocked
    MaxTakeovers      \* bound: times auto drive ends

ASSUME StopsAssumption == Stops \subseteq {"road", "depart", "park", "off_road"}
ASSUME ThreePointTurnAssumption == ThreePointTurn \in BOOLEAN
ASSUME DriverlessBounds ==
    {MaxRoutes, MaxRequests, MaxFaults, MaxTakeovers} \subseteq Nat

VARIABLES
    route,       \* newest route of the router: update id and kind of stop
    standby,     \* the newest message is a reset
    map,         \* the planner semantic map manager is there
    autonomy,    \* autonomy state, as far as the tasks read it
    gear,        \* chassis gear
    command,     \* gear of the last published trajectory
    seen,        \* planner_state->route_update_id, 0 before the first route
    queue,       \* planner_state->plan_task_queue
    fs,          \* planner_state->freespace_planner_state
    mission,     \* history: the route the queue was made from
    missed,      \* history: that the task is new was lost, or its search failed
    requests,    \* history: U-turns and requests that changed the queue
    faults,      \* history: faults so far
    takeovers,   \* history: ends of auto drive
    ended        \* the process has ended on QCHECK(!plan_task_queue.empty())

source == <<route, standby, map>>
vehicle == <<autonomy, gear>>
dispatcher == <<seen, queue, fs, mission, missed>>
counters == <<requests, faults, takeovers>>
taskVars == <<source, vehicle, command, dispatcher, counters, ended>>

NoRoute == [id |-> 0, stop |-> "none"]
RouteIds == 0 .. MaxRoutes
OnRoad(id) == [type |-> "ON_ROAD_CRUISE_PLAN", route |-> id, nth |-> 0]
Depart(id) == [type |-> "OFF_ROAD_DEPART", route |-> id, nth |-> 0]
Park(id) == [type |-> "OFF_ROAD_PARK", route |-> id, nth |-> 0]
OutOfBlocked(id, nth) == [type |-> "BLOCKED_PLAN", route |-> id, nth |-> nth]
Uturn(id, nth) == [type |-> "UTURN_PLAN", route |-> id, nth |-> nth]

NoTask == [type |-> "NONE", route |-> 0, nth |-> 0]
Tasks ==
    [type : {"ON_ROAD_CRUISE_PLAN", "OFF_ROAD_DEPART", "OFF_ROAD_PARK",
             "BLOCKED_PLAN", "UTURN_PLAN"},
     route : RouteIds, nth : 0 .. MaxRequests]

IsFreespacePlanTask(task) == task.type # "ON_ROAD_CRUISE_PLAN"
IsOffRoad(task) == task.type \in {"OFF_ROAD_DEPART", "OFF_ROAD_PARK"}
IsAutoDrive == autonomy = "AUTO_DRIVE"

CreatePlanTasksQueueFromRoutingResult(r) ==
    CASE r.stop = "off_road" -> <<Park(r.id)>>
      [] r.stop = "depart" -> <<Depart(r.id), OnRoad(r.id)>>
      [] r.stop = "park" -> <<OnRoad(r.id), Park(r.id)>>
      [] OTHER -> <<OnRoad(r.id)>>

TasksInit ==
    /\ route = NoRoute /\ standby = FALSE /\ map = FALSE
    /\ autonomy = "READY_TO_AUTO_DRIVE" /\ gear = "P" /\ command = "P"
    /\ seen = 0 /\ queue = <<>> /\ fs = NoFreespaceState(NoTask)
    /\ mission = NoRoute /\ missed = FALSE
    /\ requests = 0 /\ faults = 0 /\ takeovers = 0 /\ ended = FALSE

-----------------------------------------------------------------------------
(* The router, the map, the driver and the vehicle.                        *)

PublishRoute ==
    /\ route.id < MaxRoutes
    /\ \E s \in Stops : route' = [id |-> route.id + 1, stop |-> s]
    /\ standby' = FALSE
    /\ UNCHANGED <<map, vehicle, command, dispatcher, counters, ended>>

ResetRoute ==
    /\ route # NoRoute /\ ~standby
    /\ standby' = TRUE
    /\ UNCHANGED <<route, map, vehicle, command, dispatcher, counters, ended>>

LoadMap ==
    /\ ~map
    /\ map' = TRUE
    /\ UNCHANGED <<route, standby, vehicle, command, dispatcher, counters, ended>>

Engage ==
    /\ ~IsAutoDrive
    /\ autonomy' = "AUTO_DRIVE"
    /\ UNCHANGED <<source, gear, command, dispatcher, counters, ended>>

EndAutoDrive ==
    /\ IsAutoDrive /\ takeovers < MaxTakeovers
    /\ autonomy' \in {"READY_TO_AUTO_DRIVE", "EMERGENCY_TO_TAKEOVER"}
    /\ takeovers' = takeovers + 1
    /\ UNCHANGED <<source, gear, command, dispatcher, requests, faults, ended>>

ShiftGear ==
    /\ IsAutoDrive /\ gear # command
    /\ gear' = command
    /\ UNCHANGED <<source, autonomy, command, dispatcher, counters, ended>>

DriverShiftsGear ==
    /\ ~IsAutoDrive
    /\ \E g \in Gears \ {gear} : gear' = g
    /\ UNCHANGED <<source, autonomy, command, dispatcher, counters, ended>>

-----------------------------------------------------------------------------
(* What a frame makes of the queue.                                        *)

Requests == {"none", "uturn", "uturn_to_end", "blocked"}

Rerouted == route.id # seen
SwitchPlanTask ==
    IF Rerouted THEN CreatePlanTasksQueueFromRoutingResult(route) ELSE queue

HeadIs(q, type) == q # <<>> /\ Head(q).type = type

UturnBeforeCruise(q, request) ==  \* a slip: the cruise task is not popped
    IF /\ ThreePointTurn /\ IsAutoDrive
       /\ request \in {"uturn", "uturn_to_end"}
       /\ HeadIs(q, "ON_ROAD_CRUISE_PLAN")
    THEN <<Uturn(route.id, requests + 1)>>
         \o (IF request = "uturn" THEN <<OnRoad(route.id)>> ELSE <<>>) \o q
    ELSE q

(* The cruise task gives way to a U-turn and, unless the route ends in the *)
(* U-turn, a cruise task after it.                                         *)
WhenUturnAhead(q, request) ==
    IF /\ ThreePointTurn /\ IsAutoDrive
       /\ request \in {"uturn", "uturn_to_end"}
       /\ HeadIs(q, "ON_ROAD_CRUISE_PLAN")
    THEN <<Uturn(route.id, requests + 1)>>
         \o (IF request = "uturn" THEN <<OnRoad(route.id)>> ELSE <<>>)
         \o Tail(q)
    ELSE q

ByOutOfBlockedRequest(q, request) ==
    IF request = "blocked" /\ HeadIs(q, "ON_ROAD_CRUISE_PLAN")
    THEN <<OutOfBlocked(route.id, requests + 1)>> \o q
    ELSE q

PlanTaskCompleted(q, reached) ==
    reached \/ (~IsAutoDrive /\ HeadIs(q, "UTURN_PLAN"))

IterateToNextTask(q, reached) ==
    IF Len(q) > 1 /\ PlanTaskCompleted(q, reached) THEN Tail(q) ELSE q

FinishOffRoadOnTakeover(q) ==
    IF q # <<>> /\ IsOffRoad(Head(q)) /\ autonomy = "EMERGENCY_TO_TAKEOVER"
    THEN Tail(q) ELSE q

UpdateTaskPoppedIsNotNew(request, reached) ==  \* a slip: new_task not set
    LET q0 == SwitchPlanTask
        q1 == WhenUturnAhead(q0, request)
        q2 == ByOutOfBlockedRequest(q1, request)
        q3 == IterateToNextTask(q2, reached)
        q4 == FinishOffRoadOnTakeover(q3)
    IN  [queue |-> q4, new |-> Rerouted \/ q1 # q0 \/ q2 # q1 \/ q4 # q3,
         asked |-> q2 # q0]

UpdatePlanTaskQueue(request, reached) ==
    LET q0 == SwitchPlanTask
        q1 == WhenUturnAhead(q0, request)
        q2 == ByOutOfBlockedRequest(q1, request)
        q3 == IterateToNextTask(q2, reached)
        q4 == FinishOffRoadOnTakeover(q3)
    IN  [queue |-> q4,
         new |-> Rerouted \/ q1 # q0 \/ q2 # q1 \/ q3 # q2 \/ q4 # q3,
         asked |-> q2 # q0]

(* Every way this frame's request and the vehicle's place may change it. *)
Updates ==
    {UpdatePlanTaskQueue(request, reached) : request \in Requests, reached \in BOOLEAN}

-----------------------------------------------------------------------------
(* The frames.                                                             *)

Frame == route # NoRoute /\ ~standby /\ ~ended

Fault == faults < MaxFaults /\ faults' = faults + 1

TakeQueue(q) ==
    /\ seen' = route.id
    /\ queue' = q
    /\ mission' = IF Rerouted THEN route ELSE mission

Ask(u) ==
    /\ u.asked => requests < MaxRequests
    /\ requests' = IF u.asked THEN requests + 1 ELSE requests

(* The route's id is stored before the map is looked at.  A frame that     *)
(* finds no task ends there and changes nothing.                           *)
NoMap ==
    /\ Frame /\ ~map
    /\ seen' = route.id
    /\ UNCHANGED <<source, vehicle, command, queue, fs, mission, missed, counters, ended>>

(* No localization transform, or a stale one. *)
NoLocalization ==
    /\ Frame /\ map /\ SwitchPlanTask # <<>>
    /\ Fault
    /\ TakeQueue(SwitchPlanTask)
    /\ missed' = (missed \/ Rerouted)
    /\ UNCHANGED <<source, vehicle, command, fs, requests, takeovers, ended>>

(* A takeover pops the only task; the frame goes on with the front of an   *)
(* empty queue.  If it gets to its end the process ends, else the queue    *)
(* stays empty.                                                            *)
LastTaskTaken ==
    /\ Frame /\ map /\ SwitchPlanTask # <<>>
    /\ \E u \in Updates : u.queue = <<>> /\ Ask(u)
    /\ TakeQueue(<<>>)
    /\ ended' \in BOOLEAN
    /\ UNCHANGED <<source, vehicle, command, fs, missed, faults, takeovers>>

(* The objects cannot be prepared, or the task's goal is on no lane of the *)
(* map: the frame fails after it changed the queue.                        *)
PreparationFails ==
    /\ Frame /\ map /\ SwitchPlanTask # <<>>
    /\ Fault
    /\ \E u \in Updates :
        /\ Ask(u)
        /\ u.queue # <<>>
        /\ TakeQueue(u.queue)
        /\ missed' = (missed \/ u.new)
    /\ UNCHANGED <<source, vehicle, command, fs, takeovers, ended>>

RunCruise ==
    /\ Frame /\ map /\ SwitchPlanTask # <<>>
    /\ \E u \in Updates :
        /\ Ask(u)
        /\ HeadIs(u.queue, "ON_ROAD_CRUISE_PLAN")
        /\ TakeQueue(u.queue)
    /\ missed' = FALSE
    /\ command' = "D"
    /\ UNCHANGED <<source, vehicle, fs, faults, takeovers, ended>>

(* A parking task keeps the goal it finds unless it is reset; the others   *)
(* set theirs in every frame.                                              *)
GoalOf(task, reset) ==
    IF task.type = "OFF_ROAD_PARK" /\ ~reset /\ fs.goal # NoTask
    THEN fs.goal ELSE task

EndGearOf(task) == IF task.type = "OFF_ROAD_PARK" THEN "P" ELSE "D"

InputsOf(task, reset) ==
    [reset : {reset}, endGear : {EndGearOf(task)},
     parallelEnd : {FALSE, task.type = "OFF_ROAD_PARK"},
     forceStop : {FALSE}, safeStop : {FALSE}, gear : {gear}, still : BOOLEAN,
     plan : Plans \cup {NoPlan}, reached : {"no", "goal", "settled"},
     speed : {"fails", "free", "blocked"}]

(* A search that fails, a failing step after it and a blocked path count   *)
(* as faults.                                                              *)
IsFault(f, in) ==
    \/ in.speed # "free"
    \/ MaybeReplan(f, in) /\ in.plan = NoPlan

(* Without a replan there is no search. *)
Searched(f, in) == in.plan # NoPlan => MaybeReplan(f, in)

RunFreespaceTask(task, in) ==
    LET f == [fs EXCEPT !.goal = GoalOf(task, in.reset)]
    IN  /\ Searched(f, in)
        /\ IF IsFault(f, in) THEN Fault ELSE UNCHANGED faults
        /\ fs' = RunFreespacePlanner(f, in)
        /\ command' = OutputGear(f, fs', in)
        /\ missed' = IF in.reset \/ (NewPath(f, in) /\ f.goal = task)
                     THEN HasPaths(f) /\ ~NewPath(f, in)
                     ELSE missed

RunFreespace ==
    /\ Frame /\ map /\ SwitchPlanTask # <<>>
    /\ \E u \in Updates :
        /\ Ask(u)
        /\ u.queue # <<>> /\ IsFreespacePlanTask(Head(u.queue))
        /\ TakeQueue(u.queue)
        /\ \E in \in InputsOf(Head(u.queue), u.new \/ ~IsAutoDrive) :
            RunFreespaceTask(Head(u.queue), in)
    /\ UNCHANGED <<source, vehicle, takeovers, ended>>

(* No freespace map can be built around the goal: the frame fails after it *)
(* stored the goal and before anything is planned for it.                  *)
NoFreespaceMap ==
    /\ Frame /\ map /\ SwitchPlanTask # <<>>
    /\ Fault
    /\ \E u \in Updates :
        /\ Ask(u)
        /\ u.queue # <<>> /\ IsFreespacePlanTask(Head(u.queue))
        /\ TakeQueue(u.queue)
        /\ fs' = [fs EXCEPT !.goal = GoalOf(Head(u.queue), u.new \/ ~IsAutoDrive)]
        /\ missed' = (missed \/ u.new)
    /\ UNCHANGED <<source, vehicle, command, takeovers, ended>>

TasksNext ==
    \/ PublishRoute \/ ResetRoute \/ LoadMap
    \/ Engage \/ EndAutoDrive \/ ShiftGear \/ DriverShiftsGear
    \/ NoMap \/ NoLocalization \/ LastTaskTaken \/ PreparationFails
    \/ NoFreespaceMap \/ RunCruise \/ RunFreespace

TasksSpec == TasksInit /\ [][TasksNext]_taskVars

-----------------------------------------------------------------------------
(* The variables hold what the dispatcher can put there; with paths there  *)
(* is a current path and a drive state.                                    *)
TasksTypeOK ==
    /\ route \in [id : RouteIds, stop : Stops \cup {"none"}]
    /\ {standby, map, missed, ended} \subseteq BOOLEAN
    /\ autonomy \in {"READY_TO_AUTO_DRIVE", "AUTO_DRIVE", "EMERGENCY_TO_TAKEOVER"}
    /\ {gear, command} \subseteq Gears
    /\ seen \in RouteIds
    /\ queue \in Seq(Tasks)
    /\ fs \in FreespaceStates(Tasks \cup {NoTask})
    /\ HasPaths(fs) => fs.idx <= Len(fs.paths) /\ fs.drive # "UNKNOWN"
    /\ mission \in [id : RouteIds, stop : Stops \cup {"none"}]
    /\ requests \in 0 .. MaxRequests
    /\ faults \in 0 .. MaxFaults
    /\ takeovers \in 0 .. MaxTakeovers

OfRoute(task) == task.type \notin {"UTURN_PLAN", "BLOCKED_PLAN"}

(* Whatever was pushed, popped, taken over or aborted: the tasks are those *)
(* of the newest route seen, and but for one U-turn or blocked road at the *)
(* front they are the rest of what CreatePlanTasksQueueFromRoutingResult   *)
(* made of it, so no part of the mission is repeated, reordered or taken   *)
(* from the route before.                                                  *)
RestOfMission ==
    /\ \A i \in DOMAIN queue : queue[i].route = seen
    /\ queue # <<>> =>
        (IF OfRoute(Head(queue)) THEN queue ELSE Tail(queue))
            \in Suffixes(CreatePlanTasksQueueFromRoutingResult(mission))

(* A freespace task follows a plan searched for its own goal although all  *)
(* tasks share the planner state and nothing clears it between them.  The  *)
(* only exceptions are the ones missed records: the frame that knew the    *)
(* task was new failed, or its search failed and the plan of before stays. *)
PlansForCurrentTask ==
    HasPaths(fs) /\ queue # <<>> /\ IsFreespacePlanTask(Head(queue)) /\ ~missed =>
        fs.plannedFor = Head(queue) /\ fs.goal = Head(queue)

(* "QCHECK(!planner_state_.plan_task_queue.empty())" after the dispatcher  *)
(* (planner_module.cc:1216).                                               *)
QueueCheckHolds == ~ended
=============================================================================

---------------------------- MODULE AsyncPlanner ----------------------------
(***************************************************************************)
(* The low-frequency / high-frequency pipeline of the on-road planner.     *)
(*                                                                         *)
(* Every frame of the main loop runs one plan task.  The NOA cruise task   *)
(* and the ALCC task split their work: a low-frequency job (scheduler,     *)
(* path planner) is handed to a thread pool every few frames, and the      *)
(* high-frequency part (speed planner) runs in every frame on the latest   *)
(* result.  Both tasks share one AsyncPlannerState, which survives a task  *)
(* switch: a counter of frames since the job was scheduled, a transition   *)
(* flag and a secondary counter for the hand-over, the future of the job   *)
(* and the latest retrieved result.                                        *)
(*                                                                         *)
(* The main thread is sequential; its frame is cut at the points where the *)
(* worker thread's progress can be seen (pc).                              *)
(***************************************************************************)
EXTENDS Integers, Sequences

CONSTANTS
    CruiseIters,      \* FLAGS_planner_async_low_freq_cycle_iterations
    AlccIters,        \* FLAGS_planner_alcc_async_low_freq_cycle_iterations
    MaxCruiseFlag,    \* FLAGS_planner_max_cruise_async_iterations
    MaxAlccFlag,      \* FLAGS_planner_max_alcc_async_iterations
    Modes,            \* the values of IsRunModeL4(): driverless, no assist tasks
    Assists,          \* the assist drive system states the driver may select
    Faults,           \* the steps that may fail
    MaxRoutes,        \* bound: route messages in a behaviour, and the same
    MaxL4Routes,      \*   of a driverless one
    MaxCommands       \* bound: lane change commands in a behaviour

TaskTypes  == {"CRUISE", "ALCC", "ACC", "APA", "OFF_ROAD"}
AllAssists == {"LCC", "ACC", "NOA", "APA"}
AllFaults  == {"map", "extend", "target", "projection", "collect",
               "schedule", "job"}

ASSUME ItersAssumption ==
    /\ CruiseIters \in Nat /\ AlccIters \in Nat
    /\ MaxCruiseFlag \in Nat /\ MaxAlccFlag \in Nat
ASSUME ModeAssumption ==
    /\ Modes \subseteq BOOLEAN
    /\ Assists \subseteq AllAssists
    /\ Faults \subseteq AllFaults
ASSUME BoundAssumption ==
    MaxRoutes \in Nat \ {0} /\ MaxL4Routes \in Nat \ {0} /\ MaxCommands \in Nat

VARIABLES
    pc,           \* where the main thread is in its frame
    task,         \* type of plan_task_queue.front(), "NONE" while it is empty
    rerouted,     \* this frame saw a new route_output.update_id
    counter,      \* AsyncPlannerState::counter
    secondary,    \* AsyncPlannerState::secondary_counter
    transition,   \* AsyncPlannerState::task_transition
    future,       \* future_multi_task_est_status with the job behind it
    latest,       \* latest_multi_task_est_result
    pendingLc,    \* pending_lane_change_command: 0 is LC_CMD_NONE
    pendingAlc,   \* pending_alc_confirmation.has_value()
    waitPath,     \* wait_path_switch_route
    waitSpeed,    \* wait_speed_switch_route
    l4,           \* IsRunModeL4(), chosen at start-up
    routeId,      \* route_output.update_id, written by the router
    seenRoute,    \* PlannerState::route_update_id
    speedRoute,   \* the route prev_route_sections come from, 0 when empty
    cmdTask,      \* history: the task each lane change command was issued in
    cmdUses,      \* history: the tasks whose jobs were given each command
    missed,       \* history: a frame saw the route change and ended before
                  \*   the cruise task recorded it
    dropped       \* history: a frame gave the recorded change up and failed
                  \*   to extend the new sections

counters == <<counter, secondary, transition>>
pending  == <<pendingLc, pendingAlc>>
route    == <<waitPath, waitSpeed, speedRoute>>
router   == <<l4, routeId, seenRoute, rerouted>>
history  == <<cmdTask, cmdUses, missed, dropped>>
vars == <<pc, task, counters, future, latest, pending, route, router, history>>

-----------------------------------------------------------------------------
(* Values.  kAsyncCounterInitVal is -1; NoCounter stands for nullopt.      *)
Init0     == -1
NoCounter == -2

NoFuture == [st |-> "none", owner |-> "NONE", byRef |-> FALSE,
             route |-> 0, cmd |-> 0, alc |-> FALSE]
NoResult == [owner |-> "NONE", faked |-> FALSE, route |-> 0]

IsValid(f) == f.st # "none"
IsReady(f) == f.st \in {"ok", "failed"}

(* The family of low-frequency flags a task reads, and the other family.   *)
Iters(t)   == IF t = "CRUISE" THEN CruiseIters ELSE AlccIters
Larger(a, b) == IF a >= b THEN a ELSE b
MaxIter(t) == IF t = "CRUISE" THEN Larger(MaxCruiseFlag, CruiseIters)
                              ELSE Larger(MaxAlccFlag, AlccIters)
Other(t)   == IF t = "CRUISE" THEN "ALCC" ELSE "CRUISE"

IsPlannerAsync(t) == Iters(t) # 0
TickNoWrap(cycle, c) == c + 1
Tick(cycle, c)       == (c + 1) % (cycle + 1)       \* UpdateAsyncCounter

(* The counter RunAsync*Planner works with.                                *)
FrameCounter == IF secondary # NoCounter THEN secondary ELSE counter

(* Whether this frame looks for the result, and whether it waits for it.   *)
ShouldRetrieve ==
    IF transition THEN counter >= Iters(Other(task))
                  ELSE FrameCounter >= Iters(task)
MustRetrieve ==
    IF transition THEN counter = MaxIter(Other(task))
                  ELSE FrameCounter = MaxIter(task)

Init ==
    /\ pc = "dispatch" /\ task = "NONE" /\ rerouted = FALSE
    /\ counter = Init0 /\ secondary = NoCounter /\ transition = FALSE
    /\ future = NoFuture /\ latest = NoResult
    /\ pendingLc = 0 /\ pendingAlc = FALSE
    /\ waitPath = FALSE /\ waitSpeed = FALSE
    /\ l4 \in Modes /\ routeId = 1 /\ seenRoute = 0 /\ speedRoute = 0
    /\ cmdTask = <<>> /\ cmdUses = [c \in 1..MaxCommands |-> <<>>]
    /\ missed = FALSE /\ dropped = FALSE

-----------------------------------------------------------------------------
(* Task switch.                                                            *)

(* SwitchPlanTask: the front of the new queue, for assist state a.  In L4  *)
(* the queue comes from the route and its front changes as tasks complete. *)
NewTasks(a, re) ==
    IF l4 THEN IF task = "NONE" /\ ~re THEN {"NONE"} ELSE {"CRUISE", "OFF_ROAD"}
    ELSE CASE a = "NOA" -> {IF re \/ task \in {"NONE", "ACC", "ALCC"}
                              THEN "CRUISE" ELSE task}
           [] a = "LCC" -> {"ALCC"}
           [] OTHER     -> {a}

Switched(a) ==
    /\ ~l4
    /\ CASE a = "NOA" -> task \in {"NONE", "ACC", "ALCC"}
         [] a = "LCC" -> task # "ALCC"
         [] OTHER     -> task # a

KeepAsync == UNCHANGED <<counters, future, latest, waitPath, waitSpeed>>

(* async_planner_state = AsyncPlannerState()                               *)
ResetAsync ==
    /\ counter' = Init0 /\ secondary' = NoCounter /\ transition' = FALSE
    /\ future' = NoFuture /\ latest' = NoResult
    /\ waitPath' = FALSE /\ waitSpeed' = FALSE

StartSecondary ==
    /\ secondary' = Init0
    /\ UNCHANGED <<counter, transition, future, latest, waitPath, waitSpeed>>

(* The outstanding job, if any, is handed over with its counter; without   *)
(* one the new task starts counting for itself at once.                    *)
UpdateTransitionStatesIgnoringJob ==
    /\ counter' = FrameCounter /\ transition' = FALSE /\ secondary' = Init0
    /\ UNCHANGED <<future, waitPath, waitSpeed>>
UpdateTransitionStates ==
    /\ counter' = FrameCounter
    /\ transition' = IsValid(future)
    /\ secondary' = IF IsValid(future) THEN NoCounter ELSE Init0
    /\ UNCHANGED <<future, waitPath, waitSpeed>>

FakeNothing == latest' = latest
FakeAlccOnlyLowFreqResults ==
    latest' = IF latest = NoResult THEN latest
                                   ELSE [latest EXCEPT !.faked = TRUE]

UpdatePlannerStateOnTaskSwitch(prev, new) ==
    /\ pendingLc' = 0 /\ pendingAlc' = FALSE
    /\ speedRoute' = IF prev \in {"CRUISE", "OFF_ROAD"} THEN 0 ELSE speedRoute
    /\ \/ new = "ACC" /\ ResetAsync
       \/ prev = "ACC" /\ new \in {"ALCC", "CRUISE"} /\ StartSecondary
       \/ /\ prev = "ALCC" /\ new = "CRUISE"
          /\ IF IsPlannerAsync("CRUISE")
               THEN UpdateTransitionStates /\ UNCHANGED latest
               ELSE StartSecondary
       \/ /\ prev \in {"CRUISE", "OFF_ROAD"} /\ new = "ALCC"
          /\ IF IsPlannerAsync("ALCC")
               THEN UpdateTransitionStates /\ FakeAlccOnlyLowFreqResults
               ELSE ResetAsync
       \/ /\ new # "ACC"
          /\ \/ new = "APA" \/ prev = "APA" \/ prev = new
             \/ prev = "OFF_ROAD" /\ new = "CRUISE"
          /\ KeepAsync

(* Before the first task the code reads front() of an empty deque: the     *)
(* type it finds there is arbitrary.                                       *)
PrevTypes == IF task = "NONE" THEN TaskTypes ELSE {task}

FirstPc(t) == CASE t = "CRUISE" -> "route"
                [] t = "ALCC"   -> "count"
                [] OTHER        -> "dispatch"

(* RunPlanTaskDispatcher up to the start of the task.  The switch is       *)
(* committed before the map and the localization are looked at.  Tasks     *)
(* without a low-frequency module end their frame here.                    *)
Dispatch(a) ==
    /\ pc = "dispatch"
    /\ rerouted' = (routeId # seenRoute)
    /\ seenRoute' = routeId
    /\ task' \in NewTasks(a, rerouted')
    /\ IF Switched(a)
         THEN \E prev \in PrevTypes : UpdatePlannerStateOnTaskSwitch(prev, task')
         ELSE KeepAsync /\ UNCHANGED <<pending, speedRoute>>
    /\ pc' \in {FirstPc(task')} \union
               (IF "map" \in Faults THEN {"dispatch"} ELSE {})
    /\ missed' = (missed \/ (rerouted' /\ pc' # "route"))
    /\ UNCHANGED <<l4, routeId, cmdTask, cmdUses, dropped>>

(* A new route reaches the planner between two frames.                     *)
NewRoute ==
    /\ pc = "dispatch" /\ routeId < IF l4 THEN MaxL4Routes ELSE MaxRoutes
    /\ routeId' = routeId + 1
    /\ UNCHANGED <<pc, task, counters, future, latest, pending, route,
                   l4, seenRoute, rerouted, history>>

-----------------------------------------------------------------------------
(* Cruise task: route update.                                              *)

RouteForgotten(wait) == wait
RouteRecorded(wait) == wait \/ (IsPlannerAsync("CRUISE") /\ rerouted)

(* The speed planner follows a new route one low-frequency cycle after the *)
(* path planner was given it.                                              *)
SwitchSpeedRouteAtOnce == RouteRecorded(waitSpeed)
SwitchSpeedRouteNotPredicted ==
    /\ IsPlannerAsync("CRUISE") /\ ~RouteRecorded(waitPath)
    /\ RouteRecorded(waitSpeed) /\ counter >= CruiseIters
SwitchSpeedRoute ==
    IF IsPlannerAsync("CRUISE")
      THEN /\ ~RouteRecorded(waitPath) /\ RouteRecorded(waitSpeed)
           /\ Tick(CruiseIters, counter) >= CruiseIters
      ELSE \/ rerouted
           \/ ~waitPath /\ waitSpeed

(* What AppendRouteSectionsToTail leaves of the sections outside L4: they  *)
(* are extended along the current route, or dropped when they are not on   *)
(* it.                                                                     *)
TailoredRoutes ==
    IF ~l4 /\ ~rerouted /\ speedRoute # 0
      THEN {0} \union {routeId} ELSE {speedRoute}

(* A forgotten change is owed until the next one is recorded or the speed  *)
(* planner's sections are taken from the newest route, or are given up.    *)
Owed(forgotten) ==
    forgotten /\ ~rerouted /\ speedRoute' \notin {0, routeId}

(* UpdateRouteResult and the projection and traffic light collection that  *)
(* follow it.  Every early return ends the frame.                          *)
UpdateRouteResult ==
    /\ pc = "route"
    /\ \E sections \in TailoredRoutes :
         LET init  == sections = 0 \/ SwitchSpeedRoute
             after == IF init THEN routeId ELSE sections
         IN /\ waitSpeed' = (RouteRecorded(waitSpeed) /\ ~SwitchSpeedRoute)
            /\ \/ /\ pc' \in {"count"} \union
                             (IF "collect" \in Faults THEN {"dispatch"} ELSE {})
                  /\ speedRoute' = after
                  /\ waitPath' = RouteRecorded(waitPath)
                  /\ dropped' = Owed(dropped)
               \/ /\ "extend" \in Faults /\ init
                  /\ pc' = "dispatch" /\ speedRoute' = sections
                  /\ waitPath' = RouteRecorded(waitPath)
                  /\ dropped' = (Owed(dropped) \/ SwitchSpeedRoute)
               \/ /\ "target" \in Faults /\ init
                  /\ pc' = "dispatch" /\ speedRoute' = 0
                  /\ waitPath' = RouteRecorded(waitPath)
                  /\ dropped' = FALSE
               \/ /\ "projection" \in Faults
                  /\ pc' = "dispatch" /\ speedRoute' = 0
                  /\ waitPath' = FALSE
                  /\ dropped' = FALSE
    /\ missed' = Owed(missed)
    /\ UNCHANGED <<task, counters, future, latest, pending, router,
                   cmdTask, cmdUses>>

-----------------------------------------------------------------------------
(* Both low-frequency tasks.                                               *)

NewCommand(c) ==
    /\ c = Len(cmdTask) + 1 /\ c <= MaxCommands
    /\ cmdTask' = Append(cmdTask, task)
    /\ pendingLc' = c

(* Commands are collected, then the counters advance: the old task's       *)
(* counter with the old task's cycle while a hand-over is going on.        *)
CollectAndCount ==
    /\ pc = "count"
    /\ \/ \E c \in 1..MaxCommands : NewCommand(c)
       \/ UNCHANGED <<cmdTask, pendingLc>>
    /\ \/ task = "CRUISE" /\ pendingAlc' = TRUE
       \/ UNCHANGED pendingAlc
    /\ counter' = Tick(IF transition \/ secondary # NoCounter
                         THEN MaxIter(Other(task)) ELSE MaxIter(task), counter)
    /\ secondary' = IF secondary = NoCounter THEN NoCounter
                    ELSE Tick(MaxIter(task), secondary)
    /\ pc' = IF FrameCounter' = 0 THEN "schedule" ELSE "retrieve"
    /\ UNCHANGED <<task, transition, future, latest, route, router,
                   cmdUses, missed, dropped>>

(* The job takes the pending commands with it.  In the sequential mode it  *)
(* reads its input by reference.                                           *)
UpdatePathRoute == waitPath \/ transition \/ secondary # NoCounter

NewJob ==
    [st |-> "running", owner |-> task, byRef |-> ~IsPlannerAsync(task),
     route |-> IF task = "ALCC" THEN 0
               ELSE IF IsPlannerAsync(task) /\ UpdatePathRoute THEN routeId
               ELSE speedRoute,
     cmd |-> pendingLc, alc |-> task = "CRUISE" /\ pendingAlc]

(* The command is consumed by the job; a failed schedule keeps it.         *)
KeepPending == UNCHANGED pending
TakePending ==
    /\ pendingLc' = 0
    /\ pendingAlc' = (task # "CRUISE" /\ pendingAlc)

GiveCommand ==
    cmdUses' = [c \in DOMAIN cmdUses |->
                  IF c = pendingLc THEN Append(cmdUses[c], task) ELSE cmdUses[c]]

CommandForgotten == UNCHANGED <<pending, cmdUses>>
ConsumeCommand == TakePending /\ GiveCommand

Schedule ==
    /\ pc = "schedule"
    /\ future' = NewJob
    /\ pc' = "retrieve"
    /\ ConsumeCommand
    /\ waitPath' = (task # "CRUISE" /\ waitPath)
    /\ UNCHANGED <<task, counters, latest, waitSpeed, speedRoute, router,
                   cmdTask, missed, dropped>>

(* The cruise job's input cannot be built on the new route.                *)
ScheduleFails ==
    /\ pc = "schedule" /\ "schedule" \in Faults
    /\ task = "CRUISE" /\ IsPlannerAsync("CRUISE") /\ UpdatePathRoute
    /\ waitPath' = FALSE
    /\ future' = NoFuture
    /\ latest' = NoResult
    /\ pc' = "dispatch"
    /\ UNCHANGED <<task, counters, pending, waitSpeed, speedRoute, router,
                   history>>

(* The worker thread finishes the job.                                     *)
FinishJob ==
    /\ future.st = "running"
    /\ future' \in {[future EXCEPT !.st = s] :
                      s \in {"ok"} \union
                            (IF "job" \in Faults THEN {"failed"} ELSE {})}
    /\ UNCHANGED <<pc, task, counters, latest, pending, route, router, history>>

ResetPrimaryOnly ==
    /\ counter' = Init0 /\ UNCHANGED <<secondary, transition>>
KeepCounterAfterRetrieved ==
    /\ secondary' = NoCounter /\ transition' = FALSE /\ UNCHANGED counter
UpdateAsyncCounterAfterLowFreqRetrieved ==
    \/ /\ secondary # NoCounter
       /\ counter' = Init0 /\ secondary' = NoCounter
       /\ UNCHANGED transition
    \/ /\ secondary = NoCounter /\ transition
       /\ transition' = FALSE /\ secondary' = Init0
       /\ UNCHANGED counter
    \/ /\ secondary = NoCounter /\ ~transition
       /\ counter' = Init0
       /\ UNCHANGED <<secondary, transition>>

(* Nothing to take: too early, or still running and not due.               *)
NotReady == ~MustRetrieve /\ IsPlannerAsync(task) /\ ~IsReady(future)
NothingYet == ~IsValid(future) /\ latest = NoResult

SkipRetrieve ==
    /\ pc = "retrieve"
    /\ \/ ~ShouldRetrieve /\ pc' = "plan"
       \/ ShouldRetrieve /\ NothingYet /\ pc' = "dispatch"
       \/ ShouldRetrieve /\ ~NothingYet /\ NotReady /\ pc' = "plan"
    /\ UNCHANGED <<task, counters, future, latest, pending, route, router,
                   history>>

(* Get() blocks the main thread until the job is finished.  ALCC fills the *)
(* ALCC-only fields of a result that was started by another task.          *)
Retrieve ==
    /\ pc = "retrieve"
    /\ ShouldRetrieve /\ ~NothingYet /\ ~NotReady
    /\ IsReady(future)
    /\ future' = NoFuture
    /\ UpdateAsyncCounterAfterLowFreqRetrieved
    /\ \/ /\ future.st = "ok"
          /\ latest' = [owner |-> future.owner,
                        faked |-> task = "ALCC" /\ transition,
                        route |-> future.route]
          /\ pc' = "plan"
       \/ /\ future.st = "failed"
          /\ latest' = NoResult
          /\ pc' = "dispatch"
    /\ UNCHANGED <<task, pending, route, router, history>>

(* The high-frequency part: ACC while a hand-over has no result yet, an    *)
(* error without a result, else the speed planner on the latest result.    *)
Plan ==
    /\ pc = "plan"
    /\ pc' = "dispatch"
    /\ UNCHANGED <<task, counters, future, latest, pending, route, router,
                   history>>

Main ==
    \/ \E a \in Assists : Dispatch(a)
    \/ UpdateRouteResult \/ CollectAndCount
    \/ Schedule \/ ScheduleFails
    \/ SkipRetrieve \/ Retrieve \/ Plan

Next == Main \/ NewRoute \/ FinishJob

Spec == Init /\ [][Next]_vars

(* The main loop is called again and again, and the pool runs every job.   *)
FairSpec == Spec /\ WF_vars(Main) /\ WF_vars(FinishJob)

-----------------------------------------------------------------------------
(* Properties.                                                             *)

JobType ==
    [st : {"none", "running", "ok", "failed"}, owner : {"NONE", "CRUISE", "ALCC"},
     byRef : BOOLEAN, route : Nat, cmd : Nat, alc : BOOLEAN]
ResultType == [owner : {"NONE", "CRUISE", "ALCC"}, faked : BOOLEAN, route : Nat]

MaxCounter == Larger(MaxIter("CRUISE"), MaxIter("ALCC"))

ControlType ==
    /\ pc \in {"dispatch", "route", "count", "schedule", "retrieve", "plan"}
    /\ task \in TaskTypes \union {"NONE"}
    /\ pc = "route" => task = "CRUISE"
    /\ pc \in {"count", "schedule", "retrieve", "plan"} => task \in {"CRUISE", "ALCC"}
CounterType ==
    /\ counter \in Init0..MaxCounter
    /\ secondary \in NoCounter..MaxCounter
    /\ transition \in BOOLEAN
SlotType == future \in JobType /\ latest \in ResultType
CommandType ==
    /\ pendingLc \in 0..MaxCommands /\ pendingAlc \in BOOLEAN
    /\ cmdTask \in Seq({"CRUISE", "ALCC"}) /\ Len(cmdTask) <= MaxCommands
    /\ cmdUses \in [1..MaxCommands -> Seq({"CRUISE", "ALCC"})]
RouteType ==
    /\ routeId \in Nat /\ seenRoute \in Nat /\ speedRoute \in Nat
    /\ l4 \in Modes
    /\ waitPath \in BOOLEAN /\ waitSpeed \in BOOLEAN
    /\ rerouted \in BOOLEAN /\ missed \in BOOLEAN /\ dropped \in BOOLEAN

(* Type invariant: in the middle of a frame the task is one that has a     *)
(* low-frequency module, and the counters of RunAsync*Planner stay within  *)
(* the longest cycle.                                                      *)
TypeOK == ControlType /\ CounterType /\ SlotType /\ CommandType /\ RouteType

(* IsReady() and Get() are only called on a future that was scheduled and  *)
(* not yet consumed, whatever sequence of task switches, failed schedules  *)
(* and failed frames came before (TryRetrieveLowFreqResult only tests both *)
(* fields together).                                                       *)
GetIsValid ==
    pc = "retrieve" /\ ShouldRetrieve /\ ~NothingYet => IsValid(future)

(* Why: whoever leaves the future empty with a result to drive on also     *)
(* leaves the counters at the start of a cycle, so that the next frame     *)
(* schedules before it retrieves.                                          *)
EmptySlotStartsCycle ==
    /\ pc \in {"dispatch", "route", "count", "plan"}
         /\ ~IsValid(future) /\ latest # NoResult
         => FrameCounter = Init0 /\ (transition => counter = Init0)
    /\ pc = "retrieve" => IsValid(future) \/ latest = NoResult

(* A job that reads its input by reference has finished before the frame   *)
(* that owns the input ends.                                               *)
NoDanglingInput ==
    pc = "dispatch" /\ future.st = "running" => ~future.byRef

(* ALCC plans on a result whose ALCC-only fields were filled in, by its    *)
(* own job or by the hand-over.                                            *)
AlccNeverPlansOnNoaResult ==
    pc = "plan" /\ task = "ALCC" /\ latest # NoResult
        => latest.owner = "ALCC" \/ latest.faked

(* Why: the hand-over marks the other task's job and fills in its result,  *)
(* and the tasks without a low-frequency module start from nothing.        *)
ForeignResultsAreMarked ==
    /\ l4 => task \in {"NONE", "CRUISE", "OFF_ROAD"}
    /\ ~l4 => task \in {"NONE", "ACC", "CRUISE", "ALCC"}
    /\ ~l4 /\ task \in {"NONE", "ACC"} => future = NoFuture /\ latest = NoResult
    /\ task = "ALCC" =>
         /\ latest = NoResult \/ latest.owner = "ALCC" \/ latest.faked
         /\ IsValid(future) => future.owner = "ALCC" \/ transition

(* A lane change command reaches a job of the task it was issued in, and   *)
(* no command reaches two jobs, although a command outlives failed         *)
(* schedules and task switches happen while it is pending.                 *)
CommandReachesItsTask ==
    \A c \in 1..Len(cmdTask) : cmdUses[c] \in {<<>>, <<cmdTask[c]>>}

(* Why: a pending command is an unused one of the task that runs.          *)
PendingIsOwn ==
    /\ l4 => task \in {"NONE", "CRUISE", "OFF_ROAD"}
    /\ \A c \in 1..MaxCommands : c > Len(cmdTask) => cmdUses[c] = <<>>
    /\ pendingLc # 0 =>
         /\ pendingLc \in 1..Len(cmdTask)
         /\ cmdUses[pendingLc] = <<>>
         /\ cmdTask[pendingLc] = IF l4 THEN "CRUISE" ELSE task

(* In L4 the speed planner changes from one route to another only while    *)
(* the path job that was given the new route is outstanding: speed never   *)
(* leaves the route before the path does.  When building that job failed   *)
(* there is no path either, neither a job nor a result.  Excepted is a     *)
(* change whose frame ended before it was recorded: the switch then due    *)
(* for an earlier change takes the newest route, of which no job knows.    *)
SpeedRouteFollowsPath ==
    [][l4 /\ ~missed /\ speedRoute # 0 /\ speedRoute' \notin {0, speedRoute}
       => IF IsValid(future) THEN future.route = speedRoute'
                             ELSE latest = NoResult]_vars

(* Where a frame plans, a route change is adopted by the speed planner or  *)
(* still marked for it.  Outside L4 this is so whatever step failed before *)
(* and whichever task saw the change: a frame that recorded nothing is     *)
(* made good by the next, which extends the sections along the new route   *)
(* or drops them.  L4 has no such repair, and forgets a change in exactly  *)
(* two ways: the frame that saw it ended before the cruise task recorded   *)
(* it (missed), or the new sections could not be extended after its mark   *)
(* was cleared (dropped).                                                  *)
Planning == pc \in {"count", "schedule", "retrieve", "plan"} /\ task = "CRUISE"
RouteChangeKept ==
    Planning /\ ~(l4 /\ (missed \/ dropped)) => speedRoute = seenRoute \/ waitSpeed

(* Without the exception, no run checks it: see finding 8 of the README.   *)
RouteChangeNeverForgotten == Planning => speedRoute = seenRoute \/ waitSpeed

(* Why: between the frames a change that is neither adopted nor marked has *)
(* left the speed planner without a route, and the router's newest route   *)
(* is the one a frame saw at its start.                                    *)
RouteChangeRemembered ==
    /\ pc # "dispatch" => routeId = seenRoute
    /\ task \notin {"CRUISE", "OFF_ROAD"} => speedRoute = 0
    /\ ~missed /\ ~dropped
         => \/ speedRoute \in {0, seenRoute} \/ waitSpeed
            \/ pc = "route" /\ rerouted

(* Why: once the path planner was given the new route and until the speed  *)
(* planner follows, its job is outstanding, or could not be built, and the *)
(* frame is in the middle of its cycle.                                    *)
PathJobOnNewRoute ==
    /\ l4 => /\ task \in {"NONE", "CRUISE", "OFF_ROAD"}
             /\ ~transition /\ secondary = NoCounter
    /\ /\ l4 /\ ~missed /\ waitSpeed /\ ~waitPath
       /\ speedRoute \notin {0, seenRoute}
       /\ ~(pc = "route" /\ rerouted)
       => /\ IF IsValid(future) THEN future.route = seenRoute
                                ELSE latest = NoResult
          /\ counter \in 0..CruiseIters - 1
          /\ pc = "count" => counter < CruiseIters - 1
          /\ pc # "schedule"

(* With both tasks asynchronous, an unfinished job is given up only by a   *)
(* switch to ACC or during a hand-over: within one task no frame, failed   *)
(* or not, replaces the job that still runs.                               *)
JobGivenUpOnlyInHandover ==
    [][future.st = "running" /\ future'.st # "ok" /\ future'.st # "failed"
         /\ future' # future
       => \/ task' = "ACC"
          \/ transition]_vars

(* Why: outside a hand-over the frames since the job was scheduled are     *)
(* counted, and the last one of the cycle waits for it.                    *)
CycleTask == IF l4 THEN "CRUISE" ELSE task
JobInsideCycle ==
    /\ transition => ~l4 /\ task \in {"CRUISE", "ALCC"} /\ secondary = NoCounter
    /\ future.st = "running" /\ ~transition =>
         /\ FrameCounter \in 0..MaxIter(CycleTask)
         /\ pc # "retrieve" => FrameCounter < MaxIter(CycleTask)
         /\ pc # "schedule"

(* Once the driver's choice settles, the hand-over ends: the old task's    *)
(* job is consumed and the secondary counter given up.                     *)
HandoverEnds ==
    \A t \in {"CRUISE", "ALCC"} :
        <>[](task = t) => <>[](~transition /\ secondary = NoCounter)

(* A route change reaches the speed planner and its mark is cleared: in    *)
(* every cycle the frame whose predicted counter is due comes before the   *)
(* retrieval that starts the counter anew, however late the jobs are and   *)
(* whichever of them fail.                                                 *)
RouteChangeAdopted ==
    <>[](task = "CRUISE" /\ ~missed /\ ~dropped)
        => <>[](speedRoute = routeId /\ ~waitSpeed)

(* No lane change command stays pending for ever.                          *)
CommandServed ==
    \A c \in 1..MaxCommands : pendingLc = c ~> pendingLc # c
=============================================================================

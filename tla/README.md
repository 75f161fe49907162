# Verification of the onboard planner

This directory holds TLA+ specifications of the control logic of the onboard
driving software (`src/planner` with its routing and parking parts,
`src/prediction`, `src/ml_planner`, `src/control`), the TLC configurations that check them on small instances, and
TLAPS proofs of the most important results for every value of the constants.

The software plans a trajectory every 100 ms. Most of its code is numeric
(search, optimisation, geometry, neural networks). What is hard to test is not
there but in the thin layer around it: work that is handed to thread pools and
comes back some frames later, state that survives a change of task, maps that
are loaded while they are used, missions that are replaced, retried and reset
while a route is searched, and a driver who changes his mind while a job decides
from a copy of the state. That layer is what is modelled.

Paths below are relative to `src/`.

Contents: [1 the system](#1-the-system), [2 modules](#2-the-modules-and-the-code),
[3 runs](#3-the-runs), [4 fairness](#4-fairness), [5 proofs](#5-proofs),
[6 findings](#6-findings), [7 what is assumed](#7-what-is-assumed-of-code-outside-this-repository),
[8 what is not modelled](#8-what-is-not-modelled).

## 1 The system

### 1.1 Threads

A module (planner, routing, prediction, ML planner, control) is a *lite module*: all its
message handlers, timers and its main loop run on one main thread, one after the
other. Concurrency comes from the thread pools the main thread schedules work
on and whose `Future`s it reads later:

- `thread_pool_` of the planner: low-frequency planning jobs, map loading, and
  the parallel parts of one frame (which are joined inside the frame);
- `pub_thread_pool_`, one thread: conversion of the planner state to a message,
  publication of that message, publication of the output;
- the map listener, which loads maps on threads of its own.

### 1.2 Inventory

For each part: its state, its operations, whom it talks to, what is hard, and
what makes it correct.

**Planner module main loop** (`planner/planner_module.cc`, `planner_state.cc`).
*State*: `planner_state_`, its frame number, the state message and its future,
the publication futures, the output and `output_mutex_`. *Operations*:
`HandlePose` (an iteration), `PreprocessInput`, `MainLoop`, `RunMainLoop`, its
cleaner, `PublishOutput`; on the publishing thread `ToProto` and the two
publications. *Talks to*: the task dispatcher (call), the publishing thread
(jobs). *Hard*: the conversion of the state overlaps with the end of its own
iteration; raw pointers to messages are handed to a job; the main thread waits
for a one-thread pool that waits for a mutex. *Correct if*: an iteration works
on the complete state of the one before, publishes what it used, publishes
trajectories once and in order, and never hangs.

**Low-frequency/high-frequency pipeline** (`planner/plan/async_*`,
`plan_task_switcher.cc`, `cruise_task.cc`, `alcc_task.cc`). *State*:
`AsyncPlannerState`: a counter, a secondary counter, a transition flag, the
future of the outstanding job, the latest result, two flags that delay a
reroute; pending commands. *Operations*: schedule, retrieve, plan, and the
hand-over between the NOA cruise task and the ALCC task, which share this state.
*Hard*: a job started by one task is consumed by the other; two counters with
different cycles; frames that end early at a dozen places; reroutes that must
reach the path planner before the speed planner. *Correct if*: a future is read
only if there is a job, a task plans only on results it can use, no job is
abandoned needlessly, hand-overs end, the speed planner gets to the newest route after
the path planner, a command goes to at most one job, of the right task.

**Task dispatcher** (`planner/plan/plan_task_dispatcher.cc`). *State*: the plan
task queue, the last assist state, `route_update_id`. *Operations*: switching
the task with the driver's choice (assist) or with the route (L4), U-turn and
blocked-road tasks pushed before the cruise task, popping finished tasks and
tasks taken over. *Talks to*: routing (route messages), parking (whose state the
tasks share), the pipeline (which task runs). *Hard*: the queue may be empty when
its front is read; a switch is committed before the inputs are checked; that a
task is new is known to one frame only. *Correct if*: the queue is the rest of
the newest mission, there is a task whenever one is run, and a switch leaves a
state the new task can start from.

**ALCC lane change** (`planner/assist/alcc_scheduler.cc`,
`planner/plan/multi_tasks_alcc_planner.cc`, `alcc_task.cc`). *State*: the lane
change state (`QALCState`), direction, the driver's command, preparation time,
in three places of different age: the outstanding job's copy, the latest
result, the state of the frame. *Operations*: command, job, crossing, failure,
take-over. *Correct if*: signal, command and direction agree, a lane change
ends in a lane and keeps its direction, preparation is bounded, cancellation
lasts and is refused once the boundary is crossed.

**HD map of the planner** (`UpdateOnlineHDMap` in `planner_module.cc`), **map of
the prediction and ML planner modules** (the same function in
`prediction/prediction_module.cc` and `ml_planner/ml_planner_module.cc`).
*State*: the map manager in use, the future of a load, whether a load is
pending, the latest map patch. *Hard*: maps and patches arrive while another map
loads; in prediction HD and vision map share one member; the map is written
while planning jobs read it. *Correct if*: the newest map is adopted, in order;
it carries the newest patch; there is a map before one is used; the mode that
needs the HD map gets it.

**NOA lane change by driver or teleop** (`planner_main_loop_internal.cc`,
`multi_tasks_cruise_planner.cc`, `cruise_task.cc`): a second lane change machine
inside the cruise job. *State*: the preferred lane path, the published state and
command, the preparation time, the request that waits for the driver's answer;
again in three places of different age. *Operations*: command, answer, job,
failure, reset, the driver steering. *Hard*: a frame clears the state while a job
that captured it is outstanding and an older result will be applied; jobs decide
which requests wait. *Correct if*: path, state and command agree, a lane change
that ended stays ended, preparation is bounded, and a standing vehicle or a
steering driver ends it.

**Routing** (`planner/router/routing_module.cc`, `route_manager.cc`). *State*: the
request received, the one of teleoperation, the last one and its retries; the
mission waiting for a route, the mission driven, indexes of the next, pending and
reached destination; the route and what is left of it; update ids; the message
last published. *Operations*: the handlers of requests, RES button and planner
commands; the main loop: queue a mission, route to the first or the next stop,
track the vehicle, reroute, publish, retry, reset. *Talks to*: the planner
(routes with an id by which it knows a new one; commands to reroute). *Hard*:
three sources of missions of which two may speak in one iteration; indexes set in
different places; searches that fail half way; retries and resets that outlast
the iteration. *Correct if*: route, mission and indexes belong together, ids grow,
a waiting mission is routed or replaced, and a reset lasts.

**Parking** (`planner/freespace/`, the OFF_ROAD, BLOCKED and UTURN tasks).
*State*: `FreespacePlannerState`: goal, paths, index of the current one, drive
state, since when the path is unsafe. *Operations*: one call per frame that
replans, moves on to the next path, centres the steering and ends. *Talks to*: the
dispatcher. *Hard*: the state outlives the task it was made for and a failed step
keeps what was done before it. *Correct if*: a task drives a plan made for its own
goal.

**Longitudinal speed mode** (`control/longitudinal_postprocess/lon_postprocess.cc`,
`control/closed_loop_acc/speed_mode_manager.cc`). *State*: throttle or brake mode,
the mode of the frame before, two timers, two integrals, whether this is the first
frame. *Operations*: one call every 10 ms. *Hard*: frames of four kinds (manual,
full stop, gear shift, driving) leave different parts of the state behind.
*Correct if*: the modes do not chatter, a lasting command is followed and an
integral never holds errors of an earlier stay in its mode.

**Previous-trajectory and AEB fallback** (`previous_trajectory_planner.cc`,
`aeb_planner.cc`), **mapless NOA** (`planner/mapless`), the rest of **vehicle
control** (`control/`): little discrete state around numeric conditions.
**Scheduler and selector, decision and constraints, initializer, optimizer and
speed, objects and scene, learned parts, prediction algorithms, controllers, other
assist functions**: functions of one snapshot over real numbers. Neither is
modelled (section 8).

`PROJECT.json` lists every component with its files and status, every hazard with
its line and the properties that cover it, and, definition by definition, the
source lines a definition stands for.

## 2 The modules and the code

| Module | Models | Proofs |
|---|---|---|
| `AsyncPlanner` | the pipeline, the task switch, reroutes, pending commands | `AsyncPlanner_proof` |
| `LaneChangeAssist` | the ALCC lane change | `LaneChangeAssist_proof` |
| `NoaLaneChange` | the NOA lane change that is asked for | `NoaLaneChange_proof` |
| `PlannerModuleLoop` | main loop and publishing thread | `PlannerModuleLoop_proof` |
| `HdMapLoader` | HD map of the planner | `HdMapLoader_proof` |
| `PredictionMap` | HD and vision map of prediction and ML planner | `PredictionMap_proof` |
| `LatestMap` | abstract: maps are adopted in order, the newest in the end | refined by the two above |
| `RoutingModule` | routing: from missions to published routes | `RoutingModule_proof` |
| `FreespacePlanner` | one frame of the freespace planner, as operators | used by the next |
| `DriverlessTasks` | the plan task queue, composed with the freespace planner | in `PlannerModuleLoop_proof` |
| `LonPostProcess` | speed mode and closed loop of the control module | `LonPostProcess_proof` |

How they fit: `RoutingModule` publishes the routes that `DriverlessTasks` and
`AsyncPlanner` see as numbers that grow (its `NewRouteNewId` is what both rely
on); `DriverlessTasks` is the queue whose front is the task, `AsyncPlanner` what
the cruise tasks do with jobs; `LaneChangeAssist` and `NoaLaneChange` are what
the two do with the driver's commands; `PlannerModuleLoop` is the iteration around all of them.

A main thread is sequential, so each module keeps a `pc` that cuts an iteration
exactly where another thread, or the driver, can be noticed; everything between
two cuts is one action.

### AsyncPlanner

`Dispatch(a)` is `RunPlanTaskDispatcher` for the assist state `a`: the new task,
`UpdatePlannerStateOnTaskSwitch` with its branches as disjuncts, and the early
returns that follow. `UpdateRouteResult` (NOA only) is the function of that name
with each of its error returns as a disjunct. `CollectAndCount` is the start of
`RunCruiseTask`/`RunAlccTask`: commands, then the counters (`Tick` is
`UpdateAsyncCounter`). `Schedule`, `ScheduleFails`, `SkipRetrieve`, `Retrieve`
and `Plan` are the parts of `RunAsyncCruisePlanner` and `RunAsyncAlccPlanner`,
which are the same but for the flags (`Iters`, `MaxIter`) and the places where
`task` appears. `FinishJob` is the pool. `future` carries what the job captured
(owner, by reference or copied, route, command), `latest` what of it matters
later. Routes are numbers; `NewRoute` is the router. Planning itself succeeds or
fails; `Faults` selects what may fail. `cmdTask`, `cmdUses`, `missed` and `dropped`
are history: where a command was issued, which jobs got it, whether a route change was
seen by a frame that ended before the cruise task recorded it, and whether one was
given up by a frame that cleared its mark and then failed to extend the sections. Both
are set back by the next change that is recorded or adopted.

### LaneChangeAssist

A frame is `Collect` (command, `UpdateAsyncState`, schedule), one of `TakeOwnJob`,
`TakeForeignJob`, `TakeNothing`, and one of `PlanSucceeds`, `PlanFails`,
`PlanWithoutResult`. A job is the record it captured; `Results(j)` is
`RunMultiTasksAlccPlanner` as a function of that record: command handling,
`ProcessAlcRequest` (one operator per function of `alcc_scheduler.cc`), and the
post-selection that gives up a lane change prepared for too long. Which branch
could be scheduled, planned and selected is open. The hand-over is reduced to
`mode`, since `AsyncPlanner` has it in full: "handover" while another task's job
is outstanding, "secondary" until the first result of its own, "own" after.
`EnterAlcc` is a task switch into ALCC seen from here. Time is counted in frames.
History: `open` (a lane change begun and not ended), `cancelled`, `held`.

Abstracted: the lane paths themselves (`origin` says whether there is one),
`lane_change_target_point`, the turn signal overrides of teleoperation.

### NoaLaneChange

A frame starts in one of three ways (`Starts`: driving, with a reset, with the
driver steering), counts or schedules (`CountFrame`, `ScheduleJob`,
`ScheduleFails`), retrieves (`TakeResult`, `JobFails`, `TakeNothing`) and ends with
`HandlePlcResult` (`PlanSucceeds`, `PlanSucceedsButStops`, `PlanFails`) or before it
(`NoValidPlan`). A job decides from a copy, so what it will decide is chosen when
it is scheduled: `job'` is one of `Results(j)`, which is
`RunMultiTasksCruisePlanner` on the lane change, with one operator per function it
calls. A stage of the lane change state, the turn signal given ahead and how the
preferred branch was planned are open. Of the lane paths one is watched: the lane
change a command, an answer or a return starts with it is followed through
the copies in `watch`. Time is counted in frames. History: `watch`, `held` (frames in
PREPARE), `still` (frames standing or steered without a command).

Abstracted: lane paths and the cool-down after a rejected request. Left out: the
hand-over between NOA and ALCC; a detour through ACC is in (`AccDetour`).

### PlannerModuleLoop

`HandlePose` to `FinishIteration` follow `MainLoop`; each `WaitForFuture` or
`Get` is a guard at the start of an action. The state's contents are a number:
`2n` after `n` iterations, `2n+1` in the middle of the next one; so a torn or an
old copy is visible. `pool` is the queue of the publishing thread, which runs
`ToProtoSeq`/`ToProtoBody` (the message's sequence number is copied before the
rest), `PublishPlannerState` and `PublishOutput`.

### HdMapLoader, PredictionMap, LatestMap

`StartLoad`, then `UseMap` (or `AdoptLoad` and `SelectMap`) are
`UpdateOnlineHDMap` (and `UpdateOnlineSemanticMap`) cut at the wait for the first
load. Maps and patches are numbered by their update ids. `LoadPsmm` is
`AsyncLoadPlannerSemanticMapManager` on the pool. In `HdMapLoader` a
low-frequency job may read the map meanwhile (`ScheduleJob`, `FinishJob`).
`LatestMap` is what both promise; the refinement mapping takes `adopted` to the
id of the map in use (`psmm.id`), in `PredictionMap` to the id of the HD map last
adopted (`hdIndex`), since the vision map may be in use.

### RoutingModule

Handlers and the main loop run on one thread, so an iteration is the chain
`Tick` (or a rerouting request, whose handler calls the main loop at once),
`AddRequests`, one action of `Initiate`, tracking or rerouting, and `Publish`,
`Fail` or `ResetRoute`; no handler comes between. Each early return of
`RouteManager::Update` is a disjunct or an action of its own (`NoRoute...`,
`NothingToInitiate`, `LoseTrack`, `NoReroute`). `Received` is
`ReceivedSuccessfulRoutingResult`. A mission is a model value with `NumDests`
destinations, of which `Stops` are stops and the others via points; `left` is how
many of them the route from the vehicle still passes. Where the vehicle is, and
whether a search succeeds, is open. Time is counted in iterations (`missed`).

Abstracted: the search, the geometry of tracking, alternative routes. Left out:
the NOA mode with its SD route, recovery from a snapshot, missions in a loop and
the automatic hop to the next stop (behind flags that are off).

### FreespacePlanner and DriverlessTasks

`FreespacePlanner` has no variables: `RunFreespacePlanner(fs, in)` is the state
after a frame that found `in`, in the code's order (`MaybeReplan`,
`GeneratePath`, `UpdatePathManagerState`, `UpdatePathUnsafeTime`), and
`OutputGear` the gear it publishes. A plan is the sequence of its paths'
directions.

`DriverlessTasks` is `RunPlanTaskDispatcher` and the task at the front of the
queue. `UpdatePlanTaskQueue` is the chain of functions that rewrite the queue in a
frame, also in the code's order. What a frame did before it failed stays:
`NoMap`, `NoLocalization`, `PreparationFails`, `NoFreespaceMap` and a failing
`RunFreespace` each leave what is written before their return, and the one bit that is lost with the
frame, that the task is new, is remembered in the history `missed`.
`LastTaskTaken` is the frame that empties the queue. Its initial states, steps and
type invariant are called `TasksInit`, `TasksNext`, `TasksSpec` and `TasksTypeOK`,
so that its theorems can stand beside those of the loop that calls it.
`RestOfMission` states what the queue is without looking at how it came about: but
for one task at the front, a suffix of what the route was turned into, all of it
for the newest route a frame has seen.

### LonPostProcess

`Process(f)` is one call of `LonPostProcess::Process` for a frame `f`. The
acceleration is abstracted to where it lies in the hysteresis zone (on, over or
under its bounds), which is all `UpdateSpeedMode` looks at, and an integral to
the number of frames whose error it holds. Frames the control module ends before
are stuttering steps.

## 3 The runs

| Run | Question | Result |
|---|---|---|
| `async_assist` | both modes with every failing step; every switch among LCC, ACC and NOA: types, valid reads, usable results, commands, no needless abandoning of a job; reroutes: path before speed; a change of the route survives every failure, in L4 all but two kinds (6.8) | holds, 2,415,433 states |
| `async_live` | do hand-overs end, does the speed planner get to the newest route, are commands served | holds, 136,936 states |
| `lane_change` | direction, signal, end, preparation time, cancellation | holds, 332,908 states |
| `lane_change_crossed` | is a cancellation refused after crossing | violated (6.1) |
| `noa_lane_change` | do path, state and command agree, is preparing bounded, does an ended lane change stay ended, a crossing one its course, a path its side, does standing still end one | holds, 2,334,496 states |
| `module_loop` | state hand-over, publication, mutex and waiting | holds, 11,032 states |
| `hd_map` | order, patches, use, refinement with fairness | holds, 4,638 states |
| `prediction_map` | refinement (the order of maps with it), return of the HD map | holds, 1,972 states |
| `routing` | do mission, route and ids agree, to what does a waiting mission give way, does a reset last, is a request served | holds, 671,852 states |
| `driverless` | is the queue the rest of the mission, does a freespace task drive its own plan | holds, 679,778 states |
| `driverless_takeover` | is there a task left after a takeover | violated (6.2) |
| `lon_postprocess` | dwell time of the mode, integrals, lasting commands | holds, 7,089 states |

Each property of a passing run has a mutant in `PROJECT.json`: an operator beside
the modelled one (`TickNoWrap`, `KeepPending`, `DontWait`, `CancelUnheard`, ...)
that changes it as a plausible slip would; with it TLC finds the property
violated under the same configuration.

### Bounds, and why they are enough

- *Cycles* are the defaults of `planner_flags.cc`: two frames per job, NOA waits
  for its job after at most three and ALCC after two. The two families differ in
  `MaxIter`, which is what makes the hand-over counters interesting. The proofs
  cover all values.
- *Routes*: two in assist mode are one change at any point; four in driverless
  mode (`MaxL4Routes`) are three changes, one more than the two flags can remember.
  `async_live` has three in driverless mode.
- *Commands*: two, so that one may be pending while the other runs, twice given
  or given to the wrong task. In `lane_change` commands are unbounded: any
  command in any frame.
- *MaxPrepare* is two frames in place of six seconds: less than, equal to and more
  than a cycle all occur, which is what `PrepareIsBounded` depends on. Its bound
  is tight: with one frame less TLC finds it violated.
- In `noa_lane_change` a job is due after one frame and waited for after two, so
  that it may be taken early, late, or by force. Commands and answers come in any
  frame, one of the two at a time; the driver asks for the left lane (the right one
  is its mirror image), and a return goes to the right. Both bounds it states,
  `PrepareIsBounded` and the `Quiet` frames of `StandstillClears`, are tight as well.
- *Iterations* (`module_loop`): four. A job of an iteration is finished before the
  next but one begins, so interference reaches over two iterations; four let each
  follow each way of ending early. The proofs cover any number.
- *Maps*: three (in use, loading, arrived meanwhile); *patches*: two (on the map,
  arrived during the load); *losses* of the map by the listener: one; two
  localization transforms.
- *Routing*: one on-road and one off-road mission, so that each can replace, and
  leave its traces for, the other; four destinations of which the second and the
  last are stops: a via point before each stop, one stop to hop from. One retry and
  two ticks to a reroute: less, equal and more occur. `MaxId` stops the
  environment (new requests, failures, lost tracks) after the first update ids;
  what is under way goes on. The safety properties are proved for all values.
- *Driverless*: two routes (one driven, one that replaces it) of every kind, plans
  of up to two paths, one U-turn or blocked-road request, one fault, one end of
  auto drive: every pair of these meets, in both orders. Here and in
  `driverless_takeover` deadlock is not checked: with these used up and a process
  that ended there is nothing left to do.
- *Speed mode*: timers of five and four frames of 10 ms (the vehicle's parameters
  set them) and an integral that is full after four: modes switch in both
  directions and integrals saturate. The proofs cover all thresholds.

Nothing else is bounded: drivers may switch, take over and command for ever.
Deadlock is checked in all runs but the two named.

## 4 Fairness

- `AsyncPlanner!FairSpec`: the main loop goes on (`WF(Main)`) and the pool runs
  its jobs (`WF(FinishJob)`). Poses arrive all the time and start iterations;
  `Get()` blocks the main thread, so that a fair pool is needed. Nothing is
  assumed about the driver: `HandoverEnds` speaks of a driver whose choice
  settles. In this run only jobs fail; with frames that always end early no
  hand-over can end, and none does. `RouteChangeAdopted` needs no more: it says that
  the frame whose predicted counter lets the speed planner follow comes in every
  cycle, before the retrieval that starts the counter anew.
- `PlannerModuleLoop!FairSpec`: the main thread and the publishing thread go on.
  Both are threads that block only on what the guards say.
- `HdMapLoader!FairSpec`, `PredictionMap!FairSpec`: iterations go on, the pool
  loads what it was given, and the listener gets its map back (`WF(FindMap)`).
  The last is the listener's purpose: it looks up maps along the route again and
  again. Without it nothing could be said of a planner without map. No fairness
  on new maps, patches, mode changes or the jobs that read a map.
- `RoutingModule!FairSpec`: the timer calls the main loop for ever (`WF(MainLoop)`),
  and a route that is searched for again and again is found in the end
  (`SF(\E d : RouteToFirstStop(d))`; strong, since each failed search leaves the
  state in which it may succeed). `RequestIsServed` is about the logic around the
  search: nothing a failure leaves behind keeps the mission from being searched
  for again.
- `LonPostProcess!Spec`: frames go on (`WF(Next)`); the control timer calls it.
- `LaneChangeAssist`, `NoaLaneChange` and `DriverlessTasks` have none: they state safety only.
  Whether a lane change or a task ends is up to traffic.

## 5 Proofs

All proofs are checked by TLAPS with no leaf left out, for every value of the
constants that satisfies the assumptions stated beside them (cycle lengths are
natural numbers, in `LaneChangeAssist` and `NoaLaneChange` the cycle is positive,
that is, the task is asynchronous; flags are Boolean; bounds are natural numbers; in `RoutingModule` the
last destination is a stop and the sets of requests are disjoint).

The type invariants of `PlannerModuleLoop`, `HdMapLoader`, `PredictionMap`,
`RoutingModule`, `LaneChangeAssist`, `NoaLaneChange` and `DriverlessTasks` are proved
and, for that, not part of a run.

`AsyncPlanner_proof`

- `TypeCorrect`: `Spec => []TypeOK`. The interesting part is the counters: they
  stay within the longest cycle although each is advanced modulo the cycle of
  either task. `TypeOK` is inductive by itself.
- `GetAlwaysValid`: a future is never read empty. `TryRetrieveLowFreqResult`
  tests the future and the result *together*, so a result without a future
  passes. The induction needs `EmptySlotStartsCycle`: whoever leaves the slot
  empty with a result to drive on also leaves the counters at the start of a
  cycle, so that the next frame schedules before it retrieves. Parking and all
  failures are included.
- `CommandsReachTheirTask`: rests on `PendingIsOwn`: a pending command has not
  been used and was issued in the task that runs, because every switch clears it.
- `AlccResultsConverted`: `AlccNeverPlansOnNoaResult`, under the assumption
  that the driver cannot park (`"APA" \notin Assists`). It rests on
  `ForeignResultsAreMarked`. The assumption is needed: see 6.4.
- `RouteChangesAreKept`: `RouteChangeKept`: outside L4 without exception, because the
  next frame makes good what an earlier one lost; in L4 but for a change that was
  `missed` or `dropped`, which nothing makes good (6.8). From
  `RouteChangeRemembered`: between frames a change that is neither adopted nor marked
  has left the speed planner without a route, and the newest route is the one a frame
  saw at its start. A schedule that fails is no exception.
- `SpeedFollowsPath`: `SpeedRouteFollowsPath`, for an asynchronous cruise task
  (`CruiseIters # 0`; in sequential mode no job is outstanding, path and speed are
  planned in one frame, and the property has nothing to say). To the above it adds
  `PathJobOnNewRoute`: from the frame in which the path planner gets the new route
  until the speed planner follows, its job is outstanding and carries that route, or
  could not be built and then there is no path to drive on either; and the frame is in
  the middle of its cycle, so that the one frame in which the flags let the speed
  planner go on comes before the job's end.
- `UnfinishedJobsAreKept`: `JobGivenUpOnlyInHandover`, when both tasks are
  asynchronous and the driver does not park. From `JobInsideCycle`: outside a
  hand-over the frames since a job was scheduled are counted in the cycle of its
  task, and the last of them waits for it. Each condition is needed (TLC finds a
  counterexample without it): a switch to a sequential ALCC task resets the slot, a
  sequential cruise task schedules over the job it finds there, and parking keeps
  the job and its counter but not the cycle they belong to.

- `InputsOutliveJobs`: `NoDanglingInput`, when both tasks are asynchronous (no job
  reads by reference), when both are sequential, and when only ALCC is and the driver
  does not park. Rests on `SameFrame`: a job by reference exists only between the step
  of a frame that schedules it and the one that takes it. No run checks the property,
  because the setting in which it fails is finding 6.3.

The three parts `RouteChangeRemembered`, `PathJobOnNewRoute` and `JobInsideCycle`
stand in `AsyncPlanner`, beside the property each is the reason of.

`HdMapLoader_proof`

- `LoadsDoNotOvertake`, `PatchIsOnMap`, `MapExistsBeforeUse` rest on the
  inductive `LoaderInv`; its additional parts say that a result left behind in the
  future is the map in use (so adopting it again changes nothing) and that the
  map in use has the latest patch.
- `LoaderRefinesLatestMap`: every step of the loader is a step of `LatestMap` or a
  stutter. That the newest map *is* adopted is fairness, checked by `hd_map`.

`LaneChangeAssist_proof`

- `LaneChangeTypeCorrect`, `SignalAgrees`, `LaneChangeFinished`,
  `CancellationHolds`, `DirectionKept`, all from the inductive `LaneInv`. None of
  these properties is inductive: each is about the published state, and what is
  published next depends on the latest result, and that on what a job captured.
  `SignalInv`, `OpenInv` and `CancelInv` each say the same thing in those three
  places, and how they fit: e.g. between frames the direction in the state is that
  of the result, and after a cancellation only the published command may be the
  old one, only in the frame that overwrites it. What a job may return is stated
  first, as lemmas about `Results`.
- `PreparationBounded`: `PrepareIsBounded`, with either value of the flag. The
  code compares a time that the frame that applied the result has set, in a job that
  captured it up to a cycle earlier. `PrepareInv` says that the age kept is that of
  the preparation (`Timed`), or the frames drop command and age because the branch is
  invalid, and then whatever a job captures ends the preparation (`DropInv`); that a
  job which does not end it (`Ending`) was scheduled before the time was over; and
  that one which does is at most one cycle behind (`Expiring`).

`NoaLaneChange_proof`

- `NoaTypeCorrect`, `PartsAgree` and `EndedLaneChangesStayEnded`, from its `IInv`.
  What a job may return is stated first, operator by operator, with one predicate
  for a path, state and command (`Good`); a job chooses the watched path only if it
  captured it or the path is new, and follows a captured path
  (`ResultsAreGood`). `Where` then says where the watched path may be: nowhere;
  in the latest result, with every outstanding job going on with it (`Following`);
  or only in the state, which this frame's result or its loss is about to
  overwrite (`Leaving`). From "nowhere" it does not come back.
- `StandstillEndsLaneChange`: `StandstillClears`, from `Aged` (an outstanding job
  is younger than a cycle) and `Flushed`: a job that carries a path was captured
  before the vehicle stood, a result that carries one comes from such a job, and the
  state has a path only if the latest result does. What is left of the lane change is
  at most two cycles old.
- `PreparationIsBounded`: `PrepareIsBounded`, from `Aged` and its `PrepareInv`, which
  is the argument of `LaneChangeAssist` without the flag, for a time that frames
  which skip planning or end early go on counting.
- `CrossingsAreKept` and `SidesAreKept`: `CrossingIsKept` and `SideIsKept`, two action
  properties, from `KeptInv`. Once chosen, a job comes upon the watched path only by
  capturing it, and goes on from there with its side and, from CROSSING, forwards
  (`WatchedResults`). `Sided` says that state, job and latest result follow the path
  with one command; `CrossedForAll` that the state is that of the latest result except
  in the frame that takes it, when no job is outstanding, so that a job starts from
  what the vehicle shows.

`PlannerModuleLoop_proof`

- `JobsAreBounded`, `StateReachesNextIteration`, `TrajectoriesInOrder`, all from
  the inductive `LoopInv`. Its core are the shapes the pool can have: at most
  the publication of the state, then the conversion, then the publication of the
  output, in this order (`BetweenIterations`, `InIteration`), each with what the
  futures and the message then say. That a fixed order of at most three jobs is
  all there is is why a one-thread pool and a mutex are enough.

`PlannerModuleLoop_proof`, the task dispatcher (`DriverlessTasks`)

- `TasksTypeCorrect`, `QueueIsRestOfMission` and `PlansAreForCurrentTask`, from the
  inductive `TaskInv`, for any number of routes, requests, faults, takeovers and
  paths. None of the last two is inductive. The queue: a non-empty one was made by a
  frame with a map, of the mission whose id is the one seen (`QueueInv`); there are at
  most two tasks in a mission, so that its suffixes are enumerated by a lemma
  (`RestsOfRoute`) and no induction over sequences is needed, and the functions of
  `UpdatePlanTaskQueue` are lemmas about a queue of a mission. The plan: unless
  `missed` is set, the *goal* in the freespace state is the front task's, also
  while there are no paths (`PlanInv`); a frame that replans without a reset
  searches for that goal, so a plan found later is the right one. `FreespaceFrame`
  states what a frame of the freespace planner does to goal and paths, whichever of
  its steps fails.

`PredictionMap_proof`

- `InputPointsAtOwnedMap`, `PredictionLoadsDoNotOvertake` and
  `PredictionRefinesLatestMap`, from `MapInv`: the type invariant, one load at a time
  and newer than the map adopted, and that the result left in a ready future is the
  map last adopted, which the vision map may have displaced.

`RoutingModule_proof`

- `IndexesAndRetriesBounded`, `RouteLeadsToNextStop`, `IdsTellRoutesApart`,
  `MissionsAreNotDropped` and `ResetLasts`, from the inductive `RoutingInv`: the
  type invariant, `RouteOfMission` itself, that no id is ahead of the counter and
  a new route is ahead of what was published (`IdsAscend`), that after a reset an
  iteration goes no further (`ResetStops`), and that the last result on the road
  is the route's (`ResultOfRoute`). `StopIndexIsStop` shows from well-foundedness of the
  naturals that every destination has a stop to lead to. `MissionsAreNotDropped` says
  what may take a waiting mission's place: a route for it, a mission newly asked for,
  or the retry of the HMI's last request. The last needs `RetryIsOfLast` (`RetryInv`):
  the request found in the slot as a retry is that one. That the retry takes a newer
  mission's place is what the code does; see 6.7.

`LonPostProcess_proof`

- `CountersUnderThresholds`, `IntegralIsOfThisMode`, `ModeDwells`, from its
  `LoopInv`: a counter is never ahead of the frames counted since both were
  cleared (`CountersOfThisStay`), and when the mode is not that of the last
  calibrated frame both integrals are zero (`LoopFollowsMode`).

*Only model-checked*: all liveness (`HandoverEnds`, `RouteChangeAdopted`, `CommandServed`,
`IterationsEnd`, `PatchReachesMap`, `HdMapReturns`, `RequestIsServed`,
`CommandIsFollowed`, the fair half of `NewestMapIsAdopted`), which is out of the
prover's reach as is ENABLED. Every safety property of a passing run is stated by a
theorem.

## 6 Findings

Two runs end with a counterexample; their property quotes what an assertion or a
message of the repository says.

1. `lane_change_crossed`. A CANCEL in a vehicle that crosses the boundary is to be
   rejected (`multi_tasks_alcc_planner.cc:213`). A job that captured the CANCEL
   before the crossing accepts it, and its result takes the vehicle back after the
   frames saw it cross.
2. `driverless_takeover`. `planner_module.cc:1216` asserts that the queue is not
   empty after the dispatcher. `plan_task_dispatcher.cc:562` pops an OFF_ROAD task
   on EMERGENCY_TO_TAKEOVER even if it is the only one; line 884 uses the front of
   the empty queue before the assertion is reached.

The next ones are found by the modules as they stand, with a configuration of a few
lines that is not kept as a run; each names the property to check.

3. *A job outlives the input it reads* (`AsyncPlanner!NoDanglingInput`, as
   `AsyncAssist.cfg` with `CruiseIters = 0`). In sequential
   mode a job captures the frame's input by reference ("Not in async mode, no need
   to make copies", `planner/plan/async_cruise_planner.cc:226`), relying on being
   taken in the same frame. With cruise sequential and ALCC asynchronous, an NOA
   frame that ended early leaves `task_transition` set, retrieval is then decided
   with the ALCC counter, and the frame ends while its job still reads the input.
   With ALCC sequential and cruise asynchronous it takes parking in between.
   Every other setting, the default flags among them, is not affected
   (`InputsOutliveJobs`).
4. *Parking between NOA and LCC* (`AlccNeverPlansOnNoaResult`, as
   `AsyncAssist.cfg` with `"APA"` added to `Assists`). Switching NOA -> APA -> LCC
   with a job outstanding leaves ALCC planning on a result whose ALCC-only fields
   were never filled in (`planner/plan/plan_task_switcher.cc:216` has no branch for
   `APA_PLAN`; `async_planner_state.h:44` marks the fields).
5. *The map is written while a job reads it* (`HdMapLoader!MapUnchangedUnderJob`,
   as `HdMap.cfg`). The map manager must own its map when used by another thread
   (`planner_semantic_map_manager.h:57`, `:104`). A low-frequency job captures a
   shared pointer to it, and every iteration writes the coordinate converter, and
   after a patch the modifier, of the same object (`planner_module.cc:876`, `:882`),
   without a lock.
6. *The vision map passes for the HD map* (`PredictionMap!HdMapWhenRequired`, as
   `PredMap.cfg`). A mode that must have the HD map rejects an iteration without one
   ("Should use HD map but it is null.", `prediction/prediction_module.cc:328`), but
   the test is whether there is any map; the vision map of an earlier iteration
   passes. `ml_planner/ml_planner_module.cc:301` repeats it.
7. *The wrong request is retried* (`RoutingModule!RetryKeepsRequest` and
   `RetryReplacesNothing`, as `Routing.cfg`). "Will retry routing request next
   iteration" (`routing_module.cc:646`) is logged for the request that failed, but
   the retry sends `last_rerouting_request_`, which only the HMI's handler sets (line
   647): when a request of teleoperation fails, the older mission of the HMI is
   queued again and takes the place of the one that waits. `PendingIsRoutedOrReplaced`
   names this case; every other way for a waiting mission to go is a route for it or a
   newer request.
8. *A route change is forgotten in L4* (`AsyncPlanner!RouteChangeNeverForgotten`, as
   `AsyncAssist.cfg`). That the route is new is known to one frame
   (`plan_task_dispatcher.cc:827`). If it ends before `UpdateRouteResult` records it
   (no map, or a task other than cruise in front), nothing else compares the route of
   the planner with the router's; and a frame that clears
   `wait_speed_switch_route` (`cruise_task.cc:574`) and then fails to extend the new
   sections (592-598) leaves no mark either. The speed planner stays on the old route
   until the next reroute, or until its sections are empty. Outside L4
   the sections are compared in every frame (577-590).

Met while reading; no module is needed to see them, or none reaches them:

- `lon_postprocess.cc:138-146` limits the acceleration by the steering speed, and
  line 168 starts the next step again from `input.acc_target`: the limit is lost.
- `vehicle_control_module.cc:307` asks its own `acc_closed_loop_`, which nothing
  updates, for the speed mode; the delay of the throttle is used in both modes.
- `speed_mode_manager.cc:125-128`: `acc2dec_timer` becomes the threshold of the
  change from brake to throttle; the debug lines 65-66 name it the other way round.
- `aeb_planner.cc:94`: `GenerateEmergencyStopInfo` answers a collision with a curb
  with `return {};`, an empty optional, so that no emergency stop follows.
- `apa_parking_task.cc` calls `MaybeAdjustGoal` for parallel spots with two
  arguments exchanged.
- `cruise_task.cc:981` clears one flag twice and the other never (modelled as it
  is); `planner_module.cc:854` dereferences a load that may have failed.
- `previous_trajectory_plan_counter` is shared by the cruise and the ALCC task,
  whose limits differ, and no task switch resets it.
- "Clear PLC related states on reset." (`cruise_task.cc:963`): one reset clears
  nothing as long as the latest result carries a lane change, since `HandlePlcResult`
  applies it in the same frame, and an outstanding job that captured the lane change
  brings it back. `StandstillClears` states when resets do clear: after
  `2 * MaxIters + 1` frames of them in a row (with one frame less TLC finds it
  violated).
- `NoValidPlan` returns before `HandlePlcResult` (`cruise_task.cc:1226`): a lane
  change that a failed frame would have given up goes on when planning succeeds
  again, and the next job captures the state from before the result that was taken: its
  own result can take a CROSSING vehicle back to ONGOING or PREPARE. `EndedStaysEnded`
  and `CrossingIsKept` excuse it.
- The failure of one high-frequency frame clears `plc_prepare_start_time` and lets
  the same result start it anew: with such frames often enough PREPARE never times
  out. `PrepareIsBounded` counts frames without a failure.
- While a request waits for an answer commands are ignored, CANCEL too; a job
  that fails after it consumed the answer leaves the request waiting. A request
  that waits when the driver switches confirmation off goes on waiting:
  `ProcessAutoLaneChangeRequest` returns (`selector_util.cc:1334`) before the reset at
  line 1361.
- `multi_tasks_cruise_planner.cc:1032` uses `plc_result` on a forced route change,
  which may be empty.
- Routing ignores a reset sent by teleoperation (`IsResetRequest` looks at
  `last_rerouting_request_` only) although it logs "Reset route request"
  (`routing_module.cc:761`). In auto drive a track lost for 250 ms is forgotten
  (`route_manager.cc:80`, `:506`), and what has no time of its last update is
  rerouted in the next iteration, although `:84` asks for 1.5 s. `RoutingModule`
  has both as they are.

## 7 What is assumed of code outside this repository

`onboard/async`, `onboard/lite`, `onboard/maps` and `onboard/math` are not part of
the repository. From their use in it:

- `Future`: `IsValid` after a schedule, `IsReady` when the job is finished, `Get`
  waits. Whether `Get` leaves the result behind is not known. `AsyncPlanner`
  clears the future after `Get`, because the code does. `HdMapLoader` allows both. `PredictionMap` assumes that
  the result stays: the HD map comes back after the vision map only because the
  future of the last load stays ready; with a `Get` that takes the result away TLC
  finds `HdMapReturns` violated. `PlannerModuleLoop` assumes that a second `Get`,
  after an iteration that ended in `PreprocessInput`, returns the same message.
- `ThreadPool(1)` runs its jobs in the order in which they were scheduled.
- A lite module runs its handlers on one thread.
- The update ids of the map listener grow.

## 8 What is not modelled

- *Everything numeric*: path and speed optimisation, search, decision and
  constraints, trajectory selection and validation, prediction, learned models,
  controllers and their filters. They are functions of one snapshot over real
  numbers; in the models they succeed or fail, or choose among the outcomes the
  control logic can tell apart. This is most of the 230,000 lines, which is why the
  definitions stand for a small share of them.
- *NOA lane change*: the hand-over from and to ALCC seen from the lane change
  (the pipeline's side is in `AsyncPlanner`), the cool-down after a rejected request,
  and the selector's costs, which choose among the outcomes of a job.
- *Previous-trajectory and AEB fallback*: a counter with a limit and two latches
  decided by geometry; a model would restate them. What was noticed is in section 6.
- *Mapless NOA*: the asynchronous pattern of `AsyncPlanner` without hand-over,
  reroute and commands. *APA parking*: the steps of `FreespacePlanner` with a goal
  the driver chooses and no queue.
- *Deciders with memory* (stop sign, traffic light): one small automaton per road
  element, driven by distances and speeds.
- *Vehicle control* but for the speed mode: filtered real numbers compared to
  thresholds.
- In routing: the NOA mode with its SD route, snapshots, missions in a loop.
- Message handlers that only store what they received, debug output, charts,
  events and logging; simulation and offline modes (`Rsim`, log replay).

What would add most next: the hand-over of a lane change between `NoaLaneChange`
and `LaneChangeAssist`; and an abstract mailbox (a slot with at most one job, results
consumed once and in order) refined by `AsyncPlanner`.

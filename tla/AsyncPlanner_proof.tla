------------------------- MODULE AsyncPlanner_proof -------------------------
(***************************************************************************)
(* Proofs about AsyncPlanner for every value of its constants: all         *)
(* low-frequency cycle lengths, the sequential mode included, every set of *)
(* driver choices and every set of failing steps.                          *)
(***************************************************************************)
EXTENDS AsyncPlanner, TLAPS

-----------------------------------------------------------------------------
(* Arithmetic of the counters.                                             *)

(* A cycle is a natural number not above the longest one.                  *)
LEMMA CycleBounds ==
    \A t \in TaskTypes : /\ MaxIter(t) \in Nat
                         /\ MaxIter(t) <= MaxCounter
                         /\ MaxCounter \in Nat
  BY ItersAssumption DEF MaxIter, MaxCounter, Larger, TaskTypes

(* UpdateAsyncCounter wraps within the cycle and starts a new cycle at 0.  *)
LEMMA TickRange ==
    ASSUME NEW n \in Nat, NEW c \in Nat \union {-1}
    PROVE  Tick(n, c) \in 0..n /\ (c = -1 => Tick(n, c) = 0)
  <1>1. c + 1 \in Nat /\ n + 1 \in Nat \ {0}
    OBVIOUS
  <1>2. (c + 1) % (n + 1) \in 0..n
    BY <1>1
  <1>3. c = -1 => (c + 1) % (n + 1) = 0
    BY <1>1
  <1> QED
    BY <1>2, <1>3 DEF Tick

(* The values the counters, the future and the result are reset to.        *)
LEMMA ResetValues ==
    /\ MaxCounter \in Nat
    /\ Init0 \in Init0..MaxCounter /\ Init0 \in NoCounter..MaxCounter
    /\ NoCounter \in NoCounter..MaxCounter
    /\ NoFuture \in JobType /\ NoResult \in ResultType
    /\ 0 \in 0..MaxCommands
  <1>1. MaxCounter \in Nat
    BY CycleBounds DEF TaskTypes
  <1> QED
    BY <1>1, BoundAssumption
       DEF Init0, NoCounter, NoFuture, NoResult, JobType, ResultType

-----------------------------------------------------------------------------
(* Type correctness, one lemma per action.                                 *)

LEMMA TypeInit == Init => TypeOK
  <1> SUFFICES ASSUME Init PROVE TypeOK
    OBVIOUS
  <1>1. ControlType
    BY DEF Init, ControlType, TaskTypes
  <1>2. CounterType /\ SlotType
    BY ResetValues DEF Init, CounterType, SlotType
  <1>3. CommandType
    <2>1. <<>> \in Seq({"CRUISE", "ALCC"}) /\ Len(<<>>) = 0
      OBVIOUS
    <2>2. [c \in 1..MaxCommands |-> <<>>]
             \in [1..MaxCommands -> Seq({"CRUISE", "ALCC"})]
      BY <2>1, Zenon
    <2>3. pendingLc \in 0..MaxCommands /\ Len(cmdTask) <= MaxCommands
      BY <2>1, BoundAssumption DEF Init
    <2> QED
      BY <2>1, <2>2, <2>3 DEF Init, CommandType
  <1>4. RouteType
    BY DEF Init, RouteType
  <1> QED
    BY <1>1, <1>2, <1>3, <1>4 DEF TypeOK

(* What a task switch leaves behind has the right types.                   *)
LEMMA TypeSwitch ==
    ASSUME TypeOK, NEW prev \in TaskTypes, NEW new \in TaskTypes,
           UpdatePlannerStateOnTaskSwitch(prev, new)
    PROVE  /\ CounterType' /\ SlotType'
           /\ pendingLc' = 0 /\ pendingAlc' = FALSE
           /\ waitPath' \in BOOLEAN /\ waitSpeed' \in BOOLEAN
           /\ speedRoute' \in Nat
  <1>1. pendingLc' = 0 /\ pendingAlc' = FALSE /\ speedRoute' \in {0, speedRoute}
    BY DEF UpdatePlannerStateOnTaskSwitch
  <1>2. /\ counter \in Init0..MaxCounter /\ secondary \in NoCounter..MaxCounter
        /\ transition \in BOOLEAN /\ future \in JobType /\ latest \in ResultType
        /\ waitPath \in BOOLEAN /\ waitSpeed \in BOOLEAN /\ speedRoute \in Nat
    BY DEF TypeOK, CounterType, SlotType, RouteType
  <1>3. FrameCounter \in Init0..MaxCounter
    BY <1>2, ResetValues DEF FrameCounter, Init0, NoCounter
  <1>4. UpdateTransitionStates =>
          /\ CounterType' /\ future' \in JobType
          /\ waitPath' \in BOOLEAN /\ waitSpeed' \in BOOLEAN
    BY <1>2, <1>3, ResetValues DEF UpdateTransitionStates, IsValid, CounterType
  <1>5. ResetAsync \/ StartSecondary \/ KeepAsync =>
          /\ CounterType' /\ SlotType'
          /\ waitPath' \in BOOLEAN /\ waitSpeed' \in BOOLEAN
    BY <1>2, ResetValues
       DEF ResetAsync, StartSecondary, KeepAsync, counters, CounterType, SlotType
  <1>6. FakeAlccOnlyLowFreqResults \/ UNCHANGED latest => latest' \in ResultType
    BY <1>2 DEF FakeAlccOnlyLowFreqResults, ResultType
  <1>7. \/ ResetAsync \/ StartSecondary \/ KeepAsync
        \/ UpdateTransitionStates /\ (FakeAlccOnlyLowFreqResults \/ UNCHANGED latest)
    BY DEF UpdatePlannerStateOnTaskSwitch
  <1> QED
    BY <1>1, <1>2, <1>4, <1>5, <1>6, <1>7 DEF SlotType

LEMMA TypeDispatch ==
    ASSUME TypeOK, NEW a \in Assists, Dispatch(a)
    PROVE  TypeOK'
  <1>1. ControlType'
    <2>1. task' \in TaskTypes \union {"NONE"}
      BY ModeAssumption
         DEF Dispatch, NewTasks, TypeOK, ControlType, TaskTypes, AllAssists
    <2>2. /\ pc' \in {"dispatch", "route", "count"}
          /\ pc' = "route" => task' = "CRUISE"
          /\ pc' = "count" => task' = "ALCC"
      BY DEF Dispatch, FirstPc
    <2> QED
      BY <2>1, <2>2 DEF ControlType
  <1>2. /\ CounterType' /\ SlotType'
        /\ pendingLc' \in 0..MaxCommands /\ pendingAlc' \in BOOLEAN
        /\ waitPath' \in BOOLEAN /\ waitSpeed' \in BOOLEAN
        /\ speedRoute' \in Nat
    <2>1. CASE Switched(a)
      <3>1. PICK prev \in PrevTypes : UpdatePlannerStateOnTaskSwitch(prev, task')
        BY <2>1 DEF Dispatch
      <3>2. prev \in TaskTypes
        BY DEF PrevTypes, TypeOK, ControlType
      <3>3. task' \in TaskTypes
        BY <2>1, ModeAssumption
           DEF Dispatch, Switched, NewTasks, TaskTypes, AllAssists
      <3> QED
        BY <3>1, <3>2, <3>3, TypeSwitch, ResetValues
    <2>2. CASE ~Switched(a)
      BY <2>2 DEF Dispatch, KeepAsync, counters, pending, TypeOK, CounterType,
                  SlotType, CommandType, RouteType
    <2> QED
      BY <2>1, <2>2
  <1>3. CommandType'
    BY <1>2 DEF Dispatch, TypeOK, CommandType
  <1>4. RouteType'
    BY <1>2 DEF Dispatch, TypeOK, RouteType
  <1> QED
    BY <1>1, <1>2, <1>3, <1>4 DEF TypeOK

(* Both counters are natural numbers when a frame looks at them.           *)
LEMMA CountersTicked ==
    ASSUME TypeOK, CollectAndCount
    PROVE  /\ counter' \in 0..MaxCounter
           /\ secondary' \in {NoCounter} \union 0..MaxCounter
  <1>1. task \in {"CRUISE", "ALCC"}
    BY DEF TypeOK, ControlType, CollectAndCount
  <1>2. /\ MaxIter(task) \in Nat /\ MaxIter(task) <= MaxCounter
        /\ MaxIter(Other(task)) \in Nat /\ MaxIter(Other(task)) <= MaxCounter
    BY <1>1, CycleBounds DEF TaskTypes, Other
  <1>3. counter' \in 0..MaxCounter
    <2>1. counter \in Nat \union {-1}
      BY DEF TypeOK, CounterType, Init0
    <2>2. \/ counter' = Tick(MaxIter(task), counter)
          \/ counter' = Tick(MaxIter(Other(task)), counter)
      BY DEF CollectAndCount
    <2>3. /\ Tick(MaxIter(task), counter) \in 0..MaxIter(task)
          /\ Tick(MaxIter(Other(task)), counter) \in 0..MaxIter(Other(task))
      BY <1>2, <2>1, TickRange
    <2> QED
      BY <1>2, <2>2, <2>3, ResetValues
  <1>4. secondary' \in {NoCounter} \union 0..MaxCounter
    <2>1. CASE secondary = NoCounter
      BY <2>1 DEF CollectAndCount
    <2>2. CASE secondary # NoCounter
      <3>1. secondary \in Nat \union {-1}
        BY <2>2 DEF TypeOK, CounterType, NoCounter
      <3>2. secondary' = Tick(MaxIter(task), secondary)
        BY <2>2 DEF CollectAndCount
      <3>3. Tick(MaxIter(task), secondary) \in 0..MaxIter(task)
        BY <1>2, <3>1, TickRange
      <3> QED
        BY <1>2, <3>2, <3>3, ResetValues
    <2> QED
      BY <2>1, <2>2
  <1> QED  BY <1>3, <1>4

LEMMA TypeCount ==
    ASSUME TypeOK, CollectAndCount
    PROVE  TypeOK'
  <1>1. task \in {"CRUISE", "ALCC"}
    BY DEF TypeOK, ControlType, CollectAndCount
  <1>2. CounterType'
    <2>1. /\ counter' \in 0..MaxCounter
          /\ secondary' \in {NoCounter} \union 0..MaxCounter
      BY CountersTicked
    <2> QED
      BY <2>1, ResetValues
         DEF CollectAndCount, TypeOK, CounterType, Init0, NoCounter
  <1>3. CommandType'
    <2>1. CASE UNCHANGED <<cmdTask, pendingLc>>
      BY <2>1 DEF CollectAndCount, TypeOK, CommandType
    <2>2. ASSUME NEW c \in 1..MaxCommands, NewCommand(c)
          PROVE  CommandType'
      <3>1. /\ cmdTask' \in Seq({"CRUISE", "ALCC"})
            /\ Len(cmdTask') = Len(cmdTask) + 1
        BY <1>1, <2>2 DEF NewCommand, TypeOK, CommandType
      <3>2. pendingLc' \in 0..MaxCommands /\ Len(cmdTask') <= MaxCommands
        BY <2>2, <3>1, BoundAssumption DEF NewCommand
      <3> QED
        BY <3>1, <3>2 DEF CollectAndCount, TypeOK, CommandType
    <2> QED
      BY <2>1, <2>2 DEF CollectAndCount
  <1> QED
    BY <1>1, <1>2, <1>3
       DEF CollectAndCount, TypeOK, ControlType, SlotType, RouteType, route,
           router

LEMMA TypeRoute ==
    ASSUME TypeOK, UpdateRouteResult
    PROVE  TypeOK'
  <1>1. PICK sections \in TailoredRoutes :
          /\ waitSpeed' = (RouteRecorded(waitSpeed) /\ ~SwitchSpeedRoute)
          /\ pc' \in {"count", "dispatch"}
          /\ speedRoute' \in {0, routeId, sections}
          /\ waitPath' \in {FALSE, RouteRecorded(waitPath)}
          /\ missed' \in BOOLEAN /\ dropped' \in BOOLEAN
    BY DEF UpdateRouteResult, Owed
  <1>2. sections \in Nat
    BY DEF TailoredRoutes, TypeOK, RouteType
  <1>3. waitPath' \in BOOLEAN /\ waitSpeed' \in BOOLEAN
    BY <1>1 DEF RouteRecorded, TypeOK, RouteType
  <1>4. RouteType'
    BY <1>1, <1>2, <1>3 DEF UpdateRouteResult, TypeOK, RouteType, router
  <1>5. ControlType'
    BY <1>1 DEF UpdateRouteResult, TypeOK, ControlType
  <1>6. CounterType' /\ SlotType' /\ CommandType'
    BY DEF UpdateRouteResult, counters, pending, TypeOK, CounterType, SlotType,
           CommandType
  <1> QED
    BY <1>4, <1>5, <1>6 DEF TypeOK

LEMMA TypeSchedule ==
    ASSUME TypeOK, Schedule \/ ScheduleFails
    PROVE  TypeOK'
  <1>1. task \in {"CRUISE", "ALCC"}
    BY DEF TypeOK, ControlType, Schedule, ScheduleFails
  <1>2. ControlType'
    BY <1>1 DEF Schedule, ScheduleFails, TypeOK, ControlType
  <1>3. CounterType'
    BY DEF Schedule, ScheduleFails, TypeOK, CounterType, counters
  <1>4. RouteType'
    BY DEF Schedule, ScheduleFails, TypeOK, RouteType, router, history
  <1>5. NewJob \in JobType
    <2>1. /\ speedRoute \in Nat /\ routeId \in Nat /\ pendingLc \in Nat
          /\ pendingAlc \in BOOLEAN
      BY BoundAssumption DEF TypeOK, RouteType, CommandType
    <2>2. NewJob.route \in Nat
      BY <2>1, Zenon DEF NewJob
    <2> QED
      BY <1>1, <2>1, <2>2 DEF NewJob, JobType, IsPlannerAsync
  <1>6. SlotType'
    BY <1>5, ResetValues DEF Schedule, ScheduleFails, TypeOK, SlotType
  <1>7. CommandType'
    <2>1. CASE Schedule
      <3>1. pendingLc' \in 0..MaxCommands /\ pendingAlc' \in BOOLEAN
        BY <2>1, ResetValues DEF Schedule, ConsumeCommand, TakePending, TypeOK, CommandType
      <3>2. cmdUses' \in [1..MaxCommands -> Seq({"CRUISE", "ALCC"})]
        <4>1. \A c \in 1..MaxCommands :
                /\ cmdUses[c] \in Seq({"CRUISE", "ALCC"})
                /\ Append(cmdUses[c], task) \in Seq({"CRUISE", "ALCC"})
          BY <1>1 DEF TypeOK, CommandType
        <4>2. DOMAIN cmdUses = 1..MaxCommands
          BY DEF TypeOK, CommandType
        <4> QED
          BY <2>1, <4>1, <4>2 DEF Schedule, ConsumeCommand, GiveCommand
      <3> QED
        BY <2>1, <3>1, <3>2 DEF Schedule, TypeOK, CommandType
    <2>2. CASE ScheduleFails
      BY <2>2 DEF ScheduleFails, pending, history, TypeOK, CommandType
    <2> QED
      BY <2>1, <2>2
  <1> QED
    BY <1>2, <1>3, <1>4, <1>6, <1>7 DEF TypeOK

LEMMA TypeFinish ==
    ASSUME TypeOK, FinishJob
    PROVE  TypeOK'
  <1>1. PICK s \in {"ok", "failed"} : future' = [future EXCEPT !.st = s]
    BY DEF FinishJob
  <1>2. SlotType'
    BY <1>1 DEF FinishJob, TypeOK, SlotType, JobType
  <1> QED
    BY <1>2 DEF FinishJob, TypeOK, ControlType, CounterType, CommandType,
                RouteType, counters, pending, route, router, history

LEMMA TypeRetrieve ==
    ASSUME TypeOK, SkipRetrieve \/ Retrieve
    PROVE  TypeOK'
  <1>1. ControlType'
    BY DEF SkipRetrieve, Retrieve, TypeOK, ControlType
  <1>2. CounterType'
    BY ResetValues
       DEF SkipRetrieve, Retrieve, UpdateAsyncCounterAfterLowFreqRetrieved,
           TypeOK, CounterType, counters
  <1>3. SlotType'
    <2>1. CASE SkipRetrieve
      BY <2>1 DEF SkipRetrieve, TypeOK, SlotType
    <2>2. CASE Retrieve
      <3>1. /\ future.owner \in {"NONE", "CRUISE", "ALCC"} /\ future.route \in Nat
            /\ transition \in BOOLEAN
        BY DEF TypeOK, SlotType, JobType, CounterType
      <3>2. \A faked \in BOOLEAN :
               [owner |-> future.owner, faked |-> faked, route |-> future.route]
                 \in ResultType
        BY <3>1 DEF ResultType
      <3>3. (task = "ALCC" /\ transition) \in BOOLEAN
        OBVIOUS
      <3>4. latest' \in ResultType
        BY <2>2, <3>2, <3>3, ResetValues, Zenon DEF Retrieve
      <3> QED
        BY <2>2, <3>4, ResetValues DEF Retrieve, SlotType
    <2> QED
      BY <2>1, <2>2
  <1>4. CommandType' /\ RouteType'
    BY DEF SkipRetrieve, Retrieve, TypeOK, CommandType, RouteType, pending,
           route, router, history
  <1> QED
    BY <1>1, <1>2, <1>3, <1>4 DEF TypeOK

LEMMA TypeNext == TypeOK /\ [Next]_vars => TypeOK'
  <1> SUFFICES ASSUME TypeOK, [Next]_vars PROVE TypeOK'
    OBVIOUS
  <1>1. ASSUME NEW a \in Assists, Dispatch(a) PROVE TypeOK'
    BY <1>1, TypeDispatch
  <1>2. CASE UpdateRouteResult
    BY <1>2, TypeRoute
  <1>3. CASE CollectAndCount
    BY <1>3, TypeCount
  <1>4. CASE Schedule \/ ScheduleFails
    BY <1>4, TypeSchedule
  <1>5. CASE SkipRetrieve \/ Retrieve
    BY <1>5, TypeRetrieve
  <1>6. CASE Plan \/ NewRoute
    BY <1>6
       DEF Plan, NewRoute, TypeOK, ControlType, CounterType, SlotType,
           CommandType, RouteType, counters, pending, route, router, history
  <1>7. CASE FinishJob
    BY <1>7, TypeFinish
  <1>8. CASE UNCHANGED vars
    BY <1>8
       DEF vars, TypeOK, ControlType, CounterType, SlotType, CommandType,
           RouteType, counters, pending, route, router, history
  <1> QED
    BY <1>1, <1>2, <1>3, <1>4, <1>5, <1>6, <1>7, <1>8 DEF Next, Main

(* The counters, the future, the result, the waiting flags and the queued  *)
(* commands keep their types through every frame: in particular the        *)
(* counters never leave -1..(longest low-frequency cycle), whichever task's *)
(* cycle they are advanced with during a hand-over.                        *)
THEOREM TypeCorrect == Spec => []TypeOK
  <1>1. Init => TypeOK
    BY TypeInit
  <1>2. TypeOK /\ [Next]_vars => TypeOK'
    BY TypeNext
  <1> QED
    BY <1>1, <1>2, PTL DEF Spec

-----------------------------------------------------------------------------
(* The future is never read empty.                                         *)

LEMMA SlotSwitch ==
    ASSUME TypeOK, EmptySlotStartsCycle, pc = "dispatch",
           NEW prev \in TaskTypes, NEW new \in TaskTypes,
           UpdatePlannerStateOnTaskSwitch(prev, new)
    PROVE  ~IsValid(future') /\ latest' # NoResult
             => FrameCounter' = Init0 /\ (transition' => counter' = Init0)
  <1>1. ~IsValid(future) /\ latest # NoResult
          => FrameCounter = Init0 /\ (transition => counter = Init0)
    BY DEF EmptySlotStartsCycle
  <1>2. CASE ResetAsync
    BY <1>2 DEF ResetAsync
  <1>3. CASE StartSecondary
    BY <1>1, <1>3 DEF StartSecondary, FrameCounter, Init0, NoCounter
  <1>4. CASE KeepAsync
    BY <1>1, <1>4 DEF KeepAsync, counters, FrameCounter
  <1>5. CASE UpdateTransitionStates /\ ~IsValid(future')
    <2>1. ~IsValid(future)
      BY <1>5 DEF UpdateTransitionStates
    <2>2. transition' = FALSE /\ secondary' = Init0
      BY <1>5, <2>1 DEF UpdateTransitionStates
    <2> QED
      BY <2>2 DEF FrameCounter, Init0, NoCounter
  <1> QED
    BY <1>2, <1>3, <1>4, <1>5 DEF UpdatePlannerStateOnTaskSwitch

LEMMA SlotDispatch ==
    ASSUME TypeOK, EmptySlotStartsCycle, NEW a \in Assists, Dispatch(a)
    PROVE  EmptySlotStartsCycle'
  <1>1. pc' \in {"dispatch", "route", "count"}
    BY DEF Dispatch, FirstPc
  <1>2. ~IsValid(future') /\ latest' # NoResult
          => FrameCounter' = Init0 /\ (transition' => counter' = Init0)
    <2>1. CASE Switched(a)
      <3>1. PICK prev \in PrevTypes : UpdatePlannerStateOnTaskSwitch(prev, task')
        BY <2>1 DEF Dispatch
      <3>2. prev \in TaskTypes
        BY DEF PrevTypes, TypeOK, ControlType
      <3>3. task' \in TaskTypes
        BY <2>1, ModeAssumption
           DEF Dispatch, Switched, NewTasks, TaskTypes, AllAssists
      <3>4. pc = "dispatch"
        BY DEF Dispatch
      <3> QED
        BY <3>1, <3>2, <3>3, <3>4, SlotSwitch
    <2>2. CASE ~Switched(a)
      BY <2>2 DEF Dispatch, KeepAsync, counters, FrameCounter,
                  EmptySlotStartsCycle
    <2> QED
      BY <2>1, <2>2
  <1> QED
    BY <1>1, <1>2 DEF EmptySlotStartsCycle, IsValid

(* A frame that starts a cycle goes through the schedule step.             *)
LEMMA SlotCount ==
    ASSUME TypeOK, EmptySlotStartsCycle, CollectAndCount
    PROVE  EmptySlotStartsCycle'
  <1>1. task \in {"CRUISE", "ALCC"}
    BY DEF TypeOK, ControlType, CollectAndCount
  <1>2. MaxIter(task) \in Nat /\ MaxIter(Other(task)) \in Nat
    BY <1>1, CycleBounds DEF TaskTypes, Other
  <1>3. FrameCounter = Init0 => FrameCounter' = 0
    <2>1. CASE secondary = NoCounter
      <3>1. /\ Tick(MaxIter(task), -1) = 0
            /\ Tick(MaxIter(Other(task)), -1) = 0
        BY <1>2, TickRange
      <3>2. counter = Init0 => counter' = 0
        BY <3>1 DEF CollectAndCount, Init0
      <3> QED
        BY <2>1, <3>2 DEF CollectAndCount, FrameCounter
    <2>2. CASE secondary # NoCounter
      <3>1. Tick(MaxIter(task), -1) = 0
        BY <1>2, TickRange
      <3>2. secondary = Init0 => secondary' = 0
        BY <2>2, <3>1 DEF CollectAndCount, Init0
      <3>3. 0 # NoCounter
        BY DEF NoCounter
      <3> QED
        BY <2>2, <3>2, <3>3 DEF FrameCounter
    <2> QED
      BY <2>1, <2>2
  <1>4. pc' = "retrieve" => IsValid(future) \/ latest = NoResult
    BY <1>3 DEF CollectAndCount, EmptySlotStartsCycle
  <1> QED
    BY <1>4 DEF CollectAndCount, EmptySlotStartsCycle, IsValid

LEMMA SlotRetrieve ==
    ASSUME TypeOK, EmptySlotStartsCycle, SkipRetrieve \/ Retrieve
    PROVE  EmptySlotStartsCycle'
  <1>1. CASE SkipRetrieve
    BY <1>1 DEF SkipRetrieve, EmptySlotStartsCycle, NothingYet, IsValid
  <1>2. CASE Retrieve
    <2>1. pc' \in {"plan", "dispatch"}
      BY <1>2 DEF Retrieve
    <2>2. FrameCounter' = Init0 /\ (transition' => counter' = Init0)
      BY <1>2 DEF Retrieve, UpdateAsyncCounterAfterLowFreqRetrieved,
                  FrameCounter, Init0, NoCounter
    <2> QED
      BY <2>1, <2>2 DEF EmptySlotStartsCycle
  <1> QED
    BY <1>1, <1>2

LEMMA SlotNext ==
    TypeOK /\ EmptySlotStartsCycle /\ [Next]_vars => EmptySlotStartsCycle'
  <1> SUFFICES ASSUME TypeOK, EmptySlotStartsCycle, [Next]_vars
               PROVE  EmptySlotStartsCycle'
    OBVIOUS
  <1>1. ASSUME NEW a \in Assists, Dispatch(a) PROVE EmptySlotStartsCycle'
    BY <1>1, SlotDispatch
  <1>2. CASE UpdateRouteResult
    <2>1. pc = "route" /\ pc' \in {"count", "dispatch"}
      BY <1>2 DEF UpdateRouteResult
    <2> QED
      BY <1>2, <2>1
         DEF UpdateRouteResult, EmptySlotStartsCycle, FrameCounter, IsValid,
             counters
  <1>3. CASE CollectAndCount
    BY <1>3, SlotCount
  <1>4. CASE Schedule
    <2>1. pc' = "retrieve" /\ IsValid(future')
      BY <1>4 DEF Schedule, NewJob, IsValid
    <2> QED
      BY <2>1 DEF EmptySlotStartsCycle, IsValid
  <1>5. CASE ScheduleFails
    BY <1>5 DEF ScheduleFails, EmptySlotStartsCycle
  <1>6. CASE SkipRetrieve \/ Retrieve
    BY <1>6, SlotRetrieve
  <1>7. CASE Plan \/ NewRoute \/ UNCHANGED vars
    BY <1>7 DEF Plan, NewRoute, vars, EmptySlotStartsCycle, FrameCounter,
                IsValid, counters
  <1>8. CASE FinishJob
    <2>1. IsValid(future')
      <3>1. PICK s \in {"ok", "failed"} : future' = [future EXCEPT !.st = s]
        BY <1>8 DEF FinishJob
      <3> QED
        BY <3>1 DEF IsValid, TypeOK, SlotType, JobType
    <2> QED
      BY <2>1 DEF EmptySlotStartsCycle, IsValid
  <1> QED
    BY <1>1, <1>2, <1>3, <1>4, <1>5, <1>6, <1>7, <1>8 DEF Next, Main

(* Retrieval never reads a future that was not scheduled or was consumed   *)
(* before, for every cycle length of either task and every interleaving of *)
(* switches, failures and the worker.                                      *)
THEOREM GetAlwaysValid == Spec => []GetIsValid
  <1>1. Init => TypeOK /\ EmptySlotStartsCycle
    BY TypeInit DEF Init, EmptySlotStartsCycle
  <1>2. TypeOK /\ EmptySlotStartsCycle /\ [Next]_vars
          => TypeOK' /\ EmptySlotStartsCycle'
    BY TypeNext, SlotNext
  <1>3. TypeOK /\ EmptySlotStartsCycle => GetIsValid
    BY DEF EmptySlotStartsCycle, GetIsValid, NothingYet
  <1> QED
    BY <1>1, <1>2, <1>3, PTL DEF Spec

-----------------------------------------------------------------------------
(* Lane change commands.                                                   *)

(* Whether the run is driverless does not change.                          *)
LEMMA ModeKept == [Next]_vars => l4' = l4
  BY DEF Next, Main, Dispatch, UpdateRouteResult, CollectAndCount, Schedule,
         ScheduleFails, SkipRetrieve, Retrieve, Plan, NewRoute, FinishJob, vars,
         router

CommandInv == PendingIsOwn /\ CommandReachesItsTask

LEMMA CommandDispatch ==
    ASSUME TypeOK, CommandInv, NEW a \in Assists, Dispatch(a)
    PROVE  CommandInv'
  <1>1. cmdTask' = cmdTask /\ cmdUses' = cmdUses /\ l4' = l4
    BY DEF Dispatch
  <1>2. l4 => task' \in {"NONE", "CRUISE", "OFF_ROAD"}
    BY DEF Dispatch, NewTasks
  <1>3. CASE Switched(a)
    <2>1. pendingLc' = 0
      BY <1>3 DEF Dispatch, UpdatePlannerStateOnTaskSwitch
    <2> QED
      BY <1>1, <1>2, <2>1
         DEF CommandInv, PendingIsOwn, CommandReachesItsTask
  <1>4. CASE ~Switched(a)
    <2>1. pendingLc' = pendingLc
      BY <1>4 DEF Dispatch, pending
    <2>2. pendingLc # 0 /\ ~l4 => task \in {"CRUISE", "ALCC"}
      BY DEF CommandInv, PendingIsOwn, TypeOK, CommandType
    <2>3. ~l4 /\ task \in {"CRUISE", "ALCC"} => task' = task
      BY <1>4 DEF Dispatch, NewTasks, Switched
    <2> QED
      BY <1>1, <1>2, <2>1, <2>2, <2>3
         DEF CommandInv, PendingIsOwn, CommandReachesItsTask
  <1> QED
    BY <1>3, <1>4

LEMMA CommandCollected ==
    ASSUME TypeOK, CommandInv, CollectAndCount
    PROVE  CommandInv'
  <1>1. task' = task /\ cmdUses' = cmdUses /\ l4' = l4
    BY DEF CollectAndCount, router
  <1>2. CASE UNCHANGED <<cmdTask, pendingLc>>
    BY <1>1, <1>2 DEF CommandInv, PendingIsOwn, CommandReachesItsTask
  <1>3. ASSUME NEW c \in 1..MaxCommands, NewCommand(c)
        PROVE  CommandInv'
    <2>1. /\ task \in {"CRUISE", "ALCC"} /\ (l4 => task = "CRUISE")
          /\ cmdTask \in Seq({"CRUISE", "ALCC"}) /\ MaxCommands \in Nat
      BY BoundAssumption
         DEF CollectAndCount, TypeOK, ControlType, CommandType, CommandInv,
             PendingIsOwn
    <2>2. /\ c = Len(cmdTask) + 1 /\ pendingLc' = c
          /\ Len(cmdTask') = c /\ cmdTask'[c] = task
          /\ \A d \in 1..Len(cmdTask) : cmdTask'[d] = cmdTask[d]
      BY <1>3, <2>1 DEF NewCommand
    <2>3. cmdUses[c] = <<>>
      BY <2>1, <2>2 DEF CommandInv, PendingIsOwn
    <2>4. PendingIsOwn'
      BY <1>1, <2>1, <2>2, <2>3 DEF CommandInv, PendingIsOwn
    <2>5. CommandReachesItsTask'
      BY <1>1, <2>1, <2>2, <2>3 DEF CommandInv, CommandReachesItsTask
    <2> QED
      BY <2>4, <2>5 DEF CommandInv
  <1> QED
    BY <1>2, <1>3 DEF CollectAndCount

LEMMA CommandSchedule ==
    ASSUME TypeOK, CommandInv, Schedule
    PROVE  CommandInv'
  <1>1. pendingLc' = 0 /\ cmdTask' = cmdTask /\ task' = task /\ l4' = l4
    BY DEF Schedule, ConsumeCommand, TakePending, router
  <1>2. /\ DOMAIN cmdUses = 1..MaxCommands /\ MaxCommands \in Nat
        /\ cmdTask \in Seq({"CRUISE", "ALCC"}) /\ Len(cmdTask) <= MaxCommands
    BY BoundAssumption DEF TypeOK, CommandType
  <1>3. \A c \in 1..MaxCommands :
          cmdUses'[c] = IF c = pendingLc THEN Append(cmdUses[c], task)
                                         ELSE cmdUses[c]
    BY <1>2 DEF Schedule, ConsumeCommand, GiveCommand
  <1>4. \A c \in 1..MaxCommands : c # pendingLc => cmdUses'[c] = cmdUses[c]
    BY <1>3
  <1>5. pendingLc # 0 =>
          /\ pendingLc \in 1..Len(cmdTask) /\ cmdUses[pendingLc] = <<>>
          /\ cmdTask[pendingLc] = task
    BY DEF CommandInv, PendingIsOwn, Schedule, TypeOK, ControlType
  <1>6. ASSUME pendingLc # 0
        PROVE  cmdUses'[pendingLc] = <<cmdTask[pendingLc]>>
    <2>1. pendingLc \in 1..MaxCommands
      BY <1>2, <1>5, <1>6
    <2>2. cmdUses'[pendingLc] = Append(<<>>, task)
      BY <1>3, <1>5, <1>6, <2>1
    <2>3. Append(<<>>, task) = <<task>>
      OBVIOUS
    <2> QED
      BY <1>5, <1>6, <2>2, <2>3
  <1>7. PendingIsOwn'
    BY <1>1, <1>2, <1>4, <1>5 DEF CommandInv, PendingIsOwn
  <1>8. ASSUME NEW c \in 1..Len(cmdTask)
        PROVE  cmdUses'[c] \in {<<>>, <<cmdTask[c]>>}
    <2>1. CASE c = pendingLc
      <3>1. pendingLc # 0
        BY <1>2, <2>1
      <3> QED
        BY <1>6, <2>1, <3>1
    <2>2. CASE c # pendingLc
      <3>1. c \in 1..MaxCommands
        BY <1>2
      <3>2. cmdUses'[c] = cmdUses[c]
        BY <1>4, <2>2, <3>1
      <3> QED
        BY <3>2 DEF CommandInv, CommandReachesItsTask
    <2> QED
      BY <2>1, <2>2
  <1>9. CommandReachesItsTask'
    BY <1>1, <1>8 DEF CommandReachesItsTask
  <1> QED
    BY <1>7, <1>9 DEF CommandInv

LEMMA CommandNext == TypeOK /\ CommandInv /\ [Next]_vars => CommandInv'
  <1> SUFFICES ASSUME TypeOK, CommandInv, [Next]_vars PROVE CommandInv'
    OBVIOUS
  <1>1. ASSUME NEW a \in Assists, Dispatch(a) PROVE CommandInv'
    BY <1>1, CommandDispatch
  <1>2. CASE CollectAndCount
    BY <1>2, CommandCollected
  <1>3. CASE Schedule
    BY <1>3, CommandSchedule
  <1>4. CASE UNCHANGED <<task, pendingLc, cmdTask, cmdUses>>
    BY <1>4, ModeKept DEF CommandInv, PendingIsOwn, CommandReachesItsTask
  <1>5. UpdateRouteResult \/ ScheduleFails \/ SkipRetrieve \/ Retrieve
          \/ Plan \/ NewRoute \/ FinishJob \/ UNCHANGED vars
        => UNCHANGED <<task, pendingLc, cmdTask, cmdUses>>
    BY DEF UpdateRouteResult, ScheduleFails, SkipRetrieve, Retrieve, Plan,
           NewRoute, FinishJob, vars, pending, history
  <1> QED
    BY <1>1, <1>2, <1>3, <1>4, <1>5 DEF Next, Main

(* No lane change command is given to two jobs or to a job of another task *)
(* than the one the driver issued it in, for any number of commands.       *)
THEOREM CommandsReachTheirTask == Spec => []CommandReachesItsTask
  <1>1. Init => TypeOK /\ CommandInv
    <2>1. ASSUME Init PROVE CommandInv
      <3>1. Len(<<>>) = 0
        OBVIOUS
      <3>2. PendingIsOwn
        BY <2>1 DEF Init, PendingIsOwn
      <3>3. CommandReachesItsTask
        BY <2>1, <3>1 DEF Init, CommandReachesItsTask
      <3> QED
        BY <3>2, <3>3 DEF CommandInv
    <2> QED
      BY <2>1, TypeInit
  <1>2. TypeOK /\ CommandInv /\ [Next]_vars => TypeOK' /\ CommandInv'
    BY TypeNext, CommandNext
  <1>3. CommandInv => CommandReachesItsTask
    BY DEF CommandInv
  <1> QED
    BY <1>1, <1>2, <1>3, PTL DEF Spec

-----------------------------------------------------------------------------
(* ALCC and the results of the NOA job.                                    *)

LEMMA ForeignDispatch ==
    ASSUME TypeOK, ForeignResultsAreMarked, "APA" \notin Assists,
           NEW a \in Assists, Dispatch(a)
    PROVE  ForeignResultsAreMarked'
  <1>1. l4' = l4 /\ (l4 => task' \in {"NONE", "CRUISE", "OFF_ROAD"})
    BY DEF Dispatch, NewTasks
  <1>2. a \in {"LCC", "ACC", "NOA"}
    BY ModeAssumption DEF AllAssists
  <1>3. ~l4 => task' \in {"ACC", "CRUISE", "ALCC"}
    BY <1>2 DEF Dispatch, NewTasks, ForeignResultsAreMarked
  <1>4. CASE ~Switched(a)
    <2>1. UNCHANGED <<future, latest, transition>>
      BY <1>4 DEF Dispatch, KeepAsync, counters
    <2>2. ~l4 => task' = task
      BY <1>2, <1>4 DEF Dispatch, NewTasks, Switched, ForeignResultsAreMarked
    <2> QED
      BY <1>1, <1>3, <2>1, <2>2 DEF ForeignResultsAreMarked
  <1>5. CASE Switched(a)
    <2>1. ~l4
      BY <1>5 DEF Switched
    <2>2. PICK prev \in PrevTypes : UpdatePlannerStateOnTaskSwitch(prev, task')
      BY <1>5 DEF Dispatch
    <2>3. CASE task' = "ACC"
      <3>1. future' = NoFuture /\ latest' = NoResult
        BY <2>2, <2>3 DEF UpdatePlannerStateOnTaskSwitch, ResetAsync
      <3> QED
        BY <1>1, <2>1, <2>3, <3>1 DEF ForeignResultsAreMarked
    <2>4. CASE task' = "CRUISE"
      BY <1>1, <2>1, <2>4 DEF ForeignResultsAreMarked
    <2>5. CASE task' = "ALCC"
      <3>1. task \in {"NONE", "ACC", "CRUISE"}
        BY <1>5, <1>2, <2>1, <2>5
           DEF Dispatch, NewTasks, Switched, ForeignResultsAreMarked
      <3>2. CASE task \in {"NONE", "ACC"}
        <4>1. ~IsValid(future) /\ latest = NoResult
          BY <2>1, <3>2 DEF ForeignResultsAreMarked, IsValid, NoFuture
        <4>2. ~IsValid(future') /\ latest' = NoResult
          <5>1. \/ ResetAsync \/ StartSecondary \/ KeepAsync
                \/ UpdateTransitionStates
                     /\ (FakeAlccOnlyLowFreqResults \/ UNCHANGED latest)
            BY <2>2 DEF UpdatePlannerStateOnTaskSwitch
          <5>2. CASE ResetAsync
            BY <5>2 DEF ResetAsync, IsValid, NoFuture
          <5>3. CASE ~ResetAsync
            BY <4>1, <5>1, <5>3
               DEF StartSecondary, KeepAsync, UpdateTransitionStates,
                   FakeAlccOnlyLowFreqResults
          <5> QED
            BY <5>2, <5>3
        <4> QED
          BY <1>1, <2>1, <2>5, <4>2 DEF ForeignResultsAreMarked, IsValid
      <3>3. CASE task = "CRUISE"
        <4>1. prev = "CRUISE"
          BY <3>3 DEF PrevTypes
        <4>2. \/ ResetAsync
              \/ UpdateTransitionStates /\ FakeAlccOnlyLowFreqResults
          BY <2>2, <2>5, <4>1 DEF UpdatePlannerStateOnTaskSwitch
        <4>3. latest' = NoResult \/ latest'.faked
          BY <4>2 DEF ResetAsync, FakeAlccOnlyLowFreqResults, TypeOK, SlotType,
                      ResultType
        <4>4. IsValid(future') => transition'
          <5>1. CASE ResetAsync
            BY <5>1 DEF ResetAsync, IsValid, NoFuture
          <5>2. CASE UpdateTransitionStates
            BY <5>2 DEF UpdateTransitionStates
          <5> QED
            BY <4>2, <5>1, <5>2
        <4> QED
          BY <1>1, <2>1, <2>5, <4>3, <4>4 DEF ForeignResultsAreMarked, IsValid
      <3> QED
        BY <3>1, <3>2, <3>3
    <2> QED
      BY <1>3, <2>1, <2>3, <2>4, <2>5
  <1> QED
    BY <1>4, <1>5

LEMMA ForeignNext ==
    ASSUME "APA" \notin Assists
    PROVE  TypeOK /\ ForeignResultsAreMarked /\ [Next]_vars
             => ForeignResultsAreMarked'
  <1> SUFFICES ASSUME TypeOK, ForeignResultsAreMarked, [Next]_vars
               PROVE  ForeignResultsAreMarked'
    OBVIOUS
  <1>1. ASSUME NEW a \in Assists, Dispatch(a) PROVE ForeignResultsAreMarked'
    BY <1>1, ForeignDispatch
  <1>0. l4' = l4
    BY ModeKept
  <1>2. CASE Schedule
    <2>1. task' = task /\ task \in {"CRUISE", "ALCC"} /\ latest' = latest
      BY <1>2 DEF Schedule, TypeOK, ControlType
    <2>2. future'.owner = task
      BY <1>2 DEF Schedule, NewJob
    <2> QED
      BY <1>0, <2>1, <2>2 DEF ForeignResultsAreMarked
  <1>3. CASE ScheduleFails
    <2>1. task' = "CRUISE" /\ task = "CRUISE"
      BY <1>3 DEF ScheduleFails
    <2> QED
      BY <1>0, <2>1 DEF ForeignResultsAreMarked
  <1>4. CASE Retrieve
    <2>1. /\ task' = task /\ task \in {"CRUISE", "ALCC"}
          /\ future' = NoFuture /\ ~IsValid(future') /\ IsValid(future)
      BY <1>4 DEF Retrieve, TypeOK, ControlType, IsValid, IsReady, NoFuture
    <2>2. ASSUME task = "ALCC", latest' # NoResult
          PROVE  latest'.owner = "ALCC" \/ latest'.faked
      <3>1. latest' = [owner |-> future.owner,
                       faked |-> task = "ALCC" /\ transition,
                       route |-> future.route]
        BY <1>4, <2>2, Zenon DEF Retrieve
      <3>2. latest'.owner = future.owner
        BY <3>1, Zenon
      <3>3. latest'.faked = (task = "ALCC" /\ transition)
        BY <3>1, Zenon
      <3>4. future.owner = "ALCC" \/ transition
        BY <1>0, <2>1, <2>2 DEF ForeignResultsAreMarked
      <3> QED
        BY <2>2, <3>2, <3>3, <3>4, Zenon
    <2> QED
      BY <1>0, <2>1, <2>2 DEF ForeignResultsAreMarked, IsValid
  <1>5. CASE FinishJob
    <2>1. PICK s \in {"ok", "failed"} : future' = [future EXCEPT !.st = s]
      BY <1>5 DEF FinishJob
    <2>2. future'.owner = future.owner /\ IsValid(future) /\ future # NoFuture
      <3>1. future.st = "running"
        BY <1>5 DEF FinishJob
      <3>2. [future EXCEPT !.st = s].owner = future.owner
        BY DEF TypeOK, SlotType, JobType
      <3> QED
        BY <2>1, <3>1, <3>2 DEF IsValid, NoFuture
    <2>3. UNCHANGED <<task, latest, transition>>
      BY <1>5 DEF FinishJob, counters
    <2> QED
      BY <1>0, <2>2, <2>3 DEF ForeignResultsAreMarked
  <1>6. CASE UNCHANGED <<task, future, latest, transition>>
    BY <1>0, <1>6 DEF ForeignResultsAreMarked, IsValid
  <1>7. UpdateRouteResult \/ CollectAndCount \/ SkipRetrieve \/ Plan
          \/ NewRoute \/ UNCHANGED vars
        => UNCHANGED <<task, future, latest, transition>>
    BY DEF UpdateRouteResult, CollectAndCount, SkipRetrieve, Plan, NewRoute,
           vars, counters
  <1> QED
    BY <1>1, <1>2, <1>3, <1>4, <1>5, <1>6, <1>7 DEF Next, Main

(* Unless the driver can park in between, ALCC only plans on results whose *)
(* ALCC-only fields are filled in, for every combination of cycle lengths; *)
(* a parked car brings the results of another task back.              *)
THEOREM AlccResultsConverted ==
    "APA" \notin Assists => (Spec => []AlccNeverPlansOnNoaResult)
  <1> SUFFICES ASSUME "APA" \notin Assists
               PROVE  Spec => []AlccNeverPlansOnNoaResult
    OBVIOUS
  <1>1. Init => TypeOK /\ ForeignResultsAreMarked
    BY TypeInit DEF Init, ForeignResultsAreMarked
  <1>2. TypeOK /\ ForeignResultsAreMarked /\ [Next]_vars
          => TypeOK' /\ ForeignResultsAreMarked'
    BY TypeNext, ForeignNext
  <1>3. ForeignResultsAreMarked => AlccNeverPlansOnNoaResult
    BY DEF ForeignResultsAreMarked, AlccNeverPlansOnNoaResult
  <1> QED
    BY <1>1, <1>2, <1>3, PTL DEF Spec

-----------------------------------------------------------------------------
(* The route the speed planner follows.                                    *)

RouteInv == RouteChangeRemembered /\ RouteChangeKept

LEMMA RouteDispatch ==
    ASSUME TypeOK, RouteInv, NEW a \in Assists, Dispatch(a)
    PROVE  RouteInv'
  <1>1. /\ pc = "dispatch" /\ pc' \in {"dispatch", "route", "count"}
        /\ routeId' = routeId /\ seenRoute' = routeId /\ l4' = l4
        /\ pc' = "route" => task' = "CRUISE"
        /\ pc' = "count" => task' = "ALCC"
    BY DEF Dispatch, FirstPc
  <1>2. /\ ~missed' => ~missed /\ (rerouted' => pc' = "route")
        /\ ~rerouted' => routeId = seenRoute
        /\ dropped' = dropped
    BY DEF Dispatch
  <1>3. /\ speedRoute' \in {0, speedRoute}
        /\ task' \notin {"CRUISE", "OFF_ROAD"} => speedRoute' = 0
        /\ waitSpeed' = waitSpeed \/ speedRoute' = 0
    <2>1. CASE Switched(a)
      <3>1. PICK prev \in PrevTypes : UpdatePlannerStateOnTaskSwitch(prev, task')
        BY <2>1 DEF Dispatch
      <3>2. speedRoute' = IF prev \in {"CRUISE", "OFF_ROAD"} THEN 0 ELSE speedRoute
        BY <3>1 DEF UpdatePlannerStateOnTaskSwitch
      <3>3. task \notin {"CRUISE", "OFF_ROAD"} => speedRoute = 0
        BY DEF RouteInv, RouteChangeRemembered
      <3>4. task \in {"CRUISE", "OFF_ROAD"} => prev = task
        BY DEF PrevTypes
      <3> QED
        BY <3>2, <3>3, <3>4
    <2>2. CASE ~Switched(a)
      <3>1. speedRoute' = speedRoute /\ waitSpeed' = waitSpeed
        BY <2>2 DEF Dispatch, KeepAsync
      <3>2. task' \notin {"CRUISE", "OFF_ROAD"} => task \notin {"CRUISE", "OFF_ROAD"}
        BY <2>2, ModeAssumption DEF Dispatch, NewTasks, Switched, AllAssists
      <3> QED
        BY <3>1, <3>2 DEF RouteInv, RouteChangeRemembered
    <2> QED
      BY <2>1, <2>2
  <1>4. ~missed' /\ ~dropped'
          => \/ speedRoute' \in {0, seenRoute'} \/ waitSpeed'
             \/ pc' = "route" /\ rerouted'
    BY <1>1, <1>2, <1>3 DEF RouteInv, RouteChangeRemembered, TypeOK, RouteType
  <1>5. RouteChangeRemembered'
    BY <1>1, <1>3, <1>4 DEF RouteChangeRemembered
  <1>6. RouteChangeKept'
    BY <1>1 DEF RouteChangeKept, Planning
  <1> QED
    BY <1>5, <1>6 DEF RouteInv

LEMMA RouteUpdated ==
    ASSUME TypeOK, RouteInv, UpdateRouteResult
    PROVE  RouteInv'
  <1>1. /\ pc = "route" /\ task = "CRUISE" /\ task' = task
        /\ routeId' = routeId /\ seenRoute' = seenRoute /\ rerouted' = rerouted
        /\ routeId = seenRoute /\ l4' = l4
    BY DEF UpdateRouteResult, router, RouteInv, RouteChangeRemembered, TypeOK,
           ControlType
  <1>2. PICK sections \in TailoredRoutes :
          LET init  == sections = 0 \/ SwitchSpeedRoute
              after == IF init THEN routeId ELSE sections
          IN /\ waitSpeed' = (RouteRecorded(waitSpeed) /\ ~SwitchSpeedRoute)
             /\ \/ pc' \in {"count", "dispatch"} /\ speedRoute' = after
                   /\ dropped' = Owed(dropped)
                \/ /\ pc' = "dispatch" /\ speedRoute' = sections
                   /\ dropped' = (Owed(dropped) \/ SwitchSpeedRoute)
                   /\ init
                \/ pc' = "dispatch" /\ speedRoute' = 0
    BY DEF UpdateRouteResult
  <1>3. sections = speedRoute \/ (~rerouted /\ sections \in {0, routeId})
    BY DEF TailoredRoutes
  <1>4. missed' = Owed(missed)
    BY DEF UpdateRouteResult
  (* Outside L4 a frame without a new route follows the newest one.        *)
  <1>5. ~l4 /\ ~rerouted => sections \in {0, routeId}
    BY DEF TailoredRoutes
  (* Whoever does not switch keeps or records the mark.                    *)
  <1>6. CASE SwitchSpeedRoute
    <2>1. ~dropped' => speedRoute' \in {0, routeId}
      BY <1>2, <1>6
    <2>2. pc' # "dispatch" => speedRoute' = routeId
      BY <1>2, <1>6
    <2> QED
      BY <1>1, <1>2, <2>1, <2>2
         DEF RouteInv, RouteChangeRemembered, RouteChangeKept, Planning
  <1>7. CASE ~SwitchSpeedRoute
    <2>1. rerouted => RouteRecorded(waitSpeed)
      BY <1>7 DEF SwitchSpeedRoute, RouteRecorded
    <2>2. waitSpeed => RouteRecorded(waitSpeed)
      BY DEF RouteRecorded
    <2>3. rerouted \/ waitSpeed => waitSpeed'
      BY <1>2, <1>7, <2>1, <2>2
    <2>4. /\ ~missed' /\ ~rerouted /\ speedRoute' \notin {0, routeId} => ~missed
          /\ ~dropped' /\ ~rerouted /\ speedRoute' \notin {0, routeId} => ~dropped
      BY <1>2, <1>4, <1>7 DEF Owed
    <2>5. ~missed /\ ~dropped /\ ~rerouted
            => speedRoute \in {0, seenRoute} \/ waitSpeed
      BY DEF RouteInv, RouteChangeRemembered
    <2>6. \/ speedRoute' = 0 /\ pc' = "dispatch"
          \/ sections = 0 /\ speedRoute' = routeId
          \/ sections # 0 /\ speedRoute' = sections
      BY <1>2, <1>7
    <2>7. ~missed' /\ ~dropped'
            => speedRoute' \in {0, seenRoute'} \/ waitSpeed'
      BY <1>1, <1>3, <2>3, <2>4, <2>5, <2>6
    <2>8. ~missed' /\ ~dropped' /\ pc' # "dispatch"
            => speedRoute' = seenRoute' \/ waitSpeed'
      BY <1>1, <1>3, <2>3, <2>4, <2>5, <2>6
    <2>9. ~l4 /\ pc' # "dispatch" => speedRoute' = seenRoute' \/ waitSpeed'
      BY <1>1, <1>5, <2>3, <2>6
    <2> QED
      BY <1>1, <2>7, <2>8, <2>9
         DEF RouteInv, RouteChangeRemembered, RouteChangeKept, Planning
  <1> QED
    BY <1>6, <1>7

LEMMA RouteNext == TypeOK /\ RouteInv /\ [Next]_vars => RouteInv'
  <1> SUFFICES ASSUME TypeOK, RouteInv, [Next]_vars PROVE RouteInv'
    OBVIOUS
  <1>1. ASSUME NEW a \in Assists, Dispatch(a) PROVE RouteInv'
    BY <1>1, RouteDispatch
  <1>2. CASE UpdateRouteResult
    BY <1>2, RouteUpdated
  <1>3. CASE NewRoute
    BY <1>3 DEF NewRoute, route, history, RouteInv, RouteChangeRemembered,
                RouteChangeKept, Planning
  <1>4. CASE ScheduleFails
    <2>1. /\ pc = "schedule" /\ pc' = "dispatch"
          /\ UNCHANGED <<task, waitSpeed, speedRoute, seenRoute, missed, dropped>>
      BY <1>4 DEF ScheduleFails, router, history
    <2> QED
      BY <2>1 DEF RouteInv, RouteChangeRemembered, RouteChangeKept, Planning
  <1>5. CASE CollectAndCount \/ Schedule \/ SkipRetrieve \/ Retrieve \/ Plan
    <2>1. /\ pc \in {"count", "schedule", "retrieve", "plan"}
          /\ pc' \in {"schedule", "retrieve", "plan", "dispatch"}
          /\ UNCHANGED <<task, waitSpeed, speedRoute, routeId, seenRoute, l4,
                         missed, dropped>>
      BY <1>5 DEF CollectAndCount, Schedule, SkipRetrieve, Retrieve, Plan, route,
                  router, history
    <2> QED
      BY <2>1 DEF RouteInv, RouteChangeRemembered, RouteChangeKept, Planning
  <1>6. CASE FinishJob \/ UNCHANGED vars
    BY <1>6 DEF FinishJob, vars, route, router, history, RouteInv,
                RouteChangeRemembered, RouteChangeKept, Planning
  <1> QED
    BY <1>1, <1>2, <1>3, <1>4, <1>5, <1>6 DEF Next, Main

(* Where a frame plans, the speed planner follows the newest route or is   *)
(* marked to: outside L4 always, whichever step of whichever frames        *)
(* failed, whichever job could not be built and whichever task was on when *)
(* the change came; in L4 unless the frame that saw the change ended       *)
(* before it was recorded or the extension of its sections failed.  For    *)
(* all cycle lengths, in both modes of planning, any number of routes.     *)
THEOREM RouteChangesAreKept == Spec => []RouteChangeKept
  <1>1. Init => TypeOK /\ RouteInv
    BY TypeInit DEF Init, RouteInv, RouteChangeRemembered, RouteChangeKept,
                    Planning
  <1>2. TypeOK /\ RouteInv /\ [Next]_vars => TypeOK' /\ RouteInv'
    BY TypeNext, RouteNext
  <1>3. RouteInv => RouteChangeKept
    BY DEF RouteInv
  <1> QED
    BY <1>1, <1>2, <1>3, PTL DEF Spec

-----------------------------------------------------------------------------
(* In L4 the speed planner follows the path planner.                       *)

(* A job is scheduled in the first frame of a cycle.                       *)
CycleStart == pc = "schedule" => FrameCounter = 0

LEMMA CycleStartNext == CycleStart /\ [Next]_vars => CycleStart'
  BY DEF CycleStart, Next, Main, Dispatch, FirstPc, UpdateRouteResult,
         CollectAndCount, Schedule, ScheduleFails, SkipRetrieve, Retrieve, Plan,
         NewRoute, FinishJob, vars, counters, FrameCounter

PathInv == RouteInv /\ CycleStart /\ PathJobOnNewRoute

(* The path planner knows route r, or there is no path.                    *)
PathIsOn(r) == IF IsValid(future) THEN future.route = r ELSE latest = NoResult

SpeedSwitches == l4 /\ ~missed /\ speedRoute # 0 /\ speedRoute' \notin {0, speedRoute}

(* In L4 there is no hand-over: a frame counts with the counter alone.     *)
LEMMA NoSwitchInL4 ==
    ASSUME l4, NEW a \in Assists, Dispatch(a)
    PROVE  /\ UNCHANGED <<counters, future, latest, waitPath, waitSpeed,
                          speedRoute>>
           /\ task' \in {"NONE", "CRUISE", "OFF_ROAD"}
  BY DEF Dispatch, Switched, KeepAsync, NewTasks

(* The tick before the frame at which speed would follow does not wrap.    *)
LEMMA TickBeforeSwitch ==
    ASSUME CruiseIters # 0, NEW c \in 0..CruiseIters - 1
    PROVE  /\ Tick(MaxIter("CRUISE"), c) = c + 1
           /\ Tick(CruiseIters, c) = c + 1
  <1>1. CruiseIters \in Nat /\ MaxIter("CRUISE") \in Nat
        /\ CruiseIters <= MaxIter("CRUISE")
    BY ItersAssumption DEF MaxIter, Larger
  <1>2. \A n \in Nat : c + 1 <= n => (c + 1) % (n + 1) = c + 1
    <2> SUFFICES ASSUME NEW n \in Nat, c + 1 <= n
                 PROVE  (c + 1) % (n + 1) = c + 1
      OBVIOUS
    <2> QED
      OBVIOUS
  <1>3. c + 1 <= CruiseIters /\ c + 1 <= MaxIter("CRUISE")
    BY <1>1
  <1> QED
    BY <1>1, <1>2, <1>3 DEF Tick

LEMMA PathDispatch ==
    ASSUME TypeOK, PathInv, RouteInv', NEW a \in Assists, Dispatch(a)
    PROVE  PathJobOnNewRoute'
  <1> SUFFICES ASSUME l4'
               PROVE  PathJobOnNewRoute'
    BY DEF PathJobOnNewRoute
  <1>1. /\ l4 /\ pc = "dispatch" /\ routeId' = routeId /\ seenRoute' = routeId
        /\ pc' \in {"dispatch", "route"}
    BY DEF Dispatch, FirstPc, NewTasks
  <1>2. /\ UNCHANGED <<counters, future, waitPath, waitSpeed, speedRoute>>
        /\ task' \in {"NONE", "CRUISE", "OFF_ROAD"}
    BY <1>1, NoSwitchInL4
  <1>3. /\ ~missed' => ~missed /\ (rerouted' => pc' = "route")
        /\ ~rerouted' => routeId = seenRoute
    BY DEF Dispatch
  <1> QED
    BY <1>1, <1>2, <1>3, NoSwitchInL4 DEF PathInv, PathJobOnNewRoute, counters, IsValid

LEMMA PathUpdated ==
    ASSUME TypeOK, PathInv, UpdateRouteResult, CruiseIters # 0
    PROVE  /\ PathJobOnNewRoute'
           /\ SpeedSwitches => PathIsOn(speedRoute')
  <1>1. /\ pc = "route" /\ task = "CRUISE" /\ l4' = l4
        /\ routeId' = routeId /\ seenRoute' = seenRoute /\ rerouted' = rerouted
        /\ routeId = seenRoute /\ IsPlannerAsync("CRUISE")
        /\ UNCHANGED <<counter, secondary, transition, future, latest, task>>
    BY DEF UpdateRouteResult, router, counters, PathInv, RouteInv,
           RouteChangeRemembered, TypeOK, ControlType, IsPlannerAsync, Iters
  <1> SUFFICES ASSUME l4
               PROVE  /\ PathJobOnNewRoute'
                      /\ SpeedSwitches => PathIsOn(speedRoute')
    BY <1>1 DEF PathJobOnNewRoute, SpeedSwitches
  <1>2. \/ /\ waitPath' = RouteRecorded(waitPath)
           /\ waitSpeed' = (RouteRecorded(waitSpeed) /\ ~SwitchSpeedRoute)
           /\ speedRoute' = IF speedRoute = 0 \/ SwitchSpeedRoute THEN routeId
                                                             ELSE speedRoute
           /\ pc' \in {"count", "dispatch"}
        \/ /\ waitPath' = RouteRecorded(waitPath)
           /\ waitSpeed' = (RouteRecorded(waitSpeed) /\ ~SwitchSpeedRoute)
           /\ speedRoute' = speedRoute /\ pc' = "dispatch"
           /\ speedRoute = 0 \/ SwitchSpeedRoute
        \/ speedRoute' = 0 /\ pc' = "dispatch"
    BY DEF UpdateRouteResult, TailoredRoutes
  <1>3. SwitchSpeedRoute => ~waitPath /\ ~rerouted /\ waitSpeed
    BY <1>1 DEF SwitchSpeedRoute, RouteRecorded
  <1>4. /\ ~rerouted /\ ~missed /\ waitSpeed /\ ~waitPath
        /\ speedRoute \notin {0, seenRoute}
        => /\ PathIsOn(seenRoute)
           /\ counter \in 0..CruiseIters - 1
    BY DEF PathInv, PathJobOnNewRoute, PathIsOn
  <1>5. SpeedSwitches => PathIsOn(speedRoute')
    BY <1>1, <1>2, <1>3, <1>4 DEF SpeedSwitches
  <1>6. ASSUME ~missed', waitSpeed', ~waitPath', speedRoute' \notin {0, seenRoute}
        PROVE  /\ PathIsOn(seenRoute)
               /\ counter \in 0..CruiseIters - 1
               /\ pc' = "count" => counter < CruiseIters - 1
               /\ pc' # "schedule"
    <2>1. /\ ~SwitchSpeedRoute /\ speedRoute' = speedRoute
          /\ ~RouteRecorded(waitPath) /\ RouteRecorded(waitSpeed)
      BY <1>1, <1>2, <1>6
    <2>2. ~rerouted /\ ~waitPath /\ waitSpeed
      BY <1>1, <2>1 DEF RouteRecorded
    <2>3. /\ PathIsOn(seenRoute)
          /\ counter \in 0..CruiseIters - 1
      <3>1. ~missed
        BY <1>1, <1>6, <2>2 DEF UpdateRouteResult, Owed
      <3> QED
        BY <1>4, <1>6, <2>1, <2>2, <3>1
    <2>4. Tick(CruiseIters, counter) = counter + 1
      BY <2>3, TickBeforeSwitch
    <2>5. ~(counter + 1 >= CruiseIters)
      BY <1>1, <2>1, <2>4 DEF SwitchSpeedRoute
    <2>6. CruiseIters \in Nat
      BY ItersAssumption
    <2> QED
      BY <1>2, <2>3, <2>5, <2>6
  <1>7. PathJobOnNewRoute'
    BY <1>1, <1>6 DEF PathInv, PathJobOnNewRoute, PathIsOn, IsValid
  <1> QED
    BY <1>5, <1>7

LEMMA PathCounted ==
    ASSUME TypeOK, PathInv, CollectAndCount, CruiseIters # 0
    PROVE  PathJobOnNewRoute'
  <1> SUFFICES ASSUME l4 PROVE PathJobOnNewRoute'
    BY DEF CollectAndCount, router, PathJobOnNewRoute
  <1>1. /\ task = "CRUISE" /\ ~transition /\ secondary = NoCounter
        /\ UNCHANGED <<task, transition, future, latest, waitPath, waitSpeed,
                       speedRoute, l4, seenRoute, rerouted, missed>>
        /\ pc = "count" /\ secondary' = NoCounter
    BY DEF CollectAndCount, route, router, PathInv, PathJobOnNewRoute, TypeOK,
           ControlType
  <1>2. counter' = Tick(MaxIter("CRUISE"), counter)
    BY <1>1 DEF CollectAndCount
  <1>3. pc' = IF counter' = 0 THEN "schedule" ELSE "retrieve"
    BY <1>1 DEF CollectAndCount, FrameCounter
  <1>4. ASSUME ~missed, waitSpeed, ~waitPath, speedRoute \notin {0, seenRoute}
        PROVE  /\ PathIsOn(seenRoute)
               /\ counter' \in 0..CruiseIters - 1 /\ pc' = "retrieve"
    <2>1. /\ PathIsOn(seenRoute)
          /\ counter \in 0..CruiseIters - 1 /\ counter < CruiseIters - 1
      BY <1>1, <1>4 DEF PathInv, PathJobOnNewRoute, PathIsOn
    <2>2. counter' = counter + 1
      BY <1>2, <2>1, TickBeforeSwitch
    <2>3. CruiseIters \in Nat
      BY ItersAssumption
    <2> QED
      BY <1>3, <2>1, <2>2, <2>3
  <1> QED
    BY <1>1, <1>3, <1>4 DEF PathJobOnNewRoute, PathIsOn, IsValid

LEMMA PathScheduled ==
    ASSUME TypeOK, PathInv, Schedule \/ ScheduleFails, CruiseIters # 0
    PROVE  PathJobOnNewRoute'
  <1> SUFFICES ASSUME l4 PROVE PathJobOnNewRoute'
    BY DEF Schedule, ScheduleFails, router, PathJobOnNewRoute
  <1>1. /\ task = "CRUISE" /\ ~transition /\ secondary = NoCounter
        /\ UNCHANGED <<task, counter, secondary, transition, waitSpeed,
                       speedRoute, l4, routeId, seenRoute, rerouted>>
        /\ pc = "schedule" /\ counter = 0 /\ routeId = seenRoute
        /\ pc' \in {"retrieve", "dispatch"}
        /\ IsPlannerAsync("CRUISE")
    BY DEF Schedule, ScheduleFails, counters, router, PathInv, PathJobOnNewRoute,
           RouteInv, RouteChangeRemembered, CycleStart, TypeOK, ControlType,
           FrameCounter, IsPlannerAsync, Iters
  <1>2. CASE Schedule
    <2>1. ASSUME ~missed, waitSpeed, speedRoute \notin {0, seenRoute}
          PROVE  /\ IsValid(future') /\ future'.route = seenRoute
      <3>1. waitPath
        BY <1>1, <2>1 DEF PathInv, PathJobOnNewRoute
      <3>2. UpdatePathRoute
        BY <3>1 DEF UpdatePathRoute
      <3>3. NewJob.route = routeId /\ NewJob.st = "running"
        BY <1>1, <3>2 DEF NewJob
      <3> QED
        BY <1>1, <1>2, <3>3 DEF Schedule, IsValid
    <2>2. 0 \in 0..CruiseIters - 1
      BY ItersAssumption, CruiseIters # 0
    <2>3. missed' = missed /\ pc' = "retrieve"
      BY <1>2 DEF Schedule
    <2> QED
      BY <1>1, <2>1, <2>2, <2>3 DEF PathJobOnNewRoute, IsValid
  <1>3. CASE ScheduleFails
    <2>1. ~IsValid(future') /\ latest' = NoResult /\ pc' = "dispatch"
      BY <1>3 DEF ScheduleFails, IsValid, NoFuture
    <2>2. 0 \in 0..CruiseIters - 1
      BY ItersAssumption, CruiseIters # 0
    <2> QED
      BY <1>1, <2>1, <2>2 DEF PathJobOnNewRoute, IsValid
  <1> QED
    BY <1>2, <1>3

LEMMA PathRetrieved ==
    ASSUME TypeOK, PathInv, SkipRetrieve \/ Retrieve
    PROVE  PathJobOnNewRoute'
  <1> SUFFICES ASSUME l4 PROVE PathJobOnNewRoute'
    BY DEF SkipRetrieve, Retrieve, router, PathJobOnNewRoute
  <1>1. /\ task = "CRUISE" /\ ~transition /\ secondary = NoCounter
        /\ UNCHANGED <<task, waitPath, waitSpeed, speedRoute, l4, seenRoute,
                       rerouted, missed>>
        /\ pc = "retrieve" /\ pc' \in {"plan", "dispatch"}
    BY DEF SkipRetrieve, Retrieve, route, router, history, PathInv,
           PathJobOnNewRoute, TypeOK, ControlType
  <1>2. CASE SkipRetrieve
    BY <1>1, <1>2 DEF SkipRetrieve, counters, PathInv, PathJobOnNewRoute, IsValid
  <1>3. CASE Retrieve
    <2>1. secondary' = NoCounter /\ ~transition'
      BY <1>1, <1>3 DEF Retrieve, UpdateAsyncCounterAfterLowFreqRetrieved
    <2>2. counter >= CruiseIters
      BY <1>1, <1>3 DEF Retrieve, ShouldRetrieve, FrameCounter, Iters
    <2>3. ~(counter \in 0..CruiseIters - 1)
      BY <2>2, ItersAssumption
    <2>4. ~(/\ ~missed /\ waitSpeed /\ ~waitPath
            /\ speedRoute \notin {0, seenRoute})
      BY <1>1, <2>3 DEF PathInv, PathJobOnNewRoute
    <2> QED
      BY <1>1, <2>1, <2>4 DEF PathJobOnNewRoute
  <1> QED
    BY <1>2, <1>3

LEMMA PathNext ==
    ASSUME CruiseIters # 0
    PROVE  /\ TypeOK /\ PathInv /\ [Next]_vars => PathInv'
           /\ TypeOK /\ PathInv /\ [Next]_vars
                => (SpeedSwitches => PathIsOn(speedRoute'))
  <1> SUFFICES ASSUME TypeOK, PathInv, [Next]_vars
               PROVE  /\ PathJobOnNewRoute'
                      /\ SpeedSwitches => PathIsOn(speedRoute')
    BY RouteNext, CycleStartNext DEF PathInv
  <1> USE DEF SpeedSwitches
  <1>1. ASSUME NEW a \in Assists, Dispatch(a)
        PROVE  PathJobOnNewRoute' /\ (l4 => speedRoute' = speedRoute)
    <2>1. RouteInv'
      BY <1>1, RouteDispatch DEF PathInv
    <2> QED
      BY <1>1, <2>1, PathDispatch, NoSwitchInL4
  <1>2. CASE UpdateRouteResult
    BY <1>2, PathUpdated
  <1>3. CASE CollectAndCount
    BY <1>3, PathCounted DEF CollectAndCount, route
  <1>4. CASE Schedule \/ ScheduleFails
    BY <1>4, PathScheduled DEF Schedule, ScheduleFails
  <1>5. CASE SkipRetrieve \/ Retrieve
    BY <1>5, PathRetrieved DEF SkipRetrieve, Retrieve, route
  <1>6. CASE Plan \/ NewRoute \/ UNCHANGED vars
    BY <1>6 DEF Plan, NewRoute, vars, counters, route, router, history, PathInv,
                PathJobOnNewRoute, IsValid
  <1>7. CASE FinishJob
    <2>1. PICK s \in {"ok", "failed"} : future' = [future EXCEPT !.st = s]
      BY <1>7 DEF FinishJob
    <2>2. IsValid(future') /\ future'.route = future.route
      BY <2>1 DEF IsValid, TypeOK, SlotType, JobType
    <2> QED
      BY <1>7, <2>2 DEF FinishJob, counters, route, router, history, PathInv,
                        PathJobOnNewRoute, IsValid
  <1> QED
    BY <1>1, <1>2, <1>3, <1>4, <1>5, <1>6, <1>7 DEF Next, Main

(* While driverless, with an asynchronous cruise task of any cycle length, *)
(* the speed planner takes up a new route only while the path planner's    *)
(* job on that very route is outstanding or, when that job could not be    *)
(* built, while there is no path at all; unless the frame that saw the     *)
(* last change ended before it was recorded.  In the sequential mode there *)
(* is no outstanding job: path and speed are planned in the same frame.    *)
THEOREM SpeedFollowsPath ==
    CruiseIters # 0 => (Spec => SpeedRouteFollowsPath)
  <1> SUFFICES ASSUME CruiseIters # 0
               PROVE  Spec => SpeedRouteFollowsPath
    OBVIOUS
  <1>1. Init => TypeOK /\ PathInv
    BY TypeInit DEF Init, PathInv, RouteInv, RouteChangeRemembered,
                    RouteChangeKept, Planning, CycleStart, PathJobOnNewRoute
  <1>2. TypeOK /\ PathInv /\ [Next]_vars => TypeOK' /\ PathInv'
    BY TypeNext, PathNext
  <1>3. TypeOK /\ PathInv /\ [Next]_vars
          => (SpeedSwitches => PathIsOn(speedRoute'))
    BY PathNext
  <1> QED
    BY <1>1, <1>2, <1>3, PTL
       DEF Spec, SpeedRouteFollowsPath, SpeedSwitches, PathIsOn

-----------------------------------------------------------------------------
(* An unfinished job is not given up.                                      *)

HandoverInv == ForeignResultsAreMarked /\ CycleStart /\ JobInsideCycle

(* A switch of task resets everything, finds nothing to hand over, or      *)
(* hands the outstanding job over.                                         *)
LEMMA SwitchHandsOver ==
    ASSUME TypeOK, HandoverInv, "APA" \notin Assists,
           CruiseIters # 0, AlccIters # 0,
           NEW a \in Assists, Dispatch(a), Switched(a)
    PROVE  /\ ~l4
           /\ \/ task' = "ACC" /\ ResetAsync
              \/ /\ task' \in {"CRUISE", "ALCC"}
                 /\ future.st # "running" /\ future'.st # "running" /\ ~transition'
              \/ task' \in {"CRUISE", "ALCC"} /\ UpdateTransitionStates
  <1>1. a \in {"LCC", "ACC", "NOA"}
    BY ModeAssumption DEF AllAssists
  <1>2. ~l4
    BY DEF Switched
  <1>3. task \in {"NONE", "ACC", "CRUISE", "ALCC"}
    BY <1>2 DEF HandoverInv, ForeignResultsAreMarked
  <1>4. task' \in {"ACC", "CRUISE", "ALCC"} /\ task' # task
    BY <1>1, <1>2, <1>3 DEF Dispatch, NewTasks, Switched
  <1>5. PICK prev \in PrevTypes : UpdatePlannerStateOnTaskSwitch(prev, task')
    BY DEF Dispatch
  <1>6. CASE task' = "ACC"
    BY <1>2, <1>5, <1>6 DEF UpdatePlannerStateOnTaskSwitch
  <1>7. CASE task \in {"NONE", "ACC"} /\ task' # "ACC"
    <2>1. future = NoFuture /\ ~transition
      BY <1>2, <1>7
         DEF HandoverInv, ForeignResultsAreMarked, JobInsideCycle
    <2>2. \/ ResetAsync \/ StartSecondary \/ KeepAsync \/ UpdateTransitionStates
      BY <1>5 DEF UpdatePlannerStateOnTaskSwitch
    <2>3. future' = NoFuture
      BY <2>1, <2>2 DEF ResetAsync, StartSecondary, KeepAsync,
                        UpdateTransitionStates
    <2>4. ~IsValid(future)
      BY <2>1 DEF IsValid, NoFuture
    <2>5. transition' = FALSE \/ transition' = transition \/ (transition' = IsValid(future))
      BY <2>2 DEF ResetAsync, StartSecondary, KeepAsync, counters,
                  UpdateTransitionStates
    <2>6. ~transition'
      BY <2>1, <2>4, <2>5, Zenon
    <2> QED
      BY <1>2, <1>4, <1>7, <2>1, <2>3, <2>6 DEF NoFuture
  <1>8. CASE task \in {"CRUISE", "ALCC"} /\ task' # "ACC"
    <2>1. prev = task
      BY <1>8 DEF PrevTypes
    <2>2. IsPlannerAsync("CRUISE") /\ IsPlannerAsync("ALCC")
      BY CruiseIters # 0, AlccIters # 0 DEF IsPlannerAsync, Iters
    <2>3. UpdateTransitionStates
      BY <1>4, <1>5, <1>8, <2>1, <2>2 DEF UpdatePlannerStateOnTaskSwitch
    <2> QED
      BY <1>2, <1>4, <1>8, <2>3
  <1> QED
    BY <1>3, <1>6, <1>7, <1>8

LEMMA UnfinishedAtDispatch ==
    ASSUME TypeOK, HandoverInv, "APA" \notin Assists,
           CruiseIters # 0, AlccIters # 0, NEW a \in Assists, Dispatch(a)
    PROVE  /\ JobInsideCycle'
           /\ future.st = "running" => future' = future \/ task' = "ACC"
  <1>1. pc = "dispatch" /\ pc' \in {"dispatch", "route", "count"} /\ l4' = l4
    BY DEF Dispatch, FirstPc
  <1>2. CASE ~Switched(a)
    <2>1. UNCHANGED <<future, counter, secondary, transition>>
      BY <1>2 DEF Dispatch, KeepAsync, counters
    <2>2. ~l4 => task' = task
      <3>1. a \in {"LCC", "ACC", "NOA"}
        BY ModeAssumption DEF AllAssists
      <3> QED
        BY <1>2, <3>1
           DEF Dispatch, NewTasks, Switched, HandoverInv, ForeignResultsAreMarked
    <2> QED
      BY <1>1, <2>1, <2>2 DEF HandoverInv, JobInsideCycle, FrameCounter, CycleTask
  <1>3. CASE Switched(a)
    <2>1. CASE task' = "ACC" /\ ResetAsync
      BY <1>1, <2>1 DEF ResetAsync, JobInsideCycle, NoFuture
    <2>2. CASE /\ future.st # "running" /\ future'.st # "running" /\ ~transition'
      BY <2>2 DEF JobInsideCycle
    <2>3. CASE ~l4 /\ task' \in {"CRUISE", "ALCC"} /\ UpdateTransitionStates
      BY <1>1, <2>3 DEF UpdateTransitionStates, JobInsideCycle, IsValid
    <2> QED
      BY <1>3, <2>1, <2>2, <2>3, SwitchHandsOver
  <1> QED
    BY <1>2, <1>3

(* The counter of a job that is under way does not come round to 0.        *)
LEMMA UnfinishedCounted ==
    ASSUME TypeOK, HandoverInv, CollectAndCount
    PROVE  JobInsideCycle'
  <1>1. /\ task \in {"CRUISE", "ALCC"} /\ pc = "count" /\ pc' # "count"
        /\ UNCHANGED <<task, l4, transition, future>>
        /\ CycleTask = task /\ CycleTask' = task
    BY DEF CollectAndCount, router, TypeOK, ControlType, HandoverInv,
           ForeignResultsAreMarked, CycleTask
  <1>2. secondary = NoCounter => secondary' = NoCounter
    BY DEF CollectAndCount
  <1>3. ASSUME future.st = "running", ~transition
        PROVE  /\ FrameCounter' \in 1..MaxIter(task) /\ pc' = "retrieve"
    <2>1. FrameCounter \in 0..MaxIter(task) /\ FrameCounter < MaxIter(task)
      BY <1>1, <1>3 DEF HandoverInv, JobInsideCycle
    <2>2. MaxIter(task) \in Nat
      BY <1>1, CycleBounds DEF TaskTypes
    <2>3. Tick(MaxIter(task), FrameCounter) = FrameCounter + 1
      BY <2>1, <2>2 DEF Tick
    <2>4. FrameCounter' = FrameCounter + 1
      <3>1. CASE secondary = NoCounter
        BY <1>3, <2>3, <3>1 DEF CollectAndCount, FrameCounter
      <3>2. CASE secondary # NoCounter
        <4>1. secondary' = secondary + 1
          BY <2>3, <3>2 DEF CollectAndCount, FrameCounter
        <4>2. secondary' # NoCounter
          BY <2>1, <3>2, <4>1 DEF FrameCounter, NoCounter
        <4> QED
          BY <3>2, <4>1, <4>2 DEF FrameCounter
      <3> QED
        BY <3>1, <3>2
    <2> QED
      BY <2>1, <2>2, <2>4 DEF CollectAndCount
  <1>4. pc' \in {"schedule", "retrieve"}
    BY DEF CollectAndCount
  <1> QED
    BY <1>1, <1>2, <1>3, <1>4 DEF HandoverInv, JobInsideCycle

LEMMA UnfinishedScheduled ==
    ASSUME TypeOK, HandoverInv, Schedule \/ ScheduleFails,
           CruiseIters # 0, AlccIters # 0
    PROVE  JobInsideCycle' /\ (future.st = "running" => transition)
  <1>1. /\ pc = "schedule" /\ task \in {"CRUISE", "ALCC"}
        /\ UNCHANGED <<task, l4, counter, secondary, transition>>
        /\ CycleTask = task /\ CycleTask' = task
    BY DEF Schedule, ScheduleFails, counters, router, TypeOK, ControlType,
           HandoverInv, ForeignResultsAreMarked, CycleTask
  <1>2. FrameCounter' = 0
    BY <1>1 DEF HandoverInv, CycleStart, FrameCounter
  <1>3. MaxIter(task) \in Nat /\ 0 \in 0..MaxIter(task)
    BY <1>1, CycleBounds DEF TaskTypes
  <1>4. pc' = "retrieve" \/ future' = NoFuture
    BY DEF Schedule, ScheduleFails
  <1> QED
    BY <1>1, <1>2, <1>3, <1>4 DEF HandoverInv, JobInsideCycle, NoFuture

(* The last frame of the cycle does not go on without the result.          *)
LEMMA UnfinishedRetrieved ==
    ASSUME TypeOK, HandoverInv, SkipRetrieve \/ Retrieve
    PROVE  JobInsideCycle' /\ (future.st = "running" => future' = future)
  <1>1. /\ pc = "retrieve" /\ task \in {"CRUISE", "ALCC"}
        /\ pc' \in {"plan", "dispatch"} /\ UNCHANGED <<task, l4>>
        /\ CycleTask = task /\ CycleTask' = task
    BY DEF SkipRetrieve, Retrieve, router, TypeOK, ControlType,
           HandoverInv, ForeignResultsAreMarked, CycleTask
  <1>2. CASE SkipRetrieve
    <2>1. UNCHANGED <<counter, secondary, transition, future>>
      BY <1>2 DEF SkipRetrieve, counters
    <2>2. ASSUME future.st = "running", ~transition
          PROVE  FrameCounter # MaxIter(task)
      <3>1. Iters(task) <= MaxIter(task) /\ MaxIter(task) \in Nat
        BY <1>1, ItersAssumption DEF Iters, MaxIter, Larger
      <3>2. FrameCounter = MaxIter(task) => ShouldRetrieve /\ MustRetrieve
        BY <2>2, <3>1 DEF ShouldRetrieve, MustRetrieve
      <3>3. ~NothingYet
        BY <2>2 DEF NothingYet, IsValid
      <3> QED
        BY <1>2, <3>2, <3>3 DEF SkipRetrieve, NotReady
    <2>3. MaxIter(task) \in Nat
      BY <1>1, CycleBounds DEF TaskTypes
    <2> QED
      BY <1>1, <2>1, <2>2, <2>3 DEF HandoverInv, JobInsideCycle, FrameCounter
  <1>3. CASE Retrieve
    <2>1. future' = NoFuture /\ IsReady(future)
      BY <1>3 DEF Retrieve
    <2>2. transition' => secondary' = NoCounter /\ transition
      BY <1>3 DEF Retrieve, UpdateAsyncCounterAfterLowFreqRetrieved
    <2> QED
      BY <1>1, <2>1, <2>2 DEF HandoverInv, JobInsideCycle, NoFuture, IsReady
  <1> QED
    BY <1>2, <1>3

(* What a step may do to an unfinished job.                                *)
KeepsUnfinished ==
    /\ future.st = "running" /\ future'.st # "ok" /\ future'.st # "failed"
    /\ future' # future
    => task' = "ACC" \/ transition

LEMMA HandoverNext ==
    ASSUME "APA" \notin Assists, CruiseIters # 0, AlccIters # 0
    PROVE  TypeOK /\ HandoverInv /\ [Next]_vars => HandoverInv' /\ KeepsUnfinished
  <1> SUFFICES ASSUME TypeOK, HandoverInv, [Next]_vars
               PROVE  JobInsideCycle' /\ KeepsUnfinished
    BY ForeignNext, CycleStartNext DEF HandoverInv
  <1>1. ASSUME NEW a \in Assists, Dispatch(a)
        PROVE  JobInsideCycle' /\ KeepsUnfinished
    BY <1>1, UnfinishedAtDispatch DEF KeepsUnfinished
  <1>2. CASE CollectAndCount
    BY <1>2, UnfinishedCounted DEF CollectAndCount, KeepsUnfinished
  <1>3. CASE Schedule \/ ScheduleFails
    BY <1>3, UnfinishedScheduled DEF KeepsUnfinished
  <1>4. CASE SkipRetrieve \/ Retrieve
    BY <1>4, UnfinishedRetrieved DEF KeepsUnfinished
  <1>5. CASE FinishJob
    <2>1. PICK s \in {"ok", "failed"} : future' = [future EXCEPT !.st = s]
      BY <1>5 DEF FinishJob
    <2>2. future'.st = s
      BY <2>1 DEF TypeOK, SlotType, JobType
    <2> QED
      BY <1>5, <2>2 DEF FinishJob, counters, router, HandoverInv, JobInsideCycle,
                        KeepsUnfinished
  <1>6. CASE UpdateRouteResult \/ Plan \/ NewRoute \/ UNCHANGED vars
    <2>1. /\ UNCHANGED <<task, l4, counter, secondary, transition, future>>
          /\ pc' \notin {"schedule", "retrieve"} \/ pc' = pc
          /\ pc \notin {"schedule", "retrieve"} \/ pc' = pc
      BY <1>6 DEF UpdateRouteResult, Plan, NewRoute, vars, counters, router
    <2> QED
      BY <2>1 DEF HandoverInv, JobInsideCycle, KeepsUnfinished, FrameCounter,
                  CycleTask
  <1> QED
    BY <1>1, <1>2, <1>3, <1>4, <1>5, <1>6 DEF Next, Main

(* With both tasks asynchronous, for every pair of cycle lengths and of    *)
(* limits, no frame of a task replaces the task's own job that still runs: *)
(* it is given up by a switch to ACC or during a hand-over only.  The      *)
(* driver is taken not to park in between, which keeps the job and its     *)
(* counter but not the cycle they belong to.                               *)
THEOREM UnfinishedJobsAreKept ==
    "APA" \notin Assists /\ CruiseIters # 0 /\ AlccIters # 0
        => (Spec => JobGivenUpOnlyInHandover)
  <1> SUFFICES ASSUME "APA" \notin Assists, CruiseIters # 0, AlccIters # 0
               PROVE  Spec => JobGivenUpOnlyInHandover
    OBVIOUS
  <1>1. Init => TypeOK /\ HandoverInv
    BY TypeInit DEF Init, HandoverInv, ForeignResultsAreMarked, CycleStart,
                    JobInsideCycle, NoFuture
  <1>2. TypeOK /\ HandoverInv /\ [Next]_vars => TypeOK' /\ HandoverInv'
    BY TypeNext, HandoverNext
  <1>3. TypeOK /\ HandoverInv /\ [Next]_vars
          => (/\ future.st = "running" /\ future'.st # "ok" /\ future'.st # "failed"
              /\ future' # future
              => task' = "ACC" \/ transition)
    BY HandoverNext DEF KeepsUnfinished
  <1> QED
    BY <1>1, <1>2, <1>3, PTL DEF Spec, JobGivenUpOnlyInHandover

-----------------------------------------------------------------------------
(* The input of a job that reads it by reference.                          *)

(* Asynchronous tasks copy what their job reads.                           *)
Copied == ~future.byRef

(* With a sequential ALCC task only a cruise task that is not sequential   *)
(* takes over a job, and a sequential task takes its own in the frame that *)
(* schedules it.                                                           *)
SameFrame ==
    /\ transition => CruiseIters # 0 /\ task = "CRUISE" /\ ~l4
    /\ future.st = "running" /\ future.byRef
         => pc = "retrieve" /\ ~IsPlannerAsync(task)
    /\ pc = "retrieve" => FrameCounter >= 0

LEMMA CopiedNext ==
    ASSUME CruiseIters # 0, AlccIters # 0
    PROVE  TypeOK /\ Copied /\ [Next]_vars => Copied'
  <1> SUFFICES ASSUME TypeOK, ~future.byRef, [Next]_vars
               PROVE  ~future'.byRef
    BY DEF Copied
  <1>1. future \in JobType /\ ~NoFuture.byRef
    BY DEF TypeOK, SlotType, NoFuture
  <1>2. CASE future' \in {future, NoFuture}
    BY <1>1, <1>2
  <1>3. CASE Schedule
    BY <1>3 DEF Schedule, NewJob, IsPlannerAsync, Iters
  <1>4. CASE FinishJob
    <2>1. PICK s \in {"ok", "failed"} : future' = [future EXCEPT !.st = s]
      BY <1>4 DEF FinishJob
    <2> QED
      BY <1>1, <2>1 DEF JobType
  <1>5. ASSUME NEW a \in Assists, Dispatch(a)
        PROVE  future' \in {future, NoFuture}
    BY <1>5 DEF Dispatch, UpdatePlannerStateOnTaskSwitch, KeepAsync, ResetAsync,
                StartSecondary, UpdateTransitionStates
  <1>6. CASE \/ UpdateRouteResult \/ CollectAndCount \/ ScheduleFails
             \/ SkipRetrieve \/ Retrieve \/ Plan \/ NewRoute \/ UNCHANGED vars
    BY <1>2, <1>6 DEF UpdateRouteResult, CollectAndCount, ScheduleFails,
       SkipRetrieve, Retrieve, Plan, NewRoute, vars
  <1> QED
    BY <1>2, <1>3, <1>4, <1>5, <1>6 DEF Next, Main

LEMMA SameFrameDispatch ==
    ASSUME TypeOK, SameFrame, AlccIters = 0, CruiseIters = 0 \/ "APA" \notin Assists,
           NEW a \in Assists, Dispatch(a)
    PROVE  SameFrame'
  <1>1. /\ pc = "dispatch" /\ pc' \in {"dispatch", "route", "count"} /\ l4' = l4
        /\ a \in {"LCC", "ACC", "NOA", "APA"}
    BY ModeAssumption DEF Dispatch, FirstPc, AllAssists
  <1>2. ~(future.st = "running" /\ future.byRef) /\ NoFuture.st # "running"
    BY <1>1 DEF SameFrame, NoFuture
  <1>3. future' \in {future, NoFuture}
    BY DEF Dispatch, UpdatePlannerStateOnTaskSwitch, KeepAsync, ResetAsync,
           StartSecondary, UpdateTransitionStates
  <1>4. ASSUME transition'
        PROVE  CruiseIters # 0 /\ task' = "CRUISE" /\ ~l4
    <2>1. CASE ~Switched(a)
      <3>1. transition /\ CruiseIters # 0 /\ task = "CRUISE" /\ ~l4 /\ a # "APA"
        BY <1>4, <2>1 DEF Dispatch, KeepAsync, counters, SameFrame
      <3>2. task' = "CRUISE"
        BY <1>1, <2>1, <3>1 DEF Dispatch, NewTasks, Switched
      <3> QED
        BY <3>1, <3>2
    <2>2. CASE Switched(a)
      <3>1. PICK prev \in PrevTypes : UpdatePlannerStateOnTaskSwitch(prev, task')
        BY <2>2 DEF Dispatch
      <3>2. ~l4 /\ (task = "NONE" \/ prev = task)
        BY <2>2, <3>1 DEF Switched, PrevTypes
      <3>3. CASE UpdateTransitionStates /\ task' = "CRUISE" /\ IsPlannerAsync("CRUISE")
        BY <3>2, <3>3 DEF IsPlannerAsync, Iters
      <3>4. CASE transition' = transition
        <4>1. transition /\ CruiseIters # 0 /\ task = "CRUISE"
          BY <1>4, <3>4 DEF SameFrame
        <4>2. a \in {"LCC", "ACC"} /\ prev = "CRUISE" /\ task' \in {"ALCC", "ACC"}
          BY <1>1, <2>2, <3>2, <4>1 DEF Dispatch, NewTasks, Switched
        <4>3. ResetAsync
          BY <3>1, <4>2
             DEF UpdatePlannerStateOnTaskSwitch, IsPlannerAsync, Iters
        <4> QED
          BY <1>4, <4>3 DEF ResetAsync
      <3>5. CASE ~transition'
        BY <1>4, <3>5
      <3> QED
        BY <3>1, <3>3, <3>4, <3>5
           DEF UpdatePlannerStateOnTaskSwitch, KeepAsync, ResetAsync, StartSecondary,
               IsPlannerAsync, Iters, counters
    <2> QED
      BY <2>1, <2>2
  <1>5. ~(future'.st = "running" /\ future'.byRef)
    BY <1>2, <1>3
  <1> QED
    BY <1>1, <1>4, <1>5 DEF SameFrame

LEMMA SameFrameNext ==
    ASSUME AlccIters = 0, CruiseIters = 0 \/ "APA" \notin Assists
    PROVE  TypeOK /\ CycleStart /\ SameFrame /\ [Next]_vars => SameFrame'
  <1> SUFFICES ASSUME TypeOK, CycleStart, SameFrame, [Next]_vars
               PROVE  SameFrame'
    OBVIOUS
  <1>1. ASSUME NEW a \in Assists, Dispatch(a)
        PROVE  SameFrame'
    BY <1>1, SameFrameDispatch
  <1>2. CASE CollectAndCount
    <2>1. /\ task' = task /\ l4' = l4 /\ transition' = transition /\ future' = future
          /\ pc = "count" /\ task \in {"CRUISE", "ALCC"}
      BY <1>2 DEF CollectAndCount, router, TypeOK, ControlType
    <2>2. FrameCounter' >= 0
      BY <1>2, CountersTicked DEF FrameCounter
    <2> QED
      BY <2>1, <2>2 DEF SameFrame
  <1>3. CASE Schedule
    <2>1. /\ UNCHANGED <<task, l4, counter, secondary, transition>>
          /\ future' = NewJob /\ pc' = "retrieve" /\ pc = "schedule"
      BY <1>3 DEF Schedule, router, counters
    <2>2. FrameCounter' >= 0
      BY <2>1 DEF CycleStart, FrameCounter
    <2>3. future'.byRef => ~IsPlannerAsync(task)
      BY <2>1 DEF NewJob
    <2> QED
      BY <2>1, <2>2, <2>3 DEF SameFrame, IsPlannerAsync, Iters
  <1>4. CASE SkipRetrieve
    <2>1. /\ UNCHANGED <<task, l4, counter, secondary, transition, future>>
          /\ pc = "retrieve" /\ pc' # "retrieve"
      BY <1>4 DEF SkipRetrieve, router, counters
    <2>2. ~(future.st = "running" /\ future.byRef)
      <3> SUFFICES ASSUME future.st = "running", future.byRef
                   PROVE  FALSE
        OBVIOUS
      <3>1. ~IsPlannerAsync(task) /\ Iters(task) = 0
        BY DEF SameFrame, IsPlannerAsync
      <3>2. ~transition
        BY <3>1 DEF SameFrame, Iters
      <3>3. ShouldRetrieve
        BY <2>1, <3>1, <3>2 DEF ShouldRetrieve, SameFrame
      <3> QED
        BY <1>4, <3>1, <3>3 DEF SkipRetrieve, NothingYet, NotReady, IsValid
    <2> QED
      BY <2>1, <2>2 DEF SameFrame
  <1>5. CASE Retrieve
    <2>1. /\ task' = task /\ l4' = l4 /\ future' = NoFuture /\ pc' # "retrieve"
          /\ transition' => transition
      BY <1>5 DEF Retrieve, router, UpdateAsyncCounterAfterLowFreqRetrieved
    <2> QED
      BY <2>1 DEF SameFrame, NoFuture
  <1>6. CASE FinishJob
    <2>1. /\ UNCHANGED <<pc, task, l4, counter, secondary, transition>>
          /\ future'.st # "running"
      <3>1. PICK s \in {"ok", "failed"} : future' = [future EXCEPT !.st = s]
        BY <1>6 DEF FinishJob
      <3> QED
        BY <1>6, <3>1 DEF FinishJob, router, counters, TypeOK, SlotType, JobType
    <2> QED
      BY <2>1 DEF SameFrame, FrameCounter
  <1>7. CASE ScheduleFails
    BY <1>7 DEF ScheduleFails, router, counters, SameFrame, NoFuture
  <1>8. CASE UpdateRouteResult \/ Plan \/ NewRoute \/ UNCHANGED vars
    <2>1. /\ UNCHANGED <<task, l4, counter, secondary, transition, future>>
          /\ pc' = pc \/ (pc # "retrieve" /\ pc' # "retrieve")
      BY <1>8 DEF UpdateRouteResult, Plan, NewRoute, vars, router, counters
    <2> QED
      BY <2>1 DEF SameFrame, FrameCounter
  <1> QED
    BY <1>1, <1>2, <1>3, <1>4, <1>5, <1>6, <1>7, <1>8 DEF Next, Main

(* No job outlives the frame's input it reads by reference, when both      *)
(* tasks are asynchronous, when both are sequential, and when only ALCC is *)
(* sequential and the driver does not park.  TLC finds a counterexample    *)
(* for a sequential cruise task beside an asynchronous ALCC task, and for  *)
(* a sequential ALCC task beside an asynchronous cruise task with parking. *)
THEOREM InputsOutliveJobs ==
    \/ CruiseIters # 0 /\ AlccIters # 0
    \/ CruiseIters = 0 /\ AlccIters = 0
    \/ AlccIters = 0 /\ "APA" \notin Assists
    => (Spec => []NoDanglingInput)
  <1>1. ASSUME CruiseIters # 0, AlccIters # 0
        PROVE  Spec => []NoDanglingInput
    <2>1. Init => TypeOK /\ Copied
      BY TypeInit DEF Init, Copied, NoFuture
    <2>2. TypeOK /\ Copied /\ [Next]_vars => TypeOK' /\ Copied'
      BY <1>1, TypeNext, CopiedNext
    <2>3. Copied => NoDanglingInput
      BY DEF Copied, NoDanglingInput
    <2> QED
      BY <2>1, <2>2, <2>3, PTL DEF Spec
  <1>2. ASSUME AlccIters = 0, CruiseIters = 0 \/ "APA" \notin Assists
        PROVE  Spec => []NoDanglingInput
    <2>1. Init => TypeOK /\ CycleStart /\ SameFrame
      BY TypeInit DEF Init, CycleStart, SameFrame, NoFuture
    <2>2. TypeOK /\ CycleStart /\ SameFrame /\ [Next]_vars
            => TypeOK' /\ CycleStart' /\ SameFrame'
      BY <1>2, TypeNext, CycleStartNext, SameFrameNext
    <2>3. SameFrame => NoDanglingInput
      BY DEF SameFrame, NoDanglingInput
    <2> QED
      BY <2>1, <2>2, <2>3, PTL DEF Spec
  <1> QED
    BY <1>1, <1>2
=============================================================================

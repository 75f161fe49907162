-------------------------- MODULE LaneChangeAssist --------------------------
(***************************************************************************)
(* The driver's lane change in the ALCC (assisted driving) task.           *)
(*                                                                         *)
(* The driver asks for a lane change with the paddle or cancels it.  The   *)
(* lane change has a state (QALCState) which two parties write: the        *)
(* low-frequency job decides from a COPY of the state, taken when it was   *)
(* scheduled, whether to prepare, go on or return; the high-frequency part *)
(* of every frame moves the state of the latest result on while the        *)
(* vehicle crosses the lane boundary.  A failed frame clears the state,    *)
(* and the next job starts again from lane keeping.                        *)
(*                                                                         *)
(* How a job is handed from one task to another is the subject of          *)
(* AsyncPlanner; here it is in "mode".                                     *)
(***************************************************************************)
EXTENDS Integers

CONSTANTS
    AlccIters,                 \* FLAGS_planner_alcc_async_low_freq_cycle_iterations
    MaxAlccFlag,               \* FLAGS_planner_max_alcc_async_iterations
    MaxPrepare,                \* planner_paddle_lane_change_max_prepare_time, in frames
    PrepareWhenBranchInvalid   \* FLAGS_planner_lc_prepare_when_branch_invalid

ASSUME ItersAssumption == AlccIters \in Nat \ {0} /\ MaxAlccFlag \in Nat
ASSUME PrepareAssumption == MaxPrepare \in Nat \ {0}
ASSUME FlagAssumption == PrepareWhenBranchInvalid \in BOOLEAN

VARIABLES
    pc,         \* where the main thread is in its frame
    mode,       \* whose job is outstanding, and whether ACC stands in
    counter,    \* AsyncPlannerState: frames since the job was scheduled
    job,        \* what the outstanding job captured
    latest,     \* latest_multi_task_est_result
    assist,     \* PlannerState::assist_plan_state
    ext,        \* ExternalCommandStatus: the published state and command
    pendingLc,  \* pending_lane_change_command
    lateral,    \* IsLateralAutonomousDrivingMode: the car steers
    signal,     \* the turn signal of the trajectory
    ok,         \* the last frame planned successfully
    open,       \* history: a lane change was begun and has not ended
    cancelled,  \* history: the driver's last accepted command is CANCEL
    held        \* history: frames published in PREPARE without a failure

driver  == <<pendingLc, lateral>>
output  == <<assist, ext, signal, ok>>
history == <<open, cancelled, held>>
vars == <<pc, mode, counter, job, latest, driver, output, history>>

-----------------------------------------------------------------------------
LeftRight == {"LEFT", "RIGHT"}
Commands  == LeftRight \union {"CANCEL", "STRAIGHT", "NONE"}
AlcStates == {"STANDBY_ENABLE", "PREPARE", "ONGOING", "CROSSING",
              "COMPLETED", "RETURNING", "RETURN_COMPLETED"}
Begun     == {"ONGOING", "CROSSING"}

MaxIters == IF MaxAlccFlag >= AlccIters THEN MaxAlccFlag ELSE AlccIters

NoTime   == -1
NoPlc    == "no plc_result"
NoResult == [alc |-> "none"]
NoJob    == [alc |-> "none"]
Keeping(origin) == [alc |-> "STANDBY_ENABLE", dir |-> "NONE", origin |-> origin]

Older(age) == IF age = NoTime \/ age = MaxPrepare THEN age ELSE age + 1

Init ==
    /\ pc = "collect" /\ mode = "secondary" /\ counter = -1
    /\ job = NoJob /\ latest = NoResult
    /\ assist = Keeping(FALSE)
    /\ ext = [alc |-> "STANDBY_ENABLE", cmd |-> "NONE", prepare |-> NoTime]
    /\ pendingLc = "NONE" /\ lateral = TRUE
    /\ signal = "NONE" /\ ok = FALSE
    /\ open = FALSE /\ cancelled = FALSE /\ held = 0

-----------------------------------------------------------------------------
(* Between frames.                                                         *)

DriverTakesOver ==
    /\ pc = "collect"
    /\ lateral' = ~lateral
    /\ UNCHANGED <<pc, mode, counter, job, latest, output, pendingLc, history>>

(* A frame that ends before the task: its commands are dropped.            *)
SkipFrame ==
    /\ pc = "collect"
    /\ ext' = [ext EXCEPT !.prepare = Older(@)]
    /\ UNCHANGED <<pc, mode, counter, job, latest, assist, signal, ok, driver,
                   history>>

(* A result of NOA with the ALCC-only fields filled in                     *)
(* (FakeAlccOnlyLowFreqResults): lane keeping, with NOA's own plc_result.  *)
FakedResults ==
    [alc : {"STANDBY_ENABLE"}, dir : {"NONE"},
     cmd : Commands \union {NoPlc}, invalid : {FALSE}]

(* The driver leaves ALCC and comes back, from ACC (everything is new) or  *)
(* from NOA, whose result is kept, whose job may be outstanding and which  *)
(* writes ExternalCommandStatus::alc_state too.                            *)
EnterAlcc ==
    /\ pc = "collect"
    /\ \/ mode' = "secondary" /\ latest' = NoResult /\ assist' = Keeping(FALSE)
       \/ /\ mode' \in {"secondary", "handover"}
          /\ \/ latest' = NoResult /\ assist' = Keeping(FALSE)
             \/ latest' \in FakedResults /\ assist' \in {Keeping(TRUE), Keeping(FALSE)}
    /\ counter' = -1 /\ job' = NoJob
    /\ ext' \in [alc : AlcStates, cmd : {"NONE"}, prepare : {NoTime}]
    /\ pendingLc' = "NONE"
    /\ signal' = "NONE" /\ ok' = FALSE
    /\ open' = FALSE /\ cancelled' = FALSE /\ held' = 0
    /\ UNCHANGED <<pc, lateral>>

-----------------------------------------------------------------------------
(* A frame: the command is collected and a job is scheduled.               *)

NewJob(cmd, age, origin) ==
    [alc |-> assist.alc, dir |-> assist.dir, origin |-> origin,
     cmd |-> ext.cmd, new |-> cmd, expired |-> age = MaxPrepare,
     lateral |-> lateral]

(* While the secondary counter runs, the job's lane path may be the one    *)
(* before NOA's lane change.                                               *)
OriginPaths ==
    IF mode = "secondary" /\ latest # NoResult
      THEN {assist.origin, TRUE} ELSE {assist.origin}

Collect ==
    /\ pc = "collect" /\ pc' = "retrieve"
    /\ \E new \in Commands :
         LET pend == IF new = "NONE" THEN pendingLc ELSE new
             tick == (counter + 1) % (MaxIters + 1)
         IN /\ ext' = [ext EXCEPT !.prepare = Older(@)]
            /\ \/ /\ mode # "handover" /\ tick = 0
                  /\ \E origin \in OriginPaths :
                       /\ assist' = [assist EXCEPT !.origin = origin]
                       /\ job' = NewJob(pend, ext'.prepare, origin)
                  /\ counter' = tick /\ pendingLc' = "NONE"
               \/ /\ mode = "handover" \/ tick # 0
                  /\ counter' = IF mode = "handover" THEN counter ELSE tick
                  /\ pendingLc' = pend
                  /\ UNCHANGED <<assist, job>>
    /\ UNCHANGED <<mode, latest, lateral, signal, ok, history>>

-----------------------------------------------------------------------------
(* The low-frequency job (RunMultiTasksAlccPlanner) as a function of what  *)
(* it captured.                                                            *)

NeedOriginLanePath(alc) == alc \notin Begun \union {"COMPLETED"}
Resets(j) == (~j.origin /\ NeedOriginLanePath(j.alc)) \/ ~j.lateral

AcceptInOngoing(j) ==
    CASE j.new = "CANCEL" /\ j.alc \in {"PREPARE", "ONGOING"} -> "CANCEL"
      [] j.new \in LeftRight /\ j.alc \in {"STANDBY_ENABLE", "ONGOING"} -> j.new
      [] OTHER -> "NONE"
HandleNewLaneChangeCommand(j) ==
    CASE j.new = "CANCEL" /\ j.alc = "PREPARE"              -> "CANCEL"
      [] j.new = "CANCEL" /\ j.alc = "ONGOING" /\ j.origin  -> "CANCEL"
      [] j.new # "CANCEL" /\ j.alc = "STANDBY_ENABLE"       -> j.new
      [] OTHER -> "NONE"

CancelUnheard(j) ==
    LET handled == HandleNewLaneChangeCommand(j)
    IN IF handled \in {"NONE", "CANCEL"} THEN j.cmd ELSE handled
LaneChangeCommand(j) ==
    LET handled == HandleNewLaneChangeCommand(j)
    IN IF handled = "NONE" THEN j.cmd ELSE handled

Branch(alc, dir) == [alc |-> alc, dir |-> dir]
Toward(cmd) == IF cmd = "LEFT" THEN "LEFT" ELSE "RIGHT"

(* The lanes of the origin branch and, when there is one, of the target.   *)
InitiateAlc(cmd) ==
    IF cmd \in LeftRight
      THEN {Branch("PREPARE", "NONE"), Branch("ONGOING", cmd)}
      ELSE {Branch("STANDBY_ENABLE", "NONE")}
PrepareAlc(cmd) == InitiateAlc(cmd)
ContinueOrKeep(cmd) ==
    IF cmd \in LeftRight
      THEN {Branch("RETURNING", "NONE"), Branch("ONGOING", cmd)}
      ELSE {Branch("STANDBY_ENABLE", "NONE")}
ContinueAlc(cmd) ==
    {Branch("RETURNING", "NONE")} \union
    IF cmd \in LeftRight THEN {Branch("ONGOING", cmd)} ELSE {}
CrossOther(cmd) ==
    {Branch("CROSSING", IF cmd = "RIGHT" THEN "LEFT" ELSE "RIGHT")}
CrossingLaneAlc(cmd) == {Branch("CROSSING", Toward(cmd))}

ProcessAlcRequest(alc, cmd) ==
    CASE alc = "STANDBY_ENABLE"                  -> InitiateAlc(cmd)
      [] alc \in {"PREPARE", "RETURN_COMPLETED"} -> PrepareAlc(cmd)
      [] alc = "ONGOING"                         -> ContinueAlc(cmd)
      [] alc = "CROSSING"                        -> CrossingLaneAlc(cmd)
      [] alc = "COMPLETED" -> {Branch("STANDBY_ENABLE", "NONE")}
      [] alc = "RETURNING" -> {Branch("RETURNING", "NONE")}

(* A lane change that was prepared for too long is given up.               *)
NeverExpired(j, b) == FALSE
PreparedTooLong(j, b) == b.alc = "PREPARE" /\ j.expired

PlannedState(j)   == IF Resets(j) THEN "STANDBY_ENABLE" ELSE j.alc
PlannedCommand(j) == IF Resets(j) THEN "NONE" ELSE LaneChangeCommand(j)

(* Step 7: the path planner runs on every branch with a lane of its own.   *)
(* Any of them may be the one that could be scheduled, planned and         *)
(* selected (RunAlccScheduler, RunEstPlanner, RunAlccSelector).            *)
PlannedBranches(j) == ProcessAlcRequest(PlannedState(j), PlannedCommand(j))

SelectedBranches(j) ==
    {IF PreparedTooLong(j, b) THEN Branch("STANDBY_ENABLE", "NONE") ELSE b :
       b \in PlannedBranches(j)}

PlcCommand(j, b) ==
    IF ~Resets(j) /\ PlannedCommand(j) = "NONE" THEN NoPlc
    ELSE IF b.alc = "STANDBY_ENABLE" THEN "NONE" ELSE PlannedCommand(j)

Results(j) ==
    {[alc |-> b.alc, dir |-> b.dir, cmd |-> PlcCommand(j, b), invalid |-> i] :
       b \in SelectedBranches(j), i \in BOOLEAN}

-----------------------------------------------------------------------------
(* A frame: the result of the job is taken.                                *)

ClearPrevEstPlannerState ==
    assist' = Keeping(FALSE)

(* UpdatePlannerState without a result: the published state is kept.       *)
FailWithoutResult ==
    /\ ClearPrevEstPlannerState
    /\ signal' = "NONE" /\ ok' = FALSE
    /\ open' = FALSE /\ held' = 0
    /\ UNCHANGED <<ext, cancelled>>

TakeResult ==
    /\ pc' = "plan"
    /\ latest' \in Results(job)
    /\ LET handled == HandleNewLaneChangeCommand(job)
       IN /\ open' = IF Resets(job) THEN FALSE
                     ELSE open \/ (job.alc \notin Begun /\ latest'.alc = "ONGOING")
          /\ cancelled' = IF Resets(job) \/ handled = "NONE"
                            THEN cancelled ELSE handled = "CANCEL"
    /\ UNCHANGED <<output, held>>

TakeOwnJob ==
    /\ pc = "retrieve" /\ mode # "handover"
    /\ counter >= AlccIters
    /\ job' = NoJob /\ counter' = -1 /\ mode' = "own"
    /\ \/ TakeResult
       \/ latest' = NoResult /\ pc' = "collect" /\ FailWithoutResult
    /\ UNCHANGED driver

(* FakeAlccOnlyMultiTaskResult: the job of the task before.                *)
TakeForeignJob ==
    /\ pc = "retrieve" /\ mode = "handover"
    /\ mode' = "secondary"
    /\ \/ /\ pc' = "plan"
          /\ latest' \in FakedResults
          /\ UNCHANGED <<output, history>>
       \/ latest' = NoResult /\ pc' = "collect" /\ FailWithoutResult
    /\ UNCHANGED <<counter, job, driver>>

(* Too early, or the job still runs.                                       *)
TakeNothing ==
    /\ pc = "retrieve" /\ pc' = "plan"
    /\ mode = "handover" \/ counter < MaxIters
    /\ UNCHANGED <<mode, counter, job, latest, driver, output, history>>

-----------------------------------------------------------------------------
(* A frame: the high-frequency part on the latest result.                  *)

UpdateAlcState(alc) ==
    CASE alc = "ONGOING"   -> {"ONGOING", "CROSSING"}
      [] alc = "CROSSING"  -> {"CROSSING", "COMPLETED"}
      [] alc = "RETURNING" -> {"RETURNING", "RETURN_COMPLETED"}
      [] OTHER             -> {alc}

RunAlccTurnSignalDecider(alc, cmd) ==
    IF alc \in Begun \union {"PREPARE"} THEN Toward(cmd) ELSE "NONE"

(* The end of FillDebugAndCharts: the command is dropped when the frame    *)
(* failed, and the time of the first PREPARE is kept.                      *)
PrepareTime(alc) ==
    IF latest.cmd = NoPlc THEN ext.prepare
    ELSE IF alc # "PREPARE" THEN NoTime
    ELSE IF ext.prepare = NoTime THEN 0 ELSE ext.prepare

UpdatePlc(alc, cmd) ==
    ext' = IF /\ latest.cmd # NoPlc
              /\ ~PrepareWhenBranchInvalid /\ alc = "PREPARE" /\ latest.invalid
           THEN [alc |-> "STANDBY_ENABLE", cmd |-> "NONE", prepare |-> NoTime]
           ELSE [alc |-> alc, cmd |-> cmd, prepare |-> PrepareTime(alc)]

PlanSucceeds ==
    /\ pc = "plan" /\ latest # NoResult
    /\ pc' = "collect"
    /\ \E alc \in UpdateAlcState(latest.alc), origin \in BOOLEAN :
         LET cmd == IF alc \in {"STANDBY_ENABLE", "COMPLETED"} THEN "NONE"
                    ELSE IF latest.cmd = NoPlc THEN ext.cmd ELSE latest.cmd
         IN /\ assist' = [alc |-> alc, dir |-> latest.dir, origin |-> origin]
            /\ signal' = RunAlccTurnSignalDecider(alc, cmd)
            /\ UpdatePlc(alc, cmd)
            /\ open' = (open /\ alc \notin {"COMPLETED", "RETURN_COMPLETED"})
            /\ held' = IF alc = "PREPARE" THEN held + 1 ELSE 0
    /\ ok' = TRUE
    /\ UNCHANGED <<mode, counter, job, latest, driver, cancelled>>

PlanFails ==
    /\ pc = "plan" /\ latest # NoResult
    /\ pc' = "collect"
    /\ ClearPrevEstPlannerState
    /\ ext' = IF latest.cmd = NoPlc THEN ext
              ELSE [alc |-> "STANDBY_ENABLE", cmd |-> "NONE", prepare |-> NoTime]
    /\ signal' = "NONE" /\ ok' = FALSE
    /\ open' = FALSE /\ held' = 0
    /\ UNCHANGED <<mode, counter, job, latest, driver, cancelled>>

(* No result: ACC stands in after a task switch, else the frame fails.     *)
PlanWithoutResult ==
    /\ pc = "plan" /\ latest = NoResult
    /\ pc' = "collect"
    /\ IF mode = "secondary"
         THEN ok' = FALSE /\ signal' = "NONE" /\ UNCHANGED <<assist, ext, history>>
         ELSE FailWithoutResult
    /\ UNCHANGED <<mode, counter, job, latest, driver>>

Next ==
    \/ DriverTakesOver \/ SkipFrame \/ EnterAlcc
    \/ Collect
    \/ TakeOwnJob \/ TakeForeignJob \/ TakeNothing
    \/ PlanSucceeds \/ PlanFails \/ PlanWithoutResult

Spec == Init /\ [][Next]_vars

-----------------------------------------------------------------------------
(* Properties.  Between frames, pc is "collect".                           *)

Directions == LeftRight \union {"NONE"}
JobType ==
    [alc : AlcStates, dir : Directions, origin : BOOLEAN, cmd : Commands,
     new : Commands, expired : BOOLEAN, lateral : BOOLEAN]
ResultType ==
    [alc : AlcStates \ {"COMPLETED", "RETURN_COMPLETED"}, dir : Directions,
     cmd : Commands \union {NoPlc}, invalid : BOOLEAN]

(* Type invariant: a job only ever decides for one of the states it can    *)
(* plan a path for, and the vehicle alone ends a lane change or a return.  *)
TypeOK ==
    /\ pc \in {"collect", "retrieve", "plan"}
    /\ mode \in {"own", "secondary", "handover"}
    /\ counter \in -1..MaxIters
    /\ job \in {NoJob} \union JobType
    /\ latest \in {NoResult} \union ResultType
    /\ assist \in [alc : AlcStates, dir : Directions, origin : BOOLEAN]
    /\ ext \in [alc : AlcStates, cmd : Commands, prepare : NoTime..MaxPrepare]
    /\ pendingLc \in Commands /\ lateral \in BOOLEAN
    /\ signal \in Directions /\ ok \in BOOLEAN
    /\ open \in BOOLEAN /\ cancelled \in BOOLEAN /\ held \in Nat

(* While the vehicle changes lanes, the direction it drives in, the        *)
(* command the driver sees and the turn signal agree, although the first   *)
(* comes from the job and the others from the frame                        *)
(* (RunAlccTurnSignalDecider signals right for anything but LEFT).         *)
SignalMatchesLaneChange ==
    pc = "collect" /\ ok /\ ext.alc \in Begun
        => assist.dir \in LeftRight /\ ext.cmd = assist.dir /\ signal = assist.dir

(* A lane change the job began is carried on or returned from until the    *)
(* vehicle is in a lane, unless a frame fails or the driver steers.        *)
LaneChangeIsFinished ==
    pc = "collect" /\ ok /\ open => ext.alc \in Begun \union {"RETURNING"}

(* A lane change keeps its direction, whatever the driver asks for while   *)
(* it is under way (HandleNewLaneChangeCommand rejects it).                *)
DirectionIsKept ==
    [][open /\ open' /\ assist.dir # "NONE" /\ assist'.dir # "NONE"
         => assist'.dir = assist.dir]_vars

(* A lane change is prepared for no longer than the time allowed and two   *)
(* low-frequency cycles: the time is looked at when a job is scheduled and *)
(* acted on when it is retrieved.                                          *)
PrepareIsBounded == held <= MaxPrepare + 2 * MaxIters

(* Once a cancellation was accepted the vehicle neither prepares nor       *)
(* changes lanes until another command is accepted, although the old       *)
(* command is still in the state the next jobs capture.                    *)
CancelledStaysCancelled ==
    pc = "collect" /\ ok /\ cancelled => ext.alc \notin Begun \union {"PREPARE"}

(* The driver's cancellation does not take the vehicle back once it is     *)
(* crossing the lane boundary.                                             *)
NoReturnAfterCrossing ==
    [][pc = "plan" /\ ext.alc = "CROSSING" /\ ext'.alc = "RETURNING"
         => ext'.cmd # "CANCEL"]_vars
=============================================================================

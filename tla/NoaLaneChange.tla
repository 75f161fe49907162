--------------------------- MODULE NoaLaneChange ---------------------------
(***************************************************************************)
(* A lane change of the NOA (cruise) task that the driver, a remote        *)
(* operator or the answer to the planner's own request asks for.           *)
(*                                                                         *)
(* While it is under way the planner keeps a preferred lane path, which    *)
(* forces the choice of the low-frequency job, together with the published *)
(* state and command (plc).  Three parties write it: the job, from a COPY  *)
(* taken when it was scheduled; the start of every frame, which clears it  *)
(* when the vehicle stands or the driver steers; and the end of every      *)
(* frame, which clears it when planning failed and then writes the state   *)
(* of the latest result over it, however old that is.  The job also        *)
(* decides whether a request to the driver waits; while one does, commands *)
(* are ignored.                                                            *)
(*                                                                         *)
(* A lane path is only told apart from the others of its behaviour: one of *)
(* them is watched.  The hand-over from and to ALCC is left out.           *)
(***************************************************************************)
EXTENDS Integers

CONSTANTS
    Iters,        \* FLAGS_planner_async_low_freq_cycle_iterations
    MaxFlag,      \* FLAGS_planner_max_cruise_async_iterations
    MaxPrepare,   \* planner_paddle_lane_change_max_prepare_time, in frames
    Wishes,       \* bound: the lanes the driver or the operator asks for
    Sides         \* bound: the sides the planner asks for

LeftRight == {"LEFT", "RIGHT"}

ASSUME ItersAssumption == Iters \in Nat \ {0} /\ MaxFlag \in Nat
ASSUME PrepareAssumption == MaxPrepare \in Nat \ {0}
ASSUME SidesAssumption ==
    Wishes \subseteq LeftRight \union {"STRAIGHT"} /\ Sides \subseteq LeftRight

VARIABLES
    pc,             \* where the main thread is in its frame
    plc,            \* preferred_lane_path, alc_state and lane_change_command
    prepare,        \* frames since plc_prepare_start_time
    known,          \* lane_change_state comes from the frame before
    request,        \* selector_state: the request that waits for an answer
    pendingLc,      \* pending_lane_change_command
    pendingAnswer,  \* pending_alc_confirmation
    counter,        \* AsyncPlannerState: frames since the job was scheduled
    job,            \* what the outstanding job will decide
    latest,         \* latest_multi_task_est_result
    watch,          \* history: what became of the watched path
    held,           \* history: frames in PREPARE without a failure or a reset
    still           \* history: frames since the vehicle stands, uncommanded

pending == <<pendingLc, pendingAnswer>>
slot    == <<counter, job, latest>>
history == <<watch, held, still>>
vars == <<pc, plc, prepare, known, request, pending, slot, history>>

-----------------------------------------------------------------------------
Paths     == {"watched", "other"}
Inputs    == Wishes \union {"CANCEL", "NONE"}
Commands  == LeftRight \union {"STRAIGHT", "CANCEL", "NONE"}
Answers   == {"YES", "NO", "NONE"}
AlcStates == {"OFF", "STANDBY_ENABLE", "PREPARE", "ONGOING", "CROSSING",
              "COMPLETED", "RETURNING", "RETURN_COMPLETED"}

MaxIters == IF MaxFlag >= Iters THEN MaxFlag ELSE Iters

NoTime   == -1
NoPath   == "none"
NoPlc    == [path |-> "no plc_result"]
NoResult == [request |-> "none"]
NoJob    == [request |-> "none"]

Plc(path, alc, cmd) == [path |-> path, alc |-> alc, cmd |-> cmd]
Cleared == Plc(NoPath, "STANDBY_ENABLE", "NONE")

Older(age) == IF age = NoTime \/ age = MaxPrepare THEN age ELSE age + 1

Init ==
    /\ pc = "frame"
    /\ plc = Cleared /\ prepare = NoTime /\ known = FALSE
    /\ request = "NONE" /\ pendingLc = "NONE" /\ pendingAnswer = "NONE"
    /\ counter = -1 /\ job = NoJob /\ latest = NoResult
    /\ watch = "unused" /\ held = 0 /\ still = 0

-----------------------------------------------------------------------------
(* What the low-frequency job (RunMultiTasksCruisePlanner) may decide from *)
(* what it captured, j, whenever it runs.  stage is how far the vehicle    *)
(* is in a lane change, signalled that the turn signal is given ahead of   *)
(* one.                                                                    *)

Stages(j) == IF j.known THEN {"none", "under_way", "crossed"} ELSE {"none"}

NewPaths == IF watch = "unused" THEN Paths ELSE {"other"}
Opposite(side) == IF side = "LEFT" THEN "RIGHT" ELSE "LEFT"
Return == {Plc(q, "RETURNING", Opposite(side)) : q \in NewPaths, side \in Sides}

(* The path is extended with the route until its end is nearly reached.    *)
UpdatePreferredLanePath(p) ==
    {p} \union
    IF p.path = NoPath THEN {}
    ELSE {Plc(NoPath, IF p.alc = "RETURNING" THEN "RETURN_COMPLETED"
                                             ELSE "COMPLETED", "NONE")}

ReturnOnSamePath(p, stage, signalled) ==
    CASE stage = "none" -> IF signalled THEN Return ELSE {Cleared}
      [] stage = "crossed" \/ p.alc = "CROSSING" -> {p}
      [] OTHER -> {p, [p EXCEPT !.alc = "RETURNING", !.cmd = Opposite(p.cmd)]}
HandleCancel(p, stage, signalled) ==
    CASE stage = "none" -> IF signalled THEN Return ELSE {Cleared}
      [] stage = "crossed" \/ p.alc = "CROSSING" -> {p}
      [] OTHER -> {p} \union Return

HandleNewTeleopCommand(c, p, stage, signalled) ==
    IF c = "CANCEL" THEN HandleCancel(p, stage, signalled)
    ELSE {p} \union
         IF c = "NONE" \/ p.path # NoPath \/ stage # "none" THEN {}
         ELSE {Plc(q, IF c = "STRAIGHT" THEN "OFF" ELSE "ONGOING", c) :
                 q \in NewPaths}

(* While a request waits only its answer counts, else only a command.      *)
HandleAlcUserResponse(j, p, stage) ==
    {p} \union
    IF /\ j.answer = "YES" /\ j.request # "NONE"
       /\ p.cmd = "NONE" /\ p.path = NoPath /\ stage = "none"
      THEN {Plc(q, "ONGOING", j.request) : q \in NewPaths} ELSE {}

CommandHeard(j) == IF j.request # "NONE" THEN "NONE" ELSE j.new

Updated(j) ==
    UNION {UNION {HandleAlcUserResponse(j, q, s) :
                    q \in HandleNewTeleopCommand(CommandHeard(j), p, s, b)} :
             p \in UpdatePreferredLanePath(j.plc), s \in Stages(j), b \in BOOLEAN}

AnyStatus(p) ==
    IF p.path = NoPath \/ p.alc = "RETURNING"
      THEN {"OK"} ELSE {"OK", "NOT_FOUND", "UNSAFE"}

(* PreFilterByPreferred.  A vehicle that crosses or returns has no other   *)
(* branch to fall back on: without the preferred one the job fails.        *)
Statuses(p) ==
    IF p.path = NoPath \/ p.alc \in {"CROSSING", "RETURNING"}
      THEN {"OK"} ELSE {"OK", "NOT_FOUND", "UNSAFE"}

UpdateAlcState(alc, cmd) ==
    CASE alc = "ONGOING"   -> {"ONGOING", "CROSSING"}
      [] alc = "CROSSING"  -> {"CROSSING", "COMPLETED"}
      [] alc = "RETURNING" -> {"RETURNING", "RETURN_COMPLETED"}
      [] alc = "COMPLETED" -> {"STANDBY_ENABLE"}
      [] alc = "RETURN_COMPLETED" ->
           {IF cmd \in LeftRight THEN "PREPARE" ELSE "STANDBY_ENABLE"}
      [] OTHER -> {alc}

NewStates(p, status) ==
    CASE status = "NOT_FOUND" -> {"STANDBY_ENABLE"}
      [] status = "UNSAFE"    -> {"PREPARE"}
      [] OTHER -> UpdateAlcState(IF p.alc = "PREPARE" THEN "ONGOING" ELSE p.alc,
                                 p.cmd)

NeverExpired(j, alc) == FALSE
PreparedTooLong(j, alc) == alc = "PREPARE" /\ j.expired
UpdatePlcRelevantState(j, p, alc) ==
    IF alc = "STANDBY_ENABLE" \/ PreparedTooLong(j, alc)
      THEN Cleared ELSE [p EXCEPT !.alc = alc]

(* Any answer ends the request; a new one is made when none waits and the  *)
(* choice was not forced.                                                  *)
Requests(j, p, status) ==
    LET left == IF j.answer # "NONE" THEN "NONE" ELSE j.request
    IN {left} \union
       IF left = "NONE" /\ ~(status = "OK" /\ p.path # NoPath) THEN Sides ELSE {}

Result(j, p, alc, asked) ==
    [plc |-> IF j.plc.path = NoPath /\ p.path = NoPath
               THEN NoPlc ELSE UpdatePlcRelevantState(j, p, alc),
     request |-> asked]

Results(j) ==
    UNION {UNION {{Result(j, p, alc, asked) : alc \in NewStates(p, status),
                                              asked \in Requests(j, p, status)} :
                    status \in Statuses(p)} : p \in Updated(j)}

-----------------------------------------------------------------------------
(* A frame: the state is reset and the commands collected.                 *)

(* A frame that ends before the state is looked at.  Its commands are lost.*)
SkipFrame ==
    /\ pc = "frame"
    /\ prepare' = Older(prepare)
    /\ UNCHANGED <<pc, plc, known, request, pending, slot, history>>

(* The driver selects ACC and then NOA again: everything but the published *)
(* state starts anew.                                                      *)
AccDetour ==
    /\ pc = "frame"
    /\ plc' = [Cleared EXCEPT !.alc = plc.alc]
    /\ prepare' = NoTime /\ known' = FALSE /\ request' = "NONE"
    /\ pendingLc' = "NONE" /\ pendingAnswer' = "NONE"
    /\ counter' = -1 /\ job' = NoJob /\ latest' = NoResult
    /\ held' = 0 /\ still' = 0
    /\ UNCHANGED <<pc, watch>>

(* How a frame starts: driving, from a reset plan start (a standing        *)
(* vehicle and other reasons) or with the driver steering, a reset too.    *)
Starts == {"drive", "reset", "manual"}

KeepPlc(how) == plc
ResetKeepingCommand(how) ==
    IF how = "drive" THEN plc ELSE [Cleared EXCEPT !.cmd = plc.cmd]
ResetPlc(how) == IF how = "drive" THEN plc ELSE Cleared

StartFrame(how) ==
    /\ pc = "frame"
    /\ plc' = ResetPlc(how)
    /\ prepare' = Older(prepare)
    /\ request' = IF how = "manual" THEN "NONE" ELSE request

(* The history of the watched path: it is out of sight once a reset or a   *)
(* frame without a plan interfered.                                        *)
Excused(how) == IF how # "drive" /\ watch = "live" THEN "excused" ELSE watch
Held(how)    == IF how = "drive" THEN held ELSE 0

(* The projection to the route or the traffic lights fail.                 *)
FrameEndsEarly(how) ==
    /\ StartFrame(how)
    /\ watch' = Excused(how) /\ held' = Held(how)
    /\ UNCHANGED <<pc, known, pending, slot, still>>

Collected(new, old) == IF new = "NONE" THEN old ELSE new
NextTick == (counter + 1) % (MaxIters + 1)

(* should_retrieve_result                                                  *)
AfterCount == IF NextTick >= Iters THEN "retrieve" ELSE "plan"

Quiet == 2 * MaxIters + 1
Standing(how, c, a) ==
    still' = IF how = "drive" \/ Collected(c, pendingLc) # "NONE"
                              \/ Collected(a, pendingAnswer) # "NONE"
               THEN 0 ELSE IF still = Quiet THEN still ELSE still + 1

CountFrame(how, c, a) ==
    /\ StartFrame(how) /\ NextTick # 0
    /\ pc' = AfterCount /\ counter' = NextTick
    /\ pendingLc' = Collected(c, pendingLc)
    /\ pendingAnswer' = Collected(a, pendingAnswer)
    /\ Standing(how, c, a) /\ watch' = Excused(how) /\ held' = Held(how)
    /\ UNCHANGED <<known, job, latest>>

ScheduleJob(how, c, a) ==
    /\ StartFrame(how) /\ NextTick = 0
    /\ pc' = AfterCount /\ counter' = NextTick
    /\ job' \in Results([plc |-> plc', known |-> known, request |-> request',
                         expired |-> prepare' = MaxPrepare,
                         new |-> Collected(c, pendingLc),
                         answer |-> Collected(a, pendingAnswer)])
    /\ watch' = IF watch = "unused" /\ job'.plc.path = "watched"
                  THEN "asked" ELSE Excused(how)
    /\ pendingLc' = "NONE" /\ pendingAnswer' = "NONE"
    /\ Standing(how, c, a) /\ held' = Held(how)
    /\ UNCHANGED <<known, latest>>

(* The job's input cannot be built on a new route.                         *)
ScheduleFails(how, c, a) ==
    /\ StartFrame(how) /\ NextTick = 0
    /\ pc' = "plan" /\ counter' = NextTick
    /\ job' = NoJob /\ latest' = NoResult
    /\ pendingLc' = Collected(c, pendingLc)
    /\ pendingAnswer' = Collected(a, pendingAnswer)
    /\ Standing(how, c, a) /\ watch' = Excused(how) /\ held' = Held(how)
    /\ UNCHANGED known

-----------------------------------------------------------------------------
(* A frame: the result of the job is taken, or not yet.                    *)

Taken == IF watch = "asked" THEN "live" ELSE watch
TakeResult ==
    /\ pc = "retrieve" /\ pc' = "plan"
    /\ job # NoJob
    /\ counter' = -1 /\ job' = NoJob
    /\ latest' = job
    /\ watch' = IF job.plc.path = "watched" THEN Taken ELSE watch
    /\ UNCHANGED <<plc, prepare, known, request, pending, held, still>>

JobFails ==
    /\ pc = "retrieve" /\ pc' = "plan"
    /\ job # NoJob
    /\ counter' = -1 /\ job' = NoJob /\ latest' = NoResult
    /\ UNCHANGED <<plc, prepare, known, request, pending, history>>

TakeNothing ==
    /\ pc = "retrieve" /\ pc' = "plan"
    /\ counter < MaxIters \/ job = NoJob
    /\ UNCHANGED <<plc, prepare, known, request, pending, slot, history>>

-----------------------------------------------------------------------------
(* A frame: the high-frequency part on the latest result.                  *)

HasPlc == latest # NoResult /\ latest.plc # NoPlc

AllBranchesFailed(est) == plc.path # NoPath /\ ~est

PrepareTime(alc, age) ==
    IF alc # "PREPARE" THEN NoTime ELSE IF age = NoTime THEN 0 ELSE age

HandlePlcResultInOtherOrder(est) ==
    /\ plc' = IF AllBranchesFailed(est) THEN Cleared
              ELSE IF HasPlc THEN latest.plc ELSE plc
    /\ prepare' = IF AllBranchesFailed(est) THEN NoTime
                  ELSE IF HasPlc THEN PrepareTime(latest.plc.alc, prepare)
                  ELSE prepare
HandlePlcResult(est) ==
    LET age == IF AllBranchesFailed(est) THEN NoTime ELSE prepare
    IN IF HasPlc
         THEN plc' = latest.plc /\ prepare' = PrepareTime(latest.plc.alc, age)
         ELSE /\ plc' = IF AllBranchesFailed(est) THEN Cleared ELSE plc
              /\ prepare' = age

EndFrame(est) ==
    /\ pc = "plan" /\ pc' = "frame"
    /\ HandlePlcResult(est)
    /\ watch' = IF watch = "live" /\ plc'.path # "watched" THEN "ended" ELSE watch
    /\ held' = IF est /\ plc'.path # NoPath /\ plc'.alc = "PREPARE"
                 THEN held + 1 ELSE 0
    /\ UNCHANGED <<pending, slot, still>>

(* The trajectory of the latest result; the selector's state comes with it.*)
PlanSucceeds ==
    /\ latest # NoResult
    /\ EndFrame(TRUE)
    /\ known' = TRUE /\ request' = latest.request

(* An emergency stop replaces a trajectory that was planned.               *)
PlanSucceedsButStops ==
    /\ latest # NoResult
    /\ EndFrame(TRUE)
    /\ known' = FALSE /\ UNCHANGED request

(* No result, or the speed planner fails: the previous trajectory or the   *)
(* emergency stop is driven.                                               *)
PlanFails ==
    /\ EndFrame(FALSE)
    /\ known' = FALSE /\ UNCHANGED request

(* There is no previous trajectory either: the frame ends before the lane  *)
(* change is looked at.                                                    *)
NoValidPlan ==
    /\ pc = "plan" /\ pc' = "frame"
    /\ known' = FALSE /\ held' = 0
    /\ watch' = IF watch = "live" THEN "excused" ELSE watch
    /\ UNCHANGED <<plc, prepare, request, pending, slot, still>>

Next ==
    \/ SkipFrame \/ AccDetour
    \/ \E how \in Starts \ {"drive"} : FrameEndsEarly(how)
    \/ \E how \in Starts, c \in Inputs, a \in Answers :
         /\ "NONE" \in {c, a}
         /\ CountFrame(how, c, a) \/ ScheduleJob(how, c, a) \/ ScheduleFails(how, c, a)
    \/ TakeResult \/ JobFails \/ TakeNothing
    \/ PlanSucceeds \/ PlanSucceedsButStops \/ PlanFails \/ NoValidPlan

Spec == Init /\ [][Next]_vars

-----------------------------------------------------------------------------
(* Properties.  Between frames, pc is "frame".                             *)

PlcType == [path : Paths \union {NoPath}, alc : AlcStates, cmd : Commands]
ResultType ==
    [plc : PlcType \union {NoPlc}, request : LeftRight \union {"NONE"}]

(* Type invariant of the lane change of NOA.                               *)
TypeOK ==
    /\ pc \in {"frame", "retrieve", "plan"}
    /\ plc \in PlcType /\ prepare \in NoTime..MaxPrepare
    /\ known \in BOOLEAN /\ request \in LeftRight \union {"NONE"}
    /\ pendingLc \in Commands /\ pendingAnswer \in Answers
    /\ counter \in -1..MaxIters
    /\ job \in {NoJob} \union ResultType /\ latest \in {NoResult} \union ResultType
    /\ watch \in {"unused", "asked", "live", "ended", "excused"}
    /\ held \in Nat /\ still \in Nat

(* The three parts of the state agree, although a frame may clear them     *)
(* while a job that will write them again is outstanding: a path is        *)
(* followed with a command and a state of a lane change, and no command is *)
(* shown without a path.                                                   *)
StateAgrees ==
    IF plc.path = NoPath THEN plc.cmd = "NONE"
    ELSE plc.cmd \notin {"NONE", "CANCEL"} /\ plc.alc # "STANDBY_ENABLE"

(* A lane change is prepared for no longer than the time allowed and two   *)
(* low-frequency cycles.                                                   *)
PrepareIsBounded == held <= MaxPrepare + 2 * MaxIters

(* A lane change that ended - completed, cancelled, timed out or given up  *)
(* - at the end of a frame is not taken up again by a job that captured it *)
(* or by an older result.                                                  *)
EndedStaysEnded == watch = "ended" /\ pc = "frame" => plc.path # "watched"

(* A vehicle that stands, or that the driver steers, for two low-frequency *)
(* cycles and a frame without a command has no lane change left, although  *)
(* results and jobs from before may write the path again.                  *)
StandstillClears ==
    pc = "frame" /\ still >= Quiet => plc.path = NoPath

(* A vehicle that crosses the lane boundary is not taken back by a job or  *)
(* a result that dates from before it crossed: the lane change completes   *)
(* or the path is given up.  A reset or a frame without a plan excuses it. *)
CrossingIsKept ==
    [][/\ watch = "live" /\ plc.path = "watched" /\ plc.alc = "CROSSING"
       /\ watch' = "live" /\ plc'.path = "watched"
       => plc'.alc \in {"CROSSING", "COMPLETED"}]_vars

(* A path is followed with the command it was chosen for: turning back     *)
(* takes another path, and no older result brings the other side back.     *)
SideIsKept ==
    [][plc.path = "watched" /\ plc'.path = "watched" => plc'.cmd = plc.cmd]_vars
=============================================================================

------------------------ MODULE NoaLaneChange_proof ------------------------
(***************************************************************************)
(* Theorems about NoaLaneChange, for all cycle lengths, preparation times  *)
(* and commands: the parts of the state agree, a lane change that ended is *)
(* not taken up again, one ends when the vehicle stands, preparing one     *)
(* takes a bounded time, a path keeps its side and a vehicle that crosses  *)
(* is not taken back.                                                      *)
(***************************************************************************)
EXTENDS NoaLaneChange, TLAPS

USE ItersAssumption, PrepareAssumption, SidesAssumption
USE DEF LeftRight, NoTime

Agrees(p) ==
    IF p.path = NoPath THEN p.cmd = "NONE"
    ELSE p.cmd \notin {"NONE", "CANCEL"} /\ p.alc # "STANDBY_ENABLE"

(* What holds of every path, state and command; avoid is TRUE when the     *)
(* watched path must not be chosen.                                        *)
Good(p, avoid) ==
    p \in PlcType /\ Agrees(p) /\ (avoid => p.path # "watched")

(* What a job may capture.                                                 *)
GoodInput(j, avoid) ==
    /\ Good(j.plc, avoid) /\ j.new \in Commands
    /\ j.request \in LeftRight \union {"NONE"}

GoodResult(r) ==
    /\ r \in ResultType
    /\ r.plc # NoPlc => Agrees(r.plc)

PathOf(r) == IF r = NoResult THEN NoPath ELSE r.plc.path

Avoided == watch # "unused"

-----------------------------------------------------------------------------
(* The operators of the job, one by one.                                   *)

LEMMA PlcIsGood ==
    ASSUME NEW avoid, NEW path \in Paths, NEW alc \in AlcStates,
           NEW cmd \in LeftRight \union {"STRAIGHT"},
           alc # "STANDBY_ENABLE", avoid => path # "watched"
    PROVE  Good(Plc(path, alc, cmd), avoid)
  BY DEF Good, Plc, PlcType, Agrees, Commands, Paths, NoPath

LEMMA ClearedIsGood ==
    ASSUME NEW avoid, NEW alc \in AlcStates
    PROVE  Good(Plc(NoPath, alc, "NONE"), avoid)
  BY DEF Good, Plc, PlcType, Agrees, Commands, NoPath

LEMMA NewPathsAreGood ==
    ASSUME NEW avoid, avoid => Avoided, NEW q \in NewPaths
    PROVE  q \in Paths /\ (avoid => q # "watched")
  BY DEF NewPaths, Paths, Avoided

LEMMA ReturnIsGood ==
    ASSUME NEW avoid, avoid => Avoided, NEW p \in Return
    PROVE  Good(p, avoid)
  <1>1. PICK q \in NewPaths, side \in Sides :
           p = Plc(q, "RETURNING", Opposite(side))
      BY DEF Return
  <1>2. Opposite(side) \in LeftRight
      BY DEF Opposite
  <1>3. q \in Paths /\ (avoid => q # "watched")
      BY NewPathsAreGood
  <1> QED  BY <1>1, <1>2, <1>3, PlcIsGood DEF AlcStates

LEMMA ExtendedIsGood ==
    ASSUME NEW avoid, NEW p, Good(p, avoid), NEW q \in UpdatePreferredLanePath(p)
    PROVE  Good(q, avoid)
  <1>1. q = p \/ q = Plc(NoPath, "RETURN_COMPLETED", "NONE")
              \/ q = Plc(NoPath, "COMPLETED", "NONE")
      BY DEF UpdatePreferredLanePath
  <1> QED  BY <1>1, ClearedIsGood DEF AlcStates

(* What a command makes of the path.                                       *)
LEMMA CommandChoices ==
    ASSUME NEW p, NEW stage, NEW signalled \in BOOLEAN, NEW c,
           NEW q \in HandleNewTeleopCommand(c, p, stage, signalled)
    PROVE  \/ q = p \/ q = Cleared \/ q \in Return
           \/ /\ c \notin {"NONE", "CANCEL"}
              /\ q \in {Plc(r, IF c = "STRAIGHT" THEN "OFF" ELSE "ONGOING", c) :
                          r \in NewPaths}
  <1>1. CASE c = "CANCEL"
    <2>1. q \in HandleCancel(p, stage, signalled)
        BY <1>1 DEF HandleNewTeleopCommand
    <2>2. \/ HandleCancel(p, stage, signalled) = Return
          \/ HandleCancel(p, stage, signalled) = {Cleared}
          \/ HandleCancel(p, stage, signalled) = {p}
          \/ HandleCancel(p, stage, signalled) = {p} \union Return
        BY DEF HandleCancel
    <2> QED  BY <2>1, <2>2
  <1>2. CASE c = "NONE"
      BY <1>2 DEF HandleNewTeleopCommand
  <1>3. CASE c \notin {"NONE", "CANCEL"}
      BY <1>3 DEF HandleNewTeleopCommand
  <1> QED  BY <1>1, <1>2, <1>3

LEMMA CommandedIsGood ==
    ASSUME NEW avoid, avoid => Avoided, NEW p, Good(p, avoid), NEW stage,
           NEW signalled \in BOOLEAN, NEW c \in Commands,
           NEW q \in HandleNewTeleopCommand(c, p, stage, signalled)
    PROVE  Good(q, avoid)
  <1>1. CASE q = p \/ q = Cleared
      BY <1>1, ClearedIsGood DEF Cleared, AlcStates
  <1>2. CASE q \in Return
      BY <1>2, ReturnIsGood
  <1>3. CASE /\ c \notin {"NONE", "CANCEL"}
             /\ q \in {Plc(r, IF c = "STRAIGHT" THEN "OFF" ELSE "ONGOING", c) :
                         r \in NewPaths}
    <2>1. PICK r \in NewPaths :
             q = Plc(r, IF c = "STRAIGHT" THEN "OFF" ELSE "ONGOING", c)
        BY <1>3
    <2>2. r \in Paths /\ (avoid => r # "watched")
        BY NewPathsAreGood
    <2>3. c \in LeftRight \union {"STRAIGHT"}
        BY <1>3 DEF Commands
    <2>4. Good(Plc(r, "OFF", c), avoid) /\ Good(Plc(r, "ONGOING", c), avoid)
        BY <2>2, <2>3, PlcIsGood DEF AlcStates
    <2> QED  BY <2>1, <2>4
  <1>4. \/ q = p \/ q = Cleared \/ q \in Return
        \/ /\ c \notin {"NONE", "CANCEL"}
           /\ q \in {Plc(r, IF c = "STRAIGHT" THEN "OFF" ELSE "ONGOING", c) :
                       r \in NewPaths}
      BY CommandChoices
  <1> QED  BY <1>1, <1>2, <1>3, <1>4

LEMMA AnsweredIsGood ==
    ASSUME NEW avoid, avoid => Avoided, NEW p, Good(p, avoid), NEW stage,
           NEW j, j.request \in LeftRight \union {"NONE"},
           NEW q \in HandleAlcUserResponse(j, p, stage)
    PROVE  Good(q, avoid)
  <1>1. CASE q = p
      BY <1>1
  <1>2. CASE q # p
    <2>1. /\ j.request # "NONE"
          /\ q \in {Plc(r, "ONGOING", j.request) : r \in NewPaths}
        BY <1>2 DEF HandleAlcUserResponse
    <2>2. PICK r \in NewPaths : q = Plc(r, "ONGOING", j.request)
        BY <2>1
    <2>3. r \in Paths /\ (avoid => r # "watched")
        BY NewPathsAreGood
    <2> QED  BY <2>1, <2>2, <2>3, PlcIsGood DEF AlcStates
  <1> QED  BY <1>1, <1>2

LEMMA UpdatedIsGood ==
    ASSUME NEW avoid, avoid => Avoided, NEW j, GoodInput(j, avoid),
           NEW q \in Updated(j)
    PROVE  Good(q, avoid)
  <1>1. PICK p \in UpdatePreferredLanePath(j.plc), s \in Stages(j), b \in BOOLEAN :
           q \in UNION {HandleAlcUserResponse(j, r, s) :
                          r \in HandleNewTeleopCommand(CommandHeard(j), p, s, b)}
      BY DEF Updated
  <1>2. PICK r \in HandleNewTeleopCommand(CommandHeard(j), p, s, b) :
           q \in HandleAlcUserResponse(j, r, s)
      BY <1>1
  <1>3. Good(p, avoid)
      BY ExtendedIsGood DEF GoodInput
  <1>4. CommandHeard(j) \in Commands
      BY DEF CommandHeard, GoodInput, Commands
  <1>5. Good(r, avoid)
      BY <1>3, <1>4, CommandedIsGood
  <1> QED  BY <1>2, <1>5, AnsweredIsGood DEF GoodInput

LEMMA StatesAreTyped ==
    ASSUME NEW avoid, NEW p, Good(p, avoid), NEW status \in Statuses(p),
           NEW alc \in NewStates(p, status)
    PROVE  alc \in AlcStates
  <1>1. p.alc \in AlcStates
      BY DEF Good, PlcType
  <1>2. \A a \in AlcStates : \A c : UpdateAlcState(a, c) \subseteq AlcStates
      BY DEF UpdateAlcState, AlcStates
  <1>3. (IF p.alc = "PREPARE" THEN "ONGOING" ELSE p.alc) \in AlcStates
      BY <1>1 DEF AlcStates
  <1>4. CASE status \in {"NOT_FOUND", "UNSAFE"}
      BY <1>4 DEF NewStates, AlcStates
  <1>5. CASE status \notin {"NOT_FOUND", "UNSAFE"}
      BY <1>2, <1>3, <1>5 DEF NewStates
  <1> QED  BY <1>4, <1>5

LEMMA RelevantIsGood ==
    ASSUME NEW avoid, NEW p, Good(p, avoid), NEW alc \in AlcStates, NEW j
    PROVE  Good(UpdatePlcRelevantState(j, p, alc), avoid)
  <1>1. CASE UpdatePlcRelevantState(j, p, alc) = Cleared
      BY <1>1, ClearedIsGood DEF Cleared, AlcStates
  <1>2. CASE /\ alc # "STANDBY_ENABLE"
             /\ UpdatePlcRelevantState(j, p, alc) = [p EXCEPT !.alc = alc]
      BY <1>2 DEF Good, PlcType, Agrees
  <1> QED  BY <1>1, <1>2 DEF UpdatePlcRelevantState

(* A job decides on parts that agree; it chooses the watched path only if  *)
(* it captured it or the path is new; and it follows a captured path.      *)
LEMMA ResultsAreGood ==
    ASSUME NEW avoid, avoid => Avoided, NEW j, GoodInput(j, avoid),
           NEW r \in Results(j)
    PROVE  /\ GoodResult(r)
           /\ avoid => r.plc.path # "watched"
           /\ r.plc = NoPlc => j.plc.path = NoPath
  <1>1. PICK p \in Updated(j) :
           r \in UNION {{Result(j, p, a, asked) : a \in NewStates(p, s),
                                                  asked \in Requests(j, p, s)} :
                          s \in Statuses(p)}
      BY DEF Results
  <1>2. PICK s \in Statuses(p) :
           r \in {Result(j, p, a, asked) : a \in NewStates(p, s),
                                           asked \in Requests(j, p, s)}
      BY <1>1
  <1>3. PICK a \in NewStates(p, s), asked \in Requests(j, p, s) :
           r = Result(j, p, a, asked)
      BY <1>2
  <1>4. Good(p, avoid)
      BY UpdatedIsGood
  <1>5. asked \in LeftRight \union {"NONE"}
      BY DEF Requests, GoodInput
  <1>6. Good(UpdatePlcRelevantState(j, p, a), avoid)
      BY <1>4, StatesAreTyped, RelevantIsGood
  <1>7. NoPlc.path \notin {"watched", NoPath, "other"}
      BY DEF NoPlc, NoPath
  <1>8. CASE j.plc.path = NoPath /\ p.path = NoPath
    <2>1. r = [plc |-> NoPlc, request |-> asked]
        BY <1>3, <1>8 DEF Result
    <2> QED  BY <1>5, <1>7, <1>8, <2>1 DEF GoodResult, ResultType
  <1>9. CASE ~(j.plc.path = NoPath /\ p.path = NoPath)
    <2>1. r = [plc |-> UpdatePlcRelevantState(j, p, a), request |-> asked]
        BY <1>3, <1>9 DEF Result
    <2>2. UpdatePlcRelevantState(j, p, a) # NoPlc
        BY <1>6, <1>7 DEF Good, PlcType, Paths
    <2> QED  BY <1>5, <1>6, <2>1, <2>2 DEF GoodResult, ResultType, Good
  <1> QED  BY <1>8, <1>9

-----------------------------------------------------------------------------
(* The invariant: what the jobs and their results carry agrees, and the    *)
(* watched path is where its history says.                                 *)

Nowhere ==
    plc.path # "watched" /\ PathOf(latest) # "watched" /\ PathOf(job) # "watched"

(* The latest result follows the path, and a job goes on with it.          *)
Following ==
    /\ PathOf(latest) = "watched"
    /\ pc # "plan" => plc.path = "watched"
    /\ job # NoJob => job.plc # NoPlc

(* The result or its loss ends the path at the end of this frame.          *)
Leaving ==
    /\ pc = "plan" /\ job = NoJob
    /\ PathOf(latest) # "watched" /\ (latest # NoResult => latest.plc # NoPlc)

Where ==
    /\ watch = "unused" => Nowhere
    /\ watch = "asked" => plc.path # "watched" /\ PathOf(latest) # "watched"
    /\ watch = "live" => Following \/ Leaving \/ Nowhere
    /\ watch = "ended" => Nowhere

Decided ==
    /\ job # NoJob => GoodResult(job)
    /\ latest # NoResult => GoodResult(latest)

(* The type invariant without the Boolean, which needs another prover.     *)
Types ==
    /\ pc \in {"frame", "retrieve", "plan"}
    /\ plc \in PlcType /\ prepare \in NoTime..MaxPrepare
    /\ request \in LeftRight \union {"NONE"}
    /\ pendingLc \in Commands /\ pendingAnswer \in Answers
    /\ counter \in -1..MaxIters
    /\ job \in {NoJob} \union ResultType /\ latest \in {NoResult} \union ResultType
    /\ watch \in {"unused", "asked", "live", "ended", "excused"}
    /\ held \in Nat /\ still \in Nat

IInv == Types /\ Agrees(plc) /\ Decided /\ Where

USE DEF NoJob, NoResult

LEMMA InitIInv == Init => IInv
  <1> SUFFICES ASSUME Init PROVE IInv
      OBVIOUS
  <1>1. Good(plc, TRUE)
      BY ClearedIsGood DEF Init, Cleared, AlcStates
  <1>2. MaxIters \in Nat
      BY DEF MaxIters
  <1>3. Types
      BY <1>1, <1>2 DEF Init, Types, Good, Commands, Answers
  <1> QED
      BY <1>1, <1>3 DEF Init, IInv, Decided, Where, Nowhere, PathOf, Good, NoPath

LEMMA NoResultIsTyped ==
    ASSUME NEW r \in ResultType
    PROVE  r # NoResult
  BY DEF ResultType

(* The start of a frame keeps or clears the published state.               *)
LEMMA StartKeepsGood ==
    ASSUME IInv, NEW how \in Starts, StartFrame(how)
    PROVE  /\ plc' \in PlcType /\ Agrees(plc')
           /\ plc' = plc \/ (plc'.path = NoPath /\ how # "drive")
           /\ prepare' \in NoTime..MaxPrepare
           /\ request' \in LeftRight \union {"NONE"}
           /\ pc = "frame"
  <1>1. Good(Cleared, FALSE) /\ Cleared.path = NoPath
      BY ClearedIsGood DEF Cleared, AlcStates, Plc
  <1>2. plc' = plc \/ (plc' = Cleared /\ how # "drive")
      BY DEF StartFrame, ResetPlc
  <1>3. prepare' \in NoTime..MaxPrepare
      BY DEF StartFrame, Older, IInv, Types
  <1> QED  BY <1>1, <1>2, <1>3 DEF StartFrame, IInv, Types, Good

LEMMA CollectedIsTyped ==
    ASSUME NEW c \in Inputs, NEW a \in Answers, IInv
    PROVE  /\ Collected(c, pendingLc) \in Commands
           /\ Collected(a, pendingAnswer) \in Answers
           /\ NextTick \in -1..MaxIters
           /\ \A how : Standing(how, c, a) => still' \in Nat
  <1>1. MaxIters \in Nat /\ Quiet \in Nat
      BY DEF MaxIters, Quiet
  <1>2. NextTick \in -1..MaxIters
      BY <1>1, SMT DEF NextTick, IInv, Types
  <1> QED
      BY <1>1, <1>2 DEF Collected, Inputs, Commands, Answers, IInv, Types,
         Standing

(* The watched path is where its history says when a frame starts.         *)
LEMMA StartKeepsWhere ==
    ASSUME IInv, NEW how \in Starts, StartFrame(how), watch' = Excused(how),
           UNCHANGED latest, UNCHANGED job
    PROVE  Where'
  <1>1. CASE watch = "live" /\ how # "drive"
      BY <1>1 DEF Excused, Where
  <1>2. CASE ~(watch = "live" /\ how # "drive")
    <2>1. watch' = watch /\ PathOf(latest)' = PathOf(latest)
          /\ PathOf(job)' = PathOf(job)
        BY <1>2 DEF Excused, PathOf
    <2>2. plc' = plc \/ plc'.path = NoPath
        BY StartKeepsGood
    <2>3. pc = "frame"
        BY StartKeepsGood
    <2>4. watch = "live" => plc' = plc
        BY <1>2, StartKeepsGood
    <2> QED
        BY <2>1, <2>2, <2>3, <2>4 DEF Where, Nowhere, Following, Leaving, IInv,
           NoPath
  <1> QED  BY <1>1, <1>2

-----------------------------------------------------------------------------
(* One lemma per group of steps.                                           *)

LEMMA FrameEndsEarlyKeepsIInv ==
    ASSUME IInv, NEW how \in Starts, FrameEndsEarly(how)
    PROVE  IInv'
  <1>1. StartFrame(how) /\ UNCHANGED <<latest, job>> /\ watch' = Excused(how)
      BY DEF FrameEndsEarly, slot
  <1>2. Where'
      BY <1>1, StartKeepsWhere
  <1>3. Types'
      BY <1>1, StartKeepsGood DEF FrameEndsEarly, Types, IInv, pending, slot,
         Excused, Held
  <1> QED  BY <1>1, <1>2, <1>3, StartKeepsGood DEF IInv, Decided

LEMMA CountFrameKeepsIInv ==
    ASSUME IInv, NEW how \in Starts, NEW c \in Inputs, NEW a \in Answers,
           CountFrame(how, c, a)
    PROVE  IInv'
  <1>1. StartFrame(how) /\ UNCHANGED <<latest, job>> /\ watch' = Excused(how)
      BY DEF CountFrame
  <1>2. Where'
      BY <1>1, StartKeepsWhere
  <1>3. Types'
      BY <1>1, StartKeepsGood, CollectedIsTyped DEF CountFrame, Types, IInv,
         AfterCount, Excused, Held
  <1> QED  BY <1>1, <1>2, <1>3, StartKeepsGood DEF IInv, Decided

LEMMA ScheduleFailsKeepsIInv ==
    ASSUME IInv, NEW how \in Starts, NEW c \in Inputs, NEW a \in Answers,
           ScheduleFails(how, c, a)
    PROVE  IInv'
  <1>1. /\ StartFrame(how) /\ watch' = Excused(how) /\ pc' = "plan"
        /\ latest' = NoResult /\ job' = NoJob
      BY DEF ScheduleFails
  <1>2. PathOf(latest)' = NoPath /\ PathOf(job)' = NoPath /\ NoPath # "watched"
      BY <1>1 DEF PathOf, NoPath
  <1>3. Where'
      BY <1>1, <1>2, StartKeepsGood DEF Excused, IInv, Where, Nowhere, Leaving,
         Types
  <1>4. Types'
      BY <1>1, StartKeepsGood, CollectedIsTyped DEF ScheduleFails, Types, IInv,
         Excused, Held
  <1> QED  BY <1>1, <1>3, <1>4, StartKeepsGood DEF IInv, Decided

LEMMA ScheduleJobKeepsIInv ==
    ASSUME IInv, NEW how \in Starts, NEW c \in Inputs, NEW a \in Answers,
           ScheduleJob(how, c, a)
    PROVE  IInv'
  <1> DEFINE j == [plc |-> plc', known |-> known, request |-> request',
                   expired |-> prepare' = MaxPrepare,
                   new |-> Collected(c, pendingLc),
                   answer |-> Collected(a, pendingAnswer)]
  <1> DEFINE avoid == Avoided /\ plc'.path # "watched"
  <1>1. /\ StartFrame(how) /\ pc' = AfterCount /\ UNCHANGED latest
        /\ job' \in Results(j)
        /\ watch' = IF watch = "unused" /\ job'.plc.path = "watched"
                      THEN "asked" ELSE Excused(how)
      BY DEF ScheduleJob
  <1>2. /\ j.plc = plc' /\ j.request = request'
        /\ j.new = Collected(c, pendingLc)
      OBVIOUS
  <1>3. GoodInput(j, avoid)
      BY <1>1, <1>2, StartKeepsGood, CollectedIsTyped DEF GoodInput, Good
  <1> HIDE DEF j
  <1>4. /\ GoodResult(job')
        /\ avoid => job'.plc.path # "watched"
        /\ job'.plc = NoPlc => plc'.path = NoPath
      BY <1>1, <1>2, <1>3, ResultsAreGood
  <1>5. job' # NoResult /\ PathOf(job)' = job'.plc.path
      BY <1>4, NoResultIsTyped DEF GoodResult, PathOf
  <1>6. Where'
    <2>1. PathOf(latest)' = PathOf(latest)
        BY <1>1 DEF PathOf
    <2>2. /\ plc' = plc \/ plc'.path = NoPath
          /\ how = "drive" => plc' = plc
          /\ pc = "frame"
        BY <1>1, StartKeepsGood
    <2>3. CASE watch = "unused"
        BY <1>1, <1>5, <2>1, <2>2, <2>3 DEF Excused, IInv, Where, Nowhere, NoPath
    <2>4. CASE watch \in {"asked", "ended"}
        BY <1>1, <1>4, <1>5, <2>1, <2>2, <2>4 DEF Excused, IInv, Where, Nowhere,
           NoPath, Avoided
    <2>5. CASE watch = "live" /\ how = "drive"
        BY <1>1, <1>4, <1>5, <2>1, <2>2, <2>5 DEF Excused, IInv, Where, Nowhere,
           Following, Leaving, NoPath, Avoided
    <2>6. CASE watch = "excused" \/ (watch = "live" /\ how # "drive")
        BY <1>1, <2>6 DEF Excused, Where
    <2> QED  BY <2>3, <2>4, <2>5, <2>6 DEF IInv, Types
  <1>7. Types'
      BY <1>1, <1>4, StartKeepsGood, CollectedIsTyped DEF ScheduleJob, Types,
         IInv, AfterCount, Excused, Held, Commands, Answers, GoodResult
  <1> QED  BY <1>1, <1>4, <1>6, <1>7, StartKeepsGood DEF IInv, Decided

LEMMA RetrieveKeepsIInv ==
    ASSUME IInv, TakeResult \/ JobFails \/ TakeNothing
    PROVE  IInv'
  <1>0. -1 \in -1..MaxIters
      BY DEF MaxIters
  <1>1. CASE TakeResult
    <2>1. /\ latest' = job /\ job' = NoJob /\ job # NoJob /\ UNCHANGED plc
          /\ pc' = "plan"
          /\ watch' = IF job.plc.path = "watched" THEN Taken ELSE watch
        BY <1>1 DEF TakeResult
    <2>2. /\ PathOf(latest)' = PathOf(job) /\ PathOf(job) = job.plc.path
          /\ PathOf(job)' = NoPath /\ NoPath # "watched"
        BY <2>1 DEF PathOf, NoPath
    <2>3. Where'
        BY <1>1, <2>1, <2>2 DEF TakeResult, Taken, IInv, Where, Nowhere,
           Following, Leaving
    <2>4. Types' /\ Decided'
        BY <1>0, <1>1, <2>1 DEF TakeResult, Taken, IInv, Types, Decided, pending,
           GoodResult
    <2> QED  BY <2>1, <2>3, <2>4 DEF IInv
  <1>2. CASE JobFails
    <2>1. /\ latest' = NoResult /\ job' = NoJob /\ pc' = "plan"
          /\ UNCHANGED <<plc, watch>>
        BY <1>2 DEF JobFails, history
    <2>2. PathOf(latest)' = NoPath /\ PathOf(job)' = NoPath /\ NoPath # "watched"
        BY <2>1 DEF PathOf, NoPath
    <2>3. Where'
        BY <2>1, <2>2 DEF IInv, Where, Nowhere, Leaving
    <2>4. Types' /\ Decided'
        BY <1>0, <1>2, <2>1 DEF JobFails, IInv, Types, Decided, pending, history
    <2> QED  BY <2>1, <2>3, <2>4 DEF IInv
  <1>3. CASE TakeNothing
    <2>1. /\ UNCHANGED <<plc, watch, latest, job>> /\ pc = "retrieve"
          /\ pc' = "plan"
        BY <1>3 DEF TakeNothing, history, slot
    <2>2. PathOf(latest)' = PathOf(latest) /\ PathOf(job)' = PathOf(job)
        BY <2>1 DEF PathOf
    <2>3. Where'
        BY <2>1, <2>2 DEF IInv, Where, Nowhere, Following, Leaving
    <2>4. Types' /\ Decided'
        BY <1>3, <2>1 DEF TakeNothing, IInv, Types, Decided, pending, history,
           slot
    <2> QED  BY <2>1, <2>3, <2>4 DEF IInv
  <1> QED  BY <1>1, <1>2, <1>3

LEMMA EndFrameKeepsIInv ==
    ASSUME IInv, NEW est \in BOOLEAN, EndFrame(est), est => latest # NoResult,
           request' \in LeftRight \union {"NONE"}
    PROVE  IInv'
  <1>1. /\ pc = "plan" /\ pc' = "frame" /\ HandlePlcResult(est)
        /\ UNCHANGED <<job, latest, pendingLc, pendingAnswer, counter, still>>
        /\ watch' = IF watch = "live" /\ plc'.path # "watched"
                      THEN "ended" ELSE watch
      BY DEF EndFrame, pending, slot
  <1>2. Good(Cleared, TRUE) /\ Cleared.path = NoPath /\ NoPath # "watched"
      BY ClearedIsGood DEF Cleared, AlcStates, Plc, NoPath
  <1>3. ASSUME HasPlc
        PROVE  /\ plc' \in PlcType /\ Agrees(plc')
               /\ plc'.path = PathOf(latest)
    <2>1. plc' = latest.plc /\ latest # NoResult /\ plc' # NoPlc
        BY <1>1, <1>3 DEF HandlePlcResult, HasPlc
    <2>2. plc' \in PlcType /\ Agrees(plc')
        BY <2>1 DEF IInv, Types, Decided, GoodResult, ResultType
    <2> QED  BY <2>1, <2>2 DEF PathOf
  <1>4. ASSUME ~HasPlc
        PROVE  /\ plc' \in PlcType /\ Agrees(plc')
               /\ plc' = plc \/ plc'.path = NoPath
               /\ latest = NoResult => plc'.path = NoPath
    <2>1. plc' = plc \/ plc' = Cleared
        BY <1>1, <1>4 DEF HandlePlcResult
    <2>2. latest = NoResult /\ plc.path # NoPath => plc' = Cleared
        BY <1>1, <1>4 DEF HandlePlcResult, AllBranchesFailed
    <2> QED  BY <1>2, <2>1, <2>2 DEF IInv, Types, Good
  <1>5. prepare' \in NoTime..MaxPrepare
      BY <1>1 DEF HandlePlcResult, PrepareTime, IInv, Types
  <1>6. plc' \in PlcType /\ Agrees(plc')
      BY <1>3, <1>4
  <1>7. Where'
    <2>1. /\ PathOf(latest)' = PathOf(latest) /\ PathOf(job)' = PathOf(job)
          /\ PathOf(NoJob) = NoPath
        BY <1>1 DEF PathOf
    <2>2. CASE HasPlc
        BY <1>1, <1>2, <1>3, <2>1, <2>2 DEF IInv, Where, Nowhere, Following,
           Leaving
    <2>3. CASE ~HasPlc
      <3>1. PathOf(latest) # "watched"
        <4>1. NoPlc.path # "watched"
            BY DEF NoPlc
        <4>2. latest = NoResult \/ latest.plc = NoPlc
            BY <2>3 DEF HasPlc
        <4> QED  BY <1>2, <4>1, <4>2 DEF PathOf
      <3>2. latest # NoResult => latest.plc = NoPlc
          BY <2>3 DEF HasPlc
      <3> QED
          BY <1>1, <1>2, <1>4, <2>1, <2>3, <3>1, <3>2 DEF IInv, Where, Nowhere,
             Following, Leaving
    <2> QED  BY <2>2, <2>3
  <1>8. Types' /\ Decided'
      BY <1>1, <1>5, <1>6 DEF EndFrame, IInv, Types, Decided
  <1> QED  BY <1>6, <1>7, <1>8 DEF IInv

LEMMA NoValidPlanKeepsIInv ==
    ASSUME IInv, NoValidPlan
    PROVE  IInv'
  <1>1. /\ pc = "plan" /\ pc' = "frame" /\ UNCHANGED <<plc, latest, job>>
        /\ watch' = IF watch = "live" THEN "excused" ELSE watch
      BY DEF NoValidPlan, slot
  <1>2. PathOf(latest)' = PathOf(latest) /\ PathOf(job)' = PathOf(job)
      BY <1>1 DEF PathOf
  <1>3. Where'
      BY <1>1, <1>2 DEF IInv, Where, Nowhere
  <1>4. Types' /\ Decided'
      BY <1>1 DEF NoValidPlan, IInv, Types, Decided, pending, slot
  <1> QED  BY <1>1, <1>3, <1>4 DEF IInv

LEMMA OtherFramesKeepIInv ==
    ASSUME IInv, SkipFrame \/ AccDetour
    PROVE  IInv'
  <1>1. -1 \in -1..MaxIters
      BY DEF MaxIters
  <1>2. CASE SkipFrame
    <2>1. UNCHANGED <<pc, plc, latest, job, watch>>
        BY <1>2 DEF SkipFrame, slot, history
    <2>2. PathOf(latest)' = PathOf(latest) /\ PathOf(job)' = PathOf(job)
        BY <2>1 DEF PathOf
    <2>3. Where'
        BY <2>1, <2>2 DEF IInv, Where, Nowhere, Following, Leaving
    <2>4. Types' /\ Decided'
        BY <1>2, <2>1 DEF SkipFrame, Older, IInv, Types, Decided, pending, slot,
           history
    <2> QED  BY <2>1, <2>3, <2>4 DEF IInv
  <1>3. CASE AccDetour
    <2>1. /\ plc' = [Cleared EXCEPT !.alc = plc.alc]
          /\ latest' = NoResult /\ job' = NoJob /\ UNCHANGED <<pc, watch>>
        BY <1>3 DEF AccDetour
    <2>2. plc' = Plc(NoPath, plc.alc, "NONE")
        BY <2>1 DEF Cleared, Plc
    <2>3. Good(plc', TRUE)
        BY <2>2, ClearedIsGood DEF IInv, Types, PlcType
    <2>4. PathOf(latest)' = NoPath /\ PathOf(job)' = NoPath /\ NoPath # "watched"
        BY <2>1 DEF PathOf, NoPath
    <2>5. Where'
        BY <2>1, <2>3, <2>4 DEF Where, Nowhere, Good
    <2>6. Types' /\ Decided'
        BY <1>1, <1>3, <2>1, <2>3 DEF AccDetour, IInv, Types, Decided, Good,
           Commands, Answers
    <2> QED  BY <2>3, <2>5, <2>6 DEF IInv, Good
  <1> QED  BY <1>2, <1>3

LEMMA NextKeepsIInv == IInv /\ [Next]_vars => IInv'
  <1> SUFFICES ASSUME IInv, [Next]_vars PROVE IInv'
      OBVIOUS
  <1>1. CASE SkipFrame \/ AccDetour
      BY <1>1, OtherFramesKeepIInv
  <1>2. CASE \E how \in Starts \ {"drive"} : FrameEndsEarly(how)
      BY <1>2, FrameEndsEarlyKeepsIInv
  <1>3. CASE \E how \in Starts, c \in Inputs, a \in Answers :
               CountFrame(how, c, a) \/ ScheduleJob(how, c, a)
                 \/ ScheduleFails(how, c, a)
      BY <1>3, CountFrameKeepsIInv, ScheduleJobKeepsIInv, ScheduleFailsKeepsIInv
  <1>4. CASE TakeResult \/ JobFails \/ TakeNothing
      BY <1>4, RetrieveKeepsIInv
  <1>5. CASE PlanSucceeds \/ PlanSucceedsButStops \/ PlanFails
    <2>1. /\ (EndFrame(TRUE) /\ latest # NoResult) \/ EndFrame(FALSE)
          /\ request' \in LeftRight \union {"NONE"}
        BY <1>5 DEF PlanSucceeds, PlanSucceedsButStops, PlanFails, IInv, Types,
           ResultType
    <2> QED  BY <2>1, EndFrameKeepsIInv
  <1>6. CASE NoValidPlan
      BY <1>6, NoValidPlanKeepsIInv
  <1>7. CASE UNCHANGED vars
    <2>1. UNCHANGED <<pc, plc, prepare, request, pendingLc, pendingAnswer,
                      counter, job, latest, watch, held, still>>
        BY <1>7 DEF vars, pending, slot, history
    <2>2. PathOf(latest)' = PathOf(latest) /\ PathOf(job)' = PathOf(job)
        BY <2>1 DEF PathOf
    <2> QED
        BY <2>1, <2>2 DEF IInv, Types, Decided, Where, Nowhere, Following, Leaving
  <1> QED  BY <1>1, <1>2, <1>3, <1>4, <1>5, <1>6, <1>7 DEF Next

-----------------------------------------------------------------------------
(* The invariant holds of every behaviour.                                 *)
THEOREM NoaInvariant == Spec => []IInv
  BY InitIInv, NextKeepsIInv, PTL DEF Spec

(* Whether the lane change state is known is always TRUE or FALSE.         *)
LEMMA KnownIsBoolean == Spec => [](known \in BOOLEAN)
  <1>1. Init => known \in BOOLEAN
      BY DEF Init
  <1>2. known \in BOOLEAN /\ [Next]_vars => (known \in BOOLEAN)'
    <2> SUFFICES ASSUME known \in BOOLEAN, [Next]_vars PROVE known' \in BOOLEAN
        OBVIOUS
    <2>1. known' = known \/ known' = TRUE \/ known' = FALSE
        BY DEF Next, vars, SkipFrame, AccDetour, FrameEndsEarly, CountFrame,
           ScheduleJob, ScheduleFails, TakeResult, JobFails, TakeNothing,
           PlanSucceeds, PlanSucceedsButStops, PlanFails, NoValidPlan
    <2> QED  BY <2>1
  <1> QED  BY <1>1, <1>2, PTL DEF Spec

(* Every variable keeps its type, whatever a job decides.                  *)
THEOREM NoaTypeCorrect == Spec => []TypeOK
  <1>1. IInv /\ known \in BOOLEAN => TypeOK
      BY DEF IInv, Types, TypeOK
  <1> QED  BY <1>1, NoaInvariant, KnownIsBoolean, PTL

(* A path is followed with the command and state of a lane change, and     *)
(* none is shown without a path, however old the result a frame applies.   *)
THEOREM PartsAgree == Spec => []StateAgrees
  <1>1. IInv => StateAgrees
      BY DEF IInv, Agrees, StateAgrees
  <1> QED  BY <1>1, NoaInvariant, PTL

(* A lane change that ended is not taken up again.                         *)
THEOREM EndedLaneChangesStayEnded == Spec => []EndedStaysEnded
  <1>1. IInv => EndedStaysEnded
      BY DEF IInv, Where, Nowhere, EndedStaysEnded
  <1> QED  BY <1>1, NoaInvariant, PTL

-----------------------------------------------------------------------------
(* The age of the job and of the latest result.                            *)

(* A job that is outstanding is younger than a cycle between the frames,   *)
(* and a frame that finds a result and no job starts a new cycle.          *)
Aged ==
    /\ job # NoJob => /\ counter \in 0..MaxIters
                      /\ pc # "retrieve" => counter < MaxIters
    /\ job = NoJob /\ latest # NoResult => counter = -1

(* UpdateAsyncCounter wraps around after the last frame of a cycle.        *)
LEMMA NextTickIs ==
    ASSUME IInv
    PROVE  /\ MaxIters \in Nat \ {0} /\ counter \in -1..MaxIters
           /\ NextTick = IF counter = MaxIters THEN 0 ELSE counter + 1
  <1>1. MaxIters \in Nat \ {0} /\ counter \in -1..MaxIters
      BY DEF MaxIters, IInv, Types
  <1>2. CASE counter = MaxIters
      BY <1>1, <1>2 DEF NextTick
  <1>3. CASE counter # MaxIters
      BY <1>1, <1>3 DEF NextTick
  <1> QED  BY <1>1, <1>2, <1>3

(* The steps of Next that leave the job and the latest result alone between *)
(* the frames or at the end of one.                                        *)
Resting ==
    \/ SkipFrame \/ NoValidPlan \/ UNCHANGED vars
    \/ \E how \in Starts \ {"drive"} : FrameEndsEarly(how)
    \/ \E est \in BOOLEAN : EndFrame(est) /\ (est => latest # NoResult)

LEMMA Steps ==
    ASSUME [Next]_vars
    PROVE  \/ Resting \/ AccDetour \/ TakeResult \/ JobFails \/ TakeNothing
           \/ \E how \in Starts, c \in Inputs, a \in Answers :
                CountFrame(how, c, a) \/ ScheduleJob(how, c, a)
                  \/ ScheduleFails(how, c, a)
  BY DEF Next, Resting, PlanSucceeds, PlanSucceedsButStops, PlanFails

LEMMA RestingKeepsSlot ==
    ASSUME Resting
    PROVE  /\ UNCHANGED <<counter, job, latest>>
           /\ pc' = pc \/ (pc = "plan" /\ pc' = "frame")
  BY DEF Resting, SkipFrame, NoValidPlan, FrameEndsEarly, EndFrame, slot, vars

LEMMA JobIsDecided ==
    ASSUME IInv, NEW how \in Starts, NEW c \in Inputs, NEW a \in Answers,
           ScheduleJob(how, c, a)
    PROVE  job' # NoJob
  <1> DEFINE j == [plc |-> plc', known |-> known, request |-> request',
                   expired |-> prepare' = MaxPrepare,
                   new |-> Collected(c, pendingLc),
                   answer |-> Collected(a, pendingAnswer)]
  <1>1. StartFrame(how) /\ job' \in Results(j)
      BY DEF ScheduleJob
  <1>2. /\ j.plc = plc' /\ j.request = request'
        /\ j.new = Collected(c, pendingLc)
      OBVIOUS
  <1>3. GoodInput(j, FALSE)
      BY <1>1, <1>2, StartKeepsGood, CollectedIsTyped DEF GoodInput, Good
  <1> HIDE DEF j
  <1>4. GoodResult(job')
      BY <1>1, <1>3, ResultsAreGood
  <1> QED  BY <1>4, NoResultIsTyped DEF GoodResult

LEMMA AgedNext == IInv /\ Aged /\ [Next]_vars => Aged'
  <1> SUFFICES ASSUME IInv, Aged, [Next]_vars PROVE Aged'
      OBVIOUS
  <1>1. /\ MaxIters \in Nat \ {0} /\ counter \in -1..MaxIters
        /\ NextTick = IF counter = MaxIters THEN 0 ELSE counter + 1
      BY NextTickIs
  <1>2. CASE Resting
      BY <1>2, RestingKeepsSlot DEF Aged
  <1>3. CASE AccDetour
      BY <1>3 DEF AccDetour, Aged
  <1>4. CASE TakeResult \/ JobFails
      BY <1>4 DEF TakeResult, JobFails, Aged
  <1>5. CASE TakeNothing
      BY <1>1, <1>5 DEF TakeNothing, Aged, slot
  <1>6. ASSUME NEW how \in Starts, NEW c \in Inputs, NEW a \in Answers,
               CountFrame(how, c, a)
        PROVE  Aged'
    <2>1. /\ pc = "frame" /\ pc' = AfterCount /\ counter' = NextTick
          /\ NextTick # 0 /\ UNCHANGED <<job, latest>>
        BY <1>6 DEF CountFrame, StartFrame
    <2>2. pc' # "retrieve" => counter' < Iters
        BY <1>1, <2>1 DEF AfterCount
    <2>3. Iters <= MaxIters
        BY DEF MaxIters
    <2> QED  BY <1>1, <2>1, <2>2, <2>3 DEF Aged
  <1>7. ASSUME NEW how \in Starts, NEW c \in Inputs, NEW a \in Answers,
               ScheduleJob(how, c, a)
        PROVE  Aged'
    <2>1. counter' = 0 /\ job' # NoJob
        BY <1>7, JobIsDecided DEF ScheduleJob
    <2> QED  BY <1>1, <2>1 DEF Aged
  <1>8. ASSUME NEW how \in Starts, NEW c \in Inputs, NEW a \in Answers,
               ScheduleFails(how, c, a)
        PROVE  Aged'
      BY <1>8 DEF ScheduleFails, Aged
  <1> QED  BY <1>2, <1>3, <1>4, <1>5, <1>6, <1>7, <1>8, Steps

(* A new job meets no outstanding one: there is none, or what there was    *)
(* has been given up with its result.                                      *)
LEMMA NewCycle ==
    ASSUME IInv, Aged, pc = "frame", NextTick = 0
    PROVE  job = NoJob
  BY NextTickIs DEF Aged

-----------------------------------------------------------------------------
(* A vehicle that stands.                                                  *)

Carries(r) == PathOf(r) \in Paths

(* A job that carries a path was captured before the vehicle stood, and a  *)
(* result that carries one comes from such a job: both get old.            *)
Flushed ==
    /\ Carries(job) => still <= counter
    /\ Carries(latest) => IF job = NoJob THEN still <= MaxIters
                                         ELSE still <= MaxIters + 1 + counter
    /\ still > 0 /\ plc.path # NoPath => pc = "frame" /\ Carries(latest)

LEMMA NothingCarriesNothing == ~Carries(NoJob)
  BY DEF Carries, PathOf, Paths, NoPath

(* Without a path, a command and an answer, a job decides on no path.      *)
LEMMA QuietJobs ==
    ASSUME NEW j, j.plc = Cleared, j.new = "NONE", j.answer = "NONE",
           NEW r \in Results(j)
    PROVE  r.plc = NoPlc
  <1>1. PICK p \in Updated(j) :
           r \in UNION {{Result(j, p, a, asked) : a \in NewStates(p, s),
                                                  asked \in Requests(j, p, s)} :
                          s \in Statuses(p)}
      BY DEF Results
  <1>2. PICK s \in Statuses(p) :
           r \in {Result(j, p, a, asked) : a \in NewStates(p, s),
                                           asked \in Requests(j, p, s)}
      BY <1>1
  <1>3. PICK a \in NewStates(p, s), asked \in Requests(j, p, s) :
           r = Result(j, p, a, asked)
      BY <1>2
  <1>4. Cleared.path = NoPath
      BY DEF Cleared, Plc
  <1>5. p = Cleared
    <2>1. PICK q \in UpdatePreferredLanePath(j.plc), t \in Stages(j), b \in BOOLEAN :
             p \in UNION {HandleAlcUserResponse(j, u, t) :
                            u \in HandleNewTeleopCommand(CommandHeard(j), q, t, b)}
        BY DEF Updated
    <2>2. PICK u \in HandleNewTeleopCommand(CommandHeard(j), q, t, b) :
             p \in HandleAlcUserResponse(j, u, t)
        BY <2>1
    <2>3. q = Cleared
        BY <1>4 DEF UpdatePreferredLanePath
    <2>4. CommandHeard(j) = "NONE"
        BY DEF CommandHeard
    <2>5. u = q
        BY <2>4 DEF HandleNewTeleopCommand
    <2>6. p = u
        BY <2>2 DEF HandleAlcUserResponse
    <2> QED  BY <2>3, <2>5, <2>6
  <1> QED  BY <1>3, <1>4, <1>5 DEF Result

(* Frames standing are counted one by one.                                 *)
LEMMA StandingStep ==
    ASSUME IInv, NEW how \in Starts, NEW c \in Inputs, NEW a \in Answers,
           Standing(how, c, a), StartFrame(how)
    PROVE  /\ still' \in Nat /\ still' <= still + 1
           /\ still' > 0 => /\ plc' = Cleared /\ plc'.path = NoPath
                            /\ Collected(c, pendingLc) = "NONE"
                            /\ Collected(a, pendingAnswer) = "NONE"
  <1>1. still \in Nat
      BY DEF IInv, Types
  <1>2. Cleared.path = NoPath
      BY DEF Cleared, Plc
  <1> QED  BY <1>1, <1>2 DEF Standing, StartFrame, ResetPlc

(* A job scheduled while the vehicle stands carries no path.               *)
LEMMA FlushedScheduled ==
    ASSUME IInv, Aged, Flushed, NEW how \in Starts, NEW c \in Inputs,
           NEW a \in Answers, ScheduleJob(how, c, a)
    PROVE  Flushed'
  <1> DEFINE j == [plc |-> plc', known |-> known, request |-> request',
                   expired |-> prepare' = MaxPrepare,
                   new |-> Collected(c, pendingLc),
                   answer |-> Collected(a, pendingAnswer)]
  <1>1. /\ StartFrame(how) /\ Standing(how, c, a) /\ job' \in Results(j)
        /\ counter' = 0 /\ NextTick = 0 /\ UNCHANGED latest
      BY DEF ScheduleJob
  <1>2. /\ j.plc = plc' /\ j.new = Collected(c, pendingLc)
        /\ j.answer = Collected(a, pendingAnswer)
      OBVIOUS
  <1> HIDE DEF j
  <1>3. /\ still' \in Nat /\ still' <= still + 1 /\ still \in Nat
        /\ still' > 0 => plc' = Cleared /\ plc'.path = NoPath
      BY <1>1, StandingStep DEF IInv, Types
  <1>4. still' > 0 => job'.plc = NoPlc
      BY <1>1, <1>2, StandingStep, QuietJobs
  <1>5. NoPlc.path \notin Paths /\ NoPath \notin Paths
      BY DEF NoPlc, Paths, NoPath
  <1>6. Carries(job)' => still' <= counter'
      BY <1>1, <1>3, <1>4, <1>5 DEF Carries, PathOf
  <1>7. job = NoJob /\ job' # NoJob /\ Carries(latest)' = Carries(latest)
    <2>1. pc = "frame"
        BY <1>1 DEF StartFrame
    <2> QED  BY <1>1, <2>1, NewCycle, JobIsDecided DEF Carries, PathOf
  <1>8. Carries(latest)' => still' <= MaxIters + 1 + counter'
      BY <1>1, <1>3, <1>7, NextTickIs DEF Flushed
  <1> QED  BY <1>3, <1>6, <1>7, <1>8 DEF Flushed

(* A frame that schedules nothing makes the job one frame older.           *)
LEMMA FlushedCounted ==
    ASSUME IInv, Aged, Flushed, NEW how \in Starts, NEW c \in Inputs,
           NEW a \in Answers, CountFrame(how, c, a) \/ ScheduleFails(how, c, a)
    PROVE  Flushed'
  <1>1. StartFrame(how) /\ Standing(how, c, a)
      BY DEF CountFrame, ScheduleFails
  <1>2. /\ still' \in Nat /\ still' <= still + 1 /\ still \in Nat
        /\ still' > 0 => plc'.path = NoPath
      BY <1>1, StandingStep DEF IInv, Types
  <1>3. CASE CountFrame(how, c, a)
    <2>1. /\ UNCHANGED <<job, latest>> /\ counter' = NextTick /\ NextTick # 0
        BY <1>3 DEF CountFrame
    <2>2. Carries(job)' = Carries(job) /\ Carries(latest)' = Carries(latest)
        BY <2>1 DEF Carries, PathOf
    <2>3. counter' = counter + 1 /\ counter \in -1..MaxIters /\ MaxIters \in Nat
        BY <2>1, NextTickIs
    <2>4. Carries(latest) => job # NoJob
      <3>1. job = NoJob => latest = NoResult
          BY <2>1, <2>3 DEF Aged
      <3> QED  BY <3>1, NothingCarriesNothing
    <2> QED  BY <1>2, <2>1, <2>2, <2>3, <2>4 DEF Flushed
  <1>4. CASE ScheduleFails(how, c, a)
    <2>1. job' = NoJob /\ latest' = NoResult
        BY <1>4 DEF ScheduleFails
    <2>2. ~Carries(job)' /\ ~Carries(latest)'
        BY <2>1, NothingCarriesNothing DEF Carries, PathOf
    <2> QED  BY <1>2, <2>2 DEF Flushed
  <1> QED  BY <1>3, <1>4

(* A frame applies the result, or clears what it has.                      *)
LEMMA FlushedEnded ==
    ASSUME IInv, Flushed, NEW est \in BOOLEAN, EndFrame(est)
    PROVE  Flushed'
  <1>1. /\ pc = "plan" /\ pc' = "frame" /\ HandlePlcResult(est)
        /\ UNCHANGED <<counter, job, latest, still>>
      BY DEF EndFrame, slot
  <1>2. Carries(job)' = Carries(job) /\ Carries(latest)' = Carries(latest)
      BY <1>1 DEF Carries, PathOf
  <1>3. ASSUME still > 0, plc'.path # NoPath PROVE Carries(latest)
    <2>1. plc.path = NoPath
        BY <1>1, <1>3 DEF Flushed
    <2>2. HasPlc
        BY <1>1, <1>3, <2>1 DEF HandlePlcResult, AllBranchesFailed
    <2>3. plc' = latest.plc /\ latest # NoResult /\ latest.plc # NoPlc
        BY <1>1, <2>2 DEF HandlePlcResult, HasPlc
    <2>4. latest.plc \in PlcType
        BY <2>3 DEF IInv, Types, ResultType
    <2> QED  BY <1>3, <2>3, <2>4 DEF Carries, PathOf, PlcType
  <1> QED  BY <1>1, <1>2, <1>3 DEF Flushed

LEMMA FlushedNext == IInv /\ Aged /\ Flushed /\ [Next]_vars => Flushed'
  <1> SUFFICES ASSUME IInv, Aged, Flushed, [Next]_vars PROVE Flushed'
      OBVIOUS
  <1>1. ASSUME NEW est \in BOOLEAN, EndFrame(est) PROVE Flushed'
      BY <1>1, FlushedEnded
  <1>2. CASE SkipFrame \/ NoValidPlan \/ UNCHANGED vars
    <2>1. /\ UNCHANGED <<plc, counter, job, latest, still>>
          /\ pc' = pc \/ pc' = "frame"
        BY <1>2 DEF SkipFrame, NoValidPlan, vars, slot, history
    <2>2. Carries(job)' = Carries(job) /\ Carries(latest)' = Carries(latest)
        BY <2>1 DEF Carries, PathOf
    <2> QED  BY <2>1, <2>2 DEF Flushed
  <1>3. ASSUME NEW how \in Starts, FrameEndsEarly(how) PROVE Flushed'
    <2>1. /\ UNCHANGED <<pc, counter, job, latest, still>>
          /\ plc' = plc \/ plc'.path = NoPath
        BY <1>3, StartKeepsGood DEF FrameEndsEarly, slot
    <2>2. Carries(job)' = Carries(job) /\ Carries(latest)' = Carries(latest)
        BY <2>1 DEF Carries, PathOf
    <2> QED  BY <2>1, <2>2 DEF Flushed
  <1>4. CASE AccDetour \/ JobFails
    <2>1. /\ latest' = NoResult /\ job' = NoJob
          /\ still' = 0 \/ (UNCHANGED <<still, plc>> /\ pc = "retrieve")
        BY <1>4 DEF AccDetour, JobFails, history
    <2>2. ~Carries(job)' /\ ~Carries(latest)'
        BY <2>1, NothingCarriesNothing DEF Carries, PathOf
    <2>3. still' > 0 => plc'.path = NoPath
        BY <2>1 DEF Flushed
    <2> QED  BY <2>2, <2>3 DEF Flushed
  <1>5. CASE TakeResult
    <2>1. /\ latest' = job /\ job # NoJob /\ job' = NoJob /\ pc = "retrieve"
          /\ UNCHANGED <<still, plc>>
        BY <1>5 DEF TakeResult
    <2>2. ~Carries(job)' /\ Carries(latest)' = Carries(job)
        BY <2>1, NothingCarriesNothing DEF Carries, PathOf
    <2>3. Carries(job) => still <= MaxIters
        BY NextTickIs DEF Flushed, IInv, Types
    <2> QED  BY <2>1, <2>2, <2>3 DEF Flushed
  <1>6. CASE TakeNothing
    <2>1. UNCHANGED <<plc, counter, job, latest, still>> /\ pc = "retrieve"
        BY <1>6 DEF TakeNothing, slot, history
    <2>2. Carries(job)' = Carries(job) /\ Carries(latest)' = Carries(latest)
        BY <2>1 DEF Carries, PathOf
    <2> QED  BY <2>1, <2>2 DEF Flushed
  <1> QED
      BY <1>1, <1>2, <1>3, <1>4, <1>5, <1>6, FlushedScheduled, FlushedCounted,
         Steps DEF Resting

(* A vehicle that stands or is driven by hand long enough has no lane      *)
(* change left, for all cycle lengths: results and jobs from before write  *)
(* the path again for two cycles and no longer.                            *)
THEOREM StandstillEndsLaneChange == Spec => []StandstillClears
  <1>1. Init => IInv /\ Aged /\ Flushed
    <2>1. ASSUME Init PROVE Aged /\ Flushed
        BY <2>1, NothingCarriesNothing DEF Init, Aged, Flushed
    <2> QED  BY <2>1, InitIInv
  <1>2. IInv /\ Aged /\ Flushed /\ [Next]_vars => IInv' /\ Aged' /\ Flushed'
      BY NextKeepsIInv, AgedNext, FlushedNext
  <1>3. IInv /\ Aged /\ Flushed => StandstillClears
    <2> SUFFICES ASSUME IInv, Aged, Flushed, pc = "frame", still >= Quiet,
                        plc.path # NoPath
                 PROVE  FALSE
        BY DEF StandstillClears
    <2>1. MaxIters \in Nat \ {0} /\ still \in Nat /\ still >= 2 * MaxIters + 1
        BY NextTickIs DEF Quiet, IInv, Types
    <2>2. Carries(latest)
        BY <2>1 DEF Flushed
    <2>3. job # NoJob
        BY <2>1, <2>2 DEF Flushed
    <2>4. still <= MaxIters + 1 + counter /\ counter \in 0..MaxIters - 1
        BY <2>1, <2>2, <2>3 DEF Flushed, Aged
    <2> QED  BY <2>1, <2>4
  <1> QED  BY <1>1, <1>2, <1>3, PTL DEF Spec

-----------------------------------------------------------------------------
(* A lane change that is prepared.                                         *)

(* A result that ends the preparation when it is applied.                  *)
Stops(r) == r # NoResult /\ r.plc # NoPlc /\ r.plc.alc # "PREPARE"

(* What the outstanding job adds to the time allowed.                      *)
Allowed(r) == MaxPrepare + IF Stops(r) THEN MaxIters + 1 ELSE 0

(* Inside a frame: held as the frame may leave it, the age as it found it. *)
Ends == IF pc = "frame" THEN held ELSE held + 1
Ages == IF pc = "frame" THEN prepare + 1 ELSE prepare

(* While a lane change is prepared its age is kept and grows.              *)
Prepared ==
    /\ plc.path # NoPath /\ plc.alc = "PREPARE" => prepare # NoTime
    /\ held > 0 => /\ plc.path # NoPath /\ plc.alc = "PREPARE"
                   /\ Ages >= held \/ prepare = MaxPrepare
    /\ pc = "frame" /\ latest = NoResult => held = 0

(* A job that does not stop the preparation was scheduled before the time  *)
(* allowed was over; one that does is the next one.                        *)
Expiring ==
    /\ job # NoJob => Ends <= counter + Allowed(job)
    /\ job = NoJob => \/ Ends <= MaxPrepare + MaxIters
                      \/ latest = NoResult
                      \/ pc # "frame" /\ Stops(latest)
    /\ PrepareIsBounded

PrepareInv == Prepared /\ Expiring

(* The job that finds the time over ends the preparation it captured.      *)
LEMMA ExpiredJobs ==
    ASSUME NEW avoid, avoid => Avoided, NEW j, GoodInput(j, avoid),
           j.plc.path # NoPath, j.expired, NEW r \in Results(j)
    PROVE  Stops(r)
  <1>1. PICK p \in Updated(j) :
           r \in UNION {{Result(j, p, a, asked) : a \in NewStates(p, s),
                                                  asked \in Requests(j, p, s)} :
                          s \in Statuses(p)}
      BY DEF Results
  <1>2. PICK s \in Statuses(p) :
           r \in {Result(j, p, a, asked) : a \in NewStates(p, s),
                                           asked \in Requests(j, p, s)}
      BY <1>1
  <1>3. PICK a \in NewStates(p, s), asked \in Requests(j, p, s) :
           r = Result(j, p, a, asked)
      BY <1>2
  <1>4. Good(p, avoid)
      BY UpdatedIsGood
  <1>5. r = [plc |-> UpdatePlcRelevantState(j, p, a), request |-> asked]
      BY <1>3 DEF Result
  <1>6. UpdatePlcRelevantState(j, p, a).alc # "PREPARE"
      BY <1>4 DEF UpdatePlcRelevantState, PreparedTooLong, Cleared, Plc, Good,
         PlcType
  <1>7. Good(UpdatePlcRelevantState(j, p, a), avoid)
      BY <1>4, StatesAreTyped, RelevantIsGood
  <1>8. UpdatePlcRelevantState(j, p, a) # NoPlc
    <2>1. UpdatePlcRelevantState(j, p, a).path \in Paths \union {NoPath}
        BY <1>7 DEF Good, PlcType
    <2>2. NoPlc.path \notin Paths \union {NoPath}
        BY DEF NoPlc, Paths, NoPath
    <2> QED  BY <2>1, <2>2
  <1>9. r # NoResult
      BY ResultsAreGood, NoResultIsTyped DEF GoodResult
  <1> QED  BY <1>5, <1>6, <1>8, <1>9 DEF Stops

LEMMA AllowedIsBounded ==
    ASSUME NEW r
    PROVE  /\ Allowed(r) \in MaxPrepare..(MaxPrepare + MaxIters + 1)
           /\ ~Stops(r) => Allowed(r) = MaxPrepare
           /\ Stops(r) => Allowed(r) = MaxPrepare + MaxIters + 1
  <1>1. MaxIters \in Nat \ {0} /\ MaxPrepare \in Nat \ {0}
      BY ItersAssumption, PrepareAssumption DEF MaxIters
  <1>2. CASE Stops(r)
      BY <1>1, <1>2 DEF Allowed
  <1>3. CASE ~Stops(r)
      BY <1>1, <1>3 DEF Allowed
  <1> QED  BY <1>2, <1>3

(* A job that is only waited for keeps what it adds.                       *)
LEMMA SameAllowed ==
    ASSUME UNCHANGED job
    PROVE  Allowed(job)' = Allowed(job)
  BY DEF Allowed, Stops, MaxIters

(* The start of a frame: the age grows, or there is nothing to prepare.    *)
LEMMA PrepareStart ==
    ASSUME IInv, PrepareInv, NEW how \in Starts, StartFrame(how),
           held' = Held(how)
    PROVE  /\ held' \in Nat /\ held' <= held /\ held = Ends
           /\ plc'.path # NoPath /\ plc'.alc = "PREPARE" => prepare' # NoTime
           /\ held' > 0 => /\ plc' = plc /\ plc.path # NoPath
                           /\ plc.alc = "PREPARE"
                           /\ prepare' >= held' \/ prepare' = MaxPrepare
                           /\ latest # NoResult
  <1>1. /\ pc = "frame" /\ prepare' = Older(prepare)
        /\ plc' = plc \/ (plc'.path = NoPath /\ how # "drive")
      BY StartKeepsGood DEF StartFrame
  <1>2. held \in Nat /\ prepare \in NoTime..MaxPrepare
      BY DEF IInv, Types
  <1>3. prepare # NoTime => prepare' # NoTime
      BY <1>1, <1>2 DEF Older
  <1>4. prepare + 1 >= held \/ prepare = MaxPrepare
          => prepare = NoTime \/ prepare' >= held \/ prepare' = MaxPrepare
      BY <1>1, <1>2 DEF Older
  <1>5. held' > 0 => held' = held /\ how = "drive"
      BY DEF Held
  <1> QED
      BY <1>1, <1>2, <1>3, <1>4, <1>5 DEF Held, PrepareInv, Prepared, Ages, Ends

(* A job knows whether the time was over when it was scheduled.            *)
LEMMA PrepareScheduled ==
    ASSUME IInv, Aged, PrepareInv, NEW how \in Starts, NEW c \in Inputs,
           NEW a \in Answers, ScheduleJob(how, c, a)
    PROVE  PrepareInv'
  <1> DEFINE j == [plc |-> plc', known |-> known, request |-> request',
                   expired |-> prepare' = MaxPrepare,
                   new |-> Collected(c, pendingLc),
                   answer |-> Collected(a, pendingAnswer)]
  <1>1. /\ StartFrame(how) /\ held' = Held(how) /\ job' \in Results(j)
        /\ pc' = AfterCount /\ counter' = 0 /\ NextTick = 0
        /\ UNCHANGED latest
      BY DEF ScheduleJob
  <1>2. /\ j.plc = plc' /\ j.request = request'
        /\ j.new = Collected(c, pendingLc)
        /\ prepare' = MaxPrepare => j.expired
      OBVIOUS
  <1>3. GoodInput(j, FALSE)
      BY <1>1, <1>2, StartKeepsGood, CollectedIsTyped DEF GoodInput, Good
  <1> HIDE DEF j
  <1>4. /\ held' \in Nat /\ held' <= held /\ held = Ends
        /\ plc'.path # NoPath /\ plc'.alc = "PREPARE" => prepare' # NoTime
        /\ held' > 0 => /\ plc' = plc /\ plc.path # NoPath
                        /\ plc.alc = "PREPARE"
                        /\ prepare' >= held' \/ prepare' = MaxPrepare
                        /\ latest # NoResult
      BY <1>1, PrepareStart
  <1>5. prepare' = MaxPrepare /\ held' > 0 => Stops(job')
      BY <1>1, <1>2, <1>3, <1>4, ExpiredJobs
  <1>6. prepare' \in NoTime..MaxPrepare /\ MaxPrepare \in Nat \ {0}
      BY <1>1, StartKeepsGood
  <1>7. held' >= MaxPrepare => Stops(job')
      BY <1>4, <1>5, <1>6
  <1>8. pc = "frame" /\ pc' # "frame" /\ job = NoJob /\ job' # NoJob
    <2>1. pc = "frame" /\ pc' # "frame"
        BY <1>1 DEF StartFrame, AfterCount
    <2> QED  BY <1>1, <2>1, NewCycle, JobIsDecided
  <1>9. held' <= MaxPrepare + MaxIters
    <2>1. CASE held' = 0
        BY <1>6, <2>1, NextTickIs
    <2>2. CASE held' > 0
      <3>1. latest # NoResult
          BY <1>4, <2>2
      <3>2. Ends <= MaxPrepare + MaxIters
          BY <1>8, <3>1 DEF PrepareInv, Expiring
      <3>3. held \in Nat
          BY DEF IInv, Types
      <3> QED  BY <1>4, <1>6, <3>2, <3>3, NextTickIs
    <2> QED  BY <1>4, <2>1, <2>2
  <1>10. Prepared'
      BY <1>4, <1>8 DEF Prepared, Ages
  <1>11. Expiring'
    <2>1. Ends' = held' + 1
        BY <1>8 DEF Ends
    <2>2. Allowed(job)' = Allowed(job')
        BY DEF Allowed, Stops, MaxIters
    <2>3. MaxIters \in Nat \ {0}
        BY NextTickIs
    <2>4. Ends' <= counter' + Allowed(job')
        BY <1>1, <1>4, <1>6, <1>7, <1>9, <2>1, <2>3, AllowedIsBounded
    <2>5. PrepareIsBounded'
        BY <1>4, <1>6, <1>9, <2>3 DEF PrepareIsBounded, MaxIters
    <2> QED  BY <1>8, <2>2, <2>4, <2>5 DEF Expiring
  <1> QED  BY <1>10, <1>11 DEF PrepareInv

(* A frame that schedules nothing makes the job one frame older.           *)
LEMMA PrepareCounted ==
    ASSUME IInv, Aged, PrepareInv, NEW how \in Starts, NEW c \in Inputs,
           NEW a \in Answers, CountFrame(how, c, a) \/ ScheduleFails(how, c, a)
    PROVE  PrepareInv'
  <1>1. StartFrame(how) /\ held' = Held(how) /\ pc = "frame" /\ pc' # "frame"
      BY DEF CountFrame, ScheduleFails, StartFrame, AfterCount
  <1>2. /\ held' \in Nat /\ held' <= held /\ held = Ends
        /\ plc'.path # NoPath /\ plc'.alc = "PREPARE" => prepare' # NoTime
        /\ held' > 0 => /\ plc' = plc /\ plc.path # NoPath
                        /\ plc.alc = "PREPARE"
                        /\ prepare' >= held' \/ prepare' = MaxPrepare
                        /\ latest # NoResult
      BY <1>1, PrepareStart
  <1>3. MaxIters \in Nat \ {0} /\ MaxPrepare \in Nat \ {0} /\ held \in Nat
      BY NextTickIs DEF IInv, Types
  <1>4. Prepared'
      BY <1>1, <1>2 DEF Prepared, Ages
  <1>5. PrepareIsBounded'
      BY <1>2, <1>3 DEF PrepareInv, Expiring, PrepareIsBounded
  <1>6. Ends' = held' + 1
      BY <1>1 DEF Ends
  <1>7. CASE CountFrame(how, c, a)
    <2>1. /\ UNCHANGED <<job, latest>> /\ counter' = NextTick /\ NextTick # 0
        BY <1>7 DEF CountFrame
    <2>2. Allowed(job)' = Allowed(job)
        BY <2>1, SameAllowed
    <2>3. counter' = counter + 1 /\ counter \in -1..MaxIters
        BY <2>1, NextTickIs
    <2>4. job = NoJob => latest = NoResult
        BY <2>1, <2>3 DEF Aged
    <2>5. job # NoJob => held <= counter + Allowed(job)
        BY <1>2 DEF PrepareInv, Expiring
    <2>6. job # NoJob => Ends' <= counter' + Allowed(job)
        BY <1>2, <1>3, <1>6, <2>3, <2>5, AllowedIsBounded
    <2> QED
        BY <1>4, <1>5, <2>1, <2>2, <2>4, <2>6 DEF PrepareInv, Expiring
  <1>8. CASE ScheduleFails(how, c, a)
    <2>1. job' = NoJob /\ latest' = NoResult
        BY <1>8 DEF ScheduleFails
    <2> QED  BY <1>4, <1>5, <2>1 DEF PrepareInv, Expiring
  <1> QED  BY <1>7, <1>8

(* The result of a job stops the preparation if the job had to.            *)
LEMMA PrepareRetrieved ==
    ASSUME IInv, Aged, PrepareInv, TakeResult \/ JobFails \/ TakeNothing
    PROVE  PrepareInv'
  <1>1. /\ pc = "retrieve" /\ pc' = "plan" /\ UNCHANGED <<plc, prepare, held>>
        /\ Ends' = Ends
      BY DEF TakeResult, JobFails, TakeNothing, history, Ends
  <1>2. Prepared' /\ PrepareIsBounded'
      BY <1>1 DEF PrepareInv, Prepared, Expiring, PrepareIsBounded, Ages
  <1>3. CASE TakeResult
    <2>1. latest' = job /\ job # NoJob /\ job' = NoJob
        BY <1>3 DEF TakeResult
    <2>2. Stops(latest)' = Stops(job)
        BY <2>1 DEF Stops
    <2>3. Ends <= counter + Allowed(job)
        BY <2>1 DEF PrepareInv, Expiring
    <2>4. Ends \in Nat /\ counter \in -1..MaxIters
        BY DEF Ends, IInv, Types
    <2>5. ~Stops(job) => Ends <= MaxPrepare + MaxIters
        BY <2>3, <2>4, NextTickIs, AllowedIsBounded
    <2>6. Stops(job) \/ Ends' <= MaxPrepare + MaxIters
        BY <1>1, <2>5
    <2>7. (Stops(latest) \/ Ends <= MaxPrepare + MaxIters)'
        BY <2>2, <2>6 DEF MaxIters
    <2> QED  BY <1>1, <1>2, <2>1, <2>7 DEF PrepareInv, Expiring
  <1>4. CASE JobFails
    <2>1. job' = NoJob /\ latest' = NoResult
        BY <1>4 DEF JobFails
    <2> QED  BY <1>2, <2>1 DEF PrepareInv, Expiring
  <1>5. CASE TakeNothing
    <2>1. UNCHANGED <<counter, job, latest>>
        BY <1>5 DEF TakeNothing, slot
    <2>2. Stops(job)' = Stops(job) /\ Stops(latest)' = Stops(latest)
        BY <2>1 DEF Stops
    <2> QED  BY <1>1, <1>2, <2>1, <2>2 DEF PrepareInv, Expiring
  <1> QED  BY <1>3, <1>4, <1>5

(* A frame ends with the state of its result.                              *)
LEMMA PrepareEnded ==
    ASSUME IInv, Aged, PrepareInv, NEW est \in BOOLEAN, EndFrame(est),
           est => latest # NoResult
    PROVE  PrepareInv'
  <1>1. /\ pc = "plan" /\ pc' = "frame" /\ HandlePlcResult(est)
        /\ UNCHANGED <<counter, job, latest>>
        /\ held' = IF est /\ plc'.path # NoPath /\ plc'.alc = "PREPARE"
                     THEN held + 1 ELSE 0
        /\ Ends = held + 1 /\ Ends' = held'
      BY DEF EndFrame, slot, Ends
  <1>2. /\ held \in Nat /\ prepare \in NoTime..MaxPrepare
        /\ MaxIters \in Nat \ {0} /\ MaxPrepare \in Nat \ {0}
        /\ job # NoJob => counter \in 0..MaxIters - 1
      BY <1>1, NextTickIs DEF IInv, Types, Aged
  <1>3. plc'.path # NoPath /\ plc'.alc = "PREPARE" => prepare' # NoTime
    <2>1. CASE HasPlc
      <3>1. plc' = latest.plc /\ \E age : prepare' = PrepareTime(latest.plc.alc, age)
          BY <1>1, <2>1 DEF HandlePlcResult
      <3> QED  BY <3>1 DEF PrepareTime
    <2>2. CASE ~HasPlc
      <3>1. CASE AllBranchesFailed(est)
        <4>1. plc' = Cleared
            BY <1>1, <2>2, <3>1 DEF HandlePlcResult
        <4> QED  BY <4>1 DEF Cleared, Plc
      <3>2. CASE ~AllBranchesFailed(est)
          BY <1>1, <2>2, <3>2 DEF HandlePlcResult, PrepareInv, Prepared
      <3> QED  BY <3>1, <3>2
    <2> QED  BY <2>1, <2>2
  <1>4. ASSUME held' > 0
        PROVE  /\ held' = held + 1 /\ est /\ plc'.path # NoPath
               /\ plc'.alc = "PREPARE" /\ ~Stops(latest)
               /\ prepare' + 1 >= held' \/ prepare' = MaxPrepare
    <2>1. held' = held + 1 /\ est /\ plc'.path # NoPath /\ plc'.alc = "PREPARE"
        BY <1>1, <1>4
    <2>2. ~AllBranchesFailed(est)
        BY <2>1 DEF AllBranchesFailed
    <2>3. CASE HasPlc
      <3>1. plc' = latest.plc /\ prepare' = PrepareTime(latest.plc.alc, prepare)
          BY <1>1, <2>2, <2>3 DEF HandlePlcResult
      <3>2. prepare' = IF prepare = NoTime THEN 0 ELSE prepare
          BY <2>1, <3>1 DEF PrepareTime
      <3>3. held = 0 \/ prepare >= held \/ prepare = MaxPrepare
          BY <1>1, <1>2 DEF PrepareInv, Prepared, Ages
      <3> QED  BY <1>2, <2>1, <3>1, <3>2, <3>3 DEF Stops
    <2>4. CASE ~HasPlc
      <3>1. plc' = plc /\ prepare' = prepare
          BY <1>1, <2>2, <2>4 DEF HandlePlcResult
      <3>2. held = 0 \/ prepare >= held \/ prepare = MaxPrepare
          BY <1>1, <1>2 DEF PrepareInv, Prepared, Ages
      <3>3. prepare # NoTime
          BY <1>3, <2>1, <3>1
      <3>4. ~Stops(latest)
          BY <2>4 DEF HasPlc, Stops
      <3> QED  BY <1>2, <2>1, <3>1, <3>2, <3>3, <3>4
    <2> QED  BY <2>3, <2>4
  <1>5. latest = NoResult => held' = 0
      BY <1>1
  <1>6. held' \in Nat
      BY <1>1, <1>2
  <1>7. Prepared'
      BY <1>1, <1>3, <1>4, <1>5, <1>6 DEF Prepared, Ages
  <1>8. Allowed(job)' = Allowed(job)
      BY <1>1, SameAllowed
  <1>9. CASE held' = 0
    <2>1. job # NoJob => Ends' <= counter' + Allowed(job)
        BY <1>1, <1>2, <1>9, AllowedIsBounded
    <2>2. Ends' <= MaxPrepare + MaxIters /\ held' <= MaxPrepare + 2 * MaxIters
        BY <1>1, <1>2, <1>9
    <2> QED
        BY <1>1, <1>7, <1>8, <2>1, <2>2
           DEF PrepareInv, Expiring, PrepareIsBounded, MaxIters
  <1>10. CASE held' > 0
    <2>1. Ends' = Ends /\ ~Stops(latest) /\ latest # NoResult
        BY <1>1, <1>4, <1>10
    <2>2. job # NoJob => Ends <= counter + Allowed(job)
        BY DEF PrepareInv, Expiring
    <2>3. job = NoJob => Ends <= MaxPrepare + MaxIters
        BY <2>1 DEF PrepareInv, Expiring
    <2>4. held' <= MaxPrepare + 2 * MaxIters
        BY <1>1, <1>2, <2>1, <2>2, <2>3, AllowedIsBounded
    <2> QED
        BY <1>1, <1>7, <1>8, <2>1, <2>2, <2>3, <2>4
           DEF PrepareInv, Expiring, PrepareIsBounded, MaxIters
  <1> QED  BY <1>6, <1>7, <1>9, <1>10 DEF PrepareInv

LEMMA PrepareNext == IInv /\ Aged /\ PrepareInv /\ [Next]_vars => PrepareInv'
  <1> SUFFICES ASSUME IInv, Aged, PrepareInv, [Next]_vars PROVE PrepareInv'
      OBVIOUS
  <1>0. MaxIters \in Nat \ {0} /\ MaxPrepare \in Nat \ {0}
      BY NextTickIs
  <1>1. ASSUME NEW est \in BOOLEAN, EndFrame(est), est => latest # NoResult
        PROVE  PrepareInv'
      BY <1>1, PrepareEnded
  <1>2. CASE SkipFrame
    <2>1. /\ UNCHANGED <<pc, plc, counter, job, latest, held>> /\ pc = "frame"
          /\ prepare' = Older(prepare)
        BY <1>2 DEF SkipFrame, slot, history
    <2>2. Allowed(job)' = Allowed(job) /\ Stops(latest)' = Stops(latest)
        BY <2>1, SameAllowed DEF Stops
    <2>3. prepare # NoTime => prepare' # NoTime /\ (prepare' >= prepare)
        BY <2>1 DEF Older, IInv, Types
    <2>4. prepare = MaxPrepare => prepare' = MaxPrepare
        BY <2>1 DEF Older
    <2>5. Prepared'
        BY <2>1, <2>3, <2>4 DEF PrepareInv, Prepared, Ages, Older, IInv, Types
    <2> QED
        BY <2>1, <2>2, <2>5
           DEF PrepareInv, Expiring, Ends, PrepareIsBounded, MaxIters
  <1>3. ASSUME NEW how \in Starts, FrameEndsEarly(how) PROVE PrepareInv'
    <2>1. /\ StartFrame(how) /\ held' = Held(how) /\ pc = "frame"
          /\ UNCHANGED <<pc, counter, job, latest>>
        BY <1>3 DEF FrameEndsEarly, slot, StartFrame
    <2>2. Allowed(job)' = Allowed(job)
        BY <2>1, SameAllowed
    <2>3. /\ held' \in Nat /\ held' <= held /\ held = Ends /\ Ends' = held'
          /\ plc'.path # NoPath /\ plc'.alc = "PREPARE" => prepare' # NoTime
          /\ held' > 0 => /\ plc' = plc /\ plc.path # NoPath
                          /\ plc.alc = "PREPARE"
                          /\ prepare' >= held' \/ prepare' = MaxPrepare
                          /\ latest # NoResult
        BY <2>1, PrepareStart DEF Ends
    <2>4. prepare' \in NoTime..MaxPrepare /\ held \in Nat /\ counter \in -1..MaxIters
        BY <2>1, StartKeepsGood DEF IInv, Types
    <2>5. Prepared'
        BY <2>1, <2>3, <2>4 DEF Prepared, Ages
    <2>6. ASSUME job # NoJob PROVE Ends' <= counter' + Allowed(job)
      <3>1. Ends <= counter + Allowed(job)
          BY <2>6 DEF PrepareInv, Expiring
      <3> QED  BY <1>0, <2>1, <2>3, <2>4, <3>1, AllowedIsBounded
    <2>7. ASSUME job = NoJob, latest # NoResult
          PROVE  Ends' <= MaxPrepare + MaxIters
      <3>1. Ends <= MaxPrepare + MaxIters
          BY <2>1, <2>7 DEF PrepareInv, Expiring
      <3> QED  BY <1>0, <2>3, <2>4, <3>1
    <2>8. held' <= MaxPrepare + 2 * MaxIters
        BY <1>0, <2>3, <2>4 DEF PrepareInv, Expiring, PrepareIsBounded
    <2> QED
        BY <2>1, <2>2, <2>5, <2>6, <2>7, <2>8
           DEF PrepareInv, Expiring, PrepareIsBounded, MaxIters
  <1>4. CASE AccDetour
    <2>1. /\ latest' = NoResult /\ job' = NoJob /\ held' = 0
          /\ plc' = [Cleared EXCEPT !.alc = plc.alc]
        BY <1>4 DEF AccDetour
    <2>2. plc'.path = NoPath
        BY <2>1 DEF Cleared, Plc
    <2> QED
        BY <1>0, <2>1, <2>2 DEF PrepareInv, Prepared, Expiring, PrepareIsBounded
  <1>5. CASE NoValidPlan
    <2>1. /\ UNCHANGED <<plc, prepare, counter, job, latest>> /\ held' = 0
          /\ pc' = "frame" /\ pc = "plan" /\ Ends' = 0
        BY <1>5 DEF NoValidPlan, slot, Ends
    <2>2. Prepared' /\ PrepareIsBounded'
        BY <1>0, <2>1 DEF PrepareInv, Prepared, PrepareIsBounded, MaxIters
    <2>3. job # NoJob => counter \in 0..MaxIters - 1
        BY <1>0, <2>1 DEF Aged
    <2>4. Allowed(job)' = Allowed(job)
        BY <2>1, SameAllowed
    <2>5. job # NoJob => Ends' <= counter + Allowed(job)
        BY <1>0, <2>1, <2>3, AllowedIsBounded
    <2>6. Ends' <= MaxPrepare + MaxIters
        BY <1>0, <2>1
    <2> QED
        BY <2>1, <2>2, <2>4, <2>5, <2>6 DEF PrepareInv, Expiring, MaxIters
  <1>6. CASE UNCHANGED vars
    <2>1. UNCHANGED <<pc, plc, prepare, counter, job, latest, held>>
        BY <1>6 DEF vars, slot, history
    <2>2. Allowed(job)' = Allowed(job) /\ Stops(latest)' = Stops(latest)
        BY <2>1, SameAllowed DEF Stops
    <2>3. Prepared'
        BY <2>1 DEF PrepareInv, Prepared, Ages
    <2> QED
        BY <2>1, <2>2, <2>3 DEF PrepareInv, Expiring, Ends, PrepareIsBounded,
           MaxIters
  <1> QED
      BY <1>1, <1>2, <1>3, <1>4, <1>5, <1>6, PrepareScheduled, PrepareCounted,
         PrepareRetrieved, Steps DEF Resting

(* A lane change is prepared for no longer than the time allowed and two   *)
(* low-frequency cycles, for all values of the three, although the time is *)
(* read by jobs that were scheduled before it was over and frames skipped  *)
(* or ended early count for it.                                            *)
THEOREM PreparationIsBounded == Spec => []PrepareIsBounded
  <1>1. Init => IInv /\ Aged /\ PrepareInv
    <2>1. ASSUME Init PROVE Aged /\ PrepareInv
      <3>1. plc.path = NoPath /\ MaxIters \in Nat
          BY <2>1 DEF Init, Cleared, Plc, MaxIters
      <3> QED
          BY <2>1, <3>1 DEF Init, Aged, PrepareInv, Prepared, Expiring, Ends,
             PrepareIsBounded
    <2> QED  BY <2>1, InitIInv
  <1>2. IInv /\ Aged /\ PrepareInv /\ [Next]_vars => IInv' /\ Aged' /\ PrepareInv'
      BY NextKeepsIInv, AgedNext, PrepareNext
  <1>3. PrepareInv => PrepareIsBounded
      BY DEF PrepareInv, Expiring
  <1> QED  BY <1>1, <1>2, <1>3, PTL DEF Spec

-----------------------------------------------------------------------------
(* The side of a path, and a vehicle that crosses.                         *)

(* Once it was chosen, a job comes upon the watched path only by capturing *)
(* it.                                                                     *)
LEMMA WatchedUpdates ==
    ASSUME Avoided, NEW j, NEW q \in Updated(j), q.path = "watched"
    PROVE  q = j.plc
  <1>1. PICK p \in UpdatePreferredLanePath(j.plc), s \in Stages(j), b \in BOOLEAN :
           q \in UNION {HandleAlcUserResponse(j, r, s) :
                          r \in HandleNewTeleopCommand(CommandHeard(j), p, s, b)}
      BY DEF Updated
  <1>2. PICK r \in HandleNewTeleopCommand(CommandHeard(j), p, s, b) :
           q \in HandleAlcUserResponse(j, r, s)
      BY <1>1
  <1>3. \A n \in NewPaths : n # "watched"
      BY DEF NewPaths, Avoided
  <1>4. NoPath # "watched"
      BY DEF NoPath
  <1>5. q = r
    <2>1. q = r \/ q \in {Plc(n, "ONGOING", j.request) : n \in NewPaths}
        BY <1>2 DEF HandleAlcUserResponse
    <2>2. ASSUME NEW n \in NewPaths, q = Plc(n, "ONGOING", j.request) PROVE FALSE
        BY <1>3, <2>2 DEF Plc
    <2> QED  BY <2>1, <2>2
  <1>6. r = p
    <2>1. r \notin Return /\ r # Cleared
        BY <1>3, <1>4, <1>5 DEF Return, Cleared, Plc
    <2>2. r \notin {Plc(n, IF CommandHeard(j) = "STRAIGHT" THEN "OFF"
                           ELSE "ONGOING", CommandHeard(j)) : n \in NewPaths}
        BY <1>3, <1>5 DEF Plc
    <2> QED  BY <2>1, <2>2, CommandChoices
  <1>7. p = j.plc
      BY <1>4, <1>5, <1>6 DEF UpdatePreferredLanePath, Plc
  <1> QED  BY <1>5, <1>6, <1>7

PastBoundary == {"CROSSING", "COMPLETED"}

(* Its result keeps the side, and a vehicle that crossed on the other one. *)
LEMMA WatchedResults ==
    ASSUME Avoided, NEW j, j.plc \in PlcType, NEW r \in Results(j),
           r.plc.path = "watched"
    PROVE  /\ j.plc.path = "watched" /\ r.plc.cmd = j.plc.cmd
           /\ j.plc.alc = "CROSSING" => r.plc.alc \in PastBoundary
  <1>1. PICK p \in Updated(j) :
           r \in UNION {{Result(j, p, a, asked) : a \in NewStates(p, s),
                                                  asked \in Requests(j, p, s)} :
                          s \in Statuses(p)}
      BY DEF Results
  <1>2. PICK s \in Statuses(p) :
           r \in {Result(j, p, a, asked) : a \in NewStates(p, s),
                                           asked \in Requests(j, p, s)}
      BY <1>1
  <1>3. PICK a \in NewStates(p, s), asked \in Requests(j, p, s) :
           r = Result(j, p, a, asked)
      BY <1>2
  <1>4. NoPlc.path # "watched" /\ Cleared.path # "watched" /\ NoPath # "watched"
      BY DEF NoPlc, Cleared, Plc, NoPath
  <1>5. r.plc = [p EXCEPT !.alc = a]
      BY <1>3, <1>4 DEF Result, UpdatePlcRelevantState
  <1>6. p = j.plc
    <2>1. r.plc.path = p.path
        BY <1>5
    <2> QED  BY <2>1, WatchedUpdates
  <1>7. r.plc.path = p.path /\ r.plc.cmd = p.cmd /\ r.plc.alc = a
      BY <1>5, <1>6 DEF PlcType
  <1>8. ASSUME p.alc = "CROSSING" PROVE a \in PastBoundary
    <2>1. s = "OK"
        BY <1>8 DEF Statuses
    <2> QED  BY <1>8, <2>1 DEF NewStates, UpdateAlcState, PastBoundary
  <1> QED  BY <1>6, <1>7, <1>8

(* The state, the job and the latest result follow the path on one side.   *)
Sided ==
    /\ plc.path = "watched" =>
         /\ PathOf(job) = "watched" => job.plc.cmd = plc.cmd
         /\ PathOf(latest) = "watched" => latest.plc.cmd = plc.cmd
    /\ PathOf(job) = "watched" /\ PathOf(latest) = "watched"
         => job.plc.cmd = latest.plc.cmd

(* While the path is followed the state is the latest result's except in   *)
(* the frame that takes it, when no job is outstanding; so what crossed    *)
(* has crossed for the result and the job too.                             *)
CrossedForAll ==
    watch = "live" =>
      /\ PathOf(latest) = "watched"
           => latest.plc = plc \/ (pc = "plan" /\ job = NoJob)
      /\ plc.path = "watched" /\ plc.alc = "CROSSING" =>
           /\ PathOf(job) = "watched" => job.plc.alc \in PastBoundary
           /\ PathOf(latest) = "watched" => latest.plc.alc \in PastBoundary

KeptInv == Sided /\ CrossedForAll

(* The job follows what it captures at the start of a frame.               *)
LEMMA CapturedPath ==
    ASSUME IInv, Avoided, NEW how \in Starts, NEW c \in Inputs,
           NEW a \in Answers, ScheduleJob(how, c, a), PathOf(job)' = "watched"
    PROVE  /\ plc'.path = "watched" /\ plc' = plc
           /\ job'.plc.cmd = plc'.cmd
           /\ plc'.alc = "CROSSING" => job'.plc.alc \in PastBoundary
  <1> DEFINE j == [plc |-> plc', known |-> known, request |-> request',
                   expired |-> prepare' = MaxPrepare,
                   new |-> Collected(c, pendingLc),
                   answer |-> Collected(a, pendingAnswer)]
  <1>1. StartFrame(how) /\ job' \in Results(j)
      BY DEF ScheduleJob
  <1>2. j.plc = plc' /\ plc' \in PlcType /\ (plc' = plc \/ plc'.path = NoPath)
      BY <1>1, StartKeepsGood
  <1> HIDE DEF j
  <1>3. job'.plc.path = "watched"
      BY DEF PathOf, NoPath
  <1>4. /\ j.plc.path = "watched" /\ job'.plc.cmd = j.plc.cmd
        /\ j.plc.alc = "CROSSING" => job'.plc.alc \in PastBoundary
      BY <1>1, <1>2, <1>3, WatchedResults
  <1> QED  BY <1>2, <1>4 DEF NoPath

LEMMA KeptScheduled ==
    ASSUME IInv, KeptInv, NEW how \in Starts, NEW c \in Inputs,
           NEW a \in Answers, ScheduleJob(how, c, a)
    PROVE  KeptInv'
  <1>1. /\ StartFrame(how) /\ pc = "frame" /\ UNCHANGED latest
        /\ PathOf(latest)' = PathOf(latest)
        /\ plc' = plc \/ (plc'.path = NoPath /\ how # "drive")
        /\ NoPath # "watched"
      BY StartKeepsGood DEF ScheduleJob, PathOf, NoPath
  <1>2. ASSUME watch = "unused"
        PROVE  /\ plc'.path # "watched" /\ PathOf(latest)' # "watched"
               /\ watch' # "live"
    <2>1. plc.path # "watched" /\ PathOf(latest) # "watched"
        BY <1>2 DEF IInv, Where, Nowhere
    <2>2. watch' # "live"
        BY <1>2 DEF ScheduleJob, Excused
    <2> QED  BY <1>1, <2>1, <2>2
  <1>3. ASSUME watch # "unused", PathOf(job)' = "watched"
        PROVE  /\ plc'.path = "watched" /\ plc' = plc
               /\ job'.plc.cmd = plc'.cmd
               /\ plc'.alc = "CROSSING" => job'.plc.alc \in PastBoundary
      BY <1>3, CapturedPath DEF Avoided
  <1>4. watch' = "live" => watch = "live" /\ how = "drive"
      BY DEF ScheduleJob, Excused
  <1>5. Sided'
      BY <1>1, <1>2, <1>3 DEF KeptInv, Sided
  <1>6. CrossedForAll'
      BY <1>1, <1>2, <1>3, <1>4 DEF KeptInv, CrossedForAll
  <1> QED  BY <1>5, <1>6 DEF KeptInv

LEMMA KeptStarted ==
    ASSUME IInv, KeptInv, NEW how \in Starts, StartFrame(how),
           watch' = Excused(how),
           UNCHANGED <<job, latest>> \/ (job' = NoJob /\ latest' = NoResult)
    PROVE  KeptInv'
  <1>1. /\ pc = "frame" /\ NoPath # "watched"
        /\ plc' = plc \/ (plc'.path = NoPath /\ how # "drive")
      BY StartKeepsGood DEF NoPath
  <1>2. watch' = "live" => watch = "live" /\ how = "drive"
      BY DEF Excused
  <1>3. CASE UNCHANGED <<job, latest>>
    <2>1. PathOf(job)' = PathOf(job) /\ PathOf(latest)' = PathOf(latest)
        BY <1>3 DEF PathOf
    <2> QED  BY <1>1, <1>2, <1>3, <2>1 DEF KeptInv, Sided, CrossedForAll
  <1>4. CASE job' = NoJob /\ latest' = NoResult
    <2>1. PathOf(job)' = NoPath /\ PathOf(latest)' = NoPath
        BY <1>4 DEF PathOf
    <2> QED  BY <1>1, <2>1 DEF KeptInv, Sided, CrossedForAll
  <1> QED  BY <1>3, <1>4

LEMMA KeptRetrieved ==
    ASSUME IInv, KeptInv, TakeResult \/ JobFails \/ TakeNothing
    PROVE  KeptInv'
  <1>1. UNCHANGED plc /\ pc = "retrieve" /\ pc' = "plan" /\ NoPath # "watched"
      BY DEF TakeResult, JobFails, TakeNothing, NoPath
  <1>2. CASE TakeResult
    <2>1. /\ latest' = job /\ job' = NoJob
          /\ watch' = "live" => watch \in {"live", "asked"}
        BY <1>2 DEF TakeResult, Taken
    <2>2. PathOf(latest)' = PathOf(job) /\ PathOf(job)' = NoPath
        BY <2>1 DEF PathOf
    <2>3. watch = "asked" => plc.path # "watched"
        BY DEF IInv, Where
    <2> QED  BY <1>1, <2>1, <2>2, <2>3 DEF KeptInv, Sided, CrossedForAll
  <1>3. CASE JobFails
    <2>1. PathOf(latest)' = NoPath /\ PathOf(job)' = NoPath
        BY <1>3 DEF JobFails, PathOf
    <2> QED  BY <1>1, <2>1 DEF KeptInv, Sided, CrossedForAll
  <1>4. CASE TakeNothing
    <2>1. UNCHANGED <<latest, job, watch>>
        BY <1>4 DEF TakeNothing, slot, history
    <2>2. PathOf(job)' = PathOf(job) /\ PathOf(latest)' = PathOf(latest)
        BY <2>1 DEF PathOf
    <2> QED  BY <1>1, <2>1, <2>2 DEF KeptInv, Sided, CrossedForAll
  <1> QED  BY <1>2, <1>3, <1>4

(* A frame that keeps the path applies the latest result or keeps it all.  *)
LEMMA PathApplied ==
    ASSUME IInv, NEW est \in BOOLEAN, EndFrame(est), plc'.path = "watched"
    PROVE  \/ PathOf(latest) = "watched" /\ plc' = latest.plc
           \/ plc' = plc /\ ~HasPlc
  <1>1. HandlePlcResult(est) /\ NoPath # "watched" /\ Cleared.path = NoPath
      BY DEF EndFrame, NoPath, Cleared, Plc
  <1>2. CASE HasPlc
      BY <1>1, <1>2 DEF HandlePlcResult, HasPlc, PathOf
  <1>3. CASE ~HasPlc
      BY <1>1, <1>3 DEF HandlePlcResult
  <1> QED  BY <1>2, <1>3

LEMMA KeptEnded ==
    ASSUME IInv, KeptInv, NEW est \in BOOLEAN, EndFrame(est),
           est => latest # NoResult
    PROVE  KeptInv'
  <1>1. /\ pc = "plan" /\ pc' = "frame" /\ UNCHANGED <<job, latest>>
        /\ watch' = "live" => watch = "live" /\ plc'.path = "watched"
        /\ HandlePlcResult(est)
      BY DEF EndFrame, slot
  <1>2. PathOf(job)' = PathOf(job) /\ PathOf(latest)' = PathOf(latest)
      BY <1>1 DEF PathOf
  <1>0. plc'.path = "watched"
          => \/ PathOf(latest) = "watched" /\ plc' = latest.plc
             \/ plc' = plc /\ ~HasPlc
      BY PathApplied
  <1>3. ASSUME watch' = "live" PROVE HasPlc
    <2>1. SUFFICES ASSUME ~HasPlc PROVE FALSE
        OBVIOUS
    <2>3. latest = NoResult \/ latest.plc = NoPlc
        BY <2>1 DEF HasPlc
    <2>4. PathOf(latest) # "watched"
      <3>1. NoPlc.path # "watched" /\ NoPath # "watched"
          BY DEF NoPlc, NoPath
      <3> QED  BY <2>3, <3>1 DEF PathOf
    <2>2. plc.path = "watched" /\ plc' = plc
        BY <1>0, <1>1, <1>3, <2>4
    <2>5. latest = NoResult
        BY <1>1, <1>3, <2>2, <2>3, <2>4 DEF IInv, Where, Nowhere, Following,
           Leaving
    <2>6. plc' = Cleared
        BY <1>1, <2>1, <2>2, <2>5 DEF HandlePlcResult, AllBranchesFailed, NoPath
    <2> QED  BY <1>1, <1>3, <2>6 DEF Cleared, Plc, NoPath
  <1>4. Sided'
      BY <1>0, <1>1, <1>2 DEF KeptInv, Sided
  <1>5. watch' = "live"
          => plc' = latest.plc /\ PathOf(latest) = "watched" /\ watch = "live"
      BY <1>0, <1>1, <1>3
  <1>6. job = NoJob => PathOf(job) # "watched"
      BY DEF PathOf, NoPath
  <1>7. CrossedForAll'
    <2>1. CASE watch' # "live"
        BY <2>1 DEF CrossedForAll
    <2>2. CASE watch' = "live" /\ job = NoJob
        BY <1>1, <1>2, <1>5, <1>6, <2>2 DEF KeptInv, CrossedForAll, PastBoundary
    <2>3. CASE watch' = "live" /\ job # NoJob
      <3>1. plc' = plc
          BY <1>5, <2>3 DEF KeptInv, CrossedForAll
      <3> QED  BY <1>1, <1>2, <1>5, <2>3, <3>1 DEF KeptInv, CrossedForAll
    <2> QED  BY <2>1, <2>2, <2>3
  <1> QED  BY <1>4, <1>7 DEF KeptInv

LEMMA KeptNext == IInv /\ KeptInv /\ [Next]_vars => KeptInv'
  <1> SUFFICES ASSUME IInv, KeptInv, [Next]_vars PROVE KeptInv'
      OBVIOUS
  <1>1. ASSUME NEW est \in BOOLEAN, EndFrame(est), est => latest # NoResult
        PROVE  KeptInv'
      BY <1>1, KeptEnded
  <1>2. CASE SkipFrame \/ NoValidPlan \/ UNCHANGED vars
    <2>1. /\ UNCHANGED <<plc, job, latest>>
          /\ watch' = "live" => watch = "live" /\ pc' = pc
        BY <1>2 DEF SkipFrame, NoValidPlan, vars, slot, history
    <2>2. PathOf(job)' = PathOf(job) /\ PathOf(latest)' = PathOf(latest)
        BY <2>1 DEF PathOf
    <2> QED  BY <2>1, <2>2 DEF KeptInv, Sided, CrossedForAll
  <1>3. ASSUME NEW how \in Starts, FrameEndsEarly(how) PROVE KeptInv'
    <2>1. StartFrame(how) /\ watch' = Excused(how) /\ UNCHANGED <<job, latest>>
        BY <1>3 DEF FrameEndsEarly, slot
    <2> QED  BY <2>1, KeptStarted
  <1>4. CASE AccDetour
    <2>1. PathOf(job)' = NoPath /\ PathOf(latest)' = NoPath /\ NoPath # "watched"
        BY <1>4 DEF AccDetour, PathOf, NoPath
    <2> QED  BY <2>1 DEF KeptInv, Sided, CrossedForAll
  <1>5. ASSUME NEW how \in Starts, NEW c \in Inputs, NEW a \in Answers,
               CountFrame(how, c, a) \/ ScheduleFails(how, c, a)
        PROVE  KeptInv'
    <2>1. /\ StartFrame(how) /\ watch' = Excused(how)
          /\ UNCHANGED <<job, latest>> \/ (job' = NoJob /\ latest' = NoResult)
        BY <1>5 DEF CountFrame, ScheduleFails
    <2> QED  BY <2>1, KeptStarted
  <1> QED
      BY <1>1, <1>2, <1>3, <1>4, <1>5, KeptScheduled, KeptRetrieved, Steps
         DEF Resting

LEMMA KeptAlways == Spec => [](IInv /\ KeptInv)
  <1>1. Init => IInv /\ KeptInv
    <2>1. ASSUME Init PROVE KeptInv
      <3>1. PathOf(job) = NoPath /\ PathOf(latest) = NoPath /\ NoPath # "watched"
          BY <2>1 DEF Init, PathOf, NoPath
      <3> QED  BY <2>1, <3>1 DEF Init, KeptInv, Sided, CrossedForAll
    <2> QED  BY <2>1, InitIInv
  <1>2. IInv /\ KeptInv /\ [Next]_vars => (IInv /\ KeptInv)'
      BY NextKeepsIInv, KeptNext
  <1> QED  BY <1>1, <1>2, PTL DEF Spec

(* A step that keeps the path applies the latest result to it or changes   *)
(* nothing of it.                                                          *)
LEMMA PathSteps ==
    ASSUME IInv, [Next]_vars, plc.path = "watched", plc'.path = "watched"
    PROVE  plc' = plc \/ (PathOf(latest) = "watched" /\ plc' = latest.plc)
  <1>1. ASSUME NEW est \in BOOLEAN, EndFrame(est)
        PROVE  plc' = plc \/ (PathOf(latest) = "watched" /\ plc' = latest.plc)
      BY <1>1, PathApplied
  <1>2. CASE SkipFrame \/ NoValidPlan \/ UNCHANGED vars
      BY <1>2 DEF SkipFrame, NoValidPlan, vars
  <1>3. ASSUME NEW how \in Starts, StartFrame(how) PROVE plc' = plc
      BY <1>3, StartKeepsGood DEF NoPath
  <1>4. ~AccDetour
    <2>1. Cleared = Plc(NoPath, "STANDBY_ENABLE", "NONE") /\ NoPath # "watched"
        BY DEF Cleared, NoPath
    <2> QED  BY <2>1 DEF AccDetour, Plc
  <1>5. CASE TakeResult \/ JobFails \/ TakeNothing
      BY <1>5 DEF TakeResult, JobFails, TakeNothing
  <1> QED
      BY <1>1, <1>2, <1>3, <1>4, <1>5, Steps
         DEF Resting, FrameEndsEarly, CountFrame, ScheduleJob, ScheduleFails

(* A vehicle that crosses is not taken back by a job or a result from      *)
(* before it crossed, for all cycle lengths.                               *)
THEOREM CrossingsAreKept == Spec => CrossingIsKept
  <1>1. IInv /\ KeptInv /\ [Next]_vars
          => [/\ watch = "live" /\ plc.path = "watched" /\ plc.alc = "CROSSING"
              /\ watch' = "live" /\ plc'.path = "watched"
              => plc'.alc \in {"CROSSING", "COMPLETED"}]_vars
      BY PathSteps DEF KeptInv, CrossedForAll, PastBoundary
  <1> QED  BY <1>1, KeptAlways, PTL DEF Spec, CrossingIsKept

(* A path is followed with the command it was chosen for, whatever older   *)
(* results are applied and whatever the jobs captured.                     *)
THEOREM SidesAreKept == Spec => SideIsKept
  <1>1. IInv /\ KeptInv /\ [Next]_vars
          => [plc.path = "watched" /\ plc'.path = "watched"
                => plc'.cmd = plc.cmd]_vars
      BY PathSteps DEF KeptInv, Sided
  <1> QED  BY <1>1, KeptAlways, PTL DEF Spec, SideIsKept
=============================================================================

----------------------- MODULE LaneChangeAssist_proof -----------------------
(***************************************************************************)
(* Theorems about LaneChangeAssist, for any low-frequency cycle, any       *)
(* preparation time and either value of the flag.                          *)
(***************************************************************************)
EXTENDS LaneChangeAssist, TLAPS

USE ItersAssumption, PrepareAssumption, FlagAssumption

HasJob == job.alc # "none"
HasResult == latest.alc # "none"
Returning == Begun \union {"RETURNING"}
Changing == Begun \union {"PREPARE"}

(* The counter runs while a job is outstanding.                            *)
CounterInv == HasJob <=> counter # -1

(* Before the task's own first result nothing was begun or cancelled.      *)
ModeInv ==
    /\ mode # "own" => ~open /\ ~cancelled
    /\ mode = "secondary" /\ HasResult => latest.dir = "NONE"

(* In a lane change the direction is the driver's command, in the result,  *)
(* in the state and in what the job captured.                              *)
SignalInv ==
    /\ HasResult /\ latest.alc \in Begun =>
         latest.dir \in LeftRight /\ latest.cmd = latest.dir
    /\ HasResult /\ latest.alc \notin Begun => latest.dir = "NONE"
    /\ assist.alc \in Begun =>
         assist.dir \in LeftRight /\ ext.cmd = assist.dir
    /\ assist.alc \notin Begun \union {"COMPLETED"} => assist.dir = "NONE"
    /\ job.alc \in Begun => job.cmd \in LeftRight
    /\ SignalMatchesLaneChange

(* An open lane change is one in the result, in the state between frames   *)
(* and in the outstanding job, with the same direction in all three; a job *)
(* that may open one started from a state without a direction.             *)
OpenInv ==
    /\ open => HasResult /\ latest.alc \in Returning
    /\ open /\ pc # "plan" =>
         assist.alc \in Returning /\ assist.dir = latest.dir
    /\ open =>
         assist.dir = "NONE" \/ latest.dir = "NONE" \/ assist.dir = latest.dir
    /\ open /\ HasJob => job.alc \in Returning
    /\ open /\ HasJob /\ job.alc \in Begun =>
         assist.dir \in {"NONE", job.cmd} /\ latest.dir \in {"NONE", job.cmd}
    /\ pc # "plan" /\ assist.origin /\ assist.alc \notin Begun \union {"COMPLETED"}
         => ~HasResult \/ latest.dir = "NONE"
    /\ HasJob /\ ~Resets(job) /\ job.alc \notin Begun \union {"COMPLETED"} =>
         assist.dir = "NONE" /\ (~HasResult \/ latest.dir = "NONE")
    /\ LaneChangeIsFinished

(* After a cancellation no result, state or job has a lane change or its   *)
(* command; only the published command may be the old one, in the frame    *)
(* that overwrites it.                                                     *)
CancelInv ==
    /\ cancelled /\ HasResult =>
         latest.alc \notin Changing /\ latest.cmd \notin LeftRight
    /\ cancelled /\ pc # "plan" =>
         assist.alc \notin Changing /\ ext.cmd \notin LeftRight
    /\ cancelled /\ pc = "plan" =>
         ext.cmd \notin LeftRight \/ (HasResult /\ latest.cmd # NoPlc)
    /\ cancelled /\ HasJob =>
         job.alc \notin Changing /\ job.cmd \notin LeftRight
    /\ CancelledStaysCancelled

LaneInv ==
    TypeOK /\ CounterInv /\ ModeInv /\ SignalInv /\ OpenInv /\ CancelInv

-----------------------------------------------------------------------------
(* The low-frequency job.                                                  *)

(* The command a job decides with is one of the driver's commands; in a    *)
(* begun lane change it is the captured one or a cancellation.             *)
LEMMA JobCommand ==
    ASSUME NEW j \in JobType
    PROVE  /\ HandleNewLaneChangeCommand(j) \in Commands
           /\ LaneChangeCommand(j) \in Commands
           /\ j.alc = "CROSSING" => LaneChangeCommand(j) = j.cmd
           /\ j.alc = "ONGOING" => LaneChangeCommand(j) \in {"CANCEL", j.cmd}
  <1>1. j.new \in Commands /\ j.cmd \in Commands /\ "CANCEL" \in Commands
    BY DEF JobType, Commands
  <1>2. HandleNewLaneChangeCommand(j) \in Commands
    BY <1>1 DEF HandleNewLaneChangeCommand, Commands
  <1>3. /\ j.alc = "CROSSING" => HandleNewLaneChangeCommand(j) = "NONE"
        /\ j.alc = "ONGOING" => HandleNewLaneChangeCommand(j) \in {"NONE", "CANCEL"}
    BY DEF HandleNewLaneChangeCommand
  <1> QED  BY <1>1, <1>2, <1>3 DEF LaneChangeCommand

(* What a job returns is a branch of the captured lane change state, or    *)
(* lane keeping.                                                           *)
LEMMA JobBranch ==
    ASSUME NEW j \in JobType, NEW r \in Results(j)
    PROVE  \E b \in ProcessAlcRequest(PlannedState(j), PlannedCommand(j)) :
             /\ \/ r.alc = b.alc /\ r.dir = b.dir
                \/ r.alc = "STANDBY_ENABLE" /\ r.dir = "NONE"
             /\ r.cmd = PlcCommand(j, r)
             /\ r.invalid \in BOOLEAN
             /\ r = [alc |-> r.alc, dir |-> r.dir, cmd |-> r.cmd,
                     invalid |-> r.invalid]
  <1>1. PICK c \in SelectedBranches(j), i \in BOOLEAN :
          r = [alc |-> c.alc, dir |-> c.dir, cmd |-> PlcCommand(j, c),
               invalid |-> i]
    BY DEF Results
  <1>2. PICK b \in ProcessAlcRequest(PlannedState(j), PlannedCommand(j)) :
          c = IF PreparedTooLong(j, b) THEN Branch("STANDBY_ENABLE", "NONE") ELSE b
    BY <1>1 DEF SelectedBranches, PlannedBranches
  <1>3. \/ r.alc = b.alc /\ r.dir = b.dir
        \/ r.alc = "STANDBY_ENABLE" /\ r.dir = "NONE"
    BY <1>1, <1>2 DEF Branch
  <1>4. r.alc = c.alc /\ r.dir = c.dir /\ r.cmd = PlcCommand(j, c) /\ r.invalid = i
    BY <1>1
  <1> QED  BY <1>1, <1>2, <1>3, <1>4 DEF PlcCommand

USE DEF PlannedState, PlannedCommand

(* A result is one of the states a path can be planned for; in a begun     *)
(* lane change its direction is its command, and elsewhere it has none.    *)
LEMMA ResultTyped ==
    ASSUME NEW j \in JobType, NEW r \in Results(j)
    PROVE  r \in ResultType
  <1>1. PICK b \in ProcessAlcRequest(PlannedState(j), PlannedCommand(j)) :
          /\ \/ r.alc = b.alc /\ r.dir = b.dir
             \/ r.alc = "STANDBY_ENABLE" /\ r.dir = "NONE"
          /\ r.invalid \in BOOLEAN
          /\ r = [alc |-> r.alc, dir |-> r.dir, cmd |-> r.cmd,
                  invalid |-> r.invalid]
          /\ r.cmd = PlcCommand(j, r)
    BY JobBranch
  <1>2. j.alc \in AlcStates
    BY DEF JobType
  <1>3. /\ b.alc \in AlcStates \ {"COMPLETED", "RETURN_COMPLETED"}
        /\ b.dir \in Directions
    BY <1>1, <1>2 DEF ProcessAlcRequest, InitiateAlc, PrepareAlc,
         ContinueAlc, CrossingLaneAlc, Toward, Branch, AlcStates, Directions, LeftRight
  <1>4. r.cmd \in Commands \union {NoPlc}
    BY <1>1, JobCommand DEF Commands, PlcCommand
  <1> QED  BY <1>1, <1>3, <1>4 DEF ResultType, AlcStates, Directions

LEMMA ResultDirection ==
    ASSUME NEW j \in JobType, j.alc \in Begun => j.cmd \in LeftRight,
           NEW r \in Results(j)
    PROVE  /\ r.alc \in Begun => r.dir \in LeftRight /\ r.cmd = r.dir
           /\ r.alc \notin Begun => r.dir = "NONE"
           /\ r.alc \in Begun /\ j.alc \in Begun => r.dir = j.cmd
  <1>1. PICK b \in ProcessAlcRequest(PlannedState(j), PlannedCommand(j)) :
          /\ \/ r.alc = b.alc /\ r.dir = b.dir
             \/ r.alc = "STANDBY_ENABLE" /\ r.dir = "NONE"
          /\ r.cmd = PlcCommand(j, r)
    BY JobBranch
  <1>2. j.alc \in AlcStates
    BY DEF JobType
  <1>3. CASE Resets(j)
    BY <1>1, <1>3 DEF PlcCommand, ProcessAlcRequest, InitiateAlc, Branch,
         Begun, LeftRight
  <1>4. CASE ~Resets(j)
    <2>1. b.alc \notin Begun => b.dir = "NONE"
      BY <1>1, <1>2, <1>4 DEF PlcCommand, ProcessAlcRequest, InitiateAlc,
           PrepareAlc, ContinueAlc, CrossingLaneAlc, Branch, Begun, AlcStates
    <2>2. b.alc \in Begun =>
            b.dir \in LeftRight /\ LaneChangeCommand(j) = b.dir
      BY <1>1, <1>2, <1>4, JobCommand DEF PlcCommand, ProcessAlcRequest,
           InitiateAlc, PrepareAlc, ContinueAlc, CrossingLaneAlc, Toward, Branch, Begun,
           AlcStates, LeftRight
    <2>3. b.alc \in Begun /\ j.alc \in Begun => b.dir = j.cmd
      BY <2>2, JobCommand DEF Begun, LeftRight
    <2> QED  BY <1>1, <1>4, <2>1, <2>2, <2>3 DEF PlcCommand, Begun,
               LeftRight
  <1> QED  BY <1>3, <1>4

(* A job that captured an open lane change goes on with it or returns;     *)
(* one that captured the end of one does not begin another.                *)
LEMMA ResultOfOpen ==
    ASSUME NEW j \in JobType, ~Resets(j), NEW r \in Results(j)
    PROVE  /\ j.alc \in Returning => r.alc \in Returning
           /\ j.alc \in {"COMPLETED", "RETURNING"} => r.alc \notin Begun
  <1>1. PICK b \in ProcessAlcRequest(j.alc, LaneChangeCommand(j)) :
          r.alc = IF PreparedTooLong(j, b) THEN "STANDBY_ENABLE" ELSE b.alc
    BY DEF Results, SelectedBranches, PlannedBranches, Branch
  <1> QED  BY <1>1 DEF PreparedTooLong, ProcessAlcRequest, ContinueAlc,
                CrossingLaneAlc, Branch, Begun, Returning

(* A job that cancels, or goes on where nothing is changing, returns       *)
(* neither a lane change nor its command.                                  *)
LEMMA ResultOfCancelled ==
    ASSUME NEW j \in JobType, NEW r \in Results(j),
           \/ Resets(j)
           \/ HandleNewLaneChangeCommand(j) = "CANCEL"
           \/ /\ HandleNewLaneChangeCommand(j) = "NONE"
              /\ j.alc \notin Changing /\ j.cmd \notin LeftRight
    PROVE  r.alc \notin Changing /\ r.cmd \notin LeftRight
  <1>1. PICK b \in ProcessAlcRequest(PlannedState(j), PlannedCommand(j)) :
          /\ r.alc \in {b.alc, "STANDBY_ENABLE"}
          /\ r.cmd = PlcCommand(j, r)
    BY JobBranch
  <1>2. j.alc \in AlcStates /\ NoPlc \notin LeftRight
    BY DEF JobType, NoPlc, LeftRight
  <1>3. CASE Resets(j)
    BY <1>1, <1>2, <1>3 DEF PlcCommand, ProcessAlcRequest, InitiateAlc,
         Branch, Begun, Changing, LeftRight, AlcStates
  <1>4. CASE ~Resets(j) /\ HandleNewLaneChangeCommand(j) = "CANCEL"
    <2>1. LaneChangeCommand(j) = "CANCEL" /\ j.alc \in {"PREPARE", "ONGOING"}
      BY <1>4 DEF LaneChangeCommand, HandleNewLaneChangeCommand
    <2> QED  BY <1>1, <1>2, <1>4, <2>1 DEF PlcCommand, ProcessAlcRequest,
               InitiateAlc, PrepareAlc, ContinueAlc, Branch, Begun, Changing,
               LeftRight, AlcStates
  <1>5. CASE /\ ~Resets(j) /\ HandleNewLaneChangeCommand(j) = "NONE"
             /\ j.alc \notin Changing /\ j.cmd \notin LeftRight
    <2>1. LaneChangeCommand(j) = j.cmd
      BY <1>5 DEF LaneChangeCommand
    <2> QED  BY <1>1, <1>2, <1>5, <2>1 DEF PlcCommand, ProcessAlcRequest,
               InitiateAlc, PrepareAlc, ContinueAlc, Branch, Begun, Changing,
               LeftRight, AlcStates
  <1> QED  BY <1>3, <1>4, <1>5

-----------------------------------------------------------------------------
(* The values the steps are built from.                                    *)

(* MaxIters is a natural number no smaller than the cycle.                 *)
LEMMA CycleRange == MaxIters \in Nat \ {0} /\ AlccIters <= MaxIters
  BY DEF MaxIters

(* A job or a result is present exactly when it has a lane change state.   *)
LEMMA Present ==
    ASSUME TypeOK
    PROVE  /\ HasJob => job \in JobType
           /\ ~HasJob => job = NoJob
           /\ HasResult => latest \in ResultType /\ latest # NoResult
           /\ ~HasResult => latest = NoResult
  <1>1. NoJob.alc = "none" /\ NoResult.alc = "none"
    BY DEF NoJob, NoResult
  <1>2. \A j \in JobType : j.alc # "none"
    BY DEF JobType, AlcStates
  <1>3. \A r \in ResultType : r.alc # "none"
    BY DEF ResultType, AlcStates
  <1> QED  BY <1>1, <1>2, <1>3 DEF TypeOK, HasJob, HasResult

(* The preparation time stays within its range as it ages.                 *)
LEMMA OlderRange ==
    ASSUME NEW age \in NoTime..MaxPrepare
    PROVE  Older(age) \in NoTime..MaxPrepare
  BY DEF Older, NoTime

(* Lane keeping, and a result of another task.                             *)
LEMMA KeepingType ==
    ASSUME NEW k \in {Keeping(TRUE), Keeping(FALSE)}
    PROVE  /\ k.alc = "STANDBY_ENABLE" /\ k.dir = "NONE"
           /\ k \in [alc : AlcStates, dir : Directions, origin : BOOLEAN]
           /\ k = Keeping(FALSE) => ~k.origin
  <1>1. PICK b \in BOOLEAN : k = Keeping(b)
    OBVIOUS
  <1>2. k = [alc |-> "STANDBY_ENABLE", dir |-> "NONE", origin |-> b]
    BY <1>1 DEF Keeping
  <1>3. k.alc = "STANDBY_ENABLE" /\ k.dir = "NONE"
        /\ k \in [alc : AlcStates, dir : Directions, origin : BOOLEAN]
    BY <1>2 DEF AlcStates, Directions
  <1>4. k = Keeping(FALSE) => ~k.origin
    BY DEF Keeping
  <1> QED  BY <1>3, <1>4

LEMMA FakedType ==
    ASSUME NEW r \in FakedResults
    PROVE  r \in ResultType /\ r.alc = "STANDBY_ENABLE" /\ r.dir = "NONE"
  <1>1. r.alc = "STANDBY_ENABLE" /\ r.dir = "NONE" /\ r.invalid \in {FALSE}
        /\ r.cmd \in Commands \union {NoPlc}
        /\ r = [alc |-> r.alc, dir |-> r.dir, cmd |-> r.cmd, invalid |-> r.invalid]
    BY DEF FakedResults
  <1>2. r.invalid \in BOOLEAN
    BY <1>1, Zenon
  <1>3. "STANDBY_ENABLE" \in AlcStates \ {"COMPLETED", "RETURN_COMPLETED"}
        /\ "NONE" \in Directions
    BY DEF AlcStates, Directions
  <1> QED  BY <1>1, <1>2, <1>3 DEF ResultType

-----------------------------------------------------------------------------
(* The steps.                                                              *)

LEMMA LaneInit == Init => LaneInv
  <1> SUFFICES ASSUME Init PROVE LaneInv
    OBVIOUS
  <1>1. ~HasJob /\ ~HasResult /\ job.alc = "none"
    BY DEF Init, HasJob, HasResult, NoJob, NoResult
  <1>2. ok = FALSE /\ open = FALSE /\ cancelled = FALSE
    BY Zenon DEF Init
  <1>3. lateral \in BOOLEAN /\ ok \in BOOLEAN /\ open \in BOOLEAN
        /\ cancelled \in BOOLEAN
    BY Zenon DEF Init
  <1>4. /\ assist \in [alc : AlcStates, dir : Directions, origin : BOOLEAN]
        /\ ext \in [alc : AlcStates, cmd : Commands, prepare : NoTime..MaxPrepare]
        /\ pendingLc \in Commands /\ signal \in Directions
    BY DEF Init, Keeping, AlcStates, Directions, LeftRight, Commands, NoTime
  <1>5. /\ pc \in {"collect", "retrieve", "plan"}
        /\ mode \in {"own", "secondary", "handover"}
        /\ counter \in -1..MaxIters /\ held \in Nat
    BY CycleRange DEF Init
  <1>6. job \in {NoJob} \union JobType /\ latest \in {NoResult} \union ResultType
    BY DEF Init
  <1>7. TypeOK
    BY <1>3, <1>4, <1>5, <1>6 DEF TypeOK
  <1> QED
    BY <1>1, <1>2, <1>7 DEF Init, LaneInv, CounterInv, ModeInv, SignalInv,
         OpenInv, CancelInv, Keeping, Begun, SignalMatchesLaneChange,
         LaneChangeIsFinished, CancelledStaysCancelled

(* Only the preparation time or the car's mode changes.                    *)
LEMMA LaneIdle ==
    ASSUME LaneInv, DriverTakesOver \/ SkipFrame \/ UNCHANGED vars
    PROVE  LaneInv'
  <1> USE DEF LaneInv, CounterInv, ModeInv, SignalInv, OpenInv, CancelInv,
              HasJob, HasResult, SignalMatchesLaneChange,
              LaneChangeIsFinished, CancelledStaysCancelled
  <1>1. CASE DriverTakesOver
    <2>1. TypeOK'
      BY <1>1 DEF DriverTakesOver, TypeOK, output, history
    <2> QED  BY <1>1, <2>1 DEF DriverTakesOver, output, history, Resets
  <1>2. CASE SkipFrame
    <2>1. /\ ext'.alc = ext.alc /\ ext'.cmd = ext.cmd
          /\ ext' \in [alc : AlcStates, cmd : Commands, prepare : NoTime..MaxPrepare]
      BY <1>2, OlderRange DEF SkipFrame, TypeOK
    <2>2. TypeOK'
      BY <1>2, <2>1 DEF SkipFrame, TypeOK, driver, history
    <2> QED  BY <1>2, <2>1, <2>2 DEF SkipFrame, driver, history, Resets
  <1>3. CASE UNCHANGED vars
    BY <1>3 DEF vars, driver, output, history, TypeOK, Resets
  <1> QED  BY <1>1, <1>2, <1>3

(* A task switch starts from lane keeping, with nothing begun or cancelled *)
(* and at most the result of another task, which has no direction.         *)
LEMMA LaneEnter == LaneInv /\ EnterAlcc => LaneInv'
  <1> SUFFICES ASSUME LaneInv, EnterAlcc PROVE LaneInv'
    OBVIOUS
  <1>1. /\ pc' = "collect" /\ mode' \in {"own", "secondary", "handover"}
        /\ counter' = -1 /\ job' = NoJob
        /\ pendingLc' = "NONE" /\ signal' = "NONE" /\ held' = 0
        /\ ext' \in [alc : AlcStates, cmd : {"NONE"}, prepare : {NoTime}]
    BY DEF EnterAlcc, LaneInv, TypeOK
  <1>2. ok' = FALSE /\ open' = FALSE /\ cancelled' = FALSE /\ lateral' = lateral
    BY Zenon DEF EnterAlcc
  <1>3. latest' = NoResult \/ latest' \in FakedResults
    BY DEF EnterAlcc
  <1>4. assist' \in {Keeping(TRUE), Keeping(FALSE)}
    BY DEF EnterAlcc
  <1>5. /\ assist'.alc = "STANDBY_ENABLE" /\ assist'.dir = "NONE"
        /\ assist' \in [alc : AlcStates, dir : Directions, origin : BOOLEAN]
    BY <1>4, KeepingType
  <1>6. /\ latest' \in {NoResult} \union ResultType
        /\ HasResult' => latest'.alc = "STANDBY_ENABLE" /\ latest'.dir = "NONE"
    BY <1>3, FakedType DEF HasResult, NoResult
  <1>7. ~HasJob' /\ job'.alc = "none"
    BY <1>1 DEF HasJob, NoJob
  <1>8. TypeOK'
    <2>1. /\ lateral' \in BOOLEAN /\ ok' \in BOOLEAN /\ open' \in BOOLEAN
          /\ cancelled' \in BOOLEAN
      BY <1>2, Zenon DEF LaneInv, TypeOK
    <2>2. /\ counter' \in -1..MaxIters
          /\ job' \in {NoJob} \union JobType
          /\ ext' \in [alc : AlcStates, cmd : Commands, prepare : NoTime..MaxPrepare]
          /\ pendingLc' \in Commands /\ signal' \in Directions /\ held' \in Nat
      BY <1>1, CycleRange DEF Commands, Directions, NoTime
    <2> QED  BY <1>1, <1>5, <1>6, <2>1, <2>2 DEF TypeOK
  <1> QED
    BY <1>1, <1>2, <1>5, <1>6, <1>7, <1>8 DEF LaneInv, CounterInv, ModeInv,
         SignalInv, OpenInv, CancelInv, Begun, SignalMatchesLaneChange,
         LaneChangeIsFinished, CancelledStaysCancelled

(* A scheduled job takes over what the invariant says of the state.        *)
LEMMA LaneCollect == LaneInv /\ Collect => LaneInv'
  <1> SUFFICES ASSUME LaneInv, Collect PROVE LaneInv'
    OBVIOUS
  <1> PICK new \in Commands :
        LET pend == IF new = "NONE" THEN pendingLc ELSE new
            tick == (counter + 1) % (MaxIters + 1)
        IN /\ ext' = [ext EXCEPT !.prepare = Older(@)]
           /\ \/ /\ mode # "handover" /\ tick = 0
                 /\ \E origin \in OriginPaths :
                      /\ assist' = [assist EXCEPT !.origin = origin]
                      /\ job' = NewJob(pend, ext'.prepare, origin)
                 /\ counter' = tick /\ pendingLc' = "NONE"
              \/ /\ mode = "handover" \/ tick # 0
                 /\ counter' = IF mode = "handover" THEN counter ELSE tick
                 /\ pendingLc' = pend
                 /\ UNCHANGED <<assist, job>>
    BY DEF Collect
  <1> DEFINE pend == IF new = "NONE" THEN pendingLc ELSE new
             tick == (counter + 1) % (MaxIters + 1)
  <1>1. /\ pc = "collect" /\ pc' = "retrieve"
        /\ UNCHANGED <<mode, latest, lateral, signal, ok, open, cancelled, held>>
    BY DEF Collect, history
  <1>2. /\ ext'.alc = ext.alc /\ ext'.cmd = ext.cmd
        /\ ext' \in [alc : AlcStates, cmd : Commands, prepare : NoTime..MaxPrepare]
    BY OlderRange DEF LaneInv, TypeOK
  <1>3. counter \in -1..MaxIters /\ tick \in 0..MaxIters
        /\ (counter = -1 => tick = 0)
    <2>1. counter \in -1..MaxIters /\ MaxIters \in Nat \ {0}
      BY CycleRange DEF LaneInv, TypeOK
    <2> QED  BY <2>1
  <1>4. pend \in Commands
    BY DEF LaneInv, TypeOK
  <1> HIDE DEF pend, tick
  <1>5. CASE /\ mode # "handover" /\ tick = 0
             /\ \E origin \in OriginPaths :
                  /\ assist' = [assist EXCEPT !.origin = origin]
                  /\ job' = NewJob(pend, ext'.prepare, origin)
             /\ counter' = tick /\ pendingLc' = "NONE"
    <2>1. PICK origin \in OriginPaths :
             /\ assist' = [assist EXCEPT !.origin = origin]
             /\ job' = NewJob(pend, ext'.prepare, origin)
      BY <1>5
    <2>2. origin \in BOOLEAN /\ (origin # assist.origin => mode = "secondary")
      BY DEF OriginPaths, LaneInv, TypeOK
    <2>3. /\ assist' \in [alc : AlcStates, dir : Directions, origin : BOOLEAN]
          /\ assist'.alc = assist.alc /\ assist'.dir = assist.dir
          /\ assist'.origin = origin
      BY <2>1, <2>2 DEF LaneInv, TypeOK
    <2>4. /\ job' \in JobType
          /\ job'.alc = assist.alc /\ job'.cmd = ext.cmd /\ job'.origin = origin
      BY <1>2, <1>4, <2>1, <2>2 DEF NewJob, JobType, LaneInv, TypeOK
    <2>5. HasJob'
      BY <2>4 DEF HasJob, JobType, AlcStates
    <2>6. TypeOK'
      BY <1>1, <1>2, <1>3, <1>5, <2>3, <2>4 DEF LaneInv, TypeOK, Commands
    <2> QED
      BY <1>1, <1>2, <1>3, <1>5, <2>2, <2>3, <2>4, <2>5, <2>6
      DEF LaneInv, CounterInv, ModeInv, SignalInv, OpenInv, CancelInv,
          HasResult, SignalMatchesLaneChange, LaneChangeIsFinished,
          CancelledStaysCancelled, Resets, NeedOriginLanePath
  <1>6. CASE /\ mode = "handover" \/ tick # 0
             /\ counter' = IF mode = "handover" THEN counter ELSE tick
             /\ pendingLc' = pend
             /\ UNCHANGED <<assist, job>>
    <2>1. TypeOK'
      BY <1>1, <1>2, <1>3, <1>4, <1>6 DEF LaneInv, TypeOK
    <2>2. CounterInv'
      BY <1>3, <1>6 DEF LaneInv, CounterInv, HasJob
    <2> QED
      BY <1>1, <1>2, <1>6, <2>1, <2>2
      DEF LaneInv, ModeInv, SignalInv, OpenInv, CancelInv, HasJob, HasResult,
          SignalMatchesLaneChange, LaneChangeIsFinished,
          CancelledStaysCancelled, Resets
  <1> QED  BY <1>5, <1>6 DEF pend, tick

(* A frame that goes on with the result it has.                            *)
LEMMA LaneTakeNothing == LaneInv /\ TakeNothing => LaneInv'
  BY DEF TakeNothing, LaneInv, TypeOK, CounterInv, ModeInv, SignalInv, OpenInv,
         CancelInv, HasJob, HasResult, SignalMatchesLaneChange,
         LaneChangeIsFinished, CancelledStaysCancelled, Resets, driver, output,
         history

(* A frame that fails without a result leaves lane keeping behind, and the *)
(* published command as it was.                                            *)
LEMMA Failure ==
    ASSUME FailWithoutResult
    PROVE  /\ assist'.alc = "STANDBY_ENABLE" /\ assist'.dir = "NONE"
           /\ assist' \in [alc : AlcStates, dir : Directions, origin : BOOLEAN]
           /\ ~assist'.origin
           /\ signal' = "NONE" /\ held' = 0 /\ ext' = ext
           /\ ok' \in BOOLEAN /\ ~ok' /\ open' \in BOOLEAN /\ ~open'
           /\ cancelled' = cancelled
  <1>1. assist' = Keeping(FALSE) /\ signal' = "NONE" /\ held' = 0 /\ ext' = ext
    BY DEF FailWithoutResult, ClearPrevEstPlannerState
  <1>2. ok' = FALSE /\ open' = FALSE /\ cancelled' = cancelled
    BY Zenon DEF FailWithoutResult
  <1> QED  BY <1>1, <1>2, KeepingType, Zenon

(* The state after such a frame, whoever's job was taken.                  *)
LEMMA LaneFailure ==
    ASSUME LaneInv, FailWithoutResult, pc' = "collect", latest' = NoResult,
           pc = "plan" => latest = NoResult,
           mode' \in {"own", "secondary", "handover"},
           mode' # "own" => mode # "own",
           counter' \in -1..MaxIters, job' \in {job, NoJob},
           HasJob' <=> counter' # -1,
           pendingLc' = pendingLc, lateral' = lateral
    PROVE  LaneInv'
  <1>1. ~HasResult'
    BY DEF HasResult, NoResult
  <1>2. pc = "plan" => ~HasResult
    BY DEF HasResult, NoResult
  <1>3. HasJob' => HasJob /\ job' = job
    BY DEF HasJob, NoJob
  <1>4. job'.alc = "none" \/ job' = job
    BY DEF NoJob
  <1>5. TypeOK'
    <2>1. lateral' \in BOOLEAN /\ cancelled' \in BOOLEAN
      BY Failure, Zenon DEF LaneInv, TypeOK
    <2>2. signal' \in Directions /\ held' \in Nat
      BY Failure DEF Directions
    <2> QED  BY Failure, <2>1, <2>2 DEF LaneInv, TypeOK
  <1> QED
    BY Failure, <1>1, <1>2, <1>3, <1>4, <1>5
    DEF LaneInv, CounterInv, ModeInv, SignalInv, OpenInv, CancelInv, Begun,
        Changing, SignalMatchesLaneChange, LaneChangeIsFinished, CancelledStaysCancelled

(* The result of the task's own job.                                       *)
LEMMA LaneTakeResult ==
    ASSUME LaneInv, pc = "retrieve", HasJob, TakeResult,
           job' = NoJob, counter' = -1, mode' = "own",
           pendingLc' = pendingLc, lateral' = lateral
    PROVE  LaneInv'
  <1>1. job \in JobType /\ latest' \in Results(job)
    BY Present DEF LaneInv, TakeResult
  <1>2. /\ pc' = "plan"
        /\ UNCHANGED <<assist, ext, signal, ok, held>>
    BY DEF TakeResult, output
  <1>3. latest' \in ResultType
    BY <1>1, ResultTyped
  <1>4. HasResult' /\ ~HasJob' /\ job'.alc = "none"
    BY <1>3 DEF HasResult, HasJob, NoJob, ResultType, AlcStates
  <1>5. /\ latest'.alc \in Begun => latest'.dir \in LeftRight /\ latest'.cmd = latest'.dir
        /\ latest'.alc \notin Begun => latest'.dir = "NONE"
        /\ latest'.alc \in Begun /\ job.alc \in Begun => latest'.dir = job.cmd
    BY <1>1, ResultDirection DEF LaneInv, SignalInv
  <1>6. open' => /\ ~Resets(job)
                 /\ open \/ (job.alc \notin Begun /\ latest'.alc = "ONGOING")
    BY DEF TakeResult
  <1>7. cancelled' =>
          \/ Resets(job) /\ cancelled
          \/ HandleNewLaneChangeCommand(job) = "NONE" /\ cancelled
          \/ HandleNewLaneChangeCommand(job) = "CANCEL"
    BY DEF TakeResult
  <1>8. open' \in BOOLEAN /\ cancelled' \in BOOLEAN
    <2>1. open \in BOOLEAN /\ cancelled \in BOOLEAN
      BY DEF LaneInv, TypeOK
    <2> QED  BY <2>1, Zenon DEF TakeResult
  <1>9. TypeOK'
    BY <1>2, <1>3, <1>8, CycleRange DEF LaneInv, TypeOK
  <1>10. CounterInv' /\ ModeInv' /\ SignalInv'
    <2>1. CounterInv' /\ ModeInv'
      BY <1>4 DEF CounterInv, ModeInv
    <2>2. job'.alc \notin Begun
      BY <1>4 DEF Begun
    <2>3. SignalInv'
      BY <1>2, <1>5, <2>2 DEF LaneInv, SignalInv, SignalMatchesLaneChange
    <2> QED  BY <2>1, <2>3
  <1>11. OpenInv'
    <2>1. ASSUME open' PROVE latest'.alc \in Returning
      <3>1. CASE open
        BY <1>1, <1>6, <2>1, <3>1, ResultOfOpen DEF LaneInv, OpenInv
      <3>2. CASE ~open
        BY <1>6, <2>1, <3>2 DEF Returning, Begun
      <3> QED  BY <3>1, <3>2
    <2>2. ASSUME open' PROVE \/ assist.dir = "NONE" \/ latest'.dir = "NONE"
                             \/ assist.dir = latest'.dir
      <3>1. CASE latest'.alc \notin Begun
        BY <1>5, <3>1
      <3>2. CASE latest'.alc \in Begun /\ job.alc \in Begun /\ open
        BY <1>5, <3>2 DEF LaneInv, OpenInv
      <3>3. CASE latest'.alc \in Begun /\ job.alc \notin Begun /\ open
        <4>1. job.alc = "RETURNING"
          BY <3>3 DEF LaneInv, OpenInv, Returning
        <4> QED  BY <1>1, <1>6, <2>2, <3>3, <4>1, ResultOfOpen
      <3>4. CASE latest'.alc \in Begun /\ ~open
        <4>1. ~Resets(job) /\ job.alc \notin Begun
          BY <1>6, <2>2, <3>4
        <4>2. job.alc # "COMPLETED"
          BY <1>1, <3>4, <4>1, ResultOfOpen
        <4> QED  BY <4>1, <4>2 DEF LaneInv, OpenInv
      <3> QED  BY <3>1, <3>2, <3>3, <3>4
    <2> QED  BY <1>2, <1>4, <2>1, <2>2 DEF OpenInv, LaneChangeIsFinished
  <1>12. CancelInv'
    <2>1. ASSUME cancelled'
          PROVE  /\ latest'.alc \notin Changing /\ latest'.cmd \notin LeftRight
                 /\ ext.cmd \notin LeftRight \/ latest'.cmd # NoPlc
      <3>1. CASE cancelled
        <4>1. /\ job.alc \notin Changing /\ job.cmd \notin LeftRight
              /\ ext.cmd \notin LeftRight
          BY <3>1 DEF LaneInv, CancelInv
        <4> QED  BY <1>1, <1>7, <2>1, <4>1, ResultOfCancelled
      <3>2. CASE ~cancelled
        <4>1. HandleNewLaneChangeCommand(job) = "CANCEL"
          BY <1>7, <2>1, <3>2
        <4>2. latest'.cmd # NoPlc
          <5>1. latest'.cmd = PlcCommand(job, latest')
            BY <1>1, JobBranch
          <5>2. PlannedCommand(job) \in {"NONE", "CANCEL"}
                /\ (~Resets(job) => PlannedCommand(job) = "CANCEL")
            BY <4>1 DEF LaneChangeCommand
          <5> QED  BY <5>1, <5>2 DEF PlcCommand, NoPlc
        <4> QED  BY <1>1, <4>1, <4>2, ResultOfCancelled
      <3> QED  BY <3>1, <3>2
    <2> QED  BY <1>2, <1>4, <2>1 DEF CancelInv, CancelledStaysCancelled
  <1> QED  BY <1>9, <1>10, <1>11, <1>12 DEF LaneInv

LEMMA LaneTakeOwn == LaneInv /\ TakeOwnJob => LaneInv'
  <1> SUFFICES ASSUME LaneInv, TakeOwnJob PROVE LaneInv'
    OBVIOUS
  <1>1. /\ pc = "retrieve" /\ job' = NoJob /\ counter' = -1 /\ mode' = "own"
        /\ pendingLc' = pendingLc /\ lateral' = lateral
    BY DEF TakeOwnJob, driver
  <1>2. HasJob
    BY DEF TakeOwnJob, LaneInv, TypeOK, CounterInv
  <1>3. ~HasJob'
    BY <1>1 DEF HasJob, NoJob
  <1>4. CASE TakeResult
    BY <1>1, <1>2, <1>4, LaneTakeResult
  <1>5. CASE latest' = NoResult /\ pc' = "collect" /\ FailWithoutResult
    BY <1>1, <1>3, <1>5, CycleRange, LaneFailure
  <1> QED  BY <1>4, <1>5 DEF TakeOwnJob

(* The result of the task before: it has no lane change.                   *)
LEMMA LaneTakeForeign == LaneInv /\ TakeForeignJob => LaneInv'
  <1> SUFFICES ASSUME LaneInv, TakeForeignJob PROVE LaneInv'
    OBVIOUS
  <1>1. /\ pc = "retrieve" /\ mode = "handover" /\ mode' = "secondary"
        /\ UNCHANGED <<counter, job, pendingLc, lateral>>
    BY DEF TakeForeignJob, driver
  <1>2. HasJob' <=> HasJob
    BY <1>1 DEF HasJob
  <1>3. CASE pc' = "plan" /\ latest' \in FakedResults /\ UNCHANGED <<output, history>>
    <2>1. latest' \in ResultType /\ latest'.alc = "STANDBY_ENABLE"
          /\ latest'.dir = "NONE"
      BY <1>3, FakedType
    <2>2. TypeOK'
      BY <1>1, <1>3, <2>1 DEF LaneInv, TypeOK, output, history
    <2> QED
      BY <1>1, <1>2, <1>3, <2>1, <2>2
      DEF LaneInv, CounterInv, ModeInv, SignalInv, OpenInv, CancelInv,
          HasResult, Begun, SignalMatchesLaneChange, LaneChangeIsFinished,
          CancelledStaysCancelled, Resets, output, history
  <1>4. CASE latest' = NoResult /\ pc' = "collect" /\ FailWithoutResult
    <2>1. counter' \in -1..MaxIters /\ (HasJob' <=> counter' # -1)
      BY <1>1, <1>2 DEF LaneInv, TypeOK, CounterInv
    <2> QED  BY <1>1, <1>4, <2>1, LaneFailure
  <1> QED  BY <1>3, <1>4 DEF TakeForeignJob

(* A planned frame publishes the result's lane change, moved on with the   *)
(* vehicle.                                                                *)
LEMMA LanePlan == LaneInv /\ PlanSucceeds => LaneInv'
  <1> SUFFICES ASSUME LaneInv, PlanSucceeds PROVE LaneInv'
    OBVIOUS
  <1> PICK alc \in UpdateAlcState(latest.alc), origin \in BOOLEAN :
        LET cmd == IF alc \in {"STANDBY_ENABLE", "COMPLETED"} THEN "NONE"
                   ELSE IF latest.cmd = NoPlc THEN ext.cmd ELSE latest.cmd
        IN /\ assist' = [alc |-> alc, dir |-> latest.dir, origin |-> origin]
           /\ signal' = RunAlccTurnSignalDecider(alc, cmd)
           /\ UpdatePlc(alc, cmd)
           /\ open' = (open /\ alc \notin {"COMPLETED", "RETURN_COMPLETED"})
           /\ held' = IF alc = "PREPARE" THEN held + 1 ELSE 0
    BY DEF PlanSucceeds
  <1> DEFINE cmd == IF alc \in {"STANDBY_ENABLE", "COMPLETED"} THEN "NONE"
                    ELSE IF latest.cmd = NoPlc THEN ext.cmd ELSE latest.cmd
  <1>1. /\ pc = "plan" /\ pc' = "collect" /\ HasResult /\ latest \in ResultType
        /\ UNCHANGED <<mode, counter, job, latest, pendingLc, lateral, cancelled>>
    BY Present DEF PlanSucceeds, LaneInv, HasResult, driver
  <1>2. /\ alc \in AlcStates
        /\ alc \in Begun => latest.alc \in Begun
        /\ alc \notin Begun \union {"COMPLETED"} => latest.alc \notin Begun
        /\ alc \in Changing => latest.alc \in Changing
        /\ latest.alc \in Returning =>
             alc \in Returning \union {"COMPLETED", "RETURN_COMPLETED"}
    BY <1>1 DEF UpdateAlcState, ResultType, AlcStates, Begun, Changing, Returning
  <1>3. cmd \in Commands
    BY <1>1 DEF LaneInv, TypeOK, ResultType, Commands
  <1>4. /\ alc \in Begun => cmd = latest.dir /\ latest.dir \in LeftRight
        /\ cancelled => cmd \notin LeftRight
    <2>1. alc \in Begun => cmd = latest.dir /\ latest.dir \in LeftRight
      BY <1>1, <1>2 DEF LaneInv, SignalInv, Begun, LeftRight, NoPlc
    <2>2. cancelled => cmd \notin LeftRight
      BY <1>1 DEF LaneInv, CancelInv, LeftRight
    <2> QED  BY <2>1, <2>2
  <1>5. /\ assist'.alc = alc /\ assist'.dir = latest.dir
        /\ assist' \in [alc : AlcStates, dir : Directions, origin : BOOLEAN]
    BY <1>1, <1>2 DEF ResultType
  <1>6. /\ alc \in Begun => signal' = cmd
        /\ signal' \in Directions
    BY <1>4 DEF RunAlccTurnSignalDecider, Toward, LeftRight, Directions
  <1> HIDE DEF cmd
  <1>7. /\ ext' \in [alc : AlcStates, cmd : Commands, prepare : NoTime..MaxPrepare]
        /\ \/ ext'.alc = alc /\ ext'.cmd = cmd
           \/ alc = "PREPARE" /\ ext'.alc = "STANDBY_ENABLE" /\ ext'.cmd = "NONE"
    <2>1. UpdatePlc(alc, cmd)
      BY DEF cmd
    <2>2. /\ ext \in [alc : AlcStates, cmd : Commands, prepare : NoTime..MaxPrepare]
          /\ "STANDBY_ENABLE" \in AlcStates /\ "NONE" \in Commands
      BY DEF LaneInv, TypeOK, AlcStates, Commands
    <2>3. PrepareTime(alc) \in NoTime..MaxPrepare
      BY <2>2 DEF PrepareTime, NoTime
    <2> QED  BY <1>2, <1>3, <2>1, <2>2, <2>3 DEF UpdatePlc, NoTime
  <1>8. /\ open' \in BOOLEAN
        /\ open' <=> open /\ alc \notin {"COMPLETED", "RETURN_COMPLETED"}
    BY Zenon DEF LaneInv, TypeOK
  <1>9. ok' \in BOOLEAN
    BY Zenon DEF PlanSucceeds
  <1>10. TypeOK'
    BY <1>1, <1>5, <1>6, <1>7, <1>8, <1>9 DEF LaneInv, TypeOK
  <1>11. (HasJob' <=> HasJob) /\ HasResult'
    BY <1>1 DEF HasJob, HasResult
  <1>12. CounterInv' /\ ModeInv'
    BY <1>1, <1>8, <1>11 DEF LaneInv, CounterInv, ModeInv
  <1>13. SignalInv'
    BY <1>1, <1>2, <1>4, <1>5, <1>6, <1>7, <1>11
    DEF LaneInv, SignalInv, SignalMatchesLaneChange, Begun
  <1>14. OpenInv'
    <2>1. Resets(job)' <=> Resets(job)
      BY <1>1 DEF Resets
    <2>2. open' => open /\ alc \in Returning
      BY <1>2, <1>8 DEF LaneInv, OpenInv, Returning, Begun
    <2>3. alc \notin Begun \union {"COMPLETED"} => latest.dir = "NONE"
      BY <1>1, <1>2 DEF LaneInv, SignalInv
    <2>4. LaneChangeIsFinished'
      BY <1>7, <2>2 DEF LaneChangeIsFinished, Returning, Begun
    <2> QED  BY <1>1, <1>5, <1>11, <2>1, <2>2, <2>3, <2>4 DEF LaneInv, OpenInv
  <1>15. CancelInv'
    BY <1>1, <1>2, <1>4, <1>5, <1>7, <1>11
    DEF LaneInv, CancelInv, CancelledStaysCancelled, Changing, Begun, LeftRight
  <1> QED  BY <1>10, <1>12, <1>13, <1>14, <1>15 DEF LaneInv

(* A frame that fails with a result also drops the command.                *)
LEMMA LanePlanFails == LaneInv /\ PlanFails => LaneInv'
  <1> SUFFICES ASSUME LaneInv, PlanFails PROVE LaneInv'
    OBVIOUS
  <1>1. /\ pc = "plan" /\ pc' = "collect" /\ HasResult
        /\ UNCHANGED <<mode, counter, job, latest, pendingLc, lateral, cancelled>>
    BY Present DEF PlanFails, LaneInv, HasResult, driver
  <1>2. ok' = FALSE /\ open' = FALSE
    BY Zenon DEF PlanFails
  <1>3. /\ assist'.alc = "STANDBY_ENABLE" /\ assist'.dir = "NONE"
        /\ assist' \in [alc : AlcStates, dir : Directions, origin : BOOLEAN]
        /\ ~assist'.origin
    BY KeepingType DEF PlanFails, ClearPrevEstPlannerState
  <1>4. /\ ext' \in [alc : AlcStates, cmd : Commands, prepare : NoTime..MaxPrepare]
        /\ ext'.cmd = "NONE" \/ (latest.cmd = NoPlc /\ ext'.cmd = ext.cmd)
    BY DEF PlanFails, LaneInv, TypeOK, AlcStates, Commands, NoTime
  <1>5. TypeOK'
    <2>1. ok' \in BOOLEAN /\ open' \in BOOLEAN
      BY <1>2, Zenon
    <2>2. signal' \in Directions /\ held' \in Nat
      BY DEF PlanFails, Directions
    <2> QED  BY <1>1, <1>3, <1>4, <2>1, <2>2 DEF LaneInv, TypeOK
  <1>6. (HasJob' <=> HasJob) /\ HasResult'
    BY <1>1 DEF HasJob, HasResult
  <1>7. Resets(job)' <=> Resets(job)
    BY <1>1 DEF Resets
  <1> QED
    BY <1>1, <1>2, <1>3, <1>4, <1>5, <1>6, <1>7
    DEF LaneInv, CounterInv, ModeInv, SignalInv, OpenInv, CancelInv, Begun,
        Changing, LeftRight, SignalMatchesLaneChange, LaneChangeIsFinished,
        CancelledStaysCancelled

(* Without a result nothing is open or cancelled before the task's first   *)
(* one, and later the frame fails.                                         *)
LEMMA LaneNoResult == LaneInv /\ PlanWithoutResult => LaneInv'
  <1> SUFFICES ASSUME LaneInv, PlanWithoutResult PROVE LaneInv'
    OBVIOUS
  <1>1. /\ pc = "plan" /\ pc' = "collect" /\ latest = NoResult
        /\ UNCHANGED <<mode, counter, job, latest, pendingLc, lateral>>
    BY DEF PlanWithoutResult, driver
  <1>2. ~HasResult /\ ~HasResult' /\ (HasJob' <=> HasJob)
    BY <1>1 DEF HasResult, HasJob, NoResult
  <1>3. CASE mode = "secondary"
    <2>1. /\ UNCHANGED <<assist, ext, held>> /\ signal' = "NONE"
      BY <1>3 DEF PlanWithoutResult, history
    <2>2. ok' = FALSE /\ open' = open /\ cancelled' = cancelled
      BY <1>3, Zenon DEF PlanWithoutResult, history
    <2>3. ~open /\ ~cancelled
      BY <1>3 DEF LaneInv, ModeInv
    <2>4. TypeOK'
      <3>1. ok' \in BOOLEAN /\ open' \in BOOLEAN /\ cancelled' \in BOOLEAN
        BY <2>2, Zenon DEF LaneInv, TypeOK
      <3>2. signal' \in Directions
        BY <2>1 DEF Directions
      <3> QED  BY <1>1, <2>1, <3>1, <3>2 DEF LaneInv, TypeOK
    <2>5. Resets(job)' <=> Resets(job)
      BY <1>1 DEF Resets
    <2> QED
      BY <1>1, <1>2, <2>1, <2>2, <2>3, <2>4, <2>5
      DEF LaneInv, CounterInv, ModeInv, SignalInv, OpenInv, CancelInv,
          SignalMatchesLaneChange, LaneChangeIsFinished, CancelledStaysCancelled
  <1>4. CASE mode # "secondary"
    <2>1. FailWithoutResult
      BY <1>4 DEF PlanWithoutResult
    <2>2. counter' \in -1..MaxIters /\ (HasJob' <=> counter' # -1)
          /\ mode' \in {"own", "secondary", "handover"}
      BY <1>1, <1>2 DEF LaneInv, TypeOK, CounterInv
    <2> QED  BY <1>1, <2>1, <2>2, LaneFailure
  <1> QED  BY <1>3, <1>4

LEMMA LaneNext == LaneInv /\ [Next]_vars => LaneInv'
  BY LaneIdle, LaneEnter, LaneCollect, LaneTakeOwn, LaneTakeForeign,
     LaneTakeNothing, LanePlan, LanePlanFails, LaneNoResult
  DEF Next

LEMMA LaneInvariant == Spec => []LaneInv
  BY LaneInit, LaneNext, PTL DEF Spec

-----------------------------------------------------------------------------
(* A job decides only for states a path can be planned for, and every      *)
(* variable keeps its type.                                                *)
THEOREM LaneChangeTypeCorrect == Spec => []TypeOK
  <1>1. LaneInv => TypeOK
    BY DEF LaneInv
  <1> QED  BY <1>1, LaneInvariant, PTL

(* During a lane change the direction of the path, the published command   *)
(* and the turn signal agree, whatever the age of the result a frame is    *)
(* planned from.                                                           *)
THEOREM SignalAgrees == Spec => []SignalMatchesLaneChange
  <1>1. LaneInv => SignalMatchesLaneChange
    BY DEF LaneInv, SignalInv
  <1> QED  BY <1>1, LaneInvariant, PTL

(* A begun lane change goes on, or the vehicle returns, until it is in a   *)
(* lane, although frames and jobs move the state on side by side.          *)
THEOREM LaneChangeFinished == Spec => []LaneChangeIsFinished
  <1>1. LaneInv => LaneChangeIsFinished
    BY DEF LaneInv, OpenInv
  <1> QED  BY <1>1, LaneInvariant, PTL

(* An accepted cancellation holds until another command is accepted.       *)
THEOREM CancellationHolds == Spec => []CancelledStaysCancelled
  <1>1. LaneInv => CancelledStaysCancelled
    BY DEF LaneInv, CancelInv
  <1> QED  BY <1>1, LaneInvariant, PTL

(* A lane change keeps its direction whatever the driver asks for.         *)
THEOREM DirectionKept == Spec => DirectionIsKept
  <1> DEFINE Kept == open /\ open' /\ assist.dir # "NONE" /\ assist'.dir # "NONE"
                       => assist'.dir = assist.dir
  <1>1. LaneInv /\ [Next]_vars => [Kept]_vars
    <2> SUFFICES ASSUME LaneInv, Next PROVE Kept
      OBVIOUS
    <2>1. CASE PlanSucceeds
      <3>1. assist'.dir = latest.dir
        BY <2>1 DEF PlanSucceeds
      <3> QED  BY <3>1 DEF LaneInv, OpenInv
    <2>2. CASE EnterAlcc \/ PlanFails
      <3>1. open' = FALSE
        BY <2>2, Zenon DEF EnterAlcc, PlanFails
      <3> QED  BY <3>1
    <2>3. CASE FailWithoutResult
      BY <2>3, Failure
    <2>4. CASE Collect
      <3>1. assist'.dir = assist.dir
        BY <2>4 DEF Collect, LaneInv, TypeOK
      <3> QED  BY <3>1
    <2>5. CASE UNCHANGED assist
      BY <2>5
    <2> QED
      BY <2>1, <2>2, <2>3, <2>4, <2>5
      DEF Next, DriverTakesOver, SkipFrame, TakeOwnJob, TakeResult,
          TakeForeignJob, TakeNothing, PlanWithoutResult, output
  <1> QED  BY <1>1, LaneInvariant, PTL DEF Spec, DirectionIsKept

-----------------------------------------------------------------------------
(* A lane change that is prepared.                                         *)

(* A job that ends a preparation whatever its lanes are: the time is over, *)
(* it starts from lane keeping, or it has no command to prepare for.       *)
Ending(j) ==
    \/ j.expired
    \/ Resets(j)
    \/ j.alc = "PREPARE" /\ j.cmd \notin LeftRight

(* The age the preparation may have reached when the job is scheduled.     *)
Allowed(j) == MaxPrepare + IF Ending(j) THEN MaxIters + 1 ELSE 0

(* Inside a frame: held as the frame may leave it, the age as it found it. *)
Ends == IF pc = "collect" THEN held ELSE held + 1
Ages == IF pc = "collect" THEN ext.prepare + 1 ELSE ext.prepare

(* The time of a prepared lane change is kept and grows...                 *)
Timed == ext.prepare # NoTime /\ (Ages >= held \/ ext.prepare = MaxPrepare)

(* ...unless every frame drops it with the command, because the branch is  *)
(* not valid and the flag asks for it.                                     *)
Dropped ==
    ~PrepareWhenBranchInvalid /\ latest.alc = "PREPARE" /\ latest.invalid

(* A job is scheduled and retrieved within a cycle.                        *)
CycleInv ==
    /\ counter = MaxIters => pc = "retrieve"
    /\ pc = "retrieve" => HasJob \/ mode = "handover"
    /\ mode = "handover" => counter = -1

(* What a job captures while the command is dropped ends the preparation.  *)
DropInv ==
    Dropped => /\ HasJob => Ending(job)
               /\ pc # "plan" =>
                    \/ assist.alc = "PREPARE" /\ ext.cmd \notin LeftRight
                    \/ assist.alc = "STANDBY_ENABLE" /\ ~assist.origin

(* Only the task's own results prepare.                                    *)
Prepared ==
    /\ latest.alc = "PREPARE" => mode = "own" /\ latest.cmd \in LeftRight
    /\ held > 0 => /\ mode = "own" /\ assist.alc = "PREPARE"
                   /\ \/ Timed \/ Dropped
                      \/ pc = "plan" /\ latest.alc # "PREPARE"

(* A job that does not end the preparation was scheduled before the time   *)
(* allowed was over; one that does is the next one.                        *)
Expiring ==
    /\ HasJob => Ends <= counter + Allowed(job)
    /\ ~HasJob => \/ Ends <= MaxPrepare + MaxIters
                  \/ pc = "plan" /\ latest.alc # "PREPARE"
    /\ PrepareIsBounded

PrepareInv == CycleInv /\ DropInv /\ Prepared /\ Expiring

(* What Allowed adds is one cycle, or nothing.                             *)
LEMMA AllowedIsBounded ==
    ASSUME NEW j
    PROVE  /\ Allowed(j) \in MaxPrepare..(MaxPrepare + MaxIters + 1)
           /\ ~Ending(j) => Allowed(j) = MaxPrepare
           /\ Ending(j) => Allowed(j) = MaxPrepare + MaxIters + 1
  <1>1. CASE Ending(j)
    BY <1>1, CycleRange DEF Allowed
  <1>2. CASE ~Ending(j)
    BY <1>2, CycleRange DEF Allowed
  <1> QED  BY <1>1, <1>2

(* A job that is only waited for keeps what it decides.                    *)
LEMMA SameJob ==
    ASSUME UNCHANGED job
    PROVE  /\ HasJob' <=> HasJob
           /\ Ending(job)' <=> Ending(job)
           /\ Allowed(job)' = Allowed(job)
  <1>1. Ending(job)' <=> Ending(job)
    BY DEF Ending, Resets
  <1> QED  BY <1>1 DEF HasJob, Allowed, MaxIters

(* A job that has to end the preparation does.                             *)
LEMMA EndingJobs ==
    ASSUME NEW j \in JobType, Ending(j), NEW r \in Results(j)
    PROVE  r.alc # "PREPARE"
  <1>1. PICK b \in ProcessAlcRequest(PlannedState(j), PlannedCommand(j)) :
          r.alc = IF PreparedTooLong(j, b) THEN "STANDBY_ENABLE" ELSE b.alc
    BY DEF Results, SelectedBranches, PlannedBranches, Branch
  <1>2. CASE j.expired
    BY <1>1, <1>2 DEF PreparedTooLong
  <1>3. CASE Resets(j)
    BY <1>1, <1>3 DEF ProcessAlcRequest, InitiateAlc, Branch, LeftRight
  <1>4. CASE ~Resets(j) /\ j.alc = "PREPARE" /\ j.cmd \notin LeftRight
    <2>1. LaneChangeCommand(j) \notin LeftRight
      BY <1>4 DEF LaneChangeCommand, HandleNewLaneChangeCommand, LeftRight
    <2> QED
      BY <1>1, <1>4, <2>1 DEF ProcessAlcRequest, PrepareAlc, InitiateAlc, Branch
  <1> QED  BY <1>2, <1>3, <1>4 DEF Ending

(* A result that prepares has a command to prepare for.                    *)
LEMMA PreparingJobs ==
    ASSUME NEW j \in JobType, NEW r \in Results(j), r.alc = "PREPARE"
    PROVE  r.cmd \in LeftRight
  <1>1. PICK b \in ProcessAlcRequest(PlannedState(j), PlannedCommand(j)) :
          /\ r.alc \in {b.alc, "STANDBY_ENABLE"}
          /\ r.cmd = PlcCommand(j, r)
    BY JobBranch
  <1>2. b.alc = "PREPARE" /\ j.alc \in AlcStates
    BY <1>1 DEF JobType
  <1>3. PlannedCommand(j) \in LeftRight
    BY <1>1, <1>2 DEF ProcessAlcRequest, PrepareAlc, InitiateAlc, ContinueAlc,
       CrossingLaneAlc, Branch, AlcStates, LeftRight
  <1>4. PlannedCommand(j) # "NONE"
    BY <1>3 DEF LeftRight
  <1> QED  BY <1>1, <1>3, <1>4 DEF PlcCommand

(* Without a lane change to prepare, nothing of one is left.               *)
LEMMA NothingPrepared ==
    ASSUME LaneInv', pc' = "collect", held' = 0, latest'.alc # "PREPARE",
           counter' # MaxIters, mode' = "handover" => counter' = -1
    PROVE  PrepareInv'
  <1>1. counter' \in -1..MaxIters /\ (HasJob' <=> counter' # -1)
    BY DEF LaneInv, TypeOK, CounterInv, MaxIters
  <1>2. Ends' = 0
    BY DEF Ends
  <1>3. Allowed(job') \in Nat /\ MaxIters \in Nat
    BY AllowedIsBounded, CycleRange
  <1>4. Allowed(job)' = Allowed(job')
    BY DEF Allowed, Ending, Resets, MaxIters
  <1>5. HasJob' => Ends' <= counter' + Allowed(job')
    BY <1>1, <1>2, <1>3
  <1>6. Ends' <= MaxPrepare + MaxIters /\ held' <= MaxPrepare + 2 * MaxIters
    BY <1>2, <1>3
  <1> QED
    BY <1>4, <1>5, <1>6 DEF PrepareInv, CycleInv, DropInv, Dropped, Prepared,
       Expiring, PrepareIsBounded, MaxIters

(* A job is scheduled when the one before it was retrieved.                *)
LEMMA PrepareScheduled ==
    ASSUME LaneInv, PrepareInv, Collect, LaneInv'
    PROVE  PrepareInv'
  <1> PICK new \in Commands :
        LET pend == IF new = "NONE" THEN pendingLc ELSE new
            tick == (counter + 1) % (MaxIters + 1)
        IN /\ ext' = [ext EXCEPT !.prepare = Older(@)]
           /\ \/ /\ mode # "handover" /\ tick = 0
                 /\ \E origin \in OriginPaths :
                      /\ assist' = [assist EXCEPT !.origin = origin]
                      /\ job' = NewJob(pend, ext'.prepare, origin)
                 /\ counter' = tick /\ pendingLc' = "NONE"
              \/ /\ mode = "handover" \/ tick # 0
                 /\ counter' = IF mode = "handover" THEN counter ELSE tick
                 /\ pendingLc' = pend
                 /\ UNCHANGED <<assist, job>>
    BY DEF Collect
  <1> DEFINE pend == IF new = "NONE" THEN pendingLc ELSE new
             tick == (counter + 1) % (MaxIters + 1)
  <1>1. /\ pc = "collect" /\ pc' = "retrieve"
        /\ UNCHANGED <<mode, latest, lateral, held>>
    BY DEF Collect, history
  <1>2. /\ MaxIters \in Nat \ {0} /\ MaxPrepare \in Nat \ {0}
        /\ held \in Nat /\ ext.prepare \in NoTime..MaxPrepare
        /\ counter \in -1..MaxIters - 1
    BY <1>1, CycleRange DEF LaneInv, TypeOK, PrepareInv, CycleInv
  <1>3. tick = counter + 1
    BY <1>2
  <1>4. /\ ext'.cmd = ext.cmd /\ ext'.prepare = Older(ext.prepare)
        /\ Ends = held /\ Ends' = held + 1
    BY <1>1 DEF LaneInv, TypeOK, Ends
  <1>5. Timed /\ held > 0 =>
          /\ Timed'
          /\ held >= MaxPrepare => ext'.prepare = MaxPrepare
    BY <1>1, <1>2, <1>4 DEF Timed, Ages, Older, NoTime
  <1>6. Dropped' <=> Dropped
    BY <1>1 DEF Dropped
  <1>7. Prepared /\ assist'.alc = assist.alc => Prepared'
    BY <1>1, <1>2, <1>5, <1>6 DEF Prepared
  <1>8. PrepareIsBounded'
    BY <1>1, <1>2 DEF PrepareInv, Expiring, PrepareIsBounded, MaxIters
  <1> HIDE DEF pend, tick
  <1>9. CASE /\ mode # "handover" /\ tick = 0
             /\ \E origin \in OriginPaths :
                  /\ assist' = [assist EXCEPT !.origin = origin]
                  /\ job' = NewJob(pend, ext'.prepare, origin)
             /\ counter' = tick /\ pendingLc' = "NONE"
    <2>1. PICK origin \in OriginPaths :
             /\ assist' = [assist EXCEPT !.origin = origin]
             /\ job' = NewJob(pend, ext'.prepare, origin)
      BY <1>9
    <2>2. /\ assist'.alc = assist.alc /\ assist'.origin = origin
          /\ job'.alc = assist.alc /\ job'.cmd = ext.cmd /\ job'.origin = origin
          /\ job'.expired <=> ext'.prepare = MaxPrepare
      BY <2>1 DEF NewJob, LaneInv, TypeOK
    <2>3. HasJob' /\ counter' = 0 /\ ~HasJob
      <3>1. HasJob'
        BY <2>2 DEF HasJob, LaneInv, TypeOK, AlcStates
      <3> QED  BY <1>2, <1>3, <1>9, <3>1 DEF LaneInv, CounterInv
    <2>4. Dropped => Ending(job')
      <3>1. Dropped => mode = "own"
        BY DEF Dropped, PrepareInv, Prepared
      <3>2. mode = "own" => origin = assist.origin
        BY DEF OriginPaths
      <3>3. Dropped => \/ assist.alc = "PREPARE" /\ ext.cmd \notin LeftRight
                       \/ assist.alc = "STANDBY_ENABLE" /\ ~assist.origin
        BY <1>1 DEF PrepareInv, DropInv
      <3> QED
        BY <2>2, <3>1, <3>2, <3>3
        DEF Ending, Resets, NeedOriginLanePath, Begun
    <2>5. held >= MaxPrepare => Ending(job')
      <3>1. held > 0 => Timed \/ Dropped
        BY <1>1 DEF PrepareInv, Prepared
      <3> QED  BY <1>2, <1>5, <2>2, <2>4, <3>1 DEF Ending
    <2>6. held <= MaxPrepare + MaxIters
      BY <1>1, <1>4, <2>3 DEF PrepareInv, Expiring
    <2>7. Ends' <= counter' + Allowed(job')
      BY <1>2, <1>4, <2>3, <2>5, <2>6, AllowedIsBounded
    <2>8. Allowed(job)' = Allowed(job') /\ (Ending(job)' <=> Ending(job'))
      BY DEF Allowed, Ending, Resets, MaxIters
    <2>9. Expiring'
      BY <1>8, <2>3, <2>7, <2>8 DEF Expiring
    <2>10. CycleInv'
      BY <1>1, <1>2, <1>9, <2>3 DEF CycleInv, MaxIters
    <2>11. DropInv'
      <3>1. Dropped => mode = "own" /\ origin = assist.origin
        BY DEF Dropped, PrepareInv, Prepared, OriginPaths
      <3> QED
        BY <1>1, <1>4, <1>6, <2>2, <2>4, <2>8, <3>1 DEF PrepareInv, DropInv
    <2> QED  BY <1>7, <2>2, <2>9, <2>10, <2>11 DEF PrepareInv
  <1>10. CASE /\ mode = "handover" \/ tick # 0
              /\ counter' = IF mode = "handover" THEN counter ELSE tick
              /\ pendingLc' = pend
              /\ UNCHANGED <<assist, job>>
    <2>1. /\ HasJob' <=> HasJob
          /\ Ending(job)' <=> Ending(job)
          /\ Allowed(job)' = Allowed(job)
      BY <1>10, SameJob
    <2>2. HasJob <=> counter # -1
      BY DEF LaneInv, CounterInv
    <2>3. mode = "handover" => counter = -1
      BY DEF PrepareInv, CycleInv
    <2>4. HasJob => Ends' <= counter' + Allowed(job)
      <3>1. HasJob => held <= counter + Allowed(job)
        BY <1>4 DEF PrepareInv, Expiring
      <3> QED  BY <1>2, <1>3, <1>4, <1>10, <2>2, <2>3, <3>1, AllowedIsBounded
    <2>5. ~HasJob => Ends' <= MaxPrepare + MaxIters
      <3>1. ~HasJob => mode = "handover"
        BY <1>2, <1>3, <1>10, <2>2
      <3>2. mode = "handover" => held = 0
        BY <1>2 DEF PrepareInv, Prepared
      <3> QED  BY <1>2, <1>4, <3>1, <3>2
    <2>6. Expiring'
      BY <1>8, <2>1, <2>4, <2>5 DEF Expiring, MaxIters
    <2>7. CycleInv'
      BY <1>1, <1>2, <1>3, <1>10, <2>1, <2>2, <2>3 DEF CycleInv
    <2>8. DropInv'
      BY <1>1, <1>4, <1>6, <1>10, <2>1 DEF PrepareInv, DropInv
    <2> QED  BY <1>7, <1>10, <2>6, <2>7, <2>8 DEF PrepareInv
  <1> QED  BY <1>9, <1>10 DEF pend, tick

(* A result prepares only if its job did not have to end it.               *)
LEMMA PrepareRetrieved ==
    ASSUME LaneInv, PrepareInv, TakeOwnJob, LaneInv'
    PROVE  PrepareInv'
  <1>1. /\ pc = "retrieve" /\ job' = NoJob /\ counter' = -1 /\ mode' = "own"
        /\ MaxIters \in Nat \ {0}
    BY CycleRange DEF TakeOwnJob
  <1>2. HasJob /\ ~HasJob' /\ counter \in 0..MaxIters
    <2>1. HasJob
      BY DEF TakeOwnJob, PrepareInv, CycleInv
    <2> QED
      BY <1>1, <2>1 DEF LaneInv, TypeOK, CounterInv, HasJob, NoJob
  <1>3. CASE latest' = NoResult /\ pc' = "collect" /\ FailWithoutResult
    <2>1. latest'.alc # "PREPARE" /\ counter' # MaxIters
      BY <1>1, <1>3 DEF NoResult
    <2> QED  BY <1>1, <1>3, <2>1, Failure, NothingPrepared DEF MaxIters
  <1>4. CASE TakeResult
    <2>1. /\ pc' = "plan" /\ latest' \in Results(job) /\ job \in JobType
          /\ UNCHANGED <<assist, ext, held>>
      BY <1>2, <1>4, Present DEF TakeResult, output, LaneInv
    <2>2. /\ held \in Nat /\ Ends = held + 1 /\ Ends' = held + 1
          /\ MaxPrepare \in Nat \ {0}
      BY <1>1, <2>1 DEF LaneInv, TypeOK, Ends
    <2>3. Ending(job) => latest'.alc # "PREPARE"
      BY <2>1, EndingJobs
    <2>4. ~Ending(job) => Ends' <= MaxPrepare + MaxIters
      <3>1. Ends <= counter + Allowed(job)
        BY <1>2 DEF PrepareInv, Expiring
      <3> QED  BY <1>1, <1>2, <2>2, <3>1, AllowedIsBounded
    <2>5. Expiring'
      BY <1>2, <2>1, <2>3, <2>4
      DEF PrepareInv, Expiring, PrepareIsBounded, MaxIters
    <2>6. CycleInv' /\ DropInv'
      BY <1>1, <1>2, <2>1 DEF CycleInv, DropInv, MaxIters
    <2>7. latest'.alc = "PREPARE" => latest'.cmd \in LeftRight
      BY <2>1, PreparingJobs
    <2>8. Timed' <=> Timed
      BY <1>1, <2>1 DEF Timed, Ages
    <2>9. Dropped => latest'.alc # "PREPARE"
      BY <1>2, <2>3 DEF PrepareInv, DropInv
    <2>10. Prepared'
      BY <1>1, <2>1, <2>7, <2>8, <2>9 DEF PrepareInv, Prepared
    <2> QED  BY <2>5, <2>6, <2>10 DEF PrepareInv
  <1> QED  BY <1>3, <1>4 DEF TakeOwnJob

(* Another task's result does not prepare.                                 *)
LEMMA PrepareForeign ==
    ASSUME LaneInv, PrepareInv, TakeForeignJob, LaneInv'
    PROVE  PrepareInv'
  <1>1. /\ pc = "retrieve" /\ mode = "handover" /\ mode' = "secondary"
        /\ UNCHANGED <<counter, job>> /\ counter = -1
    BY DEF TakeForeignJob, PrepareInv, CycleInv
  <1>2. held = 0 /\ MaxIters \in Nat \ {0}
    BY <1>1, CycleRange DEF PrepareInv, Prepared, LaneInv, TypeOK
  <1>3. CASE latest' = NoResult /\ pc' = "collect" /\ FailWithoutResult
    <2>1. latest'.alc # "PREPARE" /\ counter' # MaxIters
      BY <1>1, <1>2, <1>3 DEF NoResult
    <2> QED  BY <1>1, <1>3, <2>1, Failure, NothingPrepared DEF MaxIters
  <1>4. CASE pc' = "plan" /\ latest' \in FakedResults /\ UNCHANGED <<output, history>>
    <2>1. latest'.alc # "PREPARE" /\ held' = 0 /\ Ends' = 1
      BY <1>2, <1>4, FakedType DEF history, Ends
    <2>2. ~HasJob'
      BY <1>1 DEF LaneInv, CounterInv
    <2>3. Expiring'
      BY <1>2, <1>4, <2>1, <2>2 DEF Expiring, PrepareIsBounded, MaxIters
    <2> QED
      BY <1>1, <1>2, <1>4, <2>1, <2>3
      DEF PrepareInv, CycleInv, DropInv, Dropped, Prepared, MaxIters
  <1> QED  BY <1>3, <1>4 DEF TakeForeignJob

(* A frame that finds no result makes the job older.                       *)
LEMMA PrepareWaits ==
    ASSUME LaneInv, PrepareInv,
           TakeNothing \/ SkipFrame \/ DriverTakesOver \/ UNCHANGED vars
    PROVE  PrepareInv'
  <1>1. /\ UNCHANGED <<mode, counter, job, latest, assist, held>>
        /\ ext'.cmd = ext.cmd
        /\ \/ UNCHANGED <<pc, ext>>
           \/ pc = "collect" /\ pc' = "collect" /\ ext'.prepare = Older(ext.prepare)
           \/ /\ pc = "retrieve" /\ pc' = "plan" /\ UNCHANGED ext
              /\ mode = "handover" \/ counter < MaxIters
    BY DEF TakeNothing, SkipFrame, DriverTakesOver, vars, driver, output,
       history, LaneInv, TypeOK
  <1>2. /\ MaxIters \in Nat \ {0} /\ MaxPrepare \in Nat \ {0}
        /\ held \in Nat /\ ext.prepare \in NoTime..MaxPrepare
        /\ counter \in -1..MaxIters
    BY CycleRange DEF LaneInv, TypeOK
  <1>3. /\ HasJob' <=> HasJob
        /\ Ending(job)' <=> Ending(job)
        /\ Allowed(job)' = Allowed(job)
    BY <1>1, SameJob
  <1>4. Timed /\ held > 0 => Timed'
    BY <1>1, <1>2 DEF Timed, Ages, Older, NoTime
  <1>5. Dropped' <=> Dropped
    BY <1>1 DEF Dropped
  <1>6. Prepared'
    BY <1>1, <1>4, <1>5 DEF PrepareInv, Prepared
  <1>7. CycleInv'
    BY <1>1, <1>2, <1>3 DEF PrepareInv, CycleInv, MaxIters
  <1>8. DropInv'
    BY <1>1, <1>3, <1>5 DEF PrepareInv, DropInv
  <1>9. Ends' = Ends
    BY <1>1 DEF Ends
  <1>10. Expiring'
    BY <1>1, <1>3, <1>9 DEF PrepareInv, Expiring, PrepareIsBounded, MaxIters
  <1> QED  BY <1>6, <1>7, <1>8, <1>10 DEF PrepareInv

(* A frame takes over the state of its result.                             *)
LEMMA PreparePlanned ==
    ASSUME LaneInv, PrepareInv, PlanSucceeds, LaneInv'
    PROVE  PrepareInv'
  <1> PICK alc \in UpdateAlcState(latest.alc), origin \in BOOLEAN :
        LET cmd == IF alc \in {"STANDBY_ENABLE", "COMPLETED"} THEN "NONE"
                   ELSE IF latest.cmd = NoPlc THEN ext.cmd ELSE latest.cmd
        IN /\ assist' = [alc |-> alc, dir |-> latest.dir, origin |-> origin]
           /\ UpdatePlc(alc, cmd)
           /\ held' = IF alc = "PREPARE" THEN held + 1 ELSE 0
    BY DEF PlanSucceeds
  <1>1. /\ pc = "plan" /\ pc' = "collect" /\ assist'.alc = alc
        /\ UNCHANGED <<mode, counter, job, latest>>
        /\ latest \in ResultType
    BY Present DEF PlanSucceeds, LaneInv
  <1>2. alc = "PREPARE" <=> latest.alc = "PREPARE"
    BY DEF UpdateAlcState
  <1>3. /\ MaxIters \in Nat \ {0} /\ MaxPrepare \in Nat \ {0}
        /\ held \in Nat /\ ext.prepare \in NoTime..MaxPrepare
        /\ counter \in -1..MaxIters - 1 /\ (HasJob => counter # -1)
        /\ mode = "handover" => counter = -1
    BY <1>1, CycleRange DEF LaneInv, TypeOK, CounterInv, PrepareInv, CycleInv
  <1>4. CASE alc # "PREPARE"
    <2>1. held' = 0 /\ latest'.alc # "PREPARE" /\ counter' # MaxIters
      BY <1>1, <1>2, <1>3, <1>4
    <2> QED  BY <1>1, <1>3, <2>1, NothingPrepared DEF MaxIters
  <1>5. CASE alc = "PREPARE"
    <2>1. /\ held' = held + 1 /\ latest.alc = "PREPARE"
          /\ mode = "own" /\ latest.cmd \in LeftRight
      BY <1>2, <1>5 DEF PrepareInv, Prepared
    <2>2. latest.cmd # NoPlc
      BY <2>1 DEF LeftRight, NoPlc
    <2>3. Ends' = held' /\ Ends = held'
      BY <1>1, <2>1 DEF Ends
    <2>4. /\ HasJob' <=> HasJob
          /\ Ending(job)' <=> Ending(job)
          /\ Allowed(job)' = Allowed(job)
      BY <1>1, SameJob
    <2>5. Dropped' <=> Dropped
      BY <1>1 DEF Dropped
    <2>6. ~Dropped => Timed'
      <3> SUFFICES ASSUME ~Dropped PROVE Timed'
        OBVIOUS
      <3>1. ext'.prepare = IF ext.prepare = NoTime THEN 0 ELSE ext.prepare
        BY <1>5, <2>1, <2>2 DEF UpdatePlc, PrepareTime, Dropped
      <3>2. held > 0 => Timed
        BY <2>1 DEF PrepareInv, Prepared
      <3>3. held > 0 => ext.prepare # NoTime /\
                          (ext.prepare >= held \/ ext.prepare = MaxPrepare)
        BY <1>1, <3>2 DEF Timed, Ages
      <3> QED  BY <1>1, <1>3, <2>1, <3>1, <3>3 DEF Timed, Ages, NoTime
    <2>7. Dropped => ext'.cmd = "NONE"
      BY <1>5, <2>2 DEF UpdatePlc, Dropped
    <2>8. Prepared'
      BY <1>1, <1>5, <2>1, <2>5, <2>6 DEF Prepared
    <2>9. DropInv'
      BY <1>1, <1>5, <2>4, <2>5, <2>7 DEF PrepareInv, DropInv, LeftRight
    <2>10. CycleInv'
      BY <1>1, <1>3 DEF CycleInv, MaxIters
    <2>11. Expiring'
      <3>1. HasJob => Ends' <= counter + Allowed(job)
        BY <2>3 DEF PrepareInv, Expiring
      <3>2. ~HasJob => Ends' <= MaxPrepare + MaxIters
        BY <2>1, <2>3 DEF PrepareInv, Expiring
      <3>3. held' <= MaxPrepare + 2 * MaxIters
        BY <1>3, <2>1, <2>3, <3>1, <3>2, AllowedIsBounded
      <3> QED
        BY <1>1, <2>4, <3>1, <3>2, <3>3 DEF Expiring, PrepareIsBounded, MaxIters
    <2> QED  BY <2>8, <2>9, <2>10, <2>11 DEF PrepareInv
  <1> QED  BY <1>4, <1>5

(* A frame without a plan, and a switch into ALCC.                         *)
LEMMA PrepareNotPlanned ==
    ASSUME LaneInv, PrepareInv, PlanFails \/ PlanWithoutResult \/ EnterAlcc,
           LaneInv'
    PROVE  PrepareInv'
  <1>1. MaxIters \in Nat \ {0} /\ MaxPrepare \in Nat \ {0} /\ held \in Nat
    BY CycleRange DEF LaneInv, TypeOK
  <1>2. CASE PlanFails
    <2>1. /\ pc = "plan" /\ pc' = "collect" /\ held' = 0 /\ Ends' = 0
          /\ UNCHANGED <<mode, counter, job, latest>> /\ assist' = Keeping(FALSE)
      BY <1>2 DEF PlanFails, ClearPrevEstPlannerState, Ends
    <2>2. assist'.alc = "STANDBY_ENABLE" /\ ~assist'.origin
      BY <2>1, KeepingType
    <2>3. /\ HasJob' <=> HasJob
          /\ Ending(job)' <=> Ending(job)
          /\ Allowed(job)' = Allowed(job)
      BY <2>1, SameJob
    <2>4. counter \in -1..MaxIters /\ (HasJob => counter # -1)
      BY DEF LaneInv, TypeOK, CounterInv
    <2>5. HasJob => Ends' <= counter + Allowed(job)
      BY <1>1, <2>1, <2>4, AllowedIsBounded
    <2>6. Ends' <= MaxPrepare + MaxIters /\ held' <= MaxPrepare + 2 * MaxIters
      BY <1>1, <2>1
    <2>7. Expiring'
      BY <2>1, <2>3, <2>5, <2>6 DEF Expiring, PrepareIsBounded, MaxIters
    <2>8. CycleInv'
      BY <2>1 DEF PrepareInv, CycleInv, MaxIters
    <2>9. DropInv'
      BY <2>1, <2>2, <2>3 DEF PrepareInv, DropInv, Dropped
    <2>10. Prepared'
      BY <2>1 DEF PrepareInv, Prepared
    <2> QED  BY <2>7, <2>8, <2>9, <2>10 DEF PrepareInv
  <1>3. CASE PlanWithoutResult
    <2>1. /\ pc = "plan" /\ pc' = "collect" /\ latest'.alc # "PREPARE"
          /\ UNCHANGED <<mode, counter>>
      BY <1>3 DEF PlanWithoutResult, NoResult
    <2>2. held' = 0
      <3>1. CASE mode = "secondary"
        BY <1>1, <1>3, <3>1 DEF PlanWithoutResult, history, PrepareInv, Prepared
      <3>2. CASE mode # "secondary"
        BY <1>3, <3>2, Failure DEF PlanWithoutResult
      <3> QED  BY <3>1, <3>2
    <2>3. counter' # MaxIters /\ (mode' = "handover" => counter' = -1)
      BY <2>1 DEF PrepareInv, CycleInv
    <2> QED  BY <2>1, <2>2, <2>3, NothingPrepared DEF MaxIters
  <1>4. CASE EnterAlcc
    <2>1. /\ pc' = "collect" /\ held' = 0 /\ counter' = -1
          /\ latest' \in {NoResult} \union FakedResults
      BY <1>4 DEF EnterAlcc
    <2>2. latest'.alc # "PREPARE"
      BY <2>1, FakedType DEF NoResult
    <2> QED  BY <1>1, <2>1, <2>2, NothingPrepared DEF MaxIters
  <1> QED  BY <1>2, <1>3, <1>4

(* A lane change is prepared for no longer than the time allowed and two   *)
(* low-frequency cycles, for all values of the two and with either flag,   *)
(* although the job reads the time before the frame that acts on it, and   *)
(* frames may drop the command, and the time with it, while the outstanding*)
(* job goes on from what it captured.                                      *)
THEOREM PreparationBounded == Spec => []PrepareIsBounded
  <1>1. Init => PrepareInv
    <2> SUFFICES ASSUME Init PROVE PrepareInv
      OBVIOUS
    <2>1. ~HasJob /\ latest.alc # "PREPARE" /\ MaxIters \in Nat \ {0}
      BY CycleRange DEF Init, HasJob, NoJob, NoResult
    <2>2. pc = "collect" /\ mode = "secondary" /\ counter = -1 /\ held = 0
      BY DEF Init
    <2>3. CycleInv /\ DropInv /\ Prepared
      BY <2>1, <2>2 DEF CycleInv, DropInv, Dropped, Prepared
    <2>4. Ends <= MaxPrepare + MaxIters /\ PrepareIsBounded
      BY <2>1, <2>2 DEF Ends, PrepareIsBounded
    <2> QED  BY <2>1, <2>3, <2>4 DEF PrepareInv, Expiring
  <1>2. LaneInv /\ LaneInv' /\ PrepareInv /\ [Next]_vars => PrepareInv'
    BY PrepareScheduled, PrepareRetrieved, PrepareForeign, PrepareWaits,
       PreparePlanned, PrepareNotPlanned DEF Next
  <1>3. PrepareInv => PrepareIsBounded
    BY DEF PrepareInv, Expiring
  <1> QED  BY <1>1, <1>2, <1>3, LaneInvariant, PTL DEF Spec
=============================================================================

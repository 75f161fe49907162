------------------------- MODULE PlannerModuleLoop -------------------------
(***************************************************************************)
(* The planner module's main loop and the thread it publishes with.        *)
(*                                                                         *)
(* The module's callbacks run on one main thread; a pose starts an         *)
(* iteration.  Three jobs leave the main thread: the conversion of the     *)
(* planner state to a message (its result is the input of the NEXT         *)
(* iteration), the publication of that message, and the publication of     *)
(* the output.  All three go to pub_thread_pool_, whose only thread runs   *)
(* them in the order they were scheduled.  output_mutex_ guards the        *)
(* output, which the main thread replaces and the publication sends.       *)
(***************************************************************************)
EXTENDS Integers, Sequences, SequencesExt

CONSTANTS
    MaxFrames,      \* bound: iterations that reach RunMainLoop
    Faults          \* the ways in which an iteration may end early

AllFaults == {"preprocess", "standby", "input", "dispatch"}

ASSUME FramesAssumption == MaxFrames \in Nat \ {0}
ASSUME FaultsAssumption == Faults \subseteq AllFaults

VARIABLES
    pc,           \* where the main thread is
    frame,        \* planner_state_.planner_frame_seq_num
    state,        \* contents of planner_state_: 2n after n whole iterations,
                  \* 2n+1 in the middle of the next one
    toProto,      \* planner_state_to_proto_future_: "pending" or "ready"
    message,      \* the message the conversion writes: seq and body
    proto,        \* onboard_input_.planner_state_proto, input of the iteration
    statePublished,   \* publish_planner_state_future_ is not running
    outputPublished,  \* publish_output_future_ is not running
    mutex,        \* holder of output_mutex_: "free" or "main"
    output,       \* the iteration onboard_output_ belongs to
    status,       \* status.ok() of the running iteration
    pool,         \* jobs of pub_thread_pool_, the head is next or running
    converting,   \* the head job is half way through ToProto
    sent,         \* history: the iterations of the published trajectories
    sentStates,   \* history: the published planner states
    good          \* history: the iterations that ended with an OK status

planner  == <<frame, state>>
futures  == <<toProto, statePublished, outputPublished>>
worker   == <<message, converting>>
history  == <<sent, sentStates, good>>
vars == <<pc, planner, futures, worker, proto, mutex, output, status, pool,
          history>>

NoFrame == -1
Done(n) == 2 * n            \* planner_state_ after n iterations
Within(n) == 2 * n + 1      \* planner_state_ while iteration n changes it

ToProtoJob       == [job |-> "toProto", ok |-> TRUE]
PublishStateJob  == [job |-> "state", ok |-> TRUE]
PublishOutputJob == [job |-> "output", ok |-> status]

(* OnInit converts the initial state on the main thread.                   *)
Init ==
    /\ pc = "idle" /\ frame = 0 /\ state = Done(0)
    /\ toProto = "ready" /\ statePublished = TRUE /\ outputPublished = TRUE
    /\ message = [seq |-> 0, body |-> Done(0)] /\ converting = FALSE
    /\ proto = [seq |-> NoFrame, body |-> Done(0)]
    /\ mutex = "free" /\ output = NoFrame /\ status = TRUE
    /\ pool = <<>>
    /\ sent = <<>> /\ sentStates = <<>> /\ good = <<>>

-----------------------------------------------------------------------------
(* The main thread.                                                        *)

(* HandlePose: a fresh pose, an interval after the last one.               *)
HandlePose ==
    /\ pc = "idle"
    /\ pc' = "get"
    /\ UNCHANGED <<planner, futures, worker, proto, mutex, output, status,
                   pool, history>>

(* planner_state_to_proto_future_.Get().                                   *)
GetPlannerStateEarly == TRUE
GetPlannerState == toProto = "ready"

(* The state is converted, then the map update changes it; an iteration    *)
(* without pose or autonomy state ends here.  MaxFrames bounds the others. *)
PreprocessInput ==
    /\ pc = "get"
    /\ GetPlannerState
    /\ state' = Within(frame)
    /\ \/ frame < MaxFrames /\ pc' = "wait"
       \/ (frame = MaxFrames \/ "preprocess" \in Faults) /\ pc' = "idle"
    /\ UNCHANGED <<frame, futures, worker, proto, mutex, output, status, pool,
                   history>>

(* WaitForFuture(publish_output_future_)                                   *)
DontWaitForOutput == TRUE
PreviousOutputPublished == outputPublished

CurrentSeq == [message EXCEPT !.seq = frame]

BeginIteration ==
    /\ pc = "wait"
    /\ PreviousOutputPublished
    /\ mutex = "free"
    /\ mutex' = "main"
    /\ proto' = CurrentSeq
    /\ output' = frame
    /\ pc' = "run"
    /\ UNCHANGED <<planner, futures, worker, status, pool, history>>

(* RunMainLoop up to its return value.  Standby and unusable input return  *)
(* before the state is published; the dispatcher may fail after it.        *)
RunMainLoop ==
    /\ pc = "run"
    /\ \/ /\ {"standby", "input"} \intersect Faults # {}
          /\ status' \in {s \in BOOLEAN : s => "standby" \in Faults}
          /\ UNCHANGED <<statePublished, pool>>
       \/ /\ status' \in {TRUE} \union
                         (IF "dispatch" \in Faults THEN {FALSE} ELSE {})
          /\ statePublished' = FALSE
          /\ pool' = Append(pool, PublishStateJob)
    /\ state' = Within(frame)
    /\ pc' = "cleanup"
    /\ UNCHANGED <<frame, toProto, outputPublished, worker, proto, mutex,
                   output, history>>

(* WaitForFuture(publish_planner_state_future_)                            *)
StateIsPublished == statePublished

(* The cleaner runs on every return of RunMainLoop.                        *)
Cleaner ==
    /\ pc = "cleanup"
    /\ StateIsPublished
    /\ state' = Done(frame + 1)
    /\ toProto' = "pending"
    /\ pool' = Append(pool, ToProtoJob)
    /\ pc' = "finish"
    /\ UNCHANGED <<frame, statePublished, outputPublished, worker, proto,
                   mutex, output, status, history>>

(* The sequence number moves on, the mutex is released and the output is   *)
(* handed to the publishing thread.                                        *)
FinishIteration ==
    /\ pc = "finish"
    /\ StateIsPublished
    /\ frame' = frame + 1
    /\ good' = IF status THEN Append(good, frame) ELSE good
    /\ mutex' = "free"
    /\ outputPublished' = FALSE
    /\ pool' = Append(pool, PublishOutputJob)
    /\ pc' = "idle"
    /\ UNCHANGED <<state, toProto, statePublished, worker, proto, output,
                   status, sent, sentStates>>

-----------------------------------------------------------------------------
(* The publishing thread.                                                  *)

Running(job) == pool # <<>> /\ Head(pool).job = job

(* PlannerState::ToProto copies the sequence number first.                 *)
ToProtoSeq ==
    /\ Running("toProto") /\ ~converting
    /\ message' = [message EXCEPT !.seq = frame]
    /\ converting' = TRUE
    /\ UNCHANGED <<pc, planner, futures, proto, mutex, output, status, pool,
                   history>>

ToProtoBody ==
    /\ Running("toProto") /\ converting
    /\ message' = [message EXCEPT !.body = state]
    /\ converting' = FALSE
    /\ toProto' = "ready"
    /\ pool' = Tail(pool)
    /\ UNCHANGED <<pc, planner, statePublished, outputPublished, proto, mutex,
                   output, status, history>>

PublishPlannerState ==
    /\ Running("state")
    /\ sentStates' = Append(sentStates, proto)
    /\ statePublished' = TRUE
    /\ pool' = Tail(pool)
    /\ UNCHANGED <<pc, planner, toProto, outputPublished, worker, proto, mutex,
                   output, status, sent, good>>

(* PublishOutput, under the mutex, sends whatever output it finds; the     *)
(* status is the one of the iteration that scheduled it.                   *)
PublishOutput ==
    /\ Running("output")
    /\ mutex = "free"
    /\ sent' = IF Head(pool).ok THEN Append(sent, output) ELSE sent
    /\ outputPublished' = TRUE
    /\ pool' = Tail(pool)
    /\ UNCHANGED <<pc, planner, toProto, statePublished, worker, proto, mutex,
                   output, status, sentStates, good>>

Main ==
    \/ HandlePose \/ PreprocessInput \/ BeginIteration
    \/ RunMainLoop \/ Cleaner \/ FinishIteration

Publisher ==
    ToProtoSeq \/ ToProtoBody \/ PublishPlannerState \/ PublishOutput

Next == Main \/ Publisher

Spec == Init /\ [][Next]_vars

(* Poses keep coming and the pool's thread runs its jobs.                  *)
FairSpec == Spec /\ WF_vars(Main) /\ WF_vars(Publisher)

-----------------------------------------------------------------------------
(* Properties.                                                             *)

Message == [seq : NoFrame..MaxFrames, body : 0..Done(MaxFrames + 1)]
Job == [job : {"toProto", "state", "output"}, ok : BOOLEAN]

(* Type invariant: at most one job of each kind is under way.              *)
TypeOK ==
    /\ pc \in {"idle", "get", "wait", "run", "cleanup", "finish"}
    /\ frame \in 0..MaxFrames /\ state \in 0..Done(MaxFrames + 1)
    /\ toProto \in {"pending", "ready"}
    /\ statePublished \in BOOLEAN /\ outputPublished \in BOOLEAN
    /\ message \in Message /\ proto \in Message /\ converting \in BOOLEAN
    /\ mutex \in {"free", "main"} /\ output \in NoFrame..MaxFrames
    /\ status \in BOOLEAN
    /\ pool \in Seq(Job) /\ Len(pool) <= 3
    /\ \A i, j \in DOMAIN pool : pool[i].job = pool[j].job => i = j
    /\ sent \in Seq(Nat) /\ good \in Seq(Nat) /\ sentStates \in Seq(Message)

(* The message an iteration works on is the whole state of the iteration   *)
(* before, under the sequence number of this one, although the conversion  *)
(* overlaps with the end of the last iteration and the start of this one;  *)
(* and each published state is the one its iteration used, in order: none  *)
(* is sent after the next iteration has replaced it.                       *)
StatesHandedOn ==
    /\ pc \in {"run", "cleanup", "finish"} =>
          proto = [seq |-> frame, body |-> Done(frame)]
    /\ \A i \in DOMAIN sentStates :
          /\ sentStates[i].body = Done(sentStates[i].seq)
          /\ i > 1 => sentStates[i - 1].seq < sentStates[i].seq

(* Every trajectory with an OK status is published once, in order and with *)
(* its own iteration's output; the next iteration starts after that.       *)
TrajectoriesPublishedInOrder ==
    /\ IsPrefix(sent, good)
    /\ pc \in {"run", "cleanup", "finish"} => sent = good

(* Every iteration that starts ends: the main thread never waits, holding  *)
(* the mutex, for a job queued behind the one that waits for the mutex.    *)
IterationsEnd == pc # "idle" ~> pc = "idle"
=============================================================================

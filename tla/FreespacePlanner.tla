-------------------------- MODULE FreespacePlanner --------------------------
(***************************************************************************)
(* RunFreespacePlanner and its path manager, as the parking, free-drive    *)
(* and U-turn tasks call them once a frame.                                *)
(*                                                                         *)
(* A plan is a sequence of paths, driven one after the other, forward or   *)
(* in reverse.  The state of the planner outlives the frame, and the task: *)
(* all freespace tasks share it.  The geometry is left out: the search may *)
(* return any of Plans or none, and the inputs of a frame say what the     *)
(* vehicle has reached.                                                    *)
(***************************************************************************)
EXTENDS Naturals, Sequences

CONSTANT MaxPaths   \* bound: paths of a plan

ASSUME MaxPathsAssumption == MaxPaths \in Nat \ {0}

(* The search cuts what it finds where the direction changes: the paths of *)
(* a plan are forward (TRUE) and in reverse by turns.                      *)
ByTurns(n, forward) == [i \in 1 .. n |-> (i % 2 = 1) = forward]
Plans == {ByTurns(n, forward) : n \in 1 .. MaxPaths, forward \in BOOLEAN}
NoPlan == <<>>

Gears == {"P", "R", "D"}

DriveStates ==
    {"UNKNOWN", "SWITCHING_TO_NEXT", "DRIVING", "CENTER_STEER", "REACH_FINAL_GOAL"}

(* FreespacePlannerStateProto over a set of goals.  plannedFor is a history: *)
(* the goal the paths were searched for.                                     *)
FreespaceStates(Goals) ==
    [goal : Goals, plannedFor : Goals, paths : Plans \cup {NoPlan},
     idx : Nat \ {0}, drive : DriveStates, unsafe : BOOLEAN]

NoFreespaceState(none) ==
    [goal |-> none, plannedFor |-> none, paths |-> NoPlan,
     idx |-> 1, drive |-> "UNKNOWN", unsafe |-> FALSE]

-----------------------------------------------------------------------------
HasPaths(fs) == fs.paths # NoPlan
Direction(forward) == IF forward THEN "D" ELSE "R"
PathGear(fs) == Direction(fs.paths[fs.idx])

(* What one frame finds, its input "in":                                   *)
(*   reset: the task is new or replanned;  gear: of the chassis;           *)
(*   endGear: the gear the task ends in;  still: the vehicle stands;       *)
(*   parallelEnd: a parallel parking within 2 m of its goal;               *)
(*   forceStop, safeStop: the task asks for a stop;                        *)
(*   plan: what the search returns, if it is asked;                        *)
(*   reached: "no", the path's end ("goal"), or what the drive state waits *)
(*   for, the steering angle included ("settled");                         *)
(*   speed: the steps after the path manager fail, find the path "free",   *)
(*   or "blocked" by a stalled object for a second.                        *)

(* path_unsafe_time is kept as: has it reached its threshold of one second? *)
PathNotSafe(fs, in) == ~in.reset /\ HasPaths(fs) /\ in.still /\ fs.unsafe

FinalPathOfParallelParking(fs, in) ==
    /\ in.parallelEnd /\ in.still
    /\ fs.idx = Len(fs.paths) /\ fs.drive = "SWITCHING_TO_NEXT"

MaybeReplan(fs, in) ==
    \/ in.reset
    \/ ~HasPaths(fs)
    \/ PathNotSafe(fs, in)
    \/ FinalPathOfParallelParking(fs, in)

(* The paths of before are kept, moved onto the goal, when the search fails. *)
NewPath(fs, in) == MaybeReplan(fs, in) /\ in.plan # NoPlan
NoPath(fs, in) == ~HasPaths(fs) /\ in.plan = NoPlan

WithNewPath(fs, in) ==
    IF NewPath(fs, in)
    THEN [fs EXCEPT !.paths = in.plan, !.plannedFor = fs.goal, !.idx = 1,
                    !.drive = "SWITCHING_TO_NEXT"]
    ELSE fs

(* The steering is centred and the gear is the one the task ends in. *)
AtRest(in) == in.reached = "settled" /\ in.gear = in.endGear

EndOfPath(fs, in) ==
    IF fs.idx < Len(fs.paths)
    THEN [fs EXCEPT !.idx = @ + 1, !.drive = "SWITCHING_TO_NEXT"]
    ELSE [fs EXCEPT !.drive = IF AtRest(in) THEN "REACH_FINAL_GOAL"
                              ELSE "CENTER_STEER"]

UpdatePathManagerState(fs, in) ==
    CASE fs.drive = "DRIVING" /\ in.reached # "no" -> EndOfPath(fs, in)
      [] /\ fs.drive = "SWITCHING_TO_NEXT"
         /\ in.reached = "settled" /\ in.gear = PathGear(fs) ->
             [fs EXCEPT !.drive = "DRIVING"]
      [] fs.drive = "CENTER_STEER" /\ AtRest(in) ->
             [fs EXCEPT !.drive = "REACH_FINAL_GOAL"]
      [] OTHER -> fs

GeneratePath(fs, in) ==
    UpdatePathManagerState(
        [WithNewPath(fs, in) EXCEPT !.unsafe = @ /\ ~PathNotSafe(fs, in)], in)

UpdatePathUnsafeTime(fs, in) ==
    [fs EXCEPT !.unsafe =
        fs.drive = "DRIVING" /\ in.speed = "blocked" /\ ~in.forceStop]

(* The state after a frame.  Nothing is undone when a later step fails. *)
RunFreespacePlanner(fs, in) ==
    IF NoPath(fs, in) THEN fs
    ELSE IF in.speed = "fails" THEN GeneratePath(fs, in)
    ELSE UpdatePathUnsafeTime(GeneratePath(fs, in), in)

Fails(fs, in) == NoPath(fs, in) \/ in.speed = "fails"

(* The gear of the published trajectory; fs is the state after the frame. *)
GenerateOutputGearPosition(fs, in) ==
    CASE in.safeStop /\ in.still -> "P"
      [] fs.drive \in {"SWITCHING_TO_NEXT", "DRIVING"} -> PathGear(fs)
      [] OTHER -> in.endGear

(* A frame that failed publishes a stop in the gear the vehicle is in. *)
OutputGear(before, after, in) ==
    IF Fails(before, in) THEN in.gear
    ELSE GenerateOutputGearPosition(after, in)
=============================================================================

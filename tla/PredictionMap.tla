--------------------------- MODULE PredictionMap ---------------------------
(***************************************************************************)
(* The map of the prediction module, which the ML planner module repeats.  *)
(*                                                                         *)
(* HD maps are loaded in the background as in HdMapLoader, but the HD map  *)
(* and the vision map (built anew in each iteration from the online map)   *)
(* share one member, planner_semantic_map_manager_.  Which of the two an   *)
(* iteration should use depends on the driver's mode.                      *)
(***************************************************************************)
EXTENDS Naturals

CONSTANTS
    MaxMaps,        \* bound: maps published by the listener
    MaxLosses       \* bound: times the listener has no map again

ASSUME BoundsAssumption == MaxMaps \in Nat \ {0} /\ MaxLosses \in Nat

VARIABLES
    pc,           \* where the iteration is: "idle", "adopt" or "select"
    published,    \* history: update id of the newest map of the listener
    listener,     \* what hd_semantic_map_listener_->Get() returns
    losses,       \* history: times the listener lost its map
    future,       \* psmm_future_: the map being built
    pending,      \* pending_load_hd_psmm_
    hdIndex,      \* update id of hd_semantic_map_multilevel_spatial_index_
    psmm,         \* planner_semantic_map_manager_: a map and its kind
    used,         \* prediction_input_->semantic_map_manager
    visionMap,    \* online_semantic_map_ was received
    needsHd,      \* MustReceiveHDMapForPrediction(autonomy_state)
    ok            \* the last iteration had a map

loader == <<future, pending, hdIndex>>
maps == <<psmm, used>>
mode == <<visionMap, needsHd>>
source == <<published, listener, losses>>
vars == <<pc, source, loader, maps, mode, ok>>

None == 0
NoFuture == [st |-> "none", map |-> None]
NoMap == [kind |-> "none", id |-> None]
HdMap(id) == [kind |-> "hd", id |-> id]
VisionMap == [kind |-> "vision", id |-> None]

Init ==
    /\ pc = "idle"
    /\ published = None /\ listener = None /\ losses = 0
    /\ future = NoFuture /\ pending = FALSE /\ hdIndex = None
    /\ psmm = NoMap /\ used = NoMap
    /\ visionMap = FALSE /\ needsHd \in BOOLEAN /\ ok = FALSE

-----------------------------------------------------------------------------
(* Inputs and the thread pool.                                             *)

PublishMap ==
    /\ published < MaxMaps
    /\ published' = published + 1
    /\ listener' = published'
    /\ UNCHANGED <<pc, losses, loader, maps, mode, ok>>

LoseMap ==
    /\ listener # None /\ losses < MaxLosses
    /\ listener' = None
    /\ losses' = losses + 1
    /\ UNCHANGED <<pc, published, loader, maps, mode, ok>>

FindMap ==
    /\ listener = None
    /\ listener' = published
    /\ UNCHANGED <<pc, published, losses, loader, maps, mode, ok>>

HandleOnlineSemanticMap ==
    /\ pc = "idle"
    /\ visionMap' = TRUE
    /\ UNCHANGED <<pc, source, loader, maps, needsHd, ok>>

HandleAutonomyState ==
    /\ pc = "idle"
    /\ needsHd' = ~needsHd
    /\ UNCHANGED <<pc, source, loader, maps, visionMap, ok>>

LoadPsmm ==
    /\ future.st = "running"
    /\ future' = [future EXCEPT !.st = "ready"]
    /\ UNCHANGED <<pc, source, pending, hdIndex, maps, mode, ok>>

-----------------------------------------------------------------------------
(* One iteration: UpdateOnlineHDMap, then the choice of the map.           *)

HaveMap == listener # None

GotNewMap == hdIndex # listener
StartsLoad == GotNewMap /\ ~pending

StartLoad ==
    /\ pc = "idle"
    /\ HaveMap
    /\ future' = IF StartsLoad
                 THEN [st |-> "running", map |-> listener] ELSE future
    /\ pending' = (pending \/ StartsLoad)
    /\ pc' = "adopt"
    /\ UNCHANGED <<source, hdIndex, maps, mode, ok>>

(* Without a map of the listener UpdateOnlineHDMap returns at once.        *)
SkipHdMap ==
    /\ pc = "idle"
    /\ ~HaveMap
    /\ pc' = "select"
    /\ UNCHANGED <<source, loader, maps, mode, ok>>

AdoptOnce == future.st = "ready" /\ pending
Adopts == future.st = "ready"
ForgetAdoption == pending
StillPending == pending /\ ~Adopts

(* Get() leaves its result in the future, so that IsReady() stays true and *)
(* the HD map comes back after the vision map took its place.              *)
LoadedIndex == IF Adopts THEN future.map ELSE hdIndex

(* The load is waited for if there is no map at all, of either kind.       *)
Waited == psmm = NoMap => Adopts

AdoptLoad ==
    /\ pc = "adopt"
    /\ Waited
    /\ pending' = StillPending
    /\ hdIndex' = LoadedIndex
    /\ psmm' = IF Adopts THEN HdMap(future.map) ELSE psmm
    /\ used' = psmm'
    /\ pc' = "select"
    /\ UNCHANGED <<source, future, mode, ok>>

(* UpdateOnlineSemanticMap; building the vision map may fail.              *)
SelectMap ==
    /\ pc = "select"
    /\ \/ /\ needsHd \/ ~visionMap
          /\ ok' = (used # NoMap)
          /\ UNCHANGED maps
       \/ /\ ~needsHd /\ visionMap
          /\ \/ psmm' = VisionMap /\ used' = VisionMap /\ ok' = TRUE
             \/ ok' = FALSE /\ UNCHANGED maps
    /\ pc' = "idle"
    /\ UNCHANGED <<source, loader, mode>>

Iteration == StartLoad \/ SkipHdMap \/ AdoptLoad \/ SelectMap

Next ==
    \/ PublishMap \/ LoseMap \/ FindMap \/ HandleOnlineSemanticMap
    \/ HandleAutonomyState \/ LoadPsmm \/ Iteration

Spec == Init /\ [][Next]_vars

(* Poses keep iterations going, the pool builds what it was given, and the *)
(* listener gets its map back.                                             *)
FairSpec == Spec /\ WF_vars(Iteration) /\ WF_vars(LoadPsmm) /\ WF_vars(FindMap)

-----------------------------------------------------------------------------
(* Properties.                                                             *)

Map == {NoMap, VisionMap} \union {HdMap(id) : id \in 1..MaxMaps}

(* Type invariant: no map is built before the listener had it, and the     *)
(* input points at no map but the one the module owns.                     *)
TypeOK ==
    /\ pc \in {"idle", "adopt", "select"}
    /\ published \in 0..MaxMaps /\ listener \in {None, published}
    /\ losses \in 0..MaxLosses
    /\ future \in [st : {"none", "running", "ready"}, map : 0..published]
    /\ future.st = "none" <=> future.map = None
    /\ pending \in BOOLEAN /\ hdIndex \in 0..published
    /\ psmm \in Map /\ used = psmm
    /\ visionMap \in BOOLEAN /\ needsHd \in BOOLEAN /\ ok \in BOOLEAN

(* One load at a time, and what is pending is newer than the HD map last   *)
(* adopted, even if the vision map replaced that one.                      *)
OneLoadAtATime ==
    /\ pending => future.st # "none" /\ future.map > hdIndex
    /\ ~pending => future.st # "running"

(* "Should use HD map": an iteration that needs the HD map and goes on     *)
(* uses an HD map.                                                         *)
HdMapWhenRequired ==
    [][pc = "select" /\ pc' = "idle" /\ needsHd /\ ok' => used'.kind = "hd"]_vars

(* A driver who keeps to a mode that needs the HD map gets it.             *)
HdMapReturns ==
    [](([]needsHd /\ published # None) => <>(used.kind = "hd"))

(* The loader implements the abstract one, whatever map is in use.         *)
Latest == INSTANCE LatestMap WITH adopted <- hdIndex
NewestMapIsAdopted == Latest!FairSpec
=============================================================================

---------------------------- MODULE HdMapLoader ----------------------------
(***************************************************************************)
(* PlannerModule::UpdateOnlineHDMap: the planner's HD map.                 *)
(*                                                                         *)
(* The map listener offers the newest map along the route.  The planner    *)
(* semantic map manager (psmm) of a map is built on the thread pool, one   *)
(* at a time, while iterations go on with the one before.  A patch of the  *)
(* map (semantic map modification) is put on the psmm in use, and again on *)
(* every psmm adopted later.  Each iteration also refreshes the psmm's     *)
(* coordinates, and low-frequency planning jobs read it on the pool.       *)
(***************************************************************************)
EXTENDS Naturals

CONSTANTS
    MaxMaps,        \* bound: maps published by the listener
    MaxPatches,     \* bound: map patches received
    Transforms,     \* localization transforms, numbered from 1
    MaxLosses       \* bound: times the listener has no map again

ASSUME BoundsAssumption == MaxMaps \in Nat \ {0} /\ MaxPatches \in Nat
ASSUME LossesAssumption == MaxLosses \in Nat
ASSUME TransformsAssumption == Transforms # {} /\ Transforms \subseteq Nat \ {0}

VARIABLES
    pc,           \* where the iteration is: "idle", "use" or "plan"
    published,    \* history: update id of the newest map of the listener
    listener,     \* what hd_semantic_map_listener_->Get() returns
    losses,       \* history: times the listener lost its map
    future,       \* psmm_future_: the map being built
    pending,      \* pending_load_hd_psmm_
    psmm,         \* input->planner_semantic_map_manager, with its update id
    inbox,        \* input->semantic_map_modification
    patches,      \* history: patches received
    latestPatch,  \* latest_semantic_map_modification_
    job           \* the map a low-frequency job is reading

loader == <<future, pending>>
patching == <<inbox, patches, latestPatch>>
source == <<published, listener, losses>>
vars == <<pc, source, loader, psmm, patching, job>>

None == 0
NoFuture == [st |-> "none", map |-> None]
NoPsmm == [id |-> None, patch |-> None, cc |-> None]

Init ==
    /\ pc = "idle"
    /\ published = None /\ listener = None /\ losses = 0
    /\ future = NoFuture /\ pending = FALSE /\ psmm = NoPsmm
    /\ inbox = None /\ patches = 0 /\ latestPatch = None
    /\ job = None

-----------------------------------------------------------------------------
(* The listener, the publisher of patches and the thread pool.             *)

PublishMap ==
    /\ published < MaxMaps
    /\ published' = published + 1
    /\ listener' = published'
    /\ UNCHANGED <<pc, losses, loader, psmm, patching, job>>

LoseMap ==
    /\ listener # None /\ losses < MaxLosses
    /\ listener' = None
    /\ losses' = losses + 1
    /\ UNCHANGED <<pc, published, loader, psmm, patching, job>>

FindMap ==
    /\ listener = None
    /\ listener' = published
    /\ UNCHANGED <<pc, published, losses, loader, psmm, patching, job>>

(* HandleSemanticMapPatch and HandleRunEventStates run between iterations. *)
HandleSemanticMapPatch ==
    /\ pc = "idle"
    /\ patches < MaxPatches
    /\ patches' = patches + 1
    /\ inbox' = patches'
    /\ UNCHANGED <<pc, source, loader, psmm, latestPatch, job>>

LoadPsmm ==
    /\ future.st = "running"
    /\ future' = [future EXCEPT !.st = "ready"]
    /\ UNCHANGED <<pc, source, pending, psmm, patching, job>>

FinishJob ==
    /\ job # None
    /\ job' = None
    /\ UNCHANGED <<pc, source, loader, psmm, patching>>

-----------------------------------------------------------------------------
(* One iteration of the main thread.                                       *)

HaveMap == listener # None

GotNewMap == listener # psmm.id
StartsLoad == GotNewMap /\ ~pending

(* A new map is loaded unless a load is pending; without any map, or       *)
(* without a localization transform, the iteration leaves all as it is.    *)
StartLoad ==
    /\ pc = "idle"
    /\ HaveMap
    /\ future' = IF StartsLoad
                 THEN [st |-> "running", map |-> listener] ELSE future
    /\ pending' = (pending \/ StartsLoad)
    /\ pc' = "use"
    /\ UNCHANGED <<source, psmm, patching, job>>

Adopts == future.st = "ready"
ForgetAdoption == pending
StillPending == pending /\ ~Adopts

(* The first load is waited for, the others are adopted when ready.        *)
Waited == psmm = NoPsmm => Adopts

FreshPsmm(id) == [id |-> id, patch |-> None, cc |-> None]
Adopted ==
    IF Adopts /\ future.map # psmm.id THEN FreshPsmm(future.map) ELSE psmm

NewPatch == IF inbox # None THEN inbox ELSE latestPatch

(* The latest patch goes onto a psmm just adopted; a new patch goes onto   *)
(* the psmm in use.                                                        *)
PatchAdoptedOnly(p) ==
    IF Adopts /\ NewPatch # None THEN [p EXCEPT !.patch = NewPatch] ELSE p
PatchOnlyNew(p) == IF inbox # None THEN [p EXCEPT !.patch = inbox] ELSE p
Patched(p) ==
    IF (Adopts \/ inbox # None) /\ NewPatch # None
    THEN [p EXCEPT !.patch = NewPatch] ELSE p

(* Whether Future::Get() leaves its result behind is not known: both.      *)
UseMap ==
    /\ pc = "use"
    /\ Waited
    /\ pending' = StillPending
    /\ future' \in {future} \union (IF Adopts THEN {NoFuture} ELSE {})
    /\ latestPatch' = NewPatch
    /\ inbox' = None
    /\ \E t \in Transforms : psmm' = [Patched(Adopted) EXCEPT !.cc = t]
    /\ pc' = "plan"
    /\ UNCHANGED <<source, patches, job>>

(* The rest of the iteration may hand the psmm to a low-frequency job.     *)
ScheduleJob ==
    /\ pc = "plan"
    /\ job' \in {job} \union (IF job = None THEN {psmm.id} ELSE {})
    /\ pc' = "idle"
    /\ UNCHANGED <<source, loader, psmm, patching>>

Iteration == StartLoad \/ UseMap \/ ScheduleJob

Next ==
    \/ PublishMap \/ LoseMap \/ FindMap \/ HandleSemanticMapPatch
    \/ LoadPsmm \/ FinishJob \/ Iteration

Spec == Init /\ [][Next]_vars

(* Poses keep iterations going, the pool builds what it was given, and the *)
(* listener gets its map back.                                             *)
FairSpec == Spec /\ WF_vars(Iteration) /\ WF_vars(LoadPsmm) /\ WF_vars(FindMap)

-----------------------------------------------------------------------------
(* Properties.                                                             *)

Psmm == [id : 0..MaxMaps, patch : 0..MaxPatches,
         cc : {None} \union Transforms]

(* Type invariant: no map is built before the listener had it, and no      *)
(* load is started without a map.                                          *)
TypeOK ==
    /\ pc \in {"idle", "use", "plan"}
    /\ published \in 0..MaxMaps /\ listener \in {None, published}
    /\ losses \in 0..MaxLosses
    /\ future \in [st : {"none", "running", "ready"}, map : 0..published]
    /\ future.st = "none" <=> future.map = None
    /\ pending \in BOOLEAN /\ psmm \in Psmm
    /\ patches \in 0..MaxPatches
    /\ inbox \in 0..patches /\ latestPatch \in 0..patches
    /\ job \in 0..published

(* One load at a time: pending_load_hd_psmm_ is set exactly while a load   *)
(* was started and not adopted, and what it loads is newer than the map in *)
(* use.                                                                    *)
OneLoadAtATime ==
    /\ pending => future.st # "none" /\ future.map > psmm.id
    /\ ~pending => future.st # "running"

(* Between iterations the map in use carries the latest patch, although a  *)
(* map may have been loading when the patch came.                          *)
LatestPatchOnMap == pc = "idle" => psmm.patch = latestPatch

(* The psmm has a map whenever the iteration dereferences it.              *)
MapBeforeUse == pc = "plan" => psmm.id # None /\ psmm.cc # None

(* A patch that arrived reaches the map in use, or a newer one does.       *)
PatchReachesMap ==
    \A n \in 1..MaxPatches :
        inbox = n /\ published # None ~> psmm.patch >= n

(* The psmm a low-frequency job reads does not change while it reads.      *)
MapUnchangedUnderJob ==
    [][job # None /\ job' = job /\ psmm.id = job /\ psmm'.id = job
        => psmm' = psmm]_vars

(* The loader implements the abstract one.                                 *)
Latest == INSTANCE LatestMap WITH adopted <- psmm.id
NewestMapIsAdopted == Latest!FairSpec
=============================================================================

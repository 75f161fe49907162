------------------------ MODULE PredictionMap_proof ------------------------
(***************************************************************************)
(* Theorems about PredictionMap, for any number of maps and losses.        *)
(***************************************************************************)
EXTENDS PredictionMap, TLAPS

USE BoundsAssumption DEF None

(* A result that Get left in the future is the HD map last adopted, so     *)
(* that adopting it again after the vision map brings back that map.       *)
LeftBehind == ~pending /\ future.st = "ready" => future.map = hdIndex

(* What the induction needs to know of the two maps in use.                *)
MapInUse == psmm.kind = "hd" => psmm = HdMap(hdIndex) /\ hdIndex # None

MapInv == TypeOK /\ OneLoadAtATime /\ LeftBehind /\ MapInUse

(* The kinds of maps are told apart by their fields.                       *)
LEMMA Kinds ==
    /\ NoMap.kind = "none" /\ VisionMap.kind = "vision"
    /\ NoMap # VisionMap
    /\ \A id : HdMap(id).kind = "hd" /\ HdMap(id).id = id
  BY DEF NoMap, VisionMap, HdMap

LEMMA MapInit == Init => MapInv
  <1> SUFFICES ASSUME Init PROVE MapInv
    OBVIOUS
  <1>1. /\ future.st = "none" /\ future.map = 0
        /\ future \in [st : {"none", "running", "ready"}, map : 0..published]
    BY DEF Init, NoFuture
  <1>2. /\ pending \in BOOLEAN /\ ~pending /\ visionMap \in BOOLEAN
        /\ needsHd \in BOOLEAN /\ ok \in BOOLEAN
    BY Zenon DEF Init
  <1>3. psmm \in Map /\ used = psmm /\ psmm.kind # "hd"
    BY Kinds DEF Init, Map
  <1>4. TypeOK
    BY <1>1, <1>2, <1>3 DEF Init, TypeOK
  <1> QED
    BY <1>1, <1>2, <1>3, <1>4 DEF Init, MapInv, OneLoadAtATime, LeftBehind,
                                  MapInUse

(* The steps of the listener and the handlers.                             *)
LEMMA MapInputs ==
    ASSUME MapInv,
           PublishMap \/ LoseMap \/ FindMap \/ HandleOnlineSemanticMap
             \/ HandleAutonomyState \/ LoadPsmm
    PROVE  MapInv'
  <1> USE DEF MapInv, OneLoadAtATime, LeftBehind, MapInUse, loader, maps, mode,
              source
  <1>1. CASE PublishMap
    <2>1. TypeOK'  BY <1>1 DEF PublishMap, TypeOK
    <2> QED  BY <1>1, <2>1 DEF PublishMap
  <1>2. CASE LoseMap
    <2>1. TypeOK'  BY <1>2 DEF LoseMap, TypeOK
    <2> QED  BY <1>2, <2>1 DEF LoseMap
  <1>3. CASE FindMap
    <2>1. TypeOK'  BY <1>3 DEF FindMap, TypeOK
    <2> QED  BY <1>3, <2>1 DEF FindMap
  <1>4. CASE HandleOnlineSemanticMap
    <2>1. visionMap' \in BOOLEAN  BY <1>4, Zenon DEF HandleOnlineSemanticMap
    <2>2. TypeOK'  BY <1>4, <2>1 DEF HandleOnlineSemanticMap, TypeOK
    <2> QED  BY <1>4, <2>2 DEF HandleOnlineSemanticMap
  <1>5. CASE HandleAutonomyState
    <2>1. needsHd' \in BOOLEAN  BY <1>5, Zenon DEF HandleAutonomyState
    <2>2. TypeOK'  BY <1>5, <2>1 DEF HandleAutonomyState, TypeOK
    <2> QED  BY <1>5, <2>2 DEF HandleAutonomyState
  <1>6. CASE LoadPsmm
    <2>1. TypeOK'  BY <1>6 DEF LoadPsmm, TypeOK
    <2> QED  BY <1>6, <2>1 DEF LoadPsmm, TypeOK
  <1> QED  BY <1>1, <1>2, <1>3, <1>4, <1>5, <1>6

(* A load starts when none is pending, for a map newer than the HD map     *)
(* last adopted.                                                           *)
LEMMA MapStart == MapInv /\ (StartLoad \/ SkipHdMap) => MapInv'
  <1> USE DEF MapInv, TypeOK, OneLoadAtATime, LeftBehind, MapInUse, loader,
              maps, mode, source
  <1> SUFFICES ASSUME MapInv, StartLoad \/ SkipHdMap PROVE MapInv'
    OBVIOUS
  <1>1. CASE StartLoad /\ StartsLoad
    <2>1. pending' \in BOOLEAN /\ pending'
      BY <1>1, Zenon DEF StartLoad
    <2>2. ~pending /\ listener # hdIndex /\ listener # None
          /\ future' = [st |-> "running", map |-> listener]
      BY <1>1 DEF StartLoad, StartsLoad, GotNewMap, HaveMap
    <2> QED  BY <1>1, <2>1, <2>2 DEF StartLoad
  <1>2. CASE StartLoad /\ ~StartsLoad
    <2>1. pending' = pending
      BY <1>2, Zenon DEF StartLoad
    <2> QED  BY <1>2, <2>1 DEF StartLoad
  <1>3. CASE SkipHdMap
    BY <1>3 DEF SkipHdMap
  <1> QED  BY <1>1, <1>2, <1>3

(* Adopting clears pending, and what stays in the future is the map last   *)
(* adopted: the vision map it replaces changes nothing else.               *)
LEMMA MapAdopt == MapInv /\ AdoptLoad => MapInv'
  <1> USE DEF MapInv, TypeOK, OneLoadAtATime, LeftBehind, MapInUse, mode, source
  <1> SUFFICES ASSUME MapInv, AdoptLoad PROVE MapInv'
    OBVIOUS
  <1>1. CASE Adopts
    <2>1. ~pending' /\ pending' \in BOOLEAN
      BY <1>1, Zenon DEF AdoptLoad, StillPending
    <2>2. future' = future /\ hdIndex' = future.map /\ future.map \in 1..published
      BY <1>1 DEF AdoptLoad, LoadedIndex, Adopts
    <2>3. psmm' = HdMap(future.map) /\ used' = psmm' /\ psmm' \in Map
      BY <1>1, <2>2 DEF AdoptLoad, Map
    <2>4. /\ pc' = "select" /\ published' = published /\ listener' = listener
          /\ losses' = losses /\ visionMap' = visionMap /\ needsHd' = needsHd
          /\ ok' = ok
      BY <1>1 DEF AdoptLoad
    <2>5. TypeOK'
      BY <2>1, <2>2, <2>3, <2>4
    <2>6. MapInUse'
      BY <2>2, <2>3, <2>4
    <2>7. OneLoadAtATime' /\ LeftBehind'
      BY <1>1, <2>1, <2>2 DEF Adopts
    <2> QED  BY <2>5, <2>6, <2>7
  <1>2. CASE ~Adopts
    <2>1. (pending' <=> pending) /\ pending' \in BOOLEAN
      BY <1>2, Zenon DEF AdoptLoad, StillPending
    <2> QED  BY <1>2, <2>1 DEF AdoptLoad, LoadedIndex
  <1> QED  BY <1>1, <1>2

LEMMA MapSelect == MapInv /\ SelectMap => MapInv'
  <1> SUFFICES ASSUME MapInv, SelectMap PROVE MapInv'
    OBVIOUS
  <1>1. ok' \in BOOLEAN
    BY Zenon DEF SelectMap
  <1>2. /\ \/ psmm' = psmm /\ used' = used
           \/ psmm' = VisionMap /\ used' = VisionMap
        /\ pc' = "idle"
    BY Zenon DEF SelectMap, maps
  <1> QED
    <2>1. /\ published' = published /\ listener' = listener /\ losses' = losses
          /\ future' = future /\ pending' = pending /\ hdIndex' = hdIndex
          /\ visionMap' = visionMap /\ needsHd' = needsHd
      BY DEF SelectMap, loader, mode, source
    <2>2. psmm' \in Map /\ used' = psmm'
      BY <1>2 DEF MapInv, TypeOK, Map
    <2>3. TypeOK'
      BY <1>1, <1>2, <2>1, <2>2 DEF MapInv, TypeOK
    <2>4. MapInUse'
      BY <1>2, <2>1, Kinds DEF MapInv, MapInUse
    <2> QED  BY <2>1, <2>3, <2>4 DEF MapInv, OneLoadAtATime, LeftBehind

LEMMA MapNext == MapInv /\ [Next]_vars => MapInv'
  <1> SUFFICES ASSUME MapInv, [Next]_vars PROVE MapInv'
    OBVIOUS
  <1>1. CASE UNCHANGED vars
    BY <1>1 DEF MapInv, TypeOK, OneLoadAtATime, LeftBehind, MapInUse, vars,
         source, loader, maps, mode
  <1>2. CASE Iteration
    BY <1>2, MapStart, MapAdopt, MapSelect DEF Iteration
  <1>3. CASE PublishMap \/ LoseMap \/ FindMap \/ HandleOnlineSemanticMap
             \/ HandleAutonomyState \/ LoadPsmm
    BY <1>3, MapInputs
  <1> QED  BY <1>1, <1>2, <1>3 DEF Next

LEMMA MapInvariant == Spec => []MapInv
  BY MapInit, MapNext, PTL DEF Spec

(* The input of an iteration points at no map but the one the module owns. *)
THEOREM InputPointsAtOwnedMap == Spec => []TypeOK
  <1>1. MapInv => TypeOK
    BY DEF MapInv
  <1> QED  BY <1>1, MapInvariant, PTL

(* pending_load_hd_psmm_ is set exactly while a load is under way, and     *)
(* that load is of a map newer than the HD map last adopted, whichever map *)
(* took its place since.                                                   *)
THEOREM PredictionLoadsDoNotOvertake == Spec => []OneLoadAtATime
  <1>1. MapInv => OneLoadAtATime
    BY DEF MapInv
  <1> QED  BY <1>1, MapInvariant, PTL

(* The module adopts HD maps as LatestMap does, whatever map is in use.    *)
THEOREM PredictionRefinesLatestMap == Spec => Latest!Spec
  <1>1. Init => Latest!Init
    BY DEF Init, Latest!Init
  <1>2. MapInv /\ [Next]_vars => [Latest!Next]_<<published, hdIndex>>
    <2> SUFFICES ASSUME MapInv, [Next]_vars
                 PROVE  [Latest!Next]_<<published, hdIndex>>
      OBVIOUS
    <2>1. CASE PublishMap
      BY <2>1 DEF PublishMap, loader, Latest!Next, Latest!Publish
    <2>2. CASE AdoptLoad
      <3>1. hdIndex' = LoadedIndex /\ published' = published
        BY <2>2 DEF AdoptLoad, source
      <3>2. CASE Adopts /\ future.map # hdIndex
        <4>1. hdIndex < future.map /\ future.map <= published
              /\ hdIndex \in Nat /\ future.map \in Nat /\ published \in Nat
          BY <3>2 DEF MapInv, TypeOK, OneLoadAtATime, LeftBehind, Adopts
        <4>2. hdIndex' \in (hdIndex + 1)..published
          BY <3>1, <3>2, <4>1 DEF LoadedIndex
        <4> QED  BY <3>1, <4>1, <4>2 DEF Latest!Next, Latest!Adopt
      <3>3. CASE ~(Adopts /\ future.map # hdIndex)
        BY <3>1, <3>3 DEF LoadedIndex
      <3> QED  BY <3>2, <3>3
    <2>3. CASE UNCHANGED vars \/ LoseMap \/ FindMap \/ HandleOnlineSemanticMap
               \/ HandleAutonomyState \/ LoadPsmm \/ StartLoad \/ SkipHdMap
               \/ SelectMap
      BY <2>3 DEF vars, source, loader, LoseMap, FindMap,
                  HandleOnlineSemanticMap, HandleAutonomyState, LoadPsmm,
                  StartLoad, SkipHdMap, SelectMap
    <2> QED  BY <2>1, <2>2, <2>3 DEF Next, Iteration
  <1> QED  BY <1>1, <1>2, MapInvariant, PTL DEF Spec, Latest!Spec
=============================================================================

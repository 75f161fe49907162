------------------------- MODULE HdMapLoader_proof -------------------------
(***************************************************************************)
(* Theorems about HdMapLoader, for any number of maps, patches, losses and *)
(* transforms.                                                             *)
(***************************************************************************)
EXTENDS HdMapLoader, TLAPS

USE BoundsAssumption, TransformsAssumption, LossesAssumption DEF None

(* The part of OneLoadAtATime that its induction needs: a result that Get  *)
(* left in the future is the map in use, so adopting it again changes      *)
(* nothing.                                                                *)
LeftBehind == ~pending /\ future.st = "ready" => future.map = psmm.id

(* Only the map in use has a patch, and it has the latest; no map is newer *)
(* than the newest published.                                              *)
MapInUse ==
    /\ psmm.id <= published
    /\ psmm.patch = latestPatch
    /\ psmm.id = None => psmm = NoPsmm
    /\ psmm.id # None => psmm.cc # None

LoaderInv == TypeOK /\ OneLoadAtATime /\ LeftBehind /\ MapInUse /\ MapBeforeUse

(* The initial state: nothing is published, loading or in use.             *)
LEMMA LoaderInit == Init => LoaderInv
  <1> SUFFICES ASSUME Init PROVE LoaderInv
    OBVIOUS
  <1>1. /\ future.st = "none" /\ future.map = 0
        /\ future \in [st : {"none", "running", "ready"}, map : 0..published]
    BY DEF Init, NoFuture
  <1>2. psmm \in Psmm /\ psmm.id = 0 /\ psmm.patch = 0
    BY DEF Init, NoPsmm, Psmm
  <1>3. pending \in BOOLEAN /\ ~pending
    BY Zenon DEF Init
  <1>4. TypeOK
    BY <1>1, <1>2, <1>3 DEF Init, TypeOK
  <1> QED
    BY <1>1, <1>2, <1>3, <1>4 DEF Init, LoaderInv, OneLoadAtATime,
                                  LeftBehind, MapInUse, MapBeforeUse

(* The steps of the listener, the patches and the pool leave the map in    *)
(* use alone.                                                              *)
LEMMA LoaderEnvironment ==
    ASSUME LoaderInv,
           PublishMap \/ LoseMap \/ FindMap \/ HandleSemanticMapPatch
             \/ LoadPsmm \/ FinishJob
    PROVE  LoaderInv'
  <1> USE DEF LoaderInv, TypeOK, OneLoadAtATime, LeftBehind, MapInUse,
              MapBeforeUse, Psmm, NoPsmm, loader, patching, source
  <1>1. CASE PublishMap  BY <1>1 DEF PublishMap
  <1>2. CASE LoseMap  BY <1>2 DEF LoseMap
  <1>3. CASE FindMap  BY <1>3 DEF FindMap
  <1>4. CASE HandleSemanticMapPatch  BY <1>4 DEF HandleSemanticMapPatch
  <1>5. CASE LoadPsmm  BY <1>5 DEF LoadPsmm
  <1>6. CASE FinishJob  BY <1>6 DEF FinishJob
  <1> QED  BY <1>1, <1>2, <1>3, <1>4, <1>5, <1>6

(* A load is started only when none is pending, for a map newer than the   *)
(* one in use.                                                             *)
LEMMA LoaderStart == LoaderInv /\ StartLoad => LoaderInv'
  <1> USE DEF LoaderInv, TypeOK, OneLoadAtATime, LeftBehind, MapInUse,
              MapBeforeUse, Psmm, NoPsmm, source, patching
  <1> SUFFICES ASSUME LoaderInv, StartLoad PROVE LoaderInv'
    OBVIOUS
  <1>1. CASE StartsLoad
    <2>1. pending' \in BOOLEAN /\ pending'
      BY <1>1, Zenon DEF StartLoad
    <2>2. ~pending /\ listener # psmm.id /\ listener # None
          /\ future' = [st |-> "running", map |-> listener]
      BY <1>1 DEF StartLoad, StartsLoad, GotNewMap, HaveMap
    <2> QED  BY <2>1, <2>2 DEF StartLoad
  <1>2. CASE ~StartsLoad
    <2>1. pending' = pending
      BY <1>2, Zenon DEF StartLoad
    <2> QED  BY <1>2, <2>1 DEF StartLoad
  <1> QED  BY <1>1, <1>2

(* What UseMap makes of the psmm: the id of the map, its patch and its     *)
(* transform.                                                              *)
LEMMA UsedPsmm ==
    ASSUME LoaderInv, UseMap
    PROVE  /\ psmm' \in Psmm
           /\ psmm'.id = IF Adopts THEN future.map ELSE psmm.id
           /\ psmm'.patch = NewPatch
           /\ psmm'.cc # None
           /\ psmm'.id # None
  <1> USE DEF LoaderInv, TypeOK, OneLoadAtATime, LeftBehind, MapInUse, Psmm,
              NoPsmm
  <1>1. PICK t \in Transforms : psmm' = [Patched(Adopted) EXCEPT !.cc = t]
    BY DEF UseMap
  <1>2. Adopted \in Psmm
        /\ Adopted.id = (IF Adopts THEN future.map ELSE psmm.id)
        /\ Adopted.patch \in {None, latestPatch}
        /\ (~Adopts => Adopted.patch = latestPatch)
    BY DEF Adopted, FreshPsmm, Adopts
  <1>3. NewPatch \in 0..MaxPatches /\ (NewPatch = None => latestPatch = None)
        /\ (inbox = None => NewPatch = latestPatch)
    BY DEF NewPatch
  <1>4. Patched(Adopted) \in Psmm /\ Patched(Adopted).id = Adopted.id
        /\ Patched(Adopted).patch = NewPatch
    BY <1>2, <1>3 DEF Patched
  <1>5. psmm'.id # None
    <2>1. CASE Adopts  BY <1>1, <1>2, <1>4, <2>1 DEF Adopts
    <2>2. CASE ~Adopts  BY <1>1, <1>2, <1>4, <2>2 DEF UseMap, Waited
    <2> QED  BY <2>1, <2>2
  <1> QED  BY <1>1, <1>2, <1>4, <1>5

(* Adopting a map clears pending, and what stays in the future is the map  *)
(* in use.                                                                 *)
LEMMA LoaderUse == LoaderInv /\ UseMap => LoaderInv'
  <1> SUFFICES ASSUME LoaderInv, UseMap PROVE LoaderInv'
    OBVIOUS
  <1>1. /\ psmm' \in Psmm
        /\ psmm'.id = IF Adopts THEN future.map ELSE psmm.id
        /\ psmm'.patch = NewPatch
        /\ psmm'.cc # None
        /\ psmm'.id # None
    BY UsedPsmm
  <1> USE DEF LoaderInv, TypeOK, OneLoadAtATime, LeftBehind, MapInUse,
              MapBeforeUse
  <1>2. TypeOK'
    BY <1>1 DEF UseMap, NewPatch, StillPending, NoFuture, Adopts, source
  <1>3. OneLoadAtATime' /\ LeftBehind'
    <2>1. CASE Adopts
      <3>1. ~pending'
        BY <2>1, Zenon DEF UseMap, StillPending
      <3>2. future' = future \/ future' = NoFuture
        BY <2>1 DEF UseMap
      <3> QED  BY <1>1, <2>1, <3>1, <3>2 DEF NoFuture, Adopts
    <2>2. CASE ~Adopts
      <3>1. (pending' <=> pending) /\ future' = future
        BY <2>2 DEF UseMap, StillPending
      <3> QED  BY <1>1, <2>2, <3>1 DEF Adopts
    <2> QED  BY <2>1, <2>2
  <1>4. MapInUse' /\ MapBeforeUse'
    BY <1>1 DEF UseMap, Adopts, source
  <1> QED  BY <1>2, <1>3, <1>4

(* Handing the map to a job changes nothing the invariant speaks of.       *)
LEMMA LoaderSchedule == LoaderInv /\ ScheduleJob => LoaderInv'
  BY DEF LoaderInv, TypeOK, OneLoadAtATime, LeftBehind, MapInUse,
         MapBeforeUse, ScheduleJob, source, loader, patching, Psmm, NoPsmm

LEMMA LoaderNext == LoaderInv /\ [Next]_vars => LoaderInv'
  <1> SUFFICES ASSUME LoaderInv, [Next]_vars PROVE LoaderInv'
    OBVIOUS
  <1>1. CASE UNCHANGED vars
    BY <1>1 DEF LoaderInv, TypeOK, OneLoadAtATime, LeftBehind, MapInUse,
         MapBeforeUse, vars, source, loader, patching
  <1>2. CASE Iteration
    BY <1>2, LoaderStart, LoaderUse, LoaderSchedule DEF Iteration
  <1>3. CASE PublishMap \/ LoseMap \/ FindMap \/ HandleSemanticMapPatch
             \/ LoadPsmm \/ FinishJob
    BY <1>3, LoaderEnvironment
  <1> QED  BY <1>1, <1>2, <1>3 DEF Next

LEMMA LoaderInvariant == Spec => []LoaderInv
  BY LoaderInit, LoaderNext, PTL DEF Spec

(* No map is in use that the listener did not have, and no patch that was  *)
(* not received.                                                           *)
THEOREM LoadedMapsWerePublished == Spec => []TypeOK
  <1>1. LoaderInv => TypeOK
    BY DEF LoaderInv
  <1> QED  BY <1>1, LoaderInvariant, PTL

(* One load at a time: pending_load_hd_psmm_ is set exactly while a load   *)
(* is under way, and that load is of a map newer than the one in use.      *)
THEOREM LoadsDoNotOvertake == Spec => []OneLoadAtATime
  <1>1. LoaderInv => OneLoadAtATime
    BY DEF LoaderInv
  <1> QED  BY <1>1, LoaderInvariant, PTL

(* Whenever a patch arrives and however long maps load, the map in use     *)
(* carries the latest patch between iterations.                            *)
THEOREM PatchIsOnMap == Spec => []LatestPatchOnMap
  <1>1. LoaderInv => LatestPatchOnMap
    BY DEF LoaderInv, MapInUse, LatestPatchOnMap
  <1> QED  BY <1>1, LoaderInvariant, PTL

(* No iteration dereferences a map before one was loaded.                  *)
THEOREM MapExistsBeforeUse == Spec => []MapBeforeUse
  <1>1. LoaderInv => MapBeforeUse
    BY DEF LoaderInv
  <1> QED  BY <1>1, LoaderInvariant, PTL

(* UpdateOnlineHDMap implements LatestMap: maps are adopted in order, and  *)
(* none that was not published.                                            *)
THEOREM LoaderRefinesLatestMap == Spec => Latest!Spec
  <1>1. Init => Latest!Init
    BY DEF Init, Latest!Init, NoPsmm
  <1>2. LoaderInv /\ [Next]_vars => [Latest!Next]_<<published, psmm.id>>
    <2> SUFFICES ASSUME LoaderInv, [Next]_vars
                 PROVE  [Latest!Next]_<<published, psmm.id>>
      OBVIOUS
    <2>1. CASE PublishMap
      BY <2>1 DEF PublishMap, Latest!Next, Latest!Publish
    <2>2. CASE UseMap
      <3>1. psmm'.id = IF Adopts THEN future.map ELSE psmm.id
        BY <2>2, UsedPsmm
      <3>2. published' = published
        BY <2>2 DEF UseMap, source
      <3>3. CASE Adopts /\ future.map # psmm.id
        <4>1. psmm.id < future.map /\ future.map <= published
              /\ psmm.id \in Nat /\ future.map \in Nat /\ published \in Nat
          BY <3>3 DEF LoaderInv, TypeOK, OneLoadAtATime, LeftBehind, Adopts,
                      Psmm
        <4>2. psmm'.id \in (psmm.id + 1)..published
          BY <3>1, <3>3, <4>1
        <4> QED  BY <3>2, <4>1, <4>2 DEF Latest!Next, Latest!Adopt
      <3>4. CASE ~(Adopts /\ future.map # psmm.id)
        BY <3>1, <3>2, <3>4
      <3> QED  BY <3>3, <3>4
    <2>3. CASE UNCHANGED vars \/ LoseMap \/ FindMap \/ HandleSemanticMapPatch
               \/ LoadPsmm \/ FinishJob \/ StartLoad \/ ScheduleJob
      BY <2>3 DEF vars, source, LoseMap, FindMap, HandleSemanticMapPatch,
                  LoadPsmm, FinishJob, StartLoad, ScheduleJob
    <2> QED  BY <2>1, <2>2, <2>3 DEF Next, Iteration
  <1> QED  BY <1>1, <1>2, LoaderInvariant, PTL DEF Spec, Latest!Spec
=============================================================================

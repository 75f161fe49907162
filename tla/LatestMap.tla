------------------------------ MODULE LatestMap ------------------------------
(***************************************************************************)
(* What a module that loads the HD map in the background promises,         *)
(* whatever thread loads it: the maps published along the route are        *)
(* adopted in the order of their update ids, some may be skipped, none is  *)
(* adopted that was not published, and the newest one is adopted in the    *)
(* end.                                                                    *)
(***************************************************************************)
EXTENDS Naturals

CONSTANT MaxMaps        \* bound: maps published

VARIABLES
    published,          \* update id of the newest map, 0 before the first
    adopted             \* update id of the map in use, 0 before the first

Init == published = 0 /\ adopted = 0

Publish ==
    /\ published < MaxMaps
    /\ published' = published + 1
    /\ UNCHANGED adopted

Adopt ==
    /\ adopted < published
    /\ adopted' \in (adopted + 1)..published
    /\ UNCHANGED published

Next == Publish \/ Adopt

Spec == Init /\ [][Next]_<<published, adopted>>

FairSpec == Spec /\ WF_<<published, adopted>>(Adopt)
=============================================================================

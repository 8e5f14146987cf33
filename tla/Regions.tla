------------------------------- MODULE Regions ------------------------------
(***************************************************************************)
(* What an allocator promises: the regions it has handed out never overlap,*)
(* lie inside the heap, and do not move or shrink until they are freed.    *)
(***************************************************************************)
EXTENDS Naturals

CONSTANTS
    Size,
    Requests,   \* the units a client may ask for
    Overhead,   \* what the allocator keeps for itself in each region
    Waste       \* what a region may have beyond that

VARIABLE regions  \* a set of [at, length, asked]

Units(r) == r.at .. (r.at + r.length - 1)

Init == regions = {}

(* A new region has the units asked for it, and no more than Waste units   *)
(* besides those and the overhead.                                         *)
Allocate ==
    \E r \in regions' \ regions :
        /\ regions' = regions \cup {r}
        /\ r.at + r.length <= Size
        /\ \A other \in regions : Units(r) \cap Units(other) = {}
        /\ r.asked \in Requests
        /\ r.asked + Overhead <= r.length /\ r.length <= r.asked + Overhead + Waste

Free == \E r \in regions : regions' = regions \ {r}

Next == Allocate \/ Free

Spec == Init /\ [][Next]_regions
=============================================================================

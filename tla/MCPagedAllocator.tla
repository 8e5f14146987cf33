-------------------------- MODULE MCPagedAllocator --------------------------
(***************************************************************************)
(* A heap of seventeen units (272 bytes): room for seven of the smallest   *)
(* blocks, so that the lists of the size classes get several members, a    *)
(* block is merged with both of its neighbours, and a block too small to   *)
(* split is given whole to a smaller request.                              *)
(***************************************************************************)
EXTENDS PagedAllocator

MCRequests == {0, 1, 3, 6}
=============================================================================

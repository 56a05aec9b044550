---------------------------- MODULE MCGuestRooms ----------------------------
(***************************************************************************)
(* TLC instance of GuestRooms: a quota of two, and tables that are full or *)
(* have one session too many, which an earlier overlap of two creations    *)
(* can leave behind. The run that looks for such an overlap starts within  *)
(* the quota. A post is a creation and an answer stored later, so that     *)
(* three posts have by far the most states and little that two posts and a *)
(* creation have not: they are left to the proofs.                         *)
(***************************************************************************)
EXTENDS GuestRooms, TLC
CONSTANTS s1, s2, s3

Tables == {<<s1, s2>>, <<s1, s2, s3>>}
Within == {<<s1>>, <<s1, s2>>}
FewPosts == \E r \in Requests : kind[r] # "post"
Symmetry == Permutations(Requests)
=============================================================================

--------------------------- MODULE MCStreamEpoch ---------------------------
(***************************************************************************)
(* StreamEpoch on an epoch of two or three slots.                          *)
(***************************************************************************)
EXTENDS StreamEpoch, TLC

\* The members of a committee are alike.
MemberSymmetry == Permutations(Members)
=============================================================================

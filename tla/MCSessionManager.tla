-------------------------- MODULE MCSessionManager --------------------------
(* Small instances of SessionManager for TLC. *)
EXTENDS SessionManager, TLC

CONSTANTS s1, s2, s3, admin, cleanup

TwoSessionIds   == {s1, s2}
ThreeSessionIds == {s1, s2, s3}
OneRemover      == {admin}
TwoRemovers     == {admin, cleanup}

(* Two addresses in each family: either allocator can run dry while a removal
   is still under way.                                                     *)
TwoAddresses   == [f \in {"v4", "v6"} |-> 3]

Symmetry == Permutations(SessionIds) \cup Permutations(TwoRemovers)
=============================================================================

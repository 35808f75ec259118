----------------------------- MODULE MCSessions -----------------------------
(***************************************************************************)
(* Small instances of Sessions for TLC.                                    *)
(***************************************************************************)
EXTENDS Sessions, TLC

CONSTANTS s1, s2, s3, r1, r2, r3

OneSession == {s1}
TwoSessions == {s1, s2}
ThreeSessions == {s1, s2, s3}
TwoRequests == {r1, r2}
ThreeRequests == {r1, r2, r3}

TokenKinds == {"refresh", "revoke"}
ResetKinds == {"login", "reset"}
AccountKinds == AllKinds \ {"refresh"}

TokenSymmetry == Permutations(ThreeRequests)
AccountSymmetry == Permutations(TwoSessions) \cup Permutations(TwoRequests)
ResetSymmetry == Permutations(ThreeSessions) \cup Permutations(TwoRequests)
=============================================================================

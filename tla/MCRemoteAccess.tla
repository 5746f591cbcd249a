-------------------------- MODULE MCRemoteAccess ---------------------------
(* Instances of RemoteAccess for TLC: two requests and two sign-ins at once. *)
EXTENDS RemoteAccess, TLC

CONSTANTS a1, a2, v1, v2, p1, p2

TwoAdmins == {a1, a2}
TwoSignIns == {v1, v2}
TwoPasswords == {p1, p2}
OneAddress == {"lab"}
Symmetry == Permutations(TwoAdmins) \cup Permutations(TwoSignIns) \cup Permutations(TwoPasswords)
=============================================================================

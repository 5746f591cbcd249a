--------------------------- MODULE MCDeviceThread ---------------------------
(* Instances of DeviceThread for TLC: a set, two parks and an unpark, or fewer. *)
EXTENDS DeviceThread, TLC

CONSTANTS s1, p1, p2, u1

FourRequests == {s1, p1, p2, u1}
FourKinds == (s1 :> "set") @@ (p1 :> "park") @@ (p2 :> "park") @@ (u1 :> "unpark")

\* The two parks are interchangeable.
Parks == Permutations({p1, p2})

ThreeRequests == {s1, p1, u1}
ThreeKinds == (s1 :> "set") @@ (p1 :> "park") @@ (u1 :> "unpark")
=============================================================================

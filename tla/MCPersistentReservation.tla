----------------------- MODULE MCPersistentReservation -----------------------
(* A small instance of PersistentReservation: two ports of one initiator,   *)
(* which has two keys, and one port of another.                             *)
EXTENDS PersistentReservation, TLC

CONSTANTS p1, p2, p3, k1, k2, k3

Trio == {p1, p2, p3}
TrioName == p1 :> "a" @@ p2 :> "a" @@ p3 :> "b"
TrioKeys == {k1, k2, k3}
TrioOwner == k1 :> "a" @@ k2 :> "b" @@ k3 :> "a"
TrioLegacyKey == p1 :> k1 @@ p2 :> k1 @@ p3 :> k2

(* The two ports of the initiator share its keys and may be swapped.        *)
TrioSymmetry == Permutations({p1, p2})

=============================================================================

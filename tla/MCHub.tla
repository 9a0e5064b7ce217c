-------------------------------- MODULE MCHub --------------------------------
(* Instances of Hub for TLC: two devices of one user, one of another.       *)
EXTENDS Hub, TLC

CONSTANTS alice, bob, c1, c2, c3, b1, b2, h1

TwoAndOne == [c \in Conns \cup Callers |-> IF c \in {c3, h1} THEN bob ELSE alice]
Symmetry == Permutations({c1, c2}) \cup Permutations(Casts)
=============================================================================

--------------------------- MODULE MCMessageStore ---------------------------
(* Small instances of MessageStore for TLC. *)
EXTENDS MessageStore, TLC

CONSTANTS c1, c2, r1, r2, r3, a1, a2, alice, bob

\* One conversation; r1 and r3 want the same attachment.
OneConvOf   == r1 :> c1 @@ r2 :> c1 @@ r3 :> c1
OneSenderOf == r1 :> alice @@ r2 :> alice @@ r3 :> alice
OneAttsOf   == r1 :> {a1} @@ r2 :> {} @@ r3 :> {a1}
OneOwnerOf  == a1 :> alice

\* One conversation and two sends without a common attachment.
PairConvOf   == r1 :> c1 @@ r2 :> c1
PairSenderOf == r1 :> alice @@ r2 :> bob
PairAttsOf   == r1 :> {a1} @@ r2 :> {}

\* Two conversations: r1 and r3 want the same attachment in different ones.
TwoConvOf   == r1 :> c1 @@ r2 :> c1 @@ r3 :> c2
TwoSenderOf == r1 :> alice @@ r2 :> bob @@ r3 :> alice
TwoAttsOf   == r1 :> {a1} @@ r2 :> {a2} @@ r3 :> {a1}
TwoOwnerOf  == a1 :> alice @@ a2 :> alice

ProcSymmetry == Permutations(Procs)
=============================================================================

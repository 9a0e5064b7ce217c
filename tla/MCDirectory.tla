---------------------------- MODULE MCDirectory ----------------------------
(* Instances of Directory for TLC.                                         *)
EXTENDS Directory, TLC

CONSTANTS alice, bob, carol, w1, w2

\* alice is user 1, bob is user 2; carol is not registered.
TwoNames == <<alice, bob>>

\* Both ask for their DM; alice makes a group and adds bob to it, or tries to
\* add a third person to what may be the DM; carol's name is wanted by two
\* people; two devices edit two fields of alice's profile.
TwoFriends ==
  { [do |-> "create", type |-> "dm", creator |-> 1, others |-> {2}],
    [do |-> "create", type |-> "dm", creator |-> 2, others |-> {1}],
    [do |-> "create", type |-> "group", creator |-> 1, others |-> {}],
    [do |-> "add", by |-> 1, conv |-> 1, user |-> 3],
    [do |-> "register", name |-> carol],
    [do |-> "edit", user |-> 1, field |-> "displayName", value |-> 1],
    [do |-> "edit", user |-> 1, field |-> "status", value |-> 1] }

Symmetry == Permutations(Workers)
=============================================================================

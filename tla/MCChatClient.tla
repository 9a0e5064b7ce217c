---------------------------- MODULE MCChatClient ----------------------------
(* Instances of ChatClient for TLC.                                        *)
EXTENDS ChatClient, TLC

CONSTANTS k1, k2

Symmetry == Permutations(Catchups)
=============================================================================

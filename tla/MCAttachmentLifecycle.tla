------------------------ MODULE MCAttachmentLifecycle ------------------------
(* Small instances of AttachmentLifecycle for TLC.                         *)
EXTENDS AttachmentLifecycle, TLC

CONSTANTS u1, c1, a1, a2, a3, w1, w2

AllMineOwner == [a \in Attachments |-> u1]

\* a1 is sent, the others become avatars.
SendOneUses == [a \in Attachments |-> IF a = a1 THEN {"message"} ELSE {"avatar"}]
\* Attachments put to the same use, and goroutines, are interchangeable.
Symmetry == Permutations({a2, a3}) \cup Permutations({w1, w2})

=============================================================================

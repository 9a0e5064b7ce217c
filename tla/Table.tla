-------------------------------- MODULE Table --------------------------------
(***************************************************************************)
(* What the directory promises those who ask it for something that exists  *)
(* once: the account of a username, the DM of two users.  A key is entered *)
(* once, with an ID that no other key has, and keeps it; and whoever asks  *)
(* for a key is told the ID it has been entered with.                      *)
(***************************************************************************)
CONSTANT Keys   \* what there is one of

VARIABLES
  entry,        \* entry[k]: the ID of key k; its domain is the keys entered
  told          \* told[k]: the IDs that those who asked for k were told

\* Some keys may have been entered before.
Init ==
  /\ \A j, k \in DOMAIN entry : j # k => entry[j] # entry[k]
  /\ told = [k \in Keys |-> {}]

\* Key k gets an ID of its own; whichever it is.
Enter(k) ==
  /\ k \notin DOMAIN entry
  /\ DOMAIN entry' = DOMAIN entry \cup {k}
  /\ \A j \in DOMAIN entry : entry'[j] = entry[j] /\ entry'[k] # entry[j]
  /\ UNCHANGED told

\* Somebody is told the ID of key k.
Tell(k) ==
  /\ k \in DOMAIN entry
  /\ told' = [told EXCEPT ![k] = @ \cup {entry[k]}]
  /\ UNCHANGED entry

Next == \E k \in Keys : Enter(k) \/ Tell(k)

Spec == Init /\ [][Next]_<<entry, told>>
=============================================================================

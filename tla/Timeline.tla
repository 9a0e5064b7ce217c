------------------------------ MODULE Timeline ------------------------------
(***************************************************************************)
(* What the message store promises its callers: every conversation has one *)
(* timeline, a sequence that only grows at its end.  A request that names  *)
(* itself (a send with a client message ID) enters its timeline at most    *)
(* once however often it is retried, an answer to a send is a position the *)
(* request really occupies, and an answer to "what is the newest sequence  *)
(* number" is the length of the timeline at some moment of the call.       *)
(***************************************************************************)
EXTENDS Naturals, Sequences

CONSTANTS
  Convs,      \* conversation IDs
  Requests,   \* sends, one per (sender, client message ID)
  Anonymous,  \* the sends that carry no client message ID
  ConvOf      \* the conversation each send is for

VARIABLES
  log,        \* log[c] is the timeline of conversation c
  told        \* the answers callers of each send, or of LastSeq, have got

Init ==
  /\ log  = [c \in Convs |-> <<>>]
  /\ told = [j \in Requests \cup Convs |-> {}]

\* Request r becomes the newest message of its conversation.
Accept(r) ==
  LET c == ConvOf[r] IN
  /\ r \notin Anonymous => \A s \in DOMAIN log[c] : log[c][s] # r
  /\ log' = [log EXCEPT ![c] = Append(@, r)]
  /\ UNCHANGED told

\* A caller of send r learns a position at which r is recorded.
Answer(r) ==
  LET c == ConvOf[r] IN
  \E s \in DOMAIN log[c] :
    /\ log[c][s] = r
    /\ told' = [told EXCEPT ![r] = @ \cup {s}]
    /\ UNCHANGED log

\* A caller of LastSeq learns the length of the timeline.
Report(c) ==
  /\ told' = [told EXCEPT ![c] = @ \cup {Len(log[c])}]
  /\ UNCHANGED log

Next ==
  \/ \E r \in Requests : Accept(r) \/ Answer(r)
  \/ \E c \in Convs : Report(c)

Spec == Init /\ [][Next]_<<log, told>>
=============================================================================

--------------------------- MODULE TimelineProofs ---------------------------
(***************************************************************************)
(* Proofs about MessageStore, third part: the store implements Timeline.   *)
(***************************************************************************)
EXTENDS RecoveryProofs, SequenceTheorems

-----------------------------------------------------------------------------
(* The refinement.                                                         *)

\* A timeline is a sequence of requests.
LEMMA TimelineIsSeq ==
  ASSUME Base, NEW c \in Convs
  PROVE  message[c] \in Seq(Requests)
<1>1. Seqs(c) \subseteq Nat /\ message[c] \in [Seqs(c) -> Requests]
  BY DEF Base, TypeOK
<1>2. PICK n \in {0} \cup Seqs(c) : Seqs(c) = 1..n
  BY DEF Base, Shape, ShapeOf
<1>3. n \in Nat /\ message[c] \in [1..n -> Requests]
  BY <1>1, <1>2
<1> QED
  BY <1>3, SeqDef

\* The put of a message appends it.
LEMMA PutAppends ==
  ASSUME Base, NEW p \in Procs, NEW c \in Convs, Conv(p) = c, PutMessage(p), PutSucceeds(p, c)
  PROVE  message' = [message EXCEPT ![c] = Append(message[c], job[p])]
<1>1. /\ Seqs(c) = 1..last[c] /\ last[c] \in Nat /\ job[p] \in Requests
      /\ Seqs(c)' = 1..(last[c] + 1)
      /\ message'[c][last[c] + 1] = job[p]
      /\ \A s \in Seqs(c) : message'[c][s] = message[c][s]
  BY PutEffect DEF Base
<1>2. message[c] \in Seq(Requests)
  BY TimelineIsSeq
<1>3. Len(message[c]) = last[c]
  BY <1>1, <1>2, LenProperties DEF Seqs
<1> DEFINE old == message[c]
           new == Append(old, job[p])
<1>4. /\ new \in Seq(Requests)
      /\ Len(new) = last[c] + 1
      /\ \A i \in 1..last[c] : new[i] = old[i]
      /\ new[last[c] + 1] = job[p]
  BY <1>1, <1>2, <1>3, AppendProperties
<1>5. new \in [1..(last[c] + 1) -> Requests]
  BY <1>4, LenProperties
<1>6. message'[c] = Put(old, last[c] + 1, job[p])
  BY DEF PutSucceeds, Base, TypeOK
<1>7. message'[c] = [x \in 1..(last[c] + 1) |-> IF x = last[c] + 1 THEN job[p] ELSE old[x]]
  BY <1>1, <1>6 DEF Put, Seqs
<1>8. \A x \in 1..(last[c] + 1) : new[x] = IF x = last[c] + 1 THEN job[p] ELSE old[x]
  BY <1>1, <1>4
<1>9. message'[c] = new
  BY <1>5, <1>7, <1>8
<1> QED
  BY <1>6, <1>9 DEF PutSucceeds

\* Every step maps to a step of the timeline, or to none: a successful put of
\* a message accepts it, a return answers or reports.
LEMMA StepImplements ==
  ASSUME IndInv, NEW p \in Procs, Step(p)
  PROVE  [Promise!Next]_<<message, told>>
<1> USE DEF IndInv
<1>1. PICK c \in Convs : c = Conv(p)
  BY Stepping DEF Base
<1>2. /\ ControlOf(p) /\ InHandOf(p) /\ FreshOf(p) /\ ShapeOf(c) /\ job[p] \in Jobs
      /\ job[p] \in Requests => ConvOf[job[p]] = c
      /\ job[p] \in Convs => job[p] = c
  <2>1. job[p] \in Convs => job[p] = c
    BY <1>1 DEF Conv, Target
  <2> QED
    BY <1>1, <2>1, Stepping DEF Base, Fresh, InHand, Shape
<1>3. CASE PutMessage(p)
  <2>1. told' = told /\ pc[p] = "put"
    BY <1>3 DEF PutMessage, observed
  <2>2. CASE PutSucceeds(p, c)
    <3>1. job[p] \in Requests
      BY <1>2, <2>1 DEF ControlOf
    <3>2. message' = [message EXCEPT ![c] = Append(message[c], job[p])]
      BY <1>1, <1>3, <2>2, PutAppends
    <3>3. job[p] \notin Anonymous => \A s \in DOMAIN message[c] : message[c][s] # job[p]
      BY <1>1, <1>2, <2>1 DEF FreshOf, Seqs
    <3>4. Promise!Accept(job[p])
      BY <1>2, <2>1, <3>1, <3>2, <3>3 DEF Promise!Accept
    <3> QED
      BY <3>1, <3>4 DEF Promise!Next
  <2>3. CASE message' = message
    BY <2>1, <2>3
  <2> QED
    BY <1>1, <1>3, <2>2, <2>3, PutOutcome
<1>4. CASE Reply(p)
  <2>1. /\ pc[p] = "reply" /\ message' = message
        /\ told' = [told EXCEPT ![job[p]] = told[job[p]] \cup {cursor[p]}]
    BY <1>4 DEF Reply, disk
  <2>2. CASE job[p] \in Requests
    <3>1. cursor[p] \in DOMAIN message[c] /\ message[c][cursor[p]] = job[p]
      BY <1>1, <1>2, <2>1, <2>2 DEF InHandOf, Seqs
    <3>2. Promise!Answer(job[p])
      BY <1>2, <2>1, <2>2, <3>1 DEF Promise!Answer
    <3> QED
      BY <2>2, <3>2 DEF Promise!Next
  <2>3. CASE job[p] \in Convs
    <3>1. cursor[p] = last[c] /\ loaded[c] /\ job[p] = c
      BY <1>1, <1>2, <2>1, <2>3 DEF InHandOf, ControlOf
    <3>2. Seqs(c) = 1..last[c] /\ last[c] \in Nat
      BY <1>2, <3>1 DEF ShapeOf, Base, TypeOK
    <3>3. Len(message[c]) = last[c]
      BY <3>2, TimelineIsSeq, LenProperties DEF Seqs
    <3>4. Promise!Report(c)
      BY <2>1, <3>1, <3>3 DEF Promise!Report
    <3> QED
      BY <3>4 DEF Promise!Next
  <2> QED
    BY <1>2, <2>2, <2>3 DEF Jobs
<1>5. CASE ~PutMessage(p) /\ ~Reply(p)
  <2>1. message' = message
    BY <1>5, OnlyPut
  <2>2. told' = told
    BY <1>5 DEF Step, Lock, Load, Rebuild, FinishLoad, ReadLast, Dedup, Validate, CommitGet,
                CommitPut, CommitDone, PutIndex, PutHint, Touch, Fail, observed
  <2> QED
    BY <2>1, <2>2
<1> QED
  BY <1>3, <1>4, <1>5

\* The store implements the timeline it promises its callers: one growing
\* sequence per conversation, each named send in it at most once, every answer
\* a position the send occupies.
THEOREM StoreImplementsTimeline == Recoverable => (Spec => ImplementsTimeline)
<1>1. Init => Promise!Init
  BY DEF Init, Promise!Init, Jobs
<1>2. IndInv /\ [Next]_vars => [Promise!Next]_<<message, told>>
  <2> SUFFICES ASSUME IndInv, [Next]_vars
               PROVE  [Promise!Next]_<<message, told>>
    OBVIOUS
  <2>1. ASSUME NEW p \in Procs, Step(p)
        PROVE  [Promise!Next]_<<message, told>>
    BY <2>1, StepImplements
  <2>2. CASE UNCHANGED <<message, told>>
    BY <2>2
  <2> QED
    BY <2>1, <2>2 DEF Next, Call, Age, PruneList, PruneDelete, Crash, vars, disk, observed
<1>3. ASSUME Recoverable PROVE Spec => []IndInv
  BY <1>3, RecoveryIsInductive
<1>4. ASSUME Recoverable PROVE Spec => ImplementsTimeline
  BY <1>1, <1>2, <1>3, <1>4, PTL DEF Spec, ImplementsTimeline, Promise!Spec
<1> QED
  BY <1>4
=============================================================================

--------------------------- MODULE RecoveryProofs ---------------------------
(***************************************************************************)
(* Proofs about MessageStore, second part: what the recovery scan makes    *)
(* good.  IndInv adds to Base that every message the scan would skip is    *)
(* settled, and that a send which passed its checks is still not stored.   *)
(***************************************************************************)
EXTENDS MessageStoreProofs

-----------------------------------------------------------------------------
(* The second part of the invariant.  It needs that no index entry and no  *)
(* attachment commit of an append is lost while the process lives on, and  *)
(* that clients do not retry what the janitor may have forgotten.          *)

Recoverable ==
  /\ "index" \notin MayFail
  /\ "attachment" \notin MayFail
  /\ LateRetries = FALSE

\* A message is settled when the recovery scan can skip it.
Indexed(c, s) == message[c][s] \in DOMAIN index \cup Anonymous \/ s <= aged[c]
Settled(c, s) ==
  /\ Indexed(c, s)
  /\ \A a \in AttsOf[message[c][s]] : att[a].state # "Pending"

\* Everything up to the hint is settled, and so is everything in a loaded
\* conversation but the message in hand.
InProgress(p) == pc[p] \in {"commit", "write", "index"}
SettledIn(c) ==
  \A s \in Seqs(c) :
    s <= hint[c] \/ loaded[c] =>
      Settled(c, s) \/ \E p \in Procs : InProgress(p) /\ Conv(p) = c /\ s = cursor[p]

\* The recovery scan settles what it passes; of the message in hand, what is
\* not settled is still to do.
RecoveryOf(p) ==
  /\ pc[p] \in {"rebuild", "commit", "write"} /\ ~loaded[Conv(p)] =>
       \A s \in Seqs(Conv(p)) : s < cursor[p] => Settled(Conv(p), s)
  /\ pc[p] \in {"commit", "write"} /\ ~loaded[Conv(p)] => Indexed(Conv(p), cursor[p])
  /\ InProgress(p) =>
       \A a \in AttsOf[message[Conv(p)][cursor[p]]] : a \in todo[p] \/ att[a].state # "Pending"
  /\ InProgress(p) \/ pc[p] = "rebuild" => hint[Conv(p)] < cursor[p]
  /\ pc[p] = "index" => todo[p] = {}
Recovery == (\A c \in Convs : SettledIn(c)) /\ (\A p \in Procs : RecoveryOf(p))

\* A send that is being validated or put is not stored yet, and an attachment
\* it has validated is in no message of its timeline.
FreshOf(p) ==
  /\ pc[p] # "idle" /\ job[p] \in Requests => ~Aged(job[p])
  /\ pc[p] \in {"validate", "put"} =>
       /\ job[p] \in Anonymous \/ \A s \in Seqs(Conv(p)) : message[Conv(p)][s] # job[p]
       /\ \A a \in AttsOf[job[p]] \ todo[p] :
            \A s \in Seqs(Conv(p)) : a \notin AttsOf[message[Conv(p)][s]]
  /\ pc[p] = "put" => todo[p] = {}
Fresh == \A p \in Procs : FreshOf(p)

\* The janitor only deletes entries of aged messages.
DoomedAged == \A r \in doomed : Aged(r)

IndInv == /\ Base /\ NoDuplicateMessage /\ SingleUseInTimeline
          /\ Recovery /\ Fresh /\ DoomedAged

-----------------------------------------------------------------------------
\* What a step of a goroutine keeps: settled messages stay settled, and no
\* request becomes aged or stops being so.
LEMMA SettledKept ==
  ASSUME Base, NEW p \in Procs, Step(p), NEW c \in Convs, NEW s \in Seqs(c)
  PROVE  /\ Indexed(c, s) => Indexed(c, s)'
         /\ Settled(c, s) => Settled(c, s)'
<1>1. message'[c][s] = message[c][s] /\ aged' = aged
  BY Growth, StepBystanders DEF Base, Bystanders
<1>2. DOMAIN index \subseteq DOMAIN index'
  BY ZenonT(40) DEF Step, Lock, Load, Rebuild, FinishLoad, ReadLast, Dedup, Validate, PutMessage, CommitGet,
         CommitPut, CommitDone, PutIndex, PutHint, Touch, Reply, Fail, disk, Put
<1>3. message[c][s] \in Requests
  BY DEF Base, TypeOK
<1>4. \A a \in AttsOf[message[c][s]] : att[a].state # "Pending" => att'[a].state # "Pending"
  <2>1. AttsOf[message[c][s]] \subseteq Attachments
    BY <1>3, RequestsAssumption
  <2> QED
    BY <2>1, MarksMove
<1> QED
  BY <1>1, <1>2, <1>4 DEF Indexed, Settled

\* No step of a goroutine makes a send aged, or stops it being so: a new message
\* is not old.
LEMMA AgedKept ==
  ASSUME Base, NEW p \in Procs, Step(p), NEW r \in Requests
  PROVE  Aged(r)' <=> Aged(r)
<1>1. ConvOf[r] \in Convs
  BY RequestsAssumption
<1>2. aged' = aged
  BY StepBystanders DEF Base, Bystanders
<1>3. Aged(r) => Aged(r)'
  BY <1>1, <1>2, Growth DEF Aged, Base, Seqs
<1>4. Aged(r)' => Aged(r)
  <2>1. CASE ~PutMessage(p)
    BY <1>2, <2>1, OnlyPut DEF Aged
  <2>2. CASE PutMessage(p)
    <3>1. PICK c \in Convs : c = Conv(p)
      BY Stepping DEF Base
    <3>2. CASE PutSucceeds(p, c)
      <4>1. CASE ConvOf[r] # c
        <5>1. message'[ConvOf[r]] = message[ConvOf[r]]
          BY <1>1, <2>2, <3>1, <3>2, <4>1, PutEffect DEF Base
        <5> QED
          BY <1>2, <5>1 DEF Aged
      <4>2. CASE ConvOf[r] = c
        <5>1. /\ Seqs(c) = 1..last[c] /\ last[c] \in Nat /\ Seqs(c)' = 1..(last[c] + 1)
              /\ \A s \in Seqs(c) : message'[c][s] = message[c][s]
          BY <2>2, <3>1, <3>2, PutEffect DEF Base
        <5>2. aged[c] \in Seqs(c) \cup {0}
          BY DEF Base, Shape, ShapeOf
        <5>3. \A s \in Seqs(c)' : s <= aged[c] => s \in Seqs(c)
          BY <5>1, <5>2
        <5> QED
          BY <1>2, <4>2, <5>1, <5>3 DEF Aged, Seqs
      <4> QED
        BY <4>1, <4>2
    <3>3. CASE message' = message
      BY <1>2, <3>3 DEF Aged
    <3> QED
      BY <2>2, <3>1, <3>2, <3>3, PutOutcome
  <2> QED
    BY <2>1, <2>2
<1> QED
  BY <1>3, <1>4

\* A goroutine that holds the mutex and is not in progress finds every message
\* of a loaded conversation settled; without the mutex being loaded, every
\* message up to the hint.
LEMMA SettledForHolder ==
  ASSUME Base, Recovery, NEW p \in Procs, pc[p] \notin {"idle", "lock"}, ~InProgress(p),
         NEW c \in Convs, c = Conv(p), NEW s \in Seqs(c), s <= hint[c] \/ loaded[c]
  PROVE  Settled(c, s)
<1>1. \A q \in Procs : InProgress(q) /\ Conv(q) = c => q = p
  BY DEF Base, Control, ControlOf, InProgress
<1> QED
  BY <1>1 DEF Recovery, SettledIn

\* A message up to the hint is settled, in progress or not.
LEMMA SettledToHint ==
  ASSUME Base, Recovery, NEW c \in Convs, NEW s \in Seqs(c), s <= hint[c]
  PROVE  Settled(c, s)
<1>1. s \in Nat /\ hint[c] \in Nat /\ cursor \in [Procs -> Nat]
  BY DEF Base, TypeOK
<1>2. \A q \in Procs : InProgress(q) /\ Conv(q) = c => s # cursor[q]
  BY <1>1 DEF Recovery, RecoveryOf
<1> QED
  BY <1>2 DEF Recovery, SettledIn

\* At most one message per send, and per attachment of a timeline.
LEMMA UniqueStep ==
  ASSUME Base, NoDuplicateMessage, SingleUseInTimeline, Fresh, NEW p \in Procs, Step(p)
  PROVE  NoDuplicateMessage' /\ SingleUseInTimeline'
<1>1. CASE message' = message
  BY <1>1 DEF NoDuplicateMessage, SingleUseInTimeline, Seqs
<1>2. CASE message' # message
  <2>1. PutMessage(p)
    BY <1>2, OnlyPut
  <2>2. PICK c \in Convs : c = Conv(p)
    BY Stepping DEF Base
  <2>3. PutSucceeds(p, c)
    BY <1>2, <2>1, <2>2, PutOutcome
  <2>4. /\ Seqs(c) = 1..last[c] /\ last[c] \in Nat /\ Seqs(c)' = 1..(last[c] + 1)
        /\ message'[c][last[c] + 1] = job[p] /\ job[p] \in Requests
        /\ \A s \in Seqs(c) : message'[c][s] = message[c][s]
        /\ \A d \in Convs \ {c} : message'[d] = message[d]
    BY <2>1, <2>2, <2>3, PutEffect DEF Base
  <2>5. pc[p] = "put" /\ FreshOf(p)
    BY <2>1 DEF PutMessage, Fresh
  <2>6. /\ job[p] \in Anonymous \/ \A s \in Seqs(c) : message[c][s] # job[p]
        /\ \A s \in Seqs(c) : AttsOf[job[p]] \cap AttsOf[message[c][s]] = {}
    BY <2>2, <2>5 DEF FreshOf
  <2>7. ASSUME NEW d \in Convs, NEW s \in Seqs(d)', NEW t \in Seqs(d)', s # t
        PROVE  /\ message'[d][s] # message'[d][t] \/ message'[d][s] \in Anonymous
               /\ AttsOf[message'[d][s]] \cap AttsOf[message'[d][t]] = {}
    <3>1. CASE d # c
      BY ZenonT(40), <2>4, <2>7, <3>1 DEF NoDuplicateMessage, SingleUseInTimeline, Seqs
    <3>2. CASE d = c
      <4>1. \A x \in Seqs(d)' : x = last[c] + 1 \/ x \in Seqs(c)
        BY <2>4, <3>2
      <4>2. CASE s \in Seqs(c) /\ t \in Seqs(c)
        BY <2>4, <2>7, <3>2, <4>2 DEF NoDuplicateMessage, SingleUseInTimeline
      <4>3. CASE s = last[c] + 1 /\ t \in Seqs(c)
        BY <2>4, <2>6, <3>2, <4>3
      <4>4. CASE t = last[c] + 1 /\ s \in Seqs(c)
        BY <2>4, <2>6, <3>2, <4>4
      <4> QED
        BY <2>7, <4>1, <4>2, <4>3, <4>4
    <3> QED
      BY <3>1, <3>2
  <2> QED
    BY <2>7 DEF NoDuplicateMessage, SingleUseInTimeline
<1> QED
  BY <1>1, <1>2

\* A send that passed the lookup and the validation is still not stored: the
\* mutex keeps its timeline as it was.
LEMMA FreshStep ==
  ASSUME Base, Recovery, Fresh, NEW p \in Procs, Step(p)
  PROVE  Fresh'
<1>1. Bystanders(p)
  BY StepBystanders DEF Base
<1>2. ASSUME NEW q \in Procs, q # p
      PROVE  FreshOf(q)'
  <2>1. pc'[q] = pc[q] /\ job'[q] = job[q] /\ todo'[q] = todo[q]
    BY <1>1, <1>2 DEF Bystanders
  <2>2. Conv(q)' = Conv(q)
    BY <2>1, SameConv
  <2>3. FreshOf(q)
    BY DEF Fresh
  <2>4. pc'[q] # "idle" /\ job'[q] \in Requests => ~Aged(job[q])'
    <3> SUFFICES ASSUME pc'[q] # "idle", job'[q] \in Requests
                 PROVE  ~Aged(job[q])'
      OBVIOUS
    <3>1. PICK r \in Requests : r = job[q] /\ r = job'[q]
      BY <2>1, <2>3
    <3>2. ~Aged(r)
      BY <2>1, <2>3, <3>1 DEF FreshOf
    <3>3. ~Aged(r)'
      BY <3>2, AgedKept
    <3> QED
      BY <3>1, <3>3 DEF Aged
  <2>5. ASSUME pc[q] \in {"validate", "put"}
        PROVE  message'[Conv(q)] = message[Conv(q)]
    <3>1. Conv(q) \in Convs \ {Conv(p)}
      BY <1>2, <2>5, SetsAssumption, ConvType, OthersElsewhere DEF Base
    <3> QED
      BY <1>1, <3>1 DEF Bystanders
  <2> QED
    BY <2>1, <2>2, <2>3, <2>4, <2>5 DEF FreshOf, Seqs
<1>3. FreshOf(p)'
  <2>1. PICK c \in Convs : c = Conv(p)
    BY Stepping DEF Base
  <2>2. /\ pc \in [Procs -> Labels] /\ job \in [Procs -> Jobs \cup {Nothing}]
        /\ todo \in [Procs -> SUBSET Attachments]
    BY DEF Base, TypeOK
  <2>3. /\ FreshOf(p) /\ ControlOf(p) /\ pc[p] # "idle"
        /\ job[p] \in Requests => ConvOf[job[p]] = c
    BY <2>1, Stepping DEF Fresh, Base
  <2>4. job'[p] = job[p] => Conv(p)' = c
    BY <2>1, SameConv
  <2>5. pc'[p] = "idle" \/ job'[p] = job[p]
    BY <2>2 DEF Step, Lock, Load, Rebuild, FinishLoad, ReadLast, Dedup, Validate, PutMessage,
                CommitGet, CommitPut, CommitDone, PutIndex, PutHint, Touch, Reply, Fail,
                Unlock, goroutine
  <2>6. pc'[p] # "idle" /\ job'[p] \in Requests => ~Aged(job[p])'
    <3> SUFFICES ASSUME pc'[p] # "idle", job'[p] \in Requests
                 PROVE  ~Aged(job[p])'
      OBVIOUS
    <3>1. PICK r \in Requests : r = job[p] /\ r = job'[p]
      BY <2>3, <2>5
    <3>2. ~Aged(r)
      BY <2>3, <2>5, <3>1 DEF FreshOf
    <3>3. ~Aged(r)'
      BY <3>2, AgedKept
    <3> QED
      BY <3>1, <3>3 DEF Aged
  <2>7. CASE Dedup(p)
    <3>1. UNCHANGED <<message, job>> /\ job[p] \in Requests
      BY <2>7 DEF Dedup, disk
    <3>2. CASE pc'[p] = "validate"
      <4>1. job[p] \in Anonymous \/ job[p] \notin DOMAIN index
        BY <2>2, <2>7, <3>2 DEF Dedup, Goto
      <4>2. todo'[p] = AttsOf[job[p]]
        BY <2>2, <2>7, <3>2 DEF Dedup, Goto
      <4>3. pc[p] = "ready" /\ loaded[c]
        BY <2>1, <2>3, <2>7 DEF Dedup, ControlOf
      <4>4. ASSUME NEW s \in Seqs(c), message[c][s] = job[p], job[p] \notin Anonymous
            PROVE  FALSE
        <5>1. Settled(c, s)
          BY <2>1, <4>3, SettledForHolder DEF InProgress
        <5>2. s <= aged[c]
          BY <4>1, <4>4, <5>1 DEF Settled, Indexed
        <5>3. Aged(job[p])
          BY <2>3, <3>1, <4>4, <5>2 DEF Aged, Seqs
        <5> QED
          BY <2>3, <3>1, <5>3 DEF FreshOf
      <4> QED
        BY <2>4, <2>6, <3>1, <3>2, <4>2, <4>4 DEF FreshOf, Seqs
    <3>3. CASE pc'[p] # "validate"
      <4>1. pc'[p] # "put"
        BY <2>2, <2>7 DEF Dedup, Goto
      <4> QED
        BY <2>6, <3>3, <4>1 DEF FreshOf
    <3> QED
      BY <3>2, <3>3
  <2>8. CASE Validate(p)
    <3>1. UNCHANGED <<message, job>> /\ pc[p] = "validate"
      BY <2>8 DEF Validate, disk
    <3>2. loaded[c] /\ job[p] \in Requests
      BY <2>1, <2>3, <3>1 DEF ControlOf
    <3>3. \/ \E a \in todo[p] : Usable(job[p], a) /\ todo'[p] = todo[p] \ {a} /\ pc'[p] = "validate"
          \/ pc'[p] = "fail"
          \/ todo[p] = {} /\ todo'[p] = {} /\ pc'[p] = "put"
      BY <2>2, <2>8 DEF Validate, Goto
    <3>4. ASSUME NEW a \in todo[p], Usable(job[p], a), NEW s \in Seqs(c)
          PROVE  a \notin AttsOf[message[c][s]]
      <4>1. Settled(c, s)
        BY <2>1, <3>1, <3>2, SettledForHolder DEF InProgress
      <4> QED
        BY <3>4, <4>1 DEF Settled, Usable
    <3> QED
      BY <2>1, <2>3, <2>4, <2>6, <3>1, <3>3, <3>4 DEF FreshOf, Seqs
  <2>9. CASE ~Dedup(p) /\ ~Validate(p)
    <3>1. pc'[p] \notin {"validate", "put"}
      BY <2>2, <2>9 DEF Step, Lock, Load, Rebuild, FinishLoad, ReadLast, PutMessage,
                CommitGet, CommitPut, CommitDone, CommitError, PutIndex, PutHint, Touch, Reply, Fail,
                Unlock, Goto
    <3> QED
      BY <2>6, <3>1 DEF FreshOf
  <2> QED
    BY <2>7, <2>8, <2>9
<1> QED
  BY <1>2, <1>3 DEF Fresh

\* What the goroutine that steps leaves for the recovery scan.
LEMMA RecoveryOfStep ==
  ASSUME Recoverable, Base, Recovery, NEW p \in Procs, Step(p), NEW c \in Convs, c = Conv(p)
  PROVE  RecoveryOf(p)'
<1>1. /\ pc \in [Procs -> Labels] /\ job \in [Procs -> Jobs \cup {Nothing}]
      /\ todo \in [Procs -> SUBSET Attachments] /\ cursor \in [Procs -> Nat]
      /\ pick \in [Procs -> Attachments \cup {Nothing}]
      /\ hint \in [Convs -> Nat] /\ last \in [Convs -> Nat] /\ loaded \in [Convs -> BOOLEAN]
      /\ att \in [Attachments -> [state : States, conv : Convs \cup {Nothing}]]
      /\ Seqs(c) \subseteq Nat /\ message[c] \in [Seqs(c) -> Requests]
  BY DEF Base, TypeOK
<1>2. /\ RecoveryOf(p) /\ ControlOf(p) /\ InHandOf(p) /\ ShapeOf(c)
      /\ job[p] \in Requests => ConvOf[job[p]] = c
  BY Stepping DEF Base, Recovery, InHand, Shape
<1>3. job'[p] = job[p] => Conv(p)' = c
  BY SameConv
<1>4. \A s \in Seqs(c) : /\ Settled(c, s) => Settled(c, s)'
                         /\ Indexed(c, s) => Indexed(c, s)'
  BY SettledKept
<1>5. ASSUME pc'[p] \notin {"rebuild", "commit", "write", "index"}
      PROVE  RecoveryOf(p)'
  BY <1>5 DEF RecoveryOf, InProgress
<1> USE DEF Goto, disk, memory, goroutine, observed
<1>6. CASE Load(p)
  <2>1. CASE pc'[p] = "rebuild"
    <3>1. /\ pc[p] = "load" /\ cursor'[p] = hint[c] + 1 /\ job' = job
          /\ UNCHANGED <<message, hint, loaded>>
      BY <1>1, <1>6, <2>1 DEF Load
    <3>2. \A s \in Seqs(c) : s < cursor'[p] => Settled(c, s)
      BY <1>1, <3>1, SettledToHint
    <3> QED
      BY <1>1, <1>3, <1>4, <2>1, <3>1, <3>2 DEF RecoveryOf, InProgress, Seqs
  <2>2. CASE pc'[p] # "rebuild"
    BY <1>1, <1>5, <1>6, <2>2 DEF Load
  <2> QED
    BY <2>1, <2>2
<1>7. CASE Rebuild(p)
  <2>1. UNCHANGED <<message, hint, loaded, job, att>> /\ pc[p] = "rebuild"
    BY <1>7 DEF Rebuild
  <2>2. CASE pc'[p] = "fail"
    BY <1>5, <2>2
  <2>3. CASE pc'[p] # "fail"
    <3>1. PICK s \in Seqs(c) :
            /\ s >= cursor[p] /\ \A t \in Seqs(c) : t >= cursor[p] => s <= t
            /\ index' = IF message[c][s] \in Anonymous THEN index ELSE Put(index, message[c][s], s)
            /\ cursor'[p] = s /\ todo'[p] = AttsOf[message[c][s]] /\ pc'[p] = "commit"
      BY <1>1, <1>7, <2>3 DEF Rebuild, Ahead, Seqs
    <3>2. \A t \in Seqs(c) : t < s => Settled(c, t)'
      BY <1>1, <1>2, <1>4, <2>1, <3>1 DEF RecoveryOf, ControlOf
    <3>3. Indexed(c, s)'
      BY <2>1, <3>1 DEF Indexed, Put
    <3>4. hint[c] < s
      BY <1>1, <1>2, <2>1, <3>1 DEF RecoveryOf
    <3> QED
      BY <1>3, <2>1, <3>1, <3>2, <3>3, <3>4 DEF RecoveryOf, InProgress, Seqs
  <2> QED
    BY <2>2, <2>3
<1>8. CASE PutMessage(p)
  <2>1. CASE PutSucceeds(p, c)
    <3>1. /\ Seqs(c) = 1..last[c] /\ last[c] \in Nat /\ cursor'[p] = last[c] + 1
          /\ todo'[p] = AttsOf[job[p]] /\ pc'[p] = "commit" /\ message'[c][last[c] + 1] = job[p]
      BY <1>8, <2>1, PutEffect DEF Base
    <3>2. UNCHANGED <<hint, loaded, job>> /\ loaded[c]
      BY <1>2, <1>8 DEF PutMessage, ControlOf
    <3>3. hint[c] < last[c] + 1
      BY <1>2, <3>1 DEF ShapeOf
    <3> QED
      BY <1>3, <3>1, <3>2, <3>3 DEF RecoveryOf, InProgress
  <2>2. CASE Goto(p, "fail")
    BY <1>1, <1>5, <2>2
  <2> QED
    BY <1>8, <2>1, <2>2, PutOutcome
<1>9. CASE CommitGet(p)
  <2>1. UNCHANGED <<message, hint, loaded, job, att, cursor>> /\ pc[p] = "commit"
    BY <1>9 DEF CommitGet
  <2>2. CASE pc'[p] \in {"commit", "write"}
    <3>1. \A a \in todo[p] : a \in todo'[p] \/ att[a].state # "Pending"
      BY <1>1, <1>9, <2>2 DEF CommitGet, CommitError, Record
    <3> QED
      BY <1>2, <1>3, <1>4, <2>1, <2>2, <3>1 DEF RecoveryOf, InProgress, InHandOf, Seqs
  <2>3. CASE pc'[p] \notin {"commit", "write"}
    BY <1>1, <1>5, <1>9, <2>3 DEF CommitGet, CommitError
  <2> QED
    BY <2>2, <2>3
<1>10. CASE CommitPut(p)
  <2>1. UNCHANGED <<message, hint, loaded, job, cursor>> /\ pc[p] = "write"
    BY <1>10 DEF CommitPut
  <2>2. CASE pc'[p] = "commit"
    <3>1. /\ att' = [att EXCEPT ![pick[p]] = Record("Committed", c)]
          /\ todo'[p] = todo[p] \ {pick[p]}
      BY <1>1, <1>10, <2>2 DEF CommitPut, CommitError
    <3>2. \A a \in Attachments : \/ a # pick[p] /\ att'[a] = att[a]
                                 \/ a = pick[p] /\ att'[a].state # "Pending"
      BY <1>1, <3>1 DEF Record
    <3>3. AttsOf[message[c][cursor[p]]] \subseteq Attachments
      BY <1>1, <1>2, <2>1, RequestsAssumption DEF InHandOf
    <3> QED
      BY <1>2, <1>3, <1>4, <2>1, <2>2, <3>1, <3>2, <3>3 DEF RecoveryOf, InProgress, InHandOf, Seqs
  <2>3. CASE pc'[p] # "commit"
    BY <1>1, <1>5, <1>10, <2>3 DEF CommitPut, CommitError
  <2> QED
    BY <2>2, <2>3
<1>11. CASE CommitDone(p)
  <2>1. UNCHANGED <<message, hint, loaded, job, att, todo>> /\ pc[p] = "commit" /\ todo[p] = {}
    BY <1>11 DEF CommitDone
  <2>2. CASE loaded[c]
    BY <1>1, <1>2, <1>3, <1>11, <2>1, <2>2 DEF CommitDone, RecoveryOf, InProgress, InHandOf, Seqs
  <2>3. CASE ~loaded[c]
    <3>1. pc'[p] = "rebuild" /\ cursor'[p] = cursor[p] + 1
      BY <1>1, <1>11, <2>3 DEF CommitDone
    <3>2. Settled(c, cursor[p])
      BY <1>2, <2>1, <2>3 DEF RecoveryOf, InProgress, Settled
    <3>3. \A s \in Seqs(c) : s < cursor'[p] => Settled(c, s)
      <4>1. \A s \in Seqs(c) : s < cursor[p] => Settled(c, s)
        BY <1>2, <2>1, <2>3 DEF RecoveryOf
      <4>2. \A s \in Seqs(c) : s < cursor[p] + 1 => s < cursor[p] \/ s = cursor[p]
        <5>1. Seqs(c) \subseteq Nat /\ cursor[p] \in Nat
          BY <1>1
        <5> QED
          BY <5>1
      <4> QED
        BY <3>1, <3>2, <4>1, <4>2
    <3> QED
      BY <1>1, <1>2, <1>3, <1>4, <2>1, <3>1, <3>3 DEF RecoveryOf, InProgress, Seqs
  <2> QED
    BY <2>2, <2>3
<1>12. CASE \/ Lock(p) \/ FinishLoad(p) \/ ReadLast(p) \/ Dedup(p) \/ Validate(p) \/ PutIndex(p)
            \/ PutHint(p) \/ Touch(p) \/ Reply(p) \/ Fail(p)
  BY <1>1, <1>5, <1>12 DEF Lock, FinishLoad, ReadLast, Dedup, Validate, PutIndex, PutHint, Touch,
                           Reply, Fail, Unlock
<1> QED
  BY <1>6, <1>7, <1>8, <1>9, <1>10, <1>11, <1>12 DEF Step

\* What the other goroutines have in hand does not change under them.
LEMMA RecoveryOfOthers ==
  ASSUME Base, Recovery, NEW p \in Procs, Step(p), NEW q \in Procs, q # p
  PROVE  RecoveryOf(q)'
<1>1. Bystanders(p)
  BY StepBystanders DEF Base
<1>2. /\ pc'[q] = pc[q] /\ job'[q] = job[q] /\ cursor'[q] = cursor[q] /\ todo'[q] = todo[q]
      /\ Conv(q)' = Conv(q)
  BY <1>1, SameConv DEF Bystanders
<1>3. CASE pc[q] \notin {"rebuild", "commit", "write", "index"}
  BY <1>2, <1>3 DEF RecoveryOf, InProgress
<1>4. CASE pc[q] \in {"rebuild", "commit", "write", "index"}
  <2>1. PICK d \in Convs \ {Conv(p)} : d = Conv(q)
    BY <1>4, SetsAssumption, ConvType, OthersElsewhere DEF Base, Control
  <2>2. message'[d] = message[d] /\ hint'[d] = hint[d] /\ loaded'[d] = loaded[d]
    BY <1>1, <2>1 DEF Bystanders
  <2>3. \A s \in Seqs(d) : /\ Settled(d, s) => Settled(d, s)'
                           /\ Indexed(d, s) => Indexed(d, s)'
    BY SettledKept
  <2>4. \A a \in Attachments : att[a].state # "Pending" => att'[a].state # "Pending"
    BY MarksMove
  <2>5. RecoveryOf(q) /\ InHandOf(q)
    BY DEF Recovery, Base, InHand
  <2>6. pc[q] \in {"commit", "write", "index"} => cursor[q] \in Seqs(d)
    BY <2>1, <2>5 DEF InHandOf, Appending
  <2>7. pc[q] \in {"commit", "write", "index"} => AttsOf[message[d][cursor[q]]] \subseteq Attachments
    BY <2>6, RequestsAssumption DEF Base, TypeOK
  <2> QED
    BY <1>2, <1>4, <2>1, <2>2, <2>3, <2>4, <2>5, <2>6, <2>7 DEF RecoveryOf, InProgress, Seqs
<1> QED
  BY <1>3, <1>4

\* A message that needed no recovery, or was in hand, still is one or the other.
LEMMA SettledStays ==
  ASSUME Recoverable, Base, Recovery, NEW p \in Procs, Step(p),
         NEW c \in Convs, NEW s \in Seqs(c), s <= hint[c] \/ loaded[c]
  PROVE  Settled(c, s)' \/ \E q \in Procs : (InProgress(q) /\ Conv(q) = c /\ s = cursor[q])'
<1>1. Bystanders(p)
  BY StepBystanders DEF Base
<1>2. CASE Settled(c, s)
  BY <1>2, SettledKept
<1>3. ASSUME NEW q \in Procs, q # p, InProgress(q), Conv(q) = c, s = cursor[q]
      PROVE  (InProgress(q) /\ Conv(q) = c /\ s = cursor[q])'
  BY <1>1, <1>3, SameConv DEF Bystanders, InProgress
<1>4. CASE InProgress(p) /\ Conv(p) = c /\ s = cursor[p]
  <2>1. /\ pc \in [Procs -> Labels] /\ job \in [Procs -> Jobs \cup {Nothing}]
        /\ cursor \in [Procs -> Nat] /\ hint \in [Convs -> Nat] /\ s \in Nat
    BY DEF Base, TypeOK
  <2>2. RecoveryOf(p) /\ InHandOf(p) /\ ControlOf(p)
    BY DEF Recovery, Base, InHand, Control
  <2>3. loaded[c]
    BY <1>4, <2>1, <2>2 DEF RecoveryOf
  <2>4. CASE CommitGet(p) \/ CommitPut(p) \/ CommitDone(p)
    <3>1. UNCHANGED <<job, cursor>> /\ pc'[p] \in {"commit", "write", "index"}
      BY <1>4, <2>1, <2>3, <2>4 DEF CommitGet, CommitPut, CommitDone, CommitError, Recoverable, Goto
    <3> QED
      BY <1>4, <3>1, SameConv DEF InProgress
  <2>5. CASE PutIndex(p)
    <3>1. pc[p] = "index" /\ UNCHANGED <<message, att>>
      BY <2>5 DEF PutIndex
    <3>2. todo[p] = {} /\ message[c][s] = job[p]
      BY <1>4, <2>2, <3>1 DEF RecoveryOf, InHandOf, Appending
    <3>3. index' = IF job[p] \in Anonymous THEN index ELSE Put(index, job[p], cursor[p])
      BY <2>5 DEF PutIndex, Recoverable
    <3>4. Indexed(c, s)'
      BY <3>1, <3>2, <3>3 DEF Indexed, Put
    <3>5. \A a \in AttsOf[message[c][s]] : att[a].state # "Pending"
      BY <1>4, <2>2, <3>2 DEF RecoveryOf
    <3> QED
      BY <3>1, <3>4, <3>5 DEF Settled
  <2> QED
    BY <1>4, <2>4, <2>5 DEF InProgress, Step, Lock, Load, Rebuild, FinishLoad, ReadLast, Dedup,
          Validate, PutMessage, PutHint, Touch, Reply, Fail
<1> QED
  BY <1>2, <1>3, <1>4 DEF Recovery, SettledIn

\* Everything the recovery scan would skip is settled after a step, too.
LEMMA SettledInStep ==
  ASSUME Recoverable, Base, Recovery, NEW p \in Procs, Step(p), NEW d \in Convs
  PROVE  SettledIn(d)'
<1> SUFFICES ASSUME NEW s \in Seqs(d)', s <= hint'[d] \/ loaded'[d]
             PROVE  Settled(d, s)' \/ \E q \in Procs : (InProgress(q) /\ Conv(q) = d /\ s = cursor[q])'
  BY DEF SettledIn
<1>1. CASE s \in Seqs(d) /\ (s <= hint[d] \/ loaded[d])
  BY <1>1, SettledStays
<1>2. CASE ~(s \in Seqs(d) /\ (s <= hint[d] \/ loaded[d]))
  <2>1. PICK c \in Convs : c = Conv(p)
    BY Stepping DEF Base
  <2>2. d = c
    <3>1. ASSUME d # c
          PROVE  message'[d] = message[d] /\ hint'[d] = hint[d] /\ loaded'[d] = loaded[d]
      BY <2>1, <3>1, StepBystanders DEF Base, Bystanders
    <3> QED
      BY <1>2, <3>1 DEF Seqs
  <2>3. /\ pc \in [Procs -> Labels] /\ cursor \in [Procs -> Nat] /\ hint \in [Convs -> Nat]
        /\ loaded \in [Convs -> BOOLEAN] /\ Seqs(c) \subseteq Nat
    BY DEF Base, TypeOK
  <2>4. ControlOf(p) /\ RecoveryOf(p)
    BY Stepping DEF Base, Recovery
  <2>5. CASE FinishLoad(p)
    <3>1. UNCHANGED <<message, hint>> /\ pc[p] = "rebuild" /\ Ahead(p) = {}
      BY <2>5 DEF FinishLoad, disk
    <3>2. s \in Seqs(c) /\ s < cursor[p] /\ ~loaded[c]
      BY <2>1, <2>2, <2>3, <2>4, <3>1 DEF Ahead, Seqs, ControlOf
    <3>3. Settled(c, s)
      BY <2>1, <2>4, <3>1, <3>2 DEF RecoveryOf
    <3> QED
      BY <2>2, <3>2, <3>3, SettledKept
  <2>6. CASE PutMessage(p)
    <3>1. loaded[c]
      BY <2>1, <2>4, <2>6 DEF PutMessage, ControlOf
    <3>2. s \notin Seqs(c)
      BY <1>2, <2>2, <3>1
    <3>3. PutSucceeds(p, c)
      BY <2>1, <2>2, <2>6, <3>2, PutOutcome DEF Seqs
    <3>4. s = cursor'[p] /\ pc'[p] = "commit" /\ job' = job
      <4>1. /\ Seqs(c) = 1..last[c] /\ last[c] \in Nat /\ cursor'[p] = last[c] + 1
            /\ pc'[p] = "commit" /\ Seqs(c)' = 1..(last[c] + 1)
        BY <2>1, <2>6, <3>3, PutEffect DEF Base
      <4>2. s = last[c] + 1
        BY <2>2, <3>2, <4>1
      <4> QED
        BY <2>6, <4>1, <4>2 DEF PutMessage
    <3> QED
      BY <2>1, <2>2, <3>4, SameConv DEF InProgress
  <2>7. CASE PutHint(p)
    <3>1. loaded[c] /\ UNCHANGED message
      BY <2>1, <2>4, <2>7 DEF PutHint, ControlOf
    <3> QED
      BY <1>2, <2>2, <3>1 DEF Seqs
  <2>8. CASE ~FinishLoad(p) /\ ~PutMessage(p) /\ ~PutHint(p)
    <3>1. UNCHANGED <<message, hint, loaded>>
      BY <2>8 DEF Step, Lock, Load, Rebuild, ReadLast, Dedup, Validate, CommitGet, CommitPut,
                  CommitDone, PutIndex, Touch, Reply, Fail, disk, memory
    <3> QED
      BY <1>2, <3>1 DEF Seqs
  <2> QED
    BY <2>5, <2>6, <2>7, <2>8
<1> QED
  BY <1>1, <1>2

\* A step of a goroutine keeps the whole invariant.
LEMMA IndInvStep ==
  ASSUME Recoverable, IndInv, NEW p \in Procs, Step(p)
  PROVE  (NoDuplicateMessage /\ SingleUseInTimeline /\ Recovery /\ Fresh /\ DoomedAged)'
<1> USE DEF IndInv
<1>1. \A c \in Convs : SettledIn(c)'
  BY SettledInStep
<1>2. \A q \in Procs : RecoveryOf(q)'
  <2>1. PICK c \in Convs : c = Conv(p)
    BY Stepping DEF Base
  <2> QED
    BY <2>1, RecoveryOfStep, RecoveryOfOthers
<1>3. DoomedAged'
  <2>1. doomed' = doomed /\ doomed \subseteq Requests
    BY StepBystanders DEF Base, TypeOK, Bystanders
  <2> QED
    BY <2>1, AgedKept DEF DoomedAged
<1> QED
  BY <1>1, <1>2, <1>3, UniqueStep, FreshStep DEF Recovery

\* What a step that moves no goroutine and writes neither a message, a hint
\* nor an attachment keeps, if it leaves what is indexed indexed.
LEMMA QuietKeeps ==
  ASSUME IndInv, UNCHANGED <<message, hint, att, memory, goroutine>>,
         \A c \in Convs : \A s \in Seqs(c) : Indexed(c, s) => Indexed(c, s)',
         \A p \in Procs : pc[p] # "idle" /\ job[p] \in Requests => ~Aged(job[p])'
  PROVE  (NoDuplicateMessage /\ SingleUseInTimeline /\ Recovery /\ Fresh)'
<1> USE DEF IndInv, memory, goroutine
<1>1. \A q \in Procs : Conv(q)' = Conv(q)
  BY SameConv
<1>2. NoDuplicateMessage' /\ SingleUseInTimeline'
  BY DEF NoDuplicateMessage, SingleUseInTimeline, Seqs
<1>3. \A c \in Convs : \A s \in Seqs(c) : Settled(c, s) => Settled(c, s)'
  BY DEF Settled
<1>4. \A c \in Convs : SettledIn(c)'
  BY <1>1, <1>3 DEF Recovery, SettledIn, InProgress, Seqs
<1>5. ASSUME NEW p \in Procs
      PROVE  RecoveryOf(p)' /\ FreshOf(p)'
  <2>1. RecoveryOf(p) /\ FreshOf(p) /\ InHandOf(p) /\ ControlOf(p)
    BY DEF Recovery, Fresh, Base, InHand, Control
  <2>2. FreshOf(p)'
    BY <1>1, <2>1 DEF FreshOf, Seqs
  <2>3. CASE pc[p] \notin {"rebuild", "commit", "write", "index"}
    BY <2>2, <2>3 DEF RecoveryOf, InProgress
  <2>4. CASE pc[p] \in {"rebuild", "commit", "write", "index"}
    <3>1. PICK c \in Convs : c = Conv(p)
      BY <2>4, ConvType DEF Base
    <3>2. pc[p] \in {"commit", "write"} => cursor[p] \in Seqs(c)
      BY <2>1, <3>1 DEF InHandOf
    <3> QED
      BY <1>1, <1>3, <2>1, <2>2, <2>4, <3>1, <3>2 DEF RecoveryOf, InProgress, Seqs
  <2> QED
    BY <2>3, <2>4
<1> QED
  BY <1>2, <1>4, <1>5 DEF Recovery, Fresh

\* A new call is for a send that is not aged, and disturbs nothing else.
LEMMA IndInvCall ==
  ASSUME Recoverable, IndInv, NEW p \in Procs, NEW j \in Jobs, Call(p, j)
  PROVE  (NoDuplicateMessage /\ SingleUseInTimeline /\ Recovery /\ Fresh /\ DoomedAged)'
<1> USE DEF IndInv
<1>1. pc \in [Procs -> Labels] /\ job \in [Procs -> Jobs \cup {Nothing}]
  BY DEF Base, TypeOK
<1>2. UNCHANGED <<disk, memory, cursor, todo, pick, aged, doomed>>
  BY DEF Call
<1>3. ASSUME NEW q \in Procs, q # p
      PROVE  pc'[q] = pc[q] /\ job'[q] = job[q] /\ Conv(q)' = Conv(q)
  BY <1>1, <1>3, SameConv DEF Call, Goto
<1>4. pc[p] = "idle" /\ pc'[p] = "lock" /\ job'[p] = j /\ (j \in Requests => ~Aged(j))
  BY <1>1 DEF Call, Goto, Recoverable
<1>5. NoDuplicateMessage' /\ SingleUseInTimeline' /\ DoomedAged'
  BY <1>2 DEF NoDuplicateMessage, SingleUseInTimeline, DoomedAged, Aged, Seqs, disk
<1>6. ASSUME NEW c \in Convs, NEW s \in Seqs(c), Settled(c, s)
      PROVE  Settled(c, s)'
  BY <1>2, <1>6 DEF Settled, Indexed, disk
<1>7. ASSUME NEW c \in Convs
      PROVE  SettledIn(c)'
  <2>1. Seqs(c)' = Seqs(c) /\ hint'[c] = hint[c] /\ loaded'[c] = loaded[c]
    BY <1>2 DEF Seqs, disk, memory
  <2> SUFFICES ASSUME NEW s \in Seqs(c), s <= hint[c] \/ loaded[c]
               PROVE  \/ Settled(c, s)'
                      \/ \E q \in Procs : (InProgress(q) /\ Conv(q) = c /\ s = cursor[q])'
    BY <2>1 DEF SettledIn
  <2>2. CASE Settled(c, s)
    BY <1>6, <2>2
  <2>3. CASE ~Settled(c, s)
    <3>1. PICK q \in Procs : InProgress(q) /\ Conv(q) = c /\ s = cursor[q]
      BY <2>3 DEF Recovery, SettledIn
    <3>2. q # p
      BY <1>4, <3>1 DEF InProgress
    <3> QED
      BY <1>2, <1>3, <3>1, <3>2 DEF InProgress
  <2> QED
    BY <2>2, <2>3
<1>8. ASSUME NEW q \in Procs
      PROVE  RecoveryOf(q)' /\ FreshOf(q)'
  <2>1. CASE q = p
    BY <1>2, <1>4, <2>1 DEF RecoveryOf, FreshOf, InProgress, Aged, disk
  <2>2. CASE q # p
    <3>1. RecoveryOf(q) /\ FreshOf(q) /\ InHandOf(q) /\ ControlOf(q)
      BY DEF Recovery, Fresh, Base, InHand, Control
    <3>2. /\ pc'[q] = pc[q] /\ job'[q] = job[q] /\ Conv(q)' = Conv(q)
          /\ UNCHANGED <<message, index, hint, att, loaded, cursor, todo, aged>>
      BY <1>2, <1>3, <2>2 DEF disk, memory
    <3>3. FreshOf(q)'
      BY <3>1, <3>2 DEF FreshOf, Aged, Seqs
    <3>4. RecoveryOf(q)'
      BY <3>1, <3>2 DEF RecoveryOf, InProgress, Settled, Indexed, Seqs
    <3> QED
      BY <3>3, <3>4
  <2> QED
    BY <2>1, <2>2
<1> QED
  BY <1>5, <1>7, <1>8 DEF Recovery, Fresh

\* Messages of a conversation age only while no call is in it.
LEMMA IndInvAge ==
  ASSUME IndInv, NEW d \in Convs, Age(d)
  PROVE  (NoDuplicateMessage /\ SingleUseInTimeline /\ Recovery /\ Fresh /\ DoomedAged)'
<1> USE DEF IndInv
<1>1. /\ UNCHANGED <<message, index, hint, att, memory, goroutine, doomed>>
      /\ aged \in [Convs -> Nat] /\ doomed \subseteq Requests
      /\ aged' = [aged EXCEPT ![d] = aged[d] + 1]
  BY DEF Age, Base, TypeOK, disk
<1>2. \A c \in Convs : Seqs(c) \subseteq Nat
  BY DEF Base, TypeOK
<1>3. \A c \in Convs : aged[c] \in Nat /\ (aged'[c] = aged[c] \/ aged'[c] = aged[c] + 1)
  BY <1>1
<1>4. \A c \in Convs : \A s \in Nat : s <= aged[c] => s <= aged'[c]
  BY <1>3
<1>5. \A c \in Convs : \A s \in Seqs(c) : Indexed(c, s) => Indexed(c, s)'
  BY <1>1, <1>2, <1>4 DEF Indexed
<1>6. ASSUME NEW p \in Procs, pc[p] # "idle", job[p] \in Requests
      PROVE  ~Aged(job[p])'
  <2>1. Conv(p) # d /\ Conv(p) = ConvOf[job[p]] /\ Conv(p) \in Convs
    BY <1>6, ConvType DEF Age, Base, Control
  <2>2. ~Aged(job[p])
    BY <1>6 DEF Fresh, FreshOf
  <2>3. aged'[Conv(p)] = aged[Conv(p)]
    BY <1>1, <2>1
  <2> QED
    BY <1>1, <2>1, <2>2, <2>3 DEF Aged, goroutine
<1>7. DoomedAged'
  <2> SUFFICES ASSUME NEW r \in doomed PROVE Aged(r)'
    BY <1>1 DEF DoomedAged
  <2>1. ConvOf[r] \in Convs
    BY <1>1, RequestsAssumption
  <2>2. PICK s \in Seqs(ConvOf[r]) : s <= aged[ConvOf[r]] /\ message[ConvOf[r]][s] = r
    BY DEF DoomedAged, Aged, Seqs
  <2>3. s <= aged'[ConvOf[r]]
    BY <1>2, <1>4, <2>1, <2>2
  <2> QED
    BY <1>1, <2>2, <2>3 DEF Aged, Seqs
<1>8. (NoDuplicateMessage /\ SingleUseInTimeline /\ Recovery /\ Fresh)'
  BY <1>1, <1>5, <1>6, QuietKeeps
<1> QED
  BY <1>7, <1>8

\* What the janitor lists is aged.
LEMMA IndInvPruneList ==
  ASSUME IndInv, PruneList
  PROVE  (NoDuplicateMessage /\ SingleUseInTimeline /\ Recovery /\ Fresh /\ DoomedAged)'
<1> USE DEF IndInv
<1>1. UNCHANGED <<message, index, hint, att, memory, goroutine, aged>>
  BY DEF PruneList, disk, observed
<1>2. doomed' = {r \in DOMAIN index : index[r] <= aged[ConvOf[r]]}
  BY DEF PruneList
<1>3. DoomedAged'
  BY <1>1, <1>2 DEF DoomedAged, Aged, Base, IndexLeadsToOriginal, Seqs
<1>4. \A c \in Convs : \A s \in Seqs(c) : Indexed(c, s) => Indexed(c, s)'
  BY <1>1 DEF Indexed
<1>5. \A p \in Procs : pc[p] # "idle" /\ job[p] \in Requests => ~Aged(job[p])'
  BY <1>1 DEF Fresh, FreshOf, Aged, goroutine
<1> QED
  BY <1>1, <1>3, <1>4, <1>5, QuietKeeps

\* The entry the janitor deletes was that of an aged message, the only one of
\* its send.
LEMMA IndInvPruneDelete ==
  ASSUME IndInv, PruneDelete
  PROVE  (NoDuplicateMessage /\ SingleUseInTimeline /\ Recovery /\ Fresh /\ DoomedAged)'
<1> USE DEF IndInv
<1>1. UNCHANGED <<message, hint, att, memory, goroutine, aged>> /\ doomed' \subseteq doomed
  BY DEF PruneDelete, observed
<1>2. DoomedAged'
  BY <1>1 DEF DoomedAged, Aged
<1>3. ASSUME NEW c \in Convs, NEW s \in Seqs(c), Indexed(c, s)
      PROVE  Indexed(c, s)'
  <2>1. CASE index' = index
    BY <1>1, <1>3, <2>1 DEF Indexed
  <2>2. CASE index' # index
    <3>1. PICK r \in doomed : index' = Delete(index, r)
      BY <2>2 DEF PruneDelete
    <3>2. CASE message[c][s] # r
      BY <1>1, <1>3, <3>1, <3>2 DEF Indexed, Delete
    <3>3. CASE message[c][s] = r
      <4>1. PICK t \in Seqs(ConvOf[r]) : t <= aged[ConvOf[r]] /\ message[ConvOf[r]][t] = r
        BY DEF DoomedAged, Aged, Seqs
      <4>2. ConvOf[r] = c
        BY <3>3 DEF Base, Shape, ShapeOf
      <4>3. r \in Anonymous \/ s = t
        BY <3>3, <4>1, <4>2 DEF NoDuplicateMessage
      <4> QED
        BY <1>1, <3>3, <4>1, <4>2, <4>3 DEF Indexed
    <3> QED
      BY <3>2, <3>3
  <2> QED
    BY <2>1, <2>2
<1>4. \A p \in Procs : pc[p] # "idle" /\ job[p] \in Requests => ~Aged(job[p])'
  BY <1>1 DEF Fresh, FreshOf, Aged, goroutine
<1> QED
  BY <1>1, <1>2, <1>3, <1>4, QuietKeeps

\* After a crash only what is at or before the hint must be settled.
LEMMA IndInvCrash ==
  ASSUME IndInv, Crash
  PROVE  (NoDuplicateMessage /\ SingleUseInTimeline /\ Recovery /\ Fresh /\ DoomedAged)'
<1> USE DEF IndInv
<1>1. UNCHANGED <<message, index, hint, att, aged>> /\ doomed' = {}
  BY DEF Crash, disk
<1>2. \A p \in Procs : pc'[p] = "idle"
  BY DEF Crash
<1>3. \A c \in Convs : ~loaded'[c]
  BY DEF Crash
<1>4. NoDuplicateMessage' /\ SingleUseInTimeline' /\ DoomedAged'
  BY <1>1 DEF NoDuplicateMessage, SingleUseInTimeline, DoomedAged, Seqs
<1>5. ASSUME NEW c \in Convs
      PROVE  SettledIn(c)'
  <2>1. \A s \in Seqs(c) : s <= hint[c] => Settled(c, s)
    BY SettledToHint
  <2> QED
    BY <1>1, <1>3, <2>1 DEF SettledIn, Settled, Indexed, Seqs
<1>6. \A p \in Procs : RecoveryOf(p)' /\ FreshOf(p)'
  BY <1>2 DEF RecoveryOf, FreshOf, InProgress
<1> QED
  BY <1>4, <1>5, <1>6 DEF Recovery, Fresh

\* The invariant holds in an empty database.
LEMMA IndInvInit == Init => IndInv
<1> SUFFICES ASSUME Init PROVE IndInv
  OBVIOUS
<1>1. ASSUME NEW c \in Convs PROVE Seqs(c) = {}
  <2>1. message[c] = <<>>
    BY DEF Init
  <2> QED
    BY <2>1 DEF Seqs
<1>2. \A p \in Procs : pc[p] = "idle"
  BY DEF Init
<1>3. doomed = {}
  BY DEF Init
<1> QED
  BY <1>1, <1>2, <1>3, BaseInit DEF IndInv, NoDuplicateMessage, SingleUseInTimeline, Recovery,
     SettledIn, RecoveryOf, InProgress, Fresh, FreshOf, DoomedAged

\* The invariant is inductive.
LEMMA IndInvNext == Recoverable /\ IndInv /\ [Next]_vars => IndInv'
<1> SUFFICES ASSUME Recoverable, IndInv, [Next]_vars PROVE IndInv'
  OBVIOUS
<1> DEFINE Rest == NoDuplicateMessage /\ SingleUseInTimeline /\ Recovery /\ Fresh /\ DoomedAged
<1>1. Base'
  BY BaseNext DEF IndInv
<1>2. ASSUME NEW p \in Procs, NEW j \in Jobs, Call(p, j)
      PROVE  Rest'
  BY <1>2, IndInvCall
<1>3. ASSUME NEW p \in Procs, Step(p)
      PROVE  Rest'
  BY <1>3, IndInvStep
<1>4. ASSUME NEW c \in Convs, Age(c)
      PROVE  Rest'
  BY <1>4, IndInvAge
<1>5. ASSUME PruneList
      PROVE  Rest'
  BY <1>5, IndInvPruneList
<1>6. ASSUME PruneDelete
      PROVE  Rest'
  BY <1>6, IndInvPruneDelete
<1>7. ASSUME Crash
      PROVE  Rest'
  BY <1>7, IndInvCrash
<1>8. ASSUME UNCHANGED vars
      PROVE  Rest'
  <2>1. UNCHANGED <<message, index, hint, att, memory, goroutine, aged, doomed>>
    BY <1>8 DEF vars, disk, observed
  <2>2. \A c \in Convs : \A s \in Seqs(c) : Indexed(c, s) => Indexed(c, s)'
    BY <2>1 DEF Indexed
  <2>3. \A p \in Procs : pc[p] # "idle" /\ job[p] \in Requests => ~Aged(job[p])'
    BY <2>1 DEF IndInv, Fresh, FreshOf, Aged, goroutine
  <2>4. DoomedAged'
    BY <2>1 DEF IndInv, DoomedAged, Aged
  <2> QED
    BY <2>1, <2>2, <2>3, <2>4, QuietKeeps
<1> QED
  BY <1>1, <1>2, <1>3, <1>4, <1>5, <1>6, <1>7, <1>8 DEF Next, IndInv

\* The whole invariant holds, whatever crashes or fails, as long as no index
\* entry or attachment commit of an append is lost and no send is retried late.
THEOREM RecoveryIsInductive == Recoverable => (Spec => []IndInv)
<1>1. ASSUME Recoverable PROVE IndInv /\ [Next]_vars => IndInv'
  BY <1>1, IndInvNext
<1>2. ASSUME Recoverable PROVE Spec => []IndInv
  BY <1>1, <1>2, IndInvInit, PTL DEF Spec
<1> QED
  BY <1>2

\* A send with a client message ID is stored at most once.
THEOREM SendsAreStoredOnce == Recoverable => (Spec => []NoDuplicateMessage)
<1>1. IndInv => NoDuplicateMessage
  BY DEF IndInv
<1>2. ASSUME Recoverable PROVE Spec => []IndInv
  BY <1>2, RecoveryIsInductive
<1>3. ASSUME Recoverable PROVE Spec => []NoDuplicateMessage
  BY <1>1, <1>2, <1>3, PTL
<1> QED
  BY <1>3

\* No two messages of a timeline carry the same attachment.
THEOREM AttachmentsAreUsedOnce == Recoverable => (Spec => []SingleUseInTimeline)
<1>1. IndInv => SingleUseInTimeline
  BY DEF IndInv
<1>2. ASSUME Recoverable PROVE Spec => []IndInv
  BY <1>2, RecoveryIsInductive
<1>3. ASSUME Recoverable PROVE Spec => []SingleUseInTimeline
  BY <1>1, <1>2, <1>3, PTL
<1> QED
  BY <1>3

\* The recovery scan may start behind the hint: nothing before it needs it.
THEOREM HintIsSafe == Recoverable => (Spec => []RecoveryWindow)
<1>1. IndInv => RecoveryWindow
  <2> SUFFICES ASSUME IndInv, NEW c \in Convs, NEW s \in Seqs(c), s <= hint[c]
               PROVE  Settled(c, s)
    BY DEF RecoveryWindow, Settled, Indexed
  <2> QED
    BY SettledToHint DEF IndInv
<1>2. ASSUME Recoverable PROVE Spec => []IndInv
  BY <1>2, RecoveryIsInductive
<1>3. ASSUME Recoverable PROVE Spec => []RecoveryWindow
  BY <1>1, <1>2, <1>3, PTL
<1> QED
  BY <1>3
=============================================================================

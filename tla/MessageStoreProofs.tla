------------------------- MODULE MessageStoreProofs -------------------------
(***************************************************************************)
(* Proofs about MessageStore, first part: what holds whatever fails and    *)
(* whenever clients retry.  Types, who holds which mutex, the shape of the *)
(* timelines and what each goroutine has in hand are proved together as    *)
(* the inductive invariant Base, one lemma per conjunct for the steps of a *)
(* goroutine.                                                              *)
(***************************************************************************)
EXTENDS MessageStore, TLAPS

\* Where each goroutine is, which job it can have there, and that it holds the
\* mutex of its conversation from Lock to Unlock.
ControlOf(p) ==
  /\ pc[p] # "idle" => job[p] \in Jobs
  /\ pc[p] \notin {"idle", "lock"} => mu[Conv(p)] = p
  /\ pc[p] \in {"load", "rebuild"} => ~loaded[Conv(p)]
  /\ pc[p] \in {"ready", "validate", "put", "index", "hint", "touch", "reply"}
       => loaded[Conv(p)]
  /\ pc[p] \in {"validate", "put", "index", "hint", "touch"} => job[p] \in Requests
  /\ pc[p] \in {"commit", "write"} /\ loaded[Conv(p)] => job[p] \in Requests
  /\ pc[p] = "write" => pick[p] \in todo[p]
Control == \A p \in Procs : ControlOf(p)

\* A timeline is a prefix of the naturals, of messages of its own, and what
\* refers to one of its positions refers to one that exists.
ShapeOf(c) ==
  /\ \E n \in {0} \cup Seqs(c) : Seqs(c) = 1..n
  /\ loaded[c] => Seqs(c) = 1..last[c]
  /\ {hint[c], preview[c], aged[c]} \subseteq Seqs(c) \cup {0}
  /\ \A s \in Seqs(c) : ConvOf[message[c][s]] = c
Shape == \A c \in Convs : ShapeOf(c)

\* The goroutine has put its message and not yet left AppendMessage.
Appending(p) ==
  \/ pc[p] \in {"index", "hint", "touch"}
  \/ pc[p] \in {"commit", "write"} /\ loaded[Conv(p)]

\* What the cursor of a goroutine stands for.
InHandOf(p) ==
  /\ pc[p] = "rebuild" => /\ cursor[p] # 0
                          /\ cursor[p] - 1 \in Seqs(Conv(p)) \cup {0}
  /\ pc[p] \in {"commit", "write"} => cursor[p] \in Seqs(Conv(p))
  /\ Appending(p) => /\ cursor[p] = last[Conv(p)]
                     /\ cursor[p] \in Seqs(Conv(p))
                     /\ message[Conv(p)][cursor[p]] = job[p]
  /\ pc[p] = "reply" /\ job[p] \in Requests =>
       /\ cursor[p] \in Seqs(Conv(p))
       /\ message[Conv(p)][cursor[p]] = job[p]
  /\ pc[p] = "reply" /\ job[p] \in Convs => cursor[p] = last[Conv(p)]
InHand == \A p \in Procs : InHandOf(p)

Base == TypeOK /\ Control /\ Shape /\ InHand /\ IndexLeadsToOriginal /\ AnswersHold

-----------------------------------------------------------------------------

\* The conversation of a goroutine with a job.
LEMMA ConvType ==
  ASSUME Control, NEW p \in Procs, pc[p] # "idle"
  PROVE  /\ job[p] \in Jobs
         /\ Conv(p) \in Convs
         /\ job[p] \in Requests => ConvOf[job[p]] = Conv(p)
BY SetsAssumption, RequestsAssumption DEF Control, ControlOf, Conv, Target, Jobs

\* Every step keeps the types, given that each goroutine is where its job lets
\* it be and that the cursor of a scan stays positive.
LEMMA TypeStep ==
  ASSUME TypeOK, Control, InHand, [Next]_vars
  PROVE  TypeOK'
<1> USE SetsAssumption, RequestsAssumption, BoundsAssumption
<1>1. ASSUME NEW p \in Procs, NEW j \in Jobs, Call(p, j)
      PROVE  TypeOK'
  <2>1. /\ pc \in [Procs -> Labels]
       /\ job \in [Procs -> Jobs \cup {Nothing}]
       /\ calls \in Nat
    BY DEF TypeOK, Seqs
  <2>2. calls' \in Nat
    BY <1>1, <2>1 DEF Call
  <2>3. job' \in [Procs -> Jobs \cup {Nothing}]
    BY <1>1, <2>1 DEF Call
  <2>4. pc' \in [Procs -> Labels]
    BY <1>1, <2>1 DEF Call, Goto, Labels
  <2>5. UNCHANGED <<message, index, hint, att, preview, last, loaded, mu, cursor, todo, pick, doomed, told, aged, crashes>>
    BY <1>1 DEF Call, Goto, disk, memory, goroutine, observed
  <2> QED
    BY <2>2, <2>3, <2>4, <2>5 DEF TypeOK, Seqs
<1>2. ASSUME NEW p \in Procs, Lock(p)
      PROVE  TypeOK'
  <2>1. job[p] \in Jobs /\ Conv(p) \in Convs
    BY <1>2, ConvType DEF Lock
  <2>2. /\ mu \in [Convs -> Procs \cup {Nobody}]
       /\ pc \in [Procs -> Labels]
    BY DEF TypeOK, Seqs
  <2>3. mu' \in [Convs -> Procs \cup {Nobody}]
    BY <1>2, <2>1, <2>2 DEF Lock
  <2>4. pc' \in [Procs -> Labels]
    BY <1>2, <2>1, <2>2 DEF Lock, Goto, Labels
  <2>5. UNCHANGED <<message, index, hint, att, preview, last, loaded, job, cursor, todo, pick, doomed, told, aged, calls, crashes>>
    BY <1>2 DEF Lock, Goto, disk, memory, goroutine, observed
  <2> QED
    BY <2>3, <2>4, <2>5 DEF TypeOK, Seqs
<1>3. ASSUME NEW p \in Procs, Load(p)
      PROVE  TypeOK'
  <2>1. job[p] \in Jobs /\ Conv(p) \in Convs
    BY <1>3, ConvType DEF Load
  <2>2. /\ hint \in [Convs -> Nat]
       /\ pc \in [Procs -> Labels]
       /\ cursor \in [Procs -> Nat]
    BY DEF TypeOK, Seqs
  <2>3. cursor' \in [Procs -> Nat]
    BY <1>3, <2>1, <2>2 DEF Load
  <2>4. pc' \in [Procs -> Labels]
    BY <1>3, <2>1, <2>2 DEF Load, Goto, Labels
  <2>5. UNCHANGED <<message, index, hint, att, preview, last, loaded, mu, job, todo, pick, doomed, told, aged, calls, crashes>>
    BY <1>3 DEF Load, Goto, disk, memory, goroutine, observed
  <2> QED
    BY <2>3, <2>4, <2>5 DEF TypeOK, Seqs
<1>4. ASSUME NEW p \in Procs, Rebuild(p)
      PROVE  TypeOK'
  <2>1. job[p] \in Jobs /\ Conv(p) \in Convs
    BY <1>4, ConvType DEF Rebuild
  <2>2. /\ DOMAIN message = Convs /\ \A c \in Convs : /\ DOMAIN message[c] \subseteq Nat
                                                   /\ message[c] \in [DOMAIN message[c] -> Requests]
       /\ DOMAIN index \subseteq Requests /\ index \in [DOMAIN index -> Nat]
       /\ pc \in [Procs -> Labels]
       /\ cursor \in [Procs -> Nat]
       /\ todo \in [Procs -> SUBSET Attachments]
    BY DEF TypeOK, Seqs
  <2>3. DOMAIN index' \subseteq Requests /\ index' \in [DOMAIN index' -> Nat]
    BY <1>4, <2>1, <2>2 DEF Rebuild, Ahead, Seqs, Put
  <2>4. cursor' \in [Procs -> Nat]
    BY <1>4, <2>1, <2>2 DEF Rebuild, Ahead, Seqs
  <2>5. todo' \in [Procs -> SUBSET Attachments]
    BY <1>4, <2>1, <2>2 DEF Rebuild, Ahead, Seqs
  <2>6. pc' \in [Procs -> Labels]
    BY <1>4, <2>1, <2>2 DEF Rebuild, Ahead, Seqs, Goto, Labels
  <2>7. UNCHANGED <<message, hint, att, preview, last, loaded, mu, job, pick, doomed, told, aged, calls, crashes>>
    BY <1>4 DEF Rebuild, Ahead, Seqs, Goto, disk, memory, goroutine, observed
  <2> QED
    BY <2>3, <2>4, <2>5, <2>6, <2>7 DEF TypeOK, Seqs
<1>5. ASSUME NEW p \in Procs, FinishLoad(p)
      PROVE  TypeOK'
  <2>1. job[p] \in Jobs /\ Conv(p) \in Convs
    BY <1>5, ConvType DEF FinishLoad
  <2>2. /\ last \in [Convs -> Nat]
       /\ loaded \in [Convs -> BOOLEAN]
       /\ pc \in [Procs -> Labels]
       /\ cursor \in [Procs -> Nat]
    BY DEF TypeOK, Seqs
  <2>3. last' \in [Convs -> Nat]
    BY <1>5, <2>1, <2>2 DEF FinishLoad, InHand, InHandOf
  <2>4. loaded' \in [Convs -> BOOLEAN]
    BY <1>5, <2>1, <2>2 DEF FinishLoad
  <2>5. pc' \in [Procs -> Labels]
    BY <1>5, <2>1, <2>2 DEF FinishLoad, Goto, Labels
  <2>6. UNCHANGED <<message, index, hint, att, preview, mu, job, cursor, todo, pick, doomed, told, aged, calls, crashes>>
    BY <1>5 DEF FinishLoad, Goto, disk, memory, goroutine, observed
  <2> QED
    BY <2>3, <2>4, <2>5, <2>6 DEF TypeOK, Seqs
<1>6. ASSUME NEW p \in Procs, ReadLast(p)
      PROVE  TypeOK'
  <2>1. job[p] \in Jobs /\ Conv(p) \in Convs
    BY <1>6, ConvType DEF ReadLast
  <2>2. /\ last \in [Convs -> Nat]
       /\ pc \in [Procs -> Labels]
       /\ cursor \in [Procs -> Nat]
    BY DEF TypeOK, Seqs
  <2>3. cursor' \in [Procs -> Nat]
    BY <1>6, <2>1, <2>2 DEF ReadLast
  <2>4. pc' \in [Procs -> Labels]
    BY <1>6, <2>1, <2>2 DEF ReadLast, Goto, Labels
  <2>5. UNCHANGED <<message, index, hint, att, preview, last, loaded, mu, job, todo, pick, doomed, told, aged, calls, crashes>>
    BY <1>6 DEF ReadLast, Goto, disk, memory, goroutine, observed
  <2> QED
    BY <2>3, <2>4, <2>5 DEF TypeOK, Seqs
<1>7. ASSUME NEW p \in Procs, Dedup(p)
      PROVE  TypeOK'
  <2>1. job[p] \in Jobs /\ Conv(p) \in Convs
    BY <1>7, ConvType DEF Dedup
  <2>2. /\ DOMAIN index \subseteq Requests /\ index \in [DOMAIN index -> Nat]
       /\ pc \in [Procs -> Labels]
       /\ cursor \in [Procs -> Nat]
       /\ todo \in [Procs -> SUBSET Attachments]
    BY DEF TypeOK, Seqs
  <2>3. cursor' \in [Procs -> Nat]
    BY <1>7, <2>1, <2>2 DEF Dedup
  <2>4. todo' \in [Procs -> SUBSET Attachments]
    BY <1>7, <2>1, <2>2 DEF Dedup
  <2>5. pc' \in [Procs -> Labels]
    BY <1>7, <2>1, <2>2 DEF Dedup, Goto, Labels
  <2>6. UNCHANGED <<message, index, hint, att, preview, last, loaded, mu, job, pick, doomed, told, aged, calls, crashes>>
    BY <1>7 DEF Dedup, Goto, disk, memory, goroutine, observed
  <2> QED
    BY <2>3, <2>4, <2>5, <2>6 DEF TypeOK, Seqs
<1>8. ASSUME NEW p \in Procs, Validate(p)
      PROVE  TypeOK'
  <2>1. job[p] \in Jobs /\ Conv(p) \in Convs
    BY <1>8, ConvType DEF Validate
  <2>2. /\ pc \in [Procs -> Labels]
       /\ todo \in [Procs -> SUBSET Attachments]
    BY DEF TypeOK, Seqs
  <2>3. todo' \in [Procs -> SUBSET Attachments]
    BY <1>8, <2>1, <2>2 DEF Validate
  <2>4. pc' \in [Procs -> Labels]
    BY <1>8, <2>1, <2>2 DEF Validate, Goto, Labels
  <2>5. UNCHANGED <<message, index, hint, att, preview, last, loaded, mu, job, cursor, pick, doomed, told, aged, calls, crashes>>
    BY <1>8 DEF Validate, Goto, disk, memory, goroutine, observed
  <2> QED
    BY <2>3, <2>4, <2>5 DEF TypeOK, Seqs
<1>9. ASSUME NEW p \in Procs, PutMessage(p)
      PROVE  TypeOK'
  <2>1. job[p] \in Jobs /\ Conv(p) \in Convs
    BY <1>9, ConvType DEF PutMessage
  <2>2. /\ DOMAIN message = Convs /\ \A c \in Convs : /\ DOMAIN message[c] \subseteq Nat
                                                   /\ message[c] \in [DOMAIN message[c] -> Requests]
       /\ last \in [Convs -> Nat]
       /\ cursor \in [Procs -> Nat]
       /\ todo \in [Procs -> SUBSET Attachments]
       /\ pc \in [Procs -> Labels]
    BY DEF TypeOK, Seqs
  <2>3. job[p] \in Requests
    BY <1>9 DEF PutMessage, Control, ControlOf
  <2>4. DOMAIN message' = Convs /\ \A c \in Convs : /\ DOMAIN message'[c] \subseteq Nat
                                               /\ message'[c] \in [DOMAIN message'[c] -> Requests]
    BY SMTT(30), <1>9, <2>1, <2>2, <2>3 DEF PutMessage, Put
  <2>5. last' \in [Convs -> Nat]
    BY <1>9, <2>1, <2>2, <2>3 DEF PutMessage
  <2>6. cursor' \in [Procs -> Nat]
    BY <1>9, <2>1, <2>2, <2>3 DEF PutMessage
  <2>7. todo' \in [Procs -> SUBSET Attachments]
    BY <1>9, <2>1, <2>2, <2>3 DEF PutMessage
  <2>8. pc' \in [Procs -> Labels]
    BY <1>9, <2>1, <2>2, <2>3 DEF PutMessage, Goto, Labels
  <2>9. UNCHANGED <<index, hint, att, preview, loaded, mu, job, pick, doomed, told, aged, calls, crashes>>
    BY <1>9 DEF PutMessage, Goto, disk, memory, goroutine, observed
  <2> QED
    BY <2>4, <2>5, <2>6, <2>7, <2>8, <2>9 DEF TypeOK, Seqs
<1>10. ASSUME NEW p \in Procs, CommitGet(p)
      PROVE  TypeOK'
  <2>1. job[p] \in Jobs /\ Conv(p) \in Convs
    BY <1>10, ConvType DEF CommitGet
  <2>2. /\ pc \in [Procs -> Labels]
       /\ todo \in [Procs -> SUBSET Attachments]
       /\ pick \in [Procs -> Attachments \cup {Nothing}]
    BY DEF TypeOK, Seqs
  <2>3. todo' \in [Procs -> SUBSET Attachments]
    BY <1>10, <2>1, <2>2 DEF CommitGet, CommitError
  <2>4. pick' \in [Procs -> Attachments \cup {Nothing}]
    BY <1>10, <2>1, <2>2 DEF CommitGet, CommitError
  <2>5. pc' \in [Procs -> Labels]
    BY <1>10, <2>1, <2>2 DEF CommitGet, CommitError, Goto, Labels
  <2>6. UNCHANGED <<message, index, hint, att, preview, last, loaded, mu, job, cursor, doomed, told, aged, calls, crashes>>
    BY <1>10 DEF CommitGet, CommitError, Goto, disk, memory, goroutine, observed
  <2> QED
    BY <2>3, <2>4, <2>5, <2>6 DEF TypeOK, Seqs
<1>11. ASSUME NEW p \in Procs, CommitPut(p)
      PROVE  TypeOK'
  <2>1. job[p] \in Jobs /\ Conv(p) \in Convs
    BY <1>11, ConvType DEF CommitPut
  <2>2. /\ att \in [Attachments -> [state : States, conv : Convs \cup {Nothing}]]
       /\ pc \in [Procs -> Labels]
       /\ todo \in [Procs -> SUBSET Attachments]
       /\ pick \in [Procs -> Attachments \cup {Nothing}]
    BY DEF TypeOK, Seqs
  <2>3. pick[p] \in Attachments
    BY <1>11 DEF CommitPut, Control, ControlOf, TypeOK
  <2>4. att' \in [Attachments -> [state : States, conv : Convs \cup {Nothing}]]
    BY <1>11, <2>1, <2>2, <2>3 DEF CommitPut, CommitError, Record, States
  <2>5. todo' \in [Procs -> SUBSET Attachments]
    BY <1>11, <2>1, <2>2, <2>3 DEF CommitPut, CommitError
  <2>6. pick' \in [Procs -> Attachments \cup {Nothing}]
    BY <1>11, <2>1, <2>2, <2>3 DEF CommitPut, CommitError
  <2>7. pc' \in [Procs -> Labels]
    BY <1>11, <2>1, <2>2, <2>3 DEF CommitPut, CommitError, Goto, Labels
  <2>8. UNCHANGED <<message, index, hint, preview, last, loaded, mu, job, cursor, doomed, told, aged, calls, crashes>>
    BY <1>11 DEF CommitPut, CommitError, Goto, disk, memory, goroutine, observed
  <2> QED
    BY <2>4, <2>5, <2>6, <2>7, <2>8 DEF TypeOK, Seqs
<1>12. ASSUME NEW p \in Procs, CommitDone(p)
      PROVE  TypeOK'
  <2>1. job[p] \in Jobs /\ Conv(p) \in Convs
    BY <1>12, ConvType DEF CommitDone
  <2>2. /\ pc \in [Procs -> Labels]
       /\ cursor \in [Procs -> Nat]
    BY DEF TypeOK, Seqs
  <2>3. cursor' \in [Procs -> Nat]
    BY <1>12, <2>1, <2>2 DEF CommitDone
  <2>4. pc' \in [Procs -> Labels]
    BY <1>12, <2>1, <2>2 DEF CommitDone, Goto, Labels
  <2>5. UNCHANGED <<message, index, hint, att, preview, last, loaded, mu, job, todo, pick, doomed, told, aged, calls, crashes>>
    BY <1>12 DEF CommitDone, Goto, disk, memory, goroutine, observed
  <2> QED
    BY <2>3, <2>4, <2>5 DEF TypeOK, Seqs
<1>13. ASSUME NEW p \in Procs, PutIndex(p)
      PROVE  TypeOK'
  <2>1. job[p] \in Jobs /\ Conv(p) \in Convs
    BY <1>13, ConvType DEF PutIndex
  <2>2. /\ DOMAIN index \subseteq Requests /\ index \in [DOMAIN index -> Nat]
       /\ pc \in [Procs -> Labels]
       /\ cursor \in [Procs -> Nat]
    BY DEF TypeOK, Seqs
  <2>3. job[p] \in Requests
    BY <1>13 DEF PutIndex, Control, ControlOf
  <2>4. DOMAIN index' \subseteq Requests /\ index' \in [DOMAIN index' -> Nat]
    BY <1>13, <2>1, <2>2, <2>3 DEF PutIndex, Put
  <2>5. pc' \in [Procs -> Labels]
    BY <1>13, <2>1, <2>2, <2>3 DEF PutIndex, Goto, Labels
  <2>6. UNCHANGED <<message, hint, att, preview, last, loaded, mu, job, cursor, todo, pick, doomed, told, aged, calls, crashes>>
    BY <1>13 DEF PutIndex, Goto, disk, memory, goroutine, observed
  <2> QED
    BY <2>4, <2>5, <2>6 DEF TypeOK, Seqs
<1>14. ASSUME NEW p \in Procs, PutHint(p)
      PROVE  TypeOK'
  <2>1. job[p] \in Jobs /\ Conv(p) \in Convs
    BY <1>14, ConvType DEF PutHint
  <2>2. /\ hint \in [Convs -> Nat]
       /\ pc \in [Procs -> Labels]
       /\ cursor \in [Procs -> Nat]
    BY DEF TypeOK, Seqs
  <2>3. hint' \in [Convs -> Nat]
    BY <1>14, <2>1, <2>2 DEF PutHint
  <2>4. pc' \in [Procs -> Labels]
    BY <1>14, <2>1, <2>2 DEF PutHint, Goto, Labels
  <2>5. UNCHANGED <<message, index, att, preview, last, loaded, mu, job, cursor, todo, pick, doomed, told, aged, calls, crashes>>
    BY <1>14 DEF PutHint, Goto, disk, memory, goroutine, observed
  <2> QED
    BY <2>3, <2>4, <2>5 DEF TypeOK, Seqs
<1>15. ASSUME NEW p \in Procs, Touch(p)
      PROVE  TypeOK'
  <2>1. job[p] \in Jobs /\ Conv(p) \in Convs
    BY <1>15, ConvType DEF Touch
  <2>2. /\ preview \in [Convs -> Nat]
       /\ pc \in [Procs -> Labels]
       /\ cursor \in [Procs -> Nat]
    BY DEF TypeOK, Seqs
  <2>3. preview' \in [Convs -> Nat]
    BY <1>15, <2>1, <2>2 DEF Touch
  <2>4. pc' \in [Procs -> Labels]
    BY <1>15, <2>1, <2>2 DEF Touch, Goto, Labels
  <2>5. UNCHANGED <<message, index, hint, att, last, loaded, mu, job, cursor, todo, pick, doomed, told, aged, calls, crashes>>
    BY <1>15 DEF Touch, Goto, disk, memory, goroutine, observed
  <2> QED
    BY <2>3, <2>4, <2>5 DEF TypeOK, Seqs
<1>16. ASSUME NEW p \in Procs, Reply(p)
      PROVE  TypeOK'
  <2>1. job[p] \in Jobs /\ Conv(p) \in Convs
    BY <1>16, ConvType DEF Reply
  <2>2. /\ mu \in [Convs -> Procs \cup {Nobody}]
       /\ pc \in [Procs -> Labels]
       /\ job \in [Procs -> Jobs \cup {Nothing}]
       /\ cursor \in [Procs -> Nat]
       /\ todo \in [Procs -> SUBSET Attachments]
       /\ told \in [Jobs -> SUBSET Nat]
    BY DEF TypeOK, Seqs
  <2>3. told' \in [Jobs -> SUBSET Nat]
    BY <1>16, <2>1, <2>2 DEF Reply, Unlock
  <2>4. mu' \in [Convs -> Procs \cup {Nobody}]
    BY <1>16, <2>1, <2>2 DEF Reply, Unlock
  <2>5. pc' \in [Procs -> Labels]
    BY <1>16, <2>1, <2>2 DEF Reply, Unlock, Labels
  <2>6. job' \in [Procs -> Jobs \cup {Nothing}]
    BY <1>16, <2>1, <2>2 DEF Reply, Unlock
  <2>7. cursor' \in [Procs -> Nat]
    BY <1>16, <2>1, <2>2 DEF Reply, Unlock
  <2>8. todo' \in [Procs -> SUBSET Attachments]
    BY <1>16, <2>1, <2>2 DEF Reply, Unlock
  <2>9. UNCHANGED <<message, index, hint, att, preview, last, loaded, pick, doomed, aged, calls, crashes>>
    BY <1>16 DEF Reply, Unlock, disk, memory, goroutine, observed
  <2> QED
    BY <2>3, <2>4, <2>5, <2>6, <2>7, <2>8, <2>9 DEF TypeOK, Seqs
<1>17. ASSUME NEW p \in Procs, Fail(p)
      PROVE  TypeOK'
  <2>1. job[p] \in Jobs /\ Conv(p) \in Convs
    BY <1>17, ConvType DEF Fail
  <2>2. /\ mu \in [Convs -> Procs \cup {Nobody}]
       /\ pc \in [Procs -> Labels]
       /\ job \in [Procs -> Jobs \cup {Nothing}]
       /\ cursor \in [Procs -> Nat]
       /\ todo \in [Procs -> SUBSET Attachments]
    BY DEF TypeOK, Seqs
  <2>3. mu' \in [Convs -> Procs \cup {Nobody}]
    BY <1>17, <2>1, <2>2 DEF Fail, Unlock
  <2>4. pc' \in [Procs -> Labels]
    BY <1>17, <2>1, <2>2 DEF Fail, Unlock, Labels
  <2>5. job' \in [Procs -> Jobs \cup {Nothing}]
    BY <1>17, <2>1, <2>2 DEF Fail, Unlock
  <2>6. cursor' \in [Procs -> Nat]
    BY <1>17, <2>1, <2>2 DEF Fail, Unlock
  <2>7. todo' \in [Procs -> SUBSET Attachments]
    BY <1>17, <2>1, <2>2 DEF Fail, Unlock
  <2>8. UNCHANGED <<message, index, hint, att, preview, last, loaded, pick, doomed, told, aged, calls, crashes>>
    BY <1>17 DEF Fail, Unlock, disk, memory, goroutine, observed
  <2> QED
    BY <2>3, <2>4, <2>5, <2>6, <2>7, <2>8 DEF TypeOK, Seqs
<1>18. ASSUME NEW c \in Convs, Age(c)
      PROVE  TypeOK'
  <2>1. aged \in [Convs -> Nat]
    BY DEF TypeOK, Seqs
  <2>2. aged' \in [Convs -> Nat]
    BY <1>18, <2>1 DEF Age
  <2>3. UNCHANGED <<message, index, hint, att, preview, last, loaded, mu, pc, job, cursor, todo, pick, doomed, told, calls, crashes>>
    BY <1>18 DEF Age, disk, memory, goroutine, observed
  <2> QED
    BY <2>2, <2>3 DEF TypeOK, Seqs
<1>19. ASSUME PruneList
      PROVE  TypeOK'
  <2>1. DOMAIN index \subseteq Requests /\ index \in [DOMAIN index -> Nat]
    BY DEF TypeOK, Seqs
  <2>2. doomed' \subseteq Requests
    BY <1>19, <2>1 DEF PruneList
  <2>3. UNCHANGED <<message, index, hint, att, preview, last, loaded, mu, pc, job, cursor, todo, pick, told, aged, calls, crashes>>
    BY <1>19 DEF PruneList, disk, memory, goroutine, observed
  <2> QED
    BY <2>2, <2>3 DEF TypeOK, Seqs
<1>20. ASSUME PruneDelete
      PROVE  TypeOK'
  <2>1. /\ DOMAIN index \subseteq Requests /\ index \in [DOMAIN index -> Nat]
       /\ doomed \subseteq Requests
    BY DEF TypeOK, Seqs
  <2>2. DOMAIN index' \subseteq Requests /\ index' \in [DOMAIN index' -> Nat]
    BY <1>20, <2>1 DEF PruneDelete, Delete
  <2>3. doomed' \subseteq Requests
    BY <1>20, <2>1 DEF PruneDelete
  <2>4. UNCHANGED <<message, hint, att, preview, last, loaded, mu, pc, job, cursor, todo, pick, told, aged, calls, crashes>>
    BY <1>20 DEF PruneDelete, disk, memory, goroutine, observed
  <2> QED
    BY <2>2, <2>3, <2>4 DEF TypeOK, Seqs
<1>21. ASSUME Crash
      PROVE  TypeOK'
  <2>1. crashes \in Nat
    BY DEF TypeOK, Seqs
  <2>2. crashes' \in Nat
    BY <1>21, <2>1 DEF Crash
  <2>3. last' \in [Convs -> Nat]
    BY <1>21, <2>1 DEF Crash
  <2>4. loaded' \in [Convs -> BOOLEAN]
    BY <1>21, <2>1 DEF Crash
  <2>5. mu' \in [Convs -> Procs \cup {Nobody}]
    BY <1>21, <2>1 DEF Crash
  <2>6. pc' \in [Procs -> Labels]
    BY <1>21, <2>1 DEF Crash, Labels
  <2>7. job' \in [Procs -> Jobs \cup {Nothing}]
    BY <1>21, <2>1 DEF Crash
  <2>8. cursor' \in [Procs -> Nat]
    BY <1>21, <2>1 DEF Crash
  <2>9. todo' \in [Procs -> SUBSET Attachments]
    BY <1>21, <2>1 DEF Crash
  <2>10. pick' \in [Procs -> Attachments \cup {Nothing}]
    BY <1>21, <2>1 DEF Crash
  <2>11. doomed' \subseteq Requests
    BY <1>21, <2>1 DEF Crash
  <2>12. UNCHANGED <<message, index, hint, att, preview, told, aged, calls>>
    BY <1>21 DEF Crash, disk, memory, goroutine, observed
  <2> QED
    BY <2>2, <2>3, <2>4, <2>5, <2>6, <2>7, <2>8, <2>9, <2>10, <2>11, <2>12 DEF TypeOK, Seqs
<1>22. ASSUME UNCHANGED vars
      PROVE  TypeOK'
  BY <1>22 DEF vars, disk, memory, goroutine, observed, Seqs, TypeOK
<1> QED
  BY <1>1, <1>2, <1>3, <1>4, <1>5, <1>6, <1>7, <1>8, <1>9, <1>10, <1>11, <1>12, <1>13, <1>14, <1>15, <1>16, <1>17, <1>18, <1>19, <1>20, <1>21, <1>22 DEF Next, Step

-----------------------------------------------------------------------------
(* What a step of one goroutine leaves alone.                              *)

\* A step of p is taken holding the mutex of its conversation, or takes it.
LEMMA OthersElsewhere ==
  ASSUME Control, SetsAssumption, NEW p \in Procs, NEW q \in Procs, p # q, Step(p),
         pc[q] \notin {"idle", "lock"}
  PROVE  Conv(q) # Conv(p)
<1>1. CASE Lock(p)
  BY <1>1, SetsAssumption DEF Lock, Control, ControlOf
<1>2. CASE ~Lock(p)
  <2>1. pc[p] \notin {"idle", "lock"}
    BY <1>2 DEF Step, Load, Rebuild, FinishLoad, ReadLast, Dedup, Validate, PutMessage, CommitGet,
             CommitPut, CommitDone, PutIndex, PutHint, Touch, Reply, Fail
  <2> QED
    BY <2>1 DEF Control, ControlOf
<1> QED
  BY <1>1, <1>2

\* A step of p moves no other goroutine, touches no other conversation and is
\* not a step of the janitor or of the clock.
Bystanders(p) ==
  /\ \A q \in Procs \ {p} :
       /\ pc'[q] = pc[q] /\ job'[q] = job[q] /\ cursor'[q] = cursor[q]
       /\ todo'[q] = todo[q] /\ pick'[q] = pick[q]
  /\ \A c \in Convs \ {Conv(p)} :
       /\ message'[c] = message[c] /\ hint'[c] = hint[c] /\ preview'[c] = preview[c]
       /\ last'[c] = last[c] /\ loaded'[c] = loaded[c] /\ mu'[c] = mu[c]
  /\ UNCHANGED <<doomed, aged, calls, crashes>>

\* A step of p is a step of p alone.
LEMMA StepBystanders ==
  ASSUME TypeOK, Control, NEW p \in Procs, Step(p)
  PROVE  Bystanders(p)
<1>1. /\ pc \in [Procs -> Labels] /\ job \in [Procs -> Jobs \cup {Nothing}]
      /\ cursor \in [Procs -> Nat] /\ todo \in [Procs -> SUBSET Attachments]
      /\ pick \in [Procs -> Attachments \cup {Nothing}]
      /\ DOMAIN message = Convs /\ hint \in [Convs -> Nat] /\ preview \in [Convs -> Nat]
      /\ last \in [Convs -> Nat] /\ loaded \in [Convs -> BOOLEAN]
      /\ mu \in [Convs -> Procs \cup {Nobody}]
  BY DEF TypeOK
<1> USE DEF Bystanders, Goto, disk, memory, goroutine, observed
<1>2. CASE Lock(p)
  BY <1>1, <1>2 DEF Lock
<1>3. CASE Load(p)
  BY <1>1, <1>3 DEF Load
<1>4. CASE Rebuild(p)
  BY <1>1, <1>4 DEF Rebuild
<1>5. CASE FinishLoad(p)
  BY <1>1, <1>5 DEF FinishLoad
<1>6. CASE ReadLast(p)
  BY <1>1, <1>6 DEF ReadLast
<1>7. CASE Dedup(p)
  BY <1>1, <1>7 DEF Dedup
<1>8. CASE Validate(p)
  BY <1>1, <1>8 DEF Validate
<1>9. CASE PutMessage(p)
  BY <1>1, <1>9 DEF PutMessage
<1>10. CASE CommitGet(p)
  BY <1>1, <1>10 DEF CommitGet, CommitError
<1>11. CASE CommitPut(p)
  BY <1>1, <1>11 DEF CommitPut, CommitError
<1>12. CASE CommitDone(p)
  BY <1>1, <1>12 DEF CommitDone
<1>13. CASE PutIndex(p)
  BY <1>1, <1>13 DEF PutIndex
<1>14. CASE PutHint(p)
  BY <1>1, <1>14 DEF PutHint
<1>15. CASE Touch(p)
  BY <1>1, <1>15 DEF Touch
<1>16. CASE Reply(p)
  BY <1>1, <1>16 DEF Reply, Unlock
<1>17. CASE Fail(p)
  BY <1>1, <1>17 DEF Fail, Unlock
<1> QED
  BY <1>2, <1>3, <1>4, <1>5, <1>6, <1>7, <1>8, <1>9, <1>10, <1>11, <1>12, <1>13, <1>14, <1>15, <1>16, <1>17 DEF Step

-----------------------------------------------------------------------------
(* Control, step by step.                                                  *)

\* A goroutine that keeps its job keeps its conversation.
LEMMA SameConv ==
  ASSUME NEW q \in Procs, job'[q] = job[q]
  PROVE  Conv(q)' = Conv(q)
BY DEF Conv, Target

\* A step keeps each goroutine where its job, its mutex and the allocator allow.
LEMMA ControlStep ==
  ASSUME TypeOK, Control, NEW p \in Procs, Step(p)
  PROVE  Control'
<1>1. Bystanders(p)
  BY StepBystanders
<1>2. ASSUME NEW q \in Procs, q # p
      PROVE  ControlOf(q)'
  <2>1. pc'[q] = pc[q] /\ job'[q] = job[q] /\ pick'[q] = pick[q] /\ todo'[q] = todo[q]
    BY <1>1, <1>2 DEF Bystanders
  <2>2. Conv(q)' = Conv(q)
    BY <2>1, SameConv
  <2>3. ControlOf(q)
    BY DEF Control
  <2>4. CASE pc[q] \in {"idle", "lock"}
    BY <2>1, <2>3, <2>4 DEF ControlOf
  <2>5. CASE pc[q] \notin {"idle", "lock"}
    <3>1. Conv(q) \in Convs \ {Conv(p)}
      BY <1>2, <2>5, SetsAssumption, ConvType, OthersElsewhere
    <3>2. mu'[Conv(q)] = mu[Conv(q)] /\ loaded'[Conv(q)] = loaded[Conv(q)]
      BY <1>1, <3>1 DEF Bystanders
    <3> QED
      BY <2>1, <2>2, <2>3, <3>2 DEF ControlOf
  <2> QED
    BY <2>4, <2>5
<1>3. ControlOf(p)'
  <2>1. /\ pc \in [Procs -> Labels] /\ job \in [Procs -> Jobs \cup {Nothing}]
        /\ todo \in [Procs -> SUBSET Attachments]
        /\ pick \in [Procs -> Attachments \cup {Nothing}]
        /\ loaded \in [Convs -> BOOLEAN]
        /\ mu \in [Convs -> Procs \cup {Nobody}]
    BY DEF TypeOK
  <2>2. /\ ControlOf(p) /\ job[p] \in Jobs /\ Conv(p) \in Convs
        /\ job[p] \in Requests => ConvOf[job[p]] = Conv(p)
    <3>1. pc[p] # "idle"
      BY DEF Step, Lock, Load, Rebuild, FinishLoad, ReadLast, Dedup, Validate, PutMessage, CommitGet,
             CommitPut, CommitDone, PutIndex, PutHint, Touch, Reply, Fail
    <3> QED
      BY <3>1, ConvType DEF Control
  <2>3. job'[p] = job[p] => Conv(p)' = Conv(p)
    BY SameConv
  <2> USE DEF ControlOf, Goto, disk, memory, goroutine, observed
  <2>4. CASE Lock(p)
    BY <2>1, <2>2, <2>3, <2>4 DEF Lock
  <2>5. CASE Load(p)
    BY <2>1, <2>2, <2>3, <2>5 DEF Load
  <2>6. CASE Rebuild(p)
    BY <2>1, <2>2, <2>3, <2>6 DEF Rebuild
  <2>7. CASE FinishLoad(p)
    BY <2>1, <2>2, <2>3, <2>7 DEF FinishLoad
  <2>8. CASE ReadLast(p)
    BY <2>1, <2>2, <2>3, <2>8 DEF ReadLast, Jobs
  <2>9. CASE Dedup(p)
    BY <2>1, <2>2, <2>3, <2>9 DEF Dedup, Jobs
  <2>10. CASE Validate(p)
    BY <2>1, <2>2, <2>3, <2>10 DEF Validate
  <2>11. CASE PutMessage(p)
    BY <2>1, <2>2, <2>3, <2>11 DEF PutMessage
  <2>12. CASE CommitGet(p)
    BY <2>1, <2>2, <2>3, <2>12 DEF CommitGet, CommitError
  <2>13. CASE CommitPut(p)
    BY <2>1, <2>2, <2>3, <2>13 DEF CommitPut, CommitError
  <2>14. CASE CommitDone(p)
    BY <2>1, <2>2, <2>3, <2>14 DEF CommitDone
  <2>15. CASE PutIndex(p)
    BY <2>1, <2>2, <2>3, <2>15 DEF PutIndex
  <2>16. CASE PutHint(p)
    BY <2>1, <2>2, <2>3, <2>16 DEF PutHint
  <2>17. CASE Touch(p)
    BY <2>1, <2>2, <2>3, <2>17 DEF Touch
  <2>18. CASE Reply(p)
    BY <2>1, <2>2, <2>3, <2>18 DEF Reply, Unlock
  <2>19. CASE Fail(p)
    BY <2>1, <2>2, <2>3, <2>19 DEF Fail, Unlock
  <2> QED
    BY <2>4, <2>5, <2>6, <2>7, <2>8, <2>9, <2>10, <2>11, <2>12, <2>13, <2>14, <2>15, <2>16, <2>17, <2>18, <2>19 DEF Step
<1> QED
  BY <1>2, <1>3 DEF Control

-----------------------------------------------------------------------------
(* The timelines: what a put of a message does, and what every step keeps. *)

\* The label of a goroutine that takes a step, and its job.
LEMMA Stepping ==
  ASSUME Control, NEW p \in Procs, Step(p)
  PROVE  /\ ControlOf(p) /\ pc[p] # "idle"
         /\ job[p] \in Jobs /\ Conv(p) \in Convs
         /\ job[p] \in Requests => ConvOf[job[p]] = Conv(p)
<1>1. pc[p] # "idle"
  BY DEF Step, Lock, Load, Rebuild, FinishLoad, ReadLast, Dedup, Validate, PutMessage, CommitGet,
         CommitPut, CommitDone, PutIndex, PutHint, Touch, Reply, Fail
<1> QED
  BY <1>1, ConvType DEF Control

\* The put of p's message in conversation c succeeds.
PutSucceeds(p, c) ==
  /\ message' = [message EXCEPT ![c] = Put(message[c], last[c] + 1, job[p])]
  /\ last' = [last EXCEPT ![c] = last[c] + 1]
  /\ cursor' = [cursor EXCEPT ![p] = last[c] + 1]
  /\ todo' = [todo EXCEPT ![p] = AttsOf[job[p]]]
  /\ pc' = [pc EXCEPT ![p] = "commit"]

\* The put of a message succeeds, or changes nothing and leads to an error.
LEMMA PutOutcome ==
  ASSUME NEW p \in Procs, NEW c \in Convs, Conv(p) = c, PutMessage(p)
  PROVE  PutSucceeds(p, c) \/ (UNCHANGED <<message, last, cursor, todo>> /\ Goto(p, "fail"))
BY DEF PutMessage, PutSucceeds, Goto

\* Only PutMessage writes a message.
LEMMA OnlyPut ==
  ASSUME NEW p \in Procs, Step(p), ~PutMessage(p)
  PROVE  message' = message
BY DEF Step, Lock, Load, Rebuild, FinishLoad, ReadLast, Dedup, Validate, CommitGet, CommitPut,
       CommitDone, PutIndex, PutHint, Touch, Reply, Fail, disk

\* A message put is new at the end of the timeline; the others stay.
LEMMA PutEffect ==
  ASSUME TypeOK, Control, Shape, NEW p \in Procs, NEW c \in Convs, Conv(p) = c,
         PutMessage(p), PutSucceeds(p, c)
  PROVE  /\ Seqs(c) = 1..last[c] /\ last[c] \in Nat /\ job[p] \in Requests /\ ConvOf[job[p]] = c
         /\ last'[c] = last[c] + 1 /\ cursor'[p] = last[c] + 1 /\ todo'[p] = AttsOf[job[p]]
         /\ pc'[p] = "commit"
         /\ Seqs(c)' = 1..(last[c] + 1)
         /\ message'[c][last[c] + 1] = job[p]
         /\ \A s \in Seqs(c) : message'[c][s] = message[c][s]
         /\ \A d \in Convs \ {c} : message'[d] = message[d]
<1>1. Step(p)
  BY DEF Step
<1>2. ControlOf(p) /\ (job[p] \in Requests => ConvOf[job[p]] = c)
  BY <1>1, Stepping
<1>3. loaded[c] /\ job[p] \in Requests
  BY <1>2 DEF ControlOf, PutMessage
<1>4. Seqs(c) = 1..last[c] /\ last[c] \in Nat
  BY <1>3 DEF Shape, ShapeOf, TypeOK
<1>5. /\ DOMAIN message = Convs /\ last \in [Convs -> Nat] /\ cursor \in [Procs -> Nat]
      /\ todo \in [Procs -> SUBSET Attachments] /\ pc \in [Procs -> Labels]
  BY DEF TypeOK
<1>6. /\ last'[c] = last[c] + 1 /\ cursor'[p] = last[c] + 1 /\ todo'[p] = AttsOf[job[p]]
      /\ pc'[p] = "commit"
  BY <1>5 DEF PutSucceeds
<1>7. message'[c] = Put(message[c], last[c] + 1, job[p])
  BY <1>5 DEF PutSucceeds
<1>8. \A d \in Convs \ {c} : message'[d] = message[d]
  BY <1>5 DEF PutSucceeds
<1>9. Seqs(c)' = 1..(last[c] + 1)
  BY <1>4, <1>7 DEF Put, Seqs
<1>10. message'[c][last[c] + 1] = job[p] /\ \A s \in Seqs(c) : message'[c][s] = message[c][s]
  BY <1>4, <1>7 DEF Put, Seqs
<1> QED
  BY <1>2, <1>3, <1>4, <1>6, <1>8, <1>9, <1>10

\* No step of a goroutine rewrites or removes a message.
LEMMA Growth ==
  ASSUME TypeOK, Control, Shape, NEW p \in Procs, Step(p), NEW d \in Convs
  PROVE  /\ Seqs(d) \subseteq Seqs(d)'
         /\ \A s \in Seqs(d) : message'[d][s] = message[d][s]
<1>1. CASE message' = message
  BY <1>1 DEF Seqs
<1>2. CASE message' # message
  <2>1. PutMessage(p)
    BY <1>2, OnlyPut
  <2>2. PICK c \in Convs : c = Conv(p)
    BY Stepping
  <2>3. PutSucceeds(p, c)
    BY <1>2, <2>1, <2>2, PutOutcome
  <2>4. CASE d = c
    BY <2>1, <2>2, <2>3, <2>4, PutEffect DEF Seqs
  <2>5. CASE d # c
    <3>1. message'[d] = message[d]
      BY <2>1, <2>2, <2>3, <2>5, PutEffect
    <3> QED
      BY <3>1 DEF Seqs
  <2> QED
    BY <2>4, <2>5
<1> QED
  BY <1>1, <1>2

\* A step keeps the timelines dense and every reference to one within it.
LEMMA ShapeStep ==
  ASSUME TypeOK, Control, Shape, InHand, NEW p \in Procs, Step(p)
  PROVE  Shape'
<1>1. Bystanders(p)
  BY StepBystanders
<1>2. PICK c \in Convs : c = Conv(p)
  BY Stepping
<1>3. ASSUME NEW d \in Convs, d # c
      PROVE  ShapeOf(d)'
  BY <1>1, <1>2, <1>3 DEF Bystanders, Shape, ShapeOf, Seqs
<1>4. ShapeOf(c)'
  <2>1. /\ ShapeOf(c) /\ Seqs(c) \subseteq Nat /\ last \in [Convs -> Nat] /\ cursor \in [Procs -> Nat]
        /\ hint \in [Convs -> Nat] /\ preview \in [Convs -> Nat] /\ loaded \in [Convs -> BOOLEAN]
        /\ ControlOf(p) /\ InHandOf(p)
    BY Stepping DEF Shape, TypeOK, InHand
  <2>2. aged' = aged
    BY <1>1 DEF Bystanders
  <2>3. ASSUME UNCHANGED <<message, hint, preview, last, loaded>>
        PROVE  ShapeOf(c)'
    BY <2>1, <2>2, <2>3 DEF ShapeOf, Seqs
  <2>4. CASE PutMessage(p)
    <3>1. hint' = hint /\ preview' = preview /\ loaded' = loaded
      BY <2>4 DEF PutMessage
    <3>2. CASE PutSucceeds(p, c)
      <4>1. /\ Seqs(c) = 1..last[c] /\ last[c] \in Nat /\ job[p] \in Requests
            /\ ConvOf[job[p]] = c /\ last'[c] = last[c] + 1
            /\ Seqs(c)' = 1..(last[c] + 1)
            /\ message'[c][last[c] + 1] = job[p]
            /\ \A s \in Seqs(c) : message'[c][s] = message[c][s]
        BY <1>2, <2>4, <3>2, PutEffect
      <4>2. \E n \in {0} \cup Seqs(c)' : Seqs(c)' = 1..n
        BY <4>1
      <4>3. ASSUME NEW s \in Seqs(c)'
            PROVE  ConvOf[message'[c][s]] = c
        <5>1. CASE s = last[c] + 1
          BY <4>1, <5>1
        <5>2. CASE s # last[c] + 1
          <6>1. s \in Seqs(c)
            BY <4>1, <5>2
          <6> QED
            BY <2>1, <4>1, <6>1 DEF ShapeOf
        <5> QED
          BY <5>1, <5>2
      <4>4. {hint[c], preview[c], aged[c]} \subseteq Seqs(c)' \cup {0}
        BY <2>1, <4>1 DEF ShapeOf
      <4> QED
        BY <2>2, <3>1, <4>1, <4>2, <4>3, <4>4 DEF ShapeOf
    <3>3. CASE UNCHANGED <<message, last, cursor, todo>>
      BY <2>3, <3>1, <3>3
    <3> QED
      BY <1>2, <2>4, <3>2, <3>3, PutOutcome
  <2>5. CASE FinishLoad(p)
    <3>1. last'[c] = cursor[p] - 1 /\ UNCHANGED <<message, hint, preview>>
      BY <1>2, <2>1, <2>5 DEF FinishLoad, disk
    <3>2. Seqs(c) = 1..(cursor[p] - 1)
      <4>1. PICK n \in {0} \cup Seqs(c) : Seqs(c) = 1..n
        BY <2>1 DEF ShapeOf
      <4>2. cursor[p] \in Nat /\ cursor[p] # 0 /\ cursor[p] - 1 \in Seqs(c) \cup {0}
        BY <1>2, <2>1, <2>5 DEF FinishLoad, InHandOf
      <4>3. cursor[p] \notin Seqs(c)
        BY <1>2, <2>5, <4>2 DEF FinishLoad, Ahead, Seqs
      <4>4. n \in Nat
        BY <2>1, <4>1
      <4>5. n = cursor[p] - 1
        BY <4>1, <4>2, <4>3, <4>4
      <4> QED
        BY <4>1, <4>5
    <3> QED
      BY <2>1, <2>2, <3>1, <3>2 DEF ShapeOf, Seqs
  <2>6. CASE PutHint(p)
    <3>1. cursor[p] \in Seqs(c)
      BY <1>2, <2>1, <2>6 DEF PutHint, InHandOf, Appending
    <3>2. hint'[c] \in Seqs(c) \cup {0} /\ UNCHANGED <<message, preview, last, loaded>>
      BY <1>2, <2>1, <2>6, <3>1 DEF PutHint, ShapeOf, memory
    <3> QED
      BY <2>1, <2>2, <3>2 DEF ShapeOf, Seqs
  <2>7. CASE Touch(p)
    <3>1. cursor[p] \in Seqs(c)
      BY <1>2, <2>1, <2>7 DEF Touch, InHandOf, Appending
    <3>2. preview'[c] \in Seqs(c) \cup {0} /\ UNCHANGED <<message, hint, last, loaded>>
      BY <1>2, <2>1, <2>7, <3>1 DEF Touch, ShapeOf, memory
    <3> QED
      BY <2>1, <2>2, <3>2 DEF ShapeOf, Seqs
  <2>8. CASE \/ Lock(p) \/ Load(p) \/ Rebuild(p) \/ ReadLast(p) \/ Dedup(p) \/ Validate(p)
             \/ CommitGet(p) \/ CommitPut(p) \/ CommitDone(p) \/ PutIndex(p) \/ Reply(p) \/ Fail(p)
    BY <2>3, <2>8 DEF Lock, Load, Rebuild, ReadLast, Dedup, Validate, CommitGet, CommitPut,
                      CommitDone, PutIndex, Reply, Fail, disk, memory
  <2> QED
    BY <2>4, <2>5, <2>6, <2>7, <2>8 DEF Step
<1> QED
  BY <1>3, <1>4 DEF Shape

-----------------------------------------------------------------------------
(* What goroutines hold, the index and the answers.                        *)

\* A step keeps what each goroutine has in hand.
LEMMA InHandStep ==
  ASSUME TypeOK, Control, Shape, InHand, IndexLeadsToOriginal, NEW p \in Procs, Step(p)
  PROVE  InHand'
<1>1. Bystanders(p)
  BY StepBystanders
<1>2. ASSUME NEW q \in Procs, q # p
      PROVE  InHandOf(q)'
  <2>1. pc'[q] = pc[q] /\ job'[q] = job[q] /\ cursor'[q] = cursor[q]
    BY <1>1, <1>2 DEF Bystanders
  <2>2. Conv(q)' = Conv(q)
    BY <2>1, SameConv
  <2>3. InHandOf(q)
    BY DEF InHand
  <2>4. CASE pc[q] \in {"idle", "lock"}
    BY <2>1, <2>4 DEF InHandOf, Appending
  <2>5. CASE pc[q] \notin {"idle", "lock"}
    <3>1. Conv(q) \in Convs \ {Conv(p)}
      BY <1>2, <2>5, SetsAssumption, ConvType, OthersElsewhere
    <3>2. /\ message'[Conv(q)] = message[Conv(q)] /\ loaded'[Conv(q)] = loaded[Conv(q)]
          /\ last'[Conv(q)] = last[Conv(q)]
      BY <1>1, <3>1 DEF Bystanders
    <3> QED
      BY <2>1, <2>2, <2>3, <3>2 DEF InHandOf, Appending, Seqs
  <2> QED
    BY <2>4, <2>5
<1>3. InHandOf(p)'
  <2>1. PICK c \in Convs : c = Conv(p)
    BY Stepping
  <2>2. /\ pc \in [Procs -> Labels] /\ job \in [Procs -> Jobs \cup {Nothing}]
        /\ cursor \in [Procs -> Nat] /\ hint \in [Convs -> Nat] /\ last \in [Convs -> Nat]
        /\ loaded \in [Convs -> BOOLEAN] /\ Seqs(c) \subseteq Nat
    BY DEF TypeOK
  <2>3. /\ ControlOf(p) /\ InHandOf(p) /\ job[p] \in Jobs /\ ShapeOf(c)
        /\ job[p] \in Requests => ConvOf[job[p]] = c
    BY <2>1, Stepping DEF InHand, Shape
  <2>4. job'[p] = job[p] => Conv(p)' = c
    BY <2>1, SameConv
  <2> USE DEF InHandOf, Appending, Goto, disk, memory, observed
  <2>5. CASE Lock(p)
    BY <2>2, <2>5 DEF Lock
  <2>6. CASE Load(p)
    <3>1. hint[c] \in Seqs(c) \cup {0}
      BY <2>3 DEF ShapeOf
    <3> QED
      BY <2>1, <2>2, <2>4, <2>6, <3>1 DEF Load, Seqs
  <2>7. CASE Rebuild(p)
    BY <2>1, <2>2, <2>3, <2>4, <2>7 DEF Rebuild, Ahead, Seqs, ControlOf
  <2>8. CASE FinishLoad(p)
    BY <2>2, <2>8 DEF FinishLoad
  <2>9. CASE ReadLast(p)
    <3>1. job[p] \notin Requests
      BY <2>9, SetsAssumption DEF ReadLast
    <3> QED
      BY <2>1, <2>2, <2>4, <2>9, <3>1 DEF ReadLast, Seqs
  <2>10. CASE Dedup(p)
    <3>1. job[p] \notin Convs
      BY <2>10, SetsAssumption DEF Dedup
    <3> QED
      BY <2>1, <2>2, <2>3, <2>4, <2>10, <3>1 DEF Dedup, Seqs, IndexLeadsToOriginal
  <2>11. CASE Validate(p)
    BY <2>2, <2>11 DEF Validate
  <2>12. CASE PutMessage(p)
    <3>1. CASE PutSucceeds(p, c)
      <4>1. loaded' = loaded /\ job' = job
        BY <2>12 DEF PutMessage
      <4> QED
        BY <2>1, <2>4, <2>12, <3>1, <4>1, PutEffect DEF Seqs
    <3>2. CASE Goto(p, "fail")
      BY <2>2, <3>2
    <3> QED
      BY <2>1, <2>12, <3>1, <3>2, PutOutcome
  <2>13. CASE CommitGet(p)
    BY <2>1, <2>2, <2>3, <2>4, <2>13 DEF CommitGet, CommitError, Seqs, ControlOf
  <2>14. CASE CommitPut(p)
    BY <2>1, <2>2, <2>3, <2>4, <2>14 DEF CommitPut, CommitError, Seqs, ControlOf
  <2>15. CASE CommitDone(p)
    BY <2>1, <2>2, <2>3, <2>4, <2>15 DEF CommitDone, Seqs, ControlOf
  <2>16. CASE PutIndex(p)
    BY <2>1, <2>2, <2>3, <2>4, <2>16 DEF PutIndex, Seqs, ControlOf
  <2>17. CASE PutHint(p)
    BY <2>1, <2>2, <2>3, <2>4, <2>17 DEF PutHint, Seqs, ControlOf
  <2>18. CASE Touch(p)
    BY <2>1, <2>2, <2>3, <2>4, <2>18 DEF Touch, Seqs, ControlOf
  <2>19. CASE Reply(p)
    BY <2>2, <2>19 DEF Reply, Unlock
  <2>20. CASE Fail(p)
    BY <2>2, <2>20 DEF Fail, Unlock
  <2> QED
    BY <2>5, <2>6, <2>7, <2>8, <2>9, <2>10, <2>11, <2>12, <2>13, <2>14, <2>15, <2>16, <2>17,
       <2>18, <2>19, <2>20 DEF Step
<1> QED
  BY <1>2, <1>3 DEF InHand

\* An entry is only put for the message in hand.
LEMMA IndexStep ==
  ASSUME TypeOK, Control, Shape, InHand, IndexLeadsToOriginal, NEW p \in Procs, Step(p)
  PROVE  IndexLeadsToOriginal'
<1>1. PICK c \in Convs : c = Conv(p)
  BY Stepping
<1>2. /\ DOMAIN index \subseteq Requests
      /\ Seqs(c) \subseteq Nat /\ message[c] \in [Seqs(c) -> Requests]
      /\ ControlOf(p) /\ InHandOf(p) /\ ShapeOf(c)
      /\ job[p] \in Requests => ConvOf[job[p]] = c
  BY <1>1, Stepping DEF TypeOK, InHand, Shape
<1>3. ASSUME NEW r \in Requests, NEW s \in Seqs(ConvOf[r]), message[ConvOf[r]][s] = r
      PROVE  s \in Seqs(ConvOf[r])' /\ message'[ConvOf[r]][s] = r
  BY <1>3, Growth, RequestsAssumption
<1>4. ASSUME index' = index
      PROVE  IndexLeadsToOriginal'
  BY <1>2, <1>3, <1>4 DEF IndexLeadsToOriginal
<1>5. ASSUME NEW r \in Requests, NEW s \in Seqs(c), ConvOf[r] = c, message[c][s] = r,
             index' = Put(index, r, s)
      PROVE  IndexLeadsToOriginal'
  <2>1. \A x \in DOMAIN index' : x = r \/ (x \in DOMAIN index /\ index'[x] = index[x])
    BY <1>5 DEF Put
  <2>2. index'[r] = s /\ DOMAIN index' \subseteq Requests
    BY <1>2, <1>5 DEF Put
  <2> QED
    BY <1>2, <1>3, <1>5, <2>1, <2>2 DEF IndexLeadsToOriginal
<1>6. CASE Rebuild(p)
  <2>1. PICK s \in Seqs(c) :
          index' = index \/ index' = Put(index, message[c][s], s)
    BY <1>1, <1>6 DEF Rebuild, Ahead, Seqs
  <2> QED
    BY <1>2, <1>4, <1>5, <2>1 DEF ShapeOf
<1>7. CASE PutIndex(p)
  <2>1. job[p] \in Requests /\ cursor[p] \in Seqs(c) /\ message[c][cursor[p]] = job[p]
    BY <1>1, <1>2, <1>7 DEF PutIndex, ControlOf, InHandOf, Appending
  <2>2. index' = index \/ index' = Put(index, job[p], cursor[p])
    BY <1>7 DEF PutIndex
  <2> QED
    BY <1>2, <1>4, <1>5, <2>1, <2>2
<1>8. CASE ~Rebuild(p) /\ ~PutIndex(p)
  BY <1>4, <1>8 DEF Step, Lock, Load, FinishLoad, ReadLast, Dedup, Validate, PutMessage, CommitGet,
                    CommitPut, CommitDone, PutHint, Touch, Reply, Fail, disk
<1> QED
  BY <1>6, <1>7, <1>8

\* An answer is the message or the tip in hand.
LEMMA AnswersStep ==
  ASSUME TypeOK, Control, Shape, InHand, AnswersHold, NEW p \in Procs, Step(p)
  PROVE  AnswersHold'
<1>1. PICK c \in Convs : c = Conv(p)
  BY Stepping
<1>2. /\ ControlOf(p) /\ InHandOf(p) /\ job[p] \in Jobs
      /\ job[p] \in Requests => ConvOf[job[p]] = c
      /\ told \in [Jobs -> SUBSET Nat]
  BY <1>1, Stepping DEF TypeOK, InHand
<1>3. ASSUME told' = told
      PROVE  AnswersHold'
  BY <1>3, Growth, RequestsAssumption DEF AnswersHold
<1>4. CASE Reply(p)
  <2>1. message' = message
    BY <1>4, OnlyPut DEF Reply, disk
  <2>2. \A j \in Jobs : told'[j] = IF j = job[p] THEN told[j] \cup {cursor[p]} ELSE told[j]
    BY <1>2, <1>4 DEF Reply
  <2>3. pc[p] = "reply"
    BY <1>4 DEF Reply
  <2>4. ASSUME NEW r \in Requests, NEW s \in told'[r]
        PROVE  s \in Seqs(ConvOf[r]) /\ message[ConvOf[r]][s] = r
    <3>1. s \in told[r] \/ (r = job[p] /\ s = cursor[p])
      BY <2>2, <2>4 DEF Jobs
    <3> QED
      BY <1>1, <1>2, <2>3, <2>4, <3>1 DEF AnswersHold, InHandOf
  <2>5. ASSUME NEW d \in Convs, NEW n \in told'[d]
        PROVE  n = 0 \/ n \in Seqs(d)
    <3>1. n \in told[d] \/ (d = job[p] /\ n = cursor[p])
      BY <2>2, <2>5 DEF Jobs
    <3>2. d = job[p] => (d = c /\ n = last[c]) \/ n \in told[d]
      BY <1>1, <1>2, <2>3, <3>1 DEF Conv, Target, InHandOf
    <3>3. last[c] \in Seqs(c) \cup {0}
      BY <1>1, <1>2, <2>3 DEF ControlOf, Shape, ShapeOf, TypeOK
    <3> QED
      BY <3>1, <3>2, <3>3 DEF AnswersHold
  <2> QED
    BY <2>1, <2>4, <2>5 DEF AnswersHold, Seqs
<1>5. CASE ~Reply(p)
  BY <1>3, <1>5 DEF Step, Lock, Load, Rebuild, FinishLoad, ReadLast, Dedup, Validate, PutMessage,
                    CommitGet, CommitPut, CommitDone, PutIndex, PutHint, Touch, Fail, observed
<1> QED
  BY <1>4, <1>5

-----------------------------------------------------------------------------
(* Calls, the clock, the janitor and crashes; then Base is inductive.      *)

\* Base holds in an empty database.
LEMMA BaseInit == Init => Base
<1> SUFFICES ASSUME Init PROVE Base
  OBVIOUS
<1> USE SetsAssumption, RequestsAssumption DEF Init
<1>1. TypeOK
  <2>1. att \in [Attachments -> [state : States, conv : Convs \cup {Nothing}]]
    BY SMTT(30) DEF Record, States
  <2>2. pc \in [Procs -> Labels]
    BY DEF Labels
  <2> QED
    BY <2>1, <2>2 DEF TypeOK, Seqs
<1>2. Control
  BY DEF Control, ControlOf
<1>3. Shape
  <2> SUFFICES ASSUME NEW c \in Convs PROVE ShapeOf(c)
    BY DEF Shape
  <2>1. Seqs(c) = {} /\ Seqs(c) = 1..0
    BY DEF Seqs
  <2> QED
    BY <2>1 DEF ShapeOf
<1>4. InHand
  BY DEF InHand, InHandOf, Appending
<1>5. IndexLeadsToOriginal
  BY DEF IndexLeadsToOriginal
<1>6. AnswersHold
  BY DEF AnswersHold, Jobs
<1> QED
  BY <1>1, <1>2, <1>3, <1>4, <1>5, <1>6 DEF Base

\* A call finds its goroutine idle and disturbs no other.
LEMMA BaseCall ==
  ASSUME Base, NEW p \in Procs, NEW j \in Jobs, Call(p, j)
  PROVE  (Control /\ Shape /\ InHand /\ IndexLeadsToOriginal /\ AnswersHold)'
<1> USE DEF Base
<1>1. /\ pc \in [Procs -> Labels] /\ job \in [Procs -> Jobs \cup {Nothing}]
  BY DEF TypeOK
<1>2. UNCHANGED <<disk, memory, cursor, todo, pick, told, aged>>
  BY DEF Call
<1>3. \A q \in Procs \ {p} : pc'[q] = pc[q] /\ job'[q] = job[q]
  BY <1>1 DEF Call, Goto
<1>4. pc'[p] = "lock" /\ job'[p] = j
  BY <1>1 DEF Call, Goto
<1>5. ASSUME NEW q \in Procs
      PROVE  ControlOf(q)' /\ InHandOf(q)'
  <2>1. CASE q = p
    BY <1>4, <2>1 DEF ControlOf, InHandOf, Appending
  <2>2. CASE q # p
    <3>1. pc'[q] = pc[q] /\ job'[q] = job[q] /\ Conv(q)' = Conv(q)
      BY <1>3, <2>2, SameConv
    <3> QED
      BY <1>2, <3>1 DEF Control, ControlOf, InHand, InHandOf, Appending, Seqs, disk, memory
  <2> QED
    BY <2>1, <2>2
<1>6. Shape' /\ IndexLeadsToOriginal' /\ AnswersHold'
  BY <1>2 DEF Shape, ShapeOf, IndexLeadsToOriginal, AnswersHold, Seqs, disk, memory
<1> QED
  BY <1>5, <1>6 DEF Control, InHand

\* What a step that moves no goroutine and writes no message keeps.
LEMMA BaseQuiet ==
  ASSUME Base, UNCHANGED <<message, hint, preview, memory, goroutine, told>>,
         \A c \in Convs : aged'[c] \in Seqs(c) \cup {0},
         \A r \in DOMAIN index' : r \in DOMAIN index /\ index'[r] = index[r]
  PROVE  (Control /\ Shape /\ InHand /\ IndexLeadsToOriginal /\ AnswersHold)'
<1> USE DEF Base, memory, goroutine
<1>1. \A q \in Procs : Conv(q)' = Conv(q)
  BY SameConv
<1>2. Control' /\ InHand'
  BY <1>1 DEF Control, ControlOf, InHand, InHandOf, Appending, Seqs
<1>3. Shape'
  BY DEF Shape, ShapeOf, Seqs
<1>4. IndexLeadsToOriginal' /\ AnswersHold'
  BY DEF IndexLeadsToOriginal, AnswersHold, Seqs
<1> QED
  BY <1>2, <1>3, <1>4

\* A crash leaves the database, and no goroutine at work.
LEMMA BaseCrash ==
  ASSUME Base, Crash
  PROVE  (Control /\ Shape /\ InHand /\ IndexLeadsToOriginal /\ AnswersHold)'
<1> USE DEF Base, Crash
<1>1. \A p \in Procs : pc'[p] = "idle"
  OBVIOUS
<1>2. Control' /\ InHand'
  BY <1>1 DEF Control, ControlOf, InHand, InHandOf, Appending
<1>3. Shape'
  BY DEF Shape, ShapeOf, Seqs, disk
<1>4. IndexLeadsToOriginal' /\ AnswersHold'
  BY DEF IndexLeadsToOriginal, AnswersHold, Seqs, disk
<1> QED
  BY <1>2, <1>3, <1>4

\* Base is inductive.
LEMMA BaseNext == Base /\ [Next]_vars => Base'
<1> SUFFICES ASSUME Base, [Next]_vars PROVE Base'
  OBVIOUS
<1>1. TypeOK'
  BY TypeStep DEF Base
<1> DEFINE Rest == Control /\ Shape /\ InHand /\ IndexLeadsToOriginal /\ AnswersHold
<1>2. ASSUME NEW p \in Procs, NEW j \in Jobs, Call(p, j)
      PROVE  Rest'
  BY <1>2, BaseCall
<1>3. ASSUME NEW p \in Procs, Step(p)
      PROVE  Rest'
  BY <1>3, ControlStep, ShapeStep, InHandStep, IndexStep, AnswersStep DEF Base
<1>4. \A c \in Convs : aged[c] \in Seqs(c) \cup {0}
  BY DEF Base, Shape, ShapeOf
<1>5. ASSUME NEW d \in Convs, Age(d)
      PROVE  Rest'
  <2>1. \A c \in Convs : aged'[c] \in Seqs(c) \cup {0}
    BY <1>4, <1>5 DEF Age, Base, TypeOK, Seqs
  <2> QED
    BY <1>5, <2>1, BaseQuiet DEF Age, disk
<1>6. ASSUME PruneList
      PROVE  Rest'
  BY <1>4, <1>6, BaseQuiet DEF PruneList, disk, observed
<1>7. ASSUME PruneDelete
      PROVE  Rest'
  <2>1. \A r \in DOMAIN index' : r \in DOMAIN index /\ index'[r] = index[r]
    BY <1>7 DEF PruneDelete, Delete
  <2> QED
    BY <1>4, <1>7, <2>1, BaseQuiet DEF PruneDelete, observed
<1>8. ASSUME Crash
      PROVE  Rest'
  BY <1>8, BaseCrash
<1>9. ASSUME UNCHANGED vars
      PROVE  Rest'
  BY <1>4, <1>9, BaseQuiet DEF vars, disk, observed
<1> QED
  BY <1>1, <1>2, <1>3, <1>5, <1>6, <1>7, <1>8, <1>9 DEF Next, Base

\* Base holds throughout, whatever the constants.
LEMMA BaseInvariant == Spec => []Base
BY BaseInit, BaseNext, PTL DEF Spec

-----------------------------------------------------------------------------
(* The theorems that hold whatever fails and whenever clients retry.       *)

\* Every variable has its type in every reachable state.
THEOREM TypeCorrect == Spec => []TypeOK
<1>1. Base => TypeOK
  BY DEF Base
<1> QED
  BY <1>1, BaseInvariant, PTL

\* Sequence numbers are dense: a timeline has no gap and a loaded allocator
\* stands at its end, whatever crashed or failed.
THEOREM TimelineIsDense == Spec => []DenseTimeline
<1>1. Base => DenseTimeline
  <2> SUFFICES ASSUME Base, NEW c \in Convs
               PROVE  /\ \A s \in Seqs(c) : 1..s \subseteq Seqs(c)
                      /\ loaded[c] => Seqs(c) = 1..last[c]
    BY DEF DenseTimeline
  <2>1. ShapeOf(c) /\ Seqs(c) \subseteq Nat
    BY DEF Base, Shape, TypeOK
  <2>2. PICK n \in {0} \cup Seqs(c) : Seqs(c) = 1..n
    BY <2>1 DEF ShapeOf
  <2>3. n \in Nat
    BY <2>1, <2>2
  <2>4. \A s \in Seqs(c) : 1..s \subseteq Seqs(c)
    BY <2>2, <2>3
  <2> QED
    BY <2>1, <2>4 DEF ShapeOf
<1> QED
  BY <1>1, BaseInvariant, PTL

\* An idempotency entry leads to the message of its own send.
THEOREM IndexIsRight == Spec => []IndexLeadsToOriginal
<1>1. Base => IndexLeadsToOriginal
  BY DEF Base
<1> QED
  BY <1>1, BaseInvariant, PTL

\* What a caller was told stays true, across crashes.
THEOREM AnswersAreDurable == Spec => []AnswersHold
<1>1. Base => AnswersHold
  BY DEF Base
<1> QED
  BY <1>1, BaseInvariant, PTL

-----------------------------------------------------------------------------
(* What is written is only added to.                                       *)

\* The hint and the preview only move to the message in hand, which is the
\* newest, and a commit only makes a record Committed.
LEMMA MarksMove ==
  ASSUME Base, NEW p \in Procs, Step(p)
  PROVE  /\ \A c \in Convs : hint[c] <= hint'[c] /\ preview[c] <= preview'[c]
         /\ \A a \in Attachments : \/ att'[a] = att[a]
                                   \/ att'[a].state = "Committed"
<1>1. PICK c \in Convs : c = Conv(p)
  BY Stepping DEF Base
<1>2. /\ ControlOf(p) /\ InHandOf(p) /\ ShapeOf(c)
      /\ hint \in [Convs -> Nat] /\ preview \in [Convs -> Nat] /\ last \in [Convs -> Nat]
      /\ att \in [Attachments -> [state : States, conv : Convs \cup {Nothing}]]
      /\ pick \in [Procs -> Attachments \cup {Nothing}]
  BY <1>1, Stepping DEF Base, TypeOK, InHand, Shape
<1>3. ASSUME Appending(p)
      PROVE  hint[c] <= cursor[p] /\ preview[c] <= cursor[p]
  <2>1. loaded[c] /\ cursor[p] = last[c]
    BY <1>1, <1>2, <1>3 DEF ControlOf, InHandOf, Appending
  <2>2. hint[c] \in 0..last[c] /\ preview[c] \in 0..last[c]
    BY <1>2, <2>1 DEF ShapeOf
  <2> QED
    BY <1>2, <2>1, <2>2
<1>4. CASE PutHint(p)
  BY <1>1, <1>2, <1>3, <1>4 DEF PutHint, Appending
<1>5. CASE Touch(p)
  BY <1>1, <1>2, <1>3, <1>5 DEF Touch, Appending
<1>6. CASE CommitPut(p)
  <2>1. \A a \in Attachments : att'[a] = att[a] \/ att'[a] = Record("Committed", Conv(p))
    BY <1>2, <1>6 DEF CommitPut
  <2>2. Record("Committed", Conv(p)).state = "Committed"
    BY DEF Record
  <2> QED
    BY <1>2, <1>6, <2>1, <2>2 DEF CommitPut
<1>7. CASE ~PutHint(p) /\ ~Touch(p) /\ ~CommitPut(p)
  <2>1. UNCHANGED <<hint, preview, att>>
    BY <1>7 DEF Step, Lock, Load, Rebuild, FinishLoad, ReadLast, Dedup, Validate, PutMessage,
                CommitGet, CommitDone, PutIndex, Reply, Fail, disk
  <2> QED
    BY <1>2, <2>1
<1> QED
  BY <1>4, <1>5, <1>6, <1>7

\* A stored message is never rewritten or lost, a committed attachment stays
\* committed, and neither the hint nor the shown message goes back.
THEOREM NothingIsRewritten == Spec => AppendOnly
<1>1. Base /\ [Next]_vars => [AppendOnlyStep]_vars
  <2> SUFFICES ASSUME Base, Next PROVE AppendOnlyStep
    BY DEF AppendOnlyStep
  <2>1. hint \in [Convs -> Nat] /\ preview \in [Convs -> Nat]
    BY DEF Base, TypeOK
  <2>2. ASSUME NEW p \in Procs, Step(p)
        PROVE  AppendOnlyStep
    BY <2>2, Growth, MarksMove DEF AppendOnlyStep, Base
  <2>3. ASSUME UNCHANGED <<message, hint, preview, att>>
        PROVE  AppendOnlyStep
    BY <2>1, <2>3 DEF AppendOnlyStep, Seqs
  <2> QED
    BY <2>2, <2>3 DEF Next, Call, Age, PruneList, PruneDelete, Crash, disk
<1> QED
  BY <1>1, BaseInvariant, PTL DEF Spec, AppendOnly

-----------------------------------------------------------------------------
(* How calls end: who holds a mutex, and that no step goes back.           *)

\* Every step hands a mutex only to the goroutine that takes it, and takes it
\* from each that returns.
LEMMA HeldStep == Base /\ HeldByCall /\ [Next]_vars => HeldByCall'
<1> SUFFICES ASSUME Base, HeldByCall, [Next]_vars, NEW c \in Convs, mu'[c] # Nobody
             PROVE  (pc[mu[c]] \notin {"idle", "lock"} /\ Conv(mu[c]) = c)'
  BY DEF HeldByCall
<1> DEFINE h == mu[c]
           Fine == pc[mu[c]] \notin {"idle", "lock"} /\ Conv(mu[c]) = c
<1>1. /\ mu \in [Convs -> Procs \cup {Nobody}] /\ pc \in [Procs -> Labels]
      /\ job \in [Procs -> Jobs \cup {Nothing}]
      /\ h # Nobody => h \in Procs /\ pc[h] \notin {"idle", "lock"} /\ Conv(h) = c
  BY DEF Base, TypeOK, HeldByCall
<1>2. ASSUME mu'[c] = h, pc'[h] = pc[h], job'[h] = job[h]
      PROVE  Fine'
  BY <1>1, <1>2 DEF Conv, Target
<1>3. ASSUME NEW p \in Procs, NEW j \in Jobs, Call(p, j)
      PROVE  Fine'
  <2>1. mu'[c] = h /\ h # p
    BY <1>1, <1>3 DEF Call, memory
  <2> QED
    BY <1>1, <1>2, <1>3, <2>1 DEF Call, Goto
<1>4. ASSUME NEW p \in Procs, Step(p)
      PROVE  Fine'
  <2>1. /\ Bystanders(p) /\ ControlOf(p) /\ Conv(p) \in Convs
    BY <1>4, StepBystanders, Stepping DEF Base
  <2>2. CASE c # Conv(p)
    <3>1. mu'[c] = h /\ h # p
      BY <1>1, <2>1, <2>2 DEF Bystanders
    <3> QED
      BY <1>1, <1>2, <2>1, <3>1 DEF Bystanders
  <2>3. CASE c = Conv(p) /\ (Reply(p) \/ Fail(p))
    BY <1>1, <2>1, <2>3 DEF Reply, Fail, Unlock
  <2>4. CASE c = Conv(p) /\ ~Reply(p) /\ ~Fail(p)
    <3>1. mu'[c] = p /\ job'[p] = job[p]
      BY <1>1, <1>4, <2>1, <2>4
         DEF Step, Lock, Load, Rebuild, FinishLoad, ReadLast, Dedup, Validate, PutMessage, CommitGet,
             CommitPut, CommitDone, PutIndex, PutHint, Touch, ControlOf, memory
    <3>2. pc'[p] \notin {"idle", "lock"}
      BY <1>1, <1>4, <2>4
         DEF Step, Lock, Load, Rebuild, FinishLoad, ReadLast, Dedup, Validate, PutMessage, CommitGet,
             CommitPut, CommitDone, CommitError, PutIndex, PutHint, Touch, Goto
    <3> QED
      BY <2>4, <3>1, <3>2 DEF Conv, Target
  <2> QED
    BY <2>2, <2>3, <2>4
<1>5. CASE UNCHANGED <<mu, pc, job>>
  BY <1>1, <1>2, <1>5
<1>6. CASE Crash
  BY <1>6 DEF Crash
<1> QED
  BY <1>3, <1>4, <1>5, <1>6
     DEF Next, Age, PruneList, PruneDelete, vars, memory, goroutine

\* No path of a call, whatever fails on it, keeps a conversation's mutex.
THEOREM MutexesAreReleased == Spec => []HeldByCall
<1>1. Init => HeldByCall
  BY DEF Init, HeldByCall
<1> QED
  BY <1>1, HeldStep, BaseInvariant, PTL DEF Spec

\* The ranks of the phases.
LEMMA Ranks ==
  /\ Rank["lock"] = 0 /\ Rank["load"] = 1 /\ Rank["rebuild"] = 2 /\ Rank["ready"] = 3
  /\ Rank["validate"] = 4 /\ Rank["put"] = 5 /\ Rank["append"] = 6 /\ Rank["index"] = 7
  /\ Rank["hint"] = 8 /\ Rank["touch"] = 9 /\ Rank["reply"] = 10 /\ Rank["fail"] = 10
  /\ Rank["idle"] = 11
BY DEF Rank

\* A step of another goroutine leaves a call where it is.
LEMMA OthersStay ==
  ASSUME Base, NEW p \in Procs, NEW q \in Procs, q # p, Step(q), pc[p] # "idle"
  PROVE  AsFar(p)
<1>1. Bystanders(q)
  BY StepBystanders DEF Base
<1>2. /\ pc'[p] = pc[p] /\ job'[p] = job[p] /\ cursor'[p] = cursor[p]
      /\ todo'[p] = todo[p] /\ pick'[p] = pick[p] /\ Conv(p)' = Conv(p)
  BY <1>1, SameConv DEF Bystanders
<1>3. Unscanned(p)' = Unscanned(p)
  <2>1. CASE pc[p] = "lock"
    BY <1>2, <2>1 DEF Unscanned, Phase
  <2>2. CASE pc[p] # "lock"
    <3>1. Conv(p) \in Convs \ {Conv(q)}
      BY <2>2, SetsAssumption, ConvType, OthersElsewhere DEF Base
    <3>2. message'[Conv(p)] = message[Conv(p)] /\ loaded'[Conv(p)] = loaded[Conv(p)]
      BY <1>1, <3>1 DEF Bystanders
    <3> QED
      BY <1>2, <3>2 DEF Unscanned, Phase, Seqs
  <2> QED
    BY <2>1, <2>2
<1> QED
  BY <1>2, <1>3 DEF AsFar

\* Its own step brings a call nearer its return: to a later phase, or past a
\* message of the scan, or past an attachment.
LEMMA OwnStepAdvances ==
  ASSUME Base, NEW p \in Procs, Step(p)
  PROVE  Nearer(p)
<1>1. PICK c \in Convs : c = Conv(p)
  BY Stepping DEF Base
<1>2. /\ ControlOf(p) /\ InHandOf(p)
      /\ pc \in [Procs -> Labels] /\ cursor \in [Procs -> Nat]
      /\ todo \in [Procs -> SUBSET Attachments] /\ loaded \in [Convs -> BOOLEAN]
      /\ Seqs(c) \subseteq Nat
  BY Stepping DEF Base, TypeOK, InHand
<1>3. ASSUME job'[p] = job[p] PROVE Conv(p)' = c
  BY <1>1, <1>3, SameConv
<1>4. CASE pc[p] \in {"lock", "load", "ready", "put", "index", "hint", "touch", "reply", "fail"}
  <2>1. Phase(p) = pc[p]
    BY <1>4 DEF Phase
  <2> USE DEF Nearer, Phase, Goto
  <2>2. CASE Lock(p)
    BY <1>2, <2>1, <2>2, Ranks DEF Lock
  <2>3. CASE Load(p)
    BY <1>2, <2>1, <2>3, Ranks DEF Load
  <2>4. CASE ReadLast(p)
    BY <1>2, <2>1, <2>4, Ranks DEF ReadLast
  <2>5. CASE Dedup(p)
    BY <1>2, <2>1, <2>5, Ranks DEF Dedup
  <2>6. CASE PutMessage(p)
    <3>1. loaded[c] /\ loaded' = loaded /\ job' = job /\ pc'[p] \in {"commit", "fail"}
      BY <1>1, <1>2, <2>6 DEF PutMessage, ControlOf
    <3> QED
      BY <1>3, <2>1, <2>6, <3>1, Ranks DEF PutMessage
  <2>7. CASE PutIndex(p)
    BY <1>2, <2>1, <2>7, Ranks DEF PutIndex
  <2>8. CASE PutHint(p)
    BY <1>2, <2>1, <2>8, Ranks DEF PutHint
  <2>9. CASE Touch(p)
    BY <1>2, <2>1, <2>9, Ranks DEF Touch
  <2>10. CASE Reply(p)
    BY <1>2, <2>1, <2>10, Ranks DEF Reply, Unlock
  <2>11. CASE Fail(p)
    BY <1>2, <2>1, <2>11, Ranks DEF Fail, Unlock
  <2> QED
    BY <1>4, <2>2, <2>3, <2>4, <2>5, <2>6, <2>7, <2>8, <2>9, <2>10, <2>11
       DEF Step, Rebuild, FinishLoad, Validate, CommitGet, CommitPut, CommitDone
<1>5. CASE Validate(p)
  <2>1. Phase(p) = "validate" /\ Unscanned(p) = {}
    BY <1>5 DEF Validate, Phase, Unscanned
  <2>2. CASE pc'[p] = pc[p]
    <3>1. Phase(p)' = "validate" /\ Unscanned(p)' = {}
      BY <1>5, <2>2 DEF Validate, Phase, Unscanned
    <3>2. Smaller(todo'[p], todo[p])
      BY <1>2, <1>5, <2>2 DEF Validate, Goto, Smaller
    <3> QED
      BY <2>1, <3>1, <3>2 DEF Nearer
  <2>3. CASE pc'[p] \in {"put", "fail"}
    BY <2>1, <2>3, Ranks DEF Nearer, Phase
  <2> QED
    BY <1>2, <1>5, <2>2, <2>3 DEF Validate, Goto
<1>6. CASE Rebuild(p)
  <2>1. ~loaded[c] /\ loaded' = loaded /\ job' = job /\ message' = message /\ Conv(p)' = c
    BY <1>1, <1>2, <1>3, <1>6 DEF Rebuild, ControlOf, memory
  <2>2. Phase(p) = "rebuild" /\ pc[p] = "rebuild"
    BY <1>6 DEF Rebuild, Phase
  <2>3. CASE pc'[p] = "fail"
    BY <2>2, <2>3, Ranks DEF Nearer, Phase
  <2>4. CASE pc'[p] # "fail"
    <3>1. PICK s \in Ahead(p) : /\ \A t \in Ahead(p) : s <= t
                               /\ cursor'[p] = s /\ pc'[p] = "commit"
      BY <1>2, <1>6, <2>4 DEF Rebuild, Goto
    <3>2. Phase(p)' = "rebuild"
      BY <2>1, <3>1 DEF Phase
    <3>3. \A t \in Seqs(c) : t >= s <=> t >= cursor[p]
      BY <1>1, <1>2, <3>1 DEF Ahead, Seqs
    <3>4. Seqs(c)' = Seqs(c)
      BY <2>1 DEF Seqs
    <3>5. Unscanned(p) = {t \in Seqs(c) : t >= cursor[p]}
      BY <1>1, <2>2 DEF Unscanned
    <3>6. Unscanned(p)' = {t \in Seqs(c) : t >= s}
      BY <2>1, <3>1, <3>2, <3>4 DEF Unscanned
    <3> QED
      BY <2>2, <3>1, <3>2, <3>3, <3>5, <3>6 DEF Nearer
  <2> QED
    BY <2>3, <2>4
<1>7. CASE FinishLoad(p)
  BY <1>2, <1>7, Ranks DEF FinishLoad, Nearer, Phase, Goto
<1>8. CASE CommitDone(p)
  <2>1. /\ pc[p] = "commit" /\ loaded' = loaded /\ job' = job /\ message' = message
        /\ Conv(p)' = c
    BY <1>3, <1>8 DEF CommitDone, disk, memory
  <2>2. CASE loaded[c]
    BY <1>1, <1>2, <1>8, <2>1, <2>2, Ranks DEF CommitDone, Nearer, Phase, Goto
  <2>3. CASE ~loaded[c]
    <3>1. pc'[p] = "rebuild" /\ cursor'[p] = cursor[p] + 1
      BY <1>1, <1>2, <1>8, <2>3 DEF CommitDone, Goto
    <3>2. Phase(p) = "rebuild" /\ Phase(p)' = "rebuild"
      BY <1>1, <2>1, <2>3, <3>1 DEF Phase
    <3>3. Seqs(c)' = Seqs(c)
      BY <2>1 DEF Seqs
    <3>4. Unscanned(p) = {t \in Seqs(c) : t >= cursor[p]}
      BY <1>1, <3>2 DEF Unscanned
    <3>5. Unscanned(p)' = {t \in Seqs(c) : t >= cursor[p] + 1}
      BY <2>1, <3>1, <3>2, <3>3 DEF Unscanned
    <3>6. cursor[p] \in Seqs(c)
      BY <1>1, <1>2, <2>1 DEF InHandOf
    <3>7. \A t \in Seqs(c) : t >= cursor[p] + 1 => t >= cursor[p]
      BY <1>2, <3>6
    <3>8. Smaller(Unscanned(p)', Unscanned(p))
      BY <1>2, <3>4, <3>5, <3>6, <3>7 DEF Smaller
    <3> QED
      BY <3>2, <3>8 DEF Nearer
  <2> QED
    BY <1>2, <2>2, <2>3
<1>9. CASE CommitGet(p) \/ CommitPut(p)
  <2>1. /\ pc[p] \in {"commit", "write"} /\ loaded' = loaded /\ job' = job /\ message' = message
        /\ cursor' = cursor /\ Conv(p)' = c
    BY <1>3, <1>9 DEF CommitGet, CommitPut, disk, memory
  <2>2. CASE CommitError(p)
    <3>1. pc'[p] = IF loaded[c] THEN "reply" ELSE "fail"
      BY <1>1, <1>2, <2>2 DEF CommitError, Goto
    <3> QED
      BY <1>1, <2>1, <3>1, Ranks DEF Nearer, Phase
  <2>3. CASE ~CommitError(p)
    <3>1. \/ Smaller(todo'[p], todo[p]) /\ pc'[p] = "commit"
          \/ todo'[p] = todo[p] /\ pc[p] = "commit" /\ pc'[p] = "write"
      <4>1. CASE CommitGet(p)
        BY <1>2, <2>3, <4>1 DEF CommitGet, Goto, Smaller
      <4>2. CASE CommitPut(p)
        BY <1>2, <2>3, <4>2 DEF CommitPut, Goto, Smaller, ControlOf
      <4> QED
        BY <1>9, <4>1, <4>2
    <3>2. Phase(p)' = Phase(p)
      BY <1>1, <2>1, <3>1 DEF Phase
    <3>3. Unscanned(p)' = Unscanned(p)
      BY <1>1, <2>1, <3>2 DEF Unscanned, Seqs
    <3> QED
      BY <3>1, <3>2, <3>3 DEF Nearer
  <2> QED
    BY <2>2, <2>3
<1> QED
  BY <1>4, <1>5, <1>6, <1>7, <1>8, <1>9
     DEF Step, Lock, Load, ReadLast, Dedup, PutMessage, PutIndex, PutHint, Touch, Reply, Fail

\* Every step of a call brings it nearer its return, and nothing else moves it.
THEOREM CallsComeToAnEnd == Spec => CallsAdvance
<1>1. Base /\ [Next]_vars
        => [\A p \in Procs : pc[p] # "idle" => Nearer(p) \/ AsFar(p)]_vars
  <2> SUFFICES ASSUME Base, Next, NEW p \in Procs, pc[p] # "idle"
               PROVE  Nearer(p) \/ AsFar(p)
    OBVIOUS
  <2>1. ASSUME NEW q \in Procs, Step(q)
        PROVE  Nearer(p) \/ AsFar(p)
    BY <2>1, OwnStepAdvances, OthersStay
  <2>2. ASSUME NEW q \in Procs, NEW j \in Jobs, Call(q, j)
        PROVE  AsFar(p)
    <3>1. /\ pc'[p] = pc[p] /\ job'[p] = job[p]
          /\ UNCHANGED <<message, loaded, cursor, todo, pick>>
      BY <2>2 DEF Call, Goto, disk, memory, Base, TypeOK
    <3>2. Conv(p)' = Conv(p)
      BY <3>1, SameConv
    <3> QED
      BY <3>1, <3>2 DEF AsFar, Unscanned, Phase, Seqs
  <2>3. CASE UNCHANGED <<message, loaded, pc, job, cursor, todo, pick>>
    BY <2>3 DEF AsFar, Unscanned, Phase, Seqs, Conv, Target
  <2>4. CASE Crash
    <3>1. pc'[p] = "idle" /\ Phase(p)' = "idle"
      BY <2>4 DEF Crash, Phase
    <3>2. Phase(p) \in {"lock", "load", "rebuild", "ready", "validate", "put", "append", "index",
                       "hint", "touch", "reply", "fail"}
      BY DEF Phase, Base, TypeOK, Labels
    <3> QED
      BY <3>1, <3>2, Ranks DEF Nearer
  <2> QED
    BY <2>1, <2>2, <2>3, <2>4 DEF Next, Age, PruneList, PruneDelete, disk, memory, goroutine
<1> QED
  BY <1>1, BaseInvariant, PTL DEF Spec, CallsAdvance
=============================================================================

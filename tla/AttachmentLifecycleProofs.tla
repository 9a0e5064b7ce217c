---------------------- MODULE AttachmentLifecycleProofs ----------------------
(***************************************************************************)
(* Proofs about AttachmentLifecycle, for any attachments, users,           *)
(* conversations and goroutines, with crashes anywhere: what a message or  *)
(* a profile refers to keeps its record and its bytes, while requests and  *)
(* the janitor's sweeps interleave step by step.                           *)
(***************************************************************************)
EXTENDS AttachmentLifecycle, SequenceTheorems, TLAPS

-----------------------------------------------------------------------------
(* The inductive invariant.                                                *)

Uploading == {"save", "create", "discard"}
Sending == {"lock", "recover", "validate", "put", "commit", "write", "hint"}
Claiming == {"check", "claim", "update"}
Patching == Claiming \cup {"reclaim", "erase"}

\* What a goroutine has in hand where it is, and that it scans and appends
\* with the mutex of its conversation.
Hands(w) ==
  /\ pc[w] = "idle" => item[w] = Nothing /\ place[w] = Nothing
  /\ pc[w] \in Uploading => item[w] # Nothing /\ place[w] = Nothing
  /\ pc[w] \in Sending => place[w] \in Convs
  /\ pc[w] \in Patching => place[w] \in Users
  /\ pc[w] \in {"put", "check", "claim", "reclaim", "erase"} => item[w] # Nothing
Scans(w) ==
  /\ pc[w] \in Sending \ {"lock"} => mu[place[w]] = w
  /\ pc[w] \in {"validate", "put", "hint"} => loaded[place[w]]
  /\ pc[w] = "recover" => ~loaded[place[w]] /\ cursor[w] \in 1..(Len(sent[place[w]]) + 1)
  /\ pc[w] \in {"commit", "write"} => cursor[w] \in 1..Len(sent[place[w]])
  /\ pc[w] \in {"commit", "write", "hint"} /\ loaded[place[w]]
       => cursor[w] = Len(sent[place[w]])
Control == \A w \in Workers : Hands(w) /\ Scans(w)

\* Clients and disks are with an attachment as the age guards expect.
SendsExpected ==
  MayHappen \cap {"late use", "late recovery"} = {} /\ "commit" \notin MayFail
ClaimsExpected ==
  MayHappen \cap {"late use", "late claim", "double claim"} = {} /\ "owner" \notin MayFail
AllExpected ==
  {a \in Attachments : /\ UsesOf[a] # {"message", "avatar"}
                       /\ "message" \in UsesOf[a] => SendsExpected
                       /\ "avatar" \in UsesOf[a] => ClaimsExpected}
Expected(a) == a \in AllExpected

\* Nothing is put to a use that clients do not make of it.
Uses ==
  /\ \A a \in Attachments : /\ record[a] = "Committed" => "message" \in UsesOf[a]
                            /\ record[a] = "Avatar" => "avatar" \in UsesOf[a]
  /\ \A w \in Workers : item[w] # Nothing =>
       /\ pc[w] \in Sending => "message" \in UsesOf[item[w]]
       /\ pc[w] \in Patching => "avatar" \in UsesOf[item[w]]
  /\ \A c \in Convs : \A n \in 1..Len(sent[c]) : "message" \in UsesOf[sent[c][n]]
  /\ \A u \in Users : avatar[u] # Nothing => "avatar" \in UsesOf[avatar[u]]

\* What the file and the record of an attachment say together.
Files ==
  \A a \in Attachments : Expected(a) =>
    /\ age[a] = "unborn" => blob[a] = "none" /\ record[a] = "absent"
    /\ record[a] = "Pending" /\ age[a] # "day" => blob[a] = "final"
    /\ record[a] = "Committed" => blob[a] = "final"

\* An attachment in a message is not old enough for the sweep before it is Committed.
Reference(c, n) ==
  LET a == sent[c][n] IN
    Expected(a) => /\ blob[a] = "final"
                   /\ record[a] = "Committed" \/ (record[a] = "Pending" /\ age[a] # "day")
Settled(c, n) == Expected(sent[c][n]) => record[sent[c][n]] = "Committed"
Committing(w, c, n) ==
  pc[w] \in {"commit", "write"} /\ place[w] = c /\ cursor[w] = n /\ item[w] = sent[c][n]
References ==
  \A c \in Convs : \A n \in 1..Len(sent[c]) :
    /\ Reference(c, n)
    /\ n <= hint[c] => Settled(c, n)
    /\ loaded[c] => Settled(c, n) \/ \E w \in Workers : Committing(w, c, n)
Scanned ==
  \A w \in Workers :
    /\ pc[w] \in {"recover", "commit", "write"} /\ ~loaded[place[w]]
         => \A n \in 1..(cursor[w] - 1) : Settled(place[w], n)
    /\ pc[w] = "hint" => \A n \in 1..Len(sent[place[w]]) : Settled(place[w], n)

\* An avatar in use, and what requests have in hand.
Worn(u, a) == OwnerOf[a] = u /\ record[a] = "Avatar" /\ blob[a] = "final"
Wardrobe ==
  \A u \in Users : avatar[u] # Nothing /\ Expected(avatar[u]) => Worn(u, avatar[u])
Uploaded(w, a) ==
  pc[w] \in Uploading =>
    /\ age[a] = "new" /\ record[a] = "absent"
    /\ blob[a] = IF pc[w] = "save" THEN "tmp" ELSE "final"
    /\ \A v \in Workers : item[v] = a => v = w
Sendable(w, a) ==
  pc[w] \in Sending => age[a] # "day" /\ (pc[w] = "put" => record[a] # "absent")
Claimed(w, a) ==
  pc[w] \in Claiming =>
    /\ OwnerOf[a] = place[w] /\ age[a] = "new"
    /\ \A v \in Workers : item[v] = a /\ pc[v] \in Claiming => v = w
    /\ pc[w] = "claim" => record[a] = "Pending"
    /\ pc[w] = "update" => Worn(place[w], a) /\ avatar[place[w]] # a
Replaced(w, a) ==
  pc[w] \in {"reclaim", "erase"} =>
    /\ OwnerOf[a] = place[w]
    /\ record[a] \in {"Avatar", "absent"} /\ avatar[OwnerOf[a]] # a
    /\ \A v \in Workers : item[v] = a => pc[v] \notin {"claim", "update"}
InRequests ==
  \A w \in Workers : item[w] # Nothing /\ Expected(item[w]) =>
    /\ age[item[w]] # "unborn"
    /\ Uploaded(w, item[w]) /\ Sendable(w, item[w])
    /\ Claimed(w, item[w]) /\ Replaced(w, item[w])

\* The janitor's lists, made earlier: what is on them can only have been
\* deleted meanwhile, as it is too old for any request.
Old(a) == age[a] \in {"hour", "day"}
Unused(a) ==
  "avatar" \in UsesOf[a] /\ record[a] \in {"Avatar", "absent"} /\ avatar[OwnerOf[a]] # a
Visited(a) == a \in listed \/ a = target
Swept(a) ==
  /\ Visited(a) \/ a \in orphans => Old(a)
  /\ sweep = "stale" /\ Visited(a) => age[a] = "day" /\ record[a] \in {"Pending", "absent"}
  /\ sweep = "blobs" /\ a = target => record[a] = "absent"
  /\ sweep = "owners" /\ a \in listed
       => "avatar" \in UsesOf[a] /\ record[a] \in {"Avatar", "absent"}
  /\ a \in orphans \/ (sweep = "avatars" /\ Visited(a)) => Unused(a)
Sweeping ==
  /\ sweep \in {"rest", "tmp", "owners"} => target = Nothing
  /\ sweep \in {"rest", "tmp"} => listed = {}
  /\ sweep # "owners" => orphans = {}
  /\ \A a \in Attachments : Expected(a) => Swept(a)

\* Everything that somebody is about to put, to remove or to delete is still
\* what it was taken to be.
IndInv ==
  /\ TypeOK /\ Control /\ Uses
  /\ Files /\ References /\ Scanned /\ Wardrobe /\ InRequests /\ Sweeping

-----------------------------------------------------------------------------
(* Types, the place of every goroutine, and the mutexes.  This part needs  *)
(* nothing of clients and disks.                                           *)

Base == TypeOK /\ Control

LEMMA BaseInit == Init => Base
<1> SUFFICES ASSUME Init PROVE Base
  OBVIOUS
<1>1. TypeOK
  BY FaultsAssumption DEF Init, TypeOK, States, Ages, Labels
<1>2. Control
  BY NamesAssumption DEF Init, Control, Hands, Scans, Uploading, Sending, Patching, Claiming
<1> QED
  BY <1>1, <1>2 DEF Base

\* A goroutine's step is about that goroutine alone.
CallTyped ==
  /\ pc \in [Workers -> Labels]
  /\ item \in [Workers -> Attachments \cup {Nothing}]
  /\ place \in [Workers -> Convs \cup Users \cup {Nothing}]
  /\ cursor \in [Workers -> Nat]
Others(w) ==
  \A v \in Workers \ {w} :
    pc'[v] = pc[v] /\ item'[v] = item[v] /\ place'[v] = place[v] /\ cursor'[v] = cursor[v]

LEMMA Returned ==
  ASSUME CallTyped, NEW w \in Workers, Return(w)
  PROVE  /\ CallTyped' /\ Others(w)
         /\ pc'[w] = "idle" /\ item'[w] = Nothing /\ place'[w] = Nothing
BY DEF CallTyped, Others, Return, Goto, Labels

LEMMA WentOn ==
  ASSUME CallTyped, NEW w \in Workers, NEW label \in Labels, Goto(w, label),
         UNCHANGED <<item, place, cursor>>
  PROVE  /\ CallTyped' /\ Others(w)
         /\ pc'[w] = label /\ item'[w] = item[w] /\ place'[w] = place[w] /\ cursor'[w] = cursor[w]
BY DEF CallTyped, Others, Goto

LEMMA CallStep ==
  ASSUME Base, NEW w \in Workers, Request(w) \/ Step(w)
  PROVE  CallTyped' /\ Others(w)
<1> USE DEF call
<1>0. CallTyped /\ TypeOK /\ Hands(w) /\ Scans(w)
  BY DEF Base, CallTyped, TypeOK, Control
<1>1. ASSUME NEW a \in Attachments, Upload(w, a)
      PROVE  CallTyped' /\ Others(w)
  BY <1>0, <1>1 DEF Upload, CallTyped, Others, Goto, Labels
<1>2. ASSUME NEW c \in Convs, NEW a \in Attachments \cup {Nothing}, Call(w, c, a)
      PROVE  CallTyped' /\ Others(w)
  BY <1>0, <1>2 DEF Call, CallTyped, Others, Goto, Labels
<1>3. ASSUME NEW u \in Users, NEW a \in Attachments \cup {Nothing}, Patch(w, u, a)
      PROVE  CallTyped' /\ Others(w)
  BY <1>0, <1>3 DEF Patch, CallTyped, Others, Goto, Labels
<1>4. CASE Save(w) \/ Create(w) \/ Discard(w)
  BY <1>0, <1>4, Returned, WentOn, Zenon DEF Save, Create, Discard, Labels
<1>5. CASE Lock(w)
  <2>1. hint[place[w]] \in Nat
    BY <1>0, <1>5 DEF Lock, Hands, Sending, TypeOK
  <2> QED
    BY <1>0, <1>5, <2>1 DEF Lock, CallTyped, Others, Goto, Labels
<1>6. CASE Recover(w)
  BY <1>0, <1>6, Returned, WentOn DEF Recover, Unlock, Labels
<1>7. CASE Validate(w)
  BY <1>0, <1>7, Returned, WentOn DEF Validate, Unlock, Labels
<1>8. CASE PutMessage(w)
  <2>1. CASE Unlock(w)
    BY <1>0, <2>1, Returned DEF Unlock
  <2>2. CASE ~Unlock(w)
    <3>1. Len(sent[place[w]]) + 1 \in Nat
      BY <1>0, <1>8 DEF PutMessage, Hands, Sending, TypeOK
    <3> QED
      BY <1>0, <1>8, <2>2, <3>1 DEF PutMessage, CallTyped, Others, Goto, Labels
  <2> QED
    BY <2>1, <2>2
<1>9. ASSUME CommitNext(w), UNCHANGED <<item, place>>
      PROVE  CallTyped' /\ Others(w)
  BY <1>0, <1>9 DEF CommitNext, CallTyped, Others, Goto, Labels
<1>10. CASE CommitGet(w)
  BY <1>0, <1>9, <1>10, Returned, WentOn DEF CommitGet, Unlock, Labels
<1>11. CASE CommitPut(w)
  BY <1>0, <1>9, <1>11, Returned DEF CommitPut, Unlock
<1>12. CASE PutHint(w)
  BY <1>0, <1>12, Returned DEF PutHint, Unlock
<1>13. CASE Check(w) \/ Claim(w) \/ Reclaim(w) \/ Erase(w)
  BY <1>0, <1>13, Returned, WentOn DEF Check, Claim, Reclaim, Erase, Labels
<1>14. CASE Update(w)
  <2>1. CASE Return(w)
    BY <1>0, <2>1, Returned
  <2>2. CASE ~Return(w)
    <3>1. avatar[place[w]] \in Attachments \cup {Nothing}
      BY <1>0, <1>14 DEF Update, Hands, Patching, Claiming, TypeOK
    <3> QED
      BY <1>0, <1>14, <2>2, <3>1 DEF Update, CallTyped, Others, Goto, Labels
  <2> QED
    BY <2>1, <2>2
<1> QED
  BY <1>1, <1>2, <1>3, <1>4, <1>5, <1>6, <1>7, <1>8, <1>10, <1>11, <1>12, <1>13, <1>14
     DEF Request, Step

\* Which steps write what.
BlobWriters ==
  \/ blob' = blob \/ SweepRemove \/ BlobRemove \/ SweepTmp
  \/ \E w \in Workers : \/ \E a \in Attachments : Upload(w, a)
                        \/ Save(w) \/ Discard(w) \/ Reclaim(w)
RecordWriters ==
  \/ record' = record \/ SweepDelete
  \/ \E w \in Workers : Create(w) \/ CommitPut(w) \/ Claim(w) \/ Erase(w)
TimelineWriters ==
  /\ sent' = sent \/ \E w \in Workers : PutMessage(w)
  /\ hint' = hint \/ \E w \in Workers : PutHint(w)
AvatarWriters == avatar' = avatar \/ \E w \in Workers : Update(w)
AgeWriters ==
  \/ age' = age \/ \E a \in Attachments : Grow(a)
  \/ \E w \in Workers, a \in Attachments : Upload(w, a)
MemoryWriters ==
  /\ loaded' = loaded \/ Crash \/ \E w \in Workers : Recover(w)
  /\ \/ mu' = mu \/ Crash
     \/ \E w \in Workers : Lock(w) \/ (Unlock(w) /\ pc[w] \in Sending \ {"lock"})
CallWriters == UNCHANGED call \/ Crash \/ \E w \in Workers : Request(w) \/ Step(w)
JanitorWriters == UNCHANGED janitor \/ Crash \/ Sweep
Writers ==
  /\ BlobWriters /\ RecordWriters /\ TimelineWriters /\ AvatarWriters
  /\ AgeWriters /\ MemoryWriters /\ CallWriters /\ JanitorWriters

LEMMA EveryStep == [Next]_vars => Writers
<1> SUFFICES ASSUME [Next]_vars PROVE Writers
  OBVIOUS
<1>7. CallWriters
  BY DEF CallWriters, Next, vars, Sweep, ListStale, SweepRemove, SweepDelete, ListBlobs, BlobCheck,
     BlobRemove, SweepTmp, ListAvatars, OwnerCheck, OwnersDone, SweepDone, Grow
<1>8. JanitorWriters
  BY ZenonT(40) DEF JanitorWriters, Next, Request, Step, vars, Upload, Save, Create, Discard, Call, Lock,
     Recover, Validate, PutMessage, CommitGet, CommitPut, PutHint, Patch, Check, Claim, Update,
     Reclaim, Erase, Grow
<1> USE DEF disk, memory, janitor, Next, Request, Step, Sweep, vars,
    Upload, Save, Create, Discard, Call, Lock, Recover, Validate, PutMessage, CommitGet, CommitPut,
    PutHint, Patch, Check, Claim, Update, Reclaim, Erase, ListStale, SweepRemove, SweepDelete,
    ListBlobs, BlobCheck, BlobRemove, SweepTmp, ListAvatars, OwnerCheck, OwnersDone, SweepDone, Grow,
    Crash
<1>1. BlobWriters
  BY ZenonT(40) DEF BlobWriters
<1>2. RecordWriters
  BY ZenonT(40) DEF RecordWriters
<1>3. TimelineWriters
  BY ZenonT(40) DEF TimelineWriters
<1>4. AvatarWriters
  BY ZenonT(40) DEF AvatarWriters
<1>5. AgeWriters
  BY ZenonT(40) DEF AgeWriters
<1>6. MemoryWriters
  BY ZenonT(40) DEF MemoryWriters, Unlock, Sending
<1> QED
  BY <1>1, <1>2, <1>3, <1>4, <1>5, <1>6, <1>7, <1>8 DEF Writers

LEMMA TypesKept == Base /\ [Next]_vars => TypeOK'
<1> SUFFICES ASSUME Base, [Next]_vars PROVE TypeOK'
  OBVIOUS
<1>0. /\ TypeOK /\ Control
      /\ BlobWriters /\ RecordWriters /\ TimelineWriters /\ AvatarWriters
      /\ AgeWriters /\ MemoryWriters /\ CallWriters /\ JanitorWriters
  BY EveryStep DEF Base, Writers
<1>1. CallTyped'
  <2>1. CallTyped
    BY <1>0 DEF CallTyped, TypeOK
  <2>2. CASE UNCHANGED call
    BY <2>1, <2>2 DEF CallTyped, call
  <2>3. CASE Crash
    BY <2>3 DEF Crash, CallTyped, Labels
  <2> QED
    BY <1>0, <2>2, <2>3, CallStep DEF CallWriters
<1>2. loaded' \in [Convs -> BOOLEAN]
  BY <1>0 DEF MemoryWriters, TypeOK, Crash, Recover
<1>3. mu' \in [Convs -> Workers \cup {Nobody}]
  BY ZenonT(40), <1>0 DEF MemoryWriters, TypeOK, Crash, Lock, Unlock
<1>4. blob' \in [Attachments -> {"none", "tmp", "final"}]
  BY <1>0 DEF BlobWriters, TypeOK, SweepRemove, BlobRemove, SweepTmp, Upload, Save, Discard, Reclaim
<1>5. record' \in [Attachments -> States]
  BY <1>0 DEF RecordWriters, TypeOK, SweepDelete, Create, CommitPut, Claim, Erase, States
<1>6. avatar' \in [Users -> Attachments \cup {Nothing}]
  BY <1>0 DEF AvatarWriters, TypeOK, Update
<1>7. age' \in [Attachments -> Ages]
  BY <1>0 DEF AgeWriters, TypeOK, Grow, Upload, Ages
<1>8. troubles' \in Nat
  <2>1. troubles' = troubles \/ troubles' = troubles + 1
    BY ZenonT(40) DEF Next, Request, Step, Sweep, vars, Upload, Save, Create, Discard, Call, Lock, Recover,
       Validate, PutMessage, CommitGet, CommitPut, PutHint, Patch, Check, Claim, Update, Reclaim,
       Erase, ListStale, SweepRemove, SweepDelete, ListBlobs, BlobCheck, BlobRemove, SweepTmp,
       ListAvatars, OwnerCheck, OwnersDone, SweepDone, Grow, Crash, Begin, Fault, NoFault
  <2> QED
    BY <1>0, <2>1 DEF TypeOK
<1>9. /\ sweep' \in {"rest", "stale", "blobs", "tmp", "owners", "avatars"}
      /\ listed' \subseteq Attachments /\ orphans' \subseteq Attachments
      /\ target' \in Attachments \cup {Nothing}
  <2>1. CASE UNCHANGED janitor
    BY <1>0, <2>1 DEF TypeOK, janitor
  <2>2. CASE Crash
    BY <2>2 DEF Crash
  <2>3. CASE ListStale \/ SweepRemove \/ SweepDelete \/ ListBlobs
    BY <1>0, <2>3 DEF TypeOK, ListStale, SweepRemove, SweepDelete, ListBlobs, Begin
  <2>4. CASE BlobCheck \/ BlobRemove \/ SweepTmp \/ ListAvatars
    BY <1>0, <2>4 DEF TypeOK, BlobCheck, BlobRemove, SweepTmp, ListAvatars, Begin
  <2>5. CASE OwnerCheck \/ OwnersDone \/ SweepDone
    BY <1>0, <2>5 DEF TypeOK, OwnerCheck, OwnersDone, SweepDone
  <2> QED
    BY <1>0, <2>1, <2>2, <2>3, <2>4, <2>5 DEF JanitorWriters, Sweep
<1>10. /\ sent' \in [Convs -> Seq(Attachments)] /\ DOMAIN hint' = Convs
       /\ \A c \in Convs : hint'[c] \in 0..Len(sent'[c])
  <2>1. CASE UNCHANGED <<sent, hint>>
    BY <1>0, <2>1 DEF TypeOK
  <2>2. ASSUME NEW w \in Workers, PutMessage(w)
        PROVE  /\ sent' \in [Convs -> Seq(Attachments)]
               /\ \A c \in Convs : Len(sent'[c]) \in Nat /\ Len(sent[c]) <= Len(sent'[c])
               /\ hint' = hint
    <3>1. PICK a \in Attachments : item[w] = a
      BY <1>0, <2>2 DEF PutMessage, Control, Hands, TypeOK
    <3>2. PICK c \in Convs : place[w] = c
      BY <1>0, <2>2 DEF PutMessage, Control, Hands, Sending
    <3>3. /\ sent[c] \in Seq(Attachments)
          /\ Append(sent[c], a) \in Seq(Attachments) /\ Len(Append(sent[c], a)) = Len(sent[c]) + 1
      BY <1>0, <3>1 DEF TypeOK
    <3>4. sent' = sent \/ sent' = [sent EXCEPT ![c] = Append(sent[c], a)]
      BY <2>2, <3>1, <3>2 DEF PutMessage
    <3>5. sent \in [Convs -> Seq(Attachments)] /\ \A d \in Convs : Len(sent[d]) \in Nat
      BY <1>0 DEF TypeOK
    <3>6. UNCHANGED hint
      BY <2>2 DEF PutMessage
    <3>7. ASSUME sent' = [sent EXCEPT ![c] = Append(sent[c], a)], NEW d \in Convs
          PROVE  sent'[d] \in Seq(Attachments) /\ Len(sent'[d]) \in Nat /\ Len(sent[d]) <= Len(sent'[d])
      <4>1. CASE d = c
        BY <3>3, <3>5, <3>7, <4>1
      <4>2. CASE d # c
        BY <3>5, <3>7, <4>2
      <4> QED
        BY <4>1, <4>2
    <3>8. DOMAIN sent' = Convs /\ (sent' = [sent EXCEPT ![c] = Append(sent[c], a)]
                                     => sent' = [d \in Convs |-> sent'[d]])
      BY <3>4, <3>5
    <3> QED
      BY <3>4, <3>5, <3>6, <3>7, <3>8
  <2>3. ASSUME NEW w \in Workers, PutHint(w)
        PROVE  /\ hint' = hint \/ hint' = [hint EXCEPT ![place[w]] = Len(sent[place[w]])]
               /\ sent' = sent
    BY <1>0, <2>3 DEF PutHint, Control, Hands, Sending, Scans
  <2>4. CASE \E w \in Workers : PutMessage(w)
    BY <1>0, <2>2, <2>4 DEF TypeOK
  <2>5. CASE \E w \in Workers : PutHint(w)
    <3>1. \A d \in Convs : Len(sent[d]) \in Nat /\ hint[d] \in 0..Len(sent[d])
      BY <1>0 DEF TypeOK
    <3>2. DOMAIN hint' = Convs /\ sent' = sent
          /\ \A d \in Convs : hint'[d] \in {hint[d], Len(sent[d])}
      BY <1>0, <2>3, <2>5 DEF TypeOK
    <3> QED
      BY <1>0, <3>1, <3>2 DEF TypeOK
  <2> QED
    BY <1>0, <2>1, <2>4, <2>5 DEF TimelineWriters
<1> QED
  BY <1>1, <1>2, <1>3, <1>4, <1>5, <1>6, <1>7, <1>8, <1>9, <1>10 DEF TypeOK, CallTyped

\* A conversation is as the goroutine that holds its mutex left it.
LEMMA OthersWait ==
  ASSUME Base, NEW w \in Workers, Request(w) \/ Step(w), Writers,
         NEW v \in Workers \ {w}, pc[v] \in Sending \ {"lock"}
  PROVE  LET c == place[v] IN
           /\ mu'[c] = v /\ loaded'[c] = loaded[c]
           /\ sent'[c] = sent[c] /\ hint'[c] = hint[c]
<1> DEFINE c == place[v]
<1> USE DEF Sending
<1>0. /\ c \in Convs /\ mu[c] = v /\ v # Nobody
      /\ mu \in [Convs -> Workers \cup {Nobody}] /\ loaded \in [Convs -> BOOLEAN]
      /\ sent \in [Convs -> Seq(Attachments)] /\ DOMAIN hint = Convs
      /\ Hands(w) /\ Scans(w)
  BY NamesAssumption DEF Base, Control, Hands, Scans, TypeOK
<1>1. CASE Lock(w)
  BY <1>0, <1>1, NamesAssumption DEF Lock, disk
<1>2. CASE Recover(w) \/ Validate(w) \/ PutMessage(w)
  BY <1>0, <1>2 DEF Recover, Validate, PutMessage, Unlock, disk, Hands, Scans
<1>3. CASE CommitGet(w) \/ CommitPut(w) \/ PutHint(w)
  BY <1>0, <1>3 DEF CommitGet, CommitPut, PutHint, Unlock, disk, Hands, Scans
<1>4. CASE UNCHANGED <<mu, loaded, sent, hint>>
  BY <1>0, <1>4
<1> QED
  BY <1>1, <1>2, <1>3, <1>4 DEF Request, Step, Upload, Call, Patch, Save, Create, Discard,
     Check, Claim, Update, Reclaim, Erase, disk, memory

LEMMA HandsKept ==
  ASSUME Base, NEW w \in Workers, Request(w) \/ Step(w)
  PROVE  Hands(w)'
<1> USE DEF Uploading, Sending, Claiming, Patching, disk, memory, call, janitor
<1>0. CallTyped /\ TypeOK /\ Hands(w)
  BY DEF Base, CallTyped, TypeOK, Control
<1>1. ASSUME Return(w)
      PROVE  Hands(w)'
  BY <1>0, <1>1, Returned DEF Hands
<1>2. ASSUME NEW a \in Attachments, Upload(w, a)
      PROVE  Hands(w)'
  BY <1>0, <1>2, NamesAssumption DEF Upload, Hands, CallTyped, Goto
<1>3. ASSUME NEW c \in Convs, NEW a \in Attachments \cup {Nothing}, Call(w, c, a)
      PROVE  Hands(w)'
  BY <1>0, <1>3 DEF Call, Hands, CallTyped, Goto
<1>4. ASSUME NEW u \in Users, NEW a \in Attachments \cup {Nothing}, Patch(w, u, a)
      PROVE  Hands(w)'
  BY <1>0, <1>4 DEF Patch, Hands, CallTyped, Goto
<1>5. CASE Save(w) \/ Create(w) \/ Discard(w)
  BY <1>0, <1>1, <1>5 DEF Save, Create, Discard, Hands, CallTyped, Goto
<1>6. CASE Lock(w) \/ Recover(w) \/ Validate(w) \/ PutMessage(w)
  BY <1>0, <1>1, <1>6 DEF Lock, Recover, Validate, PutMessage, Unlock, Hands, CallTyped, Goto
<1>7. CASE CommitGet(w) \/ CommitPut(w) \/ PutHint(w)
  BY <1>0, <1>1, <1>7 DEF CommitGet, CommitPut, CommitNext, PutHint, Unlock, Hands, CallTyped, Goto
<1>8. CASE Check(w) \/ Claim(w)
  BY <1>0, <1>1, <1>8 DEF Check, Claim, Hands, CallTyped, Goto
<1>9. CASE Update(w) \/ Reclaim(w) \/ Erase(w)
  BY <1>0, <1>1, <1>9 DEF Update, Reclaim, Erase, Hands, CallTyped, Goto
<1> QED
  BY <1>2, <1>3, <1>4, <1>5, <1>6, <1>7, <1>8, <1>9 DEF Request, Step

LEMMA ScansKept ==
  ASSUME Base, NEW w \in Workers, Request(w) \/ Step(w)
  PROVE  Scans(w)'
<1> USE DEF Sending, disk, memory, call, janitor
<1>0. CallTyped /\ TypeOK /\ Hands(w) /\ Scans(w)
  BY DEF Base, CallTyped, TypeOK, Control
<1>1. ASSUME pc'[w] \notin Sending \ {"lock"}
      PROVE  Scans(w)'
  BY <1>1 DEF Scans
<1>2. ASSUME Return(w)
      PROVE  Scans(w)'
  BY <1>0, <1>1, <1>2, Returned
<1>3. CASE Request(w) \/ Save(w) \/ Create(w) \/ Discard(w)
  BY ZenonT(40), <1>0, <1>1, <1>2, <1>3 DEF Request, Upload, Call, Patch, Save, Create, Discard, CallTyped, Goto
<1>4. CASE Check(w) \/ Claim(w) \/ Update(w) \/ Reclaim(w) \/ Erase(w)
  BY <1>0, <1>1, <1>2, <1>4 DEF Check, Claim, Update, Reclaim, Erase, CallTyped, Goto
<1>5. CASE Lock(w)
  BY <1>0, <1>5 DEF Lock, Scans, Hands, CallTyped, TypeOK, Goto
<1>6. CASE Recover(w)
  BY <1>0, <1>2, <1>6 DEF Recover, Unlock, Scans, Hands, CallTyped, TypeOK, Goto
<1>7. CASE Validate(w)
  BY <1>0, <1>2, <1>7 DEF Validate, Unlock, Scans, CallTyped, Goto
<1>8. CASE PutMessage(w)
  BY <1>0, <1>2, <1>8 DEF PutMessage, Unlock, Scans, Hands, CallTyped, TypeOK, Goto
<1>9. CASE CommitGet(w)
  BY <1>0, <1>2, <1>9 DEF CommitGet, CommitNext, Unlock, Scans, Hands, CallTyped, TypeOK, Goto
<1>10. CASE CommitPut(w)
  BY <1>0, <1>2, <1>10 DEF CommitPut, CommitNext, Unlock, Scans, Hands, CallTyped, TypeOK, Goto
<1>11. CASE PutHint(w)
  BY <1>0, <1>2, <1>11 DEF PutHint, Unlock
<1> QED
  BY <1>3, <1>4, <1>5, <1>6, <1>7, <1>8, <1>9, <1>10, <1>11 DEF Step

LEMMA BaseKept == Base /\ [Next]_vars => Base'
<1> SUFFICES ASSUME Base, [Next]_vars PROVE Control'
  BY TypesKept DEF Base
<1>0. Control /\ TypeOK /\ Writers
  BY EveryStep DEF Base
<1>1. ASSUME NEW w \in Workers, Request(w) \/ Step(w), NEW v \in Workers
      PROVE  Hands(v)' /\ Scans(v)'
  <2>1. CASE v = w
    BY <1>1, <2>1, HandsKept, ScansKept
  <2>2. CASE v # w
    <3>1. Hands(v) /\ Scans(v) /\ Others(w)
      BY <1>0, <1>1, CallStep DEF Control
    <3>2. Hands(v)'
      BY <2>2, <3>1 DEF Others, Hands
    <3>5. pc'[v] = pc[v] /\ place'[v] = place[v] /\ cursor'[v] = cursor[v]
      BY <2>2, <3>1 DEF Others
    <3>3. CASE pc[v] \in Sending \ {"lock"}
      <4>1. /\ mu'[place[v]] = v /\ loaded'[place[v]] = loaded[place[v]]
            /\ sent'[place[v]] = sent[place[v]]
        BY <1>0, <1>1, <2>2, <3>3, OthersWait
      <4> QED
        BY <3>1, <3>2, <3>5, <4>1 DEF Scans
    <3>4. CASE pc[v] \notin Sending \ {"lock"}
      BY <3>2, <3>4, <3>5 DEF Scans, Sending
    <3> QED
      BY <3>3, <3>4
  <2> QED
    BY <2>1, <2>2
<1>2. CASE Crash
  BY <1>2, NamesAssumption DEF Crash, Control, Hands, Scans, Uploading, Sending, Patching, Claiming
<1>3. CASE UNCHANGED <<memory, call, sent>>
  BY <1>0, <1>3 DEF Control, Hands, Scans, memory, call
<1>4. ASSUME ~\E w \in Workers : Request(w) \/ Step(w), ~Crash
      PROVE  UNCHANGED <<memory, call, sent>>
  BY <1>4 DEF Next, vars, Sweep, ListStale, SweepRemove, SweepDelete, ListBlobs, BlobCheck,
     BlobRemove, SweepTmp, ListAvatars, OwnerCheck, OwnersDone, SweepDone, Grow, disk
<1> QED
  BY <1>1, <1>2, <1>3, <1>4 DEF Control

-----------------------------------------------------------------------------
(* What a step can do to one attachment.                                   *)

RecordMoves(a) ==
  \/ record'[a] = record[a]
  \/ record'[a] = "Pending" /\ \E w \in Workers : pc[w] = "create" /\ pc'[w] # "create" /\ item[w] = a
  \/ /\ record'[a] = "Committed"
     /\ \E w \in Workers : pc[w] = "write" /\ Referred(w) = a
  \/ record'[a] = "Avatar" /\ \E w \in Workers : pc[w] = "claim" /\ pc'[w] # "claim" /\ item[w] = a
  \/ record'[a] = "absent" /\ \E w \in Workers : pc[w] = "erase" /\ item[w] = a
  \/ record'[a] = "absent" /\ sweep \in {"stale", "avatars"} /\ target = a

BlobMoves(a) ==
  \/ blob'[a] = blob[a]
  \/ blob'[a] = "tmp" /\ age[a] = "unborn" /\ age'[a] = "new"
  \/ blob'[a] = "final" /\ \E w \in Workers : pc[w] = "save" /\ pc'[w] # "save" /\ item[w] = a
  \/ blob'[a] = "none" /\ \E w \in Workers : /\ pc[w] \in {"save", "discard", "reclaim"}
                                             /\ pc'[w] # pc[w] /\ item[w] = a
  \/ blob'[a] = "none" /\ sweep \in {"stale", "avatars"} /\ a \in listed
  \/ blob'[a] = "none" /\ sweep = "blobs" /\ target = a
  \/ blob'[a] = "none" /\ blob[a] = "tmp" /\ age[a] = "day"

Loadings(a) ==
  \A c \in Convs : Contains(sent[c], a) => loaded[c] \/ "late recovery" \in MayHappen
AgeMoves(a) ==
  \/ age'[a] = age[a]
  \/ age[a] = "unborn" /\ age'[a] = "new"
  \/ age[a] = "new" /\ age'[a] = "hour" /\ ~InHand(a)
  \/ age[a] = "hour" /\ age'[a] = "day" /\ ~InHand(a) /\ Loadings(a)

LEMMA Moving ==
  ASSUME Base, [Next]_vars, NEW a \in Attachments
  PROVE  RecordMoves(a) /\ BlobMoves(a) /\ AgeMoves(a)
<1>0. /\ TypeOK /\ Control /\ BlobWriters /\ RecordWriters /\ AgeWriters
      /\ a # Nothing
  BY EveryStep, NamesAssumption DEF Base, Writers
<1>1. RecordMoves(a)
  <2>1. CASE record' = record
    BY <2>1 DEF RecordMoves
  <2>2. CASE SweepDelete
    BY <1>0, <2>2 DEF SweepDelete, RecordMoves, TypeOK
  <2>3. ASSUME NEW w \in Workers, Create(w)
        PROVE  RecordMoves(a)
    BY <1>0, <2>3 DEF Create, Return, Goto, RecordMoves, TypeOK
  <2>4. ASSUME NEW w \in Workers, CommitPut(w)
        PROVE  RecordMoves(a)
    BY <1>0, <2>4 DEF CommitPut, RecordMoves, TypeOK
  <2>5. ASSUME NEW w \in Workers, Claim(w)
        PROVE  RecordMoves(a)
    BY <1>0, <2>5 DEF Claim, Return, Goto, RecordMoves, TypeOK
  <2>6. ASSUME NEW w \in Workers, Erase(w)
        PROVE  RecordMoves(a)
    BY <1>0, <2>6 DEF Erase, RecordMoves, TypeOK
  <2> QED
    BY <1>0, <2>1, <2>2, <2>3, <2>4, <2>5, <2>6 DEF RecordWriters
<1>2. BlobMoves(a)
  <2>1. CASE blob' = blob
    BY <2>1 DEF BlobMoves
  <2>2. CASE SweepRemove \/ BlobRemove \/ SweepTmp
    BY <1>0, <2>2 DEF SweepRemove, BlobRemove, SweepTmp, BlobMoves, TypeOK
  <2>3. ASSUME NEW w \in Workers, NEW b \in Attachments, Upload(w, b)
        PROVE  BlobMoves(a)
    BY <1>0, <2>3 DEF Upload, BlobMoves, TypeOK
  <2>4. ASSUME NEW w \in Workers, Save(w)
        PROVE  BlobMoves(a)
    BY <1>0, <2>4 DEF Save, Return, Goto, BlobMoves, TypeOK
  <2>5. ASSUME NEW w \in Workers, Discard(w)
        PROVE  BlobMoves(a)
    BY <1>0, <2>5 DEF Discard, Return, Goto, BlobMoves, TypeOK
  <2>6. ASSUME NEW w \in Workers, Reclaim(w)
        PROVE  BlobMoves(a)
    BY <1>0, <2>6 DEF Reclaim, Return, Goto, BlobMoves, TypeOK
  <2> QED
    BY <1>0, <2>1, <2>2, <2>3, <2>4, <2>5, <2>6 DEF BlobWriters
<1>3. AgeMoves(a)
  <2>1. ASSUME NEW b \in Attachments, Grow(b)
        PROVE  AgeMoves(a)
    <3>1. CASE a = b
      <4>1. /\ age[a] \in {"new", "hour"} /\ ~InHand(a)
            /\ age'[a] = IF age[a] = "new" THEN "hour" ELSE "day"
            /\ age'[a] = "day" => Loadings(a)
        BY <1>0, <2>1, <3>1 DEF Grow, Loadings, TypeOK
      <4> QED
        BY <4>1 DEF AgeMoves
    <3>2. CASE a # b
      BY <1>0, <2>1, <3>2 DEF Grow, AgeMoves, TypeOK
    <3> QED
      BY <3>1, <3>2
  <2>2. ASSUME NEW w \in Workers, NEW b \in Attachments, Upload(w, b)
        PROVE  AgeMoves(a)
    BY <1>0, <2>2 DEF Upload, AgeMoves, TypeOK
  <2> QED
    BY <1>0, <2>1, <2>2 DEF AgeWriters, AgeMoves
<1> QED
  BY <1>1, <1>2, <1>3

-----------------------------------------------------------------------------
(* The second part: an attachment that clients and disks are with as the    *)
(* age guards expect.                                                      *)

LEMMA OneUse ==
  ASSUME NEW a \in Attachments, Expected(a)
  PROVE  ~("message" \in UsesOf[a] /\ "avatar" \in UsesOf[a])
<1>1. UsesOf[a] \subseteq {"message", "avatar"}
  BY ClientsAssumption
<1> QED
  BY <1>1 DEF Expected, AllExpected

\* The attachment in the hands of the scan or the append is one of a message.
LEMMA InHandIsReferred ==
  ASSUME IndInv, NEW w \in Workers, pc[w] \in {"commit", "write"}
  PROVE  /\ place[w] \in Convs /\ cursor[w] \in 1..Len(sent[place[w]])
         /\ Referred(w) \in Attachments /\ Reference(place[w], cursor[w])
         /\ Referred(w) = sent[place[w]][cursor[w]] /\ "message" \in UsesOf[Referred(w)]
<1>1. Hands(w) /\ Scans(w) /\ References /\ TypeOK /\ Uses
  BY DEF IndInv, Control
<1>2. place[w] \in Convs /\ cursor[w] \in 1..Len(sent[place[w]])
  BY <1>1 DEF Hands, Scans, Sending
<1>3. sent[place[w]] \in Seq(Attachments)
  BY <1>1, <1>2 DEF TypeOK
<1> QED
  BY <1>1, <1>2, <1>3 DEF References, Referred, Uses

\* What a goroutine has in hand.
InRequest(w) ==
  /\ age[item[w]] # "unborn"
  /\ Uploaded(w, item[w]) /\ Sendable(w, item[w])
  /\ Claimed(w, item[w]) /\ Replaced(w, item[w])

LEMMA HandOf ==
  ASSUME IndInv, NEW w \in Workers, NEW a \in Attachments, item[w] = a, Expected(a)
  PROVE  /\ InRequest(w) /\ Hands(w)
         /\ pc[w] \in Sending => "message" \in UsesOf[a] /\ "avatar" \notin UsesOf[a]
         /\ pc[w] \in Patching => "avatar" \in UsesOf[a] /\ "message" \notin UsesOf[a]
BY OneUse, NamesAssumption DEF IndInv, Control, Uses, InRequests, InRequest

\* What the janitor is about to remove or delete.
LEMMA SweptIs ==
  ASSUME IndInv, NEW a \in Attachments, Expected(a), a \in listed \/ target = a
  PROVE  /\ Old(a)
         /\ sweep = "stale" => age[a] = "day" /\ record[a] \in {"Pending", "absent"}
         /\ sweep = "avatars" => Unused(a)
         /\ sweep = "blobs" /\ target = a => record[a] = "absent"
BY DEF IndInv, Sweeping, Swept, Visited

\* A reference stays backed: no goroutine and no sweep takes its file or its
\* record away, and it does not grow old before it is Committed.
LEMMA ReferenceKept ==
  ASSUME IndInv, [Next]_vars, NEW c \in Convs, NEW n \in 1..Len(sent[c]),
         NEW a \in Attachments, a = sent[c][n], Expected(a)
  PROVE  /\ record'[a] \in {record[a], "Committed"}
         /\ blob'[a] = "final"
         /\ record'[a] = "Pending" => age'[a] # "day"
<1>0. /\ RecordMoves(a) /\ BlobMoves(a) /\ AgeMoves(a)
      /\ "message" \in UsesOf[a] /\ "avatar" \notin UsesOf[a]
      /\ blob[a] = "final" /\ record[a] \in {"Pending", "Committed"}
      /\ record[a] = "Pending" => age[a] # "day"
      /\ age[a] # "unborn"
  BY Moving, OneUse DEF IndInv, Base, Uses, References, Reference, Files
<1>1. \A w \in Workers : item[w] = a => pc[w] \notin Uploading /\ pc[w] \notin Patching
  BY <1>0, HandOf DEF InRequest, Uploaded, Claimed, Replaced, Uploading, Patching
<1>2. ~(sweep \in {"stale", "avatars"} /\ (a \in listed \/ target = a))
  BY <1>0, SweptIs DEF Unused
<1>3. record'[a] \in {record[a], "Committed"}
  BY <1>0, <1>1, <1>2 DEF RecordMoves, Uploading, Patching, Claiming
<1>4. blob'[a] = "final"
  <2>1. ~(sweep = "blobs" /\ target = a)
    BY <1>0, SweptIs
  <2> QED
    BY <1>0, <1>1, <1>2, <2>1 DEF BlobMoves, Uploading, Patching
<1>5. ASSUME record'[a] = "Pending", age'[a] = "day"
      PROVE  FALSE
  <2>1. record[a] = "Pending" /\ ~InHand(a) /\ Loadings(a)
    BY <1>0, <1>3, <1>5 DEF AgeMoves
  <2>2. Contains(sent[c], a)
    BY DEF Contains
  <2>3. loaded[c]
    BY <1>0, <2>1, <2>2 DEF Loadings, Expected, AllExpected, SendsExpected
  <2>4. \E w \in Workers : Committing(w, c, n)
    BY <2>1, <2>3 DEF IndInv, References, Settled
  <2> QED
    BY <2>1, <2>4 DEF Committing, InHand
<1> QED
  BY <1>3, <1>4, <1>5

\* An avatar stays as long as a profile shows it, and so does one that is
\* about to be put into a profile.
LEMMA WornKept ==
  ASSUME IndInv, [Next]_vars, NEW u \in Users, NEW a \in Attachments, Expected(a), Worn(u, a),
         avatar[u] = a \/ \E w \in Workers : pc[w] = "update" /\ item[w] = a
  PROVE  Worn(u, a)'
<1>0. RecordMoves(a) /\ BlobMoves(a) /\ record[a] = "Avatar" /\ blob[a] = "final" /\ OwnerOf[a] = u
  BY Moving DEF IndInv, Base, Worn
<1>1. age[a] # "unborn"
  BY <1>0 DEF IndInv, Files
<1>2. \A w \in Workers : item[w] = a => pc[w] \notin {"save", "create", "discard", "claim"}
  BY <1>0, HandOf DEF InRequest, Uploaded, Claimed, Uploading, Claiming
<1>3. \A w \in Workers : item[w] = a => pc[w] \notin {"reclaim", "erase"}
  BY <1>0, HandOf DEF InRequest, Replaced
<1>4. ~(sweep \in {"stale", "avatars"} /\ (a \in listed \/ target = a))
  <2>1. Old(a) => avatar[u] = a
    BY HandOf DEF InRequest, Claimed, Claiming, Old
  <2> QED
    BY <1>0, <2>1, SweptIs DEF Unused
<1>5. ~(sweep = "blobs" /\ target = a)
  BY <1>0, SweptIs
<1>6. \A w \in Workers : pc[w] = "write" => Referred(w) # a
  BY <1>0, InHandIsReferred DEF Reference
<1> QED
  BY <1>0, <1>1, <1>2, <1>3, <1>4, <1>5, <1>6 DEF Worn, RecordMoves, BlobMoves

\* What is too old for any request only goes away.
LEMMA OldKept ==
  ASSUME IndInv, [Next]_vars, NEW a \in Attachments, Expected(a), Old(a)
  PROVE  /\ Old(a)' /\ (age[a] = "day" => age'[a] = "day")
         /\ record[a] = "absent" => record'[a] = "absent"
         /\ record[a] = "Avatar" => record'[a] \in {"Avatar", "absent"}
         /\ age[a] = "day" /\ record[a] = "Pending" => record'[a] \in {"Pending", "absent"}
         /\ \A u \in Users : avatar'[u] = a => avatar[u] = a
<1>0. RecordMoves(a) /\ AgeMoves(a) /\ age[a] \notin {"unborn", "new"}
  BY Moving DEF IndInv, Base, Old
<1>1. \A w \in Workers : item[w] = a => pc[w] \notin {"create", "claim", "update"}
  BY <1>0, HandOf DEF InRequest, Uploaded, Claimed, Uploading, Claiming
<1>2. \A w \in Workers : pc[w] = "write" /\ Referred(w) = a
        => record[a] = "Committed" \/ (record[a] = "Pending" /\ age[a] # "day")
  BY InHandIsReferred DEF Reference
<1>3. ASSUME NEW u \in Users, avatar'[u] = a
      PROVE  avatar[u] = a
  <2>1. CASE avatar' = avatar
    BY <1>3, <2>1
  <2>2. ASSUME NEW w \in Workers, Update(w)
        PROVE  avatar[u] = a
    BY <1>1, <1>3, <2>2 DEF Update, IndInv, TypeOK
  <2> QED
    BY <2>1, <2>2, EveryStep DEF Writers, AvatarWriters
<1> QED
  BY <1>0, <1>1, <1>2, <1>3 DEF Old, RecordMoves, AgeMoves

LEMMA FilesKept == IndInv /\ [Next]_vars => Files'
<1> SUFFICES ASSUME IndInv, [Next]_vars, NEW a \in Attachments, Expected(a)
             PROVE  /\ age'[a] = "unborn" => blob'[a] = "none" /\ record'[a] = "absent"
                    /\ record'[a] = "Pending" /\ age'[a] # "day" => blob'[a] = "final"
                    /\ record'[a] = "Committed" => blob'[a] = "final"
  BY DEF Files
<1>0. /\ RecordMoves(a) /\ BlobMoves(a) /\ AgeMoves(a)
      /\ age[a] = "unborn" => blob[a] = "none" /\ record[a] = "absent"
      /\ record[a] = "Pending" /\ age[a] # "day" => blob[a] = "final"
      /\ record[a] = "Committed" => blob[a] = "final"
      /\ age[a] \in Ages
  BY Moving DEF IndInv, Base, Files, TypeOK
<1>1. \A w \in Workers : item[w] = a =>
        /\ age[a] # "unborn"
        /\ pc[w] = "create" => age[a] = "new" /\ blob[a] = "final"
        /\ pc[w] \in {"save", "create", "discard"} =>
             record[a] = "absent" /\ \A v \in Workers : item[v] = a => v = w
        /\ pc[w] = "claim" => record[a] = "Pending"
        /\ pc[w] \in {"reclaim", "erase"} => record[a] \in {"Avatar", "absent"}
  BY HandOf DEF InRequest, Uploaded, Claimed, Replaced, Uploading, Claiming
<1>2. /\ a \in listed \/ target = a => Old(a)
      /\ sweep = "stale" /\ (a \in listed \/ target = a)
           => age[a] = "day" /\ record[a] \in {"Pending", "absent"}
      /\ sweep = "avatars" /\ (a \in listed \/ target = a) => record[a] \in {"Avatar", "absent"}
      /\ sweep = "blobs" /\ target = a => record[a] = "absent"
  BY SweptIs DEF Unused
<1>3. ASSUME NEW w \in Workers, pc[w] = "write", Referred(w) = a
      PROVE  record[a] \in {"Pending", "Committed"} /\ blob'[a] = "final"
  <2>1. PICK c \in Convs : \E n \in 1..Len(sent[c]) : a = sent[c][n] /\ Reference(c, n)
    BY <1>3, InHandIsReferred
  <2> QED
    BY <2>1, ReferenceKept DEF Reference
<1>4. age'[a] = "unborn" => blob'[a] = "none" /\ record'[a] = "absent"
  <2>1. age'[a] = "unborn" => age[a] = "unborn" /\ age'[a] # "new"
    BY <1>0 DEF AgeMoves
  <2> QED
    BY <1>0, <1>1, <1>2, <1>3, <2>1 DEF RecordMoves, BlobMoves, Old
<1>5. record'[a] = "Pending" /\ age'[a] # "day" => blob'[a] = "final"
  <2>1. CASE record[a] = "Pending" /\ age[a] # "day" /\ age[a] # "unborn"
    BY <1>0, <1>1, <1>2, <2>1 DEF BlobMoves
  <2>2. CASE record'[a] = "Pending" /\ record[a] # "Pending"
    <3>1. PICK w \in Workers : pc[w] = "create" /\ item[w] = a
      BY <1>0, <2>2 DEF RecordMoves
    <3>2. age[a] = "new" /\ blob[a] = "final" /\ \A v \in Workers : item[v] = a => v = w
      BY <1>1, <3>1
    <3> QED
      BY <1>0, <1>2, <3>1, <3>2 DEF BlobMoves, Old
  <2> QED
    BY <1>0, <2>1, <2>2 DEF AgeMoves
<1>6. record'[a] = "Committed" => blob'[a] = "final"
  <2>1. CASE record[a] = "Committed"
    BY <1>0, <1>1, <1>2, <2>1 DEF BlobMoves
  <2> QED
    BY <1>0, <1>3, <2>1 DEF RecordMoves
<1> QED
  BY <1>4, <1>5, <1>6

LEMMA WardrobeKept == IndInv /\ [Next]_vars => Wardrobe'
<1> SUFFICES ASSUME IndInv, [Next]_vars, NEW u \in Users,
                    avatar'[u] # Nothing, Expected(avatar'[u])
             PROVE  LET a == avatar'[u] IN
                      OwnerOf[a] = u /\ record'[a] = "Avatar" /\ blob'[a] = "final"
  BY DEF Wardrobe, Worn
<1>0. TypeOK /\ Wardrobe
  BY DEF IndInv
<1>1. CASE avatar'[u] = avatar[u]
  <2>0. PICK a \in Attachments : avatar[u] = a /\ avatar'[u] = a
    BY <1>0, <1>1 DEF TypeOK
  <2>1. Expected(a) /\ Worn(u, a) /\ avatar[u] = a
    BY <1>0, <2>0 DEF Wardrobe
  <2>2. Worn(u, a)'
    BY <2>1, WornKept
  <2> QED
    BY <1>1, <2>1, <2>2 DEF Worn
<1>2. ASSUME NEW w \in Workers, Update(w), avatar'[u] # avatar[u]
      PROVE  LET a == avatar'[u] IN
               OwnerOf[a] = u /\ record'[a] = "Avatar" /\ blob'[a] = "final"
  <2>1. pc[w] = "update" /\ avatar'[u] = item[w] /\ place[w] = u
    BY <1>0, <1>2 DEF Update, TypeOK
  <2>2. PICK a \in Attachments : item[w] = a
    BY <1>0, <2>1 DEF TypeOK
  <2>3. Worn(u, a)
    BY <2>1, <2>2, HandOf DEF InRequest, Claimed, Claiming
  <2>4. Worn(u, a)'
    BY <2>1, <2>2, <2>3, WornKept
  <2> QED
    BY <2>1, <2>2, <2>4 DEF Worn
<1> QED
  BY <1>1, <1>2, EveryStep DEF Writers, AvatarWriters

LEMMA SweepingKept == IndInv /\ [Next]_vars => Sweeping'
<1> SUFFICES ASSUME IndInv, [Next]_vars PROVE Sweeping'
  OBVIOUS
<1>0. TypeOK /\ Sweeping /\ JanitorWriters /\ Nothing \notin Attachments
  BY EveryStep, NamesAssumption DEF IndInv, Writers
<1>1. /\ sweep' \in {"rest", "tmp", "owners"} => target' = Nothing
      /\ sweep' \in {"rest", "tmp"} => listed' = {}
      /\ sweep' # "owners" => orphans' = {}
  <2>1. CASE UNCHANGED janitor \/ Crash
    BY <1>0, <2>1 DEF janitor, Crash, Sweeping
  <2>2. CASE ListStale \/ SweepRemove \/ SweepDelete \/ ListBlobs
    BY <1>0, <2>2 DEF ListStale, SweepRemove, SweepDelete, ListBlobs, Begin, Idle, Sweeping
  <2>3. CASE BlobCheck \/ BlobRemove \/ SweepTmp \/ ListAvatars
    BY <1>0, <2>3 DEF BlobCheck, BlobRemove, SweepTmp, ListAvatars, Begin, Idle, Sweeping
  <2>4. CASE OwnerCheck \/ OwnersDone \/ SweepDone
    BY <1>0, <2>4 DEF OwnerCheck, OwnersDone, SweepDone, Idle, Sweeping
  <2> QED
    BY <1>0, <2>1, <2>2, <2>3, <2>4 DEF JanitorWriters, Sweep
<1> SUFFICES ASSUME NEW a \in Attachments, Expected(a) PROVE Swept(a)'
  BY <1>1 DEF Sweeping
<1>2. Swept(a) /\ a # Nothing
  BY <1>0 DEF Sweeping
<1>3. ASSUME Old(a)
      PROVE  /\ Old(a)' /\ (age[a] = "day" => age'[a] = "day")
             /\ record[a] = "absent" => record'[a] = "absent"
             /\ record[a] \in {"Avatar", "absent"} => record'[a] \in {"Avatar", "absent"}
             /\ age[a] = "day" /\ record[a] \in {"Pending", "absent"}
                  => record'[a] \in {"Pending", "absent"}
             /\ Unused(a) => Unused(a)'
  <2>1. OwnerOf[a] \in Users
    BY ClientsAssumption
  <2> QED
    BY <1>3, <2>1, OldKept DEF Unused
<1>4. CASE ~Visited(a)' /\ a \notin orphans'
  BY <1>2, <1>4 DEF Swept, Visited
<1>5. ASSUME UNCHANGED sweep, Visited(a)' => Visited(a), a \in listed' => a \in listed,
             a \in orphans' => a \in orphans, a = target' => a = target
      PROVE  Swept(a)'
  BY <1>2, <1>3, <1>5 DEF Swept, Visited
<1>6. CASE UNCHANGED janitor
  BY <1>5, <1>6 DEF janitor, Visited
<1>7. CASE Crash
  BY <1>2, <1>4, <1>7 DEF Crash, Visited
<1>8. CASE ListStale
  <2>1. /\ sweep' = "stale" /\ target' = Nothing /\ orphans' = {}
        /\ a \in listed' => record[a] = "Pending" /\ age[a] = "day"
    BY <1>0, <1>8 DEF ListStale, Begin, Sweeping
  <2> QED
    BY <1>2, <1>3, <2>1 DEF Swept, Visited, Old
<1>9. CASE SweepRemove
  BY <1>2, <1>3, <1>5, <1>9 DEF SweepRemove, Visited, Swept
<1>10. CASE SweepDelete \/ BlobRemove
  BY <1>2, <1>5, <1>10 DEF SweepDelete, BlobRemove, Visited
<1>11. CASE ListBlobs
  <2>1. /\ sweep' \in {"rest", "blobs"} /\ target' = Nothing /\ orphans' = {}
        /\ sweep' = "rest" => listed' = {}
        /\ a \in listed' => blob[a] = "final" /\ age[a] # "new"
    BY <1>0, <1>11 DEF ListBlobs, Idle, Sweeping
  <2>2. a \in listed' => Old(a)
    BY <2>1 DEF IndInv, Files, TypeOK, Old, Ages
  <2> QED
    BY <1>2, <1>3, <2>1, <2>2 DEF Swept, Visited
<1>12. CASE BlobCheck
  <2>1. /\ sweep = "blobs" /\ UNCHANGED <<sweep, orphans>> /\ listed' \subseteq listed
        /\ a = target' => a \in listed /\ record[a] = "absent"
    BY <1>0, <1>2, <1>12 DEF BlobCheck
  <2> QED
    BY <1>2, <1>3, <2>1 DEF Swept, Visited
<1>13. CASE SweepTmp \/ SweepDone
  BY <1>0, <1>2, <1>4, <1>13 DEF SweepTmp, SweepDone, Idle, Sweeping, Visited
<1>14. CASE ListAvatars
  <2>1. /\ sweep' = "owners" /\ target' = Nothing /\ orphans' = {}
        /\ a \in listed' => record[a] = "Avatar" /\ age[a] # "new"
    BY <1>0, <1>14 DEF ListAvatars, Begin, Sweeping
  <2>2. a \in listed' => Old(a) /\ "avatar" \in UsesOf[a]
    BY <2>1 DEF IndInv, Files, Uses, TypeOK, Old, Ages
  <2> QED
    BY <1>2, <1>3, <2>1, <2>2 DEF Swept, Visited
<1>15. CASE OwnerCheck
  <2>1. /\ sweep = "owners" /\ UNCHANGED <<sweep, target>> /\ target = Nothing
        /\ listed' \subseteq listed
    BY <1>0, <1>15 DEF OwnerCheck, Sweeping
  <2>2. a \in orphans' => a \in orphans \/ (a \in listed /\ Unused(a))
    <3>1. "avatar" \in UsesOf[a] => "owner" \notin MayFail
      BY DEF Expected, AllExpected, ClaimsExpected
    <3>2. a \in listed => "avatar" \in UsesOf[a] /\ record[a] \in {"Avatar", "absent"}
      BY <1>2, <2>1 DEF Swept
    <3> QED
      BY <1>15, <3>1, <3>2 DEF OwnerCheck, Fault, Unused
  <2> QED
    BY <1>2, <1>3, <2>1, <2>2 DEF Swept, Visited
<1>16. CASE OwnersDone
  <2>1. sweep' = "avatars" /\ listed' = orphans /\ orphans' = {} /\ target' = Nothing
    BY <1>0, <1>16 DEF OwnersDone, Sweeping
  <2> QED
    BY <1>2, <1>3, <2>1 DEF Swept, Visited
<1> QED
  BY <1>0, <1>6, <1>7, <1>8, <1>9, <1>10, <1>11, <1>12, <1>13, <1>14, <1>15, <1>16
     DEF JanitorWriters, Sweep

-----------------------------------------------------------------------------
(* Messages and what is committed of them.                                 *)

\* A step of the janitor, or of time, moves no goroutine.
LEMMA SomebodyMoves ==
  ASSUME [Next]_vars
  PROVE  \/ \E w \in Workers : Request(w) \/ Step(w)
         \/ Crash
         \/ UNCHANGED <<call, memory, sent, hint, avatar>>
BY DEF Next, vars, Sweep, ListStale, SweepRemove, SweepDelete, ListBlobs, BlobCheck,
   BlobRemove, SweepTmp, ListAvatars, OwnerCheck, OwnersDone, SweepDone, Grow, disk

\* A message stays in its place; a new one is what was in a goroutine's hand.
LEMMA TimelineStep ==
  ASSUME Base, [Next]_vars, NEW c \in Convs, NEW n \in 1..Len(sent'[c])
  PROVE  \/ n \in 1..Len(sent[c]) /\ sent'[c][n] = sent[c][n]
         \/ /\ n = Len(sent[c]) + 1 /\ hint' = hint
            /\ \E w \in Workers : /\ PutMessage(w) /\ place[w] = c /\ item[w] \in Attachments
                                  /\ sent'[c][n] = item[w]
                                  /\ pc'[w] = "commit" /\ place'[w] = c /\ cursor'[w] = n
                                  /\ item'[w] = item[w]
<1>0. TypeOK /\ Control /\ Writers
  BY EveryStep DEF Base
<1>1. CASE sent'[c] = sent[c]
  BY <1>1
<1>2. ASSUME NEW w \in Workers, PutMessage(w), sent'[c] # sent[c]
      PROVE  /\ place[w] = c /\ item[w] \in Attachments /\ hint' = hint
             /\ sent'[c] = Append(sent[c], item[w])
             /\ pc'[w] = "commit" /\ place'[w] = c /\ cursor'[w] = Len(sent[c]) + 1
             /\ item'[w] = item[w]
  <2>1. Hands(w)
    BY <1>0 DEF Control
  <2>2. place[w] = c /\ item[w] \in Attachments
    BY <1>0, <1>2, <2>1 DEF PutMessage, Hands, TypeOK
  <2> QED
    BY <1>0, <1>2, <2>2 DEF PutMessage, TypeOK, Goto
<1>3. CASE sent'[c] # sent[c]
  <2>1. PICK w \in Workers : PutMessage(w)
    BY <1>0, <1>3 DEF Writers, TimelineWriters
  <2>2. sent[c] \in Seq(Attachments) /\ item[w] \in Attachments /\ sent'[c] = Append(sent[c], item[w])
    BY <1>0, <1>2, <1>3, <2>1 DEF TypeOK
  <2>3. /\ Len(sent'[c]) = Len(sent[c]) + 1 /\ Len(sent[c]) \in Nat
        /\ \A m \in 1..Len(sent[c]) : sent'[c][m] = sent[c][m]
        /\ sent'[c][Len(sent[c]) + 1] = item[w]
    BY <2>2
  <2> QED
    BY <1>2, <1>3, <2>1, <2>2, <2>3
<1> QED
  BY <1>1, <1>3

\* What is settled stays so.
LEMMA SettledKept ==
  ASSUME IndInv, [Next]_vars, NEW c \in Convs, NEW n \in 1..Len(sent[c])
  PROVE  /\ n \in 1..Len(sent'[c]) /\ sent'[c][n] = sent[c][n] /\ sent[c][n] \in Attachments
         /\ Reference(c, n)'
         /\ Settled(c, n) => Settled(c, n)'
<1>0. TypeOK /\ sent[c] \in Seq(Attachments) /\ sent'[c] \in Seq(Attachments)
  BY TypesKept DEF IndInv, Base, TypeOK
<1>1. n \in 1..Len(sent'[c]) /\ sent'[c][n] = sent[c][n]
  <2>1. CASE sent'[c] = sent[c]
    BY <2>1
  <2>2. CASE sent'[c] # sent[c]
    <3>1. PICK w \in Workers : PutMessage(w)
      BY <2>2, EveryStep DEF Writers, TimelineWriters
    <3>2. item[w] \in Attachments /\ sent'[c] = Append(sent[c], item[w])
      BY <1>0, <2>2, <3>1 DEF PutMessage, TypeOK, IndInv, Control, Hands
    <3> QED
      BY <1>0, <3>2
  <2> QED
    BY <2>1, <2>2
<1>2. PICK a \in Attachments : a = sent[c][n]
  BY <1>0
<1>3. CASE Expected(a)
  <2>1. Reference(c, n)
    BY DEF IndInv, References
  <2>2. /\ record'[a] \in {record[a], "Committed"} /\ blob'[a] = "final"
        /\ record'[a] = "Pending" => age'[a] # "day"
    BY <1>2, <1>3, ReferenceKept
  <2> QED
    BY <1>1, <1>2, <1>3, <2>1, <2>2 DEF Reference, Settled
<1>4. CASE ~Expected(a)
  BY <1>1, <1>2, <1>4 DEF Reference, Settled
<1> QED
  BY <1>3, <1>4

\* The goroutine at the record of a message has seen it Committed, or puts it so.
LEMMA Commits ==
  ASSUME IndInv, [Next]_vars, NEW w \in Workers, CommitGet(w) \/ CommitPut(w), pc'[w] # "write",
         Expected(Referred(w))
  PROVE  /\ record'[Referred(w)] = "Committed"
         /\ CommitNext(w) /\ UNCHANGED <<mu, item, place, loaded, sent, hint>>
<1>1. pc[w] \in {"commit", "write"}
  BY DEF CommitGet, CommitPut
<1>2. PICK c \in Convs, n \in Nat : place[w] = c /\ cursor[w] = n
  BY <1>1, InHandIsReferred
<1>3. /\ n \in 1..Len(sent[c]) /\ Reference(c, n)
      /\ Referred(w) = sent[c][n] /\ Referred(w) \in Attachments
      /\ "commit" \notin MayFail
  BY <1>1, <1>2, InHandIsReferred DEF Expected, AllExpected, SendsExpected
<1>4. UNCHANGED <<sent, hint, loaded>>
  BY DEF CommitGet, CommitPut, disk
<1>5. CASE CommitGet(w)
  <2>1. /\ record[Referred(w)] = "Committed" /\ CommitNext(w) /\ UNCHANGED <<mu, item, place>>
    BY <1>3, <1>5 DEF CommitGet, Fault, Reference, Goto, IndInv, TypeOK
  <2>2. record'[Referred(w)] = "Committed"
    BY <1>3, <2>1, ReferenceKept
  <2> QED
    BY <1>4, <2>1, <2>2
<1>6. CASE CommitPut(w)
  <2>1. record'[Referred(w)] = "Committed" /\ CommitNext(w) /\ UNCHANGED <<mu, item, place>>
    BY <1>3, <1>6 DEF CommitPut, Fault, IndInv, TypeOK
  <2> QED
    BY <1>4, <2>1
<1> QED
  BY <1>5, <1>6

LEMMA ScannedKept == IndInv /\ [Next]_vars => Scanned'
<1> DEFINE Done(v) ==
      /\ pc'[v] \in {"recover", "commit", "write"} /\ ~loaded'[place'[v]]
           => \A n \in 1..(cursor'[v] - 1) : Settled(place[v], n)'
      /\ pc'[v] = "hint"
           => \A n \in 1..Len(sent'[place'[v]]) : Settled(place[v], n)'
<1> SUFFICES ASSUME IndInv, [Next]_vars, NEW v \in Workers
             PROVE  Done(v)
  BY DEF Scanned
<1> USE DEF Sending
<1>0. /\ TypeOK /\ Control /\ References /\ Scanned /\ Hands(v) /\ Scans(v)
      /\ Base /\ Writers /\ CallTyped
  BY EveryStep DEF IndInv, Base, Control, TypeOK, CallTyped
<1>1. ASSUME NEW c \in Convs, NEW n \in 1..Len(sent[c]), Settled(c, n), place'[v] = c
      PROVE  Settled(place[v], n)'
  <2>1. Settled(c, n)'
    BY <1>1, SettledKept
  <2> QED
    BY <1>1, <2>1 DEF Settled
<1>2. ASSUME pc[v] = pc'[v] \/ (pc[v] \in {"recover", "commit"} /\ pc'[v] \in {"commit", "write"}),
             place'[v] = place[v], cursor'[v] = cursor[v],
             pc[v] \in Sending \ {"lock"}
               => loaded'[place[v]] = loaded[place[v]] /\ sent'[place[v]] = sent[place[v]]
      PROVE  Done(v)
  <2>1. CASE pc'[v] \in {"recover", "commit", "write"} /\ ~loaded'[place'[v]]
    <3>1. /\ place[v] \in Convs /\ cursor[v] \in 1..(Len(sent[place[v]]) + 1)
          /\ \A n \in 1..(cursor[v] - 1) : Settled(place[v], n)
      BY <1>0, <1>2, <2>1 DEF Scanned, Hands, Scans, TypeOK
    <3>2. Len(sent[place[v]]) \in Nat /\ cursor[v] \in Nat
      BY <1>0, <3>1 DEF TypeOK
    <3>3. ASSUME NEW n \in 1..(cursor[v] - 1)
          PROVE  Settled(place[v], n)'
      <4>1. n \in 1..Len(sent[place[v]])
        BY <3>1, <3>2
      <4> QED
        BY <1>1, <1>2, <3>1, <4>1
    <3> QED
      BY <1>2, <2>1, <3>3
  <2>2. CASE pc'[v] = "hint"
    <3>1. /\ place[v] \in Convs /\ sent'[place[v]] = sent[place[v]]
          /\ \A n \in 1..Len(sent[place[v]]) : Settled(place[v], n)
      BY <1>0, <1>2, <2>2 DEF Scanned, Hands
    <3> QED
      BY <1>1, <1>2, <2>2, <3>1
  <2> QED
    BY <2>1, <2>2
<1>3. ASSUME pc'[v] \notin {"recover", "commit", "write", "hint"}
      PROVE  Done(v)
  BY <1>3
<1>4. CASE Crash
  BY <1>3, <1>4 DEF Crash
<1>5. CASE UNCHANGED <<call, memory, sent>>
  BY <1>2, <1>5 DEF call, memory
<1>6. ASSUME NEW w \in Workers \ {v}, Request(w) \/ Step(w)
      PROVE  Done(v)
  <2>1. pc'[v] = pc[v] /\ place'[v] = place[v] /\ cursor'[v] = cursor[v]
    BY <1>0, <1>6, CallStep DEF Others
  <2>2. pc[v] \in Sending \ {"lock"}
          => loaded'[place[v]] = loaded[place[v]] /\ sent'[place[v]] = sent[place[v]]
    BY <1>0, <1>6, OthersWait
  <2> QED
    BY <1>2, <2>1, <2>2
<1>7. CASE Lock(v)
  <2>1. CASE pc'[v] = "recover"
    <3>1. PICK c \in Convs : place[v] = c
      BY <1>0, <1>7 DEF Lock, Hands
    <3>2. place'[v] = c /\ cursor'[v] = hint[c] + 1 /\ hint[c] \in 0..Len(sent[c])
      BY <1>0, <1>7, <2>1, <3>1 DEF Lock, TypeOK, CallTyped, Goto
    <3>3. Len(sent[c]) \in Nat
      BY <1>0 DEF TypeOK
    <3>4. ASSUME NEW n \in 1..hint[c]
          PROVE  Settled(place[v], n)'
      <4>1. n \in 1..Len(sent[c]) /\ Settled(c, n)
        BY <1>0, <3>2, <3>3 DEF References
      <4> QED
        BY <1>1, <3>2, <4>1
    <3>5. hint[c] + 1 - 1 = hint[c]
      BY <3>2, <3>3
    <3> QED
      BY <2>1, <3>2, <3>4, <3>5
  <2>2. CASE pc'[v] # "recover"
    BY <1>0, <1>3, <1>7, <2>2 DEF Lock, CallTyped, Goto
  <2> QED
    BY <2>1, <2>2
<1>8. CASE Recover(v)
  <2>1. CASE pc'[v] = "commit"
    BY <1>0, <1>2, <1>8, <2>1 DEF Recover, Unlock, Return, Goto, CallTyped, disk
  <2>2. CASE pc'[v] # "commit"
    BY <1>0, <1>3, <1>8, <2>2 DEF Recover, Unlock, Return, Goto, CallTyped
  <2> QED
    BY <2>1, <2>2
<1>9. CASE PutMessage(v)
  <2>1. pc'[v] = "idle" \/ (pc'[v] = "commit" /\ place'[v] = place[v] /\ loaded'[place[v]])
    BY <1>0, <1>9 DEF PutMessage, Unlock, Return, Goto, CallTyped, Scans
  <2> QED
    BY <1>3, <2>1
<1>10. CASE CommitGet(v) \/ CommitPut(v)
  <2>1. CASE pc'[v] = "write"
    <3>1. CommitGet(v)
      BY <1>0, <1>10, <2>1, Zenon DEF CommitPut, CommitNext, Unlock, Return, Goto, CallTyped
    <3>2. pc[v] = "commit" /\ UNCHANGED <<place, loaded, sent>> /\ cursor'[v] = cursor[v]
      BY <1>0, <2>1, <3>1 DEF CommitGet, CommitNext, Unlock, Return, Goto, CallTyped, disk
    <3> QED
      BY <1>2, <2>1, <3>2
  <2>2. CASE pc'[v] \notin {"write", "idle"}
    <3>1. PICK c \in Convs, k \in Nat : place[v] = c /\ cursor[v] = k
      BY <1>0, <1>10 DEF CommitGet, CommitPut, Hands, CallTyped
    <3>2. pc[v] \in {"commit", "write"} /\ k \in 1..Len(sent[c])
      BY <1>0, <1>10, <3>1 DEF CommitGet, CommitPut, Scans
    <3>3. CommitNext(v) /\ UNCHANGED <<place, loaded, sent>>
      BY <1>0, <1>10, <2>2, ZenonT(40)
         DEF CommitGet, CommitPut, Unlock, Return, Goto, CallTyped, disk
    <3>6. Settled(place[v], k)'
      <4>1. Referred(v) = sent[c][k] /\ (Expected(Referred(v)) => record'[Referred(v)] = "Committed")
        BY <1>10, <2>2, <3>1, Commits DEF Referred
      <4> QED
        BY <3>1, <3>3, <4>1 DEF Settled
    <3>4. CASE loaded[c]
      <4>1. pc'[v] = "hint" /\ sent'[place'[v]] = sent[c]
        BY <1>0, <3>1, <3>3, <3>4 DEF CommitNext, Goto, CallTyped
      <4>2. ASSUME NEW n \in 1..Len(sent[c])
            PROVE  Settled(place[v], n)'
        <5>1. CASE Settled(c, n)
          BY <1>1, <3>1, <3>3, <5>1
        <5>2. ASSUME NEW x \in Workers, Committing(x, c, n)
              PROVE  Settled(place[v], n)'
          <6>1. Scans(x)
            BY <1>0 DEF Control
          <6>2. mu[c] = x /\ mu[c] = v /\ cursor[x] = n
            BY <1>0, <3>1, <3>2, <5>2, <6>1 DEF Committing, Scans
          <6> QED
            BY <3>1, <3>6, <6>2
        <5> QED
          BY <1>0, <3>4, <5>1, <5>2 DEF References
      <4> QED
        BY <4>1, <4>2
    <3>5. CASE ~loaded[c]
      <4>1. pc'[v] = "recover" /\ cursor'[v] = k + 1 /\ place'[v] = c
        BY <1>0, <3>1, <3>3, <3>5 DEF CommitNext, Goto, CallTyped
      <4>2. \A n \in 1..(k - 1) : Settled(c, n)
        BY <1>0, <3>1, <3>2, <3>5 DEF Scanned
      <4>3. ASSUME NEW n \in 1..k
            PROVE  Settled(place[v], n)'
        <5>1. Len(sent[c]) \in Nat /\ n \in 1..Len(sent[c]) /\ (n = k \/ n \in 1..(k - 1))
          BY <1>0, <3>2 DEF TypeOK
        <5> QED
          BY <1>1, <3>6, <4>1, <4>2, <5>1
      <4>4. k + 1 - 1 = k
        OBVIOUS
      <4> QED
        BY <4>1, <4>3, <4>4
    <3> QED
      BY <3>4, <3>5
  <2> QED
    BY <1>3, <2>1, <2>2
<1>11. CASE Request(v) \/ Save(v) \/ Create(v) \/ Discard(v)
  BY <1>0, <1>3, <1>11 DEF Request, Upload, Call, Patch, Save, Create, Discard, Return, Goto, CallTyped
<1>12. CASE Validate(v) \/ PutHint(v)
  BY <1>0, <1>3, <1>12 DEF Validate, PutHint, Unlock, Return, Goto, CallTyped
<1>13. CASE Check(v) \/ Claim(v) \/ Update(v) \/ Reclaim(v) \/ Erase(v)
  BY <1>0, <1>3, <1>13 DEF Check, Claim, Update, Reclaim, Erase, Return, Goto, CallTyped
<1>14. CASE Request(v) \/ Step(v)
  BY <1>7, <1>8, <1>9, <1>10, <1>11, <1>12, <1>13, <1>14 DEF Step
<1> QED
  BY <1>4, <1>5, <1>6, <1>14, SomebodyMoves

\* What a send has in hand when it puts the message is still there.
LEMMA NewReference ==
  ASSUME IndInv, NEW w \in Workers, PutMessage(w), NEW a \in Attachments, item[w] = a, Expected(a)
  PROVE  /\ blob'[a] = "final"
         /\ record'[a] = "Committed" \/ (record'[a] = "Pending" /\ age'[a] # "day")
<1>1. "avatar" \notin UsesOf[a] /\ age[a] # "day" /\ record[a] # "absent"
  BY HandOf DEF PutMessage, InRequest, Sendable, Sending
<1>2. record[a] \in {"Pending", "Committed", "Avatar"}
  BY <1>1 DEF IndInv, TypeOK, States
<1>3. record[a] \in {"Pending", "Committed"} /\ blob[a] = "final"
  BY <1>1, <1>2 DEF IndInv, Uses, Files
<1> QED
  BY <1>1, <1>3 DEF PutMessage

LEMMA ReferencesKept == IndInv /\ [Next]_vars => References'
<1> SUFFICES ASSUME IndInv, [Next]_vars, NEW c \in Convs, NEW n \in 1..Len(sent'[c])
             PROVE  /\ Reference(c, n)'
                    /\ n <= hint'[c] => Settled(c, n)'
                    /\ loaded'[c] => Settled(c, n)' \/ \E w \in Workers : Committing(w, c, n)'
  BY DEF References
<1>0. /\ TypeOK /\ Control /\ References /\ Scanned /\ Base /\ Writers
      /\ Len(sent[c]) \in Nat /\ hint[c] \in 0..Len(sent[c])
  BY EveryStep DEF IndInv, Base, TypeOK
<1>1. CASE n \in 1..Len(sent[c]) /\ sent'[c][n] = sent[c][n]
  <2>1. Reference(c, n)' /\ (Settled(c, n) => Settled(c, n)')
    BY <1>1, SettledKept
  <2>2. n <= hint'[c] => Settled(c, n)'
    <3>1. CASE hint'[c] = hint[c]
      BY <1>0, <1>1, <2>1, <3>1 DEF References
    <3>2. CASE hint'[c] # hint[c]
      <4>1. PICK w \in Workers : PutHint(w)
        BY <1>0, <3>2 DEF Writers, TimelineWriters
      <4>2. pc[w] = "hint" /\ place[w] = c
        BY <1>0, <3>2, <4>1 DEF PutHint, Control, Hands, Sending, TypeOK
      <4> QED
        BY <1>0, <1>1, <2>1, <4>2 DEF Scanned
    <3> QED
      BY <3>1, <3>2
  <2>3. ASSUME loaded'[c], ~Settled(c, n)
        PROVE  Settled(c, n)' \/ \E w \in Workers : Committing(w, c, n)'
    <3>1. loaded[c]
      <4>1. CASE loaded' = loaded
        BY <2>3, <4>1
      <4>2. CASE Crash
        BY <2>3, <4>2 DEF Crash
      <4>3. ASSUME NEW w \in Workers, Recover(w), ~loaded[c]
            PROVE  FALSE
        <5>1. Hands(w) /\ Scans(w)
          BY <1>0 DEF Control
        <5>2. /\ pc[w] = "recover" /\ place[w] = c /\ cursor[w] > Len(sent[c])
              /\ cursor[w] \in 1..(Len(sent[c]) + 1)
          BY <1>0, <2>3, <4>3, <5>1 DEF Recover, Hands, Scans, Sending, TypeOK
        <5>3. \A m \in 1..(cursor[w] - 1) : Settled(c, m)
          BY <1>0, <4>3, <5>2 DEF Scanned
        <5> QED
          BY <1>0, <1>1, <2>3, <5>2, <5>3
      <4> QED
        BY <1>0, <4>1, <4>2, <4>3 DEF Writers, MemoryWriters
    <3>2. PICK x \in Workers : Committing(x, c, n)
      BY <1>0, <1>1, <2>3, <3>1 DEF References
    <3>3. CASE Crash
      BY <2>3, <3>3 DEF Crash
    <3>4. ASSUME pc'[x] \in {"commit", "write"},
                 place'[x] = place[x], cursor'[x] = cursor[x], item'[x] = item[x]
          PROVE  Committing(x, c, n)'
      BY <1>1, <3>2, <3>4 DEF Committing
    <3>5. ASSUME NEW w \in Workers \ {x}, Request(w) \/ Step(w)
          PROVE  Committing(x, c, n)'
      BY <1>0, <3>2, <3>4, <3>5, CallStep DEF Others, Committing
    <3>6. ASSUME Request(x) \/ Step(x)
          PROVE  Settled(c, n)' \/ Committing(x, c, n)'
      <4>1. CommitGet(x) \/ CommitPut(x)
        BY <3>2, <3>6 DEF Committing, Request, Step, Upload, Call, Patch, Save, Create, Discard,
           Lock, Recover, Validate, PutMessage, PutHint, Check, Claim, Update, Reclaim, Erase
      <4>2. CASE pc'[x] = "write"
        <5>1. CommitGet(x)
          BY <1>0, <4>1, <4>2, Zenon
             DEF CommitPut, CommitNext, Unlock, Return, Goto, TypeOK
        <5>2. place' = place /\ item' = item /\ cursor'[x] = cursor[x]
          BY <1>0, <4>2, <5>1 DEF CommitGet, CommitNext, Unlock, Return, Goto, TypeOK
        <5> QED
          BY <3>4, <4>2, <5>2
      <4>3. CASE pc'[x] # "write"
        BY <1>1, <3>2, <4>1, <4>3, Commits DEF Committing, Referred, Settled
      <4> QED
        BY <4>2, <4>3
    <3>7. CASE UNCHANGED call
      BY <3>2, <3>4, <3>7 DEF Committing, call
    <3> QED
      BY <3>3, <3>5, <3>6, <3>7, SomebodyMoves
  <2> QED
    BY <2>1, <2>2, <2>3
<1>2. ASSUME n = Len(sent[c]) + 1, hint' = hint,
             NEW w \in Workers, PutMessage(w), item[w] \in Attachments, sent'[c][n] = item[w],
             pc'[w] = "commit", place'[w] = c, cursor'[w] = n, item'[w] = item[w]
      PROVE  /\ Reference(c, n)'
             /\ n <= hint'[c] => Settled(c, n)'
             /\ loaded'[c] => Settled(c, n)' \/ \E x \in Workers : Committing(x, c, n)'
  <2>1. Reference(c, n)'
    <3>1. PICK a \in Attachments : item[w] = a /\ sent'[c][n] = a
      BY <1>2
    <3>2. Expected(a) => /\ blob'[a] = "final"
                         /\ record'[a] = "Committed" \/ (record'[a] = "Pending" /\ age'[a] # "day")
      BY <1>2, <3>1, NewReference
    <3> QED
      BY <3>1, <3>2 DEF Reference
  <2>2. ~(n <= hint'[c])
    BY <1>0, <1>2
  <2>3. Committing(w, c, n)'
    BY <1>2 DEF Committing
  <2> QED
    BY <2>1, <2>2, <2>3
<1> QED
  BY <1>0, <1>1, <1>2, TimelineStep

-----------------------------------------------------------------------------
(* Requests.                                                               *)

\* No attachment grows older in a request.
LEMMA HeldAge ==
  ASSUME IndInv, [Next]_vars, NEW w \in Workers, NEW a \in Attachments, item[w] = a,
         Expected(a)
  PROVE  age'[a] = age[a]
BY HandOf, Moving DEF IndInv, Base, InRequest, AgeMoves, InHand

\* How a goroutine comes by an attachment.
LEMMA NewHand ==
  ASSUME IndInv, [Next]_vars, NEW w \in Workers, NEW a \in Attachments, Expected(a),
         item'[w] = a, item[w] # a
  PROVE  \/ pc'[w] = "save" /\ age[a] = "unborn"
         \/ pc'[w] = "lock" /\ \A v \in Workers : item[v] = a => place[v] # Nothing
         \/ pc'[w] = "check" /\ \A v \in Workers : item[v] # a
         \/ pc'[w] = "reclaim" /\ \E u \in Users : avatar[u] = a
<1>0. CallTyped /\ Base /\ Hands(w) /\ Nothing \notin Attachments
  BY NamesAssumption DEF IndInv, Base, Control, TypeOK, CallTyped
<1>1. CASE UNCHANGED call \/ Crash
  BY <1>0, <1>1 DEF call, Crash
<1>2. ASSUME NEW v \in Workers \ {w}, Request(v) \/ Step(v)
      PROVE  FALSE
  BY <1>0, <1>2, CallStep DEF Others
<1>3. ASSUME NEW b \in Attachments, Upload(w, b)
      PROVE  pc'[w] = "save" /\ age[a] = "unborn"
  BY <1>0, <1>3 DEF Upload, Goto, CallTyped
<1>4. ASSUME NEW c \in Convs, NEW b \in Attachments \cup {Nothing}, Call(w, c, b)
      PROVE  pc'[w] = "lock" /\ \A v \in Workers : item[v] = a => place[v] # Nothing
  BY <1>0, <1>4 DEF Call, Goto, CallTyped
<1>5. ASSUME NEW u \in Users, NEW b \in Attachments \cup {Nothing}, Patch(w, u, b)
      PROVE  pc'[w] = "check" /\ \A v \in Workers : item[v] # a
  BY <1>0, <1>5 DEF Patch, Goto, CallTyped, Expected, AllExpected, ClaimsExpected
<1>6. CASE Update(w)
  <2>1. place[w] \in Users
    BY <1>0, <1>6 DEF Update, Hands, Patching, Claiming
  <2> QED
    BY <1>0, <1>6, <2>1 DEF Update, Return, Goto, CallTyped
<1>7. ASSUME Return(w) \/ UNCHANGED item
      PROVE  FALSE
  BY <1>0, <1>7 DEF Return, CallTyped
<1>8. ASSUME Step(w), ~Update(w)
      PROVE  FALSE
  BY <1>7, <1>8 DEF Step, Save, Create, Discard, Lock, Recover, Validate, PutMessage, CommitGet,
     CommitPut, PutHint, Check, Claim, Reclaim, Erase, Unlock, call
<1>9. CASE Request(w)
  BY <1>3, <1>4, <1>5, <1>9 DEF Request
<1> QED
  BY <1>1, <1>2, <1>6, <1>8, <1>9, SomebodyMoves

\* How a goroutine comes to claim an attachment.
LEMMA NewClaim ==
  ASSUME IndInv, [Next]_vars, NEW w \in Workers, NEW a \in Attachments, Expected(a),
         item'[w] = a, pc'[w] \in Claiming
  PROVE  \/ /\ item[w] = a /\ pc[w] \in Claiming
            /\ \/ pc'[w] = pc[w]
               \/ pc[w] = "check" /\ pc'[w] = "claim" /\ record[a] = "Pending"
               \/ pc[w] = "claim" /\ pc'[w] = "update"
         \/ pc'[w] = "check" /\ \A v \in Workers : item[v] # a
<1> USE DEF Claiming
<1>0. CallTyped /\ Base /\ Hands(w) /\ Nothing \notin Attachments
  BY NamesAssumption DEF IndInv, Base, Control, TypeOK, CallTyped
<1>1. CASE item[w] # a
  BY <1>1, NewHand
<1>2. CASE item[w] = a /\ pc'[w] = pc[w]
  BY <1>2
<1>3. CASE item[w] = a /\ pc'[w] # pc[w]
  <2>1. Step(w)
    <3>1. ~(UNCHANGED call \/ Crash)
      BY <1>0, <1>3 DEF call, Crash
    <3>2. ~\E v \in Workers \ {w} : Request(v) \/ Step(v)
      BY <1>0, <1>3, CallStep DEF Others
    <3>3. ~Request(w)
      BY <1>0, <1>3 DEF Request, Upload, Call, Patch, Hands
    <3> QED
      BY <3>1, <3>2, <3>3, SomebodyMoves
  <2>2. CASE Check(w) \/ Claim(w)
    BY <1>0, <1>3, <2>2 DEF Check, Claim, Return, Goto, CallTyped
  <2>3. CASE Save(w) \/ Create(w) \/ Discard(w) \/ Update(w) \/ Reclaim(w) \/ Erase(w)
    BY <1>0, <2>3 DEF Save, Create, Discard, Update, Reclaim, Erase, Return, Goto, CallTyped
  <2>4. CASE Lock(w) \/ Recover(w) \/ Validate(w) \/ PutMessage(w)
    BY <1>0, <2>4 DEF Lock, Recover, Validate, PutMessage, Unlock, Return, Goto, CallTyped
  <2>5. CASE CommitGet(w) \/ CommitPut(w) \/ PutHint(w)
    BY <1>0, <2>5 DEF CommitGet, CommitPut, CommitNext, PutHint, Unlock, Return, Goto, CallTyped
  <2> QED
    BY <2>1, <2>2, <2>3, <2>4, <2>5 DEF Step
<1> QED
  BY <1>1, <1>2, <1>3

\* A profile gets a new avatar from the goroutine that claimed it.
LEMMA NewAvatar ==
  ASSUME IndInv, [Next]_vars, NEW u \in Users, NEW a \in Attachments,
         avatar'[u] = a, avatar[u] # a
  PROVE  \E w \in Workers : pc[w] = "update" /\ pc'[w] # "update" /\ item[w] = a
<1>1. PICK w \in Workers : Update(w)
  BY EveryStep DEF Writers, AvatarWriters
<1> QED
  BY <1>1 DEF Update, Return, Goto, IndInv, TypeOK

\* A goroutine that does not move has what it had, as it was.
LEMMA BystanderKept ==
  ASSUME IndInv, [Next]_vars, NEW v \in Workers, NEW a \in Attachments, item[v] = a, Expected(a),
         pc'[v] = pc[v], item'[v] = item[v], place'[v] = place[v]
  PROVE  InRequest(v)'
<1> USE DEF Uploading, Claiming
<1>0. /\ InRequest(v) /\ Hands(v) /\ Files
      /\ RecordMoves(a) /\ BlobMoves(a) /\ age'[a] = age[a] /\ age[a] # "unborn"
  BY HandOf, HeldAge, Moving DEF IndInv, Base, InRequest
<1>1. \A w \in Workers : pc[w] = "write" /\ Referred(w) = a
        => record[a] \in {"Pending", "Committed"} /\ "message" \in UsesOf[a]
  BY InHandIsReferred DEF Reference
<1>2. Uploaded(v, a)'
  <2>1. CASE pc[v] \in Uploading
    <3>1. /\ age[a] = "new" /\ record[a] = "absent" /\ place[v] = Nothing
          /\ blob[a] = IF pc[v] = "save" THEN "tmp" ELSE "final"
          /\ \A w \in Workers : item[w] = a => w = v
      BY <1>0, <2>1 DEF InRequest, Uploaded, Hands
    <3>2. \A w \in Workers : item[w] = a => pc'[w] = pc[w]
      BY <3>1
    <3>3. ~(a \in listed \/ target = a)
      BY <3>1, SweptIs DEF Old
    <3>4. record'[a] = "absent"
      BY <1>0, <1>1, <2>1, <3>1, <3>2 DEF RecordMoves
    <3>5. blob'[a] = blob[a]
      BY <1>0, <2>1, <3>1, <3>2, <3>3 DEF BlobMoves
    <3>6. ASSUME NEW w \in Workers, item'[w] = a, w # v
          PROVE  FALSE
      <4>1. item[w] # a
        BY <3>1, <3>6
      <4>2. \A u \in Users : avatar[u] # a
        BY <3>1, NamesAssumption DEF IndInv, Wardrobe, Worn
      <4> QED
        BY <3>1, <3>6, <4>1, <4>2, NewHand
    <3> QED
      BY <1>0, <3>1, <3>4, <3>5, <3>6 DEF Uploaded
  <2> QED
    BY <2>1 DEF Uploaded
<1>3. Sendable(v, a)'
  <2>1. CASE pc[v] \in Sending
    <3>1. "message" \in UsesOf[a] /\ "avatar" \notin UsesOf[a] /\ age[a] # "day"
          /\ (pc[v] = "put" => record[a] # "absent")
      BY <1>0, <2>1, HandOf DEF InRequest, Sendable
    <3>2. pc[v] = "put" => record'[a] # "absent"
      <4>1. \A w \in Workers : item[w] = a => pc[w] # "erase"
        BY <3>1, HandOf DEF Patching
      <4>2. sweep \in {"stale", "avatars"} /\ target = a => record[a] = "absent"
        BY <3>1, SweptIs DEF Unused
      <4> QED
        BY <1>0, <3>1, <4>1, <4>2 DEF RecordMoves
    <3> QED
      BY <1>0, <3>1, <3>2 DEF Sendable
  <2> QED
    BY <2>1 DEF Sendable
<1>4. Claimed(v, a)'
  <2>1. CASE pc[v] \in Claiming
    <3>1. /\ "avatar" \in UsesOf[a] /\ "message" \notin UsesOf[a]
          /\ OwnerOf[a] = place[v] /\ age[a] = "new"
          /\ \A w \in Workers : item[w] = a /\ pc[w] \in Claiming => w = v
          /\ pc[v] = "claim" => record[a] = "Pending"
          /\ pc[v] = "update" => Worn(place[v], a) /\ avatar[place[v]] # a
      BY <1>0, <2>1, HandOf DEF InRequest, Claimed, Patching
    <3>2. \A w \in Workers : item'[w] = a /\ pc'[w] \in Claiming => w = v
      BY <3>1, NewClaim
    <3>3. pc[v] = "claim" => record'[a] = "Pending"
      <4>1. ~(a \in listed \/ target = a)
        BY <3>1, SweptIs DEF Old
      <4>2. \A w \in Workers : item[w] = a /\ pc[w] = "erase" => pc[v] # "claim"
        BY HandOf DEF InRequest, Replaced
      <4>3. \A w \in Workers : item[w] = a /\ pc[w] = "claim" => pc'[w] = "claim"
        BY <3>1
      <4> QED
        BY <1>0, <1>1, <3>1, <4>1, <4>2, <4>3 DEF RecordMoves
    <3>4. CASE pc[v] = "update"
      <4>1. place[v] \in Users
        BY <1>0, <3>4 DEF Hands, Patching
      <4>2. Worn(place[v], a)'
        BY <3>1, <3>4, <4>1, WornKept DEF Worn
      <4>3. avatar'[place[v]] # a
        BY <3>1, <3>4, <4>1, NewAvatar
      <4> QED
        BY <1>0, <3>1, <3>2, <3>4, <4>2, <4>3 DEF Claimed
    <3> QED
      BY <1>0, <3>1, <3>2, <3>3, <3>4 DEF Claimed
  <2> QED
    BY <2>1 DEF Claimed
<1>5. Replaced(v, a)'
  <2>1. CASE pc[v] \in {"reclaim", "erase"}
    <3>1. /\ OwnerOf[a] = place[v]
          /\ record[a] \in {"Avatar", "absent"} /\ avatar[OwnerOf[a]] # a
          /\ \A w \in Workers : item[w] = a => pc[w] \notin {"claim", "update"}
      BY <1>0, <2>1 DEF InRequest, Replaced
    <3>2. record'[a] \in {"Avatar", "absent"}
      <4>1. \A w \in Workers : item[w] = a => pc[w] # "create"
        BY <2>1, HandOf DEF InRequest, Uploaded
      <4> QED
        BY <1>0, <1>1, <3>1, <4>1 DEF RecordMoves
    <3>3. avatar'[OwnerOf[a]] # a
      BY <3>1, NewAvatar, ClientsAssumption
    <3>4. \A w \in Workers : item'[w] = a => pc'[w] \notin {"claim", "update"}
      BY <3>1, NewClaim
    <3> QED
      BY <1>0, <3>1, <3>2, <3>3, <3>4 DEF Replaced
  <2> QED
    BY <2>1 DEF Replaced
<1> QED
  BY <1>0, <1>2, <1>3, <1>4, <1>5 DEF InRequest

\* So has the goroutine that moves, from step to step of its request.
LEMMA MoverKept ==
  ASSUME IndInv, [Next]_vars, NEW w \in Workers, Request(w) \/ Step(w),
         NEW a \in Attachments, item'[w] = a, Expected(a)
  PROVE  InRequest(w)'
<1> USE DEF Uploading, Sending, Claiming, disk, memory, janitor
<1>0. /\ CallTyped /\ TypeOK /\ Files /\ Wardrobe /\ Hands(w) /\ Nothing \notin Attachments
      /\ Others(w)
      /\ item[w] = a => InRequest(w) /\ age'[a] = age[a]
  BY NamesAssumption, CallStep, HandOf, HeldAge
     DEF IndInv, Base, Control, TypeOK, CallTyped
<1>1. ASSUME NEW b \in Attachments, Upload(w, b)
      PROVE  InRequest(w)'
  <2>1. b = a /\ pc'[w] = "save" /\ age[a] = "unborn"
    BY <1>0, <1>1 DEF Upload, Goto, CallTyped
  <2>2. blob'[a] = "tmp" /\ age'[a] = "new" /\ record'[a] = "absent"
    BY <1>0, <1>1, <2>1 DEF Upload, TypeOK, Files
  <2>3. \A v \in Workers : item'[v] = a => v = w
    BY <1>0, <2>1, HandOf DEF Others, InRequest
  <2> QED
    BY <1>0, <2>1, <2>2, <2>3 DEF InRequest, Uploaded, Sendable, Claimed, Replaced
<1>2. ASSUME NEW c \in Convs, NEW b \in Attachments \cup {Nothing}, Call(w, c, b)
      PROVE  InRequest(w)'
  <2>1. /\ pc'[w] = "lock" /\ age[a] \in {"new", "hour"}
        /\ age'[a] = age[a]
    BY <1>0, <1>2 DEF Call, Goto, CallTyped, Expected, AllExpected, SendsExpected
  <2> QED
    BY <1>0, <2>1 DEF InRequest, Uploaded, Sendable, Claimed, Replaced
<1>3. ASSUME NEW u \in Users, NEW b \in Attachments \cup {Nothing}, Patch(w, u, b)
      PROVE  InRequest(w)'
  <2>1. /\ pc'[w] = "check" /\ OwnerOf[a] = u /\ place'[w] = u
        /\ age[a] = "new" /\ age'[a] = age[a]
        /\ \A v \in Workers : item[v] # a
    BY <1>0, <1>3 DEF Patch, Goto, CallTyped, Expected, AllExpected, ClaimsExpected
  <2>2. \A v \in Workers : item'[v] = a => v = w
    BY <1>0, <2>1 DEF Others
  <2> QED
    BY <1>0, <2>1, <2>2 DEF InRequest, Uploaded, Sendable, Claimed, Replaced
<1>4. CASE Save(w) \/ Create(w) \/ Discard(w)
  <2>1. /\ pc[w] \in {"save", "create"} /\ pc'[w] \in {"create", "discard"} /\ item[w] = a
        /\ blob'[a] = "final" \/ (pc[w] = "create" /\ blob'[a] = blob[a])
        /\ record'[a] = record[a]
    BY <1>0, <1>4 DEF Save, Create, Discard, Return, Goto, CallTyped, TypeOK
  <2>2. /\ age[a] = "new" /\ record[a] = "absent"
        /\ pc[w] = "create" => blob[a] = "final"
        /\ \A v \in Workers : item[v] = a => v = w
    BY <1>0, <2>1 DEF InRequest, Uploaded
  <2>3. \A v \in Workers : item'[v] = a => v = w
    BY <1>0, <2>2 DEF Others
  <2> QED
    BY <1>0, <2>1, <2>2, <2>3 DEF InRequest, Uploaded, Sendable, Claimed, Replaced
<1>5. ASSUME pc[w] \in Sending, pc'[w] \in Sending, item[w] = a,
             pc'[w] = "put" => record'[a] # "absent"
      PROVE  InRequest(w)'
  <2>1. age[a] # "unborn" /\ age[a] # "day"
    BY <1>0, <1>5 DEF InRequest, Sendable
  <2> QED
    BY <1>0, <1>5, <2>1 DEF InRequest, Uploaded, Sendable, Claimed, Replaced
<1>6. CASE Lock(w) \/ Recover(w)
  <2>1. pc[w] \in Sending /\ pc'[w] \in Sending \ {"put"} /\ item[w] = a
    BY <1>0, <1>6 DEF Lock, Recover, Unlock, Return, Goto, CallTyped
  <2> QED
    BY <1>5, <2>1
<1>7. CASE Validate(w)
  <2>1. pc[w] \in Sending /\ pc'[w] = "put" /\ item[w] = a /\ record'[a] = "Pending"
    BY <1>0, <1>7 DEF Validate, Unlock, Return, Goto, CallTyped
  <2> QED
    BY <1>5, <2>1
<1>8. CASE PutMessage(w)
  <2>1. pc[w] \in Sending /\ pc'[w] \in Sending \ {"put"} /\ item[w] = a
    BY <1>0, <1>8 DEF PutMessage, Unlock, Return, Goto, CallTyped
  <2> QED
    BY <1>5, <2>1
<1>9. CASE CommitGet(w) \/ CommitPut(w) \/ PutHint(w)
  <2>1. pc[w] \in Sending /\ pc'[w] \in Sending \ {"put"} /\ item[w] = a
    BY <1>0, <1>9 DEF CommitGet, CommitPut, CommitNext, PutHint, Unlock, Return, Goto, CallTyped
  <2> QED
    BY <1>5, <2>1
<1>10. CASE Check(w) \/ Claim(w)
  <2>1. /\ pc[w] \in {"check", "claim"} /\ item[w] = a /\ place'[w] = place[w]
        /\ \/ pc[w] = "check" /\ pc'[w] = "claim" /\ record'[a] = "Pending"
           \/ pc[w] = "claim" /\ pc'[w] = "update" /\ record'[a] = "Avatar"
        /\ UNCHANGED <<blob, avatar>>
    BY <1>0, <1>10 DEF Check, Claim, Return, Goto, CallTyped, TypeOK
  <2>2. /\ OwnerOf[a] = place[w] /\ age[a] = "new"
        /\ pc[w] = "claim" => record[a] = "Pending"
    BY <1>0, <2>1 DEF InRequest, Claimed
  <2>3. \A v \in Workers : item'[v] = a /\ pc'[v] \in Claiming => v = w
    BY <1>0, <2>1 DEF Others, InRequest, Claimed
  <2>4. pc[w] = "claim" => blob[a] = "final"
    BY <1>0, <2>2 DEF Files
  <2>5. pc[w] = "claim" => avatar[place[w]] # a
    BY <1>0, <2>1, <2>2 DEF Wardrobe, Worn, Hands, Patching
  <2> QED
    BY <1>0, <2>1, <2>2, <2>3, <2>4, <2>5 DEF InRequest, Uploaded, Sendable, Claimed, Replaced, Worn
<1>11. CASE Update(w)
  <2>1. PICK u \in Users : place[w] = u
    BY <1>0, <1>11 DEF Update, Hands, Patching
  <2>2. /\ pc'[w] = "reclaim" /\ avatar[u] = a /\ avatar'[u] # a /\ place'[w] = u
        /\ UNCHANGED <<age, record>>
    BY <1>0, <1>11, <2>1 DEF Update, Return, Goto, CallTyped, TypeOK
  <2>3. OwnerOf[a] = u /\ record[a] = "Avatar" /\ age[a] # "unborn"
    BY <1>0, <2>2 DEF Wardrobe, Worn, Files
  <2>4. ASSUME NEW v \in Workers, item'[v] = a, pc'[v] \in {"claim", "update"}
        PROVE  FALSE
    <3>1. item[v] = a /\ pc[v] \in {"claim", "update"}
      BY <1>0, <2>2, <2>4 DEF Others
    <3> QED
      BY <2>2, <2>3, <3>1, HandOf DEF InRequest, Claimed
  <2> QED
    BY <1>0, <2>2, <2>3, <2>4 DEF InRequest, Uploaded, Sendable, Claimed, Replaced
<1>12. CASE Reclaim(w) \/ Erase(w)
  <2>1. /\ pc[w] = "reclaim" /\ pc'[w] = "erase" /\ item[w] = a /\ place'[w] = place[w]
        /\ UNCHANGED <<record, avatar>>
    BY <1>0, <1>12 DEF Reclaim, Erase, Return, Goto, CallTyped
  <2>2. \A v \in Workers : item'[v] = a => pc'[v] \notin {"claim", "update"}
    BY <1>0, <2>1 DEF Others, InRequest, Replaced
  <2> QED
    BY <1>0, <2>1, <2>2 DEF InRequest, Uploaded, Sendable, Claimed, Replaced
<1> QED
  BY <1>1, <1>2, <1>3, <1>4, <1>6, <1>7, <1>8, <1>9, <1>10, <1>11, <1>12 DEF Request, Step

LEMMA InRequestsKept == IndInv /\ [Next]_vars => InRequests'
<1> SUFFICES ASSUME IndInv, [Next]_vars, NEW v \in Workers,
                    item'[v] # Nothing, Expected(item'[v])
             PROVE  InRequest(v)'
  BY DEF InRequests, InRequest
<1>0. Base /\ TypeOK'
  BY TypesKept DEF IndInv, Base
<1>1. PICK a \in Attachments : item'[v] = a
  BY <1>0 DEF TypeOK
<1>2. CASE Crash
  BY <1>2 DEF Crash
<1>3. CASE UNCHANGED call
  BY <1>1, <1>3, BystanderKept DEF call
<1>4. ASSUME NEW w \in Workers \ {v}, Request(w) \/ Step(w)
      PROVE  InRequest(v)'
  <2>1. pc'[v] = pc[v] /\ item'[v] = item[v] /\ place'[v] = place[v]
    BY <1>0, <1>4, CallStep DEF Others
  <2> QED
    BY <1>1, <2>1, BystanderKept
<1>5. CASE Request(v) \/ Step(v)
  BY <1>1, <1>5, MoverKept
<1> QED
  BY <1>2, <1>3, <1>4, <1>5, SomebodyMoves

\* An attachment is only ever put to a use that clients make of it.
LEMMA UsesKept == Base /\ Uses /\ [Next]_vars => Uses'
<1> SUFFICES ASSUME Base, Uses, [Next]_vars PROVE Uses'
  OBVIOUS
<1> USE DEF Uploading, Sending, Claiming, Patching
<1>0. TypeOK /\ Control /\ CallTyped /\ Nothing \notin Attachments /\ Writers /\ TypeOK'
  BY EveryStep, TypesKept, NamesAssumption DEF Base, TypeOK, CallTyped
<1>1. ASSUME NEW a \in Attachments
      PROVE  /\ record'[a] = "Committed" => "message" \in UsesOf[a]
             /\ record'[a] = "Avatar" => "avatar" \in UsesOf[a]
  <2>1. RecordMoves(a)
    BY Moving
  <2>2. ASSUME NEW w \in Workers, pc[w] = "write", Referred(w) = a
        PROVE  "message" \in UsesOf[a]
    <3>1. Hands(w) /\ Scans(w)
      BY <1>0 DEF Control
    <3> QED
      BY <2>2, <3>1 DEF Hands, Scans, Referred, Uses
  <2>3. ASSUME NEW w \in Workers, pc[w] = "claim", item[w] = a
        PROVE  "avatar" \in UsesOf[a]
    BY <1>0, <2>3 DEF Uses
  <2> QED
    BY <2>1, <2>2, <2>3 DEF RecordMoves, Uses
<1>2. ASSUME NEW w \in Workers, item'[w] # Nothing
      PROVE  /\ pc'[w] \in Sending => "message" \in UsesOf[item'[w]]
             /\ pc'[w] \in Patching => "avatar" \in UsesOf[item'[w]]
  <2>0. Hands(w)
    BY <1>0 DEF Control
  <2>1. CASE UNCHANGED call \/ Crash
    BY <1>2, <2>1 DEF call, Crash, Uses
  <2>2. ASSUME NEW v \in Workers \ {w}, Request(v) \/ Step(v)
        PROVE  pc'[w] = pc[w] /\ item'[w] = item[w]
    BY <2>2, CallStep DEF Others
  <2>3. CASE Request(w)
    <3>1. ASSUME NEW a \in Attachments, Upload(w, a)
          PROVE  pc'[w] = "save"
      BY <1>0, <3>1 DEF Upload, Goto, CallTyped
    <3>2. ASSUME NEW c \in Convs, NEW a \in Attachments \cup {Nothing}, Call(w, c, a)
          PROVE  pc'[w] = "lock" /\ "message" \in UsesOf[item'[w]]
      BY <1>0, <1>2, <3>2 DEF Call, Goto, CallTyped
    <3>3. ASSUME NEW u \in Users, NEW a \in Attachments \cup {Nothing}, Patch(w, u, a)
          PROVE  pc'[w] = "check" /\ "avatar" \in UsesOf[item'[w]]
      BY <1>0, <1>2, <3>3 DEF Patch, Goto, CallTyped
    <3> QED
      BY <2>3, <3>1, <3>2, <3>3 DEF Request
  <2>4. ASSUME item'[w] = item[w], pc'[w] \in Sending => pc[w] \in Sending,
               pc'[w] \in Patching => pc[w] \in Patching
        PROVE  /\ pc'[w] \in Sending => "message" \in UsesOf[item'[w]]
               /\ pc'[w] \in Patching => "avatar" \in UsesOf[item'[w]]
    BY <1>2, <2>4 DEF Uses
  <2>5. CASE Save(w) \/ Create(w) \/ Discard(w)
    BY <1>0, <1>2, <2>5 DEF Save, Create, Discard, Return, Goto, CallTyped
  <2>6. CASE Lock(w) \/ Recover(w) \/ Validate(w) \/ PutMessage(w)
    BY <1>0, <1>2, <2>4, <2>6
       DEF Lock, Recover, Validate, PutMessage, Unlock, Return, Goto, CallTyped
  <2>7. CASE CommitGet(w) \/ CommitPut(w) \/ PutHint(w)
    BY <1>0, <1>2, <2>4, <2>7
       DEF CommitGet, CommitPut, CommitNext, PutHint, Unlock, Return, Goto, CallTyped
  <2>8. CASE Check(w) \/ Claim(w) \/ Reclaim(w) \/ Erase(w)
    BY <1>0, <1>2, <2>4, <2>8 DEF Check, Claim, Reclaim, Erase, Return, Goto, CallTyped
  <2>9. CASE Update(w)
    <3>1. PICK u \in Users : place[w] = u
      BY <2>0, <2>9 DEF Update, Hands
    <3>2. pc'[w] = "reclaim" /\ item'[w] = avatar[u]
      BY <1>0, <1>2, <2>9, <3>1 DEF Update, Return, Goto, CallTyped
    <3> QED
      BY <1>2, <3>2 DEF Uses
  <2> QED
    BY <1>2, <2>1, <2>2, <2>3, <2>4, <2>5, <2>6, <2>7, <2>8, <2>9, SomebodyMoves DEF Step
<1>3. ASSUME NEW c \in Convs, NEW n \in 1..Len(sent'[c])
      PROVE  "message" \in UsesOf[sent'[c][n]]
  <2>1. ASSUME NEW w \in Workers, PutMessage(w), item[w] \in Attachments
        PROVE  "message" \in UsesOf[item[w]]
    BY <1>0, <2>1 DEF PutMessage, Uses
  <2> QED
    BY <2>1, TimelineStep DEF Uses
<1>4. ASSUME NEW u \in Users, avatar'[u] # Nothing
      PROVE  "avatar" \in UsesOf[avatar'[u]]
  <2>1. ASSUME NEW w \in Workers, Update(w)
        PROVE  avatar'[u] = avatar[u] \/ (pc[w] = "update" /\ avatar'[u] = item[w])
    BY <1>0, <2>1 DEF Update, TypeOK
  <2> QED
    BY <1>0, <1>4, <2>1 DEF Writers, AvatarWriters, Uses
<1> QED
  BY <1>1, <1>2, <1>3, <1>4 DEF Uses

-----------------------------------------------------------------------------
(* The theorems.                                                           *)

LEMMA IndInvInit == Init => IndInv
<1> SUFFICES ASSUME Init PROVE IndInv
  OBVIOUS
<1>1. TypeOK /\ Control
  BY BaseInit DEF Base
<1>2. \A c \in Convs : sent[c] = <<>> /\ Len(sent[c]) = 0
  BY DEF Init
<1>3. References
  BY <1>2 DEF References
<1>4. Uses
  BY <1>2 DEF Init, Uses
<1>5. Files /\ Scanned /\ Wardrobe /\ InRequests
  BY DEF Init, Files, Scanned, Wardrobe, InRequests
<1>6. Sweeping
  BY NamesAssumption DEF Init, Sweeping, Swept, Visited
<1> QED
  BY <1>1, <1>3, <1>4, <1>5, <1>6 DEF IndInv

\* Every variable has its type, and no hint is past the end of its timeline.
THEOREM TypeCorrect == Spec => []TypeOK
<1>1. Base => TypeOK
  BY DEF Base
<1> QED
  BY BaseInit, BaseKept, <1>1, PTL DEF Spec

\* Everything that a request or a sweep is about to put, to remove or to
\* delete is still what it was taken to be when it was read or listed, as long
\* as clients and disks are with it as the age guards expect.
THEOREM Invariance == Spec => []IndInv
<1>1. Init => IndInv
  BY IndInvInit
<1>2. IndInv /\ [Next]_vars => IndInv'
  BY BaseKept, UsesKept, FilesKept, ReferencesKept, ScannedKept, WardrobeKept, InRequestsKept,
     SweepingKept DEF IndInv, Base
<1> QED
  BY <1>1, <1>2, PTL DEF Spec

\* An attachment that a message refers to keeps its record and its bytes,
\* wherever a send, a sweep or the process stops, and whatever is done with
\* avatars (commitAttachments and sweepAttachments).
THEOREM ReferencesStayBacked ==
  ASSUME \A a \in Attachments : "message" \in UsesOf[a] => Expected(a)
  PROVE  Spec => []ReferencesAreBacked
<1>1. IndInv => ReferencesAreBacked
  <2> SUFFICES ASSUME IndInv, NEW c \in Convs, NEW a \in ToSet(sent[c])
               PROVE  Backed(a)
    BY DEF ReferencesAreBacked
  <2>1. sent[c] \in Seq(Attachments)
    BY DEF IndInv, TypeOK
  <2>2. PICK n \in 1..Len(sent[c]) : a = sent[c][n]
    BY <2>1 DEF ToSet
  <2>3. Reference(c, n) /\ "message" \in UsesOf[a] /\ a \in Attachments
    BY <2>1, <2>2 DEF IndInv, References, Uses
  <2> QED
    BY <2>2, <2>3 DEF Reference, Backed
<1>2. Spec => []IndInv
  BY Invariance
<1> QED
  BY <1>1, <1>2, PTL

\* A profile's avatar keeps its record, in state Avatar, and its bytes,
\* whatever is done with messages (UpdateUser and ListOrphanAvatarAttachments).
THEOREM AvatarsStayBacked ==
  ASSUME \A a \in Attachments : "avatar" \in UsesOf[a] => Expected(a)
  PROVE  Spec => []AvatarsAreBacked
<1>1. IndInv => AvatarsAreBacked
  <2> SUFFICES ASSUME IndInv, NEW u \in Users, avatar[u] # Nothing
               PROVE  Backed(avatar[u]) /\ record[avatar[u]] = "Avatar"
    BY DEF AvatarsAreBacked
  <2>1. avatar[u] \in Attachments /\ "avatar" \in UsesOf[avatar[u]]
    BY DEF IndInv, TypeOK, Uses
  <2> QED
    BY <2>1 DEF IndInv, Wardrobe, Worn, Backed
<1>2. Spec => []IndInv
  BY Invariance
<1> QED
  BY <1>1, <1>2, PTL

\* No step writes a record, or brings a file back, once the bytes are gone: an
\* upload, a send or a PATCH is never overtaken by the removal of its
\* attachment.
THEOREM GoneForGood ==
  ASSUME \A a \in Attachments : Expected(a)
  PROVE  Spec => GoneStaysGone
<1>1. ASSUME IndInv, [Next]_vars
      PROVE  GoneStaysGoneStep
  <2> SUFFICES ASSUME NEW a \in Attachments, blob[a] = "none"
               PROVE  record'[a] \in {"absent", record[a]} /\ blob'[a] # "final"
    BY DEF GoneStaysGoneStep
  <2>1. RecordMoves(a) /\ BlobMoves(a)
    BY <1>1, Moving DEF IndInv, Base
  <2>2. \A w \in Workers : item[w] = a => pc[w] \notin {"save", "create"}
    BY <1>1, HandOf DEF InRequest, Uploaded, Uploading
  <2>3. \A w \in Workers : item[w] = a => pc[w] # "claim"
    BY <1>1, HandOf DEF InRequest, Claimed, Claiming, IndInv, Files
  <2>4. \A w \in Workers : pc[w] = "write" => Referred(w) # a
    BY <1>1, InHandIsReferred DEF Reference
  <2> QED
    BY <2>1, <2>2, <2>3, <2>4 DEF RecordMoves, BlobMoves
<1>2. Spec => []IndInv
  BY Invariance
<1>3. Spec => [][Next]_vars
  BY DEF Spec
<1> QED
  BY <1>1, <1>2, <1>3, PTL DEF GoneStaysGone
=============================================================================

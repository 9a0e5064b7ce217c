------------------------- MODULE AttachmentLifecycle -------------------------
(***************************************************************************)
(* The life of an attachment: the upload that saves a blob and then its    *)
(* metadata record (api/upload_handlers.go, blob/blob.go), the send that   *)
(* refers to it (store/messages.go), the profile PATCH that makes it an    *)
(* avatar (api/settings_handlers.go), and the hourly janitor that reclaims *)
(* what none of them needs (sweepAttachments in cmd/jmessage/main.go), all *)
(* over a directory and a key-value store that share no transaction.       *)
(*                                                                         *)
(* One step is one access to the directory or the database.  A send        *)
(* carries one attachment and leaves out what MessageStore models of it    *)
(* and no attachment depends on.                                           *)
(***************************************************************************)
EXTENDS Integers, Sequences, SequencesExt

CONSTANTS
  Attachments,  \* attachment IDs; an ID is uploaded at most once
  Users,        \* user IDs
  Convs,        \* conversation IDs
  Workers,      \* goroutines that serve requests
  Nobody,       \* no goroutine: a free mutex
  Nothing,      \* no attachment, no conversation or user
  OwnerOf,      \* the user who uploads an attachment
  UsesOf,       \* what clients do with it: a subset of {"message", "avatar"}
  MayHappen,    \* what clients may do that the age guards do not expect
  MayFail,      \* the operations that may return an error
  MaxTroubles   \* bound: errors and crashes in all

Surprises ==
  {"late claim",     \* PATCH with an upload older than an hour
   "double claim",   \* a second PATCH with an upload while one is under way
   "late use",       \* PATCH with, or send of, an upload older than a day
   "late recovery"}  \* a day without a call on a conversation after a crash
Faults == {"record", "remove", "delete", "message", "commit", "hint", "claim", "user",
           "read", "owner"}

ASSUME NamesAssumption ==
  /\ Nothing \notin Attachments \cup Users \cup Convs
  /\ Nobody \notin Workers
  /\ Users \cap Convs = {}
ASSUME ClientsAssumption ==
  /\ OwnerOf \in [Attachments -> Users]
  /\ UsesOf \in [Attachments -> SUBSET {"message", "avatar"}]
  /\ MayHappen \subseteq Surprises
ASSUME FaultsAssumption ==
  /\ MayFail \subseteq Faults
  /\ MaxTroubles \in Nat

VARIABLES
  \* disk
  blob,      \* blob[a]: "none", "tmp" (tmp/<a>) or "final" (<a>.bin)
  record,    \* record[a]: the state in attachment:<a>, "absent" without one
  sent,      \* sent[c][seq]: the attachment of message:<c>:<seq>
  hint,      \* hint[c]: convseq:<c>
  avatar,    \* avatar[u]: AvatarID of user:<u>
  \* the process
  loaded,    \* convSeq.loaded
  mu,        \* convSeq.mu: the goroutine that holds it
  pc, item, place, cursor,  \* a goroutine's step, attachment, conversation or user, and seq
  sweep,     \* the janitor's step
  listed,    \* the attachments its current loop has still to visit
  target,    \* the one it is about to remove or delete
  orphans,   \* avatars found to be nobody's
  \* time and bounds
  age,       \* age[a]: see Ages
  troubles

disk    == <<blob, record, sent, hint, avatar>>
memory  == <<loaded, mu>>
call    == <<pc, item, place, cursor>>
janitor == <<sweep, listed, target, orphans>>
vars    == <<disk, memory, call, janitor, age, troubles>>

\* Not uploaded yet; then, since the file was written and the record created,
\* less than an hour, less than a day, a day or more.
Ages == {"unborn", "new", "hour", "day"}
States == {"absent", "Pending", "Committed", "Avatar"}

Init ==
  /\ blob    = [a \in Attachments |-> "none"]
  /\ record  = [a \in Attachments |-> "absent"]
  /\ sent    = [c \in Convs |-> <<>>]
  /\ hint    = [c \in Convs |-> 0]
  /\ avatar  = [u \in Users |-> Nothing]
  /\ loaded  = [c \in Convs |-> FALSE]
  /\ mu      = [c \in Convs |-> Nobody]
  /\ pc      = [w \in Workers |-> "idle"]
  /\ item    = [w \in Workers |-> Nothing]
  /\ place   = [w \in Workers |-> Nothing]
  /\ cursor  = [w \in Workers |-> 0]
  /\ sweep   = "rest"
  /\ listed  = {}
  /\ target  = Nothing
  /\ orphans = {}
  /\ age     = [a \in Attachments |-> "unborn"]
  /\ troubles = 0

Goto(w, label) == pc' = [pc EXCEPT ![w] = label]

\* The call returns.
Return(w) ==
  /\ Goto(w, "idle")
  /\ item' = [item EXCEPT ![w] = Nothing]
  /\ place' = [place EXCEPT ![w] = Nothing]
  /\ cursor' = [cursor EXCEPT ![w] = 0]

\* An operation of this kind returns an error.
Fault(kind) ==
  /\ kind \in MayFail
  /\ troubles < MaxTroubles
  /\ troubles' = troubles + 1
NoFault == UNCHANGED troubles

InHand(a) == \E w \in Workers : item[w] = a

-----------------------------------------------------------------------------
(* Upload: blob first, record second.                                      *)

\* blobs.Save opens tmp/<a> and writes the body to it.
Upload(w, a) ==
  /\ pc[w] = "idle"
  /\ age[a] = "unborn"
  /\ age' = [age EXCEPT ![a] = "new"]
  /\ blob' = [blob EXCEPT ![a] = "tmp"]
  /\ item' = [item EXCEPT ![w] = a]
  /\ Goto(w, "save")
  /\ UNCHANGED <<record, sent, hint, avatar, memory, place, cursor, janitor, troubles>>

\* blobs.Save: rename the file into place, or remove it after an error of any
\* kind, the client's going away included.
Save(w) ==
  /\ pc[w] = "save"
  /\ \/ /\ blob' = [blob EXCEPT ![item[w]] = "final"]
        /\ Goto(w, "create")
        /\ UNCHANGED <<item, place, cursor>>
     \/ /\ blob' = [blob EXCEPT ![item[w]] = "none"]
        /\ Return(w)
  /\ UNCHANGED <<record, sent, hint, avatar, memory, janitor, age, troubles>>

\* handleUpload: create the Pending record; an empty or unwelcome file, and a
\* put that fails, lead to the removal of the blob.
Create(w) ==
  /\ pc[w] = "create"
  /\ \/ /\ record' = [record EXCEPT ![item[w]] = "Pending"]
        /\ Return(w)
        /\ NoFault
     \/ /\ NoFault \/ Fault("record")
        /\ Goto(w, "discard")
        /\ UNCHANGED <<record, item, place, cursor>>
  /\ UNCHANGED <<blob, sent, hint, avatar, memory, janitor, age>>

\* handleUpload: remove the blob; an error of that is ignored.
Discard(w) ==
  /\ pc[w] = "discard"
  /\ \/ blob' = [blob EXCEPT ![item[w]] = "none"] /\ NoFault
     \/ Fault("remove") /\ UNCHANGED blob
  /\ Return(w)
  /\ UNCHANGED <<record, sent, hint, avatar, memory, janitor, age>>

-----------------------------------------------------------------------------
(* Send, and the recovery scan that precedes the first call on a           *)
(* conversation.                                                           *)

\* A client sends its upload, or (a = Nothing) only asks for the newest seq.
Call(w, c, a) ==
  /\ pc[w] = "idle"
  /\ a # Nothing => /\ "message" \in UsesOf[a]
                    /\ age[a] \in {"new", "hour"} \cup
                         (IF "late use" \in MayHappen THEN {"day"} ELSE {})
                    /\ \A v \in Workers : item[v] = a => place[v] # Nothing
  /\ item' = [item EXCEPT ![w] = a]
  /\ place' = [place EXCEPT ![w] = c]
  /\ Goto(w, "lock")
  /\ UNCHANGED <<disk, memory, cursor, janitor, age, troubles>>

\* cs.mu.Lock(); an allocator that is not loaded scans from behind the hint.
Lock(w) ==
  /\ pc[w] = "lock"
  /\ mu[place[w]] = Nobody
  /\ mu' = [mu EXCEPT ![place[w]] = w]
  /\ IF loaded[place[w]]
     THEN Goto(w, "validate") /\ UNCHANGED cursor
     ELSE Goto(w, "recover") /\ cursor' = [cursor EXCEPT ![w] = hint[place[w]] + 1]
  /\ UNCHANGED <<disk, loaded, item, place, janitor, age, troubles>>

\* Give the mutex back and return.
Unlock(w) ==
  /\ mu' = [mu EXCEPT ![place[w]] = Nobody]
  /\ Return(w)

\* loadLocked: commit the attachment of the next scanned message; after the
\* last one the allocator is loaded.  An error of the scan ends the call.
Recover(w) ==
  /\ pc[w] = "recover"
  /\ \/ /\ cursor[w] <= Len(sent[place[w]])
        /\ Goto(w, "commit")
        /\ NoFault
        /\ UNCHANGED <<loaded, mu, item, place, cursor>>
     \/ /\ cursor[w] > Len(sent[place[w]])
        /\ loaded' = [loaded EXCEPT ![place[w]] = TRUE]
        /\ Goto(w, "validate")
        /\ NoFault
        /\ UNCHANGED <<mu, item, place, cursor>>
     \/ /\ cursor[w] = hint[place[w]] + 1
        /\ Fault("read")
        /\ Unlock(w)
        /\ UNCHANGED loaded
  /\ UNCHANGED <<disk, janitor, age>>

\* LastSeq returns here.  AppendMessage wants a record in state Pending; the
\* blob is not looked at.
Validate(w) ==
  /\ pc[w] = "validate"
  /\ \/ /\ NoFault
        /\ IF item[w] # Nothing /\ record[item[w]] = "Pending"
           THEN Goto(w, "put") /\ UNCHANGED <<mu, item, place, cursor>>
           ELSE Unlock(w)
     \/ /\ item[w] # Nothing
        /\ Fault("read")
        /\ Unlock(w)
  /\ UNCHANGED <<disk, loaded, janitor, age>>

\* Mutant of PutMessage: the hint is put together with the message.
PutMessageAndHint(w) ==
  /\ pc[w] = "put"
  /\ LET c == place[w] IN
       /\ sent' = [sent EXCEPT ![c] = Append(@, item[w])]
       /\ hint' = [hint EXCEPT ![c] = Len(sent[c]) + 1]
       /\ cursor' = [cursor EXCEPT ![w] = Len(sent[c]) + 1]
  /\ Goto(w, "commit")
  /\ UNCHANGED <<blob, record, avatar, memory, item, place, janitor, age, troubles>>

\* AppendMessage: put the message that refers to the attachment.
PutMessage(w) ==
  /\ pc[w] = "put"
  /\ LET c == place[w] IN
     \/ /\ sent' = [sent EXCEPT ![c] = Append(@, item[w])]
        /\ cursor' = [cursor EXCEPT ![w] = Len(sent[c]) + 1]
        /\ Goto(w, "commit")
        /\ NoFault
        /\ UNCHANGED <<mu, item, place>>
     \/ /\ Fault("message")
        /\ Unlock(w)
        /\ UNCHANGED sent
  /\ UNCHANGED <<blob, record, hint, avatar, loaded, janitor, age>>

\* The attachment of the message in hand.
Referred(w) == sent[place[w]][cursor[w]]

\* commitAttachments is done with a message: the scan goes on to the next one,
\* the append to the hint.
CommitNext(w) ==
  IF loaded[place[w]]
  THEN Goto(w, "hint") /\ UNCHANGED cursor
  ELSE Goto(w, "recover") /\ cursor' = [cursor EXCEPT ![w] = @ + 1]

\* commitAttachments: get the record; one that is gone, or Committed, is left.
\* After an error the scan, or the append, returns without a hint.
CommitGet(w) ==
  /\ pc[w] = "commit"
  /\ \/ /\ NoFault
        /\ IF record[Referred(w)] \in {"absent", "Committed"}
           THEN CommitNext(w)
           ELSE Goto(w, "write") /\ UNCHANGED cursor
        /\ UNCHANGED <<mu, item, place>>
     \/ Fault("commit") /\ Unlock(w)
  /\ UNCHANGED <<disk, loaded, janitor, age>>

\* commitAttachments: put the record as Committed, whatever has become of it.
\* An error is as above.
CommitPut(w) ==
  /\ pc[w] = "write"
  /\ \/ /\ record' = [record EXCEPT ![Referred(w)] = "Committed"]
        /\ CommitNext(w)
        /\ NoFault
        /\ UNCHANGED <<mu, item, place>>
     \/ /\ Fault("commit")
        /\ Unlock(w)
        /\ UNCHANGED record
  /\ UNCHANGED <<blob, sent, hint, avatar, loaded, janitor, age>>

\* Mutant of PutHint: the hint is one too high.
PutHintHigh(w) ==
  /\ pc[w] = "hint"
  /\ hint' = [hint EXCEPT ![place[w]] = cursor[w] + 1]
  /\ Unlock(w)
  /\ UNCHANGED <<blob, record, sent, avatar, loaded, janitor, age, troubles>>

\* AppendMessage: put the hint, an error of which is only logged, and return.
PutHint(w) ==
  /\ pc[w] = "hint"
  /\ \/ hint' = [hint EXCEPT ![place[w]] = cursor[w]] /\ NoFault
     \/ Fault("hint") /\ UNCHANGED hint
  /\ Unlock(w)
  /\ UNCHANGED <<blob, record, sent, avatar, loaded, janitor, age>>

-----------------------------------------------------------------------------
(* Profile PATCH.                                                          *)

\* A user sets an avatar, or (a = Nothing) removes it.
Patch(w, u, a) ==
  /\ pc[w] = "idle"
  /\ a # Nothing => /\ "avatar" \in UsesOf[a]
                    /\ OwnerOf[a] = u
                    /\ age[a] \in {"new"} \cup
                         (IF "late claim" \in MayHappen THEN {"hour"} ELSE {}) \cup
                         (IF "late use" \in MayHappen THEN {"day"} ELSE {})
                    /\ \A v \in Workers : item[v] = a =>
                         "double claim" \in MayHappen /\ place[v] # Nothing
  /\ item' = [item EXCEPT ![w] = a]
  /\ place' = [place EXCEPT ![w] = u]
  /\ Goto(w, IF a = Nothing THEN "update" ELSE "check")
  /\ UNCHANGED <<disk, memory, cursor, janitor, age, troubles>>

\* validateAvatarAttachment: a Pending record with a blob that can be opened.
Check(w) ==
  /\ pc[w] = "check"
  /\ \/ /\ NoFault
        /\ IF record[item[w]] = "Pending" /\ blob[item[w]] = "final"
           THEN Goto(w, "claim") /\ UNCHANGED <<item, place, cursor>>
           ELSE Return(w)
     \/ Fault("read") /\ Return(w)
  /\ UNCHANGED <<disk, memory, janitor, age>>

\* Put the record that was read, with state Avatar.
Claim(w) ==
  /\ pc[w] = "claim"
  /\ \/ /\ record' = [record EXCEPT ![item[w]] = "Avatar"]
        /\ Goto(w, "update")
        /\ NoFault
        /\ UNCHANGED <<item, place, cursor>>
     \/ /\ Fault("claim")
        /\ Return(w)
        /\ UNCHANGED record
  /\ UNCHANGED <<blob, sent, hint, avatar, memory, janitor, age>>

\* UpdateUser: under regMu the user document gets the new avatar, and the old
\* one, when it is another, is to be reclaimed.
Update(w) ==
  /\ pc[w] = "update"
  /\ LET old == avatar[place[w]] IN
     \/ /\ avatar' = [avatar EXCEPT ![place[w]] = item[w]]
        /\ NoFault
        /\ IF old \notin {Nothing, item[w]}
           THEN /\ item' = [item EXCEPT ![w] = old]
                /\ Goto(w, "reclaim")
                /\ UNCHANGED <<place, cursor>>
           ELSE Return(w)
     \/ /\ Fault("user")
        /\ Return(w)
        /\ UNCHANGED avatar
  /\ UNCHANGED <<blob, record, sent, hint, memory, janitor, age>>

\* Remove the replaced avatar's blob; only without an error its record too.
Reclaim(w) ==
  /\ pc[w] = "reclaim"
  /\ \/ /\ blob' = [blob EXCEPT ![item[w]] = "none"]
        /\ Goto(w, "erase")
        /\ NoFault
        /\ UNCHANGED <<item, place, cursor>>
     \/ /\ Fault("remove")
        /\ Return(w)
        /\ UNCHANGED blob
  /\ UNCHANGED <<record, sent, hint, avatar, memory, janitor, age>>

\* Delete the replaced avatar's record; an error is ignored.
Erase(w) ==
  /\ pc[w] = "erase"
  /\ \/ record' = [record EXCEPT ![item[w]] = "absent"] /\ NoFault
     \/ Fault("delete") /\ UNCHANGED record
  /\ Return(w)
  /\ UNCHANGED <<blob, sent, hint, avatar, memory, janitor, age>>

-----------------------------------------------------------------------------
(* The janitor.  Each loop first lists, then works on its list.            *)

Idle == listed = {} /\ target = Nothing

Begin(phase, list) ==
  /\ sweep' = phase
  /\ \/ listed' = list /\ NoFault
     \/ Fault("read") /\ listed' = {}

\* ListStalePendingAttachments(24h).
ListStale ==
  /\ sweep = "rest"
  /\ Begin("stale", {a \in Attachments : record[a] = "Pending" /\ age[a] = "day"})
  /\ UNCHANGED <<disk, memory, call, target, orphans, age>>

\* Remove the blob of the next stale upload, or orphan avatar; after an error
\* its record stays for the next sweep.
SweepRemove ==
  /\ sweep \in {"stale", "avatars"}
  /\ target = Nothing
  /\ \E a \in listed :
       /\ listed' = listed \ {a}
       /\ \/ blob' = [blob EXCEPT ![a] = "none"] /\ target' = a /\ NoFault
          \/ Fault("remove") /\ UNCHANGED <<blob, target>>
  /\ UNCHANGED <<record, sent, hint, avatar, memory, call, sweep, orphans, age>>

\* Then delete its record.
SweepDelete ==
  /\ sweep \in {"stale", "avatars"}
  /\ target # Nothing
  /\ \/ record' = [record EXCEPT ![target] = "absent"] /\ NoFault
     \/ Fault("delete") /\ UNCHANGED record
  /\ target' = Nothing
  /\ UNCHANGED <<blob, sent, hint, avatar, memory, call, sweep, listed, orphans, age>>

\* Mutant of ListBlobs: the age guard is missing.
ListAllBlobs ==
  /\ sweep = "stale"
  /\ Idle
  /\ sweep' = "blobs"
  /\ listed' = {a \in Attachments : blob[a] = "final"}
  /\ UNCHANGED <<disk, memory, call, target, orphans, age, troubles>>

\* blobs.List(), of which the loop skips what is younger than an hour.  After
\* an error the sweep is over.
ListBlobs ==
  /\ sweep = "stale"
  /\ Idle
  /\ \/ /\ sweep' = "blobs"
        /\ listed' = {a \in Attachments : blob[a] = "final" /\ age[a] # "new"}
        /\ NoFault
     \/ /\ Fault("read")
        /\ sweep' = "rest"
        /\ UNCHANGED listed
  /\ UNCHANGED <<disk, memory, call, target, orphans, age>>

\* AttachmentExists: the next listed blob is an orphan when it has no record;
\* after an error it is left alone.
BlobCheck ==
  /\ sweep = "blobs"
  /\ target = Nothing
  /\ \E a \in listed :
       /\ listed' = listed \ {a}
       /\ \/ target' = (IF record[a] = "absent" THEN a ELSE Nothing) /\ NoFault
          \/ Fault("read") /\ UNCHANGED target
  /\ UNCHANGED <<disk, memory, call, sweep, orphans, age>>

\* Remove the orphan blob.
BlobRemove ==
  /\ sweep = "blobs"
  /\ target # Nothing
  /\ \/ blob' = [blob EXCEPT ![target] = "none"] /\ NoFault
     \/ Fault("remove") /\ UNCHANGED blob
  /\ target' = Nothing
  /\ UNCHANGED <<record, sent, hint, avatar, memory, call, sweep, listed, orphans, age>>

\* SweepTmp(24h).
SweepTmp ==
  /\ sweep = "blobs"
  /\ Idle
  /\ sweep' = "tmp"
  /\ blob' = [a \in Attachments |->
                IF blob[a] = "tmp" /\ age[a] = "day" THEN "none" ELSE blob[a]]
  /\ UNCHANGED <<record, sent, hint, avatar, memory, call, listed, target, orphans, age, troubles>>

\* Mutant of ListAvatars: the age is compared the wrong way round.
ListYoungAvatars ==
  /\ sweep = "tmp"
  /\ sweep' = "owners"
  /\ listed' = {a \in Attachments : record[a] = "Avatar" /\ age[a] = "new"}
  /\ UNCHANGED <<disk, memory, call, target, orphans, age, troubles>>

\* ListOrphanAvatarAttachments(1h): scan for avatars that are old enough.
ListAvatars ==
  /\ sweep = "tmp"
  /\ Begin("owners", {a \in Attachments : record[a] = "Avatar" /\ age[a] # "new"})
  /\ UNCHANGED <<disk, memory, call, target, orphans, age>>

\* Mutant of OwnerCheck: the owner's profile is not looked at.
OwnerUnchecked ==
  /\ sweep = "owners"
  /\ \E a \in listed : listed' = listed \ {a} /\ orphans' = orphans \cup {a}
  /\ UNCHANGED <<disk, memory, call, sweep, target, age, troubles>>

\* ListOrphanAvatarAttachments: an avatar is an orphan when its owner has
\* another one, or when the owner cannot be read.
OwnerCheck ==
  /\ sweep = "owners"
  /\ \E a \in listed :
       /\ listed' = listed \ {a}
       /\ \/ orphans' = (IF avatar[OwnerOf[a]] = a THEN orphans ELSE orphans \cup {a})
             /\ NoFault
          \/ orphans' = orphans \cup {a} /\ Fault("owner")
  /\ UNCHANGED <<disk, memory, call, sweep, target, age>>

\* The loop over the orphans found begins.
OwnersDone ==
  /\ sweep = "owners"
  /\ listed = {}
  /\ sweep' = "avatars"
  /\ listed' = orphans
  /\ orphans' = {}
  /\ UNCHANGED <<disk, memory, call, target, age, troubles>>

\* Back to waiting for the ticker.
SweepDone ==
  /\ sweep = "avatars"
  /\ Idle
  /\ sweep' = "rest"
  /\ UNCHANGED <<disk, memory, call, listed, target, orphans, age, troubles>>

-----------------------------------------------------------------------------
(* Time and crashes.                                                       *)

\* An attachment gets older.  No request lasts that long; and unless clients
\* are that surprising, a conversation with messages is asked for within a day
\* of a restart.
Grow(a) ==
  /\ age[a] \in {"new", "hour"}
  /\ ~InHand(a)
  /\ age' = [age EXCEPT ![a] = IF @ = "new" THEN "hour" ELSE "day"]
  /\ age'[a] = "day" => \A c \in Convs : Contains(sent[c], a) =>
       loaded[c] \/ "late recovery" \in MayHappen
  /\ UNCHANGED <<disk, memory, call, janitor, troubles>>

\* The process dies and starts again: the disk stays, all else is new.
Crash ==
  /\ troubles < MaxTroubles
  /\ troubles' = troubles + 1
  /\ loaded' = [c \in Convs |-> FALSE]
  /\ mu'     = [c \in Convs |-> Nobody]
  /\ pc'     = [w \in Workers |-> "idle"]
  /\ item'   = [w \in Workers |-> Nothing]
  /\ place'  = [w \in Workers |-> Nothing]
  /\ cursor' = [w \in Workers |-> 0]
  /\ sweep'  = "rest"
  /\ listed' = {}
  /\ target' = Nothing
  /\ orphans' = {}
  /\ UNCHANGED <<disk, age>>

Request(w) ==
  \/ \E a \in Attachments : Upload(w, a)
  \/ \E c \in Convs, a \in Attachments \cup {Nothing} : Call(w, c, a)
  \/ \E u \in Users, a \in Attachments \cup {Nothing} : Patch(w, u, a)

Step(w) ==
  \/ Save(w) \/ Create(w) \/ Discard(w)
  \/ Lock(w) \/ Recover(w) \/ Validate(w) \/ PutMessage(w)
  \/ CommitGet(w) \/ CommitPut(w) \/ PutHint(w)
  \/ Check(w) \/ Claim(w) \/ Update(w) \/ Reclaim(w) \/ Erase(w)

Sweep ==
  \/ ListStale \/ SweepRemove \/ SweepDelete
  \/ ListBlobs \/ BlobCheck \/ BlobRemove \/ SweepTmp
  \/ ListAvatars \/ OwnerCheck \/ OwnersDone \/ SweepDone

Next ==
  \/ \E w \in Workers : Request(w) \/ Step(w)
  \/ Sweep
  \/ \E a \in Attachments : Grow(a)
  \/ Crash

Spec == Init /\ [][Next]_vars

\* Goroutines go on and win the mutex in the end (sync.Mutex hands a starving
\* waiter the lock), the janitor's ticker ticks, and time passes between the
\* requests on an attachment.
Fairness ==
  /\ \A w \in Workers : WF_vars(Step(w)) /\ SF_vars(Lock(w))
  /\ WF_vars(Sweep)
  /\ \A a \in Attachments : SF_vars(Grow(a))

FairSpec == Spec /\ Fairness

-----------------------------------------------------------------------------
(* Properties.                                                             *)

Labels == {"idle", "save", "create", "discard", "lock", "recover", "validate", "put",
           "commit", "write", "hint", "check", "claim", "update", "reclaim", "erase"}

\* Every variable has its type, and no hint is past the end of its timeline.
TypeOK ==
  /\ blob \in [Attachments -> {"none", "tmp", "final"}]
  /\ record \in [Attachments -> States]
  /\ sent \in [Convs -> Seq(Attachments)]
  /\ DOMAIN hint = Convs
  /\ \A c \in Convs : hint[c] \in 0..Len(sent[c])
  /\ avatar \in [Users -> Attachments \cup {Nothing}]
  /\ loaded \in [Convs -> BOOLEAN]
  /\ mu \in [Convs -> Workers \cup {Nobody}]
  /\ pc \in [Workers -> Labels]
  /\ item \in [Workers -> Attachments \cup {Nothing}]
  /\ place \in [Workers -> Convs \cup Users \cup {Nothing}]
  /\ cursor \in [Workers -> Nat]
  /\ sweep \in {"rest", "stale", "blobs", "tmp", "owners", "avatars"}
  /\ listed \subseteq Attachments
  /\ target \in Attachments \cup {Nothing}
  /\ orphans \subseteq Attachments
  /\ age \in [Attachments -> Ages]
  /\ troubles \in Nat

Backed(a) == record[a] # "absent" /\ blob[a] = "final"

\* An attachment a message refers to is never janitored, wherever the send or
\* the process died: its record and its bytes stay (src/README.md:227-228,
\* attachments.go:80-84).
ReferencesAreBacked ==
  \A c \in Convs : \A a \in ToSet(sent[c]) : Backed(a)

\* A profile never points at an avatar that is gone or could be pruned
\* (settings_handlers.go:89-91, attachments.go:43-46).
AvatarsAreBacked ==
  \A u \in Users : avatar[u] # Nothing => Backed(avatar[u]) /\ record[avatar[u]] = "Avatar"

\* No record appears, or changes, once the bytes are gone: a sweep never
\* overtakes an upload, a send or a PATCH of the same attachment
\* (main.go:44-46, upload_handlers.go:27-28).
GoneStaysGoneStep ==
  \A a \in Attachments :
    blob[a] = "none" => record'[a] \in {"absent", record[a]} /\ blob'[a] # "final"
GoneStaysGone == [][GoneStaysGoneStep]_vars

\* On disk, and of no use to anybody.
Garbage(a) ==
  /\ blob[a] # "none" \/ record[a] # "absent"
  /\ \A c \in Convs : ~Contains(sent[c], a)
  /\ \A u \in Users : avatar[u] # a

\* Whatever is of no use goes away in the end, or is put to use: temp files,
\* blobs without a record, uploads never sent, avatars replaced, and records
\* a crash left behind (main.go:42-46, 91-93).
GarbageIsReclaimed == \A a \in Attachments : Garbage(a) ~> ~Garbage(a)
=============================================================================

---------------------------- MODULE MessageStore ----------------------------
(***************************************************************************)
(* The message path of the store: AppendMessage, LastSeq, the recovery     *)
(* scan of the sequence allocator, the attachment commit and the janitor's *)
(* pruning of idempotency entries (store/messages.go, store/janitor.go),   *)
(* run by concurrent goroutines over a key-value store without             *)
(* transactions, with crashes and failing writes.                          *)
(*                                                                         *)
(* One step is one access to the database or one use of a mutex, so that   *)
(* whatever another goroutine, the janitor or a crash can do in between    *)
(* happens in between.  A put that fails is taken to have written nothing, *)
(* which is what the code takes it to be ("last not advanced: the seq will *)
(* be reused").                                                            *)
(***************************************************************************)
EXTENDS Integers

CONSTANTS
  Convs,        \* conversation IDs
  Requests,     \* sends, one per (senderID, clientMsgID); a retry is the same request
  Anonymous,    \* the sends whose clientMsgID is empty
  Attachments,  \* attachment IDs
  Users,        \* user IDs
  Procs,        \* goroutines that serve calls
  Nobody,       \* no goroutine: a free mutex
  Nothing,      \* no job, no conversation, no attachment
  ConvOf,       \* the cid argument of a send
  SenderOf,     \* its senderID
  AttsOf,       \* its attachmentIDs, duplicates removed
  OwnerOf,      \* the owner an attachment was uploaded by
  MaxCalls,     \* bound: calls made in all
  MaxCrashes,   \* bound: crashes of the process
  MayFail,      \* the kinds of database access that may return an error
  LateRetries   \* may a client retry a send whose index entry is old enough to prune

Faults == {"read", "message", "attachment", "index", "hint", "conv", "rebuild", "prune"}

ASSUME SetsAssumption ==
  /\ Convs \cap Requests = {}
  /\ Nothing \notin Convs \cup Requests \cup Attachments
  /\ Nobody \notin Procs
  /\ Anonymous \subseteq Requests
ASSUME RequestsAssumption ==
  /\ ConvOf \in [Requests -> Convs]
  /\ SenderOf \in [Requests -> Users]
  /\ AttsOf \in [Requests -> SUBSET Attachments]
  /\ OwnerOf \in [Attachments -> Users]
ASSUME BoundsAssumption ==
  /\ MaxCalls \in Nat
  /\ MaxCrashes \in Nat
  /\ MayFail \subseteq Faults
  /\ LateRetries \in BOOLEAN

VARIABLES
  \* the database: an absent key is outside the function's domain
  message,   \* message[c]: message:<c>:<seq>, the request stored under each seq
  index,     \* index[r]: clientmsg:<sender>:<id>, the seq it points at
  hint,      \* hint[c]: convseq:<c>, 0 when absent
  att,       \* att[a]: attachment:<a>, its state and conversation
  preview,   \* preview[c]: the message shown in conv:<c>'s last-activity fields
  \* the process
  last,      \* convSeq.last
  loaded,    \* convSeq.loaded
  mu,        \* convSeq.mu: the goroutine that holds it
  pc, job,   \* what each goroutine does, and for which send or LastSeq
  cursor,    \* the seq of the message in hand
  todo,      \* attachments of the message in hand still to validate or commit
  pick,      \* the attachment read by commitAttachments and not yet written
  doomed,    \* keys the janitor has listed and not yet deleted
  \* observations and bounds
  told,      \* the seqs callers of a send, or of LastSeq, have been given
  aged,      \* messages of c up to aged[c] are older than the janitor's maxAge
  calls, crashes

disk      == <<message, index, hint, att, preview>>
memory    == <<last, loaded, mu>>
goroutine == <<pc, job, cursor, todo, pick>>
observed  == <<told, aged, calls, crashes>>
vars      == <<disk, memory, goroutine, doomed, observed>>

Jobs == Requests \cup Convs

\* db.Put of value v under key k in the key range f.
Put(f, k, v) == [x \in DOMAIN f \cup {k} |-> IF x = k THEN v ELSE f[x]]

\* db.Delete of key k in the key range f.
Delete(f, k) == [x \in DOMAIN f \ {k} |-> f[x]]

Target(j) == IF j \in Convs THEN j ELSE ConvOf[j]
Conv(p)   == Target(job[p])

States == {"absent", "Pending", "Committed", "Avatar"}
Record(state, c) == [state |-> state, conv |-> c]

\* Some message of r is old enough for its index entry to be pruned.
Aged(r) == \E s \in DOMAIN message[ConvOf[r]] :
             s <= aged[ConvOf[r]] /\ message[ConvOf[r]][s] = r

Init ==
  /\ message = [c \in Convs |-> <<>>]
  /\ index   = <<>>
  /\ hint    = [c \in Convs |-> 0]
  /\ att \in [Attachments -> {Record(st, Nothing) : st \in States \ {"Committed"}}]
  /\ preview = [c \in Convs |-> 0]
  /\ last    = [c \in Convs |-> 0]
  /\ loaded  = [c \in Convs |-> FALSE]
  /\ mu      = [c \in Convs |-> Nobody]
  /\ pc      = [p \in Procs |-> "idle"]
  /\ job     = [p \in Procs |-> Nothing]
  /\ cursor  = [p \in Procs |-> 0]
  /\ todo    = [p \in Procs |-> {}]
  /\ pick    = [p \in Procs |-> Nothing]
  /\ doomed  = {}
  /\ told    = [j \in Jobs |-> {}]
  /\ aged    = [c \in Convs |-> 0]
  /\ calls   = 0
  /\ crashes = 0

Goto(p, label) == pc' = [pc EXCEPT ![p] = label]

-----------------------------------------------------------------------------
(* Entering a call: the conversation's mutex, then the allocator.          *)

\* A goroutine is asked to append r, or for the newest seq of a conversation.
Call(p, j) ==
  /\ pc[p] = "idle"
  /\ calls < MaxCalls
  /\ j \in Requests => (LateRetries \/ ~Aged(j))
  /\ calls' = calls + 1
  /\ job' = [job EXCEPT ![p] = j]
  /\ Goto(p, "lock")
  /\ UNCHANGED <<disk, memory, cursor, todo, pick, doomed, told, aged, crashes>>

\* cs.mu.Lock(), then the test of cs.loaded.
Lock(p) ==
  /\ pc[p] = "lock"
  /\ mu[Conv(p)] = Nobody
  /\ mu' = [mu EXCEPT ![Conv(p)] = p]
  /\ Goto(p, IF loaded[Conv(p)] THEN "ready" ELSE "load")
  /\ UNCHANGED <<disk, last, loaded, job, cursor, todo, pick, doomed, observed>>

\* Mutant of Load: the scan starts one message too late.
LoadSkipsOne(p) ==
  /\ pc[p] = "load"
  /\ cursor' = [cursor EXCEPT ![p] = hint[Conv(p)] + 2]
  /\ Goto(p, "rebuild")
  /\ UNCHANGED <<disk, memory, job, todo, pick, doomed, observed>>

\* loadLocked: read the hint and scan the messages behind it.  The scan result
\* needs no variable: only the holder of the mutex writes this key range.
Load(p) ==
  /\ pc[p] = "load"
  /\ \/ /\ cursor' = [cursor EXCEPT ![p] = hint[Conv(p)] + 1]
        /\ Goto(p, "rebuild")
     \/ /\ "read" \in MayFail
        /\ Goto(p, "fail")
        /\ UNCHANGED cursor
  /\ UNCHANGED <<disk, memory, job, todo, pick, doomed, observed>>

Ahead(p) == {s \in DOMAIN message[Conv(p)] : s >= cursor[p]}

\* loadLocked: put the index entry of the next scanned message again, then
\* commit its attachments.
Rebuild(p) ==
  /\ pc[p] = "rebuild"
  /\ \E s \in Ahead(p) :
       LET r == message[Conv(p)][s] IN
       /\ \A t \in Ahead(p) : s <= t
       /\ \/ /\ index' = IF r \in Anonymous THEN index ELSE Put(index, r, s)
             /\ cursor' = [cursor EXCEPT ![p] = s]
             /\ todo' = [todo EXCEPT ![p] = AttsOf[r]]
             /\ Goto(p, "commit")
          \/ /\ "rebuild" \in MayFail
             /\ r \notin Anonymous
             /\ Goto(p, "fail")
             /\ UNCHANGED <<index, cursor, todo>>
  /\ UNCHANGED <<message, hint, att, preview, memory, job, pick, doomed, observed>>

\* Mutants of FinishLoad: the allocator comes to stand at the given seq.
FinishLoadAt(p, seq) ==
  /\ pc[p] = "rebuild"
  /\ Ahead(p) = {}
  /\ last' = [last EXCEPT ![Conv(p)] = seq]
  /\ loaded' = [loaded EXCEPT ![Conv(p)] = TRUE]
  /\ Goto(p, "ready")
  /\ UNCHANGED <<disk, mu, job, cursor, todo, pick, doomed, observed>>
FinishLoadAtNext(p)  == FinishLoadAt(p, cursor[p])          \* one past the tip
FinishLoadShort(p)   == FinishLoadAt(p, cursor[p] - 2)      \* one before the tip
FinishLoadAtHint(p)  == FinishLoadAt(p, hint[Conv(p)])      \* the scan's result is dropped

\* loadLocked: every scanned message is done; the tip is the last one of them,
\* or the hint when there was none.
FinishLoad(p) ==
  /\ pc[p] = "rebuild"
  /\ Ahead(p) = {}
  /\ last' = [last EXCEPT ![Conv(p)] = cursor[p] - 1]
  /\ loaded' = [loaded EXCEPT ![Conv(p)] = TRUE]
  /\ Goto(p, "ready")
  /\ UNCHANGED <<disk, mu, job, cursor, todo, pick, doomed, observed>>

-----------------------------------------------------------------------------
(* The body of a call.                                                     *)

\* Mutants of ReadLast: LastSeq returns the given seq.
ReadSeq(p, seq) ==
  /\ pc[p] = "ready"
  /\ job[p] \in Convs
  /\ cursor' = [cursor EXCEPT ![p] = seq]
  /\ Goto(p, "reply")
  /\ UNCHANGED <<disk, memory, job, todo, pick, doomed, observed>>
ReadHint(p) == ReadSeq(p, hint[Conv(p)])        \* the persisted hint
ReadNext(p) == ReadSeq(p, last[Conv(p)] + 1)    \* the seq of the next message

\* LastSeq: return cs.last.
ReadLast(p) ==
  /\ pc[p] = "ready"
  /\ job[p] \in Convs
  /\ cursor' = [cursor EXCEPT ![p] = last[Conv(p)]]
  /\ Goto(p, "reply")
  /\ UNCHANGED <<disk, memory, job, todo, pick, doomed, observed>>

\* AppendMessage: look the client message ID up.  An entry whose message is
\* missing is an error; otherwise that message is the answer.
Dedup(p) ==
  /\ pc[p] = "ready"
  /\ job[p] \in Requests
  /\ LET r == job[p] IN
     \/ /\ r \notin Anonymous
        /\ r \in DOMAIN index
        /\ index[r] \in DOMAIN message[Conv(p)]
        /\ cursor' = [cursor EXCEPT ![p] = index[r]]
        /\ Goto(p, "reply")
        /\ UNCHANGED todo
     \/ /\ r \notin Anonymous
        /\ \/ r \in DOMAIN index /\ index[r] \notin DOMAIN message[Conv(p)]
           \/ "read" \in MayFail
        /\ Goto(p, "fail")
        /\ UNCHANGED <<cursor, todo>>
     \/ /\ r \in Anonymous \/ r \notin DOMAIN index
        /\ todo' = [todo EXCEPT ![p] = AttsOf[r]]
        /\ Goto(p, "validate")
        /\ UNCHANGED cursor
  /\ UNCHANGED <<disk, memory, job, pick, doomed, observed>>

\* Mutant of Usable: the state of the record is not looked at.
UsableIfOwned(r, a) == att[a].state # "absent" /\ OwnerOf[a] = SenderOf[r]

\* The record exists, is the sender's own, and is not yet in use.
Usable(r, a) ==
  /\ att[a].state = "Pending"
  /\ OwnerOf[a] = SenderOf[r]

\* AppendMessage: validate the next attachment.  The order of the list is
\* left open.
Validate(p) ==
  /\ pc[p] = "validate"
  /\ \/ \E a \in todo[p] :
          \/ /\ Usable(job[p], a)
             /\ todo' = [todo EXCEPT ![p] = @ \ {a}]
             /\ UNCHANGED pc
          \/ /\ ~Usable(job[p], a) \/ "read" \in MayFail
             /\ Goto(p, "fail")
             /\ UNCHANGED todo
     \/ /\ todo[p] = {}
        /\ Goto(p, "put")
        /\ UNCHANGED todo
  /\ UNCHANGED <<disk, memory, job, cursor, pick, doomed, observed>>

\* AppendMessage: put the message at last+1; last moves only on success.
PutMessage(p) ==
  /\ pc[p] = "put"
  /\ LET c == Conv(p)
         seq == last[c] + 1
     IN \/ /\ message' = [message EXCEPT ![c] = Put(@, seq, job[p])]
           /\ last' = [last EXCEPT ![c] = seq]
           /\ cursor' = [cursor EXCEPT ![p] = seq]
           /\ todo' = [todo EXCEPT ![p] = AttsOf[job[p]]]
           /\ Goto(p, "commit")
        \/ /\ "message" \in MayFail
           /\ Goto(p, "fail")
           /\ UNCHANGED <<message, last, cursor, todo>>
  /\ UNCHANGED <<index, hint, att, preview, loaded, mu, job, pick, doomed, observed>>

-----------------------------------------------------------------------------
(* commitAttachments, called by the recovery scan and by the append.       *)

\* Where an error of commitAttachments leads: the scan gives up and the
\* allocator stays unloaded; the append keeps its message and answers with
\* it, but leaves out the index entry and the hint.
CommitError(p) ==
  /\ (IF loaded[Conv(p)] THEN "attachment" ELSE "rebuild") \in MayFail
  /\ Goto(p, IF loaded[Conv(p)] THEN "reply" ELSE "fail")
  /\ todo' = [todo EXCEPT ![p] = {}]

\* Get the next attachment's record; one that is gone, or already committed
\* to this conversation, needs no write.
CommitGet(p) ==
  /\ pc[p] = "commit"
  /\ todo[p] # {}
  /\ \/ \E a \in todo[p] :
          IF att[a].state = "absent" \/ att[a] = Record("Committed", Conv(p))
          THEN /\ todo' = [todo EXCEPT ![p] = @ \ {a}]
               /\ UNCHANGED <<pick, pc>>
          ELSE /\ pick' = [pick EXCEPT ![p] = a]
               /\ Goto(p, "write")
               /\ UNCHANGED todo
     \/ CommitError(p) /\ UNCHANGED pick
  /\ UNCHANGED <<disk, memory, job, cursor, doomed, observed>>

\* Put the record back as Committed to this conversation, whatever it has
\* become since it was read.
CommitPut(p) ==
  /\ pc[p] = "write"
  /\ \/ /\ att' = [att EXCEPT ![pick[p]] = Record("Committed", Conv(p))]
        /\ todo' = [todo EXCEPT ![p] = @ \ {pick[p]}]
        /\ Goto(p, "commit")
     \/ CommitError(p) /\ UNCHANGED att
  /\ pick' = [pick EXCEPT ![p] = Nothing]
  /\ UNCHANGED <<message, index, hint, preview, memory, job, cursor, doomed, observed>>

\* Mutant of CommitDone: the hint is put before the index entry, and the entry
\* then forgotten.
CommitDoneHintFirst(p) ==
  /\ pc[p] = "commit"
  /\ todo[p] = {}
  /\ IF loaded[Conv(p)]
     THEN Goto(p, "hint") /\ UNCHANGED cursor
     ELSE Goto(p, "rebuild") /\ cursor' = [cursor EXCEPT ![p] = @ + 1]
  /\ UNCHANGED <<disk, memory, job, todo, pick, doomed, observed>>

\* Mutant of CommitDone: the scan stays at the message it has done.
CommitDoneInPlace(p) ==
  /\ pc[p] = "commit"
  /\ todo[p] = {}
  /\ Goto(p, IF loaded[Conv(p)] THEN "index" ELSE "rebuild")
  /\ UNCHANGED <<disk, memory, job, cursor, todo, pick, doomed, observed>>

\* All attachments are committed: the scan goes on to the next message, the
\* append to the index entry.
CommitDone(p) ==
  /\ pc[p] = "commit"
  /\ todo[p] = {}
  /\ IF loaded[Conv(p)]
     THEN Goto(p, "index") /\ UNCHANGED cursor
     ELSE Goto(p, "rebuild") /\ cursor' = [cursor EXCEPT ![p] = @ + 1]
  /\ UNCHANGED <<disk, memory, job, todo, pick, doomed, observed>>

-----------------------------------------------------------------------------
(* The rest of AppendMessage, and the return.                              *)

\* Mutant of PutIndex: the entry points behind the hint instead of at the
\* message put.
PutIndexAtHint(p) ==
  /\ pc[p] = "index"
  /\ index' = IF job[p] \in Anonymous THEN index
              ELSE Put(index, job[p], hint[Conv(p)] + 1)
  /\ Goto(p, "hint")
  /\ UNCHANGED <<message, hint, att, preview, memory, job, cursor, todo, pick, doomed, observed>>

\* Put the clientmsg entry.  On an error the message is returned at once, and
\* the hint is left alone.
PutIndex(p) ==
  /\ pc[p] = "index"
  /\ \/ /\ index' = IF job[p] \in Anonymous THEN index ELSE Put(index, job[p], cursor[p])
        /\ Goto(p, "hint")
     \/ /\ "index" \in MayFail
        /\ job[p] \notin Anonymous
        /\ Goto(p, "reply")
        /\ UNCHANGED index
  /\ UNCHANGED <<message, hint, att, preview, memory, job, cursor, todo, pick, doomed, observed>>

\* Put the convseq hint; an error is only logged.
PutHint(p) ==
  /\ pc[p] = "hint"
  /\ \/ hint' = [hint EXCEPT ![Conv(p)] = cursor[p]]
     \/ "hint" \in MayFail /\ UNCHANGED hint
  /\ Goto(p, "touch")
  /\ UNCHANGED <<message, index, att, preview, memory, job, cursor, todo, pick, doomed, observed>>

\* touchConversation: the conversation record now shows this message; an error
\* is only logged.
Touch(p) ==
  /\ pc[p] = "touch"
  /\ \/ preview' = [preview EXCEPT ![Conv(p)] = cursor[p]]
     \/ "conv" \in MayFail /\ UNCHANGED preview
  /\ Goto(p, "reply")
  /\ UNCHANGED <<message, index, hint, att, memory, job, cursor, todo, pick, doomed, observed>>

\* Release the mutex and forget the call.
Unlock(p) ==
  /\ mu' = [mu EXCEPT ![Conv(p)] = Nobody]
  /\ pc' = [pc EXCEPT ![p] = "idle"]
  /\ job' = [job EXCEPT ![p] = Nothing]
  /\ cursor' = [cursor EXCEPT ![p] = 0]
  /\ todo' = [todo EXCEPT ![p] = {}]

\* Return the seq of the message, or of the tip: the caller may ack it.
Reply(p) ==
  /\ pc[p] = "reply"
  /\ told' = [told EXCEPT ![job[p]] = @ \cup {cursor[p]}]
  /\ Unlock(p)
  /\ UNCHANGED <<disk, last, loaded, pick, doomed, aged, calls, crashes>>

\* Mutant of Fail: an error path that forgets to release the mutex.
FailLocked(p) ==
  /\ pc[p] = "fail"
  /\ Goto(p, "idle")
  /\ UNCHANGED <<disk, memory, job, cursor, todo, pick, doomed, observed>>

\* Return an error: the caller learns nothing and may try again.
Fail(p) ==
  /\ pc[p] = "fail"
  /\ Unlock(p)
  /\ UNCHANGED <<disk, last, loaded, pick, doomed, observed>>

-----------------------------------------------------------------------------
(* Time, the janitor, and crashes.                                         *)

\* The oldest message of c that was not yet older than the janitor's maxAge
\* becomes so.  A call does not last that long.
Age(c) ==
  /\ aged[c] + 1 \in DOMAIN message[c]
  /\ \A p \in Procs : pc[p] # "idle" => Conv(p) # c
  /\ aged' = [aged EXCEPT ![c] = @ + 1]
  /\ UNCHANGED <<disk, memory, goroutine, doomed, told, calls, crashes>>

\* PruneClientMsgs: list the entries that are too old.
PruneList ==
  LET stale == {r \in DOMAIN index : index[r] <= aged[ConvOf[r]]} IN
  /\ doomed = {}
  /\ stale # {}
  /\ doomed' = stale
  /\ UNCHANGED <<disk, memory, goroutine, observed>>

\* PruneClientMsgs: delete the next listed entry; an error abandons the rest.
PruneDelete ==
  /\ \/ \E r \in doomed :
          /\ index' = Delete(index, r)
          /\ doomed' = doomed \ {r}
     \/ /\ "prune" \in MayFail
        /\ doomed # {}
        /\ doomed' = {}
        /\ UNCHANGED index
  /\ UNCHANGED <<message, hint, att, preview, memory, goroutine, observed>>

\* The process dies and starts again: the database stays, all else is new.
Crash ==
  /\ crashes < MaxCrashes
  /\ crashes' = crashes + 1
  /\ last'   = [c \in Convs |-> 0]
  /\ loaded' = [c \in Convs |-> FALSE]
  /\ mu'     = [c \in Convs |-> Nobody]
  /\ pc'     = [p \in Procs |-> "idle"]
  /\ job'    = [p \in Procs |-> Nothing]
  /\ cursor' = [p \in Procs |-> 0]
  /\ todo'   = [p \in Procs |-> {}]
  /\ pick'   = [p \in Procs |-> Nothing]
  /\ doomed' = {}
  /\ UNCHANGED <<disk, told, aged, calls>>

Step(p) ==
  \/ Lock(p) \/ Load(p) \/ Rebuild(p) \/ FinishLoad(p)
  \/ ReadLast(p) \/ Dedup(p) \/ Validate(p) \/ PutMessage(p)
  \/ CommitGet(p) \/ CommitPut(p) \/ CommitDone(p)
  \/ PutIndex(p) \/ PutHint(p) \/ Touch(p)
  \/ Reply(p) \/ Fail(p)

Next ==
  \/ \E p \in Procs : (\E j \in Jobs : Call(p, j)) \/ Step(p)
  \/ \E c \in Convs : Age(c)
  \/ PruneList
  \/ PruneDelete
  \/ Crash

Spec == Init /\ [][Next]_vars

\* A goroutine that can go on does; a mutex that is free again and again is
\* won in the end (sync.Mutex hands a starving waiter the lock).
Fairness ==
  \A p \in Procs : WF_vars(Step(p)) /\ SF_vars(Lock(p))

FairSpec == Spec /\ Fairness

-----------------------------------------------------------------------------
(* Properties.                                                             *)

Seqs(c) == DOMAIN message[c]

Labels == {"idle", "lock", "load", "rebuild", "ready", "validate", "put", "commit",
           "write", "index", "hint", "touch", "reply", "fail"}

\* Every variable has its type.
TypeOK ==
  /\ \A c \in Convs : /\ Seqs(c) \subseteq Nat
                      /\ message[c] \in [Seqs(c) -> Requests]
  /\ DOMAIN message = Convs
  /\ DOMAIN index \subseteq Requests
  /\ index \in [DOMAIN index -> Nat]
  /\ hint \in [Convs -> Nat]
  /\ att \in [Attachments -> [state : States, conv : Convs \cup {Nothing}]]
  /\ preview \in [Convs -> Nat]
  /\ last \in [Convs -> Nat]
  /\ loaded \in [Convs -> BOOLEAN]
  /\ mu \in [Convs -> Procs \cup {Nobody}]
  /\ pc \in [Procs -> Labels]
  /\ job \in [Procs -> Jobs \cup {Nothing}]
  /\ cursor \in [Procs -> Nat]
  /\ todo \in [Procs -> SUBSET Attachments]
  /\ pick \in [Procs -> Attachments \cup {Nothing}]
  /\ doomed \subseteq Requests
  /\ told \in [Jobs -> SUBSET Nat]
  /\ aged \in [Convs -> Nat]
  /\ calls \in Nat
  /\ crashes \in Nat

\* Sequence numbers are dense: whatever crashed or failed, a timeline has no
\* gap, and a loaded allocator stands exactly at its end (messages.go:17-30,
\* on which backwards pagination relies).
DenseTimeline ==
  \A c \in Convs :
    /\ \A s \in Seqs(c) : 1..s \subseteq Seqs(c)
    /\ loaded[c] => Seqs(c) = 1..last[c]

\* A send with a client message ID is stored at most once, however often it
\* is retried and wherever a crash cut an earlier attempt (messages.go:165-175).
NoDuplicateMessage ==
  \A c \in Convs : \A s, t \in Seqs(c) :
    message[c][s] = message[c][t] /\ message[c][s] \notin Anonymous => s = t

\* An idempotency entry always leads to the message of its own send, so a
\* duplicate send is answered with the original (messages.go:186-195).
IndexLeadsToOriginal ==
  \A r \in DOMAIN index :
    index[r] \in Seqs(ConvOf[r]) /\ message[ConvOf[r]][index[r]] = r

\* What a caller was told holds for ever after, across crashes: a send that
\* was answered is stored at that seq, and no tip was reported that the
\* timeline has not reached (messages.go:161-163, 148-159).
AnswersHold ==
  /\ \A r \in Requests : \A s \in told[r] :
       s \in Seqs(ConvOf[r]) /\ message[ConvOf[r]][s] = r
  /\ \A c \in Convs : \A n \in told[c] : n = 0 \/ n \in Seqs(c)

\* The recovery scan starts behind the hint, so nothing at or before the hint
\* may still need it: such a message has its idempotency entry, unless that
\* was pruned for its age, and none of its attachments looks Pending
\* (messages.go:68-74, 239-254).
RecoveryWindow ==
  \A c \in Convs : \A s \in Seqs(c) :
    s <= hint[c] =>
      /\ message[c][s] \in DOMAIN index \cup Anonymous \/ s <= aged[c]
      /\ \A a \in AttsOf[message[c][s]] : att[a].state # "Pending"

\* Two messages of one timeline never carry the same attachment: the mutex
\* and the recovery scan commit it before the next send is validated
\* (messages.go:169-175, 201-220).
SingleUseInTimeline ==
  \A c \in Convs : \A s, t \in Seqs(c) :
    s # t => AttsOf[message[c][s]] \cap AttsOf[message[c][t]] = {}

\* An attachment belongs to exactly one conversation (messages.go:201-203).
SingleUse ==
  \A c, d \in Convs : \A s \in Seqs(c), t \in Seqs(d) :
    c # d => AttsOf[message[c][s]] \cap AttsOf[message[d][t]] = {}

\* A stored message is never rewritten or lost, a committed attachment never
\* becomes anything else, and neither the hint nor the message the
\* conversation list shows ever goes back, across crashes (messages.go:223-281).
AppendOnlyStep ==
  /\ \A c \in Convs : /\ Seqs(c) \subseteq Seqs(c)'
                      /\ \A s \in Seqs(c) : message'[c][s] = message[c][s]
                      /\ hint[c] <= hint'[c]
                      /\ preview[c] <= preview'[c]
  /\ \A a \in Attachments : att[a].state = "Committed" => att'[a].state = "Committed"
AppendOnly == [][AppendOnlyStep]_vars

\* The store implements the timeline its callers are promised.
Promise == INSTANCE Timeline WITH log <- message, told <- told
ImplementsTimeline == Promise!Spec

\* Every call returns, or dies with the process: no goroutine waits for ever
\* for a conversation's mutex (messages.go:176-184).
CallsReturn == \A p \in Procs : pc[p] # "idle" ~> pc[p] = "idle"

\* A mutex is held only on behalf of a call that is under way in its
\* conversation: no return and no error path of AppendMessage, LastSeq or
\* loadLocked keeps it (messages.go:176-184).
HeldByCall ==
  \A c \in Convs : mu[c] # Nobody => pc[mu[c]] \notin {"idle", "lock"} /\ Conv(mu[c]) = c

\* How far a call is.  commitAttachments is part of the scan, or of the append.
Phase(p) ==
  IF pc[p] \notin {"commit", "write"} THEN pc[p]
  ELSE IF loaded[Conv(p)] THEN "append" ELSE "rebuild"
Rank == [lock |-> 0, load |-> 1, rebuild |-> 2, ready |-> 3, validate |-> 4, put |-> 5,
         append |-> 6, index |-> 7, hint |-> 8, touch |-> 9, reply |-> 10, fail |-> 10, idle |-> 11]
\* The messages the scan has still to do, with the one in hand.
Unscanned(p) ==
  IF Phase(p) = "rebuild" THEN {s \in Seqs(Conv(p)) : s >= cursor[p]} ELSE {}

Smaller(new, old) == new \subseteq old /\ new # old
Nearer(p) ==
  \/ Rank[Phase(p)] < Rank[Phase(p)']
  \/ /\ Phase(p)' = Phase(p)
     /\ \/ Smaller(Unscanned(p)', Unscanned(p))
        \/ /\ Unscanned(p)' = Unscanned(p)
           /\ \/ pc[p] = "rebuild" /\ pc'[p] = "commit"
              \/ Smaller(todo'[p], todo[p])
              \/ todo'[p] = todo[p] /\ pc[p] = "commit" /\ pc'[p] = "write"
AsFar(p) ==
  UNCHANGED <<pc[p], cursor[p], todo[p], pick[p], Unscanned(p)>>

\* Whatever step a call takes, and whoever takes steps meanwhile, it comes
\* nearer its return and never does anything twice: the scan of loadLocked runs
\* out of messages, because nobody appends to the conversation it is in, and
\* each list of attachments is gone through once.
CallsAdvance == [][\A p \in Procs : pc[p] # "idle" => Nearer(p) \/ AsFar(p)]_vars
=============================================================================

# jMessage in TLA+

A verification project for jMessage, a chat server in Go over a key-value engine
(PetDB) that has durable single writes and no transactions, with a React client. The
hard part of the program is what it does *instead of* transactions: an order of writes,
a recovery scan after a crash, per-conversation mutexes, and a janitor that reclaims
what the order of writes leaves behind.

Paths below leave out `src/server/internal/` where nothing else is said.

## The system

| Component | State | Operations | Interacts through |
|---|---|---|---|
| **Message store** (`store/messages.go`, `store/janitor.go`) | `message:`, `clientmsg:`, `convseq:`, `conversation:` keys; in memory `convSeq.last`, `loaded`, `mu` per conversation | `AppendMessage`, `LastSeq`, `loadLocked`, `commitAttachments`, `PruneClientMsgs` | called by WebSocket sends, REST sync and the janitor; the mutex of a conversation serialises its sends |
| **Attachments** (`api/upload_handlers.go`, `blob/blob.go`, `api/settings_handlers.go`, `store/attachments.go`, `sweepAttachments` in `src/server/cmd/jmessage/main.go`) | blob files and temp files, `attachment:` records, `AvatarID` of a user | upload, send, profile PATCH, four hourly sweeps | a directory and a database that fail separately; sends commit what the sweep may be removing |
| **History reads** (`ListMessagesBefore` in `store/messages.go`, `ListMessagesAfter` in `store/sync.go`) | none of their own | page backwards, sync forwards | bounds from `LastSeq` and dense sequence numbers |
| **Conversations, users, ID counters** (`store/conversations.go`, `users.go`, `counter.go`) | `conversation:`, `member:`, `usermember:`, `dm:`, `user:`, `username:`, counter hints | register, edit a profile, create a DM or group, add a member (nothing is ever removed) | multi-key writes in an order; one mutex for users, one for conversations |
| **Hub, clients, fanout** (`ws/hub.go`, `ws/client.go`) | registered connections, outbound buffers, presence | register, unregister, send, ack, resume, typing, receipts | the store, then every member's connections |
| **Watermarks and reactions** (`store/readstate.go`, `reactions.go`) | delivered and read watermarks, reaction keys | raise, toggle, count | announced to members by the hub |
| **Rate limiters** (`api/ratelimit.go`, `ws/ratelimit.go`) | hit lists, token buckets | allow, cleanup | in front of handlers and frames |
| **Web client** (`src/web/src/ws/useWebSocket.ts`, `db/local.ts`) | outbox rows, stored messages, watermark, owner | enqueue, flush, ack, time out, retry, catch up, wipe | frames and REST pages in any overlap |
| Devices, authentication, validation, routing, pages | single keys, or nothing | upserts, checks of one request, rendering | not modelled: no protocol state |

What is hard about them, by the line where it bites, is the list `hazards` of
`PROJECT.json`. In short:

* **crashes between two writes** of one operation, and a recovery that is *lazy*: the scan
  of a conversation runs on the first call that needs its sequence numbers;
* **a write of several that fails** while the process lives on, so that no recovery follows;
* **retries** of a send whose first attempt may have got anywhere;
* **check-then-write across keys** with no mutex in common (one attachment in two sends, in a
  send and a PATCH, in a PATCH and a sweep);
* **lists made earlier** by the janitor, worked off later;
* **frames out of order or twice** between the hub, the resume replay, REST sync and the client.

What makes each component correct: the message store keeps one dense, append-only
timeline a conversation, on which a send appears once and an answer is true for ever;
attachments in use stay, others go; who is shown a conversation is a member of it, a DM is one
and has its two members only, and an ID is used once; a client ends up with every message of its conversations, once, and
its outbox empties, in order as long as nothing fails; watermarks never go back, and what a page was
told last is so, as far as the database lets the server tell it.

## Modules

```
Timeline                abstract: what callers of the message store are promised
  ^ refined by
MessageStore            the message path, one database access a step
  MCMessageStore        instances for TLC
  MessageStoreProofs    what holds whatever fails
    RecoveryProofs      what the recovery scan makes good
      TimelineProofs    MessageStore implements Timeline
AttachmentLifecycle     upload, send, PATCH and the janitor's sweeps
  MCAttachmentLifecycle instances for TLC
  AttachmentLifecycleProofs  nothing in use is taken away, and nothing taken away is used
Table                   abstract: things of which there is one to a key
  ^ refined by (usernames and their accounts; pairs of users and their DMs)
Directory               accounts, conversations, membership, ID counters
  MCDirectory           an instance for TLC
  DirectoryProofs       names, memberships, DMs and IDs, whatever fails and wherever it dies
    TableProofs         Directory implements Table, twice
ChatClient              outbox, live frames, resume, sync and history pages
  MCChatClient          instances for TLC
  ChatClientProofs      what the browser holds, sends and misses
Hub                     connections, presence, watermarks and reactions, and their fanout
  MCHub                 an instance for TLC
  HubProofs             types, rising watermarks, and that what is told is so
```

`ChatClient` composes the browser with the server's side of its connection. What it needs of
the message store is what `Timeline` promises and `TimelineProofs` shows the store to keep: an
append is one step, and a send that is in the log is answered from it. Who is in a conversation
(`Directory`) is fixed while messages are on their way, as nobody ever leaves one.

### MessageStore

The variables are the key ranges of the database (`message[c]`, `index` for `clientmsg:`,
`hint` for `convseq:`, `att` for attachment records, `preview` for the activity fields of
`conversation:`), the memory of the process (`last`, `loaded`, `mu`), each goroutine's place
(`pc`, `job`, `cursor`, `todo`, `pick`), the janitor's list (`doomed`), and observations
(`told`: every answer given; `aged`: how far a timeline is older than the janitor's
`maxAge`). A key range is a function whose domain is the keys present.

| Code | Actions |
|---|---|
| `AppendMessage` / `LastSeq` entry, `cs.mu.Lock()` | `Call`, `Lock` |
| `loadLocked`: hint and scan, re-put of index entries, re-commit of attachments | `Load`, `Rebuild`, `CommitGet`, `CommitPut`, `CommitDone`, `FinishLoad` |
| `LastSeq` result | `ReadLast` |
| idempotency lookup, attachment validation, message put | `Dedup`, `Validate`, `PutMessage` |
| `commitAttachments` (shared by scan and append) | `CommitGet`, `CommitPut`, `CommitDone`, `CommitError` |
| `clientmsg` put, hint put, `touchConversation` | `PutIndex`, `PutHint`, `Touch` |
| return, with the answer or with an error | `Reply`, `Fail` |
| `PruneClientMsgs` | `PruneList`, `PruneDelete` |
| death and restart of the process | `Crash` |

A failed put is taken to have written nothing, which is what the code takes it to be
(`messages.go:235`). A message body, its time and its file names are not told apart by any
property and are not there; a request stands for its `(senderID, clientMsgID)`. `Anonymous`
requests have an empty `clientMsgID`. The retry of a send is another `Call` of the same
request. An age is a mark that moves along a timeline (`Age`), since all the code does with
time is to compare it with a cutoff.

### AttachmentLifecycle

`blob[a]` is the file (`none`, `tmp`, `final`), `record[a]` the state in the metadata record
or `absent`, `sent[c]` the attachments referred to by a conversation's messages,
`avatar[u]` the profile's reference. `age[a]` is `unborn`, `new`, `hour`, `day`: exactly what
the guards of the sweeps compare. The file's `ModTime` and the record's `CreatedAt`, written
within one request, are taken to fall into the same class.

| Code | Actions |
|---|---|
| `blobs.Save`, `handleUpload` | `Upload`, `Save`, `Create`, `Discard` |
| `AppendMessage`, `LastSeq`, `loadLocked`, `commitAttachments`, as far as attachments depend on them | `Call`, `Lock`, `Recover`, `Validate`, `PutMessage`, `CommitGet`, `CommitPut`, `PutHint` |
| `handlePatchProfileSettings`, `validateAvatarAttachment`, `UpdateUser` | `Patch`, `Check`, `Claim`, `Update`, `Reclaim`, `Erase` |
| stale Pending sweep | `ListStale`, `SweepRemove`, `SweepDelete` |
| orphan blob sweep, temp files | `ListBlobs`, `BlobCheck`, `BlobRemove`, `SweepTmp` |
| orphan avatar sweep | `ListAvatars`, `OwnerCheck`, `OwnersDone`, `SweepRemove`, `SweepDelete`, `SweepDone` |
| time, restart | `Grow`, `Crash` |

`UpdateUser` reads and writes one key under `regMu`, and nothing else writes it without: one
step. A request never lasts as long as an age class (uploads have a read deadline of 60 s),
so an attachment in a request's hands does not grow older; a request that *starts* late is
in the constant `MayHappen`:

* `late claim`, `late use`: a PATCH with an upload older than an hour, a send or PATCH with
  one older than a day;
* `double claim`: a second PATCH with the same upload while the first is under way;
* `late recovery`: a day without any call on a conversation that has not been loaded since a
  restart.

The code prevents none of them. The safety run leaves them out, and `Expected` says of each
attachment which of them it must be spared for the properties to hold; the liveness run allows all of them; the run
`attachments_late_recovery` allows the last.

### Directory

A key range is a function or a set of pairs: `user`, `username`, `conv`, `member`,
`usermember`, `dm`, `hint`. The process has the counters `next` and `persisted`, the mutexes
`regMu` and `convMu`, and each goroutine's place, ID in hand
and members still to add. A client's request is a record of `Wanted`; a request may be made
again and again, also by the other goroutine. `answered` is every ID that was returned for it.

| Code | Actions |
|---|---|
| `handleRegister`, `handlePatchProfileSettings`, `handleCreateConversation`, `handleAddMember`: checks before the first write | `Register`, `Edit`, `Create` (`Welcome`), `Add` (`RequireMember`, `MayAdd`) |
| `CreateUser` | `LockUsers`, `LookUpName`, `PutUser`, `PutUsername`, `CountUser` |
| `UpdateUser` | `LockUsers`, `ReadProfile`, `PutProfile` |
| `CreateConversation` | `LockConvs`, `LookUpDM`, `PutConv`, `PutMember`, `PutUserMember`, `PutDM`, `CountConv` |
| `AddMember` / `addMember` | `PutMember`, `PutUserMember` |
| `counter.alloc`, `persist`; `openCounter` | `Alloc`, `Persist`; `Opened`, `Recovered` |
| death and restart of the process | `Crash` |
| `IsMember`, `ListMembers`, `ListUserConversations`, `GetUserByUsername`, the common conversations of `handleProfile` (`SharedConversations`: none on one's own profile) | the operators of those names, which the properties are stated with |

`Table` is what callers want of a check-then-put: a key is entered once, with an ID of its own, and
whoever asks for it is told that ID. `TableOfNames` reads `username` as its entries, and as told the accounts of
registrations that were answered; `TableOfDMs` reads `dm`, and as told the conversations that a
creation of the pair's DM was answered with, whichever of the two asked.

### ChatClient

One browser with one page, one conversation, and other members who send at any time. On the
server's side: the `log`, the read loop's place `srv`, the frames `up` and `down`, the messages that
handlers have appended and not fanned out yet (`fan`), those that are not fanned out at all because the members could not
be listed (`unsent`), and frames of a dead connection that its read loop had
already taken (`stray`). On the browser's: outbox `row`s, the stored messages `local`, the `mark` of
`bumpSyncState`, and the asynchronous functions under way (`flush`, `acking`, `catchup`, `page`).
A step of the browser is one turn between two awaits.

| Code | Actions |
|---|---|
| `connect`, `onclose`, a page load | `Connect`, `Drop`, `Reload` |
| `ServeHTTP`'s `register`; `handleResume` | `Register`; `Resume`, `Replay` |
| `handleSend`: append, ack, fanout; errors | `HandleSend`, `Ack`, `SendToOthers`, `Refuse`, `StraySend` |
| sends of other members; a fanout that is given up | `Send`, `SendToUsers`; `NoFanout` |
| `sendMessage`, `retry` | `Compose`, `Retry` |
| `flushOutbox`, `uploadRowAttachments`, `transmit`, its timer | `StartFlush`, `Pick`, `Upload`, `Transmit` (with `Submit`), `Timeout`, `GiveUp`, `GoOn`, `Fail` |
| `handleFrame`: message, ack, error | `Receive`, `TakeAck`, `AckDone` |
| `runSync`, `handleSync`; failed rows made pending in `onopen` | `SyncRead`, `SyncServe`, `SyncStore`, `SyncFail`; `Unfail` |
| `MessagePane`, `loadOlder`, `handleHistory` | `OpenPane`, `LoadOlder`, `StorePage` |
| `ListMessagesAfter`, `ListMessagesBefore` | operators `After`, `Before` |

A flush that an older connection began may send on a new one before its `onopen` has read the
`lastSeenMap` for the resume: `transmit` looks at the socket's `readyState` only. `Submit` therefore puts a
send before or behind the resume that waits to be sent. The awaits of `handleFrame`'s ack matter: the waiter is looked up when the ack arrives, and
called after three writes to IndexedDB, when the send may have been given up and tried again
(`"stale"`). A full outbound buffer closes the connection in the middle of a replay or a fanout.

### Hub

All users are members of one conversation. `conns` and `at` are the registry and how far
`ServeHTTP` is, `closes` counts the closings of a connection's `done` channel, `out` the frames queued. `job`
is what a goroutine is about: a connection's read loop, a REST handler, or one of
`broadcastPresence`. Frames are not kept: `told[c][t]` is the newest thing queued for connection
`c` on topic `t` (a user's presence, a user's watermarks, the reactions to a message), which is
what the page shows.

| Code | Actions |
|---|---|
| `register`, `unregister` | `Register`, `Unregister`, with `Broadcast` for `go broadcastPresence` |
| `writeLoop`, `close`; `CloseAll` | `Write`; `CloseAll` |
| `handleWatermark`, `updateReadState` under `readMu` | `GetMarks`, `PutMarks`, `FailPut` |
| `AddReaction`, `RemoveReaction` in the two `handleReaction`s (`ws/client.go`, `api/reaction_handlers.go`); `countReaction` | `ReactOverWS`, `ReactOverREST`; `CountReaction` |
| `sendToUsers` for presence, receipts and reactions; `trySend` | `Announce` (takes `hub.mu` for reading), `SendToUsers` (queues and releases it) |
| a count or a list that fails after the change: `handleReaction`, `handleWatermark`, `NotifyReaction`, `broadcastPresence` | `GiveUp` (nobody is told); `SendToOwn` (the user's own devices are) |

`GoOn` is what a goroutine does next with what it is about, `Trouble` what a failing database makes of
it, and the rest of `Next` is what peers, clients and a shutdown do. `MaxCalls` bounds requests and errors
together. `amiss` is an observation: the topics whose newest change
overlapped the announcing of another, or was not announced to everybody for an error.

## Runs

| Run | Shows | Bounds |
|---|---|---|
| `store_core` | types, single storage of a send, the recovery window, single use of an attachment in a timeline, refinement of `Timeline` | one conversation, three sends (two want the same attachment), two goroutines, 4 calls, 2 crashes; any database access may fail except the append's own index put and attachment commit |
| `store_faults` | density, a correct index, durable answers, nothing rewritten; a call gives its mutex back, and each of its steps leaves it less to do | as above, one crash, one anonymous send, *every* access may fail, retries arbitrarily late |
| `store_live` | every call returns or dies with the process | two conversations, fair goroutines |
| `attachments` | what is referenced or worn as avatar keeps record and bytes; no record appears after its bytes are gone | one message attachment, two avatars, two goroutines and the janitor, one error or crash |
| `attachments_live` | types; all garbage is reclaimed in the end | two attachments, one goroutine and the janitor, two errors or crashes of any kind, all surprises allowed |
| `directory` | types; a name leads to its account; a registration that was answered logs in; nothing is shown that is not authorised; a DM has its two members only, is complete once its key exists, and one at most is answered; IDs are not used twice; an edit changes its field only; usernames and DMs each implement `Table` | two users and a free name, seven requests (both sides ask for the DM, a group, a member added, a registration, two edits), 5 calls by two goroutines, 2 troubles: any put fails, or a crash |
| `client_catchup` | what the browser holds is what the server has; a row leaves the outbox only for a stored message; a resume that was replayed misses nothing but what was never fanned out; a pending row is owed a flush | one row with a file; three messages of others, two of them before the first connection and one of those held; buffer 2, cap 2, batches of 1; one click on retry; one trouble: a lost connection, a page load, a failed request or a failed fanout |
| `client_outbox` | types; rows are overtaken only after they failed; a pending row moves on | two rows of which the server may refuse the second, buffer 1, one history page of two messages, when there are none, one or two; ack time-outs at any moment; connections are lost by overflow and time-outs |
| `hub` | a live connection was told what is so; watermarks rise; no `done` is closed twice; a goroutine that is about something can go on with it | two connections of one user and one of another, two broadcasting goroutines, one REST handler, buffer 1, two reports, reactions or errors, a shutdown at any moment |
| `store_reuse`, `attachments_late_recovery`, `client_gap` | disagreements, see below | the least that shows them |

Why the bounds are enough. Two goroutines suffice for every pairwise race on one mutex; a
third would wait. In the store, three sends let a message be before, at and behind the hint when the
process dies, and the second crash hits the recovery of the first; four calls leave room for
a send, its retry, another send and a `LastSeq`. Two avatars are what a replacement needs, two
goroutines what makes it race with another. In the directory, five calls let a DM be asked for,
cut short by a crash, asked for by the other side and added to, with a registration beside it, and
the second trouble hits what repairs the first. In `client_catchup` the browser has a gap on either
side of what it holds, a cap that a gap can exceed, and a fanout of two that fills the buffer; one
trouble is a second connection, so that the frames of the first are met by the second's catch-up.
`client_outbox` leaves the messages of others out, which the flush never looks at, and can
therefore afford a second row, one that is refused, a page, and a buffer that every second frame overflows; a
click on retry adds nothing to it, as a row that can be retried has failed, which its properties
allow for, and is in `client_catchup`. In `hub`, a user
with two devices and one with one make first and last connections, and two changes in all are
what it takes to overlap or to follow each other, as one change and one error are for an announcement that
is dropped. The proofs below have none of these bounds.

The only bounds in guards are `MaxCalls` (in `Hub` too), `MaxCrashes`, `MaxTroubles`, `Retries`,
`MaxRetries`, `MaxPages` and `Others`, together with the sizes of `Conns`, `Casts`, `Callers` and
`Catchups`. `store_core`, `store_faults`, `attachments`, `directory` and `hub` use symmetry (of
goroutines, of the two avatars, of the two devices of one user), which no property tells apart; the
liveness runs use none. The attachment runs check deadlock (the janitor always has a step). The
others do not, because clients may stop calling and time may end: `hub` has `NobodyIsStuck`
instead: a goroutine in the middle of something can take its next step (`GoOn`), whatever its peers'
write loops do, with no help of an error, a client or a shutdown.

What the properties leave out on purpose. `ToldTheTruth` says nothing about a topic in `amiss`.
The announcements of overlapping changes are queued in any order, and the code has nothing against
it. And what is stored may not be announced at all: a receipt when `ListMembers` fails (`ws/client.go:311-314`), a
reaction when its count fails (`ws/client.go:283-286`) or `ListMembers` does (`ws/hub.go:150-153`), a presence
when the user's conversations cannot be listed (`ws/hub.go:96-100`); a presence reaches some only when the members of a
conversation cannot be (`ws/hub.go:103-106`). Each stays so until the next change. `NothingMissed` is about a gap
within the replay cap; beyond it the code relies on sync, and `client_gap` shows what that is worth. It leaves out a
message whose handler returned without a fanout, as `ListMembers` failed after the append and the ack (`ws/client.go:375-378`).
`OvertakenRowsSlipped` allows a row to be overtaken after it failed, `FlushIsOwed` and `RowsMoveOn` a pending row to wait
behind one that did. `KeyedDMIsComplete` speaks of each side's view of the other's profile, as one's own shows no
common conversations (`api/profile_handlers.go:49-51`).

Fairness. A goroutine that can go on does (`WF` of `Step`). Go's `sync.Mutex` hands the lock
to a waiter that starves, so a mutex that is free again and again is won (`SF` of `Lock`). No
fairness is assumed of clients, crashes, faults or the pruning. `AttachmentLifecycle` adds the
ticker (`WF` of `Sweep`) and time: between requests on an attachment it grows older (`SF`
of `Grow`). Errors are bounded there, as a disk that always fails reclaims nothing. In `ChatClient`
(`FairSpec`) what goes on by itself is weakly fair: the read loop, frames in order, the page's
functions once they run, its timers, the catch-up and the reconnects of `onclose`. Nothing is assumed of the
user, of other members, or of connections staying up.

Every property of a passing run has a mutant in the module, a definition that changes the
code the way a plausible bug would (a scan that starts one late, a hint before the index, a
missing age guard); they stand right before the definition they replace.

## What is proved

For every choice of conversations, sends, attachments and goroutines, and without bounds on
calls and crashes other than being natural numbers. The inductive invariants (`Base`, `IndInv`, `Shape`,
`Marking`, `Truthful`) stand in the `Proofs` modules, next to the proofs that need them. TLC found no violation of
them on the instances of the runs, but no run repeats that, as the theorems say more; an MC module that
extends the `Proofs` module instead of the component's checks them again.

* **Whatever fails** (`MessageStoreProofs`). `Base` is inductive: types; where each goroutine
  is and that it holds its conversation's mutex from `Lock` to its return (`Control`); each
  timeline is an initial segment of the naturals and `last` is its end when loaded (`Shape`);
  the cursor of a goroutine stands for the message it claims (`InHand`); index entries lead to
  their own send; answers hold. From it: `TypeCorrect`, `TimelineIsDense`, `IndexIsRight`,
  `AnswersAreDurable`, `NothingIsRewritten`. Density is not inductive alone: without `Control`
  two goroutines could put at the same `last + 1`, and without `InHand` the recovery scan could
  end short of the tip. Two more are the safety half of `CallsReturn`, what is left of it being fairness.
  `MutexesAreReleased`: a conversation's mutex is held only for a call at work on it, so no
  return, error or crash leaves it locked. `CallsComeToAnEnd`: whatever a goroutine does next takes its call
  further in a well-founded order (the place in the code; within the scan the messages left, within a commit
  the attachments left), and nobody else's step sets it back. The second needs `Control` and `Shape`: the
  scan runs out of messages because whoever would append has to hold the mutex that the scan holds.
* **What recovery makes good** (`RecoveryProofs`). `IndInv` adds that all a scan would skip is
  settled (indexed unless old, no attachment looking Pending), except the message in hand
  (`Recovery`); that a send past its checks is not stored yet (`Fresh`); and that the janitor
  deletes entries of old messages only (`DoomedAged`). From it: `RecoveryIsInductive`,
  `SendsAreStoredOnce`, `AttachmentsAreUsedOnce`, `HintIsSafe`. These theorems assume
  `Recoverable`: the append's index put and attachment commit do not fail while the process
  lives on, and nobody retries what was pruned. Both are needed: without the first, the next
  append moves the hint past a message that has no index entry (`messages.go:249-250` expects the
  next load to rebuild it); without the second, the retry is stored again, as `janitor.go:8-9`
  concedes.
* **Refinement** (`TimelineProofs`). Under `Recoverable`, `StoreImplementsTimeline`: with
  `message` read as the log, `PutMessage` is `Accept`, `Reply` is `Answer` or `Report`, and
  everything else, crashes included, stutters.

* **Hub** (`HubProofs`), for any users, connections, goroutines, buffer and number of calls. `Shape` is
  inductive: types, the registry holds exactly the open connections, and a goroutine with a raised
  state in hand is a connection's. From it `TypeCorrect`. `Marking` adds that only the holder of
  `readMu` has a state in hand and that it is no less than the stored one, which needs the mutex
  around read and put; from it `MarksNeverFall`. `Truthful` adds, for each topic that is not in
  `amiss`, that one goroutine at most announces it, that what it has in hand is so, and that a connection
  it leaves out has not been told anything else meanwhile; with the registry's part of `Shape` (a live
  connection is in every fanout) it gives `ToldIsTrue`.

* **Directory** (`DirectoryProofs`), for any accounts, requests and goroutines. `IndInv` says where each
  goroutine is and which mutex it holds (`Control`), that the counters are beyond every key of their kind and
  within the names they stand for (`Counters`, `Bounded`), and, for each key that one request writes after another,
  what is true of the database when it is about to be put (`InHand`): the name is free until the index entry
  is there, a pair has no key until its members are, a member is in `member` before `usermember`. That is why it
  is needed: "a DM whose key exists is complete" does not follow from itself, but from what the goroutine at
  the key has done before. A crash takes what is in hand and leaves the rest. From it `Invariance`,
  `TypeCorrect`, `NamesAreAccounts`, `RegistrationIsKept`, `ListsAreAuthorised`, `DMsArePrivate`,
  `KeyedDMsAreWhole`, `OneDMForEver`, and the action properties `IDsAreUsedOnce` and `EditsStay`. Any of the
  puts may fail and any crash may happen in these theorems.
* **Refinement of `Table`** (`TableProofs`). `NamesAreATable` and `DMsAreATable`: with the usernames as keys,
  `PutUsername` is `Enter` and the answer of `CountUser` is `Tell`; with pairs of users as keys, `PutDM` is
  `Enter`, and `Tell` is the answer of `LookUpDM` or `CountConv`. Everything else stutters, crashes
  and failed puts included. That an ID entered is no other key's needs of names what `InHand` says of the account
  about to be indexed (it is in no index), and of DMs `KeyOfParty`: a key leads to a conversation
  that was made for its pair.
* **Web client** (`ChatClientProofs`), for any number of rows, messages, connections and catch-ups, and any
  buffer, cap and batch. `IndInv` says that what is under way is as true as what has arrived: a frame in
  `down`, in `fan` or in the read loop's hands is of the log (`Wire`, `Server`); a page, a batch and a resume report
  at most the log's end (`CatchingUp`); an ack that is being handled is of a stored row (`Outbox`); and a
  row that is sent, wherever it waits, has before it only rows that have arrived or have failed (`Settled`), which
  is why the log's order is the outbox's but for failed rows. A message beyond what was replayed is held,
  `Coming`, or in `unsent`, which none leaves; each step that takes one off the wire stores it or ends the connection, and a fanout that is given up puts it in `unsent`.
  From it `Invariance`, `TypeCorrect`, `StoreIsTrue`, `NothingIsLost`,
  `ResumeMissesNothing`, `RowsKeepTheirOrder`. `FlushIsNeverForgotten` is the safety half
  of `RowsMoveOn`: while no row has failed, a pending one has a flush under way, or a connection that will
  start one. Its invariant is `Woken`, which adds to the property that a catch-up that is not running
  is one that an `onopen` may take up from its start.
* **Attachments** (`AttachmentLifecycleProofs`), for any attachments, users, conversations and goroutines, with
  any error and any crash. This is about a directory and a database without a common transaction, where every put
  and every removal acts on what was read steps before. `IndInv` says that what was read is nevertheless
  still so: an upload in hand is nobody else's and has no record yet (`Uploaded`), a
  send's attachment is there when the message is put (`Sendable`), a claimed upload is Pending, with its file, until it is
  an avatar that no profile shows yet (`Claimed`), a replaced avatar is in no profile and nobody is about to put it
  there (`Replaced`), and what is on the janitor's lists is too old for any request, so that it can only have
  been deleted meanwhile (`Swept`). `References` and `Scanned` say that a message's attachment is Committed unless
  it is the one in hand or its conversation is still to be scanned, and then it is too young for the sweep; this rests on
  `Control`, that a goroutine scans and appends with its conversation's mutex.

  All of it is said of the attachments that are `Expected`: `Invariance` itself assumes nothing, and shows
  that what happens to one that is not harms no other. From it `TypeCorrect`; `ReferencesStayBacked`, if those
  that may be sent are `Expected`, whatever is done with avatars; `AvatarsStayBacked`, if those that may become avatars
  are; and the action property `GoneForGood`, if all are. TLC finds no violation of `IndInv`
  on the instance of `attachments` either; it takes long, so no run repeats it. Each part of `Expected` is needed, or TLC finds a
  violation on the instance of `attachments`:
  * `SendsExpected`: no send of an upload older than a day, which may be on the stale sweep's list; no day without
    a call on a conversation that is not loaded, which leaves the attachment of its last message Pending
    (run `attachments_late_recovery`); and no commit that fails while the process lives on, as nothing would
    commit that attachment before the next restart;
  * `ClaimsExpected`: no claim of an upload older than an hour, which the avatar sweep may list before the
    profile shows it; no second claim beside the first, which brings back the record of an avatar that was replaced;
    and no failing `GetUser` in the avatar sweep, for which the avatar would be an orphan (`attachments.go:73`);
  * one use of an upload. A send and a PATCH can both find it Pending, and the PATCH's put makes an avatar of
    what a message refers to (`settings_handlers.go:94`).

The assumptions on constants (`SetsAssumption`, `RequestsAssumption`, `UsersAssumption`,
`NoneAssumption`, `NamesAssumption`, `ClientsAssumption`, `FaultsAssumption`, `RowsAssumption`, `LimitsAssumption`, `BoundsAssumption`) say that names do
not collide, that tables are functions, that the set of users or accounts is finite, that a buffer, a cap and a batch are positive, and
that bounds are numbers; TLC evaluates them in every run.

Only model-checked: liveness (`CallsReturn`, `GarbageIsReclaimed`, `RowsMoveOn`), of which the first and
the last have their safety halves proved (above), and `NobodyIsStuck`,
an `ENABLED`, which the prover does not reach. There is no recursive operator in these modules, and nothing in them needs
induction over data.

## What disagrees with its documentation

1. `store_reuse`: "an attachment belongs to exactly one conversation" (`messages.go:202-203`)
   fails for concurrent sends into two conversations.
2. `attachments_late_recovery`: "a referenced attachment can never be janitored"
   (`src/README.md:227-228`) fails when a crash falls between message and commit and the
   conversation stays untouched for a day.
3. `client_gap`: the mark of a conversation is not the "highest contiguous-tip seq we hold"
   (`src/web/src/db/local.ts:30-31`). After a gap beyond the replay cap, a live frame that is stored
   before sync reads the mark makes sync ask from beyond the gap, and later resumes too; only
   scrolling back fills it.

Met on the way, with no run of its own:

* a `clientmsg` put that fails is said to be rebuilt on the next load (`messages.go:249-250`); the next
  append moves the hint past the message first;
* a retry after the entry was pruned is stored again, against "retries can never duplicate"
  (`src/web/src/db/local.ts:6`);
* the age guard that "keeps in-flight profile PATCHes safe" (`attachments.go:45-46`) measures the
  upload's age, not the claim's;
* `ListOrphanAvatarAttachments` takes a profile it cannot read for one that does not use the
  avatar (`attachments.go:73`);
* a crash before the `dm:` key leaves a conversation that its members see beside the one made
  later (`conversations.go:26-29` takes one invisible to some for the worst outcome);
* "the server assigns sequences in client order" (`src/README.md:194-195`) fails for a row behind
  one that failed and is retried;
* a row behind one that timed out stays pending with nobody to send it, when the late ack removes the failed
  one (`src/web/src/ws/useWebSocket.ts:254-286`), until the next message, retry or connection;
  `FlushIsOwed` therefore speaks of outboxes without a failed row;
* reactions are called "race-free" (`reactions.go:10-12`); what is stored is, but two counts may be
  announced in the wrong order and stay wrong until the next;
* a message whose handler could not list the members is neither held nor on its way on a live connection that has
  resumed (`ws/client.go:375-378`), against "never be missed" (`ws/client.go:238-242`); the next frame moves the mark
  past it, so that no resume and no sync brings it, only scrolling back;
* in the same way a stored watermark, reaction or presence is not announced when a list or a count fails after it
  (`ws/client.go:283-286`, `311-314`, `ws/hub.go:96-106`, `150-153`);
* a replayed or live message has no reactions and replaces the stored one that has them
  (`src/web/src/ws/useWebSocket.ts:89`);
* `api/ratelimit.go:50` drops keys whose list is empty, and no list ever is when it is looked at;
* the write buffer is 64 messages in `src/README.md:281` and 256 in `ws/client.go:22`.

## What is left

* The typing relay's throttle and the rate limiters, which only refuse.

## Not modelled

* Devices (independent upserts of one key), authentication and validation (checks of a single
  request), routing, pages and assets: no protocol state.
* A resume whose scan fails, or whose membership check does: it replays nothing, as for a gap beyond the cap, which is there.
* Errors that leave nothing behind: a read or a put that fails before anything has changed and holds no mutex ends its
  request, which might as well not have come.
* Rate limiters and frame budgets: arithmetic under one mutex that refuses a request; a refused send
  is `Refuse` of `ChatClient`. The typing relay: frames that are not stored and that nobody
  misses.
* Several tabs of one browser, and the wipe of the local database when another user logs in: the
  pages share IndexedDB and nothing in the repository says what should hold between them.
* `ReactionsForRange`, which adds the reactions to a page that is read, and downloads of attachments.
* PetDB and the WebSocket library are outside the repository. PetDB is taken at what the code relies
  on: a put or delete that returns without an error is durable and atomic for its key, one that fails has
  written nothing, and a scan sees a snapshot. Of the library, that frames of one connection arrive in order
  or not at all, and that a close returns.

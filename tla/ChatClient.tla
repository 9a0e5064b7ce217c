----------------------------- MODULE ChatClient ------------------------------
(***************************************************************************)
(* How messages get from a browser to the server and back: the outbox and  *)
(* its flush, the live frames, the resume replay, the REST catch-up and    *)
(* the history pages of the web client (src/web/src/ws/useWebSocket.ts,    *)
(* db/local.ts, components/MessagePane.tsx), with the server's side of     *)
(* them (ws/client.go, ws/hub.go, api/sync_handlers.go, store/sync.go,     *)
(* ListMessagesBefore), for one browser and one conversation.              *)
(*                                                                         *)
(* The message store is Timeline's: an append is one step, and a send that *)
(* is in the log is answered from it.  One step of the browser is one turn *)
(* between two awaits; one step of the server is one call to the store or  *)
(* the queuing of one frame.                                                *)
(***************************************************************************)
EXTENDS Integers, Sequences, SequencesExt, FiniteSetsExt

CONSTANTS
  NRows,       \* messages the user writes, numbered by time
  WithFiles,   \* those that have files to upload first
  Refused,     \* those the server may answer with an error frame
  Others,      \* bound: messages the other members send
  Backlog,     \* of these, sent before the browser connects
  Held,        \* seqs of these that the browser has from earlier visits
  Buffer,      \* outboundBuffer
  ReplayCap,   \* resumeReplayCap
  SyncBatch,   \* maxSyncBatch
  PageSize,    \* the limit of a history page
  Catchups,    \* bound: catch-ups of the browser that overlap
  MaxTroubles, \* bound: connections lost, page loads, and requests and fanouts that fail
  MaxRetries,  \* bound: clicks on a failed row
  MaxPages     \* bound: history pages asked for

Rows == 1..NRows

ASSUME RowsAssumption == NRows \in Nat /\ WithFiles \subseteq Rows /\ Refused \subseteq Rows
ASSUME LimitsAssumption ==
  /\ {Buffer, ReplayCap, SyncBatch, PageSize} \subseteq Nat \ {0}
  /\ {Others, Backlog, MaxTroubles, MaxRetries, MaxPages} \subseteq Nat
  /\ Backlog <= Others /\ Held \subseteq 1..Backlog

VARIABLES
  \* the server
  log,      \* log[n]: the message with seq n, a row of ours or Other
  fan,      \* seqs appended by a handler that has still to send them to the members
  unsent,   \* seqs of those whose handler could not list the members: nobody is sent it
  stray,    \* rows sent on a connection that died before they were read, or appended
  \* the connection, as the server has it
  srv,      \* what its read loop is doing: see Srv
  up, down, \* frames to the server, frames to the browser
  \* IndexedDB
  row,      \* row[r]: "unwritten", "pending", "failed" or "gone"
  local,    \* local[n]: the stored message with seq n; its domain is the keys present
  mark,     \* syncState.lastSeq, 0 without one
  \* the page
  flush,    \* flushOutbox: see Flush
  acking,   \* acks being handled: the row, and the waiter the handler took:
            \* "live", "stale" once the send has been given up, or "none"
  catchup,  \* catchup[k]: the work of an onopen
  page,     \* the history page that has been asked for
  \* what happened, and bounds
  from,     \* the lastSeen from which resume has replayed, -1 when it has not
  slipped,  \* rows that have failed: given up by a flush, or refused
  others, troubles, retries, pages

server  == <<log, fan, unsent, stray>>
wire    == <<srv, up, down>>
idb     == <<row, local, mark>>
tab     == <<flush, acking, catchup, page>>
counts  == <<others, troubles, retries, pages>>
vars    == <<server, wire, idb, tab, from, slipped, counts>>

Other == 0
Nowhere == [at |-> "off", row |-> 0, seq |-> 0, upto |-> 0]
NoFlush == [at |-> "idle", row |-> 0]
NoCatchup == [at |-> "idle", since |-> 0, upto |-> 0, more |-> FALSE, first |-> TRUE]
NoPage == [at |-> "none", lo |-> 0, hi |-> 0]

Frame(type, r, n) == [type |-> type, row |-> r, seq |-> n]

Init ==
  /\ log = [n \in 1..Backlog |-> Other]
  /\ fan = {}
  /\ unsent = {}
  /\ stray = {}
  /\ srv = Nowhere
  /\ up = <<>>
  /\ down = <<>>
  /\ row = [r \in Rows |-> "unwritten"]
  /\ local = [n \in Held |-> Other]
  /\ mark = Max({0} \cup Held)
  /\ flush = NoFlush
  /\ acking = {}
  /\ catchup = [k \in Catchups |-> NoCatchup]
  /\ page = NoPage
  /\ from = -1
  /\ slipped = {}
  /\ others = Backlog
  /\ troubles = 0
  /\ retries = 0
  /\ pages = 0

-----------------------------------------------------------------------------
(* The local database.                                                     *)

\* storeMessage and storeMessages: put the rows, and raise the mark to the
\* greatest seq stored (bumpSyncState).
Store(msgs) ==
  /\ local' = [n \in DOMAIN local \cup DOMAIN msgs |->
                 IF n \in DOMAIN msgs THEN msgs[n] ELSE local[n]]
  /\ mark' = Max({mark} \cup DOMAIN msgs)
Stretch(lo, hi) == [n \in lo..hi |-> log[n]]

-----------------------------------------------------------------------------
(* History reads of the server.                                            *)

\* ListMessagesAfter: the seqs after one, up to a limit, and whether more remain.
After(n, limit) == [upto |-> Min({n + limit, Len(log)}), more |-> n + limit < Len(log)]
\* ListMessagesBefore: the page that ends below before; 0 is from the newest.
Before(before, limit) ==
  LET end == IF before = 0 THEN Len(log) + 1 ELSE before
  IN  IF end <= 1 THEN [lo |-> 1, hi |-> 0]
      ELSE [lo |-> IF end > limit THEN end - limit ELSE 1, hi |-> Min({end - 1, Len(log)})]

-----------------------------------------------------------------------------
(* The connection.                                                         *)

\* From ServeHTTP's accept, before register, to its end.
Open == srv.at # "off"
\* Mutant: a connection joins the fanout once its replay is over.
RegisteredLate == srv.at \notin {"off", "accepted", "replay"}
Registered == srv.at \notin {"off", "accepted"}

Reading == [Nowhere EXCEPT !.at = "read"]

\* A handler of the connection's own send goes on when the connection is gone,
\* and then no longer leaves it out of its fanout.
Owed(s) == IF s.at \in {"ack", "members"} THEN {s.seq} ELSE {}

\* The sends among the frames to the server: a connection has one resume.
Resumed(u) == {i \in DOMAIN u : u[i].type = "resume"}
Sends(u) == IF Resumed(u) = {} THEN u ELSE RemoveAt(u, CHOOSE i \in Resumed(u) : TRUE)

\* The connection is gone, with all that was queued; sends the browser had
\* put on it, those in u, may still be read.
Lose(s, f, u) ==
  /\ srv' = Nowhere
  /\ up' = <<>>
  /\ down' = <<>>
  /\ from' = -1
  /\ fan' = f \cup Owed(s)
  /\ stray' = IF Sends(u) = <<>> THEN stray ELSE stray \cup {Sends(u)}

\* Mutant: a buffer without a limit.
TrySendAlways(frame, s, f, u) ==
  /\ down' = Append(down, frame)
  /\ srv' = s
  /\ fan' = f
  /\ up' = u
  /\ UNCHANGED <<from, stray>>

\* trySend, as the read loop goes to s, the fanouts to f and the frames to the
\* server to u: queue a frame; a full buffer closes the connection instead.
TrySend(frame, s, f, u) ==
  IF Len(down) < Buffer
  THEN /\ down' = Append(down, frame)
       /\ srv' = s
       /\ fan' = f
       /\ up' = u
       /\ UNCHANGED <<from, stray>>
  ELSE Lose(s, f, u)

\* The browser opens a connection: onopen sends resume with what lastSeenMap
\* says, which no frame of this connection can have changed yet; a flush may
\* send before that, as Transmit has it.
Connect(k) ==
  /\ ~Open
  /\ catchup[k].at = "idle"
  /\ srv' = [Nowhere EXCEPT !.at = "accepted"]
  /\ up' = <<Frame("resume", 0, mark)>>
  /\ catchup' = [catchup EXCEPT ![k].at = "read"]
  /\ UNCHANGED <<server, down, idb, flush, acking, page, from, slipped, counts>>

Register ==
  /\ srv.at = "accepted"
  /\ srv' = Reading
  /\ UNCHANGED <<server, up, down, idb, tab, from, slipped, counts>>

\* Either side closes, or the network does.
Drop ==
  /\ Open
  /\ troubles < MaxTroubles
  /\ troubles' = troubles + 1
  /\ Lose(srv, fan, up)
  /\ UNCHANGED <<log, unsent, idb, tab, slipped, others, retries, pages>>

\* The page is closed or reloaded: IndexedDB is all that is left.
Reload ==
  /\ troubles < MaxTroubles
  /\ troubles' = troubles + 1
  /\ flush' = NoFlush
  /\ acking' = {}
  /\ catchup' = [k \in Catchups |-> NoCatchup]
  /\ page' = NoPage
  /\ Lose(srv, fan, up)
  /\ UNCHANGED <<log, unsent, idb, slipped, others, retries, pages>>

-----------------------------------------------------------------------------
(* The server's read loop, and the handlers of other members' sends.       *)

\* handleResume: nothing for a conversation without a mark, nor for a gap
\* beyond the cap; else the scan, whose result is replayed frame by frame.
Resume ==
  /\ srv.at = "read"
  /\ up # <<>> /\ Head(up).type = "resume"
  /\ LET n == Head(up).seq
         found == After(n, ReplayCap)
     IN  IF n = 0 \/ found.more
         THEN UNCHANGED <<srv, from>>
         ELSE /\ from' = n
              /\ srv' = IF found.upto = n THEN srv
                        ELSE [Reading EXCEPT !.at = "replay", !.seq = n + 1, !.upto = found.upto]
  /\ up' = Tail(up)
  /\ UNCHANGED <<server, down, idb, tab, slipped, counts>>

Replay ==
  /\ srv.at = "replay"
  /\ TrySend(Frame("message", 0, srv.seq),
             IF srv.seq = srv.upto THEN Reading ELSE [srv EXCEPT !.seq = @ + 1], fan, up)
  /\ UNCHANGED <<log, unsent, idb, tab, slipped, counts>>

\* Mutant: a retry is answered with the next seq.
SeqForNext(r) == Len(log) + 1

\* AppendMessage: the original seq for a row the log has, else the next one.
SeqFor(r) == IF r \in Range(log) THEN (CHOOSE n \in DOMAIN log : log[n] = r) ELSE Len(log) + 1
Stored(r) == IF r \in Range(log) THEN log ELSE Append(log, r)

\* handleSend up to the append; or one of its error frames, rate_limited included.
HandleSend ==
  /\ srv.at = "read"
  /\ up # <<>> /\ Head(up).type = "send"
  /\ LET r == Head(up).row IN
     /\ log' = Stored(r)
     /\ srv' = [Reading EXCEPT !.at = "ack", !.row = r, !.seq = SeqFor(r)]
  /\ up' = Tail(up)
  /\ UNCHANGED <<fan, unsent, stray, down, idb, tab, from, slipped, counts>>

Refuse ==
  /\ srv.at = "read"
  /\ up # <<>> /\ Head(up).type = "send" /\ Head(up).row \in Refused
  /\ TrySend(Frame("error", Head(up).row, 0), Reading, fan, Tail(up))
  /\ UNCHANGED <<log, unsent, idb, tab, slipped, counts>>

Ack ==
  /\ srv.at = "ack"
  /\ TrySend(Frame("ack", srv.row, srv.seq), [srv EXCEPT !.at = "members"], fan, up)
  /\ UNCHANGED <<log, unsent, idb, tab, slipped, counts>>

\* The fanout of the connection's own send leaves the connection out; when
\* ListMembers fails there is none, which for the connection is the same.
SendToOthers ==
  /\ srv.at = "members"
  /\ srv' = Reading
  /\ UNCHANGED <<server, up, down, idb, tab, from, slipped, counts>>

\* Another member's send, or one of a connection that died: append, later fanout.
Send ==
  /\ others < Others
  /\ others' = others + 1
  /\ log' = Append(log, Other)
  /\ fan' = fan \cup {Len(log) + 1}
  /\ UNCHANGED <<unsent, stray, wire, idb, tab, from, slipped, troubles, retries, pages>>

StraySend(sends) ==
  /\ sends \in stray
  /\ stray' = (stray \ {sends}) \cup (IF Len(sends) = 1 THEN {} ELSE {Tail(sends)})
  /\ log' = Stored(Head(sends).row)
  /\ fan' = fan \cup {SeqFor(Head(sends).row)}
  /\ UNCHANGED <<unsent, wire, idb, tab, from, slipped, counts>>

\* sendToUsers, as far as this browser's connection is concerned.
SendToUsers(n) ==
  /\ n \in fan
  /\ IF Registered
     THEN TrySend(Frame("message", 0, n), srv, fan \ {n}, up)
     ELSE fan' = fan \ {n} /\ UNCHANGED <<stray, wire, from>>
  /\ UNCHANGED <<log, unsent, idb, tab, slipped, counts>>

\* ListMembers fails after the append and the ack: handleSend returns without a
\* fanout, and nothing makes up for it.
NoFanout(n) ==
  /\ n \in fan
  /\ troubles < MaxTroubles
  /\ troubles' = troubles + 1
  /\ fan' = fan \ {n}
  /\ unsent' = unsent \cup {n}
  /\ UNCHANGED <<log, stray, wire, idb, tab, from, slipped, others, retries, pages>>

-----------------------------------------------------------------------------
(* The outbox.                                                             *)

\* flushOutbox returns at once when a flush is under way.
StartFlush == flush' = IF flush.at = "idle" THEN [flush EXCEPT !.at = "pick"] ELSE flush

Written(r) == row[r] \notin {"unwritten", "gone"}
FailRow(r) == row' = IF Written(r) THEN [row EXCEPT ![r] = "failed"] ELSE row
\* The flush has failed to send its row, and goes on to mark it so; the waiter
\* is out of the map, and of no use to an ack that is being handled.
Fail ==
  /\ flush' = [flush EXCEPT !.at = "fail"]
  /\ slipped' = slipped \cup {flush.row}
  /\ acking' = {<<a[1], IF a[2] = "live" THEN "stale" ELSE a[2]>> : a \in acking}

\* sendMessage: the row is on disk before anything is tried.
Compose(r) ==
  /\ row[r] = "unwritten"
  /\ \A q \in 1..(r - 1) : row[q] # "unwritten"
  /\ row' = [row EXCEPT ![r] = "pending"]
  /\ StartFlush
  /\ UNCHANGED <<server, wire, local, mark, acking, catchup, page, from, slipped, counts>>

Retry(r) ==
  /\ row[r] = "failed"
  /\ retries < MaxRetries
  /\ retries' = retries + 1
  /\ row' = [row EXCEPT ![r] = "pending"]
  /\ StartFlush
  /\ UNCHANGED <<server, wire, local, mark, acking, catchup, page, from, slipped,
                 others, troubles, pages>>

\* Mutant: the last pending row.
PickLast ==
  /\ flush.at = "pick"
  /\ LET waiting == {r \in Rows : row[r] = "pending"} IN
     flush' = IF waiting = {} THEN NoFlush
              ELSE [at |-> IF Max(waiting) \in WithFiles THEN "upload" ELSE "send",
                    row |-> Max(waiting)]
  /\ UNCHANGED <<server, wire, idb, acking, catchup, page, from, slipped, counts>>

\* The first pending row by time; rows that failed are passed over.
Pick ==
  /\ flush.at = "pick"
  /\ LET waiting == {r \in Rows : row[r] = "pending"} IN
     flush' = IF waiting = {} THEN NoFlush
              ELSE [at |-> IF Min(waiting) \in WithFiles THEN "upload" ELSE "send",
                    row |-> Min(waiting)]
  /\ UNCHANGED <<server, wire, idb, acking, catchup, page, from, slipped, counts>>

\* uploadRowAttachments: all files of the row, or the row fails.
Upload ==
  /\ flush.at = "upload"
  /\ \/ /\ flush' = [flush EXCEPT !.at = "send"]
        /\ UNCHANGED <<acking, slipped>>
     \/ Fail
  /\ UNCHANGED <<server, wire, idb, catchup, page, from, counts>>

\* A flush sends its frame; it comes before the resume of an onopen that still
\* awaits lastSeenMap.
Submit(frame) ==
  \/ up' = Append(up, frame)
  \/ /\ \E k \in Catchups : catchup[k].at = "read"
     /\ up # <<>> /\ Last(up).type = "resume"
     /\ up' = Front(up) \o <<frame, Last(up)>>

\* transmit: the frame, a waiter and a timer; or there is no connection.
Transmit ==
  /\ flush.at = "send"
  /\ IF Open
     THEN /\ Submit(Frame("send", flush.row, 0))
          /\ flush' = [flush EXCEPT !.at = "await"]
          /\ UNCHANGED <<acking, slipped>>
     ELSE Fail /\ UNCHANGED up
  /\ UNCHANGED <<server, srv, down, idb, catchup, page, from, counts>>

\* No ack within ACK_TIMEOUT_MS.
Timeout ==
  /\ flush.at \in {"await", "deaf"}
  /\ Fail
  /\ UNCHANGED <<server, wire, idb, catchup, page, from, counts>>

\* The row is marked failed if it is still there, and the flush stops.
GiveUp ==
  /\ flush.at = "fail"
  /\ FailRow(flush.row)
  /\ flush' = NoFlush
  /\ UNCHANGED <<server, wire, local, mark, acking, catchup, page, from, slipped, counts>>

-----------------------------------------------------------------------------
(* Frames from the server.                                                 *)

Awaited(r) == flush.at = "await" /\ flush.row = r
\* Mutant: one row to a flush.
StopHere == flush' = NoFlush
\* The loop of flushOutbox goes on after an ack.
GoOn == flush' = [NoFlush EXCEPT !.at = "pick"]

\* Mutant: the message is left to the fanout.
TakeAckOnly(r, n) == UNCHANGED <<local, mark>>
\* The message of an ack is stored under its seq; its row goes in AckDone.
TakeAck(r, n) == Store([m \in {n} |-> r])

Receive ==
  /\ down # <<>>
  /\ down' = Tail(down)
  /\ LET f == Head(down) IN
     \/ /\ f.type = "message"
        /\ Store(Stretch(f.seq, f.seq))
        /\ UNCHANGED <<row, slipped, flush, acking>>
     \/ /\ f.type = "ack"
        /\ IF Written(f.row)
           THEN /\ TakeAck(f.row, f.seq)
                /\ acking' = acking \cup {<<f.row, IF Awaited(f.row) THEN "live" ELSE "none">>}
                /\ UNCHANGED flush
           ELSE /\ IF Awaited(f.row) THEN GoOn ELSE UNCHANGED flush
                /\ UNCHANGED <<local, mark, acking>>
        /\ UNCHANGED <<row, slipped>>
     \/ /\ f.type = "error"
        /\ FailRow(f.row)
        /\ IF Awaited(f.row) THEN Fail
           ELSE /\ slipped' = IF Written(f.row) THEN slipped \cup {f.row} ELSE slipped
                /\ UNCHANGED <<flush, acking>>
        /\ UNCHANGED <<local, mark>>
  /\ UNCHANGED <<server, srv, up, catchup, page, from, counts>>

\* The row goes, and the waiter is called: a stale one resolves nothing, but
\* takes the waiter of a later attempt at the row out of the map.
AckDone(r) ==
  /\ \E w \in {"live", "stale", "none"} :
       /\ <<r, w>> \in acking
       /\ acking' = acking \ {<<r, w>>}
       /\ \/ w = "live" /\ GoOn
          \/ w = "stale" /\ flush' = IF Awaited(r) THEN [flush EXCEPT !.at = "deaf"] ELSE flush
          \/ w = "none" /\ UNCHANGED flush
  /\ row' = [row EXCEPT ![r] = "gone"]
  /\ UNCHANGED <<server, wire, local, mark, catchup, page, from, slipped, counts>>

-----------------------------------------------------------------------------
(* Catch-up: runSync, then the failed rows, then the flush.                *)

\* runSync: lastSeenMap.
SyncRead(k) ==
  /\ catchup[k].at = "read"
  /\ catchup' = [catchup EXCEPT ![k].at = "asked", ![k].since = mark]
  /\ UNCHANGED <<server, wire, idb, flush, acking, page, from, slipped, counts>>

\* handleSync.
SyncServe(k) ==
  /\ catchup[k].at = "asked"
  /\ LET found == After(catchup[k].since, SyncBatch) IN
     catchup' = [catchup EXCEPT ![k].at = "answered",
                                ![k].upto = found.upto, ![k].more = found.more]
  /\ UNCHANGED <<server, wire, idb, flush, acking, page, from, slipped, counts>>

\* The first runSync is awaited; the ones it calls for more are not.  They
\* share no data with Unfail, so they may as well come after it.
AfterSync(c, more) ==
  CASE c.first -> [c EXCEPT !.at = "unfail", !.more = more]
    [] ~c.first /\ more -> [NoCatchup EXCEPT !.at = "read", !.first = FALSE]
    [] OTHER -> NoCatchup

SyncStore(k) ==
  /\ catchup[k].at = "answered"
  /\ Store(Stretch(catchup[k].since + 1, catchup[k].upto))
  /\ catchup' = [catchup EXCEPT ![k] = AfterSync(@, @.more)]
  /\ UNCHANGED <<server, wire, row, flush, acking, page, from, slipped, counts>>

\* A request that fails is left to the next connection.
SyncFail(k) ==
  /\ catchup[k].at = "asked"
  /\ troubles < MaxTroubles
  /\ troubles' = troubles + 1
  /\ catchup' = [catchup EXCEPT ![k] = AfterSync(@, FALSE)]
  /\ UNCHANGED <<server, wire, idb, flush, acking, page, from, slipped, others, retries, pages>>

\* Mutant: the flush is left to the next message.
UnfailOnly(k) ==
  /\ catchup[k].at = "unfail"
  /\ row' = [r \in Rows |-> IF row[r] = "failed" THEN "pending" ELSE row[r]]
  /\ catchup' = [catchup EXCEPT ![k] = IF @.more THEN [NoCatchup EXCEPT !.at = "read", !.first = FALSE]
                                       ELSE NoCatchup]
  /\ UNCHANGED <<server, wire, local, mark, flush, acking, page, from, slipped, counts>>

\* What failed waits again, and the rows left by an earlier page with it.
Unfail(k) ==
  /\ catchup[k].at = "unfail"
  /\ row' = [r \in Rows |-> IF row[r] = "failed" THEN "pending" ELSE row[r]]
  /\ StartFlush
  /\ catchup' = [catchup EXCEPT ![k] = IF @.more THEN [NoCatchup EXCEPT !.at = "read", !.first = FALSE]
                                       ELSE NoCatchup]
  /\ UNCHANGED <<server, wire, local, mark, acking, page, from, slipped, counts>>

-----------------------------------------------------------------------------
(* History pages: the newest on opening a conversation, older ones on      *)
(* scrolling up while the oldest message held is not the first.            *)

AskPage(before) ==
  /\ page.at = "none"
  /\ pages < MaxPages
  /\ pages' = pages + 1
  /\ page' = LET p == Before(before, PageSize) IN [at |-> "answered", lo |-> p.lo, hi |-> p.hi]
  /\ UNCHANGED <<server, wire, idb, flush, acking, catchup, from, slipped, others, troubles, retries>>

OpenPane == AskPage(0)
LoadOlder == DOMAIN local # {} /\ Min(DOMAIN local) > 1 /\ AskPage(Min(DOMAIN local))

StorePage ==
  /\ page.at = "answered"
  /\ Store(Stretch(page.lo, page.hi))
  /\ page' = NoPage
  /\ UNCHANGED <<server, wire, row, flush, acking, catchup, from, slipped, counts>>

-----------------------------------------------------------------------------
Serve == Register \/ Resume \/ Replay \/ HandleSend \/ Refuse \/ Ack \/ SendToOthers
Sync(k) == SyncRead(k) \/ SyncServe(k) \/ SyncStore(k) \/ SyncFail(k) \/ Unfail(k)
Page == OpenPane \/ LoadOlder \/ StorePage
Flush == Pick \/ Upload \/ Transmit \/ GiveUp
Next ==
  \/ Serve \/ Send \/ \E sends \in stray : StraySend(sends)
  \/ \E n \in fan : SendToUsers(n) \/ NoFanout(n)
  \/ \E k \in Catchups : Connect(k) \/ Sync(k)
  \/ Drop \/ Reload
  \/ Receive \/ \E r \in Rows : AckDone(r) \/ Compose(r) \/ Retry(r)
  \/ Flush \/ Timeout
  \/ Page

Spec == Init /\ [][Next]_vars

-----------------------------------------------------------------------------
(* Properties.                                                             *)

Seqs == 0..(Others + NRows)
Frames == [type : {"resume", "send", "message", "ack", "error"}, row : Rows \cup {0}, seq : Seqs]

\* Types, and the limits: the outbound buffer never holds more than it can, and
\* a history page, the first and the last too, is within the log (messages.go:286).
TypeOK ==
  /\ log \in [DOMAIN log -> Rows \cup {Other}] /\ Len(log) \in Seqs
  /\ fan \cup unsent \subseteq Seqs
  /\ srv \in [at : {"off", "accepted", "read", "replay", "ack", "members"},
              row : Rows \cup {0}, seq : Seqs, upto : Seqs]
  /\ Range(up) \cup UNION {Range(sends) : sends \in stray} \subseteq Frames
  /\ Range(down) \subseteq Frames /\ Len(down) <= Buffer
  /\ row \in [Rows -> {"unwritten", "pending", "failed", "gone"}]
  /\ DOMAIN local \subseteq Seqs /\ mark \in Seqs
  /\ flush \in [at : {"idle", "pick", "upload", "send", "await", "deaf", "fail"}, row : Rows \cup {0}]
  /\ acking \subseteq Rows \X {"live", "stale", "none"}
  /\ catchup \in [Catchups -> [at : {"idle", "read", "asked", "answered", "unfail"},
                               since : Seqs, upto : Seqs, more : BOOLEAN, first : BOOLEAN]]
  /\ page \in [at : {"none", "answered"}, lo : Seqs \cup {1}, hi : Seqs]
  /\ page.at = "answered" => page.lo >= 1 /\ page.hi <= Len(log)

\* What the browser holds under a seq is what the server has there, whichever of
\* ack, live frame, replay, sync and page brought it, and however often.
LocalIsTrue ==
  \A n \in DOMAIN local : n \in DOMAIN log /\ local[n] = log[n]

\* A row leaves the outbox only for a message that is on the server and in the
\* local store, whatever was lost or reloaded on the way (the ack handler).
OutboxLosesNothing ==
  \A r \in Rows : row[r] = "gone" => \E n \in DOMAIN local : local[n] = r /\ log[n] = r

\* On its way to this browser over the live connection.
Coming(n) ==
  \/ n \in fan
  \/ \E i \in DOMAIN down : down[i].seq = n
  \/ srv.at = "replay" /\ n \in srv.seq..srv.upto
  \/ srv.at = "ack" /\ n = srv.seq

\* After a resume that was replayed, every message beyond what it reported is
\* held or on its way, whoever sent it when, but for one whose own fanout the
\* database failed: "a concurrent send can arrive twice - never be missed"
\* (handleResume, client.go:238-242; handleSend, client.go:375-378).
NothingMissed ==
  from >= 0 => \A n \in (from + 1)..Len(log) : n \in DOMAIN local \/ Coming(n) \/ n \in unsent

\* Messages are stored in the order they were written, unless the overtaken one
\* had been marked failed before (flushOutbox: one in flight at a time).
OvertakenRowsSlipped ==
  \A n, m \in DOMAIN log :
    n < m /\ log[m] # Other /\ log[n] > log[m] => log[m] \in slipped

\* A pending row is never forgotten: while no row has failed, a flush is under
\* way, or a connection is still to come or to start one, after a reload too
\* (flushOutbox drops calls while it is flushing, useWebSocket.ts:257-286).
FlushIsOwed ==
  \A r \in Rows : row[r] = "pending" =>
    \/ flush.at # "idle"
    \/ ~Open
    \/ \E k \in Catchups : catchup[k].first /\ catchup[k].at # "idle"
    \/ slipped # {}

\* Nothing is under way on an open connection.
AtRest ==
  /\ srv = Reading /\ up = <<>> /\ down = <<>> /\ fan = {}
  /\ \A k \in Catchups : catchup[k].at = "idle"
  /\ page.at = "none"

\* The mark is a contiguous tip: once the connection is at rest, nothing is
\* missing between the oldest message held and the mark ("Highest
\* contiguous-tip seq we hold", db/local.ts:30-31).
NoHoles ==
  AtRest => \A n \in 1..mark : (\E m \in DOMAIN local : m < n) => n \in DOMAIN local

\* What goes on by itself: the server, the network's frames, the page's async
\* functions, its timers, and the reconnects.
FairSpec ==
  /\ Spec
  /\ WF_vars(Serve)
  /\ WF_vars(Receive) /\ \A r \in Rows : WF_vars(AckDone(r))
  /\ WF_vars(Flush) /\ WF_vars(Timeout)
  /\ \A k \in Catchups : WF_vars(Sync(k)) /\ WF_vars(Connect(k))

\* A pending row is sent and acked, or some row has been marked failed: a flush
\* never stops or hangs on its own account (flags, waiters and timers of flushOutbox).
RowsMoveOn ==
  \A r \in Rows : row[r] = "pending" ~> row[r] = "gone" \/ slipped # {}
=============================================================================

--------------------------- MODULE ChatClientProofs ---------------------------
(***************************************************************************)
(* Proofs about ChatClient, for any outbox, log, buffer and page sizes,    *)
(* and connections lost, pages reloaded and requests failed anywhere: what *)
(* the browser holds is true, no row is lost or overtakes another, and a    *)
(* resume misses nothing.                                                   *)
(***************************************************************************)
EXTENDS ChatClient, FiniteSetTheorems, SequenceTheorems, TLAPS

-----------------------------------------------------------------------------
(* The inductive invariant.                                                *)

Known(r) == r \in Rows /\ row[r] # "unwritten"
\* What was written before r is on the server, or has failed once.
Settled(r) == \A q \in 1..(r - 1) : q \in slipped \/ q \in Range(log)

\* The frames there may be, at this point of the log and of the outbox.
Resumes == {Frame("resume", 0, n) : n \in 0..Len(log)}
Sendable == {Frame("send", r, 0) : r \in {q \in Rows : Known(q) /\ Settled(q)}}
Messages == {Frame("message", 0, n) : n \in 1..Len(log)}
Acks == {Frame("ack", log[n], n) : n \in {m \in 1..Len(log) : log[m] # Other}}
Errors == {Frame("error", r, 0) : r \in Rows}

\* onopen sends it once.
OneResume(u) == \A i, j \in Resumed(u) : i = j

Server ==
  /\ log \in Seq(Rows \cup {Other})
  /\ \A n, m \in 1..Len(log) : log[n] = log[m] /\ log[n] # Other => n = m
  /\ \A n \in 1..Len(log) : log[n] # Other
       => /\ Known(log[n])
          /\ \A q \in 1..(log[n] - 1) : q \in slipped \/ \E m \in 1..(n - 1) : log[m] = q
  /\ Len(log) = others + Cardinality(Range(log) \cap Rows)
  /\ others \in 0..Others
  /\ fan \cup unsent \subseteq 1..Len(log)
  /\ \A sends \in stray : sends # <<>> /\ sends \in Seq(Sendable)

Wire ==
  /\ up \in Seq(Resumes \cup Sendable) /\ OneResume(up)
  /\ down \in Seq(Messages \cup Acks \cup Errors) /\ Len(down) <= Buffer
  /\ srv \in [at : {"off", "accepted", "read", "replay", "ack", "members"},
              row : Rows \cup {0}, seq : 0..Len(log), upto : 0..Len(log)]
  /\ srv.at = "replay" => srv.seq \in 1..srv.upto
  /\ srv.at \in {"ack", "members"} => srv.seq # 0 /\ srv.row # Other /\ log[srv.seq] = srv.row
  /\ from \in {-1} \cup Nat /\ (from # -1 => Registered)

LocalStore ==
  /\ \A n \in DOMAIN local : n \in 1..Len(log) /\ local[n] = log[n]
  /\ mark \in 0..Len(log)

CatchingUp ==
  /\ catchup \in [Catchups -> [at : {"idle", "read", "asked", "answered", "unfail"},
                               since : 0..Len(log), upto : 0..Len(log),
                               more : BOOLEAN, first : BOOLEAN]]
  /\ page \in [at : {"none", "answered"}, lo : 0..Len(log) \cup {1}, hi : 0..Len(log)]
  /\ page.at = "answered" => page.lo # 0

Outbox ==
  /\ row \in [Rows -> {"unwritten", "pending", "failed", "gone"}]
  /\ \A r \in Rows : Known(r) => \A q \in 1..(r - 1) : Known(q)
  /\ slipped \subseteq Rows /\ \A r \in Rows : row[r] = "failed" => r \in slipped
  /\ \A r \in Rows : row[r] = "gone" => \E n \in DOMAIN local : local[n] = r
  /\ acking \subseteq Rows \X {"live", "stale", "none"}
  /\ \A a \in acking : Known(a[1]) /\ \E n \in DOMAIN local : local[n] = a[1]
  /\ flush \in [at : {"idle", "pick", "upload", "send", "await", "deaf", "fail"},
                row : Rows \cup {0}]
  /\ flush.at \notin {"idle", "pick"} => Known(flush.row) /\ Settled(flush.row)
  /\ flush.at = "fail" => flush.row \in slipped

\* What is under way is as true as what has arrived: inductive, and no less
\* than the invariants above.  A row that is sent has before it only rows that
\* have arrived or have failed, wherever it waits.
IndInv == Server /\ Wire /\ LocalStore /\ NothingMissed /\ CatchingUp /\ Outbox

-----------------------------------------------------------------------------
(* Facts about numbers and sequences.                                      *)

\* A set of naturals that has an element has a least one.
LEMMA Smallest ==
  ASSUME NEW T \in SUBSET Nat, T # {}
  PROVE  \E x \in T : \A y \in T : x <= y
<1> DEFINE R == {ss \in Nat \X Nat : ss[1] < ss[2]}
<1>1. IsWellFoundedOn(R, Nat)
  BY NatLessThanWellFounded DEF OpToRel
<1>2. \A y, x \in Nat : <<y, x>> \in R <=> y < x
  OBVIOUS
<1> HIDE DEF R
<1>3. PICK x \in T : \A y \in T : ~ (<<y, x>> \in R)
  BY <1>1, WFMin
<1>4. ASSUME NEW y \in T
      PROVE  x <= y
  <2>1. ~(y < x)
    BY <1>2, <1>3
  <2> QED
    BY <2>1
<1> QED
  BY <1>4

LEMMA MinIs ==
  ASSUME NEW T \in SUBSET Nat, T # {}
  PROVE  Min(T) \in T /\ \A y \in T : Min(T) <= y
BY Smallest DEF Min

LEMMA MaxIs ==
  ASSUME NEW b \in Nat, NEW T \in SUBSET (0..b), T # {}
  PROVE  Max(T) \in T /\ \A y \in T : y <= Max(T)
<1> DEFINE D == {b - x : x \in T}
<1>1. D \in SUBSET Nat /\ D # {}
  <2>1. \A x \in T : b - x \in D
    OBVIOUS
  <2>2. D \in SUBSET Nat
    OBVIOUS
  <2> QED
    BY <2>1, <2>2
<1>2. PICK d \in D : \A y \in D : d <= y
  BY <1>1, Smallest
<1>3. PICK m \in T : d = b - m
  OBVIOUS
<1>4. \A y \in T : y <= m
  <2> TAKE y \in T
  <2>1. b - y \in D
    OBVIOUS
  <2>2. d <= b - y
    BY <1>2, <2>1
  <2> HIDE DEF D
  <2> QED
    BY <1>3, <2>2
<1> QED
  BY <1>4 DEF Max

LEMMA TailOf ==
  ASSUME NEW S, NEW s \in Seq(S), s # <<>>
  PROVE  /\ Head(s) \in S /\ Head(s) = s[1] /\ Len(s) \in Nat \ {0}
         /\ Tail(s) \in Seq(S) /\ Len(Tail(s)) = Len(s) - 1
         /\ \A i \in 1..(Len(s) - 1) : Tail(s)[i] = s[i + 1]
OBVIOUS

LEMMA AppendOf ==
  ASSUME NEW S, NEW s \in Seq(S), NEW x \in S
  PROVE  /\ Append(s, x) \in Seq(S) /\ Len(s) \in Nat
         /\ Len(Append(s, x)) = Len(s) + 1 /\ Append(s, x)[Len(s) + 1] = x
         /\ \A i \in 1..Len(s) : Append(s, x)[i] = s[i]
BY AppendProperties, LenProperties

\* What is left without the resume are sends; and there is no second resume
\* when a frame is read, or a send is put behind or before the last frame.
LEMMA SendsOf ==
  ASSUME NEW R, NEW S, \A x \in R : x.type = "resume", NEW u \in Seq(R \cup S), OneResume(u)
  PROVE  Sends(u) \in Seq(S)
<1>1. /\ Len(u) \in Nat /\ DOMAIN u = 1..Len(u) /\ SubSeq(u, 1, Len(u)) = u
      /\ \A i \in 1..Len(u) : u[i] \in R \cup S
  BY LenProperties, ElementOfSeq, SubSeqFull
<1>2. \A i \in 1..Len(u) : i \notin Resumed(u) => u[i] \in S
  BY <1>1 DEF Resumed
<1>3. CASE Resumed(u) = {}
  <2>1. \A i \in 1..Len(u) : u[i] \in S
    BY <1>2, <1>3
  <2>2. SubSeq(u, 1, Len(u)) \in Seq(S)
    BY <1>1, <2>1, SubSeqProperties
  <2> QED
    BY <1>1, <1>3, <2>2 DEF Sends
<1>4. CASE Resumed(u) # {}
  <2>1. PICK k \in Resumed(u) : Sends(u) = RemoveAt(u, k)
    BY <1>4 DEF Sends
  <2>2. k \in 1..Len(u) /\ \A i \in 1..Len(u) : i # k => u[i] \in S
    BY <1>1, <1>2 DEF Resumed, OneResume
  <2>3. SubSeq(u, 1, k - 1) \in Seq(S)
    <3>1. \A i \in 1..(k - 1) : u[i] \in S
      BY <1>1, <2>2
    <3> QED
      BY <2>2, <3>1, SubSeqProperties
  <2>4. SubSeq(u, k + 1, Len(u)) \in Seq(S)
    <3>1. \A i \in (k + 1)..Len(u) : u[i] \in S
      BY <1>1, <2>2
    <3> QED
      BY <1>1, <2>2, <3>1, SubSeqProperties
  <2> QED
    BY <2>1, <2>3, <2>4, ConcatProperties DEF RemoveAt
<1> QED
  BY <1>3, <1>4

LEMMA OneTail ==
  ASSUME NEW S, NEW u \in Seq(S), u # <<>>, OneResume(u)
  PROVE  OneResume(Tail(u))
<1>1. /\ Tail(u) \in Seq(S) /\ Len(Tail(u)) = Len(u) - 1 /\ Len(u) \in Nat
      /\ \A i \in 1..(Len(u) - 1) : Tail(u)[i] = u[i + 1]
  BY TailOf
<1>2. DOMAIN Tail(u) = 1..(Len(u) - 1) /\ DOMAIN u = 1..Len(u)
  BY <1>1, LenProperties
<1>3. \A i \in Resumed(Tail(u)) : i \in Nat /\ i + 1 \in Resumed(u)
  BY <1>1, <1>2 DEF Resumed
<1>4. ASSUME NEW i \in Resumed(Tail(u)), NEW j \in Resumed(Tail(u))
      PROVE  i = j
  <2>1. i + 1 = j + 1
    BY <1>3, <1>4 DEF OneResume
  <2> QED
    BY <1>3, <2>1
<1> QED
  BY <1>4 DEF OneResume

LEMMA OneAppend ==
  ASSUME NEW S, NEW u \in Seq(S), OneResume(u), NEW x \in S, x.type # "resume"
  PROVE  OneResume(Append(u, x))
<1>1. /\ Append(u, x) \in Seq(S) /\ Len(u) \in Nat /\ Len(Append(u, x)) = Len(u) + 1
      /\ Append(u, x)[Len(u) + 1] = x /\ \A i \in 1..Len(u) : Append(u, x)[i] = u[i]
  BY AppendOf
<1>2. DOMAIN Append(u, x) = 1..(Len(u) + 1) /\ DOMAIN u = 1..Len(u)
  BY <1>1, LenProperties
<1>3. Resumed(Append(u, x)) \subseteq Resumed(u)
  BY <1>1, <1>2 DEF Resumed
<1> QED
  BY <1>3 DEF OneResume

LEMMA OneInsert ==
  ASSUME NEW S, NEW u \in Seq(S), u # <<>>, OneResume(u), NEW x \in S, x.type # "resume"
  PROVE  /\ Front(u) \o <<x, Last(u)>> \in Seq(S)
         /\ OneResume(Front(u) \o <<x, Last(u)>>)
<1>1. Len(u) \in Nat \ {0} /\ DOMAIN u = 1..Len(u) /\ \A i \in 1..Len(u) : u[i] \in S
  BY TailOf, LenProperties, ElementOfSeq
<1>2. PICK n \in Nat \ {0} : n = Len(u)
  BY <1>1
<1>3. PICK f : f = Front(u)
  OBVIOUS
<1>4. f \in Seq(S) /\ Len(f) = n - 1 /\ \A i \in 1..(n - 1) : f[i] = u[i]
  <2>1. f = SubSeq(u, 1, n - 1) /\ \A i \in 1..(n - 1) : u[i] \in S
    BY <1>1, <1>2, <1>3 DEF Front
  <2>2. /\ f \in Seq(S) /\ Len(f) = IF 1 <= n - 1 THEN (n - 1) - 1 + 1 ELSE 0
        /\ \A i \in 1..((n - 1) - 1 + 1) : f[i] = u[1 + i - 1]
    BY <1>2, <2>1, SubSeqProperties
  <2> QED
    BY <1>2, <2>2
<1>5. PICK p : p = <<x, u[n]>>
  OBVIOUS
<1>6. p \in Seq(S) /\ Len(p) = 2 /\ p[1] = x /\ p[2] = u[n]
  BY <1>1, <1>2, <1>5
<1>7. PICK v : v = f \o p
  OBVIOUS
<1>8. /\ v \in Seq(S) /\ Len(v) = n + 1
      /\ \A i \in 1..(n + 1) : v[i] = IF i <= n - 1 THEN f[i] ELSE p[i - (n - 1)]
  <2>1. /\ f \o p \in Seq(S) /\ Len(f \o p) = Len(f) + Len(p)
        /\ \A i \in 1..(Len(f) + Len(p)) : (f \o p)[i] = IF i <= Len(f) THEN f[i] ELSE p[i - Len(f)]
    BY <1>4, <1>6, ConcatProperties
  <2>2. Len(f) = n - 1 /\ Len(f) + Len(p) = n + 1
    BY <1>2, <1>4, <1>6
  <2> QED
    BY <1>7, <2>1, <2>2
<1>9. /\ DOMAIN v = 1..(n + 1) /\ v[n] = x /\ v[n + 1] = u[n]
      /\ \A i \in 1..(n - 1) : v[i] = u[i]
  <2>1. DOMAIN v = 1..(n + 1)
    BY <1>8, LenProperties
  <2>2. v[n] = p[1] /\ v[n + 1] = p[2]
    BY <1>2, <1>8
  <2> QED
    BY <1>2, <1>4, <1>6, <1>8, <2>1, <2>2
<1>10. \A i \in Resumed(v) : (i \in 1..(n - 1) /\ i \in Resumed(u)) \/ (i = n + 1 /\ n \in Resumed(u))
  BY <1>1, <1>2, <1>9 DEF Resumed
<1>11. OneResume(v)
  BY <1>2, <1>10 DEF OneResume
<1>12. v = Front(u) \o <<x, Last(u)>>
  BY <1>2, <1>3, <1>5, <1>7 DEF Last
<1> QED
  BY <1>8, <1>11, <1>12

-----------------------------------------------------------------------------
(* Frames, by their kind.                                                  *)

LEMMA SendableIs ==
  ASSUME NEW f \in Sendable
  PROVE  f.type = "send" /\ f.seq = 0 /\ f.row \in Rows /\ Known(f.row) /\ Settled(f.row)
<1>1. PICK r \in Rows : Known(r) /\ Settled(r) /\ f = Frame("send", r, 0)
  BY DEF Sendable
<1>2. f.type = "send" /\ f.row = r /\ f.seq = 0
  BY <1>1 DEF Frame
<1> QED
  BY <1>1, <1>2

LEMMA FramesAre ==
  /\ \A f \in Resumes : f.type = "resume" /\ f.row = 0 /\ f.seq \in 0..Len(log)
  /\ \A f \in Messages : f.type = "message" /\ f.row = 0 /\ f.seq \in 1..Len(log)
  /\ \A f \in Acks : f.type = "ack" /\ f.seq \in 1..Len(log) /\ f.row = log[f.seq] /\ f.row # Other
  /\ \A f \in Errors : f.type = "error" /\ f.row \in Rows /\ f.seq = 0
BY DEF Resumes, Messages, Acks, Errors, Frame

-----------------------------------------------------------------------------
(* What every step keeps: the log and the local store grow, a row that was *)
(* written is never unwritten, one that has slipped has slipped.           *)

\* The log stays, or has another member's message more, or a row of ours that
\* it did not have and before which all is settled.
LogSteps ==
  \/ UNCHANGED <<log, others>>
  \/ log' = Append(log, Other) /\ others < Others /\ others' = others + 1
  \/ \E r \in Rows : /\ r \notin Range(log) /\ Known(r) /\ Settled(r)
                     /\ log' = Append(log, r) /\ others' = others

LEMMA LogMoves == IndInv /\ [Next]_vars => LogSteps
<1> SUFFICES ASSUME IndInv, [Next]_vars PROVE LogSteps
  OBVIOUS
<1>1. CASE Register \/ Resume \/ Replay \/ Refuse \/ Ack \/ SendToOthers
  BY <1>1 DEF Register, Resume, Replay, Refuse, Ack, SendToOthers, LogSteps, server, counts
<1>2. CASE HandleSend
  <2>1. up # <<>> /\ Head(up).type = "send" /\ log' = Stored(Head(up).row) /\ others' = others
    BY <1>2 DEF HandleSend, counts
  <2>2. Head(up) \in Sendable
    <3>1. Head(up) \in Resumes \cup Sendable
      BY <2>1, TailOf DEF IndInv, Wire
    <3> QED
      BY <2>1, <3>1 DEF Resumes, Frame
  <2>3. Head(up).row \in Rows /\ Known(Head(up).row) /\ Settled(Head(up).row)
    BY <2>2, SendableIs
  <2> QED
    BY <2>1, <2>3 DEF Stored, LogSteps
<1>3. CASE Send
  BY <1>3 DEF Send, LogSteps
<1>4. CASE \E sends \in stray : StraySend(sends)
  <2>1. PICK sends \in stray : StraySend(sends)
    BY <1>4
  <2>2. Head(sends) \in Sendable
    BY TailOf DEF IndInv, Server
  <2>3. Head(sends).row \in Rows /\ Known(Head(sends).row) /\ Settled(Head(sends).row)
    BY <2>2, SendableIs
  <2> QED
    BY <2>1, <2>3 DEF StraySend, Stored, LogSteps, counts
<1>5. CASE \E n \in fan : SendToUsers(n) \/ NoFanout(n)
  BY <1>5 DEF SendToUsers, NoFanout, LogSteps, counts
<1>6. CASE \E k \in Catchups : Connect(k) \/ Sync(k)
  BY <1>6 DEF Connect, Sync, SyncRead, SyncServe, SyncStore, SyncFail, Unfail, LogSteps,
     server, counts
<1>7. CASE Drop \/ Reload \/ Receive
  BY <1>7 DEF Drop, Reload, Receive, LogSteps, server, counts
<1>8. CASE \E r \in Rows : AckDone(r) \/ Compose(r) \/ Retry(r)
  BY <1>8 DEF AckDone, Compose, Retry, LogSteps, server, counts
<1>9. CASE Flush \/ Timeout
  BY <1>9 DEF Flush, Timeout, Pick, Upload, Transmit, GiveUp, LogSteps, server, counts
<1>10. CASE Page
  BY <1>10 DEF Page, OpenPane, LoadOlder, AskPage, StorePage, LogSteps, server, counts
<1>11. CASE UNCHANGED vars
  BY <1>11 DEF vars, LogSteps, server, counts
<1> QED
  BY <1>1, <1>2, <1>3, <1>4, <1>5, <1>6, <1>7, <1>8, <1>9, <1>10, <1>11 DEF Next, Serve

\* What the page writes of itself: rows get written, messages are added.
RowsOnward == \A r \in Rows : row[r] # "unwritten" => row'[r] # "unwritten"

LEMMA PageMoves ==
  IndInv /\ [Next]_vars => slipped \subseteq slipped' /\ DOMAIN local \subseteq DOMAIN local' /\ RowsOnward
<1> SUFFICES ASSUME IndInv, [Next]_vars
             PROVE  slipped \subseteq slipped' /\ DOMAIN local \subseteq DOMAIN local' /\ RowsOnward
  OBVIOUS
<1> USE DEF idb, RowsOnward
<1>1. CASE Serve \/ Send
  BY <1>1 DEF Serve, Send, Register, Resume, Replay, HandleSend, Refuse, Ack, SendToOthers
<1>2. CASE (\E sends \in stray : StraySend(sends)) \/ (\E n \in fan : SendToUsers(n) \/ NoFanout(n))
  BY <1>2 DEF StraySend, SendToUsers, NoFanout
<1>3. ASSUME NEW k \in Catchups, Connect(k) \/ SyncRead(k) \/ SyncServe(k) \/ SyncFail(k)
      PROVE  UNCHANGED <<slipped, local, row>>
  BY <1>3 DEF Connect, SyncRead, SyncServe, SyncFail
<1>4. ASSUME NEW k \in Catchups, SyncStore(k)
      PROVE  UNCHANGED <<slipped, row>> /\ DOMAIN local \subseteq DOMAIN local'
  BY <1>4 DEF SyncStore, Store
<1>5. ASSUME NEW k \in Catchups, Unfail(k)
      PROVE  UNCHANGED <<slipped, local>> /\ RowsOnward
  BY <1>5 DEF Unfail
<1>6. CASE Drop \/ Reload
  BY <1>6 DEF Drop, Reload
<1>7. CASE Receive
  <2>1. slipped \subseteq slipped'
    BY <1>7 DEF Receive, Fail
  <2>2. DOMAIN local \subseteq DOMAIN local'
    BY <1>7 DEF Receive, Store, TakeAck
  <2>3. row' = row \/ \E r : FailRow(r)
    BY <1>7 DEF Receive
  <2>4. RowsOnward
    BY <2>3 DEF FailRow, IndInv, Outbox
  <2> QED
    BY <2>1, <2>2, <2>4
<1>8. ASSUME NEW r \in Rows, AckDone(r) \/ Compose(r) \/ Retry(r)
      PROVE  UNCHANGED <<slipped, local>> /\ RowsOnward
  BY <1>8 DEF AckDone, Compose, Retry, IndInv, Outbox
<1>9. CASE Pick \/ Upload \/ Transmit \/ Timeout
  BY <1>9 DEF Pick, Upload, Transmit, Timeout, Fail
<1>10. CASE GiveUp
  BY <1>10 DEF GiveUp, FailRow, IndInv, Outbox
<1>11. CASE OpenPane \/ LoadOlder
  BY <1>11 DEF OpenPane, LoadOlder, AskPage
<1>12. CASE StorePage
  BY <1>12 DEF StorePage, Store
<1>13. CASE UNCHANGED vars
  BY <1>13 DEF vars
<1> QED
  BY <1>1, <1>2, <1>3, <1>4, <1>5, <1>6, <1>7, <1>8, <1>9, <1>10, <1>11, <1>12, <1>13
     DEF Next, Sync, Flush, Page

\* A message nobody is sent stays one, and was to be sent.
LEMMA UnsentMoves == [Next]_vars => unsent \subseteq unsent' /\ unsent' \subseteq unsent \cup fan
<1>1. Serve => UNCHANGED unsent
  BY DEF Serve, Register, Resume, Replay, HandleSend, Refuse, Ack, SendToOthers, server
<1>2. Send \/ Drop \/ Reload \/ Receive \/ (\E sends \in stray : StraySend(sends)) => UNCHANGED unsent
  BY DEF Send, Drop, Reload, Receive, StraySend, server
<1>3. ASSUME NEW n \in fan, SendToUsers(n) \/ NoFanout(n)
      PROVE  unsent \subseteq unsent' /\ unsent' \subseteq unsent \cup fan
  BY <1>3 DEF SendToUsers, NoFanout
<1>4. \A k \in Catchups : Connect(k) \/ Sync(k) => UNCHANGED unsent
  BY DEF Connect, Sync, SyncRead, SyncServe, SyncStore, SyncFail, Unfail, server
<1>5. \A r \in Rows : AckDone(r) \/ Compose(r) \/ Retry(r) => UNCHANGED unsent
  BY DEF AckDone, Compose, Retry, server
<1>6. Flush \/ Timeout \/ Page => UNCHANGED unsent
  BY DEF Flush, Timeout, Pick, Upload, Transmit, GiveUp, Page, OpenPane, LoadOlder, AskPage, StorePage, server
<1>7. UNCHANGED vars => UNCHANGED unsent
  BY DEF vars, server
<1> QED
  BY <1>1, <1>2, <1>3, <1>4, <1>5, <1>6, <1>7 DEF Next

Onward ==
  /\ Len(log) \in Nat /\ Len(log') \in Nat /\ Len(log) <= Len(log')
  /\ \A n \in 1..Len(log) : log'[n] = log[n]
  /\ log' \in Seq(Rows \cup {Other}) /\ Range(log) \subseteq Range(log')
  /\ slipped \subseteq slipped' /\ DOMAIN local \subseteq DOMAIN local' /\ RowsOnward
  /\ unsent \subseteq unsent' /\ unsent' \subseteq unsent \cup fan

LEMMA AllMoves == IndInv /\ [Next]_vars => Onward /\ LogSteps
<1> SUFFICES ASSUME IndInv, [Next]_vars PROVE Onward /\ LogSteps
  OBVIOUS
<1>1. log \in Seq(Rows \cup {Other}) /\ LogSteps
  BY LogMoves DEF IndInv, Server
<1>2. log' = log \/ \E x \in Rows \cup {Other} : log' = Append(log, x)
  BY <1>1 DEF LogSteps
<1>3. /\ Len(log) \in Nat /\ Len(log') \in Nat /\ Len(log) <= Len(log')
      /\ \A n \in 1..Len(log) : log'[n] = log[n]
      /\ log' \in Seq(Rows \cup {Other})
  BY <1>1, <1>2, AppendOf, LenProperties
<1>4. DOMAIN log = 1..Len(log) /\ DOMAIN log' = 1..Len(log')
  BY <1>1, <1>3, LenProperties
<1>5. Range(log) \subseteq Range(log')
  BY <1>3, <1>4 DEF Range
<1> QED
  BY <1>1, <1>3, <1>5, PageMoves, UnsentMoves DEF Onward

\* What is settled stays so, and what may be under way may still be.
LEMMA Widening ==
  ASSUME Onward
  PROVE  /\ \A r \in Rows : (Known(r) => Known(r)') /\ (Settled(r) => Settled(r)')
         /\ Resumes \subseteq Resumes' /\ Sendable \subseteq Sendable'
         /\ Messages \subseteq Messages' /\ Acks \subseteq Acks' /\ Errors \subseteq Errors'
<1>1. \A r \in Rows : (Known(r) => Known(r)') /\ (Settled(r) => Settled(r)')
  BY DEF Onward, RowsOnward, Known, Settled
<1>2. Resumes \subseteq Resumes' /\ Messages \subseteq Messages' /\ Errors \subseteq Errors'
  BY DEF Onward, Resumes, Messages, Errors
<1>3. Sendable \subseteq Sendable'
  BY <1>1 DEF Sendable
<1>4. Acks \subseteq Acks'
  <2> SUFFICES ASSUME NEW n \in 1..Len(log), log[n] # Other
               PROVE  Frame("ack", log[n], n) \in Acks'
    BY DEF Acks
  <2>1. n \in 1..Len(log') /\ log'[n] = log[n]
    BY DEF Onward
  <2> QED
    BY <2>1 DEF Acks
<1> QED
  BY <1>1, <1>2, <1>3, <1>4

-----------------------------------------------------------------------------
(* The server: the log, and what is still to be done about it.             *)

\* The log keeps its order: one entry for a row, after what was written before
\* it and has not slipped, and not more than were sent.
Once == \A n, m \in 1..Len(log) : log[n] = log[m] /\ log[n] # Other => n = m
Placed(n) == /\ Known(log[n])
             /\ \A q \in 1..(log[n] - 1) : q \in slipped \/ \E m \in 1..(n - 1) : log[m] = q
InOrder == \A n \in 1..Len(log) : log[n] # Other => Placed(n)
Accounted == Len(log) = others + Cardinality(Range(log) \cap Rows) /\ others \in 0..Others

LEMMA RowsFinite == Rows \subseteq Nat \ {0} /\ IsFiniteSet(Rows) /\ Cardinality(Rows) = NRows
BY RowsAssumption, FS_Interval DEF Rows

LEMMA LogKept == ASSUME IndInv, [Next]_vars PROVE Once' /\ InOrder' /\ Accounted'
<1>0. /\ LogSteps /\ Once /\ InOrder /\ Accounted
      /\ log \in Seq(Rows \cup {Other}) /\ log' \in Seq(Rows \cup {Other})
  BY AllMoves DEF IndInv, Server, Once, InOrder, Placed, Accounted, Onward
<1>1. /\ Len(log) \in Nat /\ \A n \in 1..Len(log) : log'[n] = log[n]
      /\ slipped \subseteq slipped' /\ \A r \in Rows : row[r] # "unwritten" => row'[r] # "unwritten"
  BY AllMoves DEF Onward, RowsOnward
<1>2. /\ DOMAIN log = 1..Len(log) /\ DOMAIN log' = 1..Len(log')
      /\ \A n \in 1..Len(log) : log[n] \in Rows \cup {Other}
  BY <1>0, LenProperties, ElementOfSeq
<1>3. ASSUME NEW n \in 1..Len(log), log'[n] # Other
      PROVE  Placed(n)'
  <2>1. log'[n] = log[n] /\ Placed(n) /\ log[n] \in Rows
    BY <1>0, <1>1, <1>2, <1>3 DEF InOrder
  <2>2. \A m \in 1..(n - 1) : log'[m] = log[m]
    BY <1>1, <1>3
  <2> QED
    BY <1>1, <2>1, <2>2 DEF Placed, Known
<1>4. CASE UNCHANGED <<log, others>>
  <2>1. Once' /\ Accounted'
    BY <1>0, <1>4 DEF Once, Accounted
  <2>2. InOrder'
    BY <1>3, <1>4 DEF InOrder
  <2> QED
    BY <2>1, <2>2
<1>5. CASE log' = Append(log, Other) /\ others < Others /\ others' = others + 1
  <2>1. Len(log') = Len(log) + 1 /\ log'[Len(log) + 1] = Other
    BY <1>0, <1>5, AppendOf
  <2>2. Range(log') \cap Rows = Range(log) \cap Rows
    <3>1. Range(log') = Range(log) \cup {Other}
      BY <1>1, <1>2, <2>1 DEF Range
    <3> QED
      BY <3>1, RowsFinite DEF Other
  <2>3. \A n \in 1..Len(log') : log'[n] # Other => n \in 1..Len(log)
    BY <1>1, <2>1
  <2>4. Once'
    BY <1>0, <1>1, <2>3 DEF Once
  <2>5. Accounted'
    <3>1. Cardinality(Range(log) \cap Rows) \in Nat
      BY RowsFinite, FS_Subset, FS_CardinalityType
    <3>2. /\ others \in Nat /\ others' \in 0..Others
          /\ Len(log) = others + Cardinality(Range(log) \cap Rows)
      BY <1>0, <1>5, LimitsAssumption DEF Accounted
    <3>3. Len(log') = others' + Cardinality(Range(log) \cap Rows)
      BY <1>5, <2>1, <3>1, <3>2
    <3> QED
      BY <2>2, <3>2, <3>3 DEF Accounted
  <2>6. InOrder'
    BY <1>3, <2>3 DEF InOrder
  <2> QED
    BY <2>4, <2>5, <2>6
<1>6. ASSUME NEW r \in Rows, r \notin Range(log), Known(r), Settled(r),
             log' = Append(log, r), others' = others
      PROVE  Once' /\ InOrder' /\ Accounted'
  <2>1. Len(log') = Len(log) + 1 /\ log'[Len(log) + 1] = r
    BY <1>0, <1>6, AppendOf
  <2>2. Range(log') \cap Rows = (Range(log) \cap Rows) \cup {r}
    <3>1. Range(log') = Range(log) \cup {r}
      BY <1>1, <1>2, <2>1 DEF Range
    <3> QED
      BY <3>1
  <2>3. \A n \in 1..Len(log) : log'[n] = log[n] /\ log'[n] # r
    BY <1>1, <1>2, <1>6 DEF Range
  <2>4. \A n \in 1..Len(log') : n \in 1..Len(log) \/ n = Len(log) + 1
    BY <1>1, <2>1
  <2>5. Once'
    BY <1>0, <2>1, <2>3, <2>4 DEF Once
  <2>6. Accounted'
    <3>1. IsFiniteSet(Range(log) \cap Rows) /\ Cardinality(Range(log) \cap Rows) \in Nat
      BY RowsFinite, FS_Subset, FS_CardinalityType
    <3>2. Cardinality((Range(log) \cap Rows) \cup {r}) = Cardinality(Range(log) \cap Rows) + 1
      BY <1>6, <3>1, FS_AddElement
    <3>3. Len(log') = others + (Cardinality(Range(log) \cap Rows) + 1)
      BY <1>0, <2>1, <3>1 DEF Accounted
    <3> QED
      BY <1>0, <1>6, <2>2, <3>2, <3>3 DEF Accounted
  <2>7. ASSUME NEW n \in Nat, n = Len(log) + 1
        PROVE  Placed(n)'
    <3>1. \A q \in 1..(r - 1) : q \in slipped \/ \E m \in 1..Len(log) : log[m] = q
      BY <1>2, <1>6 DEF Settled, Range
    <3>2. n - 1 = Len(log) /\ log'[n] = r /\ row'[r] # "unwritten"
      BY <1>1, <1>6, <2>1, <2>7 DEF Known
    <3>3. \A q \in 1..(r - 1) : q \in slipped' \/ \E m \in 1..(n - 1) : log'[m] = q
      BY <1>1, <2>3, <3>1, <3>2
    <3> QED
      BY <1>6, <3>2, <3>3 DEF Placed, Known
  <2>8. InOrder'
    BY <1>1, <1>3, <2>4, <2>7 DEF InOrder
  <2> QED
    BY <2>5, <2>6, <2>8
<1> QED
  BY <1>0, <1>4, <1>5, <1>6 DEF LogSteps

-----------------------------------------------------------------------------
(* The connection, the fanouts and the strays.                             *)

SrvFits ==
  /\ srv \in [at : {"off", "accepted", "read", "replay", "ack", "members"},
              row : Rows \cup {0}, seq : 0..Len(log), upto : 0..Len(log)]
  /\ srv.at = "replay" => srv.seq \in 1..srv.upto
  /\ srv.at \in {"ack", "members"} => srv.seq # 0 /\ srv.row # Other /\ log[srv.seq] = srv.row
Owing == fan \subseteq 1..Len(log) /\ \A sends \in stray : sends # <<>> /\ sends \in Seq(Sendable)

\* What AppendMessage answers is where the row is.
LEMMA SeqForIs ==
  ASSUME log \in Seq(Rows \cup {Other}), NEW r \in Rows
  PROVE  /\ SeqFor(r) \in 1..Len(Stored(r)) /\ Stored(r)[SeqFor(r)] = r
         /\ r \notin Range(log) => SeqFor(r) = Len(log) + 1
<1>1. CASE r \in Range(log)
  <2>1. \E n \in DOMAIN log : log[n] = r
    BY <1>1 DEF Range
  <2>2. DOMAIN log = 1..Len(log)
    BY LenProperties
  <2> QED
    BY <1>1, <2>1, <2>2 DEF SeqFor, Stored
<1>2. CASE r \notin Range(log)
  BY <1>2, AppendOf DEF SeqFor, Stored
<1> QED
  BY <1>1, <1>2

\* What a read after n finds.
LEMMA AfterIs ==
  ASSUME Len(log) \in Nat, NEW n \in 0..Len(log), NEW limit \in Nat \ {0}
  PROVE  /\ After(n, limit).upto \in n..Len(log) /\ After(n, limit).more \in BOOLEAN
         /\ ~After(n, limit).more => After(n, limit).upto = Len(log)
<1>1. {n + limit, Len(log)} \in SUBSET Nat
  OBVIOUS
<1>2. Min({n + limit, Len(log)}) \in {n + limit, Len(log)}
      /\ \A y \in {n + limit, Len(log)} : Min({n + limit, Len(log)}) <= y
  BY <1>1, MinIs
<1>3. PICK m \in Nat : m = Min({n + limit, Len(log)})
  BY <1>2
<1>4. m \in n..Len(log) /\ (m = Len(log) \/ n + limit < Len(log))
  BY <1>2, <1>3
<1>5. After(n, limit).upto = m /\ After(n, limit).more \in BOOLEAN
  BY <1>3 DEF After
<1>6. ~After(n, limit).more => ~(n + limit < Len(log))
  BY DEF After
<1> QED
  BY <1>4, <1>5, <1>6

\* A lost connection, and a frame tried: what is owed stays within the log.
LEMMA Losing ==
  ASSUME IndInv, Onward, NEW s, NEW f, NEW u, Lose(s, f, u),
         s.at \in {"ack", "members"} => s.seq \in 1..Len(log),
         f \subseteq fan, Sends(u) \in Seq(Sendable)
  PROVE  Owing' /\ Wire'
<1>0. Sendable \subseteq Sendable' /\ Len(log) <= Len(log') /\ Len(log) \in Nat /\ Len(log') \in Nat
  BY Widening DEF Onward
<1>1. fan' \subseteq 1..Len(log')
  <2>1. fan' = f \cup Owed(s) /\ fan \subseteq 1..Len(log)
    BY DEF Lose, IndInv, Server
  <2>2. Owed(s) \subseteq 1..Len(log)
    BY DEF Owed
  <2>3. 1..Len(log) \subseteq 1..Len(log')
    BY <1>0
  <2> QED
    BY <2>1, <2>2, <2>3
<1>2. \A sends \in stray' : sends # <<>> /\ sends \in Seq(Sendable')
  <2>1. \A sends \in stray' : sends # <<>> /\ sends \in Seq(Sendable)
    BY DEF Lose, IndInv, Server
  <2> QED
    BY <1>0, <2>1, SeqMonotonic
<1>3. SrvFits'
  BY <1>0 DEF Lose, SrvFits, Nowhere, Other
<1>4. /\ up' = <<>> /\ down' = <<>> /\ from' = -1
  BY DEF Lose
<1>5. /\ up' \in Seq((Resumes \cup Sendable)') /\ OneResume(up')
      /\ down' \in Seq((Messages \cup Acks \cup Errors)') /\ Len(down') <= Buffer
  BY <1>4, EmptySeq, LimitsAssumption DEF OneResume, Resumed
<1> QED
  BY <1>1, <1>2, <1>3, <1>4, <1>5 DEF Owing, Wire, SrvFits

LEMMA Trying ==
  ASSUME IndInv, Onward, NEW frame, NEW s, NEW f, NEW u, TrySend(frame, s, f, u),
         UNCHANGED log, f \subseteq fan, frame \in Messages \cup Acks \cup Errors,
         s \in [at : {"off", "accepted", "read", "replay", "ack", "members"},
                row : Rows \cup {0}, seq : 0..Len(log), upto : 0..Len(log)],
         s.at = "replay" => s.seq \in 1..s.upto,
         s.at \in {"ack", "members"} => s.seq # 0 /\ s.row # Other /\ log[s.seq] = s.row,
         s.at \notin {"off", "accepted"},
         u \in Seq(Resumes \cup Sendable), OneResume(u)
  PROVE  Owing' /\ Wire'
<1>0. /\ Resumes \subseteq Resumes' /\ Sendable \subseteq Sendable'
      /\ Messages \cup Acks \cup Errors \subseteq (Messages \cup Acks \cup Errors)'
  BY Widening
<1>1. CASE Lose(s, f, u)
  <2>1. Sends(u) \in Seq(Sendable)
    BY SendsOf, FramesAre
  <2> QED
    BY <1>1, <2>1, Losing
<1>2. CASE /\ Len(down) < Buffer /\ down' = Append(down, frame)
           /\ srv' = s /\ fan' = f /\ up' = u /\ UNCHANGED <<from, stray>>
  <2>1. Owing'
    <3>1. fan' \subseteq 1..Len(log')
      BY <1>2 DEF IndInv, Server
    <3>2. \A sends \in stray' : sends # <<>> /\ sends \in Seq(Sendable')
      BY <1>0, <1>2, SeqMonotonic DEF IndInv, Server
    <3> QED
      BY <3>1, <3>2 DEF Owing
  <2>2. down' \in Seq((Messages \cup Acks \cup Errors)') /\ Len(down') <= Buffer
    <3>1. down \in Seq(Messages \cup Acks \cup Errors)
      BY DEF IndInv, Wire
    <3>2. /\ Append(down, frame) \in Seq(Messages \cup Acks \cup Errors)
          /\ Len(Append(down, frame)) = Len(down) + 1 /\ Len(down) \in Nat
      BY <3>1, AppendOf
    <3> QED
      BY <1>0, <1>2, <3>2, SeqMonotonic, LimitsAssumption
  <2>3. up' \in Seq((Resumes \cup Sendable)') /\ OneResume(up')
    BY <1>0, <1>2, SeqMonotonic
  <2>4. SrvFits'
    BY <1>2 DEF SrvFits
  <2>5. from' \in {-1} \cup Nat /\ Registered'
    BY <1>2 DEF IndInv, Wire, Registered
  <2> QED
    BY <2>1, <2>2, <2>3, <2>4, <2>5 DEF Wire, SrvFits
<1> QED
  BY <1>1, <1>2 DEF TrySend

\* What is neither sent nor received stays where it is.
LEMMA OwingStays ==
  ASSUME IndInv, Onward, UNCHANGED <<fan, stray>>
  PROVE  Owing'
<1>1. fan' \subseteq 1..Len(log')
  <2>1. 1..Len(log) \subseteq 1..Len(log')
    BY DEF Onward
  <2> QED
    BY <2>1 DEF IndInv, Server
<1>2. \A sends \in stray' : sends # <<>> /\ sends \in Seq(Sendable')
  BY Widening, SeqMonotonic DEF IndInv, Server
<1> QED
  BY <1>1, <1>2 DEF Owing

LEMMA UpStays ==
  ASSUME IndInv, Onward
  PROVE  up \in Seq((Resumes \cup Sendable)') /\ OneResume(up)
BY Widening, SeqMonotonic DEF IndInv, Wire

LEMMA DownStays ==
  ASSUME IndInv, Onward, UNCHANGED down
  PROVE  down' \in Seq((Messages \cup Acks \cup Errors)') /\ Len(down') <= Buffer
<1>1. Messages \cup Acks \cup Errors \subseteq (Messages \cup Acks \cup Errors)'
  BY Widening
<1> QED
  BY <1>1, SeqMonotonic DEF IndInv, Wire

LEMMA SrvStays ==
  ASSUME IndInv, Onward, UNCHANGED srv
  PROVE  SrvFits'
<1>1. SrvFits
  BY DEF IndInv, Wire, SrvFits
<1> QED
  BY <1>1 DEF SrvFits, Onward

\* Each step of the connection keeps what is owed, and its frames.
LEMMA LinkKept == ASSUME IndInv, [Next]_vars PROVE Owing' /\ Wire'
<1>0. /\ Onward /\ SrvFits /\ fan \subseteq 1..Len(log)
      /\ up \in Seq(Resumes \cup Sendable) /\ OneResume(up)
      /\ from \in {-1} \cup Nat /\ (from # -1 => Registered)
      /\ Len(log) \in Nat /\ \A n \in 1..Len(log) : log[n] \in Rows \cup {Other}
  BY AllMoves, LenProperties, ElementOfSeq DEF IndInv, Wire, SrvFits, Server, Onward
<1>1. ASSUME UNCHANGED <<fan, stray, srv, up, down, from>>
      PROVE  Owing' /\ Wire'
  BY <1>0, <1>1, OwingStays, UpStays, DownStays, SrvStays DEF Wire, SrvFits, Registered
<1>2. ASSUME NEW k \in Catchups, Connect(k)
      PROVE  Owing' /\ Wire'
  <2>1. Owing'
    BY <1>0, <1>2, OwingStays DEF Connect, server
  <2>2. up' \in Seq((Resumes \cup Sendable)') /\ OneResume(up')
    <3>1. Frame("resume", 0, mark) \in Resumes
      BY DEF IndInv, LocalStore, Resumes
    <3>2. Frame("resume", 0, mark) \in (Resumes \cup Sendable)'
      BY <1>0, <3>1, Widening
    <3>3. up' = Append(<<>>, Frame("resume", 0, mark))
      BY <1>2 DEF Connect
    <3>4. up' \in Seq((Resumes \cup Sendable)')
      BY <3>2, <3>3, AppendOf, EmptySeq
    <3>5. OneResume(up')
      BY <3>3 DEF OneResume, Resumed
    <3> QED
      BY <3>4, <3>5
  <2>3. SrvFits'
    BY <1>0, <1>2 DEF Connect, SrvFits, Nowhere, server
  <2>4. from' = from /\ from = -1
    BY <1>0, <1>2 DEF Connect, Registered, Open
  <2>5. down' \in Seq((Messages \cup Acks \cup Errors)') /\ Len(down') <= Buffer
    BY <1>0, <1>2, DownStays DEF Connect
  <2> QED
    BY <2>1, <2>2, <2>3, <2>4, <2>5 DEF Wire, SrvFits
<1>3. CASE Register
  <2>1. SrvFits' /\ Registered'
    BY <1>0, <1>3 DEF Register, SrvFits, Reading, Nowhere, Registered, server
  <2> QED
    BY <1>0, <1>3, <2>1, OwingStays, UpStays, DownStays DEF Register, Wire, SrvFits, server
<1>4. CASE Drop \/ Reload
  <2>1. Lose(srv, fan, up)
    BY <1>4 DEF Drop, Reload
  <2>2. srv.at \in {"ack", "members"} => srv.seq \in 1..Len(log)
    BY <1>0 DEF SrvFits
  <2>3. Sends(up) \in Seq(Sendable)
    BY <1>0, SendsOf, FramesAre
  <2> QED
    BY <1>0, <2>1, <2>2, <2>3, Losing
<1>5. CASE Resume
  <2>1. /\ srv.at = "read" /\ up # <<>> /\ Head(up).type = "resume" /\ up' = Tail(up)
        /\ UNCHANGED <<fan, stray, log, down>>
    BY <1>5 DEF Resume, server
  <2>2. Head(up) \in Resumes
    <3>1. Head(up) \in Resumes \cup Sendable
      BY <1>0, <2>1, TailOf
    <3> QED
      BY <2>1, <3>1, SendableIs
  <2>3. PICK n \in 0..Len(log) : n = Head(up).seq
    BY <2>2, FramesAre
  <2>4. /\ After(n, ReplayCap).upto \in n..Len(log)
        /\ ReplayCap \in Nat \ {0}
    BY <1>0, AfterIs, LimitsAssumption
  <2>5. PICK m \in n..Len(log) : m = After(n, ReplayCap).upto
    BY <2>4
  <2>6. \/ UNCHANGED <<srv, from>>
        \/ from' = n /\ n # 0 /\ srv' = srv
        \/ from' = n /\ n # 0 /\ m # n /\ srv' = [Reading EXCEPT !.at = "replay", !.seq = n + 1, !.upto = m]
    BY <1>5, <2>3, <2>5 DEF Resume
  <2>7. SrvFits' /\ from' \in {-1} \cup Nat /\ Registered'
    <3>1. CASE srv' = srv
      BY <1>0, <2>1, <2>6, <3>1 DEF SrvFits, Registered
    <3>2. CASE srv' = [Reading EXCEPT !.at = "replay", !.seq = n + 1, !.upto = m] /\ m # n /\ from' = n
      <4>1. /\ srv'.at = "replay" /\ srv'.row = 0 /\ srv'.seq = n + 1 /\ srv'.upto = m
            /\ srv' \in [at : {"replay"}, row : {0}, seq : {n + 1}, upto : {m}]
        BY <3>2 DEF Reading, Nowhere
      <4>2. n + 1 \in 1..m /\ n + 1 \in 0..Len(log) /\ m \in 0..Len(log)
        BY <1>0, <3>2
      <4> QED
        BY <1>0, <2>1, <3>2, <4>1, <4>2 DEF SrvFits, Registered
    <3> QED
      BY <2>6, <3>1, <3>2
  <2>8. up' \in Seq((Resumes \cup Sendable)') /\ OneResume(up')
    <3>1. Tail(up) \in Seq(Resumes \cup Sendable) /\ OneResume(Tail(up))
      BY <1>0, <2>1, TailOf, OneTail
    <3> QED
      BY <1>0, <2>1, <3>1, Widening, SeqMonotonic
  <2> QED
    BY <1>0, <2>1, <2>7, <2>8, OwingStays, DownStays DEF Wire, SrvFits
<1>6. CASE Replay
  <2>1. /\ srv.at = "replay" /\ srv.seq \in 1..srv.upto /\ srv.upto \in 0..Len(log) /\ srv.row \in Rows \cup {0}
        /\ UNCHANGED log
    BY <1>0, <1>6 DEF Replay, SrvFits
  <2>2. Frame("message", 0, srv.seq) \in Messages
    BY <1>0, <2>1 DEF Messages
  <2>3. CASE srv.seq = srv.upto
    <3>1. TrySend(Frame("message", 0, srv.seq), Reading, fan, up)
      BY <1>6, <2>3 DEF Replay
    <3>2. Reading \in [at : {"read"}, row : {0}, seq : {0}, upto : {0}]
      BY DEF Reading, Nowhere
    <3> QED
      BY <1>0, <2>1, <2>2, <3>1, <3>2, Trying
  <2>4. CASE srv.seq # srv.upto
    <3>1. PICK s : s = [srv EXCEPT !.seq = @ + 1]
      OBVIOUS
    <3>2. TrySend(Frame("message", 0, srv.seq), s, fan, up)
      BY <1>6, <2>4, <3>1 DEF Replay
    <3>3. /\ s.at = "replay" /\ s.seq = srv.seq + 1 /\ s.upto = srv.upto
          /\ s \in [at : {"replay"}, row : Rows \cup {0}, seq : {srv.seq + 1}, upto : 0..Len(log)]
      BY <1>0, <2>1, <3>1 DEF SrvFits
    <3>4. s.seq \in 1..s.upto /\ srv.seq + 1 \in 0..Len(log)
      BY <1>0, <2>1, <2>4, <3>3
    <3>5. s \in [at : {"off", "accepted", "read", "replay", "ack", "members"},
                 row : Rows \cup {0}, seq : 0..Len(log), upto : 0..Len(log)]
      BY <3>3, <3>4
    <3> QED
      BY <1>0, <2>1, <2>2, <3>2, <3>3, <3>4, <3>5, Trying
  <2> QED
    BY <2>3, <2>4
<1>7. ASSUME up # <<>>, Head(up).type = "send"
      PROVE  /\ Head(up) \in Sendable
             /\ Tail(up) \in Seq(Resumes \cup Sendable) /\ OneResume(Tail(up))
  <2>1. Head(up) \in Sendable
    <3>1. Head(up) \in Resumes \cup Sendable
      BY <1>0, <1>7, TailOf
    <3> QED
      BY <1>7, <3>1, FramesAre
  <2> QED
    BY <1>0, <1>7, <2>1, TailOf, OneTail
<1>8. CASE HandleSend
  <2>1. PICK r \in Rows : r = Head(up).row
    BY <1>7, <1>8, SendableIs DEF HandleSend
  <2>2. /\ log' = Stored(r) /\ srv' = [Reading EXCEPT !.at = "ack", !.row = r, !.seq = SeqFor(r)]
        /\ up' = Tail(up) /\ srv.at = "read" /\ UNCHANGED <<fan, stray, down, from>>
    BY <1>8, <2>1 DEF HandleSend
  <2>3. PICK n : n = SeqFor(r)
    OBVIOUS
  <2>4. n \in 1..Len(log') /\ log'[n] = r /\ Len(log') \in Nat
    BY <1>0, <2>2, <2>3, SeqForIs DEF IndInv, Server, Onward
  <2>5. /\ srv' \in [at : {"ack"}, row : {r}, seq : {n}, upto : {0}]
        /\ srv'.at = "ack" /\ srv'.row = r /\ srv'.seq = n
    BY <2>2, <2>3 DEF Reading, Nowhere
  <2>6. SrvFits' /\ Registered'
    BY <2>4, <2>5, RowsFinite DEF SrvFits, Registered, Other
  <2>7. up' \in Seq((Resumes \cup Sendable)') /\ OneResume(up')
    BY <1>0, <1>7, <1>8, <2>2, Widening, SeqMonotonic DEF HandleSend
  <2> QED
    BY <1>0, <2>2, <2>6, <2>7, OwingStays, DownStays DEF Wire, SrvFits
<1>9. CASE Refuse
  <2>1. /\ TrySend(Frame("error", Head(up).row, 0), Reading, fan, Tail(up)) /\ UNCHANGED log
        /\ up # <<>> /\ Head(up).type = "send"
    BY <1>9 DEF Refuse
  <2>2. Frame("error", Head(up).row, 0) \in Errors
    BY <1>7, <2>1, SendableIs DEF Errors
  <2>3. PICK s : s = Reading
    OBVIOUS
  <2>4. s \in [at : {"read"}, row : {0}, seq : {0}, upto : {0}] /\ s.at = "read"
    BY <2>3 DEF Reading, Nowhere
  <2>5. s \in [at : {"off", "accepted", "read", "replay", "ack", "members"},
               row : Rows \cup {0}, seq : 0..Len(log), upto : 0..Len(log)]
    BY <1>0, <2>4
  <2>6. TrySend(Frame("error", Head(up).row, 0), s, fan, Tail(up))
    BY <2>1, <2>3
  <2> QED
    BY <1>0, <1>7, <2>1, <2>2, <2>4, <2>5, <2>6, Trying
<1>10. CASE Ack
  <2>1. PICK s : s = [srv EXCEPT !.at = "members"]
    OBVIOUS
  <2>2. /\ TrySend(Frame("ack", srv.row, srv.seq), s, fan, up) /\ UNCHANGED log
        /\ srv.at = "ack"
    BY <1>10, <2>1 DEF Ack
  <2>3. srv.seq \in 1..Len(log) /\ srv.row # Other /\ log[srv.seq] = srv.row
    BY <1>0, <2>2 DEF SrvFits
  <2>4. Frame("ack", srv.row, srv.seq) \in Acks
    BY <2>3 DEF Acks
  <2>5. /\ s \in [at : {"off", "accepted", "read", "replay", "ack", "members"},
                  row : Rows \cup {0}, seq : 0..Len(log), upto : 0..Len(log)]
        /\ s.at = "members" /\ s.seq = srv.seq /\ s.row = srv.row
    BY <1>0, <2>1 DEF SrvFits
  <2> QED
    BY <1>0, <2>2, <2>3, <2>4, <2>5, Trying
<1>11. CASE SendToOthers
  <2>1. SrvFits' /\ Registered'
    BY <1>0, <1>11 DEF SendToOthers, SrvFits, Reading, Nowhere, Registered, server
  <2> QED
    BY <1>0, <1>11, <2>1, OwingStays, UpStays, DownStays DEF SendToOthers, Wire, SrvFits, server
<1>12. CASE Send
  <2>1. log' = Append(log, Other) /\ fan' = fan \cup {Len(log) + 1} /\ UNCHANGED <<stray, wire, from>>
    BY <1>12 DEF Send
  <2>2. Len(log') = Len(log) + 1
    <3>1. log \in Seq(Rows \cup {Other}) /\ Other \in Rows \cup {Other}
      BY DEF IndInv, Server
    <3>2. Len(Append(log, Other)) = Len(log) + 1
      BY <3>1, AppendOf
    <3> QED
      BY <2>1, <3>2
  <2>3. fan' \subseteq 1..Len(log')
    <3>1. 1..Len(log) \subseteq 1..Len(log') /\ Len(log) + 1 \in 1..Len(log')
      BY <1>0, <2>2
    <3> QED
      BY <1>0, <2>1, <3>1
  <2>4. \A sends \in stray' : sends # <<>> /\ sends \in Seq(Sendable')
    BY <1>0, <2>1, Widening, SeqMonotonic DEF IndInv, Server
  <2> QED
    BY <1>0, <2>1, <2>3, <2>4, UpStays, DownStays, SrvStays DEF Owing, Wire, SrvFits, wire, Registered
<1>13. ASSUME NEW sends \in stray, StraySend(sends)
       PROVE  Owing' /\ Wire'
  <2>1. sends # <<>> /\ sends \in Seq(Sendable) /\ Head(sends) \in Sendable
    BY TailOf DEF IndInv, Server
  <2>2. PICK r \in Rows : r = Head(sends).row
    BY <2>1, SendableIs
  <2>3. /\ stray' = (stray \ {sends}) \cup (IF Len(sends) = 1 THEN {} ELSE {Tail(sends)})
        /\ log' = Stored(r) /\ fan' = fan \cup {SeqFor(r)} /\ UNCHANGED <<wire, from>>
    BY <1>13, <2>2 DEF StraySend
  <2>4. SeqFor(r) \in 1..Len(log')
    BY <2>3, SeqForIs DEF IndInv, Server
  <2>5. fan' \subseteq 1..Len(log')
    <3>1. 1..Len(log) \subseteq 1..Len(log')
      BY <1>0 DEF Onward
    <3> QED
      BY <1>0, <2>3, <2>4, <3>1
  <2>6. Tail(sends) \in Seq(Sendable) /\ (Len(sends) # 1 => Tail(sends) # <<>>)
    <3>1. Tail(sends) \in Seq(Sendable) /\ Len(Tail(sends)) = Len(sends) - 1 /\ Len(sends) \in Nat
      BY <2>1, TailOf
    <3>2. Len(<<>>) = 0
      OBVIOUS
    <3>3. Len(sends) # 0
      BY <2>1, TailOf
    <3>4. Len(sends) # 1 => Len(Tail(sends)) # Len(<<>>)
      BY <3>1, <3>2, <3>3
    <3> QED
      BY <3>1, <3>4
  <2>7. \A x \in stray' : x # <<>> /\ x \in Seq(Sendable)
    BY <2>3, <2>6 DEF IndInv, Server
  <2>8. \A x \in stray' : x # <<>> /\ x \in Seq(Sendable')
    BY <1>0, <2>7, Widening, SeqMonotonic
  <2> QED
    BY <1>0, <2>3, <2>5, <2>8, UpStays, DownStays, SrvStays DEF Owing, Wire, SrvFits, wire, Registered
<1>14. ASSUME NEW n \in fan, SendToUsers(n)
       PROVE  Owing' /\ Wire'
  <2>1. CASE Registered
    <3>1. TrySend(Frame("message", 0, n), srv, fan \ {n}, up) /\ UNCHANGED log
      BY <1>14, <2>1 DEF SendToUsers
    <3>2. Frame("message", 0, n) \in Messages
      BY <1>0 DEF Messages
    <3> QED
      BY <1>0, <2>1, <3>1, <3>2, Trying DEF SrvFits, Registered
  <2>2. CASE ~Registered
    <3>1. fan' = fan \ {n} /\ UNCHANGED <<stray, wire, from, log>>
      BY <1>14, <2>2 DEF SendToUsers
    <3>2. \A x \in stray' : x # <<>> /\ x \in Seq(Sendable')
      BY <1>0, <3>1, Widening, SeqMonotonic DEF IndInv, Server
    <3> QED
      BY <1>0, <3>1, <3>2, UpStays, DownStays, SrvStays DEF Owing, Wire, SrvFits, wire, Registered
  <2> QED
    BY <2>1, <2>2
<1>21. ASSUME NEW n \in fan, NoFanout(n)
       PROVE  Owing' /\ Wire'
  <2>1. fan' = fan \ {n} /\ UNCHANGED <<stray, wire, from, log>>
    BY <1>21 DEF NoFanout
  <2>2. \A x \in stray' : x # <<>> /\ x \in Seq(Sendable')
    BY <1>0, <2>1, Widening, SeqMonotonic DEF IndInv, Server
  <2> QED
    BY <1>0, <2>1, <2>2, UpStays, DownStays, SrvStays DEF Owing, Wire, SrvFits, wire, Registered
<1>15. CASE Transmit
  <2>1. CASE Open
    <3>1. /\ Submit(Frame("send", flush.row, 0)) /\ flush.at = "send"
          /\ UNCHANGED <<fan, stray, srv, down, from>>
      BY <1>15, <2>1 DEF Transmit, server
    <3>2. Frame("send", flush.row, 0) \in Sendable
      BY <3>1 DEF IndInv, Outbox, Sendable, Known
    <3>3. PICK frame \in Resumes \cup Sendable : frame = Frame("send", flush.row, 0) /\ frame.type = "send"
      BY <3>2, SendableIs
    <3>4. up' \in Seq(Resumes \cup Sendable) /\ OneResume(up')
      <4>1. /\ Append(up, frame) \in Seq(Resumes \cup Sendable)
            /\ OneResume(Append(up, frame))
        BY <1>0, <3>3, AppendOf, OneAppend
      <4>2. up # <<>> => /\ Front(up) \o <<frame, Last(up)>> \in Seq(Resumes \cup Sendable)
                         /\ OneResume(Front(up) \o <<frame, Last(up)>>)
        BY <1>0, <3>3, OneInsert
      <4> QED
        BY <3>1, <3>3, <4>1, <4>2 DEF Submit
    <3>5. up' \in Seq((Resumes \cup Sendable)') /\ OneResume(up')
      BY <1>0, <3>4, Widening, SeqMonotonic
    <3> QED
      BY <1>0, <3>1, <3>5, OwingStays, DownStays, SrvStays DEF Wire, SrvFits, Registered
  <2>2. CASE ~Open
    BY <1>1, <1>15, <2>2 DEF Transmit, server
  <2> QED
    BY <2>1, <2>2
<1>16. CASE Receive
  <2>1. down # <<>> /\ down' = Tail(down) /\ UNCHANGED <<fan, stray, srv, up, from>>
    BY <1>16 DEF Receive, server
  <2>2. down' \in Seq((Messages \cup Acks \cup Errors)') /\ Len(down') <= Buffer
    <3>1. down \in Seq(Messages \cup Acks \cup Errors) /\ Len(down) <= Buffer
      BY DEF IndInv, Wire
    <3>2. /\ Tail(down) \in Seq(Messages \cup Acks \cup Errors)
          /\ Len(Tail(down)) = Len(down) - 1 /\ Len(down) \in Nat
      BY <2>1, <3>1, TailOf
    <3>3. Messages \cup Acks \cup Errors \subseteq (Messages \cup Acks \cup Errors)'
      BY <1>0, Widening
    <3> QED
      BY <2>1, <3>1, <3>2, <3>3, SeqMonotonic, LimitsAssumption
  <2> QED
    BY <1>0, <2>1, <2>2, OwingStays, UpStays, SrvStays DEF Wire, SrvFits, Registered
<1>17. ASSUME NEW k \in Catchups, Sync(k)
       PROVE  Owing' /\ Wire'
  BY <1>1, <1>17 DEF Sync, SyncRead, SyncServe, SyncStore, SyncFail, Unfail, server, wire
<1>18. ASSUME NEW r \in Rows, AckDone(r) \/ Compose(r) \/ Retry(r)
       PROVE  Owing' /\ Wire'
  BY <1>1, <1>18 DEF AckDone, Compose, Retry, server, wire
<1>19. CASE Pick \/ Upload \/ GiveUp \/ Timeout \/ Page
  BY <1>1, <1>19 DEF Pick, Upload, GiveUp, Timeout, Page, OpenPane, LoadOlder, AskPage, StorePage,
     server, wire
<1>20. CASE UNCHANGED vars
  BY <1>1, <1>20 DEF vars, server, wire
<1> QED
  BY <1>2, <1>3, <1>4, <1>5, <1>6, <1>8, <1>9, <1>10, <1>11, <1>12, <1>13, <1>14, <1>15, <1>16,
     <1>17, <1>18, <1>19, <1>20, <1>21 DEF Next, Serve, Flush
-----------------------------------------------------------------------------
(* The local store.                                                        *)

\* Storing what the server has keeps the store true.
LEMMA Storing ==
  ASSUME IndInv, Onward, NEW T \in SUBSET (1..Len(log)), NEW msgs, DOMAIN msgs = T,
         \A n \in T : msgs[n] = log[n], Store(msgs)
  PROVE  LocalStore' /\ DOMAIN local' = DOMAIN local \cup T
<1>1. /\ \A n \in DOMAIN local : n \in 1..Len(log) /\ local[n] = log[n]
      /\ mark \in 0..Len(log) /\ Len(log) \in Nat
  BY DEF IndInv, LocalStore, Onward
<1>2. /\ DOMAIN local' = DOMAIN local \cup T
      /\ \A n \in DOMAIN local' : local'[n] = IF n \in T THEN msgs[n] ELSE local[n]
      /\ mark' = Max({mark} \cup T)
  BY DEF Store
<1>3. \A n \in DOMAIN local' : n \in 1..Len(log') /\ local'[n] = log'[n]
  <2>1. 1..Len(log) \subseteq 1..Len(log') /\ \A n \in 1..Len(log) : log'[n] = log[n]
    BY DEF Onward
  <2>2. \A n \in DOMAIN local' : n \in 1..Len(log) /\ local'[n] = log[n]
    BY <1>1, <1>2
  <2> QED
    BY <2>1, <2>2
<1>4. mark' \in 0..Len(log')
  <2>1. {mark} \cup T \in SUBSET (0..Len(log)) /\ {mark} \cup T # {}
    BY <1>1
  <2>2. mark' \in {mark} \cup T
    BY <1>1, <1>2, <2>1, MaxIs
  <2> QED
    BY <2>1, <2>2 DEF Onward
<1> QED
  BY <1>2, <1>3, <1>4 DEF LocalStore

\* The head of what comes down, by its kind.
LEMMA HeadIs ==
  ASSUME IndInv, down # <<>>, NEW f, f = Head(down)
  PROVE  /\ f.type = "message" => f.seq \in 1..Len(log)
         /\ f.type = "ack" => f.seq \in 1..Len(log) /\ log[f.seq] = f.row /\ f.row \in Rows /\ Known(f.row)
         /\ f.type = "error" => f.seq = 0 /\ f.row \in Rows
<1>1. f \in Messages \cup Acks \cup Errors
  BY TailOf DEF IndInv, Wire
<1>2. \A n \in 1..Len(log) : log[n] # Other => Known(log[n])
  BY DEF IndInv, Server
<1> QED
  BY <1>1, <1>2, FramesAre DEF Known

LEMMA LocalKept == ASSUME IndInv, [Next]_vars PROVE LocalStore'
<1>0. Onward /\ LocalStore
  BY AllMoves DEF IndInv
<1>1. ASSUME UNCHANGED <<local, mark>>
      PROVE  LocalStore'
  BY <1>0, <1>1 DEF LocalStore, Onward
<1>2. CASE Serve \/ Send \/ Drop \/ Reload
  BY <1>1, <1>2 DEF Serve, Send, Register, Resume, Replay, HandleSend, Refuse, Ack, SendToOthers,
     Drop, Reload, idb
<1>3. CASE (\E sends \in stray : StraySend(sends)) \/ (\E n \in fan : SendToUsers(n) \/ NoFanout(n))
  BY <1>1, <1>3 DEF StraySend, SendToUsers, NoFanout, idb
<1>4. ASSUME NEW k \in Catchups, Connect(k) \/ SyncRead(k) \/ SyncServe(k) \/ SyncFail(k) \/ Unfail(k)
      PROVE  LocalStore'
  BY <1>1, <1>4 DEF Connect, SyncRead, SyncServe, SyncFail, Unfail, idb
<1>5. ASSUME NEW k \in Catchups, SyncStore(k)
      PROVE  LocalStore'
  <2>1. PICK lo, hi : lo = catchup[k].since + 1 /\ hi = catchup[k].upto
    OBVIOUS
  <2>2. lo \in Nat \ {0} /\ hi \in 0..Len(log) /\ Len(log) \in Nat
    BY <1>0, <2>1 DEF IndInv, CatchingUp, Onward
  <2>3. Store(Stretch(lo, hi))
    BY <1>5, <2>1 DEF SyncStore
  <2>4. /\ lo..hi \in SUBSET (1..Len(log)) /\ DOMAIN Stretch(lo, hi) = lo..hi
        /\ \A n \in lo..hi : Stretch(lo, hi)[n] = log[n]
    BY <2>2 DEF Stretch
  <2> QED
    BY <1>0, <2>3, <2>4, Storing
<1>6. CASE StorePage
  <2>1. PICK lo, hi : lo = page.lo /\ hi = page.hi
    OBVIOUS
  <2>2. lo \in Nat \ {0} /\ hi \in 0..Len(log) /\ Len(log) \in Nat
    BY <1>0, <1>6, <2>1 DEF IndInv, CatchingUp, Onward, StorePage
  <2>3. Store(Stretch(lo, hi))
    BY <1>6, <2>1 DEF StorePage
  <2>4. /\ lo..hi \in SUBSET (1..Len(log)) /\ DOMAIN Stretch(lo, hi) = lo..hi
        /\ \A n \in lo..hi : Stretch(lo, hi)[n] = log[n]
    BY <2>2 DEF Stretch
  <2> QED
    BY <1>0, <2>3, <2>4, Storing
<1>7. CASE Receive
  <2>1. down # <<>>
    BY <1>7 DEF Receive
  <2>2. PICK f : f = Head(down)
    OBVIOUS
  <2>3. PICK n : n = f.seq
    OBVIOUS
  <2>4. CASE f.type = "message" /\ Store(Stretch(n, n))
    <3>1. n \in 1..Len(log)
      BY <2>1, <2>2, <2>3, <2>4, HeadIs
    <3>2. DOMAIN Stretch(n, n) = {n} /\ Stretch(n, n)[n] = log[n]
      BY <1>0, <3>1 DEF Stretch, Onward
    <3> QED
      BY <1>0, <2>4, <3>1, <3>2, Storing
  <2>5. CASE f.type = "ack" /\ TakeAck(f.row, n)
    <3>1. n \in 1..Len(log) /\ log[n] = f.row
      BY <2>1, <2>2, <2>3, <2>5, HeadIs
    <3> QED
      BY <1>0, <2>5, <3>1, Storing DEF TakeAck
  <2>6. CASE UNCHANGED <<local, mark>>
    BY <1>1, <2>6
  <2> QED
    BY <1>7, <2>2, <2>3, <2>4, <2>5, <2>6 DEF Receive
<1>8. ASSUME NEW r \in Rows, AckDone(r) \/ Compose(r) \/ Retry(r)
      PROVE  LocalStore'
  BY <1>1, <1>8 DEF AckDone, Compose, Retry, idb
<1>9. CASE Flush \/ Timeout \/ OpenPane \/ LoadOlder
  BY <1>1, <1>9 DEF Flush, Timeout, Pick, Upload, Transmit, GiveUp, OpenPane, LoadOlder, AskPage, idb
<1>10. CASE UNCHANGED vars
  BY <1>1, <1>10 DEF vars, idb
<1> QED
  BY <1>2, <1>3, <1>4, <1>5, <1>6, <1>7, <1>8, <1>9, <1>10 DEF Next, Sync, Page

\* What is stored stays, with its seq.
LEMMA StillHeld ==
  ASSUME IndInv, [Next]_vars, NEW r \in Rows, \E n \in DOMAIN local : local[n] = r
  PROVE  \E n \in DOMAIN local' : local'[n] = r
<1>1. PICK n \in DOMAIN local : local[n] = r
  OBVIOUS
<1>2. n \in DOMAIN local' /\ n \in 1..Len(log) /\ local[n] = log[n] /\ log'[n] = log[n]
  BY AllMoves DEF IndInv, LocalStore, Onward
<1>3. local'[n] = log'[n]
  BY <1>2, LocalKept DEF LocalStore
<1> QED
  BY <1>1, <1>2, <1>3
-----------------------------------------------------------------------------
(* What a replayed resume promised.                                        *)

Brings(s, n) == (s.at = "replay" /\ n \in s.seq..s.upto) \/ (s.at = "ack" /\ n = s.seq)

LEMMA ComingIs ==
  \A n : Coming(n) <=> n \in fan \/ (\E i \in DOMAIN down : down[i].seq = n) \/ Brings(srv, n)
BY DEF Coming, Brings

LEMMA DownIs ==
  ASSUME IndInv
  PROVE  /\ down \in Seq(Messages \cup Acks \cup Errors)
         /\ Len(down) \in Nat /\ DOMAIN down = 1..Len(down)
BY LenProperties DEF IndInv, Wire

\* A frame that was tried is queued with those before it, or nothing is promised.
LEMMA TriedReaches ==
  ASSUME IndInv, Onward, UNCHANGED log, NEW frame, NEW s, NEW f, NEW u, TrySend(frame, s, f, u),
         frame \in Messages \cup Acks \cup Errors,
         \A n \in fan : n \in f \/ n = frame.seq,
         \A n : Brings(srv, n) => Brings(s, n) \/ n = frame.seq
  PROVE  NothingMissed'
<1>1. CASE Lose(s, f, u)
  BY <1>1 DEF Lose, NothingMissed
<1>2. CASE /\ Len(down) < Buffer /\ down' = Append(down, frame)
           /\ srv' = s /\ fan' = f /\ up' = u /\ UNCHANGED <<from, stray>>
  <2>1. /\ Len(down') = Len(down) + 1 /\ down'[Len(down) + 1] = frame
        /\ \A i \in 1..Len(down) : down'[i] = down[i]
        /\ down' \in Seq(Messages \cup Acks \cup Errors)
    BY <1>2, DownIs, AppendOf
  <2>2. DOMAIN down' = 1..(Len(down) + 1) /\ DOMAIN down = 1..Len(down) /\ Len(down) \in Nat
    BY <2>1, DownIs, LenProperties
  <2>3. ASSUME NEW n, Coming(n)
        PROVE  Coming(n)'
    <3>1. CASE \E i \in DOMAIN down : down[i].seq = n
      <4>1. PICK i \in DOMAIN down : down[i].seq = n
        BY <3>1
      <4>2. i \in DOMAIN down' /\ down'[i] = down[i]
        BY <2>1, <2>2
      <4> QED
        BY <4>1, <4>2 DEF Coming
    <3>2. CASE n = frame.seq
      <4>1. Len(down) + 1 \in DOMAIN down'
        BY <2>2
      <4> QED
        BY <2>1, <3>2, <4>1 DEF Coming
    <3>3. CASE n \in f
      BY <1>2, <3>3 DEF Coming
    <3>4. CASE Brings(s, n)
      BY <1>2, <3>4 DEF Coming, Brings
    <3> QED
      BY <2>3, <3>1, <3>2, <3>3, <3>4, ComingIs
  <2> QED
    BY <1>2, <2>3 DEF NothingMissed, IndInv, Onward
<1> QED
  BY <1>1, <1>2 DEF TrySend

\* AppendMessage: the log has one entry more, or none.
LEMMA StoredIs ==
  ASSUME log \in Seq(Rows \cup {Other}), NEW r \in Rows, log' = Stored(r)
  PROVE  \A n \in 1..Len(log') : n \in 1..Len(log) \/ n = SeqFor(r)
<1>1. CASE r \in Range(log)
  BY <1>1 DEF Stored
<1>2. CASE r \notin Range(log)
  <2>1. Len(log') = Len(log) + 1 /\ SeqFor(r) = Len(log) + 1 /\ Len(log) \in Nat
    BY <1>2, AppendOf DEF Stored, SeqFor
  <2> QED
    BY <2>1
<1> QED
  BY <1>1, <1>2

LEMMA PromiseKept == ASSUME IndInv, [Next]_vars PROVE NothingMissed'
<1>0. /\ Onward /\ NothingMissed /\ (from # -1 => Registered) /\ from \in {-1} \cup Nat
      /\ log \in Seq(Rows \cup {Other}) /\ Len(log) \in Nat
      /\ DOMAIN local \subseteq DOMAIN local' /\ unsent \subseteq unsent'
  BY AllMoves DEF IndInv, Wire, Server, Onward
<1>1. ASSUME from' = -1
      PROVE  NothingMissed'
  BY <1>1 DEF NothingMissed
<1>2. ASSUME UNCHANGED from, \A n \in 1..Len(log') : n \in 1..Len(log) \/ Coming(n)',
             \A n \in 1..Len(log) : Coming(n) => Coming(n)' \/ n \in DOMAIN local' \/ n \in unsent'
      PROVE  NothingMissed'
  <2> SUFFICES ASSUME from >= 0, NEW n \in (from + 1)..Len(log')
               PROVE  n \in DOMAIN local' \/ Coming(n)' \/ n \in unsent'
    BY <1>2 DEF NothingMissed
  <2>1. from \in Nat /\ n \in 1..Len(log')
    BY <1>0
  <2>2. CASE n \in 1..Len(log)
    <3>1. n \in DOMAIN local \/ Coming(n) \/ n \in unsent
      BY <1>0, <2>1, <2>2 DEF NothingMissed
    <3> QED
      BY <1>0, <1>2, <2>2, <3>1
  <2> QED
    BY <1>2, <2>1, <2>2
<1>3. ASSUME UNCHANGED <<log, fan, srv, down, from>>
      PROVE  NothingMissed'
  BY <1>2, <1>3 DEF Coming
<1>4. ASSUME NEW k \in Catchups, Connect(k)
      PROVE  NothingMissed'
  BY <1>0, <1>1, <1>4 DEF Connect, Open, Registered
<1>5. CASE Register
  BY <1>0, <1>1, <1>5 DEF Register, Registered
<1>6. CASE Drop \/ Reload
  BY <1>1, <1>6 DEF Drop, Reload, Lose
<1>7. CASE Resume
  <2>1. /\ srv.at = "read" /\ up # <<>> /\ Head(up).type = "resume"
        /\ UNCHANGED <<fan, log, down>>
    BY <1>7 DEF Resume, server
  <2>2. Head(up) \in Resumes
    <3>1. Head(up) \in Resumes \cup Sendable
      BY <2>1, TailOf DEF IndInv, Wire
    <3> QED
      BY <2>1, <3>1, SendableIs
  <2>3. PICK n \in 0..Len(log) : n = Head(up).seq
    BY <2>2, FramesAre
  <2>4. PICK m : m = After(n, ReplayCap).upto
    OBVIOUS
  <2>5. ~After(n, ReplayCap).more => m = Len(log)
    BY <1>0, <2>4, AfterIs, LimitsAssumption
  <2>6. CASE UNCHANGED <<srv, from>>
    BY <1>3, <2>1, <2>6
  <2>7. CASE /\ from' = n /\ m = Len(log)
             /\ srv' = IF m = n THEN srv
                       ELSE [Reading EXCEPT !.at = "replay", !.seq = n + 1, !.upto = m]
    <3>1. ASSUME NEW i \in (n + 1)..Len(log)
          PROVE  Coming(i)'
      <4>1. m # n
        BY <1>0, <2>7
      <4>2. srv'.at = "replay" /\ srv'.seq = n + 1 /\ srv'.upto = m
        BY <2>7, <4>1 DEF Reading, Nowhere
      <4> QED
        BY <2>7, <4>2 DEF Coming
    <3> QED
      BY <2>1, <2>7, <3>1 DEF NothingMissed
  <2> QED
    BY <1>7, <2>3, <2>4, <2>5, <2>6, <2>7 DEF Resume
<1>8. CASE Replay
  <2>1. /\ srv.at = "replay" /\ srv.seq \in 1..srv.upto /\ srv.upto \in 0..Len(log)
        /\ UNCHANGED log /\ srv \in [at : {"replay"}, row : Rows \cup {0}, seq : 0..Len(log), upto : 0..Len(log)]
    BY <1>0, <1>8 DEF Replay, IndInv, Wire
  <2>2. PICK s : s = IF srv.seq = srv.upto THEN Reading ELSE [srv EXCEPT !.seq = @ + 1]
    OBVIOUS
  <2>3. TrySend(Frame("message", 0, srv.seq), s, fan, up)
    BY <1>8, <2>2 DEF Replay
  <2>4. Frame("message", 0, srv.seq) \in Messages /\ Frame("message", 0, srv.seq).seq = srv.seq
    BY <1>0, <2>1 DEF Messages, Frame
  <2>5. ASSUME NEW n, Brings(srv, n)
        PROVE  Brings(s, n) \/ n = srv.seq
    <3>1. n \in srv.seq..srv.upto
      BY <2>1, <2>5 DEF Brings
    <3>2. CASE srv.seq = srv.upto
      BY <1>0, <2>1, <3>1, <3>2
    <3>3. CASE srv.seq # srv.upto
      <4>1. s.at = "replay" /\ s.seq = srv.seq + 1 /\ s.upto = srv.upto
        BY <2>1, <2>2, <3>3
      <4>2. n = srv.seq \/ n \in (srv.seq + 1)..srv.upto
        BY <1>0, <2>1, <3>1
      <4> QED
        BY <4>1, <4>2 DEF Brings
    <3> QED
      BY <3>2, <3>3
  <2> QED
    BY <1>0, <2>1, <2>3, <2>4, <2>5, TriedReaches
<1>9. CASE HandleSend
  <2>1. PICK r : r = Head(up).row
    OBVIOUS
  <2>2. /\ srv.at = "read" /\ up # <<>> /\ Head(up).type = "send" /\ log' = Stored(r)
        /\ srv' = [Reading EXCEPT !.at = "ack", !.row = r, !.seq = SeqFor(r)]
        /\ UNCHANGED <<fan, down, from>>
    BY <1>9, <2>1 DEF HandleSend
  <2>3. r \in Rows
    <3>1. Head(up) \in Resumes \cup Sendable
      BY <2>2, TailOf DEF IndInv, Wire
    <3>2. Head(up) \in Sendable
      BY <2>2, <3>1, FramesAre
    <3> QED
      BY <2>1, <3>2, SendableIs
  <2>4. srv'.at = "ack" /\ srv'.seq = SeqFor(r)
    BY <2>2 DEF Reading, Nowhere
  <2>5. \A n \in 1..Len(log') : n \in 1..Len(log) \/ n = SeqFor(r)
    BY <1>0, <2>2, <2>3, StoredIs
  <2>6. \A n : Coming(n) => Coming(n)'
    BY <2>2 DEF Coming
  <2>7. \A n : n = SeqFor(r) => Coming(n)'
    BY <2>4 DEF Coming
  <2> QED
    BY <1>2, <2>2, <2>5, <2>6, <2>7
<1>10. CASE Refuse
  <2>1. PICK frame, s : frame = Frame("error", Head(up).row, 0) /\ s = Reading
    OBVIOUS
  <2>2. /\ TrySend(frame, s, fan, Tail(up)) /\ UNCHANGED log
        /\ srv.at = "read" /\ up # <<>> /\ Head(up).type = "send"
    BY <1>10, <2>1 DEF Refuse
  <2>3. frame \in Errors
    <3>1. Head(up) \in Resumes \cup Sendable
      BY <2>2, TailOf DEF IndInv, Wire
    <3>2. Head(up) \in Sendable
      BY <2>2, <3>1, FramesAre
    <3> QED
      BY <2>1, <3>2, SendableIs DEF Errors
  <2>4. \A n : ~Brings(srv, n)
    BY <2>2 DEF Brings
  <2> QED
    BY <1>0, <2>2, <2>3, <2>4, TriedReaches
<1>11. CASE Ack
  <2>1. PICK frame, s : frame = Frame("ack", srv.row, srv.seq) /\ s = [srv EXCEPT !.at = "members"]
    OBVIOUS
  <2>2. TrySend(frame, s, fan, up) /\ UNCHANGED log /\ srv.at = "ack"
    BY <1>11, <2>1 DEF Ack
  <2>3. srv.seq \in 1..Len(log) /\ srv.row # Other /\ log[srv.seq] = srv.row
    BY <1>0, <2>2 DEF IndInv, Wire
  <2>4. frame \in Acks /\ frame.seq = srv.seq
    BY <2>1, <2>3 DEF Acks, Frame
  <2>5. \A n : Brings(srv, n) => n = frame.seq
    BY <2>2, <2>4 DEF Brings
  <2> QED
    BY <1>0, <2>2, <2>4, <2>5, TriedReaches
<1>12. CASE SendToOthers
  <2>1. srv.at = "members" /\ UNCHANGED <<log, fan, down, from>>
    BY <1>12 DEF SendToOthers, server
  <2>2. \A n : Coming(n) => Coming(n)'
    BY <2>1 DEF Coming
  <2> QED
    BY <1>2, <2>1, <2>2
<1>13. CASE Send
  <2>1. log' = Append(log, Other) /\ fan' = fan \cup {Len(log) + 1} /\ UNCHANGED <<srv, down, from>>
    BY <1>13 DEF Send, wire
  <2>2. \A n \in 1..Len(log') : n \in 1..Len(log) \/ n = Len(log) + 1
    <3>1. log \in Seq(Rows \cup {Other}) /\ Other \in Rows \cup {Other}
      BY <1>0
    <3>2. Len(Append(log, Other)) = Len(log) + 1
      BY <3>1, AppendOf
    <3> QED
      BY <1>0, <2>1, <3>2
  <2>3. \A n : Coming(n) \/ n = Len(log) + 1 => Coming(n)'
    BY <2>1 DEF Coming
  <2> QED
    BY <1>2, <2>1, <2>2, <2>3
<1>14. ASSUME NEW sends \in stray, StraySend(sends)
       PROVE  NothingMissed'
  <2>1. sends # <<>> /\ sends \in Seq(Sendable) /\ Head(sends) \in Sendable
    BY TailOf DEF IndInv, Server
  <2>2. PICK r \in Rows : r = Head(sends).row
    BY <2>1, SendableIs
  <2>3. log' = Stored(r) /\ fan' = fan \cup {SeqFor(r)} /\ UNCHANGED <<srv, down, from>>
    BY <1>14, <2>2 DEF StraySend, wire
  <2>4. \A n \in 1..Len(log') : n \in 1..Len(log) \/ n = SeqFor(r)
    BY <1>0, <2>3, StoredIs
  <2>5. \A n : Coming(n) \/ n = SeqFor(r) => Coming(n)'
    BY <2>3 DEF Coming
  <2> QED
    BY <1>2, <2>3, <2>4, <2>5
<1>15. ASSUME NEW n \in fan, SendToUsers(n)
       PROVE  NothingMissed'
  <2>1. CASE Registered
    <3>1. TrySend(Frame("message", 0, n), srv, fan \ {n}, up) /\ UNCHANGED log
      BY <1>15, <2>1 DEF SendToUsers
    <3>2. Frame("message", 0, n) \in Messages /\ Frame("message", 0, n).seq = n
      BY DEF Messages, Frame, IndInv, Server
    <3> QED
      BY <1>0, <3>1, <3>2, TriedReaches
  <2>2. CASE ~Registered
    BY <1>0, <1>1, <1>15, <2>2 DEF SendToUsers
  <2> QED
    BY <2>1, <2>2
<1>21. ASSUME NEW n \in fan, NoFanout(n)
       PROVE  NothingMissed'
  <2>1. fan' = fan \ {n} /\ n \in unsent' /\ UNCHANGED <<log, srv, down, from>>
    BY <1>21 DEF NoFanout, wire
  <2>2. \A i : Coming(i) => Coming(i)' \/ i = n
    BY <2>1 DEF Coming
  <2> QED
    BY <1>2, <2>1, <2>2
<1>16. CASE Receive
  <2>1. down # <<>> /\ down' = Tail(down) /\ UNCHANGED <<log, fan, srv, from>>
    BY <1>16 DEF Receive, server
  <2>2. /\ Len(down) \in Nat \ {0} /\ DOMAIN down = 1..Len(down) /\ Head(down) = down[1]
        /\ DOMAIN down' = 1..(Len(down) - 1) /\ \A i \in 1..(Len(down) - 1) : down'[i] = down[i + 1]
    BY <2>1, DownIs, TailOf, LenProperties
  <2>3. ASSUME NEW n, Coming(n), n # Head(down).seq
        PROVE  Coming(n)'
    <3>1. CASE \E i \in DOMAIN down : down[i].seq = n
      <4>1. PICK i \in DOMAIN down : down[i].seq = n
        BY <3>1
      <4>2. i # 1
        BY <2>2, <2>3, <4>1
      <4>3. i - 1 \in DOMAIN down' /\ down'[i - 1] = down[i]
        BY <2>2, <4>2
      <4> QED
        BY <4>1, <4>3 DEF Coming
    <3> QED
      BY <2>1, <2>3, <3>1 DEF Coming
  <2>4. ASSUME NEW n \in 1..Len(log), n = Head(down).seq
        PROVE  n \in DOMAIN local'
    <3>1. PICK f : f = Head(down)
      OBVIOUS
    <3>2. CASE f.type = "message"
      BY <1>16, <2>4, <3>1, <3>2 DEF Receive, Store, Stretch
    <3>3. CASE f.type = "ack"
      <4>1. log[n] = f.row /\ f.row \in Rows /\ Known(f.row)
        BY <2>1, <2>4, <3>1, <3>3, HeadIs
      <4>2. CASE Written(f.row)
        <5>1. TakeAck(f.row, n)
          BY <1>16, <2>4, <3>1, <3>3, <4>2 DEF Receive
        <5> QED
          BY <5>1 DEF TakeAck, Store
      <4>3. CASE ~Written(f.row)
        <5>1. row[f.row] = "gone"
          BY <4>1, <4>3 DEF Written, Known
        <5>2. PICK m \in DOMAIN local : local[m] = f.row
          BY <4>1, <5>1 DEF IndInv, Outbox
        <5>3. m \in 1..Len(log) /\ log[m] = log[n] /\ log[n] # Other
          BY <4>1, <5>2, RowsFinite DEF IndInv, LocalStore, Other
        <5>4. m = n
          BY <5>3 DEF IndInv, Server
        <5> QED
          BY <1>0, <5>2, <5>4
      <4> QED
        BY <4>2, <4>3
    <3>4. CASE f.type = "error"
      BY <2>1, <2>4, <3>1, <3>4, HeadIs
    <3> QED
      BY <1>16, <3>1, <3>2, <3>3, <3>4 DEF Receive
  <2>5. \A n \in 1..Len(log') : n \in 1..Len(log)
    BY <2>1
  <2> QED
    BY <1>2, <2>1, <2>3, <2>4, <2>5
<1>17. ASSUME NEW k \in Catchups, Sync(k)
       PROVE  NothingMissed'
  BY <1>3, <1>17 DEF Sync, SyncRead, SyncServe, SyncStore, SyncFail, Unfail, server, wire
<1>18. ASSUME NEW r \in Rows, AckDone(r) \/ Compose(r) \/ Retry(r)
       PROVE  NothingMissed'
  BY <1>3, <1>18 DEF AckDone, Compose, Retry, server, wire
<1>19. CASE Flush \/ Timeout \/ Page
  BY <1>3, <1>19 DEF Flush, Timeout, Pick, Upload, Transmit, GiveUp, Page, OpenPane, LoadOlder,
     AskPage, StorePage, server, wire
<1>20. CASE UNCHANGED vars
  BY <1>3, <1>20 DEF vars, server, wire
<1> QED
  BY <1>4, <1>5, <1>6, <1>7, <1>8, <1>9, <1>10, <1>11, <1>12, <1>13, <1>14, <1>15, <1>16,
     <1>17, <1>18, <1>19, <1>20, <1>21 DEF Next, Serve
-----------------------------------------------------------------------------
(* The catch-ups and the history page.                                     *)

Work == [at : {"idle", "read", "asked", "answered", "unfail"}, since : 0..Len(log), upto : 0..Len(log),
         more : BOOLEAN, first : BOOLEAN]
Leaf == [at : {"none", "answered"}, lo : 0..Len(log) \cup {1}, hi : 0..Len(log)]

LEMMA WorkGrows ==
  ASSUME Onward
  PROVE  Work \subseteq Work' /\ Leaf \subseteq Leaf' /\ 0..Len(log) \subseteq 0..Len(log')
<1>1. 0..Len(log) \subseteq 0..Len(log')
  BY DEF Onward
<1> QED
  BY <1>1 DEF Work, Leaf

LEMMA AfterSyncIs ==
  ASSUME NEW c \in Work, NEW more \in BOOLEAN, Len(log) \in Nat
  PROVE  AfterSync(c, more) \in Work
<1>1. NoCatchup \in Work /\ [NoCatchup EXCEPT !.at = "read", !.first = FALSE] \in Work
  <2>1. PICK n : n = NoCatchup
    OBVIOUS
  <2>2. n \in Work
    BY <2>1 DEF Work, NoCatchup
  <2>3. [n EXCEPT !.at = "read", !.first = FALSE] \in Work
    BY <2>2 DEF Work
  <2> QED
    BY <2>1, <2>2, <2>3
<1>2. [c EXCEPT !.at = "unfail", !.more = more] \in Work
  BY DEF Work
<1>3. c.first \in BOOLEAN
  BY DEF Work
<1> QED
  BY <1>1, <1>2, <1>3 DEF AfterSync

\* The seqs of a history page are of the log; an empty page is that of seq 1 down to 0.
LEMMA BeforeIs ==
  ASSUME Len(log) \in Nat, NEW before \in 0..Len(log), NEW limit \in Nat \ {0}
  PROVE  /\ Before(before, limit).lo \in 1..Len(log) \cup {1}
         /\ Before(before, limit).hi \in 0..Len(log)
<1>1. PICK end \in Nat \ {0} : end = IF before = 0 THEN Len(log) + 1 ELSE before
  OBVIOUS
<1>2. PICK p : p = Before(before, limit)
  OBVIOUS
<1>3. CASE end <= 1
  BY <1>1, <1>2, <1>3 DEF Before
<1>4. CASE end > 1
  <2>1. {end - 1, Len(log)} \in SUBSET Nat
    BY <1>1
  <2>2. PICK m : m = Min({end - 1, Len(log)})
    OBVIOUS
  <2>3. m \in {end - 1, Len(log)} /\ m <= end - 1 /\ m <= Len(log)
    BY <2>1, <2>2, MinIs
  <2>4. p.lo = (IF end > limit THEN end - limit ELSE 1) /\ p.hi = m
    BY <1>1, <1>2, <1>4, <2>2 DEF Before
  <2>5. m \in 0..Len(log)
    BY <1>4, <2>1, <2>3
  <2> QED
    BY <1>1, <1>2, <1>4, <2>4, <2>5
<1> QED
  BY <1>1, <1>3, <1>4
LEMMA CaughtKept == ASSUME IndInv, [Next]_vars PROVE CatchingUp'
<1>0. /\ Onward /\ catchup \in [Catchups -> Work] /\ page \in Leaf
      /\ (page.at = "answered" => page.lo # 0)
      /\ Len(log) \in Nat /\ mark \in 0..Len(log)
      /\ Work \subseteq Work' /\ Leaf \subseteq Leaf' /\ 0..Len(log) \subseteq 0..Len(log')
  BY AllMoves, WorkGrows DEF IndInv, CatchingUp, LocalStore, Onward, Work, Leaf
<1>1. ASSUME catchup' \in [Catchups -> Work], page' \in Leaf, page'.at = "answered" => page'.lo # 0
      PROVE  CatchingUp'
  <2>1. catchup' \in [Catchups -> Work'] /\ page' \in Leaf'
    BY <1>0, <1>1
  <2> QED
    BY <1>1, <2>1 DEF CatchingUp, Work, Leaf
<1>2. ASSUME UNCHANGED <<catchup, page>>
      PROVE  CatchingUp'
  BY <1>0, <1>1, <1>2
<1>3. ASSUME NEW k \in Catchups, NEW c \in Work, catchup' = [catchup EXCEPT ![k] = c], UNCHANGED page
      PROVE  CatchingUp'
  BY <1>0, <1>1, <1>3
<1>4. NoCatchup \in Work /\ [NoCatchup EXCEPT !.at = "read", !.first = FALSE] \in Work
  <2>1. PICK n : n = NoCatchup
    OBVIOUS
  <2>2. n \in Work
    BY <1>0, <2>1 DEF Work, NoCatchup
  <2>3. [n EXCEPT !.at = "read", !.first = FALSE] \in Work
    BY <2>2 DEF Work
  <2> QED
    BY <2>1, <2>2, <2>3
<1>5. NoPage \in Leaf /\ NoPage.at = "none"
  BY <1>0 DEF Leaf, NoPage
<1>6. ASSUME NEW k \in Catchups, Connect(k)
      PROVE  CatchingUp'
  <2>1. catchup' = [catchup EXCEPT ![k].at = "read"] /\ UNCHANGED page
    BY <1>6 DEF Connect
  <2>2. [catchup[k] EXCEPT !.at = "read"] \in Work
    BY <1>0 DEF Work
  <2>3. catchup' = [catchup EXCEPT ![k] = [catchup[k] EXCEPT !.at = "read"]]
    BY <2>1
  <2> QED
    BY <1>3, <2>1, <2>2, <2>3
<1>7. ASSUME NEW k \in Catchups, SyncRead(k)
      PROVE  CatchingUp'
  <2>1. /\ catchup' = [catchup EXCEPT ![k].at = "asked", ![k].since = mark]
        /\ UNCHANGED page
    BY <1>7 DEF SyncRead
  <2>2. [catchup[k] EXCEPT !.at = "asked", !.since = mark] \in Work
    BY <1>0 DEF Work
  <2>3. catchup' = [catchup EXCEPT ![k] = [catchup[k] EXCEPT !.at = "asked", !.since = mark]]
    BY <1>0, <2>1
  <2> QED
    BY <1>3, <2>1, <2>2, <2>3
<1>8. ASSUME NEW k \in Catchups, SyncServe(k)
      PROVE  CatchingUp'
  <2>1. catchup[k] \in Work /\ catchup[k].since \in 0..Len(log)
    BY <1>0 DEF Work
  <2>2. PICK u, m : u = After(catchup[k].since, SyncBatch).upto /\ m = After(catchup[k].since, SyncBatch).more
    OBVIOUS
  <2>3. u \in 0..Len(log) /\ m \in BOOLEAN
    BY SMTT(30), <1>0, <2>1, <2>2, AfterIs, LimitsAssumption
  <2>4. /\ catchup' = [catchup EXCEPT ![k].at = "answered", ![k].upto = u, ![k].more = m]
        /\ UNCHANGED page
    BY <1>8, <2>2 DEF SyncServe
  <2>5. [catchup[k] EXCEPT !.at = "answered", !.upto = u, !.more = m] \in Work
    BY <2>1, <2>3 DEF Work
  <2>6. catchup' = [catchup EXCEPT ![k] = [catchup[k] EXCEPT !.at = "answered", !.upto = u, !.more = m]]
    BY <1>0, <2>4
  <2> QED
    BY <1>3, <2>4, <2>5, <2>6
<1>9. ASSUME NEW k \in Catchups, SyncStore(k) \/ SyncFail(k)
      PROVE  CatchingUp'
  <2>1. catchup[k] \in Work /\ catchup[k].more \in BOOLEAN
    BY <1>0 DEF Work
  <2>2. \E more \in BOOLEAN : catchup' = [catchup EXCEPT ![k] = AfterSync(catchup[k], more)]
    BY <1>9, <2>1 DEF SyncStore, SyncFail
  <2>3. \A more \in BOOLEAN : AfterSync(catchup[k], more) \in Work
    BY <1>0, <2>1, AfterSyncIs
  <2>4. UNCHANGED page
    BY <1>9 DEF SyncStore, SyncFail
  <2> QED
    BY <1>3, <2>2, <2>3, <2>4
<1>10. ASSUME NEW k \in Catchups, Unfail(k)
       PROVE  CatchingUp'
  <2>1. \E c \in Work : catchup' = [catchup EXCEPT ![k] = c]
    BY <1>4, <1>10 DEF Unfail
  <2>2. UNCHANGED page
    BY <1>10 DEF Unfail
  <2> QED
    BY <1>3, <2>1, <2>2
<1>11. CASE Reload
  BY <1>0, <1>1, <1>4, <1>5, <1>11 DEF Reload
<1>12. ASSUME NEW before \in 0..Len(log), AskPage(before)
       PROVE  CatchingUp'
  <2>1. PICK lo, hi : lo = Before(before, PageSize).lo /\ hi = Before(before, PageSize).hi
    OBVIOUS
  <2>2. lo \in 1..Len(log) \cup {1} /\ hi \in 0..Len(log)
    BY <1>0, <2>1, BeforeIs, LimitsAssumption
  <2>3. page' = [at |-> "answered", lo |-> lo, hi |-> hi] /\ UNCHANGED catchup
    BY <1>12, <2>1 DEF AskPage
  <2> QED
    BY <1>0, <1>1, <2>2, <2>3 DEF Leaf
<1>13. CASE OpenPane
  BY <1>0, <1>12, <1>13 DEF OpenPane
<1>14. CASE LoadOlder
  <2>1. DOMAIN local \in SUBSET Nat /\ DOMAIN local \subseteq 0..Len(log)
    BY <1>0 DEF IndInv, LocalStore
  <2>2. Min(DOMAIN local) \in 0..Len(log)
    BY <1>14, <2>1, MinIs DEF LoadOlder
  <2> QED
    BY <1>12, <1>14, <2>2 DEF LoadOlder
<1>15. CASE StorePage
  BY <1>0, <1>1, <1>5, <1>15 DEF StorePage
<1>16. CASE Serve \/ Send \/ Drop \/ Receive
  BY <1>2, <1>16 DEF Serve, Send, Register, Resume, Replay, HandleSend, Refuse, Ack, SendToOthers,
     Drop, Receive, tab
<1>17. CASE (\E sends \in stray : StraySend(sends)) \/ (\E n \in fan : SendToUsers(n) \/ NoFanout(n))
  BY <1>2, <1>17 DEF StraySend, SendToUsers, NoFanout, tab
<1>18. ASSUME NEW r \in Rows, AckDone(r) \/ Compose(r) \/ Retry(r)
       PROVE  CatchingUp'
  BY <1>2, <1>18 DEF AckDone, Compose, Retry
<1>19. CASE Flush \/ Timeout
  BY <1>2, <1>19 DEF Flush, Timeout, Pick, Upload, Transmit, GiveUp
<1>20. CASE UNCHANGED vars
  BY <1>2, <1>20 DEF vars, tab
<1> QED
  BY <1>6, <1>7, <1>8, <1>9, <1>10, <1>11, <1>13, <1>14, <1>15, <1>16, <1>17, <1>18, <1>19, <1>20
     DEF Next, Sync, Page
-----------------------------------------------------------------------------
(* The outbox.                                                             *)

RowsTold ==
  /\ row \in [Rows -> {"unwritten", "pending", "failed", "gone"}]
  /\ \A r \in Rows : Known(r) => \A q \in 1..(r - 1) : Known(q)
  /\ slipped \subseteq Rows /\ \A r \in Rows : row[r] = "failed" => r \in slipped
AcksHeld ==
  /\ \A r \in Rows : row[r] = "gone" => \E n \in DOMAIN local : local[n] = r
  /\ acking \subseteq Rows \X {"live", "stale", "none"}
  /\ \A a \in acking : Known(a[1]) /\ \E n \in DOMAIN local : local[n] = a[1]
Attempt == [at : {"idle", "pick", "upload", "send", "await", "deaf", "fail"}, row : Rows \cup {0}]
FlushFits ==
  /\ flush \in Attempt
  /\ flush.at \notin {"idle", "pick"} => Known(flush.row) /\ Settled(flush.row)
  /\ flush.at = "fail" => flush.row \in slipped

LEMMA OutboxIs == Outbox <=> RowsTold /\ AcksHeld /\ FlushFits
BY DEF Outbox, RowsTold, AcksHeld, FlushFits, Attempt

\* Where the flush stands when it fails: at a row it was sending.
LEMMA FailIs ==
  ASSUME IndInv, Fail, flush.at \notin {"idle", "pick"}
  PROVE  /\ flush.row \in Rows /\ slipped' = slipped \cup {flush.row}
         /\ flush' \in Attempt /\ flush'.at = "fail" /\ flush'.row = flush.row
         /\ \A a \in acking' : /\ a \in Rows \X {"live", "stale", "none"}
                               /\ \E b \in acking : b[1] = a[1]
<1>1. flush \in Attempt /\ flush.row \in Rows /\ acking \subseteq Rows \X {"live", "stale", "none"}
  BY DEF IndInv, Outbox, Attempt, Known
<1>2. flush' \in Attempt /\ flush'.at = "fail" /\ flush'.row = flush.row
  BY <1>1 DEF Fail, Attempt
<1>3. \A a \in acking' : /\ a \in Rows \X {"live", "stale", "none"}
                         /\ \E b \in acking : b[1] = a[1]
  <2> SUFFICES ASSUME NEW b \in acking
               PROVE  LET a == <<b[1], IF b[2] = "live" THEN "stale" ELSE b[2]>>
                      IN  /\ a \in Rows \X {"live", "stale", "none"}
                          /\ \E c \in acking : c[1] = a[1]
    BY DEF Fail
  <2>1. b[1] \in Rows /\ b[2] \in {"live", "stale", "none"}
    BY <1>1
  <2> QED
    BY <2>1
<1> QED
  BY <1>1, <1>2, <1>3 DEF Fail

LEMMA RowsKept == ASSUME IndInv, [Next]_vars PROVE RowsTold'
<1>0. /\ Onward /\ RowsTold /\ FlushFits
      /\ \A r \in Rows : r \in Nat \ {0} /\ (Known(r) => Known(r)')
  BY AllMoves, OutboxIs, Widening, RowsFinite DEF IndInv
<1>1. ASSUME UNCHANGED <<row, slipped>>
      PROVE  RowsTold'
  BY <1>0, <1>1 DEF RowsTold, Known
<1>2. ASSUME row' \in [Rows -> {"unwritten", "pending", "failed", "gone"}],
             \A r \in Rows : row'[r] = "unwritten" <=> row[r] = "unwritten",
             slipped' \subseteq Rows,
             \A r \in Rows : row'[r] = "failed" => r \in slipped'
      PROVE  RowsTold'
  <2>1. \A r \in Rows : Known(r)' <=> Known(r)
    BY <1>2 DEF Known
  <2>2. \A r \in Rows : Known(r)' => \A q \in 1..(r - 1) : Known(q)'
    <3> SUFFICES ASSUME NEW r \in Rows, Known(r), NEW q \in 1..(r - 1)
                 PROVE  Known(q)'
      BY <2>1
    <3>1. Known(q)
      BY <1>0 DEF RowsTold
    <3> QED
      BY <2>1, <3>1 DEF Known
  <2> QED
    BY <1>2, <2>2 DEF RowsTold
<1>3. ASSUME NEW r \in Rows, FailRow(r), slipped \subseteq slipped', slipped' \subseteq Rows,
             Written(r) => r \in slipped'
      PROVE  RowsTold'
  <2>1. CASE Written(r)
    BY <1>0, <1>2, <1>3, <2>1 DEF RowsTold, FailRow, Written
  <2>2. CASE ~Written(r)
    BY <1>0, <1>2, <1>3, <2>2 DEF RowsTold, FailRow
  <2> QED
    BY <2>1, <2>2
<1>4. ASSUME Fail, flush.at \notin {"idle", "pick"}, UNCHANGED row
      PROVE  RowsTold'
  BY <1>0, <1>2, <1>4, FailIs DEF RowsTold
<1>5. ASSUME NEW r \in Rows, Compose(r)
      PROVE  RowsTold'
  <2>1. row' = [row EXCEPT ![r] = "pending"] /\ slipped' = slipped
        /\ \A q \in 1..(r - 1) : row[q] # "unwritten"
    BY <1>5 DEF Compose
  <2>2. \A x \in Rows : Known(x)' => \A q \in 1..(x - 1) : Known(q)'
    <3> SUFFICES ASSUME NEW x \in Rows, Known(x)', NEW q \in 1..(x - 1)
                 PROVE  Known(q)'
      OBVIOUS
    <3>1. q \in Rows
      BY <1>0, RowsAssumption DEF Rows
    <3>2. CASE x = r
      BY <1>0, <2>1, <3>1, <3>2 DEF RowsTold, Known
    <3>3. CASE x # r
      <4>1. Known(x)
        BY <1>0, <2>1, <3>3 DEF RowsTold, Known
      <4>2. Known(q)
        BY <1>0, <4>1 DEF RowsTold
      <4> QED
        BY <1>0, <3>1, <4>2
    <3> QED
      BY <3>2, <3>3
  <2> QED
    BY <1>0, <2>1, <2>2 DEF RowsTold
<1>6. ASSUME NEW r \in Rows, Retry(r) \/ AckDone(r)
      PROVE  RowsTold'
  <2>1. CASE Retry(r)
    BY <1>0, <1>2, <2>1 DEF RowsTold, Retry
  <2>2. CASE AckDone(r)
    <3>1. row[r] # "unwritten" /\ row' = [row EXCEPT ![r] = "gone"] /\ slipped' = slipped
      BY <2>2 DEF AckDone, IndInv, Outbox, Known
    <3> QED
      BY <1>0, <1>2, <3>1 DEF RowsTold
  <2> QED
    BY <1>6, <2>1, <2>2
<1>7. ASSUME NEW k \in Catchups, Unfail(k)
      PROVE  RowsTold'
  BY <1>0, <1>2, <1>7 DEF RowsTold, Unfail
<1>8. CASE GiveUp
  <2>1. flush.row \in Rows /\ flush.row \in slipped /\ FailRow(flush.row) /\ slipped' = slipped
    BY <1>0, <1>8 DEF GiveUp, FlushFits, Known
  <2> QED
    BY <1>0, <1>3, <2>1 DEF RowsTold
<1>9. CASE Receive
  <2>1. down # <<>>
    BY <1>9 DEF Receive
  <2>2. PICK f : f = Head(down)
    OBVIOUS
  <2>3. CASE UNCHANGED <<row, slipped>>
    BY <1>1, <2>3
  <2>4. CASE f.type = "error" /\ FailRow(f.row)
             /\ IF Awaited(f.row) THEN Fail
                ELSE slipped' = IF Written(f.row) THEN slipped \cup {f.row} ELSE slipped
    <3>1. f.row \in Rows
      BY <2>1, <2>2, <2>4, HeadIs
    <3>2. CASE Awaited(f.row)
      <4>1. slipped' = slipped \cup {f.row}
        BY <2>4, <3>2 DEF Fail, Awaited
      <4> QED
        BY <1>0, <1>3, <2>4, <3>1, <4>1 DEF RowsTold
    <3>3. CASE ~Awaited(f.row)
      BY <1>0, <1>3, <2>4, <3>1, <3>3 DEF RowsTold
    <3> QED
      BY <3>2, <3>3
  <2> QED
    BY <1>9, <2>2, <2>3, <2>4 DEF Receive
<1>10. CASE Upload \/ Transmit \/ Timeout
  <2>1. UNCHANGED row /\ flush.at \notin {"idle", "pick"} /\ (slipped' = slipped \/ Fail)
    BY <1>10 DEF Upload, Transmit, Timeout, idb
  <2> QED
    BY <1>1, <1>4, <2>1
<1>11. CASE Serve \/ Send \/ Drop \/ Reload \/ Pick \/ Page
  BY <1>1, <1>11 DEF Serve, Send, Register, Resume, Replay, HandleSend, Refuse, Ack, SendToOthers,
     Drop, Reload, Pick, Page, OpenPane, LoadOlder, AskPage, StorePage, idb
<1>12. CASE (\E sends \in stray : StraySend(sends)) \/ (\E n \in fan : SendToUsers(n) \/ NoFanout(n))
  BY <1>1, <1>12 DEF StraySend, SendToUsers, NoFanout, idb
<1>13. ASSUME NEW k \in Catchups, Connect(k) \/ SyncRead(k) \/ SyncServe(k) \/ SyncStore(k) \/ SyncFail(k)
       PROVE  RowsTold'
  BY <1>1, <1>13 DEF Connect, SyncRead, SyncServe, SyncStore, SyncFail, idb
<1>14. CASE UNCHANGED vars
  BY <1>1, <1>14 DEF vars, idb
<1> QED
  BY <1>5, <1>6, <1>7, <1>8, <1>9, <1>10, <1>11, <1>12, <1>13, <1>14 DEF Next, Sync, Flush
LEMMA AcksKept == ASSUME IndInv, [Next]_vars PROVE AcksHeld'
<1>0. /\ Onward /\ RowsTold /\ AcksHeld /\ FlushFits
      /\ \A r \in Rows : Known(r) => Known(r)'
      /\ \A r \in Rows : (\E n \in DOMAIN local : local[n] = r) => \E n \in DOMAIN local' : local'[n] = r
  BY AllMoves, OutboxIs, Widening, StillHeld DEF IndInv
<1>1. ASSUME \A r \in Rows : row'[r] = "gone" => row[r] = "gone" \/ \E n \in DOMAIN local' : local'[n] = r,
             \A a \in acking' : /\ a \in Rows \X {"live", "stale", "none"}
                                /\ \/ \E b \in acking : b[1] = a[1]
                                   \/ Known(a[1]) /\ \E n \in DOMAIN local' : local'[n] = a[1]
      PROVE  AcksHeld'
  <2>1. ASSUME NEW a \in acking'
        PROVE  Known(a[1])' /\ \E n \in DOMAIN local' : local'[n] = a[1]
    <3>1. a[1] \in Rows
      BY <1>1
    <3>2. CASE \E b \in acking : b[1] = a[1]
      <4>1. PICK b \in acking : b[1] = a[1]
        BY <3>2
      <4>2. Known(a[1]) /\ \E n \in DOMAIN local : local[n] = a[1]
        BY <1>0, <4>1 DEF AcksHeld
      <4> QED
        BY <1>0, <3>1, <4>2
    <3>3. CASE Known(a[1]) /\ \E n \in DOMAIN local' : local'[n] = a[1]
      BY <1>0, <3>1, <3>3
    <3> QED
      BY <1>1, <3>2, <3>3
  <2>2. \A r \in Rows : row'[r] = "gone" => \E n \in DOMAIN local' : local'[n] = r
    BY <1>0, <1>1 DEF AcksHeld
  <2>3. acking' \subseteq Rows \X {"live", "stale", "none"}
    BY <1>1
  <2> QED
    BY <2>1, <2>2, <2>3 DEF AcksHeld, Known
<1>2. ASSUME \A r \in Rows : row'[r] = "gone" => row[r] = "gone", acking' \subseteq acking
      PROVE  AcksHeld'
  BY <1>0, <1>1, <1>2 DEF AcksHeld
<1>3. ASSUME Fail, flush.at \notin {"idle", "pick"}, \A r \in Rows : row'[r] = "gone" => row[r] = "gone"
      PROVE  AcksHeld'
  BY <1>1, <1>3, FailIs
<1>4. ASSUME NEW r, FailRow(r)
      PROVE  \A q \in Rows : row'[q] = "gone" => row[q] = "gone"
  BY <1>0, <1>4 DEF FailRow, RowsTold
<1>5. CASE Receive
  <2>1. down # <<>>
    BY <1>5 DEF Receive
  <2>2. PICK f : f = Head(down)
    OBVIOUS
  <2>3. CASE UNCHANGED <<row, acking>>
    BY <1>2, <2>3
  <2>4. CASE /\ f.type = "ack" /\ TakeAck(f.row, f.seq) /\ UNCHANGED row /\ Written(f.row)
             /\ acking' = acking \cup {<<f.row, IF Awaited(f.row) THEN "live" ELSE "none">>}
    <3>1. f.row \in Rows /\ Known(f.row)
      BY <2>1, <2>2, <2>4, HeadIs
    <3>2. f.seq \in DOMAIN local' /\ local'[f.seq] = f.row
      BY <2>4 DEF TakeAck, Store
    <3>3. acking \subseteq Rows \X {"live", "stale", "none"}
      BY <1>0 DEF AcksHeld
    <3> QED
      BY <1>1, <2>4, <3>1, <3>2, <3>3
  <2>5. CASE f.type = "error" /\ FailRow(f.row) /\ IF Awaited(f.row) THEN Fail ELSE UNCHANGED acking
    BY <1>2, <1>3, <1>4, <2>5 DEF Awaited
  <2> QED
    BY <1>5, <2>2, <2>3, <2>4, <2>5 DEF Receive
<1>6. ASSUME NEW r \in Rows, AckDone(r)
      PROVE  AcksHeld'
  <2>1. \E n \in DOMAIN local : local[n] = r
    BY <1>0, <1>6 DEF AckDone, AcksHeld
  <2>2. row' = [row EXCEPT ![r] = "gone"] /\ acking' \subseteq acking
    BY <1>6 DEF AckDone
  <2> QED
    BY <1>0, <1>1, <2>1, <2>2 DEF AcksHeld, RowsTold
<1>7. ASSUME NEW r \in Rows, Compose(r) \/ Retry(r)
      PROVE  AcksHeld'
  BY <1>0, <1>2, <1>7 DEF Compose, Retry, RowsTold
<1>8. ASSUME NEW k \in Catchups, Unfail(k)
      PROVE  AcksHeld'
  BY <1>0, <1>2, <1>8 DEF Unfail, RowsTold
<1>9. CASE Upload \/ Transmit \/ Timeout
  <2>1. UNCHANGED row /\ flush.at \notin {"idle", "pick"} /\ (acking' = acking \/ Fail)
    BY <1>9 DEF Upload, Transmit, Timeout, idb
  <2> QED
    BY <1>2, <1>3, <2>1
<1>10. CASE GiveUp
  BY <1>2, <1>4, <1>10 DEF GiveUp
<1>11. CASE Serve \/ Send \/ Drop \/ Reload \/ Pick \/ Page
  BY <1>2, <1>11 DEF Serve, Send, Register, Resume, Replay, HandleSend, Refuse, Ack, SendToOthers,
     Drop, Reload, Pick, Page, OpenPane, LoadOlder, AskPage, StorePage, idb, tab
<1>12. CASE (\E sends \in stray : StraySend(sends)) \/ (\E n \in fan : SendToUsers(n) \/ NoFanout(n))
  BY <1>2, <1>12 DEF StraySend, SendToUsers, NoFanout, idb, tab
<1>13. ASSUME NEW k \in Catchups, Connect(k) \/ SyncRead(k) \/ SyncServe(k) \/ SyncStore(k) \/ SyncFail(k)
       PROVE  AcksHeld'
  BY <1>2, <1>13 DEF Connect, SyncRead, SyncServe, SyncStore, SyncFail, idb
<1>14. CASE UNCHANGED vars
  BY <1>2, <1>14 DEF vars, idb, tab
<1> QED
  BY <1>5, <1>6, <1>7, <1>8, <1>9, <1>10, <1>11, <1>12, <1>13, <1>14 DEF Next, Sync, Flush

\* The first row that waits: what was written before it has arrived, or has failed.
LEMMA FirstIsSettled ==
  ASSUME IndInv, NEW r \in Rows, row[r] = "pending",
         \A q \in Rows : row[q] = "pending" => r <= q
  PROVE  Known(r) /\ Settled(r)
<1>1. r \in Nat \ {0} /\ Known(r) /\ Other \notin Rows
  BY RowsFinite DEF Known, Other
<1>2. ASSUME NEW q \in 1..(r - 1), q \notin slipped
      PROVE  q \in Range(log)
  <2>1. q \in Rows /\ row[q] # "unwritten" /\ row[q] # "pending" /\ q \in Nat
    BY <1>1 DEF IndInv, Outbox, Known
  <2>2. row[q] = "gone"
    BY <1>2, <2>1 DEF IndInv, Outbox
  <2>3. PICK n \in DOMAIN local : local[n] = q
    BY <2>1, <2>2 DEF IndInv, Outbox
  <2>4. n \in 1..Len(log) /\ log[n] = q
    BY <2>3 DEF IndInv, LocalStore
  <2>5. DOMAIN log = 1..Len(log)
    BY LenProperties DEF IndInv, Server
  <2> QED
    BY <2>4, <2>5 DEF Range
<1> QED
  BY <1>1, <1>2 DEF Settled

LEMMA FlushKept == ASSUME IndInv, [Next]_vars PROVE FlushFits'
<1>0. /\ Onward /\ FlushFits /\ Rows \subseteq Nat \ {0} /\ slipped \subseteq slipped'
      /\ \A r \in Rows : (Known(r) => Known(r)') /\ (Settled(r) => Settled(r)')
  BY AllMoves, OutboxIs, Widening, RowsFinite DEF IndInv, Onward
<1>1. ASSUME flush' \in Attempt, flush'.at \in {"idle", "pick"}
      PROVE  FlushFits'
  BY <1>1 DEF FlushFits, Attempt
<1>2. ASSUME NEW r \in Rows, Known(r), Settled(r), flush' \in Attempt, flush'.row = r,
             flush'.at = "fail" => r \in slipped'
      PROVE  FlushFits'
  <2>1. Known(r)' /\ Settled(r)'
    BY <1>0, <1>2
  <2> QED
    BY <1>2, <2>1 DEF FlushFits, Attempt, Known, Settled
<1>3. ASSUME flush.at \notin {"idle", "pick"}
      PROVE  flush.row \in Rows /\ Known(flush.row) /\ Settled(flush.row)
  BY <1>0, <1>3 DEF FlushFits, Known
<1>4. CASE UNCHANGED flush
  <2>1. CASE flush.at \in {"idle", "pick"}
    BY <1>0, <1>1, <1>4, <2>1 DEF FlushFits
  <2>2. CASE flush.at \notin {"idle", "pick"}
    BY <1>0, <1>2, <1>3, <1>4, <2>2 DEF FlushFits
  <2> QED
    BY <2>1, <2>2
<1>5. ASSUME NEW x \in {"pick", "upload", "send", "await", "deaf"}, flush.at \notin {"idle", "pick"},
             flush' = [flush EXCEPT !.at = x]
      PROVE  FlushFits'
  <2>1. flush' \in Attempt /\ flush'.row = flush.row /\ flush'.at = x
    BY <1>0, <1>5 DEF FlushFits, Attempt
  <2> QED
    BY <1>2, <1>3, <1>5, <2>1
<1>6. ASSUME Fail, flush.at \notin {"idle", "pick"}
      PROVE  FlushFits'
  BY <1>2, <1>3, <1>6, FailIs
<1>7. ASSUME StartFlush
      PROVE  FlushFits'
  <2>1. CASE flush.at = "idle"
    <3>1. flush' \in Attempt /\ flush'.at = "pick"
      BY <1>0, <1>7, <2>1 DEF FlushFits, StartFlush, Attempt
    <3> QED
      BY <1>1, <3>1
  <2>2. CASE flush.at # "idle"
    BY <1>4, <1>7, <2>2 DEF StartFlush
  <2> QED
    BY <2>1, <2>2
<1>8. NoFlush \in Attempt /\ NoFlush.at = "idle"
  BY DEF NoFlush, Attempt
<1>9. ASSUME GoOn
      PROVE  FlushFits'
  <2>1. PICK n : n = NoFlush
    OBVIOUS
  <2>2. flush' \in Attempt /\ flush'.at = "pick"
    BY <1>8, <1>9, <2>1 DEF GoOn, Attempt
  <2> QED
    BY <1>1, <2>2
<1>10. CASE Pick
  <2>1. PICK waiting : waiting = {r \in Rows : row[r] = "pending"}
    OBVIOUS
  <2>2. CASE waiting = {}
    <3>1. flush' = NoFlush
      BY <1>10, <2>1, <2>2 DEF Pick
    <3> QED
      BY <1>1, <1>8, <3>1
  <2>3. CASE waiting # {}
    <3>1. PICK r : r = Min(waiting)
      OBVIOUS
    <3>2. waiting \in SUBSET Nat
      BY <1>0, <2>1
    <3>3. r \in waiting /\ \A q \in waiting : r <= q
      BY <2>3, <3>1, <3>2, MinIs
    <3>4. r \in Rows /\ row[r] = "pending" /\ \A q \in Rows : row[q] = "pending" => r <= q
      BY <2>1, <3>3
    <3>5. Known(r) /\ Settled(r)
      BY <3>4, FirstIsSettled
    <3>6. flush' = [at |-> IF r \in WithFiles THEN "upload" ELSE "send", row |-> r]
      BY <1>10, <2>1, <2>3, <3>1 DEF Pick
    <3>7. flush' \in Attempt /\ flush'.row = r /\ flush'.at # "fail"
      BY <3>4, <3>6 DEF Attempt
    <3> QED
      BY <1>2, <3>4, <3>5, <3>7
  <2> QED
    BY <2>2, <2>3
<1>11. CASE Upload \/ Transmit \/ Timeout
  <2>1. /\ flush.at \notin {"idle", "pick"}
        /\ Fail \/ \E x \in {"send", "await"} : flush' = [flush EXCEPT !.at = x]
    BY <1>11 DEF Upload, Transmit, Timeout
  <2> QED
    BY <1>5, <1>6, <2>1
<1>12. CASE GiveUp \/ Reload
  BY <1>1, <1>8, <1>12 DEF GiveUp, Reload
<1>13. CASE Receive
  <2>1. \/ UNCHANGED flush \/ GoOn
        \/ Fail /\ flush.at \notin {"idle", "pick"}
    BY <1>13 DEF Receive, Awaited
  <2> QED
    BY <1>4, <1>6, <1>9, <2>1
<1>14. ASSUME NEW r \in Rows, AckDone(r)
       PROVE  FlushFits'
  <2>1. \/ GoOn \/ UNCHANGED flush
        \/ flush.at = "await" /\ flush' = [flush EXCEPT !.at = "deaf"]
    BY <1>14 DEF AckDone, Awaited
  <2> QED
    BY <1>4, <1>5, <1>9, <2>1
<1>15. ASSUME NEW r \in Rows, Compose(r) \/ Retry(r)
       PROVE  FlushFits'
  BY <1>7, <1>15 DEF Compose, Retry
<1>16. ASSUME NEW k \in Catchups, Unfail(k)
       PROVE  FlushFits'
  BY <1>7, <1>16 DEF Unfail
<1>17. CASE Serve \/ Send \/ Drop \/ Page
  BY <1>4, <1>17 DEF Serve, Send, Register, Resume, Replay, HandleSend, Refuse, Ack, SendToOthers,
     Drop, Page, OpenPane, LoadOlder, AskPage, StorePage, tab
<1>18. CASE (\E sends \in stray : StraySend(sends)) \/ (\E n \in fan : SendToUsers(n) \/ NoFanout(n))
  BY <1>4, <1>18 DEF StraySend, SendToUsers, NoFanout, tab
<1>19. ASSUME NEW k \in Catchups, Connect(k) \/ SyncRead(k) \/ SyncServe(k) \/ SyncStore(k) \/ SyncFail(k)
       PROVE  FlushFits'
  BY <1>4, <1>19 DEF Connect, SyncRead, SyncServe, SyncStore, SyncFail
<1>20. CASE UNCHANGED vars
  BY <1>4, <1>20 DEF vars, tab
<1> QED
  BY <1>10, <1>11, <1>12, <1>13, <1>14, <1>15, <1>16, <1>17, <1>18, <1>19, <1>20 DEF Next, Sync, Flush

-----------------------------------------------------------------------------
(* The flush that is owed: with it goes that a catch-up at rest is one that *)
(* an onopen may take up from its start.                                    *)

Starting(k) == catchup[k].first /\ catchup[k].at # "idle"
Woken == FlushIsOwed /\ \A k \in Catchups : catchup[k].at = "idle" => catchup[k].first

\* No row comes to wait, no flush ends, no connection opens, and a catch-up goes
\* no further than to the un-failing of the rows.
LEMMA StillOwed ==
  ASSUME Woken, slipped \subseteq slipped', Open' => Open,
         \A r \in Rows : row'[r] = "pending" => row[r] = "pending",
         flush.at # "idle" => flush'.at # "idle",
         \A k \in Catchups : /\ Starting(k) => Starting(k)'
                             /\ catchup'[k].at = "idle" => catchup'[k].first
  PROVE  Woken'
<1>1. ASSUME NEW r \in Rows, row'[r] = "pending"
      PROVE  \/ flush'.at # "idle" \/ ~Open' \/ slipped' # {}
             \/ \E k \in Catchups : Starting(k)'
  BY <1>1 DEF Woken, FlushIsOwed, Starting
<1> QED
  BY <1>1 DEF Woken, FlushIsOwed, Starting

\* While a flush is under way, none is owed.
LEMMA FlushingIsEnough ==
  ASSUME Woken, flush'.at # "idle",
         \A k \in Catchups : catchup'[k].at = "idle" => catchup'[k].first
  PROVE  Woken'
BY DEF Woken, FlushIsOwed

LEMMA WokenKept == ASSUME IndInv, Woken, [Next]_vars PROVE Woken'
<1>0. /\ slipped \subseteq slipped' /\ Len(log) \in Nat
      /\ flush \in Attempt /\ catchup \in [Catchups -> Work]
      /\ row \in [Rows -> {"unwritten", "pending", "failed", "gone"}]
      /\ \A k \in Catchups : catchup[k].at = "idle" => catchup[k].first
  BY PageMoves, AllMoves DEF Onward, IndInv, Outbox, CatchingUp, Attempt, Work, Woken
<1>1. ASSUME UNCHANGED <<row, catchup>>, Open' => Open, flush.at # "idle" => flush'.at # "idle"
      PROVE  Woken'
  BY <1>0, <1>1, StillOwed DEF Starting
<1>2. ASSUME UNCHANGED catchup, flush'.at # "idle"
      PROVE  Woken'
  BY <1>0, <1>2, FlushingIsEnough
<1>3. ASSUME StartFlush
      PROVE  flush'.at # "idle"
  BY <1>0, <1>3 DEF StartFlush, Attempt
<1>4. ASSUME Fail
      PROVE  flush'.at # "idle"
  BY <1>0, <1>4 DEF Fail, Attempt
<1>5. ASSUME GoOn
      PROVE  flush'.at # "idle"
  BY <1>5 DEF GoOn, NoFlush
<1>6. CASE Serve
  <2>1. Open
    BY <1>6 DEF Serve, Register, Resume, Replay, HandleSend, Refuse, Ack, SendToOthers, Open
  <2>2. UNCHANGED <<row, catchup, flush>>
    BY <1>6 DEF Serve, Register, Resume, Replay, HandleSend, Refuse, Ack, SendToOthers, idb, tab
  <2> QED
    BY <1>1, <2>1, <2>2
<1>7. CASE Send \/ \E sends \in stray : StraySend(sends)
  BY <1>1, <1>7 DEF Send, StraySend, Open, idb, tab, wire
<1>8. ASSUME NEW n \in fan, SendToUsers(n) \/ NoFanout(n)
      PROVE  Woken'
  <2>1. UNCHANGED <<row, catchup, flush>>
    BY <1>8 DEF SendToUsers, NoFanout, idb, tab
  <2>2. Open' => Open
    BY <1>8 DEF SendToUsers, NoFanout, Registered, Open, wire
  <2> QED
    BY <1>1, <2>1, <2>2
<1>9. ASSUME NEW k \in Catchups, Connect(k)
      PROVE  Woken'
  <2>1. /\ catchup[k].at = "idle"
        /\ catchup' = [catchup EXCEPT ![k].at = "read"]
        /\ UNCHANGED <<row, flush, slipped>>
    BY <1>9 DEF Connect, idb
  <2>2. Starting(k)' /\ \A j \in Catchups : catchup'[j].at = "idle" => catchup'[j].first
    BY <1>0, <2>1 DEF Starting, Work
  <2> QED
    BY <2>2 DEF Woken, FlushIsOwed, Starting
<1>10. ASSUME NEW k \in Catchups, NEW c, catchup' = [catchup EXCEPT ![k] = c],
              UNCHANGED <<row, flush, srv>>, c.at = "idle" => c.first,
              Starting(k) => c.first /\ c.at # "idle"
       PROVE  Woken'
  <2>1. \A j \in Catchups : /\ Starting(j) => Starting(j)'
                            /\ catchup'[j].at = "idle" => catchup'[j].first
    BY <1>0, <1>10 DEF Starting
  <2>2. Open' => Open
    BY <1>10 DEF Open
  <2> QED
    BY <1>0, <1>10, <2>1, <2>2, StillOwed
<1>11. ASSUME NEW k \in Catchups, SyncRead(k) \/ SyncServe(k)
       PROVE  Woken'
  <2>1. PICK c : c = catchup'[k]
    OBVIOUS
  <2>2. /\ catchup' = [catchup EXCEPT ![k] = c] /\ UNCHANGED <<row, flush, srv>>
        /\ c.first = catchup[k].first /\ c.at # "idle"
    BY <1>0, <1>11, <2>1 DEF SyncRead, SyncServe, idb, wire, Work
  <2> QED
    BY <1>10, <2>2 DEF Starting
<1>12. ASSUME NEW k \in Catchups, NEW more, catchup' = [catchup EXCEPT ![k] = AfterSync(@, more)],
              UNCHANGED <<row, flush, srv>>
       PROVE  Woken'
  <2>1. PICK c : c = AfterSync(catchup[k], more)
    OBVIOUS
  <2>2. c.at = "idle" => c.first
    BY <1>0, <2>1 DEF AfterSync, NoCatchup, Work
  <2>3. Starting(k) => c.first /\ c.at # "idle"
    BY <1>0, <2>1 DEF AfterSync, Starting, Work
  <2>4. catchup' = [catchup EXCEPT ![k] = c]
    BY <1>12, <2>1
  <2> QED
    BY <1>10, <1>12, <2>2, <2>3, <2>4
<1>13. ASSUME NEW k \in Catchups, SyncStore(k) \/ SyncFail(k)
       PROVE  Woken'
  <2>1. UNCHANGED <<row, flush, srv>>
    BY <1>13 DEF SyncStore, SyncFail, idb, wire
  <2>2. \/ catchup' = [catchup EXCEPT ![k] = AfterSync(@, FALSE)]
        \/ catchup' = [catchup EXCEPT ![k] = AfterSync(@, @.more)]
    BY <1>13 DEF SyncStore, SyncFail
  <2> QED
    BY <1>12, <2>1, <2>2
<1>14. ASSUME NEW k \in Catchups, Unfail(k)
       PROVE  Woken'
  <2>1. flush'.at # "idle"
    BY <1>3, <1>14 DEF Unfail
  <2>2. PICK c : c = catchup'[k]
    OBVIOUS
  <2>3. catchup' = [catchup EXCEPT ![k] = c] /\ (c.at = "idle" => c.first)
    BY <1>0, <1>14, <2>2 DEF Unfail, NoCatchup
  <2> QED
    BY <1>0, <2>1, <2>3, FlushingIsEnough
<1>15. CASE Drop \/ Reload
  <2>1. ~Open'
    BY <1>15 DEF Drop, Reload, Lose, Nowhere, Open
  <2>2. \A k \in Catchups : catchup'[k].at = "idle" => catchup'[k].first
    BY <1>0, <1>15 DEF Drop, Reload, tab, NoCatchup
  <2> QED
    BY <2>1, <2>2 DEF Woken, FlushIsOwed
<1>16. CASE Receive
  <2>1. UNCHANGED <<catchup, srv>>
    BY <1>16 DEF Receive
  <2>2. CASE UNCHANGED row /\ flush' = flush
    BY <1>1, <2>1, <2>2 DEF Open
  <2>3. CASE GoOn \/ Fail
    BY <1>2, <1>4, <1>5, <2>1, <2>3
  <2>4. CASE flush' = flush /\ \E r : FailRow(r)
    <3>1. \A r \in Rows : row'[r] = "pending" => row[r] = "pending"
      BY <1>0, <2>4 DEF FailRow
    <3> QED
      BY <1>0, <2>1, <2>4, <3>1, StillOwed DEF Open, Starting
  <2> QED
    BY <1>16, <2>2, <2>3, <2>4 DEF Receive
<1>17. ASSUME NEW r \in Rows, AckDone(r)
       PROVE  Woken'
  <2>1. UNCHANGED <<catchup, srv>> /\ row' = [row EXCEPT ![r] = "gone"]
    BY <1>17 DEF AckDone, wire
  <2>2. flush.at # "idle" => flush'.at # "idle"
    BY <1>0, <1>5, <1>17 DEF AckDone, Attempt
  <2>3. \A q \in Rows : row'[q] = "pending" => row[q] = "pending"
    BY <1>0, <2>1
  <2> QED
    BY <1>0, <2>1, <2>2, <2>3, StillOwed DEF Open, Starting
<1>18. ASSUME NEW r \in Rows, Compose(r) \/ Retry(r)
       PROVE  Woken'
  BY <1>2, <1>3, <1>18 DEF Compose, Retry
<1>19. CASE Pick
  <2>1. CASE \A r \in Rows : row[r] # "pending"
    BY <1>0, <1>19, <2>1 DEF Pick, idb, Woken, FlushIsOwed
  <2>2. CASE \E r \in Rows : row[r] = "pending"
    <3>1. flush'.at # "idle"
      BY <1>19, <2>2 DEF Pick
    <3> QED
      BY <1>2, <1>19, <3>1 DEF Pick
  <2> QED
    BY <2>1, <2>2
<1>20. CASE Upload \/ Transmit \/ Timeout
  <2>1. flush'.at # "idle"
    BY <1>0, <1>4, <1>20 DEF Upload, Transmit, Timeout, Attempt
  <2> QED
    BY <1>2, <1>20, <2>1 DEF Upload, Transmit, Timeout
<1>21. CASE GiveUp
  <2>1. slipped' # {}
    BY <1>21 DEF GiveUp, IndInv, Outbox
  <2> QED
    BY <1>0, <1>21, <2>1 DEF GiveUp, Woken, FlushIsOwed
<1>22. CASE Page
  BY <1>1, <1>22 DEF Page, OpenPane, LoadOlder, AskPage, StorePage, Open, idb, wire
<1>23. CASE UNCHANGED vars
  BY <1>1, <1>23 DEF vars, idb, tab, wire, Open
<1> QED
  BY <1>6, <1>7, <1>8, <1>9, <1>11, <1>13, <1>14, <1>15, <1>16, <1>17, <1>18, <1>19, <1>20, <1>21,
     <1>22, <1>23 DEF Next, Sync, Flush

-----------------------------------------------------------------------------
(* The theorems.                                                           *)

\* The states the system starts in.
LEMMA IndInvInit == Init => IndInv
<1> SUFFICES ASSUME Init PROVE IndInv
  OBVIOUS
<1>1. Backlog \in Nat /\ Others \in Nat /\ Backlog <= Others /\ Held \subseteq 1..Backlog /\ Buffer \in Nat
  BY LimitsAssumption
<1>2. log \in Seq(Rows \cup {Other}) /\ Len(log) = Backlog
  <2>1. log = [n \in 1..Backlog |-> Other] /\ \A n \in 1..Backlog : Other \in Rows \cup {Other}
    BY DEF Init
  <2> QED
    BY <1>1, <2>1, IsASeq, LenProperties
<1>3. \A n \in 1..Len(log) : log[n] = Other
  BY <1>2 DEF Init
<1>4. Rows \subseteq Nat \ {0} /\ Other \notin Rows
  BY RowsFinite DEF Other
<1>5. Server
  <2>1. Len(log) = others + Cardinality(Range(log) \cap Rows)
    <3>1. Range(log) \cap Rows = {}
      <4>1. DOMAIN log = 1..Len(log)
        BY <1>2, LenProperties
      <4> QED
        BY <1>3, <1>4, <4>1 DEF Range
    <3>2. Cardinality(Range(log) \cap Rows) = 0 /\ others = Backlog
      BY <3>1, FS_EmptySet DEF Init
    <3> QED
      BY <1>1, <1>2, <3>2
  <2>2. fan = {} /\ unsent = {} /\ stray = {} /\ others = Backlog
    BY DEF Init
  <2>3. others \in 0..Others /\ fan \cup unsent \subseteq 1..Len(log) /\ \A sends \in stray : FALSE
    BY <1>1, <2>2
  <2> QED
    BY <1>2, <1>3, <2>1, <2>3 DEF Server
<1>6. Wire
  <2>1. srv = Nowhere /\ up = <<>> /\ down = <<>> /\ from = -1
    BY DEF Init
  <2>2. /\ srv.at = "off"
        /\ srv \in [at : {"off", "accepted", "read", "replay", "ack", "members"},
                    row : Rows \cup {0}, seq : 0..Len(log), upto : 0..Len(log)]
    BY <1>1, <1>2, <2>1 DEF Nowhere
  <2>3. OneResume(up) /\ Len(down) <= Buffer
    BY <1>1, <2>1 DEF OneResume, Resumed
  <2> QED
    BY <2>1, <2>2, <2>3, EmptySeq DEF Wire
<1>7. LocalStore
  <2>1. \A n \in DOMAIN local : n \in 1..Len(log) /\ local[n] = log[n]
    BY <1>1, <1>2, <1>3 DEF Init
  <2>2. {0} \cup Held \in SUBSET (0..Backlog)
    BY <1>1
  <2>3. mark \in {0} \cup Held
    BY <1>1, <2>2, MaxIs DEF Init
  <2> QED
    BY <1>1, <1>2, <2>1, <2>2, <2>3 DEF LocalStore
<1>8. NothingMissed
  BY DEF Init, NothingMissed
<1>9. CatchingUp
  BY <1>1, <1>2 DEF Init, CatchingUp, NoCatchup, NoPage
<1>10. Outbox
  <2>1. row = [r \in Rows |-> "unwritten"] /\ acking = {} /\ slipped = {}
        /\ flush = [at |-> "idle", row |-> 0]
    BY DEF Init, NoFlush
  <2> QED
    BY <2>1 DEF Outbox, Known
<1> QED
  BY <1>5, <1>6, <1>7, <1>8, <1>9, <1>10 DEF IndInv

LEMMA IndInvNext == ASSUME IndInv, [Next]_vars PROVE IndInv'
<1>1. Server'
  <2>1. Once' /\ InOrder' /\ Accounted' /\ Owing'
    BY LogKept, LinkKept
  <2>2. (log \in Seq(Rows \cup {Other}))'
    BY AllMoves DEF Onward
  <2>3. fan' \cup unsent' \subseteq 1..Len(log')
    <3>1. fan \cup unsent \subseteq 1..Len(log)
      BY DEF IndInv, Server
    <3>2. unsent' \subseteq unsent \cup fan
      BY AllMoves DEF Onward
    <3>3. Len(log) \in Nat /\ Len(log') \in Nat /\ Len(log) <= Len(log')
      BY AllMoves DEF Onward
    <3>4. 1..Len(log) \subseteq 1..Len(log')
      BY <3>3
    <3> QED
      BY <2>1, <3>1, <3>2, <3>4 DEF Owing
  <2> QED
    BY <2>1, <2>2, <2>3 DEF Server, Once, InOrder, Placed, Accounted, Owing
<1>2. Outbox'
  BY RowsKept, AcksKept, FlushKept DEF Outbox, RowsTold, AcksHeld, FlushFits, Attempt
<1> QED
  BY <1>1, <1>2, LinkKept, LocalKept, PromiseKept, CaughtKept DEF IndInv

\* What is on its way is as true as what has arrived, in every state that the
\* browser, the network and the server can reach (useWebSocket.ts, client.go).
THEOREM Invariance == Spec => []IndInv
<1>1. Init => IndInv
  BY IndInvInit
<1>2. IndInv /\ [Next]_vars => IndInv'
  BY IndInvNext
<1> QED
  BY <1>1, <1>2, PTL DEF Spec

\* The browser's local store is a part of the server's log, whatever brought
\* each message and however often (LocalIsTrue; db/local.ts, storeMessage).
THEOREM StoreIsTrue == Spec => []LocalIsTrue
<1>1. IndInv => LocalIsTrue
  <2> SUFFICES ASSUME IndInv PROVE LocalIsTrue
    OBVIOUS
  <2>1. DOMAIN log = 1..Len(log)
    BY LenProperties DEF IndInv, Server
  <2> QED
    BY <2>1 DEF IndInv, LocalStore, LocalIsTrue
<1> QED
  BY <1>1, Invariance, PTL

\* A row leaves the outbox only for a message that the server has and the local
\* store holds (OutboxLosesNothing; the ack handler of useWebSocket.ts).
THEOREM NothingIsLost == Spec => []OutboxLosesNothing
<1>1. IndInv => OutboxLosesNothing
  BY DEF IndInv, Outbox, LocalStore, OutboxLosesNothing
<1> QED
  BY <1>1, Invariance, PTL

\* After a resume that was replayed every later message is held or on its way,
\* but for one whose own fanout the database failed (NothingMissed; handleResume,
\* client.go:238-242; handleSend, client.go:375-378).
THEOREM ResumeMissesNothing == Spec => []NothingMissed
<1>1. IndInv => NothingMissed
  BY DEF IndInv
<1> QED
  BY <1>1, Invariance, PTL

\* A message is stored before one that was written earlier only if that one
\* has failed (OvertakenRowsSlipped; flushOutbox, one row in flight).
THEOREM RowsKeepTheirOrder == Spec => []OvertakenRowsSlipped
<1>1. IndInv => OvertakenRowsSlipped
  <2> SUFFICES ASSUME IndInv, NEW n \in DOMAIN log, NEW m \in DOMAIN log,
                      n < m, log[m] # Other, log[n] > log[m], log[m] \notin slipped
               PROVE  FALSE
    BY DEF OvertakenRowsSlipped
  <2>1. n \in 1..Len(log) /\ m \in 1..Len(log) /\ log[n] \in Rows \cup {Other} /\ log[m] \in Rows \cup {Other}
    BY LenProperties, ElementOfSeq DEF IndInv, Server
  <2>2. PICK x, y : x = log[n] /\ y = log[m]
    OBVIOUS
  <2>3. x \in Nat \ {0} /\ y \in Nat \ {0} /\ x > y /\ log[n] # Other
    <3>1. x \in Rows \cup {Other} /\ y \in Rows \cup {Other} /\ y # Other /\ x > y
      BY <2>1, <2>2
    <3>2. Rows \subseteq Nat \ {0} /\ Other = 0
      BY RowsFinite DEF Other
    <3>3. x \in Nat /\ y \in Nat /\ y # 0
      BY <3>1, <3>2
    <3>4. x # 0
      BY <3>1, <3>3
    <3> QED
      BY <2>2, <3>1, <3>2, <3>3, <3>4
  <2>4. y \in 1..(x - 1)
    BY <2>2, <2>3
  <2>5. PICK k \in 1..(n - 1) : log[k] = y
    BY <2>1, <2>2, <2>3, <2>4 DEF IndInv, Server
  <2>6. k \in 1..Len(log) /\ k # m
    BY <2>1, <2>5
  <2> QED
    BY <2>1, <2>2, <2>5, <2>6 DEF IndInv, Server
<1> QED
  BY <1>1, Invariance, PTL

\* While no row has failed, a pending row has a flush under way, or a connection
\* to come or just come that starts one (FlushIsOwed; flushOutbox's flag, its
\* early return, and the onopen handler of useWebSocket.ts).
THEOREM FlushIsNeverForgotten == Spec => []FlushIsOwed
<1>1. Init => Woken
  BY DEF Init, Woken, FlushIsOwed, NoCatchup
<1>2. IndInv /\ Woken /\ [Next]_vars => Woken'
  BY WokenKept
<1>3. Woken => FlushIsOwed
  BY DEF Woken
<1> QED
  BY <1>1, <1>2, <1>3, Invariance, PTL DEF Spec

\* Every variable has its type, and the outbound buffer never holds more than
\* it can (TypeOK; outboundBuffer and trySend, client.go).
THEOREM TypeCorrect == Spec => []TypeOK
<1>1. ASSUME IndInv
      PROVE  TypeOK
  <2>1. log \in Seq(Rows \cup {Other}) /\ Len(log) \in Nat /\ DOMAIN log = 1..Len(log)
    BY <1>1, LenProperties DEF IndInv, Server
  <2>2. 0..Len(log) \subseteq Seqs /\ 0 \in Seqs /\ Len(log) \in Seqs
    <3>1. PICK T : T = Range(log) \cap Rows
      OBVIOUS
    <3>2. Cardinality(T) \in Nat /\ Cardinality(T) <= NRows
      BY <3>1, RowsFinite, FS_Subset, FS_CardinalityType
    <3>3. others \in 0..Others /\ Len(log) = others + Cardinality(T)
      BY <1>1, <3>1 DEF IndInv, Server
    <3> QED
      BY SMTT(30), <2>1, <3>2, <3>3, RowsAssumption, LimitsAssumption DEF Seqs
  <2>3. log \in [DOMAIN log -> Rows \cup {Other}]
    BY <2>1
  <2>4. Resumes \cup Sendable \subseteq Frames
    BY <2>2 DEF Resumes, Sendable, Frame, Frames
  <2>5. Messages \cup Acks \cup Errors \subseteq Frames
    <3>1. \A n \in 1..Len(log) : log[n] \in Rows \cup {0}
      BY <2>1, ElementOfSeq DEF Other
    <3> QED
      BY <2>1, <2>2, <3>1 DEF Messages, Acks, Errors, Frame, Frames
  <2>6. \A S : \A s \in Seq(S) : Range(s) \subseteq S
    BY LenProperties, ElementOfSeq DEF Range
  <2>7. Range(up) \cup UNION {Range(sends) : sends \in stray} \subseteq Frames
    BY <1>1, <2>4, <2>6 DEF IndInv, Wire, Server
  <2>8. Range(down) \subseteq Frames /\ Len(down) <= Buffer
    BY <1>1, <2>5, <2>6 DEF IndInv, Wire
  <2>9. fan \cup unsent \subseteq Seqs /\ DOMAIN local \subseteq Seqs /\ mark \in Seqs
    <3>1. 1..Len(log) \subseteq 0..Len(log)
      BY <2>1
    <3> QED
      BY <1>1, <2>2, <3>1 DEF IndInv, Server, LocalStore
  <2>10. srv \in [at : {"off", "accepted", "read", "replay", "ack", "members"},
                  row : Rows \cup {0}, seq : Seqs, upto : Seqs]
    BY <1>1, <2>2 DEF IndInv, Wire
  <2>11. /\ catchup \in [Catchups -> [at : {"idle", "read", "asked", "answered", "unfail"},
                               since : Seqs, upto : Seqs, more : BOOLEAN, first : BOOLEAN]]
         /\ page \in [at : {"none", "answered"}, lo : Seqs \cup {1}, hi : Seqs]
    BY <1>1, <2>2 DEF IndInv, CatchingUp
  <2>12. page.at = "answered" => page.lo >= 1 /\ page.hi <= Len(log)
    <3>1. page.lo \in 0..Len(log) \cup {1} /\ page.hi \in 0..Len(log)
      BY <1>1 DEF IndInv, CatchingUp
    <3>2. page.at = "answered" => page.lo # 0
      BY <1>1 DEF IndInv, CatchingUp
    <3> QED
      BY <2>1, <3>1, <3>2
  <2> QED
    BY <1>1, <2>2, <2>3, <2>7, <2>8, <2>9, <2>10, <2>11, <2>12 DEF IndInv, Outbox, TypeOK
<1> QED
  BY <1>1, Invariance, PTL
=============================================================================

-------------------------------- MODULE Hub ----------------------------------
(***************************************************************************)
(* The WebSocket hub (src/server/internal/ws/hub.go, ws/client.go): the     *)
(* registry of connections, the goroutines that broadcast presence, and     *)
(* the handlers that change something and then announce it: watermarks      *)
(* (store/readstate.go) and reactions (store/reactions.go, also over REST,  *)
(* api/reaction_handlers.go).  All users are members of one conversation,   *)
(* and the reactions are those to one message with one emoji.               *)
(*                                                                         *)
(* A step is one access to the store, one critical section of hub.mu that   *)
(* writes, or one of the two of sendToUsers: it takes hub.mu for reading,   *)
(* then queues its frames and releases it.  What is queued is not kept      *)
(* frame by frame: out counts the frames, told holds the newest of each     *)
(* topic, which is what the page shows once it has them all.                *)
(***************************************************************************)
EXTENDS Naturals, FiniteSets

CONSTANTS
  Users,       \* members of the conversation
  Conns,       \* bound: connections accepted, each of a user
  UserOf,      \* whose connection or REST call it is
  Casts,       \* goroutines of broadcastPresence
  Callers,     \* goroutines of the REST reaction handler, each for a user
  None,
  Buffer,      \* outboundBuffer
  MaxSeq,      \* bound: greatest seq that is marked
  MaxCalls     \* bound: watermarks and reactions asked for, and errors

ASSUME UsersAssumption == IsFiniteSet(Users) /\ UserOf \in [Conns \cup Callers -> Users]
ASSUME NoneAssumption == None \notin Conns
ASSUME BoundsAssumption == Buffer \in Nat \ {0} /\ {MaxSeq, MaxCalls} \subseteq Nat

VARIABLES
  conns,    \* hub.conns: the registered connections of each user
  at,       \* at[c]: how far ServeHTTP is
  closes,   \* closes[c]: how often its done channel has been closed
  out,      \* out[c]: frames queued
  job,      \* job[p]: what a goroutine is about
  readMu,   \* holder of the read-state mutex
  marks,    \* read:<uid>:<cid>
  reacted,  \* users with a reaction:... key
  told,     \* told[c][t]: the newest frame on topic t queued for c
  amiss,    \* topics whose newest change overlapped the announcing of another,
            \* or was not announced to everybody, for an error
  calls

vars == <<conns, at, closes, out, job, readMu, marks, reacted, told, amiss, calls>>

Procs == Conns \cup Casts \cup Callers

Presence(u) == <<"presence", u>>
Receipt(u) == <<"receipt", u>>
Reaction == <<"reaction", None>>
Topics == {Presence(u) : u \in Users} \cup {Receipt(u) : u \in Users} \cup {Reaction}

Marks == [delivered : 0..MaxSeq, read : 0..MaxSeq]
Idle == [at |-> "idle", topic |-> None, val |-> None]
Untold == [t \in Topics |-> None]

Init ==
  /\ conns = [u \in Users |-> {}]
  /\ at = [c \in Conns |-> "off"]
  /\ closes = [c \in Conns |-> 0]
  /\ out = [c \in Conns |-> 0]
  /\ job = [p \in Procs |-> Idle]
  /\ readMu = None
  /\ marks = [u \in Users |-> [delivered |-> 0, read |-> 0]]
  /\ reacted = {}
  /\ told = [c \in Conns |-> Untold]
  /\ amiss = {}
  /\ calls = 0

-----------------------------------------------------------------------------
IsIdle(p) == job[p].at = "idle"
\* IsOnline.
Online(u) == conns[u] # {}

\* hub.mu: sendToUsers reads it, register, unregister and CloseAll write.
NoReader == \A p \in Procs : job[p].at # "send"

\* A topic is being announced: changed, and not told everyone yet.
Announcing(t) == \E p \in Procs : job[p].topic = t /\ job[p].at \in {"count", "announce", "send"}
\* A change of a topic, beside one that is still being announced or not.
Change(t) == amiss' = IF Announcing(t) THEN amiss \cup {t} ELSE amiss \ {t}

\* Mutant: close without closeOnce.
ClosedAgain(cs) == [c \in Conns |-> IF c \in cs THEN closes[c] + 1 ELSE closes[c]]
\* close: done is closed once, whoever asks, however often.
Closed(cs) == [c \in Conns |-> IF c \in cs THEN 1 ELSE closes[c]]
\* What was queued for a connection that is closed is not seen.
Close(cs) ==
  /\ closes' = Closed(cs)
  /\ told' = [c \in Conns |-> IF c \in cs THEN Untold ELSE told[c]]

\* go broadcastPresence(u, online).
Broadcast(u, online) ==
  /\ \E b \in Casts :
       /\ IsIdle(b)
       /\ job' = [job EXCEPT ![b] = [Idle EXCEPT !.at = "announce",
                                                 !.topic = Presence(u), !.val = online]]
  /\ Change(Presence(u))

-----------------------------------------------------------------------------
(* A connection, from ServeHTTP's register to its end.                      *)

\* register: the first connection of a user broadcasts.
Register(c) ==
  /\ at[c] = "off"
  /\ NoReader
  /\ at' = [at EXCEPT ![c] = "open"]
  /\ conns' = [conns EXCEPT ![UserOf[c]] = @ \cup {c}]
  /\ IF Online(UserOf[c]) THEN UNCHANGED <<job, amiss>>
     ELSE Broadcast(UserOf[c], TRUE)
  /\ UNCHANGED <<closes, out, readMu, marks, reacted, told, calls>>

\* The write loop sends a frame, or fails and closes.
Write(c) ==
  /\ at[c] = "open"
  /\ closes[c] = 0
  /\ \/ /\ out[c] > 0
        /\ out' = [out EXCEPT ![c] = @ - 1]
        /\ UNCHANGED <<closes, told>>
     \/ Close({c}) /\ UNCHANGED out
  /\ UNCHANGED <<conns, at, job, readMu, marks, reacted, amiss, calls>>

\* run: a read fails between two handlers, the connection is closed, and
\* unregistered as soon as nobody reads the registry; till then it is one that
\* the write loop has closed.
Leave(c) ==
  /\ at[c] = "open"
  /\ IsIdle(c)
  /\ NoReader
  /\ at' = [at EXCEPT ![c] = "gone"]
  /\ closes' = Closed({c})
  /\ out' = [out EXCEPT ![c] = 0]
  /\ told' = [told EXCEPT ![c] = Untold]
  /\ conns' = [conns EXCEPT ![UserOf[c]] = @ \ {c}]

\* Mutant: each connection that ends says that its user is offline.
UnregisterOne(c) ==
  /\ Leave(c)
  /\ Broadcast(UserOf[c], FALSE)
  /\ UNCHANGED <<readMu, marks, reacted, calls>>

\* unregister: the last connection of a user broadcasts.
Unregister(c) ==
  /\ Leave(c)
  /\ IF conns[UserOf[c]] # {c} THEN UNCHANGED <<job, amiss>>
     ELSE Broadcast(UserOf[c], FALSE)
  /\ UNCHANGED <<readMu, marks, reacted, calls>>

\* CloseAll lists the connections under the mutex and closes them; one that is
\* accepted but not registered yet is not among them.
CloseAll ==
  /\ NoReader
  /\ Close(UNION {conns[u] : u \in Users})
  /\ UNCHANGED <<conns, at, out, job, readMu, marks, reacted, amiss, calls>>

-----------------------------------------------------------------------------
(* Changes: a frame of an open connection, or a REST call.                  *)

\* The read loop takes a frame.
Dispatch(c) == at[c] = "open" /\ closes[c] = 0 /\ IsIdle(c)
Call == calls < MaxCalls /\ calls' = calls + 1   \* the bound: a request, or an error

Greater(m, n) == IF m > n THEN m ELSE n
\* SetRead raises both watermarks, SetDelivered one.
Raise(m, seq, read) ==
  [delivered |-> Greater(m.delivered, seq), read |-> IF read THEN Greater(m.read, seq) ELSE m.read]

\* Mutant: the state is read before the mutex is taken.
GetMarksUnlocked(c) ==
  /\ Dispatch(c)
  /\ Call
  /\ \E seq \in 1..MaxSeq, read \in BOOLEAN :
       LET u == UserOf[c]
           raised == Raise(marks[u], seq, read)
       IN  /\ raised # marks[u]
           /\ job' = [job EXCEPT ![c] = [Idle EXCEPT !.at = "put", !.topic = Receipt(u), !.val = raised]]
  /\ UNCHANGED <<conns, at, closes, out, readMu, marks, reacted, told, amiss>>

\* handleWatermark as far as the read in updateReadState; one that raises
\* nothing changes nothing, and is left out.
GetMarks(c) ==
  /\ Dispatch(c)
  /\ Call
  /\ readMu = None
  /\ readMu' = c
  /\ \E seq \in 1..MaxSeq, read \in BOOLEAN :
       LET u == UserOf[c]
           raised == Raise(marks[u], seq, read)
       IN  /\ raised # marks[u]
           /\ job' = [job EXCEPT ![c] = [Idle EXCEPT !.at = "put", !.topic = Receipt(u), !.val = raised]]
  /\ UNCHANGED <<conns, at, closes, out, marks, reacted, told, amiss>>

\* The put of updateReadState fails, and nothing has changed.
FailPut(c) ==
  /\ job[c].at = "put"
  /\ Call
  /\ readMu' = None
  /\ job' = [job EXCEPT ![c] = Idle]
  /\ UNCHANGED <<conns, at, closes, out, marks, reacted, told, amiss>>

\* The put in updateReadState, and its unlock.
PutMarks(c) ==
  /\ job[c].at = "put"
  /\ marks' = [marks EXCEPT ![UserOf[c]] = job[c].val]
  /\ readMu' = None
  /\ job' = [job EXCEPT ![c].at = "announce"]
  /\ Change(Receipt(UserOf[c]))
  /\ UNCHANGED <<conns, at, closes, out, reacted, told, calls>>

\* AddReaction and RemoveReaction as far as the put or the delete, whichever
\* of a connection or a REST call asks for it.
React(p) ==
  /\ Call
  /\ \/ reacted' = reacted \cup {UserOf[p]}
     \/ reacted' = reacted \ {UserOf[p]}
  /\ job' = [job EXCEPT ![p] = [Idle EXCEPT !.at = "count", !.topic = Reaction]]
  /\ Change(Reaction)
  /\ UNCHANGED <<conns, at, closes, out, readMu, marks, told>>
ReactOverWS(c) == Dispatch(c) /\ React(c)
ReactOverREST(p) == IsIdle(p) /\ React(p)

\* countReaction.
CountReaction(p) ==
  /\ job[p].at = "count"
  /\ job' = [job EXCEPT ![p].at = "announce", ![p].val = Cardinality(reacted)]
  /\ UNCHANGED <<conns, at, closes, out, readMu, marks, reacted, told, amiss, calls>>

-----------------------------------------------------------------------------
(* Announcing: sendToUsers, for presence, receipts and reactions.           *)

\* A receipt leaves out the connection it comes from.
Excluded(p) == IF job[p].topic[1] = "receipt" THEN {p} ELSE {}

\* sendToUsers takes hub.mu for reading; the page that a receipt comes from
\* knows better than what it has been told.
Announce(p) ==
  /\ job[p].at = "announce"
  /\ job' = [job EXCEPT ![p].at = "send"]
  /\ told' = [c \in Conns |-> IF c \in Excluded(p)
                              THEN [told[c] EXCEPT ![job[p].topic] = None] ELSE told[c]]
  /\ UNCHANGED <<conns, at, closes, out, readMu, marks, reacted, amiss, calls>>

\* The change is there, and the scan of countReaction or the list of members
\* (conversations, for presence) fails: the handler returns, nobody is told.
GiveUp(p) ==
  /\ job[p].at \in {"count", "announce"}
  /\ Call
  /\ job' = [job EXCEPT ![p] = Idle]
  /\ amiss' = amiss \cup {job[p].topic}
  /\ UNCHANGED <<conns, at, closes, out, readMu, marks, reacted, told>>

HasRoom(c) == out[c] < Buffer
Queue(cs, t, v) ==
  /\ out' = [c \in Conns |-> IF c \in cs THEN out[c] + 1 ELSE out[c]]
  /\ told' = [c \in Conns |-> IF c \in cs /\ closes[c] = 0
                              THEN [told[c] EXCEPT ![t] = v] ELSE told[c]]

\* Mutants: a full buffer loses the frame, or is waited for.
TrySendOrLose(cs, t, v) == Queue({c \in cs : HasRoom(c)}, t, v) /\ UNCHANGED closes
TrySendOrWait(cs, t, v) == (\A c \in cs : HasRoom(c)) /\ Queue(cs, t, v) /\ UNCHANGED closes

\* trySend, for each of the connections: one whose buffer is full is closed.
TrySend(cs, t, v) ==
  /\ out' = [c \in Conns |-> IF c \in cs /\ HasRoom(c) THEN out[c] + 1 ELSE out[c]]
  /\ closes' = Closed({c \in cs : ~HasRoom(c)})
  /\ told' = [c \in Conns |->
                CASE c \in cs /\ ~HasRoom(c) -> Untold
                  [] c \in cs /\ HasRoom(c) /\ closes[c] = 0 -> [told[c] EXCEPT ![t] = v]
                  [] OTHER -> told[c]]

Deliver(p, users) ==
  /\ job[p].at = "send"
  /\ TrySend((UNION {conns[u] : u \in users}) \ Excluded(p), job[p].topic, job[p].val)
  /\ job' = [job EXCEPT ![p] = Idle]
  /\ UNCHANGED <<conns, at, readMu, marks, reacted>>

SendToUsers(p) == Deliver(p, Users) /\ UNCHANGED <<amiss, calls>>

\* A broadcastPresence that could not list the members of the conversation: its
\* audience is the user's own devices.
SendToOwn(p) ==
  /\ job[p].at = "send" /\ job[p].topic[1] = "presence"
  /\ Call
  /\ Deliver(p, {job[p].topic[2]})
  /\ amiss' = amiss \cup {job[p].topic}

-----------------------------------------------------------------------------
\* A goroutine goes on with what it is about.
GoOn(p) == PutMarks(p) \/ CountReaction(p) \/ Announce(p) \/ SendToUsers(p)
\* The database fails it.
Trouble(p) == FailPut(p) \/ GiveUp(p) \/ SendToOwn(p)

Next ==
  \/ \E p \in Procs : GoOn(p) \/ Trouble(p)
  \/ \E c \in Conns : Register(c) \/ Write(c) \/ Unregister(c) \/ GetMarks(c) \/ ReactOverWS(c)
  \/ \E p \in Callers : ReactOverREST(p)
  \/ CloseAll

Spec == Init /\ [][Next]_vars

-----------------------------------------------------------------------------
(* Properties.                                                             *)

\* Types; no done channel is closed twice, which would panic, whether the
\* write loop, the read loop, a full buffer or CloseAll closes it (client.go:138).
TypeOK ==
  /\ conns \in [Users -> SUBSET Conns]
  /\ at \in [Conns -> {"off", "open", "gone"}]
  /\ closes \in [Conns -> 0..1]
  /\ out \in [Conns -> 0..Buffer]
  /\ DOMAIN job = Procs
  /\ \A p \in Procs :
       /\ job[p].at \in {"idle", "put", "count", "announce", "send"}
       /\ job[p].topic \in Topics \cup {None}
  /\ readMu \in Conns \cup {None}
  /\ marks \in [Users -> Marks]
  /\ reacted \subseteq Users
  /\ DOMAIN told = Conns
  /\ amiss \subseteq Topics
  /\ calls \in 0..MaxCalls

Live(c) == at[c] = "open" /\ closes[c] = 0
Truth(t) ==
  CASE t[1] = "presence" -> Online(t[2])
    [] t[1] = "receipt" -> marks[t[2]]
    [] OTHER -> Cardinality(reacted)

\* What a connection that lives on was told last is so: who is online, who has
\* read how far, how many have reacted; unless two changes of the same thing
\* overlapped, or a change could not be announced to everybody for an error of the
\* database, and then until the next change (hub.go:47-116, 146-159;
\* client.go:262-319).
ToldTheTruth ==
  \A c \in Conns, t \in Topics :
    Live(c) /\ t \notin amiss /\ ~Announcing(t) => told[c][t] \in {None, Truth(t)}

Rise == \A u \in Users : /\ marks'[u].delivered >= marks[u].delivered
                        /\ marks'[u].read >= marks[u].read
                        /\ marks'[u].read <= marks'[u].delivered
\* Watermarks only rise, and what is read is delivered, with several devices
\* of a user reporting at once ("regressions are ignored", readstate.go:9-13).
WatermarksRise == [][Rise]_vars

\* Nobody waits for a slow peer: a goroutine that is about something can go on
\* with it, whatever the write loops do and whatever is closed in the middle of
\* its fanout ("safer than stalling the hub", client.go:126-129).  Whoever waits
\* for hub.mu or the read-state mutex waits for such a one.
NobodyIsStuck == \A p \in Procs : IsIdle(p) \/ ENABLED GoOn(p)
=============================================================================

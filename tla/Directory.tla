------------------------------ MODULE Directory ------------------------------
(***************************************************************************)
(* Accounts and conversations: registration and profile edits             *)
(* (store/users.go), creation of conversations and membership              *)
(* (store/conversations.go, api/conv_handlers.go), and the ID counters     *)
(* both rest on (store/counter.go).  Each is several keys of a database     *)
(* without transactions, put in an order under a mutex that dies with the  *)
(* process.                                                                 *)
(*                                                                         *)
(* One step is one database access, or the taking of a mutex.  An ID is a  *)
(* number, a conversation's mutable fields are left to MessageStore, and   *)
(* passwords and tokens are left out.                                      *)
(***************************************************************************)
EXTENDS Integers, FiniteSets, FiniteSetsExt

CONSTANTS
  Names,        \* usernames, in lower case
  Accounts,     \* the usernames registered when the process starts
  NameOf,       \* NameOf[u]: their owner's username, for u in 1..Cardinality(Accounts)
  Workers,      \* goroutines that serve requests
  Nobody,       \* no goroutine: a free mutex
  Wanted,       \* what clients ask for: a set of calls
  Retries,      \* bound: calls in all
  MaxTroubles,  \* bound: failed writes and crashes in all
  MayFail       \* the puts that may return an error

Puts == {"user", "username", "profile", "conv", "member", "usermember", "dm", "counter"}

ASSUME NamesAssumption ==
  /\ Accounts \subseteq Names
  /\ Nobody \notin Workers
  /\ IsFiniteSet(Accounts)
  /\ NameOf \in [1..Cardinality(Accounts) -> Accounts]
  /\ \A n \in Accounts : \E u \in DOMAIN NameOf : NameOf[u] = n
  /\ \A u, v \in DOMAIN NameOf : NameOf[u] = NameOf[v] => u = v
ASSUME BoundsAssumption ==
  /\ Retries \in Nat
  /\ MaxTroubles \in Nat
  /\ MayFail \subseteq Puts

VARIABLES
  \* the database
  user,        \* user[u]: the record user:<u>; its domain is the keys present
  username,    \* username[n]: the user ID in username:<n>
  conv,        \* conv[c]: the type in conversation:<c>
  member,      \* the pairs <<c, u>> of member:<c>:<u>
  usermember,  \* the pairs <<u, c>> of usermember:<u>:<c>
  dm,          \* dm[pair]: the conversation in dm:<a>:<b>
  hint,        \* hint[k]: counter:user and counter:conv, 0 when absent
  \* the process
  next,        \* counter.next of each kind
  persisted,   \* counter.persisted of each kind
  mu,          \* the goroutine that holds regMu and convMu
  pc, call,    \* a goroutine's step and its request
  id,          \* the ID it has in hand: a user's or a conversation's
  todo, who,   \* the users it has still to make members of it, and the one it is at
  copy,        \* the record UpdateUser has read
  \* what was said and done
  answered,    \* answered[call]: the IDs returned for a call
  party,       \* party[c]: who was named when conversation c was made
  calls, troubles

disk    == <<user, username, conv, member, usermember, dm, hint>>
memory  == <<next, persisted, mu>>
inhand  == <<pc, call, id, todo, who, copy>>
history == <<answered, party>>
vars    == <<disk, memory, inhand, history, calls, troubles>>

Kinds == {"user", "conv"}
Mutexes == {"regMu", "convMu"}
Fields == {"displayName", "status"}
ASSUME WantedAssumption ==
  \A c \in Wanted :
    \/ c.do = "register" /\ c.name \in Names
    \/ c.do = "edit" /\ c.field \in Fields
    \/ c.do = "create" /\ c.type \in {"dm", "group"}
    \/ c.do = "add"
NoCall == [do |-> "nothing"]
Blank == [name |-> "", displayName |-> 0, status |-> 0]

\* A partial function with one more key, or with a new value at a key.
Put(f, k, v) == [x \in DOMAIN f \cup {k} |-> IF x = k THEN v ELSE f[x]]
None == [x \in {} |-> 0]

Goto(w, label) == pc' = [pc EXCEPT ![w] = label]

\* The put of this kind succeeds, or returns an error.
Works == UNCHANGED troubles
Fails(kind) ==
  /\ kind \in MayFail
  /\ troubles < MaxTroubles
  /\ troubles' = troubles + 1

\* The call returns; a deferred unlock frees its mutex.
Release(w) == mu' = [m \in Mutexes |-> IF mu[m] = w THEN Nobody ELSE mu[m]]
Forget(w) ==
  /\ Goto(w, "idle")
  /\ call' = [call EXCEPT ![w] = NoCall]
  /\ id' = [id EXCEPT ![w] = 0]
  /\ todo' = [todo EXCEPT ![w] = {}]
  /\ who' = [who EXCEPT ![w] = 0]
  /\ copy' = [copy EXCEPT ![w] = Blank]
Return(w) == Release(w) /\ Forget(w)
Answer(w, n) ==
  /\ answered' = Put(answered, call[w],
                     (IF call[w] \in DOMAIN answered THEN answered[call[w]] ELSE {}) \cup {n})
  /\ UNCHANGED party

Lock(w, m) ==
  /\ mu[m] = Nobody
  /\ mu' = [mu EXCEPT ![m] = w]

-----------------------------------------------------------------------------
(* ID counters.                                                            *)

\* openCounter: the hint, or the greatest ID present above it.
Recovered(known, ids) == Max({known} \cup {n \in ids : n > known})
\* Mutants: the hint alone; the recovered ID itself.
OpenedAtHint(known, ids) == known + 1
OpenedTooLow(known, ids) == Recovered(known, ids)
Opened(known, ids) == Recovered(known, ids) + 1

\* alloc: the next ID, not given back when the put that follows fails.
Alloc(kind) == next' = [next EXCEPT ![kind] = @ + 1]

\* persist: raise the hint, monotonically; the call then returns.
Persist(w, kind) ==
  \/ /\ IF id[w] > persisted[kind]
        THEN /\ hint' = [hint EXCEPT ![kind] = id[w]]
             /\ persisted' = [persisted EXCEPT ![kind] = id[w]]
        ELSE UNCHANGED <<hint, persisted>>
     /\ Works
     /\ Answer(w, id[w])
  \/ /\ id[w] > persisted[kind]
     /\ Fails("counter")
     /\ UNCHANGED <<hint, persisted, history>>

Init ==
  /\ user = [u \in DOMAIN NameOf |-> [Blank EXCEPT !.name = NameOf[u]]]
  /\ username = [n \in Accounts |-> CHOOSE u \in DOMAIN NameOf : NameOf[u] = n]
  /\ conv = None
  /\ member = {}
  /\ usermember = {}
  /\ dm = None
  /\ hint = [user |-> Cardinality(Accounts), conv |-> 0]
  /\ next = [k \in Kinds |-> hint[k] + 1]
  /\ persisted = hint
  /\ mu = [m \in Mutexes |-> Nobody]
  /\ pc = [w \in Workers |-> "idle"]
  /\ call = [w \in Workers |-> NoCall]
  /\ id = [w \in Workers |-> 0]
  /\ todo = [w \in Workers |-> {}]
  /\ who = [w \in Workers |-> 0]
  /\ copy = [w \in Workers |-> Blank]
  /\ answered = None
  /\ party = None
  /\ calls = 0
  /\ troubles = 0

-----------------------------------------------------------------------------
(* Requests.                                                               *)

\* handleCreateConversation and CreateConversation before the lock: every
\* participant is a user, and a dm has two of them.
Participants(c) == {c.creator} \cup c.others
Welcome(c) ==
  /\ Participants(c) \subseteq DOMAIN user
  /\ c.type = "dm" => Cardinality(Participants(c)) = 2

\* requireMember.  Conversations, members and users are never removed: what these
\* reads, and those of AddMember, have found stays true.
RequireMember(c) == c.conv \in DOMAIN conv /\ <<c.conv, c.by>> \in member

\* Mutant: to a conversation of any type.
MayAddAny(c) ==
  /\ c.conv \in DOMAIN conv
  /\ c.user \in DOMAIN user
\* AddMember before its puts.
MayAdd(c) ==
  /\ c.conv \in DOMAIN conv
  /\ conv[c.conv] = "group"
  /\ c.user \in DOMAIN user

\* A request is under way, with what it starts from.
Begin(w, c, label) ==
  /\ pc[w] = "idle"
  /\ calls < Retries
  /\ calls' = calls + 1
  /\ call' = [call EXCEPT ![w] = c]
  /\ Goto(w, label)
  /\ UNCHANGED <<disk, memory, who, copy, history, troubles>>

Register(w, c) ==
  /\ c.do = "register"
  /\ Begin(w, c, "register")
  /\ UNCHANGED <<id, todo>>

Edit(w, c) ==
  /\ c.do = "edit"
  /\ c.user \in DOMAIN user
  /\ Begin(w, c, "edit")
  /\ UNCHANGED <<id, todo>>

Create(w, c) ==
  /\ c.do = "create"
  /\ Welcome(c)
  /\ Begin(w, c, "create")
  /\ todo' = [todo EXCEPT ![w] = Participants(c)]
  /\ UNCHANGED id

Add(w, c) ==
  /\ c.do = "add"
  /\ RequireMember(c)
  /\ MayAdd(c)
  /\ Begin(w, c, "member")
  /\ id' = [id EXCEPT ![w] = c.conv]
  /\ todo' = [todo EXCEPT ![w] = {c.user}]

-----------------------------------------------------------------------------
(* CreateUser and UpdateUser, under regMu.                                 *)

\* Mutant: without regMu.
LockUsersNot(w) ==
  /\ \/ pc[w] = "register" /\ Goto(w, "taken?")
     \/ pc[w] = "edit" /\ Goto(w, "read profile")
  /\ UNCHANGED <<disk, memory, call, id, todo, who, copy, history, calls, troubles>>

LockUsers(w) ==
  /\ \/ pc[w] = "register" /\ Goto(w, "taken?")
     \/ pc[w] = "edit" /\ Goto(w, "read profile")
  /\ Lock(w, "regMu")
  /\ UNCHANGED <<disk, next, persisted, call, id, todo, who, copy, history, calls, troubles>>

\* Mutant: the name is not looked up.
LookUpNoName(w) ==
  /\ pc[w] = "taken?"
  /\ Goto(w, "user")
  /\ UNCHANGED <<disk, memory, call, id, todo, who, copy, history, calls, troubles>>

LookUpName(w) ==
  /\ pc[w] = "taken?"
  /\ IF call[w].name \in DOMAIN username
     THEN Return(w)
     ELSE Goto(w, "user") /\ UNCHANGED <<mu, call, id, todo, who, copy>>
  /\ UNCHANGED <<disk, next, persisted, history, calls, troubles>>

\* Mutant: the index before the record.
PutUserNameFirst(w) ==
  /\ pc[w] = "user"
  /\ Alloc("user")
  /\ \/ /\ username' = Put(username, call[w].name, next.user)
        /\ id' = [id EXCEPT ![w] = next.user]
        /\ Goto(w, "username")
        /\ Works
        /\ UNCHANGED <<mu, call, todo, who, copy>>
     \/ /\ Fails("user")
        /\ Return(w)
        /\ UNCHANGED username
  /\ UNCHANGED <<user, conv, member, usermember, dm, hint, persisted, history, calls>>

\* The record first: a crash before the index leaves an account nobody can
\* reach, and the name free.
PutUser(w) ==
  /\ pc[w] = "user"
  /\ Alloc("user")
  /\ \/ /\ user' = Put(user, next.user, [Blank EXCEPT !.name = call[w].name])
        /\ id' = [id EXCEPT ![w] = next.user]
        /\ Goto(w, "username")
        /\ Works
        /\ UNCHANGED <<mu, call, todo, who, copy>>
     \/ /\ Fails("user")
        /\ Return(w)
        /\ UNCHANGED user
  /\ UNCHANGED <<username, conv, member, usermember, dm, hint, persisted, history, calls>>

PutUsername(w) ==
  /\ pc[w] = "username"
  /\ \/ /\ username' = Put(username, call[w].name, id[w])
        /\ Goto(w, "count user")
        /\ Works
        /\ UNCHANGED <<mu, call, id, todo, who, copy>>
     \/ /\ Fails("username")
        /\ Return(w)
        /\ UNCHANGED username
  /\ UNCHANGED <<user, conv, member, usermember, dm, hint, next, persisted, history, calls>>

CountUser(w) ==
  /\ pc[w] = "count user"
  /\ Persist(w, "user")
  /\ Return(w)
  /\ UNCHANGED <<user, username, conv, member, usermember, dm, next, calls>>

ReadProfile(w) ==
  /\ pc[w] = "read profile"
  /\ copy' = [copy EXCEPT ![w] = user[call[w].user]]
  /\ Goto(w, "profile")
  /\ UNCHANGED <<disk, memory, call, id, todo, who, history, calls, troubles>>

\* The whole record is written back, with the fields of the PATCH replaced.
PutProfile(w) ==
  /\ pc[w] = "profile"
  /\ \/ /\ user' = [user EXCEPT ![call[w].user] = [copy[w] EXCEPT ![call[w].field] = call[w].value]]
        /\ Works
     \/ /\ Fails("profile")
        /\ UNCHANGED user
  /\ Return(w)
  /\ UNCHANGED <<username, conv, member, usermember, dm, hint, next, persisted, history, calls>>

-----------------------------------------------------------------------------
(* CreateConversation under convMu; addMember, shared with AddMember.      *)

\* Mutant: without convMu.
LockConvsNot(w) ==
  /\ pc[w] = "create"
  /\ Goto(w, IF call[w].type = "dm" THEN "existing?" ELSE "conv")
  /\ UNCHANGED <<disk, memory, call, id, todo, who, copy, history, calls, troubles>>

LockConvs(w) ==
  /\ pc[w] = "create"
  /\ Lock(w, "convMu")
  /\ Goto(w, IF call[w].type = "dm" THEN "existing?" ELSE "conv")
  /\ UNCHANGED <<disk, next, persisted, call, id, todo, who, copy, history, calls, troubles>>

\* Mutant: a new one, whatever there is.
LookUpNoDM(w) ==
  /\ pc[w] = "existing?"
  /\ Goto(w, "conv")
  /\ UNCHANGED <<disk, memory, call, id, todo, who, copy, history, calls, troubles>>

\* The existing DM of the pair, whoever of the two asks.
LookUpDM(w) ==
  /\ pc[w] = "existing?"
  /\ LET pair == Participants(call[w])
     IN  IF pair \in DOMAIN dm
         THEN Answer(w, dm[pair]) /\ Return(w)
         ELSE Goto(w, "conv") /\ UNCHANGED <<mu, call, id, todo, who, copy, history>>
  /\ UNCHANGED <<disk, next, persisted, calls, troubles>>

\* Mutant: the dm key together with the conversation.
PutConvAndKey(w) ==
  /\ pc[w] = "conv"
  /\ Alloc("conv")
  /\ \/ /\ conv' = Put(conv, next.conv, call[w].type)
        /\ dm' = IF call[w].type = "dm" THEN Put(dm, Participants(call[w]), next.conv) ELSE dm
        /\ party' = Put(party, next.conv, Participants(call[w]))
        /\ id' = [id EXCEPT ![w] = next.conv]
        /\ Goto(w, "member")
        /\ Works
        /\ UNCHANGED <<mu, call, todo, who, copy>>
     \/ /\ Fails("conv")
        /\ Return(w)
        /\ UNCHANGED <<conv, dm, party>>
  /\ UNCHANGED <<user, username, member, usermember, hint, persisted, answered, calls>>

PutConv(w) ==
  /\ pc[w] = "conv"
  /\ Alloc("conv")
  /\ \/ /\ conv' = Put(conv, next.conv, call[w].type)
        /\ party' = Put(party, next.conv, Participants(call[w]))
        /\ id' = [id EXCEPT ![w] = next.conv]
        /\ Goto(w, "member")
        /\ Works
        /\ UNCHANGED <<mu, call, todo, who, copy>>
     \/ /\ Fails("conv")
        /\ Return(w)
        /\ UNCHANGED <<conv, party>>
  /\ UNCHANGED <<user, username, member, usermember, dm, hint, persisted, answered, calls>>

\* After the last participant: the dm key, the counter, or nothing more.
AfterMembers(w) ==
  CASE call[w].do = "add" -> "added"
    [] call[w].do = "create" /\ call[w].type = "dm" -> "dm"
    [] OTHER -> "count conv"

\* The creator is the first participant.
First(w, u) == call[w].do = "create" /\ call[w].creator \in todo[w] => u = call[w].creator

\* Mutant: the index where the membership belongs.
PutMemberIndex(w) ==
  /\ pc[w] = "member"
  /\ \/ \E u \in todo[w] :
          /\ First(w, u)
          /\ usermember' = usermember \cup {<<u, id[w]>>}
          /\ who' = [who EXCEPT ![w] = u]
          /\ todo' = [todo EXCEPT ![w] = @ \ {u}]
          /\ Goto(w, "usermember")
          /\ Works
          /\ UNCHANGED <<mu, call, id, copy>>
     \/ /\ Fails("member")
        /\ Return(w)
        /\ UNCHANGED usermember
  /\ UNCHANGED <<user, username, conv, member, dm, hint, next, persisted, history, calls>>

\* member: is what authorises, and comes before usermember:, which shows.
PutMember(w) ==
  /\ pc[w] = "member"
  /\ \/ \E u \in todo[w] :
          /\ First(w, u)
          /\ member' = member \cup {<<id[w], u>>}
          /\ who' = [who EXCEPT ![w] = u]
          /\ todo' = [todo EXCEPT ![w] = @ \ {u}]
          /\ Goto(w, "usermember")
          /\ Works
          /\ UNCHANGED <<mu, call, id, copy>>
     \/ /\ Fails("member")
        /\ Return(w)
        /\ UNCHANGED member
  /\ UNCHANGED <<user, username, conv, usermember, dm, hint, next, persisted, history, calls>>

PutUserMember(w) ==
  /\ pc[w] = "usermember"
  /\ \/ /\ usermember' = usermember \cup {<<who[w], id[w]>>}
        /\ Works
        /\ IF todo[w] = {} /\ AfterMembers(w) = "added"
           THEN Return(w)
           ELSE /\ Goto(w, IF todo[w] = {} THEN AfterMembers(w) ELSE "member")
                /\ UNCHANGED <<mu, call, id, todo, who, copy>>
     \/ /\ Fails("usermember")
        /\ Return(w)
        /\ UNCHANGED usermember
  /\ UNCHANGED <<user, username, conv, member, dm, hint, next, persisted, history, calls>>

PutDM(w) ==
  /\ pc[w] = "dm"
  /\ \/ /\ dm' = Put(dm, Participants(call[w]), id[w])
        /\ Goto(w, "count conv")
        /\ Works
        /\ UNCHANGED <<mu, call, id, todo, who, copy>>
     \/ /\ Fails("dm")
        /\ Return(w)
        /\ UNCHANGED dm
  /\ UNCHANGED <<user, username, conv, member, usermember, hint, next, persisted, history, calls>>

CountConv(w) ==
  /\ pc[w] = "count conv"
  /\ Persist(w, "conv")
  /\ Return(w)
  /\ UNCHANGED <<user, username, conv, member, usermember, dm, next, calls>>

-----------------------------------------------------------------------------
\* The process dies and is started again: Open recovers the counters before a
\* request is served.
Crash ==
  /\ troubles < MaxTroubles
  /\ troubles' = troubles + 1
  /\ next' = [user |-> Opened(hint.user, DOMAIN user), conv |-> Opened(hint.conv, DOMAIN conv)]
  /\ persisted' = hint
  /\ mu' = [m \in Mutexes |-> Nobody]
  /\ pc' = [w \in Workers |-> "idle"]
  /\ call' = [w \in Workers |-> NoCall]
  /\ id' = [w \in Workers |-> 0]
  /\ todo' = [w \in Workers |-> {}]
  /\ who' = [w \in Workers |-> 0]
  /\ copy' = [w \in Workers |-> Blank]
  /\ UNCHANGED <<disk, history, calls>>

Step(w) ==
  \/ LockUsers(w) \/ LookUpName(w) \/ PutUser(w) \/ PutUsername(w) \/ CountUser(w)
  \/ ReadProfile(w) \/ PutProfile(w)
  \/ LockConvs(w) \/ LookUpDM(w) \/ PutConv(w) \/ PutMember(w) \/ PutUserMember(w)
  \/ PutDM(w) \/ CountConv(w)

Next ==
  \/ \E w \in Workers : Step(w)
  \/ \E w \in Workers, c \in Wanted : Register(w, c) \/ Edit(w, c) \/ Create(w, c) \/ Add(w, c)
  \/ Crash

Spec == Init /\ [][Next]_vars

-----------------------------------------------------------------------------
(* What the handlers read.                                                 *)

\* IsMember, on which every handler of a conversation and every frame rests.
IsMember(c, u) == <<c, u>> \in member
\* ListMembers: whom a message of the conversation is sent to.
ListMembers(c) == {m[2] : m \in {x \in member : x[1] = c}}
\* ListUserConversations: what a user's client lists and syncs; an index
\* entry without a conversation is skipped.
ListUserConversations(u) == {c \in DOMAIN conv : <<u, c>> \in usermember}
\* GetUserByUsername: whom a login with this name is.
GetUserByUsername(n) == {u \in DOMAIN user : n \in DOMAIN username /\ username[n] = u}
\* handleProfile: the viewer's conversations that the target is a member of; none
\* on the viewer's own profile.
SharedConversations(viewer, target) ==
  {c \in ListUserConversations(viewer) : viewer # target /\ IsMember(c, target)}

-----------------------------------------------------------------------------
(* Properties.                                                             *)

IDs == 0..(Cardinality(Accounts) + Retries + MaxTroubles + 1)
Labels == {"idle", "register", "taken?", "user", "username", "count user", "edit",
           "read profile", "profile", "create", "existing?", "conv", "member", "usermember",
           "dm", "count conv"}

\* Types; in particular a counter never hands out 0, which no key has.
TypeOK ==
  /\ DOMAIN user \subseteq IDs /\ DOMAIN username \subseteq Names
  /\ \A u \in DOMAIN user : user[u].name \in Names
  /\ \A n \in DOMAIN username : username[n] \in IDs
  /\ DOMAIN conv \subseteq IDs /\ \A c \in DOMAIN conv : conv[c] \in {"dm", "group"}
  /\ member \subseteq IDs \X IDs /\ usermember \subseteq IDs \X IDs
  /\ DOMAIN dm \subseteq SUBSET IDs /\ \A p \in DOMAIN dm : dm[p] \in IDs
  /\ hint \in [Kinds -> IDs] /\ next \in [Kinds -> IDs \ {0}] /\ persisted = hint
  /\ mu \in [Mutexes -> Workers \cup {Nobody}]
  /\ pc \in [Workers -> Labels] /\ id \in [Workers -> IDs]
  /\ todo \in [Workers -> SUBSET IDs] /\ who \in [Workers -> IDs]

\* A username entry leads to an account of that name, at every moment and after
\* every crash ("never an index pointing at nothing", users.go:13-16).
NamesLeadToAccounts ==
  \A n \in DOMAIN username : \E u \in GetUserByUsername(n) : user[u].name = n

\* Once a registration is answered, the name logs in as that account and no
\* other, however registrations of the name race (CreateUser's check-then-put).
RegistrationsHold ==
  \A c \in DOMAIN answered : c.do = "register" => answered[c] = GetUserByUsername(c.name)

\* What a conversation list or a sync shows, the handlers authorise: the index
\* is never ahead of the membership (conversations.go:24-29).
ShownIsAuthorised ==
  \A u \in DOMAIN user : ListUserConversations(u) \subseteq {c \in DOMAIN conv : IsMember(c, u)}

\* The members of a DM are the two it was made for, whatever crashed or raced
\* and whoever adds members ("never a member who shouldn't be one").
DMsStayPrivate ==
  \A c \in DOMAIN conv : conv[c] = "dm" => ListMembers(c) \subseteq party[c]

\* A dm key stands for a conversation that either of the two lists, finds on the
\* other's profile and may read: creating the DM again never answers with half
\* of one (CreateConversation's write order).
KeyedDMIsComplete ==
  \A pair \in DOMAIN dm :
    /\ Cardinality(pair) = 2
    /\ \A u, v \in pair : u # v => dm[pair] \in SharedConversations(u, v)

\* Two users are answered one DM ID for ever, whoever of them creates it how
\* often, concurrently or across crashes ("creating an existing DM returns it").
OneDMAnswered ==
  \A pair \in SUBSET DOMAIN user :
    Cardinality(UNION {answered[c] : c \in {d \in DOMAIN answered :
      d.do = "create" /\ d.type = "dm" /\ Participants(d) = pair}}) <= 1

\* The IDs answered to the calls in cs.
Told(cs) == UNION {answered[c] : c \in cs \cap DOMAIN answered}

\* Usernames are a table of accounts: a name is one account's for ever, two names
\* never lead to the same one, and a registration is answered with the account
\* of its name, already there ("the username index is immutable", users.go:46-49).
Registrations(n) == {c \in Wanted : c.do = "register" /\ c.name = n}
TableOfNames == INSTANCE Table WITH
  Keys <- Names, entry <- username, told <- [n \in Names |-> Told(Registrations(n))]
ImplementsNames == TableOfNames!Spec

\* The dm keys are a table of conversations: two users have one DM for ever, no
\* other two have it, and whoever of them creates it is told that one, once its
\* key is there ("DMs dedup via the dm:<a>:<b> key", conversations.go:20-22).
Meetings == {c \in Wanted : c.do = "create" /\ c.type = "dm"}
Pairs == {Participants(c) : c \in Meetings}
MeetingsOf(pair) == {c \in Meetings : Participants(c) = pair}
TableOfDMs == INSTANCE Table WITH
  Keys <- Pairs, entry <- dm, told <- [pair \in Pairs |-> Told(MeetingsOf(pair))]
ImplementsDMs == TableOfDMs!Spec

\* No ID is used twice: an account never becomes another's, a conversation
\* never another one, though hints lag and crashes fall between the entity
\* and the hint (counter.go:13-17).
IDsAreFresh ==
  [][ /\ \A u \in DOMAIN user : user'[u].name = user[u].name
      /\ \A c \in DOMAIN conv : conv'[c] = conv[c] /\ party'[c] = party[c] ]_vars

\* A profile edit changes the field it names and no other: concurrent PATCHes
\* of different fields both last (UpdateUser's read-modify-write).
EditsAreKept ==
  [][ \A u \in DOMAIN user : \A f \in Fields :
        user'[u][f] # user[u][f]
          => \E w \in Workers : pc[w] = "profile" /\ call[w].user = u /\ call[w].field = f ]_vars
=============================================================================

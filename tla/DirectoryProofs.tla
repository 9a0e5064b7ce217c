--------------------------- MODULE DirectoryProofs ---------------------------
(***************************************************************************)
(* Proofs about Directory, for any names, requests and goroutines, with    *)
(* puts failing and crashes anywhere: IDs are used once, names lead to     *)
(* accounts, and who is shown a conversation is a member of it.            *)
(***************************************************************************)
EXTENDS Directory, FiniteSetTheorems, TLAPS

-----------------------------------------------------------------------------
(* The inductive invariant.                                                *)

Profile(r) == DOMAIN r = {"name", "displayName", "status"} /\ r.name \in Names

Types ==
  /\ pc \in [Workers -> Labels]
  /\ call \in [Workers -> Wanted \cup {NoCall}]
  /\ id \in [Workers -> {0} \cup DOMAIN user \cup DOMAIN conv]
  /\ todo \in [Workers -> SUBSET DOMAIN user]
  /\ who \in [Workers -> {0} \cup DOMAIN user]
  /\ DOMAIN copy = Workers
  /\ mu \in [Mutexes -> Workers \cup {Nobody}]
  /\ hint \in [Kinds -> Nat] /\ next \in [Kinds -> Nat] /\ persisted = hint
  /\ calls \in 0..Retries

\* A goroutine's step fits its request, and it holds the mutex of that step.
Serves(w) ==
  /\ pc[w] # "idle" => call[w] \in Wanted
  /\ pc[w] \in {"register", "taken?", "user", "username", "count user"} => call[w].do = "register"
  /\ pc[w] \in {"edit", "read profile", "profile"}
       => call[w].do = "edit" /\ call[w].user \in DOMAIN user
  /\ pc[w] \in {"create", "existing?", "conv", "dm", "count conv"} => call[w].do = "create"
  /\ pc[w] \in {"member", "usermember"} => call[w].do \in {"create", "add"}
  /\ pc[w] # "idle" /\ call[w].do = "create" => Welcome(call[w])
HoldsMutex(w) ==
  /\ pc[w] \in {"taken?", "user", "username", "count user", "read profile", "profile"}
       => mu["regMu"] = w
  /\ pc[w] \in {"existing?", "conv", "member", "usermember", "dm", "count conv"}
     /\ call[w].do = "create"
       => mu["convMu"] = w
Control == \A w \in Workers : Serves(w) /\ HoldsMutex(w)

\* Counters are beyond every key, and the keys have a greatest one to recover from.
Keys(kind) == IF kind = "user" THEN DOMAIN user ELSE DOMAIN conv
Counted(kind) ==
  /\ hint[kind] < next[kind]
  /\ Keys(kind) \subseteq 1..(next[kind] - 1)
  /\ \E m \in Keys(kind) \cup {0} : \A n \in Keys(kind) : n <= m
Counters == \A kind \in Kinds : Counted(kind)

\* Requests that have still to take an ID.
Takers(kind) ==
  {w \in Workers : pc[w] \in IF kind = "user" THEN {"register", "taken?", "user"}
                                               ELSE {"create", "existing?", "conv"}}
Bounded ==
  \A kind \in Kinds :
    /\ IsFiniteSet(Takers(kind))
    /\ next[kind] + Cardinality(Takers(kind)) <= Cardinality(Accounts) + calls + 1

\* Accounts, their index, and what was answered about them.
Accounting ==
  /\ \A u \in DOMAIN user : Profile(user[u])
  /\ \A n \in DOMAIN username :
       n \in Names /\ username[n] \in DOMAIN user /\ user[username[n]].name = n
  /\ \A c \in DOMAIN answered :
       c.do = "register" => c.name \in DOMAIN username /\ answered[c] = {username[c.name]}
UserInHand(w) ==
  /\ pc[w] \in {"user", "username"} => call[w].name \notin DOMAIN username
  /\ pc[w] = "username" => id[w] \in DOMAIN user /\ user[id[w]].name = call[w].name
  /\ pc[w] = "count user"
       => call[w].name \in DOMAIN username /\ username[call[w].name] = id[w]
  /\ pc[w] = "profile" => copy[w] = user[call[w].user]

\* Conversations, their members, and what was answered about them.
Membership ==
  /\ DOMAIN party = DOMAIN conv
  /\ \A c \in DOMAIN conv : conv[c] \in {"dm", "group"}
  /\ member \subseteq (DOMAIN conv) \X (DOMAIN user)
  /\ \A m \in member : conv[m[1]] = "dm" => m[2] \in party[m[1]]
  /\ usermember \subseteq (DOMAIN user) \X (DOMAIN conv)
  /\ \A m \in usermember : <<m[2], m[1]>> \in member
MadeFor(pair, c) ==
  /\ Cardinality(pair) = 2
  /\ c \in DOMAIN conv
  /\ \A u \in pair : u \in DOMAIN user /\ <<c, u>> \in member /\ <<u, c>> \in usermember
DMs ==
  /\ \A pair \in DOMAIN dm : MadeFor(pair, dm[pair])
  /\ \A c \in DOMAIN answered :
       c.do = "create" /\ c.type = "dm"
         => Participants(c) \in DOMAIN dm /\ answered[c] = {dm[Participants(c)]}
ForDM(w) == call[w].do = "create" /\ call[w].type = "dm"
ConvInHand(w) ==
  /\ pc[w] \in {"create", "existing?", "conv"} => todo[w] = Participants(call[w])
  /\ pc[w] \in {"member", "usermember", "dm", "count conv"} =>
       /\ id[w] \in DOMAIN conv
       /\ call[w].do = "add" => conv[id[w]] = "group" /\ todo[w] \subseteq {call[w].user}
       /\ call[w].do = "create" =>
            /\ party[id[w]] = Participants(call[w])
            /\ todo[w] \subseteq Participants(call[w])
            /\ \A u \in Participants(call[w]) \ todo[w] :
                 /\ <<id[w], u>> \in member
                 /\ <<u, id[w]>> \in usermember \/ (pc[w] = "usermember" /\ u = who[w])
  /\ pc[w] = "usermember" => who[w] \in DOMAIN user /\ <<id[w], who[w]>> \in member
  /\ pc[w] \in {"dm", "count conv"} => todo[w] = {}
  /\ pc[w] = "dm" => call[w].type = "dm"
  /\ pc[w] \in {"conv", "member", "usermember", "dm"} /\ ForDM(w)
       => Participants(call[w]) \notin DOMAIN dm
  /\ pc[w] = "count conv" /\ ForDM(w)
       => Participants(call[w]) \in DOMAIN dm /\ dm[Participants(call[w])] = id[w]
InHand == \A w \in Workers : UserInHand(w) /\ ConvInHand(w)

\* With every step's goroutine where it should be, holding its mutex, and with
\* what it has in hand already true of the database, each key that is put next
\* finds those before it there: inductive, and no less than all the properties
\* of a state above (the write orders of CreateUser and CreateConversation).
IndInv == Types /\ Control /\ Counters /\ Bounded /\ Accounting /\ Membership /\ DMs /\ InHand

-----------------------------------------------------------------------------
\* A counter is opened beyond the hint and every key, and no further than it was.
LEMMA OpenedIsNext ==
  ASSUME NEW known \in Nat, NEW ids \in SUBSET Nat, NEW bound \in Nat, known < bound,
         \A n \in ids : n < bound,
         \E m \in ids \cup {0} : \A n \in ids : n <= m
  PROVE  /\ Opened(known, ids) \in Nat
         /\ known < Opened(known, ids) /\ Opened(known, ids) <= bound
         /\ \A n \in ids : n < Opened(known, ids)
<1> DEFINE S == {known} \cup {n \in ids : n > known}
<1>1. \E m \in S : \A n \in S : m >= n
  <2>1. PICK m \in ids \cup {0} : \A n \in ids : n <= m
    OBVIOUS
  <2>2. CASE m > known
    BY <2>1, <2>2
  <2>3. CASE ~(m > known)
    BY <2>1, <2>3
  <2> QED
    BY <2>2, <2>3
<1>2. Max(S) \in S /\ \A n \in S : Max(S) >= n
  BY <1>1 DEF Max
<1> HIDE DEF S
<1>3. Opened(known, ids) = Max(S) + 1
  BY DEF Opened, Recovered, S
<1>4. \A n \in S : n \in Nat /\ n < bound
  BY DEF S
<1>5. Max(S) \in Nat /\ Max(S) < bound
  BY <1>2, <1>4
<1>6. \A n \in ids : n \in S \/ n <= known
  BY DEF S
<1>7. known <= Max(S)
  BY <1>2 DEF S
<1>8. \A n \in ids : n < Max(S) + 1
  BY <1>2, <1>5, <1>6, <1>7
<1> QED
  BY <1>3, <1>5, <1>7, <1>8

LEMMA IndInvInit == Init => IndInv
<1> SUFFICES ASSUME Init PROVE IndInv
  OBVIOUS
<1> DEFINE N == Cardinality(Accounts)
<1>1. N \in Nat
  BY NamesAssumption, FS_CardinalityType
<1>2. hint \in [Kinds -> Nat] /\ hint["user"] = N /\ hint["conv"] = 0
  BY <1>1 DEF Init, Kinds
<1>3. next = [k \in Kinds |-> hint[k] + 1] /\ persisted = hint
  BY DEF Init
<1>4. DOMAIN NameOf = 1..N /\ DOMAIN user = 1..N /\ DOMAIN conv = {}
  BY NamesAssumption DEF Init, None
<1>5. Types
  BY <1>1, <1>2, <1>3, BoundsAssumption, NamesAssumption
     DEF Init, Types, Labels, Mutexes
<1>6. Control
  BY DEF Init, Control, Serves, HoldsMutex
<1>7. Counters
  BY <1>1, <1>2, <1>3, <1>4 DEF Counters, Counted, Keys, Kinds
<1>8. Bounded
  <2>1. \A kind \in Kinds : Takers(kind) = {}
    BY DEF Init, Takers
  <2> QED
    <3>1. \A kind \in Kinds : next[kind] <= N + 1 /\ next[kind] \in Nat
      BY <1>1, <1>2, <1>3 DEF Kinds
    <3>2. IsFiniteSet({}) /\ Cardinality({}) = 0 /\ calls = 0
      BY FS_EmptySet DEF Init
    <3> QED
      BY <1>1, <2>1, <3>1, <3>2 DEF Bounded
<1>9. Accounting
  BY <1>4, NamesAssumption DEF Init, Accounting, Profile, Blank, None
<1>10. Membership /\ DMs
  BY DEF Init, Membership, DMs, None
<1>11. InHand
  BY DEF Init, InHand, UserInHand, ConvInHand
<1> QED
  BY <1>5, <1>6, <1>7, <1>8, <1>9, <1>10, <1>11 DEF IndInv

-----------------------------------------------------------------------------
\* What is on disk stays: keys are added, and a key that is there keeps its
\* value, but for the fields of a profile.
Grows ==
  /\ DOMAIN user \subseteq DOMAIN user' /\ \A u \in DOMAIN user : user'[u].name = user[u].name
  /\ DOMAIN username \subseteq DOMAIN username'
  /\ \A n \in DOMAIN username : username'[n] = username[n]
  /\ DOMAIN conv \subseteq DOMAIN conv'
  /\ \A c \in DOMAIN conv : conv'[c] = conv[c] /\ party'[c] = party[c]
  /\ member \subseteq member' /\ usermember \subseteq usermember'
  /\ DOMAIN dm \subseteq DOMAIN dm' /\ \A pair \in DOMAIN dm : dm'[pair] = dm[pair]

\* Each put is of a key that is not there yet: IDs are new, and the mutex has
\* been held since the look-up of a name or a pair.
LEMMA Growth == IndInv /\ [Next]_vars => Grows
<1> SUFFICES ASSUME IndInv, [Next]_vars PROVE Grows
  OBVIOUS
<1>new. /\ next["user"] \notin DOMAIN user /\ next["conv"] \notin DOMAIN conv
        /\ DOMAIN party = DOMAIN conv
  BY DEF IndInv, Types, Counters, Counted, Keys, Kinds, Membership
<1>1. ASSUME NEW w \in Workers, PutUser(w)
      PROVE  Grows
  BY <1>1, <1>new DEF PutUser, Grows, Put, history
<1>2. ASSUME NEW w \in Workers, PutUsername(w)
      PROVE  Grows
  <2>1. call[w].name \notin DOMAIN username
    BY <1>2 DEF PutUsername, IndInv, InHand, UserInHand
  <2> QED
    BY <1>2, <2>1 DEF PutUsername, Grows, Put, history
<1>3. ASSUME NEW w \in Workers, PutProfile(w)
      PROVE  Grows
  <2>1. /\ copy[w] = user[call[w].user] /\ call[w].user \in DOMAIN user
        /\ Profile(copy[w]) /\ call[w].field # "name"
    <3>1. pc[w] = "profile" /\ UserInHand(w) /\ Serves(w)
      BY <1>3 DEF PutProfile, IndInv, InHand, Control
    <3>2. call[w] \in Wanted /\ call[w].do = "edit" /\ call[w].user \in DOMAIN user
      BY <3>1 DEF Serves
    <3>3. call[w].field \in Fields
      BY <3>2, WantedAssumption
    <3> QED
      BY <3>1, <3>2, <3>3 DEF UserInHand, IndInv, Accounting, Fields
  <2>2. CASE user' = [user EXCEPT ![call[w].user] =
                       [copy[w] EXCEPT ![call[w].field] = call[w].value]]
    <3>1. user'[call[w].user].name = copy[w].name
      BY <2>1, <2>2 DEF Profile
    <3> QED
      BY <1>3, <2>1, <2>2, <3>1 DEF PutProfile, Grows, history
  <2>3. CASE user' = user
    BY <1>3, <2>3 DEF PutProfile, Grows, history
  <2> QED
    BY <1>3, <2>2, <2>3 DEF PutProfile
<1>4. ASSUME NEW w \in Workers, PutConv(w)
      PROVE  Grows
  BY <1>4, <1>new DEF PutConv, Grows, Put, history
<1>5. ASSUME NEW w \in Workers, PutMember(w) \/ PutUserMember(w)
      PROVE  Grows
  BY <1>5 DEF PutMember, PutUserMember, Grows, history
<1>6. ASSUME NEW w \in Workers, PutDM(w)
      PROVE  Grows
  <2>1. Participants(call[w]) \notin DOMAIN dm
    BY <1>6 DEF PutDM, IndInv, InHand, ConvInHand, ForDM, Control, Serves
  <2> QED
    BY <1>6, <2>1 DEF PutDM, Grows, Put, history
<1>7. ASSUME UNCHANGED <<user, username, conv, member, usermember, dm, party>>
      PROVE  Grows
  BY <1>7 DEF Grows
<1>8. ASSUME NEW w \in Workers,
             \/ LockUsers(w) \/ LookUpName(w) \/ CountUser(w) \/ ReadProfile(w)
             \/ LockConvs(w) \/ LookUpDM(w) \/ CountConv(w)
      PROVE  Grows
  BY <1>8, <1>7 DEF LockUsers, LookUpName, CountUser, ReadProfile, LockConvs, LookUpDM,
     CountConv, Persist, Answer, disk, history
<1>9. ASSUME NEW w, NEW c, Register(w, c) \/ Edit(w, c) \/ Create(w, c) \/ Add(w, c)
      PROVE  Grows
  BY <1>9, <1>7 DEF Register, Edit, Create, Add, Begin, disk, history
<1>10. CASE Crash \/ UNCHANGED vars
  BY <1>10, <1>7 DEF Crash, vars, disk, history
<1> QED
  BY <1>1, <1>2, <1>3, <1>4, <1>5, <1>6, <1>8, <1>9, <1>10 DEF Next, Step

-----------------------------------------------------------------------------
\* What a goroutine is about, and what it has in hand.
Place(w) == Serves(w) /\ HoldsMutex(w) /\ UserInHand(w) /\ ConvInHand(w)
Requested(w) == \E c \in Wanted : Register(w, c) \/ Edit(w, c) \/ Create(w, c) \/ Add(w, c)

SameHand(v) ==
  /\ pc'[v] = pc[v] /\ call'[v] = call[v] /\ id'[v] = id[v]
  /\ todo'[v] = todo[v] /\ who'[v] = who[v] /\ copy'[v] = copy[v]
  /\ \A m \in Mutexes : mu[m] = v => mu'[m] = v

\* A step leaves the other goroutines where they are.
LEMMA OthersStay ==
  ASSUME Types, NEW w \in Workers, Step(w) \/ Requested(w), NEW v \in Workers \ {w}
  PROVE  SameHand(v)
<1> USE NamesAssumption DEF Types, SameHand, Goto, inhand, memory
<1>1. ASSUME Return(w)
      PROVE  SameHand(v)
  BY <1>1 DEF Return, Release, Forget
<1>2. CASE LockUsers(w) \/ LockConvs(w)
  <2>1. \A m \in Mutexes : mu[m] = v => mu'[m] = v
    <3>1. PICK x \in Mutexes : mu[x] = Nobody /\ mu' = [mu EXCEPT ![x] = w]
      BY <1>2 DEF LockUsers, LockConvs, Lock, Mutexes
    <3>2. mu[x] # v /\ DOMAIN mu = Mutexes
      BY <3>1
    <3> QED
      BY <3>1, <3>2
  <2>2. \E label : pc' = [pc EXCEPT ![w] = label]
    BY <1>2 DEF LockUsers, LockConvs
  <2>3. UNCHANGED <<call, id, todo, who, copy>>
    BY <1>2 DEF LockUsers, LockConvs
  <2> QED
    BY <2>1, <2>2, <2>3
<1>3. CASE LookUpName(w) \/ PutUser(w) \/ PutUsername(w)
  BY ZenonT(40), <1>3, <1>1 DEF LookUpName, PutUser, PutUsername
<1>4. CASE CountUser(w) \/ CountConv(w) \/ PutProfile(w)
  BY <1>4, <1>1 DEF CountUser, CountConv, PutProfile
<1>5. CASE ReadProfile(w)
  BY <1>5 DEF ReadProfile
<1>6. CASE LookUpDM(w) \/ PutConv(w) \/ PutDM(w)
  BY ZenonT(40), <1>6, <1>1 DEF LookUpDM, PutConv, PutDM
<1>7. CASE PutMember(w) \/ PutUserMember(w)
  BY <1>7, <1>1 DEF PutMember, PutUserMember
<1>8. CASE Requested(w)
  BY <1>8 DEF Requested, Register, Edit, Create, Add, Begin
<1> QED
  BY <1>2, <1>3, <1>4, <1>5, <1>6, <1>7, <1>8 DEF Step

\* Who keeps what it has in hand keeps its place, if what its mutex guards stays.
LEMMA PlaceKept ==
  ASSUME IndInv, Grows, NEW v \in Workers, SameHand(v),
         mu["regMu"] = v => UNCHANGED <<user, username>>,
         mu["convMu"] = v => UNCHANGED dm
  PROVE  Place(v)'
<1>0. Place(v) /\ DOMAIN party = DOMAIN conv
  BY DEF IndInv, Control, InHand, Place, Membership
<1>1. Serves(v)'
  BY <1>0 DEF Place, Serves, SameHand, Grows, Welcome, Participants
<1>2. HoldsMutex(v)'
  BY <1>0 DEF Place, HoldsMutex, SameHand, Mutexes
<1>3. UserInHand(v)'
  BY <1>0 DEF Place, UserInHand, HoldsMutex, SameHand, Grows
<1>4. ConvInHand(v)'
  BY ZenonT(40), <1>0 DEF Place, ConvInHand, HoldsMutex, Serves, SameHand, Grows, Participants, ForDM
<1> QED
  BY <1>1, <1>2, <1>3, <1>4 DEF Place

\* A step leaves its goroutine in a place it fits: one lemma for the steps that
\* return, and one for each part.
LEMMA ReturnFits ==
  ASSUME Types, NEW w \in Workers, Return(w)
  PROVE  Place(w)' /\ pc'[w] = "idle"
<1>1. pc'[w] = "idle"
  BY DEF Types, Return, Forget, Goto
<1> QED
  BY <1>1 DEF Place, Serves, HoldsMutex, UserInHand, ConvInHand

LEMMA RequestFits ==
  ASSUME IndInv, NEW w \in Workers, Requested(w)
  PROVE  Place(w)'
<1> USE DEF Begin, Goto, disk, memory, history
<1>0. Types
  BY DEF IndInv
<1>1. PICK c \in Wanted : Register(w, c) \/ Edit(w, c) \/ Create(w, c) \/ Add(w, c)
  BY DEF Requested
<1>2. call'[w] = c
  BY <1>0, <1>1 DEF Types, Register, Edit, Create, Add
<1>3. CASE Register(w, c)
  <2>1. pc'[w] = "register" /\ c.do = "register"
    BY <1>0, <1>3 DEF Types, Register
  <2> QED
    BY <1>2, <2>1 DEF Place, Serves, HoldsMutex, UserInHand, ConvInHand
<1>4. CASE Edit(w, c)
  <2>1. pc'[w] = "edit" /\ c.do = "edit" /\ c.user \in DOMAIN user'
    BY <1>0, <1>4 DEF Types, Edit
  <2> QED
    BY <1>2, <2>1 DEF Place, Serves, HoldsMutex, UserInHand, ConvInHand
<1>5. CASE Create(w, c)
  <2>1. /\ pc'[w] = "create" /\ c.do = "create" /\ Welcome(c)'
        /\ todo'[w] = Participants(c)
    BY <1>0, <1>5 DEF Types, Create, Welcome
  <2> QED
    BY <1>2, <2>1 DEF Place, Serves, HoldsMutex, UserInHand, ConvInHand, Welcome, Participants
<1>6. CASE Add(w, c)
  <2>1. /\ pc'[w] = "member" /\ c.do = "add" /\ id'[w] = c.conv /\ todo'[w] = {c.user}
        /\ c.conv \in DOMAIN conv' /\ conv'[c.conv] = "group"
    BY <1>0, <1>6 DEF Types, Add, RequireMember, MayAdd
  <2> QED
    BY <1>2, <2>1 DEF Place, Serves, HoldsMutex, UserInHand, ConvInHand, ForDM
<1> QED
  BY <1>1, <1>3, <1>4, <1>5, <1>6

LEMMA StepFits ==
  ASSUME IndInv, NEW w \in Workers, Step(w)
  PROVE  Place(w)'
<1> USE DEF Goto, disk, memory, history
<1>0. Types /\ Place(w) /\ Membership /\ DMs
  BY DEF IndInv, Control, InHand, Place
<1>ret. ASSUME Return(w)
        PROVE  Place(w)'
  BY <1>0, <1>ret, ReturnFits
<1>1. CASE LockUsers(w)
  <2>1. /\ \/ pc[w] = "register" /\ pc'[w] = "taken?"
           \/ pc[w] = "edit" /\ pc'[w] = "read profile"
        /\ mu'["regMu"] = w
        /\ UNCHANGED <<call, user>>
    BY <1>0, <1>1 DEF Types, LockUsers, Lock, Mutexes
  <2> QED
    BY <1>0, <2>1 DEF Place, Serves, HoldsMutex, UserInHand, ConvInHand, Welcome, Participants
<1>2. CASE LookUpName(w)
  <2>1. CASE call[w].name \notin DOMAIN username
    <3>1. pc[w] = "taken?" /\ pc'[w] = "user" /\ UNCHANGED <<call, user, username, mu>>
      BY <1>0, <1>2, <2>1 DEF Types, LookUpName
    <3> QED
      BY <1>0, <2>1, <3>1 DEF Place, Serves, HoldsMutex, UserInHand, ConvInHand, Welcome, Participants
  <2> QED
    BY <1>2, <1>ret, <2>1 DEF LookUpName
<1>3. CASE PutUser(w)
  <2>1. CASE ~Return(w)
    <3>1. /\ pc[w] = "user" /\ pc'[w] = "username"
          /\ UNCHANGED <<call, username, mu>>
          /\ user' = Put(user, next.user, [Blank EXCEPT !.name = call[w].name])
          /\ id'[w] = next.user
      BY <1>0, <1>3, <2>1 DEF Types, PutUser
    <3> QED
      BY <1>0, <3>1 DEF Place, Serves, HoldsMutex, UserInHand, ConvInHand, Put, Blank
  <2> QED
    BY <1>3, <1>ret, <2>1 DEF PutUser
<1>4. CASE PutUsername(w)
  <2>1. CASE ~Return(w)
    <3>1. /\ pc[w] = "username" /\ pc'[w] = "count user"
          /\ UNCHANGED <<call, user, mu>> /\ id'[w] = id[w]
          /\ username' = Put(username, call[w].name, id[w])
      BY <1>0, <1>4, <2>1 DEF Types, PutUsername
    <3> QED
      BY <1>0, <3>1 DEF Place, Serves, HoldsMutex, UserInHand, ConvInHand, Put
  <2> QED
    BY <1>4, <1>ret, <2>1 DEF PutUsername
<1>5. CASE CountUser(w) \/ CountConv(w) \/ PutProfile(w)
  BY <1>5, <1>ret DEF CountUser, CountConv, PutProfile
<1>6. CASE ReadProfile(w)
  <2>1. /\ pc[w] = "read profile" /\ pc'[w] = "profile" /\ UNCHANGED <<call, user, mu>>
        /\ copy'[w] = user[call[w].user]
    BY <1>0, <1>6 DEF Types, ReadProfile
  <2> QED
    BY <1>0, <2>1 DEF Place, Serves, HoldsMutex, UserInHand, ConvInHand
<1>7. CASE LockConvs(w)
  <2>1. /\ pc[w] = "create" /\ mu'["convMu"] = w
        /\ pc'[w] = IF call[w].type = "dm" THEN "existing?" ELSE "conv"
        /\ UNCHANGED <<call, user, todo>>
    BY <1>0, <1>7 DEF Types, LockConvs, Lock, Mutexes
  <2> QED
    BY <1>0, <2>1 DEF Place, Serves, HoldsMutex, UserInHand, ConvInHand, Welcome, Participants, ForDM
<1>8. CASE LookUpDM(w)
  <2>1. CASE Participants(call[w]) \notin DOMAIN dm
    <3>1. /\ pc[w] = "existing?" /\ pc'[w] = "conv"
          /\ UNCHANGED <<call, user, todo, mu, dm>>
      BY <1>0, <1>8, <2>1 DEF Types, LookUpDM
    <3> QED
      BY <1>0, <2>1, <3>1
         DEF Place, Serves, HoldsMutex, UserInHand, ConvInHand, Welcome, Participants, ForDM
  <2> QED
    BY <1>8, <1>ret, <2>1 DEF LookUpDM
<1>9. CASE PutConv(w)
  <2>1. CASE ~Return(w)
    <3>1. /\ pc[w] = "conv" /\ pc'[w] = "member" /\ UNCHANGED <<call, user, todo, mu, dm>>
          /\ id'[w] = next.conv
          /\ conv' = Put(conv, next.conv, call[w].type)
          /\ party' = Put(party, next.conv, Participants(call[w]))
      BY <1>0, <1>9, <2>1 DEF Types, PutConv
    <3>2. /\ next.conv \in DOMAIN conv' /\ party'[next.conv] = Participants(call[w])
      BY <3>1 DEF Put
    <3>3. call[w].do = "create" /\ call'[w] = call[w]
      BY <1>0, <3>1 DEF Place, Serves
    <3> QED
      BY <1>0, <3>1, <3>2, <3>3
         DEF Place, Serves, HoldsMutex, UserInHand, ConvInHand, Welcome, Participants, ForDM
  <2> QED
    BY <1>9, <1>ret, <2>1 DEF PutConv
<1>10. CASE PutMember(w)
  <2>1. CASE ~Return(w)
    <3>1. PICK u \in todo[w] :
            /\ pc[w] = "member" /\ pc'[w] = "usermember"
            /\ member' = member \cup {<<id[w], u>>}
            /\ who'[w] = u /\ todo'[w] = todo[w] \ {u} /\ id'[w] = id[w]
            /\ UNCHANGED <<call, user, conv, party, usermember, mu, dm>>
      BY <1>0, <1>10, <2>1 DEF Types, PutMember
    <3> QED
      BY <1>0, <3>1
         DEF Types, Place, Serves, HoldsMutex, UserInHand, ConvInHand, Welcome, Participants, ForDM
  <2> QED
    BY <1>10, <1>ret, <2>1 DEF PutMember
<1>11. CASE PutUserMember(w)
  <2>1. CASE ~Return(w)
    <3>1. /\ pc[w] = "usermember"
          /\ usermember' = usermember \cup {<<who[w], id[w]>>}
          /\ pc'[w] = IF todo[w] = {} THEN AfterMembers(w) ELSE "member"
          /\ ~(todo[w] = {} /\ AfterMembers(w) = "added")
          /\ UNCHANGED <<call, user, conv, party, member, mu, dm, id, todo, who>>
      BY <1>0, <1>11, <2>1 DEF Types, PutUserMember
    <3>2. call[w].do = "create" \/ (call[w].do = "add" /\ pc'[w] = "member")
      BY <1>0, <3>1 DEF Place, Serves, AfterMembers
    <3> QED
      BY <1>0, <3>1, <3>2 DEF Place, Serves, HoldsMutex, UserInHand, ConvInHand, Welcome, Participants,
         ForDM, AfterMembers
  <2> QED
    BY <1>11, <1>ret, <2>1 DEF PutUserMember
<1>12. CASE PutDM(w)
  <2>1. CASE ~Return(w)
    <3>1. /\ pc[w] = "dm" /\ pc'[w] = "count conv"
          /\ UNCHANGED <<call, user, conv, party, member, usermember, mu, id, todo>>
          /\ dm' = Put(dm, Participants(call[w]), id[w])
      BY <1>0, <1>12, <2>1 DEF Types, PutDM
    <3> QED
      BY <1>0, <3>1
         DEF Place, Serves, HoldsMutex, UserInHand, ConvInHand, Welcome, Participants, ForDM, Put
  <2> QED
    BY <1>12, <1>ret, <2>1 DEF PutDM
<1> QED
  BY <1>1, <1>2, <1>3, <1>4, <1>5, <1>6, <1>7, <1>8, <1>9, <1>10, <1>11, <1>12 DEF Step

\* What a mutex guards, only its holder changes.
LEMMA GuardedStays ==
  ASSUME IndInv, NEW w \in Workers, Step(w) \/ Requested(w), NEW v \in Workers \ {w}
  PROVE  /\ mu["regMu"] = v => UNCHANGED <<user, username>>
         /\ mu["convMu"] = v => UNCHANGED dm
<1>0. Serves(w) /\ HoldsMutex(w)
  BY DEF IndInv, Control
<1>1. CASE PutUser(w) \/ PutUsername(w) \/ PutProfile(w)
  BY <1>0, <1>1 DEF PutUser, PutUsername, PutProfile, HoldsMutex
<1>2. CASE PutDM(w)
  BY <1>0, <1>2 DEF PutDM, HoldsMutex, Serves
<1>3. CASE PutConv(w) \/ PutMember(w) \/ PutUserMember(w)
  BY <1>3 DEF PutConv, PutMember, PutUserMember
<1>4. CASE \/ LockUsers(w) \/ LookUpName(w) \/ CountUser(w) \/ ReadProfile(w)
           \/ LockConvs(w) \/ LookUpDM(w) \/ CountConv(w)
  BY <1>4 DEF LockUsers, LookUpName, CountUser, ReadProfile, LockConvs, LookUpDM, CountConv,
     disk
<1>5. CASE Requested(w)
  BY <1>5 DEF Requested, Register, Edit, Create, Add, Begin, disk
<1> QED
  BY <1>1, <1>2, <1>3, <1>4, <1>5 DEF Step

\* A goroutine that is in its place stays there, whoever steps.
LEMMA PlacesKept == IndInv /\ [Next]_vars => Control' /\ InHand'
<1> SUFFICES ASSUME IndInv, [Next]_vars, NEW v \in Workers PROVE Place(v)'
  BY DEF Control, InHand, Place
<1>1. Grows
  BY Growth
<1>2. ASSUME NEW w \in Workers, Step(w) \/ Requested(w)
      PROVE  Place(v)'
  <2>1. CASE v = w
    BY <1>2, <2>1, StepFits, RequestFits
  <2>2. CASE v # w
    <3>1. SameHand(v)
      BY <1>2, <2>2, OthersStay DEF IndInv
    <3>2. /\ mu["regMu"] = v => UNCHANGED <<user, username>>
          /\ mu["convMu"] = v => UNCHANGED dm
      BY <1>2, <2>2, GuardedStays
    <3> QED
      BY <1>1, <3>1, <3>2, PlaceKept
  <2> QED
    BY <2>1, <2>2
<1>3. CASE Crash
  BY <1>3 DEF Crash, Place, Serves, HoldsMutex, UserInHand, ConvInHand
<1>4. CASE UNCHANGED vars
  <2>1. SameHand(v) /\ UNCHANGED <<user, username, dm>>
    BY <1>4 DEF vars, SameHand, disk, memory, inhand
  <2> QED
    BY <1>1, <2>1, PlaceKept
<1> QED
  BY <1>2, <1>3, <1>4 DEF Next, Requested

-----------------------------------------------------------------------------
\* Each part of the invariant is kept by every step.

\* A restart opens each counter beyond its hint and its keys, and no further
\* than the process before it had come.
LEMMA CrashCounters ==
  ASSUME IndInv, Crash
  PROVE  /\ next' \in [Kinds -> Nat]
         /\ \A kind \in Kinds : /\ hint'[kind] < next'[kind] /\ next'[kind] <= next[kind]
                                /\ Keys(kind) \subseteq 1..(next'[kind] - 1)
<1>1. ASSUME NEW kind \in Kinds
      PROVE  /\ Opened(hint[kind], Keys(kind)) \in Nat
             /\ hint[kind] < Opened(hint[kind], Keys(kind))
             /\ Opened(hint[kind], Keys(kind)) <= next[kind]
             /\ Keys(kind) \subseteq 1..(Opened(hint[kind], Keys(kind)) - 1)
  <2>1. /\ hint[kind] \in Nat /\ next[kind] \in Nat /\ hint[kind] < next[kind]
        /\ Keys(kind) \subseteq 1..(next[kind] - 1)
        /\ \E m \in Keys(kind) \cup {0} : \A n \in Keys(kind) : n <= m
    BY DEF IndInv, Types, Counters, Counted
  <2>2. \A n \in Keys(kind) : n \in Nat \ {0} /\ n < next[kind]
    BY <2>1
  <2>3. Keys(kind) \in SUBSET Nat
    BY <2>2
  <2>4. /\ Opened(hint[kind], Keys(kind)) \in Nat
        /\ hint[kind] < Opened(hint[kind], Keys(kind))
        /\ Opened(hint[kind], Keys(kind)) <= next[kind]
        /\ \A n \in Keys(kind) : n < Opened(hint[kind], Keys(kind))
    BY <2>1, <2>2, <2>3, OpenedIsNext
  <2>5. Keys(kind) \subseteq 1..(Opened(hint[kind], Keys(kind)) - 1)
    BY <2>2, <2>4
  <2> QED
    BY <2>4, <2>5
<1>2. /\ next' = [user |-> Opened(hint["user"], Keys("user")),
                  conv |-> Opened(hint["conv"], Keys("conv"))]
      /\ hint' = hint
  BY DEF Crash, Keys, disk
<1> QED
  BY <1>1, <1>2 DEF Kinds

LEMMA TypesKept == IndInv /\ [Next]_vars => Types'
<1> SUFFICES ASSUME IndInv, [Next]_vars PROVE Types'
  OBVIOUS
<1> USE NamesAssumption DEF Types, Goto, disk, memory, inhand, history, Works
<1>0. Types /\ Grows /\ calls \in Nat
  BY Growth, BoundsAssumption DEF IndInv
<1>1. ASSUME UNCHANGED <<next, persisted, hint>>
      PROVE  hint' \in [Kinds -> Nat] /\ next' \in [Kinds -> Nat] /\ persisted' = hint'
  BY <1>0, <1>1
<1>2. ASSUME NEW w \in Workers, Return(w), UNCHANGED calls,
             hint' \in [Kinds -> Nat] /\ next' \in [Kinds -> Nat] /\ persisted' = hint'
      PROVE  Types'
  <2>1. mu' \in [Mutexes -> Workers \cup {Nobody}]
    BY <1>0, <1>2 DEF Return, Release
  <2>2. pc' \in [Workers -> Labels] /\ call' \in [Workers -> Wanted \cup {NoCall}]
    BY <1>0, <1>2 DEF Return, Forget, Labels
  <2>3. /\ id' \in [Workers -> {0} \cup DOMAIN user' \cup DOMAIN conv']
        /\ todo' \in [Workers -> SUBSET DOMAIN user']
        /\ who' \in [Workers -> {0} \cup DOMAIN user']
        /\ DOMAIN copy' = Workers
    BY <1>0, <1>2 DEF Return, Forget, Grows
  <2> QED
    BY <1>0, <1>2, <2>1, <2>2, <2>3
<1>3. ASSUME NEW w \in Workers, NEW label \in Labels, Goto(w, label),
             UNCHANGED <<call, calls>>,
             mu' \in [Mutexes -> Workers \cup {Nobody}],
             hint' \in [Kinds -> Nat] /\ next' \in [Kinds -> Nat] /\ persisted' = hint',
             id' \in [Workers -> {0} \cup DOMAIN user' \cup DOMAIN conv'],
             todo' \in [Workers -> SUBSET DOMAIN user'],
             who' \in [Workers -> {0} \cup DOMAIN user'],
             DOMAIN copy' = Workers
      PROVE  Types'
  BY <1>0, <1>3
<1>4. ASSUME UNCHANGED <<id, todo, who, copy>>
      PROVE  /\ id' \in [Workers -> {0} \cup DOMAIN user' \cup DOMAIN conv']
             /\ todo' \in [Workers -> SUBSET DOMAIN user']
             /\ who' \in [Workers -> {0} \cup DOMAIN user']
             /\ DOMAIN copy' = Workers
  BY <1>0, <1>4 DEF Grows
<1>5. ASSUME NEW w \in Workers, LockUsers(w) \/ LockConvs(w)
      PROVE  Types'
  <2>1. mu' \in [Mutexes -> Workers \cup {Nobody}]
    <3>1. PICK m \in Mutexes : mu' = [mu EXCEPT ![m] = w]
      BY <1>5 DEF LockUsers, LockConvs, Lock, Mutexes
    <3> QED
      BY <1>0, <3>1
  <2>2. \E label \in Labels : Goto(w, label)
    BY <1>5 DEF LockUsers, LockConvs, Labels
  <2> QED
    BY <1>1, <1>3, <1>4, <1>5, <2>1, <2>2 DEF LockUsers, LockConvs
<1>6. ASSUME NEW w \in Workers, LookUpName(w) \/ LookUpDM(w)
      PROVE  Types'
  <2>1. UNCHANGED <<next, persisted, hint, calls>>
    BY <1>6 DEF LookUpName, LookUpDM
  <2>2. CASE ~Return(w)
    <3>1. UNCHANGED <<mu, call, id, todo, who, copy>>
      BY <1>6, <2>2 DEF LookUpName, LookUpDM
    <3>2. \E label \in Labels : Goto(w, label)
      BY <1>6, <2>2 DEF LookUpName, LookUpDM, Labels
    <3> QED
      BY <1>0, <1>1, <1>3, <1>4, <2>1, <3>1, <3>2
  <2> QED
    BY <1>1, <1>2, <2>1, <2>2
<1>7. ASSUME NEW w \in Workers, PutUser(w) \/ PutConv(w)
      PROVE  Types'
  <2>1. hint' \in [Kinds -> Nat] /\ next' \in [Kinds -> Nat] /\ persisted' = hint'
    BY <1>0, <1>7 DEF PutUser, PutConv, Alloc, Kinds
  <2>2. CASE ~Return(w)
    <3>1. /\ UNCHANGED <<mu, call, todo, who, copy, calls>>
          /\ \E label \in Labels : Goto(w, label)
      BY <1>7, <2>2 DEF PutUser, PutConv, Labels
    <3>2. \E n \in DOMAIN user' \cup DOMAIN conv' : id' = [id EXCEPT ![w] = n]
      BY <1>7, <2>2 DEF PutUser, PutConv, Put
    <3>3. id' \in [Workers -> {0} \cup DOMAIN user' \cup DOMAIN conv']
      BY <1>0, <3>2 DEF Grows
    <3>4. /\ todo' \in [Workers -> SUBSET DOMAIN user']
          /\ who' \in [Workers -> {0} \cup DOMAIN user']
          /\ DOMAIN copy' = Workers
      BY <1>0, <3>1 DEF Grows
    <3> QED
      BY <1>0, <1>3, <2>1, <3>1, <3>3, <3>4
  <2> QED
    BY <1>2, <1>7, <2>1, <2>2 DEF PutUser, PutConv
<1>8. ASSUME NEW w \in Workers, PutUsername(w) \/ PutDM(w) \/ PutUserMember(w)
      PROVE  Types'
  <2>1. UNCHANGED <<next, persisted, hint, calls>>
    BY <1>8 DEF PutUsername, PutDM, PutUserMember
  <2>2. CASE ~Return(w)
    <3>1. UNCHANGED <<mu, call, id, todo, who, copy>>
      BY <1>8, <2>2 DEF PutUsername, PutDM, PutUserMember
    <3>2. \E label \in Labels : Goto(w, label)
      BY <1>8, <2>2 DEF PutUsername, PutDM, PutUserMember, AfterMembers, Labels
    <3> QED
      BY <1>0, <1>1, <1>3, <1>4, <2>1, <3>1, <3>2
  <2> QED
    BY <1>1, <1>2, <2>1, <2>2
<1>9. ASSUME NEW w \in Workers, CountUser(w) \/ CountConv(w)
      PROVE  Types'
  <2>1. id[w] \in Nat
    BY <1>0 DEF IndInv, Counters, Counted, Keys, Kinds
  <2>2. PICK kind \in Kinds : Persist(w, kind)
    BY <1>9 DEF CountUser, CountConv, Kinds
  <2>3. hint' \in [Kinds -> Nat] /\ persisted' = hint'
    BY ZenonT(40), <1>0, <2>1, <2>2 DEF Persist
  <2> QED
    BY <1>0, <1>2, <1>9, <2>3 DEF CountUser, CountConv
<1>10. ASSUME NEW w \in Workers, PutProfile(w)
       PROVE  Types'
  BY <1>1, <1>2, <1>10 DEF PutProfile
<1>11. ASSUME NEW w \in Workers, ReadProfile(w)
       PROVE  Types'
  <2>1. /\ DOMAIN copy' = Workers /\ Goto(w, "profile")
        /\ UNCHANGED <<mu, call, id, todo, who, calls, user, conv, hint, next, persisted>>
    BY <1>0, <1>11 DEF ReadProfile
  <2>2. pc' \in [Workers -> Labels]
    BY <1>0, <2>1 DEF Labels
  <2> HIDE DEF Goto
  <2> QED
    BY <1>0, <2>1, <2>2
<1>12. ASSUME NEW w \in Workers, PutMember(w)
       PROVE  Types'
  <2>1. UNCHANGED <<next, persisted, hint, calls>>
    BY <1>12 DEF PutMember
  <2>2. CASE ~Return(w)
    <3>1. PICK u \in todo[w] : /\ who' = [who EXCEPT ![w] = u]
                               /\ todo' = [todo EXCEPT ![w] = @ \ {u}]
      BY <1>12, <2>2 DEF PutMember
    <3>2. UNCHANGED <<mu, call, id, copy>> /\ Goto(w, "usermember")
      BY <1>12, <2>2 DEF PutMember
    <3>3. /\ id' \in [Workers -> {0} \cup DOMAIN user' \cup DOMAIN conv']
          /\ todo' \in [Workers -> SUBSET DOMAIN user']
          /\ who' \in [Workers -> {0} \cup DOMAIN user']
      BY <1>0, <3>1, <3>2 DEF Grows
    <3> QED
      BY <1>0, <1>1, <1>3, <2>1, <3>2, <3>3 DEF Labels
  <2> QED
    BY <1>1, <1>2, <2>1, <2>2
<1>13. ASSUME NEW w \in Workers, Requested(w)
       PROVE  Types'
  <2>1. PICK c \in Wanted : Register(w, c) \/ Edit(w, c) \/ Create(w, c) \/ Add(w, c)
    BY <1>13 DEF Requested
  <2>2. calls' \in 0..Retries
    BY <1>0, <2>1, BoundsAssumption DEF Register, Edit, Create, Add, Begin
  <2>3. /\ call' = [call EXCEPT ![w] = c] /\ \E label \in Labels : Goto(w, label)
        /\ UNCHANGED <<who, copy, mu, hint, next, persisted, user, conv>>
    BY <2>1 DEF Register, Edit, Create, Add, Begin, Labels
  <2>4. id' = id \/ \E n \in DOMAIN conv : id' = [id EXCEPT ![w] = n]
    BY <2>1 DEF Register, Edit, Create, Add, RequireMember, MayAdd
  <2>5. todo' = todo \/ \E T \in SUBSET DOMAIN user : todo' = [todo EXCEPT ![w] = T]
    BY <2>1 DEF Register, Edit, Create, Add, RequireMember, MayAdd, Welcome
  <2>6. id' \in [Workers -> {0} \cup DOMAIN user' \cup DOMAIN conv']
    BY <1>0, <2>3, <2>4
  <2>7. todo' \in [Workers -> SUBSET DOMAIN user']
    BY <1>0, <2>3, <2>5
  <2>8. pc' \in [Workers -> Labels] /\ call' \in [Workers -> Wanted \cup {NoCall}]
    BY <1>0, <2>3
  <2> QED
    BY <1>0, <2>2, <2>3, <2>6, <2>7, <2>8
<1>14. CASE Crash
  <2>1. next' \in [Kinds -> Nat] /\ hint' = hint /\ persisted' = hint
    BY <1>14, CrashCounters DEF Crash
  <2> QED
    BY <1>0, <1>14, <2>1 DEF Crash, Labels
<1>15. CASE UNCHANGED vars
  BY <1>0, <1>15 DEF vars
<1> QED
  BY <1>5, <1>6, <1>7, <1>8, <1>9, <1>10, <1>11, <1>12, <1>13, <1>14, <1>15
     DEF Next, Step, Requested

\* The steps that count, take an ID, or do neither.
Counting(w) == CountUser(w) \/ CountConv(w)
Taking(w) == PutUser(w) \/ PutConv(w)
Plain(w) ==
  \/ LockUsers(w) \/ LookUpName(w) \/ PutUsername(w) \/ ReadProfile(w) \/ PutProfile(w)
  \/ LockConvs(w) \/ LookUpDM(w) \/ PutMember(w) \/ PutUserMember(w) \/ PutDM(w)

LEMMA PlainStep ==
  ASSUME NEW w, Plain(w) \/ Requested(w)
  PROVE  UNCHANGED <<hint, next, conv, party>>
<1>1. CASE Requested(w)
  BY <1>1 DEF Requested, Register, Edit, Create, Add, Begin, disk, memory, history
<1>2. CASE LockUsers(w) \/ LookUpName(w) \/ ReadProfile(w) \/ LockConvs(w) \/ LookUpDM(w)
  BY <1>2 DEF LockUsers, LookUpName, ReadProfile, LockConvs, LookUpDM, Answer,
     disk, memory, history
<1>3. CASE PutUsername(w) \/ PutProfile(w) \/ PutMember(w) \/ PutUserMember(w) \/ PutDM(w)
  BY <1>3 DEF PutUsername, PutProfile, PutMember, PutUserMember, PutDM, history
<1> QED
  BY <1>1, <1>2, <1>3 DEF Plain

LEMMA CountersKept == IndInv /\ [Next]_vars => Counters'
<1> SUFFICES ASSUME IndInv, [Next]_vars PROVE Counters'
  OBVIOUS
<1>0. /\ Types /\ \A kind \in Kinds : Counted(kind) /\ hint[kind] \in Nat /\ next[kind] \in Nat
  BY DEF IndInv, Counters, Types
<1>1. ASSUME NEW kind \in Kinds,
             hint'[kind] \in Nat /\ hint'[kind] < next[kind],
             \/ Keys(kind)' = Keys(kind) /\ next'[kind] \in {next[kind], next[kind] + 1}
             \/ Keys(kind)' = Keys(kind) \cup {next[kind]} /\ next'[kind] = next[kind] + 1
      PROVE  Counted(kind)'
  <2>1. Keys(kind) \subseteq 1..(next[kind] - 1) /\ next[kind] \in Nat \ {0}
    BY <1>0, <1>1 DEF Counted
  <2>2. Keys(kind)' \subseteq 1..(next'[kind] - 1) /\ hint'[kind] < next'[kind]
    BY <1>1, <2>1
  <2>3. \E m \in Keys(kind)' \cup {0} : \A n \in Keys(kind)' : n <= m
    <3>1. CASE Keys(kind)' = Keys(kind)
      BY <1>0, <3>1 DEF Counted
    <3>2. CASE Keys(kind)' = Keys(kind) \cup {next[kind]}
      BY <2>1, <3>2
    <3> QED
      BY <1>1, <3>1, <3>2
  <2> QED
    BY <2>2, <2>3 DEF Counted
<1>2. ASSUME UNCHANGED <<next, hint, conv>>, DOMAIN user' = DOMAIN user
      PROVE  Counters'
  <2>1. \A kind \in Kinds : Keys(kind)' = Keys(kind)
    BY <1>2 DEF Keys
  <2> QED
    BY <1>0, <1>2, <2>1 DEF Counters, Counted
<1>3. ASSUME NEW w \in Workers, Counting(w)
      PROVE  Counters'
  <2>1. PICK kind \in Kinds : pc[w] = (IF kind = "user" THEN "count user" ELSE "count conv")
                             /\ Persist(w, kind)
    BY <1>3 DEF Counting, CountUser, CountConv, Kinds
  <2>2. id[w] \in Keys(kind)
    BY ZenonT(60), <2>1 DEF IndInv, InHand, UserInHand, ConvInHand, Accounting, Keys, Kinds
  <2>3. id[w] \in Nat /\ id[w] < next[kind]
    BY <1>0, <2>2 DEF Counted
  <2>4. \A k \in Kinds : hint'[k] \in Nat /\ hint'[k] < next[k]
    BY <1>0, <2>1, <2>3 DEF Persist, Counted, Types
  <2>5. UNCHANGED <<next, user, conv>>
    BY <1>3 DEF Counting, CountUser, CountConv
  <2>6. \A k \in Kinds : Keys(k)' = Keys(k)
    BY <2>5 DEF Keys
  <2> QED
    BY <1>1, <2>4, <2>5, <2>6 DEF Counters
<1>4. ASSUME NEW w \in Workers, Taking(w)
      PROVE  Counters'
  <2>1. PICK kind \in Kinds :
          /\ next' = [next EXCEPT ![kind] = @ + 1]
          /\ Keys(kind)' = Keys(kind) \/ Keys(kind)' = Keys(kind) \cup {next[kind]}
          /\ \A k \in Kinds \ {kind} : Keys(k)' = Keys(k)
    <3>1. CASE PutUser(w)
      BY <3>1 DEF PutUser, Alloc, Keys, Kinds, Put
    <3>2. CASE PutConv(w)
      BY <3>2 DEF PutConv, Alloc, Keys, Kinds, Put
    <3> QED
      BY <1>4, <3>1, <3>2 DEF Taking
  <2>2. hint' = hint
    BY <1>4 DEF Taking, PutUser, PutConv
  <2>3. \A k \in Kinds : hint'[k] \in Nat /\ hint'[k] < next[k]
    BY <1>0, <2>2 DEF Counted
  <2>4. next'[kind] = next[kind] + 1 /\ \A k \in Kinds \ {kind} : next'[k] = next[k]
    BY <1>0, <2>1 DEF Types
  <2>5. ASSUME NEW k \in Kinds
        PROVE  Counted(k)'
    <3>1. CASE k = kind
      BY <1>1, <2>1, <2>3, <2>4, <3>1
    <3>2. CASE k # kind
      BY <1>1, <2>1, <2>3, <2>4, <3>2
    <3> QED
      BY <3>1, <3>2
  <2> QED
    BY <2>5 DEF Counters
<1>5. ASSUME NEW w \in Workers, Plain(w) \/ Requested(w)
      PROVE  Counters'
  <2>1. UNCHANGED <<hint, next, conv>>
    BY <1>5, PlainStep
  <2>2. CASE Requested(w)
    BY <1>2, <2>1, <2>2 DEF Requested, Register, Edit, Create, Add, Begin, disk
  <2>3. CASE LockUsers(w) \/ LookUpName(w) \/ ReadProfile(w) \/ LockConvs(w) \/ LookUpDM(w)
    BY <1>2, <2>1, <2>3 DEF LockUsers, LookUpName, ReadProfile, LockConvs, LookUpDM, disk
  <2>4. CASE PutUsername(w) \/ PutProfile(w) \/ PutMember(w) \/ PutUserMember(w) \/ PutDM(w)
    <3>1. DOMAIN user' = DOMAIN user
      BY <2>4 DEF PutUsername, PutProfile, PutMember, PutUserMember, PutDM
    <3> QED
      BY <1>2, <2>1, <3>1
  <2> QED
    BY <1>5, <2>2, <2>3, <2>4 DEF Plain
<1>6. CASE Crash
  <2>1. \A kind \in Kinds : Keys(kind)' = Keys(kind)
    BY <1>6 DEF Crash, Keys, disk
  <2> QED
    BY <1>0, <1>6, <2>1, CrashCounters DEF Counters, Counted
<1>7. CASE UNCHANGED vars
  BY <1>2, <1>7 DEF vars, disk, memory
<1> QED
  BY <1>3, <1>4, <1>5, <1>6, <1>7 DEF Next, Step, Requested, Counting, Taking, Plain

-----------------------------------------------------------------------------
\* An ID is reserved for each request that may take one: the counters stay
\* within what was asked.
LEMMA BoundedKept == IndInv /\ [Next]_vars => Bounded'
<1> SUFFICES ASSUME IndInv, [Next]_vars, NEW kind \in Kinds
             PROVE  /\ IsFiniteSet(Takers(kind)')
                    /\ next'[kind] + Cardinality(Takers(kind)') <= Cardinality(Accounts) + calls' + 1
  BY DEF Bounded
<1>0. /\ Types /\ next[kind] \in Nat /\ calls \in Nat /\ Cardinality(Accounts) \in Nat
      /\ IsFiniteSet(Takers(kind)) /\ Cardinality(Takers(kind)) \in Nat
      /\ next[kind] + Cardinality(Takers(kind)) <= Cardinality(Accounts) + calls + 1
  BY BoundsAssumption, NamesAssumption, FS_CardinalityType DEF IndInv, Types, Bounded
<1>1. ASSUME Takers(kind)' \subseteq Takers(kind),
             next'[kind] = next[kind], calls' = calls
      PROVE  /\ IsFiniteSet(Takers(kind)')
             /\ next'[kind] + Cardinality(Takers(kind)') <= Cardinality(Accounts) + calls' + 1
  <2>1. /\ IsFiniteSet(Takers(kind)') /\ Cardinality(Takers(kind)') <= Cardinality(Takers(kind))
        /\ Cardinality(Takers(kind)') \in Nat
    BY <1>0, <1>1, FS_Subset, FS_CardinalityType
  <2> QED
    BY <1>0, <1>1, <2>1
<1>2. ASSUME NEW w \in Workers, Takers(kind)' \subseteq Takers(kind) \cup {w},
             next'[kind] = next[kind], calls' = calls + 1
      PROVE  /\ IsFiniteSet(Takers(kind)')
             /\ next'[kind] + Cardinality(Takers(kind)') <= Cardinality(Accounts) + calls' + 1
  <2>1. /\ IsFiniteSet(Takers(kind) \cup {w})
        /\ Cardinality(Takers(kind) \cup {w}) <= Cardinality(Takers(kind)) + 1
        /\ Cardinality(Takers(kind) \cup {w}) \in Nat
    <3>1. /\ IsFiniteSet(Takers(kind) \cup {w})
          /\ \/ Cardinality(Takers(kind) \cup {w}) = Cardinality(Takers(kind))
             \/ Cardinality(Takers(kind) \cup {w}) = Cardinality(Takers(kind)) + 1
      BY <1>0, FS_AddElement
    <3> QED
      BY <1>0, <3>1
  <2>2. /\ IsFiniteSet(Takers(kind)')
        /\ Cardinality(Takers(kind)') <= Cardinality(Takers(kind) \cup {w})
        /\ Cardinality(Takers(kind)') \in Nat
    BY <1>2, <2>1, FS_Subset, FS_CardinalityType
  <2> QED
    BY <1>0, <1>2, <2>1, <2>2
<1>3. ASSUME NEW w \in Takers(kind), Takers(kind)' \subseteq Takers(kind) \ {w},
             next'[kind] = next[kind] + 1, calls' = calls
      PROVE  /\ IsFiniteSet(Takers(kind)')
             /\ next'[kind] + Cardinality(Takers(kind)') <= Cardinality(Accounts) + calls' + 1
  <2>1. /\ IsFiniteSet(Takers(kind) \ {w})
        /\ Cardinality(Takers(kind) \ {w}) = Cardinality(Takers(kind)) - 1
    BY <1>0, FS_RemoveElement
  <2>2. /\ IsFiniteSet(Takers(kind)')
        /\ Cardinality(Takers(kind)') <= Cardinality(Takers(kind) \ {w})
        /\ Cardinality(Takers(kind)') \in Nat
    BY <1>3, <2>1, FS_Subset, FS_CardinalityType
  <2> QED
    BY <1>0, <1>3, <2>1, <2>2
<1>4. ASSUME NEW w \in Workers, Step(w) \/ Requested(w)
      PROVE  /\ Takers(kind)' \subseteq Takers(kind) \cup {w}
             /\ w \in Takers(kind) => Takers(kind)' \ {w} \subseteq Takers(kind) \ {w}
  <2>1. \A v \in Workers \ {w} : pc'[v] = pc[v]
    BY <1>0, <1>4, OthersStay DEF SameHand
  <2> QED
    BY <2>1 DEF Takers
<1>5. ASSUME NEW w \in Workers, Plain(w) \/ Counting(w)
      PROVE  /\ Takers(kind)' \subseteq Takers(kind)
             /\ next'[kind] = next[kind] /\ calls' = calls
  <2>1. Step(w)
    BY <1>5 DEF Step, Plain, Counting
  <2>2. next' = next /\ calls' = calls
    BY <1>5 DEF Plain, Counting, LockUsers, LookUpName, PutUsername, ReadProfile, PutProfile,
       LockConvs, LookUpDM, PutMember, PutUserMember, PutDM, CountUser, CountConv, memory
  <2>3. w \in Takers(kind)' => w \in Takers(kind)
    <3>ret. Return(w) => pc'[w] = "idle"
      BY <1>0, ReturnFits
    <3>1. CASE LockUsers(w) \/ LockConvs(w) \/ LookUpName(w) \/ LookUpDM(w)
      BY <1>0, <3>ret, <3>1
         DEF LockUsers, LockConvs, LookUpName, LookUpDM, Goto, Types, Takers, Kinds
    <3>2. CASE PutUsername(w) \/ ReadProfile(w) \/ PutProfile(w) \/ PutMember(w) \/ PutDM(w)
      BY <1>0, <3>ret, <3>2
         DEF PutUsername, ReadProfile, PutProfile, PutMember, PutDM, Goto, Types, Takers
    <3>3. CASE PutUserMember(w)
      BY <1>0, <3>ret, <3>3 DEF PutUserMember, AfterMembers, Goto, Types, Takers
    <3>4. CASE Counting(w)
      BY <3>ret, <3>4 DEF Counting, CountUser, CountConv, Takers
    <3> QED
      BY <1>5, <3>1, <3>2, <3>3, <3>4 DEF Plain
  <2> QED
    BY <1>4, <2>1, <2>2, <2>3
<1>6. ASSUME NEW w \in Workers, Taking(w)
      PROVE  /\ calls' = calls
             /\ \/ /\ w \in Takers(kind) /\ Takers(kind)' \subseteq Takers(kind) \ {w}
                   /\ next'[kind] = next[kind] + 1
                \/ Takers(kind)' \subseteq Takers(kind) /\ next'[kind] = next[kind]
  <2>1. PICK k \in Kinds : pc[w] = (IF k = "user" THEN "user" ELSE "conv")
                          /\ next' = [next EXCEPT ![k] = @ + 1]
    BY <1>6 DEF Taking, PutUser, PutConv, Alloc, Kinds
  <2>2. calls' = calls
    BY <1>6 DEF Taking, PutUser, PutConv
  <2>3. pc'[w] \in {"idle", "username", "member"}
    BY <1>0, <1>6, ReturnFits DEF Taking, PutUser, PutConv, Goto, Types
  <2>4. Step(w)
    BY <1>6 DEF Step, Taking
  <2>5. w \notin Takers(kind)'
    BY <2>3 DEF Takers
  <2>6. CASE kind = k
    <3>1. w \in Takers(kind) /\ next'[kind] = next[kind] + 1
      BY <1>0, <2>1, <2>6 DEF Takers, Types, Kinds
    <3> QED
      BY <1>4, <2>2, <2>4, <2>5, <3>1
  <2>7. CASE kind # k
    <3>1. next'[kind] = next[kind]
      BY <1>0, <2>1, <2>7 DEF Types
    <3> QED
      BY <1>4, <2>2, <2>4, <2>5, <3>1
  <2> QED
    BY <2>6, <2>7
<1>7. ASSUME NEW w \in Workers, Requested(w)
      PROVE  next'[kind] = next[kind] /\ calls' = calls + 1
  BY <1>7 DEF Requested, Register, Edit, Create, Add, Begin, memory
<1>8. CASE Crash
  <2>1. Takers(kind)' = {} /\ calls' = calls
    BY <1>8 DEF Crash, Takers
  <2>2. next'[kind] <= next[kind] /\ next'[kind] \in Nat
    BY <1>8, CrashCounters
  <2> QED
    BY <1>0, <2>1, <2>2, FS_EmptySet
<1>9. CASE UNCHANGED vars
  BY <1>1, <1>9 DEF vars, memory, inhand, Takers
<1> QED
  BY <1>1, <1>2, <1>3, <1>4, <1>5, <1>6, <1>7, <1>8, <1>9
     DEF Next, Step, Requested, Counting, Taking, Plain

-----------------------------------------------------------------------------
\* What Answer does to what was said.
LEMMA AnswerIs ==
  ASSUME NEW w, NEW n, Answer(w, n)
  PROVE  /\ DOMAIN answered' = DOMAIN answered \cup {call[w]}
         /\ \A c \in DOMAIN answered : c # call[w] => answered'[c] = answered[c]
         /\ call[w] \notin DOMAIN answered => answered'[call[w]] = {n}
         /\ call[w] \in DOMAIN answered => answered'[call[w]] = answered[call[w]] \cup {n}
BY DEF Answer, Put

\* The calls that are answered: a registration with the account its name leads
\* to, a conversation with the one made, or the DM of the pair.
LEMMA Answers ==
  ASSUME IndInv, [Next]_vars, answered' # answered
  PROVE  \E w \in Workers, n \in Nat :
           /\ Answer(w, n) /\ UNCHANGED <<user, username, conv, member, usermember, dm>>
           /\ \/ /\ call[w].do = "register"
                 /\ call[w].name \in DOMAIN username /\ username[call[w].name] = n
              \/ /\ call[w].do = "create"
                 /\ call[w].type = "dm"
                      => Participants(call[w]) \in DOMAIN dm /\ dm[Participants(call[w])] = n
<1>0. DOMAIN user \subseteq Nat /\ DOMAIN conv \subseteq Nat
  BY DEF IndInv, Counters, Counted, Keys, Kinds
<1>1. PICK w \in Workers : CountUser(w) \/ CountConv(w) \/ LookUpDM(w)
  <2>1. CASE Crash \/ UNCHANGED vars
    BY <2>1 DEF Crash, vars, history
  <2>2. ASSUME NEW w \in Workers, Requested(w)
        PROVE  FALSE
    BY <2>2 DEF Requested, Register, Edit, Create, Add, Begin, history
  <2>3. ASSUME NEW w \in Workers, LockUsers(w) \/ LookUpName(w) \/ ReadProfile(w) \/ LockConvs(w)
        PROVE  FALSE
    BY <2>3 DEF LockUsers, LookUpName, ReadProfile, LockConvs, history
  <2>4. ASSUME NEW w \in Workers, PutUser(w) \/ PutUsername(w) \/ PutProfile(w) \/ PutConv(w)
        PROVE  FALSE
    BY <2>4 DEF PutUser, PutUsername, PutProfile, PutConv, history
  <2>5. ASSUME NEW w \in Workers, PutMember(w) \/ PutUserMember(w) \/ PutDM(w)
        PROVE  FALSE
    BY <2>5 DEF PutMember, PutUserMember, PutDM, history
  <2> QED
    BY <2>1, <2>2, <2>3, <2>4, <2>5 DEF Next, Step, Requested
<1>2. Place(w)
  BY DEF IndInv, Control, InHand, Place
<1>3. CASE CountUser(w)
  <2>1. Answer(w, id[w]) /\ UNCHANGED <<user, username, conv, member, usermember, dm>>
    BY <1>3 DEF CountUser, Persist, history
  <2>2. /\ call[w].do = "register"
        /\ call[w].name \in DOMAIN username /\ username[call[w].name] = id[w]
    BY <1>2, <1>3 DEF CountUser, Place, Serves, UserInHand
  <2>3. id[w] \in Nat
    BY <1>0, <2>2 DEF IndInv, Accounting
  <2> QED
    BY <2>1, <2>2, <2>3
<1>4. CASE CountConv(w)
  <2>1. Answer(w, id[w]) /\ UNCHANGED <<user, username, conv, member, usermember, dm>>
    BY <1>4 DEF CountConv, Persist, history
  <2>2. /\ call[w].do = "create" /\ id[w] \in Nat
        /\ call[w].type = "dm"
             => Participants(call[w]) \in DOMAIN dm /\ dm[Participants(call[w])] = id[w]
    BY <1>0, <1>2, <1>4 DEF CountConv, Place, Serves, ConvInHand, ForDM
  <2> QED
    BY <2>1, <2>2
<1>5. CASE LookUpDM(w)
  <2>1. Participants(call[w]) \in DOMAIN dm
    BY <1>5 DEF LookUpDM, history
  <2>2. /\ Answer(w, dm[Participants(call[w])])
        /\ UNCHANGED <<user, username, conv, member, usermember, dm>>
    BY <1>5, <2>1 DEF LookUpDM, disk
  <2>3. call[w].do = "create"
    BY <1>2, <1>5 DEF LookUpDM, Place, Serves
  <2>4. dm[Participants(call[w])] \in Nat
    BY <1>0, <2>1 DEF IndInv, DMs, MadeFor
  <2> QED
    BY <2>1, <2>2, <2>3, <2>4
<1> QED
  BY <1>1, <1>3, <1>4, <1>5

\* Who changes what: each key of the database has its step.
LEMMA Writers ==
  ASSUME [Next]_vars
  PROVE  /\ user' # user => \E w \in Workers : PutUser(w) \/ PutProfile(w)
         /\ username' # username => \E w \in Workers : PutUsername(w)
         /\ conv' # conv \/ party' # party => \E w \in Workers : PutConv(w)
         /\ member' # member => \E w \in Workers : PutMember(w)
         /\ usermember' # usermember => \E w \in Workers : PutUserMember(w)
         /\ dm' # dm => \E w \in Workers : PutDM(w)
<1> DEFINE Same == UNCHANGED <<user, username, conv, party, member, usermember, dm>>
<1>1. CASE Crash \/ UNCHANGED vars
  BY <1>1 DEF Crash, vars, disk, history
<1>2. ASSUME NEW w \in Workers, Requested(w)
      PROVE  Same
  BY <1>2 DEF Requested, Register, Edit, Create, Add, Begin, disk, history
<1>3. ASSUME NEW w \in Workers, LockUsers(w) \/ LookUpName(w) \/ ReadProfile(w) \/ LockConvs(w)
      PROVE  Same
  BY <1>3 DEF LockUsers, LookUpName, ReadProfile, LockConvs, disk, history
<1>4. ASSUME NEW w \in Workers, CountUser(w) \/ CountConv(w) \/ LookUpDM(w)
      PROVE  Same
  BY <1>4 DEF CountUser, CountConv, LookUpDM, Persist, Answer, disk, history
<1>5. ASSUME NEW w \in Workers, PutUser(w) \/ PutProfile(w)
      PROVE  UNCHANGED <<username, conv, party, member, usermember, dm>>
  BY <1>5 DEF PutUser, PutProfile, history
<1>6. ASSUME NEW w \in Workers, PutUsername(w)
      PROVE  UNCHANGED <<user, conv, party, member, usermember, dm>>
  BY <1>6 DEF PutUsername, history
<1>7. ASSUME NEW w \in Workers, PutConv(w)
      PROVE  UNCHANGED <<user, username, member, usermember, dm>>
  BY <1>7 DEF PutConv
<1>8. ASSUME NEW w \in Workers, PutMember(w)
      PROVE  UNCHANGED <<user, username, conv, party, usermember, dm>>
  BY <1>8 DEF PutMember, history
<1>9. ASSUME NEW w \in Workers, PutUserMember(w)
      PROVE  UNCHANGED <<user, username, conv, party, member, dm>>
  BY <1>9 DEF PutUserMember, history
<1>10. ASSUME NEW w \in Workers, PutDM(w)
       PROVE  UNCHANGED <<user, username, conv, party, member, usermember>>
  BY <1>10 DEF PutDM, history
<1>11. CASE \E w \in Workers : Requested(w)
  BY <1>2, <1>11
<1>12. ASSUME NEW w \in Workers, Step(w)
       PROVE  \/ Same \/ PutUser(w) \/ PutProfile(w) \/ PutUsername(w) \/ PutConv(w)
              \/ PutMember(w) \/ PutUserMember(w) \/ PutDM(w)
  BY <1>3, <1>4, <1>12 DEF Step
<1> HIDE DEF Same
<1>13. CASE \E w \in Workers : Step(w)
  BY <1>5, <1>6, <1>7, <1>8, <1>9, <1>10, <1>12, <1>13 DEF Same
<1> QED
  BY <1>1, <1>11, <1>13 DEF Next, Requested

\* A name leads to an account of that name: the record is put before the index.
LEMMA AccountingKept == IndInv /\ [Next]_vars => Accounting'
<1> SUFFICES ASSUME IndInv, [Next]_vars PROVE Accounting'
  OBVIOUS
<1>0. Accounting /\ Grows /\ \A w \in Workers : Place(w)
  BY Growth DEF IndInv, Control, InHand, Place
<1>1. ASSUME NEW u \in DOMAIN user'
      PROVE  Profile(user'[u])
  <2>1. CASE user' = user
    BY <1>0, <2>1 DEF Accounting
  <2>2. ASSUME NEW w \in Workers, PutUser(w), user' # user
        PROVE  Profile(user'[u])
    <3>1. /\ user' = Put(user, next.user, [Blank EXCEPT !.name = call[w].name])
          /\ pc[w] = "user"
      BY <2>2 DEF PutUser
    <3>2. call[w].name \in Names
      BY <1>0, <3>1, WantedAssumption DEF Place, Serves
    <3> QED
      BY <1>0, <3>1, <3>2 DEF Accounting, Profile, Put, Blank
  <2>3. ASSUME NEW w \in Workers, PutProfile(w), user' # user
        PROVE  Profile(user'[u])
    <3>1. /\ user' = [user EXCEPT ![call[w].user] = [copy[w] EXCEPT ![call[w].field] = call[w].value]]
          /\ pc[w] = "profile"
      BY <2>3 DEF PutProfile
    <3>2. call[w] \in Wanted /\ call[w].do = "edit" /\ call[w].user \in DOMAIN user
      BY <1>0, <3>1 DEF Place, Serves
    <3>3. call[w].field \in Fields /\ Profile(copy[w])
      BY <1>0, <3>1, <3>2, WantedAssumption DEF Place, UserInHand, Accounting
    <3>4. Profile([copy[w] EXCEPT ![call[w].field] = call[w].value])
      BY <3>3 DEF Profile, Fields
    <3> QED
      BY <1>0, <3>1, <3>2, <3>4 DEF Accounting
  <2> QED
    BY <2>1, <2>2, <2>3, Writers
<1>2. ASSUME NEW n \in DOMAIN username'
      PROVE  n \in Names /\ username'[n] \in DOMAIN user' /\ user'[username'[n]].name = n
  <2>1. CASE n \in DOMAIN username
    BY <1>0, <2>1 DEF Accounting, Grows
  <2>2. CASE n \notin DOMAIN username
    <3>1. PICK w \in Workers : PutUsername(w)
      BY <2>2, Writers
    <3>2. n = call[w].name /\ username'[n] = id[w] /\ pc[w] = "username"
      BY <1>2, <2>2, <3>1 DEF PutUsername, Put
    <3>3. n \in Names /\ id[w] \in DOMAIN user /\ user[id[w]].name = n
      BY <1>0, <3>2, WantedAssumption DEF Place, Serves, UserInHand
    <3> QED
      BY <1>0, <3>2, <3>3 DEF Grows
  <2> QED
    BY <2>1, <2>2
<1>3. ASSUME NEW c \in DOMAIN answered', c.do = "register"
      PROVE  c.name \in DOMAIN username' /\ answered'[c] = {username'[c.name]}
  <2>1. CASE answered' = answered
    BY <1>0, <1>3, <2>1 DEF Accounting, Grows
  <2>2. CASE answered' # answered
    <3>1. PICK w \in Workers, n \in Nat :
            /\ Answer(w, n) /\ UNCHANGED username
            /\ call[w].do = "register" => call[w].name \in DOMAIN username /\ username[call[w].name] = n
      BY <2>2, Answers
    <3>2. /\ DOMAIN answered' = DOMAIN answered \cup {call[w]}
          /\ \A d \in DOMAIN answered : d # call[w] => answered'[d] = answered[d]
          /\ call[w] \notin DOMAIN answered => answered'[call[w]] = {n}
          /\ call[w] \in DOMAIN answered => answered'[call[w]] = answered[call[w]] \cup {n}
      BY <3>1, AnswerIs
    <3> QED
      BY <1>0, <1>3, <3>1, <3>2 DEF Accounting
  <2> QED
    BY <2>1, <2>2
<1> QED
  BY <1>1, <1>2, <1>3 DEF Accounting

\* Only those named for a conversation, or added to a group, become members;
\* and the index follows the membership.
LEMMA MembershipKept == IndInv /\ [Next]_vars => Membership'
<1> SUFFICES ASSUME IndInv, [Next]_vars PROVE Membership'
  OBVIOUS
<1>0. Types /\ Membership /\ Grows /\ \A w \in Workers : Place(w)
  BY Growth DEF IndInv, Control, InHand, Place
<1>1. DOMAIN party' = DOMAIN conv' /\ \A c \in DOMAIN conv' : conv'[c] \in {"dm", "group"}
  <2>1. CASE conv' = conv /\ party' = party
    BY <1>0, <2>1 DEF Membership
  <2>2. ASSUME NEW w \in Workers, PutConv(w)
        PROVE  DOMAIN party' = DOMAIN conv' /\ \A c \in DOMAIN conv' : conv'[c] \in {"dm", "group"}
    <3>1. pc[w] = "conv"
      BY <2>2 DEF PutConv
    <3>2. call[w].type \in {"dm", "group"}
      BY <1>0, <3>1, WantedAssumption DEF Place, Serves
    <3> QED
      BY <1>0, <2>2, <3>2 DEF PutConv, Membership, Put
  <2> QED
    BY <2>1, <2>2, Writers
<1>2. ASSUME NEW m \in member'
      PROVE  /\ m \in (DOMAIN conv') \X (DOMAIN user')
             /\ conv'[m[1]] = "dm" => m[2] \in party'[m[1]]
  <2>1. CASE m \in member
    BY <1>0, <2>1 DEF Membership, Grows
  <2>2. CASE m \notin member
    <3>1. PICK w \in Workers : PutMember(w)
      BY <1>2, <2>2, Writers
    <3>2. PICK u \in todo[w] : m = <<id[w], u>> /\ pc[w] = "member"
      BY <1>2, <2>2, <3>1 DEF PutMember
    <3>3. u \in DOMAIN user /\ id[w] \in DOMAIN conv
      BY <1>0, <3>2 DEF Types, Place, ConvInHand
    <3>4. conv[id[w]] = "dm" => u \in party[id[w]]
      BY ZenonT(40), <1>0, <3>2 DEF Place, ConvInHand, Serves
    <3> QED
      BY <1>0, <3>2, <3>3, <3>4 DEF Grows
  <2> QED
    BY <2>1, <2>2
<1>3. ASSUME NEW m \in usermember'
      PROVE  m \in (DOMAIN user') \X (DOMAIN conv') /\ <<m[2], m[1]>> \in member'
  <2>1. CASE m \in usermember
    BY <1>0, <2>1 DEF Membership, Grows
  <2>2. CASE m \notin usermember
    <3>1. PICK w \in Workers : PutUserMember(w)
      BY <1>3, <2>2, Writers
    <3>2. m = <<who[w], id[w]>> /\ pc[w] = "usermember"
      BY <1>3, <2>2, <3>1 DEF PutUserMember
    <3>3. who[w] \in DOMAIN user /\ id[w] \in DOMAIN conv /\ <<id[w], who[w]>> \in member
      BY <1>0, <3>2 DEF Place, ConvInHand
    <3> QED
      BY <1>0, <3>2, <3>3 DEF Grows
  <2> QED
    BY <2>1, <2>2
<1> QED
  BY <1>1, <1>2, <1>3 DEF Membership

\* The dm key comes last, and is the one a pair is answered with.
LEMMA DMsKept == IndInv /\ [Next]_vars => DMs'
<1> SUFFICES ASSUME IndInv, [Next]_vars PROVE DMs'
  OBVIOUS
<1>0. DMs /\ Grows /\ \A w \in Workers : Place(w)
  BY Growth DEF IndInv, Control, InHand, Place
<1>1. ASSUME NEW pair \in DOMAIN dm'
      PROVE  MadeFor(pair, dm[pair])'
  <2>1. CASE pair \in DOMAIN dm
    BY <1>0, <2>1 DEF DMs, MadeFor, Grows
  <2>2. CASE pair \notin DOMAIN dm
    <3>1. PICK w \in Workers : PutDM(w)
      BY <1>1, <2>2, Writers
    <3>2. pair = Participants(call[w]) /\ dm'[pair] = id[w] /\ pc[w] = "dm"
      BY <1>1, <2>2, <3>1 DEF PutDM, Put
    <3>3. call[w].do = "create" /\ pair \subseteq DOMAIN user /\ Cardinality(pair) = 2
      BY <1>0, <3>2 DEF Place, Serves, ConvInHand, Welcome
    <3>4. /\ id[w] \in DOMAIN conv
          /\ \A u \in pair : <<id[w], u>> \in member /\ <<u, id[w]>> \in usermember
      BY <1>0, <3>2, <3>3 DEF Place, ConvInHand
    <3> QED
      BY <1>0, <3>2, <3>3, <3>4 DEF MadeFor, Grows
  <2> QED
    BY <2>1, <2>2
<1>2. ASSUME NEW c \in DOMAIN answered', c.do = "create", c.type = "dm"
      PROVE  Participants(c) \in DOMAIN dm' /\ answered'[c] = {dm'[Participants(c)]}
  <2>1. CASE answered' = answered
    BY <1>0, <1>2, <2>1 DEF DMs, Grows
  <2>2. CASE answered' # answered
    <3>1. PICK w \in Workers, n \in Nat :
            /\ Answer(w, n) /\ UNCHANGED dm
            /\ call[w].do = "create" /\ call[w].type = "dm"
                 => Participants(call[w]) \in DOMAIN dm /\ dm[Participants(call[w])] = n
      BY <2>2, Answers
    <3>2. /\ DOMAIN answered' = DOMAIN answered \cup {call[w]}
          /\ \A d \in DOMAIN answered : d # call[w] => answered'[d] = answered[d]
          /\ call[w] \notin DOMAIN answered => answered'[call[w]] = {n}
          /\ call[w] \in DOMAIN answered => answered'[call[w]] = answered[call[w]] \cup {n}
      BY <3>1, AnswerIs
    <3> QED
      BY <1>0, <1>2, <3>1, <3>2 DEF DMs
  <2> QED
    BY <2>1, <2>2
<1> QED
  BY <1>1, <1>2 DEF DMs

LEMMA IndInvNext == IndInv /\ [Next]_vars => IndInv'
BY PlacesKept, TypesKept, CountersKept, BoundedKept, AccountingKept, MembershipKept, DMsKept
   DEF IndInv

\* IndInv is an invariant of Directory.
THEOREM Invariance == Spec => []IndInv
<1>1. Init => IndInv
  BY IndInvInit
<1>2. IndInv /\ [Next]_vars => IndInv'
  BY IndInvNext
<1> QED
  BY <1>1, <1>2, PTL DEF Spec

-----------------------------------------------------------------------------
(* The properties.                                                         *)

\* Every ID, counter and key stays in its type; a counter never hands out 0.
THEOREM TypeCorrect == Spec => []TypeOK
<1>1. IndInv => TypeOK
  <2> SUFFICES ASSUME IndInv PROVE TypeOK
    OBVIOUS
  <2> DEFINE C == Cardinality(Accounts)
  <2>0. /\ Types /\ Accounting /\ Membership /\ DMs /\ C \in Nat /\ Retries \in Nat /\ MaxTroubles \in Nat
    BY BoundsAssumption, NamesAssumption, FS_CardinalityType DEF IndInv
  <2>1. ASSUME NEW kind \in Kinds
        PROVE  /\ next[kind] \in IDs \ {0} /\ hint[kind] \in IDs
               /\ Keys(kind) \subseteq IDs
    <3>1. /\ hint[kind] \in Nat /\ next[kind] \in Nat /\ hint[kind] < next[kind]
          /\ Keys(kind) \subseteq 1..(next[kind] - 1)
      BY <2>0 DEF IndInv, Types, Counters, Counted
    <3>2. Cardinality(Takers(kind)) \in Nat
          /\ next[kind] + Cardinality(Takers(kind)) <= C + calls + 1
      BY FS_CardinalityType DEF IndInv, Bounded
    <3>3. calls \in Nat /\ calls <= Retries
      BY <2>0 DEF Types
    <3>4. next[kind] <= C + Retries + MaxTroubles + 1
      BY <2>0, <3>1, <3>2, <3>3
    <3> HIDE DEF C
    <3>5. \A n \in Nat : n <= next[kind] => n \in 0..(C + Retries + MaxTroubles + 1)
      BY <2>0, <3>1, <3>4
    <3> QED
      BY <3>1, <3>5 DEF IDs, C
  <2>2. DOMAIN user \subseteq IDs /\ DOMAIN conv \subseteq IDs
    BY <2>1 DEF Keys, Kinds
  <2>3. 0 \in IDs
    BY <2>0 DEF IDs
  <2>4. hint \in [Kinds -> IDs] /\ next \in [Kinds -> IDs \ {0}] /\ persisted = hint
    BY <2>0, <2>1 DEF Types
  <2>5. /\ id \in [Workers -> IDs] /\ todo \in [Workers -> SUBSET IDs] /\ who \in [Workers -> IDs]
        /\ pc \in [Workers -> Labels] /\ mu \in [Mutexes -> Workers \cup {Nobody}]
    BY <2>0, <2>2, <2>3 DEF Types
  <2>6. /\ \A u \in DOMAIN user : user[u].name \in Names
        /\ DOMAIN username \subseteq Names /\ \A n \in DOMAIN username : username[n] \in IDs
    BY <2>0, <2>2 DEF Accounting, Profile
  <2>7. /\ \A c \in DOMAIN conv : conv[c] \in {"dm", "group"}
        /\ member \subseteq IDs \X IDs /\ usermember \subseteq IDs \X IDs
    BY <2>0, <2>2 DEF Membership
  <2>8. DOMAIN dm \subseteq SUBSET IDs /\ \A p \in DOMAIN dm : dm[p] \in IDs
    BY <2>0, <2>2 DEF DMs, MadeFor
  <2> QED
    BY <2>2, <2>4, <2>5, <2>6, <2>7, <2>8 DEF TypeOK
<1> QED
  BY <1>1, Invariance, PTL

\* An index entry of a name never points at nothing, nor at another's account.
THEOREM NamesAreAccounts == Spec => []NamesLeadToAccounts
<1>1. IndInv => NamesLeadToAccounts
  BY DEF IndInv, Accounting, NamesLeadToAccounts, GetUserByUsername
<1> QED
  BY <1>1, Invariance, PTL

\* An answered registration is the account the name logs in as, however many
\* raced for the name.
THEOREM RegistrationIsKept == Spec => []RegistrationsHold
<1>1. IndInv => RegistrationsHold
  BY DEF IndInv, Accounting, RegistrationsHold, GetUserByUsername
<1> QED
  BY <1>1, Invariance, PTL

\* The lists and syncs of a user show what the handlers let the user read.
THEOREM ListsAreAuthorised == Spec => []ShownIsAuthorised
<1>1. IndInv => ShownIsAuthorised
  BY DEF IndInv, Membership, ShownIsAuthorised, ListUserConversations, IsMember
<1> QED
  BY <1>1, Invariance, PTL

\* Nobody but the two it was made for is ever a member of a DM.
THEOREM DMsArePrivate == Spec => []DMsStayPrivate
<1>1. IndInv => DMsStayPrivate
  BY DEF IndInv, Membership, DMsStayPrivate, ListMembers
<1> QED
  BY <1>1, Invariance, PTL

\* The DM a pair's key stands for is one both may read and both see.
THEOREM KeyedDMsAreWhole == Spec => []KeyedDMIsComplete
<1>1. IndInv => KeyedDMIsComplete
  BY DEF IndInv, DMs, MadeFor, KeyedDMIsComplete, SharedConversations, ListUserConversations,
     IsMember
<1> QED
  BY <1>1, Invariance, PTL

\* Two users are answered one DM, for ever.
THEOREM OneDMForEver == Spec => []OneDMAnswered
<1>1. IndInv => OneDMAnswered
  <2> SUFFICES ASSUME IndInv, NEW pair \in SUBSET DOMAIN user
               PROVE  Cardinality(UNION {answered[c] : c \in {d \in DOMAIN answered :
                        d.do = "create" /\ d.type = "dm" /\ Participants(d) = pair}}) <= 1
    BY DEF OneDMAnswered
  <2> DEFINE Said == UNION {answered[c] : c \in {d \in DOMAIN answered :
                        d.do = "create" /\ d.type = "dm" /\ Participants(d) = pair}}
  <2>1. Said \subseteq {dm[pair]}
    BY DEF IndInv, DMs
  <2> HIDE DEF Said
  <2>2. IsFiniteSet({dm[pair]}) /\ Cardinality({dm[pair]}) = 1
    BY FS_Singleton
  <2>3. Cardinality(Said) <= 1
    BY <2>1, <2>2, FS_Subset
  <2> QED
    BY <2>3 DEF Said
<1> QED
  BY <1>1, Invariance, PTL

\* An ID names one account or one conversation, across failed puts and crashes.
THEOREM IDsAreUsedOnce == Spec => IDsAreFresh
<1>1. IndInv /\ [Next]_vars
        => [ /\ \A u \in DOMAIN user : user'[u].name = user[u].name
             /\ \A c \in DOMAIN conv : conv'[c] = conv[c] /\ party'[c] = party[c] ]_vars
  BY Growth DEF Grows
<1> QED
  BY <1>1, Invariance, PTL DEF Spec, IDsAreFresh

\* A profile edit that is answered is not undone by another one that ran with it.
THEOREM EditsStay == Spec => EditsAreKept
<1>1. IndInv /\ [Next]_vars
        => [ \A u \in DOMAIN user : \A f \in Fields :
               user'[u][f] # user[u][f]
                 => \E w \in Workers : pc[w] = "profile" /\ call[w].user = u
                                       /\ call[w].field = f ]_vars
  <2> SUFFICES ASSUME IndInv, [Next]_vars, NEW u \in DOMAIN user, NEW f \in Fields,
                      user'[u][f] # user[u][f]
               PROVE  \E w \in Workers : pc[w] = "profile" /\ call[w].user = u
                                         /\ call[w].field = f
    OBVIOUS
  <2>1. PICK w \in Workers : PutUser(w) \/ PutProfile(w)
    BY Writers
  <2>2. CASE PutUser(w)
    <3>1. u # next.user
      BY DEF IndInv, Types, Counters, Counted, Keys, Kinds
    <3> QED
      BY <2>2, <3>1 DEF PutUser, Put
  <2>3. CASE PutProfile(w)
    <3>1. /\ user' = [user EXCEPT ![call[w].user] = [copy[w] EXCEPT ![call[w].field] = call[w].value]]
          /\ pc[w] = "profile"
      BY <2>3 DEF PutProfile
    <3>2. /\ copy[w] = user[call[w].user] /\ Profile(user[u])
      BY <3>1 DEF IndInv, InHand, UserInHand, Accounting
    <3>3. call[w].user = u
      BY <3>1
    <3>4. user'[u] = [user[u] EXCEPT ![call[w].field] = call[w].value]
      BY <3>1, <3>2, <3>3
    <3>5. call[w].field = f
      BY <3>2, <3>4 DEF Profile, Fields
    <3> QED
      BY <3>1, <3>3, <3>5
  <2> QED
    BY <2>1, <2>2, <2>3
<1> QED
  BY <1>1, Invariance, PTL DEF Spec, EditsAreKept
=============================================================================

----------------------------- MODULE TableProofs -----------------------------
(***************************************************************************)
(* Proofs about Directory, second part: the usernames and the dm keys are  *)
(* each a Table, however requests race, puts fail and crashes fall.        *)
(***************************************************************************)
EXTENDS DirectoryProofs

-----------------------------------------------------------------------------
(* What was told.                                                          *)

\* An answer adds its ID to what is told of the calls that contain its own.
LEMMA ToldGains ==
  ASSUME NEW w, NEW n, Answer(w, n), NEW cs
  PROVE  /\ call[w] \in cs => Told(cs)' = Told(cs) \cup {n}
         /\ call[w] \notin cs => Told(cs)' = Told(cs)
<1>1. /\ DOMAIN answered' = DOMAIN answered \cup {call[w]}
      /\ \A c \in DOMAIN answered : c # call[w] => answered'[c] = answered[c]
      /\ call[w] \notin DOMAIN answered => answered'[call[w]] = {n}
      /\ call[w] \in DOMAIN answered => answered'[call[w]] = answered[call[w]] \cup {n}
  BY AnswerIs
<1>2. \A x : x \in Told(cs)' <=> \E c \in cs \cap DOMAIN answered' : x \in answered'[c]
  BY DEF Told
<1>3. \A x : x \in Told(cs) <=> \E c \in cs \cap DOMAIN answered : x \in answered[c]
  BY DEF Told
<1>4. CASE call[w] \in cs
  <2>1. \A x : x \in Told(cs)' <=> x \in Told(cs) \/ x = n
    BY <1>1, <1>2, <1>3, <1>4
  <2> QED
    BY <1>4, <2>1
<1>5. CASE call[w] \notin cs
  <2>1. \A x : x \in Told(cs)' <=> x \in Told(cs)
    BY <1>1, <1>2, <1>3, <1>5
  <2> QED
    BY <1>5, <2>1
<1> QED
  BY <1>4, <1>5

LEMMA ToldNothing == ASSUME Init, NEW cs PROVE Told(cs) = {}
BY DEF Init, None, Told

\* Nobody is told anything by a step that answers no call.
LEMMA ToldStays == ASSUME answered' = answered, NEW cs PROVE Told(cs)' = Told(cs)
BY DEF Told

-----------------------------------------------------------------------------
(* The usernames.                                                          *)

NamesTold == [n \in Names |-> Told(Registrations(n))]

LEMMA NamesInit == Init => TableOfNames!Init
<1> SUFFICES ASSUME Init PROVE TableOfNames!Init
  OBVIOUS
<1>1. \A n \in DOMAIN username : NameOf[username[n]] = n
  BY NamesAssumption DEF Init
<1>2. \A n \in Names : Told(Registrations(n)) = {}
  BY ToldNothing
<1> QED
  BY <1>1, <1>2 DEF TableOfNames!Init

\* The put of the index enters the name: no other leads to the account.
LEMMA PutUsernameEnters ==
  ASSUME IndInv, NEW w \in Workers, PutUsername(w), username' # username
  PROVE  call[w].name \in Names /\ TableOfNames!Enter(call[w].name)
<1>0. Place(w) /\ pc[w] = "username"
  BY DEF PutUsername, IndInv, Control, InHand, Place
<1>1. username' = Put(username, call[w].name, id[w]) /\ answered' = answered
  BY DEF PutUsername, history
<1>2. /\ call[w].name \notin DOMAIN username
      /\ id[w] \in DOMAIN user /\ user[id[w]].name = call[w].name
  BY <1>0 DEF Place, UserInHand
<1>3. \A n \in DOMAIN username : user[username[n]].name = n
  BY DEF IndInv, Accounting
<1>4. /\ DOMAIN username' = DOMAIN username \cup {call[w].name}
      /\ username'[call[w].name] = id[w]
      /\ \A n \in DOMAIN username : username'[n] = username[n]
  BY <1>1, <1>2 DEF Put
<1>5. \A n \in DOMAIN username : username'[n] = username[n] /\ username'[call[w].name] # username[n]
  BY <1>2, <1>3, <1>4
<1>6. call[w].name \in Names
  BY <1>0, WantedAssumption DEF Place, Serves
<1>7. \A n \in Names : Told(Registrations(n))' = Told(Registrations(n))
  BY <1>1, ToldStays
<1> QED
  BY <1>2, <1>4, <1>5, <1>6, <1>7 DEF TableOfNames!Enter

\* An answered registration tells the ID of its name.
LEMMA RegistrationTells ==
  ASSUME IndInv, NEW w \in Workers, NEW n, Answer(w, n), UNCHANGED username,
         call[w].do = "register", call[w].name \in DOMAIN username, username[call[w].name] = n
  PROVE  call[w].name \in Names /\ TableOfNames!Tell(call[w].name)
<1>1. call[w] \in Wanted
  BY DEF IndInv, Types, NoCall
<1>2. call[w].name \in Names
  BY DEF IndInv, Accounting
<1>3. PICK name : name = call[w].name
  OBVIOUS
<1>4. call[w] \in Registrations(name) /\ \A m : m # name => call[w] \notin Registrations(m)
  BY <1>1, <1>3 DEF Registrations
<1>5. Told(Registrations(name))' = Told(Registrations(name)) \cup {n}
  BY <1>4, ToldGains
<1>6. \A m \in Names : m # name => Told(Registrations(m))' = Told(Registrations(m))
  BY <1>4, ToldGains
<1>7. NamesTold' = [NamesTold EXCEPT ![name] = @ \cup {n}]
  BY <1>2, <1>3, <1>5, <1>6 DEF NamesTold
<1> QED
  BY <1>2, <1>3, <1>7 DEF TableOfNames!Tell, NamesTold

LEMMA NamesNext ==
  ASSUME IndInv, [Next]_vars
  PROVE  [TableOfNames!Next]_<<username, NamesTold>>
<1>1. CASE username' # username
  <2>1. PICK w \in Workers : PutUsername(w)
    BY <1>1, Writers
  <2> QED
    BY <1>1, <2>1, PutUsernameEnters DEF TableOfNames!Next
<1>2. CASE UNCHANGED <<username, answered>>
  <2>1. NamesTold' = NamesTold
    BY <1>2, ToldStays DEF NamesTold
  <2> QED
    BY <1>2, <2>1
<1>3. CASE answered' # answered
  <2>1. PICK w \in Workers, n \in Nat :
          /\ Answer(w, n) /\ UNCHANGED username
          /\ \/ /\ call[w].do = "register"
                /\ call[w].name \in DOMAIN username /\ username[call[w].name] = n
             \/ call[w].do = "create"
    BY <1>3, Answers
  <2>2. CASE call[w].do = "register"
    <3>1. call[w].name \in Names /\ TableOfNames!Tell(call[w].name)
      BY <2>1, <2>2, RegistrationTells
    <3> QED
      BY <3>1 DEF TableOfNames!Next
  <2>3. CASE call[w].do = "create"
    <3>1. \A m \in Names : call[w] \notin Registrations(m)
      BY <2>3 DEF Registrations
    <3>2. \A m \in Names : Told(Registrations(m))' = Told(Registrations(m))
      BY <2>1, <3>1, ToldGains
    <3> QED
      BY <2>1, <3>2 DEF NamesTold
  <2> QED
    BY <2>1, <2>2, <2>3
<1> QED
  BY <1>1, <1>2, <1>3

\* The usernames are a table: a name is one account's for ever, no two names
\* share one, and a registration is answered with it (CreateUser, users.go:11-44).
THEOREM NamesAreATable == Spec => ImplementsNames
<1>1. Init => TableOfNames!Init
  BY NamesInit
<1>2. IndInv /\ [Next]_vars => [TableOfNames!Next]_<<username, NamesTold>>
  BY NamesNext
<1> QED
  BY <1>1, <1>2, Invariance, PTL DEF Spec, ImplementsNames, TableOfNames!Spec, NamesTold

-----------------------------------------------------------------------------
(* The dm keys.                                                            *)

DMsTold == [pair \in Pairs |-> Told(MeetingsOf(pair))]

\* A dm key leads to the conversation that was made for its pair.
KeyOfParty == \A pair \in DOMAIN dm : party[dm[pair]] = pair

LEMMA DMsInit == Init => TableOfDMs!Init /\ KeyOfParty
<1> SUFFICES ASSUME Init PROVE TableOfDMs!Init /\ KeyOfParty
  OBVIOUS
<1>1. DOMAIN dm = {}
  BY DEF Init, None
<1>2. \A pair \in Pairs : Told(MeetingsOf(pair)) = {}
  BY ToldNothing
<1> QED
  BY <1>1, <1>2 DEF TableOfDMs!Init, KeyOfParty

\* What the put of a dm key finds: the conversation in hand is that of the pair.
LEMMA PutDMIs ==
  ASSUME IndInv, NEW w \in Workers, PutDM(w), dm' # dm
  PROVE  /\ Participants(call[w]) \in Pairs /\ Participants(call[w]) \notin DOMAIN dm
         /\ dm' = Put(dm, Participants(call[w]), id[w])
         /\ UNCHANGED <<answered, party>>
         /\ party[id[w]] = Participants(call[w])
<1>0. Place(w) /\ pc[w] = "dm"
  BY DEF PutDM, IndInv, Control, InHand, Place
<1>1. dm' = Put(dm, Participants(call[w]), id[w]) /\ UNCHANGED <<answered, party>>
  BY DEF PutDM, history
<1>2. call[w] \in Wanted /\ call[w].do = "create" /\ call[w].type = "dm"
  BY <1>0 DEF Place, Serves, ConvInHand
<1>3. Participants(call[w]) \notin DOMAIN dm /\ party[id[w]] = Participants(call[w])
  BY <1>0, <1>2 DEF Place, ConvInHand, ForDM
<1>4. Participants(call[w]) \in Pairs
  BY <1>2 DEF Pairs, Meetings
<1> QED
  BY <1>1, <1>3, <1>4

LEMMA KeyOfPartyKept == ASSUME IndInv, KeyOfParty, [Next]_vars PROVE KeyOfParty'
<1>1. \A pair \in DOMAIN dm : dm'[pair] = dm[pair] /\ party'[dm[pair]] = pair
  BY Growth DEF Grows, KeyOfParty, IndInv, DMs, MadeFor
<1>2. CASE dm' = dm
  BY <1>1, <1>2 DEF KeyOfParty
<1>3. CASE dm' # dm
  <2>1. PICK w \in Workers : PutDM(w)
    BY <1>3, Writers
  <2>2. PICK made : made = Participants(call[w])
    OBVIOUS
  <2>3. /\ dm' = Put(dm, made, id[w]) /\ party' = party /\ party[id[w]] = made
        /\ made \notin DOMAIN dm
    BY <1>3, <2>1, <2>2, PutDMIs
  <2>4. DOMAIN dm' = DOMAIN dm \cup {made} /\ dm'[made] = id[w]
    BY <2>3 DEF Put
  <2> QED
    BY <1>1, <2>3, <2>4 DEF KeyOfParty
<1> QED
  BY <1>2, <1>3

LEMMA PutDMEnters ==
  ASSUME IndInv, KeyOfParty, NEW w \in Workers, PutDM(w), dm' # dm
  PROVE  Participants(call[w]) \in Pairs /\ TableOfDMs!Enter(Participants(call[w]))
<1>1. PICK pair : pair = Participants(call[w])
  OBVIOUS
<1>2. /\ pair \in Pairs /\ pair \notin DOMAIN dm /\ dm' = Put(dm, pair, id[w])
      /\ answered' = answered /\ party[id[w]] = pair
  BY <1>1, PutDMIs
<1>3. /\ DOMAIN dm' = DOMAIN dm \cup {pair} /\ dm'[pair] = id[w]
      /\ \A q \in DOMAIN dm : dm'[q] = dm[q]
  BY <1>2 DEF Put
<1>4. \A q \in DOMAIN dm : dm'[q] = dm[q] /\ dm'[pair] # dm[q]
  BY <1>2, <1>3 DEF KeyOfParty
<1>5. \A q \in Pairs : Told(MeetingsOf(q))' = Told(MeetingsOf(q))
  BY <1>2, ToldStays
<1> QED
  BY <1>1, <1>2, <1>3, <1>4, <1>5 DEF TableOfDMs!Enter

\* An answered creation of a DM tells the ID of its pair.
LEMMA MeetingTells ==
  ASSUME IndInv, NEW w \in Workers, NEW n, Answer(w, n), UNCHANGED dm,
         call[w].do = "create", call[w].type = "dm",
         Participants(call[w]) \in DOMAIN dm, dm[Participants(call[w])] = n
  PROVE  Participants(call[w]) \in Pairs /\ TableOfDMs!Tell(Participants(call[w]))
<1>1. call[w] \in Meetings
  BY DEF IndInv, Types, NoCall, Meetings
<1>2. PICK pair : pair = Participants(call[w])
  OBVIOUS
<1>3. pair \in Pairs
  BY <1>1, <1>2 DEF Pairs
<1>4. call[w] \in MeetingsOf(pair) /\ \A q : q # pair => call[w] \notin MeetingsOf(q)
  BY <1>1, <1>2 DEF MeetingsOf
<1>5. Told(MeetingsOf(pair))' = Told(MeetingsOf(pair)) \cup {n}
  BY <1>4, ToldGains
<1>6. \A q \in Pairs : q # pair => Told(MeetingsOf(q))' = Told(MeetingsOf(q))
  BY <1>4, ToldGains
<1>7. DMsTold' = [DMsTold EXCEPT ![pair] = @ \cup {n}]
  BY <1>3, <1>5, <1>6 DEF DMsTold
<1> QED
  BY <1>2, <1>3, <1>7 DEF TableOfDMs!Tell, DMsTold

LEMMA DMsNext ==
  ASSUME IndInv, KeyOfParty, [Next]_vars
  PROVE  [TableOfDMs!Next]_<<dm, DMsTold>>
<1>1. CASE dm' # dm
  <2>1. PICK w \in Workers : PutDM(w)
    BY <1>1, Writers
  <2> QED
    BY <1>1, <2>1, PutDMEnters DEF TableOfDMs!Next
<1>2. CASE UNCHANGED <<dm, answered>>
  <2>1. DMsTold' = DMsTold
    BY <1>2, ToldStays DEF DMsTold
  <2> QED
    BY <1>2, <2>1
<1>3. CASE answered' # answered
  <2>1. PICK w \in Workers, n \in Nat :
          /\ Answer(w, n) /\ UNCHANGED dm
          /\ \/ call[w].do = "register"
             \/ /\ call[w].do = "create"
                /\ call[w].type = "dm"
                     => Participants(call[w]) \in DOMAIN dm /\ dm[Participants(call[w])] = n
    BY <1>3, Answers
  <2>2. CASE call[w].do = "create" /\ call[w].type = "dm"
    <3>1. Participants(call[w]) \in Pairs /\ TableOfDMs!Tell(Participants(call[w]))
      BY <2>1, <2>2, MeetingTells
    <3> QED
      BY <3>1 DEF TableOfDMs!Next
  <2>3. CASE ~(call[w].do = "create" /\ call[w].type = "dm")
    <3>1. \A q \in Pairs : call[w] \notin MeetingsOf(q)
      BY <2>3 DEF MeetingsOf, Meetings
    <3>2. \A q \in Pairs : Told(MeetingsOf(q))' = Told(MeetingsOf(q))
      BY <2>1, <3>1, ToldGains
    <3> QED
      BY <2>1, <3>2 DEF DMsTold
  <2> QED
    BY <2>2, <2>3
<1> QED
  BY <1>1, <1>2, <1>3

\* The dm keys are a table: two users have one DM for ever, no other two have
\* it, and creating it again tells them that one (CreateConversation,
\* conversations.go:19-76).
THEOREM DMsAreATable == Spec => ImplementsDMs
<1>1. Init => TableOfDMs!Init /\ KeyOfParty
  BY DMsInit
<1>2. IndInv /\ KeyOfParty /\ [Next]_vars => KeyOfParty'
  BY KeyOfPartyKept
<1>3. IndInv /\ KeyOfParty /\ [Next]_vars => [TableOfDMs!Next]_<<dm, DMsTold>>
  BY DMsNext
<1> QED
  BY <1>1, <1>2, <1>3, Invariance, PTL DEF Spec, ImplementsDMs, TableOfDMs!Spec, DMsTold
=============================================================================

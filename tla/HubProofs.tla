----------------------------- MODULE HubProofs -------------------------------
(***************************************************************************)
(* Proofs about Hub, for any users, connections and goroutines: types,     *)
(* watermarks that never fall, and that a connection is told the truth.    *)
(***************************************************************************)
EXTENDS Hub, FiniteSetTheorems, TLAPS

\* What can be announced on a topic.
News == Marks \cup BOOLEAN \cup Nat \cup {None}
Jobs == {j \in [at : {"idle", "put", "count", "announce", "send"},
                topic : Topics \cup {None}, val : News] : j.at # "idle" => j.topic \in Topics}

\* What a connection is about that holds the read-state mutex.
PutJob(p, j) == j.topic = Receipt(UserOf[p]) /\ j.val \in Marks

\* Types, as far as the steps need them; the registry holds the open connections.
Shape ==
  /\ at \in [Conns -> {"off", "open", "gone"}]
  /\ conns \in [Users -> SUBSET Conns]
  /\ \A u \in Users, c \in Conns : c \in conns[u] <=> at[c] = "open" /\ UserOf[c] = u
  /\ closes \in [Conns -> 0..1]
  /\ out \in [Conns -> 0..Buffer]
  /\ job \in [Procs -> Jobs]
  /\ \A p \in Procs : job[p].at = "put" => p \in Conns /\ PutJob(p, job[p])
  /\ readMu \in Conns \cup {None}
  /\ marks \in [Users -> Marks]
  /\ reacted \subseteq Users
  /\ told \in [Conns -> [Topics -> News]]
  /\ amiss \subseteq Topics
  /\ calls \in 0..MaxCalls

\* Topics are told apart, and the truth on a topic is one of News.
LEMMA Truths ==
  /\ \A u \in Users : /\ Presence(u) \in Topics /\ Truth(Presence(u)) = Online(u)
                      /\ Receipt(u) \in Topics /\ Truth(Receipt(u)) = marks[u]
  /\ Reaction \in Topics /\ Truth(Reaction) = Cardinality(reacted)
  /\ \A t \in Topics : t = Reaction \/ \E u \in Users : t = Presence(u) \/ t = Receipt(u)
  /\ \A u, v \in Users : Presence(u) # Receipt(v) /\ Presence(u) # Reaction /\ Receipt(u) # Reaction
  /\ \A u, v \in Users : (Presence(u) = Presence(v) => u = v) /\ (Receipt(u) = Receipt(v) => u = v)
BY DEF Topics, Presence, Receipt, Reaction, Truth

\* Every step keeps the shape.
LEMMA ShapeStep == Shape /\ [Next]_vars => Shape'
<1> SUFFICES ASSUME Shape, [Next]_vars PROVE Shape'
  OBVIOUS
<1> USE UsersAssumption, BoundsAssumption, NoneAssumption
<1>types. /\ Untold \in [Topics -> News]
          /\ Idle \in Jobs
          /\ \A u \in Users : Presence(u) \in Topics /\ Receipt(u) \in Topics
          /\ Reaction \in Topics
  BY Truths DEF Untold, News, Idle, Jobs
<1>job. job \in [Procs -> Jobs]
  BY DEF Shape
<1>out. out \in [Conns -> 0..Buffer]
  BY DEF Shape
<1>amiss. amiss \subseteq Topics
  BY DEF Shape
<1>closed. \A cs : Closed(cs) \in [Conns -> 0..1]
  BY DEF Shape, Closed
<1>close. ASSUME NEW cs, Close(cs)
          PROVE  closes' \in [Conns -> 0..1] /\ told' \in [Conns -> [Topics -> News]]
  BY <1>close, <1>types, <1>closed DEF Shape, Close
<1>cast. ASSUME NEW u \in Users, NEW online \in BOOLEAN, Broadcast(u, online)
         PROVE  /\ job' \in [Procs -> Jobs] /\ amiss' \subseteq Topics
                /\ \A p \in Procs : job'[p].at = "put" => job'[p] = job[p]
  <2>1. PICK b \in Casts : job' = [job EXCEPT ![b] = [Idle EXCEPT !.at = "announce",
                                      !.topic = Presence(u), !.val = online]]
    BY <1>cast DEF Broadcast
  <2>2. [Idle EXCEPT !.at = "announce", !.topic = Presence(u), !.val = online] \in Jobs
    BY <1>types DEF Jobs, Idle, News
  <2>3. amiss' \subseteq Topics
    BY <1>cast, <1>types DEF Broadcast, Change, Shape
  <2>4. [Idle EXCEPT !.at = "announce", !.topic = Presence(u), !.val = online].at # "put"
    BY DEF Idle
  <2> QED
    BY <2>1, <2>2, <2>3, <2>4 DEF Shape, Procs
<1>1. ASSUME NEW c \in Conns, Register(c)
      PROVE  Shape'
  <2>1. at' \in [Conns -> {"off", "open", "gone"}]
    BY <1>1 DEF Register, Shape
  <2>2. /\ conns' \in [Users -> SUBSET Conns]
        /\ \A u \in Users, d \in Conns : d \in conns'[u] <=> at'[d] = "open" /\ UserOf[d] = u
    BY <1>1 DEF Register, Shape
  <2>3. /\ job' \in [Procs -> Jobs] /\ amiss' \subseteq Topics
        /\ \A p \in Procs : job'[p].at = "put" => job'[p] = job[p]
    BY <1>1, <1>cast, <1>job, <1>amiss DEF Register
  <2> QED
    BY <1>1, <2>1, <2>2, <2>3 DEF Register, Shape
<1>2. ASSUME NEW c \in Conns, Write(c)
      PROVE  Shape'
  <2>1. out' \in [Conns -> 0..Buffer]
    BY <1>2, <1>out DEF Write
  <2>2. closes' \in [Conns -> 0..1] /\ told' \in [Conns -> [Topics -> News]]
    BY <1>2, <1>close DEF Write, Shape
  <2> QED
    BY <1>2, <2>1, <2>2 DEF Write, Shape
<1>3. ASSUME NEW c \in Conns, Unregister(c)
      PROVE  Shape'
  <2>1. at' \in [Conns -> {"off", "open", "gone"}]
    BY <1>3 DEF Unregister, Leave, Shape
  <2>2. /\ conns' \in [Users -> SUBSET Conns]
        /\ \A u \in Users, d \in Conns : d \in conns'[u] <=> at'[d] = "open" /\ UserOf[d] = u
    BY <1>3 DEF Unregister, Leave, Shape
  <2>3. /\ job' \in [Procs -> Jobs] /\ amiss' \subseteq Topics
        /\ \A p \in Procs : job'[p].at = "put" => job'[p] = job[p]
    BY <1>3, <1>cast, <1>job, <1>amiss DEF Unregister
  <2>4. closes' \in [Conns -> 0..1] /\ out' \in [Conns -> 0..Buffer]
    BY <1>3, <1>closed DEF Unregister, Leave, Shape
  <2>5. told' \in [Conns -> [Topics -> News]]
    BY <1>3, <1>types DEF Unregister, Leave, Shape
  <2> QED
    BY <1>3, <2>1, <2>2, <2>3, <2>4, <2>5 DEF Unregister, Shape
<1>4. ASSUME NEW c \in Conns, GetMarks(c)
      PROVE  Shape'
  <2>1. PICK seq \in 1..MaxSeq, read \in BOOLEAN :
          job' = [job EXCEPT ![c] = [Idle EXCEPT !.at = "put", !.topic = Receipt(UserOf[c]),
                                                 !.val = Raise(marks[UserOf[c]], seq, read)]]
    BY <1>4 DEF GetMarks
  <2>2. Raise(marks[UserOf[c]], seq, read) \in Marks
    BY DEF Shape, Marks, Raise, Greater
  <2>3. [Idle EXCEPT !.at = "put", !.topic = Receipt(UserOf[c]),
                     !.val = Raise(marks[UserOf[c]], seq, read)] \in Jobs
    BY <2>2, <1>types DEF Jobs, Idle, News
  <2>4. job' \in [Procs -> Jobs]
    BY <2>1, <2>3 DEF Shape, Procs
  <2>5. calls' \in 0..MaxCalls
    BY <1>4 DEF GetMarks, Call, Shape
  <2>6. \A p \in Procs : job'[p].at = "put" => p \in Conns /\ PutJob(p, job'[p])
    BY <2>1, <2>2 DEF Shape, PutJob, Idle
  <2> QED
    BY <1>4, <2>4, <2>5, <2>6 DEF GetMarks, Shape
<1>5. ASSUME NEW c \in Conns, PutMarks(c)
      PROVE  Shape'
  <2>1. c \in Procs /\ [job[c] EXCEPT !.at = "announce"] \in Jobs
    BY <1>5, <1>job DEF PutMarks, Jobs, Procs
  <2>3. job' = [job EXCEPT ![c] = [job[c] EXCEPT !.at = "announce"]]
    BY <1>5 DEF PutMarks
  <2>4. job' \in [Procs -> Jobs] /\ \A p \in Procs : job'[p].at = "put" => job'[p] = job[p]
    BY <2>1, <2>3, <1>job DEF Jobs
  <2>2. job[c].val \in Marks
    BY <1>5 DEF PutMarks, Shape, PutJob, Procs
  <2>5. amiss' \subseteq Topics
    BY <1>5, <1>types DEF PutMarks, Change, Shape
  <2> QED
    BY <1>5, <2>2, <2>4, <2>5 DEF PutMarks, Shape
<1>6. ASSUME NEW p \in Procs, React(p), UserOf[p] \in Users
      PROVE  Shape'
  <2>1. [Idle EXCEPT !.at = "count", !.topic = Reaction] \in Jobs
    BY <1>types DEF Jobs, Idle, News
  <2>2. job' \in [Procs -> Jobs] /\ \A q \in Procs : job'[q].at = "put" => job'[q] = job[q]
    BY <1>6, <2>1 DEF React, Shape, Idle
  <2>3. reacted' \subseteq Users /\ amiss' \subseteq Topics /\ calls' \in 0..MaxCalls
    BY <1>6, <1>types DEF React, Change, Call, Shape
  <2> QED
    BY <1>6, <2>2, <2>3 DEF React, Shape
<1>7. ASSUME NEW p \in Procs, CountReaction(p)
      PROVE  Shape'
  <2>1. Cardinality(reacted) \in News
    BY FS_Subset, FS_CardinalityType DEF Shape, News
  <2>3. [job[p] EXCEPT !.at = "announce", !.val = Cardinality(reacted)] \in Jobs
    BY <1>7, <2>1, <1>job DEF CountReaction, Jobs
  <2>4. job' = [job EXCEPT ![p] = [job[p] EXCEPT !.at = "announce", !.val = Cardinality(reacted)]]
    BY <1>7, <1>job DEF CountReaction, Jobs
  <2>2. job' \in [Procs -> Jobs] /\ \A q \in Procs : job'[q].at = "put" => job'[q] = job[q]
    BY <2>3, <2>4, <1>job DEF Jobs
  <2> QED
    BY <1>7, <2>2 DEF CountReaction, Shape
<1>8. ASSUME NEW p \in Procs, Announce(p)
      PROVE  Shape'
  <2>1. job' \in [Procs -> Jobs] /\ \A q \in Procs : job'[q].at = "put" => job'[q] = job[q]
    BY <1>8 DEF Announce, Shape, Jobs
  <2>2. \A c \in Conns : \A t : [told[c] EXCEPT ![t] = None] \in [Topics -> News]
    BY DEF Shape, News
  <2>3. told' \in [Conns -> [Topics -> News]]
    BY <1>8, <2>2 DEF Announce, Shape
  <2> QED
    BY <1>8, <2>1, <2>3 DEF Announce, Shape
<1>9. ASSUME NEW p \in Procs, NEW us, Deliver(p, us), amiss' \subseteq Topics, calls' \in 0..MaxCalls
      PROVE  Shape'
  <2>1. job' \in [Procs -> Jobs] /\ \A q \in Procs : job'[q].at = "put" => job'[q] = job[q]
    BY <1>9, <1>types DEF Deliver, Shape, Idle
  <2>2. closes' \in [Conns -> 0..1]
    BY <1>9, <1>closed DEF Deliver, TrySend
  <2>3. out' \in [Conns -> 0..Buffer]
    BY <1>9 DEF Deliver, TrySend, HasRoom, Shape
  <2>4. \A c \in Conns : \A t : [told[c] EXCEPT ![t] = job[p].val] \in [Topics -> News]
    BY DEF Shape, Jobs
  <2>5. told' \in [Conns -> [Topics -> News]]
    BY <1>9, <2>4, <1>types DEF Deliver, TrySend, Shape
  <2> QED
    BY <1>9, <2>1, <2>2, <2>3, <2>5 DEF Deliver, Shape
<1>13. ASSUME NEW p \in Procs, GiveUp(p) \/ FailPut(p)
       PROVE  Shape'
  <2>1. job' \in [Procs -> Jobs] /\ \A q \in Procs : job'[q].at = "put" => job'[q] = job[q]
    <3>1. job' = [job EXCEPT ![p] = Idle] /\ Idle.at # "put"
      BY <1>13 DEF GiveUp, FailPut, Idle
    <3> QED
      BY <3>1, <1>types, <1>job
  <2>2. amiss' \subseteq Topics
    <3>1. job[p].at \in {"count", "announce"} => job[p].topic \in Topics
      BY <1>job DEF Jobs
    <3> QED
      BY <1>13, <1>amiss, <3>1 DEF GiveUp, FailPut
  <2>3. calls' \in 0..MaxCalls /\ readMu' \in Conns \cup {None}
    BY <1>13 DEF GiveUp, FailPut, Call, Shape
  <2> QED
    BY <1>13, <2>1, <2>2, <2>3 DEF GiveUp, FailPut, Shape
<1>14. ASSUME NEW p \in Procs, SendToUsers(p) \/ SendToOwn(p)
       PROVE  /\ \E us : Deliver(p, us)
              /\ amiss' \subseteq Topics /\ calls' \in 0..MaxCalls
  <2>1. job[p].at = "send" => job[p].topic \in Topics
    BY <1>job DEF Jobs
  <2> QED
    BY <1>14, <2>1, <1>amiss DEF SendToUsers, SendToOwn, Call, Shape
<1>10. CASE CloseAll
  BY <1>10, <1>close DEF CloseAll, Shape
<1>11. CASE UNCHANGED vars
  BY <1>11 DEF vars, Shape, Jobs, News
<1>12. \A p \in Conns \cup Callers : p \in Procs /\ UserOf[p] \in Users
  BY DEF Procs
<1>15. ASSUME NEW p \in Procs, GoOn(p) \/ Trouble(p)
       PROVE  Shape'
  <2>1. PutMarks(p) => p \in Conns
    BY DEF PutMarks, Shape
  <2> QED
    BY <1>15, <2>1, <1>5, <1>7, <1>8, <1>9, <1>13, <1>14 DEF GoOn, Trouble
<1> QED
  BY <1>1, <1>2, <1>3, <1>4, <1>6, <1>10, <1>11, <1>12, <1>15
     DEF Next, ReactOverWS, ReactOverREST

\* The initial state has the shape.
LEMMA ShapeInit == Init => Shape
BY BoundsAssumption, FS_EmptySet, Truths
   DEF Init, Shape, Idle, Jobs, News, Untold, Marks, Procs

\* Types, and no done channel is closed twice, for any number of connections
\* and whoever closes them in whatever order.
THEOREM TypeCorrect == Spec => []TypeOK
<1>1. Shape => TypeOK
  BY DEF Shape, TypeOK, Jobs, Procs
<1> QED
  BY <1>1, ShapeInit, ShapeStep, PTL DEF Spec

\* What is about to be put is no less than what is there, and only the holder of
\* the mutex is about to put.
Marking ==
  /\ \A u \in Users : marks[u].read <= marks[u].delivered
  /\ \A c \in Conns :
       job[c].at = "put" => /\ readMu = c
                            /\ job[c].val.delivered >= marks[UserOf[c]].delivered
                            /\ job[c].val.read >= marks[UserOf[c]].read
                            /\ job[c].val.read <= job[c].val.delivered

\* Watermarks only rise and what is read is delivered, however many devices of
\* a user report at once (updateReadState under readMu).
THEOREM MarksNeverFall == Spec => WatermarksRise
<1>1. Init => Marking
  BY DEF Init, Marking, Idle, Procs
<1>2. ASSUME Shape, Marking, [Next]_vars
      PROVE  Marking' /\ Rise
  <2> USE UsersAssumption, BoundsAssumption, NoneAssumption
  <2>job. /\ job \in [Procs -> Jobs]
          /\ Conns \subseteq Procs
          /\ marks \in [Users -> Marks]
          /\ \A u \in Users : marks[u].delivered \in Nat /\ marks[u].read \in Nat
    BY <1>2 DEF Shape, Procs, Marks
  <2>keep. ASSUME UNCHANGED <<readMu, marks>>,
                  \A p \in Procs : job'[p].at = "put" => job'[p] = job[p]
           PROVE  Marking' /\ Rise
    BY <1>2, <2>keep, <2>job DEF Marking, Rise
  <2>cast. ASSUME NEW u, NEW online, Broadcast(u, online)
           PROVE  \A p \in Procs : job'[p].at = "put" => job'[p] = job[p]
    BY <2>cast, <2>job DEF Broadcast, Idle
  <2>1. ASSUME NEW c \in Conns, Register(c)
        PROVE  Marking' /\ Rise
    BY <2>1, <2>keep, <2>cast DEF Register
  <2>2. ASSUME NEW c \in Conns, Write(c)
        PROVE  Marking' /\ Rise
    BY <2>2, <2>keep DEF Write
  <2>3. ASSUME NEW c \in Conns, Unregister(c)
        PROVE  Marking' /\ Rise
    BY <2>3, <2>keep, <2>cast DEF Unregister
  <2>4. ASSUME NEW c \in Conns, GetMarks(c)
        PROVE  Marking' /\ Rise
    <3> DEFINE u == UserOf[c]
    <3>1. PICK seq \in 1..MaxSeq, read \in BOOLEAN :
            job' = [job EXCEPT ![c] = [Idle EXCEPT !.at = "put", !.topic = Receipt(u),
                                                   !.val = Raise(marks[u], seq, read)]]
      BY <2>4 DEF GetMarks
    <3>2. /\ Raise(marks[u], seq, read).delivered >= marks[u].delivered
          /\ Raise(marks[u], seq, read).read >= marks[u].read
          /\ Raise(marks[u], seq, read).read <= Raise(marks[u], seq, read).delivered
      <4>1. /\ u \in Users /\ seq \in Nat
            /\ marks[u].delivered \in Nat /\ marks[u].read \in Nat
            /\ marks[u].read <= marks[u].delivered
        BY <1>2, <2>job DEF Marking
      <4> QED
        BY <4>1 DEF Raise, Greater
    <3>3. \A d \in Conns : job[d].at # "put"
      BY <1>2, <2>4 DEF Marking, GetMarks
    <3>4. job'[c].val = Raise(marks[u], seq, read)
      BY <3>1, <2>job DEF Idle
    <3>5. \A d \in Conns : job'[d].at = "put" => d = c
      BY <3>1, <3>3, <2>job
    <3>6. marks' = marks /\ readMu' = c
      BY <2>4 DEF GetMarks
    <3> QED
      BY <1>2, <3>2, <3>4, <3>5, <3>6, <2>job DEF Marking, Rise
  <2>5. ASSUME NEW c \in Conns, PutMarks(c)
        PROVE  Marking' /\ Rise
    <3>1. \A d \in Conns : job'[d].at # "put"
      BY <1>2, <2>5, <2>job DEF Marking, PutMarks, Jobs
    <3>2. marks' = [marks EXCEPT ![UserOf[c]] = job[c].val] /\ job[c].at = "put"
      BY <2>5 DEF PutMarks
    <3>3. /\ job[c].val.delivered >= marks[UserOf[c]].delivered
          /\ job[c].val.read >= marks[UserOf[c]].read
          /\ job[c].val.read <= job[c].val.delivered
      BY <1>2, <3>2 DEF Marking
    <3>4. Rise
      BY <1>2, <3>2, <3>3, <2>job DEF Marking, Rise
    <3> QED
      BY <3>1, <3>4 DEF Marking, Rise
  <2>6. ASSUME NEW p \in Procs, React(p)
        PROVE  Marking' /\ Rise
    BY <2>6, <2>keep, <2>job DEF React, Idle
  <2>7. ASSUME NEW p \in Procs, CountReaction(p)
        PROVE  Marking' /\ Rise
    <3>1. job'[p].at = "announce" /\ \A q \in Procs : q # p => job'[q] = job[q]
      BY <2>7, <2>job DEF CountReaction, Jobs
    <3> QED
      BY <2>7, <3>1, <2>keep DEF CountReaction
  <2>8. ASSUME NEW p \in Procs, Announce(p)
        PROVE  Marking' /\ Rise
    BY <2>8, <2>keep, <2>job DEF Announce, Jobs
  <2>9. ASSUME NEW p \in Procs, SendToUsers(p) \/ SendToOwn(p)
        PROVE  Marking' /\ Rise
    BY <2>9, <2>keep, <2>job DEF SendToUsers, SendToOwn, Deliver, Idle
  <2>13. ASSUME NEW p \in Procs, GiveUp(p)
         PROVE  Marking' /\ Rise
    BY <2>13, <2>keep, <2>job DEF GiveUp, Idle
  <2>14. ASSUME NEW p \in Procs, FailPut(p)
         PROVE  Marking' /\ Rise
    <3>1. \A d \in Conns : job'[d].at # "put"
      <4>1. job' = [job EXCEPT ![p] = Idle] /\ Idle.at # "put" /\ p \in Conns /\ job[p].at = "put"
        BY <1>2, <2>14 DEF FailPut, Idle, Shape
      <4> QED
        BY <1>2, <4>1, <2>job DEF Marking
    <3>2. marks' = marks
      BY <2>14 DEF FailPut
    <3> QED
      BY <1>2, <3>1, <3>2, <2>job DEF Marking, Rise
  <2>10. CASE CloseAll
    BY <2>10, <2>keep DEF CloseAll
  <2>11. CASE UNCHANGED vars
    BY <2>11, <2>keep DEF vars
  <2>12. \A p \in Conns \cup Callers : p \in Procs
    BY DEF Procs
  <2>15. ASSUME NEW p \in Procs, GoOn(p) \/ Trouble(p)
         PROVE  Marking' /\ Rise
    <3>1. PutMarks(p) => p \in Conns
      BY <1>2 DEF PutMarks, Shape
    <3> QED
      BY <2>15, <3>1, <2>5, <2>7, <2>8, <2>9, <2>13, <2>14 DEF GoOn, Trouble
  <2> QED
    BY <1>2, <2>1, <2>2, <2>3, <2>4, <2>6, <2>10, <2>11, <2>12, <2>15
       DEF Next, ReactOverWS, ReactOverREST
<1>3. Shape /\ Marking /\ [Next]_vars => Marking' /\ [Rise]_vars
  BY <1>2
<1> QED
  BY <1>1, <1>3, ShapeInit, ShapeStep, PTL DEF Spec, WatermarksRise

\* Goroutine p is announcing topic t.
Busy(p, t) == job[p].topic = t /\ job[p].at \in {"count", "announce", "send"}

\* What makes a topic be told right that is not amiss: one
\* goroutine at most announces it, with what is so; a connection it leaves out
\* has not been told anything else meanwhile.
Tells(t) ==
  /\ \A p, q \in Procs : Busy(p, t) /\ Busy(q, t) => p = q
  /\ \A p \in Procs : Busy(p, t) /\ job[p].at # "count" => job[p].val = Truth(t)
  /\ \A p \in Procs, c \in Conns :
       Busy(p, t) /\ job[p].at = "send" /\ c \in Excluded(p) => told[c][t] = None
  /\ ~Announcing(t) => \A c \in Conns : Live(c) => told[c][t] \in {None, Truth(t)}

Truthful ==
  /\ \A c \in Conns, t \in Topics : at[c] = "off" => told[c][t] = None
  /\ \A p \in Procs : job[p].at = "count" => job[p].topic = Reaction
  /\ \A t \in Topics \ amiss : Tells(t)

\* What a step that queues p's frames for the connections cs makes of a state.
Sent(p, cs) ==
  /\ job[p].at = "send" /\ job'[p] = Idle
  /\ \A q \in Procs \ {p} : job'[q] = job[q]
  /\ \A t \in Topics : Truth(t)' = Truth(t)
  /\ at' = at
  /\ \A d \in Conns : closes'[d] = IF d \in cs /\ ~HasRoom(d) THEN 1 ELSE closes[d]
  /\ \A d \in Conns \ cs, t \in Topics : told'[d][t] = told[d][t]
  /\ \A d \in Conns, t \in Topics :
       d \in cs /\ HasRoom(d) /\ closes[d] = 0 /\ t = job[p].topic => told'[d][t] = job[p].val
  /\ \A d \in Conns, t \in Topics : at'[d] = "off" => told'[d][t] = None
  /\ \A q \in Procs : job'[q].at = "count" => job'[q].topic = Reaction
  /\ \A t \in Topics \ amiss : t # job[p].topic => Tells(t)'

\* What a connection that lives on was told last is so, unless two changes of the
\* same thing overlapped or one was not announced to everybody, for an error of
\* the database: for any number of users, devices and goroutines (hub.go:47-159,
\* client.go:262-319).
THEOREM ToldIsTrue == Spec => []ToldTheTruth
<1>1. Init => Truthful
  BY Truths DEF Init, Truthful, Tells, Busy, Live, Idle, Untold, Procs
<1>2. ASSUME Shape, Truthful, [Next]_vars, Shape'
      PROVE  Truthful'
  <2> USE UsersAssumption, NoneAssumption
  <2>job. job \in [Procs -> Jobs] /\ Conns \subseteq Procs
    BY <1>2 DEF Shape, Procs
  <2>told. told \in [Conns -> [Topics -> News]]
    BY <1>2 DEF Shape
  <2>idle. Idle.at = "idle" /\ Idle.topic = None
    BY DEF Idle
  <2>truth. /\ \A u \in Users : Truth(Presence(u))' = Online(u)' /\ Truth(Receipt(u))' = marks'[u]
            /\ Truth(Reaction)' = Cardinality(reacted')
    BY DEF Truth, Presence, Receipt, Reaction
  \* A topic that is left alone: its announcements go on as they were.
  <2>frame. ASSUME NEW t \in Topics, t \notin amiss, Truth(t)' = Truth(t),
                   \A p \in Procs : Busy(p, t)' => Busy(p, t) /\ job'[p] = job[p],
                   \A p \in Procs : Busy(p, t) => Busy(p, t)',
                   \A c \in Conns : \/ told'[c][t] = None
                                    \/ told'[c][t] = told[c][t] /\ (Live(c)' => Live(c))
            PROVE  Tells(t)'
    <3>1. Tells(t)
      BY <1>2, <2>frame DEF Truthful
    <3>2. Announcing(t)' <=> Announcing(t)
      BY <2>frame DEF Announcing, Busy
    <3>3. \A p \in Procs : Busy(p, t)' => Excluded(p)' = Excluded(p)
      BY <2>frame DEF Excluded
    <3> QED
      BY <2>frame, <3>1, <3>2, <3>3 DEF Tells
  \* A change of a topic that nobody is announcing.
  <2>fresh. ASSUME NEW t \in Topics, NEW b \in Procs, ~Announcing(t),
                   \A p \in Procs \ {b} : job'[p] = job[p],
                   job'[b].at \in {"count", "announce"}, job'[b].topic = t,
                   job'[b].at = "announce" => job'[b].val = Truth(t)'
            PROVE  Tells(t)'
    <3>1. \A p \in Procs : Busy(p, t)' <=> p = b
      BY <2>fresh DEF Announcing, Busy
    <3>2. Announcing(t)'
      BY <2>fresh DEF Announcing
    <3> QED
      BY <2>fresh, <3>1, <3>2 DEF Tells
  \* Truth of a topic that is not changed.
  <2>same. ASSUME NEW t \in Topics,
                  \A u \in Users : t = Presence(u) => Online(u)' = Online(u),
                  \A u \in Users : t = Receipt(u) => marks'[u] = marks[u],
                  t = Reaction => reacted' = reacted
           PROVE  Truth(t)' = Truth(t)
    BY <2>same, <2>truth, Truths
  <2>cast. ASSUME NEW u \in Users, NEW online \in BOOLEAN, Broadcast(u, online), Online(u)' = online
           PROVE  /\ Presence(u) \notin amiss' => Tells(Presence(u))'
                  /\ \A t \in Topics \ {Presence(u)} :
                       /\ t \notin amiss' => t \notin amiss
                       /\ \A p \in Procs : Busy(p, t)' => Busy(p, t) /\ job'[p] = job[p]
                       /\ \A p \in Procs : Busy(p, t) => Busy(p, t)'
                  /\ \A p \in Procs : job'[p].at = "count" => job'[p] = job[p]
    <3>1. PICK b \in Casts : /\ IsIdle(b)
                            /\ job' = [job EXCEPT ![b] = [Idle EXCEPT !.at = "announce",
                                        !.topic = Presence(u), !.val = online]]
      BY <2>cast DEF Broadcast
    <3>2. /\ b \in Procs
          /\ job'[b].at = "announce" /\ job'[b].topic = Presence(u) /\ job'[b].val = online
          /\ \A p \in Procs \ {b} : job'[p] = job[p]
      BY <3>1, <2>job DEF Procs, Idle
    <3>3. \A t : ~Busy(b, t)
      BY <3>1 DEF Busy, IsIdle
    <3>4. Change(Presence(u)) /\ Presence(u) \in Topics
      BY <2>cast, Truths DEF Broadcast
    <3>5. Presence(u) \notin amiss' => Tells(Presence(u))'
      BY <3>2, <3>4, <2>fresh, <2>truth, <2>cast DEF Change
    <3>6. ASSUME NEW t \in Topics \ {Presence(u)}
          PROVE  /\ t \notin amiss' => t \notin amiss
                 /\ \A p \in Procs : Busy(p, t)' => Busy(p, t) /\ job'[p] = job[p]
                 /\ \A p \in Procs : Busy(p, t) => Busy(p, t)'
      BY <3>2, <3>3, <3>4 DEF Busy, Change
    <3> QED
      BY <3>2, <3>5, <3>6
  <2>1. ASSUME NEW c \in Conns, Register(c)
        PROVE  Truthful'
    <3> DEFINE u == UserOf[c]
    <3>1. /\ u \in Users
          /\ conns' = [conns EXCEPT ![u] = @ \cup {c}] /\ conns \in [Users -> SUBSET Conns]
          /\ at' = [at EXCEPT ![c] = "open"] /\ at[c] = "off"
          /\ UNCHANGED <<closes, marks, reacted, told>>
      BY <1>2, <2>1 DEF Register, Shape
    <3>2. Online(u)' /\ \A v \in Users \ {u} : Online(v)' = Online(v)
      BY <3>1 DEF Online
    <3>3. \A d \in Conns, t \in Topics : told'[d][t] = told[d][t]
            /\ (told'[d][t] = None \/ (Live(d)' => Live(d)))
      BY <1>2, <3>1 DEF Truthful, Live, Shape
    <3>4. \A d \in Conns, t \in Topics : at'[d] = "off" => told'[d][t] = None
      BY <1>2, <3>1 DEF Truthful, Shape
    <3>5. CASE Online(u)
      <4>1. UNCHANGED <<job, amiss>> /\ \A v \in Users : Online(v)' = Online(v)
        BY <2>1, <3>2, <3>5 DEF Register, Online
      <4>2. ASSUME NEW t \in Topics \ amiss
            PROVE  Tells(t)'
        BY <4>1, <3>1, <3>3, <2>same, <2>frame DEF Busy
      <4> QED
        BY <1>2, <4>1, <4>2, <3>4 DEF Truthful
    <3>6. CASE ~Online(u)
      <4>1. Broadcast(u, TRUE) /\ Online(u)' = TRUE
        BY <2>1, <3>2, <3>6 DEF Register
      <4>2. ASSUME NEW t \in Topics, t # Presence(u), t \notin amiss'
            PROVE  Tells(t)'
        <5>1. Truth(t)' = Truth(t)
          BY <4>2, <3>1, <3>2, <2>same, Truths
        <5> QED
          BY <4>1, <4>2, <5>1, <3>3, <2>cast, <2>frame
      <4> QED
        BY <1>2, <3>1, <3>4, <4>1, <4>2, <2>cast DEF Truthful
    <3> QED
      BY <3>5, <3>6
  <2>3. ASSUME NEW c \in Conns, Unregister(c)
        PROVE  Truthful'
    <3> DEFINE u == UserOf[c]
    <3>1. /\ u \in Users
          /\ conns' = [conns EXCEPT ![u] = @ \ {c}] /\ conns \in [Users -> SUBSET Conns]
          /\ at' = [at EXCEPT ![c] = "gone"] /\ at[c] = "open"
          /\ closes' = Closed({c})
          /\ told' = [told EXCEPT ![c] = Untold]
          /\ UNCHANGED <<marks, reacted>>
      BY <1>2, <2>3 DEF Unregister, Leave, Shape
    <3>2. \A v \in Users \ {u} : Online(v)' = Online(v)
      BY <3>1 DEF Online
    <3>3. \A d \in Conns, t \in Topics :
            told'[d][t] = None \/ (told'[d][t] = told[d][t] /\ (Live(d)' => Live(d)))
      BY <1>2, <3>1, <2>told DEF Live, Shape, Closed, Untold
    <3>4. \A d \in Conns, t \in Topics : at'[d] = "off" => told'[d][t] = None
      BY <1>2, <3>1, <2>told DEF Truthful, Shape, Untold
    <3>5. CASE conns[u] # {c}
      <4>1. UNCHANGED <<job, amiss>> /\ \A v \in Users : Online(v)' = Online(v)
        <5>1. c \in conns[u]
          BY <1>2, <3>1 DEF Shape
        <5>2. Online(u)' = Online(u)
          BY <3>1, <3>5, <5>1 DEF Online
        <5> QED
          BY <2>3, <3>2, <3>5, <5>2 DEF Unregister
      <4>2. ASSUME NEW t \in Topics \ amiss
            PROVE  Tells(t)'
        BY <4>1, <3>1, <3>3, <2>same, <2>frame DEF Busy
      <4> QED
        BY <1>2, <4>1, <4>2, <3>4 DEF Truthful
    <3>6. CASE conns[u] = {c}
      <4>1. Broadcast(u, FALSE) /\ Online(u)' = FALSE
        BY <2>3, <3>1, <3>6 DEF Unregister, Online
      <4>2. ASSUME NEW t \in Topics, t # Presence(u), t \notin amiss'
            PROVE  Tells(t)'
        <5>1. Truth(t)' = Truth(t)
          BY <4>2, <3>1, <3>2, <2>same, Truths
        <5> QED
          BY <4>1, <4>2, <5>1, <3>3, <2>cast, <2>frame
      <4> QED
        BY <1>2, <3>1, <3>4, <4>1, <4>2, <2>cast DEF Truthful
    <3> QED
      BY <3>5, <3>6
  \* A connection closed, or none; nothing else.
  <2>closing. ASSUME NEW cs, Close(cs), UNCHANGED <<conns, at, job, marks, reacted, amiss>>
              PROVE  Truthful'
    <3>1. \A d \in Conns, t \in Topics :
            told'[d][t] = None \/ (told'[d][t] = told[d][t] /\ (Live(d)' => Live(d)))
      BY <1>2, <2>closing, <2>told DEF Live, Shape, Close, Closed, Untold
    <3>2. ASSUME NEW t \in Topics \ amiss
          PROVE  Tells(t)'
      BY <2>closing, <3>1, <2>same, <2>frame DEF Busy, Online
    <3>3. \A d \in Conns, t \in Topics : at'[d] = "off" => told'[d][t] = None
      BY <1>2, <2>closing, <2>told DEF Truthful, Close, Untold
    <3> QED
      BY <1>2, <2>closing, <3>2, <3>3 DEF Truthful
  <2>2. ASSUME NEW c \in Conns, Write(c)
        PROVE  Truthful'
    <3>1. CASE Close({c})
      BY <2>2, <3>1, <2>closing DEF Write
    <3>2. CASE UNCHANGED <<closes, told>>
      <4>1. ASSUME NEW t \in Topics \ amiss
            PROVE  Tells(t)'
        BY <2>2, <3>2, <2>same, <2>frame DEF Write, Busy, Online, Live
      <4> QED
        BY <1>2, <2>2, <3>2, <4>1 DEF Write, Truthful
    <3> QED
      BY <2>2, <3>1, <3>2 DEF Write
  <2>4. ASSUME NEW c \in Conns, GetMarks(c)
        PROVE  Truthful'
    <3>1. /\ job[c].at = "idle" /\ job'[c].at = "put"
          /\ \A p \in Procs \ {c} : job'[p] = job[p]
          /\ UNCHANGED <<conns, at, closes, marks, reacted, told, amiss>>
      BY <2>4, <2>job DEF GetMarks, Dispatch, IsIdle, Idle
    <3>2. ASSUME NEW t \in Topics \ amiss
          PROVE  Tells(t)'
      BY <3>1, <3>2, <2>same, <2>frame DEF Busy, Online, Live
    <3> QED
      BY <1>2, <3>1, <3>2 DEF Truthful
  <2>5. ASSUME NEW c \in Conns, PutMarks(c)
        PROVE  Truthful'
    <3> DEFINE r == Receipt(UserOf[c])
    <3>1. /\ r \in Topics /\ UserOf[c] \in Users
          /\ job[c].at = "put" /\ job[c].topic = r
          /\ job'[c].at = "announce" /\ job'[c].topic = r /\ job'[c].val = job[c].val
          /\ \A p \in Procs \ {c} : job'[p] = job[p]
      BY <1>2, <2>5, <2>job, Truths DEF PutMarks, Shape, PutJob, Jobs
    <3>2. /\ marks' = [marks EXCEPT ![UserOf[c]] = job[c].val] /\ marks \in [Users -> Marks]
          /\ Change(r)
          /\ UNCHANGED <<conns, at, closes, reacted, told>>
      BY <1>2, <2>5 DEF PutMarks, Shape
    <3>3. r \notin amiss' => Tells(r)'
      BY <3>1, <3>2, <2>fresh, <2>job, <2>truth DEF Change
    <3>4. ASSUME NEW t \in Topics, t # r, t \notin amiss'
          PROVE  Tells(t)'
      <4>1. Truth(t)' = Truth(t)
        BY <3>2, <3>4, <2>same DEF Online
      <4> QED
        BY <3>1, <3>2, <3>4, <4>1, <2>frame DEF Busy, Change, Live
    <3> QED
      BY <1>2, <3>1, <3>2, <3>3, <3>4 DEF Truthful
  <2>6. ASSUME NEW p \in Procs, IsIdle(p), React(p)
        PROVE  Truthful'
    <3>1. /\ job[p].at = "idle" /\ job'[p].at = "count" /\ job'[p].topic = Reaction
          /\ \A q \in Procs \ {p} : job'[q] = job[q]
          /\ Change(Reaction)
          /\ UNCHANGED <<conns, at, closes, marks, told>>
      BY <2>6, <2>job DEF React, IsIdle, Idle
    <3>2. Reaction \notin amiss' => Tells(Reaction)'
      BY <3>1, <2>fresh, Truths DEF Change
    <3>3. ASSUME NEW t \in Topics, t # Reaction, t \notin amiss'
          PROVE  Tells(t)'
      <4>1. Truth(t)' = Truth(t)
        BY <3>1, <3>3, <2>same DEF Online
      <4> QED
        BY <3>1, <3>3, <4>1, <2>frame DEF Busy, Change, Live
    <3> QED
      BY <1>2, <3>1, <3>2, <3>3 DEF Truthful
  <2>7. ASSUME NEW p \in Procs, CountReaction(p)
        PROVE  Truthful'
    <3>1. /\ job[p].at = "count" /\ job[p].topic = Reaction
          /\ job'[p].at = "announce" /\ job'[p].topic = Reaction
          /\ job'[p].val = Cardinality(reacted)
          /\ \A q \in Procs \ {p} : job'[q] = job[q]
          /\ UNCHANGED <<conns, at, closes, marks, reacted, told, amiss>>
      BY <1>2, <2>7, <2>job DEF CountReaction, Truthful, Jobs
    <3>2. ASSUME NEW t \in Topics \ amiss
          PROVE  Truth(t)' = Truth(t)
      BY <3>1, <2>same DEF Online
    <3>3. \A q \in Procs, t \in Topics : Busy(q, t)' <=> Busy(q, t)
      BY <3>1 DEF Busy
    <3>4. ASSUME Reaction \notin amiss
          PROVE  Tells(Reaction)'
      <4>1. Tells(Reaction) /\ Busy(p, Reaction) /\ Announcing(Reaction)'
        BY <1>2, <3>1, <3>4, Truths DEF Truthful, Busy, Announcing
      <4>2. \A q \in Procs : Busy(q, Reaction)' => q = p
        BY <3>3, <4>1, Truths DEF Tells
      <4>3. job'[p].val = Truth(Reaction)'
        BY <3>1, <2>truth
      <4> QED
        BY <3>1, <4>1, <4>2, <4>3 DEF Tells
    <3>5. ASSUME NEW t \in Topics \ amiss, t # Reaction
          PROVE  Tells(t)'
      BY <3>1, <3>2, <3>5, <2>frame DEF Busy, Live
    <3> QED
      BY <1>2, <3>1, <3>4, <3>5 DEF Truthful
  <2>8. ASSUME NEW p \in Procs, Announce(p)
        PROVE  Truthful'
    <3>0. PICK t0 : t0 = job[p].topic
      OBVIOUS
    <3>1. /\ job[p].at = "announce" /\ job'[p].at = "send"
          /\ job'[p].topic = t0 /\ job'[p].val = job[p].val
          /\ \A q \in Procs \ {p} : job'[q] = job[q]
          /\ UNCHANGED <<conns, at, closes, marks, reacted, amiss>>
      BY <2>8, <3>0, <2>job DEF Announce, Jobs
    <3>2. \A d \in Conns, t \in Topics :
            told'[d][t] = IF d \in Excluded(p) /\ t = t0 THEN None ELSE told[d][t]
      BY <2>8, <3>0, <2>told DEF Announce
    <3>3. ASSUME NEW t \in Topics
          PROVE  Truth(t)' = Truth(t)
      BY <3>1, <2>same DEF Online
    <3>4. ASSUME t0 \in Topics \ amiss
          PROVE  Tells(t0)'
      <4>1. Tells(t0) /\ Busy(p, t0) /\ Announcing(t0)'
        BY <1>2, <3>0, <3>1, <3>4 DEF Truthful, Busy, Announcing
      <4>2. \A q \in Procs : Busy(q, t0)' => q = p
        BY <3>1, <4>1 DEF Tells, Busy
      <4>3. job'[p].val = Truth(t0)'
        BY <3>1, <3>3, <3>4, <4>1 DEF Tells
      <4>4. Excluded(p)' = Excluded(p)
        BY <3>0, <3>1 DEF Excluded
      <4> QED
        BY <3>2, <3>4, <4>1, <4>2, <4>3, <4>4 DEF Tells
    <3>5. ASSUME NEW t \in Topics \ amiss, t # t0
          PROVE  Tells(t)'
      BY <3>0, <3>1, <3>2, <3>3, <3>5, <2>frame DEF Busy, Live
    <3>6. \A d \in Conns, t \in Topics : at'[d] = "off" => told'[d][t] = None
      BY <1>2, <3>1, <3>2 DEF Truthful
    <3> QED
      BY <1>2, <3>1, <3>4, <3>5, <3>6 DEF Truthful
  \* Frames queued for some users: topics other than that of the frames.
  <2>sent. ASSUME NEW p \in Procs, job[p].at = "send", job' = [job EXCEPT ![p] = Idle],
                  UNCHANGED <<conns, at, marks, reacted>>,
                  NEW cs, TrySend(cs, job[p].topic, job[p].val),
                  cs \subseteq UNION {conns[u] : u \in Users}
           PROVE  Sent(p, cs)
    <3>0. PICK t0 : t0 = job[p].topic
      OBVIOUS
    <3>1. /\ job[p].at = "send" /\ job'[p] = Idle
          /\ \A q \in Procs \ {p} : job'[q] = job[q]
          /\ UNCHANGED <<conns, at, marks, reacted>>
          /\ TrySend(cs, t0, job[p].val)
      BY <2>sent, <3>0, <2>job
    <3>3. \A d \in Conns : closes'[d] = IF d \in cs /\ ~HasRoom(d) THEN 1 ELSE closes[d]
      BY <3>1 DEF TrySend, Closed
    <3>4. \A d \in Conns, t \in Topics :
            told'[d][t] = CASE d \in cs /\ ~HasRoom(d) -> None
                            [] d \in cs /\ HasRoom(d) /\ closes[d] = 0 /\ t = t0 -> job[p].val
                            [] OTHER -> told[d][t]
      BY <3>1, <2>told DEF TrySend, Untold
    <3>5. ASSUME NEW t \in Topics
          PROVE  Truth(t)' = Truth(t)
      BY <3>1, <2>same DEF Online
    <3>7. ASSUME NEW t \in Topics \ amiss, t # t0
          PROVE  Tells(t)'
      <4>1. \A d \in Conns :
              told'[d][t] = None \/ (told'[d][t] = told[d][t] /\ (Live(d)' => Live(d)))
        BY <3>1, <3>3, <3>4, <3>7 DEF Live
      <4> QED
        BY <3>0, <3>1, <3>5, <3>7, <4>1, <2>idle, <2>frame DEF Busy
    <3>8. \A d \in Conns, t \in Topics : at'[d] = "off" => told'[d][t] = None
      <4>1. \A d \in Conns : at[d] = "off" => d \notin cs
        BY <1>2, <2>sent DEF Shape
      <4> QED
        BY <1>2, <3>1, <3>4, <4>1 DEF Truthful
    <3>9. \A q \in Procs : job'[q].at = "count" => job'[q].topic = Reaction
      BY <1>2, <3>1, <2>idle DEF Truthful
    <3> QED
      BY <3>0, <3>1, <3>3, <3>4, <3>5, <3>7, <3>8, <3>9 DEF Sent
  <2>9. ASSUME NEW p \in Procs, SendToUsers(p)
        PROVE  Truthful'
    <3>0. PICK t0, cs : t0 = job[p].topic /\ cs = (UNION {conns[u] : u \in Users}) \ Excluded(p)
      OBVIOUS
    <3>1. /\ job[p].at = "send" /\ job' = [job EXCEPT ![p] = Idle]
          /\ UNCHANGED <<conns, at, marks, reacted>> /\ amiss' = amiss
          /\ TrySend(cs, job[p].topic, job[p].val)
          /\ cs \subseteq UNION {conns[u] : u \in Users}
      BY <2>9, <3>0 DEF SendToUsers, Deliver
    <3>2. \A d \in Conns : at[d] = "open" => d \in cs \cup Excluded(p)
      BY <1>2, <3>0 DEF Shape
    <3>3. job'[p] = Idle /\ \A q \in Procs \ {p} : job'[q] = job[q]
      BY <3>1, <2>job
    <3>8. Sent(p, cs)
      BY <3>1, <2>sent
    <3>4. /\ \A t \in Topics : Truth(t)' = Truth(t)
          /\ \A d \in Conns : closes'[d] = IF d \in cs /\ ~HasRoom(d) THEN 1 ELSE closes[d]
          /\ \A d \in Conns \ cs, t \in Topics : told'[d][t] = told[d][t]
      BY <3>8 DEF Sent
    <3>5. \A d \in Conns, t \in Topics :
            d \in cs /\ HasRoom(d) /\ closes[d] = 0 /\ t = job[p].topic => told'[d][t] = job[p].val
      BY <3>8 DEF Sent
    <3>7. /\ \A d \in Conns, t \in Topics : at'[d] = "off" => told'[d][t] = None
          /\ \A q \in Procs : job'[q].at = "count" => job'[q].topic = Reaction
          /\ \A t \in Topics \ amiss : t # job[p].topic => Tells(t)'
      BY <3>8 DEF Sent
    <3>6. ASSUME t0 \in Topics \ amiss
          PROVE  Tells(t0)'
      <4>1. Tells(t0) /\ Busy(p, t0)
        BY <1>2, <3>0, <3>1, <3>6 DEF Truthful, Busy
      <4>2. \A q \in Procs : ~Busy(q, t0)'
        BY <3>3, <4>1, <2>idle DEF Tells, Busy
      <4>3. ASSUME NEW d \in Conns, Live(d)'
            PROVE  told'[d][t0] \in {None, Truth(t0)'}
        <5>1. Live(d) /\ ~(d \in cs /\ ~HasRoom(d))
          BY <3>1, <3>4, <4>3 DEF Live
        <5>2. CASE d \in cs
          BY <3>0, <3>1, <3>4, <3>5, <3>6, <4>1, <5>1, <5>2 DEF Live, Tells
        <5>3. CASE d \notin cs
          <6>1. d \in Excluded(p)
            BY <3>2, <5>1, <5>3 DEF Live
          <6>2. told[d][t0] = None
            BY <3>1, <4>1, <6>1 DEF Tells
          <6> QED
            BY <3>4, <3>6, <5>3, <6>2
        <5> QED
          BY <5>2, <5>3
      <4> QED
        BY <4>2, <4>3 DEF Tells
    <3> QED
      BY <3>0, <3>1, <3>6, <3>7 DEF Truthful
  <2>13. ASSUME NEW p \in Procs, SendToOwn(p)
         PROVE  Truthful'
    <3>1. job[p].at = "send" /\ job[p].topic[1] = "presence" /\ job[p].topic \in Topics
      BY <2>13, <2>job DEF SendToOwn, Jobs
    <3>2. job[p].topic[2] \in Users
      BY <3>1 DEF Topics, Presence, Receipt, Reaction
    <3>4. PICK cs : cs = (UNION {conns[u] : u \in {job[p].topic[2]}}) \ Excluded(p)
      OBVIOUS
    <3>3. /\ job' = [job EXCEPT ![p] = Idle]
          /\ UNCHANGED <<conns, at, marks, reacted>>
          /\ TrySend(cs, job[p].topic, job[p].val)
          /\ amiss' = amiss \cup {job[p].topic}
      BY <2>13, <3>4 DEF SendToOwn, Deliver
    <3>6. cs \subseteq UNION {conns[u] : u \in Users}
      BY <3>2, <3>4
    <3>7. Sent(p, cs)
      BY <3>1, <3>3, <3>6, <2>sent
    <3>5. /\ \A d \in Conns, t \in Topics : at'[d] = "off" => told'[d][t] = None
          /\ \A q \in Procs : job'[q].at = "count" => job'[q].topic = Reaction
          /\ \A t \in Topics \ amiss : t # job[p].topic => Tells(t)'
      BY <3>7 DEF Sent
    <3> QED
      BY <3>3, <3>5 DEF Truthful
  \* The announcement of a topic is dropped, or a put that failed.
  <2>14. ASSUME NEW p \in Procs, GiveUp(p) \/ FailPut(p)
         PROVE  Truthful'
    <3>1. /\ job'[p] = Idle
          /\ \A q \in Procs \ {p} : job'[q] = job[q]
          /\ UNCHANGED <<conns, at, closes, marks, reacted, told>>
          /\ amiss \subseteq amiss'
          /\ \A t : Busy(p, t) => t \in amiss'
      BY <2>14, <2>job DEF GiveUp, FailPut, Busy
    <3>2. ASSUME NEW t \in Topics \ amiss'
          PROVE  Tells(t)'
      <4>1. Truth(t)' = Truth(t)
        BY <3>1, <2>same DEF Online
      <4> QED
        BY <3>1, <3>2, <4>1, <2>idle, <2>frame DEF Busy, Live
    <3> QED
      BY <1>2, <3>1, <3>2, <2>idle DEF Truthful
  <2>10. CASE CloseAll
    BY <2>10, <2>closing DEF CloseAll
  <2>11. CASE UNCHANGED vars
    <3>1. ASSUME NEW t \in Topics \ amiss
          PROVE  Tells(t)'
      BY <2>11, <2>same, <2>frame DEF vars, Busy, Online, Live
    <3> QED
      BY <1>2, <2>11, <3>1 DEF vars, Truthful
  <2>12. /\ \A c \in Conns : ReactOverWS(c) => c \in Procs /\ IsIdle(c) /\ React(c)
         /\ \A p \in Callers : ReactOverREST(p) => p \in Procs /\ IsIdle(p) /\ React(p)
    BY DEF Procs, ReactOverWS, ReactOverREST, Dispatch
  <2>15. ASSUME NEW p \in Procs, GoOn(p) \/ Trouble(p)
         PROVE  Truthful'
    <3>1. PutMarks(p) => p \in Conns
      BY <1>2 DEF PutMarks, Shape
    <3> QED
      BY <2>15, <3>1, <2>5, <2>7, <2>8, <2>9, <2>13, <2>14 DEF GoOn, Trouble
  <2> QED
    BY <1>2, <2>1, <2>2, <2>3, <2>4, <2>6, <2>10, <2>11, <2>12, <2>15 DEF Next
<1>3. Truthful => ToldTheTruth
  BY DEF Truthful, Tells, ToldTheTruth
<1> QED
  BY <1>1, <1>2, <1>3, ShapeInit, ShapeStep, PTL DEF Spec
=============================================================================

-------------------------- MODULE ChatBrokerProofs --------------------------
(***************************************************************************)
(* What is true of ChatBroker for any connections, lines and failures:     *)
(* the type invariant, and its three safety invariants.                    *)
(*                                                                         *)
(* UniqueNicknames.  A nickname is given to a connection in the step that  *)
(* registers it, and a connection registers once: that registered          *)
(* connections are past their handshake (PastHandshake) is what makes the  *)
(* invariant inductive.                                                    *)
(*                                                                         *)
(* PostsInOrder.  A task tells where it stands by what it has posted       *)
(* (PostsFitPlaces): nothing before it announces its client, the joining   *)
(* from then on, the leaving when it is closed.                            *)
(*                                                                         *)
(* OneKnowsTheOther.  It is a fact about clients from their registration   *)
(* on, not from their subscription (OneOfTwoKnows): the second to register *)
(* is listed the first, which is registered as long as it is there         *)
(* (PresentAreRegistered).  Later only a message that somebody left takes  *)
(* a nickname from a view, and by PostsFitPlaces that one is closed.       *)
(***************************************************************************)
EXTENDS ChatBroker, TLAPS

PastHandshake == \A c \in clients : at[c] \notin {"idle", "handshake"}

RegistryInv == TypeOK /\ PastHandshake /\ UniqueNicknames

LEMMA TypeInit == Init => RegistryInv
  BY ChatAssumption
  DEF Init, RegistryInv, TypeOK, PastHandshake, UniqueNicknames, Place

LEMMA GoesType ==
  ASSUME TypeOK, NEW c \in Client, NEW p \in Place, NEW q \in Place, Goes(c, p, q)
  PROVE  at' \in [Client -> Place]
  BY DEF TypeOK, Goes

\* The end of a session clears what belongs to it.
LEMMA EndType ==
  ASSUME TypeOK, NEW c \in Client, NEW q \in Place, EndSession(c, q), UNCHANGED posted
  PROVE  /\ at' \in [Client -> Place]
         /\ pos' \in [Client -> 0 .. Len(posted')]
         /\ partial' \in [Client -> {"none", "held", "lost"}]
         /\ view' \in [Client -> SUBSET (Nickname \cup {None})]
<1>1. Len(posted) \in Nat
  BY DEF TypeOK
<1>2. 0 \in 0 .. Len(posted)
  BY <1>1
<1>3. at' \in [Client -> Place]
  BY GoesType DEF EndSession, Place
<1>4. pos' \in [Client -> 0 .. Len(posted)]
  BY <1>2 DEF EndSession, TypeOK
<1> QED
  BY <1>3, <1>4 DEF EndSession, TypeOK

LEMMA CountType ==
  ASSUME TypeOK, NEW c \in Client, NEW line, CanRead(c, line), CountLine(c)
  PROVE  read' \in [Client -> 0 .. MaxLines]
<1>1. read[c] + 1 \in 0 .. MaxLines
  BY ChatAssumption DEF TypeOK, CanRead
<1> QED
  BY <1>1 DEF TypeOK, CountLine

\* A message posted keeps every position a position.
LEMMA BroadcastType ==
  ASSUME TypeOK, NEW m \in Post \cup {Notice}, Broadcast(m)
  PROVE  /\ posted' \in Seq(Post \cup {Notice})
         /\ Len(posted') \in Nat
         /\ \A p \in [Client -> 0 .. Len(posted)] : p \in [Client -> 0 .. Len(posted')]
<1>1. posted' \in Seq(Post \cup {Notice}) /\ Len(posted') = Len(posted) + 1
  BY DEF TypeOK, Broadcast
<1>2. Len(posted) \in Nat
  BY DEF TypeOK
<1>3. 0 .. Len(posted) \subseteq 0 .. Len(posted')
  BY <1>1, <1>2
<1> QED
  BY <1>1, <1>2, <1>3

LEMMA TypeNext == TypeOK /\ [Next]_vars => TypeOK'
<1> SUFFICES ASSUME TypeOK, [Next]_vars PROVE TypeOK'
  OBVIOUS
<1>1. CASE Shutdown
  <2>1. posted' \in Seq(Post \cup {Notice}) /\ pos' \in [Client -> 0 .. Len(posted')]
    BY <1>1, BroadcastType DEF Shutdown, TypeOK
  <2> QED
    BY <1>1, <2>1 DEF Shutdown, TypeOK, lineVars
<1>2. ASSUME NEW c \in Client, Accept(c) PROVE TypeOK'
  <2>1. at' \in [Client -> Place]
    BY <1>2, GoesType DEF Accept, Place
  <2> QED
    BY <1>2, <2>1 DEF Accept, TypeOK, lineVars
<1>3. ASSUME NEW c \in Client, HangUp(c) PROVE TypeOK'
  BY <1>3 DEF HangUp, TypeOK
<1>4. ASSUME NEW c \in Client, Hear(c) PROVE TypeOK'
  <2>1. CASE Register(c)
    <3>1. PICK name \in Nickname :
            /\ nick' = [nick EXCEPT ![c] = name]
            /\ view' = [view EXCEPT ![c] = Roster \cup {name}]
      BY <2>1 DEF Register
    <3>2. Roster \cup {name} \in SUBSET (Nickname \cup {None})
      BY DEF TypeOK, Roster
    <3>3. view' \in [Client -> SUBSET (Nickname \cup {None})]
      BY <3>1, <3>2 DEF TypeOK
    <3>4. nick' \in [Client -> Nickname \cup {None}]
      BY <3>1 DEF TypeOK
    <3>5. at' \in [Client -> Place]
      BY <2>1, GoesType DEF Register, Place
    <3> QED
      BY <2>1, <3>3, <3>4, <3>5 DEF Register, TypeOK, lineVars
  <2>2. CASE Refuse(c)
    <3>1. at' \in [Client -> Place]
      BY <2>2, GoesType DEF Refuse, Place
    <3> QED
      BY <2>2, <3>1 DEF Refuse, TypeOK, lineVars
  <2>3. CASE ReadChat(c)
    <3>1. /\ posted' \in Seq(Post \cup {Notice})
          /\ \A p \in [Client -> 0 .. Len(posted)] : p \in [Client -> 0 .. Len(posted')]
      BY <2>3, BroadcastType DEF ReadChat, Post
    <3>2. read' \in [Client -> 0 .. MaxLines]
      BY <2>3, CountType DEF ReadChat
    <3> QED
      BY <2>3, <3>1, <3>2 DEF ReadChat, TypeOK
  <2>4. CASE ReadOther(c)
    <3>1. read' \in [Client -> 0 .. MaxLines]
      BY <2>4, CountType DEF ReadOther
    <3> QED
      BY <2>4, <3>1 DEF ReadOther, TypeOK
  <2>5. CASE ReadHead(c)
    <3>1. read' \in [Client -> 0 .. MaxLines]
      BY <2>5, CountType DEF ReadHead
    <3> QED
      BY <2>5, <3>1 DEF ReadHead, TypeOK
  <2>6. CASE ReadBad(c)
    <3>1. read' \in [Client -> 0 .. MaxLines]
      BY <2>6, CountType DEF ReadBad
    <3>2. "failed" \in Place
      BY DEF Place
    <3> QED
      BY <2>6, <3>1, <3>2, EndType DEF ReadBad, TypeOK
  <2> QED
    BY <1>4, <2>1, <2>2, <2>3, <2>4, <2>5, <2>6 DEF Hear
<1>5. ASSUME NEW c \in Client, Task(c) PROVE TypeOK'
  <2> USE DEF Place
  <2>1. CASE AnnounceJoined(c) \/ AnnounceLeft(c)
    <3>1. /\ posted' \in Seq(Post \cup {Notice})
          /\ \A p \in [Client -> 0 .. Len(posted)] : p \in [Client -> 0 .. Len(posted')]
      BY <2>1, BroadcastType DEF AnnounceJoined, AnnounceLeft, Post
    <3>2. at' \in [Client -> Place]
      BY <2>1, GoesType DEF AnnounceJoined, AnnounceLeft
    <3> QED
      BY <2>1, <3>1, <3>2 DEF AnnounceJoined, AnnounceLeft, TypeOK, lineVars
  <2>2. CASE WelcomeFails(c)
    <3>1. at' \in [Client -> Place]
      BY <2>2, GoesType DEF WelcomeFails
    <3>2. view' \in [Client -> SUBSET (Nickname \cup {None})]
      BY <2>2 DEF WelcomeFails, TypeOK
    <3> QED
      BY <2>2, <3>1, <3>2 DEF WelcomeFails, TypeOK, lineVars
  <2>3. CASE Subscribe(c)
    <3>1. at' \in [Client -> Place]
      BY <2>3, GoesType DEF Subscribe
    <3>2. Len(posted) \in 0 .. Len(posted)
      BY DEF TypeOK
    <3>3. pos' \in [Client -> 0 .. Len(posted)]
      BY <2>3, <3>2 DEF Subscribe, TypeOK
    <3> QED
      BY <2>3, <3>1, <3>3 DEF Subscribe, TypeOK, lineVars
  <2>4. CASE ReadTail(c)
    <3>1. partial' \in [Client -> {"none", "held", "lost"}]
      BY <2>4 DEF ReadTail, TypeOK
    <3>2. CASE UNCHANGED posted
      BY <2>4, <3>1, <3>2 DEF ReadTail, TypeOK
    <3>3. CASE Broadcast([type |-> "chat", from |-> c])
      <4>1. /\ posted' \in Seq(Post \cup {Notice})
            /\ \A p \in [Client -> 0 .. Len(posted)] : p \in [Client -> 0 .. Len(posted')]
        BY <3>3, BroadcastType DEF Post
      <4> QED
        BY <2>4, <3>1, <4>1 DEF ReadTail, TypeOK
    <3> QED
      BY <2>4, <3>2, <3>3 DEF ReadTail
  <2>5. CASE ReadEof(c) \/ ReadFails(c) \/ DeliverFails(c)
    <3>1. PICK q \in Place : EndSession(c, q)
      BY <2>5 DEF ReadEof, ReadFails, DeliverFails
    <3>2. UNCHANGED <<serving, nick, clients, posted, read, peer>>
      BY <2>5 DEF ReadEof, ReadFails, DeliverFails
    <3> QED
      BY <3>1, <3>2, EndType DEF TypeOK
  <2>6. CASE Deliver(c) \/ Lagged(c)
    <3>1. partial' \in [Client -> {"none", "held", "lost"}]
      BY <2>6 DEF Deliver, Lagged, DropRead, TypeOK
    <3>2. pos' \in [Client -> 0 .. Len(posted)]
      <4>1. Len(posted) \in Nat /\ pos[c] \in 0 .. Len(posted) /\ Oldest \in 0 .. Len(posted)
        BY ChatAssumption DEF TypeOK, Oldest
      <4>2. CASE Deliver(c)
        <5>1. pos[c] + 1 \in 0 .. Len(posted)
          BY <4>1, <4>2 DEF Deliver
        <5> QED
          BY <4>2, <5>1 DEF Deliver, TypeOK
      <4>3. CASE Lagged(c)
        BY <4>1, <4>3 DEF Lagged, TypeOK
      <4> QED
        BY <2>6, <4>2, <4>3
    <3>3. view' \in [Client -> SUBSET (Nickname \cup {None})]
      <4>1. CASE Deliver(c)
        <5> DEFINE m == posted[pos[c] + 1]
        <5>1. pos[c] + 1 \in 1 .. Len(posted)
          BY <4>1 DEF Deliver, TypeOK
        <5>2. m \in Post \cup {Notice}
          BY <5>1 DEF TypeOK
        <5>3. m.type \in {"joined", "left"} => m.from \in Client
          BY <5>2 DEF Post, Notice
        <5>4. view[c] \subseteq Nickname \cup {None}
          BY DEF TypeOK
        <5> DEFINE v == CASE m.type = "joined" -> view[c] \cup {nick[m.from]}
                          [] m.type = "left"   -> view[c] \ {nick[m.from]}
                          [] OTHER             -> view[c]
        <5>5. v \in SUBSET (Nickname \cup {None})
          <6>1. CASE m.type = "joined"
            BY <5>3, <5>4, <6>1 DEF TypeOK
          <6>2. CASE m.type = "left"
            BY <5>3, <5>4, <6>2 DEF TypeOK
          <6>3. CASE m.type \notin {"joined", "left"}
            BY <5>4, <6>3
          <6> QED
            BY <6>1, <6>2, <6>3
        <5>6. view' = [view EXCEPT ![c] = v]
          BY <4>1 DEF Deliver
        <5> HIDE DEF v
        <5> QED
          BY <5>5, <5>6 DEF TypeOK
      <4>2. CASE Lagged(c)
        BY <4>2 DEF Lagged, TypeOK
      <4> QED
        BY <2>6, <4>1, <4>2
    <3> QED
      BY <2>6, <3>1, <3>2, <3>3 DEF Deliver, Lagged, TypeOK
  <2>7. CASE Unregister(c)
    <3>1. at' \in [Client -> Place]
      BY <2>7, GoesType DEF Unregister
    <3> QED
      BY <2>7, <3>1 DEF Unregister, TypeOK, lineVars
  <2> QED
    BY <1>5, <2>1, <2>2, <2>3, <2>4, <2>5, <2>6, <2>7 DEF Task
<1>6. CASE UNCHANGED vars
  BY <1>6 DEF vars, lineVars, TypeOK
<1> QED
  BY <1>1, <1>2, <1>3, <1>4, <1>5, <1>6 DEF Next

-----------------------------------------------------------------------------
(* The registry.                                                           *)

\* Steps that register nobody: no connection goes back to its handshake, and
\* nicknames and registrations are only given up.
LEMMA RegistryKept ==
  ASSUME TypeOK, PastHandshake, UniqueNicknames,
         nick' = nick, clients' \subseteq clients,
         \A d \in Client : at'[d] \in {"idle", "handshake"} => at[d] \in {"idle", "handshake"}
  PROVE  PastHandshake' /\ UniqueNicknames'
  BY DEF TypeOK, PastHandshake, UniqueNicknames

LEMMA RegistryNext == RegistryInv /\ [Next]_vars => RegistryInv'
<1> SUFFICES ASSUME RegistryInv, [Next]_vars PROVE PastHandshake' /\ UniqueNicknames'
  BY TypeNext DEF RegistryInv
<1>1. TypeOK /\ PastHandshake /\ UniqueNicknames
  BY DEF RegistryInv
<1>2. ASSUME NEW c \in Client, Register(c)
      PROVE  PastHandshake' /\ UniqueNicknames'
  <2>1. PICK name \in Nickname :
          /\ ~NicknameTaken(c, name)
          /\ nick' = [nick EXCEPT ![c] = name]
    BY <1>2 DEF Register
  <2>2. c \notin clients /\ clients' = clients \cup {c}
    BY <1>1, <1>2 DEF Register, Goes, PastHandshake
  <2>3. /\ nick'[c] = name
        /\ \A d \in clients : nick'[d] = nick[d] /\ nick'[d] # name
    BY <1>1, <2>1, <2>2 DEF TypeOK, NicknameTaken
  <2>4. UniqueNicknames'
    BY <1>1, <2>2, <2>3 DEF UniqueNicknames
  <2>5. at'[c] = "welcome" /\ \A d \in Client \ {c} : at'[d] = at[d]
    BY <1>1, <1>2 DEF Register, Goes, TypeOK
  <2>6. PastHandshake'
    BY <1>1, <2>2, <2>5 DEF PastHandshake, TypeOK
  <2> QED
    BY <2>4, <2>6
<1>3. ASSUME NEW c \in Client, NEW p, NEW q, Goes(c, p, q),
             q \in {"idle", "handshake"} => p \in {"idle", "handshake"}
      PROVE  \A d \in Client : at'[d] \in {"idle", "handshake"} => at[d] \in {"idle", "handshake"}
  BY <1>1, <1>3 DEF Goes, TypeOK
<1>4. ASSUME NEW c \in Client, Accept(c) \/ Refuse(c) \/ WelcomeFails(c)
                               \/ AnnounceJoined(c) \/ Subscribe(c)
                               \/ Unregister(c) \/ AnnounceLeft(c)
      PROVE  PastHandshake' /\ UniqueNicknames'
  <2>1. PICK p, q : Goes(c, p, q) /\ (q \in {"idle", "handshake"} => p \in {"idle", "handshake"})
    BY <1>4
    DEF Accept, Refuse, WelcomeFails, AnnounceJoined, Subscribe, Unregister, AnnounceLeft
  <2>2. nick' = nick /\ clients' \subseteq clients
    BY <1>4
    DEF Accept, Refuse, WelcomeFails, AnnounceJoined, Subscribe, Unregister, AnnounceLeft
  <2> QED
    BY <1>1, <1>3, <2>1, <2>2, RegistryKept
<1>5. ASSUME NEW c \in Client, ReadBad(c) \/ ReadFails(c) \/ ReadEof(c) \/ DeliverFails(c)
      PROVE  PastHandshake' /\ UniqueNicknames'
  <2>1. PICK q \in {"failed", "leave"} : Goes(c, "session", q)
    BY <1>5 DEF ReadBad, ReadFails, ReadEof, DeliverFails, EndSession
  <2>2. nick' = nick /\ clients' = clients
    BY <1>5 DEF ReadBad, ReadFails, ReadEof, DeliverFails
  <2> QED
    BY <1>1, <1>3, <2>1, <2>2, RegistryKept
<1>6. ASSUME UNCHANGED <<at, nick, clients>>
      PROVE  PastHandshake' /\ UniqueNicknames'
  BY <1>1, <1>6, RegistryKept
<1>7. CASE Next
  <2>1. CASE Shutdown
    BY <1>6, <2>1 DEF Shutdown
  <2>2. ASSUME NEW c \in Client, HangUp(c) \/ ReadChat(c) \/ ReadOther(c) \/ ReadHead(c)
                                 \/ ReadTail(c) \/ Deliver(c) \/ Lagged(c)
        PROVE  UNCHANGED <<at, nick, clients>>
    BY <2>2 DEF HangUp, ReadChat, ReadOther, ReadHead, ReadTail, Deliver, Lagged
  <2> QED
    BY <1>2, <1>4, <1>5, <1>6, <1>7, <2>1, <2>2 DEF Next, Hear, Task
<1>8. CASE UNCHANGED vars
  BY <1>6, <1>8 DEF vars
<1> QED
  BY <1>7, <1>8

-----------------------------------------------------------------------------
\* The broker's registry and channel and its tasks keep their types, and no inbox
\* is past the end of the channel.
THEOREM BrokerTypes == Spec => []TypeOK
<1>1. Init => TypeOK
  BY TypeInit DEF RegistryInv
<1> QED
  BY <1>1, TypeNext, PTL DEF Spec

\* No two registered clients share a nickname, for any number of connections,
\* any lines and any failures.
THEOREM NicknamesAreUnique == Spec => []UniqueNicknames
<1>1. RegistryInv => UniqueNicknames
  BY DEF RegistryInv
<1> QED
  BY <1>1, TypeInit, RegistryNext, PTL DEF Spec

-----------------------------------------------------------------------------
(* What is broadcast of one client.                                        *)

\* Where a connection stands says what was posted of it: nothing before it is
\* announced, its joining from then on, its leaving only when all is done.
Early     == {"idle", "handshake", "welcome", "refused"}
Announced == {"subscribe", "session", "leave", "left", "closed"}

PostsFitPlaces ==
  \A c \in Client :
    /\ at[c] \in Early => PostsBy(c) = {}
    /\ at[c] # "closed" => \A i \in PostsBy(c) : posted[i].type # "left"
    /\ at[c] \in Announced => \E i \in PostsBy(c) : posted[i].type = "joined"

PostsInv == TypeOK /\ PostsFitPlaces /\ PostsInOrder

LEMMA PostedGrows ==
  ASSUME TypeOK, NEW m \in Post \cup {Notice}, Broadcast(m)
  PROVE  /\ Len(posted) \in Nat
         /\ Len(posted') = Len(posted) + 1
         /\ posted'[Len(posted) + 1] = m
         /\ \A i \in 1 .. Len(posted) : posted'[i] = posted[i]
  BY DEF TypeOK, Broadcast

\* A message from c is one more of its posts, and nobody else's.
LEMMA PostsByGrows ==
  ASSUME TypeOK, NEW c \in Client, NEW t \in {"joined", "chat", "left"},
         Broadcast([type |-> t, from |-> c])
  PROVE  /\ PostsBy(c)' = PostsBy(c) \cup {Len(posted) + 1}
         /\ \A d \in Client \ {c} : PostsBy(d)' = PostsBy(d)
<1> DEFINE m == [type |-> t, from |-> c]
           By(d) == [type : {"joined", "chat", "left"}, from : {d}]
<1>1. m \in Post
  BY DEF Post
<1>2. /\ Len(posted) \in Nat
      /\ Len(posted') = Len(posted) + 1
      /\ posted'[Len(posted) + 1] = m
      /\ \A i \in 1 .. Len(posted) : posted'[i] = posted[i]
  BY <1>1, PostedGrows
<1>3. m \in By(c) /\ \A d \in Client \ {c} : m \notin By(d)
  OBVIOUS
<1>4. 1 .. Len(posted') = 1 .. Len(posted) \cup {Len(posted) + 1}
  BY <1>2
<1> HIDE DEF m, By
<1>5. ASSUME NEW d \in Client
      PROVE  /\ PostsBy(d) = {i \in 1 .. Len(posted) : posted[i] \in By(d)}
             /\ PostsBy(d)' = {i \in 1 .. Len(posted') : posted'[i] \in By(d)}
  BY DEF PostsBy, By
<1> DEFINE n == Len(posted) + 1
           D == 1 .. Len(posted)
<1>6. /\ posted'[n] = m /\ \A i \in D : posted'[i] = posted[i]
      /\ \A d \in Client : /\ PostsBy(d) = {i \in D : posted[i] \in By(d)}
                           /\ PostsBy(d)' = {i \in D \cup {n} : posted'[i] \in By(d)}
  BY <1>2, <1>4, <1>5
<1> HIDE DEF n, D
<1>7. PostsBy(c)' = PostsBy(c) \cup {n}
  BY <1>3, <1>6
<1>8. ASSUME NEW d \in Client \ {c} PROVE PostsBy(d)' = PostsBy(d)
  <2>1. /\ PostsBy(d) = {i \in D : posted[i] \in By(d)}
        /\ PostsBy(d)' = {i \in D \cup {n} : posted'[i] \in By(d)}
        /\ posted'[n] \notin By(d) /\ \A i \in D : posted'[i] = posted[i]
    BY <1>3, <1>6
  <2> QED
    BY <2>1
<1> QED
  BY <1>7, <1>8 DEF n

\* The notice of the shutdown is nobody's post.
LEMMA NoticeIsNoPost ==
  ASSUME TypeOK, Broadcast(Notice), NEW d \in Client
  PROVE  PostsBy(d)' = PostsBy(d)
<1> DEFINE By(e) == [type : {"joined", "chat", "left"}, from : {e}]
<1>1. /\ Len(posted) \in Nat
      /\ Len(posted') = Len(posted) + 1
      /\ posted'[Len(posted) + 1] = Notice
      /\ \A i \in 1 .. Len(posted) : posted'[i] = posted[i]
  BY PostedGrows
<1>2. Notice \notin By(d)
  BY DEF Notice
<1>3. 1 .. Len(posted') = 1 .. Len(posted) \cup {Len(posted) + 1}
  BY <1>1
<1> HIDE DEF By
<1>4. /\ PostsBy(d) = {i \in 1 .. Len(posted) : posted[i] \in By(d)}
      /\ PostsBy(d)' = {i \in 1 .. Len(posted') : posted'[i] \in By(d)}
  BY DEF PostsBy, By
<1> DEFINE n == Len(posted) + 1
           D == 1 .. Len(posted)
<1>5. /\ posted'[n] = Notice /\ \A i \in D : posted'[i] = posted[i]
      /\ PostsBy(d) = {i \in D : posted[i] \in By(d)}
      /\ PostsBy(d)' = {i \in D \cup {n} : posted'[i] \in By(d)}
  BY <1>1, <1>3, <1>4
<1> HIDE DEF n, D
<1> QED
  BY <1>2, <1>5

\* Steps that post nothing of a client, and move it only where its posts fit.
LEMMA PostsKept ==
  ASSUME PostsInv,
         \A d \in Client : PostsBy(d)' = PostsBy(d),
         \A i \in 1 .. Len(posted) : posted'[i] = posted[i],
         \A d \in Client :
           /\ at'[d] \in Early => at[d] \in Early
           /\ at'[d] # "closed" => at[d] # "closed"
           /\ at'[d] \in Announced => at[d] \in Announced
  PROVE  PostsFitPlaces' /\ PostsInOrder'
<1>1. \A d \in Client : \A i \in PostsBy(d) : posted'[i] = posted[i]
  BY DEF PostsBy
<1>2. PostsFitPlaces'
  BY <1>1 DEF PostsInv, PostsFitPlaces
<1>3. PostsInOrder'
  BY <1>1 DEF PostsInv, PostsInOrder
<1> QED
  BY <1>2, <1>3

\* Steps that post a message of c: its first is that it joined, and the one
\* that it left finds it announced and closes it.
LEMMA PostsAdded ==
  ASSUME PostsInv, NEW c \in Client, NEW t \in {"joined", "chat", "left"},
         Broadcast([type |-> t, from |-> c]),
         NEW q \in Announced, at' = [at EXCEPT ![c] = q],
         t = "joined" => at[c] \in Early,
         t # "joined" => at[c] \in Announced \ {"closed"},
         t = "left" => q = "closed"
  PROVE  PostsFitPlaces' /\ PostsInOrder'
<1> DEFINE n == Len(posted) + 1
<1>1. TypeOK /\ PostsFitPlaces /\ PostsInOrder
  BY DEF PostsInv
<1>2. /\ PostsBy(c)' = PostsBy(c) \cup {n}
      /\ \A d \in Client \ {c} : PostsBy(d)' = PostsBy(d)
  BY <1>1, PostsByGrows
<1>3. [type |-> t, from |-> c] \in Post
  BY DEF Post
<1>4. /\ Len(posted) \in Nat
      /\ posted'[n].type = t
      /\ \A i \in 1 .. Len(posted) : posted'[i] = posted[i]
  BY <1>1, <1>3, PostedGrows
<1>5. \A d \in Client : \A i \in PostsBy(d) :
        posted'[i] = posted[i] /\ i \in Nat /\ i < n /\ ~(n <= i)
  BY <1>4 DEF PostsBy
<1>6. at'[c] = q /\ \A d \in Client \ {c} : at'[d] = at[d]
  BY <1>1 DEF TypeOK
<1>7. n \in Nat /\ n <= n
  BY <1>4
<1>8. t \in {"joined", "chat", "left"} /\ q \in Announced /\ q \notin Early
  BY DEF Announced, Early
<1> HIDE DEF n
<1>9. t = "joined" => PostsBy(c) = {}
  BY <1>1 DEF PostsFitPlaces
<1>10. t # "joined" => /\ \E i \in PostsBy(c) : posted[i].type = "joined"
                       /\ \A i \in PostsBy(c) : posted[i].type # "left"
  BY <1>1 DEF PostsFitPlaces, Announced
<1>11. PostsFitPlaces'
  <2> SUFFICES ASSUME NEW d \in Client
               PROVE  /\ at'[d] \in Early => PostsBy(d)' = {}
                      /\ at'[d] # "closed" => \A i \in PostsBy(d)' : posted'[i].type # "left"
                      /\ at'[d] \in Announced => \E i \in PostsBy(d)' : posted'[i].type = "joined"
    BY DEF PostsFitPlaces
  <2>1. CASE d = c
    BY <1>2, <1>4, <1>5, <1>6, <1>8, <1>9, <1>10, <2>1
  <2>2. CASE d # c
    BY <1>1, <1>2, <1>5, <1>6, <2>2 DEF PostsFitPlaces
  <2> QED
    BY <2>1, <2>2
<1>12. PostsInOrder'
  <2> SUFFICES ASSUME NEW d \in Client, NEW j \in PostsBy(d)'
               PROVE  IF posted'[j].type = "joined"
                      THEN \A i \in PostsBy(d)' : j <= i
                      ELSE /\ \E i \in PostsBy(d)' : i < j /\ posted'[i].type = "joined"
                           /\ \A i \in PostsBy(d)' : i < j => posted'[i].type # "left"
    BY DEF PostsInOrder
  <2>1. CASE d # c
    BY <1>1, <1>2, <1>5, <2>1 DEF PostsInOrder
  <2>2. CASE d = c /\ j = n
    BY <1>2, <1>4, <1>5, <1>7, <1>9, <1>10, <2>2
  <2>3. CASE d = c /\ j # n
    <3>1. j \in PostsBy(c) /\ j < n /\ ~(n < j) /\ j <= n /\ posted'[j] = posted[j]
      BY <1>2, <1>5, <1>7, <2>3
    <3> QED
      BY <1>1, <1>2, <1>5, <2>3, <3>1 DEF PostsInOrder
  <2> QED
    BY <2>1, <2>2, <2>3
<1> QED
  BY <1>11, <1>12

LEMMA PostsNext == PostsInv /\ [Next]_vars => PostsInv'
<1> SUFFICES ASSUME PostsInv, [Next]_vars PROVE PostsFitPlaces' /\ PostsInOrder'
  BY TypeNext DEF PostsInv
<1>1. TypeOK
  BY DEF PostsInv
<1>2. ASSUME UNCHANGED posted,
             \A d \in Client :
               /\ at'[d] \in Early => at[d] \in Early
               /\ at'[d] # "closed" => at[d] # "closed"
               /\ at'[d] \in Announced => at[d] \in Announced
      PROVE  PostsFitPlaces' /\ PostsInOrder'
  <2>1. \A d \in Client : PostsBy(d)' = PostsBy(d)
    BY <1>2 DEF PostsBy
  <2> QED
    BY <1>2, <2>1, PostsKept
<1>3. ASSUME UNCHANGED <<posted, at>>
      PROVE  PostsFitPlaces' /\ PostsInOrder'
  BY <1>2, <1>3
<1>4. ASSUME UNCHANGED posted, NEW c \in Client, NEW p, NEW q, Goes(c, p, q),
             /\ q \in Early => p \in Early
             /\ q # "closed" => p # "closed"
             /\ q \in Announced => p \in Announced
      PROVE  PostsFitPlaces' /\ PostsInOrder'
  <2>1. at[c] = p /\ at'[c] = q /\ \A d \in Client \ {c} : at'[d] = at[d]
    BY <1>1, <1>4 DEF Goes, TypeOK
  <2> QED
    BY <1>2, <1>4, <2>1
<1>5. CASE Shutdown
  <2>1. Broadcast(Notice) /\ UNCHANGED at
    BY <1>5 DEF Shutdown
  <2>2. \A i \in 1 .. Len(posted) : posted'[i] = posted[i]
    BY <1>1, <2>1, PostedGrows
  <2>3. \A d \in Client : PostsBy(d)' = PostsBy(d)
    BY <1>1, <2>1, NoticeIsNoPost
  <2> QED
    BY <2>1, <2>2, <2>3, PostsKept
<1>6. ASSUME NEW c \in Client, Accept(c) \/ Register(c) \/ Refuse(c) \/ WelcomeFails(c)
                               \/ Subscribe(c) \/ Unregister(c)
      PROVE  PostsFitPlaces' /\ PostsInOrder'
  <2>1. PICK p, q : /\ Goes(c, p, q)
                    /\ q \in Early => p \in Early
                    /\ q # "closed" => p # "closed"
                    /\ q \in Announced => p \in Announced
    BY <1>6 DEF Accept, Register, Refuse, WelcomeFails, Subscribe, Unregister, Early, Announced
  <2>2. UNCHANGED posted
    BY <1>6 DEF Accept, Register, Refuse, WelcomeFails, Subscribe, Unregister
  <2> QED
    BY <1>4, <2>1, <2>2
<1>7. ASSUME NEW c \in Client, ReadBad(c) \/ ReadFails(c) \/ ReadEof(c) \/ DeliverFails(c)
      PROVE  PostsFitPlaces' /\ PostsInOrder'
  <2>1. PICK q \in {"failed", "leave"} : Goes(c, "session", q)
    BY <1>7 DEF ReadBad, ReadFails, ReadEof, DeliverFails, EndSession
  <2>2. UNCHANGED posted
    BY <1>7 DEF ReadBad, ReadFails, ReadEof, DeliverFails
  <2>3. /\ q \in Early => "session" \in Early
        /\ q # "closed" => "session" # "closed"
        /\ q \in Announced => "session" \in Announced
    BY DEF Early, Announced
  <2> QED
    BY <1>4, <2>1, <2>2, <2>3
<1>8. ASSUME NEW c \in Client, HangUp(c) \/ ReadOther(c) \/ ReadHead(c) \/ Deliver(c) \/ Lagged(c)
      PROVE  PostsFitPlaces' /\ PostsInOrder'
  <2>1. UNCHANGED <<posted, at>>
    BY <1>8 DEF HangUp, ReadOther, ReadHead, Deliver, Lagged
  <2> QED
    BY <1>3, <2>1
<1>9. ASSUME NEW c \in Client, AnnounceJoined(c)
      PROVE  PostsFitPlaces' /\ PostsInOrder'
  <2>1. /\ Broadcast([type |-> "joined", from |-> c])
        /\ at[c] = "welcome" /\ at' = [at EXCEPT ![c] = "subscribe"]
    BY <1>9 DEF AnnounceJoined, Goes
  <2> QED
    BY <2>1, PostsAdded DEF Early, Announced
<1>10. ASSUME NEW c \in Client, AnnounceLeft(c)
       PROVE  PostsFitPlaces' /\ PostsInOrder'
  <2>1. /\ Broadcast([type |-> "left", from |-> c])
        /\ at[c] = "left" /\ at' = [at EXCEPT ![c] = "closed"]
    BY <1>10 DEF AnnounceLeft, Goes
  <2> QED
    BY <2>1, PostsAdded DEF Announced
<1>11. ASSUME NEW c \in Client, ReadChat(c) \/ ReadTail(c)
       PROVE  PostsFitPlaces' /\ PostsInOrder'
  <2>1. CASE UNCHANGED posted
    BY <1>3, <1>11, <2>1 DEF ReadChat, ReadTail
  <2>2. CASE Broadcast([type |-> "chat", from |-> c])
    <3>1. at[c] = "session" /\ at' = at
      BY <1>11 DEF ReadChat, ReadTail, CanRead
    <3>2. at' = [at EXCEPT ![c] = "session"]
      BY <1>1, <3>1 DEF TypeOK
    <3> QED
      BY <2>2, <3>1, <3>2, PostsAdded DEF Announced
  <2> QED
    BY <1>11, <2>1, <2>2 DEF ReadChat, ReadTail
<1>12. CASE UNCHANGED vars
  BY <1>3, <1>12 DEF vars
<1> QED
  BY <1>5, <1>6, <1>7, <1>8, <1>9, <1>10, <1>11, <1>12 DEF Next, Hear, Task

-----------------------------------------------------------------------------
(* Who has been told of whom.                                              *)

\* From its registration to the end of its session a connection is in the
\* chat, registered until it is unregistered, and has a view.
Present == {"welcome", "subscribe", "session"}

PresentAreRegistered ==
  \A c \in Client : at[c] \in Present \cup {"leave"} => c \in clients

\* OneKnowsTheOther, from the registration on: what is owed to a client that
\* has not subscribed yet is in its roster.
OneOfTwoKnows ==
  \A c, d \in Client :
    at[c] \in Present /\ at[d] \in Present /\ Alone(c) /\ Alone(d)
      => nick[d] \in view[c] \/ nick[c] \in view[d]

KnowsInv == PostsInv /\ PresentAreRegistered /\ OneOfTwoKnows

\* The places that Alone does not count.
Apart == {"idle", "handshake", "refused"}

LEMMA AloneWas ==
  ASSUME nick' = nick,
         \A d \in Client : at'[d] \in Apart => at[d] \in Apart,
         NEW c \in Client, Alone(c)'
  PROVE  Alone(c)
  BY DEF Alone, Apart

\* Steps that register nobody, and take nothing from those who stay.
LEMMA KnowsKept ==
  ASSUME KnowsInv, nick' = nick,
         \A d \in Client : at'[d] \in Apart => at[d] \in Apart,
         \A d \in Client : at'[d] \in Present => at[d] \in Present /\ view[d] \subseteq view'[d],
         \A d \in Client : at'[d] \in Present \cup {"leave"} =>
                             at[d] \in Present \cup {"leave"} /\ (d \in clients => d \in clients')
  PROVE  PresentAreRegistered' /\ OneOfTwoKnows'
<1>1. PresentAreRegistered'
  BY DEF KnowsInv, PresentAreRegistered
<1>2. OneOfTwoKnows'
  <2> SUFFICES ASSUME NEW c \in Client, NEW d \in Client,
                      at'[c] \in Present, at'[d] \in Present, Alone(c)', Alone(d)'
               PROVE  nick'[d] \in view'[c] \/ nick'[c] \in view'[d]
    BY DEF OneOfTwoKnows
  <2>1. Alone(c) /\ Alone(d)
    BY AloneWas
  <2>2. nick[d] \in view[c] \/ nick[c] \in view[d]
    BY <2>1 DEF KnowsInv, OneOfTwoKnows
  <2> QED
    BY <2>2
<1> QED
  BY <1>1, <1>2

\* The new client is listed every registered one, and none is there without
\* being registered.
LEMMA RegisterTells ==
  ASSUME KnowsInv, NEW c \in Client, Register(c)
  PROVE  PresentAreRegistered' /\ OneOfTwoKnows'
<1>1. TypeOK
  BY DEF KnowsInv, PostsInv
<1>2. PICK name \in Nickname :
        /\ nick' = [nick EXCEPT ![c] = name]
        /\ view' = [view EXCEPT ![c] = Roster \cup {name}]
  BY DEF Register
<1>3. /\ at[c] = "handshake" /\ at' = [at EXCEPT ![c] = "welcome"]
      /\ clients' = clients \cup {c}
  BY DEF Register, Goes
<1>4. /\ nick'[c] = name /\ view'[c] = Roster \cup {name} /\ at'[c] = "welcome"
      /\ \A d \in Client \ {c} : nick'[d] = nick[d] /\ view'[d] = view[d] /\ at'[d] = at[d]
  BY <1>1, <1>2, <1>3 DEF TypeOK
<1>5. PresentAreRegistered'
  BY <1>3, <1>4 DEF KnowsInv, PresentAreRegistered
<1>6. ASSUME NEW d \in Client, at'[d] \in Present PROVE nick'[d] \in view'[c]
  <2>1. CASE d = c
    BY <1>4, <2>1
  <2>2. CASE d # c
    <3>1. d \in clients
      BY <1>4, <1>6, <2>2 DEF KnowsInv, PresentAreRegistered
    <3> QED
      BY <1>4, <2>2, <3>1 DEF Roster
  <2> QED
    BY <2>1, <2>2
<1>7. ASSUME NEW d \in Client \ {c}, Alone(d)' PROVE Alone(d)
  BY <1>3, <1>4, <1>7 DEF Alone
<1>8. OneOfTwoKnows'
  <2> SUFFICES ASSUME NEW d \in Client, NEW e \in Client,
                      at'[d] \in Present, at'[e] \in Present, Alone(d)', Alone(e)'
               PROVE  nick'[e] \in view'[d] \/ nick'[d] \in view'[e]
    BY DEF OneOfTwoKnows
  <2>1. CASE d = c \/ e = c
    BY <1>6, <2>1
  <2>2. CASE d # c /\ e # c
    <3>1. Alone(d) /\ Alone(e) /\ at[d] \in Present /\ at[e] \in Present
      BY <1>4, <1>7, <2>2
    <3> QED
      BY <1>4, <2>2, <3>1 DEF KnowsInv, OneOfTwoKnows
  <2> QED
    BY <2>1, <2>2
<1> QED
  BY <1>5, <1>8

\* A message that somebody left takes a nickname from the view of c, but the
\* connection it is about is closed, and whoever is in the chat and had the
\* nickname to itself has another one.
LEMMA DeliverTells ==
  ASSUME KnowsInv, NEW c \in Client, Deliver(c)
  PROVE  PresentAreRegistered' /\ OneOfTwoKnows'
<1>1. TypeOK /\ PostsFitPlaces
  BY DEF KnowsInv, PostsInv
<1> DEFINE m == posted[pos[c] + 1]
<1>2. pos[c] + 1 \in 1 .. Len(posted) /\ m \in Post \cup {Notice}
  BY <1>1 DEF TypeOK, Deliver
<1>3. UNCHANGED <<at, nick, clients>>
  BY DEF Deliver
<1>4. \A d \in Client \ {c} : view'[d] = view[d]
  BY <1>1 DEF TypeOK, Deliver
<1>5. view'[c] = CASE m.type = "joined" -> view[c] \cup {nick[m.from]}
                   [] m.type = "left"   -> view[c] \ {nick[m.from]}
                   [] OTHER             -> view[c]
  BY <1>1 DEF TypeOK, Deliver
<1>6. CASE m.type # "left"
  <2>1. view[c] \subseteq view'[c]
    BY <1>5, <1>6
  <2> QED
    BY <1>3, <1>4, <2>1, KnowsKept
<1>7. CASE m.type = "left"
  <2>1. m \in [type : {"joined", "chat", "left"}, from : {m.from}] /\ m.from \in Client
    BY <1>2, <1>7 DEF Post, Notice
  <2>2. PICK e \in Client : e = m.from
    BY <2>1
  <2>3. pos[c] + 1 \in PostsBy(e)
    BY <1>2, <2>1, <2>2 DEF PostsBy
  <2>4. at[e] = "closed"
    BY <1>1, <1>7, <2>3 DEF PostsFitPlaces
  <2>5. view'[c] = view[c] \ {nick[e]}
    BY <1>5, <1>7, <2>2
  <2>6. ASSUME NEW d \in Client, Alone(d), at[d] \in Present PROVE nick[d] # nick[e]
    BY <2>4, <2>6 DEF Alone, Present
  <2>7. PresentAreRegistered'
    BY <1>3 DEF KnowsInv, PresentAreRegistered
  <2>8. \A d \in Client : Alone(d)' => Alone(d)
    BY <1>3 DEF Alone
  <2>9. \A d, f \in Client : Alone(f) /\ at[f] \in Present /\ nick[f] \in view[d] => nick[f] \in view'[d]
    BY <1>4, <2>5, <2>6
  <2>10. OneOfTwoKnows'
    <3> SUFFICES ASSUME NEW d \in Client, NEW f \in Client,
                        at'[d] \in Present, at'[f] \in Present, Alone(d)', Alone(f)'
                 PROVE  nick'[f] \in view'[d] \/ nick'[d] \in view'[f]
      BY DEF OneOfTwoKnows
    <3>1. nick[f] \in view[d] \/ nick[d] \in view[f]
      BY <1>3, <2>8 DEF KnowsInv, OneOfTwoKnows
    <3> QED
      BY <1>3, <2>8, <2>9, <3>1
  <2> QED
    BY <2>7, <2>10
<1> QED
  BY <1>6, <1>7

LEMMA KnowsNext == KnowsInv /\ [Next]_vars => KnowsInv'
<1> SUFFICES ASSUME KnowsInv, [Next]_vars PROVE PresentAreRegistered' /\ OneOfTwoKnows'
  BY PostsNext DEF KnowsInv
<1>1. TypeOK
  BY DEF KnowsInv, PostsInv
<1>2. ASSUME UNCHANGED <<at, nick, clients, view>>
      PROVE  PresentAreRegistered' /\ OneOfTwoKnows'
  BY <1>2, KnowsKept
<1>3. ASSUME NEW c \in Client, NEW p, NEW q, Goes(c, p, q),
             UNCHANGED nick, \A d \in Client \ {c} : d \in clients => d \in clients',
             \A d \in Client \ {c} : view'[d] = view[d],
             q \in Apart => p \in Apart,
             q \in Present => p \in Present /\ view'[c] = view[c],
             q \in Present \cup {"leave"} =>
               p \in Present \cup {"leave"} /\ (c \in clients => c \in clients')
      PROVE  PresentAreRegistered' /\ OneOfTwoKnows'
  <2>1. at[c] = p /\ at'[c] = q /\ \A d \in Client \ {c} : at'[d] = at[d]
    BY <1>1, <1>3 DEF Goes, TypeOK
  <2>2. \A d \in Client : at'[d] \in Apart => at[d] \in Apart
    BY <1>3, <2>1
  <2>3. \A d \in Client : at'[d] \in Present => at[d] \in Present /\ view[d] \subseteq view'[d]
    BY <1>3, <2>1
  <2>4. \A d \in Client : at'[d] \in Present \cup {"leave"} =>
          at[d] \in Present \cup {"leave"} /\ (d \in clients => d \in clients')
    BY <1>3, <2>1
  <2> QED
    BY <1>3, <2>2, <2>3, <2>4, KnowsKept
<1>4. ASSUME NEW c \in Client, Accept(c) \/ Refuse(c) \/ AnnounceJoined(c) \/ Subscribe(c)
                               \/ Unregister(c) \/ AnnounceLeft(c)
      PROVE  PresentAreRegistered' /\ OneOfTwoKnows'
  <2>1. PICK p, q : /\ Goes(c, p, q)
                    /\ q \in Apart => p \in Apart
                    /\ q \in Present => p \in Present
                    /\ q \in Present \cup {"leave"} =>
                         p \in Present \cup {"leave"} /\ (c \in clients => c \in clients')
    BY <1>4 DEF Accept, Refuse, AnnounceJoined, Subscribe, Unregister, AnnounceLeft, Apart, Present
  <2>2. UNCHANGED <<nick, view>> /\ \A d \in Client \ {c} : d \in clients => d \in clients'
    BY <1>4 DEF Accept, Refuse, AnnounceJoined, Subscribe, Unregister, AnnounceLeft
  <2> QED
    BY <1>3, <2>1, <2>2
<1>5. ASSUME NEW c \in Client, WelcomeFails(c) \/ ReadBad(c) \/ ReadFails(c) \/ ReadEof(c)
                               \/ DeliverFails(c)
      PROVE  PresentAreRegistered' /\ OneOfTwoKnows'
  <2>1. PICK p \in {"welcome", "session"}, q \in {"failed", "leave"} : Goes(c, p, q)
    BY <1>5 DEF WelcomeFails, ReadBad, ReadFails, ReadEof, DeliverFails, EndSession
  <2>2. view' = [view EXCEPT ![c] = {}]
    BY <1>5 DEF WelcomeFails, ReadBad, ReadFails, ReadEof, DeliverFails, EndSession
  <2>3. UNCHANGED <<nick, clients>>
    BY <1>5 DEF WelcomeFails, ReadBad, ReadFails, ReadEof, DeliverFails
  <2>4. \A d \in Client \ {c} : view'[d] = view[d]
    BY <1>1, <2>2 DEF TypeOK
  <2>5. q \notin Apart /\ q \notin Present /\ p \in Present
    BY DEF Apart, Present
  <2> QED
    BY <1>3, <2>1, <2>3, <2>4, <2>5
<1>6. ASSUME NEW c \in Client, HangUp(c) \/ ReadChat(c) \/ ReadOther(c) \/ ReadHead(c)
                               \/ ReadTail(c) \/ Lagged(c)
      PROVE  UNCHANGED <<at, nick, clients, view>>
  BY <1>6 DEF HangUp, ReadChat, ReadOther, ReadHead, ReadTail, Lagged
<1>7. CASE Shutdown
  BY <1>2, <1>7 DEF Shutdown
<1>8. CASE UNCHANGED vars
  BY <1>2, <1>8 DEF vars
<1> QED
  BY <1>2, <1>4, <1>5, <1>6, <1>7, <1>8, RegisterTells, DeliverTells DEF Next, Hear, Task

-----------------------------------------------------------------------------
LEMMA KnowsInit == Init => KnowsInv
<1> SUFFICES ASSUME Init PROVE KnowsInv
  OBVIOUS
<1>1. TypeOK
  BY TypeInit DEF RegistryInv
<1>2. \A c \in Client : PostsBy(c) = {} /\ at[c] = "idle"
  <2>1. 1 .. Len(posted) = {}
    BY DEF Init
  <2> QED
    BY <2>1 DEF Init, PostsBy
<1>3. PostsFitPlaces /\ PostsInOrder
  BY <1>2 DEF PostsFitPlaces, PostsInOrder, Announced
<1>4. PresentAreRegistered /\ OneOfTwoKnows
  BY <1>2 DEF PresentAreRegistered, OneOfTwoKnows, Present
<1> QED
  BY <1>1, <1>3, <1>4 DEF KnowsInv, PostsInv

\* What the broadcasts say of a client is that it joined, once and first, its
\* chats, and at the end, once, that it left, however the tasks interleave and
\* wherever they fail.
THEOREM PostsAreInOrder == Spec => []PostsInOrder
<1>1. Init => PostsInv
  BY KnowsInit DEF KnowsInv
<1>2. PostsInv => PostsInOrder
  BY DEF PostsInv
<1> QED
  BY <1>1, <1>2, PostsNext, PTL DEF Spec

\* Of any two clients in the chat, one at least has been told of the other.
THEOREM OneIsToldOfTheOther == Spec => []OneKnowsTheOther
<1>1. KnowsInv => OneKnowsTheOther
  BY DEF KnowsInv, OneOfTwoKnows, OneKnowsTheOther, Present
<1> QED
  BY <1>1, KnowsInit, KnowsNext, PTL DEF Spec
=============================================================================

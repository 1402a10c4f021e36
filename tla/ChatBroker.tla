----------------------------- MODULE ChatBroker -----------------------------
(***************************************************************************)
(* The broker of 9-local-chat-mesh (src/broker.rs) and its clients, as far *)
(* as their connections show.                                              *)
(*                                                                         *)
(* Each accepted connection has a task of its own; the tasks run on the    *)
(* threads of one tokio runtime and share the registry of nicknames, under *)
(* a mutex, and a broadcast channel.  A step of the model is what a task   *)
(* does up to its next use of shared state or of its connection: other     *)
(* tasks run in between, whether there is an await or not.                 *)
(*                                                                         *)
(* The broadcast channel numbers its messages and keeps the newest         *)
(* Capacity of them; a receiver is a position in that numbering.  The      *)
(* model keeps every message posted, which no receiver can tell.  What a   *)
(* client prints is reduced to its view, the nicknames it takes to be in   *)
(* the chat.  Left out: a client that stops reading, and the end of the    *)
(* process, which ends every task.                                         *)
(***************************************************************************)
EXTENDS Integers, Sequences

CONSTANTS Client,    \* connections
          Nickname,  \* what a hello may carry
          None,      \* no nickname
          Lines,     \* the kinds of line each connection may carry after the first
          Faulty,    \* the connections that may be reset
          Capacity,  \* of the broadcast channel
          MaxLines   \* bound on the lines of a connection after the first

\* A line is a chat, a chat of blanks, a hello, or no message of the protocol;
\* a split line is a chat that arrives in two segments.
Line == {"chat", "blank", "hello", "garbage", "split"}

ASSUME ChatAssumption ==
  /\ Lines \in [Client -> SUBSET Line]
  /\ Faulty \subseteq Client
  /\ None \notin Nickname
  /\ Capacity \in Nat \ {0}
  /\ MaxLines \in Nat

VARIABLES
  serving, \* the broker accepts connections
  at,      \* where the task of a connection stands
  nick,    \* the nickname of its hello
  clients, \* BrokerState::clients: the ids, which are connections
  posted,  \* the messages broadcast, oldest first
  pos,     \* the last message a session's inbox has taken
  read,    \* how many lines a session has read, or begun to read
  partial, \* the head of a split line: held by the read in progress, or lost
  peer,    \* the client's end of the connection
  view     \* the nicknames a client in the chat was told are there

lineVars == <<read, partial, peer>>
vars == <<serving, at, nick, clients, posted, pos, lineVars, view>>

\* Where a task stands: before the accept, reading the first line, writing the
\* welcome, about to subscribe, in the select loop, about to unregister, about
\* to announce that the client left; ended in good order, turned away, ended
\* by an error.
Place == {"idle", "handshake", "welcome", "subscribe", "session", "leave",
          "left", "closed", "refused", "failed"}

Post == [type : {"joined", "chat", "left"}, from : Client]
Notice == [type |-> "notice"] \* "broker shutting down"

Init ==
  /\ serving = TRUE
  /\ at      = [c \in Client |-> "idle"]
  /\ nick    = [c \in Client |-> None]
  /\ clients = {}
  /\ posted  = << >>
  /\ pos     = [c \in Client |-> 0]
  /\ read    = [c \in Client |-> 0]
  /\ partial = [c \in Client |-> "none"]
  /\ peer    = [c \in Client |-> "open"]
  /\ view    = [c \in Client |-> {}]

TypeOK ==
  /\ serving \in BOOLEAN
  /\ at      \in [Client -> Place]
  /\ nick    \in [Client -> Nickname \cup {None}]
  /\ clients \subseteq Client
  /\ posted  \in Seq(Post \cup {Notice})
  /\ pos     \in [Client -> 0 .. Len(posted)]
  /\ read    \in [Client -> 0 .. MaxLines]
  /\ partial \in [Client -> {"none", "held", "lost"}]
  /\ peer    \in [Client -> {"open", "eof", "reset"}]
  /\ view    \in [Client -> SUBSET (Nickname \cup {None})]

\* The task of c goes from place p to place q.
Goes(c, p, q) == at[c] = p /\ at' = [at EXCEPT ![c] = q]

Broadcast(m) == posted' = Append(posted, m)

-----------------------------------------------------------------------------
(* The listener and the clients.                                           *)

Accept(c) ==
  /\ serving
  /\ Goes(c, "idle", "handshake")
  /\ UNCHANGED <<serving, nick, clients, posted, pos, lineVars, view>>

\* run_until when its shutdown future completes.
Shutdown ==
  /\ serving
  /\ serving' = FALSE
  /\ Broadcast(Notice)
  /\ UNCHANGED <<at, nick, clients, pos, lineVars, view>>

\* A client closes its connection, having sent whole lines only; a faulty one
\* may lose it at any time.  Lines sent before may still be unread.
HangUp(c) ==
  /\ at[c] \notin {"idle", "closed", "refused", "failed"} /\ peer[c] = "open"
  /\ \/ peer' = [peer EXCEPT ![c] = "eof"]
     \/ c \in Faulty /\ peer' = [peer EXCEPT ![c] = "reset"]
  /\ UNCHANGED <<serving, at, nick, clients, posted, pos, read, partial, view>>

-----------------------------------------------------------------------------
(* handle_connection, up to the session.                                   *)

\* Faulty: only the id is looked up.
SameId(c, name) == c \in clients

NicknameTaken(c, name) == \E d \in clients : nick[d] = name

\* Faulty: only those already in the chat loop are listed.
RosterOfSessions == {nick[d] : d \in {e \in clients : at[e] = "session"}}

\* What register_client returns.
Roster == {nick[d] : d \in clients}

\* perform_handshake and register_client, which holds the mutex: the first line
\* is a hello, and its nickname is free.
Register(c) ==
  /\ Goes(c, "handshake", "welcome")
  /\ \E name \in Nickname :
       /\ ~NicknameTaken(c, name)
       /\ nick' = [nick EXCEPT ![c] = name]
       /\ view' = [view EXCEPT ![c] = Roster \cup {name}]
  /\ clients' = clients \cup {c}
  /\ UNCHANGED <<serving, posted, pos, lineVars>>

\* Or the nickname is blank or taken, or the line no hello, or there is none.
Refuse(c) ==
  /\ Goes(c, "handshake", "refused")
  /\ UNCHANGED <<serving, nick, clients, posted, pos, lineVars, view>>

\* A write to a reset connection fails; one to a client that has closed its end
\* may from the second on, which is the roster, sent unless it is empty.
WelcomeBreaks(c) ==
  peer[c] = "reset" \/ (peer[c] = "eof" /\ view[c] # {nick[c]})

\* Faulty: a welcome that fails is cleaned up like a session.
WelcomeFailsClean(c) ==
  /\ WelcomeBreaks(c)
  /\ Goes(c, "welcome", "leave")
  /\ view' = [view EXCEPT ![c] = {}]
  /\ UNCHANGED <<serving, nick, clients, posted, pos, lineVars>>

\* send_welcome_messages to a client that is gone: the error ends the task.
WelcomeFails(c) ==
  /\ WelcomeBreaks(c)
  /\ Goes(c, "welcome", "failed")
  /\ view' = [view EXCEPT ![c] = {}]
  /\ UNCHANGED <<serving, nick, clients, posted, pos, lineVars>>

\* The welcome is written and the client announced.
AnnounceJoined(c) ==
  /\ Goes(c, "welcome", "subscribe")
  /\ Broadcast([type |-> "joined", from |-> c])
  /\ UNCHANGED <<serving, nick, clients, pos, lineVars, view>>

\* Faulty: the inbox starts behind the tail of the channel.
SubscribeLate(c) ==
  /\ Goes(c, "subscribe", "session")
  /\ pos' = [pos EXCEPT ![c] = Len(posted) + 1]
  /\ UNCHANGED <<serving, nick, clients, posted, lineVars, view>>

\* run_client_session: only what is posted from now on reaches the inbox.
Subscribe(c) ==
  /\ Goes(c, "subscribe", "session")
  /\ pos' = [pos EXCEPT ![c] = Len(posted)]
  /\ UNCHANGED <<serving, nick, clients, posted, lineVars, view>>

-----------------------------------------------------------------------------
(* run_client_session: the arms of its select.                             *)

CanRead(c, line) ==
  /\ at[c] = "session" /\ partial[c] = "none"
  /\ line \in Lines[c] /\ read[c] < MaxLines

CountLine(c) == read' = [read EXCEPT ![c] = @ + 1]

\* The session is over: its inbox and the read in progress are dropped.
EndSession(c, q) ==
  /\ Goes(c, "session", q)
  /\ pos'     = [pos EXCEPT ![c] = 0]
  /\ partial' = [partial EXCEPT ![c] = "none"]
  /\ view'    = [view EXCEPT ![c] = {}]

ReadChat(c) ==
  /\ CanRead(c, "chat")
  /\ CountLine(c)
  /\ Broadcast([type |-> "chat", from |-> c])
  /\ UNCHANGED <<serving, at, nick, clients, pos, partial, peer, view>>

\* A chat of blanks is ignored; a second hello is answered "already connected".
ReadOther(c) ==
  /\ CanRead(c, "blank") \/ CanRead(c, "hello")
  /\ CountLine(c)
  /\ UNCHANGED <<serving, at, nick, clients, posted, pos, partial, peer, view>>

\* The head of a line is taken from the socket into the read in progress.
ReadHead(c) ==
  /\ CanRead(c, "split")
  /\ CountLine(c)
  /\ partial' = [partial EXCEPT ![c] = "held"]
  /\ UNCHANGED <<serving, at, nick, clients, posted, pos, peer, view>>

\* The tail completes the line, unless the read that took the head is gone:
\* then it is a line of its own, here just the line ending, which is skipped.
ReadTail(c) ==
  /\ at[c] = "session" /\ partial[c] # "none"
  /\ partial' = [partial EXCEPT ![c] = "none"]
  /\ \/ partial[c] = "held" /\ Broadcast([type |-> "chat", from |-> c])
     \/ partial[c] = "lost" /\ UNCHANGED posted
  /\ UNCHANGED <<serving, at, nick, clients, pos, read, peer, view>>

\* A line that is no message, or a second hello from a client that is gone,
\* so that the answer fails: the error ends the task.
ReadBad(c) ==
  /\ CanRead(c, "garbage") \/ (CanRead(c, "hello") /\ peer[c] # "open")
  /\ CountLine(c)
  /\ EndSession(c, "failed")
  /\ UNCHANGED <<serving, nick, clients, posted, peer>>

\* The same for a connection reset, and for the rest of a line whose head was
\* lost.
ReadFails(c) ==
  /\ peer[c] = "reset" \/ partial[c] = "lost"
  /\ EndSession(c, "failed")
  /\ UNCHANGED <<serving, nick, clients, posted, read, peer>>

\* Faulty: the end of the input is an error.
ReadEofFails(c) ==
  /\ peer[c] = "eof" /\ partial[c] = "none"
  /\ EndSession(c, "failed")
  /\ UNCHANGED <<serving, nick, clients, posted, read, peer>>

ReadEof(c) ==
  /\ peer[c] = "eof" /\ partial[c] = "none"
  /\ EndSession(c, "leave")
  /\ UNCHANGED <<serving, nick, clients, posted, read, peer>>

\* The position of the oldest message kept is the next one.
Oldest == IF Len(posted) > Capacity THEN Len(posted) - Capacity ELSE 0

\* The read that another arm of the select overtakes is dropped, with what it
\* held.
DropRead(c) ==
  partial' = [partial EXCEPT ![c] = IF @ = "held" THEN "lost" ELSE @]

\* The inbox has a message.
Deliver(c) ==
  /\ at[c] = "session" /\ Oldest <= pos[c] /\ pos[c] < Len(posted)
  /\ pos' = [pos EXCEPT ![c] = @ + 1]
  /\ DropRead(c)
  /\ LET m == posted[pos[c] + 1]
     IN  view' = [view EXCEPT ![c] =
                    CASE m.type = "joined" -> @ \cup {nick[m.from]}
                      [] m.type = "left"   -> @ \ {nick[m.from]}
                      [] OTHER             -> @]
  /\ UNCHANGED <<serving, at, nick, clients, posted, read, peer>>

\* Faulty: the warning is written and the inbox stays where it is.
LaggedStays(c) ==
  /\ at[c] = "session" /\ pos[c] < Oldest
  /\ DropRead(c)
  /\ UNCHANGED <<serving, at, nick, clients, posted, pos, read, peer, view>>

\* The inbox has lost messages: the client is warned how many, and reading
\* goes on with the oldest message kept.
Lagged(c) ==
  /\ at[c] = "session" /\ pos[c] < Oldest
  /\ pos' = [pos EXCEPT ![c] = Oldest]
  /\ DropRead(c)
  /\ UNCHANGED <<serving, at, nick, clients, posted, read, peer, view>>

\* Writing either to a client that is gone ends the session in good order.
DeliverFails(c) ==
  /\ at[c] = "session" /\ pos[c] < Len(posted) /\ peer[c] # "open"
  /\ EndSession(c, "leave")
  /\ UNCHANGED <<serving, nick, clients, posted, read, peer>>

-----------------------------------------------------------------------------
(* cleanup_client_disconnect.                                              *)

Unregister(c) ==
  /\ Goes(c, "leave", "left")
  /\ clients' = clients \ {c}
  /\ UNCHANGED <<serving, nick, posted, pos, lineVars, view>>

AnnounceLeft(c) ==
  /\ Goes(c, "left", "closed")
  /\ Broadcast([type |-> "left", from |-> c])
  /\ UNCHANGED <<serving, nick, clients, pos, lineVars, view>>

-----------------------------------------------------------------------------
\* What the client has to act for.
Hear(c) ==
  \/ Register(c) \/ Refuse(c)
  \/ ReadChat(c) \/ ReadOther(c) \/ ReadHead(c) \/ ReadBad(c)

\* What the task does by itself.
Task(c) ==
  \/ AnnounceJoined(c) \/ WelcomeFails(c) \/ Subscribe(c)
  \/ ReadTail(c) \/ ReadEof(c) \/ ReadFails(c)
  \/ Deliver(c) \/ Lagged(c) \/ DeliverFails(c)
  \/ Unregister(c) \/ AnnounceLeft(c)

Next ==
  \/ Shutdown
  \/ \E c \in Client : Accept(c) \/ HangUp(c) \/ Hear(c) \/ Task(c)

\* The runtime polls every task that can go on; a session that has something
\* to read or to deliver goes on, with whichever the select picks.
Fairness == \A c \in Client : WF_vars(Task(c))

Spec == Init /\ [][Next]_vars /\ Fairness

-----------------------------------------------------------------------------
(* Safety.                                                                 *)

\* No two registered clients have the same nickname, whatever the order in
\* which connections register, leave and fail (register_client).
UniqueNicknames ==
  \A c, d \in clients : nick[c] = nick[d] => c = d

\* What the broadcasts say of one client is in order: joined, its chats, left.
\* The steps that post them belong to five functions, and nobody is announced
\* as leaving who was not announced as joining.
PostsBy(c) == {i \in 1 .. Len(posted) : posted[i] \in [type : {"joined", "chat", "left"}, from : {c}]}
PostsInOrder ==
  \A c \in Client : \A j \in PostsBy(c) :
    IF posted[j].type = "joined"
    THEN \A i \in PostsBy(c) : j <= i
    ELSE /\ \E i \in PostsBy(c) : i < j /\ posted[i].type = "joined"
         /\ \A i \in PostsBy(c) : i < j => posted[i].type # "left"

\* A connection that never shared its nickname with a registered one.
Alone(c) ==
  \A d \in Client \ {c} :
    nick[d] = nick[c] => at[d] \in {"idle", "handshake", "refused"}

\* Of two people in the chat at least one has been told of the other, in its
\* roster or by a broadcast: registering lists the roster and adds to it at
\* once, so no two clients can miss each other both ways.
OneKnowsTheOther ==
  \A c, d \in Client :
    at[c] = "session" /\ at[d] = "session" /\ Alone(c) /\ Alone(d)
      => nick[d] \in view[c] \/ nick[c] \in view[d]

-----------------------------------------------------------------------------
(* Liveness.                                                               *)

\* A client in the chat that keeps to the protocol, its lines arriving whole,
\* is taken off the registry when it closes its connection, which frees its
\* nickname.
HangUpFreesNickname ==
  \A c \in Client :
    Lines[c] \subseteq {"chat", "blank"} /\ c \notin Faulty =>
      (at[c] = "session" /\ peer[c] = "eof" ~> c \notin clients)

\* A session is not left behind by the broadcasts, even after it has lagged.
SessionsCatchUp ==
  \A c \in Client :
    at[c] = "session" ~> at[c] # "session" \/ pos[c] = Len(posted)

-----------------------------------------------------------------------------
(* What the documentation says and the code does not do.                   *)

\* README: `roster` lists the "current participants when you join": nobody
\* whose connection has already ended.
RosterIsCurrent ==
  [][\A c \in Client :
       at[c] = "handshake" /\ at'[c] = "welcome" =>
         \A d \in clients : at[d] # "failed"]_vars

\* README: user_joined and user_left "notify all clients about roster
\* changes": with no task between two steps and every inbox empty, a client
\* knows who is there.
Settled ==
  \A c \in Client :
    /\ at[c] \in {"idle", "session", "closed", "refused"}
    /\ at[c] = "session" => pos[c] = Len(posted)
EveryoneKnowsTheRoster ==
  Settled => \A c \in Client : at[c] = "session" => view[c] = {nick[d] : d \in clients}
=============================================================================

----------------------------- MODULE RaftWorker -----------------------------
(***************************************************************************)
(* The worker threads of 19-raft-replication (src/runtime.rs) and the      *)
(* callers of their NodeHandles, over the consensus nodes of RaftNode.     *)
(*                                                                         *)
(* A worker takes one event at a time (a client request, a peer's message, *)
(* a tick) and then drains the ready state of its node: it sends what the  *)
(* node wants sent, applies what is committed and answers the PUTs whose   *)
(* command was applied.  Here the event and the sending are one step, and  *)
(* each entry applied and its answer are another; a worker with committed  *)
(* entries left to apply takes no other event.                             *)
(*                                                                         *)
(* A call is one use of a handle: a PUT of KeyOf[c], ValueOf[c], or a      *)
(* campaign.  Its caller blocks on the answer, so the request channel is   *)
(* not a state of its own.  get, status and the logging change nothing.    *)
(*                                                                         *)
(* The network carries each message on a connection and a thread of its    *)
(* own: messages arrive in any order, at most once, or never.              *)
(***************************************************************************)
EXTENDS RaftNode

CONSTANTS CampaignCall, \* the calls that are NodeHandle::campaign
          MaxLost,      \* bound on the messages the network drops for good
          MayStop       \* the nodes whose worker may stop

ASSUME CallAssumption ==
  /\ CampaignCall \subseteq Call
  /\ MaxLost \in Nat
  /\ MayStop \subseteq Node

VARIABLES
  alive,       \* the worker runs
  pendingPuts, \* Worker::pending_puts: the calls to answer, oldest first
  home,        \* the node whose handle a call was made on, None before
  answer       \* what the call has returned

workerVars == <<alive, pendingPuts, home, answer>>
vars == <<nodeVars, workerVars>>

PutCall == Call \ CampaignCall

Init ==
  /\ NodeInit
  /\ alive       = [n \in Node |-> TRUE]
  /\ pendingPuts = [n \in Node |-> << >>]
  /\ home        = [c \in Call |-> None]
  /\ answer      = [c \in Call |-> "none"]

TypeOK ==
  /\ NodeTypeOK
  /\ alive       \in [Node -> BOOLEAN]
  /\ pendingPuts \in [Node -> Seq(Call)]
  /\ home        \in [Call -> Node \cup {None}]
  /\ answer      \in [Call -> {"none", "waiting", "ok", "err"}]

-----------------------------------------------------------------------------
(* The worker's events.                                                    *)

\* Call c is one of n's pending PUTs.
Remembers(n, c) == \E i \in 1 .. Len(pendingPuts[n]) : pendingPuts[n][i] = c

\* The worker is at its select: process_ready has nothing left to do.
AtSelect(n) == alive[n] /\ applied[n] = commit[n]

Answer(c, n, a) ==
  /\ answer[c] = "none"
  /\ home'   = [home EXCEPT ![c] = n]
  /\ answer' = [answer EXCEPT ![c] = a]

\* Faulty: the caller is told Ok as soon as the command is proposed.
PutOnLeaderAcked(c, n) ==
  /\ AtSelect(n)
  /\ Answer(c, n, "ok")
  /\ Propose(n, c)
  /\ UNCHANGED <<alive, pendingPuts>>

\* The Put arm on a node that leads: the command is proposed and the caller
\* is left waiting.
PutOnLeader(c, n) ==
  /\ AtSelect(n)
  /\ Answer(c, n, "waiting")
  /\ pendingPuts' = [pendingPuts EXCEPT ![n] = Append(@, c)]
  /\ Propose(n, c)
  /\ UNCHANGED alive

\* The Put arm on any other node: refused at once.
PutRefused(c, n) ==
  /\ AtSelect(n) /\ role[n] # "Leader"
  /\ Answer(c, n, "err")
  /\ UNCHANGED <<nodeVars, alive, pendingPuts>>

\* The Campaign arm: raft's campaign is called and the caller told that an
\* election was started, which a leader does not do.
Campaign(c, n) ==
  /\ AtSelect(n)
  /\ Answer(c, n, "ok")
  /\ IF role[n] = "Leader" THEN UNCHANGED nodeVars ELSE Hup(n)
  /\ UNCHANGED <<alive, pendingPuts>>

\* A request to a worker that is gone.
CallFails(c, n) ==
  /\ ~alive[n]
  /\ Answer(c, n, "err")
  /\ UNCHANGED <<nodeVars, alive, pendingPuts>>

Request(c) ==
  \E n \in Node :
    \/ c \in PutCall /\ (PutOnLeader(c, n) \/ PutRefused(c, n))
    \/ c \in CampaignCall /\ Campaign(c, n)
    \/ CallFails(c, n)

\* A message taken from network_rx.
Receive(n, m) ==
  /\ AtSelect(n) /\ m.to = n
  /\ Step(n, m)
  /\ UNCHANGED workerVars

\* The tick that runs out the election timer.
ElectionTimeout(n) ==
  /\ AtSelect(n)
  /\ Hup(n)
  /\ UNCHANGED workerVars

\* The tick that makes a leader's heartbeat due.
Heartbeat(n) ==
  /\ AtSelect(n)
  /\ HeartbeatTick(n)
  /\ UNCHANGED workerVars

-----------------------------------------------------------------------------
(* Draining the ready state.                                               *)

SameCommand(c, d) == KeyOf[c] = KeyOf[d] /\ ValueOf[c] = ValueOf[d]

\* The places of n's pending PUTs with the command of call c.
Waiting(n, c) ==
  {i \in 1 .. Len(pendingPuts[n]) : SameCommand(pendingPuts[n][i], c)}

\* notify_put: the oldest pending PUT with the applied key and value is
\* answered and forgotten.
Notify(n, c) ==
  IF Waiting(n, c) = {}
  THEN UNCHANGED <<pendingPuts, answer>>
  ELSE \E i \in Waiting(n, c) :
         /\ \A j \in Waiting(n, c) : i <= j
         /\ pendingPuts' = [pendingPuts EXCEPT ![n] =
                              SubSeq(@, 1, i - 1) \o SubSeq(@, i + 1, Len(@))]
         /\ answer' = [answer EXCEPT ![pendingPuts[n][i]] = "ok"]

Ready(n) ==
  /\ alive[n]
  /\ ApplyEntry(n)
  /\ LET c == log[n][applied[n] + 1].call
     IN  IF c = None THEN UNCHANGED <<pendingPuts, answer>> ELSE Notify(n, c)
  /\ UNCHANGED <<alive, home>>

\* Faulty: the pending PUTs outlive the worker.
StopKeepsCallers(n) ==
  /\ alive[n] /\ n \in MayStop
  /\ alive' = [alive EXCEPT ![n] = FALSE]
  /\ UNCHANGED <<nodeVars, home, pendingPuts, answer>>

\* The worker ends: Shutdown, the handle dropped, or an error of its loop.
\* Its pending PUTs are dropped, so their callers see the channel close.
Stop(n) ==
  /\ alive[n] /\ n \in MayStop
  /\ alive' = [alive EXCEPT ![n] = FALSE]
  /\ pendingPuts' = [pendingPuts EXCEPT ![n] = << >>]
  /\ answer' = [c \in Call |->
                  IF Remembers(n, c) THEN "err" ELSE answer[c]]
  /\ UNCHANGED <<nodeVars, home>>

\* A connection that fails: the message is gone.  (A message may also just
\* never arrive; this action matters where arrival is otherwise assumed.)
Lose(m) ==
  /\ lost < MaxLost
  /\ lost' = lost + 1
  /\ network' = network \ {m}
  /\ UNCHANGED <<electionVars, logVars, progressVars, storeVars, workerVars>>

Next ==
  \/ \E c \in Call : Request(c)
  \/ \E n \in Node : ElectionTimeout(n) \/ Heartbeat(n) \/ Ready(n) \/ Stop(n)
  \/ \E m \in network : Receive(m.to, m) \/ Lose(m)

Spec == Init /\ [][Next]_vars

-----------------------------------------------------------------------------
(* Safety.                                                                 *)

\* No two nodes lead in the same term, whatever the elections, lost and
\* delayed votes: the vote bookkeeping of node.step (src/node.rs).
ElectionSafety ==
  \A a, b \in Node :
    role[a] = "Leader" /\ role[b] = "Leader" /\ term[a] = term[b] => a = b

\* Two nodes never hold different committed entries at the same index: what
\* poll_ready applies on one node is what it applies on every other.
StateMachineSafety ==
  \A a, b \in Node : \A i \in 1 .. Smaller(commit[a], commit[b]) :
    log[a][i] = log[b][i]

\* Two logs with an entry of one term at one index are the same up to there,
\* however appends of two leaders arrived, were refused and cut them
\* (AppendAccept, the raft crate behind node.step).
LogMatching ==
  \A a, b \in Node : \A i \in 1 .. Smaller(Len(log[a]), Len(log[b])) :
    log[a][i].term = log[b][i].term => \A j \in 1 .. i : log[a][j] = log[b][j]

\* Who leads has every entry that a node of its term or an earlier one has
\* committed: no election loses what was decided.
LeadersHaveCommitted ==
  \A a, b \in Node :
    role[a] = "Leader" /\ term[b] <= term[a] =>
      \A i \in 1 .. commit[b] : i <= Len(log[a]) /\ log[a][i] = log[b][i]

\* Nodes that have applied as far as each other have the same store, as the
\* cluster demo and the status command take for granted.
StoresConverge ==
  \A a, b \in Node : applied[a] = applied[b] => store[a] = store[b]

\* A caller waits exactly when the running worker of its node remembers its
\* call: no caller is left behind by a worker that stops, none is answered
\* twice.
WaitersAreTracked ==
  \A c \in Call : \A n \in Node :
    answer[c] = "waiting" /\ home[c] = n <=>
      alive[n] /\ Remembers(n, c)

\* Node n has applied a PUT of the key and the value of call c.
HasApplied(n, c) ==
  \E i \in 1 .. applied[n] :
    /\ i <= Len(log[n])
    /\ log[n][i].call # None
    /\ SameCommand(log[n][i].call, c)

\* A PUT that returned Ok is a committed and applied command of the node it
\* was sent to, and stays so through later elections.
AckedPutApplied ==
  \A c \in PutCall : answer[c] = "ok" => HasApplied(home[c], c)

\* A PUT that returned Ok is held by a majority, so no later leader can lack
\* it.
AckedPutIsReplicated ==
  \A c \in PutCall :
    answer[c] = "ok" =>
      IsMajority({n \in Node :
                   \E i \in 1 .. Len(log[n]) :
                     log[n][i].call # None /\ SameCommand(log[n][i].call, c)})

\* No step of a node changes an entry it has committed, or forgets one: the
\* raft crate panics when it would.
CommittedNeverChanges ==
  [][\A n \in Node :
       /\ commit[n] <= commit'[n]
       /\ \A i \in 1 .. commit[n] : log'[n][i] = log[n][i]]_vars

-----------------------------------------------------------------------------
(* The cluster as one store.                                               *)

\* The node that has committed most.
Foremost == CHOOSE n \in Node : \A m \in Node : commit[m] <= commit[n]

\* The calls of the entries that some node has committed.
Decided == [i \in 1 .. commit[Foremost] |-> log[Foremost][i].call]

Replicated == INSTANCE ReplicatedStore WITH decided <- Decided

\* The cluster behaves as one sequence of decided PUTs, each decided once, which
\* only grows, whoever leads, and which every node applies in order; Ok is
\* said when a node applies such a command (poll_ready and notify_put).
ClusterIsOneStore == Replicated!Spec

-----------------------------------------------------------------------------
(* What the safety properties rest on: the conjuncts of the inductive      *)
(* invariants that RaftWorkerProofs proves.                                *)

\* Nothing is applied that is not committed, nor committed that is not in the
\* log.
LogBounds ==
  \A n \in Node : applied[n] <= commit[n] /\ commit[n] <= Len(log[n])

\* v backs a in term t: a vote of v for a is on its way, or counted.
Backs(v, t, a) ==
  \/ \E m \in network :
       /\ m.type = "Vote" /\ m.grant
       /\ m.from = v /\ m.to = a /\ m.term = t
  \/ role[a] # "Follower" /\ term[a] = t /\ v \in granted[a]

\* A node remembers whom it backs for as long as it stays in the term.
BackingIsKept ==
  \A v, a \in Node : \A t \in Nat :
    Backs(v, t, a) => t <= term[v] /\ (t = term[v] => vote[v] = a)

\* A node backs one candidate in a term.
BackingIsUnique ==
  \A v, a, b \in Node : \A t \in Nat : Backs(v, t, a) /\ Backs(v, t, b) => a = b

\* A leader was elected.
LeaderHasMajority ==
  \A a \in Node : role[a] = "Leader" => IsMajority(granted[a])

\* A call is remembered once, and a worker that has stopped remembers none.
PendingOnce ==
  \A n \in Node :
    /\ \A i, j \in 1 .. Len(pendingPuts[n]) :
         pendingPuts[n][i] = pendingPuts[n][j] => i = j
    /\ ~alive[n] => pendingPuts[n] = << >>

\* A call that has an answer, or waits for one, was made on some node.
HomeIsKnown == \A c \in Call : answer[c] # "none" => home[c] \in Node

-----------------------------------------------------------------------------
(* Liveness.                                                               *)

\* Every worker thread runs, connections that are not lost are served, and
\* ticks come; elections and calls need not happen.
ReceiveOn(p, n, type) ==
  \E m \in network : m.from = p /\ m.to = n /\ m.type = type /\ Receive(n, m)

Fairness ==
  /\ \A n \in Node : WF_vars(Ready(n)) /\ WF_vars(Heartbeat(n))
  /\ \A p, n \in Node :
       \A type \in {"RequestVote", "Vote", "Append", "AppendResponse"} :
         WF_vars(ReceiveOn(p, n, type))

FairSpec == Spec /\ Fairness

\* A PUT is answered unless its node stops leading or another has moved to a
\* newer term, whatever one lost message or late heartbeat.
PutAnsweredByStableLeader ==
  \A c \in PutCall :
    answer[c] = "waiting" ~>
      \/ answer[c] # "waiting"
      \/ role[home[c]] # "Leader"
      \/ \E n \in Node : term[n] > term[home[c]]

-----------------------------------------------------------------------------
(* What the documentation says and the code does not do.                   *)

\* No log and no message holds the entry of call c any more.
EntryLost(c) ==
  /\ \A n \in Node : \A i \in 1 .. Len(log[n]) : log[n][i].call # c
  /\ \A m \in network : m.type = "Append" =>
       \A i \in 1 .. Len(m.entries) : m.entries[i].call # c

\* NodeHandle::put: "Blocks until the value is committed and applied, then
\* returns the committed value", with an error when that will not happen: a
\* PUT whose entry is lost must return too.
LostPutReturns ==
  \A c \in PutCall :
    answer[c] = "waiting" /\ EntryLost(c) ~> answer[c] # "waiting"
=============================================================================

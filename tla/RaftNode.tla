------------------------------ MODULE RaftNode ------------------------------
(***************************************************************************)
(* The consensus node of 19-raft-replication: src/node.rs wraps the        *)
(* RawNode of the raft crate (0.7) over a MemStorage and applies committed *)
(* PUT commands to the KvStore of src/store.rs.                            *)
(*                                                                         *)
(* The raft crate is not part of the repository.  Its operators below are  *)
(* what node.rs relies on, for the Config of RaftNode::new: no pre-vote,   *)
(* no quorum check, and the default max_size_per_msg of 0, which puts at   *)
(* most one entry in an append.  Left out: snapshots, membership change,   *)
(* leader transfer and read index, which nothing in src/ uses; the flow    *)
(* control of an append (a peer always gets the entry after the last one   *)
(* it is believed to hold); the commit index a vote request carries.  A    *)
(* heartbeat is the append that the answer to the heartbeat sends.         *)
(*                                                                         *)
(* Actions describe what one event does to the node.  RaftWorker says when *)
(* the worker thread lets the event happen.                                *)
(***************************************************************************)
EXTENDS Integers, FiniteSets, Sequences

CONSTANTS Node,       \* the voters: the keys of the peers map
          Call,       \* the NodeHandle calls; a log entry names its call
          Key, Value, \* what a PUT writes
          KeyOf,      \* [Call -> Key]
          ValueOf,    \* [Call -> Value]
          None,       \* no node, no call, no value
          MaxTerm     \* bound: no election beyond this term

ASSUME NodeAssumption ==
  /\ IsFiniteSet(Node)
  /\ Cardinality(Node) > 1
  /\ None \notin Node \cup Call \cup Value

ASSUME CommandAssumption ==
  /\ KeyOf \in [Call -> Key]
  /\ ValueOf \in [Call -> Value]
  /\ MaxTerm \in Nat

VARIABLES
  role,       \* raft.state of each node
  term,       \* raft.term
  vote,       \* the candidate voted for in this term, or None
  leaderId,   \* raft.leader_id, None for 0
  granted,    \* votes a candidate has counted, its own included
  denied,     \* refusals a candidate has counted
  log,        \* the entries in MemStorage
  commit,     \* raft_log.committed
  match,      \* match[n][p]: the index leader n knows p to hold
  next,       \* next[n][p]: the index leader n sends p next
  applied,    \* the last index apply_entries has seen
  store,      \* KvStore: [Key -> Value or None]
  network,    \* messages sent and not yet received
  lost        \* how many messages the network has dropped

electionVars == <<role, term, vote, leaderId, granted, denied>>
logVars      == <<log, commit>>
progressVars == <<match, next>>
storeVars    == <<applied, store>>
nodeVars     == <<electionVars, logVars, progressVars, storeVars, network, lost>>

-----------------------------------------------------------------------------
(* Entries, messages and quorums.                                          *)

Role == {"Follower", "Candidate", "Leader"}

\* An entry is the term it was proposed in and the PUT it carries; None is
\* the empty entry a new leader appends.
Entry == [term : Nat, call : Call \cup {None}]

VoteRequest ==
  [type : {"RequestVote"}, from : Node, to : Node, term : Nat,
   lastIndex : Nat, lastTerm : Nat]
VoteResponse ==
  [type : {"Vote"}, from : Node, to : Node, term : Nat, grant : BOOLEAN]
\* An append carries at most one entry; nothing comes before the first.
AppendRequest ==
  {m \in [type : {"Append"}, from : Node, to : Node, term : Nat, prev : Nat,
          prevTerm : Nat, entries : Seq(Entry), commit : Nat] :
     Len(m.entries) <= 1 /\ (m.prev = 0 => m.prevTerm = 0)}
AppendResponse ==
  [type : {"AppendResponse"}, from : Node, to : Node, term : Nat,
   reject : BOOLEAN, index : Nat, hint : Nat]
Message == VoteRequest \cup VoteResponse \cup AppendRequest \cup AppendResponse

IsMajority(S) == 2 * Cardinality(S) > Cardinality(Node)

Smaller(i, j) == IF i < j THEN i ELSE j
Larger(i, j)  == IF i < j THEN j ELSE i

TermAt(l, i) == IF i \in 1 .. Len(l) THEN l[i].term ELSE 0
LastTerm(l)  == TermAt(l, Len(l))

\* Faulty: the length of the log does not count.
UpToDateByTermOnly(n, m) == m.lastTerm >= LastTerm(log[n])

\* A log may be voted for by n when it is at least as long as n's own log,
\* a later last term counting before length.
UpToDate(n, m) ==
  \/ m.lastTerm > LastTerm(log[n])
  \/ m.lastTerm = LastTerm(log[n]) /\ m.lastIndex >= Len(log[n])

-----------------------------------------------------------------------------
NodeInit ==
  /\ role     = [n \in Node |-> "Follower"]
  /\ term     = [n \in Node |-> 0]
  /\ vote     = [n \in Node |-> None]
  /\ leaderId = [n \in Node |-> None]
  /\ granted  = [n \in Node |-> {}]
  /\ denied   = [n \in Node |-> {}]
  /\ log      = [n \in Node |-> << >>]
  /\ commit   = [n \in Node |-> 0]
  /\ match    = [n \in Node |-> [p \in Node |-> 0]]
  /\ next     = [n \in Node |-> [p \in Node |-> 1]]
  /\ applied  = [n \in Node |-> 0]
  /\ store    = [n \in Node |-> [k \in Key |-> None]]
  /\ network  = {}
  /\ lost     = 0

NodeTypeOK ==
  /\ role     \in [Node -> Role]
  /\ term     \in [Node -> Nat]
  /\ vote     \in [Node -> Node \cup {None}]
  /\ leaderId \in [Node -> Node \cup {None}]
  /\ granted  \in [Node -> SUBSET Node]
  /\ denied   \in [Node -> SUBSET Node]
  /\ log      \in [Node -> Seq(Entry)]
  /\ commit   \in [Node -> Nat]
  /\ match    \in [Node -> [Node -> Nat]]
  /\ next     \in [Node -> [Node -> Nat \ {0}]]
  /\ applied  \in [Node -> Nat]
  /\ store    \in [Node -> [Key -> Value \cup {None}]]
  /\ network  \in SUBSET Message
  /\ lost     \in Nat

-----------------------------------------------------------------------------
(* Sending.                                                                *)

\* The append of leader n to p in term t, from log l: the entry at x, if there
\* is one, the place and term of the entry before it, and the commit index.
AppendMessage(n, p, t, l, x, c) ==
  [type |-> "Append", from |-> n, to |-> p, term |-> t,
   prev |-> x - 1, prevTerm |-> TermAt(l, x - 1),
   entries |-> IF x <= Len(l) THEN <<l[x]>> ELSE << >>, commit |-> c]

AppendTo(n, p) == AppendMessage(n, p, term[n], log[n], next[n][p], commit[n])

Appends(n) == {AppendTo(n, p) : p \in Node \ {n}}

-----------------------------------------------------------------------------
(* Elections.                                                              *)

\* The node becomes a candidate of the next term, votes for itself and asks
\* the others.  A leader ignores it.
Hup(n) ==
  /\ role[n] # "Leader"
  /\ term[n] < MaxTerm
  /\ role'     = [role EXCEPT ![n] = "Candidate"]
  /\ term'     = [term EXCEPT ![n] = @ + 1]
  /\ vote'     = [vote EXCEPT ![n] = n]
  /\ leaderId' = [leaderId EXCEPT ![n] = None]
  /\ granted'  = [granted EXCEPT ![n] = {n}]
  /\ denied'   = [denied EXCEPT ![n] = {}]
  /\ network'  = network \cup
       {[type |-> "RequestVote", from |-> n, to |-> p, term |-> term[n] + 1,
         lastIndex |-> Len(log[n]), lastTerm |-> LastTerm(log[n])] : p \in Node \ {n}}
  /\ UNCHANGED <<logVars, progressVars, storeVars, lost>>

\* n follows leader l (None: unknown) in term t.  The vote is forgotten only
\* when the term grows.
Follow(n, t, l) ==
  /\ role'     = [role EXCEPT ![n] = "Follower"]
  /\ term'     = [term EXCEPT ![n] = t]
  /\ vote'     = [vote EXCEPT ![n] = IF t > term[n] THEN None ELSE @]
  /\ leaderId' = [leaderId EXCEPT ![n] = l]
  /\ granted'  = [granted EXCEPT ![n] = {}]
  /\ denied'   = [denied EXCEPT ![n] = {}]
  /\ match'    = [match EXCEPT ![n] = [p \in Node |-> 0]]
  /\ next'     = [next EXCEPT ![n] = [p \in Node |-> 1]]

VoteFor(n, m, grant) ==
  [type |-> "Vote", from |-> n, to |-> m.from, term |-> m.term, grant |-> grant]

\* Faulty: a vote already given does not bind.
CanVoteAgain(n, m) == m.term >= term[n]

\* A newer term frees the vote; in the same term it is free when nobody has it
\* and no leader is known, and it may be repeated.
CanVote(n, m) ==
  \/ m.term > term[n]
  \/ vote[n] = m.from
  \/ vote[n] = None /\ leaderId[n] = None

GrantVote(n, m) ==
  /\ m.type = "RequestVote"
  /\ m.term >= term[n]
  /\ CanVote(n, m) /\ UpToDate(n, m)
  /\ IF m.term > term[n]
       THEN /\ role'     = [role EXCEPT ![n] = "Follower"]
            /\ leaderId' = [leaderId EXCEPT ![n] = None]
            /\ granted'  = [granted EXCEPT ![n] = {}]
            /\ denied'   = [denied EXCEPT ![n] = {}]
            /\ match'    = [match EXCEPT ![n] = [p \in Node |-> 0]]
            /\ next'     = [next EXCEPT ![n] = [p \in Node |-> 1]]
       ELSE UNCHANGED <<role, leaderId, granted, denied, progressVars>>
  /\ term'    = [term EXCEPT ![n] = m.term]
  /\ vote'    = [vote EXCEPT ![n] = m.from]
  /\ network' = (network \ {m}) \cup {VoteFor(n, m, TRUE)}
  /\ UNCHANGED <<logVars, storeVars, lost>>

DenyVote(n, m) ==
  /\ m.type = "RequestVote"
  /\ m.term >= term[n]
  /\ ~(CanVote(n, m) /\ UpToDate(n, m))
  /\ IF m.term > term[n] THEN Follow(n, m.term, None)
                         ELSE UNCHANGED <<electionVars, progressVars>>
  /\ network' = (network \ {m}) \cup {VoteFor(n, m, FALSE)}
  /\ UNCHANGED <<logVars, storeVars, lost>>

\* The answer is counted; it does not decide the election yet.
CountVote(n, m) ==
  /\ m.type = "Vote" /\ m.term = term[n] /\ role[n] = "Candidate"
  /\ LET yes == IF m.grant THEN granted[n] \cup {m.from} ELSE granted[n]
         no  == IF m.grant THEN denied[n] ELSE denied[n] \cup {m.from}
     IN  /\ ~IsMajority(yes) /\ IsMajority(Node \ no)
         /\ granted' = [granted EXCEPT ![n] = yes]
         /\ denied'  = [denied EXCEPT ![n] = no]
  /\ network' = network \ {m}
  /\ UNCHANGED <<role, term, vote, leaderId, logVars, progressVars, storeVars, lost>>

\* The vote that makes a majority: the candidate becomes leader, appends an
\* empty entry of its term and sends it to everyone.
WinElection(n, m) ==
  /\ m.type = "Vote" /\ m.term = term[n] /\ role[n] = "Candidate"
  /\ m.grant /\ IsMajority(granted[n] \cup {m.from})
  /\ role'     = [role EXCEPT ![n] = "Leader"]
  /\ leaderId' = [leaderId EXCEPT ![n] = n]
  /\ granted'  = [granted EXCEPT ![n] = @ \cup {m.from}]
  /\ log'      = [log EXCEPT ![n] = Append(@, [term |-> term[n], call |-> None])]
  /\ match'    = [match EXCEPT ![n] = [p \in Node |-> 0]]
  /\ next'     = [next EXCEPT ![n] = [p \in Node |-> Len(log[n]) + 1]]
  /\ UNCHANGED <<term, vote, denied, commit, storeVars, lost>>
  /\ network'  = (network \ {m}) \cup Appends(n)'

\* The refusal that leaves no majority to hope for.
LoseElection(n, m) ==
  /\ m.type = "Vote" /\ m.term = term[n] /\ role[n] = "Candidate"
  /\ ~m.grant /\ ~IsMajority(Node \ (denied[n] \cup {m.from}))
  /\ Follow(n, term[n], None)
  /\ network' = network \ {m}
  /\ UNCHANGED <<logVars, storeVars, lost>>

-----------------------------------------------------------------------------
(* Replication.                                                            *)

AppendReply(n, m, reject, index, hint) ==
  [type |-> "AppendResponse", from |-> n, to |-> m.from, term |-> m.term,
   reject |-> reject, index |-> index, hint |-> hint]

\* An append of this term or a newer one makes its sender the leader.
FollowSender(n, m) ==
  /\ m.type = "Append"
  /\ m.term >= term[n]
  /\ m.term = term[n] => role[n] # "Leader"
  /\ Follow(n, m.term, m.from)

\* The entry before the new one is already committed here: answer with the
\* commit index and change nothing.
AppendBelowCommit(n, m) ==
  /\ FollowSender(n, m)
  /\ m.prev < commit[n]
  /\ network' = (network \ {m}) \cup {AppendReply(n, m, FALSE, commit[n], 0)}
  /\ UNCHANGED <<logVars, storeVars, lost>>

Matches(n, m) == m.prev <= Len(log[n]) /\ m.prevTerm = TermAt(log[n], m.prev)

\* Faulty: a conflict does not cut the log.
MergedAtEnd(n, m) ==
  IF m.entries = << >> \/ \E i \in 1 .. Len(log[n]) : log[n][i] = m.entries[1]
  THEN log[n]
  ELSE log[n] \o m.entries

\* The log of n after the append: unchanged when it already holds the entry,
\* cut at the first conflict otherwise.
Merged(n, m) ==
  IF \/ m.entries = << >>
     \/ m.prev + 1 <= Len(log[n]) /\ log[n][m.prev + 1].term = m.entries[1].term
  THEN log[n]
  ELSE SubSeq(log[n], 1, m.prev) \o m.entries

\* Faulty: the commit index follows the message, even backwards.
AppendAcceptCommit(n, m) ==
  /\ FollowSender(n, m)
  /\ m.prev >= commit[n]
  /\ Matches(n, m)
  /\ log'    = [log EXCEPT ![n] = Merged(n, m)]
  /\ commit' = [commit EXCEPT ![n] = Smaller(m.commit, m.prev + Len(m.entries))]
  /\ network' = (network \ {m}) \cup
                  {AppendReply(n, m, FALSE, m.prev + Len(m.entries), 0)}
  /\ UNCHANGED <<storeVars, lost>>

AppendAccept(n, m) ==
  /\ FollowSender(n, m)
  /\ m.prev >= commit[n]
  /\ Matches(n, m)
  /\ log'    = [log EXCEPT ![n] = Merged(n, m)]
  /\ commit' = [commit EXCEPT ![n] =
                  Larger(@, Smaller(m.commit, m.prev + Len(m.entries)))]
  /\ network' = (network \ {m}) \cup
                  {AppendReply(n, m, FALSE, m.prev + Len(m.entries), 0)}
  /\ UNCHANGED <<storeVars, lost>>

\* Faulty: the hint steps back one entry too far.
AppendRejectFar(n, m) ==
  /\ FollowSender(n, m)
  /\ m.prev >= commit[n]
  /\ ~Matches(n, m)
  /\ network' = (network \ {m}) \cup
       {AppendReply(n, m, TRUE, m.prev, Smaller(m.prev - 2, Len(log[n])))}
  /\ UNCHANGED <<logVars, storeVars, lost>>

AppendReject(n, m) ==
  /\ FollowSender(n, m)
  /\ m.prev >= commit[n]
  /\ ~Matches(n, m)
  /\ network' = (network \ {m}) \cup
       {AppendReply(n, m, TRUE, m.prev, Smaller(m.prev - 1, Len(log[n])))}
  /\ UNCHANGED <<logVars, storeVars, lost>>

\* Faulty: one holder short of a majority is enough.
CommittableByMinority(n, held) ==
  {i \in commit[n] + 1 .. Len(log[n]) :
     /\ 2 * Cardinality({p \in Node : p = n \/ held[p] >= i}) >= Cardinality(Node) - 1
     /\ log[n][i].term = term[n]}

\* The indexes leader n may commit when its peers hold what `held` says: on a
\* majority, and of its own term.
Committable(n, held) ==
  {i \in commit[n] + 1 .. Len(log[n]) :
     /\ IsMajority({p \in Node : p = n \/ held[p] >= i})
     /\ log[n][i].term = term[n]}

CommitAfter(n, held, i) ==
  \/ Committable(n, held) = {} /\ i = commit[n]
  \/ i \in Committable(n, held) /\ \A j \in Committable(n, held) : j <= i

LeaderHears(n, m) ==
  m.type = "AppendResponse" /\ m.term = term[n] /\ role[n] = "Leader"

\* A peer holds more than was known.  The commit index may advance, which is
\* told to everyone; if it does not, the peer gets the next entry it lacks.
HandleAppended(n, m) ==
  /\ LeaderHears(n, m)
  /\ ~m.reject /\ m.index > match[n][m.from]
  /\ match' = [match EXCEPT ![n][m.from] = m.index]
  /\ next'  = [next EXCEPT ![n][m.from] = Larger(@, m.index + 1)]
  /\ \E i \in 0 .. Len(log[n]) :
       /\ CommitAfter(n, [match[n] EXCEPT ![m.from] = m.index], i)
       /\ commit' = [commit EXCEPT ![n] = i]
       /\ UNCHANGED <<electionVars, log, storeVars, lost>>
       /\ network' = (network \ {m}) \cup
            (IF i > commit[n] THEN Appends(n)'
             ELSE {a \in {AppendTo(n, m.from)'} : a.entries # << >>})

\* The peer's log does not have the entry before: step back and try again.
\* An answer to an earlier attempt is ignored.
HandleRejected(n, m) ==
  /\ LeaderHears(n, m)
  /\ m.reject /\ m.index = next[n][m.from] - 1
  /\ next' = [next EXCEPT ![n][m.from] = Larger(1, Smaller(m.index, m.hint + 1))]
  /\ UNCHANGED <<electionVars, logVars, match, storeVars, lost>>
  /\ network' = (network \ {m}) \cup {AppendTo(n, m.from)'}

\* What raft.step drops: an older term, and answers nobody waits for.
Ignore(n, m) ==
  /\ \/ m.term < term[n]
     \/ m.type = "Vote" /\ role[n] # "Candidate"
     \/ m.type = "AppendResponse" /\ role[n] # "Leader"
     \/ LeaderHears(n, m) /\ ~m.reject /\ m.index <= match[n][m.from]
     \/ LeaderHears(n, m) /\ m.reject /\ m.index # next[n][m.from] - 1
  /\ network' = network \ {m}
  /\ UNCHANGED <<electionVars, logVars, progressVars, storeVars, lost>>

-----------------------------------------------------------------------------
(* The operations of RaftNode.                                             *)

\* RaftNode::step: the message is consumed by exactly one of the handlers.
Step(n, m) ==
  \/ GrantVote(n, m)
  \/ DenyVote(n, m)
  \/ CountVote(n, m)
  \/ WinElection(n, m)
  \/ LoseElection(n, m)
  \/ AppendBelowCommit(n, m)
  \/ AppendAccept(n, m)
  \/ AppendReject(n, m)
  \/ HandleAppended(n, m)
  \/ HandleRejected(n, m)
  \/ Ignore(n, m)

\* RaftNode::propose on a leader: the entry is appended and sent.
Propose(n, c) ==
  /\ role[n] = "Leader"
  /\ log' = [log EXCEPT ![n] = Append(@, [term |-> term[n], call |-> c])]
  /\ UNCHANGED <<electionVars, commit, progressVars, storeVars, lost>>
  /\ network' = network \cup Appends(n)'

\* Faulty: a heartbeat carries no entries.
HeartbeatTickEmpty(n) ==
  /\ role[n] = "Leader"
  /\ network' = network \cup {[a EXCEPT !.entries = << >>] : a \in Appends(n)}
  /\ UNCHANGED <<electionVars, logVars, progressVars, storeVars, lost>>

\* RaftNode::tick when the heartbeat timer of a leader fires.
HeartbeatTick(n) ==
  /\ role[n] = "Leader"
  /\ network' = network \cup Appends(n)
  /\ UNCHANGED <<electionVars, logVars, progressVars, storeVars, lost>>

\* Faulty: the newest committed entry is applied for each index.
ApplyEntryNewest(n) ==
  /\ applied[n] < commit[n]
  /\ applied' = [applied EXCEPT ![n] = @ + 1]
  /\ LET c == log[n][commit[n]].call
     IN  IF c = None THEN UNCHANGED store
         ELSE store' = [store EXCEPT ![n][KeyOf[c]] = ValueOf[c]]
  /\ UNCHANGED <<electionVars, logVars, progressVars, network, lost>>

\* apply_entries, one committed entry: an empty one is skipped.
ApplyEntry(n) ==
  /\ applied[n] < commit[n]
  /\ applied' = [applied EXCEPT ![n] = @ + 1]
  /\ LET c == log[n][applied[n] + 1].call
     IN  IF c = None THEN UNCHANGED store
         ELSE store' = [store EXCEPT ![n][KeyOf[c]] = ValueOf[c]]
  /\ UNCHANGED <<electionVars, logVars, progressVars, network, lost>>
=============================================================================

-------------------------- MODULE RaftWorkerProofs --------------------------
(***************************************************************************)
(* Proofs about RaftWorker, for every set of nodes, of calls, of keys and  *)
(* of values and every bound: types, the bounds of the logs, the callers,  *)
(* and the election of leaders.                                            *)
(***************************************************************************)
EXTENDS RaftWorker, FiniteSetTheorems, SequenceTheorems, TLAPS

-----------------------------------------------------------------------------
(* Facts about the operators the model is built from.                      *)

\* Two majorities of the voters share a node.
LEMMA MajoritiesMeet ==
  ASSUME NEW S \in SUBSET Node, NEW T \in SUBSET Node,
         IsMajority(S), IsMajority(T)
  PROVE  \E v \in Node : v \in S /\ v \in T
<1>1. IsFiniteSet(Node) /\ IsFiniteSet(S) /\ IsFiniteSet(T)
  BY NodeAssumption, FS_Subset
<1>2. IsFiniteSet(S \cup T) /\ IsFiniteSet(S \cap T) /\ S \cup T \subseteq Node
  BY <1>1, FS_Union, FS_Intersection
<1>3. /\ Cardinality(S) \in Nat /\ Cardinality(T) \in Nat
      /\ Cardinality(S \cup T) \in Nat /\ Cardinality(S \cap T) \in Nat
      /\ Cardinality(Node) \in Nat
  BY <1>1, <1>2, FS_CardinalityType
<1>4. Cardinality(S \cup T) = Cardinality(S) + Cardinality(T) - Cardinality(S \cap T)
  BY <1>1, FS_Union
<1>5. Cardinality(S \cup T) <= Cardinality(Node)
  BY <1>1, <1>2, FS_Subset
<1>6. Cardinality(S \cap T) # 0
  BY <1>3, <1>4, <1>5 DEF IsMajority
<1>7. S \cap T # {}
  BY <1>6, FS_EmptySet
<1> QED
  BY <1>7

\* The larger and the smaller of two numbers.
LEMMA LargerType ==
  ASSUME NEW i \in Nat \ {0}, NEW j \in Nat
  PROVE  Larger(i, j) \in Nat \ {0}
  BY DEF Larger

LEMMA SmallerType ==
  ASSUME NEW i \in Nat, NEW j \in Nat
  PROVE  Smaller(i, j) \in Nat
  BY DEF Smaller

\* The term of an entry is a number, 0 outside the log.
LEMMA TermAtType ==
  ASSUME NEW l \in Seq(Entry), NEW i \in Int
  PROVE  TermAt(l, i) \in Nat
<1>1. CASE i \in 1 .. Len(l)
  <2>1. l[i] \in Entry
    BY <1>1
  <2> QED
    BY <1>1, <2>1 DEF TermAt, Entry
<1>2. CASE i \notin 1 .. Len(l)
  BY <1>2 DEF TermAt
<1> QED
  BY <1>1, <1>2

LEMMA LastTermType ==
  ASSUME NEW l \in Seq(Entry)
  PROVE  LastTerm(l) \in Nat
<1>1. Len(l) \in Int
  OBVIOUS
<1> QED
  BY <1>1, TermAtType DEF LastTerm

\* A leader's append is a well-formed message of at most one entry.
LEMMA AppendMessageType ==
  ASSUME NEW n \in Node, NEW p \in Node, NEW t \in Nat, NEW l \in Seq(Entry),
         NEW x \in Nat \ {0}, NEW c \in Nat
  PROVE  AppendMessage(n, p, t, l, x, c) \in AppendRequest
<1>1. TermAt(l, x - 1) \in Nat
  BY TermAtType
<1>2. x - 1 \in Nat
  OBVIOUS
<1> DEFINE es == IF x <= Len(l) THEN <<l[x]>> ELSE << >>
<1>3. es \in {s \in Seq(Entry) : Len(s) <= 1}
  <2>1. CASE x <= Len(l)
    <3>1. l[x] \in Entry
      BY <2>1
    <3> QED
      BY <2>1, <3>1
  <2>2. CASE ~(x <= Len(l))
    BY <2>2
  <2> QED
    BY <2>1, <2>2
<1> QED
  <2>1. x - 1 = 0 => TermAt(l, x - 1) = 0
    BY DEF TermAt
  <2> QED
    BY <1>1, <1>2, <1>3, <2>1 DEF AppendMessage, AppendRequest

\* What a leader sends everyone are messages, whatever its term, log and
\* progress have become.
LEMMA AppendsType ==
  ASSUME NEW n \in Node, NEW t \in [Node -> Nat], NEW l \in [Node -> Seq(Entry)],
         NEW x \in [Node -> [Node -> Nat \ {0}]], NEW c \in [Node -> Nat]
  PROVE  \A p \in Node :
           AppendMessage(n, p, t[n], l[n], x[n][p], c[n]) \in Message
<1> TAKE p \in Node
<1>1. /\ t[n] \in Nat /\ l[n] \in Seq(Entry)
      /\ x[n][p] \in Nat \ {0} /\ c[n] \in Nat
  OBVIOUS
<1>2. AppendMessage(n, p, t[n], l[n], x[n][p], c[n]) \in AppendRequest
  BY <1>1, AppendMessageType
<1> QED
  BY <1>2 DEF Message

\* The answer to a vote request, and to an append, are messages.
LEMMA VoteForType ==
  ASSUME NEW n \in Node, NEW m \in VoteRequest, NEW b \in BOOLEAN
  PROVE  VoteFor(n, m, b) \in Message
<1>1. m.from \in Node /\ m.term \in Nat
  BY DEF VoteRequest
<1>2. VoteFor(n, m, b) \in VoteResponse
  BY <1>1 DEF VoteFor, VoteResponse
<1> QED
  BY <1>2 DEF Message

LEMMA AppendReplyType ==
  ASSUME NEW n \in Node, NEW m \in AppendRequest, NEW b \in BOOLEAN,
         NEW i \in Nat, NEW h \in Nat
  PROVE  AppendReply(n, m, b, i, h) \in Message
<1>1. m.from \in Node /\ m.term \in Nat
  BY DEF AppendRequest
<1>2. AppendReply(n, m, b, i, h) \in AppendResponse
  BY <1>1 DEF AppendReply, AppendResponse
<1> QED
  BY <1>2 DEF Message

-----------------------------------------------------------------------------
(* Type correctness.                                                       *)

\* A step to an older or newer term leaves the node variables well typed.
LEMMA FollowType ==
  ASSUME NodeTypeOK, NEW n \in Node, NEW t \in Nat, NEW l \in Node \cup {None},
         Follow(n, t, l)
  PROVE  /\ role' \in [Node -> Role]
         /\ term' \in [Node -> Nat]
         /\ vote' \in [Node -> Node \cup {None}]
         /\ leaderId' \in [Node -> Node \cup {None}]
         /\ granted' \in [Node -> SUBSET Node]
         /\ denied' \in [Node -> SUBSET Node]
         /\ match' \in [Node -> [Node -> Nat]]
         /\ next' \in [Node -> [Node -> Nat \ {0}]]
  BY DEF Follow, NodeTypeOK, Role

LEMMA HupType ==
  ASSUME NodeTypeOK, NEW n \in Node, Hup(n)
  PROVE  NodeTypeOK'
<1> USE DEF NodeTypeOK
<1>1. /\ role' \in [Node -> Role]
      /\ term' \in [Node -> Nat]
      /\ vote' \in [Node -> Node \cup {None}]
      /\ leaderId' \in [Node -> Node \cup {None}]
      /\ granted' \in [Node -> SUBSET Node]
      /\ denied' \in [Node -> SUBSET Node]
  BY DEF Hup, Role
<1>2. /\ Len(log[n]) \in Nat /\ LastTerm(log[n]) \in Nat /\ term[n] + 1 \in Nat
  <2>1. log[n] \in Seq(Entry) /\ term[n] \in Nat
    OBVIOUS
  <2>2. Len(log[n]) \in Nat /\ term[n] + 1 \in Nat
    BY <2>1
  <2>3. LastTerm(log[n]) \in Nat
    BY <2>1, LastTermType
  <2> QED
    BY <2>2, <2>3
<1> DEFINE req(p) ==
      [type |-> "RequestVote", from |-> n, to |-> p, term |-> term[n] + 1,
       lastIndex |-> Len(log[n]), lastTerm |-> LastTerm(log[n])]
<1>3. network' \in SUBSET Message
  <2>1. \A p \in Node : req(p) \in VoteRequest
    BY <1>2 DEF VoteRequest
  <2>2. network' = network \cup {req(p) : p \in Node \ {n}}
    BY DEF Hup
  <2> QED
    BY <2>1, <2>2 DEF Message
<1> QED
  BY <1>1, <1>3 DEF Hup, logVars, progressVars, storeVars

LEMMA GrantVoteType ==
  ASSUME NodeTypeOK, NEW n \in Node, NEW m \in network, GrantVote(n, m)
  PROVE  NodeTypeOK'
<1> USE DEF NodeTypeOK
<1>1. m \in VoteRequest
  BY DEF GrantVote, Message, VoteRequest, VoteResponse, AppendRequest, AppendResponse
<1>2. /\ role' \in [Node -> Role]
      /\ leaderId' \in [Node -> Node \cup {None}]
      /\ granted' \in [Node -> SUBSET Node]
      /\ denied' \in [Node -> SUBSET Node]
      /\ match' \in [Node -> [Node -> Nat]]
      /\ next' \in [Node -> [Node -> Nat \ {0}]]
  <2>1. CASE m.term > term[n]
    <3>1. /\ role' \in [Node -> Role]
          /\ leaderId' \in [Node -> Node \cup {None}]
          /\ granted' \in [Node -> SUBSET Node]
          /\ denied' \in [Node -> SUBSET Node]
      BY <2>1 DEF GrantVote, Role
    <3>2. /\ match' = [match EXCEPT ![n] = [p \in Node |-> 0]]
          /\ next' = [next EXCEPT ![n] = [p \in Node |-> 1]]
      BY <2>1 DEF GrantVote
    <3>3. /\ match' \in [Node -> [Node -> Nat]]
          /\ next' \in [Node -> [Node -> Nat \ {0}]]
      BY <3>2
    <3> QED
      BY <3>1, <3>2, <3>3
  <2>2. CASE ~(m.term > term[n])
    BY <2>2 DEF GrantVote, progressVars
  <2> QED
    BY <2>1, <2>2
<1>3. /\ term' \in [Node -> Nat]
      /\ vote' \in [Node -> Node \cup {None}]
  BY <1>1 DEF GrantVote, VoteRequest
<1>4. network' \in SUBSET Message
  <2>1. VoteFor(n, m, TRUE) \in Message
    BY <1>1, VoteForType
  <2> QED
    BY <2>1 DEF NodeTypeOK, GrantVote
<1> QED
  BY <1>2, <1>3, <1>4 DEF GrantVote, logVars, storeVars

LEMMA DenyVoteType ==
  ASSUME NodeTypeOK, NEW n \in Node, NEW m \in network, DenyVote(n, m)
  PROVE  NodeTypeOK'
<1>1. m \in VoteRequest
  BY DEF NodeTypeOK, DenyVote, Message, VoteRequest, VoteResponse, AppendRequest,
         AppendResponse
<1>2. network' \in SUBSET Message
  <2>1. VoteFor(n, m, FALSE) \in Message
    BY <1>1, VoteForType
  <2> QED
    BY <2>1 DEF NodeTypeOK, DenyVote
<1>3. CASE m.term > term[n]
  <2>1. Follow(n, m.term, None) /\ m.term \in Nat
    BY <1>1, <1>3 DEF DenyVote, VoteRequest
  <2> QED
    BY <1>2, <2>1, FollowType DEF NodeTypeOK, DenyVote, logVars, storeVars
<1>4. CASE ~(m.term > term[n])
  BY <1>2, <1>4
  DEF NodeTypeOK, DenyVote, electionVars, logVars, progressVars, storeVars
<1> QED
  BY <1>3, <1>4

LEMMA CountVoteType ==
  ASSUME NodeTypeOK, NEW n \in Node, NEW m \in network, CountVote(n, m)
  PROVE  NodeTypeOK'
<1>1. m.from \in Node
  BY DEF NodeTypeOK, CountVote, Message, VoteRequest, VoteResponse, AppendRequest,
         AppendResponse
<1>2. granted' \in [Node -> SUBSET Node] /\ denied' \in [Node -> SUBSET Node]
  <2>1. PICK yes \in SUBSET Node, no \in SUBSET Node :
          /\ granted' = [granted EXCEPT ![n] = yes]
          /\ denied'  = [denied EXCEPT ![n] = no]
    BY <1>1 DEF NodeTypeOK, CountVote
  <2> QED
    BY <2>1 DEF NodeTypeOK
<1> QED
  BY <1>2 DEF NodeTypeOK, CountVote, logVars, progressVars, storeVars

LEMMA WinElectionType ==
  ASSUME NodeTypeOK, NEW n \in Node, NEW m \in network, WinElection(n, m)
  PROVE  NodeTypeOK'
<1> USE DEF NodeTypeOK
<1>1. m.from \in Node
  BY DEF WinElection, Message, VoteRequest, VoteResponse, AppendRequest,
         AppendResponse
<1>2. /\ role' \in [Node -> Role]
      /\ leaderId' \in [Node -> Node \cup {None}]
      /\ granted' \in [Node -> SUBSET Node]
      /\ match' \in [Node -> [Node -> Nat]]
      /\ next' \in [Node -> [Node -> Nat \ {0}]]
  <2>1. /\ role' \in [Node -> Role]
        /\ leaderId' \in [Node -> Node \cup {None}]
    BY DEF WinElection, Role
  <2>2. granted' \in [Node -> SUBSET Node]
    BY <1>1 DEF WinElection
  <2>3. match' \in [Node -> [Node -> Nat]]
    BY DEF WinElection
  <2>4. next' \in [Node -> [Node -> Nat \ {0}]]
    <3>1. log[n] \in Seq(Entry)
      OBVIOUS
    <3>2. Len(log[n]) + 1 \in Nat \ {0}
      BY <3>1
    <3> QED
      BY <3>2 DEF WinElection
  <2> QED
    BY <2>1, <2>2, <2>3, <2>4
<1>3. [term |-> term[n], call |-> None] \in Entry
  BY DEF Entry
<1>4. log' \in [Node -> Seq(Entry)]
  BY <1>3 DEF WinElection
<1>5. term' \in [Node -> Nat] /\ commit' \in [Node -> Nat]
  BY DEF WinElection
<1>6. Appends(n)' \subseteq Message
  <2>1. \A p \in Node :
          AppendMessage(n, p, term'[n], log'[n], next'[n][p], commit'[n]) \in Message
    BY <1>2, <1>4, <1>5, AppendsType
  <2> QED
    BY <2>1 DEF Appends, AppendTo
<1> QED
  BY <1>2, <1>4, <1>5, <1>6 DEF WinElection, storeVars

LEMMA LoseElectionType ==
  ASSUME NodeTypeOK, NEW n \in Node, NEW m \in network, LoseElection(n, m)
  PROVE  NodeTypeOK'
<1>1. Follow(n, term[n], None) /\ term[n] \in Nat
  BY DEF NodeTypeOK, LoseElection
<1> QED
  BY <1>1, FollowType DEF NodeTypeOK, LoseElection, logVars, storeVars

\* Accepting an append's sender as the leader.
LEMMA FollowSenderType ==
  ASSUME NodeTypeOK, NEW n \in Node, NEW m \in network, FollowSender(n, m)
  PROVE  /\ m \in AppendRequest
         /\ role' \in [Node -> Role]
         /\ term' \in [Node -> Nat]
         /\ vote' \in [Node -> Node \cup {None}]
         /\ leaderId' \in [Node -> Node \cup {None}]
         /\ granted' \in [Node -> SUBSET Node]
         /\ denied' \in [Node -> SUBSET Node]
         /\ match' \in [Node -> [Node -> Nat]]
         /\ next' \in [Node -> [Node -> Nat \ {0}]]
<1>1. m \in AppendRequest
  BY DEF NodeTypeOK, FollowSender, Message, VoteRequest, VoteResponse, AppendRequest,
         AppendResponse
<1>2. m.term \in Nat /\ m.from \in Node
  BY <1>1 DEF AppendRequest
<1>3. Follow(n, m.term, m.from)
  BY DEF FollowSender
<1> QED
  BY <1>1, <1>2, <1>3, FollowType

\* The merged log is a log, and reaches at least to the last entry sent.
LEMMA MergedType ==
  ASSUME NodeTypeOK, NEW n \in Node, NEW m \in AppendRequest, Matches(n, m)
  PROVE  /\ Merged(n, m) \in Seq(Entry)
         /\ Len(Merged(n, m)) \in Nat
         /\ m.prev + Len(m.entries) <= Len(Merged(n, m))
<1>1. /\ log[n] \in Seq(Entry) /\ Len(log[n]) \in Nat
      /\ m.prev \in Nat /\ m.prev <= Len(log[n])
      /\ m.entries \in Seq(Entry) /\ Len(m.entries) \in Nat /\ Len(m.entries) <= 1
  <2>1. log[n] \in Seq(Entry)
    BY DEF NodeTypeOK
  <2>2. m.prev \in Nat /\ m.entries \in Seq(Entry) /\ Len(m.entries) <= 1
    BY DEF AppendRequest
  <2>3. Len(log[n]) \in Nat /\ Len(m.entries) \in Nat
    BY <2>1, <2>2
  <2> QED
    BY <2>1, <2>2, <2>3 DEF Matches
<1>2. CASE m.entries = << >>
  BY <1>1, <1>2 DEF Merged
<1>3. CASE /\ m.entries # << >>
           /\ m.prev + 1 <= Len(log[n])
           /\ log[n][m.prev + 1].term = m.entries[1].term
  BY <1>1, <1>3 DEF Merged
<1>4. CASE /\ m.entries # << >>
           /\ ~(m.prev + 1 <= Len(log[n]) /\ log[n][m.prev + 1].term = m.entries[1].term)
  <2>1. Merged(n, m) = SubSeq(log[n], 1, m.prev) \o m.entries
    BY <1>4 DEF Merged
  <2>2. SubSeq(log[n], 1, m.prev) \in Seq(Entry) /\ Len(SubSeq(log[n], 1, m.prev)) = m.prev
    BY <1>1
  <2> QED
    BY <1>1, <2>1, <2>2
<1> QED
  BY <1>2, <1>3, <1>4

LEMMA AppendBelowCommitType ==
  ASSUME NodeTypeOK, NEW n \in Node, NEW m \in network, AppendBelowCommit(n, m)
  PROVE  NodeTypeOK'
<1>1. FollowSender(n, m) /\ commit[n] \in Nat
  BY DEF AppendBelowCommit, NodeTypeOK
<1>2. AppendReply(n, m, FALSE, commit[n], 0) \in Message
  BY <1>1, FollowSenderType, AppendReplyType
<1> QED
  BY <1>1, <1>2, FollowSenderType DEF AppendBelowCommit, NodeTypeOK, logVars, storeVars

LEMMA AppendAcceptType ==
  ASSUME NodeTypeOK, NEW n \in Node, NEW m \in network, AppendAccept(n, m)
  PROVE  NodeTypeOK'
<1>1. FollowSender(n, m) /\ m \in AppendRequest /\ Matches(n, m)
  BY FollowSenderType DEF AppendAccept
<1>2. /\ m.prev \in Nat /\ Len(m.entries) \in Nat /\ m.commit \in Nat
      /\ m.prev + Len(m.entries) \in Nat
  BY <1>1 DEF AppendRequest
<1>3. AppendReply(n, m, FALSE, m.prev + Len(m.entries), 0) \in Message
  BY <1>1, <1>2, AppendReplyType
<1>4. log' \in [Node -> Seq(Entry)]
  BY <1>1, MergedType DEF AppendAccept, NodeTypeOK
<1>5. commit' \in [Node -> Nat]
  BY <1>2 DEF AppendAccept, NodeTypeOK, Larger, Smaller
<1> QED
  BY <1>1, <1>3, <1>4, <1>5, FollowSenderType DEF AppendAccept, NodeTypeOK, storeVars

LEMMA AppendRejectType ==
  ASSUME NodeTypeOK, NEW n \in Node, NEW m \in network, AppendReject(n, m)
  PROVE  NodeTypeOK'
<1>1. FollowSender(n, m) /\ m \in AppendRequest /\ ~Matches(n, m)
  BY FollowSenderType DEF AppendReject
<1>2. m.prev \in Nat /\ m.prevTerm \in Nat /\ log[n] \in Seq(Entry) /\ Len(log[n]) \in Nat
  BY <1>1 DEF AppendRequest, NodeTypeOK
<1>3. Smaller(m.prev - 1, Len(log[n])) \in Nat
  <2>1. CASE m.prev = 0
    <3>1. m.prevTerm = 0
      BY <1>1, <2>1 DEF AppendRequest
    <3>2. TermAt(log[n], m.prev) = 0 /\ m.prev <= Len(log[n])
      BY <1>2, <2>1 DEF TermAt
    <3> QED
      BY <1>1, <3>1, <3>2 DEF Matches
  <2>2. CASE m.prev # 0
    BY <1>2, <2>2 DEF Smaller
  <2> QED
    BY <2>1, <2>2
<1>4. AppendReply(n, m, TRUE, m.prev, Smaller(m.prev - 1, Len(log[n]))) \in Message
  BY <1>1, <1>2, <1>3, AppendReplyType
<1> QED
  BY <1>1, <1>4, FollowSenderType DEF AppendReject, NodeTypeOK, logVars, storeVars

LEMMA LeaderHearsType ==
  ASSUME NodeTypeOK, NEW n \in Node, NEW m \in network, LeaderHears(n, m)
  PROVE  /\ m \in AppendResponse
         /\ m.from \in Node /\ m.index \in Nat /\ m.hint \in Nat
<1>1. m \in AppendResponse
  BY DEF NodeTypeOK, LeaderHears, Message, VoteRequest, VoteResponse, AppendRequest,
         AppendResponse
<1> QED
  BY <1>1 DEF AppendResponse

LEMMA HandleAppendedType ==
  ASSUME NodeTypeOK, NEW n \in Node, NEW m \in network, HandleAppended(n, m)
  PROVE  NodeTypeOK'
<1>1. m.from \in Node /\ m.index \in Nat
  BY LeaderHearsType DEF HandleAppended
<1>0. m.index + 1 \in Nat
  BY <1>1
<1> USE DEF NodeTypeOK
<1>2. match' \in [Node -> [Node -> Nat]]
  <2>1. match' = [match EXCEPT ![n][m.from] = m.index]
    BY DEF HandleAppended
  <2> QED
    BY <1>1, <2>1
<1>3. next' \in [Node -> [Node -> Nat \ {0}]]
  <2>1. next' = [next EXCEPT ![n][m.from] = Larger(@, m.index + 1)]
    BY DEF HandleAppended
  <2>2. next[n][m.from] \in Nat \ {0}
    BY <1>1
  <2>3. Larger(next[n][m.from], m.index + 1) \in Nat \ {0}
    BY <1>0, <2>2, LargerType
  <2> QED
    BY <1>1, <2>1, <2>3
<1>4. PICK i \in 0 .. Len(log[n]) :
        /\ commit' = [commit EXCEPT ![n] = i]
        /\ UNCHANGED <<electionVars, log, storeVars, lost>>
        /\ network' = (network \ {m}) \cup
             (IF i > commit[n] THEN Appends(n)'
              ELSE {a \in {AppendTo(n, m.from)'} : a.entries # << >>})
  BY DEF HandleAppended
<1>5. i \in Nat
  <2>1. log[n] \in Seq(Entry)
    OBVIOUS
  <2> QED
    BY <1>4, <2>1
<1>6. commit' \in [Node -> Nat]
  BY <1>4, <1>5
<1>7. term' \in [Node -> Nat] /\ log' \in [Node -> Seq(Entry)]
  BY <1>4 DEF electionVars
<1>8. \A p \in Node :
        AppendMessage(n, p, term'[n], log'[n], next'[n][p], commit'[n]) \in Message
  BY <1>3, <1>6, <1>7, AppendsType
<1>9. network' \subseteq Message
  <2>1. Appends(n)' \subseteq Message
    BY <1>8 DEF Appends, AppendTo
  <2>2. AppendTo(n, m.from)' \in Message
    BY <1>1, <1>8 DEF AppendTo
  <2> QED
    BY <1>4, <2>1, <2>2
<1> QED
  BY <1>2, <1>3, <1>4, <1>6, <1>9 DEF electionVars, storeVars

LEMMA HandleRejectedType ==
  ASSUME NodeTypeOK, NEW n \in Node, NEW m \in network, HandleRejected(n, m)
  PROVE  NodeTypeOK'
<1>1. m.from \in Node /\ m.index \in Nat /\ m.hint \in Nat
  BY LeaderHearsType DEF HandleRejected
<1>0. m.hint + 1 \in Nat /\ 1 \in Nat \ {0}
  BY <1>1
<1> USE DEF NodeTypeOK
<1>2. next' \in [Node -> [Node -> Nat \ {0}]]
  <2>1. next' = [next EXCEPT ![n][m.from] = Larger(1, Smaller(m.index, m.hint + 1))]
    BY DEF HandleRejected
  <2>2. Smaller(m.index, m.hint + 1) \in Nat
    BY <1>0, <1>1, SmallerType
  <2>3. Larger(1, Smaller(m.index, m.hint + 1)) \in Nat \ {0}
    BY <1>0, <2>2, LargerType
  <2> QED
    BY <1>1, <2>1, <2>3
<1>3. /\ UNCHANGED <<electionVars, logVars, match, storeVars, lost>>
      /\ network' = (network \ {m}) \cup {AppendTo(n, m.from)'}
  BY DEF HandleRejected
<1>4. AppendTo(n, m.from)' \in Message
  <2>1. /\ term' \in [Node -> Nat] /\ log' \in [Node -> Seq(Entry)]
        /\ commit' \in [Node -> Nat]
    BY <1>3 DEF electionVars, logVars
  <2>2. \A p \in Node :
          AppendMessage(n, p, term'[n], log'[n], next'[n][p], commit'[n]) \in Message
    BY <1>2, <2>1, AppendsType
  <2> QED
    BY <1>1, <2>2 DEF AppendTo
<1> QED
  BY <1>2, <1>3, <1>4 DEF electionVars, logVars, storeVars

LEMMA IgnoreType ==
  ASSUME NodeTypeOK, NEW n \in Node, NEW m \in network, Ignore(n, m)
  PROVE  NodeTypeOK'
  BY DEF NodeTypeOK, Ignore, electionVars, logVars, progressVars, storeVars

\* Whatever message a node takes, its variables stay well typed.
LEMMA StepType ==
  ASSUME NodeTypeOK, NEW n \in Node, NEW m \in network, Step(n, m)
  PROVE  NodeTypeOK'
  BY GrantVoteType, DenyVoteType, CountVoteType, WinElectionType, LoseElectionType,
     AppendBelowCommitType, AppendAcceptType, AppendRejectType, HandleAppendedType,
     HandleRejectedType, IgnoreType
  DEF Step

LEMMA ProposeType ==
  ASSUME NodeTypeOK, NEW n \in Node, NEW c \in Call, Propose(n, c)
  PROVE  NodeTypeOK'
<1> USE DEF NodeTypeOK
<1>1. [term |-> term[n], call |-> c] \in Entry
  BY DEF Entry
<1>2. log' \in [Node -> Seq(Entry)]
  BY <1>1 DEF Propose
<1>3. /\ term' \in [Node -> Nat] /\ commit' \in [Node -> Nat]
      /\ next' \in [Node -> [Node -> Nat \ {0}]]
  BY DEF Propose, electionVars, progressVars
<1>4. \A p \in Node :
        AppendMessage(n, p, term'[n], log'[n], next'[n][p], commit'[n]) \in Message
  BY <1>2, <1>3, AppendsType
<1>5. Appends(n)' \subseteq Message
  BY <1>4 DEF Appends, AppendTo
<1> QED
  BY <1>2, <1>5 DEF Propose, electionVars, progressVars, storeVars

LEMMA HeartbeatTickType ==
  ASSUME NodeTypeOK, NEW n \in Node, HeartbeatTick(n)
  PROVE  NodeTypeOK'
<1>1. \A p \in Node :
        AppendMessage(n, p, term[n], log[n], next[n][p], commit[n]) \in Message
  BY AppendsType DEF NodeTypeOK
<1>2. Appends(n) \subseteq Message
  BY <1>1 DEF Appends, AppendTo
<1> QED
  BY <1>2
  DEF NodeTypeOK, HeartbeatTick, electionVars, logVars, progressVars, storeVars

LEMMA ApplyEntryType ==
  ASSUME NodeTypeOK, LogBounds, NEW n \in Node, ApplyEntry(n)
  PROVE  /\ NodeTypeOK'
         /\ applied[n] + 1 \in 1 .. Len(log[n])
         /\ log[n][applied[n] + 1].call \in Call \cup {None}
<1>1. /\ log[n] \in Seq(Entry) /\ applied[n] \in Nat /\ commit[n] \in Nat
      /\ Len(log[n]) \in Nat
  BY DEF NodeTypeOK
<1>2. applied[n] + 1 \in 1 .. Len(log[n])
  BY <1>1 DEF LogBounds, ApplyEntry
<1>3. log[n][applied[n] + 1].call \in Call \cup {None}
  <2>1. log[n][applied[n] + 1] \in Entry
    BY <1>1, <1>2
  <2> QED
    BY <2>1 DEF Entry
<1> DEFINE c == log[n][applied[n] + 1].call
<1>4. store' \in [Node -> [Key -> Value \cup {None}]]
  <2>1. CASE c = None
    BY <2>1 DEF ApplyEntry, NodeTypeOK
  <2>2. CASE c # None
    <3>1. KeyOf[c] \in Key /\ ValueOf[c] \in Value
      BY <1>3, <2>2, CommandAssumption
    <3>2. store' = [store EXCEPT ![n][KeyOf[c]] = ValueOf[c]]
      BY <2>2 DEF ApplyEntry
    <3> QED
      BY <3>1, <3>2 DEF NodeTypeOK
  <2> QED
    BY <2>1, <2>2
<1>5. applied' \in [Node -> Nat]
  BY <1>1 DEF ApplyEntry, NodeTypeOK
<1> QED
  BY <1>2, <1>3, <1>4, <1>5
  DEF ApplyEntry, NodeTypeOK, electionVars, logVars, progressVars

-----------------------------------------------------------------------------
(* The log: its bounds, and the part that is committed.                    *)

\* Every node keeps what it has committed and applied, and may add to it.
CommittedIsKept ==
  \A x \in Node :
    /\ commit[x] <= commit'[x]
    /\ applied[x] <= applied'[x]
    /\ \A i \in 1 .. commit[x] : log'[x][i] = log[x][i]

LEMMA LogUnchanged ==
  ASSUME NodeTypeOK, LogBounds, UNCHANGED <<log, commit, applied>>
  PROVE  LogBounds' /\ CommittedIsKept
<1>1. \A x \in Node : commit[x] \in Nat /\ applied[x] \in Nat
  BY DEF NodeTypeOK
<1> QED
  BY <1>1 DEF LogBounds, CommittedIsKept

\* One node's log is replaced by l, which agrees up to the commit index, and
\* its commit index grows to c.
LEMMA LogReplaced ==
  ASSUME NodeTypeOK, LogBounds, NEW n \in Node,
         NEW l \in Seq(Entry), NEW c \in Nat,
         log' = [log EXCEPT ![n] = l],
         commit' = [commit EXCEPT ![n] = c],
         applied' = applied,
         commit[n] <= c, c <= Len(l),
         \A i \in 1 .. commit[n] : l[i] = log[n][i]
  PROVE  LogBounds' /\ CommittedIsKept
<1> SUFFICES ASSUME NEW x \in Node
             PROVE  /\ applied'[x] <= commit'[x] /\ commit'[x] <= Len(log'[x])
                    /\ commit[x] <= commit'[x]
                    /\ applied[x] <= applied'[x]
                    /\ \A i \in 1 .. commit[x] : log'[x][i] = log[x][i]
  BY DEF LogBounds, CommittedIsKept
<1>1. /\ commit[x] \in Nat /\ applied[x] \in Nat
      /\ applied[x] <= commit[x] /\ commit[x] <= Len(log[x])
  BY DEF NodeTypeOK, LogBounds
<1>2. CASE x = n
  <2>1. log'[x] = l /\ commit'[x] = c /\ applied'[x] = applied[x]
    BY <1>2 DEF NodeTypeOK
  <2> QED
    BY <1>1, <1>2, <2>1
<1>3. CASE x # n
  <2>1. log'[x] = log[x] /\ commit'[x] = commit[x] /\ applied'[x] = applied[x]
    BY <1>3 DEF NodeTypeOK
  <2> QED
    BY <1>1, <2>1
<1> QED
  BY <1>2, <1>3

\* Appending to a leader's log, as a new leader and as one that proposes.
LEMMA LogAppended ==
  ASSUME NodeTypeOK, LogBounds, NEW n \in Node, NEW e \in Entry,
         log' = [log EXCEPT ![n] = Append(@, e)],
         UNCHANGED <<commit, applied>>
  PROVE  LogBounds' /\ CommittedIsKept
<1>1. /\ log[n] \in Seq(Entry) /\ commit[n] \in Nat /\ Len(log[n]) \in Nat
      /\ commit[n] <= Len(log[n])
  BY DEF NodeTypeOK, LogBounds
<1>2. /\ Append(log[n], e) \in Seq(Entry)
      /\ Len(Append(log[n], e)) = Len(log[n]) + 1
      /\ \A i \in 1 .. Len(log[n]) : Append(log[n], e)[i] = log[n][i]
  BY <1>1
<1>3. \A i \in 1 .. commit[n] : Append(log[n], e)[i] = log[n][i]
  BY <1>1, <1>2
<1>4. /\ log' = [log EXCEPT ![n] = Append(log[n], e)]
      /\ commit' = [commit EXCEPT ![n] = commit[n]]
      /\ applied' = applied
  BY DEF NodeTypeOK
<1>5. commit[n] <= commit[n] /\ commit[n] <= Len(Append(log[n], e))
  BY <1>1, <1>2
<1> DEFINE l == Append(log[n], e)
           c == commit[n]
<1>6. /\ l \in Seq(Entry) /\ c \in Nat
      /\ log' = [log EXCEPT ![n] = l] /\ commit' = [commit EXCEPT ![n] = c]
      /\ applied' = applied /\ commit[n] <= c /\ c <= Len(l)
      /\ \A i \in 1 .. commit[n] : l[i] = log[n][i]
  BY <1>1, <1>2, <1>3, <1>4, <1>5
<1> HIDE DEF l, c
<1> QED
  BY <1>6, LogReplaced

\* What follows the commit index of a follower may be cut; nothing before.
LEMMA AppendAcceptLog ==
  ASSUME NodeTypeOK, LogBounds, NEW n \in Node, NEW m \in network, AppendAccept(n, m)
  PROVE  LogBounds' /\ CommittedIsKept
<1>1. m \in AppendRequest /\ Matches(n, m) /\ m.prev >= commit[n]
  BY FollowSenderType DEF AppendAccept
<1>2. /\ log[n] \in Seq(Entry) /\ commit[n] \in Nat /\ Len(log[n]) \in Nat
      /\ commit[n] <= Len(log[n])
      /\ m.prev \in Nat /\ m.commit \in Nat /\ m.prev <= Len(log[n])
      /\ m.entries \in Seq(Entry) /\ Len(m.entries) \in Nat
  <2>1. m.prev \in Nat /\ m.commit \in Nat /\ m.entries \in Seq(Entry)
    BY <1>1 DEF AppendRequest
  <2>2. log[n] \in Seq(Entry) /\ commit[n] \in Nat /\ commit[n] <= Len(log[n])
    BY DEF NodeTypeOK, LogBounds
  <2> QED
    BY <1>1, <2>1, <2>2 DEF Matches
<1> DEFINE l == Merged(n, m)
           c == Larger(commit[n], Smaller(m.commit, m.prev + Len(m.entries)))
<1>3. l \in Seq(Entry) /\ Len(l) \in Nat /\ m.prev + Len(m.entries) <= Len(l)
  BY <1>1, MergedType
<1>4. \A i \in 1 .. commit[n] : l[i] = log[n][i]
  <2>1. CASE Merged(n, m) = log[n]
    BY <2>1
  <2>2. CASE Merged(n, m) = SubSeq(log[n], 1, m.prev) \o m.entries
    <3>1. /\ SubSeq(log[n], 1, m.prev) \in Seq(Entry)
          /\ Len(SubSeq(log[n], 1, m.prev)) = m.prev
          /\ \A i \in 1 .. m.prev : SubSeq(log[n], 1, m.prev)[i] = log[n][i]
      BY <1>2
    <3>2. \A i \in 1 .. m.prev :
            (SubSeq(log[n], 1, m.prev) \o m.entries)[i] = SubSeq(log[n], 1, m.prev)[i]
      BY <1>2, <3>1
    <3> QED
      BY <1>1, <1>2, <2>2, <3>1, <3>2
  <2> QED
    BY <2>1, <2>2 DEF Merged
<1>5. c \in Nat /\ commit[n] <= c /\ c <= Len(l)
  <2> DEFINE k == m.prev + Len(m.entries)
  <2>1. k \in Nat /\ commit[n] <= k /\ k <= Len(l)
    BY <1>1, <1>2, <1>3
  <2>2. Smaller(m.commit, k) \in Nat /\ Smaller(m.commit, k) <= k
    BY <1>2, <2>1 DEF Smaller
  <2>3. \A s \in Nat : s <= k =>
          /\ Larger(commit[n], s) \in Nat
          /\ commit[n] <= Larger(commit[n], s) /\ Larger(commit[n], s) <= Len(l)
    BY <1>2, <1>3, <2>1 DEF Larger
  <2> QED
    BY <2>2, <2>3
<1>6. /\ log' = [log EXCEPT ![n] = l]
      /\ commit' = [commit EXCEPT ![n] = c]
      /\ applied' = applied
  BY DEF AppendAccept, storeVars
<1> QED
  BY <1>3, <1>4, <1>5, <1>6, LogReplaced

LEMMA HandleAppendedLog ==
  ASSUME NodeTypeOK, LogBounds, NEW n \in Node, NEW m \in network, HandleAppended(n, m)
  PROVE  LogBounds' /\ CommittedIsKept
<1>1. /\ log[n] \in Seq(Entry) /\ commit[n] \in Nat /\ Len(log[n]) \in Nat
      /\ commit[n] <= Len(log[n])
  BY DEF NodeTypeOK, LogBounds
<1>2. PICK i \in 0 .. Len(log[n]) :
        /\ CommitAfter(n, [match[n] EXCEPT ![m.from] = m.index], i)
        /\ commit' = [commit EXCEPT ![n] = i]
        /\ UNCHANGED <<electionVars, log, storeVars, lost>>
  BY DEF HandleAppended
<1>3. i \in Nat /\ i <= Len(log[n])
  BY <1>1, <1>2
<1>4. commit[n] <= i
  BY <1>1, <1>2 DEF CommitAfter, Committable
<1>5. log' = [log EXCEPT ![n] = log[n]] /\ applied' = applied
  BY <1>2 DEF NodeTypeOK, storeVars
<1>6. commit' = [commit EXCEPT ![n] = i]
  BY <1>2
<1>7. \A j \in 1 .. commit[n] : log[n][j] = log[n][j]
  OBVIOUS
<1> QED
  BY <1>1, <1>3, <1>4, <1>5, <1>6, <1>7, LogReplaced

\* Whatever message a node takes, its committed entries stay.
LEMMA StepLog ==
  ASSUME NodeTypeOK, LogBounds, NEW n \in Node, NEW m \in network, Step(n, m)
  PROVE  LogBounds' /\ CommittedIsKept
<1>1. CASE \/ GrantVote(n, m) \/ DenyVote(n, m) \/ CountVote(n, m)
           \/ LoseElection(n, m) \/ AppendBelowCommit(n, m) \/ AppendReject(n, m)
           \/ HandleRejected(n, m) \/ Ignore(n, m)
  <2>1. UNCHANGED <<log, commit, applied>>
    BY <1>1
    DEF GrantVote, DenyVote, CountVote, LoseElection, AppendBelowCommit, AppendReject,
        HandleRejected, Ignore, logVars, storeVars
  <2> QED
    BY <2>1, LogUnchanged
<1>2. CASE WinElection(n, m)
  <2>1. [term |-> term[n], call |-> None] \in Entry
    BY DEF Entry, NodeTypeOK
  <2>2. /\ log' = [log EXCEPT ![n] = Append(@, [term |-> term[n], call |-> None])]
        /\ UNCHANGED <<commit, applied>>
    BY <1>2 DEF WinElection, storeVars
  <2> QED
    BY <2>1, <2>2, LogAppended
<1>3. CASE AppendAccept(n, m)
  BY <1>3, AppendAcceptLog
<1>4. CASE HandleAppended(n, m)
  BY <1>4, HandleAppendedLog
<1> QED
  BY <1>1, <1>2, <1>3, <1>4 DEF Step

LEMMA ApplyEntryLog ==
  ASSUME NodeTypeOK, LogBounds, NEW n \in Node, ApplyEntry(n)
  PROVE  LogBounds' /\ CommittedIsKept
<1>1. \A x \in Node : commit[x] \in Nat /\ applied[x] \in Nat
  BY DEF NodeTypeOK
<1>2. \A x \in Node : /\ applied[x] <= applied'[x]
                      /\ applied'[x] <= commit[x]
  <2>1. applied[n] < commit[n] /\ applied' = [applied EXCEPT ![n] = applied[n] + 1]
    BY DEF ApplyEntry
  <2>2. applied \in [Node -> Nat]
    BY DEF NodeTypeOK
  <2>3. \A x \in Node : applied'[x] = IF x = n THEN applied[x] + 1 ELSE applied[x]
    BY <2>1, <2>2
  <2> QED
    BY <1>1, <2>1, <2>3 DEF LogBounds
<1>3. UNCHANGED <<log, commit>>
  BY DEF ApplyEntry, logVars
<1> QED
  BY <1>1, <1>2, <1>3 DEF LogBounds, CommittedIsKept

-----------------------------------------------------------------------------
(* The worker: its calls and the nodes together.                           *)

\* A list with its i-th element taken out.
Without(s, i) == SubSeq(s, 1, i - 1) \o SubSeq(s, i + 1, Len(s))

LEMMA RemoveAt ==
  ASSUME NEW S, NEW s \in Seq(S), NEW i \in 1 .. Len(s)
  PROVE  /\ Without(s, i) \in Seq(S)
         /\ Len(Without(s, i)) = Len(s) - 1
         /\ \A j \in 1 .. Len(s) - 1 :
              Without(s, i)[j] = IF j < i THEN s[j] ELSE s[j + 1]
<1> DEFINE a == SubSeq(s, 1, i - 1)
           b == SubSeq(s, i + 1, Len(s))
<1>1. Len(s) \in Nat /\ i \in Nat /\ 1 <= i /\ i <= Len(s)
  OBVIOUS
<1>2. /\ a \in Seq(S) /\ Len(a) = i - 1
      /\ \A j \in 1 .. i - 1 : a[j] = s[j]
  BY <1>1
<1>3. /\ b \in Seq(S) /\ Len(b) = Len(s) - i
      /\ \A j \in 1 .. Len(s) - i : b[j] = s[i + j]
  BY <1>1
<1>4. Without(s, i) = a \o b
  BY DEF Without
<1> HIDE DEF a, b
<1>5. /\ a \o b \in Seq(S) /\ Len(a \o b) = Len(a) + Len(b)
      /\ \A j \in 1 .. Len(a) + Len(b) :
           (a \o b)[j] = IF j <= Len(a) THEN a[j] ELSE b[j - Len(a)]
  BY <1>2, <1>3, ConcatProperties
<1>6. Len(a) + Len(b) = Len(s) - 1
  BY <1>1, <1>2, <1>3
<1>7. ASSUME NEW j \in 1 .. Len(s) - 1
      PROVE  (a \o b)[j] = IF j < i THEN s[j] ELSE s[j + 1]
  <2>1. (a \o b)[j] = IF j <= i - 1 THEN a[j] ELSE b[j - (i - 1)]
    BY <1>2, <1>5, <1>6
  <2>2. CASE j < i
    BY <1>1, <1>2, <2>1, <2>2
  <2>3. CASE ~(j < i)
    <3>1. j - (i - 1) \in 1 .. Len(s) - i /\ i + (j - (i - 1)) = j + 1
      BY <1>1, <2>3
    <3> QED
      BY <1>1, <1>3, <2>1, <2>3, <3>1
  <2> QED
    BY <2>2, <2>3
<1> QED
  BY <1>4, <1>5, <1>6, <1>7

\* The variables that change only with a call, its answer, or a worker's end.
WorkerTypeOK ==
  /\ alive       \in [Node -> BOOLEAN]
  /\ pendingPuts \in [Node -> Seq(Call)]
  /\ home        \in [Call -> Node \cup {None}]
  /\ answer      \in [Call -> {"none", "waiting", "ok", "err"}]

LEMMA NotifyType ==
  ASSUME WorkerTypeOK, NEW n \in Node, NEW c \in Call, Notify(n, c)
  PROVE  /\ pendingPuts' \in [Node -> Seq(Call)]
         /\ answer' \in [Call -> {"none", "waiting", "ok", "err"}]
<1>1. CASE Waiting(n, c) = {}
  BY <1>1 DEF Notify, WorkerTypeOK
<1>2. CASE Waiting(n, c) # {}
  <2>1. PICK i \in Waiting(n, c) :
          /\ pendingPuts' = [pendingPuts EXCEPT ![n] =
                               SubSeq(@, 1, i - 1) \o SubSeq(@, i + 1, Len(@))]
          /\ answer' = [answer EXCEPT ![pendingPuts[n][i]] = "ok"]
    BY <1>2 DEF Notify
  <2>2. pendingPuts[n] \in Seq(Call) /\ i \in 1 .. Len(pendingPuts[n])
    BY DEF WorkerTypeOK, Waiting
  <2>3. SubSeq(pendingPuts[n], 1, i - 1)
          \o SubSeq(pendingPuts[n], i + 1, Len(pendingPuts[n])) \in Seq(Call)
    BY <2>2, RemoveAt DEF Without
  <2> QED
    BY <2>1, <2>2, <2>3 DEF WorkerTypeOK
<1> QED
  BY <1>1, <1>2

LEMMA RequestType ==
  ASSUME TypeOK, LogBounds, NEW c \in Call, Request(c)
  PROVE  NodeTypeOK' /\ WorkerTypeOK' /\ LogBounds' /\ CommittedIsKept
<1>1. NodeTypeOK /\ WorkerTypeOK
  BY DEF TypeOK, WorkerTypeOK
<1>2. PICK n \in Node : \/ PutOnLeader(c, n)
                        \/ PutRefused(c, n)
                        \/ Campaign(c, n)
                        \/ CallFails(c, n)
  BY DEF Request
<1>3. /\ home' \in [Call -> Node \cup {None}]
      /\ answer' \in [Call -> {"none", "waiting", "ok", "err"}]
  <2>1. \E a \in {"waiting", "ok", "err"} : Answer(c, n, a)
    BY <1>2 DEF PutOnLeader, PutRefused, Campaign, CallFails
  <2> QED
    BY <1>1, <2>1 DEF Answer, WorkerTypeOK
<1>4. /\ alive' \in [Node -> BOOLEAN]
      /\ pendingPuts' \in [Node -> Seq(Call)]
  <2>1. CASE PutOnLeader(c, n)
    <3>1. /\ alive' = alive
          /\ pendingPuts' = [pendingPuts EXCEPT ![n] = Append(@, c)]
      BY <2>1 DEF PutOnLeader
    <3>2. Append(pendingPuts[n], c) \in Seq(Call)
      BY <1>1 DEF WorkerTypeOK
    <3> QED
      BY <1>1, <3>1, <3>2 DEF WorkerTypeOK
  <2>2. CASE PutRefused(c, n) \/ Campaign(c, n) \/ CallFails(c, n)
    BY <1>1, <2>2 DEF PutRefused, Campaign, CallFails, WorkerTypeOK
  <2> QED
    BY <1>2, <2>1, <2>2
<1>5. CASE UNCHANGED nodeVars
  <2>1. NodeTypeOK'
    BY <1>1, <1>5
    DEF NodeTypeOK, nodeVars, electionVars, logVars, progressVars, storeVars
  <2>2. UNCHANGED <<log, commit, applied>>
    BY <1>5 DEF nodeVars, logVars, storeVars
  <2> QED
    BY <1>1, <1>3, <1>4, <2>1, <2>2, LogUnchanged DEF WorkerTypeOK
<1>6. CASE PutOnLeader(c, n)
  <2>1. Propose(n, c)
    BY <1>6 DEF PutOnLeader
  <2>2. [term |-> term[n], call |-> c] \in Entry
    BY <1>1 DEF Entry, NodeTypeOK
  <2>3. /\ log' = [log EXCEPT ![n] = Append(@, [term |-> term[n], call |-> c])]
        /\ UNCHANGED <<commit, applied>>
    BY <2>1 DEF Propose, storeVars
  <2>4. LogBounds' /\ CommittedIsKept
    BY <1>1, <2>2, <2>3, LogAppended
  <2> QED
    BY <1>1, <1>3, <1>4, <2>1, <2>4, ProposeType DEF WorkerTypeOK
<1>7. CASE Campaign(c, n) /\ Hup(n)
  <2>1. UNCHANGED <<log, commit, applied>>
    BY <1>7 DEF Hup, logVars, storeVars
  <2> QED
    BY <1>1, <1>3, <1>4, <1>7, <2>1, HupType, LogUnchanged DEF WorkerTypeOK
<1> QED
  BY <1>2, <1>5, <1>6, <1>7 DEF PutRefused, Campaign, CallFails

\* Types and log bounds are kept by every step, and so is what is committed.
LEMMA NextType ==
  ASSUME TypeOK, LogBounds, [Next]_vars
  PROVE  TypeOK' /\ LogBounds' /\ CommittedIsKept
<1>1. NodeTypeOK /\ WorkerTypeOK
  BY DEF TypeOK, WorkerTypeOK
<1> SUFFICES NodeTypeOK' /\ WorkerTypeOK' /\ LogBounds' /\ CommittedIsKept
  BY DEF TypeOK, WorkerTypeOK
<1>2. ASSUME UNCHANGED workerVars PROVE WorkerTypeOK'
  BY <1>1, <1>2 DEF WorkerTypeOK, workerVars
<1>3. ASSUME NEW c \in Call, Request(c)
      PROVE  NodeTypeOK' /\ WorkerTypeOK' /\ LogBounds' /\ CommittedIsKept
  BY <1>3, RequestType
<1>4. ASSUME NEW n \in Node, ElectionTimeout(n)
      PROVE  NodeTypeOK' /\ WorkerTypeOK' /\ LogBounds' /\ CommittedIsKept
  <2>1. Hup(n) /\ UNCHANGED workerVars
    BY <1>4 DEF ElectionTimeout
  <2>2. UNCHANGED <<log, commit, applied>>
    BY <2>1 DEF Hup, logVars, storeVars
  <2> QED
    BY <1>1, <1>2, <2>1, <2>2, HupType, LogUnchanged
<1>5. ASSUME NEW n \in Node, Heartbeat(n)
      PROVE  NodeTypeOK' /\ WorkerTypeOK' /\ LogBounds' /\ CommittedIsKept
  <2>1. HeartbeatTick(n) /\ UNCHANGED workerVars
    BY <1>5 DEF Heartbeat
  <2>2. UNCHANGED <<log, commit, applied>>
    BY <2>1 DEF HeartbeatTick, logVars, storeVars
  <2> QED
    BY <1>1, <1>2, <2>1, <2>2, HeartbeatTickType, LogUnchanged
<1>6. ASSUME NEW n \in Node, Ready(n)
      PROVE  NodeTypeOK' /\ WorkerTypeOK' /\ LogBounds' /\ CommittedIsKept
  <2>1. ApplyEntry(n) /\ UNCHANGED <<alive, home>>
    BY <1>6 DEF Ready
  <2>2. NodeTypeOK' /\ log[n][applied[n] + 1].call \in Call \cup {None}
    BY <1>1, <2>1, ApplyEntryType
  <2>3. /\ pendingPuts' \in [Node -> Seq(Call)]
        /\ answer' \in [Call -> {"none", "waiting", "ok", "err"}]
    <3>1. CASE log[n][applied[n] + 1].call = None
      BY <1>1, <1>6, <3>1 DEF Ready, WorkerTypeOK
    <3>2. CASE log[n][applied[n] + 1].call # None
      BY <1>1, <1>6, <2>2, <3>2, NotifyType DEF Ready
    <3> QED
      BY <3>1, <3>2
  <2> QED
    BY <1>1, <2>1, <2>2, <2>3, ApplyEntryLog DEF WorkerTypeOK
<1>7. ASSUME NEW n \in Node, Stop(n)
      PROVE  NodeTypeOK' /\ WorkerTypeOK' /\ LogBounds' /\ CommittedIsKept
  <2>1. UNCHANGED nodeVars
    BY <1>7 DEF Stop
  <2>2. NodeTypeOK' /\ UNCHANGED <<log, commit, applied>>
    BY <1>1, <2>1
    DEF NodeTypeOK, nodeVars, electionVars, logVars, progressVars, storeVars
  <2>3. WorkerTypeOK'
    BY <1>1, <1>7 DEF Stop, WorkerTypeOK
  <2> QED
    BY <1>1, <2>2, <2>3, LogUnchanged
<1>8. ASSUME NEW m \in network, Receive(m.to, m)
      PROVE  NodeTypeOK' /\ WorkerTypeOK' /\ LogBounds' /\ CommittedIsKept
  <2>1. m.to \in Node
    BY <1>1 DEF NodeTypeOK, Message, VoteRequest, VoteResponse, AppendRequest,
                AppendResponse
  <2>2. Step(m.to, m) /\ UNCHANGED workerVars
    BY <1>8 DEF Receive
  <2> QED
    BY <1>1, <1>2, <2>1, <2>2, StepType, StepLog
<1>9. ASSUME NEW m \in network, Lose(m)
      PROVE  NodeTypeOK' /\ WorkerTypeOK' /\ LogBounds' /\ CommittedIsKept
  <2>1. /\ lost' = lost + 1 /\ network' = network \ {m}
        /\ UNCHANGED <<electionVars, logVars, progressVars, storeVars, workerVars>>
    BY <1>9 DEF Lose
  <2>2. NodeTypeOK' /\ UNCHANGED <<log, commit, applied>>
    BY <1>1, <2>1 DEF NodeTypeOK, electionVars, logVars, progressVars, storeVars
  <2> QED
    BY <1>1, <1>2, <2>1, <2>2, LogUnchanged
<1>10. CASE UNCHANGED vars
  <2>1. NodeTypeOK' /\ UNCHANGED <<log, commit, applied>> /\ UNCHANGED workerVars
    BY <1>1, <1>10
    DEF NodeTypeOK, vars, nodeVars, electionVars, logVars, progressVars, storeVars
  <2> QED
    BY <1>1, <1>2, <2>1, LogUnchanged
<1> QED
  BY <1>3, <1>4, <1>5, <1>6, <1>7, <1>8, <1>9, <1>10 DEF Next

LEMMA InitType == Init => TypeOK /\ LogBounds
  BY DEF Init, NodeInit, TypeOK, NodeTypeOK, LogBounds, Role

\* Every variable keeps its type and the log its bounds in every reachable
\* state.
THEOREM TypesAndBounds == Spec => [](TypeOK /\ LogBounds)
<1>1. TypeOK /\ LogBounds /\ [Next]_vars => (TypeOK /\ LogBounds)'
  BY NextType
<1> QED
  BY <1>1, InitType, PTL DEF Spec

\* The type invariant of the nodes, the network and the callers.
THEOREM TypeCorrect == Spec => []TypeOK
  BY TypesAndBounds, PTL

\* What a node has committed it keeps, in every step of every behaviour.
THEOREM CommittedStays == Spec => CommittedNeverChanges
<1>1. TypeOK /\ LogBounds /\ [Next]_vars =>
        [\A n \in Node :
           /\ commit[n] <= commit'[n]
           /\ \A i \in 1 .. commit[n] : log'[n][i] = log[n][i]]_vars
  BY NextType DEF CommittedIsKept
<1> QED
  BY <1>1, TypesAndBounds, PTL DEF Spec, CommittedNeverChanges

-----------------------------------------------------------------------------
(* What the callers of a NodeHandle are told.  A caller waits exactly when *)
(* a running worker remembers its PUT, and an Ok stands for a command the  *)
(* node has applied: the command lies below the commit index, where no     *)
(* later election changes the log (CommittedIsKept).                       *)

CallsInv ==
  /\ TypeOK /\ LogBounds
  /\ PendingOnce /\ HomeIsKnown /\ WaitersAreTracked
  /\ AckedPutApplied

\* What a node has applied stays applied.
LEMMA AppliedStays ==
  ASSUME TypeOK, LogBounds, TypeOK', LogBounds', CommittedIsKept,
         NEW n \in Node, NEW c \in Call, HasApplied(n, c)
  PROVE  HasApplied(n, c)'
<1>1. PICK i \in 1 .. applied[n] : /\ i <= Len(log[n])
                                   /\ log[n][i].call # None
                                   /\ SameCommand(log[n][i].call, c)
  BY DEF HasApplied
<1>2. /\ applied[n] \in Nat /\ commit[n] \in Nat /\ applied'[n] \in Nat
      /\ commit'[n] \in Nat /\ Len(log'[n]) \in Nat
  BY DEF TypeOK, NodeTypeOK
<1>3. applied[n] <= commit[n] /\ applied'[n] <= commit'[n] /\ commit'[n] <= Len(log'[n])
  BY DEF LogBounds
<1>4. applied[n] <= applied'[n]
  BY DEF CommittedIsKept
<1>5. i \in 1 .. commit[n] /\ i \in 1 .. applied'[n] /\ i <= Len(log'[n])
  BY <1>1, <1>2, <1>3, <1>4
<1>6. log'[n][i] = log[n][i]
  BY <1>5 DEF CommittedIsKept
<1> QED
  BY <1>1, <1>5, <1>6 DEF HasApplied, SameCommand

\* A step that gives no PUT an Ok keeps every Ok good.
LEMMA AcksStay ==
  ASSUME CallsInv, TypeOK', LogBounds', CommittedIsKept,
         \A c \in PutCall :
           answer'[c] = "ok" => answer[c] = "ok" /\ home'[c] = home[c]
  PROVE  AckedPutApplied'
<1> SUFFICES ASSUME NEW c \in PutCall, answer'[c] = "ok"
             PROVE  HasApplied(home[c], c)' /\ home'[c] = home[c]
  BY DEF AckedPutApplied, HasApplied
<1>1. answer[c] = "ok" /\ home'[c] = home[c] /\ c \in Call
  BY DEF PutCall
<1>2. home[c] \in Node /\ HasApplied(home[c], c)
  BY <1>1 DEF CallsInv, HomeIsKnown, AckedPutApplied
<1>3. \A n \in Node : HasApplied(n, c) => HasApplied(n, c)'
  BY <1>1, AppliedStays DEF CallsInv
<1> QED
  BY <1>1, <1>2, <1>3

-----------------------------------------------------------------------------
(* The three ways a step touches the calls.                                *)

Tracking == PendingOnce /\ HomeIsKnown /\ WaitersAreTracked

LEMMA QuietTracking ==
  ASSUME Tracking, UNCHANGED workerVars
  PROVE  Tracking'
  BY DEF Tracking, PendingOnce, HomeIsKnown, WaitersAreTracked, Remembers, workerVars

\* A call made: nobody remembered it, and only the Put arm starts to.
LEMMA RequestTracking ==
  ASSUME TypeOK, Tracking, NEW c \in Call, Request(c)
  PROVE  Tracking'
<1>1. PICK n \in Node : \/ PutOnLeader(c, n) \/ PutRefused(c, n)
                        \/ Campaign(c, n) \/ CallFails(c, n)
  BY DEF Request
<1>2. PICK a \in {"waiting", "ok", "err"} :
        /\ Answer(c, n, a)
        /\ a = "waiting" => PutOnLeader(c, n)
        /\ a # "waiting" => UNCHANGED pendingPuts
  BY <1>1 DEF PutOnLeader, PutRefused, Campaign, CallFails
<1>3. /\ answer[c] = "none" /\ answer'[c] = a /\ home'[c] = n
      /\ \A d \in Call \ {c} : answer'[d] = answer[d] /\ home'[d] = home[d]
      /\ alive' = alive
  BY <1>1, <1>2
  DEF Answer, TypeOK, PutOnLeader, PutRefused, Campaign, CallFails
<1>4. \A x \in Node : ~(alive[x] /\ Remembers(x, c))
  BY <1>3 DEF Tracking, WaitersAreTracked
<1>5. HomeIsKnown'
  BY <1>3 DEF Tracking, HomeIsKnown
<1>6. CASE a # "waiting"
  <2>1. \A x \in Node, d \in Call : Remembers(x, d)' <=> Remembers(x, d)
    BY <1>2, <1>6 DEF Remembers
  <2>2. WaitersAreTracked'
    BY <1>3, <1>4, <1>6, <2>1 DEF Tracking, WaitersAreTracked
  <2>3. PendingOnce'
    BY <1>2, <1>3, <1>6 DEF Tracking, PendingOnce
  <2> QED
    BY <1>5, <2>2, <2>3 DEF Tracking
<1>7. CASE a = "waiting"
  <2>1. /\ pendingPuts' = [pendingPuts EXCEPT ![n] = Append(@, c)]
        /\ alive[n]
    BY <1>2, <1>7 DEF PutOnLeader, AtSelect
  <2>2. pendingPuts[n] \in Seq(Call) /\ Len(pendingPuts[n]) \in Nat
    BY DEF TypeOK
  <2>3. /\ Len(pendingPuts'[n]) = Len(pendingPuts[n]) + 1
        /\ \A i \in 1 .. Len(pendingPuts[n]) : pendingPuts'[n][i] = pendingPuts[n][i]
        /\ pendingPuts'[n][Len(pendingPuts[n]) + 1] = c
    BY <2>1, <2>2 DEF TypeOK
  <2>4. \A x \in Node \ {n} : pendingPuts'[x] = pendingPuts[x]
    BY <2>1 DEF TypeOK
  <2>5. \A d \in Call : Remembers(n, d)' <=> Remembers(n, d) \/ d = c
    BY <2>2, <2>3 DEF Remembers
  <2>6. \A x \in Node \ {n}, d \in Call : Remembers(x, d)' <=> Remembers(x, d)
    BY <2>4 DEF Remembers
  <2>7. WaitersAreTracked'
    BY <1>3, <1>4, <1>7, <2>1, <2>5, <2>6 DEF Tracking, WaitersAreTracked
  <2>8. \A i \in 1 .. Len(pendingPuts[n]) : pendingPuts[n][i] # c
    BY <1>4, <2>1 DEF Remembers
  <2>9. \A i, j \in 1 .. Len(pendingPuts'[n]) :
          pendingPuts'[n][i] = pendingPuts'[n][j] => i = j
    <3> SUFFICES ASSUME NEW i \in 1 .. Len(pendingPuts'[n]),
                        NEW j \in 1 .. Len(pendingPuts'[n]),
                        pendingPuts'[n][i] = pendingPuts'[n][j]
                 PROVE  i = j
      OBVIOUS
    <3>1. /\ i \in 1 .. Len(pendingPuts[n]) \/ i = Len(pendingPuts[n]) + 1
          /\ j \in 1 .. Len(pendingPuts[n]) \/ j = Len(pendingPuts[n]) + 1
      BY <2>2, <2>3
    <3>2. CASE i \in 1 .. Len(pendingPuts[n]) /\ j \in 1 .. Len(pendingPuts[n])
      <4>1. pendingPuts[n][i] = pendingPuts[n][j]
        BY <2>3, <3>2
      <4> QED
        BY <3>2, <4>1 DEF Tracking, PendingOnce
    <3>3. CASE i \in 1 .. Len(pendingPuts[n]) /\ j = Len(pendingPuts[n]) + 1
      BY <2>3, <2>8, <3>3
    <3>4. CASE i = Len(pendingPuts[n]) + 1 /\ j \in 1 .. Len(pendingPuts[n])
      BY <2>3, <2>8, <3>4
    <3> QED
      BY <3>1, <3>2, <3>3, <3>4
  <2>10. PendingOnce'
    BY <1>3, <2>1, <2>4, <2>9 DEF Tracking, PendingOnce
  <2> QED
    BY <1>5, <2>7, <2>10 DEF Tracking
<1> QED
  BY <1>6, <1>7

\* An answer taken out of the list: the one caller it was for has it.
LEMMA NotifyTracking ==
  ASSUME TypeOK, Tracking, NEW n \in Node, NEW c \in Call, alive[n],
         Notify(n, c), UNCHANGED <<alive, home>>
  PROVE  /\ Tracking'
         /\ \A d \in Call : answer'[d] = "ok" =>
              answer[d] = "ok" \/ (home[d] = n /\ SameCommand(d, c))
<1>1. CASE Waiting(n, c) = {}
  BY <1>1, QuietTracking DEF Notify, workerVars
<1>2. CASE Waiting(n, c) # {}
  <2>1. PICK i \in Waiting(n, c) :
          /\ pendingPuts' = [pendingPuts EXCEPT ![n] =
                               SubSeq(@, 1, i - 1) \o SubSeq(@, i + 1, Len(@))]
          /\ answer' = [answer EXCEPT ![pendingPuts[n][i]] = "ok"]
    BY <1>2 DEF Notify
  <2> DEFINE s == pendingPuts[n]
             d == s[i]
  <2>2. /\ s \in Seq(Call) /\ Len(s) \in Nat /\ i \in 1 .. Len(s) /\ d \in Call
        /\ SameCommand(d, c)
    BY DEF TypeOK, Waiting
  <2>3. pendingPuts'[n] = Without(s, i)
    BY <2>1 DEF Without, TypeOK
  <2>4. /\ Len(pendingPuts'[n]) = Len(s) - 1
        /\ \A j \in 1 .. Len(s) - 1 :
             pendingPuts'[n][j] = IF j < i THEN s[j] ELSE s[j + 1]
    <3> HIDE DEF s
    <3>1. /\ Len(Without(s, i)) = Len(s) - 1
          /\ \A j \in 1 .. Len(s) - 1 :
               Without(s, i)[j] = IF j < i THEN s[j] ELSE s[j + 1]
      BY <2>2, RemoveAt
    <3> QED
      BY <2>3, <3>1
  <2>5. \A x \in Node \ {n} : pendingPuts'[x] = pendingPuts[x]
    BY <2>1 DEF TypeOK
  <2>6. /\ answer'[d] = "ok"
        /\ \A e \in Call \ {d} : answer'[e] = answer[e]
    BY <2>1, <2>2 DEF TypeOK
  <2>7. \A j, k \in 1 .. Len(s) : s[j] = s[k] => j = k
    BY DEF Tracking, PendingOnce
  <2> HIDE DEF s
  <2>8. \A e \in Call : Remembers(n, e)' <=> (Remembers(n, e) /\ e # d)
    <3> SUFFICES ASSUME NEW e \in Call
                 PROVE  (\E j \in 1 .. Len(s) - 1 : pendingPuts'[n][j] = e) <=>
                        (\E k \in 1 .. Len(s) : s[k] = e) /\ e # d
      BY <2>4 DEF Remembers, s
    <3>1. ASSUME NEW j \in 1 .. Len(s) - 1, pendingPuts'[n][j] = e
          PROVE  (\E k \in 1 .. Len(s) : s[k] = e) /\ e # d
      <4>1. CASE j < i
        BY <2>2, <2>4, <2>7, <3>1, <4>1
      <4>2. CASE ~(j < i)
        <5>1. j + 1 \in 1 .. Len(s) /\ j + 1 # i /\ s[j + 1] = e
          BY <2>2, <2>4, <3>1, <4>2
        <5> QED
          BY <2>2, <2>7, <5>1
      <4> QED
        BY <4>1, <4>2
    <3>2. ASSUME NEW k \in 1 .. Len(s), s[k] = e, e # d
          PROVE  \E j \in 1 .. Len(s) - 1 : pendingPuts'[n][j] = e
      <4>1. CASE k < i
        <5>1. k \in 1 .. Len(s) - 1
          BY <2>2, <4>1
        <5> QED
          BY <2>4, <3>2, <4>1, <5>1
      <4>2. CASE k > i
        <5>1. k - 1 \in 1 .. Len(s) - 1 /\ ~(k - 1 < i) /\ (k - 1) + 1 = k
          BY <2>2, <4>2
        <5> QED
          BY <2>4, <3>2, <5>1
      <4>3. k # i
        BY <3>2
      <4> QED
        BY <2>2, <4>1, <4>2, <4>3
    <3> QED
      BY <3>1, <3>2
  <2>9. Remembers(n, d)
    BY <2>2 DEF Remembers, s
  <2>10. answer[d] = "waiting" /\ home[d] = n
    BY <2>2, <2>9 DEF Tracking, WaitersAreTracked
  <2>11. \A x \in Node \ {n}, e \in Call : Remembers(x, e)' <=> Remembers(x, e)
    BY <2>5 DEF Remembers
  <2>12. WaitersAreTracked'
    BY <2>2, <2>6, <2>8, <2>10, <2>11 DEF Tracking, WaitersAreTracked
  <2>13. HomeIsKnown'
    BY <2>2, <2>6, <2>10 DEF Tracking, HomeIsKnown
  <2>14. \A j, k \in 1 .. Len(s) - 1 : pendingPuts'[n][j] = pendingPuts'[n][k] => j = k
    <3> SUFFICES ASSUME NEW j \in 1 .. Len(s) - 1, NEW k \in 1 .. Len(s) - 1,
                        pendingPuts'[n][j] = pendingPuts'[n][k]
                 PROVE  j = k
      OBVIOUS
    <3>1. /\ j \in 1 .. Len(s) /\ j + 1 \in 1 .. Len(s)
          /\ k \in 1 .. Len(s) /\ k + 1 \in 1 .. Len(s)
      BY <2>2
    <3>2. (IF j < i THEN s[j] ELSE s[j + 1]) = (IF k < i THEN s[k] ELSE s[k + 1])
      BY <2>4
    <3> QED
      BY <2>2, <2>7, <3>1, <3>2
  <2>15. PendingOnce'
    BY <2>4, <2>5, <2>14 DEF Tracking, PendingOnce
  <2> QED
    BY <2>2, <2>6, <2>10, <2>12, <2>13, <2>15 DEF Tracking
<1> QED
  BY <1>1, <1>2

\* A worker that stops takes its pending PUTs with it.
LEMMA StopTracking ==
  ASSUME TypeOK, Tracking, NEW n \in Node, Stop(n)
  PROVE  Tracking' /\ \A c \in Call : answer'[c] = "ok" => answer[c] = "ok"
<1>1. /\ alive'[n] = FALSE /\ pendingPuts'[n] = << >>
      /\ \A x \in Node \ {n} : alive'[x] = alive[x] /\ pendingPuts'[x] = pendingPuts[x]
      /\ \A c \in Call : answer'[c] = IF Remembers(n, c) THEN "err" ELSE answer[c]
      /\ home' = home /\ alive[n]
  BY DEF Stop, TypeOK
<1>2. \A c \in Call : ~Remembers(n, c)'
  BY <1>1 DEF Remembers
<1>3. \A x \in Node \ {n}, c \in Call : Remembers(x, c)' <=> Remembers(x, c)
  BY <1>1 DEF Remembers
<1>4. \A c \in Call : Remembers(n, c) => answer[c] = "waiting" /\ home[c] = n
  BY <1>1 DEF Tracking, WaitersAreTracked
<1>5. WaitersAreTracked'
  <2> SUFFICES ASSUME NEW c \in Call, NEW x \in Node
               PROVE  answer'[c] = "waiting" /\ home'[c] = x <=>
                        alive'[x] /\ Remembers(x, c)'
    BY DEF WaitersAreTracked, Remembers
  <2>1. CASE x = n
    BY <1>1, <1>2, <2>1 DEF Tracking, WaitersAreTracked
  <2>2. CASE x # n
    BY <1>1, <1>3, <1>4, <2>2 DEF Tracking, WaitersAreTracked
  <2> QED
    BY <2>1, <2>2
<1>6. HomeIsKnown'
  BY <1>1, <1>4 DEF Tracking, HomeIsKnown
<1>7. PendingOnce'
  BY <1>1 DEF Tracking, PendingOnce
<1> QED
  BY <1>1, <1>5, <1>6, <1>7 DEF Tracking

-----------------------------------------------------------------------------
(* The invariant.                                                          *)

\* The Oks a worker gives are for the entry it has just applied.
LEMMA ReadyAcks ==
  ASSUME CallsInv, TypeOK', LogBounds', CommittedIsKept, NEW n \in Node, Ready(n)
  PROVE  Tracking' /\ AckedPutApplied'
<1> DEFINE e == log[n][applied[n] + 1]
<1>1. /\ applied[n] \in Nat /\ commit[n] \in Nat /\ applied[n] < commit[n]
      /\ applied'[n] = applied[n] + 1 /\ log' = log /\ home' = home
      /\ UNCHANGED <<alive, home>> /\ alive[n]
      /\ commit[n] <= Len(log[n])
  BY DEF Ready, ApplyEntry, CallsInv, TypeOK, NodeTypeOK, LogBounds, logVars
<1>2. e.call = None \/ e.call \in Call
  <2>1. log[n] \in Seq(Entry) /\ applied[n] + 1 \in 1 .. Len(log[n])
    BY <1>1 DEF CallsInv, TypeOK, NodeTypeOK
  <2>2. e \in Entry
    BY <2>1
  <2> QED
    BY <2>2 DEF Entry
<1>3. CASE e.call = None
  <2>1. UNCHANGED workerVars
    BY <1>3 DEF Ready, workerVars
  <2> QED
    BY <2>1, QuietTracking, AcksStay DEF CallsInv, Tracking, workerVars
<1>4. CASE e.call \in Call /\ e.call # None
  <2>1. Notify(n, e.call)
    BY <1>4 DEF Ready
  <2>2. /\ Tracking'
        /\ \A d \in Call : answer'[d] = "ok" =>
             answer[d] = "ok" \/ (home[d] = n /\ SameCommand(d, e.call))
    <3> HIDE DEF e
    <3> QED
      BY <1>1, <1>4, <2>1, NotifyTracking DEF CallsInv, Tracking
  <2>3. ASSUME NEW c \in PutCall, answer'[c] = "ok"
        PROVE  HasApplied(home[c], c)'
    <3>1. c \in Call
      BY DEF PutCall
    <3>2. CASE answer[c] = "ok"
      <4>1. home[c] \in Node /\ HasApplied(home[c], c)
        BY <3>1, <3>2 DEF CallsInv, HomeIsKnown, AckedPutApplied
      <4>2. \A x \in Node : HasApplied(x, c) => HasApplied(x, c)'
        BY <3>1, AppliedStays DEF CallsInv
      <4> QED
        BY <4>1, <4>2, <1>1
    <3>3. CASE home[c] = n /\ SameCommand(c, e.call)
      <4>1. applied[n] + 1 \in 1 .. applied'[n] /\ applied[n] + 1 <= Len(log'[n])
        BY <1>1 DEF CallsInv, TypeOK, NodeTypeOK
      <4>2. /\ log'[n][applied[n] + 1].call # None
            /\ SameCommand(log'[n][applied[n] + 1].call, c)
        BY <1>1, <1>4, <3>3 DEF SameCommand
      <4> QED
        BY <1>1, <3>3, <4>1, <4>2 DEF HasApplied, SameCommand
    <3> QED
      BY <2>2, <2>3, <3>1, <3>2, <3>3
  <2> QED
    BY <1>1, <2>2, <2>3 DEF AckedPutApplied, HasApplied, SameCommand
<1> QED
  BY <1>2, <1>3, <1>4, NodeAssumption

LEMMA CallsInit == Init => CallsInv
<1> SUFFICES ASSUME Init PROVE CallsInv
  OBVIOUS
<1>1. TypeOK /\ LogBounds
  BY InitType
<1>2. \A n \in Node : pendingPuts[n] = << >>
  BY DEF Init
<1>3. /\ \A n \in Node, c \in Call : ~Remembers(n, c)
      /\ \A c \in Call : answer[c] = "none"
  BY <1>2 DEF Remembers, Init
<1>4. HomeIsKnown /\ WaitersAreTracked
  BY <1>3 DEF HomeIsKnown, WaitersAreTracked
<1>5. PendingOnce
  BY <1>2 DEF PendingOnce
<1>6. AckedPutApplied
  BY <1>3 DEF AckedPutApplied, PutCall
<1> QED
  BY <1>1, <1>4, <1>5, <1>6 DEF CallsInv

LEMMA CallsNext == CallsInv /\ [Next]_vars => CallsInv'
<1> SUFFICES ASSUME CallsInv, [Next]_vars PROVE CallsInv'
  OBVIOUS
<1>1. TypeOK' /\ LogBounds' /\ CommittedIsKept
  BY NextType DEF CallsInv
<1>2. Tracking /\ TypeOK
  BY DEF CallsInv, Tracking
<1>3. ASSUME UNCHANGED workerVars
      PROVE  Tracking' /\ AckedPutApplied'
  <2>1. Tracking'
    BY <1>2, <1>3, QuietTracking
  <2>2. \A c \in PutCall : answer'[c] = "ok" => answer[c] = "ok" /\ home'[c] = home[c]
    BY <1>3 DEF workerVars
  <2> QED
    BY <1>1, <2>1, <2>2, AcksStay
<1>4. ASSUME NEW c \in Call, Request(c)
      PROVE  Tracking' /\ AckedPutApplied'
  <2>1. Tracking'
    BY <1>2, <1>4, RequestTracking
  <2>2. \A d \in PutCall : answer'[d] = "ok" => answer[d] = "ok" /\ home'[d] = home[d]
    <3> SUFFICES ASSUME NEW d \in PutCall, answer'[d] = "ok"
                 PROVE  answer[d] = "ok" /\ home'[d] = home[d]
      OBVIOUS
    <3>1. PICK n \in Node, a \in {"waiting", "ok", "err"} :
            Answer(c, n, a) /\ (c \in PutCall => a # "ok")
      BY <1>4 DEF Request, PutOnLeader, PutRefused, Campaign, CallFails, PutCall
    <3>2. d \in Call /\ answer'[c] = a
          /\ \A x \in Call \ {c} : answer'[x] = answer[x] /\ home'[x] = home[x]
      BY <3>1, <1>2 DEF Answer, TypeOK, PutCall
    <3> QED
      BY <3>1, <3>2
  <2> QED
    BY <1>1, <2>1, <2>2, AcksStay
<1>5. ASSUME NEW n \in Node, Stop(n)
      PROVE  Tracking' /\ AckedPutApplied'
  <2>1. Tracking' /\ \A c \in Call : answer'[c] = "ok" => answer[c] = "ok"
    BY <1>2, <1>5, StopTracking
  <2>2. home' = home
    BY <1>5 DEF Stop
  <2>3. \A c \in PutCall : answer'[c] = "ok" => answer[c] = "ok" /\ home'[c] = home[c]
    BY <2>1, <2>2 DEF PutCall
  <2> QED
    BY <1>1, <2>1, <2>3, AcksStay
<1>6. ASSUME NEW n \in Node, Ready(n)
      PROVE  Tracking' /\ AckedPutApplied'
  BY <1>1, <1>6, ReadyAcks
<1>7. Tracking' /\ AckedPutApplied'
  <2>1. CASE Next
    <3>1. ASSUME NEW n \in Node, ElectionTimeout(n) \/ Heartbeat(n)
          PROVE  UNCHANGED workerVars
      BY <3>1 DEF ElectionTimeout, Heartbeat
    <3>2. ASSUME NEW m \in network, Receive(m.to, m) \/ Lose(m)
          PROVE  UNCHANGED workerVars
      BY <3>2 DEF Receive, Lose
    <3> QED
      BY <1>3, <1>4, <1>5, <1>6, <2>1, <3>1, <3>2 DEF Next
  <2>2. CASE UNCHANGED vars
    BY <1>3, <2>2 DEF vars
  <2> QED
    BY <2>1, <2>2
<1> QED
  BY <1>1, <1>7 DEF CallsInv, Tracking

\* Run by any number of workers, elections and lost messages: a caller waits
\* for its PUT exactly as long as the running worker of its node remembers it.
THEOREM WaitersTracked == Spec => []WaitersAreTracked
<1>1. CallsInv => WaitersAreTracked
  BY DEF CallsInv
<1> QED
  BY <1>1, CallsInit, CallsNext, PTL DEF Spec

\* An Ok is never taken back: its command is applied on the caller's node, and
\* remains so whatever is elected or overwritten later.
THEOREM AcksAreApplied == Spec => []AckedPutApplied
<1>1. CallsInv => AckedPutApplied
  BY DEF CallsInv
<1> QED
  BY <1>1, CallsInit, CallsNext, PTL DEF Spec

-----------------------------------------------------------------------------
(* Elections: at most one leader per term.  The invariant behind it        *)
(* follows the votes on their way and the votes counted: a node backs one  *)
(* candidate per term and remembers it while the term lasts, and a leader  *)
(* has been backed by a majority.                                          *)

\* v has a reason to vote for a in term t: it is a itself, starting an election,
\* or has a request of a and finds the log it tells of up to date.
WasAsked(v, t, a) ==
  \/ v = a /\ t = term[a] + 1
  \/ \E m \in network :
       m.type = "RequestVote" /\ m.from = a /\ m.term = t /\ UpToDate(v, m)

\* v backs a newly in term t, which nothing it did before forbids.
FreshlyBacks(v, t, a) ==
  /\ t = term'[v] /\ vote'[v] = a
  /\ t > term[v] \/ vote[v] \in {None, a}
  /\ WasAsked(v, t, a)

\* What every step does to terms, votes and backings.
VoteStep ==
  /\ \A v \in Node :
       /\ term[v] <= term'[v]
       /\ term'[v] = term[v] => vote'[v] = vote[v] \/ vote[v] = None
  /\ \A v, a \in Node : \A t \in Nat :
       Backs(v, t, a)' => Backs(v, t, a) \/ FreshlyBacks(v, t, a)

LEMMA VoteStepKeepsBacking ==
  ASSUME NodeTypeOK, NodeTypeOK', VoteStep, BackingIsKept, BackingIsUnique
  PROVE  BackingIsKept' /\ BackingIsUnique'
<1>1. \A v \in Node : term[v] \in Nat /\ term'[v] \in Nat
  BY DEF NodeTypeOK
<1>2. BackingIsKept'
  <2> SUFFICES ASSUME NEW v \in Node, NEW a \in Node, NEW t \in Nat, Backs(v, t, a)'
               PROVE  t <= term'[v] /\ (t = term'[v] => vote'[v] = a)
    BY DEF BackingIsKept
  <2>1. CASE Backs(v, t, a)
    <3>1. t <= term[v] /\ (t = term[v] => vote[v] = a)
      BY <2>1 DEF BackingIsKept
    <3>2. term[v] <= term'[v]
      BY DEF VoteStep
    <3>3. term'[v] = term[v] => vote'[v] = vote[v] \/ vote[v] = None
      BY DEF VoteStep
    <3>4. a # None
      BY NodeAssumption
    <3> QED
      BY <1>1, <3>1, <3>2, <3>3, <3>4
  <2>2. CASE FreshlyBacks(v, t, a)
    BY <1>1, <2>2 DEF FreshlyBacks
  <2> QED
    BY <2>1, <2>2 DEF VoteStep
<1>3. BackingIsUnique'
  <2> SUFFICES ASSUME NEW v \in Node, NEW a \in Node, NEW b \in Node, NEW t \in Nat,
                      Backs(v, t, a)', Backs(v, t, b)'
               PROVE  a = b
    BY DEF BackingIsUnique
  <2>1. \A c, d \in Node : Backs(v, t, c) /\ FreshlyBacks(v, t, d) => c = d
    <3> SUFFICES ASSUME NEW c \in Node, NEW d \in Node,
                        Backs(v, t, c), FreshlyBacks(v, t, d)
                 PROVE  c = d
      OBVIOUS
    <3>1. t <= term[v] /\ (t = term[v] => vote[v] = c)
      BY DEF BackingIsKept
    <3>2. t = term'[v] /\ (t > term[v] \/ vote[v] \in {None, d})
      BY DEF FreshlyBacks
    <3>3. term[v] <= term'[v] /\ c # None
      BY NodeAssumption DEF VoteStep
    <3> QED
      BY <1>1, <3>1, <3>2, <3>3
  <2>2. FreshlyBacks(v, t, a) /\ FreshlyBacks(v, t, b) => a = b
    BY DEF FreshlyBacks
  <2>3. Backs(v, t, a) /\ Backs(v, t, b) => a = b
    BY DEF BackingIsUnique
  <2> QED
    BY <2>1, <2>2, <2>3 DEF VoteStep
<1> QED
  BY <1>2, <1>3

-----------------------------------------------------------------------------
(* Steps that grant no vote.                                               *)

NoNewGrant ==
  \A m \in network' : m.type = "Vote" /\ m.grant => m \in network

LEMMA NoVoteStep ==
  ASSUME NodeTypeOK, LeaderHasMajority, NoNewGrant,
         UNCHANGED <<role, term, vote, granted>>
  PROVE  VoteStep /\ LeaderHasMajority'
<1>1. \A v \in Node : term[v] \in Nat
  BY DEF NodeTypeOK
<1>2. \A v, a \in Node : \A t \in Nat : Backs(v, t, a)' => Backs(v, t, a)
  BY DEF NoNewGrant, Backs
<1> QED
  BY <1>1, <1>2 DEF VoteStep, LeaderHasMajority

\* A node that follows has no backers of its own any more.
LEMMA FollowVotes ==
  ASSUME NodeTypeOK, LeaderHasMajority, NoNewGrant,
         NEW n \in Node, NEW t \in Nat, NEW l, t >= term[n], Follow(n, t, l)
  PROVE  VoteStep /\ LeaderHasMajority'
<1>1. \A v \in Node : term[v] \in Nat
  BY DEF NodeTypeOK
<1>2. /\ role'[n] = "Follower"
      /\ term'[n] = t
      /\ vote'[n] = IF t > term[n] THEN None ELSE vote[n]
  BY DEF Follow, NodeTypeOK
<1>3. \A v \in Node \ {n} : /\ role'[v] = role[v] /\ term'[v] = term[v]
                            /\ vote'[v] = vote[v] /\ granted'[v] = granted[v]
  BY DEF Follow, NodeTypeOK
<1>4. \A v, a \in Node : \A s \in Nat : Backs(v, s, a)' => Backs(v, s, a)
  BY <1>2, <1>3 DEF NoNewGrant, Backs
<1>5. \A v \in Node :
        /\ term[v] <= term'[v]
        /\ term'[v] = term[v] => vote'[v] = vote[v] \/ vote[v] = None
  BY <1>1, <1>2, <1>3
<1>6. LeaderHasMajority'
  BY <1>2, <1>3 DEF LeaderHasMajority
<1> QED
  BY <1>4, <1>5, <1>6 DEF VoteStep

-----------------------------------------------------------------------------
(* Steps of an election.                                                   *)

LEMMA HupVotes ==
  ASSUME NodeTypeOK, LeaderHasMajority, NEW n \in Node, Hup(n)
  PROVE  VoteStep /\ LeaderHasMajority'
<1>1. \A v \in Node : term[v] \in Nat
  BY DEF NodeTypeOK
<1>2. /\ role'[n] = "Candidate"
      /\ term'[n] = term[n] + 1
      /\ vote'[n] = n
      /\ granted'[n] = {n}
  BY DEF Hup, NodeTypeOK
<1>3. \A v \in Node \ {n} : /\ role'[v] = role[v] /\ term'[v] = term[v]
                            /\ vote'[v] = vote[v] /\ granted'[v] = granted[v]
  BY DEF Hup, NodeTypeOK
<1>4. NoNewGrant
  BY DEF Hup, NoNewGrant
<1>5. \A v, a \in Node : \A t \in Nat :
        Backs(v, t, a)' => Backs(v, t, a) \/ FreshlyBacks(v, t, a)
  <2> SUFFICES ASSUME NEW v \in Node, NEW a \in Node, NEW t \in Nat, Backs(v, t, a)'
               PROVE  Backs(v, t, a) \/ FreshlyBacks(v, t, a)
    OBVIOUS
  <2>1. CASE \E m \in network' : /\ m.type = "Vote" /\ m.grant
                                 /\ m.from = v /\ m.to = a /\ m.term = t
    BY <1>4, <2>1 DEF NoNewGrant, Backs
  <2>2. CASE role'[a] # "Follower" /\ term'[a] = t /\ v \in granted'[a]
    <3>1. CASE a = n
      <4>1. v = n /\ t = term[n] + 1
        BY <1>2, <2>2, <3>1
      <4>2. WasAsked(v, t, a)
        BY <3>1, <4>1 DEF WasAsked
      <4> QED
        BY <1>1, <1>2, <3>1, <4>1, <4>2 DEF FreshlyBacks
    <3>2. CASE a # n
      BY <1>3, <2>2, <3>2 DEF Backs
    <3> QED
      BY <3>1, <3>2
  <2> QED
    BY <2>1, <2>2 DEF Backs
<1>6. \A v \in Node :
        /\ term[v] <= term'[v]
        /\ term'[v] = term[v] => vote'[v] = vote[v] \/ vote[v] = None
  BY <1>1, <1>2, <1>3
<1>7. LeaderHasMajority'
  BY <1>2, <1>3 DEF LeaderHasMajority
<1> QED
  BY <1>5, <1>6, <1>7 DEF VoteStep

\* The vote is granted only when it is free or already the candidate's.
LEMMA GrantVoteVotes ==
  ASSUME NodeTypeOK, LeaderHasMajority, NEW n \in Node, NEW m \in network,
         GrantVote(n, m)
  PROVE  VoteStep /\ LeaderHasMajority'
<1>1. \A v \in Node : term[v] \in Nat
  BY DEF NodeTypeOK
<1>2. /\ m.term \in Nat /\ m.term >= term[n] /\ m.type = "RequestVote"
      /\ m.term > term[n] \/ vote[n] = m.from \/ vote[n] = None
  <2>1. m \in VoteRequest
    BY DEF NodeTypeOK, GrantVote, Message, VoteRequest, VoteResponse, AppendRequest,
           AppendResponse
  <2> QED
    BY <2>1 DEF GrantVote, CanVote, VoteRequest
<1>3. term'[n] = m.term /\ vote'[n] = m.from
  <2>1. /\ term' = [term EXCEPT ![n] = m.term]
        /\ vote' = [vote EXCEPT ![n] = m.from]
    BY DEF GrantVote
  <2>2. term \in [Node -> Nat] /\ vote \in [Node -> Node \cup {None}]
    BY DEF NodeTypeOK
  <2> QED
    BY <2>1, <2>2
<1>4. \A v \in Node \ {n} : /\ role'[v] = role[v] /\ term'[v] = term[v]
                            /\ vote'[v] = vote[v] /\ granted'[v] = granted[v]
  <2>1. \A v \in Node \ {n} : term'[v] = term[v] /\ vote'[v] = vote[v]
    BY DEF GrantVote, NodeTypeOK
  <2>2. \A v \in Node \ {n} : role'[v] = role[v] /\ granted'[v] = granted[v]
    <3>1. \/ /\ role' = [role EXCEPT ![n] = "Follower"]
             /\ granted' = [granted EXCEPT ![n] = {}]
          \/ role' = role /\ granted' = granted
      BY DEF GrantVote
    <3>2. role \in [Node -> Role] /\ granted \in [Node -> SUBSET Node]
      BY DEF NodeTypeOK
    <3> QED
      BY <3>1, <3>2
  <2> QED
    BY <2>1, <2>2
<1>5. \/ role'[n] = "Follower"
      \/ role'[n] = role[n] /\ term'[n] = term[n] /\ granted'[n] = granted[n]
  <2>1. CASE m.term > term[n]
    BY <2>1 DEF GrantVote, NodeTypeOK
  <2>2. CASE ~(m.term > term[n])
    BY <1>1, <1>2, <1>3, <2>2 DEF GrantVote
  <2> QED
    BY <2>1, <2>2
<1>6. \A v, a \in Node : \A t \in Nat :
        Backs(v, t, a)' => Backs(v, t, a) \/ FreshlyBacks(v, t, a)
  <2> SUFFICES ASSUME NEW v \in Node, NEW a \in Node, NEW t \in Nat, Backs(v, t, a)'
               PROVE  Backs(v, t, a) \/ FreshlyBacks(v, t, a)
    OBVIOUS
  <2>1. CASE role'[a] # "Follower" /\ term'[a] = t /\ v \in granted'[a]
    BY <1>4, <1>5, <2>1 DEF Backs
  <2>2. ASSUME NEW g \in network',
               g.type = "Vote", g.grant, g.from = v, g.to = a, g.term = t
        PROVE  Backs(v, t, a) \/ FreshlyBacks(v, t, a)
    <3>1. CASE g \in network
      BY <2>2, <3>1 DEF Backs
    <3>2. CASE g = VoteFor(n, m, TRUE)
      <4>1. v = n /\ a = m.from /\ t = m.term
        BY <2>2, <3>2 DEF VoteFor
      <4>2. WasAsked(v, t, a)
        BY <1>2, <4>1 DEF WasAsked, GrantVote
      <4> QED
        BY <1>2, <1>3, <4>1, <4>2 DEF FreshlyBacks
    <3> QED
      BY <3>1, <3>2 DEF GrantVote
  <2> QED
    BY <2>1, <2>2 DEF Backs
<1>7. \A v \in Node :
        /\ term[v] <= term'[v]
        /\ term'[v] = term[v] => vote'[v] = vote[v] \/ vote[v] = None
  BY <1>1, <1>2, <1>3, <1>4
<1>8. LeaderHasMajority'
  BY <1>4, <1>5 DEF LeaderHasMajority
<1> QED
  BY <1>6, <1>7, <1>8 DEF VoteStep

\* Counting an answer: a grant that was on its way becomes one that is counted.
LEMMA CountedVotes ==
  ASSUME NodeTypeOK, NEW n \in Node, NEW m \in network,
         m.type = "Vote", m.term = term[n], role[n] = "Candidate",
         UNCHANGED <<term, vote>>,
         \A v \in Node \ {n} : role'[v] = role[v] /\ granted'[v] = granted[v],
         granted'[n] \subseteq (IF m.grant THEN granted[n] \cup {m.from} ELSE granted[n]),
         m.to = n, NoNewGrant
  PROVE  VoteStep
<1>1. \A v \in Node : term[v] \in Nat
  BY DEF NodeTypeOK
<1>2. \A v, a \in Node : \A t \in Nat : Backs(v, t, a)' => Backs(v, t, a)
  <2> SUFFICES ASSUME NEW v \in Node, NEW a \in Node, NEW t \in Nat, Backs(v, t, a)'
               PROVE  Backs(v, t, a)
    OBVIOUS
  <2>1. CASE \E g \in network' : /\ g.type = "Vote" /\ g.grant
                                 /\ g.from = v /\ g.to = a /\ g.term = t
    BY <2>1 DEF NoNewGrant, Backs
  <2>2. CASE role'[a] # "Follower" /\ term'[a] = t /\ v \in granted'[a]
    <3>1. CASE a = n
      <4>1. CASE v \in granted[n]
        BY <2>2, <3>1, <4>1 DEF Backs
      <4>2. CASE m.grant /\ v = m.from
        BY <2>2, <3>1, <4>2 DEF Backs
      <4> QED
        BY <2>2, <3>1, <4>1, <4>2
    <3>2. CASE a # n
      BY <2>2, <3>2 DEF Backs
    <3> QED
      BY <3>1, <3>2
  <2> QED
    BY <2>1, <2>2 DEF Backs
<1> QED
  BY <1>1, <1>2 DEF VoteStep

LEMMA CountVoteVotes ==
  ASSUME NodeTypeOK, LeaderHasMajority, NEW n \in Node, NEW m \in network,
         m.to = n, CountVote(n, m)
  PROVE  VoteStep /\ LeaderHasMajority'
<1>1. /\ m.type = "Vote" /\ m.term = term[n] /\ role[n] = "Candidate"
      /\ UNCHANGED <<role, term, vote>> /\ network' = network \ {m}
  BY DEF CountVote
<1>2. /\ \A v \in Node \ {n} : granted'[v] = granted[v]
      /\ granted'[n] = IF m.grant THEN granted[n] \cup {m.from} ELSE granted[n]
  BY DEF CountVote, NodeTypeOK
<1>3. NoNewGrant
  BY <1>1 DEF NoNewGrant
<1>4. VoteStep
  BY <1>1, <1>2, <1>3, CountedVotes
<1>5. LeaderHasMajority'
  BY <1>1, <1>2 DEF LeaderHasMajority
<1> QED
  BY <1>4, <1>5

LEMMA WinElectionVotes ==
  ASSUME NodeTypeOK, LeaderHasMajority, NEW n \in Node, NEW m \in network,
         m.to = n, WinElection(n, m)
  PROVE  VoteStep /\ LeaderHasMajority'
<1>1. /\ m.type = "Vote" /\ m.term = term[n] /\ role[n] = "Candidate" /\ m.grant
      /\ UNCHANGED <<term, vote>> /\ network' = (network \ {m}) \cup Appends(n)'
      /\ IsMajority(granted[n] \cup {m.from})
  BY DEF WinElection
<1>2. /\ \A v \in Node \ {n} : granted'[v] = granted[v] /\ role'[v] = role[v]
      /\ granted'[n] = granted[n] \cup {m.from}
  BY DEF WinElection, NodeTypeOK
<1>3. NoNewGrant
  BY <1>1 DEF NoNewGrant, Appends, AppendTo, AppendMessage
<1>4. VoteStep
  BY <1>1, <1>2, <1>3, CountedVotes
<1>5. LeaderHasMajority'
  BY <1>1, <1>2 DEF LeaderHasMajority
<1> QED
  BY <1>4, <1>5

\* A message about replication, or one that is ignored, grants no vote.
LEMMA StepGrants ==
  ASSUME NEW n \in Node, NEW m \in network,
         \/ DenyVote(n, m) \/ LoseElection(n, m) \/ AppendBelowCommit(n, m)
         \/ AppendAccept(n, m) \/ AppendReject(n, m) \/ HandleAppended(n, m)
         \/ HandleRejected(n, m) \/ Ignore(n, m)
  PROVE  NoNewGrant
<1>1. CASE DenyVote(n, m)
  BY <1>1 DEF DenyVote, VoteFor, NoNewGrant
<1>2. CASE LoseElection(n, m) \/ Ignore(n, m)
  BY <1>2 DEF LoseElection, Ignore, NoNewGrant
<1>3. CASE AppendBelowCommit(n, m) \/ AppendAccept(n, m) \/ AppendReject(n, m)
  BY <1>3 DEF AppendBelowCommit, AppendAccept, AppendReject, AppendReply, NoNewGrant
<1>4. CASE HandleAppended(n, m)
  <2>1. PICK i \in 0 .. Len(log[n]) :
          network' = (network \ {m}) \cup
            (IF i > commit[n] THEN Appends(n)'
             ELSE {a \in {AppendTo(n, m.from)'} : a.entries # << >>})
    BY <1>4 DEF HandleAppended
  <2>2. \A g \in Appends(n)' : g.type = "Append"
    BY DEF Appends, AppendTo, AppendMessage
  <2>3. AppendTo(n, m.from)'.type = "Append"
    BY DEF AppendTo, AppendMessage
  <2> QED
    BY <2>1, <2>2, <2>3 DEF NoNewGrant
<1>5. CASE HandleRejected(n, m)
  BY <1>5 DEF HandleRejected, AppendTo, AppendMessage, NoNewGrant
<1> QED
  BY <1>1, <1>2, <1>3, <1>4, <1>5

LEMMA StepVotes ==
  ASSUME NodeTypeOK, LeaderHasMajority, NEW n \in Node, NEW m \in network,
         m.to = n, Step(n, m)
  PROVE  VoteStep /\ LeaderHasMajority'
<1>1. term[n] \in Nat /\ m.term \in Nat
  BY DEF NodeTypeOK, Message, VoteRequest, VoteResponse, AppendRequest, AppendResponse
<1>2. CASE GrantVote(n, m)
  BY <1>2, GrantVoteVotes
<1>3. CASE CountVote(n, m)
  BY <1>3, CountVoteVotes
<1>4. CASE WinElection(n, m)
  BY <1>4, WinElectionVotes
<1>5. CASE DenyVote(n, m)
  <2>1. CASE m.term > term[n]
    <3>1. Follow(n, m.term, None)
      BY <1>5, <2>1 DEF DenyVote
    <3> QED
      BY <1>1, <1>5, <2>1, <3>1, StepGrants, FollowVotes
  <2>2. CASE ~(m.term > term[n])
    <3>1. UNCHANGED <<role, term, vote, granted>>
      BY <1>5, <2>2 DEF DenyVote, electionVars
    <3> QED
      BY <1>5, <3>1, StepGrants, NoVoteStep
  <2> QED
    BY <2>1, <2>2
<1>6. CASE LoseElection(n, m)
  <2>1. Follow(n, term[n], None)
    BY <1>6 DEF LoseElection
  <2> QED
    BY <1>1, <1>6, <2>1, StepGrants, FollowVotes
<1>7. CASE AppendBelowCommit(n, m) \/ AppendAccept(n, m) \/ AppendReject(n, m)
  <2>1. Follow(n, m.term, m.from) /\ m.term >= term[n]
    BY <1>7 DEF AppendBelowCommit, AppendAccept, AppendReject, FollowSender
  <2> QED
    BY <1>1, <1>7, <2>1, StepGrants, FollowVotes
<1>8. CASE HandleAppended(n, m) \/ HandleRejected(n, m) \/ Ignore(n, m)
  <2>1. UNCHANGED <<role, term, vote, granted>>
    BY <1>8 DEF HandleAppended, HandleRejected, Ignore, electionVars
  <2> QED
    BY <1>8, <2>1, StepGrants, NoVoteStep
<1> QED
  BY <1>2, <1>3, <1>4, <1>5, <1>6, <1>7, <1>8 DEF Step

\* Every step of the cluster is a vote step.
LEMMA NextVotes ==
  ASSUME NodeTypeOK, LeaderHasMajority, [Next]_vars
  PROVE  VoteStep /\ LeaderHasMajority'
<1>1. ASSUME UNCHANGED nodeVars
      PROVE  VoteStep /\ LeaderHasMajority'
  BY <1>1, NoVoteStep DEF nodeVars, electionVars, NoNewGrant
<1>2. ASSUME NEW c \in Call, Request(c)
      PROVE  VoteStep /\ LeaderHasMajority'
  <2>1. PICK n \in Node : \/ PutOnLeader(c, n) \/ PutRefused(c, n)
                          \/ Campaign(c, n) \/ CallFails(c, n)
    BY <1>2 DEF Request
  <2>2. CASE PutOnLeader(c, n)
    <3>1. Propose(n, c)
      BY <2>2 DEF PutOnLeader
    <3>2. UNCHANGED <<role, term, vote, granted>>
      BY <3>1 DEF Propose, electionVars
    <3>3. NoNewGrant
      BY <3>1 DEF Propose, Appends, AppendTo, AppendMessage, NoNewGrant
    <3> QED
      BY <3>2, <3>3, NoVoteStep
  <2>3. CASE Hup(n)
    BY <2>3, HupVotes
  <2> QED
    BY <1>1, <2>1, <2>2, <2>3 DEF PutRefused, Campaign, CallFails
<1>3. ASSUME NEW n \in Node, ElectionTimeout(n)
      PROVE  VoteStep /\ LeaderHasMajority'
  BY <1>3, HupVotes DEF ElectionTimeout
<1>4. ASSUME NEW n \in Node, Heartbeat(n)
      PROVE  VoteStep /\ LeaderHasMajority'
  <2>1. HeartbeatTick(n)
    BY <1>4 DEF Heartbeat
  <2>2. UNCHANGED <<role, term, vote, granted>>
    BY <2>1 DEF HeartbeatTick, electionVars
  <2>3. NoNewGrant
    BY <2>1 DEF HeartbeatTick, Appends, AppendTo, AppendMessage, NoNewGrant
  <2> QED
    BY <2>2, <2>3, NoVoteStep
<1>5. ASSUME NEW n \in Node, Ready(n)
      PROVE  VoteStep /\ LeaderHasMajority'
  <2>1. UNCHANGED <<role, term, vote, granted, network>>
    BY <1>5 DEF Ready, ApplyEntry, electionVars
  <2> QED
    BY <2>1, NoVoteStep DEF NoNewGrant
<1>6. ASSUME NEW m \in network, Receive(m.to, m)
      PROVE  VoteStep /\ LeaderHasMajority'
  <2>1. m.to \in Node
    BY DEF NodeTypeOK, Message, VoteRequest, VoteResponse, AppendRequest, AppendResponse
  <2> QED
    BY <1>6, <2>1, StepVotes DEF Receive
<1>7. ASSUME NEW m \in network, Lose(m)
      PROVE  VoteStep /\ LeaderHasMajority'
  <2>1. UNCHANGED <<role, term, vote, granted>> /\ network' = network \ {m}
    BY <1>7 DEF Lose, electionVars
  <2> QED
    BY <2>1, NoVoteStep DEF NoNewGrant
<1> QED
  BY <1>1, <1>2, <1>3, <1>4, <1>5, <1>6, <1>7 DEF Next, Stop, vars

-----------------------------------------------------------------------------
\* The inductive invariant of elections.
ElectionInv ==
  TypeOK /\ LogBounds /\ BackingIsKept /\ BackingIsUnique /\ LeaderHasMajority

LEMMA ElectionInvStep ==
  ElectionInv /\ [Next]_vars => ElectionInv'
<1> SUFFICES ASSUME ElectionInv, [Next]_vars
             PROVE  ElectionInv'
  OBVIOUS
<1>1. TypeOK' /\ LogBounds'
  BY NextType DEF ElectionInv
<1>2. NodeTypeOK /\ NodeTypeOK'
  BY <1>1 DEF ElectionInv, TypeOK
<1>3. VoteStep /\ LeaderHasMajority'
  BY <1>2, NextVotes DEF ElectionInv
<1>4. BackingIsKept' /\ BackingIsUnique'
  BY <1>2, <1>3, VoteStepKeepsBacking DEF ElectionInv
<1> QED
  BY <1>1, <1>3, <1>4 DEF ElectionInv

\* Two leaders of one term would share a backer, and it backs only one.
LEMMA ElectionInvIsSafe ==
  ElectionInv => ElectionSafety
<1> SUFFICES ASSUME ElectionInv, NEW a \in Node, NEW b \in Node,
                    role[a] = "Leader", role[b] = "Leader", term[a] = term[b]
             PROVE  a = b
  BY DEF ElectionSafety
<1>1. IsMajority(granted[a]) /\ IsMajority(granted[b])
  BY DEF ElectionInv, LeaderHasMajority
<1>2. granted[a] \in SUBSET Node /\ granted[b] \in SUBSET Node /\ term[a] \in Nat
  BY DEF ElectionInv, TypeOK, NodeTypeOK
<1>3. PICK v \in Node : v \in granted[a] /\ v \in granted[b]
  BY <1>1, <1>2, MajoritiesMeet
<1>4. Backs(v, term[a], a) /\ Backs(v, term[a], b)
  BY <1>3 DEF Backs
<1> QED
  BY <1>2, <1>4 DEF ElectionInv, BackingIsUnique

LEMMA InitElection == Init => ElectionInv
<1> SUFFICES ASSUME Init PROVE ElectionInv
  OBVIOUS
<1>1. TypeOK /\ LogBounds
  BY InitType
<1>2. \A v, a \in Node : \A t \in Nat : ~Backs(v, t, a)
  BY DEF Init, NodeInit, Backs
<1>3. LeaderHasMajority
  BY DEF Init, NodeInit, LeaderHasMajority
<1> QED
  BY <1>1, <1>2, <1>3 DEF ElectionInv, BackingIsKept, BackingIsUnique

\* At most one leader per term, for any number of nodes and terms, and with
\* any messages lost, delayed or reordered.
THEOREM OneLeaderPerTerm == Spec => []ElectionSafety
  BY InitElection, ElectionInvStep, ElectionInvIsSafe, PTL DEF Spec
=============================================================================

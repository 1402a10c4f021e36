---------------------------- MODULE RaftLogProofs ----------------------------
(***************************************************************************)
(* Logs and committed entries: no two nodes ever disagree about one that   *)
(* is committed, and every leader has it.                                  *)
(*                                                                         *)
(* The invariant speaks of two things the state does not keep: led[t], the *)
(* log of the leader of term t as it last was while it led, and            *)
(* acked[v][t], how much of that log v has acknowledged in term t.  The    *)
(* inductive invariant says that such a record of the past exists          *)
(* (\E led, acked : LogInv(led, acked)), and a step from a state with one  *)
(* leads to a state with the next.                                         *)
(*                                                                         *)
(* The heart of it is LeadersAreComplete: what a majority acknowledged in  *)
(* a term, or still may, is in the log of every later leader.  It is an    *)
(* invariant because every vote was given by a node that has left the      *)
(* earlier terms and whose log the candidate's was compared with.          *)
(***************************************************************************)
EXTENDS RaftWorkerProofs

-----------------------------------------------------------------------------
(* The invariant.                                                          *)

\* Entry i of log l was proposed in term t.
Holds(l, i, t) == i \in 1 .. Len(l) /\ l[i].term = t

\* The logs l and k are the same up to i.
Same(l, k, i) == \A j \in 1 .. i : l[j] = k[j]

\* l is put together from what the leaders up to term t had in their logs.
Fits(led, l, t) ==
  \A i \in 1 .. Len(l) :
    /\ l[i].term <= t
    /\ i <= Len(led[l[i].term])
    /\ Same(l, led[l[i].term], i)

LedLogs(led) ==
  \A t \in Nat :
    /\ Fits(led, led[t], t)
    /\ \A i, j \in 1 .. Len(led[t]) : i <= j => led[t][i].term <= led[t][j].term

\* v can back nobody but a in term t any more.
Settled(v, t, a) ==
  /\ t <= term[v]
  /\ t = term[v] => vote[v] = a
  /\ \A b \in Node : Backs(v, t, b) => b = a

\* a has won term t.
Elected(t, a) ==
  /\ t < term[a] \/ (t = term[a] /\ role[a] = "Leader")
  /\ IsMajority({v \in Node : Settled(v, t, a)})

TermsAreWon(led) ==
  \A t \in Nat : led[t] # << >> => \E a \in Node : Elected(t, a)

NodeLogs(led) ==
  \A n \in Node :
    /\ Fits(led, log[n], term[n])
    /\ role[n] = "Candidate" => \A i \in 1 .. Len(log[n]) : log[n][i].term < term[n]

LeaderKnows(led, acked, a) ==
  /\ log[a] = led[term[a]] /\ log[a] # << >>
  /\ acked[a][term[a]] = Len(log[a])
  /\ \A p \in Node : next[a][p] <= Len(log[a]) + 1 /\ match[a][p] <= acked[p][term[a]]
LeadersKnow(led, acked) == \A a \in Node : role[a] = "Leader" => LeaderKnows(led, acked, a)

AcksInRange(led, acked) == \A v \in Node : \A t \in Nat : acked[v][t] <= Len(led[t])

\* A majority has, or may still, acknowledge entry k in term t.
Choosable(acked, k, t) == IsMajority({v \in Node : acked[v][t] >= k \/ term[v] <= t})

\* Entry k of term t is committed, or may be.
Safe(led, acked, k, t) == Holds(led[t], k, t) /\ Choosable(acked, k, t)

AcksAreKept(led, acked) ==
  \A v \in Node : \A t \in Nat : \A k \in 1 .. acked[v][t] :
    Safe(led, acked, k, t) => Holds(log[v], k, t)

VotesAreSafe(led, acked) ==
  \A v, a \in Node :
    role[a] = "Candidate" /\ Backs(v, term[a], a) =>
      \A t \in 0 .. term[a] - 1 : \A k \in 1 .. acked[v][t] :
        Safe(led, acked, k, t) => Holds(log[a], k, t)

LeadersAreComplete(led, acked) ==
  \A t, s \in Nat : t < s /\ led[s] # << >> =>
    \A k \in 1 .. Len(led[t]) : Safe(led, acked, k, t) => Holds(led[s], k, t)

Chosen(led, acked, k, t) ==
  Holds(led[t], k, t) /\ IsMajority({v \in Node : acked[v][t] >= k})

\* A commit index c known in term s is of chosen entries.
Covered(led, acked, c, s) ==
  c = 0 \/ \E t \in 0 .. s : \E k \in 1 .. Len(led[t]) : c <= k /\ Chosen(led, acked, k, t)

CommitIsChosen(led, acked, n) ==
  commit[n] = 0 \/
    \E t \in 0 .. term[n] : \E k \in 1 .. Len(led[t]) :
      commit[n] <= k /\ Chosen(led, acked, k, t) /\ Same(log[n], led[t], commit[n])
CommitsAreChosen(led, acked) == \A n \in Node : CommitIsChosen(led, acked, n)

AppendIsLed(led, acked, m) ==
  /\ led[m.term] # << >>
  /\ m.prev <= Len(led[m.term]) /\ m.prevTerm = TermAt(led[m.term], m.prev)
  /\ m.entries # << >> => /\ m.prev < Len(led[m.term])
                          /\ m.entries[1] = led[m.term][m.prev + 1]
  /\ Covered(led, acked, m.commit, m.term)

MessageIsTrue(led, acked, m) ==
  /\ m.type = "Append" => AppendIsLed(led, acked, m)
  /\ m.type = "AppendResponse" /\ ~m.reject => m.index <= acked[m.from][m.term]
  /\ m.type = "RequestVote" =>
       /\ m.term <= term[m.from]
       /\ role[m.from] = "Candidate" /\ term[m.from] = m.term =>
            m.lastIndex = Len(log[m.from]) /\ m.lastTerm = LastTerm(log[m.from])
  /\ m.type = "Vote" => m.term <= term[m.to]
MessagesAreTrue(led, acked) == \A m \in network : MessageIsTrue(led, acked, m)

Past(led, acked) == led \in [Nat -> Seq(Entry)] /\ acked \in [Node -> [Nat -> Nat]]

LogInv(led, acked) ==
  /\ Past(led, acked)
  /\ LedLogs(led)
  /\ TermsAreWon(led)
  /\ NodeLogs(led)
  /\ LeadersKnow(led, acked)
  /\ AcksInRange(led, acked)
  /\ AcksAreKept(led, acked)
  /\ VotesAreSafe(led, acked)
  /\ LeadersAreComplete(led, acked)
  /\ CommitsAreChosen(led, acked)
  /\ MessagesAreTrue(led, acked)

-----------------------------------------------------------------------------
(* What every step does to the logs and to their past.                     *)

Grows(led, led2) ==
  \A t \in Nat : Len(led[t]) <= Len(led2[t]) /\ Same(led2[t], led[t], Len(led[t]))

\* A node acknowledges only what its log shares with its leader's.
AcksGrow(acked, led2, acked2) ==
  \A v \in Node : \A t \in Nat :
    \/ acked2[v][t] = acked[v][t]
    \/ /\ t = term'[v] /\ acked[v][t] <= acked2[v][t]
       /\ acked2[v][t] <= Len(led2[t]) /\ acked2[v][t] <= Len(log'[v])
       /\ Same(log'[v], led2[t], acked2[v][t])

\* The log of n is cut after x, where it differs from the leader's, and takes
\* the next entry of that.
LogCut(led, led2, n) ==
  \E x \in Nat :
    /\ commit[n] <= x /\ x <= Len(log[n]) /\ x < Len(led2[term'[n]])
    /\ Len(log'[n]) = x + 1
    /\ Same(log'[n], log[n], x) /\ Same(log'[n], led2[term'[n]], x + 1)
    /\ x < Len(log[n]) => log[n][x + 1].term # led2[term'[n]][x + 1].term
    /\ led[term'[n]] # << >>

\* The log of n grows because n leads.
LogLed(led2, n) ==
  /\ role'[n] = "Leader" /\ log'[n] = led2[term'[n]]
  /\ Len(log[n]) <= Len(log'[n]) /\ Same(log'[n], log[n], Len(log[n]))

\* A candidate waits with the log it started with.
CandidatesWait ==
  \A n \in Node : role'[n] = "Candidate" =>
    /\ log'[n] = log[n]
    /\ (role[n] = "Candidate" /\ term'[n] = term[n]) \/ term'[n] = term[n] + 1

LeadersStay ==
  \A n \in Node : role[n] = "Leader" /\ term'[n] = term[n] => role'[n] = "Leader"

\* A new leader has won, with all that may be committed.
WinsAreComplete(led, acked, led2) ==
  \A s \in Nat : led[s] = << >> /\ led2[s] # << >> =>
    /\ (\E a \in Node : Elected(s, a))'
    /\ \A t \in Nat : t < s =>
         \A k \in 1 .. Len(led[t]) : Safe(led, acked, k, t) => Holds(led2[s], k, t)

\* What is led now and was not before is the log of a leader.
LedByLeaders(led, led2) ==
  \A t \in Nat :
    led2[t] = led[t] \/ \E a \in Node : role'[a] = "Leader" /\ led2[t] = log'[a]

LogStep(led, acked, led2, acked2) ==
  /\ Past(led2, acked2)
  /\ LedLogs(led2)
  /\ Grows(led, led2)
  /\ AcksGrow(acked, led2, acked2)
  /\ \A n \in Node : log'[n] = log[n] \/ LogCut(led, led2, n) \/ LogLed(led2, n)
  /\ CandidatesWait /\ LeadersStay
  /\ LeadersKnow(led2, acked2)'
  /\ \A n \in Node : commit'[n] = commit[n] \/ CommitIsChosen(led2, acked2, n)'
  /\ \A m \in network' : m \in network \/ MessageIsTrue(led2, acked2, m)'
  /\ WinsAreComplete(led, acked, led2)
  /\ LedByLeaders(led, led2)

-----------------------------------------------------------------------------
(* Majorities, and what a step does to what may be committed.              *)

LEMMA MajorityGrows ==
  ASSUME NEW S \in SUBSET Node, NEW T \in SUBSET Node, S \subseteq T, IsMajority(S)
  PROVE  IsMajority(T)
<1>1. IsFiniteSet(Node) /\ IsFiniteSet(T) /\ IsFiniteSet(S)
  BY NodeAssumption, FS_Subset
<1>2. Cardinality(S) <= Cardinality(T)
  BY <1>1, FS_Subset
<1>3. Cardinality(S) \in Nat /\ Cardinality(T) \in Nat /\ Cardinality(Node) \in Nat
  BY <1>1, FS_CardinalityType
<1> QED
  BY <1>2, <1>3 DEF IsMajority

LEMMA LogLen ==
  ASSUME NEW l \in Seq(Entry)
  PROVE  Len(l) \in Nat
  OBVIOUS

LEMMA Within ==
  ASSUME NEW n \in Nat, NEW m \in Nat, n <= m, NEW i \in 1 .. n
  PROVE  i \in 1 .. m /\ i \in Nat /\ \A j \in 1 .. i : j \in 1 .. n
  OBVIOUS

LEMMA PastTypes ==
  ASSUME NEW led, NEW acked, Past(led, acked)
  PROVE  /\ \A t \in Nat : led[t] \in Seq(Entry) /\ Len(led[t]) \in Nat
         /\ \A v \in Node : \A t \in Nat : acked[v][t] \in Nat
<1>1. \A t \in Nat : led[t] \in Seq(Entry)
  BY DEF Past
<1>2. \A v \in Node : acked[v] \in [Nat -> Nat]
  BY DEF Past
<1>3. \A v \in Node : \A t \in Nat : acked[v][t] \in Nat
  BY <1>2
<1>4. \A t \in Nat : Len(led[t]) \in Nat
  BY <1>1
<1> QED
  BY <1>1, <1>3, <1>4

LEMMA TermTypes ==
  ASSUME NodeTypeOK
  PROVE  \A v \in Node : /\ term[v] \in Nat
                         /\ log[v] \in Seq(Entry) /\ Len(log[v]) \in Nat
                         /\ commit[v] \in Nat
  BY DEF NodeTypeOK

\* What may be committed after a step and was there before may have been
\* committed before: nodes leave terms, and acknowledge only in their own.
LEMMA SafeShrinks ==
  ASSUME NodeTypeOK, NodeTypeOK', NEW led, NEW acked, NEW led2, NEW acked2,
         Past(led, acked), Past(led2, acked2), Grows(led, led2),
         AcksGrow(acked, led2, acked2), VoteStep,
         NEW t \in Nat, NEW k \in 1 .. Len(led[t]), Safe(led2, acked2, k, t)'
  PROVE  Safe(led, acked, k, t)
<1> DEFINE Now == {v \in Node : acked2[v][t] >= k \/ term'[v] <= t}
           Then == {v \in Node : acked[v][t] >= k \/ term[v] <= t}
<1>1. Len(led[t]) \in Nat /\ k \in Nat /\ k \in 1 .. Len(led[t])
  BY PastTypes
<1>2. Now \subseteq Then
  <2> SUFFICES ASSUME NEW v \in Node, acked2[v][t] >= k \/ term'[v] <= t
               PROVE  acked[v][t] >= k \/ term[v] <= t
    OBVIOUS
  <2>1. acked[v][t] \in Nat /\ acked2[v][t] \in Nat
    BY PastTypes
  <2>4. term[v] \in Nat /\ term'[v] \in Nat
    BY DEF NodeTypeOK
  <2>2. term[v] <= term'[v]
    BY DEF VoteStep
  <2>3. acked2[v][t] = acked[v][t] \/ t = term'[v]
    BY DEF AcksGrow
  <2> QED
    BY <1>1, <2>1, <2>2, <2>3, <2>4
<1>3. IsMajority(Now)
  BY DEF Safe, Choosable
<1>4. IsMajority(Then)
  BY <1>2, <1>3, MajorityGrows
<1>5. led2[t][k].term = t
  BY DEF Safe, Holds
<1>6. led2[t][k] = led[t][k]
  BY <1>1 DEF Grows, Same
<1> QED
  BY <1>1, <1>4, <1>5, <1>6 DEF Safe, Holds, Choosable

LEMMA ChosenStays ==
  ASSUME NodeTypeOK', NEW led, NEW acked, NEW led2, NEW acked2,
         Past(led, acked), Past(led2, acked2), Grows(led, led2),
         AcksGrow(acked, led2, acked2),
         NEW t \in Nat, NEW k, Chosen(led, acked, k, t)
  PROVE  Chosen(led2, acked2, k, t) /\ k \in 1 .. Len(led2[t])
<1> DEFINE Now == {v \in Node : acked2[v][t] >= k}
           Then == {v \in Node : acked[v][t] >= k}
<1>1. k \in 1 .. Len(led[t]) /\ led[t][k].term = t /\ IsMajority(Then)
  BY DEF Chosen, Holds
<1>2. Len(led[t]) \in Nat /\ Len(led2[t]) \in Nat /\ Len(led[t]) <= Len(led2[t])
  BY PastTypes DEF Grows
<1>3. k \in Nat /\ k \in 1 .. Len(led2[t])
  BY <1>1, <1>2
<1>4. led2[t][k] = led[t][k]
  BY <1>1 DEF Grows, Same
<1>5. Then \subseteq Now
  <2> SUFFICES ASSUME NEW v \in Node, acked[v][t] >= k
               PROVE  acked2[v][t] >= k
    OBVIOUS
  <2>1. acked[v][t] \in Nat /\ acked2[v][t] \in Nat
    BY PastTypes
  <2>2. acked[v][t] <= acked2[v][t]
    BY <2>1 DEF AcksGrow
  <2> QED
    BY <1>3, <2>1, <2>2
<1>6. IsMajority(Now)
  BY <1>1, <1>5, MajorityGrows
<1> QED
  BY <1>1, <1>3, <1>4, <1>6 DEF Chosen, Holds

LEMMA ChosenIsSafe ==
  ASSUME NEW led, NEW acked, Past(led, acked), NEW t, NEW k, Chosen(led, acked, k, t)
  PROVE  Safe(led, acked, k, t)
<1> DEFINE S == {v \in Node : acked[v][t] >= k}
           T == {v \in Node : acked[v][t] >= k \/ term[v] <= t}
<1>1. IsMajority(S) /\ S \subseteq T
  BY DEF Chosen
<1>2. IsMajority(T)
  BY <1>1, MajorityGrows
<1> QED
  BY <1>2 DEF Safe, Chosen, Choosable

-----------------------------------------------------------------------------
(* The invariant after a step, one part at a time.                         *)

Steps(led, acked, led2, acked2) ==
  /\ NodeTypeOK /\ NodeTypeOK' /\ LogBounds
  /\ BackingIsKept /\ BackingIsUnique /\ VoteStep
  /\ LogInv(led, acked)
  /\ LogStep(led, acked, led2, acked2)

LEMMA EntryTerm ==
  ASSUME NEW l \in Seq(Entry), NEW i \in 1 .. Len(l)
  PROVE  l[i].term \in Nat
<1>1. l[i] \in Entry
  OBVIOUS
<1> QED
  BY <1>1 DEF Entry

\* Nothing makes a settled vote free again.
LEMMA SettledStays ==
  ASSUME NodeTypeOK, NodeTypeOK', VoteStep,
         NEW v \in Node, NEW a \in Node, NEW t \in Nat, Settled(v, t, a)
  PROVE  Settled(v, t, a)'
<1>1. term[v] \in Nat /\ term'[v] \in Nat /\ a # None
  BY NodeAssumption DEF NodeTypeOK
<1>2. term[v] <= term'[v] /\ (term'[v] = term[v] => vote'[v] = vote[v] \/ vote[v] = None)
  BY DEF VoteStep
<1>3. t <= term[v] /\ (t = term[v] => vote[v] = a)
  BY DEF Settled
<1>4. t <= term'[v] /\ (t = term'[v] => vote'[v] = a)
  BY <1>1, <1>2, <1>3
<1>5. ASSUME NEW b \in Node, Backs(v, t, b)' PROVE b = a
  <2>1. CASE Backs(v, t, b)
    BY <2>1 DEF Settled
  <2>2. CASE FreshlyBacks(v, t, b)
    <3>1. t = term'[v] /\ (t > term[v] \/ vote[v] \in {None, b})
      BY <2>2 DEF FreshlyBacks
    <3> QED
      BY <1>1, <1>2, <1>3, <3>1
  <2> QED
    BY <1>5, <2>1, <2>2 DEF VoteStep
<1> QED
  BY <1>4, <1>5 DEF Settled

LEMMA ElectedStays ==
  ASSUME NodeTypeOK, NodeTypeOK', VoteStep, LeadersStay,
         NEW a \in Node, NEW t \in Nat, Elected(t, a)
  PROVE  Elected(t, a)'
<1> DEFINE Then == {v \in Node : Settled(v, t, a)}
           Now == {v \in Node : Settled(v, t, a)'}
<1>1. Then \subseteq Now
  BY SettledStays
<1>2. IsMajority(Then)
  BY DEF Elected
<1>3. IsMajority(Now)
  BY <1>1, <1>2, MajorityGrows
<1>4. term[a] \in Nat /\ term'[a] \in Nat /\ term[a] <= term'[a]
  BY DEF NodeTypeOK, VoteStep
<1>5. t < term[a] \/ (t = term[a] /\ role[a] = "Leader")
  BY DEF Elected
<1>6. t < term'[a] \/ (t = term'[a] /\ role'[a] = "Leader")
  BY <1>4, <1>5 DEF LeadersStay
<1>7. IsMajority(Now) <=> IsMajority({v \in Node : Settled(v, t, a)})'
  BY DEF IsMajority
<1> QED
  BY <1>3, <1>6, <1>7 DEF Elected

LEMMA TermsAreWonNext ==
  ASSUME NEW led, NEW acked, NEW led2, NEW acked2, Steps(led, acked, led2, acked2)
  PROVE  TermsAreWon(led2)'
<1> SUFFICES ASSUME NEW t \in Nat, led2[t] # << >>
             PROVE  (\E a \in Node : Elected(t, a))'
  BY DEF TermsAreWon
<1>1. CASE led[t] = << >>
  BY <1>1 DEF Steps, LogStep, WinsAreComplete
<1>2. CASE led[t] # << >>
  <2>1. PICK a \in Node : Elected(t, a)
    BY <1>2 DEF Steps, LogInv, TermsAreWon
  <2>2. Elected(t, a)'
    BY <2>1, ElectedStays DEF Steps, LogStep
  <2> QED
    BY <2>2
<1> QED
  BY <1>1, <1>2

\* What fitted the past fits it when it has grown.
LEMMA FitsGrows ==
  ASSUME NEW led \in [Nat -> Seq(Entry)], NEW led2 \in [Nat -> Seq(Entry)],
         Grows(led, led2),
         NEW l \in Seq(Entry), NEW t \in Nat, NEW s \in Nat, t <= s, Fits(led, l, t)
  PROVE  Fits(led2, l, s)
<1> SUFFICES ASSUME NEW i \in 1 .. Len(l)
             PROVE  /\ l[i].term <= s
                    /\ i <= Len(led2[l[i].term])
                    /\ Same(l, led2[l[i].term], i)
  BY DEF Fits
<1> DEFINE u == l[i].term
<1>1. u \in Nat /\ i \in Nat
  BY EntryTerm
<1>2. u <= t /\ i <= Len(led[u]) /\ Same(l, led[u], i)
  BY DEF Fits
<1> HIDE DEF u
<1>3. led[u] \in Seq(Entry) /\ led2[u] \in Seq(Entry)
  BY <1>1
<1>4. Len(led[u]) \in Nat /\ Len(led2[u]) \in Nat
  BY <1>3, LogLen
<1>5. Len(led[u]) <= Len(led2[u]) /\ \A j \in 1 .. Len(led[u]) : led2[u][j] = led[u][j]
  BY <1>1 DEF Grows, Same
<1>6. Same(l, led2[u], i)
  BY <1>1, <1>2, <1>4, <1>5 DEF Same
<1>7. u <= s
  BY <1>1, <1>2
<1>8. i <= Len(led2[u])
  BY <1>1, <1>2, <1>4, <1>5
<1> QED
  BY <1>6, <1>7, <1>8 DEF u

\* A part of a log that fits does.
LEMMA FitsPart ==
  ASSUME NEW led \in [Nat -> Seq(Entry)], NEW k \in Seq(Entry), NEW l \in Seq(Entry),
         NEW t \in Nat, Fits(led, k, t), Len(l) <= Len(k), Same(l, k, Len(l))
  PROVE  Fits(led, l, t)
<1> SUFFICES ASSUME NEW i \in 1 .. Len(l)
             PROVE  /\ l[i].term <= t
                    /\ i <= Len(led[l[i].term])
                    /\ Same(l, led[l[i].term], i)
  BY DEF Fits
<1>1. Len(l) \in Nat /\ Len(k) \in Nat
  BY LogLen
<1>2. i \in 1 .. Len(k) /\ \A j \in 1 .. i : l[j] = k[j]
  <2>1. i \in 1 .. Len(k) /\ \A j \in 1 .. i : j \in 1 .. Len(l)
    BY <1>1, Within
  <2> QED
    BY <2>1 DEF Same
<1>3. k[i] = l[i]
  BY <1>2
<1>4. /\ k[i].term <= t
      /\ i <= Len(led[k[i].term])
      /\ Same(k, led[k[i].term], i)
  BY <1>2 DEF Fits
<1> QED
  BY <1>2, <1>3, <1>4 DEF Same

LEMMA NodeLogsNext ==
  ASSUME NEW led, NEW acked, NEW led2, NEW acked2, Steps(led, acked, led2, acked2)
  PROVE  NodeLogs(led2)'
<1> SUFFICES ASSUME NEW n \in Node
             PROVE  /\ Fits(led2, log'[n], term'[n])
                    /\ role'[n] = "Candidate" =>
                         \A i \in 1 .. Len(log'[n]) : log'[n][i].term < term'[n]
  BY DEF NodeLogs, Fits, Same
<1>1. /\ term[n] \in Nat /\ term'[n] \in Nat
      /\ log[n] \in Seq(Entry) /\ log'[n] \in Seq(Entry)
      /\ Len(log[n]) \in Nat /\ Len(log'[n]) \in Nat
  BY TermTypes DEF Steps, NodeTypeOK
<1>2. term[n] <= term'[n]
  BY DEF Steps, VoteStep
<1>3. /\ led \in [Nat -> Seq(Entry)] /\ led2 \in [Nat -> Seq(Entry)]
      /\ Grows(led, led2) /\ LedLogs(led2)
  BY DEF Steps, LogInv, LogStep, Past
<1>4. /\ Fits(led, log[n], term[n])
      /\ role[n] = "Candidate" => \A i \in 1 .. Len(log[n]) : log[n][i].term < term[n]
  BY DEF Steps, LogInv, NodeLogs
<1>5. Fits(led2, log'[n], term'[n])
  <2>1. CASE log'[n] = log[n]
    BY <1>1, <1>2, <1>3, <1>4, <2>1, FitsGrows
  <2>2. CASE LogCut(led, led2, n)
    <3> DEFINE k == led2[term'[n]]
    <3>1. k \in Seq(Entry) /\ Fits(led2, k, term'[n])
      BY <1>1, <1>3 DEF LedLogs
    <3>2. Len(k) \in Nat
      BY <3>1, LogLen
    <3>3. PICK x \in Nat : /\ x < Len(k) /\ Len(log'[n]) = x + 1
                           /\ Same(log'[n], k, x + 1)
      BY <2>2 DEF LogCut
    <3>4. Len(log'[n]) <= Len(k)
      BY <3>2, <3>3
    <3> HIDE DEF k
    <3> QED
      BY <1>1, <1>3, <3>1, <3>3, <3>4, FitsPart
  <2>3. CASE LogLed(led2, n)
    BY <1>1, <1>3, <2>3 DEF LogLed, LedLogs
  <2> QED
    BY <2>1, <2>2, <2>3 DEF Steps, LogStep
<1>6. ASSUME role'[n] = "Candidate", NEW i \in 1 .. Len(log'[n])
      PROVE  log'[n][i].term < term'[n]
  <2>1. /\ log'[n] = log[n]
        /\ (role[n] = "Candidate" /\ term'[n] = term[n]) \/ term'[n] = term[n] + 1
    BY <1>6 DEF Steps, LogStep, CandidatesWait
  <2>2. log[n][i].term \in Nat /\ i \in 1 .. Len(log[n])
    BY <1>1, <2>1, EntryTerm
  <2>3. log[n][i].term <= term[n]
    BY <1>4, <2>2 DEF Fits
  <2> QED
    BY <1>1, <1>4, <2>1, <2>2, <2>3
<1> QED
  BY <1>5, <1>6

LEMMA AcksInRangeNext ==
  ASSUME NEW led, NEW acked, NEW led2, NEW acked2, Steps(led, acked, led2, acked2)
  PROVE  AcksInRange(led2, acked2)
<1> SUFFICES ASSUME NEW v \in Node, NEW t \in Nat
             PROVE  acked2[v][t] <= Len(led2[t])
  BY DEF AcksInRange
<1>1. Past(led, acked) /\ Past(led2, acked2) /\ AcksInRange(led, acked)
  BY DEF Steps, LogInv, LogStep
<1>2. acked[v][t] \in Nat /\ acked2[v][t] \in Nat /\ Len(led[t]) \in Nat /\ Len(led2[t]) \in Nat
  BY <1>1, PastTypes
<1>3. acked2[v][t] = acked[v][t] \/ acked2[v][t] <= Len(led2[t])
  BY DEF Steps, LogStep, AcksGrow
<1>4. acked[v][t] <= Len(led[t]) /\ Len(led[t]) <= Len(led2[t])
  BY <1>1 DEF AcksInRange, Steps, LogStep, Grows
<1> QED
  BY <1>2, <1>3, <1>4

\* An entry that may be committed is in the log of every leader of its term
\* and of later ones, with all that comes before it.
LEMMA LedHasSafe ==
  ASSUME NEW led, NEW acked, Past(led, acked), LedLogs(led),
         LeadersAreComplete(led, acked),
         NEW t \in Nat, NEW s \in Nat, t <= s, led[s] # << >>,
         NEW k \in 1 .. Len(led[t]), Safe(led, acked, k, t)
  PROVE  Holds(led[s], k, t) /\ Same(led[s], led[t], k)
<1>1. Holds(led[s], k, t)
  <2>1. CASE t = s
    BY <2>1 DEF Safe
  <2>2. CASE t # s
    BY <2>2 DEF LeadersAreComplete
  <2> QED
    BY <2>1, <2>2
<1>2. Fits(led, led[s], s)
  BY DEF LedLogs
<1> QED
  BY <1>1, <1>2 DEF Fits, Holds

\* Terms grow along the log of a node.
LEMMA NodeTermsGrow ==
  ASSUME NodeTypeOK, NEW led, NEW acked, Past(led, acked), LedLogs(led), NodeLogs(led),
         NEW n \in Node, NEW j \in 1 .. Len(log[n]), NEW i \in 1 .. j
  PROVE  log[n][i].term <= log[n][j].term
<1> DEFINE t == log[n][j].term
<1>1. log[n] \in Seq(Entry) /\ Len(log[n]) \in Nat
  BY TermTypes
<1>2. t \in Nat /\ j \in Nat
  BY <1>1, EntryTerm
<1>3. j <= Len(led[t]) /\ Same(log[n], led[t], j)
  BY DEF NodeLogs, Fits
<1>4. Len(led[t]) \in Nat
  BY <1>2, PastTypes
<1>5. log[n][i] = led[t][i] /\ log[n][j] = led[t][j]
  BY <1>2, <1>3 DEF Same
<1>6. i \in 1 .. Len(led[t]) /\ j \in 1 .. Len(led[t]) /\ i <= j
  BY <1>2, <1>3, <1>4
<1>7. led[t][i].term <= led[t][j].term
  BY <1>2, <1>6 DEF LedLogs
<1> QED
  BY <1>5, <1>7

\* A step keeps, in the log of every node, the entries it acknowledged and
\* that may be committed.
LEMMA AcksAreKeptNext ==
  ASSUME NEW led, NEW acked, NEW led2, NEW acked2, Steps(led, acked, led2, acked2)
  PROVE  AcksAreKept(led2, acked2)'
<1> SUFFICES ASSUME NEW v \in Node, NEW t \in Nat, NEW k \in 1 .. acked2[v][t],
                    Safe(led2, acked2, k, t)'
             PROVE  Holds(log'[v], k, t)
  BY DEF AcksAreKept, Holds
<1>1. Past(led, acked) /\ Past(led2, acked2) /\ Grows(led, led2) /\ NodeTypeOK /\ NodeTypeOK'
  BY DEF Steps, LogInv, LogStep
<1>2. /\ acked[v][t] \in Nat /\ acked2[v][t] \in Nat /\ k \in Nat
      /\ Len(log[v]) \in Nat /\ Len(log'[v]) \in Nat
      /\ Len(led[t]) \in Nat /\ term[v] \in Nat /\ term'[v] \in Nat
  <2>1. acked[v][t] \in Nat /\ acked2[v][t] \in Nat /\ Len(led[t]) \in Nat
    BY <1>1, PastTypes
  <2>2. /\ Len(log[v]) \in Nat /\ Len(log'[v]) \in Nat
        /\ term[v] \in Nat /\ term'[v] \in Nat
    BY <1>1 DEF NodeTypeOK
  <2> QED
    BY <2>1, <2>2
<1>3. led2[t][k].term = t
  BY DEF Safe, Holds
<1>4. CASE /\ acked2[v][t] <= Len(log'[v])
           /\ Same(log'[v], led2[t], acked2[v][t])
  <2>1. k \in 1 .. Len(log'[v])
    BY <1>2, <1>4
  <2> QED
    BY <1>3, <1>4, <2>1 DEF Same, Holds
<1>5. CASE acked2[v][t] = acked[v][t]
  <2>1. acked[v][t] <= Len(led[t])
    BY DEF Steps, LogInv, AcksInRange
  <2>2. k \in 1 .. Len(led[t])
    BY <1>2, <1>5, <2>1
  <2>3. Safe(led, acked, k, t)
    BY <1>1, <2>2, SafeShrinks DEF Steps, LogStep
  <2>4. Holds(log[v], k, t)
    BY <1>5, <2>3 DEF Steps, LogInv, AcksAreKept
  <2>5. k \in 1 .. Len(log[v]) /\ log[v][k].term = t
    BY <2>4 DEF Holds
  <2>6. CASE LogLed(led2, v)
    <3>1. k \in 1 .. Len(log'[v]) /\ log'[v][k] = log[v][k]
      BY <1>2, <2>5, <2>6 DEF LogLed, Same
    <3> QED
      BY <2>5, <3>1 DEF Holds
  <2>7. CASE LogCut(led, led2, v)
    <3> DEFINE s == term'[v]
    <3>1. PICK x \in Nat :
            /\ x <= Len(log[v]) /\ Len(log'[v]) = x + 1
            /\ Same(log'[v], log[v], x)
            /\ x < Len(log[v]) => log[v][x + 1].term # led2[s][x + 1].term
            /\ led[s] # << >>
      BY <2>7 DEF LogCut
    <3>2. CASE k <= x
      <4>1. k \in 1 .. x /\ k \in 1 .. Len(log'[v])
        BY <1>2, <3>1, <3>2
      <4>2. log'[v][k] = log[v][k]
        BY <3>1, <4>1 DEF Same
      <4> QED
        BY <2>5, <4>1, <4>2 DEF Holds
    <3>3. CASE x < k
      <4>1. t <= term[v] /\ Same(log[v], led[t], k)
        BY <2>5 DEF Steps, LogInv, NodeLogs, Fits
      <4>2. term[v] <= s
        BY DEF Steps, VoteStep
      <4>3. s \in Nat /\ t <= s
        BY <1>2, <4>1, <4>2
      <4>4. Holds(led[s], k, t) /\ Same(led[s], led[t], k)
        BY <1>1, <2>2, <2>3, <3>1, <4>3, LedHasSafe DEF Steps, LogInv
      <4>5. Len(led[s]) \in Nat
        BY <1>1, <4>3, PastTypes
      <4>6. k <= Len(led[s])
        BY <4>4 DEF Holds
      <4>7. x + 1 \in 1 .. k /\ x + 1 \in 1 .. Len(led[s]) /\ x < Len(log[v])
        BY <1>2, <2>5, <3>1, <3>3, <4>5, <4>6
      <4>8. log[v][x + 1] = led[t][x + 1] /\ led[s][x + 1] = led[t][x + 1]
        BY <4>1, <4>4, <4>7 DEF Same
      <4>9. led2[s][x + 1] = led[s][x + 1]
        BY <1>1, <4>3, <4>7 DEF Grows, Same
      <4> QED
        BY <3>1, <4>7, <4>8, <4>9
    <3> QED
      BY <1>2, <3>1, <3>2, <3>3
  <2>8. CASE log'[v] = log[v]
    BY <2>4, <2>8
  <2> QED
    BY <2>6, <2>7, <2>8 DEF Steps, LogStep
<1> QED
  BY <1>4, <1>5 DEF Steps, LogStep, AcksGrow

\* A log that is as up to date as one that holds an entry which may be
\* committed holds it as well.
LEMMA UpToDateHolds ==
  ASSUME NodeTypeOK, NEW led, NEW acked, Past(led, acked), LedLogs(led), NodeLogs(led),
         LeadersAreComplete(led, acked),
         NEW v \in Node, NEW a \in Node, NEW t \in Nat, NEW k \in 1 .. Len(led[t]),
         Safe(led, acked, k, t), Holds(log[v], k, t),
         \/ LastTerm(log[a]) > LastTerm(log[v])
         \/ LastTerm(log[a]) = LastTerm(log[v]) /\ Len(log[a]) >= Len(log[v])
  PROVE  Holds(log[a], k, t)
<1> DEFINE g == Len(log[v])
           h == Len(log[a])
           s == LastTerm(log[v])
           u == LastTerm(log[a])
<1>1. /\ log[v] \in Seq(Entry) /\ log[a] \in Seq(Entry) /\ g \in Nat /\ h \in Nat
      /\ Len(led[t]) \in Nat /\ k \in Nat
  BY TermTypes, PastTypes
<1>2. k \in 1 .. g /\ log[v][k].term = t
  BY DEF Holds
<1>3. g \in 1 .. g /\ s = log[v][g].term
  <2>1. g \in 1 .. g
    BY <1>1, <1>2
  <2> QED
    BY <2>1 DEF LastTerm, TermAt
<1>4. s \in Nat /\ t <= s
  <2>1. s \in Nat
    BY <1>1, <1>3, EntryTerm
  <2>2. log[v][k].term <= log[v][g].term
    BY <1>2, <1>3, NodeTermsGrow
  <2> QED
    BY <1>2, <1>3, <2>1, <2>2
<1>5. h \in 1 .. h /\ u = log[a][h].term
  <2>1. h # 0
    <3> SUFFICES ASSUME h = 0 PROVE FALSE
      OBVIOUS
    <3>1. h \notin 1 .. h
      OBVIOUS
    <3>2. u = 0
      BY <3>1 DEF LastTerm, TermAt
    <3>3. ~(u > s) /\ ~(h >= g)
      BY <1>1, <1>2, <1>4, <3>2
    <3> QED
      BY <3>3
  <2>2. h \in 1 .. h
    BY <1>1, <2>1
  <2> QED
    BY <2>2 DEF LastTerm, TermAt
<1>6. u \in Nat
  BY <1>1, <1>5, EntryTerm
<1>7. u > s \/ (u = s /\ h >= g)
  OBVIOUS
<1>8. h <= Len(led[u]) /\ Same(log[a], led[u], h)
  BY <1>5 DEF NodeLogs, Fits
<1> HIDE DEF g, h, s, u
<1>9. led[u] \in Seq(Entry) /\ Len(led[u]) \in Nat
  BY <1>6, PastTypes
<1>10. led[u] # << >> /\ t <= u
  BY <1>1, <1>4, <1>5, <1>6, <1>7, <1>8, <1>9
<1>11. Holds(led[u], k, t)
  BY <1>6, <1>10, LedHasSafe
<1>12. k <= h
  <2>1. CASE u = t
    BY <1>1, <1>2, <1>4, <1>6, <1>7, <2>1
  <2>2. CASE u # t /\ h < k
    <3>1. h \in 1 .. Len(led[u]) /\ k \in 1 .. Len(led[u]) /\ led[u][k].term = t
      BY <1>1, <1>5, <1>8, <1>9, <1>11 DEF Holds
    <3>2. led[u][h].term <= led[u][k].term
      BY <1>1, <1>6, <2>2, <3>1 DEF LedLogs
    <3>3. led[u][h] = log[a][h]
      BY <1>5, <1>8 DEF Same
    <3> QED
      BY <1>5, <1>6, <1>10, <2>2, <3>1, <3>2, <3>3
  <2> QED
    BY <1>1, <2>1, <2>2
<1>13. k \in 1 .. h
  BY <1>1, <1>2, <1>12
<1>14. log[a][k] = led[u][k]
  BY <1>8, <1>13 DEF Same
<1> QED
  BY <1>11, <1>13, <1>14 DEF Holds, h

\* What a node acknowledged in a term that is over stays as it was.
LEMMA OldAcksStay ==
  ASSUME NEW led, NEW acked, NEW led2, NEW acked2, Steps(led, acked, led2, acked2),
         NEW v \in Node, NEW t \in Nat, NEW s \in Nat, t < s,
         s <= term[v] \/ s <= term'[v]
  PROVE  /\ acked2[v][t] = acked[v][t]
         /\ \A k \in 1 .. acked2[v][t] :
              /\ k \in 1 .. Len(led[t])
              /\ Safe(led2, acked2, k, t)' => Safe(led, acked, k, t)
<1>1. Past(led, acked) /\ Past(led2, acked2) /\ Grows(led, led2) /\ NodeTypeOK /\ NodeTypeOK'
  BY DEF Steps, LogInv, LogStep
<1>2. term[v] \in Nat /\ term'[v] \in Nat /\ term[v] <= term'[v]
  BY <1>1 DEF NodeTypeOK, Steps, VoteStep
<1>3. acked2[v][t] = acked[v][t]
  <2>1. t # term'[v]
    BY <1>2
  <2> QED
    BY <2>1 DEF Steps, LogStep, AcksGrow
<1>4. acked[v][t] \in Nat /\ Len(led[t]) \in Nat
  BY <1>1, PastTypes
<1>5. acked[v][t] <= Len(led[t])
  BY DEF Steps, LogInv, AcksInRange
<1>6. \A k \in 1 .. acked[v][t] : k \in 1 .. Len(led[t])
  BY <1>4, <1>5
<1>7. ASSUME NEW k \in 1 .. Len(led[t]), Safe(led2, acked2, k, t)'
      PROVE  Safe(led, acked, k, t)
  BY <1>1, <1>7, SafeShrinks DEF Steps, LogStep
<1> QED
  BY <1>3, <1>6, <1>7

\* Who votes for a candidate has seen that it has all that may be committed.
LEMMA VotesAreSafeNext ==
  ASSUME NEW led, NEW acked, NEW led2, NEW acked2, Steps(led, acked, led2, acked2)
  PROVE  VotesAreSafe(led2, acked2)'
<1> SUFFICES ASSUME NEW v \in Node, NEW a \in Node, NEW s \in Nat,
                    role'[a] = "Candidate", s = term'[a], Backs(v, s, a)',
                    NEW t \in 0 .. s - 1, NEW k \in 1 .. acked2[v][t],
                    Safe(led2, acked2, k, t)'
             PROVE  Holds(log'[a], k, t)
  <2>1. \A a \in Node : term'[a] \in Nat
    BY DEF Steps, NodeTypeOK
  <2> QED
    BY <2>1 DEF VotesAreSafe, Holds, Backs
<1>1. NodeTypeOK /\ NodeTypeOK' /\ BackingIsKept /\ VoteStep /\ LogInv(led, acked)
  BY DEF Steps
<1>2. /\ s \in Nat /\ t \in Nat /\ t < s
      /\ term[a] \in Nat /\ term[v] \in Nat /\ term'[v] \in Nat
      /\ term[a] <= s /\ term[v] <= term'[v]
  <2>1. /\ s \in Nat /\ term[a] \in Nat /\ term[v] \in Nat /\ term'[v] \in Nat
        /\ term[a] <= s /\ term[v] <= term'[v]
    BY <1>1 DEF NodeTypeOK, VoteStep
  <2> QED
    BY <2>1
<1>3. Backs(v, s, a) \/ FreshlyBacks(v, s, a)
  BY <1>1 DEF VoteStep
<1>4. s <= term[v] \/ s <= term'[v]
  <2>1. CASE Backs(v, s, a)
    BY <1>1, <1>2, <2>1 DEF BackingIsKept
  <2>2. CASE FreshlyBacks(v, s, a)
    BY <1>2, <2>2 DEF FreshlyBacks
  <2> QED
    BY <1>3, <2>1, <2>2
<1>5. k \in 1 .. acked[v][t] /\ k \in 1 .. Len(led[t]) /\ Safe(led, acked, k, t)
  BY <1>2, <1>4, OldAcksStay
<1>6. /\ log'[a] = log[a]
      /\ (role[a] = "Candidate" /\ s = term[a]) \/ s = term[a] + 1
  BY DEF Steps, LogStep, CandidatesWait
<1>7. Holds(log[v], k, t)
  BY <1>1, <1>2, <1>5 DEF LogInv, AcksAreKept
<1>8. CASE Backs(v, s, a)
  <2>1. s <= term[a]
    <3>1. CASE \E m \in network :
                 /\ m.type = "Vote" /\ m.grant
                 /\ m.from = v /\ m.to = a /\ m.term = s
      BY <1>1, <3>1 DEF LogInv, MessagesAreTrue, MessageIsTrue
    <3>2. CASE term[a] = s
      BY <1>2, <3>2
    <3> QED
      BY <1>8, <3>1, <3>2 DEF Backs
  <2>2. role[a] = "Candidate" /\ s = term[a]
    BY <1>2, <1>6, <2>1
  <2>3. Backs(v, term[a], a) /\ t \in 0 .. term[a] - 1
    BY <1>8, <2>2
  <2>4. Holds(log[a], k, t)
    BY <1>1, <1>5, <2>2, <2>3 DEF LogInv, VotesAreSafe
  <2> QED
    BY <1>6, <2>4
<1>9. CASE FreshlyBacks(v, s, a)
  <2>1. CASE v = a
    BY <1>6, <1>7, <2>1
  <2>2. ASSUME NEW m \in network,
               m.type = "RequestVote", m.from = a, m.term = s, UpToDate(v, m)
        PROVE  Holds(log'[a], k, t)
    <3>1. m.term <= term[a]
      BY <1>1, <2>2 DEF LogInv, MessagesAreTrue, MessageIsTrue
    <3>2. role[a] = "Candidate" /\ s = term[a]
      BY <1>2, <1>6, <2>2, <3>1
    <3>3. m.lastIndex = Len(log[a]) /\ m.lastTerm = LastTerm(log[a])
      BY <1>1, <2>2, <3>2 DEF LogInv, MessagesAreTrue, MessageIsTrue
    <3>4. \/ LastTerm(log[a]) > LastTerm(log[v])
          \/ LastTerm(log[a]) = LastTerm(log[v]) /\ Len(log[a]) >= Len(log[v])
      BY <2>2, <3>3 DEF UpToDate
    <3>5. Holds(log[a], k, t)
      BY <1>1, <1>2, <1>5, <1>7, <3>4, UpToDateHolds DEF LogInv
    <3> QED
      BY <1>6, <3>5
  <2> QED
    BY <1>9, <2>1, <2>2 DEF FreshlyBacks, WasAsked
<1> QED
  BY <1>3, <1>8, <1>9

\* The voters of a term have left the earlier ones.
LEMMA WonTermsAreEntered ==
  ASSUME NEW t \in Nat, NEW a \in Node, Elected(t, a)
  PROVE  IsMajority({v \in Node : t <= term[v]})
<1> DEFINE S == {v \in Node : Settled(v, t, a)}
           T == {v \in Node : t <= term[v]}
<1>1. S \subseteq T
  BY DEF Settled
<1>2. IsMajority(S)
  BY DEF Elected
<1> QED
  BY <1>1, <1>2, MajorityGrows

LEMMA LeadersAreCompleteNext ==
  ASSUME NEW led, NEW acked, NEW led2, NEW acked2, Steps(led, acked, led2, acked2)
  PROVE  LeadersAreComplete(led2, acked2)'
<1> SUFFICES ASSUME NEW t \in Nat, NEW s \in Nat, t < s, led2[s] # << >>,
                    NEW k \in 1 .. Len(led2[t]), Safe(led2, acked2, k, t)'
             PROVE  Holds(led2[s], k, t)
  BY DEF LeadersAreComplete
<1>1. /\ Past(led, acked) /\ Past(led2, acked2) /\ Grows(led, led2)
      /\ NodeTypeOK /\ NodeTypeOK' /\ LogInv(led, acked)
  BY DEF Steps, LogInv, LogStep
<1>2. /\ Len(led[t]) \in Nat /\ Len(led2[t]) \in Nat /\ k \in Nat
      /\ Len(led[s]) \in Nat /\ Len(led2[s]) \in Nat
  BY <1>1, PastTypes
<1>3. k \in 1 .. Len(led[t])
  <2> SUFFICES ASSUME Len(led[t]) < k PROVE FALSE
    BY <1>2
  <2>1. PICK a \in Node : Elected(s, a)'
    BY TermsAreWonNext DEF TermsAreWon
  <2> DEFINE S == {v \in Node : s <= term'[v]}
             T == {v \in Node : acked2[v][t] >= k \/ term'[v] <= t}
  <2>2. IsMajority(S)
    <3> DEFINE Q == {v \in Node : Settled(v, s, a)'}
    <3>1. Q \subseteq S
      BY DEF Settled
    <3>2. IsMajority(Q)
      BY <2>1 DEF Elected, IsMajority
    <3> QED
      BY <3>1, <3>2, MajorityGrows
  <2>3. IsMajority(T)
    BY DEF Safe, Choosable
  <2>4. PICK v \in Node : v \in S /\ v \in T
    BY <2>2, <2>3, MajoritiesMeet
  <2>5. s <= term'[v] /\ (acked2[v][t] >= k \/ term'[v] <= t)
    BY <2>4
  <2>6. acked2[v][t] = acked[v][t]
    BY <2>5, OldAcksStay
  <2>7. acked[v][t] <= Len(led[t]) /\ acked[v][t] \in Nat /\ term'[v] \in Nat
    BY <1>1, PastTypes DEF LogInv, AcksInRange, NodeTypeOK
  <2> QED
    BY <1>2, <2>5, <2>6, <2>7
<1>4. Safe(led, acked, k, t)
  BY <1>1, <1>3, SafeShrinks DEF Steps, LogStep
<1>5. CASE led[s] = << >>
  BY <1>3, <1>4, <1>5 DEF Steps, LogStep, WinsAreComplete
<1>6. CASE led[s] # << >>
  <2>1. Holds(led[s], k, t)
    BY <1>1, <1>3, <1>4, <1>6 DEF LogInv, LeadersAreComplete
  <2>2. k \in 1 .. Len(led[s]) /\ led[s][k].term = t
    BY <2>1 DEF Holds
  <2>3. Len(led[s]) <= Len(led2[s]) /\ led2[s][k] = led[s][k]
    BY <1>1, <2>2 DEF Grows, Same
  <2>4. k \in 1 .. Len(led2[s])
    BY <1>2, <2>2, <2>3
  <2> QED
    BY <2>2, <2>3, <2>4 DEF Holds
<1> QED
  BY <1>5, <1>6

LEMMA CommitsAreChosenNext ==
  ASSUME NEW led, NEW acked, NEW led2, NEW acked2, Steps(led, acked, led2, acked2)
  PROVE  CommitsAreChosen(led2, acked2)'
<1> SUFFICES ASSUME NEW n \in Node, commit'[n] = commit[n]
             PROVE  CommitIsChosen(led2, acked2, n)'
  BY DEF CommitsAreChosen, Steps, LogStep
<1>1. /\ Past(led, acked) /\ Past(led2, acked2) /\ Grows(led, led2)
      /\ AcksGrow(acked, led2, acked2)
      /\ NodeTypeOK /\ NodeTypeOK' /\ LogBounds
  BY DEF Steps, LogInv, LogStep
<1>2. /\ commit[n] \in Nat /\ Len(log[n]) \in Nat /\ commit[n] <= Len(log[n])
      /\ term[n] \in Nat /\ term'[n] \in Nat /\ term[n] <= term'[n]
  BY <1>1 DEF NodeTypeOK, LogBounds, Steps, VoteStep
<1>3. Same(log'[n], log[n], commit[n])
  <2>1. CASE LogCut(led, led2, n)
    <3>1. PICK x \in Nat : commit[n] <= x /\ Same(log'[n], log[n], x)
      BY <2>1 DEF LogCut
    <3> QED
      BY <1>2, <3>1 DEF Same
  <2>2. CASE LogLed(led2, n)
    BY <1>2, <2>2 DEF LogLed, Same
  <2>3. CASE log'[n] = log[n]
    BY <2>3 DEF Same
  <2> QED
    BY <2>1, <2>2, <2>3 DEF Steps, LogStep
<1>4. CASE commit[n] = 0
  BY <1>4 DEF CommitIsChosen
<1>5. CASE commit[n] # 0
  <2>1. PICK t \in 0 .. term[n] : \E k \in 1 .. Len(led[t]) :
          /\ commit[n] <= k /\ Chosen(led, acked, k, t)
          /\ Same(log[n], led[t], commit[n])
    BY <1>5 DEF Steps, LogInv, CommitsAreChosen, CommitIsChosen
  <2>2. PICK k \in 1 .. Len(led[t]) :
          /\ commit[n] <= k /\ Chosen(led, acked, k, t)
          /\ Same(log[n], led[t], commit[n])
    BY <2>1
  <2>3. t \in Nat /\ t \in 0 .. term'[n]
    BY <1>2
  <2>4. Chosen(led2, acked2, k, t) /\ k \in 1 .. Len(led2[t])
    BY <1>1, <2>2, <2>3, ChosenStays
  <2>5. Same(log'[n], led2[t], commit[n])
    <3>1. Len(led[t]) \in Nat
      BY <1>1, <2>3, PastTypes
    <3>2. \A j \in 1 .. commit[n] : j \in 1 .. Len(led[t])
      BY <1>2, <2>2, <3>1
    <3>3. \A j \in 1 .. Len(led[t]) : led2[t][j] = led[t][j]
      BY <1>1, <2>3 DEF Grows, Same
    <3> QED
      BY <1>3, <2>2, <3>2, <3>3 DEF Same
  <2>6. /\ commit'[n] <= k /\ Chosen(led2, acked2, k, t)
        /\ Same(log'[n], led2[t], commit'[n])
    BY <2>2, <2>4, <2>5
  <2> QED
    BY <2>3, <2>4, <2>6 DEF CommitIsChosen, Chosen, Holds, IsMajority, Same
<1> QED
  BY <1>4, <1>5

LEMMA CoveredStays ==
  ASSUME NodeTypeOK', NEW led, NEW acked, NEW led2, NEW acked2,
         Past(led, acked), Past(led2, acked2), Grows(led, led2),
         AcksGrow(acked, led2, acked2),
         NEW c, NEW s \in Nat, Covered(led, acked, c, s)
  PROVE  Covered(led2, acked2, c, s)
<1>1. CASE c = 0
  BY <1>1 DEF Covered
<1>2. CASE c # 0
  <2>1. PICK t \in 0 .. s : \E k \in 1 .. Len(led[t]) : c <= k /\ Chosen(led, acked, k, t)
    BY <1>2 DEF Covered
  <2>2. PICK k \in 1 .. Len(led[t]) : c <= k /\ Chosen(led, acked, k, t)
    BY <2>1
  <2>3. Chosen(led2, acked2, k, t) /\ k \in 1 .. Len(led2[t])
    BY <2>2, ChosenStays
  <2> QED
    BY <2>2, <2>3 DEF Covered
<1> QED
  BY <1>1, <1>2

LEMMA MessageFields ==
  ASSUME NodeTypeOK, NEW m \in network
  PROVE  /\ m.from \in Node /\ m.to \in Node /\ m.term \in Nat
         /\ m.type = "Append" =>
              /\ m.prev \in Nat /\ m.prevTerm \in Nat /\ m.commit \in Nat
              /\ m.entries \in Seq(Entry) /\ Len(m.entries) <= 1
         /\ m.type = "AppendResponse" => m.index \in Nat
<1>1. m \in VoteRequest \cup VoteResponse \cup AppendRequest \cup AppendResponse
  BY DEF NodeTypeOK, Message
<1>2. CASE m \in VoteRequest
  BY <1>2 DEF VoteRequest
<1>3. CASE m \in VoteResponse
  BY <1>3 DEF VoteResponse
<1>4. CASE m \in AppendRequest
  BY <1>4 DEF AppendRequest
<1>5. CASE m \in AppendResponse
  BY <1>5 DEF AppendResponse
<1> QED
  BY <1>1, <1>2, <1>3, <1>4, <1>5

LEMMA MessagesAreTrueNext ==
  ASSUME NEW led, NEW acked, NEW led2, NEW acked2, Steps(led, acked, led2, acked2)
  PROVE  MessagesAreTrue(led2, acked2)'
<1> SUFFICES ASSUME NEW m \in network, m \in network'
             PROVE  MessageIsTrue(led2, acked2, m)'
  BY DEF MessagesAreTrue, Steps, LogStep
<1>1. /\ Past(led, acked) /\ Past(led2, acked2) /\ Grows(led, led2)
      /\ AcksGrow(acked, led2, acked2) /\ CandidatesWait
      /\ NodeTypeOK /\ NodeTypeOK'
  BY DEF Steps, LogInv, LogStep
<1>2. MessageIsTrue(led, acked, m)
  BY DEF Steps, LogInv, MessagesAreTrue
<1>3. /\ m.from \in Node /\ m.to \in Node /\ m.term \in Nat
      /\ m.type = "Append" => m.prev \in Nat /\ m.entries \in Seq(Entry)
      /\ m.type = "AppendResponse" => m.index \in Nat
  BY <1>1, MessageFields
<1>4. \A n \in Node : /\ term[n] \in Nat /\ term'[n] \in Nat
                      /\ term[n] <= term'[n]
  BY <1>1 DEF NodeTypeOK, Steps, VoteStep
<1>5. ASSUME m.type = "Append" PROVE AppendIsLed(led2, acked2, m)
  <2> DEFINE k == led[m.term]
             k2 == led2[m.term]
             x == m.prev
  <2>1. AppendIsLed(led, acked, m)
    BY <1>2, <1>5 DEF MessageIsTrue
  <2>2. /\ k \in Seq(Entry) /\ k2 \in Seq(Entry)
        /\ Len(k) \in Nat /\ Len(k2) \in Nat /\ Len(k) <= Len(k2)
        /\ \A j \in 1 .. Len(k) : k2[j] = k[j]
    BY <1>1, <1>3, PastTypes DEF Grows, Same
  <2>3. x \in Nat /\ x <= Len(k) /\ k # << >>
    BY <1>3, <1>5, <2>1 DEF AppendIsLed
  <2>4. TermAt(k2, x) = TermAt(k, x)
    BY <2>2, <2>3 DEF TermAt
  <2>5. x < Len(k) => k2[x + 1] = k[x + 1]
    BY <2>2, <2>3
  <2>6. Covered(led2, acked2, m.commit, m.term)
    BY <1>1, <1>3, <2>1, CoveredStays DEF AppendIsLed
  <2>7. Len(k) # 0
    BY <2>2, <2>3
  <2>8. k2 # << >> /\ x <= Len(k2) /\ (x < Len(k) => x < Len(k2))
    BY <2>2, <2>3, <2>7
  <2>9. m.prevTerm = TermAt(k, x)
    BY <2>1 DEF AppendIsLed
  <2>10. m.entries # << >> => x < Len(k) /\ m.entries[1] = k[x + 1]
    BY <2>1 DEF AppendIsLed
  <2> QED
    BY <2>4, <2>5, <2>6, <2>8, <2>9, <2>10 DEF AppendIsLed
<1>6. ASSUME m.type = "AppendResponse", ~m.reject
      PROVE  m.index <= acked2[m.from][m.term]
  <2>1. m.index <= acked[m.from][m.term]
    BY <1>2, <1>6 DEF MessageIsTrue
  <2>2. acked[m.from][m.term] \in Nat /\ acked2[m.from][m.term] \in Nat
    BY <1>1, <1>3, PastTypes
  <2>3. acked[m.from][m.term] <= acked2[m.from][m.term]
    BY <1>1, <1>3, <2>2 DEF AcksGrow
  <2> QED
    BY <1>3, <1>6, <2>1, <2>2, <2>3
<1>7. ASSUME m.type = "RequestVote"
      PROVE  /\ m.term <= term'[m.from]
             /\ role'[m.from] = "Candidate" /\ term'[m.from] = m.term =>
                  m.lastIndex = Len(log'[m.from]) /\ m.lastTerm = LastTerm(log'[m.from])
  <2>1. /\ m.term <= term[m.from]
        /\ role[m.from] = "Candidate" /\ term[m.from] = m.term =>
             m.lastIndex = Len(log[m.from]) /\ m.lastTerm = LastTerm(log[m.from])
    BY <1>2, <1>7 DEF MessageIsTrue
  <2>2. role'[m.from] = "Candidate" =>
          /\ log'[m.from] = log[m.from]
          /\ \/ role[m.from] = "Candidate" /\ term'[m.from] = term[m.from]
             \/ term'[m.from] = term[m.from] + 1
    BY <1>1, <1>3 DEF CandidatesWait
  <2> QED
    BY <1>3, <1>4, <2>1, <2>2
<1>8. ASSUME m.type = "Vote" PROVE m.term <= term'[m.to]
  <2>1. m.term <= term[m.to]
    BY <1>2, <1>8 DEF MessageIsTrue
  <2> QED
    BY <1>3, <1>4, <2>1
<1> QED
  BY <1>5, <1>6, <1>7, <1>8 DEF MessageIsTrue, LastTerm, TermAt

\* The invariant after the step.
LEMMA LogInvNext ==
  ASSUME NEW led, NEW acked, NEW led2, NEW acked2, Steps(led, acked, led2, acked2)
  PROVE  LogInv(led2, acked2)'
<1>1. Past(led2, acked2) /\ LedLogs(led2) /\ LeadersKnow(led2, acked2)'
  BY DEF Steps, LogStep
<1>2. TermsAreWon(led2)' /\ NodeLogs(led2)' /\ AcksInRange(led2, acked2)
  BY TermsAreWonNext, NodeLogsNext, AcksInRangeNext
<1>3. AcksAreKept(led2, acked2)' /\ VotesAreSafe(led2, acked2)'
  BY AcksAreKeptNext, VotesAreSafeNext
<1>4. LeadersAreComplete(led2, acked2)' /\ CommitsAreChosen(led2, acked2)'
  BY LeadersAreCompleteNext, CommitsAreChosenNext
<1>5. MessagesAreTrue(led2, acked2)'
  BY MessagesAreTrueNext
<1>6. Past(led2, acked2)' /\ LedLogs(led2)' /\ AcksInRange(led2, acked2)'
  BY <1>1, <1>2 DEF Past, LedLogs, Fits, Same, AcksInRange
<1> QED
  BY <1>1, <1>2, <1>3, <1>4, <1>5, <1>6 DEF LogInv

-----------------------------------------------------------------------------
(* The actions, one at a time: each step of a node is a LogStep.           *)

Known(led, acked) ==
  /\ NodeTypeOK /\ NodeTypeOK' /\ LogBounds
  /\ BackingIsKept /\ BackingIsUnique /\ LeaderHasMajority /\ ElectionSafety
  /\ VoteStep
  /\ LogInv(led, acked)

\* What is not n's stays.
OthersStay(n) ==
  \A a \in Node \ {n} :
    /\ role'[a] = role[a] /\ term'[a] = term[a] /\ log'[a] = log[a]
    /\ commit'[a] = commit[a] /\ next'[a] = next[a] /\ match'[a] = match[a]

\* A candidate waits, a leader goes on leading.
RoleStep(n) ==
  /\ role'[n] = "Candidate" =>
       /\ log'[n] = log[n]
       /\ (role[n] = "Candidate" /\ term'[n] = term[n]) \/ term'[n] = term[n] + 1
  /\ role[n] = "Leader" /\ term'[n] = term[n] => role'[n] = "Leader"

NewMessagesAreTrue(led2, acked2) ==
  \A m \in network' : m \in network \/ MessageIsTrue(led2, acked2, m)'

LEMMA RoleSteps ==
  ASSUME NodeTypeOK, NEW n \in Node, OthersStay(n), RoleStep(n)
  PROVE  CandidatesWait /\ LeadersStay
<1>1. ASSUME NEW a \in Node, role'[a] = "Candidate"
      PROVE  /\ log'[a] = log[a]
             /\ (role[a] = "Candidate" /\ term'[a] = term[a]) \/ term'[a] = term[a] + 1
  BY <1>1 DEF OthersStay, RoleStep
<1>2. ASSUME NEW a \in Node, role[a] = "Leader", term'[a] = term[a]
      PROVE  role'[a] = "Leader"
  BY <1>2 DEF OthersStay, RoleStep
<1> QED
  BY <1>1, <1>2 DEF CandidatesWait, LeadersStay

\* What a leader knows it still knows when its own log, its peers' indexes and
\* the past of its term are as they were.
LEMMA LeaderStillKnows ==
  ASSUME NodeTypeOK, NEW led, NEW acked, NEW led2, NEW acked2,
         Past(led, acked), Past(led2, acked2), AcksGrow(acked, led2, acked2),
         NEW a \in Node, LeaderKnows(led, acked, a),
         term'[a] = term[a], log'[a] = log[a], next'[a] = next[a], match'[a] = match[a],
         acked2[a] = acked[a], led2[term[a]] = led[term[a]]
  PROVE  LeaderKnows(led2, acked2, a)'
<1>1. term[a] \in Nat
  BY DEF NodeTypeOK
<1>2. ASSUME NEW p \in Node
      PROVE  next'[a][p] <= Len(log'[a]) + 1 /\ match'[a][p] <= acked2[p][term'[a]]
  <2>1. next[a][p] <= Len(log[a]) + 1 /\ match[a][p] <= acked[p][term[a]]
    BY DEF LeaderKnows
  <2>2. acked[p][term[a]] \in Nat /\ acked2[p][term[a]] \in Nat
    BY <1>1, PastTypes
  <2>3. acked[p][term[a]] <= acked2[p][term[a]]
    BY <1>1, <2>2 DEF AcksGrow
  <2>4. match[a][p] \in Nat
    BY DEF NodeTypeOK
  <2> QED
    BY <2>1, <2>2, <2>3, <2>4
<1>3. /\ log'[a] = led2[term'[a]] /\ log'[a] # << >>
      /\ acked2[a][term'[a]] = Len(log'[a])
  BY DEF LeaderKnows
<1> QED
  BY <1>2, <1>3 DEF LeaderKnows

\* The parts of a LogStep that come from one node.
LEMMA NodeStep ==
  ASSUME NEW led, NEW acked, NEW led2, NEW acked2, Known(led, acked),
         Past(led2, acked2), LedLogs(led2), Grows(led, led2),
         AcksGrow(acked, led2, acked2),
         NEW n \in Node, OthersStay(n), RoleStep(n),
         \A a \in Node \ {n} :
           /\ acked2[a] = acked[a]
           /\ role[a] = "Leader" => led2[term[a]] = led[term[a]],
         log'[n] = log[n] \/ LogCut(led, led2, n) \/ LogLed(led2, n),
         role'[n] = "Leader" => LeaderKnows(led2, acked2, n)',
         commit'[n] = commit[n] \/ CommitIsChosen(led2, acked2, n)',
         NewMessagesAreTrue(led2, acked2),
         WinsAreComplete(led, acked, led2), LedByLeaders(led, led2)
  PROVE  LogStep(led, acked, led2, acked2)
<1>1. CandidatesWait /\ LeadersStay
  BY RoleSteps DEF Known
<1>2. LeadersKnow(led2, acked2)'
  <2>1. ASSUME NEW a \in Node \ {n}, role'[a] = "Leader"
        PROVE  LeaderKnows(led2, acked2, a)'
    <3>1. /\ role[a] = "Leader"
          /\ term'[a] = term[a] /\ log'[a] = log[a]
          /\ next'[a] = next[a] /\ match'[a] = match[a]
      BY <2>1 DEF OthersStay
    <3>2. LeaderKnows(led, acked, a)
      BY <3>1 DEF Known, LogInv, LeadersKnow
    <3>3. NodeTypeOK /\ Past(led, acked)
      BY DEF Known, LogInv
    <3> QED
      BY <3>1, <3>2, <3>3, LeaderStillKnows
  <2>2. ASSUME NEW a \in Node, role'[a] = "Leader"
        PROVE  LeaderKnows(led2, acked2, a)'
    <3>1. CASE a = n
      BY <2>2, <3>1
    <3>2. CASE a # n
      BY <2>1, <2>2, <3>2
    <3> QED
      BY <3>1, <3>2
  <2> QED
    BY <2>2 DEF LeadersKnow
<1>3. \A a \in Node : log'[a] = log[a] \/ LogCut(led, led2, a) \/ LogLed(led2, a)
  BY DEF OthersStay
<1>4. \A a \in Node : commit'[a] = commit[a] \/ CommitIsChosen(led2, acked2, a)'
  BY DEF OthersStay
<1> QED
  BY <1>1, <1>2, <1>3, <1>4 DEF LogStep, NewMessagesAreTrue

\* A step that changes neither logs nor what is acknowledged.
LEMMA QuietStep ==
  ASSUME NEW led, NEW acked, Known(led, acked),
         NEW n \in Node, OthersStay(n), RoleStep(n),
         log'[n] = log[n], commit'[n] = commit[n],
         role'[n] = "Leader" => LeaderKnows(led, acked, n)',
         NewMessagesAreTrue(led, acked)
  PROVE  LogStep(led, acked, led, acked)
<1>1. Past(led, acked) /\ LedLogs(led)
  BY DEF Known, LogInv
<1>2. Grows(led, led) /\ WinsAreComplete(led, acked, led)
  BY <1>1, PastTypes DEF Grows, Same, WinsAreComplete
<1>3. AcksGrow(acked, led, acked) /\ LedByLeaders(led, led)
  BY DEF AcksGrow, LedByLeaders
<1> QED
  BY <1>1, <1>2, <1>3, NodeStep

-----------------------------------------------------------------------------
(* What a leader sends is true.                                            *)

LEMMA CommitIsCovered ==
  ASSUME NEW led, NEW acked, NEW n \in Node, CommitIsChosen(led, acked, n)
  PROVE  Covered(led, acked, commit[n], term[n])
  BY DEF CommitIsChosen, Covered

LEMMA AppendMessageIsLed ==
  ASSUME NEW led, NEW acked, NEW n, NEW p, NEW t \in Nat, NEW l \in Seq(Entry),
         NEW x \in Nat \ {0}, NEW c,
         l = led[t], l # << >>, x <= Len(l) + 1, Covered(led, acked, c, t)
  PROVE  AppendIsLed(led, acked, AppendMessage(n, p, t, l, x, c))
<1> DEFINE m == AppendMessage(n, p, t, l, x, c)
<1>1. /\ m.term = t /\ m.prev = x - 1 /\ m.prevTerm = TermAt(l, x - 1) /\ m.commit = c
      /\ m.entries = IF x <= Len(l) THEN <<l[x]>> ELSE << >>
  BY DEF AppendMessage
<1> HIDE DEF m
<1>2. Len(l) \in Nat
  BY LogLen
<1>3. m.prev <= Len(l) /\ m.prev + 1 = x
  BY <1>1, <1>2
<1>4. ASSUME m.entries # << >>
      PROVE  m.prev < Len(l) /\ m.entries[1] = l[m.prev + 1]
  <2>1. x <= Len(l) /\ m.entries = <<l[x]>>
    BY <1>1, <1>4
  <2>2. m.entries[1] = l[x]
    BY <2>1
  <2> QED
    BY <1>1, <1>2, <1>3, <2>1, <2>2
<1>5. AppendIsLed(led, acked, m)
  BY <1>1, <1>3, <1>4 DEF AppendIsLed
<1> QED
  BY <1>5 DEF m

LEMMA LeaderAppends ==
  ASSUME NodeTypeOK', NEW led, NEW acked, NEW n \in Node,
         LeaderKnows(led, acked, n)', Covered(led, acked, commit'[n], term'[n]),
         NEW p \in Node
  PROVE  /\ AppendTo(n, p)'.type = "Append"
         /\ AppendIsLed(led, acked, AppendTo(n, p)')
<1>1. /\ term'[n] \in Nat /\ log'[n] \in Seq(Entry) /\ next'[n][p] \in Nat \ {0}
  BY DEF NodeTypeOK
<1>2. /\ log'[n] = led[term'[n]] /\ log'[n] # << >> /\ next'[n][p] <= Len(log'[n]) + 1
  BY DEF LeaderKnows
<1>3. AppendIsLed(led, acked,
        AppendMessage(n, p, term'[n], log'[n], next'[n][p], commit'[n]))
  BY <1>1, <1>2, AppendMessageIsLed
<1> QED
  BY <1>3 DEF AppendTo, AppendMessage

\* The messages of a step that only sends appends of leader n.
LEMMA AppendsAreTrue ==
  ASSUME NodeTypeOK', NEW led, NEW acked, NEW n \in Node,
         LeaderKnows(led, acked, n)', Covered(led, acked, commit'[n], term'[n]),
         \A m \in network' : m \in network \/ \E p \in Node : m = AppendTo(n, p)'
  PROVE  NewMessagesAreTrue(led, acked)
<1> SUFFICES ASSUME NEW m \in network', m \notin network
             PROVE  MessageIsTrue(led, acked, m)'
  BY DEF NewMessagesAreTrue
<1>1. PICK p \in Node : m = AppendTo(n, p)'
  OBVIOUS
<1>2. m.type = "Append" /\ AppendIsLed(led, acked, m)
  BY <1>1, LeaderAppends
<1> QED
  BY <1>2 DEF MessageIsTrue, AppendIsLed, Covered, Chosen, Holds, IsMajority

-----------------------------------------------------------------------------
(* The steps that change no log.                                           *)

LEMMA HupLog ==
  ASSUME NEW led, NEW acked, Known(led, acked), NEW n \in Node, Hup(n)
  PROVE  LogStep(led, acked, led, acked)
<1>1. NodeTypeOK /\ NodeTypeOK'
  BY DEF Known
<1>2. /\ role[n] # "Leader" /\ role'[n] = "Candidate" /\ term'[n] = term[n] + 1
      /\ log' = log /\ commit' = commit /\ next' = next /\ match' = match
      /\ \A a \in Node \ {n} : role'[a] = role[a] /\ term'[a] = term[a]
  BY <1>1 DEF Hup, NodeTypeOK, logVars, progressVars
<1>3. OthersStay(n) /\ RoleStep(n)
  BY <1>2 DEF OthersStay, RoleStep
<1>4. NewMessagesAreTrue(led, acked)
  <2> SUFFICES ASSUME NEW m \in network', m \notin network
               PROVE  MessageIsTrue(led, acked, m)'
    BY DEF NewMessagesAreTrue
  <2>1. /\ m.type = "RequestVote" /\ m.from = n /\ m.term = term[n] + 1
        /\ m.lastIndex = Len(log[n]) /\ m.lastTerm = LastTerm(log[n])
    BY DEF Hup
  <2>2. m.term <= term'[n]
    BY <1>1, <1>2, <2>1 DEF NodeTypeOK
  <2> QED
    BY <1>2, <2>1, <2>2 DEF MessageIsTrue
<1> QED
  BY <1>2, <1>3, <1>4, QuietStep

\* A node that gives up, or gives its vote or refuses it.
LEMMA FollowLog ==
  ASSUME NEW led, NEW acked, Known(led, acked), NEW n \in Node,
         UNCHANGED <<log, commit>>,
         \A a \in Node \ {n} : /\ role'[a] = role[a] /\ term'[a] = term[a]
                               /\ next'[a] = next[a] /\ match'[a] = match[a],
         \/ /\ role'[n] = "Follower"
            /\ role[n] = "Leader" => term'[n] # term[n]
         \/ /\ role'[n] = role[n] /\ term'[n] = term[n]
            /\ next'[n] = next[n] /\ match'[n] = match[n],
         NewMessagesAreTrue(led, acked)
  PROVE  LogStep(led, acked, led, acked)
<1>1. OthersStay(n) /\ RoleStep(n)
  BY DEF OthersStay, RoleStep
<1>2. ASSUME role'[n] = "Leader" PROVE LeaderKnows(led, acked, n)'
  BY <1>2 DEF Known, LogInv, LeadersKnow, LeaderKnows
<1> QED
  BY <1>1, <1>2, QuietStep

\* An answer carries the term of its request, which the asker has entered.
LEMMA GrantVoteLog ==
  ASSUME NEW led, NEW acked, Known(led, acked), NEW n \in Node, NEW m \in network,
         GrantVote(n, m) \/ DenyVote(n, m)
  PROVE  LogStep(led, acked, led, acked)
<1>1. NodeTypeOK /\ NodeTypeOK' /\ VoteStep /\ MessagesAreTrue(led, acked)
  BY DEF Known, LogInv
<1>2. m.from \in Node /\ m.term \in Nat /\ m.type = "RequestVote"
  BY <1>1, MessageFields DEF GrantVote, DenyVote
<1>3. UNCHANGED <<log, commit>>
  BY DEF GrantVote, DenyVote, logVars
<1>4. \A a \in Node \ {n} : /\ role'[a] = role[a] /\ term'[a] = term[a]
                            /\ next'[a] = next[a] /\ match'[a] = match[a]
  <2>1. \/ UNCHANGED <<role, next, match>>
        \/ /\ role' = [role EXCEPT ![n] = "Follower"]
           /\ match' = [match EXCEPT ![n] = [p \in Node |-> 0]]
           /\ next' = [next EXCEPT ![n] = [p \in Node |-> 1]]
    BY DEF GrantVote, DenyVote, Follow, electionVars, progressVars
  <2>2. term' = term \/ term' = [term EXCEPT ![n] = m.term]
    BY DEF GrantVote, DenyVote, Follow, electionVars
  <2>3. /\ role \in [Node -> Role] /\ term \in [Node -> Nat]
        /\ match \in [Node -> [Node -> Nat]] /\ next \in [Node -> [Node -> Nat \ {0}]]
    BY <1>1 DEF NodeTypeOK
  <2>4. \A a \in Node \ {n} : term'[a] = term[a]
    BY <2>2, <2>3
  <2>5. \A a \in Node \ {n} : role'[a] = role[a] /\ match'[a] = match[a]
    BY <2>1, <2>3
  <2>6. \A a \in Node \ {n} : next'[a] = next[a]
    BY <2>1, <2>3
  <2> QED
    BY <2>4, <2>5, <2>6
<1>5. \/ role'[n] = "Follower" /\ term'[n] # term[n]
      \/ /\ role'[n] = role[n] /\ term'[n] = term[n]
         /\ next'[n] = next[n] /\ match'[n] = match[n]
  <2>1. CASE m.term > term[n]
    <3>1. /\ role' = [role EXCEPT ![n] = "Follower"]
          /\ term' = [term EXCEPT ![n] = m.term]
      BY <2>1 DEF GrantVote, DenyVote, Follow
    <3>2. role'[n] = "Follower" /\ term'[n] = m.term /\ term[n] \in Nat
      BY <1>1, <3>1 DEF NodeTypeOK
    <3> QED
      BY <1>2, <2>1, <3>2
  <2>2. CASE ~(m.term > term[n])
    <3>1. m.term = term[n]
      <4>1. m.term >= term[n] /\ term[n] \in Nat
        BY <1>1 DEF GrantVote, DenyVote, NodeTypeOK
      <4> QED
        BY <1>2, <2>2, <4>1
    <3>2. role' = role /\ next' = next /\ match' = match
      BY <2>2 DEF GrantVote, DenyVote, electionVars, progressVars
    <3>3. term'[n] = term[n]
      BY <1>1, <2>2, <3>1 DEF GrantVote, DenyVote, electionVars, NodeTypeOK
    <3> QED
      BY <3>2, <3>3
  <2> QED
    BY <2>1, <2>2
<1>6. NewMessagesAreTrue(led, acked)
  <2> SUFFICES ASSUME NEW g \in network', g \notin network
               PROVE  MessageIsTrue(led, acked, g)'
    BY DEF NewMessagesAreTrue
  <2>1. g.type = "Vote" /\ g.to = m.from /\ g.term = m.term
    BY DEF GrantVote, DenyVote, VoteFor
  <2>2. m.term <= term[m.from]
    BY <1>1, <1>2 DEF MessagesAreTrue, MessageIsTrue
  <2>3. /\ term[m.from] <= term'[m.from]
        /\ term[m.from] \in Nat /\ term'[m.from] \in Nat
    BY <1>1, <1>2 DEF VoteStep, NodeTypeOK
  <2>4. g.term <= term'[g.to]
    BY <1>2, <2>1, <2>2, <2>3
  <2> QED
    BY <2>1, <2>4 DEF MessageIsTrue
<1> QED
  BY <1>3, <1>4, <1>5, <1>6, FollowLog

LEMMA CountVoteLog ==
  ASSUME NEW led, NEW acked, Known(led, acked), NEW n \in Node, NEW m \in network,
         CountVote(n, m) \/ LoseElection(n, m) \/ Ignore(n, m)
  PROVE  LogStep(led, acked, led, acked)
<1>1. NodeTypeOK /\ term[n] \in Nat
  BY DEF Known, NodeTypeOK
<1>2. UNCHANGED <<log, commit>> /\ network' = network \ {m}
  BY DEF CountVote, LoseElection, Ignore, logVars
<1>3. NewMessagesAreTrue(led, acked)
  BY <1>2 DEF NewMessagesAreTrue
<1>4. CASE CountVote(n, m) \/ Ignore(n, m)
  <2>1. UNCHANGED <<role, term, next, match>>
    BY <1>4 DEF CountVote, Ignore, electionVars, progressVars
  <2> QED
    BY <1>2, <1>3, <2>1, FollowLog
<1>5. CASE LoseElection(n, m)
  <2>1. Follow(n, term[n], None) /\ role[n] = "Candidate"
    BY <1>5 DEF LoseElection
  <2>2. \A a \in Node \ {n} : /\ role'[a] = role[a] /\ term'[a] = term[a]
                              /\ next'[a] = next[a] /\ match'[a] = match[a]
    BY <1>1, <2>1 DEF Follow, NodeTypeOK
  <2>3. role'[n] = "Follower" /\ role[n] # "Leader"
    BY <1>1, <2>1 DEF Follow, NodeTypeOK
  <2> QED
    BY <1>2, <1>3, <2>2, <2>3, FollowLog
<1> QED
  BY <1>4, <1>5

\* Following the sender of an append.
LEMMA SenderFollowed ==
  ASSUME NodeTypeOK, NEW n \in Node, NEW m \in network, FollowSender(n, m)
  PROVE  /\ role'[n] = "Follower" /\ term'[n] = m.term
         /\ role[n] = "Leader" => term'[n] # term[n]
         /\ \A a \in Node \ {n} : /\ role'[a] = role[a] /\ term'[a] = term[a]
                                  /\ next'[a] = next[a] /\ match'[a] = match[a]
<1>1. Follow(n, m.term, m.from) /\ (m.term = term[n] => role[n] # "Leader")
  BY DEF FollowSender
<1>2. role'[n] = "Follower" /\ term'[n] = m.term
  BY <1>1 DEF Follow, NodeTypeOK
<1>3. \A a \in Node \ {n} : /\ role'[a] = role[a] /\ term'[a] = term[a]
                            /\ next'[a] = next[a] /\ match'[a] = match[a]
  BY <1>1 DEF Follow, NodeTypeOK
<1> QED
  BY <1>1, <1>2, <1>3

LEMMA AppendRejectLog ==
  ASSUME NEW led, NEW acked, Known(led, acked), NEW n \in Node, NEW m \in network,
         AppendReject(n, m)
  PROVE  LogStep(led, acked, led, acked)
<1>1. NodeTypeOK /\ FollowSender(n, m) /\ UNCHANGED <<log, commit>>
  BY DEF Known, AppendReject, logVars
<1>2. NewMessagesAreTrue(led, acked)
  <2> SUFFICES ASSUME NEW g \in network', g \notin network
               PROVE  MessageIsTrue(led, acked, g)'
    BY DEF NewMessagesAreTrue
  <2>1. g.type = "AppendResponse" /\ g.reject
    BY DEF AppendReject, AppendReply
  <2> QED
    BY <2>1 DEF MessageIsTrue
<1> QED
  BY <1>1, <1>2, SenderFollowed, FollowLog

\* A leader that sends what it has, from an index it has not passed.
LEMMA LeaderSends ==
  ASSUME NEW led, NEW acked, Known(led, acked), NEW n \in Node, role[n] = "Leader",
         UNCHANGED <<role, term, log, commit, match>>,
         \A a \in Node \ {n} : next'[a] = next[a],
         \A p \in Node : next'[n][p] <= next[n][p],
         \A m \in network' : m \in network \/ \E p \in Node : m = AppendTo(n, p)'
  PROVE  LogStep(led, acked, led, acked)
<1>1. NodeTypeOK /\ NodeTypeOK' /\ LogInv(led, acked)
  BY DEF Known
<1>2. LeaderKnows(led, acked, n)
  BY <1>1 DEF LogInv, LeadersKnow
<1>3. LeaderKnows(led, acked, n)'
  <2>1. ASSUME NEW p \in Node
        PROVE  next'[n][p] <= Len(log[n]) + 1
    <3>1. next'[n][p] \in Nat /\ next[n][p] \in Nat /\ Len(log[n]) \in Nat
      BY <1>1 DEF NodeTypeOK
    <3>2. next[n][p] <= Len(log[n]) + 1 /\ next'[n][p] <= next[n][p]
      BY <1>2 DEF LeaderKnows
    <3> QED
      BY <3>1, <3>2
  <2> QED
    BY <1>2, <2>1 DEF LeaderKnows
<1>4. Covered(led, acked, commit[n], term[n])
  BY <1>1, CommitIsCovered DEF LogInv, CommitsAreChosen
<1>5. NewMessagesAreTrue(led, acked)
  BY <1>1, <1>3, <1>4, AppendsAreTrue
<1>6. OthersStay(n) /\ RoleStep(n)
  BY DEF OthersStay, RoleStep
<1> QED
  BY <1>3, <1>5, <1>6, QuietStep

LEMMA HeartbeatLog ==
  ASSUME NEW led, NEW acked, Known(led, acked), NEW n \in Node, HeartbeatTick(n)
  PROVE  LogStep(led, acked, led, acked)
<1>1. /\ role[n] = "Leader" /\ UNCHANGED <<role, term, log, commit, match, next>>
      /\ network' = network \cup Appends(n)
  BY DEF HeartbeatTick, electionVars, logVars, progressVars
<1>2. \A p \in Node : AppendTo(n, p)' = AppendTo(n, p)
  BY <1>1 DEF AppendTo
<1>3. \A m \in network' : m \in network \/ \E p \in Node : m = AppendTo(n, p)'
  BY <1>1, <1>2 DEF Appends
<1>4. \A p \in Node : next'[n][p] <= next[n][p]
  BY <1>1 DEF Known, NodeTypeOK
<1> QED
  BY <1>1, <1>3, <1>4, LeaderSends

LEMMA HandleRejectedLog ==
  ASSUME NEW led, NEW acked, Known(led, acked), NEW n \in Node, NEW m \in network,
         HandleRejected(n, m)
  PROVE  LogStep(led, acked, led, acked)
<1> DEFINE y == Larger(1, Smaller(m.index, m.hint + 1))
<1>1. NodeTypeOK /\ LeaderHears(n, m)
  BY DEF Known, HandleRejected
<1>2. m.from \in Node /\ m.index \in Nat /\ m.hint \in Nat
  BY <1>1, LeaderHearsType
<1>3. /\ role[n] = "Leader" /\ UNCHANGED <<role, term, log, commit, match>>
      /\ next' = [next EXCEPT ![n][m.from] = y] /\ m.index = next[n][m.from] - 1
      /\ network' = (network \ {m}) \cup {AppendTo(n, m.from)'}
  BY DEF HandleRejected, LeaderHears, electionVars, logVars
<1>4. next \in [Node -> [Node -> Nat \ {0}]]
  BY <1>1 DEF NodeTypeOK
<1>5. y <= next[n][m.from]
  <2>1. next[n][m.from] \in Nat \ {0}
    BY <1>2, <1>4
  <2> QED
    BY <1>2, <1>3, <2>1 DEF Larger, Smaller
<1> HIDE DEF y
<1>6. \A a \in Node \ {n} : next'[a] = next[a]
  BY <1>3, <1>4
<1>7. \A p \in Node : next'[n][p] = IF p = m.from THEN y ELSE next[n][p]
  BY <1>2, <1>3, <1>4
<1>8. \A p \in Node : next'[n][p] <= next[n][p]
  BY <1>4, <1>5, <1>7
<1>9. \A g \in network' : g \in network \/ \E p \in Node : g = AppendTo(n, p)'
  BY <1>2, <1>3
<1> QED
  BY <1>3, <1>6, <1>8, <1>9, LeaderSends

-----------------------------------------------------------------------------
(* The steps of a follower that acknowledges.                              *)

LEMMA LargerBounds ==
  ASSUME NEW i \in Nat, NEW j \in Nat
  PROVE  /\ Larger(i, j) \in Nat /\ i <= Larger(i, j) /\ j <= Larger(i, j)
         /\ Larger(i, j) = i \/ Larger(i, j) = j
  BY DEF Larger

\* Two logs with an entry of the same term at i are the same up to i.
LEMMA Agree ==
  ASSUME NEW led, NEW l, NEW k, NEW t, NEW s, Fits(led, l, t), Fits(led, k, s),
         NEW i, i \in 1 .. Len(l), i \in 1 .. Len(k), l[i].term = k[i].term
  PROVE  Same(l, k, i)
<1>1. Same(l, led[l[i].term], i) /\ Same(k, led[l[i].term], i)
  BY DEF Fits
<1> QED
  BY <1>1 DEF Same

\* What is committed for term s is in the log its leader has in term s.
LEMMA CoveredIsLed ==
  ASSUME NEW led, NEW acked, Past(led, acked), LedLogs(led),
         LeadersAreComplete(led, acked),
         NEW t \in Nat, NEW s \in Nat, t <= s, led[s] # << >>,
         NEW k \in 1 .. Len(led[t]), Chosen(led, acked, k, t),
         NEW c \in Nat, c <= k
  PROVE  c <= Len(led[s]) /\ Same(led[s], led[t], c)
<1>1. Holds(led[s], k, t) /\ Same(led[s], led[t], k)
  BY ChosenIsSafe, LedHasSafe
<1>2. Len(led[s]) \in Nat /\ k \in Nat
  BY PastTypes
<1>3. c <= Len(led[s])
  BY <1>1, <1>2 DEF Holds
<1>4. \A j \in 1 .. c : j \in 1 .. k
  BY <1>2
<1> QED
  BY <1>1, <1>3, <1>4 DEF Same

\* n acknowledges the log it has up to y, and may commit part of it.
LEMMA AckStep ==
  ASSUME NEW led, NEW acked, Known(led, acked), NEW n \in Node, NEW m \in network,
         FollowSender(n, m),
         \A a \in Node \ {n} : log'[a] = log[a] /\ commit'[a] = commit[a],
         log'[n] = log[n] \/ LogCut(led, led, n),
         NEW y \in Nat, y <= Len(led[m.term]), y <= Len(log'[n]),
         Same(log'[n], led[m.term], y),
         \/ commit'[n] = commit[n]
         \/ commit'[n] <= y /\ Covered(led, acked, commit'[n], m.term),
         network' = (network \ {m}) \cup {AppendReply(n, m, FALSE, y, 0)}
  PROVE  \E acked2 : LogStep(led, acked, led, acked2)
<1> DEFINE T == m.term
           z == Larger(acked[n][T], y)
<1>1. /\ NodeTypeOK /\ NodeTypeOK' /\ LogInv(led, acked) /\ Past(led, acked)
      /\ LedLogs(led) /\ m.type = "Append" /\ T \in Nat /\ m.from \in Node
  BY MessageFields DEF Known, LogInv, FollowSender
<1>2. /\ acked \in [Node -> [Nat -> Nat]] /\ acked[n] \in [Nat -> Nat]
      /\ acked[n][T] \in Nat
  BY <1>1 DEF Past
<1>3. z \in Nat /\ acked[n][T] <= z /\ y <= z /\ (z = acked[n][T] \/ z = y)
  BY <1>2, LargerBounds
<1> HIDE DEF z
<1>4. PICK row \in [Nat -> Nat] : row = [acked[n] EXCEPT ![T] = z]
  BY <1>1, <1>2, <1>3
<1>5. PICK acked2 \in [Node -> [Nat -> Nat]] : acked2 = [acked EXCEPT ![n] = row]
  BY <1>2, <1>4
<1>6. /\ \A a \in Node \ {n} : acked2[a] = acked[a]
      /\ \A t \in Nat : acked2[n][t] = IF t = T THEN z ELSE acked[n][t]
  BY <1>1, <1>2, <1>4, <1>5
<1>7. /\ role'[n] = "Follower" /\ term'[n] = T
      /\ OthersStay(n) /\ RoleStep(n)
  BY <1>1, SenderFollowed DEF OthersStay, RoleStep
<1>8. Past(led, acked2) /\ Grows(led, led) /\ WinsAreComplete(led, acked, led)
  <2>1. Past(led, acked2)
    BY <1>1, <1>5 DEF Past
  <2>2. Grows(led, led)
    BY <1>1, PastTypes DEF Grows, Same
  <2> QED
    BY <2>1, <2>2 DEF WinsAreComplete
<1>9. AcksGrow(acked, led, acked2)
  <2> SUFFICES ASSUME NEW v \in Node, NEW t \in Nat
               PROVE  \/ acked2[v][t] = acked[v][t]
                      \/ /\ t = term'[v] /\ acked[v][t] <= acked2[v][t]
                         /\ acked2[v][t] <= Len(led[t])
                         /\ acked2[v][t] <= Len(log'[v])
                         /\ Same(log'[v], led[t], acked2[v][t])
    BY DEF AcksGrow
  <2>1. CASE v = n /\ t = T /\ z = y
    <3>1. acked2[v][t] = y /\ acked[v][t] <= y /\ t = term'[v]
      BY <1>3, <1>6, <1>7, <2>1
    <3>2. y <= Len(led[t]) /\ y <= Len(log'[v]) /\ Same(log'[v], led[t], y)
      BY <2>1
    <3> QED
      BY <3>1, <3>2
  <2>2. CASE v = n /\ t = T /\ z = acked[n][T]
    BY <1>6, <2>2
  <2>3. CASE v # n \/ t # T
    BY <1>6, <2>3
  <2> QED
    BY <1>3, <2>1, <2>2, <2>3
<1>10. commit'[n] = commit[n] \/ CommitIsChosen(led, acked2, n)'
  <2> SUFFICES ASSUME commit'[n] <= y, Covered(led, acked, commit'[n], T)
               PROVE  CommitIsChosen(led, acked2, n)'
    OBVIOUS
  <2>1. CASE commit'[n] = 0
    BY <2>1 DEF CommitIsChosen
  <2>2. CASE commit'[n] # 0
    <3>1. PICK t \in 0 .. T : \E k \in 1 .. Len(led[t]) :
            commit'[n] <= k /\ Chosen(led, acked, k, t)
      BY <2>2 DEF Covered
    <3>2. PICK k \in 1 .. Len(led[t]) : commit'[n] <= k /\ Chosen(led, acked, k, t)
      BY <3>1
    <3>3. t \in Nat /\ t <= T /\ commit'[n] \in Nat
      BY <1>1 DEF NodeTypeOK
    <3>4. led[T] # << >>
      BY <1>1 DEF LogInv, MessagesAreTrue, MessageIsTrue, AppendIsLed
    <3>5. Same(led[T], led[t], commit'[n])
      BY <1>1, <3>2, <3>3, <3>4, CoveredIsLed DEF LogInv
    <3>6. \A j \in 1 .. commit'[n] : j \in 1 .. y
      BY <3>3, Within
    <3>7. Same(log'[n], led[t], commit'[n])
      BY <3>5, <3>6 DEF Same
    <3>8. Chosen(led, acked2, k, t)
      BY <1>1, <1>8, <1>9, <3>2, <3>3, ChosenStays
    <3>9. t \in 0 .. term'[n]
      BY <1>7
    <3> QED
      BY <3>2, <3>7, <3>8, <3>9 DEF CommitIsChosen, Chosen, Holds, IsMajority, Same
  <2> QED
    BY <2>1, <2>2
<1>11. NewMessagesAreTrue(led, acked2)
  <2> SUFFICES ASSUME NEW g \in network', g \notin network
               PROVE  MessageIsTrue(led, acked2, g)'
    BY DEF NewMessagesAreTrue
  <2>0. g = AppendReply(n, m, FALSE, y, 0)
    OBVIOUS
  <2>1. /\ g.type = "AppendResponse" /\ g.from = n /\ g.term = T /\ g.index = y
    BY <2>0 DEF AppendReply
  <2>2. g.index <= acked2[g.from][g.term]
    BY <1>1, <1>3, <1>6, <2>1
  <2> QED
    BY <2>1, <2>2 DEF MessageIsTrue
<1>12. LedByLeaders(led, led)
  BY DEF LedByLeaders
<1>13. LogStep(led, acked, led, acked2)
  BY <1>1, <1>6, <1>7, <1>8, <1>9, <1>10, <1>11, <1>12, NodeStep
<1> QED
  BY <1>13

LEMMA AppendBelowCommitLog ==
  ASSUME NEW led, NEW acked, Known(led, acked), NEW n \in Node, NEW m \in network,
         AppendBelowCommit(n, m)
  PROVE  \E acked2 : LogStep(led, acked, led, acked2)
<1>1. /\ NodeTypeOK /\ LogInv(led, acked) /\ FollowSender(n, m) /\ m.type = "Append"
      /\ UNCHANGED <<log, commit>>
      /\ network' = (network \ {m}) \cup {AppendReply(n, m, FALSE, commit[n], 0)}
  BY DEF Known, AppendBelowCommit, FollowSender, logVars
<1>2. /\ m.term \in Nat /\ term[n] \in Nat /\ term[n] <= m.term
      /\ commit[n] \in Nat /\ Len(log[n]) \in Nat /\ commit[n] <= Len(log[n])
  BY <1>1, MessageFields, TermTypes DEF FollowSender, Known, LogBounds
<1>3. commit[n] <= Len(led[m.term]) /\ Same(log[n], led[m.term], commit[n])
  <2>1. CASE commit[n] = 0
    <3>1. Len(led[m.term]) \in Nat
      BY <1>1, <1>2, PastTypes DEF LogInv
    <3> QED
      BY <2>1, <3>1 DEF Same
  <2>2. CASE commit[n] # 0
    <3>1. PICK t \in 0 .. term[n] : \E k \in 1 .. Len(led[t]) :
            /\ commit[n] <= k /\ Chosen(led, acked, k, t)
            /\ Same(log[n], led[t], commit[n])
      BY <1>1, <2>2 DEF LogInv, CommitsAreChosen, CommitIsChosen
    <3>2. PICK k \in 1 .. Len(led[t]) :
            /\ commit[n] <= k /\ Chosen(led, acked, k, t)
            /\ Same(log[n], led[t], commit[n])
      BY <3>1
    <3>3. t \in Nat /\ t <= m.term
      BY <1>2
    <3>4. led[m.term] # << >>
      BY <1>1 DEF LogInv, MessagesAreTrue, MessageIsTrue, AppendIsLed
    <3>5. commit[n] <= Len(led[m.term]) /\ Same(led[m.term], led[t], commit[n])
      BY <1>1, <1>2, <3>2, <3>3, <3>4, CoveredIsLed DEF LogInv
    <3> QED
      BY <3>2, <3>5 DEF Same
  <2> QED
    BY <2>1, <2>2
<1>4. /\ \A a \in Node \ {n} : log'[a] = log[a] /\ commit'[a] = commit[a]
      /\ log'[n] = log[n] /\ commit'[n] = commit[n]
  BY <1>1
<1>5. commit[n] <= Len(log'[n]) /\ Same(log'[n], led[m.term], commit[n])
  BY <1>2, <1>3, <1>4
<1> QED
  BY <1>1, <1>2, <1>3, <1>4, <1>5, AckStep

\* What is covered up to c is covered up to anything before it.
LEMMA CoveredPart ==
  ASSUME NEW led, NEW acked, NEW c \in Nat, NEW d \in Nat, d <= c, NEW s \in Nat,
         Past(led, acked), Covered(led, acked, c, s)
  PROVE  Covered(led, acked, d, s)
<1>1. CASE d = 0
  BY <1>1 DEF Covered
<1>2. CASE d # 0
  <2>1. c # 0
    BY <1>2
  <2>2. PICK t \in 0 .. s : \E k \in 1 .. Len(led[t]) : c <= k /\ Chosen(led, acked, k, t)
    BY <2>1 DEF Covered
  <2>3. PICK k \in 1 .. Len(led[t]) : c <= k /\ Chosen(led, acked, k, t)
    BY <2>2
  <2>4. d <= k
    BY <2>3
  <2> QED
    BY <2>3, <2>4 DEF Covered
<1> QED
  BY <1>1, <1>2

LEMMA OneOnly ==
  ASSUME NEW i \in Nat, i # 0, i <= 1
  PROVE  i = 1
  OBVIOUS

LEMMA OneEntry ==
  ASSUME NEW es \in Seq(Entry), es # << >>, Len(es) <= 1
  PROVE  Len(es) = 1
<1>1. Len(es) \in Nat /\ Len(es) # 0
  OBVIOUS
<1> QED
  BY <1>1, OneOnly

LEMMA CutAndTake ==
  ASSUME NEW l \in Seq(Entry), NEW p \in Nat, p <= Len(l),
         NEW es \in Seq(Entry), Len(es) = 1
  PROVE  /\ Len(SubSeq(l, 1, p) \o es) = p + 1
         /\ \A j \in 1 .. p : (SubSeq(l, 1, p) \o es)[j] = l[j]
         /\ (SubSeq(l, 1, p) \o es)[p + 1] = es[1]
<1> DEFINE a == SubSeq(l, 1, p)
<1>1. a \in Seq(Entry) /\ Len(a) = p /\ \A j \in 1 .. p : a[j] = l[j]
  OBVIOUS
<1> HIDE DEF a
<1>2. /\ Len(a \o es) = Len(a) + Len(es)
      /\ \A j \in 1 .. Len(a) + Len(es) :
           (a \o es)[j] = IF j <= Len(a) THEN a[j] ELSE es[j - Len(a)]
  BY <1>1, ConcatProperties
<1>3. Len(a) + Len(es) = p + 1
  BY <1>1, Zenon
<1>4. \A j \in 1 .. p + 1 : (a \o es)[j] = IF j <= p THEN a[j] ELSE es[j - p]
  BY <1>1, <1>2, <1>3, Zenon
<1>5. /\ \A j \in 1 .. p : j \in 1 .. p + 1 /\ j <= p
      /\ p + 1 \in 1 .. p + 1 /\ ~(p + 1 <= p) /\ (p + 1) - p = 1
  OBVIOUS
<1> QED
  BY <1>1, <1>2, <1>3, <1>4, <1>5, Zenon DEF a

\* The log of n after an append that is accepted is its leader's up to the
\* entry the append brought.
LEMMA AcceptedLog ==
  ASSUME NEW led, NEW acked, Known(led, acked), NEW n \in Node, NEW m \in network,
         m.type = "Append", Matches(n, m), NEW T, T = m.term
  PROVE  /\ m.prev + Len(m.entries) <= Len(led[T])
         /\ Same(Merged(n, m), led[T], m.prev + Len(m.entries))
         /\ \/ Merged(n, m) = log[n]
            \/ /\ m.prev < Len(led[T]) /\ Len(Merged(n, m)) = m.prev + 1
               /\ Len(m.entries) = 1
               /\ Same(Merged(n, m), log[n], m.prev)
               /\ m.prev < Len(log[n]) =>
                    log[n][m.prev + 1].term # led[T][m.prev + 1].term
<1> DEFINE L == led[T]
           l == log[n]
           p == m.prev
<1>1. /\ NodeTypeOK /\ LogInv(led, acked) /\ T \in Nat /\ p \in Nat
      /\ m.entries \in Seq(Entry) /\ Len(m.entries) <= 1
  BY MessageFields DEF Known
<1>2. /\ L \in Seq(Entry) /\ Len(L) \in Nat /\ l \in Seq(Entry) /\ Len(l) \in Nat
  BY <1>1, PastTypes, TermTypes DEF LogInv
<1>3. /\ p <= Len(L) /\ m.prevTerm = TermAt(L, p)
      /\ m.entries # << >> => p < Len(L) /\ m.entries[1] = L[p + 1]
  BY <1>1 DEF LogInv, MessagesAreTrue, MessageIsTrue, AppendIsLed
<1>4. p <= Len(l) /\ TermAt(l, p) = TermAt(L, p)
  BY <1>3 DEF Matches
<1>5. Fits(led, l, term[n]) /\ Fits(led, L, T)
  BY <1>1 DEF LogInv, NodeLogs, LedLogs
<1> HIDE DEF L, l
<1>6. ASSUME NEW i \in 1 .. Len(l), i \in 1 .. Len(L), l[i].term = L[i].term
      PROVE  Same(l, L, i)
  BY <1>5, <1>6, Agree
<1>7. Same(l, L, p)
  <2>1. CASE p = 0
    BY <2>1 DEF Same
  <2>2. CASE p # 0
    <3>1. p \in 1 .. Len(l) /\ p \in 1 .. Len(L)
      BY <1>1, <1>2, <1>3, <1>4, <2>2
    <3>2. l[p].term = L[p].term
      BY <1>4, <3>1 DEF TermAt
    <3> QED
      BY <1>6, <3>1, <3>2
  <2> QED
    BY <2>1, <2>2
<1>8. CASE m.entries = << >>
  <2>1. Len(m.entries) = 0 /\ Merged(n, m) = l
    BY <1>8 DEF Merged, l
  <2> QED
    BY <1>1, <1>3, <1>7, <2>1 DEF l, L
<1>9. CASE m.entries # << >>
  <2> DEFINE e == m.entries[1]
             M == SubSeq(l, 1, p) \o m.entries
  <2>1. Len(m.entries) = 1 /\ p < Len(L) /\ e = L[p + 1]
    BY <1>1, <1>3, <1>9, OneEntry
  <2>2. CASE p + 1 <= Len(l) /\ l[p + 1].term = e.term
    <3>1. Merged(n, m) = l
      BY <2>2 DEF Merged, l
    <3>2. p + 1 \in 1 .. Len(l) /\ p + 1 \in 1 .. Len(L)
      BY <1>1, <1>2, <2>1, <2>2
    <3>3. Same(l, L, p + 1)
      BY <1>6, <2>1, <2>2, <3>2
    <3> QED
      BY <1>1, <1>2, <2>1, <3>1, <3>2, <3>3 DEF l, L
  <2>3. CASE ~(p + 1 <= Len(l) /\ l[p + 1].term = e.term)
    <3>1. Merged(n, m) = M
      BY <1>9, <2>3 DEF Merged, l
    <3>2. /\ Len(M) = p + 1
          /\ \A j \in 1 .. p : M[j] = l[j]
          /\ M[p + 1] = e
      BY <1>1, <1>2, <1>4, <2>1, CutAndTake
    <3>3. Same(M, l, p)
      BY <3>2 DEF Same
    <3>4. Same(M, L, p + 1)
      <4>1. \A j \in 1 .. p : M[j] = L[j]
        BY <1>7, <3>2 DEF Same
      <4>2. \A j \in 1 .. p + 1 : j \in 1 .. p \/ j = p + 1
        BY <1>1
      <4> QED
        BY <2>1, <3>2, <4>1, <4>2 DEF Same
    <3>5. p < Len(l) => l[p + 1].term # L[p + 1].term
      BY <1>1, <1>2, <2>1, <2>3
    <3>6. p + 1 <= Len(L)
      BY <1>1, <1>2, <2>1
    <3> HIDE DEF M
    <3> QED
      BY <2>1, <3>1, <3>2, <3>3, <3>4, <3>5, <3>6 DEF l, L
  <2> QED
    BY <2>2, <2>3
<1> QED
  BY <1>8, <1>9

LEMMA AcceptLog ==
  ASSUME NEW led, NEW acked, Known(led, acked), NEW n \in Node, NEW m \in network,
         AppendAccept(n, m)
  PROVE  \E acked2 : LogStep(led, acked, led, acked2)
<1> DEFINE y == m.prev + Len(m.entries)
<1>1. /\ NodeTypeOK /\ LogInv(led, acked) /\ FollowSender(n, m) /\ m.type = "Append"
      /\ m.prev >= commit[n] /\ Matches(n, m)
      /\ network' = (network \ {m}) \cup {AppendReply(n, m, FALSE, y, 0)}
  BY DEF Known, AppendAccept, FollowSender
<1>2. /\ log' = [log EXCEPT ![n] = Merged(n, m)]
      /\ commit' = [commit EXCEPT ![n] = Larger(commit[n], Smaller(m.commit, y))]
  BY DEF AppendAccept
<1>3. /\ m.term \in Nat /\ m.prev \in Nat /\ m.commit \in Nat /\ m.entries \in Seq(Entry)
      /\ commit[n] \in Nat /\ Len(log[n]) \in Nat
  BY <1>1, MessageFields, TermTypes
<1>4. log \in [Node -> Seq(Entry)] /\ commit \in [Node -> Nat]
  BY <1>1 DEF NodeTypeOK
<1>5. \A a \in Node \ {n} : log'[a] = log[a] /\ commit'[a] = commit[a]
  BY <1>2, <1>4
<1>6. log'[n] = Merged(n, m) /\ commit'[n] = Larger(commit[n], Smaller(m.commit, y))
  BY <1>2, <1>4
<1>7. /\ y <= Len(led[m.term]) /\ Same(Merged(n, m), led[m.term], y)
      /\ \/ Merged(n, m) = log[n]
         \/ /\ m.prev < Len(led[m.term]) /\ Len(Merged(n, m)) = m.prev + 1
            /\ Len(m.entries) = 1
            /\ Same(Merged(n, m), log[n], m.prev)
            /\ m.prev < Len(log[n]) =>
                 log[n][m.prev + 1].term # led[m.term][m.prev + 1].term
  BY <1>1, AcceptedLog
<1>8. Covered(led, acked, m.commit, m.term) /\ led[m.term] # << >>
  BY <1>1 DEF LogInv, MessagesAreTrue, MessageIsTrue, AppendIsLed
<1>9. y \in Nat /\ y <= Len(Merged(n, m))
  <2>1. m \in AppendRequest
    BY <1>1, FollowSenderType
  <2>2. Len(m.entries) \in Nat
    BY <1>3
  <2> QED
    BY <1>1, <1>3, <2>1, <2>2, MergedType
<1>10. y <= Len(log'[n]) /\ Same(log'[n], led[m.term], y)
  BY <1>6, <1>7, <1>9
<1> HIDE DEF y
<1>11. log'[n] = log[n] \/ LogCut(led, led, n)
  <2>1. CASE Merged(n, m) = log[n]
    BY <1>6, <2>1
  <2>2. CASE Merged(n, m) # log[n]
    <3>1. term'[n] = m.term
      BY <1>1, SenderFollowed
    <3>2. commit[n] <= m.prev /\ m.prev <= Len(log[n])
      BY <1>1, <1>3 DEF Matches
    <3>3. /\ m.prev < Len(led[m.term]) /\ Len(log'[n]) = m.prev + 1
          /\ Same(log'[n], log[n], m.prev) /\ y = m.prev + 1
          /\ m.prev < Len(log[n]) =>
               log[n][m.prev + 1].term # led[m.term][m.prev + 1].term
      BY <1>6, <1>7, <2>2 DEF y
    <3>4. Same(log'[n], led[m.term], m.prev + 1)
      BY <1>10, <3>3
    <3> QED
      BY <1>3, <1>8, <3>1, <3>2, <3>3, <3>4 DEF LogCut
  <2> QED
    BY <2>1, <2>2
<1>12. \/ commit'[n] = commit[n]
       \/ commit'[n] <= y /\ Covered(led, acked, commit'[n], m.term)
  <2> DEFINE c == Smaller(m.commit, y)
  <2>1. c \in Nat /\ c <= y /\ c <= m.commit
    BY <1>3, <1>9 DEF Smaller
  <2>2. Covered(led, acked, c, m.term)
    BY <1>1, <1>3, <1>8, <2>1, CoveredPart DEF LogInv
  <2> HIDE DEF c
  <2>3. commit'[n] = commit[n] \/ commit'[n] = c
    BY <1>3, <1>6, <2>1, LargerBounds DEF c
  <2> QED
    BY <2>1, <2>2, <2>3
<1> QED
  BY <1>1, <1>5, <1>7, <1>9, <1>10, <1>11, <1>12, AckStep

-----------------------------------------------------------------------------
(* A leader that hears that a peer holds more.                             *)

\* What the leader knows its peers to hold, this answer included, they have
\* acknowledged.
LEMMA HeldIsAcked ==
  ASSUME NEW led, NEW acked, Known(led, acked), NEW n \in Node, NEW m \in network,
         HandleAppended(n, m), NEW p \in Node
  PROVE  /\ [match[n] EXCEPT ![m.from] = m.index][p] <= acked[p][term[n]]
         /\ m.index <= Len(log[n])
<1>1. /\ NodeTypeOK /\ LogInv(led, acked) /\ LeaderHears(n, m) /\ ~m.reject
      /\ m.from \in Node /\ m.index \in Nat
  BY LeaderHearsType DEF Known, HandleAppended
<1>2. m.type = "AppendResponse" /\ m.term = term[n] /\ role[n] = "Leader"
  BY <1>1 DEF LeaderHears
<1>3. m.index <= acked[m.from][term[n]]
  BY <1>1, <1>2 DEF LogInv, MessagesAreTrue, MessageIsTrue
<1>4. LeaderKnows(led, acked, n)
  BY <1>1, <1>2 DEF LogInv, LeadersKnow
<1>5. match[n] \in [Node -> Nat] /\ term[n] \in Nat
  BY <1>1 DEF NodeTypeOK
<1>6. [match[n] EXCEPT ![m.from] = m.index][p] <= acked[p][term[n]]
  BY <1>3, <1>4, <1>5 DEF LeaderKnows
<1>7. m.index <= Len(log[n])
  <2>1. /\ acked[m.from][term[n]] <= Len(led[term[n]])
        /\ led[term[n]] = log[n]
    BY <1>1, <1>4, <1>5 DEF LogInv, AcksInRange, LeaderKnows
  <2>2. acked[m.from][term[n]] \in Nat /\ Len(log[n]) \in Nat
    BY <1>1, <1>5, PastTypes, TermTypes DEF LogInv
  <2> QED
    BY <1>1, <1>3, <2>1, <2>2
<1> QED
  BY <1>6, <1>7

LEMMA AppendedLog ==
  ASSUME NEW led, NEW acked, Known(led, acked), NEW n \in Node, NEW m \in network,
         HandleAppended(n, m)
  PROVE  LogStep(led, acked, led, acked)
<1> DEFINE T == term[n]
           held == [match[n] EXCEPT ![m.from] = m.index]
           y == Larger(next[n][m.from], m.index + 1)
<1>1. /\ NodeTypeOK /\ NodeTypeOK' /\ LogInv(led, acked) /\ Past(led, acked)
      /\ LedLogs(led) /\ LeaderHears(n, m) /\ m.from \in Node /\ m.index \in Nat
  BY LeaderHearsType DEF Known, LogInv, HandleAppended
<1>2. /\ role[n] = "Leader" /\ T \in Nat /\ T = term'[n]
      /\ UNCHANGED <<role, term, log>>
  BY <1>1 DEF LeaderHears, HandleAppended, electionVars, NodeTypeOK
<1>3. LeaderKnows(led, acked, n)
  BY <1>1, <1>2 DEF LogInv, LeadersKnow
<1>4. PICK i \in 0 .. Len(log[n]) :
        /\ CommitAfter(n, held, i)
        /\ commit' = [commit EXCEPT ![n] = i]
        /\ network' = (network \ {m}) \cup
             (IF i > commit[n] THEN Appends(n)'
              ELSE {a \in {AppendTo(n, m.from)'} : a.entries # << >>})
  BY DEF HandleAppended
<1>5. /\ match' = [match EXCEPT ![n][m.from] = m.index]
      /\ next' = [next EXCEPT ![n][m.from] = y]
  BY DEF HandleAppended
<1>6. /\ \A a \in Node \ {n} : match'[a] = match[a] /\ next'[a] = next[a]
      /\ match'[n] = held
      /\ \A p \in Node : next'[n][p] = IF p = m.from THEN y ELSE next[n][p]
  <2>1. match \in [Node -> [Node -> Nat]] /\ next \in [Node -> [Node -> Nat \ {0}]]
    BY <1>1 DEF NodeTypeOK
  <2>2. \A a \in Node \ {n} : match'[a] = match[a]
    BY <1>5, <2>1
  <2>3. match'[n] = held
    BY <1>1, <1>5, <2>1
  <2> HIDE DEF y
  <2>4. \A a \in Node \ {n} : next'[a] = next[a]
    BY <1>5, <2>1
  <2>5. \A p \in Node : next'[n][p] = IF p = m.from THEN y ELSE next[n][p]
    BY <1>1, <1>5, <2>1
  <2> QED
    BY <2>2, <2>3, <2>4, <2>5
<1>7. (\A a \in Node \ {n} : commit'[a] = commit[a]) /\ commit'[n] = i
  BY <1>1, <1>4 DEF NodeTypeOK
<1>8. OthersStay(n) /\ RoleStep(n)
  BY <1>2, <1>6, <1>7 DEF OthersStay, RoleStep
<1>9. \A p \in Node : held[p] <= acked[p][T] /\ m.index <= Len(log[n])
  BY HeldIsAcked
<1>10. LeaderKnows(led, acked, n)'
  <2>1. ASSUME NEW p \in Node PROVE next'[n][p] <= Len(log[n]) + 1
    <3>1. next[n][p] \in Nat \ {0} /\ Len(log[n]) \in Nat
      BY <1>1 DEF NodeTypeOK
    <3>2. next[n][p] <= Len(log[n]) + 1
      BY <1>3 DEF LeaderKnows
    <3>3. CASE p = m.from
      BY <1>1, <1>6, <1>9, <3>1, <3>2, <3>3 DEF Larger
    <3>4. CASE p # m.from
      BY <1>6, <3>2, <3>4
    <3> QED
      BY <3>3, <3>4
  <2> HIDE DEF held
  <2> QED
    BY <1>2, <1>3, <1>6, <1>9, <2>1 DEF LeaderKnows
<1>11. commit'[n] = commit[n] \/ CommitIsChosen(led, acked, n)'
  <2> SUFFICES ASSUME i # commit[n] PROVE CommitIsChosen(led, acked, n)'
    BY <1>7
  <2>1. i \in Committable(n, held)
    BY <1>4 DEF CommitAfter
  <2> HIDE DEF held
  <2>2. /\ i \in 1 .. Len(log[n]) /\ log[n][i].term = T
        /\ IsMajority({p \in Node : p = n \/ held[p] >= i})
    <3>1. i \in commit[n] + 1 .. Len(log[n]) /\ commit[n] \in Nat
      BY <1>1, <2>1 DEF Committable, NodeTypeOK
    <3>2. i \in 1 .. Len(log[n])
      BY <3>1
    <3> QED
      BY <2>1, <3>2 DEF Committable
  <2>3. log[n] = led[T] /\ acked[n][T] = Len(log[n])
    BY <1>3 DEF LeaderKnows
  <2>4. Chosen(led, acked, i, T)
    <3> DEFINE S == {p \in Node : p = n \/ held[p] >= i}
               Q == {v \in Node : acked[v][T] >= i}
    <3>1. S \subseteq Q
      <4> SUFFICES ASSUME NEW p \in Node, p = n \/ held[p] >= i
                   PROVE  acked[p][T] >= i
        OBVIOUS
      <4>1. CASE p = n
        BY <2>2, <2>3, <4>1
      <4>2. CASE held[p] >= i
        <5>1. held[p] \in Nat /\ acked[p][T] \in Nat
          <6>1. match'[n][p] \in Nat
            BY <1>1 DEF NodeTypeOK
          <6>2. acked[p][T] \in Nat
            BY <1>1, <1>2, PastTypes
          <6> QED
            BY <1>6, <6>1, <6>2
        <5>2. held[p] <= acked[p][T]
          BY <1>9
        <5> QED
          BY <4>2, <5>1, <5>2
      <4> QED
        BY <4>1, <4>2
    <3>2. IsMajority(Q)
      BY <2>2, <3>1, MajorityGrows
    <3> QED
      BY <2>2, <2>3, <3>2 DEF Chosen, Holds
  <2>5. /\ T \in 0 .. term'[n] /\ i \in 1 .. Len(led[T]) /\ commit'[n] <= i
        /\ Same(log'[n], led[T], commit'[n])
    BY <1>2, <1>7, <2>2, <2>3 DEF Same
  <2> QED
    BY <2>4, <2>5 DEF CommitIsChosen, Chosen, Holds, IsMajority, Same
<1>12. Covered(led, acked, commit'[n], term'[n])
  <2>1. CASE CommitIsChosen(led, acked, n)'
    BY <2>1 DEF CommitIsChosen, Covered, Chosen, Holds, IsMajority
  <2>2. CASE commit'[n] = commit[n]
    BY <1>1, <1>2, <2>2, CommitIsCovered DEF LogInv, CommitsAreChosen
  <2> QED
    BY <1>11, <2>1, <2>2
<1>13. NewMessagesAreTrue(led, acked)
  <2>1. \A g \in network' : g \in network \/ \E p \in Node : g = AppendTo(n, p)'
    BY <1>1, <1>4 DEF Appends
  <2> QED
    BY <1>1, <1>10, <1>12, <2>1, AppendsAreTrue
<1>14. /\ Grows(led, led) /\ AcksGrow(acked, led, acked)
       /\ WinsAreComplete(led, acked, led) /\ LedByLeaders(led, led)
  BY <1>1, PastTypes DEF Grows, Same, AcksGrow, WinsAreComplete, LedByLeaders
<1> QED
  BY <1>1, <1>2, <1>8, <1>10, <1>11, <1>13, <1>14, NodeStep

-----------------------------------------------------------------------------
(* The steps of a leader that appends to its log.                          *)

LEMMA UpOne ==
  ASSUME NEW i \in Nat
  PROVE  i + 1 \in Nat /\ i <= i /\ i <= i + 1
  OBVIOUS

LEMMA AtMost ==
  ASSUME NEW i \in Nat, NEW j \in Nat, NEW k \in Nat, i = j \/ i <= j, j = k \/ j <= k
  PROVE  i <= k
  OBVIOUS

LEMMA Slack ==
  ASSUME NEW i \in Nat, NEW j \in Nat, i <= j
  PROVE  i <= j + 1
  OBVIOUS

LEMMA EmptyLog ==
  ASSUME NEW l \in Seq(Entry)
  PROVE  l = << >> <=> Len(l) = 0
  OBVIOUS

LEMMA Appended ==
  ASSUME NEW l \in Seq(Entry), NEW e \in Entry
  PROVE  /\ Append(l, e) \in Seq(Entry) /\ Append(l, e) # << >>
         /\ Len(Append(l, e)) = Len(l) + 1
         /\ \A j \in 1 .. Len(l) : Append(l, e)[j] = l[j]
         /\ Append(l, e)[Len(l) + 1] = e
         /\ \A j \in 1 .. Len(l) + 1 : j \in 1 .. Len(l) \/ j = Len(l) + 1
<1>1. Len(l) \in Nat
  BY LogLen
<1>2. /\ Append(l, e) \in Seq(Entry) /\ Len(Append(l, e)) = Len(l) + 1
      /\ \A j \in 1 .. Len(l) : Append(l, e)[j] = l[j]
      /\ Append(l, e)[Len(l) + 1] = e
  BY AppendProperties
<1>3. \A j \in 1 .. Len(l) + 1 : j \in 1 .. Len(l) \/ j = Len(l) + 1
  BY <1>1
<1>4. Append(l, e) # << >>
  <2>1. Len(l) + 1 # 0
    BY <1>1
  <2> QED
    BY <1>2, <2>1, EmptyLog, Zenon
<1> QED
  BY <1>2, <1>3, <1>4

\* The past of term T takes one more entry.
LEMMA LedGrows ==
  ASSUME NEW led \in [Nat -> Seq(Entry)], LedLogs(led), NEW T \in Nat,
         NEW l \in Seq(Entry), NEW e \in Entry, e.term = T, Fits(led, l, T),
         \A j \in 1 .. Len(l) : \A i \in 1 .. j : l[i].term <= l[j].term,
         l = led[T] \/ led[T] = << >>,
         NEW led2, led2 = [led EXCEPT ![T] = Append(l, e)]
  PROVE  LedLogs(led2) /\ Grows(led, led2)
<1> DEFINE k == Append(l, e)
           h == Len(l)
<1>1. /\ k \in Seq(Entry) /\ Len(k) = h + 1 /\ h \in Nat
      /\ \A j \in 1 .. h : k[j] = l[j]
      /\ k[h + 1] = e
      /\ \A j \in 1 .. h + 1 : j \in 1 .. h \/ j = h + 1
  BY Appended, LogLen
<1>0. \A t \in Nat : t <= t
  OBVIOUS
<1> HIDE DEF k
<1>2. led2 \in [Nat -> Seq(Entry)] /\ led2[T] = k /\ \A t \in Nat \ {T} : led2[t] = led[t]
  BY <1>1 DEF k
<1> HIDE DEF h
<1>3. Grows(led, led2)
  <2> SUFFICES ASSUME NEW t \in Nat
               PROVE  Len(led[t]) <= Len(led2[t]) /\ Same(led2[t], led[t], Len(led[t]))
    BY DEF Grows
  <2>1. CASE t # T
    <3>1. led2[t] = led[t] /\ Len(led[t]) \in Nat
      BY <1>2, <2>1, LogLen
    <3> QED
      BY <1>0, <3>1, Zenon DEF Same
  <2>2. CASE t = T /\ l = led[T]
    <3>1. h <= h + 1 /\ Same(k, l, h)
      BY <1>1, UpOne, Zenon DEF Same
    <3> QED
      BY <1>1, <1>2, <2>2, <3>1 DEF h
  <2>3. CASE t = T /\ led[T] = << >>
    <3>1. Len(led[T]) = 0 /\ 0 <= h + 1
      BY <1>1, <2>3
    <3>2. \A j \in 1 .. 0 : FALSE
      OBVIOUS
    <3> QED
      BY <1>1, <1>2, <2>3, <3>1, <3>2 DEF Same
  <2> QED
    BY <2>1, <2>2, <2>3
<1>4. Fits(led2, l, T)
  BY <1>0, <1>2, <1>3, FitsGrows
<1>5. ASSUME NEW t \in Nat
      PROVE  /\ Fits(led2, led2[t], t)
             /\ \A i, j \in 1 .. Len(led2[t]) : i <= j => led2[t][i].term <= led2[t][j].term
  <2>1. CASE t # T
    <3>1. Fits(led, led[t], t) /\ led[t] \in Seq(Entry) /\ led2[t] = led[t]
      BY <1>2, <2>1 DEF LedLogs
    <3>2. Fits(led2, led[t], t)
      BY <1>0, <1>2, <1>3, <3>1, FitsGrows
    <3> QED
      BY <3>1, <3>2 DEF LedLogs
  <2>2. CASE t = T
    <3>1. Fits(led2, k, T)
      <4> SUFFICES ASSUME NEW i \in 1 .. h + 1
                   PROVE  /\ k[i].term <= T
                          /\ i <= Len(led2[k[i].term])
                          /\ Same(k, led2[k[i].term], i)
        BY <1>1, Zenon DEF Fits
      <4>1. CASE i \in 1 .. h
        <5>1. k[i] = l[i]
          BY <1>1, <4>1
        <5>2. l[i].term <= T /\ i <= Len(led2[l[i].term]) /\ Same(l, led2[l[i].term], i)
          BY <1>4, <4>1 DEF Fits, h
        <5>3. \A j \in 1 .. i : j \in 1 .. h
          BY <1>1, <4>1
        <5>4. Same(k, led2[l[i].term], i)
          BY <1>1, <5>2, <5>3 DEF Same
        <5> QED
          BY <5>1, <5>2, <5>4
      <4>2. CASE i = h + 1
        <5>1. k[i].term = T /\ led2[T] = k
          BY <1>1, <1>2, <4>2
        <5>2. i <= h + 1
          BY <1>1
        <5> QED
          BY <1>0, <1>1, <5>1, <5>2, Zenon DEF Same
      <4> QED
        BY <1>1, <4>1, <4>2
    <3>2. ASSUME NEW i \in 1 .. h + 1, NEW j \in 1 .. h + 1, i <= j
          PROVE  k[i].term <= k[j].term
      <4>1. CASE j \in 1 .. h
        <5>1. i \in 1 .. j /\ i \in 1 .. h
          BY <1>1, <3>2, <4>1
        <5>2. l[i].term <= l[j].term
          BY <4>1, <5>1 DEF h
        <5> QED
          BY <1>1, <4>1, <5>1, <5>2
      <4>2. CASE j = h + 1
        <5>1. k[i].term <= T
          BY <1>1, <3>1 DEF Fits
        <5> QED
          BY <1>1, <4>2, <5>1
      <4> QED
        BY <1>1, <4>1, <4>2
    <3> QED
      <4>1. led2[t] = k
        BY <1>2, <2>2
      <4> QED
        <5>1. Fits(led2, led2[t], t)
          BY <2>2, <3>1, <4>1, Zenon
        <5>2. Len(led2[t]) = h + 1
          BY <1>1, <4>1, Zenon
        <5> QED
          BY <3>2, <4>1, <5>1, <5>2, Zenon
  <2> QED
    BY <2>1, <2>2
<1> QED
  BY <1>3, <1>5 DEF LedLogs

\* n, which leads after the step, appends e and sends what its peers lack.
LEMMA LeadStep ==
  ASSUME NEW led, NEW acked, Known(led, acked), NEW n \in Node,
         NEW T \in Nat, term[n] = T, term'[n] = T, role'[n] = "Leader",
         NEW e \in Entry, e.term = T, log'[n] = Append(log[n], e),
         commit'[n] = commit[n], OthersStay(n), RoleStep(n),
         log[n] = led[T] \/ led[T] = << >>,
         \A a \in Node \ {n} : role[a] = "Leader" => term[a] # T,
         \A p \in Node : /\ next'[n][p] <= Len(log[n]) + 1
                         /\ match'[n][p] <= acked[p][T],
         \A m \in network' : m \in network \/ \E p \in Node : m = AppendTo(n, p)',
         led[T] = << >> =>
           /\ (\E a \in Node : Elected(T, a))'
           /\ \A t \in Nat : t < T =>
                \A k \in 1 .. Len(led[t]) : Safe(led, acked, k, t) => Holds(log[n], k, t)
  PROVE  \E led2, acked2 : LogStep(led, acked, led2, acked2)
<1>1. /\ NodeTypeOK /\ NodeTypeOK' /\ LogInv(led, acked) /\ Past(led, acked)
      /\ LedLogs(led) /\ NodeLogs(led)
  BY DEF Known, LogInv
<1>2. /\ led \in [Nat -> Seq(Entry)] /\ log[n] \in Seq(Entry) /\ Len(log[n]) \in Nat
      /\ acked \in [Node -> [Nat -> Nat]] /\ acked[n] \in [Nat -> Nat]
  BY <1>1, TermTypes DEF Past
<1> DEFINE l == log[n]
           k == Append(log[n], e)
           h == Len(log[n])
<1>3. /\ k \in Seq(Entry) /\ k # << >> /\ Len(k) = h + 1
      /\ \A j \in 1 .. h : k[j] = l[j]
  BY <1>2, Appended
<1>4. PICK led2 \in [Nat -> Seq(Entry)] : led2 = [led EXCEPT ![T] = k]
  BY <1>2, <1>3
<1>5. PICK row \in [Nat -> Nat] : row = [acked[n] EXCEPT ![T] = h + 1]
  <2>1. h + 1 \in Nat
    BY <1>2, UpOne, Zenon
  <2> HIDE DEF h
  <2> QED
    BY <1>2, <2>1
<1>6. PICK acked2 \in [Node -> [Nat -> Nat]] : acked2 = [acked EXCEPT ![n] = row]
  BY <1>2
<1>7. Past(led2, acked2)
  BY DEF Past
<1>8. LedLogs(led2) /\ Grows(led, led2)
  <2>1. Fits(led, l, T)
    BY <1>1 DEF NodeLogs
  <2>2. \A j \in 1 .. Len(l) : \A i \in 1 .. j : l[i].term <= l[j].term
    BY <1>1, NodeTermsGrow
  <2> QED
    BY <1>1, <1>2, <1>4, <2>1, <2>2, LedGrows
<1>9. led2[T] = k /\ \A t \in Nat \ {T} : led2[t] = led[t]
  BY <1>2, <1>4
<1>10. /\ \A a \in Node \ {n} : acked2[a] = acked[a]
       /\ \A t \in Nat : acked2[n][t] = IF t = T THEN h + 1 ELSE acked[n][t]
  BY <1>2, <1>5, <1>6
<1>11. acked[n][T] \in Nat /\ acked[n][T] <= h
  <2>1. acked[n][T] <= Len(led[T]) /\ acked[n][T] \in Nat
    BY <1>1, <1>2 DEF LogInv, AcksInRange
  <2>2. CASE led[T] = << >>
    <3>1. Len(led[T]) = 0
      BY <2>2
    <3>2. 0 <= h /\ 0 \in Nat /\ h \in Nat
      BY <1>2
    <3> HIDE DEF h
    <3> QED
      BY <2>1, <3>1, <3>2, AtMost, Zenon
  <2> QED
    BY <2>1, <2>2
<1> HIDE DEF k, h
<1>12. h \in Nat /\ log'[n] = k
  BY <1>2 DEF h, k
<1>13. AcksGrow(acked, led2, acked2)
  <2> SUFFICES ASSUME NEW v \in Node, NEW t \in Nat
               PROVE  \/ acked2[v][t] = acked[v][t]
                      \/ /\ t = term'[v] /\ acked[v][t] <= acked2[v][t]
                         /\ acked2[v][t] <= Len(led2[t])
                         /\ acked2[v][t] <= Len(log'[v])
                         /\ Same(log'[v], led2[t], acked2[v][t])
    BY DEF AcksGrow
  <2>1. CASE v = n /\ t = T
    <3>1. acked2[v][t] = h + 1 /\ acked[v][t] <= h + 1
      <4>1. acked[n][T] <= h + 1
        BY <1>11, <1>12, UpOne, AtMost, Zenon
      <4> QED
        BY <1>10, <2>1, <4>1
    <3>2. led2[t] = k /\ log'[v] = k /\ Len(k) = h + 1 /\ h + 1 <= h + 1
      BY <1>3, <1>9, <1>12, <2>1
    <3> QED
      BY <2>1, <3>1, <3>2, Zenon DEF Same
  <2>2. CASE v # n \/ t # T
    BY <1>10, <2>2
  <2> QED
    BY <2>1, <2>2
<1>14. LogLed(led2, n)
  <2>1. h <= Len(k) /\ Same(k, log[n], h)
    BY <1>3, <1>12 DEF Same
  <2> QED
    BY <1>9, <1>12, <2>1 DEF LogLed, h
<1>15. LeaderKnows(led2, acked2, n)'
  <2>1. ASSUME NEW p \in Node
        PROVE  next'[n][p] <= Len(k) + 1 /\ match'[n][p] <= acked2[p][T]
    <3>0. match'[n][p] \in Nat
      BY <1>1 DEF NodeTypeOK
    <3>1. next'[n][p] \in Nat
      BY <1>1 DEF NodeTypeOK
    <3>2. acked[p][T] \in Nat /\ acked2[p][T] \in Nat
      BY <1>1, <1>7, PastTypes
    <3>3. acked[p][T] <= acked2[p][T]
      <4>1. acked2[p][T] = acked[p][T] \/ acked[p][T] <= acked2[p][T]
        BY <1>13, Zenon DEF AcksGrow
      <4> QED
        BY <3>2, <4>1, AtMost, Zenon
    <3>4. next'[n][p] <= h + 1
      BY DEF h
    <3>8. match'[n][p] <= acked[p][T]
      OBVIOUS
    <3>5. match'[n][p] <= acked2[p][T]
      BY <3>0, <3>2, <3>3, <3>8, AtMost, Zenon
    <3>6. Len(k) \in Nat
      BY <1>3, <1>12, UpOne, Zenon
    <3>7. next'[n][p] <= Len(k)
      BY <1>3, <3>4, Zenon
    <3>9. next'[n][p] <= Len(k) + 1
      BY <3>1, <3>6, <3>7, Slack, Zenon
    <3> QED
      BY <3>5, <3>9
  <2> QED
    BY <1>3, <1>9, <1>10, <1>12, <2>1 DEF LeaderKnows
<1>16. NewMessagesAreTrue(led2, acked2)
  <2>1. Covered(led, acked, commit[n], T)
    BY <1>1, CommitIsCovered DEF LogInv, CommitsAreChosen
  <2>2. Covered(led2, acked2, commit'[n], term'[n])
    BY <1>1, <1>7, <1>8, <1>13, <2>1, CoveredStays
  <2> QED
    BY <1>1, <1>15, <2>2, AppendsAreTrue
<1>17. WinsAreComplete(led, acked, led2)
  <2> SUFFICES ASSUME NEW s \in Nat, led[s] = << >>, led2[s] # << >>
               PROVE  /\ (\E a \in Node : Elected(s, a))'
                      /\ \A t \in Nat : t < s =>
                           \A j \in 1 .. Len(led[t]) :
                             Safe(led, acked, j, t) => Holds(led2[s], j, t)
    BY DEF WinsAreComplete
  <2>1. s = T
    BY <1>9
  <2>2. ASSUME NEW t \in Nat, NEW j, Holds(log[n], j, t)
        PROVE  Holds(k, j, t)
    <3>1. j \in 1 .. h /\ l[j].term = t
      BY <2>2 DEF Holds, h
    <3>2. j \in 1 .. h + 1 /\ k[j] = l[j]
      BY <1>3, <1>12, <3>1
    <3> QED
      BY <1>3, <3>1, <3>2 DEF Holds
  <2> QED
    BY <1>9, <2>1, <2>2
<1>18. \A a \in Node \ {n} : role[a] = "Leader" => led2[term[a]] = led[term[a]]
  BY <1>1, <1>9 DEF NodeTypeOK
<1>19. LedByLeaders(led, led2)
  BY <1>9, <1>12 DEF LedByLeaders
<1>20. LogStep(led, acked, led2, acked2)
  BY <1>7, <1>8, <1>10, <1>13, <1>14, <1>15, <1>16, <1>17, <1>18, <1>19, NodeStep
<1> QED
  BY <1>20

LEMMA ProposeLog ==
  ASSUME NEW led, NEW acked, Known(led, acked), NEW n \in Node, NEW c \in Call,
         Propose(n, c)
  PROVE  \E led2, acked2 : LogStep(led, acked, led2, acked2)
<1> DEFINE T == term[n]
           e == [term |-> T, call |-> c]
<1>1. NodeTypeOK /\ LogInv(led, acked) /\ ElectionSafety
  BY DEF Known
<1>2. /\ role[n] = "Leader" /\ UNCHANGED <<role, term, commit, match, next>>
      /\ log' = [log EXCEPT ![n] = Append(log[n], e)]
      /\ network' = network \cup Appends(n)'
  BY DEF Propose, electionVars, progressVars
<1>3. T \in Nat /\ e \in Entry /\ e.term = T
  BY <1>1 DEF NodeTypeOK, Entry
<1> HIDE DEF e
<1>4. log'[n] = Append(log[n], e) /\ \A a \in Node \ {n} : log'[a] = log[a]
  BY <1>1, <1>2 DEF NodeTypeOK
<1>5. OthersStay(n) /\ RoleStep(n)
  BY <1>2, <1>4 DEF OthersStay, RoleStep
<1>6. LeaderKnows(led, acked, n)
  BY <1>1, <1>2 DEF LogInv, LeadersKnow
<1>7. /\ log[n] = led[T] /\ led[T] # << >>
      /\ \A p \in Node : next'[n][p] <= Len(log[n]) + 1 /\ match'[n][p] <= acked[p][T]
  BY <1>2, <1>6 DEF LeaderKnows
<1>8. \A a \in Node \ {n} : role[a] = "Leader" => term[a] # T
  BY <1>1, <1>2 DEF ElectionSafety
<1>9. \A m \in network' : m \in network \/ \E p \in Node : m = AppendTo(n, p)'
  BY <1>2 DEF Appends
<1>10. term[n] = T /\ term'[n] = T /\ role'[n] = "Leader" /\ commit'[n] = commit[n]
  BY <1>2
<1> HIDE DEF T
<1> QED
  BY <1>3, <1>4, <1>5, <1>7, <1>8, <1>9, <1>10, LeadStep

\* Who wins is backed by a majority; nobody had won the term, and the voters'
\* entries that may be committed are in the winner's log.
LEMMA WinnersAreBacked ==
  ASSUME NEW led, NEW acked, Known(led, acked), NEW n \in Node, NEW T \in Nat,
         term[n] = T, role[n] = "Candidate",
         NEW S \in SUBSET Node, IsMajority(S), \A v \in S : Backs(v, T, n)
  PROVE  /\ led[T] = << >>
         /\ \A t \in Nat : t < T =>
              \A k \in 1 .. Len(led[t]) : Safe(led, acked, k, t) => Holds(log[n], k, t)
<1>1. /\ NodeTypeOK /\ LogInv(led, acked) /\ BackingIsKept /\ Past(led, acked)
  BY DEF Known, LogInv
<1>2. led[T] = << >>
  <2> SUFFICES ASSUME led[T] # << >> PROVE FALSE
    OBVIOUS
  <2>1. PICK a \in Node : Elected(T, a)
    BY <1>1 DEF LogInv, TermsAreWon
  <2> DEFINE Q == {v \in Node : Settled(v, T, a)}
  <2>2. IsMajority(Q)
    BY <2>1 DEF Elected
  <2>3. PICK v \in Node : v \in S /\ v \in Q
    BY <2>2, MajoritiesMeet
  <2>4. n = a
    BY <2>3 DEF Settled
  <2> QED
    BY <2>1, <2>4 DEF Elected
<1>3. ASSUME NEW t \in Nat, t < T, NEW k \in 1 .. Len(led[t]), Safe(led, acked, k, t)
      PROVE  Holds(log[n], k, t)
  <2> DEFINE Q == {v \in Node : acked[v][t] >= k \/ term[v] <= t}
  <2>1. IsMajority(Q)
    BY <1>3 DEF Safe, Choosable
  <2>2. PICK v \in Node : v \in S /\ v \in Q
    BY <2>1, MajoritiesMeet
  <2>3. Backs(v, T, n) /\ T <= term[v]
    BY <1>1, <2>2 DEF BackingIsKept
  <2>4. term[v] \in Nat /\ acked[v][t] \in Nat /\ k \in Nat
    <3>1. Len(led[t]) \in Nat /\ acked[v][t] \in Nat
      BY <1>1, PastTypes
    <3>2. term[v] \in Nat
      BY <1>1 DEF NodeTypeOK
    <3> QED
      BY <3>1, <3>2
  <2>5. acked[v][t] >= k
    BY <1>3, <2>2, <2>3, <2>4
  <2>6. k \in 1 .. acked[v][t] /\ t \in 0 .. T - 1
    BY <1>3, <2>4, <2>5
  <2> QED
    BY <1>1, <1>3, <2>3, <2>6 DEF LogInv, VotesAreSafe
<1> QED
  BY <1>2, <1>3

LEMMA WinElectionLog ==
  ASSUME NEW led, NEW acked, Known(led, acked), NEW n \in Node, NEW m \in network,
         m.to = n, WinElection(n, m)
  PROVE  \E led2, acked2 : LogStep(led, acked, led2, acked2)
<1>0. PICK T \in Nat : term[n] = T
  BY DEF Known, NodeTypeOK
<1> DEFINE e == [term |-> T, call |-> None]
           S == granted[n] \cup {m.from}
<1>1. /\ NodeTypeOK /\ NodeTypeOK' /\ LogInv(led, acked) /\ Past(led, acked)
      /\ VoteStep /\ BackingIsKept' /\ BackingIsUnique'
  BY VoteStepKeepsBacking DEF Known, LogInv
<1>2. /\ m.type = "Vote" /\ m.term = T /\ m.grant /\ role[n] = "Candidate"
      /\ IsMajority(S)
      /\ UNCHANGED <<term, commit>>
      /\ role' = [role EXCEPT ![n] = "Leader"]
      /\ granted' = [granted EXCEPT ![n] = S]
      /\ log' = [log EXCEPT ![n] = Append(log[n], e)]
      /\ match' = [match EXCEPT ![n] = [p \in Node |-> 0]]
      /\ next' = [next EXCEPT ![n] = [p \in Node |-> Len(log[n]) + 1]]
      /\ network' = (network \ {m}) \cup Appends(n)'
  BY <1>0 DEF WinElection
<1>3. T \in Nat /\ e \in Entry /\ e.term = T /\ m.from \in Node
  BY <1>1, MessageFields DEF Entry
<1> HIDE DEF e
<1>4. log'[n] = Append(log[n], e) /\ \A a \in Node \ {n} : log'[a] = log[a]
  BY <1>1, <1>2 DEF NodeTypeOK
<1>5. role'[n] = "Leader" /\ \A a \in Node \ {n} : role'[a] = role[a]
  BY <1>1, <1>2 DEF NodeTypeOK
<1>6. S \in SUBSET Node /\ granted'[n] = S
  BY <1>1, <1>2, <1>3 DEF NodeTypeOK
<1>7. /\ \A a \in Node \ {n} : match'[a] = match[a] /\ next'[a] = next[a]
      /\ \A p \in Node : match'[n][p] = 0 /\ next'[n][p] = Len(log[n]) + 1
  <2>1. match \in [Node -> [Node -> Nat]] /\ next \in [Node -> [Node -> Nat \ {0}]]
    BY <1>1 DEF NodeTypeOK
  <2>2. \A a \in Node \ {n} : match'[a] = match[a] /\ next'[a] = next[a]
    BY <1>2, <2>1
  <2>3. match'[n] = [p \in Node |-> 0] /\ next'[n] = [p \in Node |-> Len(log[n]) + 1]
    BY <1>2, <2>1
  <2> QED
    BY <2>2, <2>3
<1>8. OthersStay(n) /\ RoleStep(n)
  BY <1>2, <1>4, <1>5, <1>7 DEF OthersStay, RoleStep
<1>9. \A v \in S : Backs(v, T, n)
  BY <1>0, <1>2, <1>3 DEF Backs
<1>10. /\ led[T] = << >>
       /\ \A t \in Nat : t < T =>
            \A k \in 1 .. Len(led[t]) : Safe(led, acked, k, t) => Holds(log[n], k, t)
  BY <1>0, <1>2, <1>6, <1>9, WinnersAreBacked
<1>11. \A a \in Node \ {n} : role[a] = "Leader" => term[a] # T
  BY <1>1, <1>10 DEF LogInv, LeadersKnow, LeaderKnows
<1>12. Elected(T, n)'
  <2> DEFINE Q == {v \in Node : Settled(v, T, n)'}
  <2>1. \A v \in S : Backs(v, T, n)'
    BY <1>0, <1>2, <1>5, <1>6 DEF Backs
  <2>2. S \subseteq Q
    <3> SUFFICES ASSUME NEW v \in S PROVE Settled(v, T, n)'
      BY <1>6
    <3>1. Backs(v, T, n)' /\ v \in Node
      BY <1>6, <2>1
    <3>2. T <= term'[v] /\ (T = term'[v] => vote'[v] = n)
      BY <1>1, <1>3, <3>1 DEF BackingIsKept
    <3>3. \A b \in Node : Backs(v, T, b)' => b = n
      BY <1>1, <1>3, <3>1 DEF BackingIsUnique
    <3> QED
      BY <1>2, <3>2, <3>3 DEF Settled
  <2>3. IsMajority(Q)
    BY <1>2, <1>6, <2>2, MajorityGrows
  <2> QED
    BY <1>0, <1>2, <1>5, <2>3 DEF Elected, IsMajority
<1>13. \A p \in Node : /\ next'[n][p] <= Len(log[n]) + 1
                       /\ match'[n][p] <= acked[p][T]
  <2> TAKE p \in Node
  <2>1. acked[p][T] \in Nat /\ Len(log[n]) \in Nat
    BY <1>1, <1>3, PastTypes, TermTypes
  <2> QED
    BY <1>0, <1>7, <2>1, UpOne
<1>14. \A g \in network' : g \in network \/ \E p \in Node : g = AppendTo(n, p)'
  BY <1>2 DEF Appends
<1>15. term[n] = T /\ term'[n] = T /\ commit'[n] = commit[n]
  BY <1>0, <1>2
<1>16. (\E a \in Node : Elected(T, a))'
  BY <1>12
<1> HIDE DEF S
<1> QED
  BY <1>3, <1>4, <1>5, <1>8, <1>10, <1>11, <1>13, <1>14, <1>15, <1>16, LeadStep

-----------------------------------------------------------------------------
(* Every step of the cluster.                                              *)

LEMMA SomeNode == \E n \in Node : TRUE
<1> SUFFICES ASSUME Node = {} PROVE FALSE
  OBVIOUS
<1>1. Cardinality(Node) = 0
  BY FS_EmptySet
<1> QED
  BY <1>1, NodeAssumption

\* A step in which nodes at most lose messages or apply entries.
LEMMA StillLog ==
  ASSUME NEW led, NEW acked, Known(led, acked),
         UNCHANGED <<role, term, log, commit, next, match>>, network' \subseteq network
  PROVE  LogStep(led, acked, led, acked)
<1>1. PICK n \in Node : TRUE
  BY SomeNode
<1>2. NewMessagesAreTrue(led, acked)
  BY DEF NewMessagesAreTrue
<1> QED
  BY <1>2, FollowLog

LEMMA StepLogs ==
  ASSUME NEW led, NEW acked, Known(led, acked), NEW n \in Node, NEW m \in network,
         m.to = n, Step(n, m)
  PROVE  \E led2, acked2 : LogStep(led, acked, led2, acked2)
<1>1. CASE GrantVote(n, m) \/ DenyVote(n, m)
  BY <1>1, GrantVoteLog
<1>2. CASE CountVote(n, m) \/ LoseElection(n, m) \/ Ignore(n, m)
  BY <1>2, CountVoteLog
<1>3. CASE WinElection(n, m)
  BY <1>3, WinElectionLog
<1>4. CASE AppendBelowCommit(n, m)
  BY <1>4, AppendBelowCommitLog
<1>5. CASE AppendAccept(n, m)
  BY <1>5, AcceptLog
<1>6. CASE AppendReject(n, m)
  BY <1>6, AppendRejectLog
<1>7. CASE HandleAppended(n, m)
  BY <1>7, AppendedLog
<1>8. CASE HandleRejected(n, m)
  BY <1>8, HandleRejectedLog
<1> QED
  BY <1>1, <1>2, <1>3, <1>4, <1>5, <1>6, <1>7, <1>8 DEF Step

LEMMA NextLogs ==
  ASSUME NEW led, NEW acked, Known(led, acked), [Next]_vars
  PROVE  \E led2, acked2 : LogStep(led, acked, led2, acked2)
<1>1. CASE UNCHANGED nodeVars
  <2>1. UNCHANGED <<role, term, log, commit, next, match, network>>
    BY <1>1 DEF nodeVars, electionVars, logVars, progressVars
  <2> QED
    BY <2>1, StillLog
<1>2. ASSUME NEW c \in Call, Request(c)
      PROVE  \E led2, acked2 : LogStep(led, acked, led2, acked2)
  <2>1. PICK n \in Node : \/ PutOnLeader(c, n) \/ PutRefused(c, n)
                          \/ Campaign(c, n) \/ CallFails(c, n)
    BY <1>2 DEF Request
  <2>2. Propose(n, c) \/ Hup(n) \/ UNCHANGED nodeVars
    BY <2>1 DEF PutOnLeader, PutRefused, Campaign, CallFails
  <2>3. CASE Propose(n, c)
    BY <2>3, ProposeLog
  <2>4. CASE Hup(n)
    BY <2>4, HupLog
  <2> QED
    BY <1>1, <2>2, <2>3, <2>4
<1>3. ASSUME NEW n \in Node, ElectionTimeout(n)
      PROVE  \E led2, acked2 : LogStep(led, acked, led2, acked2)
  BY <1>3, HupLog DEF ElectionTimeout
<1>4. ASSUME NEW n \in Node, Heartbeat(n)
      PROVE  \E led2, acked2 : LogStep(led, acked, led2, acked2)
  BY <1>4, HeartbeatLog DEF Heartbeat
<1>5. ASSUME NEW n \in Node, Ready(n)
      PROVE  \E led2, acked2 : LogStep(led, acked, led2, acked2)
  <2>1. UNCHANGED <<role, term, log, commit, next, match, network>>
    BY <1>5 DEF Ready, ApplyEntry, electionVars, logVars, progressVars
  <2> QED
    BY <2>1, StillLog
<1>6. ASSUME NEW m \in network, Receive(m.to, m)
      PROVE  \E led2, acked2 : LogStep(led, acked, led2, acked2)
  <2>1. m.to \in Node
    BY MessageFields DEF Known
  <2> QED
    BY <1>6, <2>1, StepLogs DEF Receive
<1>7. ASSUME NEW m \in network, Lose(m)
      PROVE  \E led2, acked2 : LogStep(led, acked, led2, acked2)
  <2>1. /\ UNCHANGED <<role, term, log, commit, next, match>>
        /\ network' \subseteq network
    BY <1>7 DEF Lose, electionVars, logVars, progressVars
  <2> QED
    BY <2>1, StillLog
<1> QED
  BY <1>1, <1>2, <1>3, <1>4, <1>5, <1>6, <1>7 DEF Next, Stop, vars

-----------------------------------------------------------------------------
(* The inductive invariant and what it means.                              *)

ClusterInv == ElectionInv /\ \E led, acked : LogInv(led, acked)

\* In the beginning nothing has been led or acknowledged.
LEMMA LogInvInit ==
  Init => \E led, acked : LogInv(led, acked) /\ \A t \in Nat : led[t] = << >>
<1> SUFFICES ASSUME Init
             PROVE  \E led, acked :
                      LogInv(led, acked) /\ \A t \in Nat : led[t] = << >>
  OBVIOUS
<1>1. PICK led \in [Nat -> Seq(Entry)] : led = [t \in Nat |-> << >>]
  <2>1. << >> \in Seq(Entry)
    OBVIOUS
  <2> QED
    BY <2>1
<1>2. PICK acked \in [Node -> [Nat -> Nat]] : acked = [v \in Node |-> [t \in Nat |-> 0]]
  OBVIOUS
<1>3. /\ \A t \in Nat : led[t] = << >> /\ Len(led[t]) = 0
      /\ \A v \in Node : \A t \in Nat : acked[v][t] = 0
      /\ \A i \in 1 .. 0 : FALSE
  BY <1>1, <1>2
<1>4. /\ network = {}
      /\ \A n \in Node : role[n] = "Follower" /\ log[n] = << >> /\ commit[n] = 0
  BY DEF Init, NodeInit
<1>5. Past(led, acked) /\ LedLogs(led) /\ AcksInRange(led, acked)
  BY <1>3 DEF Past, LedLogs, Fits, AcksInRange
<1>6. TermsAreWon(led) /\ NodeLogs(led) /\ LeadersKnow(led, acked)
  BY <1>3, <1>4 DEF TermsAreWon, NodeLogs, Fits, LeadersKnow
<1>7. /\ AcksAreKept(led, acked) /\ VotesAreSafe(led, acked)
      /\ LeadersAreComplete(led, acked)
  BY <1>3, <1>4 DEF AcksAreKept, VotesAreSafe, LeadersAreComplete
<1>8. CommitsAreChosen(led, acked) /\ MessagesAreTrue(led, acked)
  BY <1>4 DEF CommitsAreChosen, CommitIsChosen, MessagesAreTrue
<1>9. LogInv(led, acked)
  BY <1>5, <1>6, <1>7, <1>8 DEF LogInv
<1> QED
  BY <1>3, <1>9

LEMMA ClusterInvInit == Init => ClusterInv
  BY LogInvInit, InitElection DEF ClusterInv

LEMMA ClusterInvNext == ClusterInv /\ [Next]_vars => ClusterInv'
<1> SUFFICES ASSUME ClusterInv, [Next]_vars
             PROVE  ClusterInv'
  OBVIOUS
<1>1. ElectionInv /\ ElectionInv'
  BY ElectionInvStep DEF ClusterInv
<1>2. PICK led, acked : LogInv(led, acked)
  BY DEF ClusterInv
<1>3. NodeTypeOK /\ NodeTypeOK' /\ LogBounds /\ LeaderHasMajority
  BY <1>1 DEF ElectionInv, TypeOK
<1>4. ElectionSafety /\ VoteStep
  BY <1>1, <1>3, ElectionInvIsSafe, NextVotes
<1>5. Known(led, acked)
  BY <1>1, <1>2, <1>3, <1>4 DEF Known, ElectionInv
<1>6. PICK led2, acked2 : LogStep(led, acked, led2, acked2)
  BY <1>5, NextLogs
<1>7. Steps(led, acked, led2, acked2)
  BY <1>5, <1>6 DEF Steps, Known
<1>8. LogInv(led2, acked2)'
  BY <1>7, LogInvNext
<1>9. (\E x, y : LogInv(x, y))'
  BY <1>8
<1> QED
  BY <1>1, <1>9 DEF ClusterInv

\* In every reachable state the logs, votes, messages and commit indexes are what
\* some record of the leaders' logs and of the acknowledgements explains.
THEOREM ClusterInvariant == Spec => []ClusterInv
  BY ClusterInvInit, ClusterInvNext, PTL DEF Spec

\* What two nodes have committed they have in common with the log of one leader.
LEMMA CommittedIsLed ==
  ASSUME NodeTypeOK, NEW led, NEW acked, LogInv(led, acked),
         NEW a \in Node, NEW b \in Node
  PROVE  \A i \in 1 .. Smaller(commit[a], commit[b]) : log[a][i] = log[b][i]
<1> SUFFICES ASSUME NEW i \in 1 .. Smaller(commit[a], commit[b])
             PROVE  log[a][i] = log[b][i]
  OBVIOUS
<1>1. /\ commit[a] \in Nat /\ commit[b] \in Nat /\ term[a] \in Nat /\ term[b] \in Nat
      /\ Past(led, acked) /\ LedLogs(led) /\ LeadersAreComplete(led, acked)
  BY DEF NodeTypeOK, LogInv
<1>2. i \in 1 .. commit[a] /\ i \in 1 .. commit[b]
  BY <1>1 DEF Smaller
<1>3. ASSUME NEW n \in Node, i \in 1 .. commit[n], term[n] \in Nat, commit[n] \in Nat
      PROVE  \E t \in Nat : \E k \in 1 .. Len(led[t]) :
               i <= k /\ Chosen(led, acked, k, t) /\ log[n][i] = led[t][i]
  <2>1. commit[n] # 0
    BY <1>3
  <2>2. PICK t \in 0 .. term[n] : \E k \in 1 .. Len(led[t]) :
          /\ commit[n] <= k /\ Chosen(led, acked, k, t)
          /\ Same(log[n], led[t], commit[n])
    BY <2>1 DEF LogInv, CommitsAreChosen, CommitIsChosen
  <2>3. PICK k \in 1 .. Len(led[t]) :
          /\ commit[n] <= k /\ Chosen(led, acked, k, t)
          /\ Same(log[n], led[t], commit[n])
    BY <2>2
  <2>4. t \in Nat /\ i <= k /\ log[n][i] = led[t][i]
    BY <1>3, <2>3 DEF Same
  <2> QED
    BY <2>3, <2>4
<1>4. ASSUME NEW t \in Nat, NEW s \in Nat, t <= s,
             NEW k \in 1 .. Len(led[t]), i <= k, Chosen(led, acked, k, t),
             NEW j \in 1 .. Len(led[s])
      PROVE  led[s][i] = led[t][i]
  <2>1. led[s] # << >> /\ i \in Nat /\ i \in 1 .. i
    BY <1>1, <1>2, <1>4, PastTypes
  <2>2. Same(led[s], led[t], i)
    BY <1>1, <1>4, <2>1, CoveredIsLed
  <2> QED
    BY <2>1, <2>2 DEF Same
<1>5. PICK t \in Nat : \E k \in 1 .. Len(led[t]) :
        i <= k /\ Chosen(led, acked, k, t) /\ log[a][i] = led[t][i]
  BY <1>1, <1>2, <1>3
<1>6. PICK s \in Nat : \E k \in 1 .. Len(led[s]) :
        i <= k /\ Chosen(led, acked, k, s) /\ log[b][i] = led[s][i]
  BY <1>1, <1>2, <1>3
<1>7. led[s][i] = led[t][i]
  <2>1. CASE t <= s
    BY <1>4, <1>5, <1>6, <2>1
  <2>2. CASE s <= t
    BY <1>4, <1>5, <1>6, <2>2
  <2> QED
    BY <2>1, <2>2
<1> QED
  BY <1>5, <1>6, <1>7

LEMMA ClusterInvIsSafe == ClusterInv => StateMachineSafety
  BY CommittedIsLed DEF ClusterInv, ElectionInv, TypeOK, StateMachineSafety

\* No two nodes ever hold different committed entries at the same index, for any
\* number of nodes, terms, entries and lost or delayed messages.
THEOREM CommittedIsAgreed == Spec => []StateMachineSafety
  BY ClusterInvariant, ClusterInvIsSafe, PTL

-----------------------------------------------------------------------------
(* Logs and leaders.                                                       *)

\* Both logs are up to i what the leader of that entry's term had.
LEMMA LogsMatch ==
  ASSUME NodeTypeOK, NEW led, NEW acked, LogInv(led, acked),
         NEW a \in Node, NEW b \in Node,
         NEW i \in 1 .. Smaller(Len(log[a]), Len(log[b])), log[a][i].term = log[b][i].term
  PROVE  \A j \in 1 .. i : log[a][j] = log[b][j]
<1>1. Len(log[a]) \in Nat /\ Len(log[b]) \in Nat
  BY TermTypes
<1>2. i \in 1 .. Len(log[a]) /\ i \in 1 .. Len(log[b])
  BY <1>1 DEF Smaller
<1> DEFINE l == led[log[a][i].term]
<1>3. Same(log[a], l, i) /\ Same(log[b], l, i)
  BY <1>2 DEF LogInv, NodeLogs, Fits
<1> HIDE DEF l
<1> QED
  BY <1>3 DEF Same

\* What was chosen in an earlier term is in a leader's log by LeadersAreComplete,
\* and what was chosen in its own term is in it because it proposed it.
LEMMA LeaderHolds ==
  ASSUME NodeTypeOK, NEW led, NEW acked, LogInv(led, acked),
         NEW a \in Node, NEW b \in Node, role[a] = "Leader", term[b] <= term[a],
         NEW i \in 1 .. commit[b]
  PROVE  i <= Len(log[a]) /\ log[a][i] = log[b][i]
<1>1. /\ commit[b] \in Nat /\ term[a] \in Nat /\ term[b] \in Nat
      /\ Len(log[a]) \in Nat /\ i \in Nat /\ commit[b] # 0 /\ Past(led, acked)
  BY TermTypes DEF LogInv
<1>2. PICK t \in 0 .. term[b] : \E k \in 1 .. Len(led[t]) :
        /\ commit[b] <= k /\ Chosen(led, acked, k, t)
        /\ Same(log[b], led[t], commit[b])
  BY <1>1 DEF LogInv, CommitsAreChosen, CommitIsChosen
<1>3. PICK k \in 1 .. Len(led[t]) :
        /\ commit[b] <= k /\ Chosen(led, acked, k, t)
        /\ Same(log[b], led[t], commit[b])
  BY <1>2
<1>4. t \in Nat /\ t <= term[a] /\ Len(led[t]) \in Nat /\ i \in 1 .. k
  BY <1>1, <1>3, PastTypes
<1>5. log[b][i] = led[t][i]
  BY <1>3 DEF Same
<1>6. log[a] = led[term[a]] /\ log[a] # << >>
  BY DEF LogInv, LeadersKnow, LeaderKnows
<1>7. k \in 1 .. Len(log[a]) /\ Same(log[a], led[t], k)
  <2>1. CASE t = term[a]
    BY <1>3, <1>6, <2>1 DEF Same
  <2>2. CASE t < term[a]
    <3>1. Safe(led, acked, k, t)
      BY <1>1, <1>3, ChosenIsSafe
    <3>2. Holds(log[a], k, t)
      BY <1>1, <1>4, <1>6, <2>2, <3>1 DEF LogInv, LeadersAreComplete
    <3> QED
      BY <3>2 DEF Holds, LogInv, NodeLogs, Fits
  <2> QED
    BY <1>1, <1>4, <2>1, <2>2
<1>8. i <= Len(log[a])
  BY <1>1, <1>4, <1>7
<1> QED
  BY <1>4, <1>5, <1>7, <1>8 DEF Same

\* Two logs that have an entry of one term at one index are the same up to it,
\* for any number of leaders whose appends were refused, cut or overtaken.
THEOREM LogsAgreeBelow == Spec => []LogMatching
<1>1. ClusterInv => LogMatching
  <2> SUFFICES ASSUME ClusterInv PROVE LogMatching
    OBVIOUS
  <2>1. NodeTypeOK /\ \E led, acked : LogInv(led, acked)
    BY DEF ClusterInv, ElectionInv, TypeOK
  <2> QED
    BY <2>1, LogsMatch DEF LogMatching
<1> QED
  BY <1>1, ClusterInvariant, PTL

\* A leader has what any node of its term or an earlier one has committed, so
\* an election never loses a decided PUT.
THEOREM NoElectionLosesEntries == Spec => []LeadersHaveCommitted
<1>1. ClusterInv => LeadersHaveCommitted
  <2> SUFFICES ASSUME ClusterInv PROVE LeadersHaveCommitted
    OBVIOUS
  <2>1. NodeTypeOK /\ \E led, acked : LogInv(led, acked)
    BY DEF ClusterInv, ElectionInv, TypeOK
  <2> QED
    BY <2>1, LeaderHolds DEF LeadersHaveCommitted
<1> QED
  BY <1>1, ClusterInvariant, PTL
=============================================================================

--------------------------- MODULE RaftStoreProofs ---------------------------
(***************************************************************************)
(* What agreement on the committed entries gives to callers and stores: an *)
(* acknowledged PUT is held by a majority, stores that have applied as     *)
(* many entries are equal, and the cluster implements ReplicatedStore.     *)
(***************************************************************************)
EXTENDS RaftLogProofs

-----------------------------------------------------------------------------
(* Acknowledged PUTs.                                                      *)

\* Every committed entry is on a majority of the nodes, at its index.
LEMMA CommittedIsHeld ==
  ASSUME NodeTypeOK, NEW led, NEW acked, LogInv(led, acked),
         NEW n \in Node, NEW i \in 1 .. commit[n]
  PROVE  IsMajority({v \in Node : i \in 1 .. Len(log[v]) /\ log[v][i] = log[n][i]})
<1> DEFINE Holders == {v \in Node : i \in 1 .. Len(log[v]) /\ log[v][i] = log[n][i]}
<1>1. /\ commit[n] \in Nat /\ term[n] \in Nat /\ i \in Nat /\ commit[n] # 0
      /\ Past(led, acked)
  BY DEF NodeTypeOK, LogInv
<1>2. PICK t \in 0 .. term[n] : \E k \in 1 .. Len(led[t]) :
        /\ commit[n] <= k /\ Chosen(led, acked, k, t)
        /\ Same(log[n], led[t], commit[n])
  BY <1>1 DEF LogInv, CommitsAreChosen, CommitIsChosen
<1>3. PICK k \in 1 .. Len(led[t]) :
        /\ commit[n] <= k /\ Chosen(led, acked, k, t)
        /\ Same(log[n], led[t], commit[n])
  BY <1>2
<1>4. t \in Nat /\ k \in Nat /\ log[n][i] = led[t][i]
  BY <1>1, <1>3, PastTypes DEF Same
<1> DEFINE Ackers == {v \in Node : acked[v][t] >= k}
<1>5. IsMajority(Ackers) /\ Safe(led, acked, k, t)
  BY <1>1, <1>3, ChosenIsSafe DEF Chosen
<1>6. ASSUME NEW v \in Node, acked[v][t] >= k
      PROVE  i \in 1 .. Len(log[v]) /\ log[v][i] = log[n][i]
  <2>1. acked[v][t] \in Nat /\ Len(log[v]) \in Nat
    BY <1>1, <1>4, PastTypes, TermTypes
  <2>2. k \in 1 .. acked[v][t]
    BY <1>3, <1>4, <1>6, <2>1
  <2>3. Holds(log[v], k, t)
    BY <1>4, <1>5, <2>2 DEF LogInv, AcksAreKept
  <2>4. k \in 1 .. Len(log[v]) /\ log[v][k].term = t
    BY <2>3 DEF Holds
  <2>5. Same(log[v], led[t], k)
    BY <2>4 DEF LogInv, NodeLogs, Fits
  <2>6. i \in 1 .. k /\ i \in 1 .. Len(log[v])
    BY <1>1, <1>3, <1>4, <2>1, <2>4
  <2> QED
    BY <1>4, <2>5, <2>6 DEF Same
<1>7. Ackers \subseteq Holders
  BY <1>6
<1>8. IsMajority(Holders)
  BY <1>5, <1>7, MajorityGrows
<1> QED
  BY <1>8

LEMMA AcksAreHeld == ClusterInv /\ CallsInv => AckedPutIsReplicated
<1> SUFFICES ASSUME ClusterInv, CallsInv, NEW c \in PutCall, answer[c] = "ok"
             PROVE  IsMajority({n \in Node : \E i \in 1 .. Len(log[n]) :
                      log[n][i].call # None /\ SameCommand(log[n][i].call, c)})
  BY DEF AckedPutIsReplicated
<1> DEFINE Holders == {n \in Node : \E i \in 1 .. Len(log[n]) :
                         log[n][i].call # None /\ SameCommand(log[n][i].call, c)}
<1>1. PICK n \in Node : HasApplied(n, c)
  BY DEF CallsInv, HomeIsKnown, AckedPutApplied, PutCall
<1>2. PICK i \in 1 .. applied[n] :
        log[n][i].call # None /\ SameCommand(log[n][i].call, c)
  BY <1>1 DEF HasApplied
<1>3. i \in 1 .. commit[n] /\ NodeTypeOK
  <2>1. applied[n] \in Nat /\ commit[n] \in Nat /\ applied[n] <= commit[n] /\ NodeTypeOK
    BY DEF CallsInv, TypeOK, NodeTypeOK, LogBounds
  <2> QED
    BY <2>1
<1>4. PICK led, acked : LogInv(led, acked)
  BY DEF ClusterInv
<1> DEFINE Same_i == {v \in Node : i \in 1 .. Len(log[v]) /\ log[v][i] = log[n][i]}
<1>5. IsMajority(Same_i)
  BY <1>3, <1>4, CommittedIsHeld
<1>6. Same_i \subseteq Holders
  BY <1>2
<1>7. IsMajority(Holders)
  BY <1>5, <1>6, MajorityGrows
<1> QED
  BY <1>7

\* A PUT that was answered Ok is in the logs of a majority, at every later
\* moment: whoever may still be elected has met one of them.
THEOREM AcksAreReplicated == Spec => []AckedPutIsReplicated
<1>1. Init => ClusterInv /\ CallsInv
  BY ClusterInvInit, CallsInit
<1>2. (ClusterInv /\ CallsInv) /\ [Next]_vars => (ClusterInv /\ CallsInv)'
  BY ClusterInvNext, CallsNext
<1> QED
  BY <1>1, <1>2, AcksAreHeld, PTL DEF Spec

-----------------------------------------------------------------------------
(* Stores.                                                                 *)

\* Entry e is a PUT to k.
Writes(e, k) == e.call # None /\ KeyOf[e.call] = k

\* Store s has under each key what the last of the first x entries of l that
\* write to it wrote.
IsStoreOf(s, l, x) ==
  \A k \in Key :
    \/ s[k] = None /\ \A i \in 1 .. x : ~Writes(l[i], k)
    \/ \E i \in 1 .. x :
         /\ Writes(l[i], k) /\ s[k] = ValueOf[l[i].call]
         /\ \A j \in 1 .. x : Writes(l[j], k) => j <= i

StoresAreOfLogs == \A n \in Node : IsStoreOf(store[n], log[n], applied[n])

\* The entries say what the store is.
LEMMA StoreIsOne ==
  ASSUME NEW x \in Nat, NEW l, NEW m, Same(l, m, x),
         NEW s \in [Key -> Value \cup {None}], NEW r \in [Key -> Value \cup {None}],
         IsStoreOf(s, l, x), IsStoreOf(r, m, x)
  PROVE  s = r
<1> SUFFICES ASSUME NEW k \in Key PROVE s[k] = r[k]
  OBVIOUS
<1>1. \A i \in 1 .. x : l[i] = m[i]
  BY DEF Same
<1>2. CASE \A i \in 1 .. x : ~Writes(l[i], k)
  <2>1. \A i \in 1 .. x : ~Writes(m[i], k)
    BY <1>1, <1>2
  <2>2. s[k] = None /\ r[k] = None
    BY <1>2, <2>1 DEF IsStoreOf
  <2> QED
    BY <2>2
<1>3. CASE \E i \in 1 .. x : Writes(l[i], k)
  <2>1. \E i \in 1 .. x : Writes(m[i], k)
    BY <1>1, <1>3
  <2>2. PICK i \in 1 .. x : /\ Writes(l[i], k) /\ s[k] = ValueOf[l[i].call]
                            /\ \A j \in 1 .. x : Writes(l[j], k) => j <= i
    BY <1>3 DEF IsStoreOf
  <2>3. PICK i2 \in 1 .. x : /\ Writes(m[i2], k) /\ r[k] = ValueOf[m[i2].call]
                             /\ \A j \in 1 .. x : Writes(m[j], k) => j <= i2
    BY <2>1 DEF IsStoreOf
  <2>4. i <= i2 /\ i2 <= i
    BY <1>1, <2>2, <2>3
  <2>5. i = i2
    BY <2>4
  <2> QED
    BY <1>1, <2>2, <2>3, <2>5
<1> QED
  BY <1>2, <1>3

LEMMA StoreKept ==
  ASSUME NEW s, NEW l, NEW m, NEW x \in Nat, Same(l, m, x), IsStoreOf(s, l, x)
  PROVE  IsStoreOf(s, m, x)
<1> SUFFICES ASSUME NEW k \in Key
             PROVE  \/ s[k] = None /\ \A i \in 1 .. x : ~Writes(m[i], k)
                    \/ \E i \in 1 .. x :
                         /\ Writes(m[i], k) /\ s[k] = ValueOf[m[i].call]
                         /\ \A j \in 1 .. x : Writes(m[j], k) => j <= i
  BY DEF IsStoreOf
<1>1. \A i \in 1 .. x : l[i] = m[i]
  BY DEF Same
<1>2. \/ s[k] = None /\ \A i \in 1 .. x : ~Writes(l[i], k)
      \/ \E i \in 1 .. x :
           /\ Writes(l[i], k) /\ s[k] = ValueOf[l[i].call]
           /\ \A j \in 1 .. x : Writes(l[j], k) => j <= i
  BY DEF IsStoreOf
<1> QED
  BY <1>1, <1>2, Zenon

\* One more entry applied.
LEMMA StoreGrows ==
  ASSUME NEW s \in [Key -> Value \cup {None}], NEW r, NEW l, NEW x \in Nat,
         IsStoreOf(s, l, x),
         l[x + 1].call = None => r = s,
         l[x + 1].call # None =>
           r = [s EXCEPT ![KeyOf[l[x + 1].call]] = ValueOf[l[x + 1].call]]
  PROVE  IsStoreOf(r, l, x + 1)
<1> SUFFICES ASSUME NEW k \in Key
             PROVE  \/ r[k] = None /\ \A i \in 1 .. x + 1 : ~Writes(l[i], k)
                    \/ \E i \in 1 .. x + 1 :
                         /\ Writes(l[i], k) /\ r[k] = ValueOf[l[i].call]
                         /\ \A j \in 1 .. x + 1 : Writes(l[j], k) => j <= i
  BY DEF IsStoreOf
<1>1. \A i \in 1 .. x + 1 : i \in 1 .. x \/ i = x + 1
  OBVIOUS
<1>2. CASE Writes(l[x + 1], k)
  <2>1. r[k] = ValueOf[l[x + 1].call]
    BY <1>2 DEF Writes
  <2>2. \A j \in 1 .. x + 1 : j <= x + 1
    OBVIOUS
  <2>3. x + 1 \in 1 .. x + 1
    OBVIOUS
  <2> QED
    BY <1>2, <2>1, <2>2, <2>3
<1>3. CASE ~Writes(l[x + 1], k)
  <2>1. r[k] = s[k]
    BY <1>3 DEF Writes
  <2>2. \/ s[k] = None /\ \A i \in 1 .. x : ~Writes(l[i], k)
        \/ \E i \in 1 .. x :
             /\ Writes(l[i], k) /\ s[k] = ValueOf[l[i].call]
             /\ \A j \in 1 .. x : Writes(l[j], k) => j <= i
    BY DEF IsStoreOf
  <2>3. \A i \in 1 .. x : i \in 1 .. x + 1
    OBVIOUS
  <2> QED
    BY <1>1, <1>3, <2>1, <2>2, <2>3, Zenon
<1> QED
  BY <1>2, <1>3

\* Only the ready state touches the stores.
LEMMA NextStores ==
  ASSUME TypeOK, [Next]_vars
  PROVE  UNCHANGED <<applied, store>> \/ \E n \in Node : ApplyEntry(n)
<1> SUFFICES UNCHANGED storeVars \/ \E n \in Node : ApplyEntry(n)
  BY DEF storeVars
<1>1. ASSUME NEW c \in Call, Request(c)
      PROVE  UNCHANGED storeVars
  <2>1. PICK n \in Node : Propose(n, c) \/ Hup(n) \/ UNCHANGED nodeVars
    BY <1>1 DEF Request, PutOnLeader, PutRefused, Campaign, CallFails
  <2> QED
    BY <2>1 DEF Propose, Hup, nodeVars
<1>2. ASSUME NEW n \in Node, ElectionTimeout(n) \/ Heartbeat(n) \/ Stop(n)
      PROVE  UNCHANGED storeVars
  BY <1>2 DEF ElectionTimeout, Hup, Heartbeat, HeartbeatTick, Stop, nodeVars
<1>3. ASSUME NEW m \in network, Receive(m.to, m)
      PROVE  UNCHANGED storeVars
  <2>1. Step(m.to, m)
    BY <1>3 DEF Receive
  <2> QED
    BY <2>1 DEF Step, GrantVote, DenyVote, CountVote, WinElection, LoseElection,
      AppendBelowCommit, AppendAccept, AppendReject, HandleAppended, HandleRejected,
      Ignore
<1>4. ASSUME NEW m \in network, Lose(m)
      PROVE  UNCHANGED storeVars
  BY <1>4 DEF Lose
<1>5. ASSUME NEW n \in Node, Ready(n)
      PROVE  ApplyEntry(n)
  BY <1>5 DEF Ready
<1> QED
  BY <1>1, <1>2, <1>3, <1>4, <1>5 DEF Next, vars, nodeVars

LEMMA StoresStep ==
  ASSUME TypeOK, LogBounds, StoresAreOfLogs, [Next]_vars
  PROVE  StoresAreOfLogs'
<1>1. TypeOK' /\ CommittedIsKept
  BY NextType
<1>2. ASSUME NEW n \in Node
      PROVE  /\ applied[n] \in Nat /\ commit[n] \in Nat /\ applied[n] <= commit[n]
             /\ store[n] \in [Key -> Value \cup {None}]
             /\ IsStoreOf(store[n], log[n], applied[n])
             /\ Same(log[n], log'[n], applied[n])
  <2>1. /\ applied[n] \in Nat /\ commit[n] \in Nat /\ applied[n] <= commit[n]
        /\ store[n] \in [Key -> Value \cup {None}]
    BY DEF TypeOK, NodeTypeOK, LogBounds
  <2>2. \A i \in 1 .. applied[n] : i \in 1 .. commit[n]
    BY <2>1
  <2> QED
    BY <1>1, <2>1, <2>2 DEF StoresAreOfLogs, CommittedIsKept, Same
<1>3. ASSUME NEW n \in Node, applied'[n] = applied[n], store'[n] = store[n]
      PROVE  IsStoreOf(store'[n], log'[n], applied'[n])
  BY <1>2, <1>3, StoreKept
<1>4. CASE UNCHANGED <<applied, store>>
  BY <1>3, <1>4 DEF StoresAreOfLogs
<1>5. ASSUME NEW n \in Node, ApplyEntry(n)
      PROVE  StoresAreOfLogs'
  <2> DEFINE c == log[n][applied[n] + 1].call
  <2>1. /\ applied' = [applied EXCEPT ![n] = applied[n] + 1]
        /\ c = None => store' = store
        /\ c # None => store' = [store EXCEPT ![n][KeyOf[c]] = ValueOf[c]]
        /\ log' = log
    BY <1>5 DEF ApplyEntry, logVars
  <2>2. ASSUME NEW x \in Node, x # n
        PROVE  IsStoreOf(store'[x], log'[x], applied'[x])
    <3>1. applied'[x] = applied[x] /\ store'[x] = store[x]
      BY <2>1, <2>2 DEF TypeOK, NodeTypeOK
    <3> QED
      BY <1>3, <3>1
  <2>3. applied'[n] = applied[n] + 1
    BY <2>1 DEF TypeOK, NodeTypeOK
  <2>4. /\ c = None => store'[n] = store[n]
        /\ c # None => store'[n] = [store[n] EXCEPT ![KeyOf[c]] = ValueOf[c]]
    BY <2>1 DEF TypeOK, NodeTypeOK
  <2>5. IsStoreOf(store'[n], log[n], applied[n] + 1)
    BY <1>2, <2>4, StoreGrows
  <2> QED
    BY <2>1, <2>2, <2>3, <2>5 DEF StoresAreOfLogs
<1> QED
  BY <1>4, <1>5, NextStores

StoreInv == ClusterInv /\ StoresAreOfLogs

LEMMA StoresInit == Init => StoresAreOfLogs
<1> SUFFICES ASSUME Init, NEW n \in Node
             PROVE  IsStoreOf(store[n], log[n], applied[n])
  BY DEF StoresAreOfLogs
<1>1. applied[n] = 0 /\ store[n] = [k \in Key |-> None] /\ \A i \in 1 .. 0 : FALSE
  BY DEF Init, NodeInit
<1> QED
  BY <1>1 DEF IsStoreOf

LEMMA StoreInvConverges == StoreInv => StoresConverge
<1> SUFFICES ASSUME StoreInv, NEW a \in Node, NEW b \in Node, applied[a] = applied[b]
             PROVE  store[a] = store[b]
  BY DEF StoresConverge
<1>1. StateMachineSafety /\ TypeOK /\ LogBounds /\ StoresAreOfLogs
  BY ClusterInvIsSafe DEF StoreInv, ClusterInv, ElectionInv
<1>2. /\ applied[a] \in Nat /\ applied[a] <= commit[a] /\ applied[a] <= commit[b]
      /\ commit[a] \in Nat /\ commit[b] \in Nat
      /\ store[a] \in [Key -> Value \cup {None}]
      /\ store[b] \in [Key -> Value \cup {None}]
  BY <1>1 DEF TypeOK, NodeTypeOK, LogBounds
<1>3. \A i \in 1 .. applied[a] : i \in 1 .. Smaller(commit[a], commit[b])
  BY <1>2 DEF Smaller
<1>4. Same(log[a], log[b], applied[a])
  BY <1>1, <1>3 DEF Same, StateMachineSafety
<1>5. /\ IsStoreOf(store[a], log[a], applied[a])
      /\ IsStoreOf(store[b], log[b], applied[a])
  BY <1>1 DEF StoresAreOfLogs
<1> QED
  BY <1>2, <1>4, <1>5, StoreIsOne

\* Two nodes that have applied as many entries have the same store, however
\* their logs differ beyond that.
THEOREM StoresAgree == Spec => []StoresConverge
<1>1. Init => StoreInv
  BY ClusterInvInit, StoresInit DEF StoreInv
<1>2. StoreInv /\ [Next]_vars => StoreInv'
  BY ClusterInvNext, StoresStep DEF StoreInv, ClusterInv, ElectionInv
<1> QED
  BY <1>1, <1>2, StoreInvConverges, PTL DEF Spec

-----------------------------------------------------------------------------
(* What is decided.                                                        *)

\* Among finitely many nodes some has committed most.
LEMMA SomeForemost ==
  ASSUME NodeTypeOK
  PROVE  Foremost \in Node /\ \A m \in Node : commit[m] <= commit[Foremost]
<1> DEFINE Above(n) == {m \in Node : commit[n] < commit[m]}
           Sets == {Above(n) : n \in Node}
<1>1. IsFiniteSet(Node) /\ \A n \in Node : commit[n] \in Nat
  BY NodeAssumption DEF NodeTypeOK
<1>2. IsWellFoundedOn(StrictSubsetOrdering(Node), SUBSET Node)
  BY <1>1, FS_StrictSubsetOrderingWellFounded, FS_FiniteSubsetsOfFinite
<1>3. Sets \subseteq SUBSET Node /\ Sets # {}
  BY SomeNode
<1>4. PICK X \in Sets : \A Y \in Sets : <<Y, X>> \notin StrictSubsetOrdering(Node)
  BY <1>2, <1>3, WFMin
<1>5. PICK n \in Node : X = Above(n)
  BY <1>4
<1>6. ASSUME NEW m \in Node, commit[n] < commit[m]
      PROVE  FALSE
  <2>1. Above(m) \subseteq Above(n)
    BY <1>1, <1>6
  <2>2. m \in Above(n) /\ m \notin Above(m)
    BY <1>1, <1>6
  <2>3. <<Above(m), Above(n)>> \in StrictSubsetOrdering(Node)
    BY <2>1, <2>2 DEF StrictSubsetOrdering
  <2>4. Above(m) \in Sets
    OBVIOUS
  <2> QED
    BY <1>4, <1>5, <2>3, <2>4
<1>7. \A m \in Node : commit[m] <= commit[n]
  BY <1>1, <1>6
<1> QED
  BY <1>7 DEF Foremost

LEMMA TableIsSeq ==
  ASSUME NEW S, NEW n \in Nat, NEW f \in [1 .. n -> S]
  PROVE  f \in Seq(S) /\ Len(f) = n
<1>1. f \in Seq(S)
  BY SeqDef
<1>2. Len(f) \in Nat /\ DOMAIN f = 1 .. Len(f) /\ DOMAIN f = 1 .. n
  BY <1>1, LenProperties
<1> QED
  BY <1>1, <1>2

\* The decided calls are those of every node's committed entries.
LEMMA DecidedIs ==
  ASSUME TypeOK, LogBounds, StateMachineSafety
  PROVE  /\ Decided \in Seq(Call \cup {None})
         /\ Foremost \in Node /\ Len(Decided) = commit[Foremost]
         /\ \A n \in Node : /\ commit[n] \in Nat /\ commit[n] <= Len(Decided)
                            /\ \A i \in 1 .. commit[n] : Decided[i] = log[n][i].call
<1> DEFINE F == Foremost
<1>1. F \in Node /\ \A m \in Node : commit[m] <= commit[F]
  BY SomeForemost DEF TypeOK
<1> HIDE DEF F
<1>2. \A n \in Node : /\ commit[n] \in Nat /\ commit[n] <= Len(log[n])
                      /\ log[n] \in Seq(Entry) /\ Len(log[n]) \in Nat
  BY DEF TypeOK, NodeTypeOK, LogBounds
<1>3. \A i \in 1 .. commit[F] : log[F][i].call \in Call \cup {None}
  <2> TAKE i \in 1 .. commit[F]
  <2>1. i \in 1 .. Len(log[F])
    BY <1>1, <1>2
  <2>2. log[F][i] \in Entry
    BY <1>1, <1>2, <2>1
  <2> QED
    BY <2>2 DEF Entry
<1>4. Decided = [i \in 1 .. commit[F] |-> log[F][i].call]
  BY DEF Decided, F
<1>5. Decided \in [1 .. commit[F] -> Call \cup {None}]
  BY <1>3, <1>4
<1>6. Decided \in Seq(Call \cup {None}) /\ Len(Decided) = commit[F]
  BY <1>1, <1>2, <1>5, TableIsSeq
<1>7. ASSUME NEW n \in Node, NEW i \in 1 .. commit[n]
      PROVE  Decided[i] = log[n][i].call
  <2>1. i \in 1 .. commit[F] /\ i \in 1 .. Smaller(commit[n], commit[F])
    BY <1>1, <1>2 DEF Smaller
  <2>2. log[n][i] = log[F][i]
    BY <1>1, <2>1 DEF StateMachineSafety
  <2> QED
    BY <1>4, <2>1, <2>2
<1> QED
  BY <1>1, <1>2, <1>6, <1>7 DEF F

\* What is decided stays, and more is decided only when some node commits.
LEMMA DecidedGrows ==
  ASSUME TypeOK, LogBounds, StateMachineSafety, CommittedIsKept,
         TypeOK', LogBounds', StateMachineSafety'
  PROVE  /\ Len(Decided) <= Len(Decided')
         /\ \A i \in 1 .. Len(Decided) : Decided'[i] = Decided[i]
         /\ commit' = commit \/ Len(Decided') = Len(Decided) => Decided' = Decided
<1>1. PICK F \in Node : Foremost = F
  BY SomeForemost DEF TypeOK
<1>2. /\ commit[F] \in Nat /\ Len(Decided) = commit[F]
      /\ Decided \in Seq(Call \cup {None})
      /\ \A i \in 1 .. commit[F] : Decided[i] = log[F][i].call
  BY <1>1, DecidedIs
<1>3. /\ commit'[F] \in Nat /\ commit'[F] <= Len(Decided')
      /\ Decided' \in Seq(Call \cup {None})
      /\ \A i \in 1 .. commit'[F] : Decided'[i] = log'[F][i].call
  <2>1. (/\ Decided \in Seq(Call \cup {None})
         /\ \A n \in Node : /\ commit[n] \in Nat /\ commit[n] <= Len(Decided)
                            /\ \A i \in 1 .. commit[n] : Decided[i] = log[n][i].call)'
    BY DecidedIs, PTL
  <2> QED
    BY <2>1
<1>4. /\ commit[F] <= commit'[F]
      /\ \A i \in 1 .. commit[F] : log'[F][i] = log[F][i]
  BY DEF CommittedIsKept
<1>5. Len(Decided') \in Nat
  BY <1>3, LenProperties
<1>6. Len(Decided) <= Len(Decided')
  BY <1>2, <1>3, <1>4, <1>5
<1>7. \A i \in 1 .. Len(Decided) : Decided'[i] = Decided[i]
  BY <1>2, <1>3, <1>4
<1>8. ASSUME commit' = commit
      PROVE  Len(Decided') = Len(Decided)
  <2>1. Foremost' = Foremost
    BY <1>8 DEF Foremost
  <2>2. Len(Decided)' = commit'[Foremost']
    <3>1. (Len(Decided) = commit[Foremost])'
      BY DecidedIs, PTL
    <3> QED
      BY <3>1
  <2> QED
    BY <1>1, <1>2, <1>8, <2>1, <2>2
<1>9. ASSUME Len(Decided') = Len(Decided)
      PROVE  Decided' = Decided
  BY <1>2, <1>3, <1>7, <1>9, SeqEqual
<1> QED
  BY <1>6, <1>7, <1>8, <1>9

-----------------------------------------------------------------------------
(* The calls in the logs.                                                  *)

\* The commands of l are PUTs that were made, each of them once.
CallsOnce(l) ==
  /\ \A i \in 1 .. Len(l) : l[i].call # None =>
       l[i].call \in PutCall /\ answer[l[i].call] # "none"
  /\ \A i, j \in 1 .. Len(l) : l[i].call # None /\ l[i].call = l[j].call => i = j

LedCalls(led) == \A t \in Nat : CallsOnce(led[t])

\* A log is the beginning of what some leader had.
LEMMA LogCallsOnce ==
  ASSUME NodeTypeOK, NEW led, NEW acked, LogInv(led, acked), LedCalls(led),
         NEW n \in Node
  PROVE  CallsOnce(log[n])
<1> DEFINE l == log[n]
           x == Len(log[n])
<1>1. l \in Seq(Entry) /\ x \in Nat /\ Fits(led, l, term[n]) /\ Past(led, acked)
  BY TermTypes DEF LogInv, NodeLogs
<1>2. CASE x = 0
  <2>1. \A i \in 1 .. x : FALSE
    BY <1>2
  <2> QED
    BY <2>1 DEF CallsOnce
<1>3. CASE x # 0
  <2>1. x \in 1 .. x
    BY <1>1, <1>3
  <2>2. PICK u \in Nat : l[x].term = u
    BY <1>1, <2>1, EntryTerm
  <2>3. x <= Len(led[u]) /\ Same(l, led[u], x) /\ Len(led[u]) \in Nat
    BY <1>1, <2>1, <2>2, PastTypes DEF Fits
  <2>4. \A i \in 1 .. x : i \in 1 .. Len(led[u]) /\ l[i] = led[u][i]
    BY <1>1, <2>3 DEF Same
  <2>5. CallsOnce(led[u])
    BY DEF LedCalls
  <2> QED
    BY <2>4, <2>5 DEF CallsOnce
<1> QED
  BY <1>2, <1>3

\* A call that was made stays so.
LEMMA AnswersStay ==
  ASSUME TypeOK, [Next]_vars, NEW c \in Call, answer[c] # "none"
  PROVE  answer'[c] # "none"
<1>1. ASSUME NEW d \in Call, Request(d)
      PROVE  answer'[c] # "none"
  <2>1. PICK n \in Node, a \in {"waiting", "ok", "err"} : Answer(d, n, a)
    BY <1>1 DEF Request, PutOnLeader, PutRefused, Campaign, CallFails
  <2> QED
    BY <2>1 DEF Answer, TypeOK
<1>2. ASSUME NEW n \in Node, ElectionTimeout(n) \/ Heartbeat(n)
      PROVE  answer'[c] # "none"
  BY <1>2 DEF ElectionTimeout, Heartbeat, workerVars
<1>3. ASSUME NEW n \in Node, Stop(n)
      PROVE  answer'[c] # "none"
  BY <1>3 DEF Stop
<1>4. ASSUME NEW n \in Node, Ready(n)
      PROVE  answer'[c] # "none"
  <2>1. \/ answer' = answer
        \/ \E d \in Call : answer' = [answer EXCEPT ![d] = "ok"]
    <3>1. \/ answer' = answer
          \/ \E d, i : /\ i \in Waiting(n, d)
                       /\ answer' = [answer EXCEPT ![pendingPuts[n][i]] = "ok"]
      BY <1>4 DEF Ready, Notify
    <3>2. \A d, i : i \in Waiting(n, d) => pendingPuts[n][i] \in Call
      BY DEF Waiting, TypeOK
    <3> QED
      BY <3>1, <3>2
  <2> QED
    BY <2>1 DEF TypeOK
<1>5. ASSUME NEW m \in network, Receive(m.to, m) \/ Lose(m)
      PROVE  answer'[c] # "none"
  BY <1>5 DEF Receive, Lose, workerVars
<1>6. CASE UNCHANGED vars
  BY <1>6 DEF vars, workerVars
<1> QED
  BY <1>1, <1>2, <1>3, <1>4, <1>5, <1>6 DEF Next

\* A leader's log grows by the empty entry of its term or by a call made now.
LeaderAppendsOne(n) ==
  \/ log'[n] = log[n]
  \/ \E e \in Entry :
       /\ log'[n] = Append(log[n], e)
       /\ e.call # None =>
            e.call \in PutCall /\ answer[e.call] = "none" /\ answer'[e.call] # "none"

LEMMA StepAppends ==
  ASSUME NodeTypeOK, NEW n \in Node, NEW m \in network, Step(n, m),
         NEW a \in Node, role'[a] = "Leader"
  PROVE  LeaderAppendsOne(a)
<1>1. CASE GrantVote(n, m) \/ DenyVote(n, m) \/ CountVote(n, m) \/ LoseElection(n, m)
  BY <1>1 DEF GrantVote, DenyVote, CountVote, LoseElection, logVars, LeaderAppendsOne
<1>2. CASE WinElection(n, m)
  <2> DEFINE e == [term |-> term[n], call |-> None]
  <2>1. e \in Entry /\ e.call = None
    BY DEF Entry, NodeTypeOK
  <2>2. log' = [log EXCEPT ![n] = Append(log[n], e)]
    BY <1>2 DEF WinElection
  <2> HIDE DEF e
  <2>3. log'[a] = log[a] \/ log'[a] = Append(log[a], e)
    BY <2>2 DEF NodeTypeOK
  <2> QED
    BY <2>1, <2>3 DEF LeaderAppendsOne
<1>3. CASE AppendBelowCommit(n, m) \/ AppendReject(n, m)
  BY <1>3 DEF AppendBelowCommit, AppendReject, logVars, LeaderAppendsOne
<1>4. CASE AppendAccept(n, m)
  <2>1. role' = [role EXCEPT ![n] = "Follower"] /\ log' = [log EXCEPT ![n] = Merged(n, m)]
    BY <1>4 DEF AppendAccept, FollowSender, Follow
  <2>2. a # n
    BY <2>1 DEF NodeTypeOK
  <2>3. log'[a] = log[a]
    BY <2>1, <2>2 DEF NodeTypeOK
  <2> QED
    BY <2>3 DEF LeaderAppendsOne
<1>5. CASE HandleAppended(n, m)
  BY <1>5 DEF HandleAppended, LeaderAppendsOne
<1>6. CASE HandleRejected(n, m) \/ Ignore(n, m)
  BY <1>6 DEF HandleRejected, Ignore, logVars, LeaderAppendsOne
<1> QED
  BY <1>1, <1>2, <1>3, <1>4, <1>5, <1>6 DEF Step

LEMMA LeadersAppend ==
  ASSUME TypeOK, [Next]_vars, NEW a \in Node, role'[a] = "Leader"
  PROVE  LeaderAppendsOne(a)
<1>0. NodeTypeOK
  BY DEF TypeOK
<1>1. ASSUME NEW c \in Call, Request(c)
      PROVE  LeaderAppendsOne(a)
  <2>1. ASSUME NEW n \in Node, c \in PutCall, PutOnLeader(c, n)
        PROVE  LeaderAppendsOne(a)
    <3> DEFINE e == [term |-> term[n], call |-> c]
    <3>1. e \in Entry /\ e.call = c
      BY <1>0 DEF Entry, NodeTypeOK
    <3>2. /\ log' = [log EXCEPT ![n] = Append(log[n], e)]
          /\ answer[c] = "none" /\ answer'[c] = "waiting"
      BY <2>1 DEF PutOnLeader, Propose, Answer, TypeOK
    <3> HIDE DEF e
    <3>3. log'[a] = log[a] \/ log'[a] = Append(log[a], e)
      BY <1>0, <3>2 DEF NodeTypeOK
    <3>4. answer'[c] # "none"
      BY <3>2
    <3> QED
      BY <2>1, <3>1, <3>2, <3>3, <3>4 DEF LeaderAppendsOne
  <2>2. ASSUME NEW n \in Node, PutRefused(c, n) \/ Campaign(c, n) \/ CallFails(c, n)
        PROVE  log' = log
    BY <2>2 DEF PutRefused, Campaign, CallFails, Hup, nodeVars, logVars
  <2> QED
    BY <1>1, <2>1, <2>2 DEF Request, LeaderAppendsOne
<1>2. ASSUME NEW n \in Node,
             ElectionTimeout(n) \/ Heartbeat(n) \/ Ready(n) \/ Stop(n)
      PROVE  log' = log
  BY <1>2 DEF ElectionTimeout, Hup, Heartbeat, HeartbeatTick, Ready, ApplyEntry, Stop,
              nodeVars, logVars
<1>3. ASSUME NEW m \in network, Receive(m.to, m)
      PROVE  LeaderAppendsOne(a)
  <2>1. m.to \in Node
    BY <1>0 DEF NodeTypeOK, Message, VoteRequest, VoteResponse, AppendRequest,
                AppendResponse
  <2> QED
    BY <1>0, <1>3, <2>1, StepAppends DEF Receive
<1>4. ASSUME NEW m \in network, Lose(m)
      PROVE  log' = log
  BY <1>4 DEF Lose, logVars
<1>5. CASE UNCHANGED vars
  BY <1>5 DEF vars, nodeVars, logVars, LeaderAppendsOne
<1> QED
  BY <1>1, <1>2, <1>3, <1>4, <1>5 DEF Next, LeaderAppendsOne

LEMMA CallsOnceStays ==
  ASSUME NEW l \in Seq(Entry), CallsOnce(l),
         \A c \in Call : answer[c] # "none" => answer'[c] # "none"
  PROVE  CallsOnce(l)'
<1>1. PutCall \subseteq Call
  BY DEF PutCall
<1> QED
  BY <1>1 DEF CallsOnce

LEMMA CallsOnceGrows ==
  ASSUME NEW l \in Seq(Entry), NEW e \in Entry, CallsOnce(l),
         \A c \in Call : answer[c] # "none" => answer'[c] # "none",
         e.call # None =>
           e.call \in PutCall /\ answer[e.call] = "none" /\ answer'[e.call] # "none",
         NEW k, k = Append(l, e)
  PROVE  CallsOnce(k)'
<1>1. /\ Len(l) \in Nat /\ Len(k) = Len(l) + 1 /\ k[Len(l) + 1] = e
      /\ \A i \in 1 .. Len(l) : k[i] = l[i]
  BY AppendProperties
<1>2. \A i \in 1 .. Len(k) : i \in 1 .. Len(l) \/ i = Len(l) + 1
  BY <1>1
<1>3. \A i \in 1 .. Len(l) : i # Len(l) + 1
  BY <1>1
<1>4. \A i \in 1 .. Len(l) : k[i].call # None =>
        k[i].call \in PutCall /\ answer[k[i].call] # "none" /\ answer'[k[i].call] # "none"
  BY <1>1 DEF CallsOnce, PutCall
<1>5. \A i \in 1 .. Len(k) : k[i].call # None =>
        k[i].call \in PutCall /\ answer'[k[i].call] # "none"
  BY <1>1, <1>2, <1>4
<1>6. ASSUME NEW i \in 1 .. Len(k), NEW j \in 1 .. Len(k),
             k[i].call # None, k[i].call = k[j].call
      PROVE  i = j
  <2>1. CASE i \in 1 .. Len(l) /\ j \in 1 .. Len(l)
    BY <1>1, <1>6, <2>1 DEF CallsOnce
  <2>2. CASE i = Len(l) + 1 /\ j \in 1 .. Len(l)
    BY <1>1, <1>4, <1>6, <2>2
  <2>3. CASE i \in 1 .. Len(l) /\ j = Len(l) + 1
    BY <1>1, <1>4, <1>6, <2>3
  <2> QED
    BY <1>2, <2>1, <2>2, <2>3
<1> QED
  BY <1>5, <1>6 DEF CallsOnce

LEMMA LedCallsStep ==
  ASSUME TypeOK, NEW led, NEW acked, NEW led2, NEW acked2, LogInv(led, acked),
         LedCalls(led), LogStep(led, acked, led2, acked2), [Next]_vars
  PROVE  LedCalls(led2)'
<1>1. \A c \in Call : answer[c] # "none" => answer'[c] # "none"
  BY AnswersStay
<1>2. NodeTypeOK /\ Past(led, acked)
  BY DEF TypeOK, LogInv
<1> SUFFICES ASSUME NEW t \in Nat PROVE CallsOnce(led2[t])'
  BY DEF LedCalls, CallsOnce
<1>3. CASE led2[t] = led[t]
  <2>1. CallsOnce(led[t]) /\ led[t] \in Seq(Entry)
    BY <1>2, PastTypes DEF LedCalls
  <2> QED
    BY <1>1, <1>3, <2>1, CallsOnceStays DEF CallsOnce
<1>4. ASSUME NEW a \in Node, role'[a] = "Leader", led2[t] = log'[a]
      PROVE  CallsOnce(led2[t])'
  <2>1. CallsOnce(log[a]) /\ log[a] \in Seq(Entry)
    BY <1>2, LogCallsOnce, TermTypes
  <2>2. PICK l \in Seq(Entry) : l = log[a]
    BY <2>1
  <2>3. PICK k : k = led2[t]
    OBVIOUS
  <2>4. CASE k = l
    <3>1. CallsOnce(l)'
      BY <1>1, <2>1, <2>2, CallsOnceStays
    <3> QED
      BY <2>3, <2>4, <3>1 DEF CallsOnce
  <2>5. ASSUME NEW e \in Entry, k = Append(l, e),
               e.call # None => /\ e.call \in PutCall /\ answer[e.call] = "none"
                                /\ answer'[e.call] # "none"
        PROVE  CallsOnce(led2[t])'
    <3>1. CallsOnce(k)'
      BY <1>1, <2>1, <2>2, <2>5, CallsOnceGrows
    <3> QED
      BY <2>3, <3>1 DEF CallsOnce
  <2>6. LeaderAppendsOne(a)
    BY <1>4, LeadersAppend
  <2> QED
    BY <1>4, <2>2, <2>3, <2>4, <2>5, <2>6 DEF LeaderAppendsOne
<1> QED
  BY <1>3, <1>4 DEF LogStep, LedByLeaders

-----------------------------------------------------------------------------
(* The steps of the cluster as steps of one replicated store.              *)

OneStoreInv ==
  /\ ElectionInv /\ CallsInv
  /\ \E led, acked : LogInv(led, acked) /\ LedCalls(led)

LEMMA OneStoreInit == Init => OneStoreInv
<1> SUFFICES ASSUME Init PROVE OneStoreInv
  OBVIOUS
<1>1. PICK led, acked : LogInv(led, acked) /\ \A t \in Nat : led[t] = << >>
  BY LogInvInit
<1>2. CallsOnce(<< >>)
  BY DEF CallsOnce
<1>3. LedCalls(led)
  BY <1>1, <1>2 DEF LedCalls
<1> QED
  BY <1>1, <1>3, InitElection, CallsInit DEF OneStoreInv

LEMMA OneStoreInvFacts ==
  OneStoreInv =>
    /\ TypeOK /\ NodeTypeOK /\ LogBounds /\ StateMachineSafety /\ CallsInv
    /\ \A n \in Node : CallsOnce(log[n])
<1> SUFFICES ASSUME OneStoreInv
             PROVE  /\ TypeOK /\ NodeTypeOK /\ LogBounds /\ StateMachineSafety /\ CallsInv
                    /\ \A n \in Node : CallsOnce(log[n])
  OBVIOUS
<1>1. TypeOK /\ NodeTypeOK /\ LogBounds /\ CallsInv
  BY DEF OneStoreInv, CallsInv, TypeOK
<1>2. StateMachineSafety
  BY ClusterInvIsSafe DEF OneStoreInv, ClusterInv
<1>3. \A n \in Node : CallsOnce(log[n])
  BY <1>1, LogCallsOnce DEF OneStoreInv
<1> QED
  BY <1>1, <1>2, <1>3

LEMMA OneStoreNext == OneStoreInv /\ [Next]_vars => OneStoreInv'
<1> SUFFICES ASSUME OneStoreInv, [Next]_vars
             PROVE  OneStoreInv'
  OBVIOUS
<1>1. ElectionInv /\ ElectionInv' /\ CallsInv'
  BY ElectionInvStep, CallsNext DEF OneStoreInv
<1>2. PICK led, acked : LogInv(led, acked) /\ LedCalls(led)
  BY DEF OneStoreInv
<1>3. NodeTypeOK /\ NodeTypeOK' /\ LogBounds /\ LeaderHasMajority /\ TypeOK
  BY <1>1 DEF ElectionInv, TypeOK
<1>4. ElectionSafety /\ VoteStep
  BY <1>1, <1>3, ElectionInvIsSafe, NextVotes
<1>5. Known(led, acked)
  BY <1>1, <1>2, <1>3, <1>4 DEF Known, ElectionInv
<1>6. PICK led2, acked2 : LogStep(led, acked, led2, acked2)
  BY <1>5, NextLogs
<1>7. Steps(led, acked, led2, acked2)
  BY <1>5, <1>6 DEF Steps, Known
<1>8. LogInv(led2, acked2)'
  BY <1>7, LogInvNext
<1>9. LedCalls(led2)'
  BY <1>2, <1>3, <1>6, LedCallsStep
<1>10. (\E x, y : LogInv(x, y) /\ LedCalls(x))'
  BY <1>8, <1>9
<1> QED
  BY <1>1, <1>10 DEF OneStoreInv

\* Whatever makes more committed while callers and stores wait is a Decide.
LEMMA CommitsDecide ==
  ASSUME OneStoreInv, OneStoreInv', [Next]_vars, UNCHANGED <<applied, store, answer>>
  PROVE  Replicated!Decide \/ UNCHANGED Replicated!vars
<1>1. /\ TypeOK /\ LogBounds /\ StateMachineSafety
      /\ TypeOK' /\ LogBounds' /\ StateMachineSafety' /\ CommittedIsKept
      /\ (\A n \in Node : CallsOnce(log[n]))'
  <2>1. (/\ TypeOK /\ LogBounds /\ StateMachineSafety
         /\ \A n \in Node : CallsOnce(log[n]))'
    BY OneStoreInvFacts, PTL
  <2> QED
    BY <2>1, OneStoreInvFacts, NextType
<1>2. /\ Len(Decided) <= Len(Decided')
      /\ \A i \in 1 .. Len(Decided) : Decided'[i] = Decided[i]
      /\ Len(Decided') = Len(Decided) => Decided' = Decided
  BY <1>1, DecidedGrows
<1>3. /\ Decided \in Seq(Call \cup {None}) /\ Decided' \in Seq(Call \cup {None})
  <2>1. (Decided \in Seq(Call \cup {None}))'
    BY <1>1, DecidedIs, PTL
  <2> QED
    BY <1>1, <2>1, DecidedIs
<1>4. Len(Decided) \in Nat /\ Len(Decided') \in Nat
  BY <1>3, LenProperties
<1>5. CASE Len(Decided') = Len(Decided)
  BY <1>2, <1>5 DEF Replicated!vars
<1>6. CASE Len(Decided) < Len(Decided')
  <2>1. PICK F \in Node : /\ Len(Decided') = commit'[F] /\ commit'[F] <= Len(log'[F])
                          /\ \A i \in 1 .. commit'[F] : Decided'[i] = log'[F][i].call
    <3>1. (/\ Foremost \in Node /\ Len(Decided) = commit[Foremost]
           /\ \A n \in Node : /\ commit[n] \in Nat /\ commit[n] <= Len(Decided)
                              /\ \A i \in 1 .. commit[n] : Decided[i] = log[n][i].call)'
      BY <1>1, DecidedIs, PTL
    <3>2. PICK F \in Node : F = Foremost'
      BY <3>1
    <3> QED
      BY <1>1, <3>1, <3>2 DEF LogBounds
  <2>2. \A i \in 1 .. Len(Decided') : i \in 1 .. Len(log'[F]) /\ Decided'[i] = log'[F][i].call
    <3>1. commit'[F] \in Nat /\ Len(log'[F]) \in Nat
      BY <1>1 DEF TypeOK, NodeTypeOK
    <3> QED
      BY <2>1, <3>1
  <2>3. /\ \A i \in 1 .. Len(log'[F]) : log'[F][i].call # None =>
             log'[F][i].call \in PutCall /\ answer'[log'[F][i].call] # "none"
        /\ \A i, j \in 1 .. Len(log'[F]) :
             log'[F][i].call # None /\ log'[F][i].call = log'[F][j].call => i = j
    BY <1>1 DEF CallsOnce
  <2>4. ASSUME NEW i \in Len(Decided) + 1 .. Len(Decided'), Decided'[i] # None
        PROVE  /\ Decided'[i] \in Call \ CampaignCall
               /\ answer[Decided'[i]] # "none"
               /\ \A j \in 1 .. i - 1 : Decided'[j] # Decided'[i]
    <3>1. i \in 1 .. Len(Decided')
      BY <1>4
    <3>2. /\ Decided'[i] \in PutCall /\ answer'[Decided'[i]] # "none"
      BY <2>2, <2>3, <2>4, <3>1
    <3>3. ASSUME NEW j \in 1 .. i - 1
          PROVE  Decided'[j] # Decided'[i]
      <4>1. j \in 1 .. Len(Decided') /\ j # i
        BY <1>4, <3>1
      <4> QED
        BY <2>2, <2>3, <2>4, <3>1, <4>1
    <3> QED
      BY <3>2, <3>3 DEF PutCall
  <2> QED
    BY <1>2, <1>4, <1>6, <2>4 DEF Replicated!Decide
<1> QED
  BY <1>2, <1>4, <1>5, <1>6

\* A call made is an Ask.
LEMMA RequestAsks ==
  ASSUME OneStoreInv, OneStoreInv', [Next]_vars, NEW c \in Call, Request(c)
  PROVE  Replicated!Ask(c)
<1>1. PICK n \in Node : \/ c \in PutCall /\ (PutOnLeader(c, n) \/ PutRefused(c, n))
                        \/ c \in CampaignCall /\ Campaign(c, n)
                        \/ CallFails(c, n)
  BY DEF Request
<1>2. /\ answer[c] = "none"
      /\ \/ answer' = [answer EXCEPT ![c] = "err"]
         \/ c \in CampaignCall /\ answer' = [answer EXCEPT ![c] = "ok"]
         \/ c \notin CampaignCall /\ answer' = [answer EXCEPT ![c] = "waiting"]
  BY <1>1 DEF PutOnLeader, PutRefused, Campaign, CallFails, Answer, PutCall
<1>3. UNCHANGED <<applied, store>> /\ commit' = commit
  BY <1>1 DEF PutOnLeader, Propose, PutRefused, Campaign, Hup, CallFails, nodeVars,
              storeVars, logVars
<1>4. Decided' = Decided
  <2>1. (TypeOK /\ LogBounds /\ StateMachineSafety)'
    BY OneStoreInvFacts, PTL
  <2> QED
    BY <1>3, <2>1, OneStoreInvFacts, NextType, DecidedGrows
<1> QED
  BY <1>2, <1>3, <1>4 DEF Replicated!Ask

LEMMA ReadyApplies ==
  ASSUME OneStoreInv, OneStoreInv', [Next]_vars, NEW n \in Node, Ready(n)
  PROVE  Replicated!Apply(n)
<1> DEFINE d == log[n][applied[n] + 1].call
<1>1. TypeOK /\ LogBounds /\ StateMachineSafety /\ WaitersAreTracked
  BY OneStoreInvFacts DEF CallsInv
<1>2. /\ applied[n] < commit[n]
      /\ applied' = [applied EXCEPT ![n] = applied[n] + 1]
      /\ d = None => store' = store
      /\ d # None => store' = [store EXCEPT ![n][KeyOf[d]] = ValueOf[d]]
      /\ alive[n] /\ commit' = commit
      /\ d = None => answer' = answer
      /\ d # None => Notify(n, d)
  BY DEF Ready, ApplyEntry, logVars
<1>3. /\ applied[n] < Len(Decided) /\ Decided[applied[n] + 1] = d
  <2>1. /\ commit[n] \in Nat /\ commit[n] <= Len(Decided)
        /\ \A i \in 1 .. commit[n] : Decided[i] = log[n][i].call
        /\ Len(Decided) \in Nat
    BY <1>1, DecidedIs, LenProperties
  <2>2. applied[n] \in Nat
    BY <1>1 DEF TypeOK, NodeTypeOK
  <2>3. applied[n] + 1 \in 1 .. commit[n] /\ applied[n] < Len(Decided)
    BY <1>2, <2>1, <2>2
  <2> QED
    BY <2>1, <2>3
<1>4. Decided' = Decided
  <2>1. (TypeOK /\ LogBounds /\ StateMachineSafety)'
    BY OneStoreInvFacts, PTL
  <2> QED
    BY <1>1, <1>2, <2>1, NextType, DecidedGrows
<1> HIDE DEF d
<1>5. ASSUME d # None
      PROVE  UNCHANGED answer \/ \E c \in Call : Replicated!Acknowledge(c, d)
  <2>1. CASE Waiting(n, d) = {}
    BY <1>2, <1>5, <2>1 DEF Notify
  <2>2. CASE Waiting(n, d) # {}
    <3>1. PICK i \in Waiting(n, d) :
            answer' = [answer EXCEPT ![pendingPuts[n][i]] = "ok"]
      BY <1>2, <1>5, <2>2 DEF Notify
    <3> DEFINE c == pendingPuts[n][i]
    <3>2. i \in 1 .. Len(pendingPuts[n]) /\ SameCommand(c, d)
      BY DEF Waiting
    <3>3. c \in Call
      BY <1>1, <3>2 DEF TypeOK
    <3>4. Remembers(n, c)
      BY <3>2 DEF Remembers
    <3>5. answer[c] = "waiting"
      BY <1>1, <1>2, <3>3, <3>4 DEF WaitersAreTracked
    <3> QED
      BY <3>1, <3>2, <3>3, <3>5 DEF Replicated!Acknowledge, SameCommand
  <2> QED
    BY <2>1, <2>2
<1> QED
  BY <1>2, <1>3, <1>4, <1>5 DEF Replicated!Apply

LEMMA StopFails ==
  ASSUME OneStoreInv, OneStoreInv', [Next]_vars, NEW n \in Node, Stop(n)
  PROVE  Replicated!Fail
<1>1. WaitersAreTracked /\ alive[n] /\ UNCHANGED nodeVars
  BY OneStoreInvFacts DEF CallsInv, Stop
<1>2. PICK S : S = {c \in Call : Remembers(n, c)}
  OBVIOUS
<1>3. S \in SUBSET {c \in Call : answer[c] = "waiting"}
  BY <1>1, <1>2 DEF WaitersAreTracked
<1>4. answer' = [c \in Call |-> IF c \in S THEN "err" ELSE answer[c]]
  BY <1>2 DEF Stop
<1>5. UNCHANGED <<applied, store>> /\ Decided' = Decided
  BY <1>1 DEF nodeVars, storeVars, logVars, Decided, Foremost
<1> QED
  BY <1>3, <1>4, <1>5 DEF Replicated!Fail

LEMMA OneStoreStep ==
  ASSUME OneStoreInv, OneStoreInv', [Next]_vars
  PROVE  [Replicated!Next]_(Replicated!vars)
<1>1. ASSUME NEW c \in Call, Request(c)
      PROVE  Replicated!Next
  BY <1>1, RequestAsks DEF Replicated!Next
<1>2. ASSUME NEW n \in Node, Ready(n)
      PROVE  Replicated!Next
  BY <1>2, ReadyApplies DEF Replicated!Next
<1>3. ASSUME NEW n \in Node, Stop(n)
      PROVE  Replicated!Next
  BY <1>3, StopFails DEF Replicated!Next
<1>4. ASSUME UNCHANGED <<applied, store, answer>>
      PROVE  Replicated!Next \/ UNCHANGED Replicated!vars
  BY <1>4, CommitsDecide DEF Replicated!Next
<1>5. ASSUME NEW n \in Node, ElectionTimeout(n) \/ Heartbeat(n)
      PROVE  UNCHANGED <<applied, store, answer>>
  BY <1>5 DEF ElectionTimeout, Hup, Heartbeat, HeartbeatTick, workerVars, storeVars
<1>6. ASSUME NEW m \in network, Receive(m.to, m)
      PROVE  UNCHANGED <<applied, store, answer>>
  <2>1. Step(m.to, m) /\ UNCHANGED workerVars
    BY <1>6 DEF Receive
  <2>2. UNCHANGED storeVars
    BY <2>1 DEF Step, GrantVote, DenyVote, CountVote, WinElection, LoseElection,
      AppendBelowCommit, AppendAccept, AppendReject, HandleAppended, HandleRejected,
      Ignore
  <2> QED
    BY <2>1, <2>2 DEF storeVars, workerVars
<1>7. ASSUME NEW m \in network, Lose(m)
      PROVE  UNCHANGED <<applied, store, answer>>
  BY <1>7 DEF Lose, storeVars, workerVars
<1>8. CASE UNCHANGED vars
  BY <1>4, <1>8 DEF vars, nodeVars, storeVars, workerVars
<1> QED
  BY <1>1, <1>2, <1>3, <1>4, <1>5, <1>6, <1>7, <1>8 DEF Next

\* The cluster implements one replicated store, whoever leads and whatever is
\* lost: every step of a worker is one step of that store, or none.
THEOREM ClusterImplementsStore == Spec => ClusterIsOneStore
<1>1. Init => Replicated!Init
  <2> SUFFICES ASSUME Init PROVE Replicated!Init
    OBVIOUS
  <2>1. /\ applied = [n \in Node |-> 0]
        /\ store = [n \in Node |-> [k \in Key |-> None]]
        /\ answer = [c \in Call |-> "none"]
        /\ commit = [n \in Node |-> 0]
    BY DEF Init, NodeInit
  <2>2. TypeOK /\ LogBounds /\ StateMachineSafety
    BY OneStoreInit, OneStoreInvFacts
  <2>3. Decided \in Seq(Call \cup {None}) /\ Len(Decided) = commit[Foremost]
    BY <2>2, DecidedIs
  <2>4. Foremost \in Node
    BY <2>2, SomeForemost DEF TypeOK
  <2>5. Decided = << >>
    BY <2>1, <2>3, <2>4
  <2> QED
    BY <2>1, <2>5 DEF Replicated!Init
<1>2. OneStoreInv /\ OneStoreInv' /\ [Next]_vars => [Replicated!Next]_(Replicated!vars)
  BY OneStoreStep
<1> QED
  BY <1>1, <1>2, OneStoreInit, OneStoreNext, PTL
  DEF Spec, ClusterIsOneStore, Replicated!Spec
=============================================================================

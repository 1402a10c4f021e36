------------------------- MODULE LockFuturesProofs --------------------------
(***************************************************************************)
(* LockFutures implements AtomicUpdates, for any tasks, locks and programs.*)
(*                                                                         *)
(* A write appends to what its task has read, which is what the data is    *)
(* only because nobody else could write meanwhile (OwnerIsCurrent), which  *)
(* rests on a lock having one owner (OneOwner).  That owner and queue      *)
(* agree with where the tasks are is kept by each way a lock changes       *)
(* hands: a lemma for each.                                                *)
(***************************************************************************)
EXTENDS LockFutures, TLAPS

\* Who is not done has a round to go.
RoundToGo == \A t \in Task : place[t] # "done" => round[t] < Rounds[t]

LockInv == TypeOK /\ OneOwner /\ RoundToGo /\ OwnerIsCurrent

LEMMA ConstantFacts ==
  ASSUME NEW t \in Task
  PROVE  LockOf[t] \in Lock /\ Rounds[t] \in Nat /\ Rounds[t] > 0
  BY LockAssumption

LEMMA LastOf ==
  ASSUME NEW m \in Nat
  PROVE  \A x \in 1 .. m + 1 : x \in 1 .. m \/ x = m + 1
  OBVIOUS

-----------------------------------------------------------------------------
(* How a lock changes hands.                                               *)

\* A task moves on, and neither takes the lock, nor leaves it, nor queues.
LEMMA StaysOneOwner ==
  ASSUME TypeOK, OneOwner, NEW t \in Task, NEW q,
         place' = [place EXCEPT ![t] = q], UNCHANGED <<owner, queue>>,
         place[t] # "queued", q # "queued", place[t] \in Owning <=> q \in Owning
  PROVE  OneOwner'
<1>1. \A s \in Task : /\ place'[s] \in Owning <=> place[s] \in Owning
                      /\ place'[s] = "queued" <=> place[s] = "queued"
  BY DEF TypeOK
<1> QED
  BY <1>1 DEF OneOwner

\* A free lock is taken.
LEMMA TakesOneOwner ==
  ASSUME TypeOK, OneOwner, NEW t \in Task, owner[LockOf[t]] = None,
         place[t] # "queued", place' = [place EXCEPT ![t] = "holding"],
         owner' = [owner EXCEPT ![LockOf[t]] = t], UNCHANGED queue
  PROVE  OneOwner'
<1> DEFINE k == LockOf[t]
<1>1. k \in Lock /\ t # None
  BY ConstantFacts, LockAssumption
<1>2. owner'[k] = t /\ \A l \in Lock \ {k} : owner'[l] = owner[l]
  BY <1>1 DEF TypeOK
<1>3. place'[t] = "holding" /\ \A s \in Task \ {t} : place'[s] = place[s]
  BY DEF TypeOK
<1>4. \A s \in Task : ~(LockOf[s] = k /\ place[s] \in Owning)
  BY <1>1, LockAssumption DEF OneOwner
<1>5. \A l \in Lock : \A s \in Task :
        owner'[l] = s <=> LockOf[s] = l /\ place'[s] \in Owning
  <2> SUFFICES ASSUME NEW l \in Lock, NEW s \in Task
               PROVE  owner'[l] = s <=> LockOf[s] = l /\ place'[s] \in Owning
    OBVIOUS
  <2>1. owner[l] = s <=> LockOf[s] = l /\ place[s] \in Owning
    BY DEF OneOwner
  <2>2. CASE l = k
    BY <1>1, <1>2, <1>3, <1>4, <2>2 DEF Owning
  <2>3. CASE l # k
    BY <1>1, <1>2, <1>3, <2>1, <2>3
  <2> QED
    BY <2>2, <2>3
<1>6. \A s \in Task : place'[s] = "queued" <=> place[s] = "queued"
  BY <1>3
<1>7. \A l \in Lock : queue[l] # << >> => owner'[l] # None
  BY <1>1, <1>2 DEF OneOwner
<1> QED
  BY <1>5, <1>6, <1>7 DEF OneOwner

\* A task that finds the lock taken goes to the end of the queue.
LEMMA QueuesOneOwner ==
  ASSUME TypeOK, OneOwner, NEW t \in Task, owner[LockOf[t]] # None,
         place[t] = "woken", place' = [place EXCEPT ![t] = "queued"],
         queue' = [queue EXCEPT ![LockOf[t]] = Append(queue[LockOf[t]], t)], UNCHANGED owner
  PROVE  OneOwner'
<1> DEFINE k == LockOf[t]
           n == Len(queue[k])
<1>1. k \in Lock /\ queue[k] \in Seq(Task) /\ n \in Nat
  BY ConstantFacts DEF TypeOK
<1>2. queue'[k] = Append(queue[k], t) /\ \A l \in Lock \ {k} : queue'[l] = queue[l]
  BY <1>1 DEF TypeOK
<1>3. /\ Len(queue'[k]) = n + 1 /\ queue'[k][n + 1] = t
      /\ \A i \in 1 .. n : queue'[k][i] = queue[k][i]
  BY <1>1, <1>2
<1>4. place'[t] = "queued" /\ \A s \in Task \ {t} : place'[s] = place[s]
  BY DEF TypeOK
<1>5. \A l \in Lock : \A s \in Task :
        owner'[l] = s <=> LockOf[s] = l /\ place'[s] \in Owning
  <2>1. \A s \in Task : place'[s] \in Owning <=> place[s] \in Owning
    BY <1>4 DEF Owning
  <2> QED
    BY <2>1 DEF OneOwner
<1>6. \A i \in 1 .. n : queue[k][i] # t
  BY <1>1 DEF OneOwner
<1>7. \A l \in Lock : \A s \in Task :
        LockOf[s] = l /\ place'[s] = "queued"
          <=> \E i \in 1 .. Len(queue'[l]) : queue'[l][i] = s
  <2> SUFFICES ASSUME NEW l \in Lock, NEW s \in Task
               PROVE  LockOf[s] = l /\ place'[s] = "queued"
                        <=> \E i \in 1 .. Len(queue'[l]) : queue'[l][i] = s
    OBVIOUS
  <2>1. LockOf[s] = l /\ place[s] = "queued" <=> \E i \in 1 .. Len(queue[l]) : queue[l][i] = s
    BY DEF OneOwner
  <2>2. CASE l # k
    BY <1>2, <1>4, <2>1, <2>2
  <2>3. CASE l = k /\ s = t
    <3>1. n + 1 \in 1 .. Len(queue'[k])
      BY <1>1, <1>3
    <3> QED
      BY <1>3, <1>4, <2>3, <3>1
  <2>4. CASE l = k /\ s # t
    <3>1. (\E i \in 1 .. n : queue[k][i] = s) => \E i \in 1 .. n + 1 : queue'[k][i] = s
      BY <1>1, <1>3
    <3>2. (\E i \in 1 .. n + 1 : queue'[k][i] = s) => \E i \in 1 .. n : queue[k][i] = s
      <4> SUFFICES ASSUME NEW i \in 1 .. n + 1, queue'[k][i] = s
                   PROVE  \E j \in 1 .. n : queue[k][j] = s
        OBVIOUS
      <4>1. i # n + 1
        BY <1>3, <2>4
      <4>2. i \in 1 .. n
        BY <1>1, <4>1
      <4> QED
        BY <1>3, <4>2
    <3> QED
      BY <1>3, <1>4, <2>1, <2>4, <3>1, <3>2
  <2> QED
    BY <2>2, <2>3, <2>4
<1>8. \A l \in Lock : \A i, j \in 1 .. Len(queue'[l]) :
        queue'[l][i] = queue'[l][j] => i = j
  <2> SUFFICES ASSUME NEW l \in Lock, NEW i \in 1 .. Len(queue'[l]),
                      NEW j \in 1 .. Len(queue'[l]), queue'[l][i] = queue'[l][j]
               PROVE  i = j
    OBVIOUS
  <2>1. CASE l # k
    BY <1>2, <2>1 DEF OneOwner
  <2>2. CASE l = k
    <3>1. i \in 1 .. n + 1 /\ j \in 1 .. n + 1
      BY <1>3, <2>2
    <3>2. CASE i \in 1 .. n /\ j \in 1 .. n
      BY <1>1, <1>3, <2>2, <3>2 DEF OneOwner
    <3>3. CASE i = n + 1 /\ j \in 1 .. n
      BY <1>3, <1>6, <2>2, <3>3
    <3>4. CASE i \in 1 .. n /\ j = n + 1
      BY <1>3, <1>6, <2>2, <3>4
    <3>5. CASE i = n + 1 /\ j = n + 1
      BY <3>5
    <3>6. \A x \in 1 .. n + 1 : x \in 1 .. n \/ x = n + 1
      BY <1>1, LastOf
    <3> QED
      BY <3>1, <3>2, <3>3, <3>4, <3>5, <3>6
  <2> QED
    BY <2>1, <2>2
<1>9. \A l \in Lock : queue'[l] # << >> => owner'[l] # None
  BY <1>2 DEF OneOwner
<1> QED
  BY <1>5, <1>7, <1>8, <1>9 DEF OneOwner

\* The owner of a lock nobody waits for leaves it.
LEMMA LeavesOneOwner ==
  ASSUME TypeOK, OneOwner, NEW t \in Task, place[t] \in Owning, queue[LockOf[t]] = << >>,
         NEW q, q \notin Owning, q # "queued", place' = [place EXCEPT ![t] = q],
         owner' = [owner EXCEPT ![LockOf[t]] = None], UNCHANGED queue
  PROVE  OneOwner'
<1> DEFINE k == LockOf[t]
<1>1. k \in Lock /\ \A s \in Task : s # None
  BY ConstantFacts, LockAssumption
<1>2. owner'[k] = None /\ \A l \in Lock \ {k} : owner'[l] = owner[l]
  BY <1>1 DEF TypeOK
<1>3. place'[t] = q /\ \A s \in Task \ {t} : place'[s] = place[s]
  BY DEF TypeOK
<1>4. owner[k] = t
  BY <1>1 DEF OneOwner
<1>5. \A l \in Lock : \A s \in Task :
        owner'[l] = s <=> LockOf[s] = l /\ place'[s] \in Owning
  <2> SUFFICES ASSUME NEW l \in Lock, NEW s \in Task
               PROVE  owner'[l] = s <=> LockOf[s] = l /\ place'[s] \in Owning
    OBVIOUS
  <2>1. owner[l] = s <=> LockOf[s] = l /\ place[s] \in Owning
    BY DEF OneOwner
  <2>2. CASE l = k
    BY <1>1, <1>2, <1>3, <1>4, <2>1, <2>2
  <2>3. CASE l # k
    BY <1>2, <1>3, <2>1, <2>3
  <2> QED
    BY <2>2, <2>3
<1>6. \A s \in Task : place'[s] = "queued" <=> place[s] = "queued"
  BY <1>3 DEF Owning
<1>7. \A l \in Lock : queue[l] # << >> => owner'[l] # None
  BY <1>2 DEF OneOwner
<1> QED
  BY <1>5, <1>6, <1>7 DEF OneOwner

\* The owner hands the lock to the head of the queue.
LEMMA HandsOneOwner ==
  ASSUME TypeOK, OneOwner, NEW t \in Task, place[t] \in Owning, queue[LockOf[t]] # << >>,
         NEW q, q \notin Owning, q # "queued",
         NEW h, h = Head(queue[LockOf[t]]),
         place' = [place EXCEPT ![t] = q, ![h] = "granted"],
         owner' = [owner EXCEPT ![LockOf[t]] = h],
         queue' = [queue EXCEPT ![LockOf[t]] = Tail(queue[LockOf[t]])]
  PROVE  OneOwner' /\ h \in Task /\ h # t /\ place[h] = "queued"
<1> DEFINE k == LockOf[t]
           n == Len(queue[k])
<1>1. k \in Lock /\ queue[k] \in Seq(Task) /\ \A s \in Task : s # None
  BY ConstantFacts, LockAssumption DEF TypeOK
<1>2. /\ n \in Nat /\ 1 \in 1 .. n /\ h \in Task /\ h = queue[k][1]
      /\ Len(Tail(queue[k])) = n - 1
      /\ \A i \in 1 .. n - 1 : Tail(queue[k])[i] = queue[k][i + 1]
  BY <1>1
<1>3. LockOf[h] = k /\ place[h] = "queued"
  BY <1>1, <1>2 DEF OneOwner
<1>4. h # t
  BY <1>3 DEF Owning
<1>5. queue'[k] = Tail(queue[k]) /\ \A l \in Lock \ {k} : queue'[l] = queue[l]
  BY <1>1 DEF TypeOK
<1>6. owner[k] = t /\ owner'[k] = h /\ \A l \in Lock \ {k} : owner'[l] = owner[l]
  BY <1>1 DEF TypeOK, OneOwner
<1>7. /\ place'[t] = q /\ place'[h] = "granted"
      /\ \A s \in Task \ {t, h} : place'[s] = place[s]
  BY <1>2, <1>4 DEF TypeOK
<1>8. \A l \in Lock : \A s \in Task :
        owner'[l] = s <=> LockOf[s] = l /\ place'[s] \in Owning
  <2> SUFFICES ASSUME NEW l \in Lock, NEW s \in Task
               PROVE  owner'[l] = s <=> LockOf[s] = l /\ place'[s] \in Owning
    OBVIOUS
  <2>1. owner[l] = s <=> LockOf[s] = l /\ place[s] \in Owning
    BY DEF OneOwner
  <2>2. CASE s = h
    <3>1. place'[s] \in Owning
      BY <1>7, <2>2 DEF Owning
    <3>2. l # k => owner[l] # h
      BY <1>3, <2>1, <2>2
    <3> QED
      BY <1>3, <1>6, <2>2, <3>1, <3>2
  <2>3. CASE s = t
    BY <1>4, <1>6, <1>7, <2>1, <2>3
  <2>4. CASE s # h /\ s # t
    BY <1>6, <1>7, <2>1, <2>4
  <2> QED
    BY <2>2, <2>3, <2>4
<1>9. \A i \in 2 .. n : queue[k][i] # h
  BY <1>1, <1>2 DEF OneOwner
<1>10. \A l \in Lock : \A s \in Task :
         LockOf[s] = l /\ place'[s] = "queued"
           <=> \E i \in 1 .. Len(queue'[l]) : queue'[l][i] = s
  <2> SUFFICES ASSUME NEW l \in Lock, NEW s \in Task
               PROVE  LockOf[s] = l /\ place'[s] = "queued"
                        <=> \E i \in 1 .. Len(queue'[l]) : queue'[l][i] = s
    OBVIOUS
  <2>1. LockOf[s] = l /\ place[s] = "queued" <=> \E i \in 1 .. Len(queue[l]) : queue[l][i] = s
    BY DEF OneOwner
  <2>2. CASE l # k
    <3>1. queue'[l] = queue[l]
      BY <1>5, <2>2
    <3>2. LockOf[s] = l /\ place'[s] = "queued" <=> LockOf[s] = l /\ place[s] = "queued"
      BY <1>3, <1>7, <2>2 DEF Owning
    <3> QED
      BY <2>1, <3>1, <3>2
  <2>3. CASE l = k
    <3>1. (\E i \in 1 .. n - 1 : queue'[k][i] = s)
            <=> s # h /\ \E i \in 1 .. n : queue[k][i] = s
      <4>1. ASSUME NEW i \in 1 .. n - 1, queue'[k][i] = s
            PROVE  s # h /\ \E j \in 1 .. n : queue[k][j] = s
        <5>1. i + 1 \in 2 .. n /\ i + 1 \in 1 .. n
          BY <1>2
        <5> QED
          BY <1>2, <1>5, <1>9, <4>1, <5>1
      <4>2. ASSUME s # h, NEW i \in 1 .. n, queue[k][i] = s
            PROVE  \E j \in 1 .. n - 1 : queue'[k][j] = s
        <5>1. i # 1
          BY <1>2, <4>2
        <5>2. i - 1 \in 1 .. n - 1 /\ (i - 1) + 1 = i
          BY <1>2, <5>1
        <5>3. queue'[k][i - 1] = queue[k][i]
          BY <1>2, <1>5, <5>2
        <5> QED
          BY <4>2, <5>2, <5>3
      <4> QED
        BY <4>1, <4>2
    <3>2. place'[s] = "queued" /\ LockOf[s] = k
            <=> s # h /\ place[s] = "queued" /\ LockOf[s] = k
      BY <1>7 DEF Owning
    <3>3. 1 .. Len(queue'[l]) = 1 .. n - 1 /\ queue'[l] = queue'[k] /\ queue[l] = queue[k]
      BY <1>2, <1>5, <2>3
    <3>4. (\E i \in 1 .. Len(queue'[l]) : queue'[l][i] = s)
            <=> s # h /\ \E i \in 1 .. n : queue[k][i] = s
      BY <3>1, <3>3
    <3>5. (\E i \in 1 .. n : queue[k][i] = s) <=> LockOf[s] = k /\ place[s] = "queued"
      BY <2>1, <2>3
    <3> QED
      BY <2>3, <3>2, <3>4, <3>5
  <2> QED
    BY <2>2, <2>3
<1>11. \A l \in Lock : \A i, j \in 1 .. Len(queue'[l]) :
         queue'[l][i] = queue'[l][j] => i = j
  <2> SUFFICES ASSUME NEW l \in Lock, NEW i \in 1 .. Len(queue'[l]),
                      NEW j \in 1 .. Len(queue'[l]), queue'[l][i] = queue'[l][j]
               PROVE  i = j
    OBVIOUS
  <2>1. CASE l # k
    BY <1>5, <2>1 DEF OneOwner
  <2>2. CASE l = k
    <3>1. i \in 1 .. n - 1 /\ j \in 1 .. n - 1
      BY <1>2, <1>5, <2>2
    <3>2. i + 1 \in 1 .. n /\ j + 1 \in 1 .. n
      BY <1>2, <3>1
    <3>3. queue[k][i + 1] = queue[k][j + 1]
      <4>1. Tail(queue[k])[i] = Tail(queue[k])[j]
        BY <1>5, <2>2
      <4>2. /\ Tail(queue[k])[i] = queue[k][i + 1]
            /\ Tail(queue[k])[j] = queue[k][j + 1]
        BY <1>2, <3>1
      <4> QED
        BY <4>1, <4>2
    <3>4. i + 1 = j + 1
      BY <1>1, <3>2, <3>3 DEF OneOwner
    <3> QED
      BY <1>2, <3>1, <3>4
  <2> QED
    BY <2>1, <2>2
<1>12. \A l \in Lock : queue'[l] # << >> => owner'[l] # None
  BY <1>1, <1>2, <1>5, <1>6 DEF OneOwner
<1>13. OneOwner'
  <2> HIDE DEF k, n
  <2> SUFFICES ASSUME NEW l \in Lock
               PROVE  /\ \A s \in Task : owner'[l] = s <=> LockOf[s] = l /\ place'[s] \in Owning
                      /\ \A s \in Task : LockOf[s] = l /\ place'[s] = "queued"
                           <=> \E i \in 1 .. Len(queue'[l]) : queue'[l][i] = s
                      /\ \A i, j \in 1 .. Len(queue'[l]) : queue'[l][i] = queue'[l][j] => i = j
                      /\ queue'[l] # << >> => owner'[l] # None
    BY DEF OneOwner
  <2> QED
    BY <1>8, <1>10, <1>11, <1>12
<1> QED
  BY <1>2, <1>3, <1>4, <1>13

-----------------------------------------------------------------------------
(* The steps.  Each keeps the invariant, and is an update of AtomicUpdates,*)
(* a skip, or nothing to see.                                              *)

Seen == Atomic!Next \/ UNCHANGED <<data, Turns>>

LEMMA SameTurns ==
  ASSUME NEW t \in Task, TypeOK,
         place'[t] \notin {"written", "asleep"}, place[t] \notin {"written", "asleep"},
         \A s \in Task \ {t} : place'[s] = place[s], UNCHANGED round
  PROVE  Turns' = Turns
  BY DEF Turns

\* A task that neither takes nor leaves the lock, nor looks at the data.
LEMMA MoveKeeps ==
  ASSUME LockInv, NEW t \in Task, NEW p \in Place, NEW q \in Place, Goes(t, p, q),
         p \notin {"queued", "done", "written", "asleep"},
         q \notin {"queued", "done", "written", "asleep", "read"}, p \in Owning <=> q \in Owning,
         UNCHANGED <<round, owner, queue, data, seen, abandoned>>
  PROVE  LockInv' /\ Seen
<1>1. place[t] = p /\ place' = [place EXCEPT ![t] = q] /\ place \in [Task -> Place]
  BY DEF LockInv, TypeOK, Goes
<1>2. place'[t] = q /\ \A s \in Task \ {t} : place'[s] = place[s]
  BY <1>1
<1>3. OneOwner'
  BY <1>1, StaysOneOwner DEF LockInv
<1>4. TypeOK'
  BY <1>1 DEF LockInv, TypeOK
<1>5. RoundToGo' /\ OwnerIsCurrent'
  BY <1>1, <1>2 DEF LockInv, RoundToGo, OwnerIsCurrent
<1>6. Turns' = Turns
  BY <1>1, <1>2, SameTurns DEF LockInv
<1> QED
  BY <1>3, <1>4, <1>5, <1>6 DEF LockInv, Seen

LEMMA TakeKeeps ==
  ASSUME LockInv, NEW t \in Task, TryLocks(t) \/ LockNow(t)
  PROVE  LockInv' /\ Seen
<1>1. /\ place[t] \in {"polling", "woken"} /\ place' = [place EXCEPT ![t] = "holding"]
      /\ owner[LockOf[t]] = None /\ owner' = [owner EXCEPT ![LockOf[t]] = t]
      /\ UNCHANGED <<round, queue, data, seen, abandoned>>
  BY DEF TryLocks, LockNow, Goes
<1>2. place'[t] = "holding" /\ \A s \in Task \ {t} : place'[s] = place[s]
  BY <1>1 DEF LockInv, TypeOK
<1>3. OneOwner'
  BY <1>1, TakesOneOwner DEF LockInv
<1>4. TypeOK'
  BY <1>1, ConstantFacts DEF LockInv, TypeOK, Place
<1>5. RoundToGo' /\ OwnerIsCurrent'
  BY <1>1, <1>2 DEF LockInv, RoundToGo, OwnerIsCurrent
<1>6. Turns' = Turns
  BY <1>1, <1>2, SameTurns DEF LockInv
<1> QED
  BY <1>1, <1>3, <1>4, <1>5, <1>6 DEF LockInv, Seen

LEMMA QueueKeeps ==
  ASSUME LockInv, NEW t \in Task, LockLater(t)
  PROVE  LockInv' /\ Seen
<1>1. /\ place[t] = "woken" /\ place' = [place EXCEPT ![t] = "queued"]
      /\ owner[LockOf[t]] # None
      /\ queue' = [queue EXCEPT ![LockOf[t]] = Append(queue[LockOf[t]], t)]
      /\ UNCHANGED <<round, owner, data, seen, abandoned>>
  BY DEF LockLater, Goes
<1>2. place'[t] = "queued" /\ \A s \in Task \ {t} : place'[s] = place[s]
  BY <1>1 DEF LockInv, TypeOK
<1>3. OneOwner'
  BY <1>1, QueuesOneOwner DEF LockInv
<1>4. TypeOK'
  <2>1. queue' \in [Lock -> Seq(Task)]
    <3>1. Append(queue[LockOf[t]], t) \in Seq(Task)
      BY ConstantFacts DEF LockInv, TypeOK
    <3> QED
      BY <1>1, <3>1 DEF LockInv, TypeOK
  <2> QED
    BY <1>1, <2>1 DEF LockInv, TypeOK, Place
<1>5. RoundToGo' /\ OwnerIsCurrent'
  BY <1>1, <1>2 DEF LockInv, RoundToGo, OwnerIsCurrent
<1>6. Turns' = Turns
  BY <1>1, <1>2, SameTurns DEF LockInv
<1> QED
  BY <1>1, <1>3, <1>4, <1>5, <1>6 DEF LockInv, Seen

LEMMA ReadKeeps ==
  ASSUME LockInv, NEW t \in Task, Read(t)
  PROVE  LockInv' /\ Seen
<1>1. /\ place[t] = "holding" /\ place' = [place EXCEPT ![t] = "read"]
      /\ seen' = [seen EXCEPT ![t] = data[LockOf[t]]]
      /\ UNCHANGED <<round, owner, queue, data, abandoned>>
  BY DEF Read, Goes
<1>2. place'[t] = "read" /\ \A s \in Task \ {t} : place'[s] = place[s]
  BY <1>1 DEF LockInv, TypeOK
<1>3. OneOwner'
  BY <1>1, StaysOneOwner DEF LockInv, Owning
<1>4. data[LockOf[t]] \in Seq(Task)
  BY ConstantFacts DEF LockInv, TypeOK
<1>5. TypeOK'
  BY <1>1, <1>4 DEF LockInv, TypeOK, Place
<1>6. seen'[t] = data[LockOf[t]] /\ \A s \in Task \ {t} : seen'[s] = seen[s]
  BY <1>1 DEF LockInv, TypeOK
<1>7. RoundToGo' /\ OwnerIsCurrent'
  BY <1>1, <1>2, <1>6 DEF LockInv, RoundToGo, OwnerIsCurrent
<1>8. Turns' = Turns
  BY <1>1, <1>2, SameTurns DEF LockInv
<1> QED
  BY <1>1, <1>3, <1>5, <1>7, <1>8 DEF LockInv, Seen

\* The round of t takes effect.
LEMMA TurnTaken ==
  ASSUME LockInv, NEW t \in Task, place[t] = "read", place'[t] \in {"written", "asleep"},
         \A s \in Task \ {t} : place'[s] = place[s], UNCHANGED round
  PROVE  Atomic!Turn(t)
<1>1. Turns[t] = round[t] /\ round[t] \in Nat
  BY DEF Turns, LockInv, TypeOK
<1>2. Turns'[t] = round[t] + 1 /\ \A s \in Task \ {t} : Turns'[s] = Turns[s]
  BY DEF Turns
<1>3. Turns' = [Turns EXCEPT ![t] = Turns[t] + 1]
  <2>1. Turns' = [s \in Task |-> Turns'[s]] /\ Turns = [s \in Task |-> Turns[s]]
    BY DEF Turns
  <2> QED
    BY <1>1, <1>2, <2>1
<1>4. round[t] < Rounds[t]
  BY DEF LockInv, RoundToGo
<1> QED
  BY <1>1, <1>3, <1>4 DEF Atomic!Turn

\* The data t writes is what it has read and its own update: by OwnerIsCurrent,
\* what the data was and its own update.
LEMMA WriteKeeps ==
  ASSUME LockInv, NEW t \in Task, Write(t)
  PROVE  LockInv' /\ Seen
<1> DEFINE k == LockOf[t]
<1> PICK q \in {"written", "asleep"} :
      /\ place[t] = "read" /\ place' = [place EXCEPT ![t] = q]
      /\ data' = [data EXCEPT ![k] = Append(seen[t], t)]
      /\ seen' = [seen EXCEPT ![t] = << >>]
      /\ UNCHANGED <<round, owner, queue, abandoned>>
  BY DEF Write, Goes
<1>1. k \in Lock /\ seen[t] = data[k] /\ data[k] \in Seq(Task)
  BY ConstantFacts DEF LockInv, TypeOK, OwnerIsCurrent
<1>2. place'[t] = q /\ \A s \in Task \ {t} : place'[s] = place[s]
  BY DEF LockInv, TypeOK
<1>3. OneOwner'
  BY StaysOneOwner DEF LockInv, Owning
<1>4. TypeOK'
  <2>1. Append(seen[t], t) \in Seq(Task) /\ << >> \in Seq(Task)
    BY <1>1
  <2>2. data' \in [Lock -> Seq(Task)] /\ seen' \in [Task -> Seq(Task)]
    BY <2>1 DEF LockInv, TypeOK
  <2> QED
    BY <2>2 DEF LockInv, TypeOK, Place
<1>5. RoundToGo'
  BY <1>2 DEF LockInv, RoundToGo
<1>6. OwnerIsCurrent'
  <2> SUFFICES ASSUME NEW s \in Task, place'[s] = "read"
               PROVE  seen'[s] = data'[LockOf[s]]
    BY DEF OwnerIsCurrent
  <2>1. s # t /\ place[s] = "read"
    BY <1>2
  <2>2. owner[k] = t /\ owner[LockOf[s]] = s
    BY <1>1, <2>1, ConstantFacts DEF LockInv, OneOwner, Owning
  <2>3. LockOf[s] # k
    BY <2>1, <2>2
  <2>4. data'[LockOf[s]] = data[LockOf[s]] /\ seen'[s] = seen[s]
    BY <1>1, <2>1, <2>3, ConstantFacts DEF LockInv, TypeOK
  <2> QED
    BY <2>1, <2>4 DEF LockInv, OwnerIsCurrent
<1>7. Atomic!Turn(t)
  BY <1>2, TurnTaken
<1>8. Atomic!Update(t)
  <2>1. data' = [data EXCEPT ![k] = Append(data[k], t)]
    BY <1>1
  <2> QED
    BY <1>7, <2>1 DEF Atomic!Update
<1> QED
  BY <1>3, <1>4, <1>5, <1>6, <1>8 DEF LockInv, Seen, Atomic!Next

LEMMA NoWriteKeeps ==
  ASSUME LockInv, NEW t \in Task, NoWrite(t)
  PROVE  LockInv' /\ Seen
<1> PICK q \in {"written", "asleep"} :
      /\ place[t] = "read" /\ place' = [place EXCEPT ![t] = q]
      /\ seen' = [seen EXCEPT ![t] = << >>]
      /\ UNCHANGED <<round, owner, queue, data, abandoned>>
  BY DEF NoWrite, Goes
<1>1. place'[t] = q /\ \A s \in Task \ {t} : place'[s] = place[s]
  BY DEF LockInv, TypeOK
<1>2. OneOwner'
  BY StaysOneOwner DEF LockInv, Owning
<1>3. TypeOK'
  <2>1. << >> \in Seq(Task)
    OBVIOUS
  <2>2. seen' \in [Task -> Seq(Task)]
    BY <2>1 DEF LockInv, TypeOK
  <2> QED
    BY <2>2 DEF LockInv, TypeOK, Place
<1>4. \A s \in Task \ {t} : seen'[s] = seen[s]
  BY DEF LockInv, TypeOK
<1>5. RoundToGo' /\ OwnerIsCurrent'
  BY <1>1, <1>4 DEF LockInv, RoundToGo, OwnerIsCurrent
<1>6. Atomic!Skip(t)
  BY <1>1, TurnTaken DEF Atomic!Skip, NoWrite
<1> QED
  BY <1>2, <1>3, <1>5, <1>6 DEF LockInv, Seen, Atomic!Next

\* A round that ends was counted when its update was made.
LEMMA RoundEnds ==
  ASSUME LockInv, NEW t \in Task, place[t] \in {"written", "asleep"},
         place'[t] = NextRound(t), round' = [round EXCEPT ![t] = round[t] + 1],
         \A s \in Task \ {t} : /\ place'[s] \in {"written", "asleep"}
                                  <=> place[s] \in {"written", "asleep"}
                               /\ place[s] = "done" => place'[s] = "done"
  PROVE  Turns' = Turns /\ RoundToGo' /\ round' \in [Task -> Nat]
         /\ \A s \in Task : round'[s] <= Rounds[s]
<1>1. round[t] \in Nat /\ Rounds[t] \in Nat /\ round[t] < Rounds[t]
  BY ConstantFacts DEF LockInv, TypeOK, RoundToGo
<1>2. round'[t] = round[t] + 1 /\ \A s \in Task \ {t} : round'[s] = round[s]
  BY DEF LockInv, TypeOK
<1>3. NextRound(t) \in {"woken", "done"}
      /\ (NextRound(t) # "done" => round[t] + 1 < Rounds[t])
  BY DEF NextRound
<1>4. Turns' = Turns
  BY <1>1, <1>2, <1>3 DEF Turns
<1>5. RoundToGo'
  <2> SUFFICES ASSUME NEW s \in Task, place'[s] # "done"
               PROVE  round'[s] < Rounds[s]
    BY DEF RoundToGo
  <2>1. CASE s = t
    BY <1>2, <1>3, <2>1
  <2>2. CASE s # t
    <3>1. place[s] # "done"
      BY <2>2
    <3> QED
      BY <1>2, <2>2, <3>1 DEF LockInv, RoundToGo
  <2> QED
    BY <2>1, <2>2
<1>6. round' \in [Task -> Nat]
  BY <1>1 DEF LockInv, TypeOK
<1>7. round[t] + 1 <= Rounds[t]
  BY <1>1
<1>8. \A s \in Task : round'[s] <= Rounds[s]
  BY <1>2, <1>7 DEF LockInv, TypeOK
<1> QED
  BY <1>4, <1>5, <1>6, <1>8

LEMMA ReleaseKeeps ==
  ASSUME LockInv, NEW t \in Task, Release(t)
  PROVE  LockInv' /\ Seen
<1>1. /\ place[t] \in {"written", "asleep"} /\ place' = [place EXCEPT ![t] = NextRound(t)]
      /\ queue[LockOf[t]] = << >>
      /\ round' = [round EXCEPT ![t] = round[t] + 1]
      /\ owner' = [owner EXCEPT ![LockOf[t]] = None]
      /\ UNCHANGED <<queue, data, seen, abandoned>>
  BY DEF Release
<1>2. place'[t] = NextRound(t) /\ \A s \in Task \ {t} : place'[s] = place[s]
  BY <1>1 DEF LockInv, TypeOK
<1>3. NextRound(t) \in {"woken", "done"}
  BY DEF NextRound
<1>4. OneOwner'
  BY <1>1, <1>3, LeavesOneOwner DEF LockInv, Owning
<1>5. Turns' = Turns /\ RoundToGo' /\ round' \in [Task -> Nat]
      /\ \A s \in Task : round'[s] <= Rounds[s]
  BY <1>1, <1>2, RoundEnds
<1>6. TypeOK'
  <2>1. place' \in [Task -> Place]
    BY <1>1, <1>3 DEF LockInv, TypeOK, Place
  <2>2. owner' \in [Lock -> Task \cup {None}]
    BY <1>1, ConstantFacts DEF LockInv, TypeOK
  <2> QED
    BY <1>1, <1>5, <2>1, <2>2 DEF LockInv, TypeOK
<1>7. OwnerIsCurrent'
  BY <1>1, <1>2, <1>3 DEF LockInv, OwnerIsCurrent
<1> QED
  BY <1>1, <1>4, <1>5, <1>6, <1>7 DEF LockInv, Seen

LEMMA HandOverKeeps ==
  ASSUME LockInv, NEW t \in Task, HandOver(t)
  PROVE  LockInv' /\ Seen
<1> DEFINE k == LockOf[t]
           h == Head(queue[k])
<1>1. /\ place[t] \in {"written", "asleep"}
      /\ place' = [place EXCEPT ![t] = NextRound(t), ![h] = "granted"]
      /\ queue[k] # << >>
      /\ round' = [round EXCEPT ![t] = round[t] + 1]
      /\ owner' = [owner EXCEPT ![k] = h]
      /\ queue' = [queue EXCEPT ![k] = Tail(queue[k])]
      /\ UNCHANGED <<data, seen, abandoned>>
  BY DEF HandOver
<1>2. NextRound(t) \in {"woken", "done"}
  BY DEF NextRound
<1>3. OneOwner' /\ h \in Task /\ h # t /\ place[h] = "queued"
  BY <1>1, <1>2, HandsOneOwner DEF LockInv, Owning
<1>4. /\ place'[t] = NextRound(t) /\ place'[h] = "granted"
      /\ \A s \in Task \ {t, h} : place'[s] = place[s]
  BY <1>1, <1>3 DEF LockInv, TypeOK
<1>5. Turns' = Turns /\ RoundToGo' /\ round' \in [Task -> Nat]
      /\ \A s \in Task : round'[s] <= Rounds[s]
  BY <1>1, <1>3, <1>4, RoundEnds
<1>6. TypeOK'
  <2>1. place' \in [Task -> Place]
    BY <1>1, <1>2 DEF LockInv, TypeOK, Place
  <2>2. owner' \in [Lock -> Task \cup {None}]
    BY <1>1, <1>3 DEF LockInv, TypeOK
  <2>3. queue' \in [Lock -> Seq(Task)]
    <3>1. k \in Lock /\ Tail(queue[k]) \in Seq(Task)
      BY <1>1, ConstantFacts DEF LockInv, TypeOK
    <3> QED
      BY <1>1, <3>1 DEF LockInv, TypeOK
  <2> QED
    BY <1>1, <1>5, <2>1, <2>2, <2>3 DEF LockInv, TypeOK
<1>7. OwnerIsCurrent'
  BY <1>1, <1>2, <1>3, <1>4 DEF LockInv, OwnerIsCurrent
<1> QED
  BY <1>1, <1>3, <1>5, <1>6, <1>7 DEF LockInv, Seen

\* Who is abandoned keeps what it has.
LEMMA AbandonKeeps ==
  ASSUME LockInv, NEW t \in Task, Abandon(t)
  PROVE  LockInv' /\ Seen
<1>1. UNCHANGED <<place, round, owner, queue, data, seen>>
      /\ abandoned' \subseteq Abandonable
  BY DEF Abandon, LockInv, TypeOK
<1>2. TypeOK' /\ Turns' = Turns
  BY <1>1 DEF LockInv, TypeOK, Turns
<1> QED
  BY <1>1, <1>2 DEF LockInv, OneOwner, RoundToGo, OwnerIsCurrent, Seen

\* Every step keeps the invariant and does at most one update.
LEMMA StepKeeps ==
  ASSUME LockInv, [Next]_vars
  PROVE  LockInv' /\ Seen
<1>1. CASE UNCHANGED vars
  <2>1. UNCHANGED <<place, round, owner, queue, data, seen, abandoned>>
    BY <1>1 DEF vars
  <2>2. TypeOK' /\ Turns' = Turns
    BY <2>1 DEF LockInv, TypeOK, Turns
  <2> QED
    BY <2>1, <2>2 DEF LockInv, OneOwner, RoundToGo, OwnerIsCurrent, Seen
<1>2. ASSUME NEW t \in Task, Step(t) \/ Abandon(t)
      PROVE  LockInv' /\ Seen
  <2>1. CASE Begin(t)
    <3>1. Goes(t, "new", "woken")
          /\ UNCHANGED <<round, owner, queue, data, seen, abandoned>>
      BY <2>1 DEF Begin
    <3> QED
      BY <3>1, MoveKeeps DEF Place, Owning
  <2>2. CASE Poll(t)
    <3>1. Goes(t, "woken", "polling")
          /\ UNCHANGED <<round, owner, queue, data, seen, abandoned>>
      BY <2>2 DEF Poll
    <3> QED
      BY <3>1, MoveKeeps DEF Place, Owning
  <2>3. CASE TryFails(t)
    <3>1. Goes(t, "polling", "woken")
          /\ UNCHANGED <<round, owner, queue, data, seen, abandoned>>
      BY <2>3 DEF TryFails
    <3> QED
      BY <3>1, MoveKeeps DEF Place, Owning
  <2>4. CASE Resume(t)
    <3>1. Goes(t, "granted", "holding")
          /\ UNCHANGED <<round, owner, queue, data, seen, abandoned>>
      BY <2>4 DEF Resume
    <3> QED
      BY <3>1, MoveKeeps DEF Place, Owning
  <2>5. CASE TryLocks(t) \/ LockNow(t)
    BY <2>5, TakeKeeps
  <2>6. CASE LockLater(t)
    BY <2>6, QueueKeeps
  <2>7. CASE Read(t)
    BY <2>7, ReadKeeps
  <2>8. CASE Write(t)
    BY <2>8, WriteKeeps
  <2>9. CASE NoWrite(t)
    BY <2>9, NoWriteKeeps
  <2>10. CASE Release(t)
    BY <2>10, ReleaseKeeps
  <2>11. CASE HandOver(t)
    BY <2>11, HandOverKeeps
  <2>12. CASE Abandon(t)
    BY <2>12, AbandonKeeps
  <2> QED
    BY <1>2, <2>1, <2>2, <2>3, <2>4, <2>5, <2>6, <2>7, <2>8, <2>9, <2>10, <2>11, <2>12 DEF Step
<1> QED
  BY <1>1, <1>2 DEF Next

LEMMA StartsRight == Init => LockInv /\ Atomic!Init
<1> SUFFICES ASSUME Init
             PROVE  LockInv /\ Atomic!Init
  OBVIOUS
<1>1. place \in [Task -> {"new", "absent"}] /\ \A t \in Task : place[t] \in {"new", "absent"}
  <2> PICK p \in Program : place = [t \in Task |-> IF t \in p THEN "new" ELSE "absent"]
    BY DEF Init
  <2> QED
    OBVIOUS
<1>2. /\ round = [t \in Task |-> 0] /\ owner = [l \in Lock |-> None]
      /\ queue = [l \in Lock |-> << >>] /\ data = [l \in Lock |-> << >>]
      /\ seen = [t \in Task |-> << >>] /\ abandoned = {}
  BY DEF Init
<1>3. TypeOK
  <2>1. place \in [Task -> Place]
    BY <1>1 DEF Place
  <2>2. \A t \in Task : round[t] <= Rounds[t]
    <3> SUFFICES ASSUME NEW t \in Task
                 PROVE  round[t] <= Rounds[t]
      OBVIOUS
    <3>1. round[t] = 0 /\ Rounds[t] \in Nat
      BY <1>2, ConstantFacts
    <3> QED
      BY <3>1
  <2> QED
    BY <1>2, <2>1, <2>2 DEF TypeOK
<1>4. OneOwner
  <2>1. \A t \in Task : t # None /\ place[t] \notin Owning /\ place[t] # "queued"
    BY <1>1, LockAssumption DEF Owning
  <2>2. \A l \in Lock : owner[l] = None /\ queue[l] = << >> /\ 1 .. Len(queue[l]) = {}
    BY <1>2
  <2> QED
    BY <2>1, <2>2 DEF OneOwner
<1>5. RoundToGo
  BY <1>2, ConstantFacts DEF RoundToGo
<1>6. OwnerIsCurrent
  BY <1>1 DEF OwnerIsCurrent
<1>7. Turns = [t \in Task |-> 0]
  BY <1>1, <1>2 DEF Turns
<1> QED
  BY <1>2, <1>3, <1>4, <1>5, <1>6, <1>7 DEF LockInv, Atomic!Init

LEMMA LockInvHolds == Spec => []LockInv
<1>1. Init => LockInv
  BY StartsRight
<1>2. LockInv /\ [Next]_vars => LockInv'
  BY StepKeeps
<1> QED
  BY <1>1, <1>2, PTL DEF Spec

-----------------------------------------------------------------------------
(* Theorems.                                                               *)

\* Where a task is, what it has read and what is written stay what the programs
\* keep there, and no task takes its lock more often than it means to.
THEOREM LockTypes == Spec => []TypeOK
<1>1. LockInv => TypeOK
  BY DEF LockInv
<1> QED
  BY <1>1, LockInvHolds, PTL

\* However tasks try, queue, are handed the lock and leave futures behind, a lock
\* has one owner and its queue is the tasks that wait for it.
THEOREM LockHasOneOwner == Spec => []OneOwner
<1>1. LockInv => OneOwner
  BY DEF LockInv
<1> QED
  BY <1>1, LockInvHolds, PTL

\* Reading, changing and writing back under the lock is one atomic update of the
\* counter or the log: no update is lost, and each round makes exactly one.
THEOREM UpdatesInTurn == Spec => UpdatesAreAtomic
<1>1. Init => Atomic!Init
  BY StartsRight
<1>2. LockInv /\ [Next]_vars => [Atomic!Next]_(Atomic!vars)
  BY StepKeeps DEF Seen, Atomic!vars
<1> QED
  BY <1>1, <1>2, LockInvHolds, PTL DEF Spec, UpdatesAreAtomic, Atomic!Spec
=============================================================================
